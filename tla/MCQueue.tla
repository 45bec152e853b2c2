------------------------------ MODULE MCQueue -------------------------------
(***************************************************************************)
(* The job queue of the agents, with the package rollouts and the package  *)
(* plans that put operations on it: three instances in one run. A          *)
(* behaviour is about one of them, `sel', and leaves the variables of the  *)
(* others as they were.                                                    *)
(***************************************************************************)
EXTENDS AgentJobs

CONSTANTS n1, ja, jb

\* Operations 1 and 2 mutate the same node for different parents; operation 3
\* reads the node for the first parent.
MCNodeOf == <<n1, n1, n1>>
MCParentOf == <<ja, jb, ja>>
MCCapabilities == {1..3, 2..3}

\* A replacement everywhere, and a canary that already runs the release
\* before one node to install and one to replace.
Fleet == <<"a", "b", "c">>
FleetPriors == {[n \in {"a", "b", "c"} |-> "old"],
                [n \in {"a", "b", "c"} |-> CASE n = "a" -> "same" [] n = "b" -> "none" [] n = "c" -> "old"]}

VARIABLES
  rollout_via, rollout_prior, rollout_rollout, rollout_job, rollout_node,
  rollout_queue, rollout_serving, rollout_revert,
  plans_plan, plans_call, plans_jobs, plans_inventory, plans_head,
  plans_run, plans_latest, plans_ops, plans_previews, plans_known,
  plans_published, plans_count,
  sel   \* the component this behaviour is about

rolloutVars == <<rollout_via, rollout_prior, rollout_rollout, rollout_job,
                 rollout_node, rollout_queue, rollout_serving,
                 rollout_revert>>
plansVars == <<plans_plan, plans_call, plans_jobs, plans_inventory,
               plans_head, plans_run, plans_latest, plans_ops,
               plans_previews, plans_known, plans_published, plans_count>>

Rollout == INSTANCE PackageRollouts WITH
  NodeOrder <- Fleet, Priors <- FleetPriors,
  Boundaries <- {"queue", "direct"},
  Outcomes <- {"succeeded", "failed", "waiting-for-operator"},
  MaxApplies <- 1, via <- rollout_via, prior <- rollout_prior,
  rollout <- rollout_rollout, job <- rollout_job, node <- rollout_node,
  queue <- rollout_queue, serving <- rollout_serving,
  revert <- rollout_revert

Plans == INSTANCE PackagePlans WITH
  Kinds <- {"repair", "remove", "gc"}, Requests <- {"r1", "r2"},
  MaxInventory <- 1, MaxCommits <- 1, MaxRuns <- 2, MaxPreviews <- 1,
  MaxCrashes <- 1, plan <- plans_plan, call <- plans_call,
  jobs <- plans_jobs, inventory <- plans_inventory, head <- plans_head,
  run <- plans_run, latest <- plans_latest, ops <- plans_ops,
  previews <- plans_previews, known <- plans_known,
  published <- plans_published, count <- plans_count

\* The actions on plans share nothing but the lock on applies, so a behaviour
\* follows the plans of one action.
FocusOf(k) == IF k[1] \in {"validate", "promote"} THEN "release" ELSE k[1]
PlansNext ==
  /\ Plans!Next
  /\ \A k \in Plans!Key : plans_plan'[k] # plans_plan[k] => FocusOf(k) = sel
  /\ sel = "release" => plans_inventory' = plans_inventory
  /\ sel # "release" => plans_head' = plans_head

MCInit ==
  /\ sel \in {"queue", "rollout", "repair", "remove", "gc", "release"}
  /\ Init
  /\ IF sel = "rollout" THEN Rollout!Init
     ELSE /\ rollout_via = "off"
          /\ rollout_prior = "off"
          /\ rollout_rollout = "off"
          /\ rollout_job = "off"
          /\ rollout_node = "off"
          /\ rollout_queue = "off"
          /\ rollout_serving = "off"
          /\ rollout_revert = "off"
  /\ IF sel \in {"repair", "remove", "gc", "release"} THEN Plans!Init
     ELSE /\ plans_plan = "off"
          /\ plans_call = "off"
          /\ plans_jobs = {}
          /\ plans_inventory = "off"
          /\ plans_head = "off"
          /\ plans_run = "off"
          /\ plans_latest = "off"
          /\ plans_ops = "off"
          /\ plans_previews = "off"
          /\ plans_known = "off"
          /\ plans_published = "off"
          /\ plans_count = "off"

MCNext ==
  \/ sel = "queue" /\ Next
       /\ UNCHANGED <<rolloutVars, plansVars, sel>>
  \/ sel = "rollout" /\ Rollout!Next
       /\ UNCHANGED <<vars, plansVars, sel>>
  \/ sel \in {"repair", "remove", "gc", "release"} /\ PlansNext
       /\ UNCHANGED <<vars, rolloutVars, sel>>

all == <<vars, rolloutVars, plansVars, sel>>

MCSpec == MCInit /\ [][MCNext]_all

-----------------------------------------------------------------------------
\* A package rollout begins with its canary and takes a running release away
\* only when its successor is prepared; a rollout that completed serves the
\* new release, one that was rolled back the old, and none is forgotten.
RolloutServes ==
  sel = "rollout" =>
    /\ Rollout!TypeOK
    /\ Rollout!CanaryFirst
    /\ Rollout!StoppedOnlyPrepared
    /\ Rollout!CompletedMeansServing
    /\ Rollout!RolledBackMeansOld
    /\ Rollout!NeverForgotten

\* However often and in whichever order plans are applied, and wherever the
\* process dies, a plan is queued once and for what its preview showed, a
\* validation passes on evidence of its own operations only, and what is
\* published was validated.
PlansHonoured ==
  /\ [](sel \in {"repair", "remove", "gc", "release"} =>
          /\ Plans!TypeOK
          /\ Plans!QueuedOnce
          /\ Plans!PassedOnEvidence)
  /\ Plans!QueuedAsPreviewed
  /\ Plans!PublishedValidated
=============================================================================
