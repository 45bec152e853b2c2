----------------------------- MODULE MCPlanning -----------------------------
(***************************************************************************)
(* The control plane's job queue and workers, with the planning of desired *)
(* state. A behaviour is about one of them, `sel', and leaves the          *)
(* variables of the other as they were.                                    *)
(***************************************************************************)
EXTENDS ControlJobs

MCOthers == <<"reconciliations", "updates">>

\* Three linked nodes; a workload on two nodes and one on a single node.
Document(want, ordered) ==
  LET wanted == {w \in 1 .. 2 : want[w] # 0}
  IN  [want |-> want, ordered |-> ordered, required |-> wanted, exclusive |-> TRUE,
       profileHash |-> want, workloadHash |-> want, releaseHash |-> want,
       endpoints |-> wanted, quotas |-> wanted,
       conflicts |-> [w \in 1 .. 2 |-> {}]]

\* Three profiles, and commits that left the documents of one inconsistent.
MCProfiles ==
  LET pair == Document(<<1, 0>>, TRUE)
      both == Document(<<1, 1>>, TRUE)
      single == Document(<<0, 2>>, FALSE)
  IN  {pair, both, single,
       [pair EXCEPT !.endpoints = {1, 2}, !.quotas = {1, 2}],
       [both EXCEPT !.exclusive = FALSE],
       [both EXCEPT !.conflicts[1] = {2}],
       [single EXCEPT !.workloadHash[2] = 1]}

VARIABLES
  desired_plans, desired_history, desired_running, desired_foreign,
  desired_obs, desired_now, desired_faults,
  sel   \* the component this behaviour is about

desiredVars == <<desired_plans, desired_history, desired_running,
                 desired_foreign, desired_obs, desired_now, desired_faults>>

Desired == INSTANCE DesiredState WITH
  Nodes <- 1 .. 3, Workloads <- 1 .. 2, NodeCount <- <<2, 1>>,
  Preferred <- <<<<>>, <<2>>>>, Linked <- {{1, 2, 3}},
  Profiles <- MCProfiles, MaxNow <- 2, MaxPlans <- 2, MaxFaults <- 1,
  plans <- desired_plans, history <- desired_history,
  running <- desired_running, foreign <- desired_foreign,
  obs <- desired_obs, now <- desired_now, faults <- desired_faults

MCInit ==
  /\ sel \in {"jobs", "desired"}
  /\ Init
  /\ sel # "jobs" => mode = "production" /\ backlog = {} /\ \A j \in Jobs : job[j].st = "queued"
  /\ Desired!Init

MCNext ==
  \/ sel = "jobs" /\ Next
       /\ UNCHANGED <<desiredVars, sel>>
  \/ sel = "desired" /\ Desired!Next
       /\ UNCHANGED <<vars, sel>>

\* The fairness of ControlJobs, in the behaviours that are about it.
MainFair ==
  /\ \A w \in Workers : WF_vars(sel = "jobs" /\ Run(w))
  /\ \A w \in Workers : WF_vars(sel = "jobs" /\ Ends(w))
  /\ WF_vars(sel = "jobs" /\ Tick)

\* The fairness of DesiredState, in the behaviours that are about it.
DesiredFair ==
  /\ WF_desiredVars(sel = "desired" /\ Desired!Worker)

all == <<vars, desiredVars, sel>>

MCSpec == MCInit /\ [][MCNext]_all

-----------------------------------------------------------------------------
\* A job that has ended stays as it ended, a job that nobody can run is put
\* aside, and every source of work gets its turn.
JobsSettle ==
  /\ EndedForGood
  /\ sel = "jobs" /\ MainFair => UnlinkedPutAside
  /\ sel = "jobs" /\ MainFair => NoSourceStarves

\* Plans load again as they were stored, never put two workloads on a node,
\* start the entrypoint in order and leave retained workloads alone; what the
\* replay of accepted evidence believes is what the nodes run, and an applied
\* plan ends unless it is blocked for good.
PlansReal ==
  /\ [](sel = "desired" =>
          /\ Desired!TypeOK
          /\ Desired!PlansReload
          /\ Desired!NoCoResidence
          /\ Desired!EntrypointOrder
          /\ Desired!ReplayIsDesired
          /\ Desired!BeliefIsReal
          /\ Desired!RoutedWorkloadRuns)
  /\ Desired!RetainedUntouched
  /\ sel = "desired" /\ DesiredFair => Desired!AppliedEnds
=============================================================================
