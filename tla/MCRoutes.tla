------------------------------ MODULE MCRoutes ------------------------------
(***************************************************************************)
(* The published routes and their supervisor, with the activation of an    *)
(* agent release, the publication of workload trust and the slot           *)
(* supervisor left undisturbed. A behaviour is about one of them, `sel',   *)
(* and leaves the variables of the others as they were.                    *)
(***************************************************************************)
EXTENDS RouteRuntime

VARIABLES
  activation_published, activation_receipts, activation_expired,
  activation_agent, activation_step, activation_staged, activation_partial,
  activation_request, activation_watch, activation_todo, activation_doing,
  activation_slot, activation_floor, activation_used, activation_state,
  activation_readiness, activation_challenge, activation_sup,
  activation_late, activation_ready, activation_stops,
  trust_head, trust_expired, trust_job, trust_waiting, trust_memo, trust_pc,
  trust_new, trust_turn, trust_newRoot, trust_lock, trust_target,
  trust_releases, trust_snapshot, trust_timestamp, trust_rootFiles,
  trust_root, trust_floor, trust_asked, trust_read, trust_authorised,
  trust_faults,
  slots_slots, slots_state, slots_challenge, slots_current, slots_previous,
  slots_late, slots_publishing, slots_sup, slots_agent, slots_readiness,
  slots_package, slots_data, slots_installs, slots_crashes, slots_contacted,
  slots_trusted,
  sel   \* the component this behaviour is about

activationVars == <<activation_published, activation_receipts,
                    activation_expired, activation_agent, activation_step,
                    activation_staged, activation_partial,
                    activation_request, activation_watch, activation_todo,
                    activation_doing, activation_slot, activation_floor,
                    activation_used, activation_state, activation_readiness,
                    activation_challenge, activation_sup, activation_late,
                    activation_ready, activation_stops>>
trustVars == <<trust_head, trust_expired, trust_job, trust_waiting,
               trust_memo, trust_pc, trust_new, trust_turn, trust_newRoot,
               trust_lock, trust_target, trust_releases, trust_snapshot,
               trust_timestamp, trust_rootFiles, trust_root, trust_floor,
               trust_asked, trust_read, trust_authorised, trust_faults>>
slotsVars == <<slots_slots, slots_state, slots_challenge, slots_current,
               slots_previous, slots_late, slots_publishing, slots_sup,
               slots_agent, slots_readiness, slots_package, slots_data,
               slots_installs, slots_crashes, slots_contacted, slots_trusted>>

Activation == INSTANCE AgentActivation WITH
  MaxPublished <- 2, MaxReceipts <- 2, MaxStops <- 2, TriggerBurst <- 2,
  MaxBootAttempts <- 2, published <- activation_published,
  receipts <- activation_receipts, expired <- activation_expired,
  agent <- activation_agent, step <- activation_step,
  staged <- activation_staged, partial <- activation_partial,
  request <- activation_request, watch <- activation_watch,
  todo <- activation_todo, doing <- activation_doing,
  slot <- activation_slot, floor <- activation_floor,
  used <- activation_used, state <- activation_state,
  readiness <- activation_readiness, challenge <- activation_challenge,
  sup <- activation_sup, late <- activation_late, ready <- activation_ready,
  stops <- activation_stops

Trust == INSTANCE WorkloadTrust WITH
  Locks <- {"l1", "l2"}, None <- "None", MaxCommits <- 2, MaxVersion <- 3,
  MaxFaults <- 2, head <- trust_head, expired <- trust_expired,
  job <- trust_job, waiting <- trust_waiting, memo <- trust_memo,
  pc <- trust_pc, new <- trust_new, turn <- trust_turn,
  newRoot <- trust_newRoot, lock <- trust_lock, target <- trust_target,
  releases <- trust_releases, snapshot <- trust_snapshot,
  timestamp <- trust_timestamp, rootFiles <- trust_rootFiles,
  root <- trust_root, floor <- trust_floor, asked <- trust_asked,
  read <- trust_read, authorised <- trust_authorised, faults <- trust_faults

Undisturbed == INSTANCE SlotSupervisor WITH
  Artifacts <- {"r2", "r3"}, Writes <- [r2 |-> 2, r3 |-> 3],
  MinReadable <- [r2 |-> 1, r3 |-> 2], MaxReadable <- [r2 |-> 3, r3 |-> 3],
  Refusing <- FALSE, Substituting <- TRUE, MaxGeneration <- 2,
  MaxInstalls <- 2, MaxCrashes <- 0, slots <- slots_slots,
  state <- slots_state, challenge <- slots_challenge,
  current <- slots_current, previous <- slots_previous, late <- slots_late,
  publishing <- slots_publishing, sup <- slots_sup, agent <- slots_agent,
  readiness <- slots_readiness, package <- slots_package,
  data <- slots_data, installs <- slots_installs, crashes <- slots_crashes,
  contacted <- slots_contacted, trusted <- slots_trusted

MCInit ==
  /\ sel \in {"routes", "activation", "trust", "slots"}
  /\ Init
  /\ Activation!Init
  /\ Trust!Init
  /\ Undisturbed!Init

MCNext ==
  \/ sel = "routes" /\ Next
       /\ UNCHANGED <<activationVars, trustVars, slotsVars, sel>>
  \/ sel = "activation" /\ Activation!Next
       /\ UNCHANGED <<vars, trustVars, slotsVars, sel>>
  \/ sel = "trust" /\ Trust!Next
       /\ UNCHANGED <<vars, activationVars, slotsVars, sel>>
  \/ sel = "slots" /\ Undisturbed!Next
       /\ UNCHANGED <<vars, activationVars, trustVars, sel>>

\* The fairness of RouteRuntime, in the behaviours that are about it.
MainFair ==
  /\ WF_vars(sel = "routes" /\ Supervisor)
  /\ \A c \in Callers : WF_vars(sel = "routes" /\ TimesOut(c))

\* The fairness of AgentActivation, in the behaviours that are about it.
ActivationFair ==
  /\ WF_activationVars(sel = "activation" /\ Activation!Replace)
  /\ WF_activationVars(sel = "activation" /\ (\E k \in Activation!Kinds : Activation!Trigger(k)))
  /\ WF_activationVars(sel = "activation" /\ Activation!Supervise)
  /\ WF_activationVars(sel = "activation" /\ Activation!RunAgent)
  /\ WF_activationVars(sel = "activation" /\ Activation!DeadlinePasses)

\* The fairness of WorkloadTrust, in the behaviours that are about it.
TrustFair ==
  /\ WF_trustVars(sel = "trust" /\ Trust!SignerStep)
  /\ WF_trustVars(sel = "trust" /\ Trust!ToolStep)
  /\ \A l \in {"l1", "l2"} : SF_trustVars(sel = "trust" /\ Trust!Publish(l))

\* The fairness of SlotSupervisor, in the behaviours that are about it.
UndisturbedFair ==
  /\ WF_slotsVars(sel = "slots" /\ Undisturbed!Publish)
  /\ WF_slotsVars(sel = "slots" /\ Undisturbed!Published)
  /\ WF_slotsVars(sel = "slots" /\ Undisturbed!Activated)
  /\ WF_slotsVars(sel = "slots" /\ Undisturbed!Supervise)
  /\ WF_slotsVars(sel = "slots" /\ Undisturbed!AgentVerifies)
  /\ WF_slotsVars(sel = "slots" /\ Undisturbed!AgentRuns)
  /\ WF_slotsVars(sel = "slots" /\ Undisturbed!TimePasses)

all == <<vars, activationVars, trustVars, slotsVars, sel>>

MCSpec == MCInit /\ [][MCNext]_all

-----------------------------------------------------------------------------
\* Routes whose lease has run out or whose marker was replaced come down, and
\* every caller of the publisher gets an answer.
RoutesSettle ==
  /\ [](TypeOK)
  /\ sel = "routes" /\ MainFair => StaleRoutesComeDown
  /\ sel = "routes" /\ MainFair => CallsReturn

\* Wherever power is lost, the Python agent keeps an executable that boots,
\* commits only what has run, moves at most once per receipt and ends its
\* activations and requests or meets a named obstacle; and the slot
\* supervisor of the Rust agent, left undisturbed, settles.
ActivationSettles ==
  /\ [](sel = "activation" =>
          /\ Activation!TypeOK
          /\ Activation!AlwaysBoots)
  /\ Activation!CommittedRan
  /\ Activation!MovesOnce
  /\ sel = "activation" /\ ActivationFair => Activation!ActivationEnds
  /\ sel = "activation" /\ ActivationFair => Activation!RequestEnds
  /\ sel = "slots" /\ UndisturbedFair => Undisturbed!SettlesUndisturbed

\* Planning and publication in any order, and a signer that dies between any
\* two files, leave a whole chain of metadata on disk; an answered
\* publication is delivered and kept, what planning authorises holds, and
\* publications end unless the signer died in the named window.
TrustPublished ==
  /\ [](sel = "trust" =>
          /\ Trust!TypeOK
          /\ Trust!ChainWhole
          /\ Trust!AnsweredDelivered
          /\ Trust!AuthorisedHolds)
  /\ Trust!PublishedKept
  /\ sel = "trust" /\ TrustFair => Trust!PublishEnds
=============================================================================
