---------------------------- MODULE RouteRuntime ----------------------------
(***************************************************************************)
(* The publication of routes to LiteLLM:                                   *)
(* control/src/vonk_control/route_runtime.py (AtomicRouteBundlePublisher,  *)
(* FileSupervisorAcknowledger) in the worker, the API and the update       *)
(* worker, and deploy/compose/litellm/config_supervisor.py in the proxy's  *)
(* container.                                                              *)
(*                                                                         *)
(* They share a volume: the immutable directory of each generation, the    *)
(* activation marker that names one of them, the update boundary and a     *)
(* file lock on the one side, the acknowledgement of the supervisor on the *)
(* other.  A publisher writes the marker and waits, with the lock held,    *)
(* for an acknowledgement of exactly that marker.  The supervisor polls    *)
(* the marker and restarts LiteLLM whenever it selects another             *)
(* configuration; a marker whose lease has ended selects the empty         *)
(* bootstrap configuration.                                                *)
(***************************************************************************)
EXTENDS Integers

CONSTANT MaxGeneration   \* bound: generations written

ASSUME GenerationAssumption == MaxGeneration \in Nat

VARIABLES
  marker,     \* activation.json: generation (0 for none), author and state
  lapsed,     \* the lease of the marker has ended
  boundary,   \* the update boundary is claimed
  call,       \* what each process is doing
  lock,       \* who holds the publication lock
  told,       \* the newest generation a caller was told is live
  failed,     \* the newest generation whose publication was reported as failed
  sup,        \* where the supervisor is
  selected,   \* the configuration it selected, 0 for the bootstrap
  child,      \* the configuration LiteLLM runs on, NoChild for none
  ack         \* the acknowledgement file: generation, and written just now

vars == <<marker, lapsed, boundary, call, lock, told, failed,
          sup, selected, child, ack>>

pubVars == <<marker, boundary, call, lock, told, failed>>
supVars == <<sup, selected, child, ack>>

Callers == {"worker", "api", "update"}

\* The worker publishes for the reconciler and for recipe runs, the API
\* withdraws recipe runs, the update worker publishes inside its boundary.
Authors == [worker |-> {"reconciliation", "recipe"}, api |-> {"recipe"}, update |-> {"update"}]

States == {"published", "maintenance"}

NoChild == -1

NoAck == [gen |-> 0, recent |-> FALSE]

Idle == [at |-> "idle", gen |-> 0]

Init ==
  /\ marker = [gen |-> 0, author |-> "none", state |-> "maintenance"]
  /\ lapsed = FALSE
  /\ boundary = FALSE
  /\ call = [c \in Callers |-> Idle]
  /\ lock = "none"
  /\ told = 0
  /\ failed = 0
  /\ sup = "down"
  /\ selected = 0
  /\ child = NoChild
  /\ ack = NoAck

-----------------------------------------------------------------------------
(* The publishers.                                                         *)

\* _require_update_boundary
Admitted(c) == (c = "update") = boundary

\* The active bundle may already be the one asked for, with the lease going on.
\* publish_compiled never looks for one, and the bundle of another
\* reconciliation, other evidence or a renewal inside the boundary is a new one.
Reusable(author, state) ==
  /\ author # "recipe"
  /\ marker.author = author /\ marker.state = state
  /\ ~ lapsed

\* publish, publish_compiled and withdraw up to the wait: take the lock, write
\* the generation and replace the marker.
Activate(c, author, state) ==
  /\ call[c].at = "idle" /\ lock = "none"
  /\ Admitted(c)
  /\ \/ /\ Reusable(author, state)
        /\ call' = [call EXCEPT ![c] = [at |-> "waiting", gen |-> marker.gen]]
        /\ UNCHANGED <<marker, lapsed>>
     \/ /\ marker.gen < MaxGeneration
        /\ marker' = [gen |-> marker.gen + 1, author |-> author, state |-> state]
        /\ lapsed' = FALSE
        /\ call' = [call EXCEPT ![c] = [at |-> "waiting", gen |-> marker.gen + 1]]
  /\ lock' = c
  /\ UNCHANGED <<boundary, told, failed, supVars>>

\* FileSupervisorAcknowledger._matches
Matches(g) == ack.gen = g /\ ack.recent /\ ~ lapsed

Acknowledged(c) ==
  /\ call[c].at = "waiting"
  /\ Matches(call[c].gen)
  /\ told' = call[c].gen
  /\ failed' = IF failed = call[c].gen THEN 0 ELSE failed
  /\ call' = [call EXCEPT ![c] = Idle]
  /\ lock' = "none"
  /\ UNCHANGED <<marker, lapsed, boundary, supVars>>

\* The wait ends with an error; the marker stays.
TimesOut(c) ==
  /\ call[c].at = "waiting"
  /\ failed' = call[c].gen
  /\ call' = [call EXCEPT ![c] = Idle]
  /\ lock' = "none"
  /\ UNCHANGED <<marker, lapsed, boundary, told, supVars>>

\* The process dies; the file lock goes with it.
Dies(c) ==
  /\ call[c].at = "waiting"
  /\ call' = [call EXCEPT ![c] = Idle]
  /\ lock' = "none"
  /\ UNCHANGED <<marker, lapsed, boundary, told, failed, supVars>>

\* claim_update_boundary and release_update_boundary
ClaimBoundary ==
  /\ ~ boundary /\ lock = "none"
  /\ boundary' = TRUE
  /\ UNCHANGED <<marker, lapsed, call, lock, told, failed, supVars>>

ReleaseBoundary ==
  /\ boundary /\ lock = "none"
  /\ boundary' = FALSE
  /\ UNCHANGED <<marker, lapsed, call, lock, told, failed, supVars>>

\* 300 seconds after it was issued a marker no longer counts.
Lapse ==
  /\ marker.gen # 0 /\ ~ lapsed
  /\ lapsed' = TRUE
  /\ UNCHANGED <<pubVars, supVars>>

-----------------------------------------------------------------------------
(* The supervisor.                                                         *)

\* _active_request, and the bootstrap configuration without one
Active == IF lapsed THEN 0 ELSE marker.gen

\* main reads the marker before the first start ...
Boot ==
  /\ sup = "down"
  /\ sup' = "launching"
  /\ selected' = Active
  /\ UNCHANGED <<pubVars, lapsed, child, ack>>

\* ... and starts LiteLLM on what it selected then.
Launch ==
  /\ sup = "launching"
  /\ sup' = "starting"
  /\ child' = selected
  /\ UNCHANGED <<pubVars, lapsed, selected, ack>>

WriteAck(g) == ack' = IF g = 0 THEN NoAck ELSE [gen |-> g, recent |-> TRUE]

Healthy ==
  /\ sup = "starting"
  /\ sup' = "watching"
  /\ WriteAck(selected)
  /\ UNCHANGED <<pubVars, lapsed, selected, child>>

\* The supervisor exits, with LiteLLM; the container is started again.
Exits ==
  /\ sup \in {"starting", "watching"}
  /\ sup' = "down"
  /\ selected' = 0
  /\ child' = NoChild
  /\ ack' = NoAck
  /\ UNCHANGED <<pubVars, lapsed>>

\* The container is killed: the acknowledgement stays behind.
Killed ==
  /\ sup # "down"
  /\ sup' = "down"
  /\ selected' = 0
  /\ child' = NoChild
  /\ UNCHANGED <<pubVars, lapsed, ack>>

\* Fault: the acknowledgement is renewed before the comparison.
PollAcknowledgesFirst ==
  /\ sup = "watching"
  /\ WriteAck(Active)
  /\ \/ Active # selected /\ sup' = "stopping" /\ selected' = Active
     \/ Active = selected /\ UNCHANGED <<sup, selected>>
  /\ UNCHANGED <<pubVars, lapsed, child>>

\* Fault: without a valid marker the supervisor leaves LiteLLM alone.
PollValidOnly ==
  /\ sup = "watching"
  /\ \/ /\ Active \notin {0, selected}
        /\ ack' = NoAck
        /\ sup' = "stopping"
        /\ selected' = Active
     \/ /\ Active \in {0, selected}
        /\ WriteAck(Active)
        /\ UNCHANGED <<sup, selected>>
  /\ UNCHANGED <<pubVars, lapsed, child>>

\* One round of the watch: another configuration makes it stop LiteLLM, the
\* same one renews the acknowledgement, unless LiteLLM is not healthy.
Poll ==
  /\ sup = "watching"
  /\ \/ /\ Active # selected
        /\ ack' = NoAck
        /\ sup' = "stopping"
        /\ selected' = Active
     \/ /\ Active = selected
        /\ WriteAck(selected) \/ ack' = NoAck
        /\ UNCHANGED <<sup, selected>>
  /\ UNCHANGED <<pubVars, lapsed, child>>

Stopped ==
  /\ sup = "stopping"
  /\ sup' = "launching"
  /\ child' = NoChild
  /\ UNCHANGED <<pubVars, lapsed, selected, ack>>

\* More than five seconds pass without a new acknowledgement.
AckAges ==
  /\ ack.recent
  /\ ack' = [ack EXCEPT !.recent = FALSE]
  /\ UNCHANGED <<pubVars, lapsed, sup, selected, child>>

Publishers ==
  \/ \E c \in Callers :
       \/ \E author \in Authors[c], state \in States : Activate(c, author, state)
       \/ Acknowledged(c) \/ TimesOut(c) \/ Dies(c)
  \/ ClaimBoundary \/ ReleaseBoundary

Supervisor == Boot \/ Launch \/ Healthy \/ Poll \/ Stopped

Next == Publishers \/ Supervisor \/ Exits \/ Killed \/ AckAges \/ Lapse

\* The supervisor's loop goes on and its container is restarted; a wait ends
\* after 30 seconds.
Fairness ==
  /\ WF_vars(Supervisor)
  /\ \A c \in Callers : WF_vars(TimesOut(c))

Spec == Init /\ [][Next]_vars /\ Fairness

-----------------------------------------------------------------------------
(* Correctness.                                                            *)

Generations == 0..MaxGeneration

TypeOK ==
  /\ marker \in [gen : Generations, author : {"none", "reconciliation", "recipe", "update"}, state : States]
  /\ lapsed \in BOOLEAN
  /\ boundary \in BOOLEAN
  /\ call \in [Callers -> [at : {"idle", "waiting"}, gen : Generations]]
  /\ lock \in Callers \cup {"none"}
  /\ told \in Generations
  /\ failed \in Generations
  /\ sup \in {"down", "launching", "starting", "watching", "stopping"}
  /\ selected \in Generations
  /\ child \in {NoChild} \cup Generations
  /\ ack \in [gen : Generations, recent : BOOLEAN]

\* The generation whose routes clients reach, 0 for none.
Served == IF child = NoChild THEN 0 ELSE child

\* The publisher, the shared volume and the supervisor together implement the
\* route board: what a caller was told is live is never followed by an older
\* bundle, although the supervisor starts LiteLLM on a marker it read earlier
\* and an acknowledgement outlives the supervisor that wrote it.
Board == INSTANCE RouteBoard WITH posted <- marker.gen, shown <- Served, told <- told

BoardSpec == Board!Spec

\* A bundle that was replaced, or whose lease has ended, is not served for
\* ever, although nothing tells the supervisor.
StaleRoutesComeDown ==
  \A g \in 1..MaxGeneration : child = g /\ Active # g ~> child # g

\* A caller's wait ends and gives the lock back, whatever the supervisor does.
CallsReturn == \A c \in Callers : []<>(lock # c)

=============================================================================
