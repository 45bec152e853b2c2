--------------------------- MODULE Reconciliation ---------------------------
(***************************************************************************)
(* The reconciler of the control worker                                    *)
(* (control/src/vonk_control/agent_reconciliation.py, class                *)
(* AgentReconciliationService), with the plans of reconcile.py and         *)
(* orchestration.py, the reconciliation half of agent_jobs.py and the node *)
(* mutation leases of node_leases.py.                                      *)
(*                                                                         *)
(* A reconciliation brings its target nodes to a merged commit: it         *)
(* withdraws the public routes, dispatches a graph of agent operations     *)
(* under a node lease group, and publishes the routes again when all of    *)
(* them are accepted.  One of them at a time owns the publication; a newer *)
(* one takes it over through a durable handoff.  The worker advances one   *)
(* reconciliation per tick, in one database transaction; the agents poll   *)
(* and report through the API process in between, and the operator may     *)
(* cancel at any moment.                                                   *)
(*                                                                         *)
(* The route marker is a file: withdrawing and publishing happen inside    *)
(* the transaction and are not undone when it rolls back.                  *)
(*                                                                         *)
(* A reconciliation's number is its place in the order (created_at, id).   *)
(* Its job and its status column follow its phase and are left out.  A     *)
(* lease group always has one fence, because acquire_in_session refuses a  *)
(* target that has any row, so a row here is an owner and a state.         *)
(***************************************************************************)
EXTENDS Integers, FiniteSets

CONSTANTS
  Recs,         \* reconciliations, numbered in creation order
  Nodes,        \* agent nodes
  Targets,      \* the nodes of a reconciliation's plan
  Ops,          \* operations of all graphs, numbered in graph order
  RecOf,        \* the reconciliation an operation belongs to
  NodeOf,       \* the node it is addressed to
  DependsOn,    \* the operations it depends on
  Mutating,     \* operations whose kind is in _MUTATIONS
  Undoable,     \* operations with a compensation kind
  UndoOnFail,   \* operations whose failure starts compensation
  Previews,     \* plans that are stored and never applied
  RolloutNodes, \* the nodes of the update rollout beside the reconciler
  CancelAt,     \* bound: the phases in which the operator cancels
  Fallible,     \* bound: the reconciliations and nodes that may lose their authority
  MaxLosses     \* bound: how often an authority is lost

ASSUME ReconciliationAssumption ==
  /\ Recs \subseteq Nat \ {0}
  /\ Ops \subseteq Nat
  /\ Targets \in [Recs -> SUBSET Nodes \ {{}}]
  /\ RecOf \in [Ops -> Recs]
  /\ \A o \in Ops : NodeOf[o] \in Targets[RecOf[o]]
  /\ \A o \in Ops : \A d \in DependsOn[o] : d < o /\ RecOf[d] = RecOf[o]
  /\ Undoable \subseteq Mutating
  /\ Mutating \subseteq Ops
  /\ RolloutNodes \subseteq Nodes
  /\ MaxLosses \in Nat

VARIABLES
  phase,       \* Reconciliation.current_phase, or "absent"
  jobs,        \* reconciliations with their durable parent job
  cancel,      \* ReconciliationCancellation.state, or "none"
  pub,         \* RoutePublication.state, or "none"
  owner,       \* RoutePublicationOwner.reconciliation_id, 0 for none
  due,         \* reconciliations whose route lease ends within 30 seconds
  rows,        \* the projection of each operation, with its agent operation
  lease,       \* NodeMutationLease by node
  live,        \* whose routes the marker publishes, 0 for maintenance
  authorised,  \* reconciliations the authority check accepts
  losses,      \* authority losses so far
  active,      \* nodes that are active and not revoked
  rollout,     \* the update rollout beside the reconciler
  turn         \* how far the worker's tick has come

recVars == <<phase, cancel, pub, rows>>
worldVars == <<authorised, losses, active, rollout>>
vars == <<phase, jobs, cancel, pub, owner, due, rows, lease, live,
          authorised, losses, active, rollout, turn>>

Roles == {"primary", "compensation"}

\* Phases of a reconciliation that hold or are about to hold the leases.
Working ==
  {"withdrawal-pending", "routes-withdrawn", "dispatching", "accepting",
   "publication-pending", "compensating"}

\* Phases in which an owner no longer keeps the publication from a newer one.
Ended == {"completed", "failed", "cancelled", "waiting-for-operator"}

Phases == {"absent", "planned"} \cup Working \cup Ended

ActiveCancellation ==
  {"requested", "withdrawal-pending", "withdrawn", "processing", "compensating"}

CancelStates == {"none", "completed", "waiting-for-operator"} \cup ActiveCancellation

PubStates ==
  {"none", "withdrawal-pending", "routes-withdrawn", "publication-pending", "completed"}

\* A projection and its agent operation: planned, in the queue, held by an
\* agent under a lease, held past the end of the lease, or settled.
InFlight == {"queued", "running", "late"}

RowStates ==
  {"absent", "planned", "accepted", "failed", "waiting-for-operator"} \cup InFlight

Free == [owner |-> 0, state |-> "free"]

\* The owner id of the update rollout.
Update == -1

Idle == [at |-> "idle", rec |-> 0]

OpsOf(r) == {o \in Ops : RecOf[o] = r}

Init ==
  /\ phase = [r \in Recs |-> "absent"]
  /\ jobs = {}
  /\ cancel = [r \in Recs |-> "none"]
  /\ pub = [r \in Recs |-> "none"]
  /\ owner = 0
  /\ due = {}
  /\ rows = [role \in Roles |-> [o \in Ops |-> "absent"]]
  /\ lease = [n \in Nodes |-> Free]
  /\ live = 0
  /\ authorised = Recs
  /\ losses = 0
  /\ active = Nodes
  /\ rollout = "none"
  /\ turn = Idle

-----------------------------------------------------------------------------
(* The node leases, inside the caller's transaction.                       *)

\* owned_grant_in_session: the state of the group, "none" without any row, and
\* "conflict" for a group that is not whole or is another owner's.
Grant(ls, r) ==
  LET found == {ls[n] : n \in Targets[r]}
  IN  IF found = {Free} THEN "none"
      ELSE IF \E s \in {"held", "releasing"} : found = {[owner |-> r, state |-> s]}
           THEN (CHOOSE row \in found : TRUE).state
           ELSE "conflict"

Written(ls, r, row) == [n \in Nodes |-> IF n \in Targets[r] THEN row ELSE ls[n]]

\* _mark_node_lease_releasing
Marked(ls, r) ==
  IF Grant(ls, r) = "held" THEN Written(ls, r, [owner |-> r, state |-> "releasing"])
  ELSE ls

\* The rows on the targets belong to one reconciliation that has ended, and are
\* released, or held by a completed one that is about to be cancelled.
Displaceable(ls, r) ==
  LET found == {ls[n] : n \in Targets[r]} \ {Free}
      owners == {row.owner : row \in found}
      old == CHOOSE o \in owners : TRUE
  IN  /\ Cardinality(owners) = 1
      /\ old \in Recs
      /\ phase[old] \in Ended
      /\ \/ \A row \in found : row.state = "releasing"
         \/ phase[old] = "completed" /\ cancel[old] = "withdrawal-pending"

\* _ensure_node_lease.  An ended predecessor is displaced from the targets of
\* the successor; when it has rows on only some of them, the conflict that
\* release_in_session reports escapes.
Ensured(ls, r) ==
  LET held == Written(ls, r, [owner |-> r, state |-> "held"])
      g == Grant(ls, r)
  IN  CASE g = "held" -> [out |-> "granted", lease |-> ls]
        [] g = "none" -> [out |-> "granted", lease |-> held]
        [] g = "releasing" -> [out |-> "refused", lease |-> ls]
        [] g = "conflict" ->
             IF ~ Displaceable(ls, r) THEN [out |-> "refused", lease |-> ls]
             ELSE IF \E n \in Targets[r] : ls[n] = Free
                  THEN [out |-> "raised", lease |-> ls]
                  ELSE [out |-> "granted", lease |-> held]

-----------------------------------------------------------------------------
(* Who may touch the publication.                                          *)

\* _pending_publication_handoff: the newest handoff that is not acknowledged.
Pending ==
  LET handoffs == {r \in Recs : phase[r] = "withdrawal-pending"
                                 /\ pub[r] = "withdrawal-pending"}
  IN  IF handoffs = {} THEN 0
      ELSE CHOOSE r \in handoffs : \A s \in handoffs : s <= r

\* _owns_publication, may_supersede = False
Owns(r) == owner = r /\ Pending \in {0, r}

\* _owns_publication, may_supersede = True
MaySupersede(r) ==
  /\ Pending \in {0, r}
  /\ owner \notin {0, r} => owner < r /\ phase[owner] \in Ended

\* _continuous_authority_reason is None
Authority(r) == r \in authorised /\ Targets[r] \subseteq active

\* A newer reconciliation waits to withdraw what another one publishes.
TakesOver(r) == phase[r] = "withdrawal-pending" /\ owner \notin {0, r}

-----------------------------------------------------------------------------
(* The operations of a graph.                                              *)

\* _quiesce_pending for one row
Quiesced(o, row) ==
  CASE row \in {"planned", "queued"} -> "failed"
    [] row \in {"running", "late"} ->
         IF o \in Mutating THEN "waiting-for-operator" ELSE "failed"
    [] OTHER -> row

\* Fault: what waits in the queue is not fenced.
RunningQuiesced(rs, r) ==
  [role \in Roles |-> [o \in Ops |->
     IF o \in OpsOf(r) /\ rs[role][o] # "queued" THEN Quiesced(o, rs[role][o])
     ELSE rs[role][o]]]

\* _quiesce_pending / _quiesce_reconciliation_operations on both roles
AllQuiesced(rs, r) ==
  [role \in Roles |-> [o \in Ops |->
     IF o \in OpsOf(r) THEN Quiesced(o, rs[role][o]) ELSE rs[role][o]]]

\* _quiesce_pending found a mutation whose outcome is unknown.
Uncertain(r, roles) ==
  \E role \in roles, o \in OpsOf(r) \cap Mutating : rows[role][o] \in {"running", "late"}

\* ready_operation_ids
Dispatchable(r) ==
  {o \in OpsOf(r) : /\ rows["primary"][o] = "planned"
                    /\ \A d \in DependsOn[o] : rows["primary"][d] = "accepted"}

\* compensation_order: what must be undone, latest first
Undo(rs, r) == {o \in OpsOf(r) \cap Undoable : rs["primary"][o] = "accepted"}

\* The first operation of the order whose compensation is not settled.
NextUndo(r) ==
  LET open == {o \in Undo(rows, r) : rows["compensation"][o] # "accepted"}
  IN  IF open = {} THEN -1 ELSE CHOOSE o \in open : \A p \in open : p <= o

PrimaryAccepted(r) == \A o \in OpsOf(r) : rows["primary"][o] = "accepted"

-----------------------------------------------------------------------------
(* The worker's tick: choose a reconciliation, then advance it by one      *)
(* transaction.  The choice is made in a transaction of its own, so the    *)
(* agents and the operator may act between the two.                        *)

\* _candidate_id: a lease to release, the pending handoff, an expired mutation,
\* a cancellation, the working owner, then the oldest plan newer than the owner.
Oldest(set) == {r \in set : \A s \in set : r <= s}

Candidates ==
  LET releasing == {r \in Recs : \E n \in Nodes : lease[n] = [owner |-> r, state |-> "releasing"]}
      expired == {r \in Recs : \E role \in Roles, o \in OpsOf(r) \cap Mutating :
                                 rows[role][o] = "late"}
      cancelled == {r \in Recs : cancel[r] \in ActiveCancellation}
      ongoing == {"planned"} \cup (Working \ {"withdrawal-pending"})
      planned == {r \in Recs : phase[r] = "planned" /\ r > owner}
      scanned == IF Pending # 0 THEN {Pending}
                 ELSE IF expired # {} THEN Oldest(expired)
                 ELSE IF cancelled # {} THEN Oldest(cancelled)
                 ELSE IF owner # 0 /\ phase[owner] \in ongoing THEN {owner}
                 ELSE IF owner # 0 \/ planned # {} THEN Oldest(planned)
                 ELSE Oldest({r \in Recs : phase[r] \in ongoing})
      first(r) == IF phase[r] # "waiting-for-operator" \/ Pending = 0 THEN {r} ELSE scanned
  IN  IF releasing = {} THEN scanned ELSE UNION {first(r) : r \in releasing}

\* tick begins with the completed owner, if there is one.
BeginTick ==
  /\ turn = Idle
  /\ turn' = IF owner # 0 /\ phase[owner] = "completed"
             THEN [at |-> "owner", rec |-> owner]
             ELSE [at |-> "scan", rec |-> 0]
  /\ UNCHANGED <<recVars, jobs, owner, due, lease, live, worldVars>>

Scan ==
  /\ turn.at = "scan"
  /\ \/ \E r \in Candidates : turn' = [at |-> "run", rec |-> r]
     \/ Candidates = {} /\ turn' = Idle
  /\ UNCHANGED <<recVars, jobs, owner, due, lease, live, worldVars>>

\* The transaction ends; an owner that had nothing to do lets the scan go on.
EndTick(advanced) ==
  turn' = IF turn.at = "owner" /\ ~ advanced THEN [at |-> "scan", rec |-> 0] ELSE Idle

Ticked(r) == turn.at \in {"owner", "run"} /\ turn.rec = r

\* _release_pending_node_lease
Released(r) == Grant(lease, r) = "releasing"

Lease1(r) == IF Released(r) THEN Written(lease, r, Free) ELSE lease

\* The lease group the phase needs; a handoff whose targets are gone goes on
\* without one.
Lease2(r) ==
  IF /\ phase[r] \in Working
     /\ phase[r] = "withdrawal-pending" => Targets[r] \subseteq active
  THEN Ensured(Lease1(r), r)
  ELSE [out |-> "granted", lease |-> Lease1(r)]

\* What a tick does before it looks at anything else.
OnlyReleases(r) == Released(r) /\ phase[r] # "completed" /\ cancel[r] = "none"

OnlyMarks(r) ==
  phase[r] \in {"failed", "cancelled"} /\ Grant(Lease1(r), r) = "held"

Proceeds(r) ==
  /\ Ticked(r)
  /\ r \in jobs
  /\ ~ OnlyReleases(r)
  /\ ~ OnlyMarks(r)
  /\ Lease2(r).out = "granted"

\* _advance_cancellation has something to decide.
Cancelling(r) ==
  \/ cancel[r] \in ActiveCancellation \ {"compensating"}
  \/ cancel[r] = "compensating" /\ phase[r] \in {"failed", "waiting-for-operator"}

\* A completed owner is withdrawn for a cancellation only under its leases.
CancelNeedsLease(r) ==
  phase[r] = "completed" /\ cancel[r] \in {"requested", "withdrawal-pending"} /\ Owns(r)

Lease3(r) ==
  IF CancelNeedsLease(r) THEN Ensured(Lease2(r).lease, r) ELSE Lease2(r)

Cancels(r) == Proceeds(r) /\ Cancelling(r) /\ Lease3(r).out = "granted"

Executes(r) ==
  /\ Proceeds(r)
  /\ ~ Cancelling(r)
  /\ phase[r] \notin {"failed", "cancelled", "waiting-for-operator"}

Overdue(r) ==
  \E role \in Roles, o \in OpsOf(r) \cap Mutating : rows[role][o] = "late"

\* The tick reaches the phase's own step.
Steps(r, p) ==
  Executes(r) /\ ~ Overdue(r) /\ ~ TakesOver(r) /\ Authority(r) /\ phase[r] = p

Kept == <<jobs, due, worldVars>>

-----------------------------------------------------------------------------
(* Ticks that only settle leases, are refused, or raise.                   *)

TickReleases(r) ==
  /\ Ticked(r) /\ r \in jobs
  /\ OnlyReleases(r) \/ OnlyMarks(r)
  /\ lease' = IF OnlyReleases(r) THEN Lease1(r) ELSE Marked(Lease1(r), r)
  /\ EndTick(TRUE)
  /\ UNCHANGED <<recVars, owner, live, Kept>>

TickRefused(r) ==
  /\ Ticked(r) /\ r \in jobs
  /\ ~ OnlyReleases(r) /\ ~ OnlyMarks(r)
  /\ \/ Lease2(r).out = "refused" /\ lease' = Lease1(r)
     \/ Lease2(r).out = "granted" /\ Lease3(r).out = "refused" /\ lease' = Lease2(r).lease
  /\ EndTick(FALSE)
  /\ UNCHANGED <<recVars, owner, live, Kept>>

\* A reconciliation that has ended has nothing left but a lease to release.
TickEnded(r) ==
  /\ Proceeds(r)
  /\ ~ Cancelling(r)
  /\ phase[r] \in {"failed", "cancelled", "waiting-for-operator"}
  /\ lease' = Lease2(r).lease
  /\ EndTick(Released(r))
  /\ UNCHANGED <<recVars, owner, live, Kept>>

\* The lease group without which a step of a completed owner does nothing.
OwnerLease(r) == Ensured(Lease2(r).lease, r)

\* The owner's routes must come down because its authority is gone.
MustWithdraw(r) == owner = r /\ phase[r] \in {"completed", "publication-pending"}

Renews(r) == Steps(r, "completed") /\ Owns(r) /\ r \in due

\* planned: the group is taken at once unless an ended owner still has it.
Handoff(r) == owner \notin {0, r} /\ phase[owner] \in Ended

PlanLease(r) ==
  IF Handoff(r) THEN Lease2(r) ELSE Ensured(Lease2(r).lease, r)

\* An exception rolls the transaction back and ends the worker process: the
\* plan has no parent job (_locked_context), or a partial conflict escapes.
TickRaises(r) ==
  /\ Ticked(r)
  /\ \/ r \notin jobs
     \/ ~ OnlyReleases(r) /\ ~ OnlyMarks(r) /\ Lease2(r).out = "raised"
     \/ Proceeds(r) /\ Lease3(r).out = "raised"
     \/ /\ Executes(r) /\ ~ Overdue(r) /\ ~ TakesOver(r) /\ ~ Authority(r)
        /\ MustWithdraw(r)
        /\ OwnerLease(r).out = "raised"
     \/ Renews(r) /\ OwnerLease(r).out = "raised"
     \/ Steps(r, "planned") /\ MaySupersede(r) /\ PlanLease(r).out = "raised"
  /\ turn' = Idle
  /\ UNCHANGED <<recVars, owner, lease, live, Kept>>

\* The tick may not act: the publication is not its own, the leases are taken,
\* or the published routes are still fresh.
TickDeclined(r) ==
  /\ Executes(r) /\ ~ Overdue(r)
  /\ \/ TakesOver(r) /\ ~ MaySupersede(r)
     \/ /\ ~ TakesOver(r) /\ ~ Authority(r) /\ MustWithdraw(r)
        /\ OwnerLease(r).out = "refused"
     \/ \E p \in {"planned", "withdrawal-pending"} : Steps(r, p) /\ ~ MaySupersede(r)
     \/ Steps(r, "planned") /\ MaySupersede(r) /\ PlanLease(r).out = "refused"
     \/ \E p \in (Working \ {"withdrawal-pending"}) \cup {"completed"} :
          Steps(r, p) /\ ~ Owns(r)
     \/ Steps(r, "completed") /\ Owns(r) /\ r \notin due
     \/ Renews(r) /\ OwnerLease(r).out = "refused"
  /\ lease' = Lease2(r).lease
  /\ EndTick(Renews(r) /\ Released(r))
  /\ UNCHANGED <<recVars, owner, live, Kept>>

-----------------------------------------------------------------------------
(* Cancellation: _advance_cancellation and _apply_cancellation.            *)

\* A pending handoff of another reconciliation, or its own, comes first.
CancelBlocked(r) ==
  /\ Cancels(r)
  /\ cancel[r] \in {"requested", "withdrawal-pending"}
  /\ ~ Owns(r) /\ Pending # 0
  /\ lease' = Lease3(r).lease
  /\ EndTick(FALSE)
  /\ UNCHANGED <<recVars, owner, live, Kept>>

CancelStarts(r) ==
  /\ Cancels(r)
  /\ cancel[r] = "requested"
  /\ Owns(r) \/ Pending = 0
  /\ cancel' = [cancel EXCEPT ![r] =
       IF phase[r] \in {"completed", "publication-pending"} /\ Owns(r)
       THEN "withdrawal-pending" ELSE "processing"]
  /\ lease' = Lease3(r).lease
  /\ EndTick(TRUE)
  /\ UNCHANGED <<phase, pub, rows, owner, live, Kept>>

CancelWithdraws(r) ==
  /\ Cancels(r)
  /\ cancel[r] = "withdrawal-pending"
  /\ IF Owns(r)
     THEN /\ live' = 0
          /\ pub' = [pub EXCEPT ![r] = "routes-withdrawn"]
          /\ cancel' = [cancel EXCEPT ![r] = "withdrawn"]
     ELSE /\ Pending = 0
          /\ cancel' = [cancel EXCEPT ![r] = "processing"]
          /\ UNCHANGED <<live, pub>>
  /\ lease' = Lease3(r).lease
  /\ EndTick(TRUE)
  /\ UNCHANGED <<phase, rows, owner, Kept>>

\* A mutation that failed or whose outcome nobody knows cannot be undone.
Unsafe(r) ==
  \/ \E o \in OpsOf(r) \cap Mutating :
       rows["primary"][o] \in {"failed", "waiting-for-operator"}
  \/ \E o \in OpsOf(r) : rows["compensation"][o] \in {"failed", "waiting-for-operator"}

Mutated(r) == {o \in OpsOf(r) \cap Mutating : rows["primary"][o] = "accepted"}

\* Where a cancellation leaves the reconciliation, and the cancellation.
CancelVerdict(r) ==
  CASE ~ Owns(r) ->
         IF Uncertain(r, Roles) THEN "waiting-for-operator" ELSE "cancelled"
    [] phase[r] = "waiting-for-operator" -> "waiting-for-operator"
    [] Uncertain(r, Roles) \/ Unsafe(r) -> "waiting-for-operator"
    [] Mutated(r) \cap Undoable # {} -> "compensating"
    [] Mutated(r) # {} -> "waiting-for-operator"
    [] OTHER -> "cancelled"

CancelApplies(r) ==
  /\ Cancels(r)
  /\ cancel[r] \in {"withdrawn", "processing"}
  /\ LET verdict == CancelVerdict(r)
     IN  /\ phase' = [phase EXCEPT ![r] = verdict]
         /\ cancel' = [cancel EXCEPT ![r] = IF verdict = "cancelled" THEN "completed" ELSE verdict]
         /\ lease' = IF verdict = "cancelled" THEN Marked(Lease3(r).lease, r) ELSE Lease3(r).lease
  /\ rows' = AllQuiesced(rows, r)
  /\ EndTick(TRUE)
  /\ UNCHANGED <<pub, owner, live, Kept>>

CancelSettles(r) ==
  /\ Cancels(r)
  /\ cancel[r] = "compensating"
  /\ cancel' = [cancel EXCEPT ![r] =
       IF phase[r] = "failed" THEN "completed" ELSE "waiting-for-operator"]
  /\ lease' = IF phase[r] = "failed" THEN Marked(Lease3(r).lease, r) ELSE Lease3(r).lease
  /\ EndTick(TRUE)
  /\ UNCHANGED <<phase, pub, rows, owner, live, Kept>>

-----------------------------------------------------------------------------
(* Execution: the phases of _tick_candidate.                               *)

\* _wait_for_operator, with every unresolved operation fenced
WaitForOperator(r) ==
  /\ phase' = [phase EXCEPT ![r] = "waiting-for-operator"]
  /\ rows' = AllQuiesced(rows, r)

\* _sweep_expired_mutations: the leases stay with the uncertain mutation.
TickSweeps(r) ==
  /\ Executes(r) /\ Overdue(r)
  /\ WaitForOperator(r)
  /\ lease' = Lease2(r).lease
  /\ EndTick(TRUE)
  /\ UNCHANGED <<cancel, pub, owner, live, Kept>>

\* The authority is gone: the routes come down, the work is fenced and the
\* lease group is given up.
TickLosesAuthority(r) ==
  /\ Executes(r) /\ ~ Overdue(r) /\ ~ TakesOver(r) /\ ~ Authority(r)
  /\ IF MustWithdraw(r)
     THEN /\ OwnerLease(r).out = "granted"
          /\ live' = 0
          /\ pub' = [pub EXCEPT ![r] = "routes-withdrawn"]
          /\ lease' = Marked(OwnerLease(r).lease, r)
     ELSE /\ lease' = Marked(Lease2(r).lease, r)
          /\ UNCHANGED <<live, pub>>
  /\ WaitForOperator(r)
  /\ EndTick(TRUE)
  /\ UNCHANGED <<cancel, owner, Kept>>

TickPlans(r) ==
  /\ Steps(r, "planned") /\ MaySupersede(r)
  /\ PlanLease(r).out = "granted"
  /\ lease' = PlanLease(r).lease
  /\ pub' = [pub EXCEPT ![r] = "withdrawal-pending"]
  /\ phase' = [phase EXCEPT ![r] = "withdrawal-pending"]
  /\ EndTick(TRUE)
  /\ UNCHANGED <<cancel, rows, owner, live, Kept>>

\* The handoff: the routes come down, then the ownership moves.
Withdraws(r) ==
  /\ Executes(r) /\ ~ Overdue(r)
  /\ TakesOver(r) \/ Steps(r, "withdrawal-pending")
  /\ MaySupersede(r)

TickWithdraws(r) ==
  /\ Withdraws(r)
  /\ live' = 0
  /\ owner' = r
  /\ pub' = [pub EXCEPT ![r] = "routes-withdrawn"]
  /\ phase' = [phase EXCEPT ![r] = "routes-withdrawn"]
  /\ lease' = Lease2(r).lease
  /\ EndTick(TRUE)
  /\ UNCHANGED <<cancel, rows, Kept>>

TickProjects(r) ==
  /\ Steps(r, "routes-withdrawn") /\ Owns(r)
  /\ rows' = [rows EXCEPT !["primary"] =
       [o \in Ops |-> IF o \in OpsOf(r) /\ @[o] = "absent" THEN "planned" ELSE @[o]]]
  /\ phase' = [phase EXCEPT ![r] = "dispatching"]
  /\ lease' = Lease2(r).lease
  /\ EndTick(TRUE)
  /\ UNCHANGED <<cancel, pub, owner, live, Kept>>

\* _dispatch_primary
TickDispatches(r) ==
  /\ Steps(r, "dispatching") /\ Owns(r)
  /\ phase' = [phase EXCEPT ![r] = IF PrimaryAccepted(r) THEN "accepting" ELSE @]
  /\ rows' = [rows EXCEPT !["primary"] =
       [o \in Ops |-> IF o \in Dispatchable(r) THEN "queued" ELSE @[o]]]
  /\ lease' = Lease2(r).lease
  /\ EndTick(PrimaryAccepted(r) \/ Dispatchable(r) # {})
  /\ UNCHANGED <<cancel, pub, owner, live, Kept>>

TickAccepts(r) ==
  /\ Steps(r, "accepting") /\ Owns(r)
  /\ pub' = [pub EXCEPT ![r] = "publication-pending"]
  /\ phase' = [phase EXCEPT ![r] = "publication-pending"]
  /\ lease' = Lease2(r).lease
  /\ EndTick(TRUE)
  /\ UNCHANGED <<cancel, rows, owner, live, Kept>>

Publishes(r) == Steps(r, "publication-pending") /\ Owns(r)

TickPublishes(r) ==
  /\ Publishes(r)
  /\ live' = r
  /\ due' = due \ {r}
  /\ pub' = [pub EXCEPT ![r] = "completed"]
  /\ phase' = [phase EXCEPT ![r] = "completed"]
  /\ lease' = Marked(Lease2(r).lease, r)
  /\ EndTick(TRUE)
  /\ UNCHANGED <<cancel, rows, owner, jobs, worldVars>>

\* The route lease is about to end: withdraw, accept and publish again.
TickRenews(r) ==
  /\ Renews(r)
  /\ OwnerLease(r).out = "granted"
  /\ live' = 0
  /\ pub' = [pub EXCEPT ![r] = "routes-withdrawn"]
  /\ phase' = [phase EXCEPT ![r] = "accepting"]
  /\ lease' = OwnerLease(r).lease
  /\ EndTick(TRUE)
  /\ UNCHANGED <<cancel, rows, owner, Kept>>

\* _dispatch_compensation: one compensation at a time
TickCompensates(r) ==
  /\ Steps(r, "compensating") /\ Owns(r)
  /\ LET o == NextUndo(r)
         row == rows["compensation"][o]
     IN  \/ /\ o = -1
            /\ phase' = [phase EXCEPT ![r] = "failed"]
            /\ lease' = Marked(Lease2(r).lease, r)
            /\ EndTick(TRUE)
            /\ UNCHANGED rows
         \/ /\ o # -1 /\ row = "absent"
            /\ rows' = [rows EXCEPT !["compensation"][o] = "queued"]
            /\ lease' = Lease2(r).lease
            /\ EndTick(TRUE)
            /\ UNCHANGED phase
         \/ /\ o # -1 /\ row # "absent"
            /\ phase' = [phase EXCEPT ![r] = IF row \in InFlight THEN @ ELSE "waiting-for-operator"]
            /\ lease' = Lease2(r).lease
            /\ EndTick(row \notin InFlight)
            /\ UNCHANGED rows
  /\ UNCHANGED <<cancel, pub, owner, live, Kept>>

-----------------------------------------------------------------------------
(* The worker stops between a change of the marker and the commit.         *)

CrashAfterWithdrawal(r) ==
  /\ \/ Withdraws(r)
     \/ Cancels(r) /\ cancel[r] = "withdrawal-pending" /\ Owns(r)
     \/ Renews(r) /\ OwnerLease(r).out = "granted"
     \/ /\ Executes(r) /\ ~ Overdue(r) /\ ~ TakesOver(r) /\ ~ Authority(r)
        /\ MustWithdraw(r) /\ OwnerLease(r).out = "granted"
  /\ live' = 0
  /\ turn' = Idle
  /\ UNCHANGED <<recVars, owner, lease, Kept>>

CrashAfterPublication(r) ==
  /\ Publishes(r)
  /\ live' = r
  /\ turn' = Idle
  /\ UNCHANGED <<recVars, owner, lease, Kept>>

TickOf(r) ==
  \/ TickReleases(r) \/ TickRefused(r) \/ TickEnded(r) \/ TickRaises(r) \/ TickDeclined(r)
  \/ CancelBlocked(r) \/ CancelStarts(r) \/ CancelWithdraws(r)
  \/ CancelApplies(r) \/ CancelSettles(r)
  \/ TickSweeps(r) \/ TickLosesAuthority(r) \/ TickPlans(r) \/ TickWithdraws(r)
  \/ TickProjects(r) \/ TickDispatches(r) \/ TickAccepts(r) \/ TickPublishes(r)
  \/ TickRenews(r) \/ TickCompensates(r)

Worker == BeginTick \/ Scan \/ \E r \in Recs : TickOf(r)

-----------------------------------------------------------------------------
(* The agents: agent_jobs.py on behalf of a reconciliation, and            *)
(* consume_result.                                                         *)

AgentKept == <<jobs, cancel, pub, owner, due, live, worldVars, turn>>

ExpectedPhase(role) == IF role = "primary" THEN "dispatching" ELSE "compensating"

\* _claim_has_authority and _require_active_reconciliation_authority
MayRun(role, o) == phase[RecOf[o]] = ExpectedPhase(role) /\ Authority(RecOf[o])

\* Another mutation of the node has not been settled.
Busy(role, o) ==
  /\ o \in Mutating
  /\ \E other \in Roles, p \in Mutating :
       /\ <<other, p>> # <<role, o>>
       /\ NodeOf[p] = NodeOf[o]
       /\ rows[other][p] \in {"running", "late"}

Claimable(role, o) == rows[role][o] \in {"queued", "late"} /\ NodeOf[o] \in active

\* The node's poll receives the operation; an expired read is handed out again.
Claim(role, o) ==
  /\ Claimable(role, o) /\ MayRun(role, o) /\ ~ Busy(role, o)
  /\ rows[role][o] = "late" => o \notin Mutating
  /\ rows' = [rows EXCEPT ![role][o] = "running"]
  /\ UNCHANGED <<phase, lease, AgentKept>>

\* _claim_once finds the authority gone, or an expired mutation
\* (_project_unsafe_expiry): everything is fenced, the leases are kept.
ClaimFences(role, o) ==
  /\ Claimable(role, o)
  /\ ~ MayRun(role, o) \/ (~ Busy(role, o) /\ rows[role][o] = "late" /\ o \in Mutating)
  /\ WaitForOperator(RecOf[o])
  /\ UNCHANGED <<lease, AgentKept>>

LeaseLapses(role, o) ==
  /\ rows[role][o] = "running"
  /\ rows' = [rows EXCEPT ![role][o] = "late"]
  /\ UNCHANGED <<phase, lease, AgentKept>>

\* A live attempt reports; a late one is refused as stale.
Reports(role, o) ==
  /\ rows[role][o] = "running"
  /\ NodeOf[o] \in active
  /\ phase[RecOf[o]] = ExpectedPhase(role)

ResultSucceeds(role, o) ==
  /\ Reports(role, o) /\ Authority(RecOf[o])
  /\ rows' = [rows EXCEPT ![role][o] = "accepted"]
  /\ UNCHANGED <<phase, lease, AgentKept>>

ResultWithoutAuthority(role, o) ==
  /\ Reports(role, o) /\ ~ Authority(RecOf[o])
  /\ WaitForOperator(RecOf[o])
  /\ UNCHANGED <<lease, AgentKept>>

\* A failed compensation, or an outcome the agent itself does not know.
ResultNeedsOperator(role, o, outcome) ==
  /\ Reports(role, o) /\ Authority(RecOf[o])
  /\ role = "compensation" \/ outcome = "waiting-for-operator"
  /\ rows' = AllQuiesced([rows EXCEPT ![role][o] = outcome], RecOf[o])
  /\ phase' = [phase EXCEPT ![RecOf[o]] = "waiting-for-operator"]
  /\ UNCHANGED <<lease, AgentKept>>

\* _handle_primary_failure
FailureVerdict(o, rs) ==
  LET r == RecOf[o]
  IN  IF \E p \in (OpsOf(r) \cap Mutating) \ {o} : rows["primary"][p] \in {"running", "late"}
      THEN "waiting-for-operator"
      ELSE IF o \in UndoOnFail /\ Undo(rs, r) # {} THEN "compensating"
      ELSE IF o \in Mutating THEN "waiting-for-operator"
      ELSE "failed"

ResultFails(o) ==
  LET r == RecOf[o]
      rs == AllQuiesced([rows EXCEPT !["primary"][o] = "failed"], r)
  IN  /\ Reports("primary", o) /\ Authority(r)
      /\ rows' = rs
      /\ phase' = [phase EXCEPT ![r] = FailureVerdict(o, rs)]
      /\ lease' = IF FailureVerdict(o, rs) = "failed" THEN Marked(lease, r) ELSE lease
      /\ UNCHANGED AgentKept

Agents ==
  \E o \in Ops :
    \/ ResultFails(o)
    \/ \E role \in Roles :
         \/ Claim(role, o) \/ ClaimFences(role, o) \/ LeaseLapses(role, o)
         \/ ResultSucceeds(role, o) \/ ResultWithoutAuthority(role, o)
         \/ \E outcome \in {"failed", "waiting-for-operator"} :
              ResultNeedsOperator(role, o, outcome)

-----------------------------------------------------------------------------
(* The operator, the nodes and the clock.                                  *)

\* Reconciler.plan and get_or_create_resolved_plan: a plan is stored when it is
\* shown to the operator.
StorePlan(r) ==
  /\ phase[r] = "absent"
  /\ \A s \in Recs : s < r => phase[s] # "absent"
  /\ phase' = [phase EXCEPT ![r] = "planned"]
  /\ UNCHANGED <<jobs, cancel, pub, owner, due, rows, lease, live, worldVars, turn>>

\* Reconciler.enqueue: the operator applies the plan.
Apply(r) ==
  /\ phase[r] # "absent" /\ r \notin jobs /\ r \notin Previews
  /\ r \in authorised
  /\ jobs' = jobs \cup {r}
  /\ UNCHANGED <<recVars, owner, due, lease, live, worldVars, turn>>

\* enqueue_cancel
RequestCancel(r) ==
  /\ r \in jobs /\ cancel[r] = "none"
  /\ phase[r] \in CancelAt \ {"failed", "cancelled"}
  /\ cancel' = [cancel EXCEPT ![r] = "requested"]
  /\ UNCHANGED <<phase, jobs, pub, owner, due, rows, lease, live, worldVars, turn>>

RouteLeaseEnds(r) ==
  /\ phase[r] = "completed" /\ r \notin due
  /\ due' = due \cup {r}
  /\ UNCHANGED <<recVars, jobs, owner, lease, live, worldVars, turn>>

\* The commit is no longer current or eligible, or the API cannot tell.
LoseAuthority(r) ==
  /\ r \in authorised \cap Fallible /\ losses < MaxLosses
  /\ authorised' = authorised \ {r}
  /\ losses' = losses + 1
  /\ UNCHANGED <<recVars, jobs, owner, due, lease, live, active, rollout, turn>>

RegainAuthority(r) ==
  /\ r \in Recs \ authorised
  /\ authorised' = authorised \cup {r}
  /\ UNCHANGED <<recVars, jobs, owner, due, lease, live, losses, active, rollout, turn>>

RevokeNode(n) ==
  /\ n \in active \cap Fallible /\ losses < MaxLosses
  /\ active' = active \ {n}
  /\ losses' = losses + 1
  /\ UNCHANGED <<recVars, jobs, owner, due, lease, live, authorised, rollout, turn>>

\* One update rollout leases its nodes when they are free and gives them back.
RolloutLeases ==
  /\ rollout = "none"
  /\ \A n \in RolloutNodes : lease[n] = Free
  /\ rollout' = "holds"
  /\ lease' = [n \in Nodes |-> IF n \in RolloutNodes THEN [owner |-> Update, state |-> "held"] ELSE lease[n]]
  /\ UNCHANGED <<recVars, jobs, owner, due, live, authorised, losses, active, turn>>

RolloutReleases ==
  /\ rollout = "holds"
  /\ rollout' = "done"
  /\ lease' = [n \in Nodes |-> IF lease[n].owner = Update THEN Free ELSE lease[n]]
  /\ UNCHANGED <<recVars, jobs, owner, due, live, authorised, losses, active, turn>>

Surroundings ==
  \/ \E r \in Recs :
       \/ StorePlan(r) \/ Apply(r) \/ RequestCancel(r) \/ RouteLeaseEnds(r)
       \/ LoseAuthority(r) \/ RegainAuthority(r)
  \/ \E n \in Nodes : RevokeNode(n)
  \/ RolloutLeases \/ RolloutReleases

Crash == \E r \in Recs : CrashAfterWithdrawal(r) \/ CrashAfterPublication(r)

Next == Worker \/ Agents \/ Surroundings \/ Crash

\* The worker loops for ever and its crashes are rare; an agent polls, and what
\* it holds is reported or lapses; a rollout ends.
Settles(o) ==
  \E role \in Roles :
    \/ Claim(role, o) \/ ClaimFences(role, o)
    \/ ResultSucceeds(role, o) \/ ResultWithoutAuthority(role, o) \/ LeaseLapses(role, o)

Fairness ==
  /\ WF_vars(BeginTick \/ Scan)
  /\ \A r \in Recs : SF_vars(TickOf(r))
  /\ WF_vars(\E o \in Ops : Settles(o))
  /\ WF_vars(RolloutReleases)

Spec == Init /\ [][Next]_vars /\ Fairness

-----------------------------------------------------------------------------
(* Correctness.                                                            *)

TypeOK ==
  /\ phase \in [Recs -> Phases]
  /\ jobs \subseteq Recs
  /\ cancel \in [Recs -> CancelStates]
  /\ pub \in [Recs -> PubStates]
  /\ owner \in Recs \cup {0}
  /\ due \subseteq Recs
  /\ rows \in [Roles -> [Ops -> RowStates]]
  /\ lease \in [Nodes -> [owner : Recs \cup {Update}, state : {"held", "releasing"}] \cup {Free}]
  /\ live \in Recs \cup {0}
  /\ authorised \subseteq Recs
  /\ losses \in 0..MaxLosses
  /\ active \subseteq Nodes
  /\ rollout \in {"none", "holds", "done"}
  /\ turn \in [at : {"idle", "owner", "scan", "run"}, rec : Recs \cup {0}]

\* An operation of a reconciliation is in an agent's hands, or in the queue, only
\* in its own dispatching or compensating phase and while it holds its whole
\* lease group: handing over, sweeping, cancelling, losing authority and
\* displacing a predecessor never leave work behind on a node that another
\* reconciliation or an update rollout may lease.
DispatchedUnderLease ==
  \A role \in Roles, o \in Ops :
    rows[role][o] \in InFlight =>
      /\ phase[RecOf[o]] = ExpectedPhase(role)
      /\ Grant(lease, RecOf[o]) = "held"

\* The published routes are those of the acknowledged owner, all of its
\* operations have been accepted, none of them has been undone, and nothing is
\* in flight anywhere: the marker outlives a rolled-back transaction, so this
\* must hold after a crash between publishing and committing as well.
ServedRoutesAreAccepted ==
  live # 0 =>
    /\ owner = live
    /\ PrimaryAccepted(live)
    /\ \A o \in Ops : rows["compensation"][o] # "absent" => RecOf[o] # live
    /\ \A role \in Roles, o \in Ops : rows[role][o] \notin InFlight

\* Compensation undoes accepted operations in the reverse order of the graph,
\* one at a time, and a reconciliation that ends as failed has none left.
UndoneInReverse ==
  \A o \in Undoable :
    /\ rows["compensation"][o] # "absent" =>
         \A p \in Undo(rows, RecOf[o]) : p > o => rows["compensation"][p] = "accepted"
    /\ phase[RecOf[o]] = "failed" /\ rows["primary"][o] = "accepted" =>
         rows["compensation"][o] = "accepted"

\* The ownership of the publication only moves to a newer reconciliation, and
\* only when the routes of the previous owner have come down.
OwnerMovesForward ==
  [][owner' # owner => owner' > owner /\ live' = 0]_vars

\* A reconciliation that is cancelled while the publication is its own has
\* never handed a mutation to an agent.
CancelledUntouched ==
  [][\A r \in Recs :
       phase[r] # "cancelled" /\ phase'[r] = "cancelled" /\ Owns(r) =>
         \A o \in OpsOf(r) \cap Mutating :
           rows["primary"][o] \in {"absent", "planned", "queued"}]_vars

\* The lease group of a reconciliation is not whole: a successor displaced it
\* from its own targets only.
Torn(r) == {n \in Nodes : lease[n].owner = r} \notin {{}, Targets[r]}

\* What stops the reconciler until the operator steps in: a reconciliation that
\* waits for the operator keeps its nodes, a cancellation arrived during the
\* handoff, or a lease group was torn apart.
Stalled ==
  \/ \E n \in Nodes : \E s \in Recs :
       lease[n].owner = s /\ phase[s] = "waiting-for-operator"
  \/ Pending # 0 /\ cancel[Pending] = "requested"
  \/ \E s \in Recs : Torn(s)

\* Routes whose reconciliation has lost its authority come down, whatever the
\* agents, an update rollout or a crash do.
UnauthorisedRoutesComeDown ==
  \A r \in Recs : live = r /\ ~ Authority(r) ~> live # r \/ Authority(r) \/ Stalled

\* A cancellation is carried out or handed to the operator.
CancellationConverges ==
  \A r \in Recs :
    cancel[r] = "requested" ~>
      cancel[r] \in {"completed", "waiting-for-operator"} \/ Stalled

=============================================================================
