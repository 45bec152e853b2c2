--------------------------- MODULE UpdateRollout ---------------------------
(***************************************************************************)
(* A rollout of a platform release to the agents of the GPU nodes:         *)
(* control/src/vonk_control/updates.py (UpdateOrchestrator),               *)
(* update_worker.py (UpdateRolloutWorker), update_routes.py                *)
(* (ProductionUpdateRouteBoundary), the queue's side of it in agent_jobs.py *)
(* and the administrator's in update_admin.py.                             *)
(*                                                                         *)
(* One worker process runs the reconciler and the rollout by turns.  For   *)
(* each batch it takes the node leases, claims the update boundary (the    *)
(* fence), withdraws the routes of the batch, has each agent update itself, *)
(* lets it soak, publishes the routes again and gives fence and leases     *)
(* back.  Database, boundary record, fence and activation marker are       *)
(* written one after the other, and the process may die between any two.   *)
(* An error raised while a rollout advances is not caught: the process     *)
(* dies and its container starts it again.                                 *)
(***************************************************************************)
EXTENDS Integers, Sequences, FiniteSets

CONSTANTS
  Nodes,
  Scenarios,    \* the plans, as sequences of batches, with the batch a behaviour begins
                \* with and bounds: on faults (deaths of the worker within a route side
                \* effect, silences and fallbacks of agents, attempts that expire), on
                \* rollbacks begun and on approvals of a resume
  Workloads,    \* distributed workloads, each with a route: members, min
  Entrypoints   \* the nodes whose addresses the routes publish

VARIABLES
  plan,      \* the batches of the rollout
  roll,      \* its row: state, current batch, kind of pause, rollback granted, resumes
  row,       \* its row for each node: state, operations, outcome uncertain
  agent,     \* each agent: what runs, what it last reported, how long ago
  lease,     \* the mutation lease of each node
  fence,     \* the batch whose boundary key is claimed, 0 for none
  record,    \* the boundary record of each batch
  marker,    \* the activation marker: what it shows, and what is left of its lease
  recon,     \* the reconciliation that owns the routes
  pc,        \* where the worker is within a route side effect
  left       \* what is left of the bounds

vars == <<plan, roll, row, agent, lease, fence, record, marker, recon, pc, left>>

dbVars == <<roll, row, lease>>
routeVars == <<fence, record, marker>>
envVars == <<plan, agent, recon, left>>

Batches == DOMAIN plan
Batch == plan[roll.batch]
Members == UNION {w.members : w \in Workloads}
Affected(B) == {w \in Workloads : w.members \cap B # {}}

\* No workload is left to show: the withdrawal is a maintenance marker.
AllAffected == Affected(Batch) = Workloads

\* What an agent runs: the release and supervisor generation of the plan, the
\* target, the source again under a newer generation, or the release before it.
Running == {"source", "target", "back", "older"}

NoRow == [st |-> "pending", op |-> "none", rop |-> "none", from |-> "none", unsure |-> FALSE]

NoRecord == [st |-> "none", sync |-> FALSE]

\* The worker starts and finds the rollout before one of its batches.
Init ==
  \E sc \in Scenarios :
    LET done == UNION {sc.plan[i] : i \in 1 .. sc.begin - 1}
        run(n) == IF n \in done THEN "target" ELSE "source"
    IN /\ plan = sc.plan
       /\ roll = [st |-> "planned", batch |-> sc.begin, why |-> "none", granted |-> FALSE]
       /\ row = [n \in UNION {plan[i] : i \in Batches} |->
            IF n \in done THEN [NoRow EXCEPT !.st = "accepted", !.op = "succeeded"] ELSE NoRow]
       /\ agent = [n \in Nodes |->
            [runs |-> run(n), says |-> run(n), seen |-> "now", since |-> TRUE,
             job |-> "none", todo |-> {}]]
       /\ lease = [n \in Nodes |-> "free"]
       /\ fence = 0
       /\ record = [i \in Batches |->
            IF i < sc.begin THEN [st |-> "restored", sync |-> i = sc.begin - 1] ELSE NoRecord]
       /\ marker = [kind |-> "full", shows |-> Workloads, left |-> "long"]
       /\ recon = "completed"
       /\ pc = "idle"
       /\ left = [faults |-> sc.faults, rollbacks |-> sc.rollbacks, resumes |-> sc.resumes]

-----------------------------------------------------------------------------
(* The agents and their supervisors, and the queue's side of them.         *)

Fault == left.faults > 0 /\ left' = [left EXCEPT !.faults = @ - 1]

\* _record_contact: the agent reports what it runs.
Heard(a) == [a EXCEPT !.says = a.runs, !.seen = "now", !.since = TRUE]

\* The operation is updated now; the contact it came with is not later.
Touched(a) == [Heard(a) EXCEPT !.since = FALSE]

Contact(n) ==
  /\ agent' = [agent EXCEPT ![n] = Heard(@)]
  /\ UNCHANGED <<plan, dbVars, routeVars, recon, pc, left>>

\* Three minutes without a contact make it too old for a route, five minutes
\* too old for the rollout.
Silence(n) ==
  /\ Fault
  /\ agent[n].seen # "stale"
  /\ agent' = [agent EXCEPT ![n].seen = IF @ = "now" THEN "late" ELSE "stale"]
  /\ UNCHANGED <<plan, dbVars, routeVars, recon, pc>>

\* _claim_has_authority and _update_claim_binding: the rollout is at this
\* operation, holds the lease, and the agent runs what the receipt names.
ClaimUpdate(n) ==
  /\ n \in Batch /\ roll.st = "updating" /\ row[n].st = "updating"
  /\ row[n].op = "queued" /\ lease[n] = "held"
  /\ agent[n].runs = "source"
  /\ row' = [row EXCEPT ![n].op = "running"]
  /\ agent' = [agent EXCEPT ![n] = [Touched(@) EXCEPT !.job = "update", !.todo = {"switch", "report"}]]
  /\ UNCHANGED <<plan, roll, lease, routeVars, recon, pc, left>>

ClaimRollback(n) ==
  /\ n \in Batch /\ roll.st = "rolling-back" /\ row[n].st = "rolling-back"
  /\ row[n].rop = "queued" /\ lease[n] = "held"
  /\ agent[n].runs = row[n].from
  /\ row' = [row EXCEPT ![n].rop = "running"]
  /\ agent' = [agent EXCEPT ![n] = [Touched(@) EXCEPT !.job = "rollback", !.todo = {"switch", "report"}]]
  /\ UNCHANGED <<plan, roll, lease, routeVars, recon, pc, left>>

\* The slots have been exchanged; the previous slot of the source is older.
Exchanged(id) ==
  CASE id = "target" -> "back" [] id = "back" -> "target" [] id = "source" -> "older" [] id = "older" -> "back"

\* The supervisor carries the request out, before or after the report, if it
\* still names what runs.
Switch(n) ==
  /\ "switch" \in agent[n].todo
  /\ agent' = [agent EXCEPT ![n].todo = @ \ {"switch"}, ![n].runs =
       CASE agent[n].job = "update" /\ @ = "source" -> "target"
         [] agent[n].job = "rollback" /\ @ = row[n].from -> Exchanged(@)
         [] OTHER -> @]
  /\ UNCHANGED <<plan, dbVars, routeVars, recon, pc, left>>

\* The new release crashes or is not confirmed: the supervisor goes back.
FallBack(n) ==
  /\ Fault
  /\ agent[n].job = "update" /\ agent[n].runs = "target"
  /\ n \in DOMAIN row /\ row[n].st # "accepted"
  /\ agent' = [agent EXCEPT ![n].runs = "back"]
  /\ UNCHANGED <<plan, dbVars, routeVars, recon, pc>>

\* A failure is reported before anything was activated.  The result of an
\* attempt that no longer runs is refused.
Report(n, result) ==
  /\ "report" \in agent[n].todo
  /\ result = "failed" => "switch" \in agent[n].todo
  /\ LET which == IF agent[n].job = "update" THEN "op" ELSE "rop"
         taken == row[n][which] = "running"
     IN /\ row' = IF taken THEN [row EXCEPT ![n][which] = result] ELSE row
        /\ agent' = [agent EXCEPT ![n] =
             [(IF taken THEN Touched(@) ELSE Heard(@))
                EXCEPT !.todo = IF result = "failed" THEN {} ELSE @ \ {"report"}]]
  /\ UNCHANGED <<plan, roll, lease, routeVars, recon, pc, left>>

\* The attempt's lease ends without a heartbeat: the outcome is uncertain.
AttemptExpires(n) ==
  /\ Fault
  /\ n \in DOMAIN row
  /\ \/ row[n].op = "running" /\ row' = [row EXCEPT ![n].op = "unknown"]
     \/ row[n].rop = "running" /\ row' = [row EXCEPT ![n].rop = "unknown"]
  /\ agent' = [agent EXCEPT ![n].since = FALSE]
  /\ UNCHANGED <<plan, roll, lease, routeVars, recon, pc>>

-----------------------------------------------------------------------------
(* What the rollout concludes from the reports.                            *)

Fresh(n) == agent[n].seen # "stale"

\* _target_is_running
TargetRunning(n) ==
  agent[n].says = "target" /\ Fresh(n) /\ agent[n].since

\* _source_is_running: again, with a newer supervisor generation
SourceRunning(n) ==
  /\ agent[n].says = "back" /\ Fresh(n)
  /\ {row[n].op, row[n].rop} = {"none"} \/ agent[n].since

\* _source_is_unchanged
Unchanged(n) == agent[n].says = "source" /\ Fresh(n)

UnchangedSince(n) == Unchanged(n) /\ agent[n].since

\* Members of a workload that can carry it without the batch.
Available(w) ==
  {n \in w.members \ Batch : Fresh(n) /\ lease[n] # "recon"}

\* _execution_block_reason
Blocked ==
  \/ \E n \in Batch : ~ Fresh(n) \/ ~ (Unchanged(n) \/ SourceRunning(n))
  \/ \E w \in Workloads : Cardinality(Available(w)) < w.min

\* _publication_block_reason
PublicationBlocked ==
  \E n \in Batch :
    CASE roll.st = "publishing"          -> ~ TargetRunning(n)
      [] roll.st = "rollback-publishing" -> ~ SourceRunning(n)
      [] roll.st = "failure-publishing"  -> ~ UnchangedSince(n)

-----------------------------------------------------------------------------
(* The reconciler renews the routes in the same process: it withdraws and  *)
(* publishes them under the node leases of all members.                    *)

\* A withdrawal does not renew the lease the database has on record.
RenewalDue == recon = "completed" /\ (marker.left # "long" \/ marker.kind = "cut")

\* _ensure_node_lease succeeds, and then the fence refuses the publication: the
\* process dies, and when it starts again the reconciler comes first.
ReconcilerDies == RenewalDue /\ fence # 0 /\ \A n \in Members : lease[n] = "free"

Turn == pc = "idle" /\ ~ ReconcilerDies

\* Another marker: no record names it.
Written(r) == [i \in DOMAIN r |-> [r[i] EXCEPT !.sync = FALSE]]

\* Fault: a renewal that does not wait for the leases.
RenewWithdraw_Faulty ==
  /\ Turn /\ RenewalDue
  /\ lease' = [n \in Nodes |-> IF n \in Members THEN "recon" ELSE lease[n]]
  /\ marker' = [kind |-> "renewal", shows |-> {}, left |-> "long"]
  /\ record' = Written(record)
  /\ recon' = "renewing"
  /\ UNCHANGED <<plan, roll, row, agent, fence, pc, left>>

RenewWithdraw ==
  /\ Turn /\ RenewalDue /\ fence = 0
  /\ \A n \in Members : lease[n] = "free"
  /\ lease' = [n \in Nodes |-> IF n \in Members THEN "recon" ELSE lease[n]]
  /\ marker' = [kind |-> "renewal", shows |-> {}, left |-> "long"]
  /\ record' = Written(record)
  /\ recon' = "renewing"
  /\ UNCHANGED <<plan, roll, row, agent, fence, pc, left>>

RenewPublish ==
  /\ Turn /\ recon = "renewing"
  /\ \A n \in Entrypoints : Fresh(n)
  /\ marker' = [kind |-> "full", shows |-> Workloads, left |-> "long"]
  /\ record' = Written(record)
  /\ recon' = "releasing"
  /\ UNCHANGED <<plan, roll, row, agent, lease, fence, pc, left>>

RenewRelease ==
  /\ Turn /\ recon = "releasing"
  /\ lease' = [n \in Nodes |-> IF n \in Members THEN "free" ELSE lease[n]]
  /\ recon' = "completed"
  /\ UNCHANGED <<plan, roll, row, agent, routeVars, pc, left>>

LeaseAges ==
  /\ marker.left # "none"
  /\ marker' = [marker EXCEPT !.left = IF @ = "long" THEN "short" ELSE "none"]
  /\ UNCHANGED <<plan, dbVars, agent, fence, record, recon, pc, left>>

-----------------------------------------------------------------------------
(* The boundary: renewal of a withdrawal on every tick.                    *)

k == roll.batch

\* _load_request: the reconciliation is completed and every entrypoint was
\* heard of recently enough for a route of two more minutes.
Evidence == recon = "completed" /\ \A n \in Entrypoints : agent[n].seen = "now"

Active == record[k].st = "withdrawn" /\ fence = k

\* renew_active compares only whether the marker is a maintenance marker.
AsExpected == AllAffected => marker.kind # "full"

\* renew_active: a marker the record does not name is taken for the one of a
\* renewal that was cut short.
Renewed ==
  /\ Active /\ Evidence /\ AsExpected
  /\ marker' = IF record[k].sync /\ marker.left # "long"
                THEN [marker EXCEPT !.left = "long"] ELSE marker
  /\ record' = [record EXCEPT ![k].sync = TRUE]
  /\ UNCHANGED fence

\* _retain_superseded on a renewal: the record is of no further use.
RenewalSuperseded ==
  /\ Turn /\ roll.st \notin {"planned", "completed", "waiting-for-approval"}
  /\ Active /\ Evidence /\ ~ AsExpected
  /\ record' = [record EXCEPT ![k].st = "superseded"]
  /\ UNCHANGED <<dbVars, envVars, fence, marker, pc>>

\* The process dies after the renewal's marker and before its record.
RenewalCutShort ==
  /\ Turn /\ roll.st \in {"updating", "soaking", "rolling-back", "paused"}
  /\ Active /\ Evidence /\ AsExpected
  /\ record[k].sync /\ marker.left # "long"
  /\ Fault
  /\ marker' = [marker EXCEPT !.left = "long"]
  /\ record' = [record EXCEPT ![k].sync = FALSE]
  /\ UNCHANGED <<plan, dbVars, agent, recon, fence, pc>>

\* A tick that finds nothing to do but the renewal.
RenewOnly ==
  /\ Turn /\ roll.st \in {"updating", "soaking", "rolling-back", "paused"}
  /\ Renewed
  /\ UNCHANGED <<dbVars, envVars, pc>>

-----------------------------------------------------------------------------
(* Withdrawal and dispatch.                                                *)

SetBatch(f, value) == [n \in DOMAIN f |-> IF n \in Batch THEN value ELSE f[n]]

Pause(why) == roll' = [roll EXCEPT !.st = "paused", !.why = why]

\* _pause_for_identity_loss
FailAll == row' = [n \in DOMAIN row |->
                     IF n \in Batch THEN [row[n] EXCEPT !.st = "failed", !.unsure = FALSE] ELSE row[n]]

\* The batch cannot start now, or the reconciler has its leases: paused, for
\* _advance_locked to try again.  It never does: the tick of the worker passes
\* over a paused rollout that has no active fence.
Planned ==
  /\ Turn /\ roll.st = "planned"
  /\ IF Blocked \/ \E n \in Batch : lease[n] = "recon"
     THEN Pause("blocked") /\ UNCHANGED lease
     ELSE lease' = SetBatch(lease, "held") /\ roll' = [roll EXCEPT !.st = "withdrawing"]
  /\ UNCHANGED <<row, envVars, routeVars, pc>>

\* The lease a route side effect needs: a compensation has it releasing.
WithdrawalLeased ==
  \A n \in Batch : lease[n] = IF roll.st = "withdrawing" THEN "held" ELSE "releasing"

Withdraws == roll.st \in {"withdrawing", "compensating-withdrawal"}

\* withdraw up to the claim of the fence; the first withdrawal needs the
\* database's marker live, a repeated one the marker it restored.
ClaimFence ==
  /\ Turn /\ Withdraws /\ WithdrawalLeased /\ Evidence
  /\ fence \in {0, k}
  /\ \/ record[k].st = "none" /\ marker.kind = "full" /\ marker.left # "none"
     \/ record[k].st = "restored" /\ record[k].sync
  /\ fence' = k
  /\ pc' = "claimed"
  /\ UNCHANGED <<dbVars, envVars, record, marker>>

\* The marker is no longer the one this boundary restored.
WithdrawalSuperseded ==
  /\ Turn /\ Withdraws /\ WithdrawalLeased /\ Evidence
  /\ fence \in {0, k}
  /\ record[k].st = "restored" /\ ~ record[k].sync
  /\ record' = [record EXCEPT ![k].st = "superseded"]
  /\ UNCHANGED <<dbVars, envVars, fence, marker, pc>>

\* The record keeps the digest of the marker before the first withdrawal.
RecordWithdrawing ==
  /\ pc = "claimed"
  /\ record' = [record EXCEPT ![k] = [st |-> "withdrawing", sync |-> record[k].st = "none"]]
  /\ pc' = "recorded"
  /\ UNCHANGED <<dbVars, envVars, fence, marker>>

Cut == [kind |-> "cut", shows |-> Workloads \ Affected(Batch), left |-> "long"]

\* _publish_withdrawal in the call that wrote the record
PostWithdrawal ==
  /\ pc = "recorded"
  /\ marker' = Cut
  /\ record' = Written(record)
  /\ pc' = "posted"
  /\ UNCHANGED <<dbVars, envVars, fence>>

\* ... and in a later one: the marker is still the one before, or it is this
\* withdrawal, which a partial bundle shows only if no agent was heard of since.
RetryWithdrawal ==
  /\ Turn /\ Withdraws /\ WithdrawalLeased /\ Evidence
  /\ record[k].st = "withdrawing" /\ fence = k
  /\ \/ record[k].sync /\ marker' = Cut
     \/ marker.kind = "cut" /\ marker.left # "none" /\ UNCHANGED marker
  /\ record' = IF marker' = marker THEN record ELSE Written(record)
  /\ pc' = "posted"
  /\ UNCHANGED <<dbVars, envVars, fence>>

RecordWithdrawn ==
  /\ pc = "posted"
  /\ record' = [record EXCEPT ![k] = [st |-> "withdrawn", sync |-> TRUE]]
  /\ pc' = "drained"
  /\ UNCHANGED <<dbVars, envVars, fence, marker>>

\* The withdrawal was completed by an earlier call.
AlreadyWithdrawn ==
  /\ Turn /\ Withdraws /\ WithdrawalLeased
  /\ Renewed
  /\ pc' = "drained"
  /\ UNCHANGED <<dbVars, envVars>>

\* reserve_update_authorization_in_session insists on the identity of the plan,
\* with its generation.
Reserve ==
  /\ pc = "drained" /\ roll.st = "withdrawing"
  /\ marker.left # "none"
  /\ \A n \in Batch : agent[n].says = "source"
  /\ row' = [n \in DOMAIN row |-> IF n \in Batch THEN [row[n] EXCEPT !.st = "routes-withdrawn"] ELSE row[n]]
  /\ pc' = "reserved"
  /\ UNCHANGED <<roll, lease, envVars, routeVars>>

\* Otherwise it raises, and the worker dies.
ReserveRaises ==
  /\ pc = "drained" /\ roll.st = "withdrawing"
  /\ marker.left = "none" \/ \E n \in Batch : agent[n].says # "source"
  /\ pc' = "idle"
  /\ UNCHANGED <<dbVars, envVars, routeVars>>

\* The signer has answered; finalize_update_authorization_in_session compares
\* the source again, which only the rollout itself changes.
Dispatch ==
  /\ pc = "reserved"
  /\ \A n \in Batch : agent[n].says = "source"
  /\ row' = [n \in DOMAIN row |->
               IF n \in Batch THEN [row[n] EXCEPT !.st = "updating", !.op = "queued"] ELSE row[n]]
  /\ roll' = [roll EXCEPT !.st = "updating"]
  /\ agent' = [n \in Nodes |-> IF n \in Batch THEN [agent[n] EXCEPT !.since = FALSE] ELSE agent[n]]
  /\ pc' = "idle"
  /\ UNCHANGED <<plan, lease, routeVars, recon, left>>

\* _advance_publication_compensation after its withdrawal
Rehold ==
  /\ pc = "drained" /\ roll.st = "compensating-withdrawal"
  /\ lease' = SetBatch(lease, "held")
  /\ Pause("other")
  /\ pc' = "idle"
  /\ UNCHANGED <<row, envVars, routeVars>>

-----------------------------------------------------------------------------
(* Update, soak and rollback.                                              *)

Ops == {row[n].op : n \in Batch}

\* Ten minutes after the dispatch; an agent not heard of since is stale by then.
Overdue(n) == \/ row[n].op = "running"
              \/ row[n].op = "queued" /\ (agent[n].since \/ agent[n].seen = "stale")

\* A failure of one agent stops the whole batch.  Operations that are late
\* fail first.
UpdateFails(late) ==
  LET op(n) == IF n \notin late THEN row[n].op ELSE IF row[n].op = "running" THEN "unknown" ELSE "failed"
      clean == \A n \in Batch : op(n) \in {"failed", "queued"} /\ UnchangedSince(n) /\ n \notin late
  IN /\ Turn /\ roll.st = "updating"
     /\ \E n \in Batch : op(n) \in {"failed", "unknown"}
     /\ Renewed
     /\ row' = [n \in DOMAIN row |->
          IF n \notin Batch THEN row[n]
          ELSE [row[n] EXCEPT !.st = "failed",
                  !.op = CASE op(n) = "queued" -> "failed" [] op(n) = "running" -> "unknown" [] OTHER -> op(n),
                  !.unsure = op(n) \in {"running", "succeeded", "unknown"}]]
     /\ agent' = [n \in Nodes |-> IF n \in late THEN [agent[n] EXCEPT !.since = FALSE] ELSE agent[n]]
     /\ roll' = [roll EXCEPT !.st = IF clean THEN "failure-publishing" ELSE "paused", !.why = "other"]
     /\ UNCHANGED <<plan, lease, recon, pc, left>>

\* Three minutes after the operation; an agent not heard of since is late too.
ReconnectOver == \E n \in Batch : agent[n].since \/ agent[n].seen # "now"

UpdateSucceeds ==
  LET back == {n \in Batch : SourceRunning(n)}
  IN /\ Turn /\ roll.st = "updating" /\ Ops = {"succeeded"}
     /\ Renewed
     /\ \/ /\ \A n \in Batch : TargetRunning(n)
           /\ row' = [n \in DOMAIN row |-> IF n \in Batch THEN [row[n] EXCEPT !.st = "soaking"] ELSE row[n]]
           /\ roll' = [roll EXCEPT !.st = "soaking"]
        \/ /\ back = Batch
           /\ row' = [n \in DOMAIN row |-> IF n \in Batch THEN [row[n] EXCEPT !.st = "rolling-back"] ELSE row[n]]
           /\ roll' = [roll EXCEPT !.st = "rollback-publishing"]
        \/ /\ back \notin {{}, Batch}
           /\ row' = [n \in DOMAIN row |->
                CASE n \in back -> [row[n] EXCEPT !.st = "rolled-back"]
                  [] n \in Batch \ back -> [row[n] EXCEPT !.st = "failed", !.unsure = TRUE]
                  [] OTHER -> row[n]]
           /\ Pause("other")
        \/ /\ back = {} /\ \E n \in Batch : ~ TargetRunning(n)
           /\ ReconnectOver
           /\ FailAll /\ Pause("other")
     /\ UNCHANGED <<lease, envVars, pc>>

SoakEnds ==
  /\ Turn /\ roll.st = "soaking"
  /\ Renewed
  /\ \/ /\ \A n \in Batch : TargetRunning(n)
        /\ roll' = [roll EXCEPT !.st = "publishing"]
        /\ UNCHANGED row
     \/ /\ \E n \in Batch : ~ TargetRunning(n)
        /\ FailAll /\ Pause("other")
  /\ UNCHANGED <<lease, envVars, pc>>

\* _rollback_candidates
Candidates ==
  {n \in Batch : row[n].st = "failed" /\ (row[n].unsure \/ ~ Unchanged(n)) /\ ~ SourceRunning(n)}

\* begin_rollback, by the worker with the grant of the administrator; a
\* rollback operation that is still queued or running is taken up again.
BeginRollback ==
  /\ Turn /\ roll.st = "paused" /\ roll.granted
  /\ Candidates # {}
  /\ Renewed
  /\ row' = [n \in DOMAIN row |->
       IF n \in Candidates
       THEN IF row[n].rop \in {"queued", "running"} THEN [row[n] EXCEPT !.st = "rolling-back"]
            ELSE [row[n] EXCEPT !.st = "rolling-back", !.rop = "queued", !.from = agent[n].says]
       ELSE row[n]]
  /\ agent' = [n \in Nodes |->
       IF n \in Candidates /\ row'[n].rop # row[n].rop THEN [agent[n] EXCEPT !.since = FALSE] ELSE agent[n]]
  /\ roll' = [roll EXCEPT !.st = "rolling-back"]
  /\ left.rollbacks > 0 /\ left' = [left EXCEPT !.rollbacks = @ - 1]
  /\ UNCHANGED <<plan, lease, recon, pc>>

RollingBack ==
  LET back == {n \in Batch : row[n].st = "rolling-back"}
      rops == {row[n].rop : n \in back}
      done == rops = {"succeeded"} /\ \A n \in back : SourceRunning(n)
  IN /\ Turn /\ roll.st = "rolling-back"
     /\ Renewed
     /\ \/ /\ rops \cap {"failed", "unknown"} # {}
           /\ FailAll /\ Pause("other")
        \/ /\ done
           /\ roll' = [roll EXCEPT !.st = "rollback-publishing"]
           /\ UNCHANGED row
        \/ /\ rops \cap {"failed", "unknown"} = {} /\ ~ done
           /\ \E n \in back : row[n].rop # "queued" \/ agent[n].since \/ agent[n].seen # "now"
           /\ FailAll /\ Pause("other")
     /\ UNCHANGED <<lease, envVars, pc>>

-----------------------------------------------------------------------------
(* Publication of the routes and release of the batch.                     *)

Restores == roll.st \in {"publishing", "failure-publishing", "rollback-publishing"}

\* The first transaction of _advance_route_side_effect
BeginRestore ==
  /\ Turn /\ Restores
  /\ \A n \in Batch : lease[n] \in {"held", "releasing"}
  /\ \/ Renewed
     \/ record[k].st = "restored" /\ fence \in {0, k} /\ UNCHANGED routeVars
  /\ \/ /\ PublicationBlocked
        /\ lease' = SetBatch(lease, "held")
        /\ FailAll /\ Pause("other")
        /\ UNCHANGED pc
     \/ /\ ~ PublicationBlocked
        /\ lease' = SetBatch(lease, "releasing")
        /\ pc' = "restoring"
        /\ UNCHANGED <<roll, row>>
  /\ UNCHANGED envVars

\* restore publishes the whole bundle ...
PostRestore ==
  /\ pc = "restoring" /\ record[k].st = "withdrawn"
  /\ marker' = [kind |-> "full", shows |-> Workloads, left |-> "long"]
  /\ record' = Written(record)
  /\ pc' = "shown"
  /\ UNCHANGED <<dbVars, envVars, fence>>

\* ... and records it,
RecordRestored ==
  /\ pc = "shown"
  /\ record' = [record EXCEPT ![k] = [st |-> "restored", sync |-> TRUE]]
  /\ pc' = "restored"
  /\ UNCHANGED <<dbVars, envVars, fence, marker>>

\* unless an earlier call did.
AlreadyRestored ==
  /\ pc = "restoring" /\ record[k].st = "restored" /\ record[k].sync
  /\ pc' = "restored"
  /\ UNCHANGED <<dbVars, envVars, routeVars>>

ReleaseFence ==
  /\ pc = "restored"
  /\ fence' = 0
  /\ pc' = "released"
  /\ UNCHANGED <<dbVars, envVars, record, marker>>

\* The batch, or the rollout, is done.
Publish ==
  /\ row' = [n \in DOMAIN row |-> IF n \in Batch THEN [row[n] EXCEPT !.st = "accepted"] ELSE row[n]]
  /\ roll' = IF roll.batch < Len(plan)
             THEN [roll EXCEPT !.st = "planned", !.batch = @ + 1]
             ELSE [roll EXCEPT !.st = "completed"]

RollbackPublished ==
  /\ row' = [n \in DOMAIN row |->
       IF n \in Batch /\ row[n].st = "rolling-back"
       THEN [row[n] EXCEPT !.st = "rolled-back", !.op = "compensated"] ELSE row[n]]
  /\ roll' = [roll EXCEPT !.st = "waiting-for-approval"]

\* The last transaction: the evidence is looked at once more.
CommitRestore ==
  /\ pc = "released"
  /\ \/ /\ PublicationBlocked
        /\ row' = [n \in DOMAIN row |->
             IF n \in Batch THEN [row[n] EXCEPT !.st = "failed", !.unsure = FALSE] ELSE row[n]]
        /\ roll' = [roll EXCEPT !.st = "compensating-withdrawal"]
        /\ UNCHANGED lease
     \/ /\ ~ PublicationBlocked
        /\ lease' = SetBatch(lease, "free")
        /\ \/ roll.st = "publishing" /\ Publish
           \/ roll.st = "failure-publishing" /\ Pause("other") /\ UNCHANGED row
           \/ roll.st = "rollback-publishing" /\ RollbackPublished
  /\ pc' = "idle"
  /\ UNCHANGED <<envVars, routeVars>>

\* The worker dies, or the supervisor does not acknowledge a marker in time.
Crash ==
  /\ pc # "idle" /\ Fault
  /\ pc' = "idle"
  /\ UNCHANGED <<plan, dbVars, agent, recon, routeVars>>

-----------------------------------------------------------------------------
(* The administrator: one request for both, by the state of the rollout.   *)

AuthorizeRollback ==
  /\ roll.st = "paused" /\ Candidates # {}
  /\ roll' = [roll EXCEPT !.granted = TRUE]
  /\ UNCHANGED <<row, lease, envVars, routeVars, pc>>

ApproveResume ==
  /\ roll.st = "waiting-for-approval"
  /\ left.resumes > 0 /\ left' = [left EXCEPT !.resumes = @ - 1]
  /\ row' = [n \in DOMAIN row |->
       IF n \in Batch /\ row[n].st \in {"failed", "rolled-back"} THEN NoRow ELSE row[n]]
  /\ roll' = [roll EXCEPT !.st = "planned"]
  /\ UNCHANGED <<plan, lease, agent, recon, routeVars, pc>>

-----------------------------------------------------------------------------
Reconciler == RenewWithdraw \/ RenewPublish \/ RenewRelease

Withdrawal ==
  \/ ClaimFence \/ WithdrawalSuperseded \/ RecordWithdrawing \/ PostWithdrawal
  \/ RetryWithdrawal \/ RecordWithdrawn \/ AlreadyWithdrawn
  \/ Reserve \/ ReserveRaises \/ Dispatch \/ Rehold

Restoration ==
  \/ BeginRestore \/ PostRestore \/ RecordRestored \/ AlreadyRestored
  \/ ReleaseFence \/ CommitRestore

Advance ==
  \/ Planned \/ Withdrawal \/ Restoration
  \/ \E late \in SUBSET {n \in Batch : Overdue(n)} : UpdateFails(late)
  \/ UpdateSucceeds \/ SoakEnds \/ BeginRollback \/ RollingBack
  \/ RenewalSuperseded

Agents ==
  \E n \in Nodes :
    \/ Contact(n) \/ Silence(n) \/ ClaimUpdate(n) \/ ClaimRollback(n)
    \/ Switch(n) \/ FallBack(n) \/ AttemptExpires(n)
    \/ \E result \in {"succeeded", "failed", "unknown"} : Report(n, result)

Next ==
  \/ Advance \/ RenewOnly \/ RenewalCutShort \/ Reconciler
  \/ Agents \/ LeaseAges \/ Crash \/ AuthorizeRollback \/ ApproveResume

\* The worker loops, its container is started again, and the agents keep
\* polling.  What the administrator and an agent's operation do is up to them.
Fairness ==
  /\ WF_vars(Advance)
  /\ WF_vars(Reconciler)
  /\ \A n \in Nodes : WF_vars(Contact(n))

Spec == Init /\ [][Next]_vars /\ Fairness

-----------------------------------------------------------------------------
(* Correctness.                                                            *)

RollStates ==
  {"planned", "withdrawing", "updating", "soaking", "publishing", "failure-publishing",
   "compensating-withdrawal", "paused", "rolling-back", "rollback-publishing",
   "waiting-for-approval", "completed"}

OpStates == {"none", "queued", "running", "succeeded", "failed", "unknown", "compensated"}

TypeOK ==
  /\ roll \in [st : RollStates, batch : Batches, why : {"none", "blocked", "other"},
               granted : BOOLEAN]
  /\ \A n \in DOMAIN row : row[n] \in
       [st : {"pending", "routes-withdrawn", "updating", "soaking", "accepted", "failed",
              "rolling-back", "rolled-back"},
        op : OpStates, rop : OpStates, from : Running \cup {"none"}, unsure : BOOLEAN]
  /\ \A n \in Nodes : agent[n] \in
       [runs : Running, says : Running, seen : {"now", "late", "stale"}, since : BOOLEAN, job : {"none", "update", "rollback"},
        todo : SUBSET {"switch", "report"}]
  /\ lease \in [Nodes -> {"free", "held", "releasing", "recon"}]
  /\ fence \in Batches \cup {0}
  /\ record \in [Batches -> [st : {"none", "withdrawing", "withdrawn", "restored", "superseded"},
                             sync : BOOLEAN]]
  /\ marker \in [kind : {"full", "cut", "renewal"}, shows : SUBSET Workloads,
                 left : {"long", "short", "none"}]
  /\ recon \in {"completed", "renewing", "releasing"}
  /\ pc \in {"idle", "claimed", "recorded", "posted", "drained", "reserved",
             "restoring", "shown", "restored", "released"}
  /\ left \in [faults : Nat, rollbacks : Nat, resumes : Nat]

Live == IF marker.left = "none" THEN {} ELSE marker.shows

\* The supervisor of the node may still activate the target.
MayUpdate(n) ==
  "switch" \in agent[n].todo /\ agent[n].job = "update" /\ agent[n].runs = "source"

Routed(n) == \E w \in Live : n \in w.members

\* Route withdrawal precedes mutation, and publication waits for its end: while
\* an agent may still activate the target, no live route leads to its node,
\* wherever the worker died.
RoutesDownWhileUpdated == \A n \in Nodes : MayUpdate(n) => ~ Routed(n)

\* An agent may activate the target only under the lease of the rollout: the
\* reconciler does not work on the node until it is known what became of it.
UpdatedUnderLease ==
  \A n \in Nodes : MayUpdate(n) => lease[n] \in {"held", "releasing"}

\* Fan-out stops at the first failure: no node of a later batch is touched
\* before every node of the earlier ones was accepted.
FanOutWaits ==
  \A i, j \in Batches : i < j =>
    \/ \A n \in plan[j] : lease[n] \notin {"held", "releasing"} /\ row[n] = NoRow
    \/ \A n \in plan[i] : row[n].st = "accepted"

\* The rollout never has two members of a distributed workload at a time.
OneMemberAtATime ==
  \A w \in Workloads :
    Cardinality({n \in w.members : lease[n] \in {"held", "releasing"}}) <= 1

\* A rollout that is done or waits for its approval keeps neither lease nor
\* fence: the reconciler goes on.
AtRestFree ==
  roll.st \in {"completed", "waiting-for-approval"} =>
    fence = 0 /\ \A n \in Nodes : lease[n] \in {"free", "recon"}

Busy == {"updating", "soaking", "publishing", "failure-publishing", "rolling-back", "rollback-publishing"}

\* A phase of the rollout ends, by success, failure or timeout, unless its
\* boundary record was superseded, which nothing repairs: the rollout does not
\* stay for ever in one busy state.
PhasesEnd ==
  \/ []<>(roll.st \notin Busy \/ record[k].st = "superseded")
  \/ []<><<roll.st' # roll.st>>_roll

=============================================================================
