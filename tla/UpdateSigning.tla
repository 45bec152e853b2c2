---------------------------- MODULE UpdateSigning ----------------------------
(***************************************************************************)
(* Who may tell a node to replace its agent.                               *)
(*                                                                         *)
(* An administrator plans and applies a rollout; the API signs a short     *)
(* grant for it (update_admin.py, update_grants.py).  The worker drains    *)
(* the routes, reserves a signer request under the rollout's lock          *)
(* (agent_jobs.py), and asks the dedicated signer for a receipt            *)
(* (update_signer.py, update_authority.py) with no lock held.  The signer  *)
(* compares the request with the grant, with the release the control host  *)
(* runs and with the platform's published TUF metadata.  Only a receipt    *)
(* that still fits the node's reported state is queued.                    *)
(*                                                                         *)
(* One node, one rollout.  A release is named by the TUF targets version   *)
(* that published it; release 0 is what the node runs at first.  Time is   *)
(* counted in units of 600 / ReceiptLife seconds, and every expiry is kept *)
(* as the time it has left.                                                *)
(***************************************************************************)
EXTENDS Integers

CONSTANTS MaxPublished,   \* bound: TUF targets versions
          MaxGeneration,  \* bound: supervisor generations of the node
          ReceiptLife,    \* 600 s: agent_jobs.py asks for it, the signer allows no more
          GrantLife,      \* 3600 s: the longest an admin grant may live
          MaxFaults       \* bound: processes that die between two steps

VARIABLES
    published,  \* the newest platform TUF targets version
    control,    \* the control host: the selected release, the targets version it
                \* was selected under, and the release its processes run
    node,       \* the node: generation, release, and the generation it last reported
    routes,     \* stands for the routes a plan names (a digest in the code)
    admin,      \* the administrator's request: where it is, what it has read so far,
                \* and the time left of the grant it holds
    plan,       \* the administrator's cached plan
    rollout,    \* the rollout row
    grant,      \* time left of update_admin_grant and rollback_admin_grant, -1: none
    intent,     \* the newest update_authorization_intents row
    queued,     \* the agent operation with its receipt
    worker,     \* where the worker is between two transactions
    since,      \* time since the control host ran the plan's release
    faults

vars == <<published, control, node, routes, admin, plan, rollout, grant, intent,
          queued, worker, since, faults>>

-----------------------------------------------------------------------------
(* The rows. *)

Versions == 1..MaxPublished
Actions == {"update", "rollback"}
Life == 0..ReceiptLife
Grants == -1..GrantLife

\* What an administrator is shown, and its digest covers.
PlanSet == [version : 0..MaxPublished, release : 0..MaxPublished,
            generation : 0..MaxGeneration, routes : 0..1]
NoPlan == [version |-> 0, release |-> 0, generation |-> 0, routes |-> 0]

\* A request of the administrator between two of its reads; seen is the plan
\* it is putting together.
AdminSet == [at : {"idle", "target", "nodes", "compared", "granted"},
             apply : BOOLEAN, seen : PlanSet, cover : -1..GrantLife]
NoAdmin == [at |-> "idle", apply |-> FALSE, seen |-> NoPlan, cover |-> -1]

\* The rollout's row, as far as it decides about receipts.
RolloutSet == [state : {"none", "planned", "withdrawing", "updating", "paused",
                        "rolling-back", "over"},
               version : 0..MaxPublished, release : 0..MaxPublished,
               generation : 0..MaxGeneration]
NoRollout == [state |-> "none", version |-> 0, release |-> 0, generation |-> 0]

\* A signer request: the action, the state of the node it is for, when it
\* expires, and when the grant it carries does.
RequestSet == [state : {"none", "reserved", "queued", "stale"}, action : Actions,
               generation : 0..MaxGeneration, left : Life, cover : 0..GrantLife]
NoIntent == [state |-> "none", action |-> "update", generation |-> 0,
             left |-> 0, cover |-> 0]

\* An operation and the receipt in its payload.
ReceiptSet == [state : {"none", "queued", "running", "done", "failed"},
               action : Actions, release : 0..MaxPublished,
               generation : 0..MaxGeneration, left : Life, cover : 0..GrantLife]
NoOperation == [state |-> "none", action |-> "update", release |-> 0,
                generation |-> 0, left |-> 0, cover |-> 0]

TypeOK ==
    /\ published \in Versions
    /\ control \in [release : Versions, version : Versions, process : Versions]
    /\ node \in [generation : 1..MaxGeneration, release : 0..MaxPublished,
                 said : 1..MaxGeneration]
    /\ routes \in 0..1 /\ admin \in AdminSet /\ plan \in PlanSet /\ rollout \in RolloutSet
    /\ grant \in [Actions -> Grants]
    /\ intent \in RequestSet /\ queued \in ReceiptSet
    /\ worker \in {"idle", "refreshed", "reserved", "signed"}
    /\ since \in 0..(ReceiptLife + 1)
    /\ faults \in 0..MaxFaults

Init ==
    /\ published = 1
    /\ control = [release |-> 1, version |-> 1, process |-> 1]
    /\ node = [generation |-> 1, release |-> 0, said |-> 1]
    /\ routes = 0 /\ admin = NoAdmin /\ plan = NoPlan /\ rollout = NoRollout
    /\ grant = [a \in Actions |-> -1]
    /\ intent = NoIntent /\ queued = NoOperation
    /\ worker = "idle" /\ since = 0 /\ faults = 0

-----------------------------------------------------------------------------
(* What the processes read. *)

\* The publication, verified: every reader refreshes its own TUF client.
Refreshed == published

\* The release selected for the control host, as the API sees it: its own
\* release is the selected one, and the publication is not older than the one
\* it was selected under.
SelectedTarget == control.process = control.release /\ Refreshed >= control.version

\* The same, as the signer sees it: the publication must be the very one.
ActiveRelease == control.process = control.release /\ Refreshed = control.version

\* The evidence a plan is made from, read in this order with no lock held: the
\* target, the nodes' last reports with the workloads spread over them, and the
\* routes.
Target == [version |-> Refreshed, release |-> control.release]
Observed == node.said
RouteImpacts == routes

\* A node that reports the target's release is in no batch.
UpToDate(r) == node.said = node.generation /\ node.release = r

\* A fresh grant for one action.
Issued(a) == [grant EXCEPT ![a] = GrantLife]

\* An update grant is reused while a whole receipt still fits in it.
Reusable == grant["update"] >= ReceiptLife

\* A faulty variant: the request's expiry is not compared with the grant's.
GrantCovers_Faulty(i) == i.cover > 0

\* A grant covers a request that expires no later than it does.
GrantCovers(i) == i.cover > 0 /\ i.left <= i.cover

\* An update must be to the release the control host runs, under the targets
\* version the rollout was planned with.
ReleaseCurrent == rollout.release = control.release /\ rollout.version = Refreshed

\* The authority signs for at most ReceiptLife.
InForce(i) == i.left \in 1..ReceiptLife

\* What the signer signs.
SignerAccepts(i) ==
    /\ ActiveRelease
    /\ GrantCovers(i)
    /\ InForce(i)
    /\ i.action = "update" => ReleaseCurrent

-----------------------------------------------------------------------------
(* Around the rollout: time, publication, host upgrades. *)

Less(n) == IF n > 0 THEN n - 1 ELSE n

\* A signer call takes seconds, and so does a request of the administrator: at
\* most one unit ends between a new reservation and its receipt, or between a
\* rollout's first grant and its row.
Tick ==
    /\ admin.at = "granted" => admin.cover = GrantLife
    /\ worker \in {"reserved", "signed"} => intent.left = ReceiptLife
    /\ grant' = [a \in Actions |-> Less(grant[a])]
    /\ intent' = [intent EXCEPT !.left = Less(@), !.cover = Less(@)]
    /\ queued' = [queued EXCEPT !.left = Less(@), !.cover = Less(@)]
    /\ admin' = [admin EXCEPT !.cover = Less(@)]
    /\ since' = IF plan.release \in {0, control.release} THEN 0
                ELSE IF since > ReceiptLife THEN since ELSE since + 1
    /\ UNCHANGED <<published, control, node, routes, plan, rollout, worker, faults>>

Publish ==
    /\ published < MaxPublished
    /\ published' = published + 1
    /\ UNCHANGED <<control, node, routes, admin, plan, rollout, grant, intent, queued,
                   worker, since, faults>>

\* A host upgrade selects the newest release; its processes follow.
HostSelects ==
    /\ control.version < published /\ control.process = control.release
    /\ control' = [control EXCEPT !.release = published, !.version = published]
    /\ UNCHANGED <<published, node, routes, admin, plan, rollout, grant, intent, queued,
                   worker, since, faults>>

HostRestarts ==
    /\ control.process # control.release
    /\ control' = [control EXCEPT !.process = control.release]
    /\ UNCHANGED <<published, node, routes, admin, plan, rollout, grant, intent, queued,
                   worker, since, faults>>

\* Routes are published, once.
Reroute ==
    /\ rollout.state = "none" /\ routes = 0 /\ routes' = 1
    /\ UNCHANGED <<published, control, node, admin, plan, rollout, grant, intent, queued,
                   worker, since, faults>>

\* A heartbeat: the node reports its generation.
Heartbeat ==
    /\ node.said # node.generation
    /\ node' = [node EXCEPT !.said = node.generation]
    /\ UNCHANGED <<published, control, routes, admin, plan, rollout, grant, intent, queued,
                   worker, since, faults>>

\* Another rollout, made from an older plan, moves the node, once, before this
\* one holds its lease.
MovedByOther ==
    /\ rollout.state \in {"none", "planned"} /\ node.generation = 1
    /\ \E r \in {0, control.release} :
         node' = [node EXCEPT !.generation = @ + 1, !.release = r]
    /\ UNCHANGED <<published, control, routes, admin, plan, rollout, grant, intent, queued,
                   worker, since, faults>>

-----------------------------------------------------------------------------
(* The administrator. *)

\* plan and apply begin alike: the target is read, then the nodes' reports.
\* A plan that leaves no node to update is not applied.
ReadTarget(apply) ==
    /\ admin.at = "idle" /\ rollout.state = "none" /\ SelectedTarget
    /\ apply => plan # NoPlan
    /\ admin' = [NoAdmin EXCEPT !.at = "target", !.apply = apply,
                   !.seen = [NoPlan EXCEPT !.version = Target.version, !.release = Target.release]]
    /\ UNCHANGED <<published, control, node, routes, plan, rollout, grant, intent, queued,
                   worker, since, faults>>

ReadNodes ==
    /\ admin.at = "target"
    /\ admin' = IF UpToDate(admin.seen.release) THEN NoAdmin
                ELSE [admin EXCEPT !.at = "nodes", !.seen.generation = Observed]
    /\ UNCHANGED <<published, control, node, routes, plan, rollout, grant, intent, queued,
                   worker, since, faults>>

\* plan reads the routes last, and caches what it made.
Plan ==
    /\ admin.at = "nodes" /\ ~admin.apply
    /\ plan' = [admin.seen EXCEPT !.routes = RouteImpacts]
    /\ admin' = NoAdmin
    /\ UNCHANGED <<published, control, node, routes, rollout, grant, intent, queued,
                   worker, since, faults>>

\* apply compares the routes and then the plan it made again with the cached
\* one, and is refused when either differs.
Compare ==
    /\ admin.at = "nodes" /\ admin.apply
    /\ admin' = IF [admin.seen EXCEPT !.routes = RouteImpacts] = plan
                THEN [admin EXCEPT !.at = "compared"] ELSE NoAdmin
    /\ UNCHANGED <<published, control, node, routes, plan, rollout, grant, intent, queued,
                   worker, since, faults>>

\* create signs the first batch's grant, and writes the rollout with it in a
\* later transaction; nothing read before is looked at again.
IssueGrant ==
    /\ admin.at = "compared"
    /\ admin' = [admin EXCEPT !.at = "granted", !.cover = GrantLife]
    /\ UNCHANGED <<published, control, node, routes, plan, rollout, grant, intent, queued,
                   worker, since, faults>>

Create ==
    /\ admin.at = "granted"
    /\ rollout' = [state |-> "planned", version |-> admin.seen.version,
                   release |-> admin.seen.release, generation |-> admin.seen.generation]
    /\ grant' = [grant EXCEPT !["update"] = admin.cover]
    /\ admin' = NoAdmin
    /\ UNCHANGED <<published, control, node, routes, plan, intent, queued, worker, since,
                   faults>>

\* The API restarts: the request and the cached plan are gone.
ApiDies ==
    /\ rollout.state = "none" /\ plan # NoPlan /\ faults < MaxFaults
    /\ admin' = NoAdmin /\ plan' = NoPlan /\ faults' = faults + 1
    /\ UNCHANGED <<published, control, node, routes, rollout, grant, intent, queued,
                   worker, since>>

\* approve_resume on a paused rollout: a fresh rollback grant.
AuthorizeRollback ==
    /\ rollout.state = "paused" /\ node.said # rollout.generation
    /\ grant' = Issued("rollback")
    /\ UNCHANGED <<published, control, node, routes, admin, plan, rollout, intent, queued,
                   worker, since, faults>>

-----------------------------------------------------------------------------
(* The worker. *)

\* A planned rollout's grant is renewed, over HTTP, before each tick.
RefreshGrant ==
    /\ worker = "idle" /\ rollout.state = "planned"
    /\ grant' = IF Reusable THEN grant ELSE Issued("update")
    /\ worker' = "refreshed"
    /\ UNCHANGED <<published, control, node, routes, admin, plan, rollout, intent, queued,
                   since, faults>>

Withdraw ==
    /\ worker = "refreshed"
    /\ rollout' = [rollout EXCEPT !.state = "withdrawing"]
    /\ worker' = "idle"
    /\ UNCHANGED <<published, control, node, routes, admin, plan, grant, intent, queued,
                   since, faults>>

\* The action a rollout state calls for, and what the row must say for it.
Wanted(a) ==
    \/ /\ a = "update" /\ rollout.state = "withdrawing"
       /\ node.said = rollout.generation
    \/ /\ a = "rollback" /\ rollout.state = "paused"
       /\ grant["rollback"] >= 0

\* What the signer is asked: the request of the intent, unchanged.
Request(a) == [state |-> "reserved", action |-> a, generation |-> node.said,
               left |-> ReceiptLife, cover |-> grant[a]]

\* An unexpired reservation is taken up again; otherwise a new one is written
\* with a copy of the grant.
Reserve(a) ==
    /\ worker = "idle" /\ Wanted(a)
    /\ intent' = IF intent.state = "reserved" /\ intent.action = a /\ intent.left > 0
                 THEN intent
                 ELSE Request(a)
    /\ worker' = "reserved"
    /\ UNCHANGED <<published, control, node, routes, admin, plan, rollout, grant, queued,
                   since, faults>>

\* The signer answers, or the refusal ends the worker, which starts again.
Sign ==
    /\ worker = "reserved"
    /\ worker' = IF SignerAccepts(intent) THEN "signed" ELSE "idle"
    /\ UNCHANGED <<published, control, node, routes, admin, plan, rollout, grant, intent,
                   queued, since, faults>>

\* The receipt is queued if nothing it names has changed.
StillFits ==
    /\ intent.state = "reserved" /\ intent.left > 0
    /\ node.said = intent.generation
    /\ rollout.state = IF intent.action = "update" THEN "withdrawing" ELSE "paused"

\* The signed receipt of a request; a rollback names no release.
Receipt(i) == [state |-> "queued", action |-> i.action,
               release |-> IF i.action = "update" THEN rollout.release ELSE 0,
               generation |-> i.generation, left |-> i.left, cover |-> i.cover]

Finalize ==
    /\ worker = "signed" /\ worker' = "idle"
    /\ IF StillFits
       THEN /\ intent' = [intent EXCEPT !.state = "queued"]
            /\ queued' = Receipt(intent)
            /\ rollout' = [rollout EXCEPT !.state = IF intent.action = "update"
                                                    THEN "updating" ELSE "rolling-back"]
       ELSE /\ intent' = [intent EXCEPT !.state = "stale"]
            /\ UNCHANGED <<queued, rollout>>
    /\ UNCHANGED <<published, control, node, routes, admin, plan, grant, since, faults>>

Die ==
    /\ worker # "idle" /\ faults < MaxFaults
    /\ worker' = "idle" /\ faults' = faults + 1
    /\ UNCHANGED <<published, control, node, routes, admin, plan, rollout, grant, intent,
                   queued, since>>

\* The rollout notices how the operation ended: the node is back on another
\* generation, or it never will be.
Watch ==
    /\ worker = "idle" /\ rollout.state \in {"updating", "rolling-back"}
    /\ queued.state \in {"done", "failed"} \/ (queued.state = "queued" /\ queued.left = 0)
    /\ rollout' = [rollout EXCEPT !.state =
           IF queued.state = "done" /\ node.said # queued.generation THEN "over" ELSE "paused"]
    /\ queued' = IF queued.state = "done" THEN queued ELSE [queued EXCEPT !.state = "failed"]
    /\ UNCHANGED <<published, control, node, routes, admin, plan, grant, intent, worker,
                   since, faults>>

-----------------------------------------------------------------------------
(* The node. *)

\* Only a receipt that is in force, for the generation the node reports, is
\* handed out, and only once.
Claim ==
    /\ queued.state = "queued" /\ queued.left > 0
    /\ node.said = queued.generation
    /\ queued' = [queued EXCEPT !.state = "running"]
    /\ UNCHANGED <<published, control, node, routes, admin, plan, rollout, grant, intent,
                   worker, since, faults>>

\* The supervisor's view of a receipt.
SupervisorAccepts == queued.left > 0 /\ queued.generation = node.generation

\* The agent and its supervisor carry the receipt out, or refuse it.
Switch ==
    /\ queued.state = "running" /\ SupervisorAccepts
    /\ node.generation < MaxGeneration
    /\ node' = [node EXCEPT !.generation = @ + 1, !.release = queued.release]
    /\ queued' = [queued EXCEPT !.state = "done"]
    /\ UNCHANGED <<published, control, routes, admin, plan, rollout, grant, intent, worker,
                   since, faults>>

\* The node's own refresh finds other metadata, a check fails, or the
\* deadline passes.
NodeRefuses ==
    /\ queued.state = "running"
    /\ queued' = [queued EXCEPT !.state = "failed"]
    /\ UNCHANGED <<published, control, node, routes, admin, plan, rollout, grant, intent,
                   worker, since, faults>>

Next ==
    \/ Tick \/ Publish \/ HostSelects \/ HostRestarts \/ Reroute \/ Heartbeat
    \/ MovedByOther
    \/ (\E apply \in BOOLEAN : ReadTarget(apply)) \/ ReadNodes \/ Plan \/ Compare
    \/ IssueGrant \/ Create \/ ApiDies \/ AuthorizeRollback
    \/ RefreshGrant \/ Withdraw \/ (\E a \in Actions : Reserve(a)) \/ Sign \/ Finalize
    \/ Die \/ Watch
    \/ Claim \/ Switch \/ NodeRefuses

\* The worker runs in a loop, the node reports and polls.  Nothing is assumed
\* of the clock: a call may be answered before the next unit ends.
Fairness ==
    /\ WF_vars(Heartbeat)
    /\ WF_vars(RefreshGrant) /\ WF_vars(Withdraw)
    /\ WF_vars(\E a \in Actions : Reserve(a)) /\ WF_vars(Sign) /\ WF_vars(Finalize)
    /\ WF_vars(Watch) /\ WF_vars(Claim) /\ WF_vars(Switch \/ NodeRefuses)

Spec == Init /\ [][Next]_vars /\ Fairness

-----------------------------------------------------------------------------
(* Properties. *)

\* No receipt in the queue outlives the grant it was signed under, whatever
\* time passed between grant, reservation, signature and delivery.
GrantBoundsReceipt ==
    queued.state \in {"queued", "running"} => queued.left <= queued.cover

\* This rollout's receipt is carried out.
SwitchedByReceipt == queued.state = "running" /\ queued'.state = "done"

\* A node switches to a release the control host ran no longer ago than one
\* receipt lives: after a host upgrade moved on, no administrator's request,
\* worker, queue or node can bring in the superseded release later than that.
SwitchIsRecent ==
    [][ SwitchedByReceipt /\ queued.action = "update"
        => node'.release = control.release \/ since <= ReceiptLife ]_vars

\* An update takes the node from the generation the administrator was shown to
\* the release the administrator was shown, although apply reads its evidence
\* piece by piece, creates the rollout after the comparison, and the node may be
\* moved by another rollout at any moment before this one leases it.
SwitchedAsPlanned ==
    [][ SwitchedByReceipt /\ queued.action = "update"
        => node.generation = plan.generation /\ node'.release = plan.release ]_vars

\* The ways a drained batch can never be signed for.
MetadataMoved == published # control.version \/ control.process # control.release
ReleaseMoved == rollout.release # control.release \/ rollout.version # published
GrantTooShort == grant["update"] < ReceiptLife
SourceMoved == node.said # rollout.generation
Uncovered == intent.state = "reserved" /\ intent.left > intent.cover

\* A batch whose routes are withdrawn gets its receipt, unless the publication
\* or the control host moved on, the node did, or the drain used up the grant
\* (which is renewed before the drain only).
DrainedIsSigned ==
    rollout.state = "withdrawing" ~>
        \/ rollout.state # "withdrawing"
        \/ MetadataMoved \/ ReleaseMoved \/ GrantTooShort \/ SourceMoved \/ Uncovered

\* An authorised rollback is queued, unless a newer publication waits for the
\* control host, the grant ran out, or an unexpired reservation made under an
\* earlier grant is in the way.
RollbackIsSigned ==
    (rollout.state = "paused" /\ grant["rollback"] = GrantLife) ~>
        \/ rollout.state # "paused"
        \/ MetadataMoved \/ grant["rollback"] < ReceiptLife \/ Uncovered
=============================================================================
