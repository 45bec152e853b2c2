---------------------------- MODULE PackageEngine ----------------------------
(***************************************************************************)
(* The package engine of a node (packages/engine.py) with its journal      *)
(* (packages/state.py), the materializer and the garbage collector, and    *)
(* what the agent's operation registry does after a restart                *)
(* (operations.py).                                                        *)
(*                                                                         *)
(* The agent executes one claim at a time.  Every transaction and every    *)
(* file operation of the engine is a step, and the process may die between *)
(* any two.  What survives is the journal, the generation trees, the       *)
(* release locks, the content store, the pointer of every deployment and   *)
(* the agent's own row of the attempt.  Operations go on for ever: only    *)
(* whether a row belongs to the current claim is kept of its owner.  The   *)
(* built agent never reports a cancellation (main.py, package_cancelled),  *)
(* so none is modelled.                                                    *)
(***************************************************************************)
EXTENDS Naturals, FiniteSets

CONSTANTS
    Deployments,    \* deployments of this node
    Releases,       \* releases
    Wanted,         \* the (deployment, release) pairs that operations name
    Parts,          \* the objects of every release
    MaxFaults       \* how often the process dies or the disk fails

VARIABLES
    gen,        \* the state of every generation, "none" without a row
    mine,       \* the generations whose row names the current operation and attempt
    tree,       \* the generation directory of every release and its tombstone
    lock,       \* the saved lock of every release: "none", "temp" or "saved"
    object,     \* the content store: "none", "stored", or "orphan" (a row without a file)
    pointer,    \* the pointer file of every deployment and its temporary file
    op,         \* the claim being executed
    torn,       \* deployments whose pointer and journal parted
    faults      \* deaths and failures of the disk so far

vars == <<gen, mine, tree, lock, object, pointer, op, torn, faults>>

Objects == UNION {Parts[r] : r \in Releases}
NoRelease == "no release"
Kinds == {"prepare", "activate", "rollback", "invoke", "remove", "repair", "gc"}

\* The states of a generations row.  "inactive", "staged", "rollback" and
\* "pinned" are known to the schema and written by nobody.
States == {"none", "staging", "validated", "active", "retained", "failed", "quarantined"}
Phases == {"none", "preflight", "fetch", "materialize", "validate", "validated", "pointer-selecting",
           "pointer-selected", "start", "health", "active", "rolled-back", "failed", "invoke", "remove",
           "cleanup", "completed", "repair", "gc-plan", "gc-delete"}
Steps == {"idle", "begin", "trust", "lock", "preflight", "fetch", "materialize", "record", "validate",
          "promote", "target", "select", "replace", "activate", "adapter", "start", "health", "compensate",
          "demote", "existing", "remove", "bury", "erase", "quarantine", "plan", "delete", "forget",
          "answer", "down", "wedged"}

\* The claim: what it asks for, the step it is at, the phase in the engine's
\* journal, and the engine's local variables.
Claimed == [kind : Kinds, d : Deployments, r : Releases, pc : Steps, phase : Phases,
            result : {"none", "succeeded", "failed"}, previous : Releases \cup {NoRelease},
            back : BOOLEAN, lost : BOOLEAN, intent : {"none", "mine", "older"},
            candidates : SUBSET Objects, deleting : SUBSET Objects]

First == CHOOSE w \in Wanted : TRUE
Nothing == [kind |-> "invoke", d |-> First[1], r |-> First[2],
            pc |-> "idle", phase |-> "none", result |-> "none", previous |-> NoRelease,
            back |-> FALSE, lost |-> FALSE, intent |-> "none", candidates |-> {}, deleting |-> {}]

Init ==
    /\ gen = [g \in Wanted |-> "none"]
    /\ mine = {}
    /\ tree = [r \in Releases |-> [final |-> FALSE, tombstone |-> FALSE]]
    /\ lock = [r \in Releases |-> "none"]
    /\ object = [o \in Objects |-> "none"]
    /\ pointer = [d \in Deployments |-> [at |-> NoRelease, temporary |-> FALSE]]
    /\ op = Nothing
    /\ torn = {}
    /\ faults = 0

-----------------------------------------------------------------------------
(* Reading the journal.                                                    *)

g == <<op.d, op.r>>

\* active_generation
Active(d) == {r \in Releases : <<d, r>> \in Wanted /\ gen[<<d, r>>] = "active"}
ActiveGeneration(d) == IF Active(d) = {} THEN NoRelease ELSE CHOOSE r \in Active(d) : TRUE

\* The states that keep the objects of a generation (reachable_objects).
Rooted == {"staging", "validated", "active", "retained"}

\* reachable_objects; no operation takes a lease.
Reachable == UNION {Parts[h[2]] : h \in {w \in Wanted : gen[w] \in Rooted}}

\* has_generation_reference: another deployment still needs the tree.
HasGenerationReference(h) == \E w \in Wanted \ {h} : w[2] = h[2] /\ gen[w] \in Rooted

\* What the agent makes of an attempt whose execution was cut off: inspect of
\* the engine, and _inspect_request of the registry.
Disposition(phase) ==
    CASE phase \in {"completed", "validated", "active", "rolled-back"} -> "completed"
      [] phase \in {"preflight", "fetch", "materialize", "validate", "repair", "cleanup"} -> "safe-to-retry"
      [] phase \in {"pointer-selecting", "pointer-selected", "start", "health"} -> "compensate"
      [] OTHER -> "operator-intervention"

-----------------------------------------------------------------------------
(* The agent: claims, answers, restarts.                                   *)

\* Steps of the current claim.
At(step) == op.pc = step
Goto(step) == op' = [op EXCEPT !.pc = step]
Enter(step, phase) == op' = [op EXCEPT !.pc = step, !.phase = phase]
Fail == op' = [op EXCEPT !.pc = "answer", !.result = "failed"]
Succeed(phase) == op' = [op EXCEPT !.pc = "answer", !.result = "succeeded", !.phase = phase]

\* A file or a transaction of the current step fails.
Fault == faults < MaxFaults /\ faults' = faults + 1

Store == <<tree, lock, object>>
Rows == <<gen, mine>>

\* AgentStateStore.begin: a claim.  To the engine the next attempt of an
\* operation is a new operation; only a collection also meets the intent an
\* earlier attempt recorded under the operation's name.
Claim ==
    /\ At("idle")
    /\ \E k \in Kinds, w \in Wanted, intent \in {"none", op.intent} :
         /\ k = "gc" => w = <<Nothing.d, Nothing.r>>
         /\ k # "gc" => intent = "none"
         /\ op' = [Nothing EXCEPT !.kind = k, !.d = w[1], !.r = w[2], !.pc = "begin", !.intent = intent]
    /\ UNCHANGED <<Rows, Store, pointer, torn, faults>>

\* The claim is over; the control plane issues a further attempt of one that
\* was interrupted.
Over == [Nothing EXCEPT !.intent = IF op.intent = "older" THEN "older" ELSE "none"]

\* finish: the result is durable, and then submitted.
Answer ==
    /\ At("answer")
    /\ op' = Over
    /\ mine' = {}
    /\ UNCHANGED <<gen, Store, pointer, torn, faults>>

\* The process dies.  Between the pointer's rename and the journal's
\* transaction the two disagree.
Crash ==
    /\ op.pc \notin {"idle", "down", "wedged"}
    /\ Fault
    /\ op' = [op EXCEPT !.pc = "down", !.result = "none", !.previous = NoRelease, !.back = FALSE, !.lost = FALSE,
                        !.candidates = {}, !.deleting = {}, !.intent = IF @ = "none" THEN "none" ELSE "older"]
    /\ torn' = torn \cup (IF At("activate") THEN {op.d} ELSE {})
    /\ UNCHANGED <<Rows, Store, pointer>>

\* run_once after a restart: the attempt that was cut off is inspected.  A
\* completed operation without evidence raises AgentStateConflict, which ends
\* the process, and the next one too.
Restart ==
    /\ At("down") \/ At("wedged")
    /\ LET disposition == Disposition(op.phase)
       IN \/ /\ disposition = "safe-to-retry"
             /\ Goto("begin") \/ Fail              \* SAFE_TO_RETRY, or the deadline has passed
             /\ UNCHANGED mine
          \/ /\ disposition \in {"compensate", "operator-intervention"}
             /\ op' = Over                            \* waiting-for-operator
             /\ mine' = {}
          \/ /\ disposition = "completed"
             /\ Goto("wedged")
             /\ UNCHANGED mine
    /\ UNCHANGED <<gen, Store, pointer, torn, faults>>

\* begin_operation: the first phase, kept when the same attempt runs again.
Begin ==
    /\ At("begin")
    /\ LET k == op.kind
           first == CASE k = "prepare" -> "trust" [] k \in {"activate", "rollback"} -> "target"
                      [] k = "invoke" -> "existing" [] k = "remove" -> "remove"
                      [] k = "repair" -> "quarantine" [] k = "gc" -> "plan"
           phase == CASE k = "prepare" -> "preflight" [] k \in {"activate", "rollback"} -> "pointer-selecting"
                      [] k = "gc" -> "gc-plan" [] OTHER -> k
       IN Enter(first, IF op.phase = "none" THEN phase ELSE op.phase)
    /\ UNCHANGED <<Rows, Store, pointer, torn, faults>>

-----------------------------------------------------------------------------
(* PackageEngine._prepare, and _repair, which ends in it.                  *)

\* The trusted lock is fetched and kept; _persist_lock creates its temporary
\* file exclusively.
Trust ==
    /\ At("trust")
    /\ \/ Fail /\ UNCHANGED lock
       \/ lock[op.r] = "saved" /\ Goto("preflight") /\ UNCHANGED lock
       \/ lock[op.r] = "none" /\ Goto("lock") /\ lock' = [lock EXCEPT ![op.r] = "temp"]
    /\ UNCHANGED <<Rows, tree, object, pointer, torn, faults>>

\* A write that fails leaves the temporary file.
SaveLock ==
    /\ At("lock")
    /\ \/ lock' = [lock EXCEPT ![op.r] = "saved"] /\ Goto("preflight") /\ UNCHANGED faults
       \/ Fault /\ Fail /\ UNCHANGED lock
    /\ UNCHANGED <<Rows, tree, object, pointer, torn>>

Preflight ==
    /\ At("preflight")
    /\ Fail \/ Enter("fetch", "fetch")
    /\ UNCHANGED <<Rows, Store, pointer, torn, faults>>

\* Every component is looked up or fetched; a component whose file is gone
\* although its row is complete fails the lookup.
Fetch ==
    /\ At("fetch")
    /\ \E got \in SUBSET Parts[op.r] :
         /\ \A o \in got : object[o] # "orphan"
         /\ object' = [o \in Objects |-> IF o \in got THEN "stored" ELSE object[o]]
         /\ IF got = Parts[op.r] THEN Enter("materialize", "materialize") ELSE Fail
    /\ UNCHANGED <<Rows, tree, lock, pointer, torn, faults>>

\* Materializer.materialize: an existing generation is returned as it is, a
\* new one is renamed into place at the end.
Materialize ==
    /\ At("materialize")
    /\ \/ ~tree[op.r].final /\ Fail /\ UNCHANGED tree
       \/ Goto("record") /\ tree' = [tree EXCEPT ![op.r].final = TRUE]
    /\ UNCHANGED <<Rows, lock, object, pointer, torn, faults>>

\* record_generation: a row of another operation or attempt is not taken over.
RecordGeneration ==
    /\ At("record")
    /\ \/ gen[g] # "none" /\ g \notin mine /\ Fail /\ UNCHANGED Rows
       \/ /\ gen[g] = "none" \/ g \in mine
          /\ gen' = [gen EXCEPT ![g] = "staging"]
          /\ mine' = mine \cup {g}
          /\ Enter("validate", "validate")
    /\ UNCHANGED <<Store, pointer, torn, faults>>

\* The adapter prepares and verifies the generation.
Validate ==
    /\ At("validate")
    /\ Fail \/ Goto("promote")
    /\ UNCHANGED <<Rows, Store, pointer, torn, faults>>

\* transition_generation: the generation is validated.
Promote ==
    /\ At("promote")
    /\ gen' = [gen EXCEPT ![g] = "validated"]
    /\ Succeed("validated")
    /\ UNCHANGED <<mine, Store, pointer, torn, faults>>

\* _repair: the generation is quarantined and prepared again.
Repair ==
    /\ At("quarantine")
    /\ \/ gen[g] = "active" /\ Fail /\ UNCHANGED Rows
       \/ gen[g] = "none" /\ Goto("trust") /\ UNCHANGED Rows
       \/ /\ gen[g] \notin {"active", "none"}
          /\ gen' = [gen EXCEPT ![g] = "quarantined"]
          /\ mine' = mine \cup {g}
          /\ Goto("trust")
    /\ UNCHANGED <<Store, pointer, torn, faults>>

-----------------------------------------------------------------------------
(* _activate and _rollback: the pointer is replaced first, the journal     *)
(* follows, the adapter starts the generation and checks its health.  A    *)
(* failed activation goes the same way back.                               *)

Chosen == IF op.back THEN op.previous ELSE op.r
Activatable == {"validated", "retained", "active"}
Compensates == op.kind = "activate" /\ ~op.back

\* The release must have a local generation.
Target ==
    /\ At("target")
    /\ \/ gen[g] \notin Activatable /\ Fail
       \/ /\ gen[g] \in Activatable
          /\ op' = [op EXCEPT !.pc = "select", !.previous = ActiveGeneration(op.d)]
    /\ UNCHANGED <<Rows, Store, pointer, torn, faults>>

\* What comes of an error once the pointer is being replaced: it leaves the
\* operation, and no step of it is undone.
Lose == op' = [op EXCEPT !.pc = "answer", !.result = "failed", !.lost = TRUE]

\* _select_pointer: _atomic_write creates the temporary file exclusively ...
Select ==
    /\ At("select")
    /\ \/ pointer[op.d].temporary /\ Fail /\ UNCHANGED pointer
       \/ ~pointer[op.d].temporary /\ Goto("replace") /\ pointer' = [pointer EXCEPT ![op.d].temporary = TRUE]
    /\ UNCHANGED <<Rows, Store, torn, faults>>

\* A faulty variant: the way back writes the pointer of the failed target.
Replace_Faulty ==
    /\ At("replace")
    /\ pointer' = [pointer EXCEPT ![op.d] = [at |-> op.r, temporary |-> FALSE]]
    /\ Enter("activate", IF op.back THEN op.phase ELSE "pointer-selected")
    /\ UNCHANGED <<Rows, Store, torn, faults>>

\* ... and renames it over the pointer.  The write fails, and the temporary file
\* stays; or what follows the rename does, the directory's fsync or set_phase.
Replace ==
    /\ At("replace")
    /\ \/ /\ pointer' = [pointer EXCEPT ![op.d] = [at |-> Chosen, temporary |-> FALSE]]
          /\ Enter("activate", IF op.back THEN op.phase ELSE "pointer-selected")
          /\ UNCHANGED <<torn, faults>>
       \/ Fault /\ Lose /\ UNCHANGED <<pointer, torn>>
       \/ /\ Fault /\ Lose
          /\ pointer' = [pointer EXCEPT ![op.d] = [at |-> Chosen, temporary |-> FALSE]]
          /\ torn' = torn \cup {op.d}
    /\ UNCHANGED <<Rows, Store>>

\* activate_generation: the predecessor is retained.
Activated(to) ==
    [h \in Wanted |-> IF h = <<op.d, to>> THEN "active"
                      ELSE IF h[1] = op.d /\ gen[h] = "active" THEN "retained" ELSE gen[h]]

\* The transaction, or its failure after the pointer was replaced.
ActivateGeneration ==
    /\ At("activate")
    /\ \/ /\ gen' = Activated(Chosen)
          /\ mine' = mine \cup {h \in Wanted : gen'[h] # gen[h]} \cup {<<op.d, Chosen>>}
          /\ torn' = torn \ {op.d}
          /\ Goto("adapter")
          /\ UNCHANGED faults
       \/ Fault /\ Lose /\ torn' = torn \cup {op.d} /\ UNCHANGED Rows
    /\ UNCHANGED <<Store, pointer>>

\* _local_lock: the lock of the release, as it was saved, and _adapter.  An error
\* here comes before the try that compensates.
Adapter ==
    /\ At("adapter")
    /\ \/ lock[Chosen] = "saved" /\ Enter("start", IF Compensates THEN "start" ELSE op.phase) /\ UNCHANGED faults
       \/ Fault /\ Lose
    /\ UNCHANGED <<Rows, Store, pointer, torn>>

\* The adapter's start.
Start ==
    /\ At("start")
    /\ \/ Enter("health", IF Compensates THEN "health" ELSE op.phase)
       \/ Compensates /\ Goto("compensate")
       \/ ~Compensates /\ Fail
    /\ UNCHANGED <<Rows, Store, pointer, torn, faults>>

\* The adapter's health check.
Health ==
    /\ At("health")
    /\ \/ ~op.back /\ Succeed(IF op.kind = "activate" THEN "active" ELSE "rolled-back")
       \/ op.back /\ Goto("demote")
       \/ Compensates /\ Goto("compensate")
       \/ ~Compensates /\ Fail
    /\ UNCHANGED <<Rows, Store, pointer, torn, faults>>

\* _compensate: without a predecessor the generation is only marked failed and
\* the pointer keeps naming it.
Compensate ==
    /\ At("compensate")
    /\ \/ /\ op.previous = NoRelease
          /\ gen' = [gen EXCEPT ![g] = "failed"]
          /\ mine' = mine \cup {g}
          /\ torn' = torn \cup {op.d}
          /\ op' = [op EXCEPT !.pc = "answer", !.result = "failed", !.phase = "failed"]
       \/ /\ op.previous # NoRelease
          /\ op' = [op EXCEPT !.pc = "select", !.back = TRUE]
          /\ UNCHANGED <<Rows, torn>>
    /\ UNCHANGED <<Store, pointer, faults>>

\* The end of _compensate: the target, retained by the way back, has failed.
\* When the target was its own predecessor it is active, and the transition
\* is refused.
Demote ==
    /\ At("demote")
    /\ \/ gen[g] = "active" /\ Fail /\ UNCHANGED Rows
       \/ /\ gen[g] # "active"
          /\ gen' = [gen EXCEPT ![g] = "failed"]
          /\ mine' = mine \cup {g}
          /\ op' = [op EXCEPT !.pc = "answer", !.result = "failed", !.phase = "rolled-back"]
    /\ UNCHANGED <<Store, pointer, torn, faults>>

\* _invoke_existing: health and stop of an installed generation.  Cut off, the
\* one is to be compensated and the other left to the operator, which the agent
\* answers alike.
InvokeExisting ==
    /\ At("existing")
    /\ \/ Fail
       \/ /\ gen[g] # "none"
          /\ lock[op.r] = "saved"
          /\ Succeed("completed")
    /\ UNCHANGED <<Rows, Store, pointer, torn, faults>>

-----------------------------------------------------------------------------
(* _remove.                                                                *)

\* Only a failed or quarantined generation is removed; the tree stays while
\* another deployment needs it.
Remove ==
    /\ At("remove")
    /\ \/ gen[g] = "none" /\ Succeed("completed") /\ UNCHANGED Rows
       \/ gen[g] \in Rooted /\ Fail /\ UNCHANGED Rows
       \/ /\ gen[g] \in {"failed", "quarantined"}
          /\ gen' = [gen EXCEPT ![g] = "failed"]
          /\ mine' = mine \cup {g}
          /\ IF HasGenerationReference(g) THEN Succeed("completed") ELSE Enter("bury", "cleanup")
    /\ UNCHANGED <<Store, pointer, torn, faults>>

\* _remove_generation_tree: the tree becomes a tombstone ...
Bury ==
    /\ At("bury")
    /\ \/ tree[op.r].final /\ tree[op.r].tombstone /\ Fail /\ UNCHANGED tree
       \/ /\ ~(tree[op.r].final /\ tree[op.r].tombstone)
          /\ tree' = [tree EXCEPT ![op.r] = [final |-> FALSE, tombstone |-> @.final \/ @.tombstone]]
          /\ Goto("erase")
    /\ UNCHANGED <<Rows, lock, object, pointer, torn, faults>>

\* ... which is deleted.
Erase ==
    /\ At("erase")
    /\ \/ tree[op.r].tombstone /\ Fail /\ UNCHANGED tree
       \/ Succeed("completed") /\ tree' = [tree EXCEPT ![op.r].tombstone = FALSE]
    /\ UNCHANGED <<Rows, lock, object, pointer, torn, faults>>

-----------------------------------------------------------------------------
(* PackageGarbageCollector.collect.                                        *)

\* The intent is recorded and the candidates planned.  An intent of an older
\* attempt is a conflict; a row without its file fails list_objects.
Plan ==
    /\ At("plan")
    /\ LET candidates == {o \in Objects : object[o] = "stored"} \ Reachable
       IN \/ op.intent = "older" /\ Fail
          \/ /\ op.intent # "older"
             /\ \E o \in Objects : object[o] = "orphan"
             /\ op' = [op EXCEPT !.pc = "answer", !.result = "failed", !.intent = "mine"]
          \/ /\ op.intent # "older"
             /\ \A o \in Objects : object[o] # "orphan"
             /\ \/ Succeed("completed")             \* a dry run, or nothing to do
                \/ /\ candidates # {}
                   /\ op' = [op EXCEPT !.pc = "delete", !.phase = "gc-delete", !.intent = "mine",
                                       !.candidates = candidates]
    /\ UNCHANGED <<Rows, Store, pointer, torn, faults>>

\* delete_unreachable removes the file ...
Delete ==
    /\ At("delete")
    /\ \E o \in op.candidates :
         /\ o \notin Reachable
         /\ object' = [object EXCEPT ![o] = "orphan"]
         /\ op' = [op EXCEPT !.pc = "forget", !.candidates = @ \ {o}, !.deleting = {o}]
    /\ UNCHANGED <<Rows, tree, lock, pointer, torn, faults>>

\* ... and then its row; the plan ends when it is exhausted or enough bytes
\* are reclaimed.
Forget ==
    /\ At("forget")
    /\ object' = [o \in Objects |-> IF o \in op.deleting THEN "none" ELSE object[o]]
    /\ \/ op.candidates # {} /\ op' = [op EXCEPT !.pc = "delete", !.deleting = {}]
       \/ op' = [op EXCEPT !.pc = "answer", !.result = "succeeded", !.phase = "completed",
                           !.candidates = {}, !.deleting = {}]
    /\ UNCHANGED <<Rows, tree, lock, pointer, torn, faults>>

-----------------------------------------------------------------------------
Execute ==
    \/ Begin \/ Trust \/ SaveLock \/ Preflight \/ Fetch \/ Materialize \/ RecordGeneration \/ Validate \/ Promote
    \/ Repair \/ Target \/ Select \/ Replace \/ ActivateGeneration \/ Adapter \/ Start \/ Health \/ Compensate
    \/ Demote \/ InvokeExisting \/ Remove \/ Bury \/ Erase \/ Plan \/ Delete \/ Forget

Next == Claim \/ Execute \/ Answer \/ Crash \/ Restart

Spec == Init /\ [][Next]_vars

\* The agent runs, and systemd restarts it.
Fairness == WF_vars(Execute \/ Answer) /\ WF_vars(Restart)
FairSpec == Spec /\ Fairness

-----------------------------------------------------------------------------
TypeOK ==
    /\ gen \in [Wanted -> States]
    /\ mine \subseteq Wanted
    /\ tree \in [Releases -> [final : BOOLEAN, tombstone : BOOLEAN]]
    /\ lock \in [Releases -> {"none", "temp", "saved"}]
    /\ object \in [Objects -> {"none", "stored", "orphan"}]
    /\ pointer \in [Deployments -> [at : Releases \cup {NoRelease}, temporary : BOOLEAN]]
    /\ op \in Claimed
    /\ torn \subseteq Deployments
    /\ faults \in 0 .. MaxFaults

\* Offline rollback: whatever operations, failures and crashes came before,
\* every generation that may be activated has its saved lock and all its objects
\* on the node (engine.py:128, "A prepared release is sufficient for
\* activation/rollback without a network trust refresh"), and every generation
\* in use has its tree, whichever deployment shares it and removes its own.
Offline ==
    \A h \in Wanted :
      /\ gen[h] \in Rooted => tree[h[2]].final
      /\ gen[h] \in Activatable =>
           lock[h[2]] = "saved" /\ \A o \in Parts[h[2]] : object[o] = "stored"

\* The pointer of a deployment names its only active generation, except while
\* an activation is between the two writes, after it died or failed there, and
\* after a first activation failed.  The next activation makes them agree again.
PointerAgrees ==
    \A d \in Deployments :
      /\ Cardinality(Active(d)) <= 1
      /\ (d \notin torn /\ ~(op.d = d /\ op.pc = "activate")) => pointer[d].at = ActiveGeneration(d)

\* A deployment that served a generation keeps one: an active generation is
\* only ever replaced by another one, unless it was the first and its own
\* activation failed; the one it replaces can be activated again.
Succeeded ==
    \A d \in Deployments : Active(d) # {} =>
      \/ \E r \in Releases : r \in Active(d)' /\ \A s \in Active(d) \ {r} : gen'[<<d, s>>] = "retained"
      \/ op.d = d /\ op.pc = "compensate" /\ op.previous = NoRelease

\* An activation that reports a failure has not left its target active unless
\* the target already was, and the generation it replaced serves again: whether
\* the start or the health check failed, and whether the predecessor started
\* again.  An error of the disk from the replacement of the pointer on is the
\* exception (engine.py:270-276, 350): nothing is undone then.
FailedActivationUndone ==
    (At("answer") /\ op.kind = "activate" /\ op.result = "failed" /\ op.previous \notin {NoRelease, op.r}) =>
      ActiveGeneration(op.d) = op.previous \/ op.lost

\* An activation that has succeeded serves: its target is the deployment's
\* active generation and the pointer names it, whatever earlier operations lost
\* between the two.
ActivationServes ==
    (At("answer") /\ op.kind \in {"activate", "rollback"} /\ op.result = "succeeded") =>
      ActiveGeneration(op.d) = op.r /\ pointer[op.d].at = op.r /\ op.d \notin torn

=============================================================================
