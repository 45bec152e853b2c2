---------------------------- MODULE HostUpgrade ----------------------------
(***************************************************************************)
(* The root-owned updater of the control host (vonk-control-offline): an   *)
(* apply or a rollback is a program of phases; each phase is probed, if    *)
(* need be performed, probed again and recorded in a journal; a failure    *)
(* compensates to the predecessor, and `recover` resumes what a crash cut  *)
(* off (upgrade.py, offline.py, host_state.py, host_backup.py).            *)
(*                                                                         *)
(* One process at a time holds the host-operation lock.  What a phase does *)
(* is a sequence of effects, each one durable step; the process may crash  *)
(* between any two of them, a command may fail, another release may be     *)
(* published, the operator may edit the site configuration, and a command  *)
(* that takes no lock may look at the selection.  A plan is a document: it *)
(* is made without the lock, at any time, and applied later.               *)
(***************************************************************************)
EXTENDS Naturals, Sequences, FiniteSets

CONSTANTS
  Generations,      \* control generations (one per platform release)
  Revision,         \* [Generations -> database revisions]
  Authorizes,       \* [Generations -> SUBSET Generations]: a release's predecessors
  Base,             \* [gen, prev]: the selection of a host that is already installed
  Hosts,            \* the hosts to start from, a subset of {"fresh", "installed"}
  MaxOperations, MaxCrashes, MaxFailures, MaxPublications   \* bounds

None == "none"

VARIABLES
  proc,       \* the process that holds the lock: what it runs, where it is
  plan,       \* the plan document an operator holds
  op,         \* the last operation's plan
  journal,    \* the phases its journal records
  file,       \* the journal on disk: "whole", or cut off in a publication
  h,          \* the host: generations, selection, backup, database, containers
  tuf,        \* version of the TUF targets metadata
  left        \* crashes, failures and publications still to come

vars == <<proc, plan, op, journal, file, h, tuf, left>>

ApplyPhases ==
  <<"authorized", "bundle-images-acquired", "generation-staged", "backup-completed",
    "services-stopped-database-migrated", "candidate-ready", "generation-committed",
    "generation-selected", "services-started", "worker-ready", "completed">>

RollbackPhases ==
  <<"authorized", "predecessor-verified", "services-stopped", "generation-selected",
    "services-started", "worker-ready", "rolled-back">>

DestructivePhases ==
  <<"compensation-started", "compensation-services-stopped", "backup-restored",
    "predecessor-selected", "predecessor-services-started", "predecessor-worker-ready",
    "candidate-cleaned", "failed">>

NondestructivePhases == <<"compensation-started", "candidate-cleaned", "failed">>

RangeOf(s) == {s[i] : i \in 1 .. Len(s)}

Terminal == journal # <<>> /\ journal[Len(journal)] \in {"completed", "failed", "rolled-back"}
Pending  == op.id > 0 /\ ~Terminal

---------------------------------------------------------------------------
(* The journal's programs. *)

Compensating == \E i \in 1 .. Len(journal) : journal[i] \in RangeOf(DestructivePhases)

Destructive == "services-stopped-database-migrated" \in RangeOf(journal)

ApplyPrefix == SelectSeq(journal, LAMBDA p : p \in RangeOf(ApplyPhases))

PhaseProgram ==
  CASE proc.back \/ Compensating ->
         ApplyPrefix \o (IF Destructive THEN DestructivePhases ELSE NondestructivePhases)
    [] ~(proc.back \/ Compensating) ->
         IF op.kind = "rollback" THEN RollbackPhases ELSE ApplyPhases

Phase == PhaseProgram[Len(journal) + 1]

---------------------------------------------------------------------------
(* The selection: a projection containers read, a pointer the host reads,  *)
(* and the intent that ties the two writes together.                       *)

NoPlan == [kind |-> None]

NoSelection == [gen |-> None, prev |-> None, op |-> 0, seq |-> 0]

Selection(g, previous, id, n) == [gen |-> g, prev |-> previous, op |-> id, seq |-> n]

Intended == h.intent # NoSelection /\ (h.projection = h.intent \/ h.pointer = h.intent.gen)

Consistent == h.pointer = h.projection.gen

\* What reconcile_selection leaves behind, and what it returns.
Reconciled ==
  IF Intended
  THEN [h EXCEPT !.projection = h.intent, !.pointer = h.intent.gen, !.intent = NoSelection]
  ELSE h

Active == h.projection

SelectionOf(g) == [gen |-> g, prev |-> Active.gen, op |-> op.id, seq |-> Active.seq + 1]

---------------------------------------------------------------------------
(* What the probes see. *)

Stopped == h.services.up = {}

Running == h.services.up = {"api", "worker"}

\* The readiness endpoint of the selected API: its own identity and nonce,
\* the selection, the database revision and its worker's heartbeat.
SelectedReady(g) ==
  /\ h.services.ready /\ h.services.gen = g /\ h.services.nonce = op.id
  /\ Active.gen = g /\ h.db = Revision[g]

CandidateIsClean == ~h.candidate.projected /\ h.candidate.container = None

ProbeBundle ==
  CASE h.bundle[op.gen] = None -> "absent"
    [] h.bundle[op.gen] = "dir" -> "conflict"
    [] h.bundle[op.gen] = "whole" -> IF op.gen \in h.images THEN "exact" ELSE "partial"

ProbeStaged ==
  CASE h.staging[op.gen].st \in {None, "files"} -> "absent"
    [] OTHER -> IF h.staging[op.gen].op = op.id THEN "exact" ELSE "conflict"

ProbeBackup ==
  CASE op.prev = None \/ h.backup = "whole" -> "exact"
    [] op.prev # None /\ h.backup = "sidecar" -> "conflict"
    [] OTHER -> "absent"

ProbeMigrated ==
  CASE op.prev = None -> IF h.staging[op.gen].migrated THEN "exact" ELSE "absent"
    [] op.prev # None /\ h.db = Revision[op.gen] /\ Stopped -> "exact"
    [] op.prev # None /\ h.db \notin {Revision[op.gen], Revision[op.prev]} -> "ambiguous"
    [] OTHER -> "partial"

ProbeCandidate ==
  CASE ~h.candidate.projected -> "absent"
    [] OTHER -> IF h.candidate.container = "ready" THEN "exact" ELSE "partial"

ProbeCommitted ==
  CASE op.gen \in h.committed -> "exact"
    [] OTHER -> IF ProbeStaged = "exact" THEN "absent" ELSE "conflict"

\* The predecessor may be selected as it was before the operation, or again by it.
ProbeSelected(g) ==
  CASE Active.gen = None -> "absent"
    [] Active.gen = g /\ (Active.op = op.id \/ (g = op.prev /\ Active.seq = op.seq)) -> "exact"
    [] OTHER -> "conflict"

ProbeReady(g) ==
  CASE Active.gen = None -> "absent"
    [] Active.gen \notin {None, g} -> "conflict"
    [] Active.gen = g /\ g \notin h.nonces -> "absent"
    [] Active.gen = g /\ g \in h.nonces /\ "api" \notin h.services.up -> "conflict"
    [] OTHER -> IF SelectedReady(g) THEN "exact" ELSE "partial"

ProbeTerminal(g) ==
  IF ProbeReady(g) = "exact" /\ ~CandidateIsClean THEN "partial" ELSE ProbeReady(g)

\* The database and every site file are as the archive has them.
RestoreStateIsExact == h.db = Revision[op.prev] /\ h.site = h.archive.site

ProbeRestored ==
  CASE ~h.restored -> "absent"
    [] OTHER -> IF RestoreStateIsExact THEN "exact" ELSE "conflict"

\* The release source still serves the very snapshot the plan was made from.
Authorized == tuf = op.tuf

\* The selected generation's release names the target as its predecessor.
PredecessorExact == Active.gen = op.prev /\ op.gen \in h.committed /\ op.gen \in Authorizes[op.prev]

ProbePhase(p) ==
  CASE p = "authorized" -> IF Authorized THEN "exact" ELSE "conflict"
    [] p = "predecessor-verified" -> IF PredecessorExact THEN "exact" ELSE "conflict"
    [] p = "compensation-started" -> "exact"
    [] p = "bundle-images-acquired" -> ProbeBundle
    [] p = "generation-staged" -> ProbeStaged
    [] p = "backup-completed" -> ProbeBackup
    [] p = "services-stopped-database-migrated" -> ProbeMigrated
    [] p = "candidate-ready" -> ProbeCandidate
    [] p = "generation-committed" -> ProbeCommitted
    [] p = "generation-selected" -> ProbeSelected(op.gen)
    [] p = "predecessor-selected" -> ProbeSelected(op.prev)
    [] p \in {"services-started", "predecessor-services-started"} ->
         IF Running THEN "exact" ELSE "absent"
    [] p = "worker-ready" -> ProbeReady(op.gen)
    [] p = "predecessor-worker-ready" -> ProbeReady(op.prev)
    [] p \in {"completed", "rolled-back"} -> ProbeTerminal(op.gen)
    [] p = "failed" -> ProbeTerminal(op.prev)
    [] p \in {"services-stopped", "compensation-services-stopped"} ->
         IF Stopped THEN "exact" ELSE "partial"
    [] p = "backup-restored" -> ProbeRestored
    [] p = "candidate-cleaned" -> IF CandidateIsClean THEN "exact" ELSE "partial"

---------------------------------------------------------------------------
(* What performing a phase does: its durable effects, in order. *)

AcquireBundle ==
  IF h.bundle[op.gen] = None THEN <<"bundle-directory", "bundle-files", "images">> ELSE <<"images">>

MigrateDatabase ==
  CASE op.prev = None -> <<"migrate", "migration-receipt">>
    [] op.prev # None /\ h.db = Revision[op.gen] -> <<"stop">>
    [] OTHER -> <<"stop", "migrate", "migration-receipt">>

Select == <<"intent", "projection", "pointer", "unlink-intent">>

\* An interrupted staging is cleared; a receipt published without its
\* artifact would be completed from the staging that is still there.
PrepareBackupRetry == IF h.backup = "staging" THEN <<"backup-cleared">> ELSE <<>>

RecoverPendingPublication == <<"backup-artifact">>

CreateUpgradeBackup ==
  IF h.backup = "sidecar" THEN RecoverPendingPublication
  ELSE PrepareBackupRetry \o <<"dump", "archive", "backup-receipt", "backup-artifact">>

StageGeneration == <<"staging-files", "staging-receipt">>

ReadyCandidate == <<"candidate-projection", "candidate-removed", "candidate-run", "await-candidate">>

CommitGeneration == <<"generation-receipt", "generation-renamed">>

StartServices == <<"nonce", "up">>

AwaitWorker == <<"nonce", "await-worker">>

\* A receipt whose state is no longer exact is taken back first.
RestoreForCompensation ==
  (IF h.restored THEN <<"restore-unreceipted">> ELSE <<>>)
    \o <<"restore-database", "restore-site", "restore-receipt">>

RemoveCandidate == <<"candidate-removed", "candidate-unprojected">>

PerformPhase(p) ==
  CASE p = "bundle-images-acquired" -> AcquireBundle
    [] p = "generation-staged" -> StageGeneration
    [] p = "backup-completed" -> CreateUpgradeBackup
    [] p = "services-stopped-database-migrated" -> MigrateDatabase
    [] p = "candidate-ready" -> ReadyCandidate
    [] p = "generation-committed" -> CommitGeneration
    [] p \in {"generation-selected", "predecessor-selected"} -> Select
    [] p \in {"services-started", "predecessor-services-started"} -> StartServices
    [] p \in {"worker-ready", "predecessor-worker-ready"} -> AwaitWorker
    [] p \in {"services-stopped", "compensation-services-stopped"} -> <<"stop">>
    [] p = "backup-restored" -> RestoreForCompensation
    [] p \in {"candidate-cleaned", "completed"} -> RemoveCandidate
    [] OTHER -> <<>>

\* The generation a phase is about.
Subject == IF proc.back THEN op.prev ELSE op.gen

Staged(st) == [h.staging EXCEPT ![op.gen].st = st, ![op.gen].op = op.id]

NoStaging == [op |-> 0, st |-> None, migrated |-> FALSE]

NoArchive == [op |-> 0, db |-> None, site |-> 0]

\* pg_dump runs while the services still do, and before the site's files are
\* read: what the archive holds of them is of two different moments.
DumpedRevision == h.db

WrittenArchive == [h.archive EXCEPT !.op = op.id, !.site = h.site]

\* The artifact is hashed against its receipt, and the manifest inside names
\* this operation and this generation.
VerifiedForRestore == h.backup = "whole" /\ h.archive.op = op.id

ExtractedArchive == h.archive

\* Each file is replaced by the archive's, and files it does not have go.
RestoredSite == ExtractedArchive.site

\* The host after one effect.
After(e) ==
  CASE e = "bundle-directory" -> [h EXCEPT !.bundle[op.gen] = "dir"]
    [] e = "bundle-files" -> [h EXCEPT !.bundle[op.gen] = "whole"]
    [] e = "images" -> [h EXCEPT !.images = @ \cup {op.gen}]
    [] e = "staging-files" ->
         [h EXCEPT !.staging[op.gen] = [op |-> op.id, st |-> "files", migrated |-> FALSE]]
    [] e = "staging-receipt" -> [h EXCEPT !.staging = Staged("staged")]
    [] e = "backup-cleared" -> [h EXCEPT !.backup = None, !.archive = NoArchive]
    [] e = "dump" -> [h EXCEPT !.backup = "staging", !.archive.db = DumpedRevision]
    [] e = "archive" -> [h EXCEPT !.archive = WrittenArchive]
    [] e = "backup-receipt" -> [h EXCEPT !.backup = "sidecar"]
    [] e = "backup-artifact" -> [h EXCEPT !.backup = "whole"]
    [] e = "stop" -> [h EXCEPT !.services.up = {}, !.services.ready = FALSE]
    [] e = "migrate" -> [h EXCEPT !.db = Revision[op.gen]]
    [] e = "migration-receipt" -> [h EXCEPT !.staging[op.gen].migrated = TRUE]
    [] e = "candidate-projection" -> [h EXCEPT !.candidate.projected = TRUE]
    [] e = "candidate-removed" -> [h EXCEPT !.candidate.container = None]
    [] e = "candidate-run" -> [h EXCEPT !.candidate.container = "up"]
    [] e = "candidate-unprojected" -> [h EXCEPT !.candidate.projected = FALSE]
    [] e = "generation-receipt" -> [h EXCEPT !.staging = Staged("received")]
    [] e = "generation-renamed" ->
         [h EXCEPT !.staging[op.gen] = NoStaging, !.committed = @ \cup {op.gen}]
    [] e = "intent" -> [h EXCEPT !.intent = SelectionOf(Subject)]
    [] e = "projection" -> [h EXCEPT !.projection = h.intent]
    [] e = "pointer" -> [h EXCEPT !.pointer = Subject]
    [] e = "unlink-intent" -> [h EXCEPT !.intent = NoSelection]
    [] e = "nonce" -> [h EXCEPT !.nonces = @ \cup {Subject}]
    [] e = "up" -> [h EXCEPT !.services =
         [gen |-> Subject, nonce |-> op.id, up |-> {"api", "worker"}, ready |-> FALSE]]
    [] e = "restore-unreceipted" -> [h EXCEPT !.restored = FALSE]
    [] e = "restore-database" -> [h EXCEPT !.db = ExtractedArchive.db]
    [] e = "restore-site" -> [h EXCEPT !.site = RestoredSite]
    [] e = "restore-receipt" -> [h EXCEPT !.restored = TRUE]
    [] e \in {"await-candidate", "await-worker"} -> h

\* An effect that finds the host as no step of this operation leaves it.
Refused(e) ==
  \/ e = "staging-files" /\ op.gen \in h.committed
  \/ e = "generation-receipt" /\ h.staging[op.gen].st = "received"

\* A wait ends when what it waits for is there; a command just runs.
Ready(e) ==
  /\ e = "await-candidate" => h.candidate.container = "ready"
  /\ e = "await-worker" => SelectedReady(Subject)

\* Commands that cannot succeed: an intent another command has settled is
\* gone, and the name of a container that could not be removed is taken.
Doomed(e) ==
  \/ e = "unlink-intent" /\ h.intent = NoSelection
  \/ e = "candidate-run" /\ h.candidate.container # None
  \/ e = "restore-database" /\ ~VerifiedForRestore
  \/ e = "restore-receipt" /\ ~RestoreStateIsExact

\* What a failing effect may leave behind: each handler's clean-up included.
FailedAfter(e) ==
  CASE e \in {"bundle-directory", "bundle-files"} -> {[h EXCEPT !.bundle[op.gen] = None]}
    [] e \in {"staging-files", "staging-receipt"} -> {[h EXCEPT !.staging[op.gen] = NoStaging]}
    [] e \in {"dump", "archive", "backup-receipt", "backup-artifact"} ->
         {[h EXCEPT !.backup = None, !.archive = NoArchive]}
    [] e = "stop" -> {[h EXCEPT !.services.up = @ \ down, !.services.ready = FALSE] : down \in {{}, {"worker"}}}
    [] e = "migrate" -> {[h EXCEPT !.db = r] : r \in {h.db, Revision[op.gen], "other"}}
    [] e = "up" -> {h, [After(e) EXCEPT !.services.up = {"api"}]}
    [] e \in {"candidate-run", "generation-receipt"} -> {h, After(e)}
    [] e = "restore-site" -> {h, After(e)}
    [] e = "restore-receipt" -> {[h EXCEPT !.restored = FALSE]}
    [] OTHER -> {h}

---------------------------------------------------------------------------
(* The process that holds the lock. *)

Idle == [at |-> "none", back |-> FALSE, todo |-> <<>>, tried |-> FALSE]

Dispatching(back) == [at |-> "run", back |-> back, todo |-> <<>>, tried |-> FALSE]

InstalledHost ==
  [bundle    |-> [g \in Generations |-> IF g \in {Base.gen, Base.prev} THEN "whole" ELSE None],
   images    |-> {Base.gen, Base.prev},
   staging   |-> [g \in Generations |-> NoStaging],
   committed |-> {Base.gen, Base.prev},
   backup    |-> None, archive |-> NoArchive, restored |-> FALSE, nonces |-> {},
   site      |-> 1,
   db        |-> Revision[Base.gen],
   services  |-> [gen |-> Base.gen, nonce |-> 0, up |-> {"api", "worker"}, ready |-> TRUE],
   candidate |-> [projected |-> FALSE, container |-> None],
   projection |-> Selection(Base.gen, Base.prev, 0, 2), pointer |-> Base.gen,
   intent    |-> NoSelection]

FreshHost ==
  [InstalledHost EXCEPT
     !.bundle = [g \in Generations |-> None], !.images = {}, !.committed = {},
     !.db = "uninitialized", !.services = [gen |-> None, nonce |-> 0, up |-> {}, ready |-> FALSE],
     !.projection = NoSelection, !.pointer = None]

Init ==
  /\ h \in {FreshHost : x \in Hosts \cap {"fresh"}} \cup {InstalledHost : x \in Hosts \cap {"installed"}}
  /\ op = [id |-> 0, kind |-> "apply", gen |-> None, prev |-> None, seq |-> 0, tuf |-> 0]
  /\ plan = NoPlan
  /\ proc = Idle /\ journal = <<>> /\ file = "whole" /\ tuf = 1
  /\ left = [crash |-> MaxCrashes, fail |-> MaxFailures, publish |-> MaxPublications]

\* The release authorizes the active generation as its predecessor.
MayApply(g) == g # Active.gen /\ (Active.gen = None \/ Active.gen \in Authorizes[g])

MayRollBack(g) ==
  /\ Active.gen # None /\ g = Active.prev
  /\ g \in h.committed /\ g \in Authorizes[Active.gen]

\* What the plan binds of the host it was made on.
DatabaseRevision == IF Active.gen = None THEN "uninitialized" ELSE h.db

SiteConfigurationDigest == h.site

RunningControlIdentities ==
  IF h.services.up = {} THEN NoPlan
  ELSE [up |-> h.services.up, gen |-> h.services.gen, nonce |-> h.services.nonce]

IdentitiesConsistent == h.services.up # {} => h.services.gen = Active.gen

PlanOf(kind, g) ==
  [kind |-> kind, gen |-> g, prev |-> Active.gen, seq |-> Active.seq, tuf |-> tuf,
   db |-> DatabaseRevision, site |-> SiteConfigurationDigest, running |-> RunningControlIdentities]

\* A faulty variant: only the release's own snapshot is looked at again.
NewPlanSnapshot_Faulty == plan.tuf = tuf

\* _require_new_plan_snapshot: everything the plan binds is still so.
NewPlanSnapshot == IdentitiesConsistent /\ plan = PlanOf(plan.kind, plan.gen)

\* plan, rollback_plan: no lock is taken, and loading the selection settles it.
Plan(kind, g) ==
  /\ op.id < MaxOperations /\ h.intent = NoSelection
  /\ (plan # NoPlan => ~NewPlanSnapshot) /\ IdentitiesConsistent
  /\ IF kind = "apply" THEN MayApply(g) ELSE MayRollBack(g)
  /\ plan' = PlanOf(kind, g)
  /\ UNCHANGED <<proc, op, journal, file, h, tuf, left>>

\* _apply_exact under the lock: no operation is pending and the plan is current.
Begin ==
  /\ proc = Idle /\ ~Pending /\ file = "whole"
  /\ plan # NoPlan /\ NewPlanSnapshot
  /\ plan.kind = "rollback" => MayRollBack(plan.gen)
  /\ op' = [id |-> op.id + 1, kind |-> plan.kind, gen |-> plan.gen, prev |-> plan.prev,
            seq |-> plan.seq, tuf |-> plan.tuf]
  /\ journal' = <<>> /\ proc' = [Dispatching(FALSE) EXCEPT !.at = "create"]
  /\ h' = [h EXCEPT !.backup = None, !.archive = NoArchive, !.restored = FALSE, !.nonces = {}]
  /\ plan' = NoPlan
  /\ UNCHANGED <<file, tuf, left>>

JournalCreated ==
  /\ proc.at = "create" /\ proc' = Dispatching(FALSE)
  /\ UNCHANGED <<plan, op, journal, file, h, tuf, left>>

\* recover: settles the selection, and resumes the program the journal is in.
\* A forward program first revalidates its authorization.
Recover ==
  /\ proc = Idle /\ Pending /\ file = "whole"
  /\ (~Compensating /\ journal # <<>>) => Authorized
  /\ h' = Reconciled
  /\ proc' = Dispatching(Compensating)
  /\ UNCHANGED <<plan, op, journal, file, tuf, left>>

\* The next phase is published behind the ones before it.
Appended == Append(journal, Phase)

\* The dispatcher probes the next phase: exact is recorded, absent or partial
\* is performed once, everything else ends the process.
Observe ==
  /\ proc.at = "run" /\ proc.todo = <<>>
  /\ \/ /\ ProbePhase(Phase) = "exact"
        /\ journal' = Appended
        /\ proc' = IF Phase \in {"completed", "rolled-back", "failed"}
                   THEN Idle ELSE [proc EXCEPT !.tried = FALSE]
     \/ /\ ProbePhase(Phase) \in {"absent", "partial"} /\ ~proc.tried
        /\ proc' = [proc EXCEPT !.todo = PerformPhase(Phase), !.tried = TRUE]
        /\ UNCHANGED journal
     \/ /\ ProbePhase(Phase) \in {"conflict", "ambiguous"} \/ (proc.tried /\ ProbePhase(Phase) # "exact")
        /\ proc' = Idle
        /\ UNCHANGED journal
  /\ UNCHANGED <<plan, op, file, h, tuf, left>>

Effect ==
  /\ proc.todo # <<>> /\ ~Refused(Head(proc.todo)) /\ ~Doomed(Head(proc.todo))
  /\ Ready(Head(proc.todo))
  /\ h' = After(Head(proc.todo))
  /\ proc' = [proc EXCEPT !.todo = Tail(@)]
  /\ UNCHANGED <<plan, op, journal, file, tuf, left>>

\* A refused effect is a conflict: no compensation.
Refuse ==
  /\ proc.todo # <<>> /\ Refused(Head(proc.todo))
  /\ proc' = Idle
  /\ UNCHANGED <<plan, op, journal, file, h, tuf, left>>

\* An apply that fails goes back to its predecessor, unless the migration's
\* outcome is unknown or a first install has already migrated.
CanCompensate(e) == op.kind = "apply" /\ ~proc.back /\ e # "migrate" /\ ~(Destructive /\ op.prev = None)

Fail ==
  /\ proc.todo # <<>> /\ ~Refused(Head(proc.todo)) /\ Head(proc.todo) # "candidate-removed"
  /\ \/ Doomed(Head(proc.todo)) /\ h' = h /\ UNCHANGED left
     \/ /\ ~Doomed(Head(proc.todo)) /\ left.fail > 0
        /\ h' \in FailedAfter(Head(proc.todo))
        /\ left' = [left EXCEPT !.fail = @ - 1]
  /\ proc' = IF CanCompensate(Head(proc.todo)) THEN Dispatching(TRUE) ELSE Idle
  /\ UNCHANGED <<plan, op, journal, file, tuf>>

\* A container that cannot be removed is taken for one that is not there.
RemovalSwallowed ==
  /\ proc.todo # <<>> /\ Head(proc.todo) = "candidate-removed" /\ left.fail > 0
  /\ proc' = [proc EXCEPT !.todo = Tail(@)]
  /\ left' = [left EXCEPT !.fail = @ - 1]
  /\ UNCHANGED <<plan, op, journal, file, h, tuf>>

\* The process dies between two durable steps; or while it publishes the
\* journal, or a phase of it, and leaves the unfinished publication behind.
Crash ==
  /\ proc # Idle /\ left.crash > 0
  /\ \/ proc.at = "create" /\ file' = "creating"
     \/ proc.at = "run" /\ UNCHANGED file
     \/ proc.at = "run" /\ proc.todo = <<>> /\ ProbePhase(Phase) = "exact" /\ file' = "torn"
  /\ proc' = Idle
  /\ left' = [left EXCEPT !.crash = @ - 1]
  /\ UNCHANGED <<plan, op, journal, h, tuf>>

\* Maintenance looks at the selection before it takes the lock, if it takes
\* it at all, and so do status and plan: a pending selection is settled.
Maintenance ==
  /\ h.intent # NoSelection /\ h' = Reconciled /\ h' # h
  /\ UNCHANGED <<plan, proc, op, journal, file, tuf, left>>

\* The release authority publishes a new version of its targets.
Publish ==
  /\ left.publish > 0
  /\ tuf' = tuf + 1 /\ left' = [left EXCEPT !.publish = @ - 1]
  /\ UNCHANGED <<plan, proc, op, journal, file, h>>

\* The operator edits the site's environment or a file it names.
EditSite ==
  /\ left.publish > 0
  /\ h' = [h EXCEPT !.site = 2] /\ left' = [left EXCEPT !.publish = @ - 1]
  /\ UNCHANGED <<plan, proc, op, journal, file, tuf>>

\* Containers come up against a database at their own revision.
CandidateComesUp ==
  /\ h.candidate.container = "up" /\ h.candidate.projected /\ h.db = Revision[op.gen]
  /\ h' = [h EXCEPT !.candidate.container = "ready"]
  /\ UNCHANGED <<plan, proc, op, journal, file, tuf, left>>

ServicesComeUp ==
  /\ Running /\ ~h.services.ready
  /\ h.db = Revision[h.services.gen] /\ h.projection.gen = h.services.gen
  /\ h' = [h EXCEPT !.services.ready = TRUE]
  /\ UNCHANGED <<plan, proc, op, journal, file, tuf, left>>

Next ==
  \/ \E kind \in {"apply", "rollback"}, g \in Generations : Plan(kind, g)
  \/ Begin \/ JournalCreated \/ Recover \/ Observe \/ Effect \/ Refuse \/ Fail \/ RemovalSwallowed
  \/ Crash \/ Maintenance \/ Publish \/ EditSite \/ CandidateComesUp \/ ServicesComeUp

\* A running process goes on, containers that can become ready do, and the
\* operator runs `recover` while an operation is pending (the runbook's step).
Fairness ==
  /\ WF_vars(JournalCreated) /\ WF_vars(Observe)
  /\ WF_vars(Effect \/ Refuse \/ (Fail /\ Doomed(Head(proc.todo))))
  /\ WF_vars(Recover) /\ WF_vars(CandidateComesUp) /\ WF_vars(ServicesComeUp)

Spec == Init /\ [][Next]_vars /\ Fairness

---------------------------------------------------------------------------
(* Properties. *)

\* The host, the journal and the process have their types.
TypeOK ==
  /\ proc.at \in {"none", "create", "run"} /\ proc.back \in BOOLEAN /\ proc.tried \in BOOLEAN
  /\ op.gen \in Generations \cup {None} /\ op.prev \in Generations \cup {None}
  /\ file \in {"whole", "creating", "torn"}
  /\ h.committed \subseteq Generations /\ h.services.up \subseteq {"api", "worker"}
  /\ h.backup \in {None, "staging", "sidecar", "whole"}
  /\ h.pointer \in Generations \cup {None} /\ h.projection.gen \in Generations \cup {None}

\* However a selection was cut off, and whatever looked at it meanwhile,
\* projection and pointer agree or the intent says which of them is to win:
\* reconcile_selection never finds "inconsistent" state it must refuse.
SelectionRecoverable == Intended \/ Consistent

\* API and worker only ever run against a database at their own revision and
\* under the selection that names their generation: not between the stop and
\* the migration, not after a crash there, not during a compensation.
RunningServicesFit ==
  h.services.up # {} =>
    /\ h.db = Revision[h.services.gen]
    /\ h.services.gen \in {Active.gen, h.intent.gen}

\* Whatever was planned when, the database leaves the revision of the active
\* generation only when a whole backup, taken by this very operation, exists
\* to come back from.
MigratedOnlyWithBackup ==
  (Pending /\ Active.gen \notin {None, op.gen} /\ h.db # Revision[Active.gen])
    => h.backup = "whole" /\ h.archive.db = Revision[Active.gen]

\* What the journal's last phase claims is so: after "completed" the
\* candidate is selected, migrated to, running and ready; after "failed" the
\* predecessor is, the database restored; and no candidate is left behind.
TerminalIsExact ==
  (Terminal /\ proc = Idle) =>
    LET g == IF journal[Len(journal)] = "failed" THEN op.prev ELSE op.gen
    IN  /\ Active.gen = g /\ Consistent /\ g \in h.committed
        /\ h.db = Revision[g]
        /\ h.services.gen = g /\ Running /\ h.services.ready
        /\ CandidateIsClean

\* Where a pending operation can stand for ever: each a state the code cannot
\* leave on its own (section 3.1 of the README names the lines of each).  The
\* first two are reached without any crash (see UndisturbedEnds).
SelectionRefused   == Phase = "generation-selected" /\ Active.gen \notin {None, op.gen}
FailureUnprovable  == Compensating /\ ~Destructive
PublicationCutOff  ==
  \/ h.bundle[op.gen] = "dir" \/ h.backup = "sidecar"
  \/ h.staging[op.gen].st = "received" \/ file # "whole"
AuthorizationMoved == ~Compensating /\ ~Authorized
StagingOfAnother   == Phase = "generation-staged" /\ ProbeStaged = "conflict"
MigrationUnknown   == h.db = "other"
RestoreOutdated    == Phase = "backup-restored" /\ ProbeRestored = "conflict"

Stranded ==
  /\ proc = Idle /\ Pending
  /\ \/ SelectionRefused \/ FailureUnprovable \/ PublicationCutOff
     \/ AuthorizationMoved \/ StagingOfAnother \/ MigrationUnknown
     \/ RestoreOutdated

\* However often the process dies and whichever command fails, an operator who
\* keeps running `recover` gets every operation to a terminal phase, or to one
\* of the states named above: there is no other way to stay pending for ever.
RecoveryEndsOrStrands == []<>(~ Pending \/ Stranded)

\* What the design and the runbook say of an upgrade of an installed host and
\* of a rollback: when no process dies, no command fails, and neither the
\* release source nor the site changes, the operation carried out under the
\* lock ends in its terminal phase.
Undisturbed ==
  left = [crash |-> MaxCrashes, fail |-> MaxFailures, publish |-> MaxPublications]

UndisturbedEnds == Undisturbed /\ proc = Idle => ~Pending

=============================================================================
