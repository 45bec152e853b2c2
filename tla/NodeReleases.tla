--------------------------- MODULE NodeReleases ---------------------------
(***************************************************************************)
(* Installing one release on a node (agent releases.py) and running its    *)
(* workload adapter (workloads.py).                                        *)
(*                                                                         *)
(* An attempt stages the release under a fresh token, with a recovery      *)
(* record beside it: an intent, then a complete record that names the      *)
(* staged directory's inode.  Names are moved and removed one system call  *)
(* at a time; an attempt may be cut off between any two, by its deadline,  *)
(* by an error of the file system or by the death of the agent, and the    *)
(* next one recovers.                                                      *)
(***************************************************************************)
EXTENDS Naturals, Sequences, FiniteSets, FiniteSetsExt

CONSTANTS
    Attempts,    \* attempts, each with its own token
    Cap,         \* _MAX_DEFERRED_STAGING
    Slots        \* _ACTIVE_INSTALL_RECOVERY_SLOTS

VARIABLES
    disk,        \* the staging directory, by token
    release,     \* releases/<digest>: absent, partial or full
    signed,      \* the trust boundary still authorizes the release
    op,          \* what the agent does: its function, token and writes to come
    used,        \* tokens used
    deferred,    \* _deferred_staging: the tokens whose directory this process knows
    ran          \* the workload adapter's process is alive

vars == <<disk, release, signed, op, used, deferred, ran>>

Tokens == 1 .. Attempts

\* A directory: not there, empty, with part of a release or with all of it.
Tree == {"none", "empty", "partial", "full"}

\* The names of one token.  state is .recovery-t.state, new .recovery-t.new,
\* retired .quarantine-recovery-t-*, tree .install-*-t, aside
\* .quarantine-tree-t-*, unproven .quarantine-t-*.
Entry == [state : {"none", "torn", "intent", "complete"}, new : {"none", "torn", "complete"}, retired : BOOLEAN,
          tree : Tree, aside : Tree, unproven : Tree]
NoEntry == [state |-> "none", new |-> "none", retired |-> FALSE, tree |-> "none", aside |-> "none", unproven |-> "none"]

\* Functions of ReleaseInstaller: reap and reserve before an install, the
\* install, its cleanup; inspect, and the reap in it; the workload's execute.
\* staged: staging_identity is known; record: what recovery_identity identifies.
Op == [fn : {"idle", "down", "reap", "reserve", "install", "cleanup", "inspect", "execute"}, then : {"none", "install", "inspect"},
       token : 0 .. Attempts, todo : Seq(STRING), staged : BOOLEAN, record : {"none", "intent", "complete"},
       answer : {"none", "installed", "failed", "completed", "resume", "operator"}, recovered : BOOLEAN]
Idle == [fn |-> "idle", then |-> "none", token |-> 0, todo |-> << >>, staged |-> FALSE, record |-> "none",
         answer |-> "none", recovered |-> FALSE]

Init ==
    /\ disk = [t \in Tokens |-> NoEntry]
    /\ release = "absent"
    /\ signed = TRUE
    /\ op = Idle
    /\ used = 0
    /\ deferred = {}
    /\ ran = FALSE

\* ReleaseTrustBoundary.authorize and agrees_with: the request names what the
\* signed descriptor says.
Authorized == signed

Answer(answer) == op' = [Idle EXCEPT !.answer = answer]

-----------------------------------------------------------------------------
(* Names.                                                                  *)

\* artifact_count.
ReleaseFiles ==
    LET count(e) == Cardinality({f \in {"state", "new", "tree", "aside", "unproven"} : e[f] # "none"})
                    + (IF e.retired THEN 1 ELSE 0)
    IN MapThenSumSet(LAMBDA t : count(disk[t]), Tokens)

\* One system call on the names of one token.
Called(call, e) ==
    CASE call = "open intent" -> [e EXCEPT !.state = "torn"]
      [] call = "write intent" -> [e EXCEPT !.state = "intent"]
      [] call = "make directory" -> [e EXCEPT !.tree = "empty"]
      [] call = "open record" -> [e EXCEPT !.new = "torn"]
      [] call = "write record" -> [e EXCEPT !.new = "complete"]
      [] call = "retire" -> [e EXCEPT !.state = "none", !.retired = (@ \/ e.state # "none")]
      [] call = "unlink retired" -> [e EXCEPT !.retired = FALSE]
      [] call = "promote" -> [e EXCEPT !.new = "none", !.state = "complete"]
      [] call = "pull some" -> [e EXCEPT !.tree = "partial"]
      [] call = "pull" -> [e EXCEPT !.tree = "full"]
      [] call = "unlink some" -> [e EXCEPT !.tree = IF @ = "full" THEN "partial" ELSE @]
      [] call = "empty" -> [e EXCEPT !.tree = "empty"]
      [] call = "set aside" -> [e EXCEPT !.tree = "none", !.aside = e.tree]
      [] call = "remove directory" -> [e EXCEPT !.aside = "none"]
      [] call = "quarantine" -> [e EXCEPT !.tree = "none", !.unproven = e.tree]
      [] call = "publish" -> [e EXCEPT !.tree = "none"]
      [] OTHER -> e

\* _write_recovery_intent_fd.  The caller learns the record's inode at the end.
WriteIntent == <<"open intent", "write intent", "sync intent">>

\* mkdir, then open and fstat: only then is the directory's inode known.
MakeDirectory == <<"make directory", "open directory">>

\* _remove_recovery_record_fd of a record whose inode is the expected one.
RemoveRecord == <<"retire", "unlink retired">>

\* _complete_recovery_record_fd: the temporary record first.
CompleteRecord == <<"open record", "write record">> \o RemoveRecord \o <<"promote", "sync promotion">>

\* _remove_bound_tree_fd, _remove_directory_contents_fd and
\* _remove_empty_directory_by_identity
RemoveTree == <<"unlink some", "empty", "set aside", "remove directory">>

\* The transport's pull, _verify_release_tree_fd and the receipt, the rename, the
\* look at what was published and its verification.
Publish == <<"pull some", "pull", "verify", "publish", "open release", "check">>

-----------------------------------------------------------------------------
(* install                                                                 *)

\* install, up to the recovery of what earlier attempts left.
Install ==
    /\ op.fn = "idle" /\ used < Attempts
    /\ Authorized
    /\ op' = [Idle EXCEPT !.fn = "reap", !.then = "install"]
    /\ UNCHANGED <<disk, release, signed, used, deferred, ran>>

\* A release that is there is verified and the attempt is over.
Installed ==
    /\ op.fn = "reserve" /\ release # "absent"
    /\ Answer(IF release = "full" THEN "installed" ELSE "failed")
    /\ UNCHANGED <<disk, release, signed, used, deferred, ran>>

\* _reserve_staging: the names an attempt may have at once must still fit.
Reservable == ReleaseFiles + Slots <= Cap

Reserve ==
    /\ op.fn = "reserve" /\ release = "absent"
    /\ IF Reservable
       THEN /\ used' = used + 1
            /\ op' = [op EXCEPT !.fn = "install", !.token = used + 1,
                                !.todo = WriteIntent \o MakeDirectory \o CompleteRecord \o Publish]
       ELSE Answer("failed") /\ UNCHANGED used
    /\ UNCHANGED <<disk, release, signed, deferred, ran>>

\* What the attempt knows after a call.
Learned(call) ==
    [op EXCEPT !.staged = (@ \/ call = "open directory"),
               !.record = IF call = "sync intent" THEN "intent" ELSE IF call = "sync promotion" THEN "complete" ELSE @]

\* One system call of the attempt.
Call ==
    /\ op.fn \in {"install", "cleanup"} /\ op.todo # << >>
    /\ LET call == Head(op.todo)
       IN /\ disk' = [disk EXCEPT ![op.token] = Called(call, @)]
          /\ release' = CASE call = "publish" -> disk[op.token].tree
                          [] call = "empty release" -> "partial"
                          [] call = "remove release" -> "absent"
                          [] OTHER -> release
          /\ op' = IF op.fn = "install" /\ Len(op.todo) = 1
                   THEN [op EXCEPT !.fn = "cleanup", !.todo = RemoveRecord, !.answer = "installed"]
                   ELSE [Learned(call) EXCEPT !.todo = Tail(@)]
    /\ UNCHANGED <<signed, used, deferred, ran>>

\* _remove_recovery_record_fd in the finally of install: a record that is gone, or
\* that is not the one whose inode is known, is left alone.
RemoveOwnRecord(e) == IF e.state # "none" /\ e.state = op.record THEN RemoveRecord ELSE << >>

\* A faulty variant: the record first.
Cleanup_Faulty(e) == RemoveOwnRecord(e) \o (IF op.staged /\ e.tree # "none" THEN RemoveTree ELSE << >>)

\* The finally of install, after an error: the tree whose inode is known, then
\* the record whose inode is known.
Cleanup(e) == (IF op.staged /\ e.tree # "none" THEN RemoveTree ELSE << >>) \o RemoveOwnRecord(e)

\* A system call of the attempt fails.  A published release that does not verify
\* is removed; the removal may itself fail.
Error ==
    /\ op.todo # << >>
    /\ \/ op.fn = "install"
       \/ op.fn = "cleanup" /\ Head(op.todo) \in {"empty release", "remove release"}
    /\ op' = [op EXCEPT !.fn = "cleanup", !.answer = "failed",
                        !.todo = (IF Head(@) = "check" THEN <<"empty release", "remove release">> ELSE << >>)
                                 \o Cleanup(disk[op.token])]
    /\ UNCHANGED <<disk, release, signed, used, deferred, ran>>

\* _finish_staging: a directory whose inode is known is remembered.
Remembered == IF op.staged THEN deferred \cup {op.token} ELSE deferred

\* The attempt is over; a record is still there when it was not the attempt's own.
Done ==
    /\ op.fn = "cleanup" /\ op.todo = << >>
    /\ Answer(op.answer)
    /\ deferred' = IF disk[op.token].state # "none" THEN Remembered ELSE deferred
    /\ UNCHANGED <<disk, release, signed, used, ran>>

\* The deadline elapses: every later check raises, so nothing more is cleaned up.
\* In the cleanup, where a failing call has the same effect, it is swallowed and
\* the attempt's own answer stands.
Deadline ==
    /\ op.fn \in {"reap", "reserve", "install", "cleanup", "inspect"}
    /\ Answer(IF op.fn = "cleanup" THEN op.answer ELSE IF op.then = "inspect" THEN "operator" ELSE "failed")
    /\ deferred' = Remembered
    /\ UNCHANGED <<disk, release, signed, used, ran>>

-----------------------------------------------------------------------------
(* Recovery: _reap_deferred_staging and _read_recovery_records_fd.         *)

Torn(t) == disk[t].state = "torn" \/ disk[t].new = "torn"
\* A temporary record whose directory is gone.
Orphaned(t) == disk[t].new = "complete" /\ disk[t].tree = "none"

\* The tokens whose records are to be put in order: retired ones first, then,
\* once every record was read, the temporary ones that are promoted.
Reading ==
    LET retired == {t \in Tokens : disk[t].retired}
    IN IF retired # {} THEN retired
       ELSE IF \E t \in Tokens : disk[t].state = "torn" THEN {}
       ELSE {t \in Tokens : disk[t].new = "complete" /\ ~Orphaned(t)}

ReadRecords(t) ==
    IF disk[t].retired THEN "unlink retired" ELSE IF disk[t].state # "none" THEN "retire" ELSE "promote"

\* What the next call on a token's names is, when the records are in order: the
\* intents, then the staged trees.
Reap(t) ==
    IF disk[t].state = "intent" THEN IF disk[t].tree # "none" THEN <<"quarantine">> ELSE <<"retire">>
    ELSE IF disk[t].state = "complete" \/ t \in deferred
         THEN CASE disk[t].tree = "full" -> <<"unlink some">>
                [] disk[t].tree = "partial" -> <<"empty">>
                [] disk[t].tree = "empty" -> <<"set aside">>
                [] OTHER -> IF disk[t].aside # "none" THEN <<"remove directory">> ELSE <<"retire">>  \* and forgotten
    ELSE << >>
Reaping == {t \in Tokens : Reap(t) # << >>}

\* _read_recovery_records_fd and _read_recovery_record_fd accept what is there.
Readable == ReleaseFiles <= Cap /\ \A t \in Tokens : ~Torn(t) /\ ~Orphaned(t)

Recover ==
    /\ op.fn = "reap"
    /\ \/ /\ ReleaseFiles <= Cap
          /\ \E t \in Reading :
                /\ disk' = [disk EXCEPT ![t] = Called(ReadRecords(t), @)]
                /\ op' = [op EXCEPT !.recovered = (@ \/ ReadRecords(t) # "unlink retired")]
          /\ UNCHANGED deferred
       \/ /\ Readable /\ Reading = {}
          /\ \E t \in Reaping :
                /\ disk' = [disk EXCEPT ![t] = Called(Head(Reap(t)), @)]
                /\ op' = [op EXCEPT !.recovered = TRUE]
                /\ deferred' = IF Reap(t) = <<"retire">> /\ disk[t].state # "intent" THEN deferred \ {t} ELSE deferred
       \/ /\ ~Readable /\ (ReleaseFiles <= Cap => \A t \in Tokens : ~disk[t].retired)
          /\ Answer(IF op.then = "inspect" THEN "operator" ELSE "failed")
          /\ UNCHANGED <<disk, deferred>>
    /\ UNCHANGED <<release, signed, used, ran>>

\* Everything is recovered, or among the trees the recovery budget ran out or a
\* call failed.
Recovered ==
    /\ op.fn = "reap" /\ Readable
    /\ Reading = {} /\ \A t \in Reaping : disk[t].state # "intent"
    /\ op' = [op EXCEPT !.fn = IF op.then = "install" THEN "reserve" ELSE "inspect",
                        !.recovered = (@ \/ Reaping # {})]
    /\ UNCHANGED <<disk, release, signed, used, deferred, ran>>

-----------------------------------------------------------------------------
(* inspect                                                                 *)

Inspect ==
    /\ op.fn = "idle"
    /\ \/ Authorized /\ release # "absent" /\ Answer(IF release = "full" THEN "completed" ELSE "operator")
       \/ Authorized /\ release = "absent" /\ op' = [Idle EXCEPT !.fn = "reap", !.then = "inspect"]
       \/ ~Authorized /\ Answer("operator")
    /\ UNCHANGED <<disk, release, signed, used, deferred, ran>>

\* The staged directories that are still there.
Candidates == {t \in Tokens : disk[t].tree # "none"}

Inspected ==
    /\ op.fn = "inspect"
    /\ Answer(IF Cardinality(Candidates) = 1 THEN IF \A t \in Candidates : disk[t].tree = "full" THEN "resume" ELSE "operator"
              ELSE IF Candidates = {} /\ op.recovered THEN "resume" ELSE "operator")
    /\ UNCHANGED <<disk, release, signed, used, deferred, ran>>

-----------------------------------------------------------------------------
(* The workload adapter, the target's authority, and the agent's death.    *)

\* verify_installed_release_fd
Verified == release = "full"

\* _open_adapter: the release is verified, then authorized again.
Opened == Verified /\ Authorized

\* WorkloadOperations.execute and inspect
Execute ==
    /\ op.fn = "idle" /\ ~ran
    /\ Opened
    /\ op' = [Idle EXCEPT !.fn = "execute"]
    /\ UNCHANGED <<disk, release, signed, used, deferred, ran>>

\* _snapshot_release_member: the executable is copied out of the release, or has
\* changed, and the copy is run below it.
Snapshot ==
    /\ op.fn = "execute" /\ ~ran
    /\ \/ Verified /\ ran' = TRUE /\ UNCHANGED op
       \/ op' = Idle /\ UNCHANGED ran
    /\ UNCHANGED <<disk, release, signed, used, deferred>>

\* The process ends, or its deadline ends it.  The agent may have died before.
Exit ==
    /\ ran
    /\ ran' = FALSE
    /\ op' = IF op.fn = "execute" THEN Idle ELSE op
    /\ UNCHANGED <<disk, release, signed, used, deferred>>

Withdraw ==
    /\ signed /\ signed' = FALSE
    /\ UNCHANGED <<disk, release, op, used, deferred, ran>>

Die ==
    /\ op.fn # "idle"
    /\ op' = [Idle EXCEPT !.fn = "down"]
    /\ deferred' = {}
    /\ UNCHANGED <<disk, release, signed, used, ran>>

Restart ==
    /\ op.fn = "down"
    /\ op' = Idle
    /\ UNCHANGED <<disk, release, signed, used, deferred, ran>>

Next ==
    \/ Install \/ Installed \/ Reserve \/ Call \/ Error \/ Done \/ Deadline
    \/ Recover \/ Recovered \/ Inspect \/ Inspected
    \/ Execute \/ Snapshot \/ Exit \/ Withdraw \/ Die \/ Restart

Spec == Init /\ [][Next]_vars

-----------------------------------------------------------------------------
TypeOK ==
    /\ disk \in [Tokens -> Entry]
    /\ release \in {"absent", "partial", "full"}
    /\ op.fn \in {"idle", "down", "reap", "reserve", "install", "cleanup", "inspect", "execute"} /\ op.token \in 0 .. Attempts
    /\ op.staged \in BOOLEAN /\ op.record \in {"none", "intent", "complete"}
    /\ used \in 0 .. Attempts /\ deferred \subseteq Tokens /\ ran \in BOOLEAN

\* The names in the staging directory never exceed the cap, in any phase of an
\* attempt ("keeps the real aggregate at or below the cap through every
\* transaction phase").
CapHeld == ReleaseFiles <= Cap

\* A directory that holds anything of a release has a complete record, which
\* leads the next attempt to it.  (An empty one may have none: the intent goes
\* when open or fstat fails after mkdir.)
ContentRecorded ==
    \A t \in Tokens :
        /\ disk[t].tree \in {"partial", "full"} => disk[t].state = "complete"
        /\ disk[t].aside \in {"none", "empty"} /\ disk[t].unproven \in {"none", "empty"}

RemovalCut == op.fn = "cleanup" /\ op.answer = "failed"

\* A release is published whole.  It is partial only while a release that could
\* not be read back is removed, and for ever if that removal is cut off.
PublishedWhole == [][(release' = "partial" /\ release # "partial") => (release = "full" /\ RemovalCut)]_vars

\* The answer "installed" or "completed" means the whole release is there.
AnswersTrue == op.fn = "idle" /\ op.answer \in {"installed", "completed"} => release = "full"

\* The release a workload runs in stays whole for as long as it runs, the agent's
\* death, restart and later attempts at the same release included.
RunsInWhole == ran => release = "full"

\* What no attempt recovers from: a record cut off between its creation and its
\* write, a temporary record whose directory was cleaned up, a release whose
\* removal was cut off.
Wedged == (\E t \in Tokens : Torn(t) \/ Orphaned(t)) \/ release = "partial"

\* Short of that, recovery never refuses to start, and when it is complete it
\* leaves nothing but empty directories that no record names.
RecoversAll ==
    (op.fn = "reap" /\ ~Wedged) =>
        /\ Readable
        /\ (Reading = {} /\ Reaping = {}) =>
              \A t \in Tokens : /\ disk[t].state = "none" /\ disk[t].new = "none" /\ ~disk[t].retired
                                /\ disk[t].tree \in {"none", "empty"}
=============================================================================
