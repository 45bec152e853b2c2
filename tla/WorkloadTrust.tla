---------------------------- MODULE WorkloadTrust ----------------------------
(***************************************************************************)
(* The workload metadata of the control plane: the publication service     *)
(* asks the signer over its socket (workload_signer.py), which signs and   *)
(* writes the files of the next version one by one (workload_trust.py);    *)
(* planning reads them without a lock.  An offline tool rotates the root.  *)
(*                                                                         *)
(* A publication raises the versions of releases, snapshot and timestamp   *)
(* by one each, so one number stands for the three.  The bytes of a signed *)
(* file hold its second of expiry: two signings are the same bytes only if *)
(* they sign the same in the same second.  Every signature is good for     *)
(* seven days.  Nothing signs the targets and the families again, so the   *)
(* repository expires with them, whatever else was signed since.           *)
(***************************************************************************)
EXTENDS Integers

CONSTANTS Locks, None, \* release locks
          MaxCommits,  \* bound: commits of the deployment branch
          MaxVersion,  \* bound: publications and rotations
          MaxFaults    \* bound: deaths, late answers, refusals, rotations

VARIABLES
    head, expired,  \* the deployment branch; whether the first seven days are over
    job, waiting,   \* what the signer was asked for, and whether the client still waits
    memo,           \* what the service was answered: a commit per lock, or 0
    pc, new,        \* the signer: where it is, and the file it has signed
    turn, newRoot,  \* the rotation tool: where it is, and the root it has signed
    lock,           \* the publication lock's holder: "free", "signer", "tool"
    target,         \* locks whose bytes are in the target root
    releases,       \* the files <version>.releases.json: the targets, or NoFile
    snapshot,       \* the files <version>.snapshot.json that are there
    timestamp,      \* the version of timestamp.json
    rootFiles,      \* the files <version>.root.json that are there
    root,           \* the version of root.json
    floor,          \* version-floor.json
    asked, read,    \* planning: what it asks for, and the versions it has read
    authorised,     \* what planning was last told is authorised
    faults

disk == <<target, releases, snapshot, timestamp, rootFiles, root, floor>>
signer == <<job, waiting, memo, pc, new>>
tool == <<turn, newRoot>>
reader == <<asked, read, authorised>>
vars == <<head, expired, signer, tool, lock, disk, reader, faults>>

Commits == 1..MaxCommits
Versions == 1..MaxVersion
Empty == [l \in Locks |-> 0]
NoFile == [l \in Locks |-> -1]
Nothing == [lock |-> None, commit |-> 0]
Question == {Nothing} \cup [lock : Locks, commit : Commits]
File == {NoFile} \cup [Locks -> 0..MaxCommits]

TypeOK ==
    /\ head \in Commits /\ expired \in BOOLEAN
    /\ job \in Question /\ waiting \in BOOLEAN /\ memo \in [Locks -> 0..MaxCommits]
    /\ pc \in {"idle", "asked", "check", "load", "target", "releases", "snapshot", "timestamp",
               "floor", "answer"}
    /\ (pc = "idle") = (job = Nothing)
    /\ new \in File /\ newRoot \in Versions
    /\ turn \in {"idle", "file", "root", "floor"}
    /\ lock \in {"free", "signer", "tool"} /\ (lock = "tool") = (turn # "idle")
    /\ (lock = "signer") = (pc \notin {"idle", "asked"})
    /\ target \subseteq Locks
    /\ releases \in [Versions -> File] /\ snapshot \subseteq Versions
    /\ timestamp \in Versions /\ rootFiles \subseteq Versions /\ root \in Versions
    /\ floor \in [root : Versions, releases : Versions]
    /\ asked \in Question /\ read \in [root : 0..MaxVersion, releases : 0..MaxVersion]
    /\ authorised \in Question /\ faults \in 0..MaxFaults

\* initialize_workload_trust: version 1 of every role, signed on the first day.
Init ==
    /\ head = 1 /\ expired = FALSE
    /\ job = Nothing /\ waiting = FALSE /\ memo = [l \in Locks |-> 0]
    /\ pc = "idle" /\ new = NoFile /\ turn = "idle" /\ newRoot = 1
    /\ lock = "free" /\ target = {}
    /\ releases = [v \in Versions |-> IF v = 1 THEN Empty ELSE NoFile]
    /\ snapshot = {1} /\ timestamp = 1 /\ rootFiles = {} /\ root = 1
    /\ floor = [root |-> 1, releases |-> 1]
    /\ asked = Nothing /\ read = [root |-> 0, releases |-> 0] /\ authorised = Nothing
    /\ faults = 0

Fault == faults < MaxFaults /\ faults' = faults + 1

-----------------------------------------------------------------------------
(* The repository as _load_repository reads it. *)

\* _verify_signatures, _check_expiry, _verify_descriptor: the chain of version v.
Verified(v) == v \in snapshot /\ releases[v] # NoFile /\ ~expired

\* The chain from timestamp.json, then the floor.
LoadRepository(rv, v) == Verified(v) /\ rv >= floor.root /\ v >= floor.releases

\* WorkloadTrustDelivery: the names without a version lead to the timestamp's.
Current == releases[timestamp]
Delivered(l) == l \in target

\* _atomic_write without replacing: a file that is there must be the same bytes.
AtomicWrite(there, same) == there => same

-----------------------------------------------------------------------------
(* The publication service and the signer's socket. *)

\* PackagePublicationService._publish through UnixWorkloadSignerClient.publish:
\* the commit of a preview must be the head when it is promoted.
Publish(l) ==
    /\ pc = "idle" /\ memo[l] # head
    /\ job' = [lock |-> l, commit |-> head] /\ waiting' = TRUE /\ pc' = "asked"
    /\ UNCHANGED <<head, expired, memo, new, tool, lock, disk, reader, faults>>

\* The client's five seconds are over; the signer goes on.
GiveUp ==
    /\ waiting /\ Fault /\ waiting' = FALSE
    /\ UNCHANGED <<head, expired, job, memo, pc, new, tool, lock, disk, reader>>

\* The signer closes the connection and frees what it holds.
Refuse ==
    /\ pc' = "idle" /\ job' = Nothing /\ waiting' = FALSE
    /\ lock' = IF lock = "signer" THEN "free" ELSE lock
    /\ new' = NoFile /\ UNCHANGED memo

Proceed(l) == pc' = l /\ UNCHANGED <<job, waiting, memo, new, lock>>

\* _PublicationLock does not wait.
TakeLock(who) == lock = "free" /\ lock' = who

\* WorkloadSignerConnectionHandler.handle: the request, then the lock.
Handle ==
    /\ pc = "asked"
    /\ IF lock = "free" THEN TakeLock("signer") /\ pc' = "check" /\ UNCHANGED <<job, waiting, memo, new>>
       ELSE Refuse
    /\ UNCHANGED <<head, expired, tool, disk, reader, faults>>

\* commit_eligible, policy_authorized and evidence_verified of the signer's main.
Eligible(agree) == head = job.commit /\ agree

\* publish_as asks them under the lock.
Check(agree) ==
    /\ pc = "check"
    /\ IF Eligible(agree) THEN Proceed("load") ELSE Refuse
    /\ IF agree THEN UNCHANGED faults ELSE Fault
    /\ UNCHANGED <<head, expired, tool, disk, reader>>

Load ==
    /\ pc = "load"
    /\ IF LoadRepository(root, timestamp) THEN Proceed("target") ELSE Refuse
    /\ UNCHANGED <<head, expired, tool, disk, reader, faults>>

-----------------------------------------------------------------------------
(* WorkloadTrustPublisher. *)

\* The lock's bytes are stored.  One that is signed already is answered with the
\* commit of this request; else the three files are signed.
WriteTarget ==
    /\ pc = "target" /\ target' = target \cup {job.lock}
    /\ \/ /\ Current[job.lock] # 0 /\ pc' = "answer" /\ UNCHANGED new
       \/ /\ Current[job.lock] = 0 /\ timestamp < MaxVersion
          /\ new' = [Current EXCEPT ![job.lock] = job.commit]
          /\ pc' = "releases"
    /\ UNCHANGED <<head, expired, job, waiting, memo, lock, tool, releases, snapshot, timestamp, rootFiles, root,
                   floor, reader, faults>>

WriteReleases(same) ==
    LET v == timestamp + 1
    IN /\ pc = "releases"
       /\ IF AtomicWrite(releases[v] # NoFile, same /\ releases[v] = new)
          THEN Proceed("snapshot") /\ releases' = [releases EXCEPT ![v] = new]
          ELSE Refuse /\ UNCHANGED releases
       /\ UNCHANGED <<head, expired, tool, target, snapshot, timestamp, rootFiles, root, floor, reader, faults>>

WriteSnapshot(same) ==
    LET v == timestamp + 1
    IN /\ pc = "snapshot"
       /\ IF AtomicWrite(v \in snapshot, same)
          THEN Proceed("timestamp") /\ snapshot' = snapshot \cup {v}
          ELSE Refuse /\ UNCHANGED snapshot
       /\ UNCHANGED <<head, expired, tool, target, releases, timestamp, rootFiles, root, floor, reader, faults>>

\* timestamp.json is replaced, then the unversioned copies nobody reads.
WriteTimestamp ==
    /\ pc = "timestamp" /\ Proceed("floor")
    /\ timestamp' = timestamp + 1
    /\ UNCHANGED <<head, expired, tool, target, releases, snapshot, rootFiles, root, floor, reader, faults>>

WriteFloor ==
    /\ pc = "floor" /\ Proceed("answer")
    /\ floor' = [floor EXCEPT !.releases = timestamp]
    /\ UNCHANGED <<head, expired, tool, target, releases, snapshot, timestamp, rootFiles, root, reader, faults>>

\* The lock is freed; a client that still waits is answered.
Answer ==
    /\ pc = "answer" /\ pc' = "idle" /\ lock' = "free" /\ job' = Nothing /\ waiting' = FALSE /\ new' = NoFile
    /\ memo' = IF waiting THEN [memo EXCEPT ![job.lock] = job.commit] ELSE memo
    /\ UNCHANGED <<head, expired, tool, disk, reader, faults>>

SignerDies ==
    /\ pc # "idle" /\ Fault /\ Refuse
    /\ UNCHANGED <<head, expired, tool, disk, reader>>

-----------------------------------------------------------------------------
(* rotate_workload_root. *)

Rotate ==
    /\ Fault /\ turn = "idle" /\ TakeLock("tool") /\ root < MaxVersion /\ root >= floor.root
    /\ turn' = "file"
    /\ newRoot' = root + 1
    /\ UNCHANGED <<head, expired, signer, disk, reader>>

ToolEnds == turn' = "idle" /\ lock' = "free" /\ newRoot' = 1

WriteRootFile(same) ==
    LET v == newRoot
    IN /\ turn = "file"
       /\ IF AtomicWrite(v \in rootFiles, same)
          THEN turn' = "root" /\ rootFiles' = rootFiles \cup {v} /\ UNCHANGED <<newRoot, lock>>
          ELSE ToolEnds /\ UNCHANGED rootFiles
       /\ UNCHANGED <<head, expired, signer, target, releases, snapshot, timestamp, root, floor, reader, faults>>

WriteRoot ==
    /\ turn = "root" /\ turn' = "floor" /\ root' = newRoot
    /\ UNCHANGED <<head, expired, signer, newRoot, lock, target, releases, snapshot, timestamp, rootFiles, floor,
                   reader, faults>>

WriteRootFloor ==
    /\ turn = "floor" /\ ToolEnds /\ floor' = [floor EXCEPT !.root = newRoot]
    /\ UNCHANGED <<head, expired, signer, target, releases, snapshot, timestamp, rootFiles, root, reader, faults>>

ToolDies ==
    /\ turn # "idle" /\ Fault /\ ToolEnds
    /\ UNCHANGED <<head, expired, signer, disk, reader>>

-----------------------------------------------------------------------------
(* WorkloadTrustDelivery.authorize_release, as planning calls it. *)

\* The files are read one after the other, without the lock.
AuthorizeRelease(l) ==
    /\ asked = Nothing /\ asked' = [lock |-> l, commit |-> head]
    /\ read' = [root |-> root, releases |-> timestamp]
    /\ UNCHANGED <<head, expired, signer, tool, lock, disk, authorised, faults>>

\* A faulty variant: the commit the target was signed for is not compared.
Authorized_Faulty(q, v) == releases[v][q.lock] # 0

Authorized(q, v) == releases[v][q.lock] = q.commit

\* The floor is read last.
ReadFloor ==
    /\ asked # Nothing /\ asked' = Nothing /\ read' = [root |-> 0, releases |-> 0]
    /\ authorised' = IF LoadRepository(read.root, read.releases) /\ Authorized(asked, read.releases)
                     THEN asked ELSE authorised
    /\ UNCHANGED <<head, expired, signer, tool, lock, disk, faults>>

-----------------------------------------------------------------------------
Commit ==
    /\ head < MaxCommits /\ head' = head + 1
    /\ UNCHANGED <<expired, signer, tool, lock, disk, reader, faults>>

Expire ==
    /\ ~expired /\ expired' = TRUE
    /\ UNCHANGED <<head, signer, tool, lock, disk, reader, faults>>

SignerStep ==
    \/ Handle \/ (\E agree \in BOOLEAN : Check(agree)) \/ Load \/ WriteTarget
    \/ (\E same \in BOOLEAN : WriteReleases(same) \/ WriteSnapshot(same))
    \/ WriteTimestamp \/ WriteFloor \/ Answer

ToolStep == (\E same \in BOOLEAN : WriteRootFile(same)) \/ WriteRoot \/ WriteRootFloor

Next ==
    \/ (\E l \in Locks : Publish(l)) \/ GiveUp \/ SignerStep \/ SignerDies
    \/ Rotate \/ ToolStep \/ ToolDies
    \/ (\E l \in Locks : AuthorizeRelease(l)) \/ ReadFloor \/ Commit \/ Expire

Fairness ==
    WF_vars(SignerStep) /\ WF_vars(ToolStep) /\ \A l \in Locks : SF_vars(Publish(l))
Spec == Init /\ [][Next]_vars /\ Fairness

-----------------------------------------------------------------------------
(* Properties. *)

\* At every moment, whoever dies, the timestamp leads to files that are there and
\* the floor is not above them: a reader or the next publication never meets a
\* chain that is cut.
ChainWhole ==
    /\ releases[timestamp] # NoFile /\ timestamp \in snapshot
    /\ floor.releases <= timestamp /\ floor.root <= root

\* What was published stays published, for the commit it was published for.
PublishedKept ==
    [][\A l \in Locks : Current[l] # 0 => Current'[l] = Current[l]]_vars

\* A release the service was told is trusted has its bytes in the target root and
\* is signed.
AnsweredDelivered == \A l \in Locks : memo[l] # 0 => Delivered(l) /\ Current[l] # 0

\* What planning was once told is authorised is signed for that very commit, for
\* good.
AuthorisedHolds ==
    authorised # Nothing => Delivered(authorised.lock) /\ Current[authorised.lock] = authorised.commit

\* A file of the next version is there: for a moment within every publication, and
\* for good when the signer died before it replaced timestamp.json.
Collision == timestamp < MaxVersion /\ releases[timestamp + 1] # NoFile

\* A publication that is asked for again and again ends.  Else the metadata have
\* expired, or a signer that died has left a file of the next version for good.
PublishEnds == \A l \in Locks : <>(memo[l] # 0 \/ expired) \/ <>[](Collision /\ faults > 0)

=============================================================================
