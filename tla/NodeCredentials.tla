-------------------------- MODULE NodeCredentials --------------------------
(***************************************************************************)
(* How a node gets its first certificate and rotates it: CredentialStore   *)
(* and ensure_initial_enrollment of the Python agent (client.py, main.py), *)
(* pair, identity and rotation of the Rust agent (pair.rs, identity.rs,    *)
(* rotation.rs), and the calls of the control plane they make              *)
(* (enrollment.py).                                                        *)
(*                                                                         *)
(* The agent's credentials are files.  A function of the code that changes *)
(* several of them is a sequence of writes, todo, and the process may die  *)
(* between any two; a power loss also changes the boot id.                 *)
(***************************************************************************)
EXTENDS Naturals, Sequences

CONSTANTS
    Agents,      \* the agents a node may run: a subset of {"python", "rust"}
    MaxGen,      \* certificate generations
    MaxCrashes   \* crashes and reboots

VARIABLES
    agent,       \* the agent of this node
    disk,        \* the credential directory
    ctrl,        \* the control plane's rows for this node
    pc,          \* where the process is
    todo,        \* the writes of the function it is in
    issued,      \* the credential it has been answered with
    boots,       \* the boot id
    crashes

vars == <<agent, disk, ctrl, pc, todo, issued, boots, crashes>>

Gens == 1 .. MaxGen

\* A key is named by its number; 0 is none.
Keys == 0 .. (MaxGen + MaxCrashes + 1)

\* The files.  meta is the purpose of the pending request, dirs the key of each
\* generation's directory, flat and flatCert the Rust agent's first identity,
\* made the number of keys generated.
Disk == [key : Keys, csr : Keys, meta : {"none", "enrollment", "rotation"}, dirs : [Gens -> Keys],
         active : 0 .. MaxGen, staged : 0 .. MaxGen, token : BOOLEAN,
         flat : Keys, flatCert : Keys, made : Keys]

\* AgentEnrollment and the AgentCertificate rows.
Certificate == [state : {"none", "active", "staged", "revoked"}, key : Keys]
Enrollment == [state : {"none", "pending-approval", "approved"}, key : Keys, boot : 0 .. MaxCrashes]

Steps == {"down", "enroll", "submit", "run", "renew", "activate", "write"}
Credential == [gen : 0 .. MaxGen, key : Keys]

Init ==
    /\ agent \in Agents
    /\ disk = [key |-> 0, csr |-> 0, meta |-> "none", dirs |-> [g \in Gens |-> 0], active |-> 0, staged |-> 0,
               token |-> TRUE, flat |-> 0, flatCert |-> 0, made |-> 0]
    /\ ctrl = [enrollment |-> [state |-> "none", key |-> 0, boot |-> 0],
               cert |-> [g \in Gens |-> [state |-> "none", key |-> 0]], retired |-> FALSE]
    /\ pc = "down"
    /\ todo = << >>
    /\ issued = [gen |-> 0, key |-> 0]
    /\ boots = 0
    /\ crashes = 0

-----------------------------------------------------------------------------
(* Reading the store.                                                      *)

\* has_active_credentials, active_identity_paths
Enrolled == IF agent = "python" THEN disk.active > 0 ELSE disk.flatCert > 0 \/ disk.active > 0
Generation == IF disk.active = 0 /\ Enrolled THEN 1 ELSE disk.active

\* The certificate and the key the agent authenticates with.
Identity == [gen |-> Generation, key |-> IF disk.active > 0 THEN disk.dirs[disk.active] ELSE disk.flat]

\* pending_rotation and load_pending: a request of which a file is missing
\* cannot be read.
PendingRotation == [found |-> disk.meta # "none",
                    broken |-> disk.meta # "none" /\ (disk.key = 0 \/ disk.csr = 0 \/ disk.key # disk.csr)]
LoadPending == [found |-> disk.key # 0 /\ disk.csr # 0, broken |-> (disk.key = 0) # (disk.csr = 0)]
Incomplete == IF agent = "python" THEN PendingRotation.broken ELSE LoadPending.broken
Pending == IF agent = "python" THEN PendingRotation.found ELSE LoadPending.found

\* prepare_rotation and load_pending keep the pending request.
Reused == Pending

\* CredentialStore._initialize.
Opens ==
    /\ disk.active > 0 => disk.dirs[disk.active] # 0
    /\ disk.staged > 0 => disk.dirs[disk.staged] # 0
    /\ Incomplete => disk.active = 1 /\ disk.meta = "enrollment"

-----------------------------------------------------------------------------
(* Writing it.                                                             *)

\* One file.
Written(write, value) ==
    CASE write = "key" -> [disk EXCEPT !.key = disk.made + 1, !.made = @ + 1]
      [] write = "csr" -> [disk EXCEPT !.csr = disk.key]
      [] write = "meta" -> [disk EXCEPT !.meta = IF Enrolled THEN "rotation" ELSE "enrollment"]
      [] write = "directory" -> [disk EXCEPT !.dirs[value.gen] = disk.key]
      [] write = "staged" -> [disk EXCEPT !.staged = value.gen]
      [] write = "active" -> [disk EXCEPT !.active = value.gen]
      [] write = "flat key" -> [disk EXCEPT !.flat = disk.key]
      [] write = "flat certificate" -> [disk EXCEPT !.flatCert = value.key]
      [] write = "unlink key" -> [disk EXCEPT !.key = 0]
      [] write = "unlink csr" -> [disk EXCEPT !.csr = 0]
      [] write = "unlink meta" -> [disk EXCEPT !.meta = "none"]
      [] write = "unlink staged" -> [disk EXCEPT !.staged = 0]
      [] write = "unlink token" -> [disk EXCEPT !.token = FALSE]

\* _prepare_pending and persist_pending.
PreparePending == <<"unlink meta", "unlink key", "unlink csr", "key", "csr", "meta">>
PersistPending == <<"key", "csr">>
Prepare == IF agent = "python" THEN PreparePending ELSE PersistPending

\* stage and stage_identity; the Rust agent keeps a directory that is there.
StageGeneration == <<"directory", "staged">>
StageIdentity == IF disk.dirs[issued.gen] # 0 THEN <<"staged">> ELSE <<"directory", "staged">>
Stage == IF agent = "python" THEN StageGeneration ELSE StageIdentity

\* publish_active and publish_staged.
PublishActive == <<"active", "unlink staged", "unlink meta", "unlink key", "unlink csr">>
PublishStaged == <<"active", "unlink staged", "unlink key", "unlink csr">>
Publish == IF agent = "python" THEN PublishActive ELSE PublishStaged

\* install_initial and the end of ensure_initial_enrollment, persist_identity
\* and clear_pending in pair.
InstallInitial == <<"directory", "active", "unlink staged", "unlink key", "unlink csr", "unlink meta", "unlink token">>
PersistIdentity == <<"flat key", "flat certificate", "unlink key", "unlink csr">>
Install == IF agent = "python" THEN InstallInitial ELSE PersistIdentity

\* recover_initial_enrollment and remove_consumed_enrollment_token.
RecoverInitial ==
    (IF disk.active = 1 /\ disk.meta = "enrollment" THEN <<"unlink staged", "unlink key", "unlink csr", "unlink meta">> ELSE << >>)
    \o (IF disk.token THEN <<"unlink token">> ELSE << >>)

\* The function's first write is next.
Do(writes, then) == todo' = Append(writes, then) /\ pc' = "write"

\* rename onto a directory that is not empty: ENOTEMPTY, an OSError that is not
\* FileExistsError, or EEXIST, which is, by file system.  Only the Python agent
\* gets here.
NotEmpty == Head(todo) = "directory" /\ disk.dirs[issued.gen] # 0

Write ==
    /\ pc = "write" /\ Len(todo) > 1
    /\ \/ /\ ~NotEmpty
          /\ disk' = Written(Head(todo), issued)
          /\ todo' = Tail(todo) /\ UNCHANGED pc
       \/ /\ NotEmpty
          /\ \/ pc' = "down" /\ todo' = << >>
             \/ UNCHANGED pc /\ todo' = Tail(todo)
          /\ UNCHANGED disk
    /\ UNCHANGED <<agent, ctrl, issued, boots, crashes>>

Return ==
    /\ pc = "write" /\ Len(todo) = 1
    /\ pc' = Head(todo) /\ todo' = << >>
    /\ UNCHANGED <<agent, disk, ctrl, issued, boots, crashes>>

-----------------------------------------------------------------------------
(* The process.                                                            *)

\* main: the store is opened and an enrolment finished.  The operator runs
\* pair until the Rust agent has an identity.
Start ==
    /\ pc = "down"
    /\ agent = "python" => Opens
    /\ IF Enrolled THEN IF agent = "python" THEN Do(RecoverInitial, "run") ELSE pc' = "run" /\ UNCHANGED todo
                   ELSE pc' = "enroll" /\ UNCHANGED todo
    /\ UNCHANGED <<agent, disk, ctrl, issued, boots, crashes>>

\* ensure_initial_enrollment and pair: the pending request is kept.
Enroll ==
    /\ pc = "enroll" /\ ~Incomplete
    /\ IF Pending THEN pc' = "submit" /\ UNCHANGED todo ELSE Do(Prepare, "submit")
    /\ UNCHANGED <<agent, disk, ctrl, issued, boots, crashes>>

\* _replay_matches: the same request, from the same boot.
ReplayMatches == ctrl.enrollment.key = disk.csr /\ ctrl.enrollment.boot = boots

\* EnrollmentService.submit: recorded, still pending, issued, or denied.  The
\* answer may be lost.
Submit ==
    /\ pc = "submit"
    /\ \/ /\ ctrl.enrollment.state = "none"
          /\ ctrl' = [ctrl EXCEPT !.enrollment = [state |-> "pending-approval", key |-> disk.csr, boot |-> boots]]
          /\ pc' = "enroll" /\ UNCHANGED <<todo, issued>>
       \/ /\ ctrl.enrollment.state = "pending-approval" /\ ReplayMatches
          /\ pc' = "enroll" /\ UNCHANGED <<ctrl, todo, issued>>
       \/ /\ ctrl.enrollment.state = "approved" /\ ReplayMatches
          /\ issued' = [gen |-> 1, key |-> ctrl.enrollment.key]
          /\ Do(Install, "run") /\ UNCHANGED ctrl
       \/ /\ ctrl.enrollment.state # "none" /\ ~ReplayMatches
          /\ pc' = "down" /\ UNCHANGED <<ctrl, todo, issued>>
    /\ UNCHANGED <<agent, disk, boots, crashes>>

\* The administrator approves.
Approve ==
    /\ ctrl.enrollment.state = "pending-approval"
    /\ ctrl' = [ctrl EXCEPT !.enrollment.state = "approved", !.cert[1] = [state |-> "active", key |-> ctrl.enrollment.key]]
    /\ UNCHANGED <<agent, disk, pc, todo, issued, boots, crashes>>

\* revoke_node.
Revoke ==
    /\ ctrl.enrollment.state = "approved" /\ ~ctrl.retired
    /\ ctrl' = [ctrl EXCEPT !.retired = TRUE,
                          !.cert = [g \in Gens |-> IF @[g].state = "none" THEN @[g] ELSE [@[g] EXCEPT !.state = "revoked"]]]
    /\ UNCHANGED <<agent, disk, pc, todo, issued, boots, crashes>>

\* _rotate_credentials and rotate_if_due.  A staged credential is activated
\* first; the Rust agent looks at a pending request only when renewal is due.
Rotate ==
    /\ pc = "run"
    /\ \/ /\ disk.staged > 0
          /\ pc' = "activate" /\ UNCHANGED todo
          /\ issued' = [gen |-> disk.staged, key |-> disk.dirs[disk.staged]]
       \/ /\ disk.staged = 0 /\ Generation < MaxGen
          /\ IF Incomplete THEN pc' = "down" /\ UNCHANGED todo
             ELSE IF Reused THEN pc' = "renew" /\ UNCHANGED todo
             ELSE Do(Prepare, "renew")
          /\ UNCHANGED issued
    /\ UNCHANGED <<agent, disk, ctrl, boots, crashes>>

\* _claim_rotation: the staged certificate that answers this request.
Claimed(g) == ctrl.cert[g].state = "staged" /\ ctrl.cert[g].key = disk.csr

\* The generation after the highest one recorded.
NextGen == CHOOSE g \in Gens : ctrl.cert[g].state = "none" /\ \A h \in Gens : h < g => ctrl.cert[h].state # "none"
\* A faulty variant: the older generations are revoked at once.
Renewed_Faulty(g) ==
    [h \in Gens |-> IF h = g THEN [state |-> "staged", key |-> disk.csr]
                    ELSE IF h < g THEN [ctrl.cert[h] EXCEPT !.state = "revoked"] ELSE ctrl.cert[h]]

\* _persist_rotation.
Renewed(g) == [ctrl.cert EXCEPT ![g] = [state |-> "staged", key |-> disk.csr]]

Staged == \E g \in Gens : ctrl.cert[g].state = "staged"

\* EnrollmentService.renew, authenticated by the active certificate: the staged
\* one again, a new one, or a refusal that ends the process.
Renew ==
    /\ pc = "renew"
    /\ IF ctrl.cert[Generation].state # "active" \/ (Staged /\ ~\E g \in Gens : Claimed(g))
       THEN pc' = "down" /\ UNCHANGED <<ctrl, issued>>
       ELSE LET g == IF Staged THEN CHOOSE h \in Gens : Claimed(h) ELSE NextGen
            IN /\ issued' = [gen |-> g, key |-> disk.csr]
               /\ ctrl' = [ctrl EXCEPT !.cert = Renewed(g)]
               /\ pc' \in {"stage", "run"}
    /\ UNCHANGED <<agent, disk, todo, boots, crashes>>

Staging ==
    /\ pc = "stage"
    /\ Do(Stage, "activate")
    /\ UNCHANGED <<agent, disk, ctrl, issued, boots, crashes>>

\* EnrollmentService.activate.
Activated(g) ==
    [h \in Gens |-> IF h = g THEN [ctrl.cert[h] EXCEPT !.state = "active"]
                    ELSE IF h < g THEN [ctrl.cert[h] EXCEPT !.state = "revoked"] ELSE ctrl.cert[h]]

\* activate, authenticated by the staged credential, then its publication.  The
\* answer may be lost.
Activate ==
    /\ pc = "activate"
    /\ IF ctrl.cert[issued.gen].state \in {"staged", "active"}
       THEN /\ ctrl' = [ctrl EXCEPT !.cert = IF @[issued.gen].state = "active" THEN @ ELSE Activated(issued.gen)]
            /\ \/ Do(Publish, "run")
               \/ pc' = "run" /\ UNCHANGED todo
       ELSE pc' = "down" /\ UNCHANGED <<ctrl, todo>>
    /\ UNCHANGED <<agent, disk, issued, boots, crashes>>

\* The process dies, or the node loses power.
Crash ==
    /\ pc # "down" /\ crashes < MaxCrashes
    /\ crashes' = crashes + 1
    /\ boots' \in {boots, boots + 1}
    /\ pc' = "down" /\ todo' = << >> /\ issued' = [gen |-> 0, key |-> 0]
    /\ UNCHANGED <<agent, disk, ctrl>>

-----------------------------------------------------------------------------
Step == Start \/ Enroll \/ Submit \/ Rotate \/ Renew \/ Staging \/ Activate \/ Write \/ Return
Next == Step \/ Approve \/ Revoke \/ Crash

Spec == Init /\ [][Next]_vars
\* The process is scheduled and restarted, and the administrator answers.
Fairness ==
    /\ WF_vars(Step) /\ WF_vars(Approve)
    /\ SF_vars(Activate /\ pc' = "write") /\ SF_vars(Renew /\ pc' = "stage")

-----------------------------------------------------------------------------
TypeOK ==
    /\ disk \in Disk
    /\ ctrl.enrollment \in Enrollment
    /\ ctrl.cert \in [Gens -> Certificate] /\ ctrl.retired \in BOOLEAN
    /\ pc \in Steps \cup {"stage"}
    /\ issued \in Credential

Accepted(identity) == /\ ctrl.cert[identity.gen].state \in {"active", "staged"}
                      /\ ctrl.cert[identity.gen].key = identity.key

\* A node that has been enrolled and not revoked is never locked out: at every moment, with any
\* crash, the identity its store names active, or the one it names staged, is one
\* the control plane accepts, and the node holds the key of it.
NeverLockedOut ==
    Enrolled => \/ ctrl.retired
                \/ Accepted(Identity)
                \/ disk.staged > 0 /\ Accepted([gen |-> disk.staged, key |-> disk.dirs[disk.staged]])

\* The key of a certificate that waits to be picked up is never thrown away: a
\* staged certificate answers the pending request or is in the store.
KeyKept ==
    \A g \in Gens : ctrl.cert[g].state = "staged" => disk.csr = ctrl.cert[g].key \/ disk.dirs[g] = ctrl.cert[g].key

\* After any crash the Python agent's store opens again.
Reopens == agent = "python" => Opens \/ pc # "down"

\* At most one certificate of the node is active, and one is staged.
OneActive == \A g, h \in Gens : (ctrl.cert[g].state = ctrl.cert[h].state /\ ctrl.cert[g].state \in {"active", "staged"}) => g = h

\* What no restart gets out of: an enrolment whose approval is picked up after a
\* reboot, a generation directory without its pointer (Python), half a pending
\* request (Rust), or the node's revocation.  The middle two also hold for a
\* moment within every healthy enrolment, between two writes: a node is wedged
\* only when one of them holds for good, and then a crash has come between.
Rebooted == ctrl.enrollment.state # "none" /\ ~Enrolled /\ ctrl.enrollment.boot # boots
Unpointed == agent = "python" /\ \E g \in Gens : disk.dirs[g] # 0 /\ disk.active < g /\ disk.staged # g
Halved == agent = "rust" /\ Incomplete
Wedged == <>[](\/ crashes > 0 /\ (Rebooted \/ Unpointed \/ Halved)
              \/ ctrl.retired)

\* The rotations end with the newest certificate that was issued active on both
\* sides, and the agent's store free of any other, unless the node is wedged.
Rotates ==
    Wedged \/ <>[](\A g \in Gens \ {1} : ctrl.cert[g].state \in {"staged", "active"} => disk.active = g /\ disk.staged = 0)

\* The node is enrolled in the end, and stays so, unless it is wedged.
Enrolls == Wedged \/ <>[]Enrolled
=============================================================================
