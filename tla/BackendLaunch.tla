---------------------------- MODULE BackendLaunch ----------------------------
(***************************************************************************)
(* One launch of a workload by the root package helper: the files of a     *)
(* generation are opened, compared with what was signed and handed to      *)
(* systemd-run (native and Python backends) or runc (OCI), while the files *)
(* below may change, the deadline runs and the helper may be killed.  The  *)
(* agent's own executor of an adapter, which runs it as a child process,   *)
(* is the fourth backend.                                                  *)
(*                                                                         *)
(* A file is "signed" when its bytes are the signed ones.  A sealed        *)
(* snapshot keeps the bytes that were read; a directory or an object that  *)
(* was checked is used in place, as it is when the unit reads it.          *)
(***************************************************************************)
EXTENDS Integers, FiniteSets, Sequences

CONSTANTS MaxTime,     \* the launch deadline, in ticks
          MaxChanges,  \* bound: changes of files
          MaxLaunches  \* bound: launches

VARIABLES
    backend,   \* which backend the signed invocation names
    file,      \* the generation's files, the objects mounted and the runtime
    at,        \* the next step of the launch
    snapshot,  \* the sealed copies: of the entrypoint and the interpreter
    checked,   \* files found as signed in this launch
    time,      \* ticks since the launch began
    units,     \* per launch, the transient unit, container or process it started
    bundles,   \* the launches whose container's bundle directory is on disk
    changes,   \* how often a file has changed or the helper was killed
    launches   \* the launches so far; the last is the present one

vars == <<backend, file, at, snapshot, checked, time, units, bundles, changes, launches>>

\* A launch is named by its request, which the helper handles once.
Launches == 1..MaxLaunches

Parts == {"entrypoint", "environment", "interpreter", "mount", "rootfs", "runtime"}
Sealed == {"entrypoint", "interpreter"}
Bytes == {"signed", "other"}

\* What each backend uses.
Uses(b) == CASE b = "adapter" -> {"entrypoint"}
             [] b = "native" -> {"entrypoint", "mount"}
             [] b = "python-venv" -> {"entrypoint", "environment", "interpreter", "mount"}
             [] b = "oci" -> {"rootfs", "mount", "runtime"}

\* The order in which a launch opens and verifies them.
Order(b) == CASE b = "adapter" -> <<"adapter", "process">>
              [] b = "native" -> <<"content", "plan", "mounts", "run">>
              [] b = "python-venv" -> <<"content", "environment", "interpreter", "plan", "mounts", "run">>
              [] b = "oci" -> <<"capability", "bundle", "mounts", "plan", "config", "run">>

NoUnit == [state |-> "none", snapshot |-> [p \in Sealed |-> "none"]]

\* The backends whose units systemd ends at their RuntimeMaxSec.  A container of
\* `runc run' and an adapter's process have no limit of their own.
Limited == {"native", "python-venv"}

TypeOK ==
    /\ backend \in {"adapter", "native", "python-venv", "oci"}
    /\ file \in [Parts -> Bytes]
    /\ at \in 0..7 /\ time \in 0..MaxTime /\ changes \in 0..MaxChanges
    /\ snapshot \in [Sealed -> Bytes \cup {"none"}]
    /\ checked \subseteq Parts
    /\ units \in [Launches -> [state : {"none", "running", "ended"}, snapshot : [Sealed -> Bytes \cup {"none"}]]]
    /\ bundles \subseteq Launches
    /\ launches \in 0..MaxLaunches

Init ==
    /\ backend \in {"adapter", "native", "python-venv", "oci"}
    /\ file = [p \in Parts |-> "signed"]
    /\ at = 0 /\ snapshot = [p \in Sealed |-> "none"] /\ checked = {}
    /\ time = 0 /\ units = [i \in Launches |-> NoUnit] /\ bundles = {}
    /\ changes = 0 /\ launches = 0

Step(s) == at \in DOMAIN Order(backend) /\ Order(backend)[at] = s

-----------------------------------------------------------------------------
(* What happens around the launch. *)

\* A file changes under the helper: a repair, a collection, a bad disk.
Change ==
    /\ changes < MaxChanges /\ changes' = changes + 1
    /\ \E p \in Parts, b \in Bytes : file[p] # b /\ file' = [file EXCEPT ![p] = b]
    /\ UNCHANGED <<backend, at, snapshot, checked, time, units, bundles, launches>>

Tick ==
    /\ at # 0 /\ time < MaxTime /\ time' = time + 1
    /\ UNCHANGED <<backend, file, at, snapshot, checked, units, bundles, changes, launches>>

\* The helper handles a request of this backend.
Begin ==
    /\ at = 0 /\ launches < MaxLaunches /\ launches' = launches + 1
    /\ at' = 1 /\ time' = 0 /\ checked' = {} /\ snapshot' = [p \in Sealed |-> "none"]
    /\ UNCHANGED <<backend, file, units, bundles, changes>>

-----------------------------------------------------------------------------
(* The launch. *)

InTime == time < MaxTime

\* Every descriptor is closed and the bundle directory of a container removed,
\* if it can be.
Closed ==
    /\ at' = 0
    /\ bundles' \in {bundles, bundles \ {launches}}

Refused ==
    /\ Closed
    /\ UNCHANGED <<backend, file, snapshot, checked, time, units, changes, launches>>

Advance(parts) ==
    /\ at' = at + 1 /\ checked' = checked \cup parts
    /\ UNCHANGED <<backend, file, time, units, bundles, changes, launches>>

\* The digests a launch compares: of a whole tree, of one file of the
\* generation, and of a container's root file system.
GenerationTreeDigest == file["environment"]
OpenGenerationFile == file["interpreter"]
VerifyRootfs == file["rootfs"]

\* _open_backend_content: the entrypoint is copied while it is hashed, the copy
\* is sealed, and the hash must be one of the receipts'.
OpenBackendContent ==
    /\ Step("content") /\ InTime
    /\ IF file["entrypoint"] = "signed"
       THEN Advance({"entrypoint"}) /\ snapshot' = [snapshot EXCEPT !["entrypoint"] = file["entrypoint"]]
       ELSE Refused

\* _validate_python_environment: the generation's receipt, its whole tree and
\* the environment's digest.
ValidatePythonEnvironment ==
    /\ Step("environment") /\ InTime
    /\ IF GenerationTreeDigest = "signed"
       THEN Advance({"environment"}) /\ UNCHANGED snapshot
       ELSE Refused

\* _open_python_interpreter: copied, hashed and sealed like the entrypoint.
OpenPythonInterpreter ==
    /\ Step("interpreter") /\ InTime
    /\ IF OpenGenerationFile = "signed"
       THEN Advance({"interpreter"}) /\ snapshot' = [snapshot EXCEPT !["interpreter"] = OpenGenerationFile]
       ELSE Refused

\* The sandbox's plan refuses devices, users or descriptors it does not allow.
PlanSandbox(allowed) ==
    /\ Step("plan")
    /\ IF allowed THEN Advance({}) /\ UNCHANGED snapshot ELSE Refused

\* A faulty variant: a mounted object is opened without being hashed.
OpenMountObjects_Faulty ==
    /\ Step("mounts") /\ InTime /\ Advance({}) /\ UNCHANGED snapshot

\* _open_mount_object and _verify_mounts: every object is hashed in place.
OpenMountObjects ==
    /\ Step("mounts") /\ InTime
    /\ IF file["mount"] = "signed" THEN Advance({"mount"}) /\ UNCHANGED snapshot ELSE Refused

\* OciRuntimeCapability.verify: the installed runc is the pinned one.
VerifyCapability ==
    /\ Step("capability")
    /\ IF file["runtime"] = "signed" THEN Advance({"runtime"}) /\ UNCHANGED snapshot ELSE Refused

\* _verify_bundle: manifest, configuration and root file system.
VerifyBundle ==
    /\ Step("bundle") /\ InTime
    /\ IF VerifyRootfs = "signed" THEN Advance({"rootfs"}) /\ UNCHANGED snapshot ELSE Refused

\* The container's bundle directory and its configuration.  A directory that is
\* there already is refused, and kept.
WriteConfig ==
    /\ Step("config")
    /\ IF launches \in bundles THEN at' = 0 /\ UNCHANGED bundles
                              ELSE at' = at + 1 /\ bundles' = bundles \cup {launches}
    /\ UNCHANGED <<backend, file, snapshot, checked, time, units, changes, launches>>

\* What the command starts.
Started == [units EXCEPT ![launches] = [state |-> "running", snapshot |-> snapshot]]

\* systemd-run --wait or runc run, with what is left of the time.
Run ==
    /\ Step("run") /\ InTime
    /\ units' = Started /\ at' = at + 1
    /\ UNCHANGED <<backend, file, snapshot, checked, time, bundles, changes, launches>>

\* _snapshot_adapter: the agent's own sealed copy of an adapter, made if the
\* digest of what was read is the one installed.
SnapshotAdapter ==
    /\ Step("adapter") /\ InTime
    /\ IF file["entrypoint"] = "signed"
       THEN Advance({"entrypoint"}) /\ snapshot' = [snapshot EXCEPT !["entrypoint"] = file["entrypoint"]]
       ELSE Refused

\* The adapter's process, in a session of its own.
RunAdapter ==
    /\ Step("process") /\ InTime
    /\ units' = Started /\ at' = at + 1
    /\ UNCHANGED <<backend, file, snapshot, checked, time, bundles, changes, launches>>

\* The deadline is over at the next check.
DeadlineElapsed ==
    /\ at \in 1..Len(Order(backend)) /\ ~InTime
    /\ Order(backend)[at] \notin {"plan", "capability", "config"} /\ Refused

Waits == at = Len(Order(backend)) + 1

\* What was started ends by itself,
Exits(i) ==
    /\ units[i].state = "running" /\ units' = [units EXCEPT ![i].state = "ended"]
    /\ UNCHANGED <<backend, file, at, snapshot, checked, time, bundles, changes, launches>>

\* or systemd ends it.
RuntimeMax(i) == backend \in Limited /\ Exits(i)

\* The command returns: the evidence goes to the client.
Ended ==
    /\ Waits /\ units[launches].state = "ended" /\ Closed
    /\ UNCHANGED <<backend, file, snapshot, checked, time, units, changes, launches>>

\* The command failed or its time is over: the unit is stopped and reset, the
\* container deleted, the adapter's session killed.
Cleanup ==
    /\ Waits /\ Closed /\ units' = [units EXCEPT ![launches].state = "ended"]
    /\ UNCHANGED <<backend, file, snapshot, checked, time, changes, launches>>

\* systemctl or runc cannot be run, takes more than ten seconds or fails, which
\* nobody looks at: what was started goes on without its helper.
CleanupFails ==
    /\ Waits /\ backend # "adapter" /\ Closed
    /\ UNCHANGED <<backend, file, snapshot, checked, time, units, changes, launches>>

\* The helper is killed: descriptors close, a unit it started goes on, a bundle
\* directory stays.
Killed ==
    /\ at # 0 /\ at' = 0 /\ changes < MaxChanges /\ changes' = changes + 1
    /\ UNCHANGED <<backend, file, snapshot, checked, time, units, bundles, launches>>

Launch ==
    \/ OpenBackendContent \/ ValidatePythonEnvironment \/ OpenPythonInterpreter
    \/ (\E a \in BOOLEAN : PlanSandbox(a)) \/ OpenMountObjects \/ VerifyCapability
    \/ VerifyBundle \/ WriteConfig \/ Run \/ SnapshotAdapter \/ RunAdapter \/ DeadlineElapsed

Next ==
    \/ Change \/ Tick \/ Begin \/ Launch \/ Ended \/ Cleanup \/ CleanupFails \/ Killed
    \/ \E i \in Launches : Exits(i) \/ RuntimeMax(i)

\* The helper runs, a command is over by its timeout and then cleaned up or not,
\* and systemd keeps RuntimeMaxSec.
Fairness ==
    /\ WF_vars(Launch) /\ WF_vars(Ended \/ Cleanup \/ CleanupFails)
    /\ \A i \in Launches : WF_vars(RuntimeMax(i))

Spec == Init /\ [][Next]_vars /\ Fairness

-----------------------------------------------------------------------------
(* Properties. *)

\* What a unit executes is what was signed, whatever happened to the files
\* after they were read: the sealed copies cannot differ.
RunsAsSigned ==
    \A i \in Launches : units[i].state = "running"
        => \A p \in Sealed \cap Uses(backend) : units[i].snapshot[p] = "signed"

\* A unit is started only when every file it uses was found as signed in the
\* course of this launch; those not sealed may have changed since.
RunsVerified == Waits => Uses(backend) \subseteq checked

\* A launch that has no helper any more.
Orphaned(i) == ~(i = launches /\ at # 0)

\* Nothing runs for ever except a container or an adapter's process that has
\* lost its helper: it was killed, or its cleanup failed.  A unit of systemd-run
\* ends even then, at its RuntimeMaxSec.
UnitsEnd ==
    <>[](\A i \in Launches : units[i].state = "running" => backend \notin Limited /\ Orphaned(i))
=============================================================================
