--------------------------- MODULE SlotSupervisor ---------------------------
(***************************************************************************)
(* The A/B supervisor of the node agent                                    *)
(* (rust/crates/vonk-agent-supervisor/src/slots.rs and main.rs, the agent  *)
(* side in vonk-agent/src/supervisor_readiness.rs, and the package script  *)
(* packaging/debian/postinst that fills the slots).                        *)
(*                                                                         *)
(* Three programs run as root and share files: the package script writes a *)
(* release into the slot that is not current, "activate" selects it, and   *)
(* "supervise" starts the agent, waits for its readiness and otherwise     *)
(* goes back to the previous slot once.  Every file is replaced atomically *)
(* and durably, one after the other; commands that write hold a file lock, *)
(* but the agent's start, the challenge check and the package script read  *)
(* without it.  A power loss may come between any two replacements.        *)
(***************************************************************************)
EXTENDS Integers, Sequences, SequenceTheorems, TLAPS

CONSTANTS
  Artifacts,      \* releases of the agent
  Writes,         \* the state schema a release writes
  MinReadable,    \* the oldest and
  MaxReadable,    \* the newest state schema it reads
  Refusing,       \* whether systemd may refuse to restart the agent
  Substituting,   \* whether a binary may change between its verification and execution
  MaxGeneration,  \* bound: no activation beyond this generation
  MaxInstalls,    \* bound: runs of the package script
  MaxCrashes      \* bound: power losses

ASSUME SlotSupervisorAssumption ==
  /\ Writes \in [Artifacts -> Nat \ {0}]
  /\ MinReadable \in [Artifacts -> Nat \ {0}]
  /\ MaxReadable \in [Artifacts -> Nat \ {0}]
  /\ \A x \in Artifacts : MinReadable[x] <= Writes[x] /\ Writes[x] <= MaxReadable[x]
  /\ Refusing \in BOOLEAN /\ Substituting \in BOOLEAN
  /\ MaxGeneration \in Nat /\ MaxInstalls \in Nat /\ MaxCrashes \in Nat

VARIABLES
  slots,       \* binary and manifest in each slot
  state,       \* state.json
  challenge,   \* activation-challenge, a fresh value at every publication
  current,     \* the slot the symbolic links point to
  previous,
  late,        \* the clock has passed the activation deadline
  publishing,  \* the locked command that is replacing files
  sup,         \* the steps "supervise" has before it, and the state it has read
  agent,       \* the agent unit
  readiness,   \* readiness.json
  package,     \* the package script in progress
  data,        \* schema of the agent's own data
  installs, crashes,
  contacted,   \* history: generations whose agent reached the controller
  trusted      \* history: the release of the latest stable state

files == <<state, challenge, current, previous, late>>
history == <<contacted, trusted>>
bounds == <<installs, crashes>>
vars == <<slots, state, challenge, current, previous, late, publishing, sup, agent,
          readiness, package, data, installs, crashes, contacted, trusted>>

Slots == {"a", "b"}
Other(s) == IF s = "a" THEN "b" ELSE "a"

NoState == [status |-> "absent", generation |-> 0, active |-> "none", previous |-> "none",
            artifact |-> "none", prior |-> "none", schema |-> 0, boots |-> 0,
            rolledBack |-> FALSE, challenge |-> 0]

Nothing == [by |-> "nobody", new |-> NoState, todo |-> <<>>]
Off == [path |-> <<>>, seen |-> NoState]
Booting == [path |-> <<"recover">>, seen |-> NoState]
Stopped == [at |-> "stopped", credential |-> 0, is |-> NoState, image |-> "none"]
NoPackage == [at |-> "idle", target |-> "a", release |-> "none"]

MaxBootAttempts == 3

Init ==
  /\ slots = [s \in Slots |-> [binary |-> "none", manifest |-> "none"]]
  /\ state = NoState
  /\ challenge = 0
  /\ current = "none"
  /\ previous = "none"
  /\ late = FALSE
  /\ publishing = Nothing
  /\ sup = Off
  /\ agent = Stopped
  /\ readiness = NoState
  /\ package = NoPackage
  /\ data = 0
  /\ installs = 0
  /\ crashes = 0
  /\ contacted = {}
  /\ trusted = "none"

\* verify_slot with an expected digest: the signed manifest names the release
\* and the binary is it.
Verified(s, x) == s \in Slots /\ x \in Artifacts /\ slots[s] = [binary |-> x, manifest |-> x]

Reads(x, schema) == MinReadable[x] <= schema /\ schema <= MaxReadable[x]

Unlocked == publishing = Nothing

-----------------------------------------------------------------------------
(* The package script.                                                     *)

\* It reads the link, not the state, to find the slot it may overwrite.
PackageBegins(x) ==
  /\ package.at = "idle"
  /\ installs < MaxInstalls
  /\ state # NoState => current # "none"
  /\ package' = [at |-> "binary", release |-> x,
                 target |-> IF state = NoState THEN "a" ELSE Other(current)]
  /\ installs' = installs + 1
  /\ UNCHANGED <<slots, files, publishing, sup, agent, readiness, data, crashes, history>>

PackageBinary ==
  /\ package.at = "binary"
  /\ Substituting \/ agent.at # "verified" \/ agent.is.active # package.target
  /\ slots' = [slots EXCEPT ![package.target].binary = package.release]
  /\ package' = [package EXCEPT !.at = "manifest"]
  /\ UNCHANGED <<files, publishing, sup, agent, readiness, data, bounds, history>>

PackageManifest ==
  /\ package.at = "manifest"
  /\ slots' = [slots EXCEPT ![package.target].manifest = package.release]
  /\ package' = IF state = NoState THEN [package EXCEPT !.at = "initialize"] ELSE NoPackage
  /\ UNCHANGED <<files, publishing, sup, agent, readiness, data, bounds, history>>

-----------------------------------------------------------------------------
(* Commands that replace files under the lock.  They compute the new state *)
(* first, publish a new challenge, and then replace what "todo" lists.     *)

Publication(by, new, todo) ==
  /\ challenge' = challenge + 1
  /\ publishing' = [by |-> by, new |-> [new EXCEPT !.challenge = challenge + 1], todo |-> todo]

\* SlotStore::initialize, called by the package script on slot a
Initialize ==
  /\ package.at = "initialize"
  /\ Unlocked
  /\ LET x == slots["a"].manifest
     IN  /\ Verified("a", x)
         /\ Publication("initialize",
              [status |-> "stable", generation |-> 1, active |-> "a", previous |-> "none",
               artifact |-> x, prior |-> "none", schema |-> Writes[x], boots |-> 0,
               rolledBack |-> FALSE, challenge |-> 0],
              <<"state", "current", "previous">>)
  /\ package' = [package EXCEPT !.at = "initializing"]
  /\ UNCHANGED <<slots, state, current, previous, late, sup, agent, readiness, data,
                 bounds, history>>

Pending(s, x) ==
  [status |-> "pending", generation |-> state.generation + 1, active |-> s,
   previous |-> state.active, artifact |-> x, prior |-> state.artifact,
   schema |-> Writes[x], boots |-> 0, rolledBack |-> FALSE, challenge |-> 0]

\* SlotStore::activate, on behalf of the root helper: only from a stable state,
\* and only if each of the two releases reads what the other one writes.
Activate(s, x) ==
  /\ Unlocked
  /\ state.status = "stable"
  /\ state.generation < MaxGeneration
  /\ s # state.active
  /\ Verified(state.active, state.artifact)
  /\ Verified(s, x)
  /\ Reads(x, state.schema)
  /\ Reads(state.artifact, Writes[x])
  /\ Publication("activate", Pending(s, x), <<"state", "previous", "current">>)
  /\ UNCHANGED <<slots, state, current, previous, late, sup, agent, readiness, package,
                 data, bounds, history>>

\* publish_state, publish_pointer, remove_pointer
Publish ==
  /\ publishing.todo # <<>>
  /\ LET file == Head(publishing.todo)
         new == publishing.new
     IN  /\ state' = IF file = "state" THEN new ELSE state
         /\ late' = IF file = "state" THEN FALSE ELSE late
         /\ current' = IF file = "current" THEN new.active ELSE current
         /\ previous' = IF file = "previous" THEN new.previous ELSE previous
         /\ trusted' = IF file = "state" /\ new.status = "stable" THEN new.artifact ELSE trusted
  /\ publishing' = [publishing EXCEPT !.todo = Tail(@)]
  /\ UNCHANGED <<slots, challenge, sup, agent, readiness, package, data, bounds, contacted>>

\* systemd starts the agent unit: the credential is a copy of the challenge.
Started == [at |-> "starting", credential |-> challenge, is |-> NoState, image |-> "none"]

\* The lock is released.  "initialize" returns to the package script,
\* "supervise" goes on ...
Published ==
  /\ publishing.by \in {"initialize", "supervise"}
  /\ publishing.todo = <<>>
  /\ publishing' = Nothing
  /\ package' = IF publishing.by = "initialize" THEN NoPackage ELSE package
  /\ sup' = IF publishing.by = "supervise" THEN [sup EXCEPT !.path = Tail(@)] ELSE sup
  /\ UNCHANGED <<slots, files, agent, readiness, data, bounds, history>>

\* ... and "activate" removes the readiness file and has systemd restart the
\* supervisor unit and, as a part of it, the agent unit.  At its start limit
\* systemd refuses.
Activated ==
  /\ publishing.by = "activate"
  /\ publishing.todo = <<>>
  /\ publishing' = Nothing
  /\ readiness' = NoState
  /\ \/ /\ sup' = Booting
        /\ agent' = IF agent.at = "stopped" THEN agent ELSE Started
     \/ Refusing /\ UNCHANGED <<sup, agent>>
  /\ UNCHANGED <<slots, files, package, data, bounds, history>>

-----------------------------------------------------------------------------
(* supervise.                                                              *)

At(step) == sup.path # <<>> /\ Head(sup.path) = step
Goto(path) == sup' = [sup EXCEPT !.path = path]
Exit == sup' = Off

Launch == <<"forget", "restart">>

\* The state becomes failed: the agent is stopped and supervise ends, after
\* the challenge check if it was "recover" that failed.  The boot count of a
\* failed state is never read again.
Fail(then) ==
  /\ state' = [state EXCEPT !.status = "failed"]
  /\ IF then = <<"load">> THEN Goto(then) /\ UNCHANGED agent
                          ELSE Exit /\ agent' = Stopped
  /\ UNCHANGED <<challenge, publishing>>

RollbackTo(x, then) ==
  /\ Publication("supervise",
       [status |-> state.status, generation |-> state.generation + 1,
        active |-> state.previous, previous |-> state.active, artifact |-> x,
        prior |-> state.artifact, schema |-> Writes[x], boots |-> 0,
        rolledBack |-> TRUE, challenge |-> 0],
       <<"state", "previous", "current">>)
  /\ Goto(<<"publishing">> \o then)
  /\ UNCHANGED <<state, agent>>

\* SlotStore::rollback_or_fail; "then" is where supervise goes on.  A previous
\* slot that is not what the state says, or cannot read the data, is an error:
\* supervise ends and leaves the state as it is.
RollbackOrFail(then) ==
  IF state.rolledBack
  THEN Fail(then)
  ELSE IF Verified(state.previous, state.prior) /\ Reads(state.prior, state.schema)
  THEN RollbackTo(state.prior, then)
  ELSE Exit /\ UNCHANGED <<state, challenge, publishing, agent>>

\* Fault: the links are left as the power loss left them.
RecoverStateOnly ==
  /\ At("recover")
  /\ Unlocked
  /\ IF Verified(state.active, state.artifact)
     THEN Goto(<<"load">>) /\ UNCHANGED <<state, challenge, publishing, agent>>
     ELSE IF state.status = "pending"
     THEN RollbackOrFail(<<"load">>)
     ELSE Exit /\ UNCHANGED <<state, challenge, publishing, agent>>
  /\ UNCHANGED <<slots, current, previous, late, readiness, package, data, bounds, history>>

\* SlotStore::recover: the links follow the state, and a candidate that does
\* not verify is rolled back.
Recover ==
  /\ At("recover")
  /\ Unlocked
  /\ IF Verified(state.active, state.artifact)
     THEN /\ publishing' = [by |-> "supervise", new |-> state,
                            todo |-> <<"current", "previous">>]
          /\ Goto(<<"publishing", "load">>)
          /\ UNCHANGED <<state, challenge, agent>>
     ELSE IF state.status = "pending"
     THEN RollbackOrFail(<<"load">>)
     ELSE Exit /\ UNCHANGED <<state, challenge, publishing, agent>>
  /\ UNCHANGED <<slots, current, previous, late, readiness, package, data, bounds, history>>

\* The state is read again without the lock ...
Load ==
  /\ At("load")
  /\ sup' = [path |-> <<"check">>, seen |-> state]
  /\ UNCHANGED <<slots, files, publishing, agent, readiness, package, data, bounds, history>>

\* ... and must name the challenge that is there.
Check ==
  /\ At("check")
  /\ IF challenge # sup.seen.challenge
     THEN Exit /\ UNCHANGED agent
     ELSE IF sup.seen.status = "failed"
     THEN Exit /\ agent' = Stopped
     ELSE /\ Goto(Launch \o (IF sup.seen.status = "stable" THEN <<>> ELSE <<"observe">>))
          /\ UNCHANGED agent
  /\ UNCHANGED <<slots, files, publishing, readiness, package, data, bounds, history>>

\* remove_readiness, and then systemctl restart.  The old agent may still write
\* the file in between.
Forget ==
  /\ At("forget")
  /\ readiness' = NoState
  /\ Goto(Tail(sup.path))
  /\ UNCHANGED <<slots, files, publishing, agent, package, data, bounds, history>>

Restart ==
  /\ At("restart")
  /\ sup' = IF Len(sup.path) = 1 THEN Off ELSE [sup EXCEPT !.path = Tail(@)]
  /\ agent' = Started
  /\ UNCHANGED <<slots, files, publishing, readiness, package, data, bounds, history>>

\* At its start limit systemd refuses, and supervise ends.
RestartRefused ==
  /\ Refusing
  /\ At("restart")
  /\ Exit
  /\ agent' = Stopped
  /\ UNCHANGED <<slots, files, publishing, readiness, package, data, bounds, history>>

\* What the readiness file must say of the present activation.
Matches ==
  /\ readiness.generation = state.generation
  /\ readiness.active = state.active
  /\ readiness.artifact = state.artifact
  /\ readiness.schema = state.schema
  /\ readiness.challenge = state.challenge

Commit ==
  /\ state' = [state EXCEPT !.status = "stable", !.boots = 0]
  /\ trusted' = state.artifact
  /\ Exit
  /\ UNCHANGED <<challenge, publishing, agent>>

\* Fault: any readiness file commits the activation.
ObserveAny ==
  /\ At("observe")
  /\ Unlocked
  /\ IF readiness = NoState
     THEN Goto(<<"active">>) /\ UNCHANGED <<state, challenge, publishing, agent, trusted>>
     ELSE IF late
     THEN RollbackOrFail(Launch \o <<"active">>) /\ UNCHANGED trusted
     ELSE Commit
  /\ UNCHANGED <<slots, current, previous, late, readiness, package, data, bounds, contacted>>

\* SlotStore::observe_readiness
Observe ==
  /\ At("observe")
  /\ Unlocked
  /\ IF readiness = NoState
     THEN Goto(<<"active">>) /\ UNCHANGED <<state, challenge, publishing, agent, trusted>>
     ELSE IF late
     THEN RollbackOrFail(Launch \o <<"active">>) /\ UNCHANGED trusted
     ELSE IF ~Matches
     THEN Goto(<<"active">>) /\ UNCHANGED <<state, challenge, publishing, agent, trusted>>
     ELSE IF Verified(state.active, state.artifact)
     THEN Commit
     ELSE Exit /\ UNCHANGED <<state, challenge, publishing, agent, trusted>>
  /\ UNCHANGED <<slots, current, previous, late, readiness, package, data, bounds, contacted>>

\* SlotStore::record_agent_failure, when systemctl says the unit is not active
Active ==
  /\ At("active")
  /\ IF agent.at \notin {"stopped", "failed"}
     THEN Goto(<<"deadline">>) /\ UNCHANGED <<state, challenge, publishing, agent>>
     ELSE /\ Unlocked
          /\ IF state.boots + 1 < MaxBootAttempts
             THEN /\ state' = [state EXCEPT !.boots = @ + 1]
                  /\ Goto(Launch \o <<"deadline">>)
                  /\ UNCHANGED <<challenge, publishing, agent>>
             ELSE RollbackOrFail(Launch \o <<"deadline">>)
  /\ UNCHANGED <<slots, current, previous, late, readiness, package, data, bounds, history>>

\* SlotStore::check_deadline
Deadline ==
  /\ At("deadline")
  /\ Unlocked
  /\ IF late
     THEN RollbackOrFail(Launch \o <<"observe">>)
     ELSE Goto(<<"observe">>) /\ UNCHANGED <<state, challenge, publishing, agent>>
  /\ UNCHANGED <<slots, current, previous, late, readiness, package, data, bounds, history>>

Supervise ==
  \/ Recover \/ Load \/ Check \/ Forget \/ Restart \/ RestartRefused
  \/ Observe \/ Active \/ Deadline

-----------------------------------------------------------------------------
(* The agent unit.                                                         *)

\* run-agent reads the state and verifies the slot without the lock ...
AgentVerifies ==
  /\ agent.at = "starting"
  /\ agent' = IF Verified(state.active, state.artifact)
              THEN [agent EXCEPT !.at = "verified", !.is = state]
              ELSE [agent EXCEPT !.at = "failed"]
  /\ UNCHANGED <<slots, files, publishing, sup, readiness, package, data, bounds, history>>

\* ... and executes the path, that is, whatever binary is there by then.  A
\* running agent keeps its data in the schema its release writes.
AgentRuns ==
  /\ agent.at = "verified"
  /\ LET x == slots[agent.is.active].binary
     IN  /\ agent' = [agent EXCEPT !.at = "running", !.image = x]
         /\ data' = Writes[x]
  /\ UNCHANGED <<slots, files, publishing, sup, readiness, package, bounds, history>>

\* The first inventory report has reached the controller: readiness.json says
\* what run-agent passed in the environment, with the credential.
AgentReports ==
  /\ agent.at = "running"
  /\ agent' = [agent EXCEPT !.at = "reported"]
  /\ readiness' = [agent.is EXCEPT !.challenge = agent.credential]
  /\ contacted' = contacted \cup {<<agent.is.generation, agent.image>>}
  /\ UNCHANGED <<slots, files, publishing, sup, package, data, bounds, trusted>>

AgentFails ==
  /\ agent.at \in {"running", "reported"}
  /\ agent' = [agent EXCEPT !.at = "failed"]
  /\ UNCHANGED <<slots, files, publishing, sup, readiness, package, data, bounds, history>>

\* Restart=on-failure
AgentRestarts ==
  /\ agent.at = "failed"
  /\ agent' = Started
  /\ UNCHANGED <<slots, files, publishing, sup, readiness, package, data, bounds, history>>

-----------------------------------------------------------------------------
(* The environment.                                                        *)

\* An operator, or systemd at boot, starts the supervisor unit.
StartSupervisor ==
  /\ sup = Off
  /\ state # NoState
  /\ sup' = Booting
  /\ UNCHANGED <<slots, files, publishing, agent, readiness, package, data, bounds, history>>

TimePasses ==
  /\ state.status = "pending"
  /\ ~late
  /\ late' = TRUE
  /\ UNCHANGED <<slots, state, challenge, current, previous, publishing, sup, agent,
                 readiness, package, data, bounds, history>>

\* Every process is gone, and the readiness file, which is not on a disk; the
\* supervisor unit is started at the next boot.
PowerLoss ==
  /\ crashes < MaxCrashes
  /\ crashes' = crashes + 1
  /\ publishing' = Nothing
  /\ sup' = Booting
  /\ agent' = Stopped
  /\ readiness' = NoState
  /\ package' = NoPackage
  /\ UNCHANGED <<slots, files, data, installs, history>>

Next ==
  \/ \E x \in Artifacts : PackageBegins(x)
  \/ PackageBinary \/ PackageManifest \/ Initialize
  \/ \E s \in Slots, x \in Artifacts : Activate(s, x)
  \/ Publish \/ Published \/ Activated
  \/ Supervise
  \/ AgentVerifies \/ AgentRuns \/ AgentReports \/ AgentFails \/ AgentRestarts
  \/ StartSupervisor \/ TimePasses \/ PowerLoss

Spec == Init /\ [][Next]_vars

\* Programs that run go on, systemd executes what it started, and time passes.
\* Nothing makes an agent report, nor an operator act.
Fairness ==
  /\ WF_vars(Publish) /\ WF_vars(Published) /\ WF_vars(Activated)
  /\ WF_vars(Supervise)
  /\ WF_vars(AgentVerifies) /\ WF_vars(AgentRuns)
  /\ WF_vars(TimePasses)

FairSpec == Spec /\ Fairness

-----------------------------------------------------------------------------
(* Properties.                                                             *)

Names == Slots \cup {"none"}
Releases == Artifacts \cup {"none"}
States == [status : {"absent", "stable", "pending", "failed"}, generation : Nat,
           active : Names, previous : Names, artifact : Releases, prior : Releases,
           schema : Nat, boots : 0 .. MaxBootAttempts - 1, rolledBack : BOOLEAN,
           challenge : Nat]

\* Every variable has its type, and the state passes SupervisorState::validate:
\* a slot and its digest are recorded together, the two slots differ, and only
\* a pending state counts boot attempts.
TypeOK ==
  /\ slots \in [Slots -> [binary : Releases, manifest : Releases]]
  /\ state \in States
  /\ (state.previous = "none") <=> (state.prior = "none")
  /\ state # NoState => state.active \in Slots /\ state.active # state.previous
  /\ state.status = "stable" => state.boots = 0
  /\ challenge \in Nat
  /\ current \in Names /\ previous \in Names
  /\ late \in BOOLEAN
  /\ publishing.by \in {"nobody", "initialize", "activate", "supervise"}
  /\ publishing.new \in States
  /\ sup.seen \in States
  /\ agent.at \in {"stopped", "starting", "verified", "running", "reported", "failed"}
  /\ agent.is \in States /\ agent.image \in Releases
  /\ readiness \in States
  /\ package.target \in Slots /\ package.release \in Releases
  /\ data \in Nat
  /\ trusted \in Releases

\* An activation, or a rollback, is committed only when an agent process that
\* was started for this very generation and runs the selected release has
\* exchanged a message with the controller (observe_readiness): no file left by
\* an earlier agent, however late it is written, commits a later generation.
CommittedWasReady ==
  state.status = "stable" /\ state.generation > 1 =>
    <<state.generation, state.artifact>> \in contacted

\* Whatever the package script has put into the slots since, the release an
\* activation falls back to, and the one a rollback selects, is the release
\* that was stable last (rollback_or_fail).
FallbackIsTrusted ==
  /\ state.status = "pending" /\ ~state.rolledBack => state.prior = trusted
  /\ state.rolledBack => state.artifact = trusted

\* Between two stable states the selection moves at most twice: to the
\* candidate and back.  Once a rollback is recorded no restart, crash or failure
\* selects another slot or release until it is committed.
RollsBackOnce ==
  [][state.status \in {"pending", "failed"} /\ state.rolledBack =>
       state'.active = state.active /\ state'.artifact = state.artifact]_vars

\* An agent never begins to run on data it cannot read: the checks made when a
\* release is selected still hold when it is started, whatever was run, rolled
\* back or interrupted in between (activate, rollback_or_fail).
LaunchReadsData ==
  [][AgentRuns /\ data # 0 => Reads(agent'.image, data)]_vars

\* While supervise waits for an agent the links name the slots of the state,
\* after a power loss between any two publications as well (recover).
LinksFollowState ==
  At("observe") /\ Unlocked => current = state.active /\ previous = state.previous

\* What the supervisor does not overcome by itself: a power loss, and a slot that
\* no longer holds the release the state names.
Disturbed ==
  \/ crashes > 0
  \/ ~Verified(state.active, state.artifact)
  \/ ~Verified(state.previous, state.prior)

\* Short of those, and of restarts that systemd refuses (Refusing), every
\* activation ends, whatever the agent does: it may never report,
\* report too late, or fail at every start (supervise, check_deadline,
\* record_agent_failure).
SettlesUndisturbed ==
  state.status = "pending" ~> state.status # "pending" \/ Disturbed

-----------------------------------------------------------------------------
(* Proofs.                                                                 *)

Steps == {"recover", "publishing", "load", "check", "forget", "restart", "observe",
          "active", "deadline"}

SlotTypes ==
  /\ slots \in [Slots -> [binary : Releases, manifest : Releases]]
  /\ state \in States
  /\ challenge \in Nat
  /\ publishing \in [by : {"nobody", "initialize", "activate", "supervise"}, new : States,
                     todo : Seq({"state", "current", "previous"})]
  /\ sup \in [path : Seq(Steps), seen : States]
  /\ agent \in [at : {"stopped", "starting", "verified", "running", "reported", "failed"},
                credential : Nat, is : States, image : Releases]
  /\ agent.at = "verified" => agent.is.active \in Slots
  /\ readiness \in States
  /\ package \in [at : {"idle", "binary", "manifest", "initialize", "initializing"},
                  target : Slots, release : Releases]

\* Supervise, on this path, will wait for an agent.
Waits(path) == \E i \in 1..Len(path) : path[i] \in {"observe", "active", "deadline"}

NoCheck(path) == \A i \in 1..Len(path) : path[i] # "check"

\* Where supervise may go on from the present state.
Onward(next) ==
  /\ next \in [path : Seq(Steps), seen : States]
  /\ NoCheck(next.path)
  /\ Waits(next.path) => state.status = "pending"

\* A locked command writes the state next.
Selecting == publishing.todo # <<>> /\ Head(publishing.todo) = "state"

\* The state is the first file a command writes and is written once; supervise
\* waits for its own publication, and only an empty host is initialized.
LockSound ==
  /\ publishing.by = "nobody" => publishing = Nothing
  /\ \A i \in 2..Len(publishing.todo) : publishing.todo[i] # "state"
  /\ publishing.by = "supervise" => At("publishing")
  /\ publishing.by = "initialize" => package.at = "initializing"
  /\ package.at = "initialize" => state.status = "absent" /\ publishing = Nothing
  /\ state.status = "absent" =>
       state = NoState /\ sup.path \in {<<>>, <<"recover">>} /\ publishing.by \in {"nobody", "initialize"}

\* What is about to be written suits the state that is there.
SelectionSound ==
  Selecting =>
    LET new == publishing.new
    IN  \/ /\ publishing.by = "initialize"
           /\ state.status = "absent"
           /\ new.status = "stable" /\ new.generation = 1 /\ ~new.rolledBack
        \/ /\ publishing.by = "activate"
           /\ state.status = "stable"
           /\ new.status = "pending" /\ ~new.rolledBack /\ new.prior = trusted
        \/ /\ publishing.by = "supervise"
           /\ state.status = "pending" /\ ~state.rolledBack
           /\ new.status = "pending" /\ new.rolledBack /\ new.artifact = trusted

\* Supervise waits for an agent only while the state is pending, although it
\* has read the state without the lock.
WaitSound ==
  /\ \A i \in 2..Len(sup.path) : sup.path[i] # "check"
  /\ Waits(sup.path) => state.status = "pending"
  /\ At("check") => sup.seen.status # "absent"
  /\ At("check") /\ sup.seen.status = "pending" => state.status = "pending"

StableIsTrusted == state.status = "stable" => state.artifact = trusted

SlotInv ==
  SlotTypes /\ LockSound /\ SelectionSound /\ WaitSound /\ StableIsTrusted /\ FallbackIsTrusted

LEMMA NoStateTyped == NoState \in States
BY DEF NoState, States, Names, Releases, Slots, MaxBootAttempts

LEMMA PathTail ==
  ASSUME NEW path \in Seq(Steps), path # <<>>
  PROVE  /\ Tail(path) \in Seq(Steps)
         /\ Len(Tail(path)) = Len(path) - 1
         /\ \A i \in 1..Len(Tail(path)) : Tail(path)[i] = path[i + 1]
         /\ Waits(Tail(path)) => Waits(path)
<1>1. /\ Tail(path) \in Seq(Steps)
      /\ Len(Tail(path)) = Len(path) - 1
      /\ \A i \in 1..Len(Tail(path)) : Tail(path)[i] = path[i + 1]
      /\ Len(path) \in Nat
  BY HeadTailProperties, LenProperties
<1>2. \A i \in 1..Len(Tail(path)) : i + 1 \in 1..Len(path)
  BY <1>1
<1> QED BY <1>1, <1>2 DEF Waits

LEMMA PathConcat ==
  ASSUME NEW p \in Seq(Steps), NEW q \in Seq(Steps), p # <<>>
  PROVE  /\ p \o q \in Seq(Steps)
         /\ p \o q # <<>>
         /\ Head(p \o q) = Head(p)
         /\ Waits(p \o q) => Waits(p) \/ Waits(q)
         /\ NoCheck(p) /\ NoCheck(q) => NoCheck(p \o q)
<1>1. /\ p \o q \in Seq(Steps)
      /\ Len(p \o q) = Len(p) + Len(q)
      /\ \A i \in 1..Len(p) + Len(q) :
           (p \o q)[i] = IF i <= Len(p) THEN p[i] ELSE q[i - Len(p)]
  BY ConcatProperties
<1>2. Len(p) \in Nat \ {0} /\ Len(q) \in Nat
  BY LenProperties, EmptySeq
<1>3. \A i \in 1..Len(p \o q) :
        \/ i \in 1..Len(p) /\ (p \o q)[i] = p[i]
        \/ i - Len(p) \in 1..Len(q) /\ (p \o q)[i] = q[i - Len(p)]
  BY <1>1, <1>2
<1>4. p \o q # <<>>
  BY <1>1, <1>2
<1>5. Head(p \o q) = (p \o q)[1] /\ Head(p) = p[1]
  BY <1>1, <1>4
<1>6. Head(p \o q) = Head(p)
  BY <1>1, <1>2, <1>5
<1>7. Waits(p \o q) => Waits(p) \/ Waits(q)
  BY <1>3, Zenon DEF Waits
<1>8. NoCheck(p) /\ NoCheck(q) => NoCheck(p \o q)
  BY <1>3, Zenon DEF NoCheck
<1> QED BY <1>1, <1>4, <1>6, <1>7, <1>8

LEMMA ShortPaths ==
  /\ <<>> \in Seq(Steps) /\ NoCheck(<<>>) /\ ~Waits(<<>>)
  /\ <<"load">> \in Seq(Steps) /\ NoCheck(<<"load">>) /\ ~Waits(<<"load">>)
  /\ <<"observe">> \in Seq(Steps) /\ NoCheck(<<"observe">>)
  /\ <<"active">> \in Seq(Steps) /\ NoCheck(<<"active">>)
  /\ <<"deadline">> \in Seq(Steps) /\ NoCheck(<<"deadline">>)
  /\ <<"publishing">> \in Seq(Steps) /\ NoCheck(<<"publishing">>) /\ ~Waits(<<"publishing">>)
<1>1. <<>> \in Seq(Steps) /\ NoCheck(<<>>) /\ ~Waits(<<>>)
  BY EmptySeq DEF NoCheck, Waits
<1>2. <<"load">> \in Seq(Steps) /\ NoCheck(<<"load">>) /\ ~Waits(<<"load">>)
  BY DEF Steps, NoCheck, Waits
<1>3. <<"observe">> \in Seq(Steps) /\ NoCheck(<<"observe">>)
  BY DEF Steps, NoCheck
<1>4. <<"active">> \in Seq(Steps) /\ NoCheck(<<"active">>)
  BY DEF Steps, NoCheck
<1>5. <<"deadline">> \in Seq(Steps) /\ NoCheck(<<"deadline">>)
  BY DEF Steps, NoCheck
<1>6. <<"publishing">> \in Seq(Steps) /\ NoCheck(<<"publishing">>) /\ ~Waits(<<"publishing">>)
  BY DEF Steps, NoCheck, Waits
<1> QED BY <1>1, <1>2, <1>3, <1>4, <1>5, <1>6

\* The steps that end in a start of the agent, and what may follow them.
LEMMA LaunchPath ==
  ASSUME NEW q \in Seq(Steps), NoCheck(q)
  PROVE  /\ Launch \o q \in Seq(Steps)
         /\ Launch \o q # <<>>
         /\ Head(Launch \o q) = "forget"
         /\ Waits(Launch \o q) => Waits(q)
         /\ NoCheck(Launch \o q)
<1>1. /\ Launch \in Seq(Steps) /\ Launch # <<>> /\ Head(Launch) = "forget"
      /\ ~Waits(Launch) /\ NoCheck(Launch)
  BY DEF Launch, Steps, Waits, NoCheck
<1> QED BY <1>1, PathConcat

LEMMA SlotsInitially == Init => SlotInv
<1> SUFFICES ASSUME Init PROVE SlotInv
  OBVIOUS
<1>1. SlotTypes
  BY NoStateTyped, EmptySeq DEF Init, SlotTypes, Nothing, Off, Stopped, NoPackage, Slots, Releases
<1> QED
  BY <1>1
     DEF Init, SlotInv, LockSound, SelectionSound, WaitSound, StableIsTrusted,
         FallbackIsTrusted, Waits, Selecting, At, Nothing, Off, NoState, NoPackage

\* What replacing a field does to a recorded state.
LEMMA StateEdits ==
  ASSUME NEW r \in States, NEW c \in Nat
  PROVE  /\ [r EXCEPT !.challenge = c] \in States
         /\ [r EXCEPT !.status = "failed"] \in States
         /\ [r EXCEPT !.status = "stable", !.boots = 0] \in States
         /\ r.boots + 1 < MaxBootAttempts => [r EXCEPT !.boots = @ + 1] \in States
<1>1. [r EXCEPT !.challenge = c] \in States
  BY DEF States
<1>2. [r EXCEPT !.status = "failed"] \in States
  BY DEF States
<1>3. [r EXCEPT !.status = "stable", !.boots = 0] \in States
  <2>1. [r EXCEPT !.status = "stable"] \in States
    BY DEF States
  <2>2. \A q \in States : [q EXCEPT !.boots = 0] \in States
    BY DEF States, MaxBootAttempts
  <2>3. [r EXCEPT !.status = "stable", !.boots = 0]
          = [[r EXCEPT !.status = "stable"] EXCEPT !.boots = 0]
    BY DEF States
  <2> QED BY <2>1, <2>2, <2>3, Zenon
<1>4. r.boots + 1 < MaxBootAttempts => [r EXCEPT !.boots = @ + 1] \in States
  BY DEF States, MaxBootAttempts
<1> QED BY <1>1, <1>2, <1>3, <1>4

\* The fields that the argument is about, when another one is replaced.
LEMMA StateFields ==
  ASSUME NEW r \in States, NEW c
  PROVE  /\ LET e == [r EXCEPT !.challenge = c]
            IN  /\ e.status = r.status /\ e.generation = r.generation
                /\ e.artifact = r.artifact /\ e.prior = r.prior
                /\ e.rolledBack = r.rolledBack /\ e.active = r.active
         /\ LET e == [r EXCEPT !.boots = c]
            IN  /\ e.status = r.status /\ e.generation = r.generation
                /\ e.artifact = r.artifact /\ e.prior = r.prior
                /\ e.rolledBack = r.rolledBack /\ e.active = r.active
         /\ LET e == [r EXCEPT !.status = c]
            IN  /\ e.status = c /\ e.generation = r.generation
                /\ e.artifact = r.artifact /\ e.prior = r.prior
                /\ e.rolledBack = r.rolledBack /\ e.active = r.active
         /\ LET e == [r EXCEPT !.status = "stable", !.boots = 0]
            IN  /\ e.status = "stable" /\ e.generation = r.generation
                /\ e.artifact = r.artifact /\ e.prior = r.prior
                /\ e.rolledBack = r.rolledBack /\ e.active = r.active
BY DEF States

\* Steps of the package script, the agent and the clock: they leave alone what
\* the locked commands and supervise write.
LEMMA BystanderKeeps ==
  ASSUME SlotInv, SlotTypes', UNCHANGED <<state, trusted, publishing, sup>>,
         \/ package' = package
         \/ package.at # "initializing" /\ package'.at # "initialize"
  PROVE  SlotInv'
BY DEF SlotInv, LockSound, SelectionSound, WaitSound, StableIsTrusted, FallbackIsTrusted,
       Waits, Selecting, At

\* Steps of supervise that only choose where it goes on.
LEMMA WalkKeeps ==
  ASSUME SlotInv, SlotTypes', UNCHANGED <<state, trusted, publishing, package>>,
         publishing.by # "supervise",
         state.status # "absent" \/ sup'.path \in {<<>>, <<"recover">>},
         Onward(sup') \/ sup' = [path |-> <<"check">>, seen |-> state]
  PROVE  SlotInv'
<1>0. SlotTypes /\ SlotTypes' /\ LockSound /\ WaitSound
  BY DEF SlotInv
<1>1. sup'.path \in Seq(Steps)
  BY <1>0 DEF SlotTypes
<1>2. Len(sup'.path) \in Nat /\ (sup'.path # <<>> => Len(sup'.path) > 0 /\ Head(sup'.path) = sup'.path[1])
  BY <1>1, LenProperties, EmptySeq
<1>3. WaitSound'
  <2>1. CASE Onward(sup')
    <3>1. ~At("check")'
      BY <1>2, <2>1 DEF Onward, NoCheck, At
    <3>2. \A i \in 2..Len(sup'.path) : sup'.path[i] # "check"
      BY <1>2, <2>1 DEF Onward, NoCheck
    <3> QED BY <2>1, <3>1, <3>2 DEF Onward, WaitSound
  <2>2. CASE sup' = [path |-> <<"check">>, seen |-> state]
    <3>1. ~Waits(sup'.path)
      BY <2>2 DEF Waits
    <3>2. state.status # "absent"
      BY <2>2
    <3> QED BY <2>2, <3>1, <3>2 DEF WaitSound
  <2> QED BY <2>1, <2>2
<1>4. LockSound'
  BY <1>0 DEF LockSound
<1> QED
  BY <1>0, <1>3, <1>4 DEF SlotInv, SelectionSound, StableIsTrusted, FallbackIsTrusted, Selecting

\* Supervise ends, or takes its next step.
LEMMA OnwardFrom ==
  ASSUME SlotTypes, WaitSound
  PROVE  /\ Onward(Off)
         /\ \A path : [sup EXCEPT !.path = path] = [path |-> path, seen |-> sup.seen]
         /\ sup.path # <<>> => Onward([sup EXCEPT !.path = Tail(@)])
         /\ \A q \in Seq(Steps) :
              NoCheck(q) /\ (Waits(q) => state.status = "pending")
                => Onward([sup EXCEPT !.path = q])
<1>1. sup.path \in Seq(Steps) /\ sup.seen \in States
  BY DEF SlotTypes
<1>2. \A path : [sup EXCEPT !.path = path] = [path |-> path, seen |-> sup.seen]
  BY DEF SlotTypes
<1>3. Onward(Off)
  BY NoStateTyped, EmptySeq DEF Off, Onward, NoCheck, Waits
<1>4. ASSUME NEW q \in Seq(Steps), NoCheck(q), Waits(q) => state.status = "pending"
      PROVE  Onward([sup EXCEPT !.path = q])
  BY <1>1, <1>2, <1>4, Zenon DEF Onward
<1>5. ASSUME sup.path # <<>> PROVE Onward([sup EXCEPT !.path = Tail(@)])
  <2>1. Len(sup.path) \in Nat
    BY <1>1, LenProperties
  <2>2. /\ Tail(sup.path) \in Seq(Steps)
        /\ Len(Tail(sup.path)) = Len(sup.path) - 1
        /\ \A i \in 1..Len(Tail(sup.path)) : Tail(sup.path)[i] = sup.path[i + 1]
        /\ Waits(Tail(sup.path)) => Waits(sup.path)
    BY <1>1, <1>5, PathTail
  <2>3. \A i \in 1..Len(Tail(sup.path)) : i + 1 \in 2..Len(sup.path)
    BY <2>1, <2>2
  <2>4. NoCheck(Tail(sup.path))
    BY <2>2, <2>3 DEF NoCheck, WaitSound
  <2> QED BY <1>4, <2>2, <2>4, Zenon DEF WaitSound
<1> QED BY <1>2, <1>3, <1>4, <1>5

LEMMA PackageKeeps ==
  ASSUME SlotInv, (\E x \in Artifacts : PackageBegins(x)) \/ PackageBinary \/ PackageManifest
  PROVE  SlotInv'
<1>0. SlotTypes
  BY DEF SlotInv
<1>1. ASSUME NEW x \in Artifacts, PackageBegins(x) PROVE SlotInv'
  <2>1. SlotTypes'
    BY <1>0, <1>1 DEF SlotTypes, PackageBegins, files, history, Other, Slots, Releases
  <2> QED BY <1>1, <2>1, BystanderKeeps DEF PackageBegins, files, history
<1>2. CASE PackageBinary
  <2>1. SlotTypes'
    BY <1>0, <1>2, Zenon DEF SlotTypes, PackageBinary, files, history
  <2>2. package'.at = "manifest"
    BY <1>0, <1>2 DEF SlotTypes, PackageBinary
  <2> QED BY <1>2, <2>1, <2>2, BystanderKeeps DEF PackageBinary, files, history
<1>3. CASE PackageManifest
  <2>0. /\ slots' \in [Slots -> [binary : Releases, manifest : Releases]]
        /\ package' \in [at : {"idle", "binary", "manifest", "initialize", "initializing"},
                        target : Slots, release : Releases]
    BY <1>0, <1>3, ZenonT(40) DEF SlotTypes, PackageManifest, NoPackage, Slots, Releases
  <2>1. SlotTypes'
    BY <1>0, <1>3, <2>0 DEF SlotTypes, PackageManifest, files, history
  <2>2. CASE state = NoState
    <3>1. package'.at = "initialize" /\ state.status = "absent"
      BY <1>0, <1>3, <2>2 DEF SlotTypes, PackageManifest, NoState
    <3>2. publishing.by # "initialize"
      BY <1>3 DEF SlotInv, LockSound, PackageManifest
    <3>3. publishing = Nothing
      BY <3>1, <3>2 DEF SlotInv, LockSound
    <3>4. LockSound'
      BY <1>3, <3>1, <3>2, <3>3 DEF SlotInv, LockSound, PackageManifest, files, At
    <3> QED
      BY <1>3, <2>1, <3>4
         DEF SlotInv, PackageManifest, files, history, SelectionSound, WaitSound,
             StableIsTrusted, FallbackIsTrusted, Waits, Selecting, At
  <2>3. CASE state # NoState
    <3>1. package'.at = "idle"
      BY <1>3, <2>3 DEF PackageManifest, NoPackage
    <3> QED BY <1>3, <2>1, <3>1, BystanderKeeps DEF PackageManifest, files, history
  <2> QED BY <2>2, <2>3
<1> QED BY <1>1, <1>2, <1>3

LEMMA AgentKeeps ==
  ASSUME SlotInv, AgentVerifies \/ AgentRuns \/ AgentReports \/ AgentFails \/ AgentRestarts
                  \/ TimePasses
  PROVE  SlotInv'
<1>0. SlotTypes
  BY DEF SlotInv
<1>1. CASE AgentVerifies
  <2>1. SlotTypes'
    BY <1>0, <1>1, Zenon DEF SlotTypes, AgentVerifies, Verified, files
  <2> QED BY <1>1, <2>1, BystanderKeeps DEF AgentVerifies, files, history
<1>2. CASE AgentRuns
  <2>1. SlotTypes'
    BY <1>0, <1>2, Zenon DEF SlotTypes, AgentRuns, files
  <2> QED BY <1>2, <2>1, BystanderKeeps DEF AgentRuns, files, history
<1>3. CASE AgentReports
  <2>1. readiness' \in States
    BY <1>0, <1>3, StateEdits, Zenon DEF SlotTypes, AgentReports
  <2>2. SlotTypes'
    BY <1>0, <1>3, <2>1 DEF SlotTypes, AgentReports, files
  <2> QED BY <1>3, <2>2, BystanderKeeps DEF AgentReports, files
<1>4. CASE AgentFails
  <2>1. SlotTypes'
    BY <1>0, <1>4, Zenon DEF SlotTypes, AgentFails, files
  <2> QED BY <1>4, <2>1, BystanderKeeps DEF AgentFails, files, history
<1>5. CASE AgentRestarts
  <2>1. SlotTypes'
    BY <1>0, <1>5, NoStateTyped DEF SlotTypes, AgentRestarts, Started, Releases, files
  <2> QED BY <1>5, <2>1, BystanderKeeps DEF AgentRestarts, files, history
<1>6. CASE TimePasses
  <2>1. SlotTypes'
    BY <1>0, <1>6 DEF SlotTypes, TimePasses
  <2> QED BY <1>6, <2>1, BystanderKeeps DEF TimePasses, history
<1> QED BY <1>1, <1>2, <1>3, <1>4, <1>5, <1>6

LEMMA WalksKeep ==
  ASSUME SlotInv, Load \/ Check \/ Forget \/ Restart \/ RestartRefused
  PROVE  SlotInv'
<1>0. SlotTypes /\ LockSound /\ WaitSound
  BY DEF SlotInv
<1>2. /\ sup.path # <<>> /\ sup.path \in Seq(Steps)
      /\ Head(sup.path) \in {"load", "check", "forget", "restart"}
  BY <1>0 DEF SlotTypes, Load, Check, Forget, Restart, RestartRefused, At
<1>3. publishing.by # "supervise" /\ state.status # "absent"
  BY <1>0, <1>2 DEF LockSound, At
<1>6. UNCHANGED <<state, trusted, publishing, package>>
  BY DEF Load, Check, Forget, Restart, RestartRefused, files, history
<1>7. CASE Load
  <2>1. sup' = [path |-> <<"check">>, seen |-> state]
    BY <1>7 DEF Load
  <2>2. sup' \in [path : Seq(Steps), seen : States]
    BY <1>0, <2>1 DEF SlotTypes, Steps
  <2>3. SlotTypes'
    BY <1>0, <1>7, <2>2 DEF Load, SlotTypes, files
  <2> QED BY <1>3, <1>6, <2>1, <2>3, WalkKeeps
<1>8. CASE Check
  <2>1. \/ sup' = Off
        \/ sup' = [sup EXCEPT !.path = Launch \o <<>>]
        \/ sup' = [sup EXCEPT !.path = Launch \o <<"observe">>] /\ state.status = "pending"
    <3>1. sup.seen.status \in {"stable", "pending", "failed"}
      BY <1>0, <1>8 DEF Check, WaitSound, SlotTypes, States
    <3> QED BY <1>0, <1>8, <3>1, Zenon DEF Check, WaitSound, Exit, Goto
  <2>2. /\ Launch \o <<>> \in Seq(Steps) /\ NoCheck(Launch \o <<>>) /\ ~Waits(Launch \o <<>>)
        /\ Launch \o <<"observe">> \in Seq(Steps) /\ NoCheck(Launch \o <<"observe">>)
    BY ShortPaths, LaunchPath, Zenon
  <2>4. Onward(sup')
    BY <1>0, <2>1, <2>2, OnwardFrom, Zenon
  <2>5. agent' \in {agent, Stopped}
    BY <1>8 DEF Check
  <2>6. SlotTypes'
    BY <1>0, <1>8, <2>4, <2>5, NoStateTyped, SMTT(40)
       DEF Check, SlotTypes, Onward, files, Stopped, Releases
  <2> QED BY <1>3, <1>6, <2>4, <2>6, WalkKeeps
<1>9. CASE Forget \/ Restart \/ RestartRefused
  <2>1. sup' = Off \/ sup' = [sup EXCEPT !.path = Tail(@)]
    BY <1>0, <1>9 DEF Forget, Restart, RestartRefused, Exit, Goto
  <2>2. Onward(sup')
    BY <1>0, <1>2, <2>1, OnwardFrom, Zenon
  <2>3. agent' \in {agent, Started, Stopped} /\ readiness' \in {readiness, NoState}
    BY <1>9 DEF Forget, Restart, RestartRefused
  <2>4. SlotTypes'
    BY <1>0, <1>9, <2>2, <2>3, NoStateTyped
       DEF Forget, Restart, RestartRefused, SlotTypes, Onward, files, Started, Stopped, Releases
  <2> QED BY <1>3, <1>6, <2>2, <2>4, WalkKeeps
<1> QED BY <1>7, <1>8, <1>9

\* A command takes the lock: what it will write suits the state.
LEMMA LockedKeeps ==
  ASSUME SlotInv, SlotTypes', UNCHANGED <<state, trusted>>, Unlocked, SelectionSound',
         \A i \in 2..Len(publishing'.todo) : publishing'.todo[i] # "state",
         publishing'.by # "nobody",
         \/ /\ publishing'.by = "initialize" /\ UNCHANGED sup
            /\ package'.at = "initializing"
         \/ /\ publishing'.by = "activate" /\ UNCHANGED <<sup, package>>
            /\ state.status # "absent"
         \/ /\ publishing'.by = "supervise" /\ UNCHANGED package
            /\ state.status # "absent"
            /\ Onward(sup') /\ At("publishing")'
  PROVE  SlotInv'
<1>0. SlotTypes /\ LockSound /\ WaitSound
  BY DEF SlotInv
<1>1. package.at = "initialize" => state.status = "absent"
  BY <1>0 DEF LockSound
<1>2. WaitSound'
  <2>1. CASE UNCHANGED sup
    BY <1>0, <2>1 DEF WaitSound, At
  <2>2. CASE Onward(sup') /\ At("publishing")'
    <3>1. sup'.path \in Seq(Steps)
      BY <2>2 DEF Onward
    <3>2. Len(sup'.path) \in Nat
      BY <3>1, LenProperties
    <3>3. \A i \in 2..Len(sup'.path) : sup'.path[i] # "check"
      BY <2>2, <3>2 DEF Onward, NoCheck
    <3> QED BY <2>2, <3>3 DEF Onward, WaitSound, At
  <2> QED BY <2>1, <2>2
<1>3. LockSound'
  BY <1>0, <1>1 DEF LockSound, At
<1> QED BY <1>2, <1>3 DEF SlotInv, StableIsTrusted, FallbackIsTrusted

\* A publication: a command begins to replace files.
LEMMA PublicationTyped ==
  ASSUME SlotTypes, NEW by, NEW new \in States, NEW todo, Publication(by, new, todo)
  PROVE  /\ challenge' \in Nat
         /\ publishing'.by = by /\ publishing'.todo = todo
         /\ publishing'.new \in States
         /\ publishing' = [by |-> by, new |-> publishing'.new, todo |-> todo]
         /\ publishing'.new.status = new.status /\ publishing'.new.generation = new.generation
         /\ publishing'.new.rolledBack = new.rolledBack /\ publishing'.new.prior = new.prior
         /\ publishing'.new.artifact = new.artifact
<1> DEFINE e == [new EXCEPT !.challenge = challenge + 1]
<1>1. challenge + 1 \in Nat
  BY DEF SlotTypes
<1>2. challenge' = challenge + 1 /\ publishing' = [by |-> by, new |-> e, todo |-> todo]
  BY DEF Publication
<1>3. e \in States
  BY <1>1, StateEdits, Zenon
<1>4. /\ e.status = new.status /\ e.generation = new.generation
      /\ e.artifact = new.artifact /\ e.prior = new.prior
      /\ e.rolledBack = new.rolledBack
  BY StateFields
<1> HIDE DEF e
<1> QED BY <1>1, <1>2, <1>3, <1>4

LEMMA CommandsKeep ==
  ASSUME SlotInv, Initialize \/ \E s \in Slots, x \in Artifacts : Activate(s, x)
  PROVE  SlotInv'
<1>0. SlotTypes /\ LockSound /\ WaitSound /\ StableIsTrusted
  BY DEF SlotInv
<1>1. CASE Initialize
  <2> DEFINE x == slots["a"].manifest
             new == [status |-> "stable", generation |-> 1, active |-> "a",
                     previous |-> "none", artifact |-> x, prior |-> "none",
                     schema |-> Writes[x], boots |-> 0, rolledBack |-> FALSE,
                     challenge |-> 0]
             todo == <<"state", "current", "previous">>
  <2>1. /\ x \in Artifacts /\ Unlocked /\ package.at = "initialize"
        /\ Publication("initialize", new, todo)
        /\ package' = [package EXCEPT !.at = "initializing"]
        /\ UNCHANGED <<slots, state, sup, agent, readiness, trusted>>
    BY <1>1 DEF Initialize, Verified, history
  <2>2. new \in States
    BY <2>1, SlotSupervisorAssumption
       DEF States, Names, Slots, Releases, MaxBootAttempts
  <2>3. todo \in Seq({"state", "current", "previous"}) /\ todo # <<>> /\ Head(todo) = "state"
        /\ \A i \in 2..Len(todo) : todo[i] # "state"
    OBVIOUS
  <2> HIDE DEF todo
  <2>4. /\ challenge' \in Nat
        /\ publishing'.by = "initialize" /\ publishing'.todo = todo
        /\ publishing'.new \in States
        /\ publishing' = [by |-> "initialize", new |-> publishing'.new, todo |-> todo]
        /\ publishing'.new.status = "stable" /\ publishing'.new.generation = 1
        /\ ~publishing'.new.rolledBack
    <3>1. new.status = "stable" /\ new.generation = 1 /\ ~new.rolledBack
      OBVIOUS
    <3> HIDE DEF new
    <3> QED BY <1>0, <2>1, <2>2, <3>1, PublicationTyped
  <2> HIDE DEF new
  <2>5. SlotTypes'
    BY <1>0, <2>1, <2>3, <2>4, Zenon DEF SlotTypes
  <2>6. state.status = "absent" /\ package'.at = "initializing"
    BY <1>0, <2>1 DEF LockSound, SlotTypes
  <2>7. SelectionSound'
    BY <2>1, <2>4, <2>6 DEF SelectionSound
  <2> QED BY <2>1, <2>3, <2>4, <2>5, <2>6, <2>7, LockedKeeps
<1>2. ASSUME NEW s \in Slots, NEW x \in Artifacts, Activate(s, x) PROVE SlotInv'
  <2> DEFINE new == Pending(s, x)
             todo == <<"state", "previous", "current">>
  <2>1. /\ Unlocked /\ state.status = "stable"
        /\ Publication("activate", new, todo)
        /\ UNCHANGED <<slots, state, sup, agent, readiness, package, trusted>>
    BY <1>2, Zenon DEF Activate, history
  <2>2. new \in States
    <3>1. state.generation + 1 \in Nat /\ state.active \in Names /\ state.artifact \in Releases
      <4>1. state \in States
        BY <1>0 DEF SlotTypes
      <4> QED BY <4>1 DEF States
    <3>2. s \in Names /\ x \in Releases /\ Writes[x] \in Nat /\ 0 \in 0..MaxBootAttempts - 1
      BY SlotSupervisorAssumption DEF Names, Releases, MaxBootAttempts
    <3> QED BY <3>1, <3>2 DEF Pending, States
  <2>3. todo \in Seq({"state", "current", "previous"}) /\ todo # <<>> /\ Head(todo) = "state"
        /\ \A i \in 2..Len(todo) : todo[i] # "state"
    OBVIOUS
  <2>4. new.status = "pending" /\ ~new.rolledBack /\ new.prior = trusted
    BY <1>0, <2>1 DEF Pending, StableIsTrusted
  <2> HIDE DEF todo, new
  <2>5. /\ challenge' \in Nat
        /\ publishing'.by = "activate" /\ publishing'.todo = todo
        /\ publishing'.new \in States
        /\ publishing' = [by |-> "activate", new |-> publishing'.new, todo |-> todo]
        /\ publishing'.new.status = "pending"
        /\ ~publishing'.new.rolledBack /\ publishing'.new.prior = trusted
    BY <1>0, <2>1, <2>2, <2>4, PublicationTyped
  <2>6. SlotTypes'
    BY <1>0, <2>1, <2>3, <2>5, Zenon DEF SlotTypes
  <2>7. SelectionSound'
    BY <2>1, <2>5 DEF SelectionSound
  <2> QED BY <2>1, <2>3, <2>5, <2>6, <2>7, LockedKeeps
<1> QED BY <1>1, <1>2

LEMMA PublishKeeps ==
  ASSUME SlotInv, Publish
  PROVE  SlotInv'
<1> DEFINE file == Head(publishing.todo)
           new == publishing.new
<1>0. SlotTypes /\ LockSound /\ SelectionSound /\ WaitSound /\ StableIsTrusted /\ FallbackIsTrusted
  BY DEF SlotInv
<1>1. /\ publishing.todo \in Seq({"state", "current", "previous"})
      /\ publishing.todo # <<>> /\ new \in States
      /\ publishing.by # "nobody"
  BY <1>0 DEF SlotTypes, LockSound, Nothing, Publish
<1>2. /\ Tail(publishing.todo) \in Seq({"state", "current", "previous"})
      /\ \A i \in 1..Len(Tail(publishing.todo)) : Tail(publishing.todo)[i] # "state"
  <2>1. /\ Tail(publishing.todo) \in Seq({"state", "current", "previous"})
        /\ Len(Tail(publishing.todo)) = Len(publishing.todo) - 1
        /\ \A i \in 1..Len(Tail(publishing.todo)) :
             Tail(publishing.todo)[i] = publishing.todo[i + 1]
        /\ Len(publishing.todo) \in Nat
    BY <1>1, HeadTailProperties, LenProperties
  <2>2. \A i \in 1..Len(Tail(publishing.todo)) : i + 1 \in 2..Len(publishing.todo)
    BY <2>1
  <2> QED BY <1>0, <2>1, <2>2 DEF LockSound
<1>3. publishing' = [by |-> publishing.by, new |-> new, todo |-> Tail(publishing.todo)]
  BY <1>0, Zenon DEF Publish, SlotTypes
<1>4. /\ state' = IF file = "state" THEN new ELSE state
      /\ trusted' = IF file = "state" /\ new.status = "stable" THEN new.artifact ELSE trusted
      /\ UNCHANGED <<slots, challenge, sup, agent, readiness, package>>
  BY DEF Publish
<1>5. SlotTypes'
  BY <1>0, <1>1, <1>2, <1>3, <1>4, Zenon DEF SlotTypes
<1>6. ~Selecting'
  <2>1. Len(Tail(publishing.todo)) \in Nat
    BY <1>2, LenProperties
  <2>2. Tail(publishing.todo) # <<>> =>
          Len(Tail(publishing.todo)) > 0 /\ Head(Tail(publishing.todo)) = Tail(publishing.todo)[1]
    BY <1>2, <2>1, EmptySeq
  <2>3. Tail(publishing.todo) # <<>> => Head(Tail(publishing.todo)) # "state"
    BY <1>2, <2>1, <2>2
  <2> QED BY <1>3, <2>3 DEF Selecting
<1>7. \A i \in 2..Len(publishing'.todo) : publishing'.todo[i] # "state"
  <2>1. Len(Tail(publishing.todo)) \in Nat
    BY <1>2, LenProperties
  <2> QED BY <1>2, <1>3, <2>1
<1>8. CASE file # "state"
  BY <1>0, <1>1, <1>3, <1>4, <1>5, <1>6, <1>7, <1>8, Zenon
     DEF SlotInv, LockSound, SelectionSound, WaitSound, StableIsTrusted, FallbackIsTrusted, At
<1>9. CASE file = "state"
  <2>1. state' = new
    BY <1>4, <1>9
  <2>2. \/ /\ publishing.by = "initialize" /\ state.status = "absent"
           /\ new.status = "stable" /\ ~new.rolledBack
        \/ /\ publishing.by = "activate" /\ state.status = "stable"
           /\ new.status = "pending" /\ ~new.rolledBack /\ new.prior = trusted
        \/ /\ publishing.by = "supervise" /\ state.status = "pending"
           /\ new.status = "pending" /\ new.rolledBack /\ new.artifact = trusted
    BY <1>0, <1>1, <1>9 DEF SelectionSound, Selecting
  <2>3. package.at # "initialize"
    BY <1>0, <1>1 DEF LockSound, Nothing
  <2>4. LockSound'
    BY <1>0, <1>1, <1>3, <1>4, <1>7, <2>1, <2>2, <2>3, Zenon DEF LockSound, At
  <2>5. WaitSound'
    BY <1>0, <1>4, <2>1, <2>2, Zenon DEF WaitSound, At
  <2>6. StableIsTrusted' /\ FallbackIsTrusted'
    BY <1>4, <1>9, <2>1, <2>2 DEF StableIsTrusted, FallbackIsTrusted
  <2> QED BY <1>5, <1>6, <2>4, <2>5, <2>6, Zenon DEF SlotInv, SelectionSound
<1> QED BY <1>8, <1>9

\* The lock is given up: nothing is about to be written.
LEMMA UnlockedKeeps ==
  ASSUME SlotInv, SlotTypes', UNCHANGED <<state, trusted>>, publishing' = Nothing,
         package' \in {package, NoPackage},
         sup' = sup \/ Onward(sup'),
         state.status = "absent" => sup'.path \in {<<>>, <<"recover">>}
  PROVE  SlotInv'
<1>0. SlotTypes /\ LockSound /\ WaitSound
  BY DEF SlotInv
<1>1. WaitSound'
  <2>1. CASE sup' = sup
    BY <1>0, <2>1 DEF WaitSound, At
  <2>2. CASE Onward(sup')
    <3>1. sup'.path \in Seq(Steps)
      BY <2>2 DEF Onward
    <3>2. Len(sup'.path) \in Nat
          /\ (sup'.path # <<>> => Len(sup'.path) > 0 /\ Head(sup'.path) = sup'.path[1])
      BY <3>1, LenProperties, EmptySeq
    <3>3. \A i \in 2..Len(sup'.path) : sup'.path[i] # "check"
      BY <2>2, <3>2 DEF Onward, NoCheck
    <3>4. ~At("check")'
      BY <2>2, <3>2 DEF Onward, NoCheck, At
    <3> QED BY <2>2, <3>3, <3>4 DEF Onward, WaitSound
  <2> QED BY <2>1, <2>2
<1>2. publishing'.by = "nobody" /\ publishing'.todo = <<>>
  BY DEF Nothing
<1>3. LockSound'
  BY <1>0, <1>2 DEF LockSound, NoPackage
<1>4. SelectionSound'
  BY <1>2 DEF SelectionSound, Selecting
<1> QED BY <1>1, <1>3, <1>4 DEF SlotInv, StableIsTrusted, FallbackIsTrusted

LEMMA ReleaseKeeps ==
  ASSUME SlotInv, Published \/ Activated \/ StartSupervisor \/ PowerLoss
  PROVE  SlotInv'
<1>0. SlotTypes /\ LockSound /\ WaitSound
  BY DEF SlotInv
<1>1. UNCHANGED <<state, challenge, trusted, slots>>
  BY DEF Published, Activated, StartSupervisor, PowerLoss, files, history
<1>2. Nothing \in [by : {"nobody", "initialize", "activate", "supervise"}, new : States,
                   todo : Seq({"state", "current", "previous"})]
  BY NoStateTyped, EmptySeq DEF Nothing
<1>3. Onward(Off) /\ Onward(Booting) /\ Booting.path = <<"recover">>
  <2>1. <<"recover">> \in Seq(Steps) /\ NoCheck(<<"recover">>) /\ ~Waits(<<"recover">>)
    BY DEF Steps, NoCheck, Waits
  <2> QED BY <1>0, <2>1, NoStateTyped, OnwardFrom DEF Onward, Booting
<1>4. NoPackage \in [at : {"idle", "binary", "manifest", "initialize", "initializing"},
                     target : Slots, release : Releases]
  BY DEF NoPackage, Slots, Releases
<1>5. Onward(Booting) => Booting \in [path : Seq(Steps), seen : States]
  BY DEF Onward
<1>6. CASE Published
  <2>1. /\ publishing' = Nothing /\ package' \in {package, NoPackage}
        /\ UNCHANGED <<agent, readiness>>
        /\ sup' = sup \/ (publishing.by = "supervise" /\ sup' = [sup EXCEPT !.path = Tail(@)])
    BY <1>6 DEF Published
  <2>2. publishing.by = "supervise" => sup.path # <<>> /\ state.status # "absent"
    BY <1>0 DEF LockSound, At
  <2>3. sup' = sup \/ (Onward(sup') /\ state.status # "absent")
    <3>1. CASE sup' = sup
      BY <3>1
    <3>2. CASE publishing.by = "supervise" /\ sup' = [sup EXCEPT !.path = Tail(@)]
      BY <1>0, <2>2, <3>2, OnwardFrom
    <3> QED BY <2>1, <3>1, <3>2
  <2>4. sup' \in [path : Seq(Steps), seen : States]
    BY <1>0, <2>3, Zenon DEF SlotTypes, Onward
  <2>5. SlotTypes'
    BY <1>0, <1>1, <1>2, <1>4, <2>1, <2>4 DEF SlotTypes
  <2> QED BY <1>0, <1>1, <2>1, <2>3, <2>5, UnlockedKeeps DEF LockSound
<1>7. CASE Activated
  <2>1. /\ publishing' = Nothing /\ package' = package /\ readiness' = NoState
        /\ agent' \in {agent, Started}
        /\ sup' = sup \/ sup' = Booting
    BY <1>7, Zenon DEF Activated
  <2>2. SlotTypes'
    BY <1>0, <1>1, <1>2, <1>3, <1>5, <2>1, NoStateTyped, SMTT(40) DEF SlotTypes, Started, Releases
  <2> QED BY <1>0, <1>1, <1>3, <2>1, <2>2, UnlockedKeeps, Zenon DEF LockSound
<1>8. CASE StartSupervisor
  <2>1. /\ UNCHANGED <<publishing, package, agent, readiness>>
        /\ sup = Off /\ sup' = Booting
    BY <1>8 DEF StartSupervisor
  <2>2. SlotTypes'
    BY <1>0, <1>1, <1>3, <1>5, <2>1, Zenon DEF SlotTypes
  <2>3. publishing.by # "supervise"
    BY <1>0, <2>1 DEF LockSound, At, Off
  <2> QED BY <1>1, <1>3, <2>1, <2>2, <2>3, WalkKeeps, Zenon
<1>9. CASE PowerLoss
  <2>1. /\ publishing' = Nothing /\ package' = NoPackage /\ readiness' = NoState
        /\ agent' = Stopped /\ sup' = Booting
    BY <1>9 DEF PowerLoss
  <2>2. SlotTypes'
    BY <1>0, <1>1, <1>2, <1>3, <1>4, <1>5, <2>1, NoStateTyped, Zenon DEF SlotTypes, Stopped, Releases
  <2> QED BY <1>1, <1>3, <2>1, <2>2, UnlockedKeeps, Zenon
<1> QED BY <1>6, <1>7, <1>8, <1>9

\* Supervise writes the state: it counts a boot, commits or gives up.
LEMMA VerdictKeeps ==
  ASSUME SlotInv, SlotTypes', Unlocked, UNCHANGED <<publishing, package>>,
         state.status = "pending", state'.status # "absent",
         NoCheck(sup'.path), Waits(sup'.path) => state'.status = "pending",
         StableIsTrusted', FallbackIsTrusted'
  PROVE  SlotInv'
<1>0. SlotTypes /\ LockSound
  BY DEF SlotInv
<1>1. publishing.by = "nobody" /\ publishing.todo = <<>>
  BY DEF Unlocked, Nothing
<1>2. sup'.path \in Seq(Steps)
  BY DEF SlotTypes
<1>3. Len(sup'.path) \in Nat
      /\ (sup'.path # <<>> => Len(sup'.path) > 0 /\ Head(sup'.path) = sup'.path[1])
  BY <1>2, LenProperties, EmptySeq
<1>4. \A i \in 2..Len(sup'.path) : sup'.path[i] # "check"
  BY <1>3 DEF NoCheck
<1>5. ~At("check")'
  BY <1>3 DEF NoCheck, At
<1>6. WaitSound'
  BY <1>4, <1>5 DEF WaitSound
<1>7. LockSound'
  BY <1>0, <1>1, Zenon DEF LockSound
<1>8. SelectionSound'
  BY <1>1 DEF SelectionSound, Selecting
<1> QED BY <1>6, <1>7, <1>8 DEF SlotInv

LEMMA RollbackKeeps ==
  ASSUME SlotInv, Unlocked, state.status = "pending",
         NEW then \in Seq(Steps), NoCheck(then), RollbackOrFail(then),
         UNCHANGED <<slots, readiness, package, trusted>>
  PROVE  SlotInv'
<1>0. SlotTypes /\ LockSound /\ WaitSound /\ FallbackIsTrusted /\ state \in States
  BY Zenon DEF SlotInv, SlotTypes
<1>1. publishing.by = "nobody"
  BY DEF Unlocked, Nothing
<1>2. CASE Fail(then)
  <2> DEFINE e == [state EXCEPT !.status = "failed"]
  <2>1. /\ state' = e /\ UNCHANGED <<challenge, publishing>>
        /\ sup' \in {[sup EXCEPT !.path = <<"load">>], Off} /\ agent' \in {agent, Stopped}
    BY <1>2 DEF Fail, Goto, Exit
  <2>2. /\ e \in States /\ e.status = "failed" /\ e.rolledBack = state.rolledBack
        /\ e.artifact = state.artifact
    BY <1>0, StateEdits, StateFields, ZenonT(40)
  <2> HIDE DEF e
  <2>3. /\ sup' \in [path : Seq(Steps), seen : States]
        /\ NoCheck(sup'.path) /\ ~Waits(sup'.path)
    <3>1. CASE sup' = Off
      BY <3>1, ShortPaths, NoStateTyped, Zenon DEF Off
    <3>2. CASE sup' = [sup EXCEPT !.path = <<"load">>]
      <4>1. sup' = [path |-> <<"load">>, seen |-> sup.seen] /\ sup.seen \in States
        BY <1>0, <3>2 DEF SlotTypes
      <4> QED BY <4>1, ShortPaths
    <3> QED BY <2>1, <3>1, <3>2
  <2>4. SlotTypes'
    BY <1>0, <2>1, <2>2, <2>3, NoStateTyped DEF SlotTypes, Stopped, Releases
  <2>5. StableIsTrusted' /\ FallbackIsTrusted'
    BY <1>0, <2>1, <2>2 DEF StableIsTrusted, FallbackIsTrusted
  <2> QED BY <2>1, <2>2, <2>3, <2>4, <2>5, VerdictKeeps
<1>3. CASE ~state.rolledBack /\ state.prior \in Artifacts /\ state.previous \in Slots
           /\ RollbackTo(state.prior, then)
  <2> DEFINE new == [status |-> state.status, generation |-> state.generation + 1,
                     active |-> state.previous, previous |-> state.active,
                     artifact |-> state.prior, prior |-> state.artifact,
                     schema |-> Writes[state.prior], boots |-> 0,
                     rolledBack |-> TRUE, challenge |-> 0]
             todo == <<"state", "previous", "current">>
             path == <<"publishing">> \o then
  <2>1. /\ Publication("supervise", new, todo)
        /\ sup' = [sup EXCEPT !.path = path] /\ UNCHANGED <<state, agent>>
    BY <1>3 DEF RollbackTo, Goto
  <2>2. new \in States
    <3>1. state.generation + 1 \in Nat /\ state.active \in Names /\ state.artifact \in Releases
          /\ state.previous \in Names /\ state.prior \in Releases
      BY <1>0 DEF States
    <3>2. Writes[state.prior] \in Nat /\ 0 \in 0..MaxBootAttempts - 1
      BY <1>3, SlotSupervisorAssumption DEF MaxBootAttempts
    <3> QED BY <3>1, <3>2, Zenon DEF States
  <2>3. todo \in Seq({"state", "current", "previous"}) /\ todo # <<>> /\ Head(todo) = "state"
        /\ \A i \in 2..Len(todo) : todo[i] # "state"
    OBVIOUS
  <2>4. new.status = "pending" /\ new.rolledBack /\ new.artifact = trusted
    BY <1>0, <1>3, Zenon DEF FallbackIsTrusted
  <2>5. /\ path \in Seq(Steps) /\ path # <<>> /\ NoCheck(path)
        /\ Head(path) = "publishing"
    <3>1. Head(<<"publishing">>) = "publishing" /\ <<"publishing">> # <<>>
      OBVIOUS
    <3> QED BY <3>1, ShortPaths, PathConcat, Zenon
  <2> HIDE DEF todo, new, path
  <2>6. /\ challenge' \in Nat
        /\ publishing'.by = "supervise" /\ publishing'.todo = todo
        /\ publishing'.new \in States
        /\ publishing' = [by |-> "supervise", new |-> publishing'.new, todo |-> todo]
        /\ publishing'.new.status = "pending"
        /\ publishing'.new.rolledBack /\ publishing'.new.artifact = trusted
    BY <1>0, <2>1, <2>2, <2>4, PublicationTyped
  <2>7. Onward(sup') /\ At("publishing")'
    <3>1. Onward([sup EXCEPT !.path = path])
      BY <1>0, <2>5, OnwardFrom
    <3>2. sup'.path = path
      BY <1>0, <2>1 DEF SlotTypes
    <3> QED BY <2>1, <2>5, <3>1, <3>2 DEF At
  <2>8. SlotTypes'
    BY <1>0, <2>1, <2>3, <2>6, <2>7 DEF SlotTypes, Onward
  <2>9. SelectionSound'
    BY <1>3, <2>1, <2>6 DEF SelectionSound
  <2> QED BY <2>1, <2>3, <2>6, <2>7, <2>8, <2>9, LockedKeeps
<1>4. CASE Exit /\ UNCHANGED <<state, challenge, publishing, agent>>
  <2>1. Onward(sup')
    BY <1>0, <1>4, OnwardFrom DEF Exit
  <2>2. SlotTypes'
    BY <1>0, <1>4, <2>1, Zenon DEF SlotTypes, Onward
  <2> QED BY <1>1, <1>4, <2>1, <2>2, WalkKeeps
<1> QED BY <1>2, <1>3, <1>4, Zenon DEF RollbackOrFail, Verified

\* Steps of supervise at which nothing is written.
LEMMA GotoKeeps ==
  ASSUME SlotInv, Unlocked,
         \/ Exit
         \/ \E q \in {<<"observe">>, <<"active">>, <<"deadline">>} :
              Goto(q) /\ state.status = "pending",
         UNCHANGED <<slots, state, challenge, publishing, agent, readiness, package, trusted>>
  PROVE  SlotInv'
<1>0. SlotTypes /\ WaitSound /\ publishing.by # "supervise"
  BY DEF SlotInv, Unlocked, Nothing
<1>1. /\ Onward(sup')
      /\ state.status = "pending" \/ sup'.path = <<>>
  <2>1. CASE Exit
    BY <1>0, <2>1, OnwardFrom DEF Exit, Off
  <2>2. ASSUME NEW q \in {<<"observe">>, <<"active">>, <<"deadline">>},
               Goto(q), state.status = "pending"
        PROVE  Onward(sup')
    <3>1. q \in Seq(Steps) /\ NoCheck(q)
      BY ShortPaths, Zenon
    <3>2. Onward([sup EXCEPT !.path = q])
      BY <1>0, <2>2, <3>1, OnwardFrom
    <3> QED BY <2>2, <3>2 DEF Goto
  <2> QED BY <2>1, <2>2
<1>2. SlotTypes'
  BY <1>0, <1>1, Zenon DEF SlotTypes, Onward
<1> QED BY <1>0, <1>1, <1>2, WalkKeeps

LEMMA RecoverKeeps ==
  ASSUME SlotInv, Recover
  PROVE  SlotInv'
<1>0. SlotTypes /\ WaitSound /\ Unlocked
  BY DEF SlotInv, Recover
<1>1. UNCHANGED <<slots, readiness, package, trusted>>
  BY DEF Recover, history
<1>2. CASE Verified(state.active, state.artifact)
  <2> DEFINE todo == <<"current", "previous">>
             path == <<"publishing", "load">>
  <2>1. /\ publishing' = [by |-> "supervise", new |-> state, todo |-> todo]
        /\ sup' = [sup EXCEPT !.path = path] /\ UNCHANGED <<state, challenge, agent>>
    BY <1>2 DEF Recover, Goto
  <2>2. todo \in Seq({"state", "current", "previous"}) /\ Head(todo) # "state"
        /\ \A i \in 2..Len(todo) : todo[i] # "state"
    OBVIOUS
  <2>3. path \in Seq(Steps) /\ path # <<>> /\ NoCheck(path) /\ ~Waits(path)
        /\ Head(path) = "publishing"
    BY DEF Steps, NoCheck, Waits
  <2> HIDE DEF todo, path
  <2>4. Onward(sup') /\ At("publishing")'
    <3>1. Onward([sup EXCEPT !.path = path])
      BY <1>0, <2>3, OnwardFrom
    <3>2. sup'.path = path
      BY <1>0, <2>1 DEF SlotTypes
    <3> QED BY <2>1, <2>3, <3>1, <3>2 DEF At
  <2>5. SlotTypes'
    BY <1>0, <1>1, <2>1, <2>2, <2>4 DEF SlotTypes, Onward
  <2>6. SelectionSound'
    BY <2>1, <2>2 DEF SelectionSound, Selecting
  <2>7. state.status # "absent"
    BY <1>2 DEF SlotInv, LockSound, Verified, NoState, Slots
  <2> QED BY <1>0, <1>1, <2>1, <2>2, <2>4, <2>5, <2>6, <2>7, LockedKeeps
<1>3. CASE ~Verified(state.active, state.artifact) /\ state.status = "pending"
  <2>1. RollbackOrFail(<<"load">>)
    BY <1>3, Zenon DEF Recover
  <2> QED BY <1>0, <1>1, <1>3, <2>1, ShortPaths, RollbackKeeps
<1>4. CASE Exit /\ UNCHANGED <<state, challenge, publishing, agent>>
  BY <1>0, <1>1, <1>4, GotoKeeps
<1> QED BY <1>2, <1>3, <1>4, Zenon DEF Recover

LEMMA WaitingKeeps ==
  ASSUME SlotInv, Observe \/ Active \/ Deadline
  PROVE  SlotInv'
<1>0. SlotTypes /\ LockSound /\ WaitSound /\ FallbackIsTrusted /\ state \in States
  BY Zenon DEF SlotInv, SlotTypes
<1>1. state.status = "pending"
  <2>1. /\ sup.path \in Seq(Steps) /\ sup.path # <<>>
        /\ Head(sup.path) \in {"observe", "active", "deadline"}
    BY <1>0 DEF SlotTypes, Observe, Active, Deadline, At
  <2>2. 1 \in 1..Len(sup.path) /\ sup.path[1] = Head(sup.path)
    BY <2>1, LenProperties, EmptySeq
  <2> QED BY <1>0, <2>1, <2>2 DEF WaitSound, Waits
<1>2. UNCHANGED <<slots, readiness, package>>
  BY DEF Observe, Active, Deadline
<1>3. /\ Launch \o <<"observe">> \in Seq(Steps) /\ NoCheck(Launch \o <<"observe">>)
      /\ Launch \o <<"active">> \in Seq(Steps) /\ NoCheck(Launch \o <<"active">>)
      /\ Launch \o <<"deadline">> \in Seq(Steps) /\ NoCheck(Launch \o <<"deadline">>)
  BY ShortPaths, LaunchPath, Zenon
<1>4. ASSUME Unlocked, UNCHANGED trusted,
             \E q \in {<<"observe">>, <<"active">>, <<"deadline">>} : RollbackOrFail(Launch \o q)
      PROVE  SlotInv'
  BY <1>1, <1>2, <1>3, <1>4, RollbackKeeps, Zenon
<1>5. CASE Observe
  <2>1. CASE Commit
    <3> DEFINE e == [state EXCEPT !.status = "stable", !.boots = 0]
    <3>1. state' = e /\ trusted' = state.artifact /\ sup' = Off
          /\ UNCHANGED <<challenge, publishing, agent>>
      BY <2>1, Zenon DEF Commit, Exit
    <3>2. e \in States /\ e.status = "stable" /\ e.artifact = state.artifact
      BY <1>0, StateEdits, StateFields, Zenon
    <3> HIDE DEF e
    <3>3. /\ sup' \in [path : Seq(Steps), seen : States]
          /\ NoCheck(sup'.path) /\ ~Waits(sup'.path)
      BY <3>1, ShortPaths, NoStateTyped, Zenon DEF Off
    <3>4. SlotTypes'
      BY <1>0, <1>2, <3>1, <3>2, <3>3, Zenon DEF SlotTypes
    <3>5. StableIsTrusted' /\ FallbackIsTrusted'
      BY <3>1, <3>2, Zenon DEF StableIsTrusted, FallbackIsTrusted
    <3> QED BY <1>1, <1>2, <1>5, <3>1, <3>2, <3>3, <3>4, <3>5, VerdictKeeps, Zenon DEF Observe
  <2>2. CASE RollbackOrFail(Launch \o <<"active">>) /\ UNCHANGED trusted
    BY <1>4, <1>5, <2>2, Zenon DEF Observe
  <2>3. CASE /\ UNCHANGED <<state, challenge, publishing, agent, trusted>>
             /\ Exit \/ Goto(<<"active">>)
    BY <1>1, <1>2, <1>5, <2>3, GotoKeeps, Zenon DEF Observe
  <2> QED BY <1>5, <2>1, <2>2, <2>3, Zenon DEF Observe
<1>6. CASE Active
  <2>0. UNCHANGED trusted
    BY <1>6 DEF Active, history
  <2>1. CASE agent.at \notin {"stopped", "failed"}
    <3>1. Goto(<<"deadline">>) /\ UNCHANGED <<state, challenge, publishing, agent>>
      BY <1>6, <2>1, Zenon DEF Active
    <3>2. Onward(sup')
      BY <1>0, <1>1, <3>1, ShortPaths, OnwardFrom, Zenon DEF Goto
    <3>3. SlotTypes'
      BY <1>0, <1>2, <3>1, <3>2, Zenon DEF SlotTypes, Onward
    <3>4. publishing.by # "supervise"
      BY <1>0, <1>6 DEF LockSound, Active, At
    <3> QED BY <1>1, <1>2, <2>0, <3>1, <3>2, <3>3, <3>4, WalkKeeps
  <2>2. CASE agent.at \in {"stopped", "failed"} /\ state.boots + 1 < MaxBootAttempts
    <3> DEFINE e == [state EXCEPT !.boots = @ + 1]
    <3>1. /\ state' = e /\ sup' = [sup EXCEPT !.path = Launch \o <<"deadline">>] /\ Unlocked
          /\ UNCHANGED <<challenge, publishing, agent>>
      BY <1>6, <2>2, Zenon DEF Active, Goto
    <3>2. /\ e \in States /\ e.status = "pending" /\ e.artifact = state.artifact
          /\ e.rolledBack = state.rolledBack /\ e.prior = state.prior
      BY <1>0, <1>1, <2>2, StateEdits, StateFields, ZenonT(40)
    <3> HIDE DEF e
    <3>3. Onward(sup')
      BY <1>0, <1>1, <1>3, <3>1, OnwardFrom, Zenon
    <3>4. SlotTypes'
      BY <1>0, <1>2, <3>1, <3>2, <3>3 DEF SlotTypes, Onward
    <3>5. StableIsTrusted' /\ FallbackIsTrusted'
      BY <1>0, <1>1, <2>0, <3>1, <3>2 DEF StableIsTrusted, FallbackIsTrusted
    <3> QED BY <1>1, <1>2, <3>1, <3>2, <3>3, <3>4, <3>5, VerdictKeeps DEF Onward
  <2>3. CASE Unlocked /\ RollbackOrFail(Launch \o <<"deadline">>)
    BY <1>4, <2>0, <2>3
  <2> QED BY <1>6, <2>1, <2>2, <2>3 DEF Active
<1>7. CASE Deadline
  <2>0. UNCHANGED trusted /\ Unlocked
    BY <1>7, Zenon DEF Deadline, history
  <2>1. CASE RollbackOrFail(Launch \o <<"observe">>)
    BY <1>4, <2>0, <2>1
  <2>2. CASE Goto(<<"observe">>) /\ UNCHANGED <<state, challenge, publishing, agent>>
    BY <1>1, <1>2, <2>0, <2>2, GotoKeeps
  <2> QED BY <1>7, <2>1, <2>2, Zenon DEF Deadline
<1> QED BY <1>5, <1>6, <1>7

LEMMA SlotsStep == SlotInv /\ [Next]_vars => SlotInv'
<1> SUFFICES ASSUME SlotInv, [Next]_vars PROVE SlotInv'
  OBVIOUS
<1>1. CASE UNCHANGED vars
  <2>1. SlotTypes'
    BY <1>1, Zenon DEF SlotInv, SlotTypes, vars
  <2> QED BY <1>1, <2>1, BystanderKeeps DEF vars
<1> QED
  BY <1>1, PackageKeeps, AgentKeeps, WalksKeep, CommandsKeep, PublishKeeps, ReleaseKeeps, Zenon,
     RecoverKeeps, WaitingKeeps DEF Next, Supervise

\* In every reachable state, for every set of releases and any number of
\* installations, activations and power losses: supervise waits for an agent
\* only while the state is pending, although it reads the state without the
\* lock, and what a command is about to write suits the state (slots.rs).
THEOREM SlotInvariant == Spec => []SlotInv
<1> QED BY SlotsInitially, SlotsStep, PTL DEF Spec

\* The release a rollback selects is the one that was stable last, whatever the
\* package script has put into the slots since (rollback_or_fail).
THEOREM FallbacksAreTrusted == Spec => []FallbackIsTrusted
<1>1. SlotInv => FallbackIsTrusted
  BY DEF SlotInv
<1> QED BY <1>1, SlotInvariant, PTL

\* What a step may do to the state file.
LEMMA StateMoves ==
  ASSUME SlotInv, [Next]_vars
  PROVE  \/ state' = state
         \/ Selecting /\ state' = publishing.new /\ contacted' = contacted
         \/ /\ state.status = "pending" /\ contacted' = contacted
            /\ \/ state' = [state EXCEPT !.status = "failed"]
               \/ state' = [state EXCEPT !.boots = @ + 1]
               \/ /\ readiness # NoState /\ Matches
                  /\ state' = [state EXCEPT !.status = "stable", !.boots = 0]
<1>1. CASE Recover \/ Observe \/ Active \/ Deadline
  <2>1. contacted' = contacted
    BY <1>1 DEF Recover, Observe, Active, Deadline, history
  <2>2. ASSUME NEW then, RollbackOrFail(then)
        PROVE  state' = state \/ state' = [state EXCEPT !.status = "failed"]
    BY <2>2 DEF RollbackOrFail, Fail, RollbackTo
  <2>3. CASE Recover
    BY <2>1, <2>2, <2>3 DEF Recover
  <2>4. CASE Observe \/ Active \/ Deadline
    <3>1. state.status = "pending"
      <4>1. /\ sup.path \in Seq(Steps) /\ sup.path # <<>>
            /\ Head(sup.path) \in {"observe", "active", "deadline"}
        BY <2>4 DEF SlotInv, SlotTypes, Observe, Active, Deadline, At
      <4>2. 1 \in 1..Len(sup.path) /\ sup.path[1] = Head(sup.path)
        BY <4>1, LenProperties, EmptySeq
      <4> QED BY <4>1, <4>2, Zenon DEF SlotInv, WaitSound, Waits
    <3>2. CASE Observe
      BY <2>1, <2>2, <3>1, <3>2 DEF Observe, Commit
    <3>3. CASE Active
      BY <2>1, <2>2, <3>1, <3>3 DEF Active
    <3>4. CASE Deadline
      BY <2>1, <2>2, <3>1, <3>4 DEF Deadline
    <3> QED BY <2>4, <3>2, <3>3, <3>4
  <2> QED BY <1>1, <2>3, <2>4
<1>2. CASE Publish
  BY <1>2 DEF Publish, Selecting
<1> QED
  BY <1>1, <1>2, Zenon
     DEF Next, Supervise, PackageBegins, PackageBinary, PackageManifest, Initialize, Activate,
         Published, Activated, Load, Check, Forget, Restart, RestartRefused, AgentVerifies,
         AgentRuns, AgentReports, AgentFails, AgentRestarts, StartSupervisor, TimePasses,
         PowerLoss, files, vars

\* Once a rollback is recorded no restart, crash or failure selects another slot
\* or release until it is committed (rollback_or_fail, recover).
THEOREM RollbacksHappenOnce == Spec => RollsBackOnce
<1>1. ASSUME SlotInv, [Next]_vars,
             state.status \in {"pending", "failed"}, state.rolledBack
      PROVE  state'.active = state.active /\ state'.artifact = state.artifact
  <2>1. state \in States
    BY <1>1 DEF SlotInv, SlotTypes
  <2>2. ~Selecting
    BY <1>1, Zenon DEF SlotInv, SelectionSound
  <2>3. ASSUME NEW e \in {[state EXCEPT !.status = "failed"],
                          [state EXCEPT !.boots = state.boots + 1],
                          [state EXCEPT !.status = "stable", !.boots = 0]}
        PROVE  e.active = state.active /\ e.artifact = state.artifact
    <3>1. /\ [state EXCEPT !.status = "failed"].active = state.active
          /\ [state EXCEPT !.status = "failed"].artifact = state.artifact
      BY <2>1, StateFields
    <3>2. /\ [state EXCEPT !.boots = state.boots + 1].active = state.active
          /\ [state EXCEPT !.boots = state.boots + 1].artifact = state.artifact
      BY <2>1, StateFields
    <3>3. /\ [state EXCEPT !.status = "stable", !.boots = 0].active = state.active
          /\ [state EXCEPT !.status = "stable", !.boots = 0].artifact = state.artifact
      BY <2>1, StateFields
    <3> QED BY <2>3, <3>1, <3>2, <3>3, Zenon
  <2> QED BY <1>1, <2>2, <2>3, StateMoves, Zenon
<1> QED BY <1>1, SlotInvariant, PTL DEF Spec, RollsBackOnce

\* Without a binary that changes between its verification and its execution:
\* what runs is what was verified, and a readiness file was written by an agent
\* that reached the controller.
ReadySound ==
  /\ agent.at = "verified" => slots[agent.is.active].binary = agent.is.artifact
  /\ agent.at = "running" => agent.image = agent.is.artifact
  /\ readiness # NoState => <<readiness.generation, readiness.artifact>> \in contacted

LEMMA ReadyStep ==
  ASSUME ~Substituting, SlotInv, ReadySound, [Next]_vars
  PROVE  ReadySound'
<1>0. SlotTypes
  BY Zenon DEF SlotInv
<1>1. CASE PackageBinary
  <2>1. /\ agent.at = "verified" => agent.is.active # package.target /\ agent.is.active \in Slots
        /\ slots' = [slots EXCEPT ![package.target].binary = package.release]
        /\ UNCHANGED <<agent, readiness, contacted>>
    BY <1>0, <1>1 DEF PackageBinary, SlotTypes, history
  <2>2. agent.at = "verified" => slots'[agent.is.active] = slots[agent.is.active]
    BY <1>0, <2>1 DEF SlotTypes
  <2> QED BY <2>1, <2>2 DEF ReadySound
<1>2. CASE PackageManifest
  <2>1. /\ slots' = [slots EXCEPT ![package.target].manifest = package.release]
        /\ UNCHANGED <<agent, readiness, contacted>>
    BY <1>2 DEF PackageManifest, history
  <2>2. \A s \in Slots : slots'[s].binary = slots[s].binary
    BY <1>0, <2>1 DEF SlotTypes
  <2> QED BY <1>0, <2>1, <2>2 DEF ReadySound, SlotTypes
<1>3. CASE AgentVerifies
  <2>1. UNCHANGED <<slots, readiness, contacted>>
    BY <1>3 DEF AgentVerifies, history
  <2>2. CASE Verified(state.active, state.artifact)
    <3>1. agent' = [agent EXCEPT !.at = "verified", !.is = state]
      BY <1>3, <2>2 DEF AgentVerifies
    <3>2. agent'.at = "verified" /\ agent'.is = state
      BY <1>0, <3>1 DEF SlotTypes
    <3>3. slots[state.active].binary = state.artifact
      BY <2>2 DEF Verified
    <3> QED BY <2>1, <3>2, <3>3 DEF ReadySound
  <2>3. CASE ~Verified(state.active, state.artifact)
    <3>1. agent'.at = "failed"
      BY <1>0, <1>3, <2>3 DEF AgentVerifies, SlotTypes
    <3> QED BY <2>1, <3>1 DEF ReadySound
  <2> QED BY <2>2, <2>3
<1>4. CASE AgentRuns
  <2>1. /\ agent.at = "verified" /\ UNCHANGED <<readiness, contacted>>
        /\ agent' = [agent EXCEPT !.at = "running", !.image = slots[agent.is.active].binary]
    BY <1>4 DEF AgentRuns, history
  <2>2. /\ agent'.at = "running" /\ agent'.is = agent.is
        /\ agent'.image = slots[agent.is.active].binary
    BY <1>0, <2>1 DEF SlotTypes
  <2> QED BY <2>1, <2>2 DEF ReadySound
<1>5. CASE AgentReports
  <2>1. /\ agent.at = "running" /\ agent.is \in States /\ agent.credential \in Nat
        /\ readiness' = [agent.is EXCEPT !.challenge = agent.credential]
        /\ contacted' = contacted \cup {<<agent.is.generation, agent.image>>}
    BY <1>0, <1>5 DEF AgentReports, SlotTypes
  <2>2. agent'.at = "reported"
    BY <1>0, <1>5 DEF AgentReports, SlotTypes
  <2>3. readiness'.generation = agent.is.generation /\ readiness'.artifact = agent.is.artifact
    BY <2>1, StateFields
  <2> QED BY <2>1, <2>2, <2>3 DEF ReadySound
<1>6. CASE AgentFails
  <2>1. agent'.at = "failed" /\ UNCHANGED <<readiness, contacted>>
    BY <1>0, <1>6 DEF AgentFails, SlotTypes, history
  <2> QED BY <2>1 DEF ReadySound
<1>7. ASSUME UNCHANGED <<slots, contacted>>, agent' \in {agent, Started, Stopped},
             readiness' \in {readiness, NoState}
      PROVE  ReadySound'
  BY <1>7 DEF ReadySound, Started, Stopped
<1>8. CASE (\E x \in Artifacts : PackageBegins(x)) \/ Initialize
           \/ (\E s \in Slots, x \in Artifacts : Activate(s, x))
           \/ Publish \/ Published \/ Activated \/ StartSupervisor \/ TimePasses \/ PowerLoss
           \/ AgentRestarts \/ UNCHANGED vars
  BY <1>7, <1>8, Zenon
     DEF PackageBegins, Initialize, Activate, Publish, Published, Activated, StartSupervisor,
         TimePasses, PowerLoss, AgentRestarts, history, vars
<1>9. CASE Supervise
  <2>1. ASSUME NEW then, RollbackOrFail(then) PROVE agent' \in {agent, Stopped}
    BY <2>1 DEF RollbackOrFail, Fail, RollbackTo
  <2> QED
    BY <1>7, <1>9, <2>1
       DEF Supervise, Recover, Load, Check, Forget, Restart, RestartRefused, Observe, Active,
           Deadline, Commit, history
<1> QED BY <1>1, <1>2, <1>3, <1>4, <1>5, <1>6, <1>8, <1>9 DEF Next

LEMMA CommitStep ==
  ASSUME SlotInv, ReadySound, CommittedWasReady, [Next]_vars
  PROVE  CommittedWasReady'
<1>0. state \in States
  BY Zenon DEF SlotInv, SlotTypes
<1>1. contacted \subseteq contacted'
  BY Zenon DEF Next, Supervise, PackageBegins, PackageBinary, PackageManifest, Initialize, Activate,
         Publish, Published, Activated, Recover, Load, Check, Forget, Restart, RestartRefused,
         Observe, Active, Deadline, AgentVerifies, AgentRuns, AgentReports, AgentFails,
         AgentRestarts, StartSupervisor, TimePasses, PowerLoss, history, vars
<1>2. CASE state' = state
  BY <1>1, <1>2 DEF CommittedWasReady
<1>3. CASE Selecting /\ state' = publishing.new /\ contacted' = contacted
  BY <1>3 DEF SlotInv, SelectionSound, CommittedWasReady
<1>4. CASE state.status = "pending" /\ \/ state' = [state EXCEPT !.status = "failed"]
                                       \/ state' = [state EXCEPT !.boots = @ + 1]
  <2>1. /\ [state EXCEPT !.status = "failed"].status = "failed"
        /\ [state EXCEPT !.boots = state.boots + 1].status = state.status
    BY <1>0, StateFields
  <2> QED BY <1>4, <2>1, Zenon DEF CommittedWasReady
<1>5. CASE /\ readiness # NoState /\ Matches /\ contacted' = contacted
           /\ state' = [state EXCEPT !.status = "stable", !.boots = 0]
  <2>1. state'.generation = state.generation /\ state'.artifact = state.artifact
    BY <1>0, <1>5, StateFields
  <2> QED BY <1>5, <2>1 DEF ReadySound, Matches, CommittedWasReady
<1> QED BY <1>2, <1>3, <1>4, <1>5, StateMoves

\* For every set of releases, any number of activations and power losses, and
\* however late a readiness file is written: what observe_readiness commits is a
\* generation whose own agent, running the selected release, has reached the
\* controller. run-agent verifies a path and then executes it; the theorem
\* supposes that the binary is not replaced in between.
THEOREM CommitsWereReady == ~Substituting => (Spec => []CommittedWasReady)
<1> SUFFICES ASSUME ~Substituting PROVE Spec => []CommittedWasReady
  OBVIOUS
<1>1. Init => ReadySound /\ CommittedWasReady
  BY SMTT(40) DEF Init, ReadySound, CommittedWasReady, Stopped, NoState
<1>2. SlotInv /\ ReadySound /\ CommittedWasReady /\ [Next]_vars
        => ReadySound' /\ CommittedWasReady'
  BY ReadyStep, CommitStep
<1> QED BY <1>1, <1>2, SlotInvariant, PTL DEF Spec

=============================================================================
