--------------------------- MODULE AgentActivation ---------------------------
(***************************************************************************)
(* How a node carries out a signed update or rollback receipt: the agent   *)
(* (vonk_agent/update.py) checks the receipt against its own TUF metadata, *)
(* stages the new executable and writes a request file; a systemd path     *)
(* unit starts the root helper (agent/supervisor/vonk-agent-supervisor),   *)
(* which installs the executable in the inactive slot, burns the receipt   *)
(* and publishes a pending state; its supervise command starts the new     *)
(* agent and commits it, or goes back to the previous slot.                *)
(*                                                                         *)
(* Every file the helper replaces is a step of its own, and the machine    *)
(* may stop between any two.  A release is named by the TUF targets        *)
(* version that published it; release 1 is installed in slot A at first.   *)
(***************************************************************************)
EXTENDS Integers, Sequences, FiniteSets

CONSTANTS MaxPublished,   \* bound: TUF targets versions
          MaxReceipts,    \* bound: receipts control signs for this node
          MaxStops,       \* bound: power losses, killed helpers and failing agents
          TriggerBurst,   \* TriggerLimitBurst of the path units
          MaxBootAttempts \* MAX_BOOT_ATTEMPTS

VARIABLES
    published,  \* the platform's newest targets version
    receipts,   \* the receipts signed so far
    expired,    \* those that are no longer in force
    agent,      \* the agent process: the slot, release, generation and challenge it has
    step,       \* where the agent is in the operation it claimed, and its receipt
    staged,     \* releases whole in update-staging
    partial,    \* a .partial file is left there
    request,    \* activation-request.json and rollback-request.json
    watch,      \* failed triggers of each path unit
    todo,       \* what the helper has still to replace, under the supervisor lock
    doing,      \* the receipt it carries out
    slot,       \* the executable and the identity in each slot
    floor, used,\* authorization-floor.json and the markers of used receipts
    state,      \* state.json
    readiness,  \* readiness.json
    challenge,  \* the challenge in /run
    sup,        \* where supervise is; off: it has ended well, failed: it has not
    late,       \* the activation deadline has passed
    ready,      \* the launches whose agent has reported, with its release
    stops

vars == <<published, receipts, expired, agent, step, staged, partial, request,
          watch, todo, doing, slot, floor, used, state, readiness, challenge, sup,
          late, ready, stops>>

control == <<published, receipts, expired>>
node == <<agent, step, staged, partial>>
files == <<slot, floor, used, state>>

-----------------------------------------------------------------------------
(* The documents. *)

Slots == {"A", "B"}
Other(s) == IF s = "A" THEN "B" ELSE "A"
Releases == 0..MaxPublished
Kinds == {"update", "rollback"}
Inactive == <<0, 0>>

\* A receipt: what it permits, and the state of the node it was signed for.
NoReceipt == [id |-> 0, kind |-> "update", release |-> 0, version |-> 0,
              generation |-> 0, slot |-> "A", source |-> 0]
ReceiptSet == [id : 0..MaxReceipts, kind : Kinds, release : Releases, version : Releases,
               generation : 0..9, slot : Slots, source : Releases]

\* state.json.
StateSet == [generation : 1..9, active : Slots, previous : Slots \cup {"none"},
             digest : [Slots -> Releases], status : {"stable", "pending"},
             attempts : 0..MaxBootAttempts, rolled : BOOLEAN]
InitialState == [generation |-> 1, active |-> "A", previous |-> "none",
                 digest |-> [s \in Slots |-> IF s = "A" THEN 1 ELSE 0],
                 status |-> "stable", attempts |-> 0, rolled |-> FALSE]

\* The agent process, and what it writes when it is ready.
NoAgent == [up |-> "no", slot |-> "A", release |-> 0, generation |-> 0,
            challenge |-> Inactive]
NoReadiness == [slot |-> "A", release |-> 0, generation |-> 0, challenge |-> Inactive]

Init ==
    /\ published = 1 /\ receipts = {} /\ expired = {}
    /\ agent = NoAgent /\ step = [at |-> "idle", receipt |-> NoReceipt]
    /\ staged = {} /\ partial = FALSE
    /\ request = [k \in Kinds |-> NoReceipt] /\ watch = [k \in Kinds |-> 0]
    /\ todo = <<>> /\ doing = NoReceipt
    /\ slot = [s \in Slots |-> [exe |-> IF s = "A" THEN 1 ELSE 0,
                                identity |-> IF s = "A" THEN 1 ELSE 0]]
    /\ floor = 0 /\ used = {} /\ state = InitialState
    /\ readiness = NoReadiness /\ challenge = Inactive
    /\ sup = "start" /\ late = FALSE /\ ready = {} /\ stops = 0

\* A slot holds the release recorded for it: the executable's digest, and the
\* identity beside it.
Opens(s) == slot[s].exe = state.digest[s] /\ state.digest[s] # 0
Identified(s) == slot[s].identity = state.digest[s]
Whole(s) == Opens(s) /\ Identified(s)

-----------------------------------------------------------------------------
(* Control. *)

Publish ==
    /\ published < MaxPublished /\ published' = published + 1
    /\ UNCHANGED <<receipts, expired, node, request, watch, todo, doing, files,
                   readiness, challenge, sup, late, ready, stops>>

\* The agent claims an operation whose receipt was signed for the slot it said
\* it runs from.
Command(k) ==
    /\ agent.up = "yes" /\ step.at = "idle" /\ Cardinality(receipts) < MaxReceipts
    /\ k = "update" => agent.release # published
    /\ LET r == [id |-> Cardinality(receipts) + 1, kind |-> k,
                 release |-> IF k = "update" THEN published ELSE 0,
                 version |-> IF k = "update" THEN published ELSE 0,
                 generation |-> agent.generation, slot |-> agent.slot,
                 source |-> agent.release]
       IN /\ receipts' = receipts \cup {r}
          /\ step' = [at |-> "execute", receipt |-> r]
    /\ UNCHANGED <<published, expired, agent, staged, partial, request, watch, todo,
                   doing, files, readiness, challenge, sup, late, ready, stops>>

Expire ==
    /\ \E r \in receipts : r.id \notin expired /\ expired' = expired \cup {r.id}
    /\ UNCHANGED <<published, receipts, node, request, watch, todo, doing, files,
                   readiness, challenge, sup, late, ready, stops>>

-----------------------------------------------------------------------------
(* The agent: AgentUpdater. *)

agentOther == <<control, agent, request, watch, todo, doing, files, readiness,
                challenge, sup, late, ready, stops>>

\* The receipt fits the node: its metadata are the ones the node's own client
\* has just verified, and the supervisor is stable on the source it names.
Planned(r) ==
    /\ r.version = published
    /\ state.status = "stable"
    /\ r.slot = state.active /\ r.source = state.digest[state.active]
    /\ r.id \notin expired

Failed == [at |-> "idle", receipt |-> NoReceipt]

\* The command is parsed and planned.
Execute ==
    /\ step.at = "execute" /\ step.receipt.kind = "update"
    /\ step' = IF Planned(step.receipt) THEN [step EXCEPT !.at = "apply"] ELSE Failed
    /\ UNCHANGED <<staged, partial, agentOther>>

\* It is planned again, leftovers are removed, and the payload is fetched.
Fetch ==
    /\ step.at = "apply"
    /\ IF Planned(step.receipt)
       THEN /\ step' = [step EXCEPT !.at = "fetched"] /\ partial' = TRUE
       ELSE /\ step' = Failed /\ UNCHANGED partial
    /\ UNCHANGED <<staged, agentOther>>

\* A verified payload gets its final name.
Stage ==
    /\ step.at = "fetched"
    /\ staged' = staged \cup {step.receipt.release} /\ partial' = FALSE
    /\ step' = [step EXCEPT !.at = "staged"]
    /\ UNCHANGED agentOther

\* The request is written in place of any earlier one.
RequestActivation ==
    /\ step.at = "staged" /\ step' = Failed
    /\ request' = IF step.receipt.id \in expired THEN request
                  ELSE [request EXCEPT !["update"] = step.receipt]
    /\ UNCHANGED <<control, agent, staged, partial, watch, todo, doing, files,
                   readiness, challenge, sup, late, ready, stops>>

\* A rollback needs a whole previous slot; the generation is left to the helper.
RequestRollback ==
    /\ step.at = "execute" /\ step.receipt.kind = "rollback" /\ step' = Failed
    /\ request' = IF /\ state.status = "stable" /\ state.previous # "none"
                     /\ step.receipt.slot = state.active
                     /\ step.receipt.source = state.digest[state.active]
                     /\ state.previous # "none" /\ Identified(state.previous)
                  THEN [request EXCEPT !["rollback"] = step.receipt] ELSE request
    /\ UNCHANGED <<control, agent, staged, partial, watch, todo, doing, files,
                   readiness, challenge, sup, late, ready, stops>>

-----------------------------------------------------------------------------
(* The helper: apply-request and apply-rollback-request. *)

\* The signature, the expiry, the metadata floor and the marker.
Authorized(r) == r.id \notin expired /\ r.id \notin used /\ (r.kind = "update" => r.version >= floor)

\* A faulty variant: the status and the generation are not compared.
Matches_Faulty(r) == r.kind = "rollback" => state.previous # "none" /\ Whole(state.previous)

\* The receipt was signed for exactly this state.
Matches(r) ==
    /\ state.status = "stable"
    /\ r.slot = state.active /\ r.source = state.digest[state.active]
    /\ r.generation = state.generation
    /\ r.kind = "rollback" => state.previous # "none" /\ Whole(state.previous)

Program(k) ==
    IF k = "update"
    THEN <<"exe", "identity", "floor", "marker", "state", "request", "restart">>
    ELSE <<"marker", "state", "request", "restart">>

\* The path unit sees the file.  A refused request stays where it is, so the
\* unit triggers again until its trigger limit disables it.
Trigger(k) ==
    /\ request[k] # NoReceipt /\ watch[k] < TriggerBurst /\ todo = <<>>
    /\ sup \notin {"start", "commit", "commit2", "giveup"}
    /\ IF /\ Authorized(request[k]) /\ Matches(request[k]) /\ Opens(state.active)
          /\ k = "update" => request[k].release \in staged
       THEN /\ todo' = Program(k) /\ doing' = request[k] /\ UNCHANGED watch
       ELSE /\ watch' = [watch EXCEPT ![k] = @ + 1] /\ UNCHANGED <<todo, doing>>
    /\ UNCHANGED <<control, node, request, files, readiness, challenge, sup, late,
                   ready, stops>>

\* The trigger interval passes; triggers by a file that stays come faster.
Interval ==
    /\ \E k \in Kinds : /\ watch[k] \in 1..(TriggerBurst - 1) /\ request[k] = NoReceipt
                       /\ watch' = [watch EXCEPT ![k] = 0]
    /\ UNCHANGED <<control, node, request, todo, doing, files, readiness, challenge,
                   sup, late, ready, stops>>

\* The slot a receipt leads to.
Into(r) == IF r.kind = "update" THEN Other(state.active) ELSE state.previous

\* The state an activation starts from.
PendingState(r) ==
    LET s == Into(r)
    IN [state EXCEPT !.generation = @ + 1, !.previous = state.active, !.active = s,
                     !.digest[s] = IF r.kind = "update" THEN r.release ELSE @,
                     !.attempts = 0, !.status = "pending", !.rolled = FALSE]

\* One file of the program, or the restart at its end, which ends a supervise
\* that runs.  The agent's unit is PartOf it: a running agent is restarted too.
Replace ==
    /\ todo # <<>> /\ todo' = Tail(todo)
    /\ slot' = CASE Head(todo) = "exe" -> [slot EXCEPT ![Into(doing)].exe = doing.release]
                 [] Head(todo) = "identity" ->
                        [slot EXCEPT ![Into(doing)].identity = doing.release]
                 [] OTHER -> slot
    /\ floor' = IF Head(todo) = "floor" /\ doing.version > floor THEN doing.version ELSE floor
    /\ used' = IF Head(todo) = "marker" THEN used \cup {doing.id} ELSE used
    /\ state' = IF Head(todo) = "state" THEN PendingState(doing) ELSE state
    /\ late' = (Head(todo) # "state" /\ late)
    /\ request' = IF Head(todo) = "request" /\ request[doing.kind] = doing
                  THEN [request EXCEPT ![doing.kind] = NoReceipt] ELSE request
    /\ IF Head(todo) = "restart"
       THEN /\ sup' = "start" /\ step' = Failed /\ doing' = NoReceipt
            /\ agent' = IF agent.up = "no" THEN agent ELSE [NoAgent EXCEPT !.up = "starting"]
       ELSE UNCHANGED <<sup, agent, step, doing>>
    /\ UNCHANGED <<control, staged, partial, watch, readiness, challenge, ready, stops>>

-----------------------------------------------------------------------------
(* The helper: supervise. *)

supOther == <<control, staged, partial, request, watch, todo, doing, slot, floor,
              used, ready, stops>>

\* _rollback: back to the previous slot, if it is whole; supervise raises if not.
RollsBack ==
    IF state.previous # "none" /\ Whole(state.previous)
    THEN /\ state' = [state EXCEPT !.active = state.previous, !.previous = state.active,
                                   !.status = "stable", !.attempts = 0, !.rolled = TRUE]
         /\ sup' = "rolled"
    ELSE sup' = "failed" /\ UNCHANGED state

\* The state says what supervise has to do.
SuperviseStart ==
    /\ sup = "start" /\ todo = <<>>
    /\ \/ /\ state.status = "stable"
          /\ agent' = IF Whole(state.active) /\ agent.up = "no"
                      THEN [NoAgent EXCEPT !.up = "starting"] ELSE agent
          /\ sup' = IF Whole(state.active) THEN "off" ELSE "failed"
          /\ UNCHANGED state
       \/ /\ state.status = "pending" /\ UNCHANGED agent
          /\ ~Whole(state.active) \/ state.attempts >= MaxBootAttempts \/ late
          /\ RollsBack
       \/ /\ Whole(state.active) /\ state.status = "pending"
          /\ state.attempts < MaxBootAttempts /\ ~late
          /\ state' = [state EXCEPT !.attempts = @ + 1]
          /\ sup' = "stop" /\ UNCHANGED agent
    /\ UNCHANGED <<step, readiness, challenge, late, supOther>>

\* The old agent is stopped ...
SuperviseStop ==
    /\ sup = "stop" /\ sup' = "launch"
    /\ agent' = NoAgent /\ step' = Failed
    /\ UNCHANGED <<state, readiness, challenge, late, supOther>>

\* ... what it wrote is cleared, and the new one gets a fresh challenge.
SuperviseLaunch ==
    /\ sup = "launch" /\ sup' = "poll"
    /\ readiness' = NoReadiness
    /\ challenge' = <<state.generation, state.attempts>>
    /\ agent' = [NoAgent EXCEPT !.up = "starting"]
    /\ UNCHANGED <<step, state, late, supOther>>

\* The running process is the executable of the active slot.
CandidateRuns == agent.up = "yes" /\ agent.slot = state.active /\ agent.release = slot[state.active].exe

\* A report for this very launch, by the process that runs.
Reported ==
    /\ readiness.challenge = challenge /\ readiness.generation = state.generation
    /\ readiness.slot = state.active /\ readiness.release = state.digest[state.active]
    /\ Opens(state.active) /\ CandidateRuns

SupervisePoll ==
    /\ sup = "poll" /\ readiness' = NoReadiness
    /\ sup' = CASE readiness # NoReadiness /\ Reported -> "commit"
                [] agent.up = "failed" \/ late -> "giveup"
                [] OTHER -> "poll"
    /\ sup' = "poll" => readiness # NoReadiness
    /\ UNCHANGED <<agent, step, state, challenge, late, supOther>>

\* The process is looked at again under the lock; then the challenge is used up.
SuperviseCommit ==
    /\ sup = "commit" /\ todo = <<>>
    /\ \/ /\ Opens(state.active) /\ CandidateRuns
          /\ challenge' = Inactive /\ sup' = "commit2" /\ UNCHANGED state
       \/ ~Opens(state.active) /\ RollsBack /\ UNCHANGED challenge
       \/ Opens(state.active) /\ ~CandidateRuns /\ RollsBack /\ challenge' = Inactive
    /\ UNCHANGED <<agent, step, readiness, late, supOther>>

SuperviseStable ==
    /\ sup = "commit2" /\ sup' = "off"
    /\ state' = [state EXCEPT !.status = "stable", !.attempts = 0]
    /\ UNCHANGED <<agent, step, readiness, challenge, late, supOther>>

SuperviseGivesUp ==
    /\ sup = "giveup" /\ todo = <<>> /\ challenge' = Inactive
    /\ RollsBack
    /\ UNCHANGED <<agent, step, readiness, late, supOther>>

\* After a rollback the agent is restarted, and supervise answers 1.
SuperviseRestarts ==
    /\ sup = "rolled" /\ sup' = "failed"
    /\ agent' = [NoAgent EXCEPT !.up = "starting"] /\ step' = Failed
    /\ UNCHANGED <<state, readiness, challenge, late, supOther>>

-----------------------------------------------------------------------------
(* systemd, the agent process and the machine. *)

procOther == <<control, staged, partial, request, watch, todo, doing, files,
               challenge, sup>>

\* run-agent: the active slot's verified executable, whatever the status.
RunAgent ==
    /\ agent.up = "starting" /\ todo = <<>>
    /\ agent' = IF Whole(state.active)
                THEN [up |-> "yes", slot |-> state.active,
                      release |-> state.digest[state.active],
                      generation |-> state.generation, challenge |-> challenge]
                ELSE [NoAgent EXCEPT !.up = "failed"]
    /\ UNCHANGED <<step, readiness, late, ready, stops, procOther>>

\* The agent reports once it is connected, and only when it has a challenge.
AgentReady ==
    /\ agent.up = "yes" /\ agent.challenge # Inactive
    /\ readiness' = [slot |-> agent.slot, release |-> agent.release,
                     generation |-> agent.generation, challenge |-> agent.challenge]
    /\ readiness' # readiness
    /\ ready' = ready \cup {<<agent.challenge, agent.release>>}
    /\ UNCHANGED <<agent, step, late, stops, procOther>>

AgentFails ==
    /\ agent.up = "yes" /\ stops < MaxStops /\ stops' = stops + 1
    /\ agent' = [NoAgent EXCEPT !.up = "failed"] /\ step' = Failed
    /\ UNCHANGED <<readiness, late, ready, procOther>>

AgentRestarts ==
    /\ agent.up = "failed" /\ agent' = [NoAgent EXCEPT !.up = "starting"]
    /\ UNCHANGED <<step, readiness, late, ready, stops, procOther>>

DeadlinePasses ==
    /\ state.status = "pending" /\ ~late /\ late' = TRUE
    /\ UNCHANGED <<agent, step, readiness, ready, stops, procOther>>

\* The helper is killed: its request is still there.
HelperKilled ==
    /\ todo # <<>> /\ stops < MaxStops /\ stops' = stops + 1
    /\ todo' = <<>> /\ doing' = NoReceipt
    /\ UNCHANGED <<control, node, request, watch, files, readiness, challenge, sup,
                   late, ready>>

\* supervise is killed, or a systemctl or a file of its next step fails and it
\* raises.  Its unit is oneshot without Restart=: nothing starts it again, and the
\* agent is left as it is.
SuperviseFails ==
    /\ sup \notin {"off", "failed"} /\ stops < MaxStops /\ stops' = stops + 1
    /\ sup' = "failed"
    /\ UNCHANGED <<control, node, request, watch, todo, doing, files, readiness,
                   challenge, late, ready>>

\* Except that the package helper, which the agent wakes through its socket,
\* Requires= the unit.
PackageHelperStarts ==
    /\ agent.up = "yes" /\ sup = "failed" /\ sup' = "start"
    /\ UNCHANGED <<control, node, request, watch, todo, doing, files, readiness,
                   challenge, late, ready, stops>>

\* A power loss empties /run; the units start again.
PowerLoss ==
    /\ stops < MaxStops /\ stops' = stops + 1
    /\ agent' = NoAgent /\ step' = Failed
    /\ request' = [k \in Kinds |-> NoReceipt] /\ watch' = [k \in Kinds |-> 0]
    /\ todo' = <<>> /\ doing' = NoReceipt
    /\ readiness' = NoReadiness /\ challenge' = Inactive /\ sup' = "start"
    /\ UNCHANGED <<control, staged, partial, files, late, ready>>

\* A step of supervise.
Supervise ==
    \/ SuperviseStart \/ SuperviseStop \/ SuperviseLaunch \/ SupervisePoll
    \/ SuperviseCommit \/ SuperviseStable \/ SuperviseGivesUp \/ SuperviseRestarts

Next ==
    \/ Publish \/ (\E k \in Kinds : Command(k)) \/ Expire
    \/ Execute \/ Fetch \/ Stage \/ RequestActivation \/ RequestRollback
    \/ (\E k \in Kinds : Trigger(k)) \/ Interval \/ Replace
    \/ Supervise
    \/ RunAgent \/ AgentReady \/ AgentFails \/ AgentRestarts \/ DeadlinePasses
    \/ HelperKilled \/ SuperviseFails \/ PackageHelperStarts \/ PowerLoss

\* systemd runs what was started, and the deadline of an activation passes.
Fairness ==
    /\ WF_vars(Replace) /\ WF_vars(\E k \in Kinds : Trigger(k))
    /\ WF_vars(Supervise) /\ WF_vars(RunAgent) /\ WF_vars(DeadlinePasses)

Spec == Init /\ [][Next]_vars /\ Fairness

-----------------------------------------------------------------------------
(* Properties. *)

TypeOK ==
    /\ published \in 1..MaxPublished /\ receipts \subseteq ReceiptSet
    /\ expired \subseteq 1..MaxReceipts
    /\ agent \in [up : {"no", "starting", "yes", "failed"}, slot : Slots,
                  release : Releases, generation : 0..9, challenge : (0..9) \X (0..9)]
    /\ step \in [at : {"idle", "execute", "apply", "fetched", "staged"},
                 receipt : ReceiptSet]
    /\ staged \subseteq Releases /\ partial \in BOOLEAN
    /\ request \in [Kinds -> ReceiptSet] /\ watch \in [Kinds -> 0..TriggerBurst]
    /\ todo \in Seq({"exe", "identity", "floor", "marker", "state", "request", "restart"})
    /\ doing \in ReceiptSet
    /\ slot \in [Slots -> [exe : Releases, identity : Releases]]
    /\ floor \in Releases /\ used \subseteq 1..MaxReceipts /\ state \in StateSet
    /\ readiness \in [slot : Slots, release : Releases, generation : 0..9,
                      challenge : (0..9) \X (0..9)]
    /\ challenge \in (0..9) \X (0..9)
    /\ sup \in {"off", "failed", "start", "stop", "launch", "poll", "commit", "commit2", "giveup", "rolled"}
    /\ ready \subseteq (((0..9) \X (0..9)) \X Releases)
    /\ late \in BOOLEAN /\ stops \in 0..MaxStops

\* Wherever the helper is stopped, the slot the node would start from is whole,
\* and so is the one an activation would go back to.
AlwaysBoots ==
    /\ Whole(state.active)
    /\ state.status = "pending" => Whole(state.previous)

\* An activation is committed only if the candidate itself reported, in the
\* launch that is committed: no report of an earlier launch, an earlier
\* generation or another release counts.
CommittedRan ==
    [][ state.status = "pending" /\ state'.status = "stable" /\ ~state'.rolled
        => << <<state.generation, state.attempts>>, state.digest[state.active]>> \in ready
      ]_vars

\* A receipt moves the node's state at most once, and from no other state than
\* the one it was signed for, over crashes, repeated triggers and rollbacks.
MovesOnce ==
    [][ state'.generation # state.generation
        => /\ state'.generation = state.generation + 1
           /\ doing.generation = state.generation /\ doing.id \in used
           /\ state.status = "stable" ]_vars

\* An activation is pending and no supervise runs that would end it.
Unsupervised == state.status = "pending" /\ sup \in {"off", "failed"} /\ todo = <<>>

\* Activations end, in a commit or a rollback.  The one exception needs a
\* failure: supervise was killed or raised, or the helper was stopped between
\* publishing the state and restarting the supervisor; then the activation stays
\* pending until something starts the unit again.
ActivationEnds == []<>(state.status = "stable") \/ <>[](Unsupervised /\ stops > 0)

\* A request is taken away, or its refusals have disabled the path unit that
\* watches for it (and for every later one).
RequestEnds ==
    \A k \in Kinds : []<>(request[k] = NoReceipt) \/ <>[](watch[k] = TriggerBurst)
=============================================================================
