---------------------------- MODULE AgentDelivery ---------------------------
(***************************************************************************)
(* The Rust node agent against the operation queue                         *)
(* (rust/crates/vonk-agent: main.rs, executor.rs, state.rs, client.rs;     *)
(* control/src/vonk_control: agent_api.py, recipe_operations.py).          *)
(*                                                                         *)
(* The agent runs one recipe operation at a time.  It writes the attempt   *)
(* into a durable journal before it runs the handler, and the result       *)
(* before it reports it; a result stays in the journal until the           *)
(* controller has answered for it.  The agent may be killed at any step,   *)
(* a claim's answer may get lost, and a report may get lost, be processed  *)
(* without the agent learning of it, or be processed after the agent has   *)
(* given up on it.  The agent renews its certificate between two rounds.   *)
(*                                                                         *)
(* The queue is AgentJobs; here it has one node and its operations are     *)
(* recipe operations, all of which mutate the node.                        *)
(***************************************************************************)
EXTENDS AgentJobs

ASSUME DeliveryAssumption == Mutating = Operations /\ Operations \in Capabilities

VARIABLES
  agent,      \* where run_agent is
  hand,       \* the claim the agent works on
  journal,    \* the agent's operations table, by operation
  reports,    \* reports on their way; at most one has an agent waiting for it
  runs,       \* history: how often the handler was run, by attempt
  outcome     \* history: what the handler returned, by attempt

agentVars == <<agent, hand, journal, reports, runs, outcome>>
allVars == <<vars, agentVars>>

HandlerResults == {"succeeded", "failed"}

NoClaim == [op |-> 0, attempt |-> 0, deadline |-> 0]

NoEntry == [attempt |-> 0, state |-> "none", result |-> "none", acked |-> TRUE]

Report(o, late) ==
  [op |-> o, attempt |-> journal'[o].attempt, result |-> journal'[o].result,
   late |-> late]

DeliveryInit ==
  /\ Init
  /\ agent = "down"
  /\ hand = NoClaim
  /\ journal = [o \in Operations |-> NoEntry]
  /\ reports = {}
  /\ runs = [o \in Operations |-> [k \in Attempts |-> 0]]
  /\ outcome = [o \in Operations |-> [k \in Attempts |-> "none"]]

Pending == {o \in Operations : journal[o].state = "completed" /\ ~ journal[o].acked}

\* Nobody waits for the answer any more; the report may still arrive.
Abandoned == {[r EXCEPT !.late = TRUE] : r \in reports}

-----------------------------------------------------------------------------
\* Fault: a restarted agent runs an interrupted operation again.
BootResuming ==
  /\ agent = "down"
  /\ \/ \E o \in Operations :
          /\ journal[o].state = "running"
          /\ agent' = "executing"
          /\ hand' = [op |-> o, attempt |-> journal[o].attempt, deadline |-> 0]
          /\ runs' = [runs EXCEPT ![o][journal[o].attempt] = @ + 1]
     \/ /\ \A o \in Operations : journal[o].state # "running"
        /\ agent' = "ready"
        /\ UNCHANGED <<hand, runs>>
  /\ UNCHANGED <<vars, journal, reports, outcome>>

\* run_agent starts; recover_interrupted settles what the last process left.
Boot ==
  /\ agent = "down"
  /\ agent' = "ready"
  /\ journal' = [o \in Operations |->
       IF journal[o].state = "running"
       THEN [journal[o] EXCEPT !.state = "completed", !.acked = FALSE,
                               !.result = "waiting-for-operator"]
       ELSE journal[o]]
  /\ UNCHANGED <<vars, hand, reports, runs, outcome>>

\* The process dies or exits; what it was waiting for may still be processed.
Crash ==
  /\ agent # "down"
  /\ agent' = "down"
  /\ hand' = NoClaim
  /\ reports' = Abandoned
  /\ UNCHANGED <<vars, journal, runs, outcome>>

\* rotate_if_due, between two rounds of the loop
Renew(n) ==
  /\ agent = "ready"
  /\ RotateCertificate(n)
  /\ UNCHANGED agentVars

\* run_once, first loop: report what the journal still holds.
Resubmit(o) ==
  /\ agent = "ready"
  /\ o \in Pending
  /\ agent' = "reporting"
  /\ hand' = [op |-> o, attempt |-> journal[o].attempt, deadline |-> 0]
  /\ UNCHANGED <<vars, journal, runs, outcome>>
  /\ reports' = reports \cup {Report(o, FALSE)}

\* run_once, client.claim: nothing is claimed before everything is reported.
\* Bound: no lease reaches beyond the end of time.
Poll(n, o, lease) ==
  /\ agent = "ready"
  /\ Pending = {}
  /\ Claim(n, o, Operations, lease)
  /\ current'[o] > current[o] => now + lease <= MaxTime
  /\ \/ /\ current'[o] > current[o]
        /\ agent' = "claimed"
        /\ hand' = [op |-> o, attempt |-> current'[o], deadline |-> deadline'[o]]
     \/ UNCHANGED <<agent, hand>>     \* nothing claimed, or the answer is lost
  /\ UNCHANGED <<journal, reports, runs, outcome>>

\* StateStore.begin: an expired claim and one that is not newer than the
\* journal's entry are errors which end the process (or, for an attempt that
\* is running already, the round); a newer attempt replaces the entry.
Begin ==
  LET o == hand.op
  IN  /\ agent = "claimed"
      /\ IF hand.deadline <= now \/ hand.attempt <= journal[o].attempt
         THEN /\ agent' = "down"
              /\ hand' = NoClaim
              /\ UNCHANGED <<journal, runs>>
         ELSE /\ agent' = "executing"
              /\ journal' = [journal EXCEPT ![o] =
                   [attempt |-> hand.attempt, state |-> "running",
                    result |-> "none", acked |-> FALSE]]
              /\ runs' = [runs EXCEPT ![o][hand.attempt] = @ + 1]
              /\ UNCHANGED hand
      /\ UNCHANGED <<vars, reports, outcome>>

\* RecipeExecutor.execute returns, StateStore.finish stores the result and
\* submit_result sends it.
Execute(result) ==
  LET o == hand.op
  IN  /\ agent = "executing"
      /\ agent' = "reporting"
      /\ outcome' = [outcome EXCEPT ![o][hand.attempt] = result]
      /\ journal' = [journal EXCEPT ![o].state = "completed", ![o].result = result]
      /\ UNCHANGED <<vars, hand, runs>>
      /\ reports' = reports \cup {Report(o, FALSE)}

-----------------------------------------------------------------------------
\* The controller's answer to a report (agent_api.result, record_result and
\* consume_agent_result).  A failed recipe operation is refused, since the
\* agent's report has a reason but no error code; an interrupted one is an
\* unhandled error of the result consumer.
Status(r) ==
  IF ~ ActiveAttempt(r.op, r.attempt) THEN "conflict"
  ELSE IF r.result = "failed" THEN "conflict"
  ELSE IF r.result = "waiting-for-operator" THEN "error"
  ELSE "recorded"

\* The controller processes the report: only a recorded one changes anything.
Process(r) ==
  IF Status(r) = "recorded"
  THEN Finish(r.op, r.attempt, r.result)
  ELSE UNCHANGED vars

\* Fault: a refused report is sent again, like one that met an error.
AnsweredIfRecorded(r) ==
  /\ r \in reports /\ ~ r.late
  /\ Process(r)
  /\ reports' = reports \ {r}
  /\ agent' = "ready"
  /\ hand' = NoClaim
  /\ journal' = IF Status(r) = "recorded"
                THEN [journal EXCEPT ![r.op].acked = TRUE] ELSE journal
  /\ UNCHANGED <<runs, outcome>>

\* The agent gets the answer.  submit_result takes both a recorded and a
\* refused report as delivered, and the journal entry is acknowledged.
Answered(r) ==
  /\ r \in reports /\ ~ r.late
  /\ Process(r)
  /\ reports' = reports \ {r}
  /\ agent' = "ready"
  /\ hand' = NoClaim
  /\ journal' = IF Status(r) # "error"
                THEN [journal EXCEPT ![r.op].acked = TRUE] ELSE journal
  /\ UNCHANGED <<runs, outcome>>

\* Fault: a report that was sent counts as delivered.
TimeoutAcknowledges ==
  /\ agent = "reporting"
  /\ agent' = "ready"
  /\ hand' = NoClaim
  /\ reports' = Abandoned
  /\ journal' = [journal EXCEPT ![hand.op].acked = TRUE]
  /\ UNCHANGED <<vars, runs, outcome>>

\* The agent gets no answer: a retryable error, the round is repeated.
Timeout ==
  /\ agent = "reporting"
  /\ agent' = "ready"
  /\ hand' = NoClaim
  /\ reports' = Abandoned
  /\ UNCHANGED <<vars, journal, runs, outcome>>

\* A report nobody waits for is processed after all, or lost.
LateReport(r) ==
  /\ r \in reports /\ r.late
  /\ Process(r) \/ UNCHANGED vars
  /\ reports' = reports \ {r}
  /\ UNCHANGED <<agent, hand, journal, runs, outcome>>

\* The queue's other actors.
Controller ==
  /\ \/ \E j \in Jobs : OpenParent(j) \/ QuarantineUnlinked(j) \/ ResumeJob(j)
     \/ \E o \in Operations : Enqueue(o) \/ GrantRetry(o)
     \/ Tick
  /\ UNCHANGED agentVars

Agent ==
  \/ Boot
  \/ Crash
  \/ \E n \in Nodes : Renew(n)
  \/ \E o \in Operations : Resubmit(o)
  \/ \E n \in Nodes, o \in Operations, lease \in Leases : Poll(n, o, lease)
  \/ Begin
  \/ \E result \in HandlerResults : Execute(result)
  \/ Timeout

DeliveryNext ==
  \/ Agent
  \/ Controller
  \/ \E r \in reports : Answered(r) \/ LateReport(r)

DeliverySpec == DeliveryInit /\ [][DeliveryNext]_allVars

-----------------------------------------------------------------------------
DeliveryTypeOK ==
  /\ TypeOK
  /\ agent \in {"down", "ready", "claimed", "executing", "reporting"}
  /\ hand \in [op : Operations \cup {0}, attempt : 0..MaxAttempts, deadline : Nat]
  /\ journal \in [Operations ->
       [attempt : 0..MaxAttempts, state : {"none", "running", "completed"},
        result : Results \cup {"none"}, acked : BOOLEAN]]
  /\ reports \subseteq
       [op : Operations, attempt : Attempts, result : Results, late : BOOLEAN]
  /\ runs \in [Operations -> [Attempts -> Nat]]
  /\ outcome \in [Operations -> [Attempts -> HandlerResults \cup {"none"}]]

\* The handler of a fenced attempt is run at most once, and the handler of an
\* operation at most once more than an operator allowed, whatever the agent's
\* restarts, lost claims and lost answers: the journal is written before the
\* handler runs, and an entry found running is settled, not run again.
RunsOnce ==
  \A o \in Operations :
    /\ \A k \in Attempts : runs[o][k] <= 1
    /\ Cardinality({k \in Attempts : runs[o][k] > 0}) <= 1 + grants[o]

\* The controller records an attempt as succeeded only when the handler of that
\* very attempt returned success: no delayed report of another attempt and no
\* interrupted run is taken for it.
SuccessIsReal ==
  \A o \in Operations, k \in Attempts :
    attemptState[o][k] = "succeeded" => outcome[o][k] = "succeeded"

\* The attempt of a journal entry still waits for its result.
Awaited(o) == ActiveAttempt(o, journal[o].attempt)

\* An acknowledged success has reached the controller, or came too late for it:
\* acknowledge is never called for a report that can still be recorded.
SuccessIsRecorded ==
  \A o \in Operations :
    /\ journal[o].state = "completed"
    /\ journal[o].acked
    /\ journal[o].result = "succeeded"
    => ~ Awaited(o)

\* No crash, lost report or late answer invents a success or drops one.
SuccessSound == DeliveryTypeOK /\ SuccessIsReal /\ SuccessIsRecorded

-----------------------------------------------------------------------------
(* The supervisor restarts the agent; a handler ends, since every command  *)
(* and wait in it has a time limit; an agent that is restarted again and   *)
(* again gets to its first report, and to a poll, some time; a report that *)
(* is sent again and again is answered some time; the clock advances.      *)
DeliveryFairness ==
  /\ WF_allVars(Boot)
  /\ WF_allVars(Begin)
  /\ WF_allVars(\E result \in HandlerResults : Execute(result))
  /\ SF_allVars(\E o \in Operations : Resubmit(o))
  /\ SF_allVars(\E r \in reports : Answered(r))
  /\ SF_allVars(\E n \in Nodes, o \in Operations, lease \in Leases : Poll(n, o, lease))
  /\ WF_allVars(Tick /\ UNCHANGED agentVars)

\* A stored result does not block the agent forever: it is acknowledged, even
\* when the controller meets an error with it, because its lease runs out and
\* the report is then refused for good.  Until then the agent claims nothing.
ResultsDrain ==
  \A o \in Operations : []<>(o \notin Pending)

=============================================================================
