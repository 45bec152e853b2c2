---------------------------- MODULE NodeAttempts ----------------------------
(***************************************************************************)
(* The Python node agent's loop: Agent and _ActiveHeartbeat (main.py), the *)
(* registry of operations (operations.py), the attempts table (state.py),  *)
(* and the calls of AgentClient (client.py).                               *)
(*                                                                         *)
(* The main thread recovers or claims an attempt, executes it and submits  *)
(* its result; a second thread sends heartbeats while the attempt is       *)
(* active and stores the deadline and the cancellation the control plane   *)
(* answers with.  Both use the same row.  Calls get lost before or after   *)
(* the control plane has handled them, the process dies or ends itself at  *)
(* any step, and systemd starts it again.                                  *)
(*                                                                         *)
(* The control plane is reduced to one job: the queue itself is AgentJobs. *)
(***************************************************************************)
EXTENDS Naturals

CONSTANTS
    Kinds,      \* the operations the job may be: a subset of AllKinds
    MaxTime,    \* the clock's last value
    Lease,      \* the length of a lease
    Attempts,   \* attempts the control plane makes
    MaxFaults   \* lost calls and crashes

VARIABLES
    now,        \* wall clock
    kind,       \* the operation of the job
    job,        \* the control plane's view of the job
    row,        \* the agent's attempts table: the row of the latest attempt
    main,       \* the main thread: its step and its claim
    beat,       \* the heartbeat thread
    effect,     \* what the handler of the attempt has done to the node
    history,    \* how often the effect was completed, and the recorded result
    faults      \* lost calls and crashes so far

vars == <<now, kind, job, row, main, beat, effect, history, faults>>

AllKinds == {"probe", "update", "workload", "package"}
Results == {"succeeded", "failed", "waiting-for-operator"}
Times == 0 .. (MaxTime + Lease)

\* A claim: the attempt with its fence, and the deadline of its lease.
Claim == [attempt : 0 .. Attempts, deadline : Times]
NoClaim == [attempt |-> 0, deadline |-> 0]

\* AgentAttemptRecord; the latest progress is its deadline and its cancellation.
AttemptRecord == [attempt : 0 .. Attempts, state : {"none", "active"} \cup Results, claimed : Times,
                  deadline : Times, cancel : BOOLEAN, acknowledged : BOOLEAN]
NoRecord == [attempt |-> 0, state |-> "none", claimed |-> 0, deadline |-> 0, cancel |-> FALSE, acknowledged |-> TRUE]

MainSteps == {"stopped", "idle", "poll", "execute", "inspect", "begin", "handler", "return", "joining", "submit"}
MainThread == [pc : MainSteps, claim : Claim, bound : Times, result : {"none"} \cup Results, raises : BOOLEAN]
BeatThread == [pc : {"off", "sleep", "sent", "failed", "rejected"}, deadline : Times]

Init ==
    /\ now = 0
    /\ kind \in Kinds
    /\ job = [state |-> "queued", attempt |-> 0, deadline |-> 0, cancel |-> FALSE, result |-> "none"]
    /\ row = NoRecord
    /\ main = [pc |-> "stopped", claim |-> NoClaim, bound |-> 0, result |-> "none", raises |-> FALSE]
    /\ beat = [pc |-> "off", deadline |-> 0]
    /\ effect = "none"
    /\ history = [completed |-> 0, lost |-> FALSE]
    /\ faults = 0

Fault == faults < MaxFaults /\ faults' = faults + 1
NoFault == UNCHANGED faults

-----------------------------------------------------------------------------
(* The control plane, as the agent sees it.                                *)

Leased(attempt) == job.state = "leased" /\ job.attempt = attempt /\ now < job.deadline

Tick ==
    /\ now < MaxTime
    /\ now' = now + 1
    /\ UNCHANGED <<kind, job, row, main, beat, effect, history, faults>>

\* A lease that ran out: a probe is queued again, anything else waits for the
\* operator.
Expire ==
    /\ job.state = "leased"
    /\ now >= job.deadline
    /\ job' = [job EXCEPT !.state = IF kind = "probe" THEN "queued" ELSE "waiting"]
    /\ UNCHANGED <<now, kind, row, main, beat, effect, history, faults>>

\* An operator cancels.
Cancel ==
    /\ job.state = "leased"
    /\ job' = [job EXCEPT !.cancel = TRUE]
    /\ UNCHANGED <<now, kind, row, main, beat, effect, history, faults>>

-----------------------------------------------------------------------------
(* Agent.run_once.                                                         *)

To(step) == main' = [main EXCEPT !.pc = step]

\* systemd starts the agent; build_agent opens the same state.
Boot ==
    /\ main.pc = "stopped"
    /\ To("idle")
    /\ UNCHANGED <<now, kind, job, row, beat, effect, history, faults>>

\* A pending result first, then an active attempt, then a new claim.
RunOnce ==
    /\ main.pc = "idle"
    /\ \/ /\ row.state \in Results /\ ~row.acknowledged
          /\ To("submit")
       \/ /\ row.state = "active"
          /\ main' = [main EXCEPT !.pc = "execute", !.claim = [attempt |-> row.attempt, deadline |-> row.claimed]]
       \/ /\ row.acknowledged
          /\ To("poll")
    /\ UNCHANGED <<now, kind, job, row, beat, effect, history, faults>>

\* AgentClient.claim.  The answer may be lost after the lease was given.
Poll ==
    /\ main.pc = "poll"
    /\ \/ /\ job.state = "queued" /\ job.attempt < Attempts
          /\ job' = [job EXCEPT !.state = "leased", !.attempt = @ + 1, !.deadline = now + Lease]
          /\ \/ NoFault /\ main' = [main EXCEPT !.pc = "execute", !.claim = [attempt |-> job'.attempt, deadline |-> now + Lease]]
             \/ Fault /\ To("idle")
       \/ /\ job.state # "queued"
          /\ To("idle") /\ UNCHANGED job /\ NoFault
    /\ UNCHANGED <<now, kind, row, beat, effect, history>>

\* _execute, up to the registry: the deadline is the latest one stored, bound
\* to the monotonic clock unless it has passed.
Exact == row.attempt = main.claim.attempt
Execute ==
    /\ main.pc = "execute"
    /\ LET latest == IF Exact THEN row.deadline ELSE main.claim.deadline
       IN main' = [main EXCEPT !.pc = IF Exact THEN "inspect" ELSE "begin", !.bound = IF latest > now THEN latest ELSE 0]
    /\ beat' = IF Exact THEN [pc |-> "sleep", deadline |-> 0] ELSE beat
    /\ UNCHANGED <<now, kind, job, row, effect, history, faults>>

\* The process ends with an exception: the heartbeat thread is joined first.
Raise == main' = [main EXCEPT !.pc = "joining", !.raises = TRUE]

\* AgentStateStore.finish, then the heartbeat is stopped.
Finish(result) ==
    /\ row' = [row EXCEPT !.state = result, !.acknowledged = FALSE]
    /\ main' = [main EXCEPT !.pc = "joining", !.result = result]

\* _inspect_request: what is known of an attempt that was cut off.  Release and
\* workload operations return evidence of a completed one, package operations
\* do not.
Inspections ==
    CASE kind = "probe" -> {"safe-to-retry"}
      [] kind = "update" -> {"operator-intervention"}
      [] effect = "none" -> {"operator-intervention"}
      [] effect = "begun" -> {"safe-to-retry", "compensate", "operator-intervention"}
      [] OTHER -> IF kind = "workload" THEN {"completed"} ELSE {"completed without evidence"}

\* OperationRegistry.execute for an attempt that is already in the table.
Inspect ==
    /\ main.pc = "inspect"
    /\ \E disposition \in Inspections :
         \/ /\ disposition = "completed" /\ Finish("succeeded")
         \/ /\ disposition \in {"compensate", "operator-intervention"} /\ Finish("waiting-for-operator")
         \/ /\ disposition = "completed without evidence" /\ Raise /\ UNCHANGED row
         \/ /\ disposition = "safe-to-retry"
            /\ IF main.bound > now THEN To("handler") /\ UNCHANGED row ELSE Finish("failed")
    /\ UNCHANGED <<now, kind, job, beat, effect, history, faults>>

\* The checks of AgentStateStore.begin: attempts only rise, and the latest one
\* is resolved.
Fresh(claim) == claim.attempt > row.attempt /\ row.acknowledged

\* begin: a claim whose deadline has passed is not begun.
Begin ==
    /\ main.pc = "begin"
    /\ \/ /\ main.bound > now
          /\ Fresh(main.claim)
          /\ row' = [attempt |-> main.claim.attempt, state |-> "active", claimed |-> main.claim.deadline,
                     deadline |-> main.claim.deadline, cancel |-> FALSE, acknowledged |-> FALSE]
          /\ effect' = "none"
          /\ To("handler")
          /\ beat' = [pc |-> "sleep", deadline |-> 0]
          /\ history' = [history EXCEPT !.completed = 0]
       \/ /\ main.bound <= now \/ ~Fresh(main.claim)
          /\ Raise
          /\ UNCHANGED <<row, effect, beat, history>>
    /\ UNCHANGED <<now, kind, job, faults>>

\* _execute_request: the handler works on the node, completes, or fails.
Handle ==
    /\ main.pc = "handler"
    /\ \/ effect = "none" /\ effect' = "begun" /\ UNCHANGED <<main, history>>
       \/ /\ effect # "none"
          /\ effect' = "done"
          /\ history' = [history EXCEPT !.completed = @ + 1]
          /\ main' = [main EXCEPT !.pc = "return", !.result = "succeeded"]
       \/ /\ main' = [main EXCEPT !.pc = "return", !.result = "failed"]
          /\ UNCHANGED <<effect, history>>
    /\ UNCHANGED <<now, kind, job, row, beat, faults>>

Return ==
    /\ main.pc = "return"
    /\ Finish(main.result)
    /\ UNCHANGED <<now, kind, job, beat, effect, history, faults>>

\* There is no heartbeat thread.
Silent == [pc |-> "off", deadline |-> 0]

\* _ActiveHeartbeat.stop: the thread is joined.  Its error is raised in the main
\* thread: a transport error sends the loop round again, any other one, or a
\* thread that does not end in time, ends the process.
Join ==
    /\ main.pc = "joining"
    /\ main' = [main EXCEPT !.raises = FALSE, !.result = "none",
                           !.pc = CASE beat.pc \in {"sent", "rejected"} -> "stopped"
                                    [] beat.pc = "failed" -> "idle"
                                    [] OTHER -> IF main.raises THEN "stopped" ELSE "submit"]
    /\ beat' = Silent
    /\ UNCHANGED <<now, kind, job, row, effect, history, faults>>

\* Whether the answer to a result arrived.
Answered(got) == got

\* _submit: the control plane takes the result of a live lease and answers 409
\* to any other; both acknowledge it.  The call, or its answer, may be lost.
Submit ==
    /\ main.pc = "submit"
    /\ \E arrives \in BOOLEAN, got \in BOOLEAN :
         /\ got => arrives
         /\ IF got THEN NoFault ELSE Fault
         /\ job' = IF arrives /\ Leased(row.attempt) THEN [job EXCEPT !.state = "done", !.result = row.state] ELSE job
         /\ history' = [history EXCEPT !.lost = @ \/ (Answered(got) /\ ~arrives)]
         /\ row' = IF Answered(got) THEN [row EXCEPT !.acknowledged = TRUE] ELSE row
    /\ To("idle")
    /\ UNCHANGED <<now, kind, beat, effect>>

\* The process dies.
Crash ==
    /\ main.pc # "stopped"
    /\ Fault
    /\ main' = [main EXCEPT !.pc = "stopped", !.raises = FALSE, !.result = "none"]
    /\ beat' = [pc |-> "off", deadline |-> 0]
    /\ UNCHANGED <<now, kind, job, row, effect, history>>

-----------------------------------------------------------------------------
(* _ActiveHeartbeat._run.                                                  *)

\* The interval is over and the attempt has no result: a heartbeat is sent.
Send ==
    /\ beat.pc = "sleep"
    /\ \/ /\ row.state = "active" /\ main.pc # "joining"
          /\ beat' = [pc |-> "sent", deadline |-> row.deadline]
       \/ /\ row.state # "active"
          /\ beat' = [pc |-> "off", deadline |-> 0]
    /\ UNCHANGED <<now, kind, job, row, main, effect, history, faults>>

\* A faulty variant: an answer is stored whatever became of the attempt.
Directed_Faulty(deadline, cancel) == [row EXCEPT !.state = "active", !.deadline = deadline, !.cancel = cancel]

\* apply_directive and heartbeat, allow_terminal_race: a result that was stored
\* meanwhile is left alone.
Directed(deadline, cancel) ==
    IF row.state = "active" THEN [row EXCEPT !.deadline = deadline, !.cancel = cancel] ELSE row

\* MonotonicDeadline.extend, of an execution that has one.
Extended(deadline) == IF main.bound > 0 THEN deadline ELSE 0

\* The control plane renews the lease, or rejects the heartbeat; the call or
\* the answer may be lost, which ends the thread.
Response ==
    /\ beat.pc = "sent"
    /\ \/ /\ Leased(row.attempt)
          /\ job' = [job EXCEPT !.deadline = now + Lease]
          /\ \/ /\ NoFault
                /\ row' = Directed(now + Lease, job.cancel)
                /\ beat' = [pc |-> IF row.state = "active" THEN "sleep" ELSE "off", deadline |-> 0]
                /\ main' = IF row.state = "active" THEN [main EXCEPT !.bound = Extended(now + Lease)] ELSE main
             \/ /\ Fault
                /\ beat' = [beat EXCEPT !.pc = "failed"]
                /\ UNCHANGED <<row, main>>
       \/ /\ ~Leased(row.attempt)
          /\ beat' = [beat EXCEPT !.pc = "rejected"]
          /\ UNCHANGED <<job, row, main>> /\ NoFault
       \/ /\ Fault
          /\ beat' = [beat EXCEPT !.pc = "failed"]
          /\ UNCHANGED <<job, row, main>>
    /\ UNCHANGED <<now, kind, effect, history>>

-----------------------------------------------------------------------------
Main == Boot \/ RunOnce \/ Poll \/ Execute \/ Inspect \/ Begin \/ Handle \/ Return \/ Join \/ Submit
Heartbeat == Send \/ Response
Next == Tick \/ Expire \/ Cancel \/ Main \/ Heartbeat \/ Crash

Spec == Init /\ [][Next]_vars

\* Both threads run, time passes, and leases expire.
Fairness == WF_vars(Main) /\ WF_vars(Heartbeat) /\ WF_vars(Tick) /\ WF_vars(Expire)

-----------------------------------------------------------------------------
TypeOK ==
    /\ now \in 0 .. MaxTime
    /\ kind \in AllKinds
    /\ job.deadline \in Times
    /\ row \in AttemptRecord
    /\ main \in MainThread
    /\ beat \in BeatThread
    /\ effect \in {"none", "begun", "done"}
    /\ faults \in 0 .. MaxFaults

\* A mutation that completed is not done again for the same attempt, whatever
\* was lost and however often the agent was restarted; a probe may be.
CompletedOnce == kind # "probe" => history.completed <= 1

\* Success is only reported, and only recorded by the control plane, for an
\* attempt whose handler completed.
SuccessIsReal ==
    /\ row.state = "succeeded" => effect = "done"
    /\ (job.result = "succeeded" /\ job.attempt = row.attempt) => effect = "done"

\* A result that was acknowledged without the control plane having it can only
\* be one the control plane refused: a live lease ends with its result.
NoResultLost == ~history.lost

RowForward ==
    /\ row'.attempt >= row.attempt
    /\ row'.attempt = row.attempt =>
         /\ row.state \in Results => row'.state = row.state
         /\ row'.deadline >= row.deadline
         /\ row.cancel => row'.cancel
         /\ (row.acknowledged /\ row.attempt > 0) => row'.acknowledged
    /\ row'.attempt > row.attempt => row.acknowledged

\* What the heartbeat thread stores never goes back: a result stays a result,
\* deadlines only grow, a cancellation stays, attempts only rise.
RecordsForward == [][RowForward]_vars

\* No heartbeat outlives the execution it belongs to: while the main thread
\* claims, submits or is about to, no heartbeat is on its way.
HeartbeatBounded == beat.pc # "off" => main.pc \in {"inspect", "handler", "return", "joining"}

\* A package operation that was cut off after it had completed.
Wedged == kind = "package" /\ effect = "done" /\ row.state = "active"

\* Every attempt is answered for in the end, except a package operation that
\* was cut off after it had completed.
Resolves == (row.state = "active") ~> (row.acknowledged \/ Wedged)
=============================================================================
