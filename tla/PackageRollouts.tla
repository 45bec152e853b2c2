--------------------------- MODULE PackageRollouts ---------------------------
(***************************************************************************)
(* The rollout of one workload package to the nodes of a deployment:       *)
(* package_rollouts.py (the operation graph of every node, the persisted   *)
(* rollout and its advance), package_rollout_worker.py (which rollout is   *)
(* advanced, and when) and the operator's rollback of package_services.py. *)
(*                                                                         *)
(* The operations travel through the agent queue.  What the queue does to  *)
(* the job above them matters here: agent_jobs.py closes the parent job as *)
(* soon as every operation it has so far is terminal, and refuses a new    *)
(* operation beneath a closed parent.  `via' says how operations end:      *)
(* "queue" is that production path, "direct" is the boundary the rollout's *)
(* own tests use, which end an operation without touching its parent.      *)
(*                                                                         *)
(* `serving' is what a node really runs: the predecessor, the new release, *)
(* or nothing.                                                             *)
(***************************************************************************)
EXTENDS Naturals, Sequences, FiniteSets, SequencesExt

CONSTANTS
    NodeOrder,   \* the target nodes in the order of their identifiers
    Priors,      \* the observations a plan may be resolved from: [Targets -> Prior]
    Boundaries,  \* a subset of {"queue", "direct"}
    Outcomes,    \* how an operation may end: a subset of OperationEnds
    MaxApplies   \* how often the operator's rollback may be applied

VARIABLES
    via,      \* how operations end
    prior,    \* per node, what the fleet showed when the plan was resolved
    rollout,  \* the PackageRollout row: its state and current batch
    job,      \* the state of the parent job
    node,     \* the PackageRolloutNode rows, each with its current operation
    queue,    \* per node, the operations the queue still has to deliver
    serving,  \* per node, what runs
    revert    \* the operator's rollback: its plan, its step and its applications

vars == <<via, prior, rollout, job, node, queue, serving, revert>>

Targets == ToSet(NodeOrder)
Canary == NodeOrder[1]

Prior == {"none", "same", "old"}
Forward == {"prepare", "stop", "activate", "health"}
Kinds == Forward \cup {"rollback"}
OperationEnds == {"succeeded", "failed", "waiting-for-operator"}
Broken == {"failed", "waiting-for-operator"}
TerminalParent == {"succeeded", "failed", "waiting-for-operator"}
AdvanceStates == {"planned", "running", "rolling-back"}

RolloutRow == [state : {"absent", "planned", "running", "rolling-back", "rolled-back",
                        "waiting-for-operator", "completed"},
               batch : {0, 1}]
NodeRow == [state : {"pending", "preparing", "activating", "health-checking", "accepted",
                     "failed", "rolling-back", "rolled-back"},
            op : Kinds \cup {"none"},
            end : OperationEnds \cup {"none", "queued"},
            done : SUBSET Kinds]

(***************************************************************************)
(* The operation graph of one node.                                        *)
(***************************************************************************)

\* _package_graph: a node that already runs the release is only checked; one
\* with a predecessor also stops it.  The dependencies of a node's operations
\* make a chain, and _topological lists the operations in its order.
Graph(p) == CASE p = "same" -> <<"health">>
              [] p = "none" -> <<"prepare", "activate", "health">>
              [] p = "old"  -> <<"prepare", "stop", "activate", "health">>

Dependencies(p, k) ==
    CASE k = "prepare"  -> {}
      [] k = "stop"     -> {"prepare"}
      [] k = "activate" -> IF p = "old" THEN {"prepare", "stop"} ELSE {"prepare"}
      [] k = "health"   -> IF p = "same" THEN {} ELSE {"activate"}

\* _next_operation: the first operation of the node's graph that is not
\* accepted and whose dependencies are.
NextOperation(p, done) ==
    LET ready == SelectSeq(Graph(p),
                           LAMBDA k : k \notin done /\ Dependencies(p, k) \subseteq done)
    IN  IF ready = <<>> THEN "none" ELSE Head(ready)

\* The rollback payload a plan records for a node with another predecessor.
HasPredecessor(n) == prior[n] = "old"

\* The first node is the canary, alone in its batch.
BatchOf(n) == IF n = Canary THEN 0 ELSE 1
Batch(b) == SelectSeq(NodeOrder, LAMBDA n : BatchOf(n) = b)

(***************************************************************************)
(* Creating a rollout.                                                     *)
(***************************************************************************)

Init ==
    /\ via \in Boundaries
    /\ prior \in Priors
    /\ rollout = [state |-> "absent", batch |-> 0]
    /\ job = "absent"
    /\ node = [n \in Targets |-> [state |-> "pending", op |-> "none", end |-> "none", done |-> {}]]
    /\ queue = [n \in Targets |-> <<>>]
    /\ serving = [n \in Targets |-> CASE prior[n] = "none" -> "nothing"
                                    [] prior[n] = "same" -> "new"
                                    [] prior[n] = "old"  -> "old"]
    /\ revert = [plan |-> "planned", step |-> "idle", applies |-> 0]

\* create: the job and the rows of the rollout in one transaction.  A second
\* create of the same plan digest finds the row and returns it.
Create ==
    /\ rollout.state = "absent"
    /\ rollout' = [rollout EXCEPT !.state = "planned"]
    /\ job' = "running"
    /\ UNCHANGED <<via, prior, node, queue, serving, revert>>

(***************************************************************************)
(* advance: one transaction over the nodes of the current batch, in order. *)
(* Its state travels in a record; `raised' says enqueue_in_session refused *)
(* an operation beneath a closed parent, which undoes the transaction.     *)
(***************************************************************************)

\* enqueue_in_session beneath the rollout's job.
Enqueue(t, n, kind, state) ==
    IF t.job \in TerminalParent
    THEN [t EXCEPT !.raised = TRUE]
    ELSE [t EXCEPT !.node[n].op = kind, !.node[n].end = "queued", !.node[n].state = state,
                   !.queue[n] = Append(@, <<"rollout", kind>>), !.queued = TRUE]

WorkingState(kind) == CASE kind = "activate" -> "activating"
                        [] kind = "health"   -> "health-checking"
                        [] OTHER             -> "preparing"

\* The tail of advance's loop: the next operation of the node's graph, or the
\* node is accepted.
Proceed(t, n) ==
    LET next == NextOperation(prior[n], t.node[n].done)
    IN  CASE t.node[n].state \in {"accepted", "failed", "rolled-back"} -> t
          [] OTHER -> IF next = "none" THEN [t EXCEPT !.node[n].state = "accepted"]
                                       ELSE Enqueue(t, n, next, WorkingState(next))

\* A succeeded operation is accepted; a succeeded rollback ends the rollout.
Accept(t, n) ==
    LET k == t.node[n].op
        s == [t EXCEPT !.node[n].done = @ \cup {k}]
    IN  IF k = "rollback"
        THEN [s EXCEPT !.node[n].state = "rolled-back", !.rollout.state = "rolled-back",
                       !.job = "failed"]
        ELSE Proceed(s, n)

\* A broken activation or health check is answered by the recorded rollback,
\* anything else by the operator.
Break(t, n) ==
    IF t.node[n].op \in {"activate", "health"} /\ HasPredecessor(n)
    THEN LET s == Enqueue(t, n, "rollback", "rolling-back")
         IN  IF s.raised THEN s ELSE [s EXCEPT !.rollout.state = "rolling-back"]
    ELSE [t EXCEPT !.node[n].state = "failed", !.rollout.state = "waiting-for-operator",
                   !.job = "waiting-for-operator"]

\* One node of advance's loop, by the state of its current operation.
AdvanceNode(t, n) ==
    CASE t.raised                                 -> t
      [] ~t.raised /\ t.node[n].end = "queued"    -> t
      [] ~t.raised /\ t.node[n].end = "succeeded" -> Accept(t, n)
      [] ~t.raised /\ t.node[n].end \in Broken    -> Break(t, n)
      [] ~t.raised /\ t.node[n].end = "none"      -> Proceed(t, n)

\* A faulty variant: the walk does not stop at the current batch.
Walked_Faulty(b) == NodeOrder

\* The nodes an advance walks.
Walked(b) == Batch(b)

\* The rollout's state after the loop.
Concluded(t) ==
    LET b == t.rollout.batch
        accepted == \A n \in ToSet(Batch(b)) : t.node[n].state = "accepted"
    IN  CASE t.raised -> t
          [] ~t.raised /\ t.queued ->
                 IF t.rollout.state = "rolling-back" THEN t ELSE [t EXCEPT !.rollout.state = "running"]
          [] ~t.raised /\ ~t.queued /\ accepted ->
                 IF \E n \in Targets : BatchOf(n) > b
                 THEN [t EXCEPT !.rollout = [state |-> "planned", batch |-> b + 1]]
                 ELSE [t EXCEPT !.rollout.state = "completed", !.job = "succeeded"]
          [] ~t.raised /\ ~t.queued /\ ~accepted -> t

Advanced ==
    Concluded(FoldLeft(AdvanceNode,
                       [rollout |-> rollout, job |-> job, node |-> node, queue |-> queue,
                        queued |-> FALSE, raised |-> FALSE],
                       Walked(rollout.batch)))

\* PackageRolloutWorker._candidates and _ready.
Ready ==
    /\ rollout.state \in AdvanceStates
    /\ \/ rollout.state = "planned"
       \/ \E n \in ToSet(Batch(rollout.batch)) :
              node[n].state # "accepted" /\ node[n].end \in OperationEnds \cup {"none"}

\* tick: a ready rollout is advanced.  When enqueue_in_session raises, the
\* transaction is undone and the worker process dies with the exception; the
\* restarted process ticks again.
Tick ==
    /\ Ready
    /\ \E t \in {Advanced} :
           IF t.raised
           THEN UNCHANGED <<rollout, job, node, queue>>
           ELSE /\ rollout' = t.rollout
                /\ job' = t.job
                /\ node' = t.node
                /\ queue' = t.queue
    /\ UNCHANGED <<via, prior, serving, revert>>

(***************************************************************************)
(* The queue and the node.                                                 *)
(***************************************************************************)

\* What a node may run after an operation ended: the package engine of the
\* node agent.  A failed activation restores the predecessor if it still
\* finds one, and a failed rollback may have stopped what ran.
Effect(n, kind, end) ==
    CASE kind = "stop" /\ end = "succeeded"     -> {"nothing"}
      [] kind = "stop" /\ end # "succeeded"     -> {serving[n], "nothing"}
      [] kind = "activate" /\ end = "succeeded" -> {"new"}
      [] kind = "activate" /\ end # "succeeded" -> {serving[n], "new", "nothing"}
      [] kind = "rollback" /\ end = "succeeded" -> {"old"}
      [] kind = "rollback" /\ end # "succeeded" -> {serving[n], "nothing"}
      [] OTHER                                  -> {serving[n]}

\* _aggregate_parent: once every operation of the job so far is terminal the
\* job takes the worst of their states.
Aggregated(rows) ==
    LET ends == {rows[n].end : n \in {m \in Targets : rows[m].op # "none"}}
    IN  CASE "queued" \in ends -> job
          [] "queued" \notin ends /\ "failed" \in ends -> "failed"
          [] "queued" \notin ends /\ "failed" \notin ends /\ "waiting-for-operator" \in ends ->
                 "waiting-for-operator"
          [] OTHER -> "succeeded"

\* The node ends the operation at the head of its queue.
Finish(n) ==
    /\ queue[n] # <<>>
    /\ LET owner == Head(queue[n])[1]
           kind == Head(queue[n])[2]
       IN  \E end \in Outcomes :
               /\ (kind = "rollback" /\ end = "succeeded") => HasPredecessor(n)
               /\ (kind = "health" /\ end = "succeeded") => serving[n] = "new"
               /\ serving' \in {[serving EXCEPT ![n] = v] : v \in Effect(n, kind, end)}
               /\ node' = IF owner = "rollout" THEN [node EXCEPT ![n].end = end] ELSE node
               /\ job' = IF owner = "rollout" /\ via = "queue" THEN Aggregated(node') ELSE job
    /\ queue' = [queue EXCEPT ![n] = Tail(@)]
    /\ UNCHANGED <<via, prior, rollout, revert>>

(***************************************************************************)
(* The operator's rollback of package_services.py: three transactions, and *)
(* a plan that is applied once unless the process dies in between.         *)
(***************************************************************************)

\* _rollback_inputs: the rollout has a predecessor and is not in a state the
\* service takes to be active.
Revertible ==
    /\ \E n \in Targets : HasPredecessor(n)
    /\ rollout.state \notin {"absent", "planned", "rolling-back"}

\* rollback, first: the plan is consumed and one operation queued per node.
QueueRevert ==
    /\ revert.step = "idle"
    /\ revert.plan \in {"planned", "applying"}
    /\ revert.applies < MaxApplies
    /\ Revertible
    /\ queue' = [n \in Targets |-> Append(queue[n], <<"operator", "rollback">>)]
    /\ revert' = [plan |-> "applying", step |-> "queued", applies |-> revert.applies + 1]
    /\ UNCHANGED <<via, prior, rollout, job, node, serving>>

\* then the rollout is marked, whatever it has become meanwhile,
MarkRevert ==
    /\ revert.step = "queued"
    /\ rollout' = [rollout EXCEPT !.state = "rolling-back"]
    /\ revert' = [revert EXCEPT !.step = "marked"]
    /\ UNCHANGED <<via, prior, job, node, queue, serving>>

\* and the plan is finished.
FinishRevert ==
    /\ revert.step = "marked"
    /\ revert' = [revert EXCEPT !.plan = "applied", !.step = "idle"]
    /\ UNCHANGED <<via, prior, rollout, job, node, queue, serving>>

\* The process dies between two of these transactions.
CrashRevert ==
    /\ revert.step # "idle"
    /\ revert' = [revert EXCEPT !.step = "idle"]
    /\ UNCHANGED <<via, prior, rollout, job, node, queue, serving>>

Next ==
    \/ Create
    \/ Tick
    \/ \E n \in Targets : Finish(n)
    \/ QueueRevert
    \/ MarkRevert
    \/ FinishRevert
    \/ CrashRevert

\* What the worker and the nodes do by themselves.
Work == Create \/ Tick \/ \E n \in Targets : Finish(n)

\* The worker ticks for ever, and an operation the queue holds is ended at the
\* latest by its deadline and the queue's sweep.  No step is ever undone, so
\* one condition on all of this work is as strong as one per process.
Spec == Init /\ [][Next]_vars /\ WF_vars(Work)

(***************************************************************************)
(* Properties.                                                             *)
(***************************************************************************)

\* The types of the rollout's rows and of what runs on the nodes.
TypeOK ==
    /\ rollout \in RolloutRow
    /\ job \in {"absent", "running"} \cup TerminalParent
    /\ node \in [Targets -> NodeRow]
    /\ serving \in [Targets -> {"old", "new", "nothing"}]
    /\ \A n \in Targets : ToSet(queue[n]) \subseteq {"rollout", "operator"} \X Kinds
    /\ revert \in [plan : {"planned", "applying", "applied"},
                   step : {"idle", "queued", "marked"}, applies : 0 .. MaxApplies]

\* No other node is touched before the canary has passed its health check:
\* the batches of PackageRolloutOrchestrator.create and the walk of advance.
CanaryFirst ==
    \A n \in Targets \ {Canary} : node[n].op # "none" => node[Canary].state = "accepted"

\* What _package_graph says of its own fence: as long as the operator queues
\* nothing, no failure to fetch, to admit, to trust or to materialize the
\* replacement takes the predecessor away.  It is the whole of what the graph
\* keeps: the stop comes before the activation, so a node serves nothing while
\* the replacement is activated and checked.
StoppedOnlyPrepared ==
    \A n \in Targets :
        (prior[n] = "old" /\ serving[n] # "old" /\ revert.applies = 0) => "prepare" \in node[n].done

\* A completed rollout serves the new release on every node, unless the
\* operator has queued a rollback beside it.
CompletedMeansServing ==
    (rollout.state = "completed" /\ revert.applies = 0) => \A n \in Targets : serving[n] = "new"

\* A node recorded as rolled back serves its predecessor, unless the operator
\* has queued a rollback beside the rollout's own.
RolledBackMeansOld ==
    \A n \in Targets : (node[n].state = "rolled-back" /\ revert.applies = 0) => serving[n] = "old"

\* The worker never loses a rollout: when it finds nothing to advance and the
\* queue holds nothing for the nodes, the rollout has ended where the operator
\* sees it.  The one other way to rest is the operator's own rollback, which
\* marks the rollout "rolling-back" and queues operations it never looks at.
NeverForgotten ==
    (rollout.state # "absent" /\ ~Ready /\ \A n \in Targets : queue[n] = <<>>) =>
        \/ rollout.state \in {"completed", "rolled-back", "waiting-for-operator"}
        \/ rollout.state = "rolling-back" /\ revert.applies > 0

=============================================================================
