--------------------------- MODULE RecipeGangProofs ---------------------------
(***************************************************************************)
(* Proof that the rows of a gang are backed by what its nodes did          *)
(* (RecipeRuns), for every set of nodes, installations and runs and        *)
(* without a bound on the jobs: a run is routed only after every rank      *)
(* started (GangRouted), and a rank recorded as installed has its files    *)
(* unless an uninstall removed them since (InstalledIsReal).               *)
(*                                                                         *)
(* Why it holds: what a node reported is remembered by the operations of   *)
(* the jobs, which are never forgotten (History).  A run is set running    *)
(* only by the report of its last rank, so every rank of its one start     *)
(* job has succeeded, and only a running run is offered for routing.  A    *)
(* row set to installed is evidence of an install that wrote the files,    *)
(* and only an uninstall taken after that install removes them; the        *)
(* invariant names this uninstall, whose operation may be recorded long    *)
(* after its files are gone.                                               *)
(***************************************************************************)
EXTENDS RecipeRunProofs

(* Gangs.  A step moves at most one operation and queues at most one job.  *)

Taken == OpStates \ {"none", "queued"}

\* The operations after one of them was taken or has ended; it succeeds only if
\* its agent says so.
Moved(ops) ==
  \/ ops = op
  \/ \E k \in 1..Len(jobs), n \in Nodes, v \in Taken :
       /\ ops = [op EXCEPT ![k][n] = v]
       /\ op[k][n] \in {"queued", "running"}
       /\ v = "succeeded" => doing[n].job = k /\ doing[n].result = "succeeded"

\* The queue after that: a start is queued for a new run only.
Grown(ops) ==
  \/ jobs' = jobs /\ op' = ops
  \/ \E job \in JobRows, targets \in SUBSET Nodes :
       /\ jobs' = Append(jobs, job)
       /\ op' = Append(ops, Operations(targets))
       /\ \A r \in Runs : IsStart(job, r) => run[r] = "absent"

\* A queue request, with the operations it finds.
LEMMA QueueGrows ==
  ASSUME NEW ops, NEW kind, NEW owner, NEW targets \in SUBSET Nodes,
         [kind |-> kind, owner |-> owner] \in JobRows,
         kind = "start" => owner \in Runs /\ run[owner] = "absent",
         QueueAfter(ops, kind, owner, targets)
  PROVE  Grown(ops)
<1> DEFINE job == [kind |-> kind, owner |-> owner]
<1>1. \A r \in Runs : IsStart(job, r) => run[r] = "absent"
  BY DEF IsStart
<1>2. jobs' = Append(jobs, job) /\ op' = Append(ops, Operations(targets)) /\ job \in JobRows
  BY DEF QueueAfter
<1> HIDE DEF job
<1> QED
  BY <1>1, <1>2 DEF Grown

\* A result moves the operation that the agent had.
LEMMA ResultMoves ==
  ASSUME IInv, NEW n \in Nodes, NEW k \in DOMAIN jobs, NEW kind, Reported(n, k, kind)
  PROVE  Moved(WithResult(n, k))
<1>1. doing[n].result \in {"succeeded", "failed"} /\ doing[n].job = k
  BY ResultRecorded, Zenon DEF Reported
<1>2. k \in 1..Len(jobs) /\ k # 0
  BY Owners
<1>3. op[k][n] = "running"
  BY <1>1, <1>2, Zenon DEF IInv, Safe, Assigned
<1>4. doing[n].result \in Taken
  BY <1>1 DEF Taken, OpStates
<1> QED
  BY <1>1, <1>2, <1>3, <1>4 DEF Moved, WithResult

LEMMA QueueSteps ==
  ASSUME IInv, [Next]_vars
  PROVE  \E ops : Moved(ops) /\ Grown(ops)
<1>a. \A i \in Installations : NodesOf[i] \in SUBSET Nodes
  BY RecipeRunsAssumption
<1>b. \A r \in Runs : RunNodesOf(r) \in SUBSET Nodes
  BY RecipeRunsAssumption DEF RunNodesOf
<1>c. \A kind \in InstallKinds, i \in Installations : [kind |-> kind, owner |-> i] \in JobRows
  BY DEF JobRows
<1>d. \A kind \in {"start", "stop"}, r \in Runs : [kind |-> kind, owner |-> r] \in JobRows
  BY DEF JobRows
<1>e. Moved(op)
  BY DEF Moved
<1>f. DOMAIN jobs = 1..Len(jobs)
  BY DEF IInv, Safe, Typed
<1>1. ASSUME NEW i \in Installations,
             Install(i) \/ Retry(i) \/ UninstallQueue(i)
      PROVE  Grown(op)
  <2>1. \E kind \in InstallKinds : QueueAfter(op, kind, i, NodesOf[i])
    BY <1>1 DEF Install, Retry, UninstallQueue, InstallKinds
  <2> QED
    BY <2>1, <1>a, <1>c, QueueGrows, Zenon DEF InstallKinds
<1>2. ASSUME NEW r \in Runs, Start(r)
      PROVE  Grown(op)
  BY <1>2, <1>b, <1>d, QueueGrows, Zenon DEF Start
<1>3. ASSUME NEW r \in Runs, StopCommit(r)
      PROVE  Grown(op)
  <2>1. CASE Stoppable(r)
    BY <1>3, <2>1, <1>b, <1>d, QueueGrows, Zenon DEF StopCommit
  <2>2. CASE ~ Stoppable(r)
    BY <1>3, <2>2 DEF StopCommit, Grown
  <2> QED
    BY <2>1, <2>2
<1>4. CASE \/ \E i \in Installations : UninstallCheck(i)
           \/ \E r \in Runs : \/ StopCandidate(r) \/ StopWithdraw(r) \/ StopWithdrawFails(r)
                              \/ StopWithdrawn(r) \/ Age(r)
           \/ Worker \/ WorkerRestart \/ ApiRestart \/ BundleExpires \/ UNCHANGED vars
           \/ \E n \in Nodes : Execute(n) \/ Crash(n) \/ Refused(n)
  <2>1. UNCHANGED <<jobs, op>>
    BY <1>4, Zenon DEF UninstallCheck, StopCandidate, StopWithdraw, StopWithdrawFails, StopWithdrawn,
       Age, Worker, WorkerFails, WorkerCandidate, WorkerPublish, WorkerPublishFails,
       WorkerCheck, WorkerWrite, WorkerRestart, ApiRestart, BundleExpires, vars, queue,
       Execute, Crash, Refused
  <2> QED
    BY <2>1, <1>e DEF Grown
<1>5. ASSUME NEW n \in Nodes, NEW k \in DOMAIN jobs, Claim(n, k) \/ Expire(n, k)
      PROVE  Moved(op') /\ Grown(op')
  <2>1. PICK v \in {"running", "waiting-for-operator"} :
          op' = [op EXCEPT ![k][n] = v] /\ op[k][n] \in {"queued", "running"} /\ jobs' = jobs
    BY <1>5 DEF Claim, Expire, Oldest
  <2>2. v \in Taken /\ v # "succeeded" /\ k \in 1..Len(jobs)
    BY <1>f DEF Taken, OpStates
  <2>3. Moved(op')
    BY <2>1, <2>2, Zenon DEF Moved
  <2> QED
    BY <2>1, <2>3 DEF Grown
<1>6. ASSUME NEW n \in Nodes, NEW k \in DOMAIN jobs, Record(n, k)
      PROVE  Moved(WithResult(n, k)) /\ Grown(WithResult(n, k))
  <2>1. Moved(WithResult(n, k))
    BY <1>6, ResultMoves DEF Record, RecordInstall, RecordStart, RecordStop, RecordUninstall
  <2>2. CASE RecordInstall(n, k) \/ RecordStop(n, k) \/ RecordUninstall(n, k)
    <3>1. op' = WithResult(n, k) /\ jobs' = jobs
      BY <2>2, Zenon DEF RecordInstall, RecordStop, RecordUninstall
    <3> QED
      BY <2>1, <3>1 DEF Grown
  <2>3. CASE RecordStart(n, k)
    <3>1. jobs[k].owner \in Runs
      <4>1. jobs[k].kind = "start"
        BY <2>3 DEF RecordStart, Reported
      <4> QED
        BY <4>1, Owners
    <3>2. \/ op' = WithResult(n, k) /\ jobs' = jobs
          \/ QueueAfter(WithResult(n, k), "stop", jobs[k].owner, RunNodesOf(jobs[k].owner))
      BY <2>3, Zenon DEF RecordStart
    <3>3. CASE op' = WithResult(n, k) /\ jobs' = jobs
      BY <2>1, <3>3 DEF Grown
    <3>4. CASE QueueAfter(WithResult(n, k), "stop", jobs[k].owner, RunNodesOf(jobs[k].owner))
      BY <2>1, <3>1, <3>4, <1>b, <1>d, QueueGrows, Zenon
    <3> QED
      BY <3>2, <3>3, <3>4
  <2> QED
    BY <1>6, <2>1, <2>2, <2>3 DEF Record
<1> QED
  BY <1>e, <1>1, <1>2, <1>3, <1>4, <1>5, <1>6 DEF Next

\* What the queue remembers: jobs stay what they are, an operation that was
\* taken is not untaken, and one that succeeded has; only the agent that has an
\* operation makes it succeed.
History ==
  /\ 1..Len(jobs) \subseteq 1..Len(jobs')
  /\ \A k \in 1..Len(jobs) : jobs'[k] = jobs[k]
  /\ \A k \in 1..Len(jobs), n \in Nodes :
       /\ op[k][n] = "succeeded" => op'[k][n] = "succeeded"
       /\ op[k][n] \in Taken => op'[k][n] \in Taken
  /\ \A k \in 1..Len(jobs'), n \in Nodes :
       op'[k][n] = "succeeded" =>
         /\ k \in 1..Len(jobs)
         /\ op[k][n] = "succeeded" \/ (doing[n].job = k /\ doing[n].result = "succeeded")

\* The operations that moved keep what the queue remembers of them.
Progress(ops) ==
  /\ ops \in Seq([Nodes -> OpStates]) /\ Len(ops) = Len(jobs)
  /\ \A k \in 1..Len(jobs), n \in Nodes :
       /\ op[k][n] = "succeeded" => ops[k][n] = "succeeded"
       /\ op[k][n] \in Taken => ops[k][n] \in Taken
       /\ ops[k][n] = "succeeded" =>
            op[k][n] = "succeeded" \/ (doing[n].job = k /\ doing[n].result = "succeeded")

LEMMA MovesProgress ==
  ASSUME IInv, NEW ops, Moved(ops)
  PROVE  Progress(ops)
<1>1. jobs \in Seq(JobRows) /\ op \in Seq([Nodes -> OpStates]) /\ Len(op) = Len(jobs)
  BY DEF IInv, Safe, Typed
<1>2. CASE ops = op
  BY <1>1, <1>2 DEF Progress
<1>3. ASSUME NEW k \in 1..Len(jobs), NEW n \in Nodes, NEW v \in Taken,
             ops = [op EXCEPT ![k][n] = v],
             op[k][n] \in {"queued", "running"},
             v = "succeeded" => doing[n].job = k /\ doing[n].result = "succeeded"
      PROVE  Progress(ops)
  <2>1. v \in OpStates
    BY DEF Taken
  <2>2. /\ ops \in Seq([Nodes -> OpStates]) /\ Len(ops) = Len(jobs)
        /\ \A j \in 1..Len(jobs), m \in Nodes :
             ops[j][m] = IF j = k /\ m = n THEN v ELSE op[j][m]
    BY <1>1, <1>3, <2>1, ExceptFacts
  <2>3. op[k][n] # "succeeded"
    BY <1>3
  <2>4. ASSUME NEW j \in 1..Len(jobs), NEW m \in Nodes
        PROVE  /\ op[j][m] = "succeeded" => ops[j][m] = "succeeded"
               /\ op[j][m] \in Taken => ops[j][m] \in Taken
               /\ ops[j][m] = "succeeded" =>
                    op[j][m] = "succeeded" \/ (doing[m].job = j /\ doing[m].result = "succeeded")
    <3>1. CASE j = k /\ m = n
      BY <1>3, <2>2, <2>3, <3>1
    <3>2. CASE ~ (j = k /\ m = n)
      BY <2>2, <3>2
    <3> QED
      BY <3>1, <3>2
  <2> QED
    BY <2>2, <2>4 DEF Progress
<1> QED
  BY <1>2, <1>3, Zenon DEF Moved

LEMMA HistoryKept ==
  ASSUME IInv, [Next]_vars
  PROVE  History
<1>1. PICK ops : Moved(ops) /\ Grown(ops)
  BY QueueSteps
<1>2. jobs \in Seq(JobRows) /\ Len(jobs) \in Nat
  BY DEF IInv, Safe, Typed
<1>3. Progress(ops)
  BY <1>1, MovesProgress
<1>4. CASE jobs' = jobs /\ op' = ops
  BY <1>3, <1>4, Zenon DEF History, Progress
<1>5. ASSUME NEW job \in JobRows, NEW targets \in SUBSET Nodes,
             jobs' = Append(jobs, job), op' = Append(ops, Operations(targets))
      PROVE  History
  <2>1. Operations(targets) \in [Nodes -> OpStates]
        /\ \A n \in Nodes : Operations(targets)[n] # "succeeded"
    BY DEF Operations, OpStates
  <2>2. /\ Len(jobs') = Len(jobs) + 1
        /\ \A k \in 1..Len(jobs) : jobs'[k] = jobs[k]
    BY <1>2, <1>5, AppendFacts
  <2>3. /\ \A k \in 1..Len(jobs) : op'[k] = ops[k]
        /\ op'[Len(jobs) + 1] = Operations(targets)
    BY <1>3, <1>5, <2>1, AppendFacts DEF Progress
  <2>4. /\ 1..Len(jobs) \subseteq 1..Len(jobs')
        /\ \A k \in 1..Len(jobs') : k \in 1..Len(jobs) \/ k = Len(jobs) + 1
    BY <1>2, <2>2
  <2>5. \A k \in 1..Len(jobs), n \in Nodes :
          /\ op[k][n] = "succeeded" => op'[k][n] = "succeeded"
          /\ op[k][n] \in Taken => op'[k][n] \in Taken
          /\ op'[k][n] = "succeeded" =>
               op[k][n] = "succeeded" \/ (doing[n].job = k /\ doing[n].result = "succeeded")
    <3> SUFFICES ASSUME NEW k \in 1..Len(jobs), NEW n \in Nodes
                 PROVE  /\ op[k][n] = "succeeded" => op'[k][n] = "succeeded"
                        /\ op[k][n] \in Taken => op'[k][n] \in Taken
                        /\ op'[k][n] = "succeeded" =>
                             op[k][n] = "succeeded" \/ (doing[n].job = k /\ doing[n].result = "succeeded")
      BY Zenon
    <3>1. op'[k][n] = ops[k][n]
      BY <2>3
    <3> QED
      BY <1>3, <3>1 DEF Progress
  <2>6. \A k \in 1..Len(jobs'), n \in Nodes : op'[k][n] = "succeeded" => k \in 1..Len(jobs)
    BY <2>1, <2>3, <2>4, Zenon
  <2> QED
    BY <2>2, <2>4, <2>5, <2>6, Zenon DEF History
<1> QED
  BY <1>1, <1>4, <1>5, Zenon DEF Grown

-----------------------------------------------------------------------------
(* A gang is routed only when every rank has started.                      *)

OneStart ==
  \A j, k \in 1..Len(jobs), r \in Runs :
    IsStart(jobs[j], r) /\ IsStart(jobs[k], r) => j = k

Started(r) ==
  \E k \in 1..Len(jobs) :
    IsStart(jobs[k], r) /\ \A n \in RunNodesOf(r) : op[k][n] = "succeeded"

\* The runs that the bundle routes or may come to route: candidates travel
\* with the worker and with stop requests until they are activated.
Offered == live \cup worker.routes \cup UNION {stopping[r].routes : r \in Runs}

GangInv ==
  /\ OneStart
  /\ \A r \in Runs : run[r] = "running" => Started(r)
  /\ \A r \in Offered : r \in Runs /\ Started(r)

\* A start is queued for a run without one (accept_run_in_session).
LEMMA OneStartKept ==
  ASSUME IInv, OneStart, [Next]_vars
  PROVE  OneStart'
<1>1. PICK ops : Grown(ops)
  BY QueueSteps
<1>2. jobs \in Seq(JobRows) /\ Len(jobs) \in Nat
  BY DEF IInv, Safe, Typed
<1>3. CASE jobs' = jobs
  BY <1>3 DEF OneStart
<1>4. ASSUME NEW job \in JobRows, jobs' = Append(jobs, job),
             \A r \in Runs : IsStart(job, r) => run[r] = "absent"
      PROVE  OneStart'
  <2>1. /\ Len(jobs') = Len(jobs) + 1 /\ jobs'[Len(jobs) + 1] = job
        /\ \A k \in 1..Len(jobs) : jobs'[k] = jobs[k]
    BY <1>2, <1>4, AppendFacts
  <2>2. \A k \in 1..Len(jobs') : k \in 1..Len(jobs) \/ k = Len(jobs) + 1
    BY <1>2, <2>1
  <2>3. \A k \in 1..Len(jobs), r \in Runs : IsStart(jobs[k], r) => ~ IsStart(job, r)
    BY <1>4, Zenon DEF IInv, Safe, Known
  <2> QED
    BY <2>1, <2>2, <2>3, Zenon DEF OneStart
<1> QED
  BY <1>1, <1>3, <1>4 DEF Grown

\* A run that was started everywhere remains so.
LEMMA StartedKept ==
  ASSUME IInv, [Next]_vars, NEW r \in Runs, Started(r)
  PROVE  Started(r)'
<1>1. PICK k \in 1..Len(jobs) :
        IsStart(jobs[k], r) /\ \A n \in RunNodesOf(r) : op[k][n] = "succeeded"
  BY DEF Started
<1>2. \A n \in RunNodesOf(r) : n \in Nodes
  BY RecipeRunsAssumption DEF RunNodesOf
<1>3. k \in 1..Len(jobs') /\ jobs'[k] = jobs[k]
      /\ \A n \in RunNodesOf(r) : op'[k][n] = "succeeded"
  BY <1>1, <1>2, HistoryKept, Zenon DEF History
<1> QED
  BY <1>1, <1>3 DEF Started, RunNodesOf

\* A run becomes "running" on the success of its last rank
\* (_project_node_result).
LEMMA RunningStarts ==
  ASSUME IInv, [Next]_vars, NEW r \in Runs, run[r] # "running", run'[r] = "running"
  PROVE  Started(r)'
<1>0. run \in [Runs -> RunStates]
  BY DEF IInv, Safe, Typed
<1>1. PICK n \in Nodes, k \in DOMAIN jobs : RecordStart(n, k)
  <2>1. CASE \E i \in Runs : Start(i) \/ StopCommit(i)
    <3>1. PICK i \in Runs : run' = [run EXCEPT ![i] = "starting"] \/ run' = [run EXCEPT ![i] = "stopping"]
                              \/ run' = run
      BY <2>1 DEF Start, StopCommit
    <3> QED
      BY <1>0, <3>1
  <2>2. CASE \E n \in Nodes, k \in DOMAIN jobs : RecordStop(n, k)
    <3>1. PICK n \in Nodes, k \in DOMAIN jobs : RecordStop(n, k)
      BY <2>2
    <3>2. jobs[k].owner \in Runs
      <4>1. jobs[k].kind = "stop"
        BY <3>1 DEF RecordStop, Reported
      <4> QED
        BY <4>1, Owners
    <3>3. run' \in {run, [run EXCEPT ![jobs[k].owner] = "stopped"],
                    [run EXCEPT ![jobs[k].owner] = "failed"]}
      BY <1>0, <3>1, <3>2, Zenon DEF RecordStop
    <3> QED
      BY <1>0, <3>2, <3>3
  <2>3. CASE \/ \E i \in Installations :
                  Install(i) \/ Retry(i) \/ UninstallCheck(i) \/ UninstallQueue(i)
             \/ \E s \in Runs : \/ StopCandidate(s) \/ StopWithdraw(s) \/ StopWithdrawFails(s)
                                \/ StopWithdrawn(s) \/ Age(s)
             \/ Worker \/ WorkerRestart \/ ApiRestart \/ BundleExpires \/ UNCHANGED vars
             \/ \E n \in Nodes :
                  \/ \E k \in DOMAIN jobs : \/ Claim(n, k) \/ Expire(n, k)
                                            \/ RecordInstall(n, k) \/ RecordUninstall(n, k)
                  \/ Execute(n) \/ Crash(n) \/ Refused(n)
    <3>1. UNCHANGED run
      BY <2>3, Zenon DEF Install, Retry, UninstallCheck, UninstallQueue, StopCandidate,
         StopWithdraw, StopWithdrawFails, StopWithdrawn, Age, Worker, WorkerFails,
         WorkerCandidate, WorkerPublish, WorkerPublishFails, WorkerCheck, WorkerWrite,
         WorkerRestart, ApiRestart, BundleExpires, vars, rows, Claim, Expire, RecordInstall,
         RecordUninstall, Execute, Crash, Refused
    <3> QED
      BY <3>1
  <2> QED
    BY <2>1, <2>2, <2>3, Zenon DEF Next, Record
<1> DEFINE s == jobs[k].owner
           ops == WithResult(n, k)
<1>2. Reported(n, k, "start") /\ jobs[k].kind = "start"
  BY <1>1 DEF RecordStart, Reported
<1>3. s \in Runs /\ k \in 1..Len(jobs) /\ IsStart(jobs[k], s)
  BY <1>2, Owners DEF IsStart
<1>4. \/ run' = run
      \/ run' = [run EXCEPT ![s] = "stopping"]
      \/ /\ run' = [run EXCEPT ![s] = "running"]
         /\ Terminal(ops, k) /\ ~ AnyFailed(ops, k) /\ op' = ops /\ jobs' = jobs
  BY <1>1, Zenon DEF RecordStart
<1>5. Safe(jobs, ops, run, reserved, doing', up) /\ ops[k] \in [Nodes -> OpStates]
  BY <1>2, ResultRecorded
<1> HIDE DEF s, ops
<1>6. s = r /\ Terminal(ops, k) /\ ~ AnyFailed(ops, k) /\ op' = ops /\ jobs' = jobs
  BY <1>0, <1>3, <1>4
<1>7. \A m \in RunNodesOf(s) : m \in Nodes /\ ops[k][m] # "none"
  <2>1. \A m \in RunNodesOf(s) : m \in Nodes
    BY <1>3, RecipeRunsAssumption DEF RunNodesOf
  <2> QED
    BY <1>3, <1>5, <2>1, Zenon DEF Safe, Targeted
<1>8. \A m \in RunNodesOf(s) : ops[k][m] = "succeeded"
  BY <1>6, <1>7, Zenon DEF Terminal, AnyFailed, TerminalOpStates
<1> QED
  BY <1>3, <1>6, <1>8 DEF Started, RunNodesOf

-----------------------------------------------------------------------------
(* The rows are well formed.                                               *)

InstStates == {"absent", "installing", "installed", "partial", "failed", "uninstalled"}
InstNodeStates == {"planned", "installed", "failed", "uninstalled"}
RouteStates == {"withdrawn", "pending", "published", "failed"}
RunNodeStates == {"planned", "running", "stopped", "failed"}
Publications == {NoPublication} \cup
  [at : {"publish", "check", "write"}, run : Runs, routes : SUBSET Runs]
StopRequests == [at : {"idle", "withdraw", "withdrawn", "commit"}, routes : SUBSET Runs]

\* The part of the types that the invariant above says nothing of.
RowsTyped ==
  /\ inst \in [Installations -> InstStates]
  /\ instNode \in [Installations -> [Nodes -> InstNodeStates]]
  /\ route \in [Runs -> RouteStates]
  /\ runNode \in [Runs -> [Nodes -> RunNodeStates]]

BundleTyped ==
  /\ stale \subseteq Runs
  /\ live \subseteq Runs
  /\ worker \in Publications
  /\ stopping \in [Runs -> StopRequests]
  /\ removing \subseteq Installations

DiskTyped ==
  /\ files \in [Installations -> SUBSET Nodes]
  /\ lifecycle \in [Runs -> SUBSET Nodes]

LEMMA Types ==
  ASSUME IInv, RowsTyped, BundleTyped, DiskTyped
  PROVE  TypeOK
<1>1. \A n \in Nodes : doing[n].job \in 0..Len(jobs)
  <2>1. Assigned(op, doing) /\ Len(op) = Len(jobs) /\ Len(jobs) \in Nat
    BY DEF IInv, Safe, Typed
  <2>2. \A n \in Nodes : doing[n].job = 0 \/ doing[n].job \in 1..Len(jobs)
    BY <2>1, Zenon DEF Assigned
  <2> QED
    BY <2>1, <2>2
<1> QED
  BY <1>1 DEF TypeOK, RowsTyped, BundleTyped, DiskTyped, InstStates, InstNodeStates,
     RouteStates, RunNodeStates, Publications, StopRequests, IInv, Safe, Typed, JobRows,
     RunStates, Assignments

\* Who owns an install or an uninstall.
LEMMA InstallOwners ==
  ASSUME IInv, NEW k \in DOMAIN jobs, jobs[k].kind \in InstallKinds
  PROVE  jobs[k].owner \in Installations
<1>1. jobs[k] \in JobRows
  BY Owners
<1> QED
  BY <1>1 DEF JobRows, InstallKinds

LEMMA RowsKept ==
  ASSUME IInv, RowsTyped, BundleTyped, [Next]_vars
  PROVE  RowsTyped'
<1> USE DEF RowsTyped
<1>1. ASSUME NEW i \in Installations, Install(i)
      PROVE  RowsTyped'
  BY <1>1 DEF Install, InstStates
<1>2. ASSUME NEW i \in Installations, Retry(i)
      PROVE  RowsTyped'
  BY <1>2, Zenon DEF Retry, InstStates, InstNodeStates
<1>3. ASSUME NEW r \in Runs, StopWithdrawn(r) \/ StopCommit(r)
      PROVE  RowsTyped'
  <2>1. UNCHANGED <<inst, instNode, runNode>>
    BY <1>3 DEF StopWithdrawn, StopCommit
  <2>2. route' \in {route, [route EXCEPT ![r] = "withdrawn"]}
    BY <1>3 DEF StopWithdrawn, StopCommit
  <2> QED
    BY <2>1, <2>2, Zenon DEF RouteStates
<1>4. ASSUME NEW r \in Runs, WorkerFails(r)
      PROVE  RowsTyped'
  BY <1>4 DEF WorkerFails, RouteStates
<1>5. CASE WorkerPublishFails \/ WorkerCheck \/ WorkerWrite
  <2>1. worker.run \in Runs
    BY <1>5 DEF BundleTyped, Publications, NoPublication, WorkerPublishFails, WorkerCheck, WorkerWrite
  <2>2. UNCHANGED <<inst, instNode, runNode>>
    BY <1>5 DEF WorkerPublishFails, WorkerCheck, WorkerWrite
  <2>3. route' \in {route, [route EXCEPT ![worker.run] = "failed"],
                    [route EXCEPT ![worker.run] = "published"]}
    BY <1>5, <2>1 DEF WorkerPublishFails, WorkerCheck, WorkerWrite
  <2> QED
    BY <2>1, <2>2, <2>3, Zenon DEF RouteStates
<1>6. ASSUME NEW n \in Nodes, NEW k \in DOMAIN jobs, RecordInstall(n, k) \/ RecordUninstall(n, k)
      PROVE  RowsTyped'
  <2> DEFINE i == jobs[k].owner
  <2>1. i \in Installations
    <3>1. jobs[k].kind \in InstallKinds
      BY <1>6, Zenon DEF RecordInstall, RecordUninstall, Reported, InstallKinds
    <3> QED
      BY <3>1, InstallOwners
  <2>2. UNCHANGED <<run, route, runNode>>
    BY <1>6 DEF RecordInstall, RecordUninstall
  <2>3. \E v \in InstNodeStates : instNode' = [instNode EXCEPT ![i][n] = v]
    BY <1>6, Zenon DEF RecordInstall, RecordUninstall, InstNodeStates
  <2>4. \E v \in InstStates : inst' = [inst EXCEPT ![i] = v] \/ inst' = [inst EXCEPT ![i] = inst[i]]
    BY <1>6, Zenon DEF RecordInstall, RecordUninstall, InstStates
  <2> HIDE DEF i
  <2>5. inst[i] \in InstStates
    BY <2>1
  <2>6. inst' \in [Installations -> InstStates]
    BY <2>1, <2>4, <2>5
  <2>7. instNode' \in [Installations -> [Nodes -> InstNodeStates]]
    BY <2>1, <2>3
  <2> QED
    BY <2>2, <2>6, <2>7
<1>7. ASSUME NEW n \in Nodes, NEW k \in DOMAIN jobs, RecordStart(n, k) \/ RecordStop(n, k)
      PROVE  RowsTyped'
  <2> DEFINE r == jobs[k].owner
  <2>1. r \in Runs
    <3>1. jobs[k].kind \in {"start", "stop"}
      BY <1>7 DEF RecordStart, RecordStop, Reported
    <3> QED
      BY <3>1, Owners
  <2>2. UNCHANGED <<inst, instNode>>
    BY <1>7 DEF RecordStart, RecordStop
  <2>3. \E v \in RunNodeStates : runNode' = [runNode EXCEPT ![r][n] = v]
    BY <1>7, Zenon DEF RecordStart, RecordStop, RunNodeStates
  <2>4. route' = route \/ \E v \in RouteStates : route' = [route EXCEPT ![r] = v]
    BY <1>7, Zenon DEF RecordStart, RecordStop, RouteStates
  <2> HIDE DEF r
  <2>5. route' \in [Runs -> RouteStates]
    BY <2>1, <2>4
  <2>6. runNode' \in [Runs -> [Nodes -> RunNodeStates]]
    BY <2>1, <2>3
  <2> QED
    BY <2>2, <2>5, <2>6
<1>8. CASE \/ \E i \in Installations : UninstallCheck(i) \/ UninstallQueue(i)
           \/ \E r \in Runs : \/ Start(r) \/ StopCandidate(r) \/ StopWithdraw(r)
                              \/ StopWithdrawFails(r) \/ Age(r) \/ WorkerCandidate(r)
           \/ WorkerPublish \/ WorkerRestart \/ ApiRestart \/ BundleExpires \/ UNCHANGED vars
  <2>1. UNCHANGED <<inst, instNode, route, runNode>>
    BY <1>8, Zenon DEF UninstallCheck, UninstallQueue, Start, StopCandidate, StopWithdraw,
       StopWithdrawFails, Age, WorkerCandidate, WorkerPublish, WorkerRestart, ApiRestart,
       BundleExpires, vars, rows
  <2> QED
    BY <2>1
<1>9. CASE \E n \in Nodes : \/ \E k \in DOMAIN jobs : Claim(n, k) \/ Expire(n, k)
                            \/ Execute(n) \/ Crash(n) \/ Refused(n)
  <2>1. UNCHANGED <<inst, instNode, route, runNode>>
    BY <1>9, Zenon DEF Claim, Expire, Execute, Crash, Refused, rows
  <2> QED
    BY <2>1
<1> QED
  BY <1>1, <1>2, <1>3, <1>4, <1>5, <1>6, <1>7, <1>8, <1>9 DEF Next, Worker, Record

LEMMA BundleKept ==
  ASSUME BundleTyped, [Next]_vars
  PROVE  BundleTyped'
<1> USE DEF BundleTyped
<1>0. \A exclude : Running(exclude) \subseteq Runs
  BY DEF Running
<1>1. ASSUME NEW i \in Installations, UninstallCheck(i) \/ UninstallQueue(i)
      PROVE  BundleTyped'
  <2>1. UNCHANGED <<bundle, worker, stopping>>
    BY <1>1, Zenon DEF UninstallCheck, UninstallQueue
  <2>2. removing' \in {removing \cup {i}, removing \ {i}}
    BY <1>1, Zenon DEF UninstallCheck, UninstallQueue
  <2> QED
    BY <2>1, <2>2 DEF bundle
<1>2. ASSUME NEW r \in Runs, \/ StopCandidate(r) \/ StopWithdraw(r) \/ StopWithdrawFails(r)
                             \/ StopWithdrawn(r) \/ StopCommit(r)
      PROVE  BundleTyped'
  <2>1. UNCHANGED <<stale, worker, removing>>
    BY <1>2, Zenon DEF StopCandidate, StopWithdraw, StopWithdrawFails, StopWithdrawn, StopCommit,
       bundle
  <2>2. live' \in {live, stopping[r].routes}
    BY <1>2, Zenon DEF StopCandidate, StopWithdraw, StopWithdrawFails, StopWithdrawn, StopCommit,
       bundle
  <2>3. \/ stopping' = [stopping EXCEPT ![r] = [at |-> "withdraw", routes |-> Running({r})]]
        \/ stopping' = [stopping EXCEPT ![r] = [at |-> "withdrawn", routes |-> {}]]
        \/ stopping' = [stopping EXCEPT ![r] = NoStop]
        \/ stopping' = [stopping EXCEPT ![r].at = "commit"]
    BY <1>2, Zenon DEF StopCandidate, StopWithdraw, StopWithdrawFails, StopWithdrawn, StopCommit
  <2>4. stopping' \in [Runs -> StopRequests]
    BY <1>0, <2>3 DEF StopRequests, NoStop
  <2>5. live' \subseteq Runs
    BY <2>2 DEF StopRequests
  <2> QED
    BY <2>1, <2>4, <2>5
<1>3. ASSUME NEW r \in Runs, WorkerCandidate(r)
      PROVE  BundleTyped'
  BY <1>0, <1>3 DEF WorkerCandidate, Publications, bundle, requests
<1>4. CASE WorkerPublish \/ WorkerPublishFails \/ WorkerCheck \/ WorkerWrite \/ WorkerRestart
  <2>1. UNCHANGED <<stale, requests>>
    BY <1>4, Zenon DEF WorkerPublish, WorkerPublishFails, WorkerCheck, WorkerWrite,
       WorkerRestart, bundle
  <2>2. worker \in [at : {"publish", "check", "write"}, run : Runs, routes : SUBSET Runs]
    BY <1>4 DEF Publications, NoPublication, WorkerPublish, WorkerPublishFails, WorkerCheck,
       WorkerWrite, WorkerRestart
  <2>3. live' \in {live, worker.routes}
    BY <1>4, Zenon DEF WorkerPublish, WorkerPublishFails, WorkerCheck, WorkerWrite,
       WorkerRestart, bundle
  <2>4. worker' \in {NoPublication, [worker EXCEPT !.at = "check"], [worker EXCEPT !.at = "write"]}
    BY <1>4, Zenon DEF WorkerPublish, WorkerPublishFails, WorkerCheck, WorkerWrite, WorkerRestart
  <2> QED
    BY <2>1, <2>2, <2>3, <2>4 DEF Publications, requests
<1>5. CASE ApiRestart
  BY <1>5 DEF ApiRestart, StopRequests, NoStop, bundle
<1>6. CASE BundleExpires
  BY <1>6 DEF BundleExpires, requests
<1>7. ASSUME NEW r \in Runs, Age(r)
      PROVE  BundleTyped'
  BY <1>7 DEF Age, requests
<1>8. CASE \/ \E i \in Installations : Install(i) \/ Retry(i)
           \/ \E r \in Runs : Start(r) \/ WorkerFails(r)
           \/ UNCHANGED vars
  <2>1. UNCHANGED <<bundle, worker, requests>>
    BY <1>8, Zenon DEF Install, Retry, Start, WorkerFails, vars, bundle, requests
  <2> QED
    BY <2>1 DEF bundle, requests
<1>9. CASE \E n \in Nodes : \/ \E k \in DOMAIN jobs : Claim(n, k) \/ Expire(n, k)
                            \/ Execute(n) \/ Crash(n) \/ Refused(n)
  <2>1. UNCHANGED <<bundle, worker, requests>>
    BY <1>9, Zenon DEF Claim, Expire, Execute, Crash, Refused
  <2> QED
    BY <2>1 DEF bundle, requests
<1>10. ASSUME NEW n \in Nodes, NEW k \in DOMAIN jobs, Record(n, k)
       PROVE  BundleTyped'
  <2>1. UNCHANGED <<bundle, worker, requests>>
    BY <1>10, Zenon DEF Record, RecordInstall, RecordStart, RecordStop, RecordUninstall
  <2> QED
    BY <2>1 DEF bundle, requests
<1> QED
  BY <1>1, <1>2, <1>3, <1>4, <1>5, <1>6, <1>7, <1>8, <1>9, <1>10 DEF Next, Worker

\* Only running runs come into a candidate (_candidate).
LEMMA OffersRun ==
  ASSUME [Next]_vars, TypeOK, NEW r \in Offered', r \notin Offered
  PROVE  r \in Runs /\ run[r] = "running"
<1> USE DEF Offered
<1>0. /\ stopping \in [Runs -> [at : {"idle", "withdraw", "withdrawn", "commit"}, routes : SUBSET Runs]]
      /\ \/ worker = NoPublication
         \/ worker \in [at : {"publish", "check", "write"}, run : Runs, routes : SUBSET Runs]
  BY DEF TypeOK
<1>1. ASSUME NEW s \in Runs, StopCandidate(s)
      PROVE  r \in Runs /\ run[r] = "running"
  BY <1>0, <1>1 DEF StopCandidate, Running, bundle
<1>2. ASSUME NEW s \in Runs, StopWithdraw(s) \/ StopWithdrawFails(s) \/ StopWithdrawn(s) \/ StopCommit(s)
      PROVE  FALSE
  <2>1. live' \subseteq live \cup stopping[s].routes /\ worker' = worker
    BY <1>2 DEF StopWithdraw, StopWithdrawFails, StopWithdrawn, StopCommit, bundle
  <2>2. \/ stopping' = [stopping EXCEPT ![s] = [at |-> "withdrawn", routes |-> {}]]
        \/ stopping' = [stopping EXCEPT ![s] = NoStop]
        \/ stopping' = [stopping EXCEPT ![s].at = "commit"]
    BY <1>2, Zenon DEF StopWithdraw, StopWithdrawFails, StopWithdrawn, StopCommit
  <2>3. \A t \in Runs : stopping'[t].routes \subseteq stopping[t].routes
    BY <1>0, <2>2 DEF NoStop
  <2> QED
    BY <2>1, <2>3
<1>3. ASSUME NEW s \in Runs, WorkerCandidate(s)
      PROVE  r \in Runs /\ run[r] = "running"
  BY <1>3 DEF WorkerCandidate, Running, bundle, requests
<1>4. CASE \/ \E s \in Runs : WorkerFails(s)
           \/ WorkerPublish \/ WorkerPublishFails \/ WorkerCheck \/ WorkerWrite \/ WorkerRestart
  <2>1. live' \subseteq live \cup worker.routes /\ stopping' = stopping
    BY <1>4 DEF WorkerFails, WorkerPublish, WorkerPublishFails, WorkerCheck, WorkerWrite,
       WorkerRestart, bundle, requests
  <2>2. worker'.routes \subseteq worker.routes
    BY <1>0, <1>4 DEF WorkerFails, WorkerPublish, WorkerPublishFails, WorkerCheck, WorkerWrite,
       WorkerRestart, NoPublication
  <2> QED
    BY <2>1, <2>2
<1>5. CASE ApiRestart
  BY <1>5 DEF ApiRestart, NoStop, bundle
<1>6. CASE BundleExpires
  BY <1>6 DEF BundleExpires, requests
<1>7. CASE \/ \E i \in Installations :
                Install(i) \/ Retry(i) \/ UninstallCheck(i) \/ UninstallQueue(i)
           \/ \E s \in Runs : Start(s) \/ Age(s)
           \/ UNCHANGED vars
  <2>1. UNCHANGED <<live, worker, stopping>>
    BY <1>7, Zenon DEF Install, Retry, UninstallCheck, UninstallQueue, Start, Age, vars,
       bundle, requests
  <2> QED
    BY <2>1
<1>8. CASE \E n \in Nodes : \/ \E k \in DOMAIN jobs : Claim(n, k) \/ Expire(n, k)
                            \/ Execute(n) \/ Crash(n) \/ Refused(n)
  <2>1. UNCHANGED <<live, worker, stopping>>
    BY <1>8, Zenon DEF bundle, requests, Claim, Expire, Execute, Crash, Refused
  <2> QED
    BY <2>1
<1>9. ASSUME NEW n \in Nodes, NEW k \in DOMAIN jobs, Record(n, k)
      PROVE  FALSE
  <2>1. UNCHANGED <<bundle, worker, requests>>
    BY <1>9, Zenon DEF Record, RecordInstall, RecordStart, RecordStop, RecordUninstall
  <2> QED
    BY <2>1 DEF bundle, requests
<1> QED
  BY <1>1, <1>2, <1>3, <1>4, <1>5, <1>6, <1>7, <1>8, <1>9, Zenon DEF Next, Worker

-----------------------------------------------------------------------------
(* What counts as installed is on the node.                                *)

IsInstall(job, i) == job.kind = "install" /\ job.owner = i
IsUninstall(job, i) == job.kind = "uninstall" /\ job.owner = i

\* An operation on a node: files appear by installs, and disappear only where an
\* uninstall is executing (OciRuntime::install, uninstall).
LEMMA NodeEffects ==
  ASSUME IInv, DiskTyped, NEW n \in Nodes, NEW succeeds \in BOOLEAN,
         Executing(n), OnNode(n, doing[n].job, succeeds)
  PROVE  /\ DiskTyped'
         /\ doing[n].job \in 1..Len(jobs)
         /\ \A i \in Installations, m \in Nodes :
              m \in files[i] /\ m \notin files'[i] =>
                m = n /\ IsUninstall(jobs[doing[n].job], i)
         /\ \A i \in Installations :
              succeeds /\ IsInstall(jobs[doing[n].job], i) => n \in files'[i]
<1> DEFINE k == doing[n].job
<1>1. jobs \in Seq(JobRows) /\ Len(op) = Len(jobs) /\ Len(jobs) \in Nat /\ Assigned(op, doing)
  BY DEF IInv, Safe, Typed
<1>2. k \in 1..Len(jobs)
  BY <1>1, Zenon DEF Executing, Assigned
<1>3. jobs[k] \in JobRows /\ k \in DOMAIN jobs
  <2> HIDE DEF k
  <2> QED
    BY <1>1, <1>2
<1>4. OnNode(n, k, succeeds)
  OBVIOUS
<1> HIDE DEF k
<1>5. CASE jobs[k].kind = "install" \/ jobs[k].kind = "uninstall"
  <2> DEFINE i == jobs[k].owner
  <2>1. i \in Installations
    BY <1>3, <1>5, InstallOwners DEF InstallKinds
  <2>2. UNCHANGED lifecycle
    BY <1>4, <1>5, Zenon DEF OnNode, InstallOnNode, UninstallOnNode
  <2>3. \/ files' = [files EXCEPT ![i] = files[i] \cup {n}]
        \/ files' = [files EXCEPT ![i] = files[i] \ {n}]
    <3>1. PICK kept \in BOOLEAN : files' = [files EXCEPT ![i] = Member(@, n, kept)]
      BY <1>4, <1>5, Zenon DEF OnNode, InstallOnNode, UninstallOnNode
    <3> QED
      BY <3>1, Zenon DEF Member
  <2>4. jobs[k].kind = "install" => (n \in files[i] => n \in files'[i]) /\ (succeeds => n \in files'[i])
    <3> SUFFICES ASSUME jobs[k].kind = "install"
                 PROVE  (n \in files[i] => n \in files'[i]) /\ (succeeds => n \in files'[i])
      OBVIOUS
    <3>1. PICK kept \in BOOLEAN :
            /\ (succeeds => kept) /\ (n \in files[i] => kept)
            /\ files' = [files EXCEPT ![i] = Member(@, n, kept)]
      BY <1>4, Zenon DEF OnNode, InstallOnNode
    <3> QED
      BY <2>1, <3>1 DEF Member, DiskTyped
  <2> HIDE DEF i
  <2>5. /\ files' \in [Installations -> SUBSET Nodes]
        /\ \A j \in Installations \ {i} : files'[j] = files[j]
        /\ files'[i] = files[i] \cup {n} \/ files'[i] = files[i] \ {n}
    BY <2>1, <2>3 DEF DiskTyped
  <2>6. DiskTyped'
    BY <2>2, <2>5 DEF DiskTyped
  <2>7. \A j \in Installations, m \in Nodes :
          m \in files[j] /\ m \notin files'[j] => j = i /\ m = n /\ jobs[k].kind = "uninstall"
    BY <1>5, <2>1, <2>4, <2>5
  <2> QED
    BY <1>2, <2>4, <2>6, <2>7 DEF k, i, IsInstall, IsUninstall
<1>6. CASE jobs[k].kind = "start" \/ jobs[k].kind = "stop"
  <2>1. jobs[k].owner \in Runs
    BY <1>3, <1>6, Owners
  <2>2. UNCHANGED files
    BY <1>4, <1>6, Zenon DEF OnNode, StartOnNode, StopOnNode
  <2>3. \/ lifecycle' = lifecycle
        \/ \E set \in {lifecycle[jobs[k].owner], lifecycle[jobs[k].owner] \cup {n}} :
             lifecycle' = [lifecycle EXCEPT ![jobs[k].owner] = set]
    BY <1>4, <1>6, Zenon DEF OnNode, StartOnNode, StopOnNode
  <2>4. lifecycle' \in [Runs -> SUBSET Nodes]
    BY <2>1, <2>3 DEF DiskTyped
  <2>5. DiskTyped'
    BY <2>2, <2>4 DEF DiskTyped
  <2> QED
    BY <1>2, <1>6, <2>2, <2>5 DEF k, IsInstall
<1> QED
  BY <1>3, <1>5, <1>6 DEF JobRows, InstallKinds

HasInstalled(i, n) ==
  \/ i \in Installed
  \/ \E k \in 1..Len(jobs) : IsInstall(jobs[k], i) /\ op[k][n] = "succeeded"

\* The node has taken an uninstall, and every install that succeeded there came
\* before it.
RemovedSince(i, n) ==
  \E u \in 1..Len(jobs) :
    /\ IsUninstall(jobs[u], i)
    /\ op[u][n] \in Taken
    /\ \A k \in 1..Len(jobs) : IsInstall(jobs[k], i) /\ op[k][n] = "succeeded" => k < u

\* A row says "installed" on the evidence of an install, the evidence is good
\* until an uninstall is taken, and an agent that is about to report a
\* successful install has the files.
RealInv ==
  /\ \A i \in Installations : \A n \in NodesOf[i] :
       instNode[i][n] = "installed" => HasInstalled(i, n)
  /\ \A i \in Installations : \A n \in NodesOf[i] :
       HasInstalled(i, n) /\ ~ RemovedSince(i, n) => n \in files[i]
  /\ \A i \in Installations, n \in Nodes :
       /\ doing[n].job # 0
       /\ doing[n].result = "succeeded"
       /\ IsInstall(jobs[doing[n].job], i)
       => n \in files[i]

\* What a step may do to the files and to the agents: files disappear under an
\* uninstall only, and an agent comes to report success with its files there.
FilesMove ==
  /\ DiskTyped'
  /\ UNCHANGED files \/ UNCHANGED <<jobs, op, instNode>>
  /\ \A i \in Installations, m \in Nodes :
       m \in files[i] /\ m \notin files'[i] =>
         /\ doing[m].job \in 1..Len(jobs)
         /\ IsUninstall(jobs[doing[m].job], i)
         /\ doing'[m].job \in {0, doing[m].job}
  /\ \A m \in Nodes :
       doing'[m].job # 0 /\ doing'[m].result = "succeeded" =>
         \/ doing'[m] = doing[m]
         \/ /\ doing'[m].job = doing[m].job /\ jobs' = jobs
            /\ \A i \in Installations : IsInstall(jobs[doing[m].job], i) => m \in files'[i]

LEMMA FilesSteps ==
  ASSUME IInv, DiskTyped, [Next]_vars
  PROVE  FilesMove
<1>0. doing \in [Nodes -> Assignments]
  BY DEF IInv, Safe, Typed
<1>1. ASSUME NEW n \in Nodes, NEW succeeds \in BOOLEAN, NEW a \in Assignments,
             Executing(n), OnNode(n, doing[n].job, succeeds),
             a = Idle \/ (a.job = doing[n].job /\ (a.result = "succeeded" => succeeds)),
             doing' = [doing EXCEPT ![n] = a],
             UNCHANGED <<jobs, op, instNode>>
      PROVE  FilesMove
  <2>1. /\ DiskTyped' /\ doing[n].job \in 1..Len(jobs)
        /\ \A i \in Installations, m \in Nodes :
             m \in files[i] /\ m \notin files'[i] =>
               m = n /\ IsUninstall(jobs[doing[n].job], i)
        /\ \A i \in Installations :
             succeeds /\ IsInstall(jobs[doing[n].job], i) => n \in files'[i]
    BY <1>1, NodeEffects
  <2>2. doing'[n] = a /\ \A m \in Nodes \ {n} : doing'[m] = doing[m]
    BY <1>0, <1>1
  <2>3. a.job \in {0, doing[n].job} /\ (a.job # 0 /\ a.result = "succeeded" => a.job = doing[n].job /\ succeeds)
    BY <1>1 DEF Idle
  <2> QED
    BY <1>1, <2>1, <2>2, <2>3, Zenon DEF FilesMove
<1>2. ASSUME UNCHANGED <<files, lifecycle>>,
             \A m \in Nodes : doing'[m] = doing[m] \/ doing'[m].result = "none"
      PROVE  FilesMove
  <2>1. DiskTyped'
    BY <1>2 DEF DiskTyped
  <2> QED
    BY <1>2, <2>1 DEF FilesMove
<1>3. ASSUME NEW n \in Nodes, Execute(n)
      PROVE  FilesMove
  <2>1. PICK succeeds \in BOOLEAN :
          /\ OnNode(n, doing[n].job, succeeds)
          /\ doing' = [doing EXCEPT ![n] =
               [job |-> @.job, result |-> IF succeeds THEN "succeeded" ELSE "failed"]]
    BY <1>3, Zenon DEF Execute
  <2> DEFINE a == [job |-> doing[n].job, result |-> IF succeeds THEN "succeeded" ELSE "failed"]
  <2>2. a \in Assignments /\ a.job = doing[n].job /\ (a.result = "succeeded" => succeeds)
    BY <1>0 DEF Assignments
  <2>3. doing' = [doing EXCEPT ![n] = a] /\ Executing(n) /\ UNCHANGED <<jobs, op, instNode>>
    BY <1>0, <1>3, <2>1, Zenon DEF Execute, rows, queue
  <2> HIDE DEF a
  <2> QED
    BY <1>1, <2>1, <2>2, <2>3, Zenon
<1>4. ASSUME NEW n \in Nodes, Crash(n)
      PROVE  FilesMove
  <2>1. Idle \in Assignments
    BY DEF Idle, Assignments
  <2>2. UNCHANGED <<jobs, op, instNode>>
    BY <1>4 DEF Crash, rows, queue
  <2> QED
    BY <1>1, <1>4, <2>1, <2>2, Zenon DEF Crash
<1>5. ASSUME NEW n \in Nodes,
             \/ \E k \in DOMAIN jobs : Claim(n, k) \/ Record(n, k)
             \/ Refused(n)
      PROVE  FilesMove
  <2>1. UNCHANGED disk /\ \E k : doing' = [doing EXCEPT ![n] = [job |-> k, result |-> "none"]]
    BY <1>5, Zenon DEF Claim, Record, RecordInstall, RecordStart, RecordStop, RecordUninstall,
       Reported, Refused, Idle
  <2>2. \A m \in Nodes : doing'[m] = doing[m] \/ doing'[m].result = "none"
    BY <1>0, <2>1
  <2> QED
    BY <1>2, <2>1, <2>2 DEF disk
<1>6. CASE \/ \E i \in Installations :
                Install(i) \/ Retry(i) \/ UninstallCheck(i) \/ UninstallQueue(i)
           \/ \E r \in Runs : \/ Start(r) \/ StopCandidate(r) \/ StopWithdraw(r)
                              \/ StopWithdrawFails(r) \/ StopWithdrawn(r) \/ StopCommit(r) \/ Age(r)
           \/ Worker \/ WorkerRestart \/ ApiRestart \/ BundleExpires \/ UNCHANGED vars
           \/ \E n \in Nodes : \E k \in DOMAIN jobs : Expire(n, k)
  <2>1. UNCHANGED <<doing, disk>>
    BY <1>6, Zenon DEF Install, Retry, UninstallCheck, UninstallQueue, Start, StopCandidate,
       StopWithdraw, StopWithdrawFails, StopWithdrawn, StopCommit, Age, Worker, WorkerFails,
       WorkerCandidate, WorkerPublish, WorkerPublishFails, WorkerCheck, WorkerWrite,
       WorkerRestart, ApiRestart, BundleExpires, vars, disk, Expire
  <2> QED
    BY <1>2, <2>1 DEF disk
<1> QED
  BY <1>3, <1>4, <1>5, <1>6 DEF Next

\* An install result writes the row of its rank, a retry resets the rows.
LEMMA InstalledRows ==
  ASSUME IInv, RowsTyped, [Next]_vars, NEW i \in Installations, NEW n \in Nodes,
         instNode[i][n] # "installed", instNode'[i][n] = "installed"
  PROVE  HasInstalled(i, n)'
<1>1. PICK m \in Nodes, k \in DOMAIN jobs : RecordInstall(m, k)
  <2>1. CASE \E j \in Installations : Retry(j)
    BY <2>1 DEF Retry, RowsTyped
  <2>2. CASE \E m \in Nodes, k \in DOMAIN jobs : RecordUninstall(m, k)
    <3>1. PICK m \in Nodes, k \in DOMAIN jobs : RecordUninstall(m, k)
      BY <2>2
    <3>2. jobs[k].owner \in Installations
      <4>1. jobs[k].kind \in InstallKinds
        BY <3>1 DEF RecordUninstall, Reported, InstallKinds
      <4> QED
        BY <4>1, InstallOwners
    <3>3. \E v \in {"uninstalled", "failed"} : instNode' = [instNode EXCEPT ![jobs[k].owner][m] = v]
      BY <3>1, Zenon DEF RecordUninstall
    <3> QED
      BY <3>2, <3>3 DEF RowsTyped
  <2>3. CASE \/ \E j \in Installations : Install(j) \/ UninstallCheck(j) \/ UninstallQueue(j)
             \/ \E r \in Runs : \/ Start(r) \/ StopCandidate(r) \/ StopWithdraw(r)
                                \/ StopWithdrawFails(r) \/ StopWithdrawn(r) \/ StopCommit(r) \/ Age(r)
             \/ Worker \/ WorkerRestart \/ ApiRestart \/ BundleExpires \/ UNCHANGED vars
    <3>1. UNCHANGED instNode
      BY <2>3, Zenon DEF Install, UninstallCheck, UninstallQueue, Start, StopCandidate,
         StopWithdraw, StopWithdrawFails, StopWithdrawn, StopCommit, Age, Worker, WorkerFails,
         WorkerCandidate, WorkerPublish, WorkerPublishFails, WorkerCheck, WorkerWrite,
         WorkerRestart, ApiRestart, BundleExpires, vars, rows
    <3> QED
      BY <3>1
  <2>4. CASE \E m \in Nodes :
               \/ \E k \in DOMAIN jobs : Claim(m, k) \/ Expire(m, k) \/ RecordStart(m, k) \/ RecordStop(m, k)
               \/ Execute(m) \/ Crash(m) \/ Refused(m)
    <3>1. UNCHANGED instNode
      BY <2>4, Zenon DEF Claim, Expire, RecordStart, RecordStop, Execute, Crash, Refused, rows
    <3> QED
      BY <3>1
  <2> QED
    BY <2>1, <2>2, <2>3, <2>4, Zenon DEF Next, Record
<1>2. Reported(m, k, "install") /\ jobs[k].kind = "install" /\ op' = WithResult(m, k) /\ jobs' = jobs
  BY <1>1, Zenon DEF RecordInstall, Reported
<1>3. jobs[k].owner \in Installations /\ k \in 1..Len(jobs)
  BY <1>2, InstallOwners, Owners DEF InstallKinds
<1>4. instNode' = [instNode EXCEPT ![jobs[k].owner][m] = IF Succeeded(m) THEN "installed" ELSE "failed"]
  BY <1>1, Zenon DEF RecordInstall
<1>5. m = n /\ jobs[k].owner = i /\ Succeeded(m)
  BY <1>3, <1>4 DEF RowsTyped
<1>6. op'[k][n] = "succeeded"
  <2>1. op \in Seq([Nodes -> OpStates]) /\ Len(op) = Len(jobs)
    BY DEF IInv, Safe, Typed
  <2>2. op' = [op EXCEPT ![k][n] = "succeeded"]
    BY <1>2, <1>5, Zenon DEF WithResult, Succeeded
  <2> QED
    BY <1>3, <2>1, <2>2, ExceptFacts DEF OpStates
<1> QED
  BY <1>2, <1>3, <1>5, <1>6 DEF HasInstalled, IsInstall

\* The evidence of an install stays.
LEMMA EvidenceKept ==
  ASSUME IInv, [Next]_vars, NEW i \in Installations, NEW n \in Nodes, HasInstalled(i, n)
  PROVE  HasInstalled(i, n)'
<1>1. CASE i \in Installed
  BY <1>1 DEF HasInstalled
<1>2. ASSUME NEW k \in 1..Len(jobs), IsInstall(jobs[k], i), op[k][n] = "succeeded"
      PROVE  HasInstalled(i, n)'
  <2>1. k \in 1..Len(jobs') /\ jobs'[k] = jobs[k] /\ op'[k][n] = "succeeded"
    BY <1>2, HistoryKept, Zenon DEF History
  <2> QED
    BY <1>2, <2>1 DEF HasInstalled
<1> QED
  BY <1>1, <1>2 DEF HasInstalled

\* An uninstall that a node is executing comes after every install that has
\* succeeded there.
LEMMA UninstallRemoves ==
  ASSUME IInv, NEW i \in Installations, NEW n \in Nodes,
         doing[n].job \in 1..Len(jobs), IsUninstall(jobs[doing[n].job], i)
  PROVE  RemovedSince(i, n)
<1> DEFINE u == doing[n].job
<1>1. Len(op) = Len(jobs) /\ Len(jobs) \in Nat /\ u # 0 /\ u \in 1..Len(jobs)
  BY DEF IInv, Safe, Typed
<1>2. op[u][n] = "running"
  BY <1>1, Zenon DEF IInv, Safe, Assigned
<1>3. IsUninstall(jobs[u], i)
  OBVIOUS
<1> HIDE DEF u
<1>4. ASSUME NEW k \in 1..Len(jobs), IsInstall(jobs[k], i), op[k][n] = "succeeded"
      PROVE  k < u
  <2>1. k # u /\ k \in Nat /\ u \in Nat
    BY <1>1, <1>2, <1>4
  <2>2. ~ (u < k)
    BY <1>1, <1>2, <1>4 DEF IInv, Safe, InOrder
  <2> QED
    BY <2>1, <2>2
<1>5. op[u][n] \in Taken
  BY <1>2 DEF Taken, OpStates
<1> QED
  BY <1>1, <1>3, <1>4, <1>5, Zenon DEF RemovedSince

\* Every step keeps the rows, the evidence and the files in agreement.
LEMMA RealKept ==
  ASSUME IInv, RowsTyped, DiskTyped, RealInv, [Next]_vars
  PROVE  RealInv'
<1>0. \A i \in Installations : \A n \in NodesOf[i] : n \in Nodes
  BY RecipeRunsAssumption
<1>1. ASSUME NEW i \in Installations, NEW n \in NodesOf[i], instNode'[i][n] = "installed"
      PROVE  HasInstalled(i, n)'
  BY <1>0, <1>1, EvidenceKept, InstalledRows DEF RealInv
<1>2. ASSUME NEW i \in Installations, NEW n \in NodesOf[i],
             HasInstalled(i, n)', ~ RemovedSince(i, n)'
      PROVE  n \in files'[i]
  <2>1. CASE UNCHANGED files
    <3>1. CASE \E k \in 1..Len(jobs') :
                 /\ IsInstall(jobs'[k], i) /\ op'[k][n] = "succeeded"
                 /\ ~ (k \in 1..Len(jobs) /\ op[k][n] = "succeeded")
      <4>1. PICK k \in 1..Len(jobs) : IsInstall(jobs[k], i) /\ doing[n].job = k /\ doing[n].result = "succeeded"
        BY <1>0, <3>1, HistoryKept, Zenon DEF History
      <4>2. doing[n].job # 0 /\ IsInstall(jobs[doing[n].job], i)
        BY <4>1
      <4> QED
        BY <1>0, <2>1, <4>1, <4>2, Zenon DEF RealInv
    <3>2. CASE \A k \in 1..Len(jobs') :
                 IsInstall(jobs'[k], i) /\ op'[k][n] = "succeeded" =>
                   k \in 1..Len(jobs) /\ op[k][n] = "succeeded"
      <4>1. HasInstalled(i, n)
        BY <1>2, <3>2, HistoryKept, Zenon DEF HasInstalled, History
      <4>2. ASSUME NEW u \in 1..Len(jobs), IsUninstall(jobs[u], i), op[u][n] \in Taken,
                   \A k \in 1..Len(jobs) : IsInstall(jobs[k], i) /\ op[k][n] = "succeeded" => k < u
            PROVE  FALSE
        <5>1. u \in 1..Len(jobs') /\ IsUninstall(jobs'[u], i) /\ op'[u][n] \in Taken
          BY <1>0, <4>2, HistoryKept, Zenon DEF History
        <5>2. \A k \in 1..Len(jobs') : IsInstall(jobs'[k], i) /\ op'[k][n] = "succeeded" => k < u
          BY <3>2, <4>2, HistoryKept, Zenon DEF History
        <5> QED
          BY <1>2, <5>1, <5>2, Zenon DEF RemovedSince
      <4> QED
        BY <2>1, <4>1, <4>2, Zenon DEF RealInv, RemovedSince
    <3> QED
      BY <3>1, <3>2
  <2>2. CASE UNCHANGED <<jobs, op, instNode>>
    <3>1. HasInstalled(i, n) /\ ~ RemovedSince(i, n)
      BY <1>2, <2>2, Zenon DEF HasInstalled, RemovedSince
    <3>2. n \in files[i]
      BY <3>1 DEF RealInv
    <3> QED
      BY <1>0, <3>1, <3>2, FilesSteps, UninstallRemoves, Zenon DEF FilesMove
  <2> QED
    BY <2>1, <2>2, FilesSteps DEF FilesMove
<1>3. ASSUME NEW i \in Installations, NEW n \in Nodes,
             doing'[n].job # 0, doing'[n].result = "succeeded",
             IsInstall(jobs'[doing'[n].job], i)
      PROVE  n \in files'[i]
  <2>1. CASE doing'[n] = doing[n]
    <3>1. doing[n].job \in 1..Len(jobs)
      BY <1>3, <2>1, Zenon DEF IInv, Safe, Typed, Assigned
    <3>2. IsInstall(jobs[doing[n].job], i)
      BY <1>3, <2>1, <3>1, HistoryKept, Zenon DEF History
    <3>3. n \in files[i]
      BY <1>3, <2>1, <3>2, Zenon DEF RealInv
    <3> QED
      BY <3>2, <3>3, FilesSteps DEF FilesMove, IsInstall, IsUninstall
  <2>2. CASE doing'[n] # doing[n]
    BY <1>3, <2>2, FilesSteps, Zenon DEF FilesMove
  <2> QED
    BY <2>1, <2>2
<1> QED
  BY <1>1, <1>2, <1>3, Zenon DEF RealInv

-----------------------------------------------------------------------------
GInv ==
  /\ IInv
  /\ RowsTyped
  /\ BundleTyped
  /\ DiskTyped
  /\ GangInv
  /\ RealInv

LEMMA GangInitially ==
  ASSUME Init
  PROVE  GInv
<1>1. RowsTyped
  BY DEF Init, RowsTyped, InstStates, InstNodeStates, RouteStates, RunNodeStates
<1>2. BundleTyped
  BY Zenon DEF Init, BundleTyped, Publications, StopRequests, NoStop
<1>3. DiskTyped
  BY RecipeRunsAssumption, Zenon DEF Init, DiskTyped
<1>4. jobs = <<>> /\ 1..Len(jobs) = {}
  BY DEF Init
<1>5. OneStart /\ \A r \in Runs : run[r] # "running"
  BY <1>4 DEF Init, OneStart
<1>6. Offered = {}
  BY DEF Init, Offered, NoPublication, NoStop
<1>7. GangInv
  BY <1>5, <1>6 DEF GangInv
<1>8. \A i \in Installations : \A n \in NodesOf[i] : instNode[i][n] = "installed" => i \in Installed
  BY RecipeRunsAssumption DEF Init
<1>9. \A i \in Installations : \A n \in NodesOf[i] : HasInstalled(i, n) => i \in Installed /\ n \in files[i]
  BY <1>4 DEF Init, HasInstalled
<1>10. \A n \in Nodes : doing[n].job = 0
  BY DEF Init, Idle
<1>11. RealInv
  BY <1>8, <1>9, <1>10 DEF RealInv, HasInstalled
<1> QED
  BY <1>1, <1>2, <1>3, <1>7, <1>11, InitiallySafe DEF GInv

LEMMA GangSteps ==
  ASSUME GInv, [Next]_vars
  PROVE  GInv'
<1> USE DEF GInv
<1>1. IInv' /\ RowsTyped' /\ BundleTyped' /\ RealInv'
  BY StepsPreserve, RowsKept, BundleKept, RealKept
<1>2. DiskTyped'
  BY FilesSteps DEF FilesMove
<1>3. OneStart'
  BY OneStartKept DEF GangInv
<1>4. \A r \in Runs : run'[r] = "running" => Started(r)'
  BY RunningStarts, StartedKept DEF GangInv
<1>5. \A r \in Offered' : r \in Runs /\ Started(r)'
  BY Types, OffersRun, StartedKept DEF GangInv
<1> QED
  BY <1>1, <1>2, <1>3, <1>4, <1>5, Zenon DEF GangInv

\* For every fleet, gang and number of jobs: the rows are well formed, a route
\* is published only for a run all of whose ranks were started, however late
\* the worker or a stop request activates what it computed (_candidate), and
\* what counts as installed is on the node until it takes an uninstall
\* (_project_node_result, plan_run).
THEOREM GangSafety == Spec => []GangSound
<1>1. GInv => GangSound
  <2> SUFFICES ASSUME GInv
               PROVE  GangSound
    OBVIOUS
  <2> USE DEF GInv
  <2>1. TypeOK
    BY Types
  <2>0. DOMAIN jobs = 1..Len(jobs) /\ \A k \in 1..Len(jobs) : jobs[k] \in JobRows
    BY DEF IInv, Safe, Typed
  <2>2. ASSUME NEW r \in live, NEW n \in RunNodesOf(r)
        PROVE  op[StartJob(r)][n] = "succeeded"
    <3>1. r \in Runs /\ Started(r)
      BY DEF GangInv, Offered
    <3>2. PICK k \in 1..Len(jobs) :
            IsStart(jobs[k], r) /\ \A m \in RunNodesOf(r) : op[k][m] = "succeeded"
      BY <3>1 DEF Started
    <3>3. \A j \in 1..Len(jobs) : jobs[j] = [kind |-> "start", owner |-> r] <=> IsStart(jobs[j], r)
      BY <2>0 DEF IsStart, JobRows
    <3>4. \A j \in DOMAIN jobs : jobs[j] = [kind |-> "start", owner |-> r] <=> j = k
      BY <2>0, <3>1, <3>2, <3>3, Zenon DEF GangInv, OneStart
    <3>5. StartJob(r) = k
      BY <2>0, <3>4 DEF StartJob
    <3> QED
      BY <3>2, <3>5
  <2>3. ASSUME NEW i \in Installations, NEW n \in NodesOf[i],
               instNode[i][n] = "installed", ~ UninstalledSince(i, n)
        PROVE  n \in files[i]
    <3>1. \A k \in 1..Len(jobs) :
            /\ jobs[k] = [kind |-> "install", owner |-> i] <=> IsInstall(jobs[k], i)
            /\ jobs[k] = [kind |-> "uninstall", owner |-> i] <=> IsUninstall(jobs[k], i)
      BY <2>0 DEF IsInstall, IsUninstall, JobRows
    <3>2. RemovedSince(i, n) => UninstalledSince(i, n)
      BY <2>0, <3>1, Zenon DEF RemovedSince, UninstalledSince, Taken
    <3> QED
      BY <2>3, <3>2 DEF RealInv
  <2> QED
    BY <2>1, <2>2, <2>3, Zenon DEF GangSound, GangRouted, InstalledIsReal
<1> QED
  BY <1>1, GangInitially, GangSteps, PTL DEF Spec
=============================================================================
