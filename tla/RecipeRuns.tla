----------------------------- MODULE RecipeRuns -----------------------------
(***************************************************************************)
(* The life of recipe installations and runs, and the routes to them       *)
(* (control/src/vonk_control/recipe_operations.py, recipe_routes.py,       *)
(* recipe_operation_worker.py; on the nodes vonk-agent/src/executor.rs and *)
(* oci.rs).                                                                *)
(*                                                                         *)
(* The API installs a recipe on its nodes, starts, stops and uninstalls    *)
(* it.  Each request becomes one job with an operation per node; the       *)
(* node's agent takes its operations one at a time, oldest first, and the  *)
(* last result of a job moves the installation or the run.  The worker     *)
(* publishes the routes of running runs into one live bundle; a stop       *)
(* request takes the route out of the bundle before it queues work.        *)
(*                                                                         *)
(* Every database transaction is one action.  The worker and the API are   *)
(* two processes: what one has read may have changed when it writes.  A    *)
(* lease that runs out is noticed when the idle agent polls and parks the  *)
(* operation for good (AgentJobs; no code grants the retry that only an    *)
(* operator can decide).                                                   *)
(***************************************************************************)
EXTENDS Integers, Sequences, FiniteSets

CONSTANTS
  Nodes,           \* agent nodes
  Installations,   \* recipe installations
  Runs,            \* runs an operator may start
  InstallationOf,  \* the installation a run belongs to
  NodesOf,         \* the mapped nodes of an installation
  PortOf,          \* the endpoint port of an installation's recipe
  AliasOf,         \* the model alias a run is started with
  Installed,       \* installations that are complete at the outset
  MaxJobs          \* bound: jobs after which no further request is made

ASSUME RecipeRunsAssumption ==
  /\ InstallationOf \in [Runs -> Installations]
  /\ NodesOf \in [Installations -> SUBSET Nodes]
  /\ \A i \in Installations : NodesOf[i] # {}
  /\ Installed \subseteq Installations
  /\ MaxJobs \in Nat

VARIABLES
  inst,       \* RecipeInstallation.state, "absent" before the install request
  instNode,   \* InstallationNode.state
  run,        \* RecipeRun.state, "absent" before the start request
  route,      \* RecipeRun.route_state
  runNode,    \* RunNode.state
  reserved,   \* runs whose memory and port reservations are active
  jobs,       \* jobs in the order of creation: kind and owner
  op,         \* AgentOperation.state of each job, by node
  stale,      \* runs with a rank whose evidence is older than maximum_age
  live,       \* runs routed by the active bundle
  worker,     \* the worker's publication in progress
  stopping,   \* per run, the stop request in progress
  removing,   \* installations with an uninstall request between check and queue
  doing,      \* per node, the operation the agent executes and its result
  files,      \* nodes that hold the installation's directory
  up,         \* nodes on which the run's container exists
  lifecycle   \* nodes on which the run's lifecycle.json was written

rows == <<inst, instNode, run, route, runNode, reserved>>
queue == <<jobs, op>>
bundle == <<stale, live>>
requests == <<stopping, removing>>
disk == <<files, up, lifecycle>>
vars == <<inst, instNode, run, route, runNode, reserved, jobs, op, stale, live,
          worker, stopping, removing, doing, files, up, lifecycle>>

InstallKinds == {"install", "uninstall"}

OpStates == {"none", "queued", "running", "succeeded", "failed",
             "waiting-for-operator"}

TerminalOpStates == {"none", "succeeded", "failed"}

Idle == [job |-> 0, result |-> "none"]
NoPublication == [at |-> "idle", run |-> "none", routes |-> {}]
NoStop == [at |-> "idle", routes |-> {}]

Init ==
  /\ inst = [i \in Installations |-> IF i \in Installed THEN "installed" ELSE "absent"]
  /\ instNode = [i \in Installations |->
       [n \in Nodes |-> IF i \in Installed THEN "installed" ELSE "planned"]]
  /\ run = [r \in Runs |-> "absent"]
  /\ route = [r \in Runs |-> "withdrawn"]
  /\ runNode = [r \in Runs |-> [n \in Nodes |-> "planned"]]
  /\ reserved = {}
  /\ jobs = <<>>
  /\ op = <<>>
  /\ stale = {}
  /\ live = {}
  /\ worker = NoPublication
  /\ stopping = [r \in Runs |-> NoStop]
  /\ removing = {}
  /\ doing = [n \in Nodes |-> Idle]
  /\ files = [i \in Installations |-> IF i \in Installed THEN NodesOf[i] ELSE {}]
  /\ up = [r \in Runs |-> {}]
  /\ lifecycle = [r \in Runs |-> {}]

-----------------------------------------------------------------------------
(* Queueing and the API's requests.                                        *)

RunNodesOf(r) == NodesOf[InstallationOf[r]]

\* One operation per target node, queued behind the node's earlier ones.
Operations(targets) == [n \in Nodes |-> IF n \in targets THEN "queued" ELSE "none"]

\* _queue_in_session, onto the given operations
QueueAfter(ops, kind, owner, targets) ==
  /\ jobs' = Append(jobs, [kind |-> kind, owner |-> owner])
  /\ op' = Append(ops, Operations(targets))

Requestable == Len(jobs) < MaxJobs

Install(i) ==
  /\ Requestable
  /\ inst[i] = "absent"
  /\ inst' = [inst EXCEPT ![i] = "installing"]
  /\ QueueAfter(op, "install", i, NodesOf[i])
  /\ UNCHANGED <<instNode, run, route, runNode, reserved, bundle, worker,
                 requests, doing, disk>>

\* _aggregate_parent made the job "failed": all its operations are settled and
\* one of them failed.
JobFailed(k) ==
  /\ \A n \in Nodes : op[k][n] \notin {"queued", "running"}
  /\ \E n \in Nodes : op[k][n] = "failed"

Retry(i) ==
  /\ Requestable
  /\ \E k \in DOMAIN jobs : jobs[k] = [kind |-> "install", owner |-> i] /\ JobFailed(k)
  /\ inst[i] \in {"partial", "failed"}
  /\ inst' = [inst EXCEPT ![i] = "installing"]
  /\ instNode' = [instNode EXCEPT ![i] = [n \in Nodes |-> "planned"]]
  /\ QueueAfter(op, "install", i, NodesOf[i])
  /\ UNCHANGED <<run, route, runNode, reserved, bundle, worker, requests,
                 doing, disk>>

\* Fault: the port is not looked up among the active reservations.
AdmittedOnAnyPort(r) ==
  LET i == InstallationOf[r]
  IN  inst[i] = "installed" /\ \A n \in NodesOf[i] : instNode[i][n] = "installed"

\* plan_run and accept_run_in_session: installed on every mapped node, and no
\* active reservation of the port on any of them.  Left out are two tests that
\* only refuse more: the rendezvous port 29500 of a run of several nodes, and
\* the memory each node must have free (run_admission.py 222-252, 433-450,
\* 484-502).
Admitted(r) ==
  LET i == InstallationOf[r]
  IN  /\ inst[i] = "installed"
      /\ \A n \in NodesOf[i] : instNode[i][n] = "installed"
      /\ \A s \in reserved :
           PortOf[InstallationOf[s]] = PortOf[i] => RunNodesOf(s) \cap NodesOf[i] = {}

Start(r) ==
  /\ Requestable
  /\ run[r] = "absent"
  /\ Admitted(r)
  /\ run' = [run EXCEPT ![r] = "starting"]
  /\ reserved' = reserved \cup {r}
  /\ QueueAfter(op, "start", r, RunNodesOf(r))
  /\ UNCHANGED <<inst, instNode, route, runNode, bundle, worker, requests,
                 doing, disk>>

\* uninstall reads the rows in one transaction ...
UninstallCheck(i) ==
  /\ Requestable
  /\ \A r \in Runs : InstallationOf[r] = i => run[r] \in {"absent", "stopped"}
  /\ inst[i] \in {"installed", "partial", "failed"}
  /\ removing' = removing \cup {i}
  /\ UNCHANGED <<rows, queue, bundle, worker, stopping, doing, disk>>

\* ... and queues the job in the next one.
UninstallQueue(i) ==
  /\ i \in removing
  /\ removing' = removing \ {i}
  /\ QueueAfter(op, "uninstall", i, NodesOf[i])
  /\ UNCHANGED <<rows, bundle, worker, stopping, doing, disk>>

-----------------------------------------------------------------------------
(* Routes.                                                                 *)

Running(exclude) == {r \in Runs \ exclude : run[r] = "running"}

\* _candidate raises: two runs share an alias, a rank is not running, or the
\* evidence of a rank is stale.
CandidateFails(exclude) ==
  \E r \in Running(exclude) :
    \/ \E s \in Running(exclude) \ {r} : AliasOf[s] = AliasOf[r]
    \/ \E n \in RunNodesOf(r) : runNode[r][n] # "running"
    \/ r \in stale

StartJob(r) == CHOOSE k \in DOMAIN jobs : jobs[k] = [kind |-> "start", owner |-> r]

\* RecipeOperationWorker.tick: the oldest running run with a pending route
NextPending(r) ==
  /\ run[r] = "running"
  /\ route[r] = "pending"
  /\ \A s \in Runs \ {r} :
       run[s] = "running" /\ route[s] = "pending" => StartJob(r) < StartJob(s)

\* publish_run finds no valid candidate and the worker records the failure.
WorkerFails(r) ==
  /\ worker.at = "idle"
  /\ NextPending(r)
  /\ CandidateFails({})
  /\ route' = [route EXCEPT ![r] = "failed"]
  /\ UNCHANGED <<inst, instNode, run, runNode, reserved, queue, bundle, worker,
                 requests, doing, disk>>

\* publish_run: the candidate with every running run ...
WorkerCandidate(r) ==
  /\ worker.at = "idle"
  /\ NextPending(r)
  /\ ~ CandidateFails({})
  /\ worker' = [at |-> "publish", run |-> r, routes |-> Running({})]
  /\ UNCHANGED <<rows, queue, bundle, requests, doing, disk>>

\* ... is activated under the file lock, whatever was activated meanwhile, ...
WorkerPublish ==
  /\ worker.at = "publish"
  /\ live' = worker.routes
  /\ worker' = [worker EXCEPT !.at = "check"]
  /\ UNCHANGED <<rows, queue, stale, requests, doing, disk>>

\* ... unless the publication fails, before the marker is replaced or, without
\* the supervisor's acknowledgement, after it; the worker records that, ...
WorkerPublishFails ==
  /\ worker.at = "publish"
  /\ live' \in {live, worker.routes}
  /\ worker' = NoPublication
  /\ route' = [route EXCEPT ![worker.run] = IF @ = "pending" THEN "failed" ELSE @]
  /\ UNCHANGED <<inst, instNode, run, runNode, reserved, queue, stale,
                 requests, doing, disk>>

\* ... the run is read again ...
WorkerCheck ==
  /\ worker.at = "check"
  /\ IF run[worker.run] = "running"
     THEN worker' = [worker EXCEPT !.at = "write"] /\ UNCHANGED route
     ELSE /\ worker' = NoPublication
          /\ route' = [route EXCEPT ![worker.run] = IF @ = "pending" THEN "failed" ELSE @]
  /\ UNCHANGED <<inst, instNode, run, runNode, reserved, queue, bundle,
                 requests, doing, disk>>

\* ... and its route state is written.
WorkerWrite ==
  /\ worker.at = "write"
  /\ route' = [route EXCEPT ![worker.run] = "published"]
  /\ worker' = NoPublication
  /\ UNCHANGED <<inst, instNode, run, runNode, reserved, queue, bundle,
                 requests, doing, disk>>

WorkerRestart ==
  /\ worker.at # "idle"
  /\ worker' = NoPublication
  /\ UNCHANGED <<rows, queue, bundle, requests, doing, disk>>

Worker == (\E r \in Runs : WorkerFails(r) \/ WorkerCandidate(r))
            \/ WorkerPublish \/ WorkerPublishFails \/ WorkerCheck \/ WorkerWrite

Stoppable(r) == run[r] \in {"starting", "running", "failed"}

\* stop: the run is stoppable, and withdraw_run computes the bundle without it;
\* a candidate that fails fails the request.
StopCandidate(r) ==
  /\ stopping[r].at = "idle"
  /\ Requestable
  /\ Stoppable(r)
  /\ ~ CandidateFails({r})
  /\ stopping' = [stopping EXCEPT ![r] = [at |-> "withdraw", routes |-> Running({r})]]
  /\ UNCHANGED <<rows, queue, bundle, worker, removing, doing, disk>>

\* withdraw_run activates that bundle ...
StopWithdraw(r) ==
  /\ stopping[r].at = "withdraw"
  /\ live' = stopping[r].routes
  /\ stopping' = [stopping EXCEPT ![r] = [at |-> "withdrawn", routes |-> {}]]
  /\ UNCHANGED <<rows, queue, stale, worker, removing, doing, disk>>

\* ... unless the publication fails, which ends the request, ...
StopWithdrawFails(r) ==
  /\ stopping[r].at = "withdraw"
  /\ live' \in {live, stopping[r].routes}
  /\ stopping' = [stopping EXCEPT ![r] = NoStop]
  /\ UNCHANGED <<rows, queue, stale, worker, removing, doing, disk>>

\* ... and records it.
StopWithdrawn(r) ==
  /\ stopping[r].at = "withdrawn"
  /\ route' = [route EXCEPT ![r] = "withdrawn"]
  /\ stopping' = [stopping EXCEPT ![r].at = "commit"]
  /\ UNCHANGED <<inst, instNode, run, runNode, reserved, queue, bundle, worker,
                 removing, doing, disk>>

\* stop, second transaction: the job is queued unless the run has stopped
\* being stoppable.
StopCommit(r) ==
  /\ stopping[r].at = "commit"
  /\ stopping' = [stopping EXCEPT ![r] = NoStop]
  /\ IF Stoppable(r)
     THEN /\ run' = [run EXCEPT ![r] = "stopping"]
          /\ route' = [route EXCEPT ![r] = "withdrawn"]
          /\ QueueAfter(op, "stop", r, RunNodesOf(r))
     ELSE UNCHANGED <<run, route, jobs, op>>
  /\ UNCHANGED <<inst, instNode, runNode, reserved, bundle, worker, removing,
                 doing, disk>>

\* The API process restarts and its requests end where they are.
ApiRestart ==
  /\ removing # {} \/ \E r \in Runs : stopping[r].at # "idle"
  /\ stopping' = [r \in Runs |-> NoStop]
  /\ removing' = {}
  /\ UNCHANGED <<rows, queue, bundle, worker, doing, disk>>

\* Five minutes after a rank of the run reported ready its evidence is stale;
\* nothing renews it.
Age(r) ==
  /\ r \notin stale
  /\ \E n \in RunNodesOf(r) : runNode[r][n] = "running"
  /\ stale' = stale \cup {r}
  /\ UNCHANGED <<rows, queue, live, worker, requests, doing, disk>>

\* A bundle expires five minutes after its activation, hence not before the
\* evidence it was built from.
BundleExpires ==
  /\ live # {}
  /\ live \subseteq stale
  /\ live' = {}
  /\ UNCHANGED <<rows, queue, stale, worker, requests, doing, disk>>

-----------------------------------------------------------------------------
(* The agents.                                                             *)

\* _claim_once: the oldest queued operation of the node, none while another
\* one is running.
Oldest(n, k) ==
  /\ op[k][n] = "queued"
  /\ \A j \in DOMAIN jobs : op[j][n] # "running"
  /\ \A j \in DOMAIN jobs : j < k => op[j][n] # "queued"

Claim(n, k) ==
  /\ doing[n].job = 0
  /\ Oldest(n, k)
  /\ op' = [op EXCEPT ![k][n] = "running"]
  /\ doing' = [doing EXCEPT ![n] = [job |-> k, result |-> "none"]]
  /\ UNCHANGED <<rows, jobs, bundle, worker, requests, disk>>

\* The idle agent polls after the lease of its operation ran out.
Expire(n, k) ==
  /\ doing[n].job = 0
  /\ op[k][n] = "running"
  /\ op' = [op EXCEPT ![k][n] = "waiting-for-operator"]
  /\ UNCHANGED <<rows, jobs, bundle, worker, requests, doing, disk>>

Member(set, n, present) == IF present THEN set \cup {n} ELSE set \ {n}

\* OciRuntime::install
InstallOnNode(n, i, succeeds) ==
  /\ \E kept \in BOOLEAN :
       /\ (succeeds => kept) /\ (n \in files[i] => kept)
       /\ files' = [files EXCEPT ![i] = Member(@, n, kept)]
  /\ UNCHANGED <<up, lifecycle>>

\* OciRuntime::start and wait_ready.  Without the installation it fails at
\* once; a failure after that may or may not leave the container behind.
StartOnNode(n, r, succeeds) ==
  LET i == InstallationOf[r]
  IN  /\ succeeds => n \in files[i]
      /\ \E made, written \in BOOLEAN :
           /\ succeeds => made
           /\ made => written
           /\ written => n \in files[i]
           /\ up' = [up EXCEPT ![r] = IF made THEN @ \cup {n} ELSE @]
           /\ lifecycle' = [lifecycle EXCEPT ![r] = IF written THEN @ \cup {n} ELSE @]
      /\ UNCHANGED files

\* OciRuntime::stop.  It loads the installation's specification if the run left
\* a lifecycle record, and fails without it; a failing hook comes after the
\* removal of the container.
StopOnNode(n, r, succeeds) ==
  LET i == InstallationOf[r]
      Loads == n \in lifecycle[r] => n \in files[i]
  IN  /\ succeeds => Loads
      /\ \E removed \in BOOLEAN :
           /\ succeeds => removed
           /\ removed => Loads
           /\ up' = [up EXCEPT ![r] = IF removed THEN @ \ {n} ELSE @]
      /\ UNCHANGED <<files, lifecycle>>

\* OciRuntime::uninstall
UninstallOnNode(n, i, succeeds) ==
  /\ succeeds => n \in files[i]
  /\ \E kept \in BOOLEAN :
       /\ (succeeds => ~ kept) /\ (kept => n \in files[i])
       /\ files' = [files EXCEPT ![i] = Member(@, n, kept)]
  /\ UNCHANGED <<up, lifecycle>>

\* RecipeExecutor::execute
OnNode(n, k, succeeds) ==
  LET job == jobs[k]
  IN  CASE job.kind = "install"   -> InstallOnNode(n, job.owner, succeeds)
        [] job.kind = "start"     -> StartOnNode(n, job.owner, succeeds)
        [] job.kind = "stop"      -> StopOnNode(n, job.owner, succeeds)
        [] job.kind = "uninstall" -> UninstallOnNode(n, job.owner, succeeds)

Executing(n) == doing[n].job # 0 /\ doing[n].result = "none"

Execute(n) ==
  /\ Executing(n)
  /\ \E succeeds \in BOOLEAN :
       /\ OnNode(n, doing[n].job, succeeds)
       /\ doing' = [doing EXCEPT ![n] =
            [job |-> @.job, result |-> IF succeeds THEN "succeeded" ELSE "failed"]]
  /\ UNCHANGED <<rows, queue, bundle, worker, requests>>

\* The agent dies while it executes: like a failure that nobody reports.
Crash(n) ==
  /\ Executing(n)
  /\ OnNode(n, doing[n].job, FALSE)
  /\ doing' = [doing EXCEPT ![n] = Idle]
  /\ UNCHANGED <<rows, queue, bundle, worker, requests>>

\* The result is refused, or reaches the controller after the lease.
Refused(n) ==
  /\ doing[n].result # "none"
  /\ doing' = [doing EXCEPT ![n] = Idle]
  /\ UNCHANGED <<rows, queue, bundle, worker, requests, disk>>

-----------------------------------------------------------------------------
(* Results (_project_node_result).                                         *)

Reported(n, k, kind) ==
  /\ doing[n].job = k
  /\ doing[n].result # "none"
  /\ jobs[k].kind = kind
  /\ doing' = [doing EXCEPT ![n] = Idle]

Succeeded(n) == doing[n].result = "succeeded"

\* The operations with this result in them.
WithResult(n, k) == [op EXCEPT ![k][n] = doing[n].result]

Terminal(ops, k) == \A n \in Nodes : ops[k][n] \in TerminalOpStates
AnyFailed(ops, k) == \E n \in Nodes : ops[k][n] = "failed"

RecordInstall(n, k) ==
  LET i == jobs[k].owner
  IN  /\ Reported(n, k, "install")
      /\ op' = WithResult(n, k)
      /\ instNode' = [instNode EXCEPT ![i][n] = IF Succeeded(n) THEN "installed" ELSE "failed"]
      /\ inst' = [inst EXCEPT ![i] =
           IF ~ Terminal(op', k) THEN @
           ELSE IF AnyFailed(op', k) THEN "partial" ELSE "installed"]
      /\ UNCHANGED <<run, route, runNode, reserved, jobs, bundle, worker,
                     requests, disk>>

\* Fault: the first rank that is ready makes the run ready.
RecordStartFirstRank(n, k) ==
  LET r == jobs[k].owner
  IN  /\ Reported(n, k, "start")
      /\ Succeeded(n)
      /\ op' = WithResult(n, k)
      /\ runNode' = [runNode EXCEPT ![r] = [m \in Nodes |-> "running"]]
      /\ run' = [run EXCEPT ![r] = "running"]
      /\ route' = [route EXCEPT ![r] = "pending"]
      /\ UNCHANGED <<inst, instNode, reserved, jobs, bundle, worker, requests, disk>>

\* The last result of a start makes the run "running" with a pending route, or,
\* if a rank failed, queues a stop on every rank.
RecordStart(n, k) ==
  LET r == jobs[k].owner
      ops == WithResult(n, k)
  IN  /\ Reported(n, k, "start")
      /\ runNode' = [runNode EXCEPT ![r][n] = IF Succeeded(n) THEN "running" ELSE "failed"]
      /\ \/ /\ ~ Terminal(ops, k)
            /\ op' = ops
            /\ UNCHANGED <<run, route, jobs>>
         \/ /\ Terminal(ops, k)
            /\ AnyFailed(ops, k)
            /\ run' = [run EXCEPT ![r] = "stopping"]
            /\ route' = [route EXCEPT ![r] = "withdrawn"]
            /\ QueueAfter(ops, "stop", r, RunNodesOf(r))
         \/ /\ Terminal(ops, k)
            /\ ~ AnyFailed(ops, k)
            /\ run' = [run EXCEPT ![r] = "running"]
            /\ route' = [route EXCEPT ![r] = "pending"]
            /\ op' = ops
            /\ UNCHANGED jobs
      /\ UNCHANGED <<inst, instNode, reserved, bundle, worker, requests, disk>>

\* Fault: the reservations are released although a rank failed to stop.
RecordStopReleasing(n, k) ==
  LET r == jobs[k].owner
  IN  /\ Reported(n, k, "stop")
      /\ op' = WithResult(n, k)
      /\ runNode' = [runNode EXCEPT ![r][n] = IF Succeeded(n) THEN "stopped" ELSE "failed"]
      /\ run' = [run EXCEPT ![r] =
           IF ~ Terminal(op', k) THEN @
           ELSE IF AnyFailed(op', k) THEN "failed" ELSE "stopped"]
      /\ reserved' = IF Terminal(op', k) THEN reserved \ {r} ELSE reserved
      /\ UNCHANGED <<inst, instNode, route, jobs, bundle, worker, requests, disk>>

\* Fault: a rank that failed to stop leaves the run "stopping".
RecordStopSuccessOnly(n, k) ==
  LET r == jobs[k].owner
      Done == Terminal(op', k) /\ ~ AnyFailed(op', k)
  IN  /\ Reported(n, k, "stop")
      /\ op' = WithResult(n, k)
      /\ runNode' = [runNode EXCEPT ![r][n] = IF Succeeded(n) THEN "stopped" ELSE "failed"]
      /\ run' = [run EXCEPT ![r] = IF Done THEN "stopped" ELSE @]
      /\ reserved' = IF Done THEN reserved \ {r} ELSE reserved
      /\ UNCHANGED <<inst, instNode, route, jobs, bundle, worker, requests, disk>>

RecordStop(n, k) ==
  LET r == jobs[k].owner
      Done == Terminal(op', k) /\ ~ AnyFailed(op', k)
  IN  /\ Reported(n, k, "stop")
      /\ op' = WithResult(n, k)
      /\ runNode' = [runNode EXCEPT ![r][n] = IF Succeeded(n) THEN "stopped" ELSE "failed"]
      /\ run' = [run EXCEPT ![r] =
           IF ~ Terminal(op', k) THEN @ ELSE IF Done THEN "stopped" ELSE "failed"]
      /\ reserved' = IF Done THEN reserved \ {r} ELSE reserved
      /\ UNCHANGED <<inst, instNode, route, jobs, bundle, worker, requests, disk>>

RecordUninstall(n, k) ==
  LET i == jobs[k].owner
  IN  /\ Reported(n, k, "uninstall")
      /\ op' = WithResult(n, k)
      /\ instNode' = [instNode EXCEPT ![i][n] = IF Succeeded(n) THEN "uninstalled" ELSE "failed"]
      /\ inst' = [inst EXCEPT ![i] =
           IF ~ Terminal(op', k) THEN @
           ELSE IF AnyFailed(op', k) THEN "failed" ELSE "uninstalled"]
      /\ UNCHANGED <<run, route, runNode, reserved, jobs, bundle, worker,
                     requests, disk>>

Record(n, k) ==
  RecordInstall(n, k) \/ RecordStart(n, k) \/ RecordStop(n, k) \/ RecordUninstall(n, k)

-----------------------------------------------------------------------------
Next ==
  \/ \E i \in Installations :
       Install(i) \/ Retry(i) \/ UninstallCheck(i) \/ UninstallQueue(i)
  \/ \E r \in Runs :
       \/ Start(r) \/ StopCandidate(r) \/ StopWithdraw(r) \/ StopWithdrawFails(r)
       \/ StopWithdrawn(r) \/ StopCommit(r) \/ Age(r)
  \/ Worker
  \/ WorkerRestart
  \/ ApiRestart
  \/ BundleExpires
  \/ \E n \in Nodes :
       \/ \E k \in DOMAIN jobs : Claim(n, k) \/ Expire(n, k) \/ Record(n, k)
       \/ Execute(n) \/ Crash(n) \/ Refused(n)

Spec == Init /\ [][Next]_vars

-----------------------------------------------------------------------------
(* Correctness.                                                            *)

Pending(r) == run[r] = "running" /\ route[r] = "pending"

TypeOK ==
  /\ inst \in [Installations -> {"absent", "installing", "installed", "partial",
                                 "failed", "uninstalled"}]
  /\ instNode \in [Installations -> [Nodes -> {"planned", "installed", "failed",
                                               "uninstalled"}]]
  /\ run \in [Runs -> {"absent", "starting", "running", "stopping", "stopped",
                        "failed"}]
  /\ route \in [Runs -> {"withdrawn", "pending", "published", "failed"}]
  /\ runNode \in [Runs -> [Nodes -> {"planned", "running", "stopped", "failed"}]]
  /\ reserved \subseteq Runs
  /\ jobs \in Seq([kind : InstallKinds, owner : Installations]
                    \cup [kind : {"start", "stop"}, owner : Runs])
  /\ op \in Seq([Nodes -> OpStates])
  /\ Len(op) = Len(jobs)
  /\ stale \subseteq Runs
  /\ live \subseteq Runs
  /\ worker \in {NoPublication} \cup
       [at : {"publish", "check", "write"}, run : Runs, routes : SUBSET Runs]
  /\ stopping \in [Runs -> [at : {"idle", "withdraw", "withdrawn", "commit"},
                             routes : SUBSET Runs]]
  /\ removing \subseteq Installations
  /\ doing \in [Nodes -> [job : Nat, result : {"none", "succeeded", "failed"}]]
  /\ \A n \in Nodes : doing[n].job \in 0..Len(jobs)
  /\ files \in [Installations -> SUBSET Nodes]
  /\ up \in [Runs -> SUBSET Nodes]
  /\ lifecycle \in [Runs -> SUBSET Nodes]

\* A run keeps its memory and port reservations for as long as one of its
\* containers exists, also after failed, interrupted or repeated starts and
\* stops: they are given up only on the stop evidence of every rank (_release
\* under recipe.stop), and no start can run behind that evidence.
ReservationHeld ==
  \A r \in Runs : up[r] # {} => r \in reserved

\* Two containers never claim the same port of a node, although the port is
\* looked up among reservations and not on the node (accept_run_in_session).
PortsExclusive ==
  \A r, s \in Runs :
    /\ r # s
    /\ PortOf[InstallationOf[r]] = PortOf[InstallationOf[s]]
    => up[r] \cap up[s] = {}

\* Whatever candidate is activated, and however late, the bundle routes only
\* runs whose start succeeded on every rank; a gang that came up in part is
\* never routed (_candidate, _project_node_result).
GangRouted ==
  \A r \in live : \A n \in RunNodesOf(r) : op[StartJob(r)][n] = "succeeded"

\* The node has taken an uninstall and completed no install after it.
UninstalledSince(i, n) ==
  \E u \in DOMAIN jobs :
    /\ jobs[u] = [kind |-> "uninstall", owner |-> i]
    /\ op[u][n] \notin {"none", "queued"}
    /\ \A k \in DOMAIN jobs :
         jobs[k] = [kind |-> "install", owner |-> i] /\ op[k][n] = "succeeded" => k < u

\* A rank that the controller believes installed, and admits runs on, is really
\* there, until the node takes an uninstall; retries, crashes and lost results
\* on the way do not matter (_project_node_result, plan_run).
InstalledIsReal ==
  \A i \in Installations : \A n \in NodesOf[i] :
    instNode[i][n] = "installed" /\ ~ UninstalledSince(i, n) => n \in files[i]

\* The rows are well formed, a route is published only for a run all of whose
\* ranks were started, and what counts as installed is on the node
\* (_candidate, _project_node_result, plan_run).
GangSound ==
  /\ TypeOK
  /\ GangRouted
  /\ InstalledIsReal

\* "Route removal is deliberately synchronous and precedes creation of stop
\* work.  If withdrawal fails, no stop command can race a live route."
\* (recipe_operations.py, stop)
RouteWithdrawnBeforeStop ==
  \A k \in DOMAIN jobs : \A n \in Nodes :
    jobs[k].kind = "stop" /\ op[k][n] \in {"queued", "running"}
      => jobs[k].owner \notin live

-----------------------------------------------------------------------------
(* Liveness.  The worker's loop and the agents' loops run forever; a restart *)
(* of the worker does not hit the same step every time.                    *)

Agents ==
  \A n \in Nodes :
    WF_vars(\/ Execute(n)
            \/ \E k \in DOMAIN jobs : Claim(n, k) \/ Expire(n, k) \/ Record(n, k))

Workers ==
  /\ \A r \in Runs : SF_vars(WorkerFails(r)) /\ SF_vars(WorkerCandidate(r))
  /\ SF_vars(WorkerPublish) /\ SF_vars(WorkerCheck) /\ SF_vars(WorkerWrite)

Fairness == Agents /\ Workers
FairSpec == Spec /\ Fairness

\* A pending route is published, refused or withdrawn in the end, although the
\* worker may be restarted between any two of its steps (tick).
RouteSettles ==
  \A r \in Runs : Pending(r) ~> ~ Pending(r)

Parked(r) ==
  \E k \in DOMAIN jobs, n \in Nodes :
    jobs[k].owner = r /\ op[k][n] = "waiting-for-operator"

\* Once stop work is queued for a run, by a request or as the cleanup of a
\* failed start, the run comes to "stopped" or "failed", unless one of its
\* operations is parked for an operator; it does not stay "stopping", a state
\* in which no further stop is accepted (_project_node_result).
StopsFinish ==
  \A r \in Runs :
    run[r] = "stopping" ~> run[r] \in {"stopped", "failed"} \/ Parked(r)

=============================================================================
