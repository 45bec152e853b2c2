------------------------------ MODULE AgentJobs ------------------------------
(***************************************************************************)
(* The durable queue of agent operations                                   *)
(* (control/src/vonk_control/agent_jobs.py, class AgentJobService).        *)
(*                                                                         *)
(* A parent job owns operations; each operation is addressed to one node.  *)
(* A node agent polls for work and receives at most one fenced, leased     *)
(* attempt per poll.  It may extend the lease and it reports one result    *)
(* for the attempt.  An attempt whose lease has run out is noticed by the  *)
(* node's next poll: operations that only read are attempted again, every  *)
(* other kind is parked until an operator decides.                         *)
(*                                                                         *)
(* Every service method runs in one database transaction that first locks  *)
(* the node row (or, for a result, the node, the operation and the attempt *)
(* rows), so each method is one atomic action.  The fence of an attempt is *)
(* a fresh UUID: here it is the pair (operation, attempt number).          *)
(*                                                                         *)
(* The module covers parents that are neither reconciliations nor platform *)
(* updates: recipe, package and validation jobs.                           *)
(***************************************************************************)
EXTENDS Integers, FiniteSets

CONSTANTS
  Nodes,          \* agent nodes
  Jobs,           \* parent jobs
  Operations,     \* operation identifiers; their order is the order of ids
  NodeOf,         \* the node an operation is addressed to
  ParentOf,       \* the job an operation belongs to
  Mutating,       \* operations whose kind is not safe to reclaim
  Capabilities,   \* the sets of operations whose kind a poll may advertise
  Leases,         \* lease lengths a poll or a heartbeat asks for
  MaxAttempts,    \* bound: attempts per operation
  MaxTime,        \* bound: clock
  MaxSerial       \* bound: certificate generations per node

ASSUME AgentJobsAssumption ==
  /\ Operations \subseteq Nat
  /\ NodeOf \in [Operations -> Nodes]
  /\ ParentOf \in [Operations -> Jobs]
  /\ Mutating \subseteq Operations
  /\ Capabilities \subseteq SUBSET Operations
  /\ Leases \subseteq Nat \ {0}
  /\ MaxAttempts \in Nat \ {0}
  /\ MaxTime \in Nat
  /\ MaxSerial \in Nat \ {0}

VARIABLES
  now,           \* the controller's clock
  serial,        \* active certificate generation of a node, 0 once revoked
  jobState,      \* Job.state
  opState,       \* AgentOperation.state
  created,       \* AgentOperation.created_at
  current,       \* AgentOperation.current_attempt
  retry,         \* AgentOperation.retry_disposition_attempt, 0 for none
  attemptState,  \* AgentOperationAttempt.state, by operation and number
  deadline,      \* lease_deadline of the operation's live attempt, 0 for none
  claimedBy,     \* agent_certificate_serial of the live attempt, 0 for none
  grants         \* history: retries the operator granted to the operation

clockVars == <<now, serial>>
attemptVars == <<attemptState, deadline, claimedBy>>
vars == <<now, serial, jobState, opState, created, current, retry,
          attemptState, deadline, claimedBy, grants>>

Attempts == 1..MaxAttempts

Results == {"succeeded", "failed", "waiting-for-operator"}

JobStates == {"absent", "queued", "running"} \cup Results

OpStates == {"absent", "queued", "running"} \cup Results

AttemptStates == {"absent", "running", "expired"} \cup Results

TerminalParentStates == {"succeeded", "failed", "waiting-for-operator", "expired"}

Init ==
  /\ now = 0
  /\ serial = [n \in Nodes |-> 1]
  /\ jobState = [j \in Jobs |-> "absent"]
  /\ opState = [o \in Operations |-> "absent"]
  /\ created = [o \in Operations |-> 0]
  /\ current = [o \in Operations |-> 0]
  /\ retry = [o \in Operations |-> 0]
  /\ attemptState = [o \in Operations |-> [k \in Attempts |-> "absent"]]
  /\ deadline = [o \in Operations |-> 0]
  /\ claimedBy = [o \in Operations |-> 0]
  /\ grants = [o \in Operations |-> 0]

-----------------------------------------------------------------------------
(* Helpers of the service.                                                 *)

\* The operations of a parent that exist, in the given states.
ChildrenOf(j, ops) == {o \in Operations : ParentOf[o] = j /\ ops[o] # "absent"}

\* _aggregate_parent: a parent gets its verdict once all its operations are
\* settled; failure outranks waiting, waiting outranks success.
Aggregated(jobs, ops, j) ==
  LET states == {ops[o] : o \in ChildrenOf(j, ops)}
  IN  IF states = {} \/ ~ (states \subseteq Results) THEN jobs
      ELSE [jobs EXCEPT ![j] =
              IF "failed" \in states THEN "failed"
              ELSE IF "waiting-for-operator" \in states
                   THEN "waiting-for-operator"
                   ELSE "succeeded"]

\* The current attempt's lease has run out without a result.
LeaseExpired(o) ==
  /\ opState[o] = "running"
  /\ attemptState[o][current[o]] = "running"
  /\ deadline[o] <= now

RetryGranted(o) ==
  /\ opState[o] = "waiting-for-operator"
  /\ retry[o] = current[o]

\* The three ways an operation can be a candidate for a poll.
Claimable(o) ==
  \/ opState[o] = "queued" /\ current[o] = 0
  \/ LeaseExpired(o)
  \/ RetryGranted(o)

Candidates(n) == {o \in Operations : NodeOf[o] = n /\ Claimable(o)}

\* ORDER BY created_at, id
Older(o, p) ==
  \/ created[o] < created[p]
  \/ created[o] = created[p] /\ o < p

OldestCandidate(n, o) ==
  /\ o \in Candidates(n)
  /\ \A p \in Candidates(n) \ {o} : Older(o, p)

\* A granted retry reopens a parent that is itself waiting.
Reopens(o) ==
  /\ RetryGranted(o)
  /\ jobState[ParentOf[o]] = "waiting-for-operator"

Reopened(o) ==
  IF Reopens(o) THEN [jobState EXCEPT ![ParentOf[o]] = "queued"] ELSE jobState

HasAuthority(o) ==
  Reopens(o) \/ jobState[ParentOf[o]] \notin TerminalParentStates

\* Fault: a poll does not look at the other operations of the node.
BlockedByCapabilityOnly(o, caps) == o \notin caps

\* The oldest candidate cannot be handed out: its kind is not advertised, or
\* it mutates the node while another mutation of the node is running.
Blocked(o, caps) ==
  \/ o \notin caps
  \/ /\ o \in Mutating
     /\ \E p \in Mutating \ {o} : NodeOf[p] = NodeOf[o] /\ opState[p] = "running"

\* _active: the attempt is the current one, it is running under a live lease,
\* and the certificate it was claimed with is still the node's active one.
ActiveAttempt(o, k) ==
  /\ k = current[o]
  /\ attemptState[o][k] = "running"
  /\ deadline[o] > now
  /\ claimedBy[o] = serial[NodeOf[o]]

\* No attempt of the operation is live any more: nothing reads its lease again.
Released(o) ==
  /\ deadline' = [deadline EXCEPT ![o] = 0]
  /\ claimedBy' = [claimedBy EXCEPT ![o] = 0]

-----------------------------------------------------------------------------
(* Operations of the service.                                              *)

\* A workflow opens a parent job; recipe, package and validation workflows
\* create it in state "running".
OpenParent(j) ==
  /\ jobState[j] = "absent"
  /\ jobState' = [jobState EXCEPT ![j] = "running"]
  /\ UNCHANGED <<clockVars, opState, created, current, retry, attemptVars, grants>>

\* Fault: operations may be added beneath a parent that has its verdict.
EnqueueBeneathAnyParent(o) ==
  /\ opState[o] = "absent"
  /\ serial[NodeOf[o]] > 0
  /\ jobState[ParentOf[o]] # "absent"
  /\ opState' = [opState EXCEPT ![o] = "queued"]
  /\ created' = [created EXCEPT ![o] = now]
  /\ UNCHANGED <<clockVars, jobState, current, retry, attemptVars, grants>>

\* enqueue_in_session
Enqueue(o) ==
  /\ opState[o] = "absent"
  /\ serial[NodeOf[o]] > 0
  /\ jobState[ParentOf[o]] \notin {"absent"} \cup TerminalParentStates
  /\ opState' = [opState EXCEPT ![o] = "queued"]
  /\ created' = [created EXCEPT ![o] = now]
  /\ UNCHANGED <<clockVars, jobState, current, retry, attemptVars, grants>>

\* The head of the node's queue is examined by a poll with a live certificate.
Polled(n, o) ==
  /\ serial[n] > 0
  /\ OldestCandidate(n, o)
  /\ HasAuthority(o)

\* The poll returns nothing.  A parent reopened on the way stays reopened.
ClaimBlocked(n, o, caps) ==
  /\ Polled(n, o)
  /\ Blocked(o, caps)
  /\ jobState' = Reopened(o)
  /\ UNCHANGED <<clockVars, opState, created, current, retry, attemptVars, grants>>

\* The poll finds an expired mutation and parks it.
ExpireUnsafe(n, o, caps) ==
  /\ Polled(n, o)
  /\ ~ Blocked(o, caps)
  /\ opState[o] = "running"
  /\ o \in Mutating
  /\ attemptState' = [attemptState EXCEPT ![o][current[o]] = "expired"]
  /\ opState' = [opState EXCEPT ![o] = "waiting-for-operator"]
  /\ retry' = [retry EXCEPT ![o] = 0]
  /\ Released(o)
  /\ jobState' = Aggregated(jobState, opState', ParentOf[o])
  /\ UNCHANGED <<clockVars, created, current, grants>>

\* The poll is answered with a new attempt; the previous one, if any, expires.
StartAttempt(n, o, caps, lease) ==
  /\ Polled(n, o)
  /\ ~ Blocked(o, caps)
  /\ ~ (opState[o] = "running" /\ o \in Mutating)
  /\ current[o] < MaxAttempts
  /\ LET k == current[o] + 1
     IN  /\ current' = [current EXCEPT ![o] = k]
         /\ attemptState' = [attemptState EXCEPT ![o] =
              [i \in Attempts |-> IF i = k THEN "running"
                                  ELSE IF i = k - 1 THEN "expired" ELSE @[i]]]
         /\ deadline' = [deadline EXCEPT ![o] = now + lease]
         /\ claimedBy' = [claimedBy EXCEPT ![o] = serial[n]]
  /\ opState' = [opState EXCEPT ![o] = "running"]
  /\ jobState' = Reopened(o)
  /\ UNCHANGED <<clockVars, created, retry, grants>>

\* A poll that changes nothing: no live certificate, no candidate, or a head
\* whose parent no longer authorises it.
ClaimNothing(n) ==
  /\ \A o \in Operations : ~ Polled(n, o)
  /\ UNCHANGED vars

\* claim / _claim_once
Claim(n, o, caps, lease) ==
  \/ ClaimBlocked(n, o, caps)
  \/ ExpireUnsafe(n, o, caps)
  \/ StartAttempt(n, o, caps, lease)

\* heartbeat: the lease never gets shorter
Heartbeat(o, k, lease) ==
  /\ ActiveAttempt(o, k)
  /\ deadline' = [deadline EXCEPT ![o] = IF now + lease > @ THEN now + lease ELSE @]
  /\ UNCHANGED <<clockVars, jobState, opState, created, current, retry,
                 attemptState, claimedBy, grants>>

\* Fault: a result is accepted by its fence alone.
FinishWithoutFence(o, k, result) ==
  /\ attemptState[o][k] # "absent"
  /\ attemptState' = [attemptState EXCEPT ![o][k] = result]
  /\ opState' = [opState EXCEPT ![o] = result]
  /\ Released(o)
  /\ jobState' = Aggregated(jobState, opState', ParentOf[o])
  /\ UNCHANGED <<clockVars, created, current, retry, grants>>

\* record_result / _finish
Finish(o, k, result) ==
  /\ ActiveAttempt(o, k)
  /\ attemptState' = [attemptState EXCEPT ![o][k] = result]
  /\ opState' = [opState EXCEPT ![o] = result]
  /\ Released(o)
  /\ jobState' = Aggregated(jobState, opState', ParentOf[o])
  /\ UNCHANGED <<clockVars, created, current, retry, grants>>

-----------------------------------------------------------------------------
(* Actors around the service.                                              *)

\* The operator grants one more attempt to a parked operation.  No code of the
\* control plane writes retry_disposition: the decision enters from outside.
GrantRetry(o) ==
  /\ opState[o] = "waiting-for-operator"
  /\ retry[o] # current[o]
  /\ current[o] < MaxAttempts
  /\ retry' = [retry EXCEPT ![o] = current[o]]
  /\ grants' = [grants EXCEPT ![o] = @ + 1]
  /\ UNCHANGED <<clockVars, jobState, opState, created, current, attemptVars>>

\* JobService.quarantine_unlinked, run by the worker on every queued job that
\* is neither a reconciliation nor a platform update.
QuarantineUnlinked(j) ==
  /\ jobState[j] = "queued"
  /\ jobState' = [jobState EXCEPT ![j] = "waiting-for-operator"]
  /\ UNCHANGED <<clockVars, opState, created, current, retry, attemptVars, grants>>

\* resume_job, on the operator's request
ResumeJob(j) ==
  /\ jobState[j] = "waiting-for-operator"
  /\ jobState' = [jobState EXCEPT ![j] = "queued"]
  /\ UNCHANGED <<clockVars, opState, created, current, retry, attemptVars, grants>>

\* EnrollmentService.activate: the next certificate generation of the node
\* becomes active and every older one is revoked.
RotateCertificate(n) ==
  /\ serial[n] \in 1..MaxSerial - 1
  /\ serial' = [serial EXCEPT ![n] = @ + 1]
  /\ UNCHANGED <<now, jobState, opState, created, current, retry, attemptVars, grants>>

\* EnrollmentService.revoke_node
RevokeNode(n) ==
  /\ serial[n] > 0
  /\ serial' = [serial EXCEPT ![n] = 0]
  /\ UNCHANGED <<now, jobState, opState, created, current, retry, attemptVars, grants>>

Tick ==
  /\ now < MaxTime
  /\ now' = now + 1
  /\ UNCHANGED <<serial, jobState, opState, created, current, retry, attemptVars, grants>>

Next ==
  \/ \E j \in Jobs : OpenParent(j) \/ QuarantineUnlinked(j) \/ ResumeJob(j)
  \/ \E o \in Operations : Enqueue(o) \/ GrantRetry(o)
  \/ \E n \in Nodes :
       \/ \E o \in Operations, caps \in Capabilities, lease \in Leases :
            Claim(n, o, caps, lease)
       \/ ClaimNothing(n)
       \/ RotateCertificate(n)
       \/ RevokeNode(n)
  \/ \E o \in Operations, k \in Attempts :
       \/ \E lease \in Leases : Heartbeat(o, k, lease)
       \/ \E result \in Results : Finish(o, k, result)
  \/ Tick

Spec == Init /\ [][Next]_vars

-----------------------------------------------------------------------------
(* Correctness.                                                            *)

TypeOK ==
  /\ now \in 0..MaxTime
  /\ serial \in [Nodes -> 0..MaxSerial]
  /\ jobState \in [Jobs -> JobStates]
  /\ opState \in [Operations -> OpStates]
  /\ created \in [Operations -> 0..MaxTime]
  /\ current \in [Operations -> 0..MaxAttempts]
  /\ retry \in [Operations -> 0..MaxAttempts]
  /\ attemptState \in [Operations -> [Attempts -> AttemptStates]]
  /\ deadline \in [Operations -> Nat]
  /\ claimedBy \in [Operations -> 0..MaxSerial]
  /\ grants \in [Operations -> Nat]

\* Attempt rows are numbered without gaps, at most the latest one is live, and
\* it is live exactly while its operation is "running".  A result or a
\* heartbeat is matched against these rows (_active), and a poll decides from
\* them that a lease has run out, so a second live attempt, or a running
\* operation without one, would never be resolved.
OneLiveAttempt ==
  \A o \in Operations :
    /\ \A k \in Attempts : attemptState[o][k] = "absent" <=> k > current[o]
    /\ \A k \in Attempts : attemptState[o][k] = "running" => k = current[o]
    /\ opState[o] = "running" <=>
         \E k \in Attempts : attemptState[o][k] = "running"

\* A node is never asked to run two mutating operations at the same time,
\* whatever the order in which they were queued, expired or retried
\* (_claim_once, the active_mutation query).
OneMutationPerNode ==
  \A o, p \in Mutating :
    /\ NodeOf[o] = NodeOf[p]
    /\ opState[o] = "running"
    /\ opState[p] = "running"
    => o = p

\* A mutating operation is handed out again only on an operator's decision, and
\* one decision pays for one attempt: the disposition stays in the row after it
\* was used, and must not authorise another attempt when that one expires too.
RetryBudget ==
  \A o \in Mutating : current[o] <= 1 + grants[o]

\* A parent that reports success has only successful operations, and one that
\* reports failure has a failed one, although verdicts, retries, late results,
\* new operations and the worker's quarantine all write the same job row.
VerdictSound ==
  \A j \in Jobs :
    /\ jobState[j] = "succeeded" =>
         \A o \in ChildrenOf(j, opState) : opState[o] = "succeeded"
    /\ jobState[j] = "failed" =>
         \E o \in ChildrenOf(j, opState) : opState[o] = "failed"

\* The queue as a whole, whatever order polls, heartbeats, results, expiries,
\* retries, quarantine and resumption come in: attempts are fenced, retries are
\* the granted ones and verdicts agree with the operations.
QueueSound == TypeOK /\ OneLiveAttempt /\ RetryBudget /\ VerdictSound

DecisionsKept ==
  \A o \in Operations :
    /\ opState[o] \in {"succeeded", "failed"} => opState'[o] = opState[o]
    /\ \A k \in Attempts :
         attemptState[o][k] \in {"succeeded", "failed", "expired"}
           => attemptState'[o][k] = attemptState[o][k]

\* What was decided stays decided: a settled operation never changes again, and
\* an attempt that expired never gets a result, however late or often its
\* result is delivered (_finish behind _active).
DecisionsAreFinal == [][DecisionsKept]_vars

-----------------------------------------------------------------------------
(* Liveness, for specifications with fair polls (see AgentDelivery).       *)

\* The head of the node's queue is another operation, or the parent has been
\* closed: _claim_once looks at the oldest candidate only, and only while
\* _claim_has_authority.
HeldBack(o) ==
  \/ ~ HasAuthority(o)
  \/ \E p \in Candidates(NodeOf[o]) : Older(p, o)

\* A mutation whose lease has run out does not stay "running": the polls of its
\* node surface it to the operator, unless the node is retired or the operation
\* is held back again and again (_claim_once).
ExpirySurfaces ==
  \A o \in Mutating :
    (LeaseExpired(o) /\ serial[NodeOf[o]] > 0)
      ~> \/ opState[o] # "running" \/ serial[NodeOf[o]] = 0
         \/ []<>HeldBack(o)

=============================================================================
