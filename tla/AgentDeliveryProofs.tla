------------------------- MODULE AgentDeliveryProofs -------------------------
(***************************************************************************)
(* Proofs about the delivery of operations to the agent, for any number of *)
(* operations and attempts and any sequence of crashes, lost claims and    *)
(* lost or delayed reports.                                                *)
(*                                                                         *)
(* The queue seen by the agent is the queue of AgentJobs, so its inductive *)
(* invariant carries over.  What is added ties the agent's journal to it:  *)
(* the journal's attempt numbers only grow, so no attempt is begun twice;  *)
(* a report somebody waits for is the journal's own entry; and an attempt  *)
(* that cannot be answered for any more stays so.                          *)
(***************************************************************************)
EXTENDS AgentDelivery, FiniteSetTheorems, TLAPS

-----------------------------------------------------------------------------
(* The queue by itself.                                                    *)


\* What the safety invariants need in order to be inductive: an operation has
\* attempts exactly when it has left the queue, a final result is the result of
\* its operation, and the retry disposition names no attempt that is still live.
Ledger ==
  \A o \in Operations :
    /\ opState[o] \in {"absent", "queued"} <=> current[o] = 0
    /\ \A k \in Attempts :
         attemptState[o][k] \in {"succeeded", "failed"}
           => opState[o] = attemptState[o][k]
    /\ retry[o] <= current[o]
    /\ opState[o] = "running" => retry[o] < current[o]

\* The retry budget, counting a grant that has not been used yet.
UnusedGrants ==
  \A o \in Mutating :
    /\ current[o] <= 1 + grants[o]
    /\ RetryGranted(o) => current[o] <= grants[o]

IInv ==
  /\ TypeOK
  /\ OneLiveAttempt
  /\ Ledger
  /\ OneMutationPerNode
  /\ UnusedGrants
  /\ VerdictSound

-----------------------------------------------------------------------------
(* Lemmas about the operators of the model.                                *)

\* _aggregate_parent writes one job row, and what it writes is the verdict of
\* the operations it looked at.
LEMMA AggregatedVerdict ==
  ASSUME NEW jobs \in [Jobs -> JobStates],
         NEW ops \in [Operations -> OpStates],
         NEW j \in Jobs
  PROVE  LET a == Aggregated(jobs, ops, j)
         IN  /\ a \in [Jobs -> JobStates]
             /\ \A i \in Jobs \ {j} : a[i] = jobs[i]
             /\ \/ a[j] = jobs[j]
                \/ a[j] = "waiting-for-operator"
                \/ a[j] = "failed" /\ \E o \in ChildrenOf(j, ops) : ops[o] = "failed"
                \/ a[j] = "succeeded"
                   /\ \A o \in ChildrenOf(j, ops) : ops[o] = "succeeded"
<1> DEFINE states == {ops[o] : o \in ChildrenOf(j, ops)}
<1>1. CASE states = {} \/ ~ (states \subseteq Results)
  BY <1>1, Zenon DEF Aggregated
<1>2. CASE states # {} /\ states \subseteq Results
  <2>1. CASE "failed" \in states
    BY <1>2, <2>1, Zenon DEF Aggregated, JobStates, Results
  <2>2. CASE "failed" \notin states /\ "waiting-for-operator" \in states
    BY <1>2, <2>2, Zenon DEF Aggregated, JobStates, Results
  <2>3. CASE "failed" \notin states /\ "waiting-for-operator" \notin states
    BY <1>2, <2>3 DEF Aggregated, JobStates, Results
  <2> QED BY <2>1, <2>2, <2>3
<1> QED BY <1>1, <1>2

\* A poll only reopens a parent that waits for the operator.
LEMMA ReopenedVerdict ==
  ASSUME TypeOK, NEW o \in Operations
  PROVE  /\ Reopened(o) \in [Jobs -> JobStates]
         /\ \A j \in Jobs : Reopened(o)[j] \in {jobState[j], "queued"}
BY AgentJobsAssumption DEF TypeOK, Reopened, JobStates

-----------------------------------------------------------------------------
(* The inductive invariant.                                                *)

LEMMA InitIInv == Init => IInv
BY AgentJobsAssumption
   DEF Init, IInv, TypeOK, OneLiveAttempt, Ledger, OneMutationPerNode,
       UnusedGrants, VerdictSound, RetryGranted, ChildrenOf,
       Attempts, JobStates, OpStates, AttemptStates, Results

\* Actions that leave every operation and attempt row alone preserve what only
\* speaks of those rows; the job row they write gets no verdict from them.
LEMMA JobRowSteps ==
  ASSUME IInv,
         UNCHANGED <<opState, created, current, retry, attemptVars, grants>>,
         jobState' \in [Jobs -> JobStates],
         \A j \in Jobs :
           jobState'[j] \in {jobState[j], "queued", "running", "waiting-for-operator"},
         now' \in 0..MaxTime,
         serial' \in [Nodes -> 0..MaxSerial]
  PROVE  IInv'
<1>1. TypeOK'
  BY DEF IInv, TypeOK, attemptVars
<1>2. OneLiveAttempt' /\ Ledger' /\ OneMutationPerNode' /\ UnusedGrants'
  BY DEF IInv, OneLiveAttempt, Ledger, OneMutationPerNode, UnusedGrants,
         RetryGranted, attemptVars
<1>3. VerdictSound'
  BY DEF IInv, VerdictSound, ChildrenOf
<1> QED BY <1>1, <1>2, <1>3 DEF IInv

LEMMA EnqueueStep ==
  ASSUME IInv, NEW o \in Operations, Enqueue(o)
  PROVE  IInv'
<1> USE AgentJobsAssumption DEF IInv, Enqueue, clockVars, attemptVars
<1>1. TypeOK'
  BY DEF TypeOK, OpStates
<1>2. OneLiveAttempt'
  BY DEF OneLiveAttempt, TypeOK
<1>3. Ledger'
  BY DEF Ledger, TypeOK, OneLiveAttempt
<1>4. OneMutationPerNode'
  BY DEF OneMutationPerNode, TypeOK
<1>5. UnusedGrants'
  BY DEF UnusedGrants, RetryGranted, TypeOK
<1>6. VerdictSound'
  BY DEF VerdictSound, ChildrenOf, TypeOK, TerminalParentStates
<1> QED BY <1>1, <1>2, <1>3, <1>4, <1>5, <1>6

\* A running operation loses its live attempt, by a result or by expiry.
LEMMA SettleStep ==
  ASSUME IInv,
         NEW o \in Operations, NEW k \in Attempts, NEW r \in Results,
         NEW s \in Results \cup {"expired"},
         s \in {"succeeded", "failed"} => r = s,
         k = current[o], opState[o] = "running", attemptState[o][k] = "running",
         attemptState' = [attemptState EXCEPT ![o][k] = s],
         opState' = [opState EXCEPT ![o] = r],
         jobState' = Aggregated(jobState, opState', ParentOf[o]),
         Released(o),
         retry' \in {retry, [retry EXCEPT ![o] = 0]},
         UNCHANGED <<now, serial, created, current, grants>>
  PROVE  IInv'
<1>1. TypeOK /\ ParentOf[o] \in Jobs
  BY AgentJobsAssumption DEF IInv
<1>2. /\ opState' \in [Operations -> OpStates]
      /\ \A p \in Operations : opState'[p] = IF p = o THEN r ELSE opState[p]
  BY <1>1 DEF TypeOK, OpStates
<1>3. /\ attemptState' \in [Operations -> [Attempts -> AttemptStates]]
      /\ \A p \in Operations, i \in Attempts :
           attemptState'[p][i] = IF p = o /\ i = k THEN s ELSE attemptState[p][i]
  BY <1>1 DEF TypeOK, AttemptStates
<1>4. /\ retry' \in [Operations -> 0..MaxAttempts]
      /\ \A p \in Operations : retry'[p] = retry[p] \/ (p = o /\ retry'[p] = 0)
  BY <1>1, AgentJobsAssumption DEF TypeOK
<1>5. /\ jobState' \in [Jobs -> JobStates]
      /\ \A j \in Jobs \ {ParentOf[o]} : jobState'[j] = jobState[j]
      /\ LET j == ParentOf[o]
         IN  \/ jobState'[j] = jobState[j]
             \/ jobState'[j] = "waiting-for-operator"
             \/ jobState'[j] = "failed"
                /\ \E p \in ChildrenOf(j, opState') : opState'[p] = "failed"
             \/ jobState'[j] = "succeeded"
                /\ \A p \in ChildrenOf(j, opState') : opState'[p] = "succeeded"
  <2> DEFINE ops == opState'
  <2>1. ops \in [Operations -> OpStates] /\ jobState \in [Jobs -> JobStates]
    BY <1>1, <1>2 DEF TypeOK
  <2>2. jobState' = Aggregated(jobState, ops, ParentOf[o])
    OBVIOUS
  <2> HIDE DEF ops
  <2>3. LET a == Aggregated(jobState, ops, ParentOf[o])
            j == ParentOf[o]
        IN  /\ a \in [Jobs -> JobStates]
            /\ \A i \in Jobs \ {j} : a[i] = jobState[i]
            /\ \/ a[j] = jobState[j]
               \/ a[j] = "waiting-for-operator"
               \/ a[j] = "failed" /\ \E p \in ChildrenOf(j, ops) : ops[p] = "failed"
               \/ a[j] = "succeeded"
                  /\ \A p \in ChildrenOf(j, ops) : ops[p] = "succeeded"
    BY <1>1, <2>1, AggregatedVerdict
  <2> QED BY <2>2, <2>3, Zenon DEF ops
<1>6. TypeOK'
  <2>1. deadline' \in [Operations -> Nat] /\ claimedBy' \in [Operations -> 0..MaxSerial]
    BY <1>1, AgentJobsAssumption DEF TypeOK, Released
  <2> QED BY <1>1, <1>2, <1>3, <1>4, <1>5, <2>1, Zenon DEF TypeOK
<1>7. OneLiveAttempt'
  BY <1>1, <1>2, <1>3 DEF IInv, OneLiveAttempt, TypeOK, Attempts, Results
<1>8. Ledger'
  <2> SUFFICES ASSUME NEW p \in Operations
               PROVE  /\ opState'[p] \in {"absent", "queued"} <=> current[p] = 0
                      /\ \A i \in Attempts :
                           attemptState'[p][i] \in {"succeeded", "failed"}
                             => opState'[p] = attemptState'[p][i]
                      /\ retry'[p] <= current[p]
                      /\ opState'[p] = "running" => retry'[p] < current[p]
    BY DEF Ledger
  <2>1. current[p] \in Nat /\ retry[p] \in Nat /\ k > 0
    BY <1>1, AgentJobsAssumption DEF TypeOK, Attempts
  <2>2. CASE p # o
    BY <1>2, <1>3, <1>4, <2>2 DEF IInv, Ledger
  <2>3. CASE p = o
    <3>1. opState'[p] = r /\ current[p] = k
      BY <1>2, <2>3
    <3>2. \A i \in Attempts :
             attemptState'[p][i] \in {"succeeded", "failed"} => i = k /\ r = s
      BY <1>3, <2>3 DEF IInv, Ledger
    <3>3. retry'[p] <= current[p]
      BY <1>4, <2>1, <2>3 DEF IInv, Ledger
    <3> QED BY <1>3, <2>1, <2>3, <3>1, <3>2, <3>3 DEF Results
  <2> QED BY <2>2, <2>3
<1>9. OneMutationPerNode'
  BY <1>2, AgentJobsAssumption DEF IInv, OneMutationPerNode, Results
<1>10. UnusedGrants'
  <2> SUFFICES ASSUME NEW p \in Mutating
               PROVE  /\ current[p] <= 1 + grants[p]
                      /\ opState'[p] = "waiting-for-operator" /\ retry'[p] = current[p]
                           => current[p] <= grants[p]
    BY DEF UnusedGrants, RetryGranted
  <2>1. p \in Operations /\ current[p] \in Nat /\ retry[p] \in Nat /\ k > 0
    BY <1>1, AgentJobsAssumption DEF TypeOK, Attempts
  <2>2. CASE p # o
    BY <1>2, <1>4, <2>1, <2>2 DEF IInv, UnusedGrants, RetryGranted
  <2>3. CASE p = o
    BY <1>4, <2>1, <2>3 DEF IInv, UnusedGrants, Ledger
  <2> QED BY <2>2, <2>3
<1>11. VerdictSound'
  <2> SUFFICES ASSUME NEW j \in Jobs
               PROVE  /\ jobState'[j] = "succeeded" =>
                           \A p \in ChildrenOf(j, opState') : opState'[p] = "succeeded"
                      /\ jobState'[j] = "failed" =>
                           \E p \in ChildrenOf(j, opState') : opState'[p] = "failed"
    BY Zenon DEF VerdictSound
  <2>1. CASE jobState'[j] = jobState[j]
    <3>1. jobState[j] = "succeeded" => j # ParentOf[o]
      BY DEF IInv, VerdictSound, ChildrenOf
    <3> QED BY <1>2, <2>1, <3>1 DEF IInv, VerdictSound, ChildrenOf
  <2>2. CASE j = ParentOf[o] /\ jobState'[j] # jobState[j]
    BY <1>5, <2>2, Zenon
  <2> QED BY <1>5, <2>1, <2>2, Zenon
<1> QED
  BY <1>6, <1>7, <1>8, <1>9, <1>10, <1>11 DEF IInv

LEMMA ExpireUnsafeStep ==
  ASSUME IInv, NEW n \in Nodes, NEW o \in Operations, NEW caps \in Capabilities,
         ExpireUnsafe(n, o, caps)
  PROVE  IInv'
<1>1. current[o] \in Attempts /\ attemptState[o][current[o]] = "running"
  BY DEF ExpireUnsafe, IInv, OneLiveAttempt
<1> QED
  <2>1. /\ opState[o] = "running"
        /\ attemptState' = [attemptState EXCEPT ![o][current[o]] = "expired"]
        /\ opState' = [opState EXCEPT ![o] = "waiting-for-operator"]
        /\ retry' \in {retry, [retry EXCEPT ![o] = 0]}
        /\ Released(o)
        /\ jobState' = Aggregated(jobState, opState', ParentOf[o])
        /\ UNCHANGED <<now, serial, created, current, grants>>
    BY DEF ExpireUnsafe, clockVars
  <2>2. "waiting-for-operator" \in Results /\ "expired" \notin {"succeeded", "failed"}
    BY DEF Results
  <2> QED BY <1>1, <2>1, <2>2, SettleStep, Zenon

\* A new attempt becomes the live one of an operation that has none, or whose
\* live one is replaced.
LEMMA StartAttemptStep ==
  ASSUME IInv, NEW n \in Nodes, NEW o \in Operations, NEW caps \in Capabilities,
         NEW lease \in Leases, StartAttempt(n, o, caps, lease)
  PROVE  IInv'
<1> DEFINE k == current[o] + 1
<1>1. /\ TypeOK
      /\ k \in Attempts
      /\ NodeOf[o] = n
      /\ HasAuthority(o)
  <2>1. TypeOK
    BY DEF IInv
  <2>2. k \in Attempts
    BY <2>1, AgentJobsAssumption DEF StartAttempt, TypeOK, Attempts
  <2> QED BY <2>1, <2>2 DEF StartAttempt, Polled, OldestCandidate, Candidates
<1>2. \/ opState[o] = "queued" /\ current[o] = 0
      \/ opState[o] = "running" /\ o \notin Mutating /\ current[o] > 0
      \/ RetryGranted(o) /\ current[o] > 0
  <2>1. Claimable(o)
    BY DEF StartAttempt, Polled, OldestCandidate, Candidates
  <2>2. /\ opState[o] \in {"absent", "queued"} <=> current[o] = 0
        /\ current[o] \in Nat
    BY <1>1 DEF IInv, Ledger, TypeOK
  <2>3. o \notin Mutating \/ opState[o] # "running"
    BY DEF StartAttempt
  <2> QED
    BY <2>1, <2>2, <2>3 DEF Claimable, LeaseExpired, RetryGranted
<1>3. /\ opState' \in [Operations -> OpStates]
      /\ \A p \in Operations : opState'[p] = IF p = o THEN "running" ELSE opState[p]
  BY <1>1 DEF StartAttempt, TypeOK, OpStates
<1>4. /\ current' \in [Operations -> 0..MaxAttempts]
      /\ \A p \in Operations : current'[p] = IF p = o THEN k ELSE current[p]
  BY <1>1 DEF StartAttempt, TypeOK, Attempts
<1>5. /\ attemptState' \in [Operations -> [Attempts -> AttemptStates]]
      /\ \A p \in Operations, i \in Attempts :
           attemptState'[p][i] = IF p # o THEN attemptState[p][i]
                                 ELSE IF i = k THEN "running"
                                 ELSE IF i = k - 1 THEN "expired"
                                 ELSE attemptState[p][i]
  BY <1>1 DEF StartAttempt, TypeOK, AttemptStates
<1>6. /\ jobState' \in [Jobs -> JobStates]
      /\ \A j \in Jobs : jobState'[j] \in {jobState[j], "queued"}
  BY <1>1, ReopenedVerdict DEF StartAttempt
<1>7. /\ deadline' \in [Operations -> Nat]
      /\ claimedBy' \in [Operations -> 0..MaxSerial]
      /\ UNCHANGED <<now, serial, created, retry, grants>>
  BY <1>1, AgentJobsAssumption DEF StartAttempt, TypeOK, clockVars
<1>8. TypeOK'
  BY <1>1, <1>3, <1>4, <1>5, <1>6, <1>7 DEF TypeOK
<1>9. OneLiveAttempt'
  <2> SUFFICES ASSUME NEW p \in Operations
               PROVE  /\ \A i \in Attempts :
                           attemptState'[p][i] = "absent" <=> i > current'[p]
                      /\ \A i \in Attempts :
                           attemptState'[p][i] = "running" => i = current'[p]
                      /\ opState'[p] = "running" <=>
                           \E i \in Attempts : attemptState'[p][i] = "running"
    BY DEF OneLiveAttempt
  <2>1. CASE p # o
    <3>1. /\ opState'[p] = opState[p] /\ current'[p] = current[p]
          /\ \A i \in Attempts : attemptState'[p][i] = attemptState[p][i]
      BY <1>3, <1>4, <1>5, <2>1
    <3> QED BY <3>1 DEF IInv, OneLiveAttempt
  <2>2. CASE p = o
    <3>1. current[o] \in Nat /\ Attempts \subseteq Nat
      BY <1>1, AgentJobsAssumption DEF TypeOK, Attempts
    <3>2. /\ opState'[p] = "running"
          /\ current'[p] = k
          /\ attemptState'[p][k] = "running"
          /\ \A i \in Attempts \ {k} :
               attemptState'[p][i] = IF i = k - 1 THEN "expired" ELSE attemptState[p][i]
      BY <1>1, <1>3, <1>4, <1>5, <2>2
    <3>3. \A i \in Attempts :
            /\ attemptState[p][i] = "absent" <=> i > current[o]
            /\ attemptState[p][i] = "running" => i = current[o]
      BY <2>2 DEF IInv, OneLiveAttempt
    <3>4. ASSUME NEW i \in Attempts
          PROVE  /\ attemptState'[p][i] = "absent" <=> i > k
                 /\ attemptState'[p][i] = "running" => i = k
      <4>1. CASE i = k
        BY <3>1, <3>2, <4>1
      <4>2. CASE i # k
        <5>1. attemptState'[p][i] = IF i = current[o] THEN "expired" ELSE attemptState[p][i]
          BY <3>1, <3>2, <4>2
        <5>2. i \in Nat /\ (i > k <=> i > current[o] /\ i # k)
          BY <3>1
        <5> QED BY <3>1, <3>3, <4>2, <5>1, <5>2
      <4> QED BY <4>1, <4>2
    <3> QED
      BY <1>1, <3>2, <3>4
  <2> QED BY <2>1, <2>2
<1>10. Ledger'
  <2> SUFFICES ASSUME NEW p \in Operations
               PROVE  /\ opState'[p] \in {"absent", "queued"} <=> current'[p] = 0
                      /\ \A i \in Attempts :
                           attemptState'[p][i] \in {"succeeded", "failed"}
                             => opState'[p] = attemptState'[p][i]
                      /\ retry[p] <= current'[p]
                      /\ opState'[p] = "running" => retry[p] < current'[p]
    BY <1>7 DEF Ledger
  <2>1. CASE p # o
    <3>1. /\ opState'[p] = opState[p] /\ current'[p] = current[p]
          /\ \A i \in Attempts : attemptState'[p][i] = attemptState[p][i]
      BY <1>3, <1>4, <1>5, <2>1
    <3> QED BY <3>1 DEF IInv, Ledger
  <2>2. CASE p = o
    <3>1. current[o] \in Nat /\ retry[o] \in Nat /\ retry[o] <= current[o]
      <4>1. retry[o] <= current[o]
        BY DEF IInv, Ledger
      <4> QED BY <1>1, <4>1 DEF TypeOK
    <3>2. \A i \in Attempts : attemptState'[p][i] \notin {"succeeded", "failed"}
      BY <1>2, <1>5, <2>2 DEF IInv, Ledger, RetryGranted
    <3> QED BY <1>3, <1>4, <2>2, <3>1, <3>2
  <2> QED BY <2>1, <2>2
<1>11. OneMutationPerNode'
  <2>1. o \in Mutating =>
          \A p \in Mutating \ {o} : NodeOf[p] = NodeOf[o] => opState[p] # "running"
    BY DEF StartAttempt, Blocked
  <2> QED BY <1>3, <2>1, AgentJobsAssumption DEF IInv, OneMutationPerNode
<1>12. UnusedGrants'
  <2> SUFFICES ASSUME NEW p \in Mutating
               PROVE  /\ current'[p] <= 1 + grants[p]
                      /\ opState'[p] = "waiting-for-operator" /\ retry[p] = current'[p]
                           => current'[p] <= grants[p]
    BY <1>7 DEF UnusedGrants, RetryGranted
  <2>1. p \in Operations /\ grants[p] \in Nat /\ current[p] \in Nat
    BY <1>1, AgentJobsAssumption DEF TypeOK
  <2>2. CASE p # o
    BY <1>3, <1>4, <2>1, <2>2 DEF IInv, UnusedGrants, RetryGranted
  <2>3. CASE p = o
    BY <1>2, <1>3, <1>4, <2>1, <2>3 DEF IInv, UnusedGrants
  <2> QED BY <2>2, <2>3
<1>13. VerdictSound'
  <2> SUFFICES ASSUME NEW j \in Jobs, jobState'[j] = jobState[j]
               PROVE  /\ jobState[j] = "succeeded" =>
                           \A p \in ChildrenOf(j, opState') : opState'[p] = "succeeded"
                      /\ jobState[j] = "failed" =>
                           \E p \in ChildrenOf(j, opState') : opState'[p] = "failed"
    BY <1>6 DEF VerdictSound
  <2>1. CASE j = ParentOf[o]
    BY <1>1, <2>1 DEF HasAuthority, Reopens, TerminalParentStates
  <2>2. CASE j # ParentOf[o]
    <3>1. ChildrenOf(j, opState') = ChildrenOf(j, opState)
      BY <1>3, <2>2 DEF ChildrenOf
    <3>2. \A p \in ChildrenOf(j, opState) : opState'[p] = opState[p]
      BY <1>3, <2>2 DEF ChildrenOf
    <3> QED BY <3>1, <3>2 DEF IInv, VerdictSound
  <2> QED BY <2>1, <2>2
<1> QED
  BY <1>8, <1>9, <1>10, <1>11, <1>12, <1>13 DEF IInv

LEMMA HeartbeatStep ==
  ASSUME IInv, NEW o \in Operations, NEW k \in Attempts, NEW lease \in Leases,
         Heartbeat(o, k, lease)
  PROVE  IInv'
<1> USE AgentJobsAssumption DEF IInv, Heartbeat, clockVars
<1>1. TypeOK'
  BY DEF TypeOK
<1>2. UNCHANGED <<opState, current, retry, grants, attemptState, jobState>>
  OBVIOUS
<1>3. OneLiveAttempt' /\ Ledger'
  BY <1>2 DEF OneLiveAttempt, Ledger
<1>4. OneMutationPerNode' /\ UnusedGrants'
  BY <1>2 DEF OneMutationPerNode, UnusedGrants, RetryGranted
<1>5. VerdictSound'
  BY <1>2 DEF VerdictSound, ChildrenOf
<1> QED BY <1>1, <1>3, <1>4, <1>5

LEMMA FinishStep ==
  ASSUME IInv, NEW o \in Operations, NEW k \in Attempts, NEW result \in Results,
         Finish(o, k, result)
  PROVE  IInv'
<1>1. /\ k = current[o]
      /\ attemptState[o][k] = "running"
      /\ opState[o] = "running"
  BY DEF Finish, ActiveAttempt, IInv, OneLiveAttempt
<1> QED
  BY <1>1, SettleStep, Zenon DEF Finish, clockVars

LEMMA GrantRetryStep ==
  ASSUME IInv, NEW o \in Operations, GrantRetry(o)
  PROVE  IInv'
<1> USE AgentJobsAssumption DEF IInv, GrantRetry, clockVars, attemptVars
<1>1. TypeOK'
  BY DEF TypeOK
<1>2. /\ OneLiveAttempt' /\ OneMutationPerNode'
      /\ VerdictSound'
  <2>1. UNCHANGED <<opState, current, attemptState, jobState>>
    OBVIOUS
  <2>2. OneLiveAttempt' /\ OneMutationPerNode'
    BY <2>1 DEF OneLiveAttempt, OneMutationPerNode
  <2>3. VerdictSound'
    BY <2>1 DEF VerdictSound, ChildrenOf
  <2> QED BY <2>2, <2>3
<1>3. Ledger'
  BY DEF Ledger, TypeOK
<1>4. UnusedGrants'
  BY DEF UnusedGrants, RetryGranted, TypeOK
<1> QED BY <1>1, <1>2, <1>3, <1>4

LEMMA NextIInv == IInv /\ [Next]_vars => IInv'
<1> SUFFICES ASSUME IInv, [Next]_vars PROVE IInv'
  OBVIOUS
<1> USE AgentJobsAssumption
<1>1. ASSUME NEW j \in Jobs, OpenParent(j) \/ QuarantineUnlinked(j) \/ ResumeJob(j)
      PROVE  IInv'
  <2>1. /\ UNCHANGED <<opState, created, current, retry, attemptVars, grants>>
        /\ UNCHANGED clockVars
    BY <1>1 DEF OpenParent, QuarantineUnlinked, ResumeJob
  <2>2. /\ jobState' \in [Jobs -> JobStates]
        /\ \A i \in Jobs :
             jobState'[i] \in {jobState[i], "queued", "running", "waiting-for-operator"}
    BY <1>1 DEF OpenParent, QuarantineUnlinked, ResumeJob, IInv, TypeOK, JobStates,
                Results
  <2> QED BY <2>1, <2>2, JobRowSteps DEF IInv, TypeOK, clockVars
<1>2. ASSUME NEW n \in Nodes, NEW o \in Operations, NEW caps \in Capabilities,
             NEW lease \in Leases, Claim(n, o, caps, lease)
      PROVE  IInv'
  <2>1. CASE ClaimBlocked(n, o, caps)
    BY <2>1, JobRowSteps, ReopenedVerdict DEF ClaimBlocked, IInv, TypeOK, clockVars
  <2>2. CASE ExpireUnsafe(n, o, caps)
    BY <2>2, ExpireUnsafeStep
  <2>3. CASE StartAttempt(n, o, caps, lease)
    BY <2>3, StartAttemptStep
  <2> QED BY <1>2, <2>1, <2>2, <2>3 DEF Claim
<1>3. ASSUME NEW n \in Nodes, RotateCertificate(n) \/ RevokeNode(n)
      PROVE  IInv'
  <2>1. /\ UNCHANGED <<opState, created, current, retry, attemptVars, grants>>
        /\ UNCHANGED <<now, jobState>>
        /\ serial' \in [Nodes -> 0..MaxSerial]
    BY <1>3 DEF RotateCertificate, RevokeNode, IInv, TypeOK
  <2> QED BY <2>1, JobRowSteps DEF IInv, TypeOK
<1>4. CASE Tick
  <2>1. /\ UNCHANGED <<opState, created, current, retry, attemptVars, grants>>
        /\ UNCHANGED <<serial, jobState>>
        /\ now' \in 0..MaxTime
    BY <1>4 DEF Tick, IInv, TypeOK
  <2> QED BY <2>1, JobRowSteps DEF IInv, TypeOK
<1>5. CASE UNCHANGED vars
  BY <1>5, JobRowSteps DEF vars, attemptVars, IInv, TypeOK
<1> QED
  BY <1>1, <1>2, <1>3, <1>4, <1>5, EnqueueStep, GrantRetryStep, HeartbeatStep,
     FinishStep DEF Next, ClaimNothing

-----------------------------------------------------------------------------
(* Theorems.                                                               *)

\* In every reachable state of the queue the rows satisfy the inductive
\* invariant: types, the tie between an operation and its latest attempt, the
\* retry disposition and the parent's verdict (AgentJobService).
THEOREM InductiveInvariant == Spec => []IInv
<1> QED BY InitIInv, NextIInv, PTL DEF Spec

\* Every row of the queue has a value of its type (the columns that
\* AgentJobService writes), in every reachable state.
THEOREM TypeCorrect == Spec => []TypeOK
<1>1. IInv => TypeOK
  BY DEF IInv
<1> QED BY <1>1, InductiveInvariant, PTL

\* At most the latest attempt of an operation is live, and exactly while the
\* operation is running (the attempt rows that _active and _claim_once read).
THEOREM LiveAttempts == Spec => []OneLiveAttempt
<1>1. IInv => OneLiveAttempt
  BY DEF IInv
<1> QED BY <1>1, InductiveInvariant, PTL

\* No interleaving of polls, results, expiries and retries lets two mutating
\* operations of one node run (the active_mutation query of _claim_once).
THEOREM MutationsExclude == Spec => []OneMutationPerNode
<1>1. IInv => OneMutationPerNode
  BY DEF IInv
<1> QED BY <1>1, InductiveInvariant, PTL

\* A mutating operation never has more attempts than one plus the retries an
\* operator granted (retry_disposition and retry_disposition_attempt).
THEOREM RetriesAreGranted == Spec => []RetryBudget
<1>1. IInv => RetryBudget
  BY DEF IInv, UnusedGrants, RetryBudget
<1> QED BY <1>1, InductiveInvariant, PTL

\* A parent's verdict agrees with its operations (_aggregate_parent).
THEOREM VerdictsAgree == Spec => []VerdictSound
<1>1. IInv => VerdictSound
  BY DEF IInv
<1> QED BY <1>1, InductiveInvariant, PTL

\* What the run of the queue checks, for every set of jobs, operations and nodes
\* and any number of attempts: types, the live attempt, the retry budget and
\* the parent's verdict, in every reachable state (AgentJobService).
THEOREM QueueStaysSound == Spec => []QueueSound
<1>1. IInv => QueueSound
  BY DEF IInv, UnusedGrants, RetryBudget, QueueSound
<1> QED BY <1>1, InductiveInvariant, PTL

LEMMA NextKeepsDecisions == IInv /\ [Next]_vars => DecisionsKept
<1> SUFFICES ASSUME IInv, [Next]_vars, NEW o \in Operations
             PROVE  /\ opState[o] \in {"succeeded", "failed"} => opState'[o] = opState[o]
                    /\ \A k \in Attempts :
                         attemptState[o][k] \in {"succeeded", "failed", "expired"}
                           => attemptState'[o][k] = attemptState[o][k]
  BY DEF DecisionsKept
<1>1. TypeOK /\ OneLiveAttempt /\ Ledger
  BY DEF IInv
<1>2. CASE UNCHANGED <<opState, attemptState>>
  BY <1>2
<1>3. ASSUME NEW p \in Operations, Enqueue(p)
      PROVE  /\ opState'[o] = opState[o] \/ opState[o] = "absent"
             /\ attemptState' = attemptState
  BY <1>1, <1>3 DEF Enqueue, TypeOK, attemptVars
<1>4. ASSUME NEW p \in Operations, NEW k \in Attempts, NEW r, NEW s,
             k = current[p], attemptState[p][k] = "running",
             attemptState' = [attemptState EXCEPT ![p][k] = s],
             opState' = [opState EXCEPT ![p] = r]
      PROVE  /\ opState[o] \in {"succeeded", "failed"} => opState'[o] = opState[o]
             /\ \A i \in Attempts :
                  attemptState[o][i] \in {"succeeded", "failed", "expired"}
                    => attemptState'[o][i] = attemptState[o][i]
  <2>1. opState[p] = "running"
    BY <1>1, <1>4 DEF OneLiveAttempt
  <2>2. \A i \in Attempts :
          attemptState'[o][i] = IF o = p /\ i = k THEN s ELSE attemptState[o][i]
    BY <1>1, <1>4 DEF TypeOK
  <2>3. opState'[o] = IF o = p THEN r ELSE opState[o]
    BY <1>1, <1>4 DEF TypeOK
  <2> QED BY <1>4, <2>1, <2>2, <2>3
<1>5. ASSUME NEW n \in Nodes, NEW p \in Operations, NEW caps \in Capabilities,
             NEW lease \in Leases, StartAttempt(n, p, caps, lease)
      PROVE  /\ opState[o] \in {"succeeded", "failed"} => opState'[o] = opState[o]
             /\ \A i \in Attempts :
                  attemptState[o][i] \in {"succeeded", "failed", "expired"}
                    => attemptState'[o][i] = attemptState[o][i]
  <2>1. opState[p] \in {"queued", "running", "waiting-for-operator"}
    BY <1>5 DEF StartAttempt, Polled, OldestCandidate, Candidates, Claimable,
                LeaseExpired, RetryGranted
  <2>2. opState'[o] = IF o = p THEN "running" ELSE opState[o]
    BY <1>1, <1>5 DEF StartAttempt, TypeOK
  <2>3. current[p] \in Nat /\ Attempts \subseteq Nat
    BY <1>1, AgentJobsAssumption DEF TypeOK, Attempts
  <2>4. \A i \in Attempts :
          attemptState'[o][i] = IF o # p THEN attemptState[o][i]
                                ELSE IF i = current[p] + 1 THEN "running"
                                ELSE IF i = current[p] THEN "expired"
                                ELSE attemptState[o][i]
    BY <1>1, <1>5, <2>3 DEF StartAttempt, TypeOK
  <2>5. \A i \in Attempts : i > current[p] => attemptState[p][i] = "absent"
    BY <1>1 DEF OneLiveAttempt
  <2>6. \A i \in Attempts : attemptState[p][i] \notin {"succeeded", "failed"}
    BY <1>1, <2>1 DEF Ledger
  <2> QED BY <2>1, <2>2, <2>3, <2>4, <2>5, <2>6
<1>6. ASSUME NEW n \in Nodes, NEW p \in Operations, NEW caps \in Capabilities,
             ExpireUnsafe(n, p, caps)
      PROVE  /\ current[p] \in Attempts
             /\ attemptState[p][current[p]] = "running"
             /\ attemptState' = [attemptState EXCEPT ![p][current[p]] = "expired"]
             /\ opState' = [opState EXCEPT ![p] = "waiting-for-operator"]
  <2>1. current[p] \in Attempts /\ attemptState[p][current[p]] = "running"
    BY <1>1, <1>6 DEF ExpireUnsafe, OneLiveAttempt
  <2> QED BY <1>6, <2>1 DEF ExpireUnsafe
<1>7. ASSUME NEW p \in Operations, NEW k \in Attempts, NEW r \in Results, Finish(p, k, r)
      PROVE  /\ k = current[p] /\ attemptState[p][k] = "running"
             /\ attemptState' = [attemptState EXCEPT ![p][k] = r]
             /\ opState' = [opState EXCEPT ![p] = r]
  BY <1>7 DEF Finish, ActiveAttempt
<1> QED
  <2>1. CASE \E p \in Operations : Enqueue(p)
    BY <1>3, <2>1
  <2>2. CASE \E n \in Nodes, p \in Operations, caps \in Capabilities, lease \in Leases :
               StartAttempt(n, p, caps, lease)
    BY <1>5, <2>2, Zenon
  <2>3. CASE \E n \in Nodes, p \in Operations, caps \in Capabilities :
               ExpireUnsafe(n, p, caps)
    BY <1>4, <1>6, <2>3
  <2>4. CASE \E p \in Operations, k \in Attempts, r \in Results : Finish(p, k, r)
    BY <1>4, <1>7, <2>4
  <2> QED
    BY <1>2, <2>1, <2>2, <2>3, <2>4, Zenon
       DEF Next, Claim, ClaimNothing, ClaimBlocked, OpenParent, QuarantineUnlinked,
           ResumeJob, GrantRetry, RotateCertificate, RevokeNode, Heartbeat, Tick,
           attemptVars, vars

\* A settled operation and an expired attempt never change again (_finish is
\* guarded by _active, _claim_once only touches operations that are open).
THEOREM DecisionsHold == Spec => DecisionsAreFinal
<1>1. IInv /\ [Next]_vars => [DecisionsKept]_vars
  BY NextKeepsDecisions
<1> QED BY <1>1, InductiveInvariant, PTL DEF Spec, DecisionsAreFinal

-----------------------------------------------------------------------------
(* The queue as the agent sees it.                                         *)

Entries ==
  [attempt : 0..MaxAttempts, state : {"none", "running", "completed"},
   result : Results \cup {"none"}, acked : BOOLEAN]

Reports == [op : Operations, attempt : Attempts, result : Results, late : BOOLEAN]

AgentTypes ==
  /\ agent \in {"down", "ready", "claimed", "executing", "reporting"}
  /\ hand \in [op : Operations \cup {0}, attempt : 0..MaxAttempts, deadline : Nat]
  /\ journal \in [Operations -> Entries]
  /\ reports \subseteq Reports
  /\ runs \in [Operations -> [Attempts -> Nat]]
  /\ outcome \in [Operations -> [Attempts -> HandlerResults \cup {"none"}]]

\* Certificates are renewed, never revoked, under the agent.
ClaimsAge == \A o \in Operations : claimedBy[o] <= serial[NodeOf[o]]

EntrySound(o) ==
  LET e == journal[o]
  IN  /\ e.attempt <= current[o]
      /\ e.state # "none" => e.attempt \in Attempts
      /\ e.state = "running" => ~ e.acked /\ outcome[o][e.attempt] = "none"
      /\ e.state = "completed" =>
           e.result \in Results /\ (e.result = "succeeded" => outcome[o][e.attempt] = "succeeded")
      /\ \A k \in Attempts :
           runs[o][k] <= 1 /\ (k > e.attempt => runs[o][k] = 0 /\ outcome[o][k] = "none")

HandSound ==
  /\ agent \in {"claimed", "executing", "reporting"} =>
       hand.op \in Operations /\ hand.attempt \in Attempts /\ hand.attempt <= current[hand.op]
  /\ agent = "executing" =>
       journal[hand.op].state = "running" /\ journal[hand.op].attempt = hand.attempt

ReportSound(r) ==
  /\ r.result = "succeeded" => outcome[r.op][r.attempt] = "succeeded"
  /\ ~ r.late =>
       /\ agent = "reporting" /\ r.op = hand.op
       /\ journal[r.op].state = "completed"
       /\ r.attempt = journal[r.op].attempt /\ r.result = journal[r.op].result

DInv ==
  /\ IInv /\ ClaimsAge /\ AgentTypes
  /\ \A o \in Operations : EntrySound(o)
  /\ HandSound
  /\ \A r \in reports : ReportSound(r)
  /\ SuccessIsReal /\ SuccessIsRecorded

-----------------------------------------------------------------------------
(* What the agent and its surroundings do to the queue.                    *)

QueueStep ==
  \/ \E j \in Jobs : OpenParent(j) \/ QuarantineUnlinked(j) \/ ResumeJob(j)
  \/ \E o \in Operations : Enqueue(o) \/ GrantRetry(o)
  \/ \E n \in Nodes, o \in Operations, lease \in Leases : Claim(n, o, Operations, lease)
  \/ \E n \in Nodes : RotateCertificate(n)
  \/ \E o \in Operations, k \in Attempts : Finish(o, k, "succeeded")
  \/ Tick
  \/ UNCHANGED vars

\* The journal records attempts by their number.
LEMMA EntryNumbers ==
  ASSUME AgentTypes, NEW o \in Operations
  PROVE  journal[o] \in Entries /\ journal[o].attempt \in Nat
<1>1. journal[o] \in Entries
  BY DEF AgentTypes
<1> QED BY <1>1, AgentJobsAssumption DEF Entries

\* A report the controller takes is a success.
LEMMA ProcessStep ==
  ASSUME NEW r \in Reports, Process(r)
  PROVE  \/ Status(r) = "recorded" /\ r.result = "succeeded" /\ Finish(r.op, r.attempt, "succeeded")
         \/ Status(r) # "recorded" /\ UNCHANGED vars
<1>1. r.result \in Results
  BY DEF Reports
<1>2. CASE Status(r) = "recorded"
  <2>1. r.result = "succeeded"
    BY <1>1, <1>2 DEF Status, Results
  <2> QED BY <1>2, <2>1 DEF Process
<1>3. CASE Status(r) # "recorded"
  BY <1>3 DEF Process
<1> QED BY <1>2, <1>3

LEMMA DeliveryQueue == AgentTypes /\ [DeliveryNext]_allVars => QueueStep
<1> SUFFICES ASSUME AgentTypes, [DeliveryNext]_allVars PROVE QueueStep
  OBVIOUS
<1>1. CASE UNCHANGED allVars
  BY <1>1 DEF allVars, QueueStep
<1>2. CASE Agent
  <2>1. \/ UNCHANGED vars
        \/ \E n \in Nodes : RotateCertificate(n)
        \/ \E n \in Nodes, o \in Operations, lease \in Leases : Claim(n, o, Operations, lease)
    BY <1>2, Zenon DEF Agent, Boot, Crash, Renew, Resubmit, Poll, Begin, Execute, Timeout
  <2> QED BY <2>1, Zenon DEF QueueStep
<1>3. CASE Controller
  BY <1>3, Zenon DEF Controller, QueueStep
<1>4. ASSUME NEW r \in reports, Answered(r) \/ LateReport(r) PROVE QueueStep
  <2>1. r \in Reports /\ r.op \in Operations /\ r.attempt \in Attempts
    BY DEF AgentTypes, Reports
  <2>2. Process(r) \/ UNCHANGED vars
    BY <1>4 DEF Answered, LateReport
  <2> QED BY <2>1, <2>2, ProcessStep DEF QueueStep
<1> QED BY <1>1, <1>2, <1>3, <1>4 DEF DeliveryNext

LEMMA QueueNext == QueueStep => [Next]_vars
<1>1. "succeeded" \in Results
  BY DEF Results
<1> QED BY <1>1, DeliveryAssumption, Zenon DEF QueueStep, Next

\* An attempt the controller does not wait for is never waited for again: a
\* newer attempt, an end or an expired lease is not undone, and no certificate
\* comes back.
LEMMA PastStays ==
  ASSUME IInv, ClaimsAge, QueueStep
  PROVE  /\ ClaimsAge'
         /\ \A o \in Operations, k \in Attempts :
              k <= current[o] /\ ~ ActiveAttempt(o, k) => k <= current'[o] /\ ~ ActiveAttempt(o, k)'
<1> USE AgentJobsAssumption
<1>1. TypeOK
  BY DEF IInv
<1>2. CASE UNCHANGED <<serial, current, attemptVars>> /\ now' \in Nat /\ now <= now'
  BY <1>1, <1>2 DEF ClaimsAge, ActiveAttempt, TypeOK, attemptVars
<1>3. ASSUME NEW n \in Nodes, RotateCertificate(n)
      PROVE  /\ ClaimsAge'
             /\ \A o \in Operations, k \in Attempts :
                  k <= current[o] /\ ~ ActiveAttempt(o, k) => k <= current'[o] /\ ~ ActiveAttempt(o, k)'
  <2>1. UNCHANGED <<now, current, attemptVars>> /\ \A m \in Nodes : serial[m] \in Nat /\ serial'[m] \in Nat /\ serial[m] <= serial'[m]
    BY <1>1, <1>3 DEF RotateCertificate, TypeOK
  <2> QED BY <1>1, <2>1 DEF ClaimsAge, ActiveAttempt, TypeOK, attemptVars
<1>4. ASSUME NEW p \in Operations, NEW i \in Attempts, NEW s, s # "running",
             attemptState' = [attemptState EXCEPT ![p][i] = s], Released(p), UNCHANGED <<now, serial, current>>
      PROVE  /\ ClaimsAge'
             /\ \A o \in Operations, k \in Attempts :
                  k <= current[o] /\ ~ ActiveAttempt(o, k) => k <= current'[o] /\ ~ ActiveAttempt(o, k)'
  <2>1. ClaimsAge'
    BY <1>1, <1>4 DEF ClaimsAge, Released, TypeOK
  <2>2. \A o \in Operations, k \in Attempts :
          attemptState'[o][k] = IF o = p /\ k = i THEN s ELSE attemptState[o][k]
    BY <1>1, <1>4 DEF TypeOK
  <2>3. \A o \in Operations : (deadline'[o] > now => deadline'[o] = deadline[o] /\ claimedBy'[o] = claimedBy[o])
    BY <1>1, <1>4 DEF Released, TypeOK
  <2> QED BY <1>4, <2>1, <2>2, <2>3 DEF ActiveAttempt
<1>5. ASSUME NEW n \in Nodes, NEW p \in Operations, NEW lease \in Leases, StartAttempt(n, p, Operations, lease)
      PROVE  /\ ClaimsAge'
             /\ \A o \in Operations, k \in Attempts :
                  k <= current[o] /\ ~ ActiveAttempt(o, k) => k <= current'[o] /\ ~ ActiveAttempt(o, k)'
  <2>1. /\ NodeOf[p] = n /\ UNCHANGED <<now, serial>>
        /\ current[p] \in Nat
        /\ \A o \in Operations : current'[o] = IF o = p THEN current[p] + 1 ELSE current[o]
        /\ \A o \in Operations \ {p} : attemptState'[o] = attemptState[o] /\ deadline'[o] = deadline[o] /\ claimedBy'[o] = claimedBy[o]
        /\ claimedBy'[p] = serial[n]
    BY <1>1, <1>5 DEF StartAttempt, Polled, OldestCandidate, Candidates, clockVars, TypeOK
  <2>2. ClaimsAge'
    BY <1>1, <2>1 DEF ClaimsAge, TypeOK
  <2>3. ASSUME NEW o \in Operations, NEW k \in Attempts, k <= current[o], ~ ActiveAttempt(o, k)
        PROVE  k <= current'[o] /\ ~ ActiveAttempt(o, k)'
    <3>1. k \in Nat
      BY DEF Attempts
    <3>2. CASE o = p
      <4>0. current[p] \in Nat /\ current'[o] = current[p] + 1 /\ k <= current[p]
        BY <1>1, <2>1, <2>3, <3>2 DEF TypeOK
      <4>1. k <= current'[o] /\ k # current'[o]
        BY <3>1, <4>0
      <4> QED BY <4>1 DEF ActiveAttempt
    <3>3. CASE o # p
      BY <2>1, <2>3, <3>3, Zenon DEF ActiveAttempt
    <3> QED BY <3>2, <3>3
  <2> QED BY <2>2, <2>3
<1>6. ASSUME NEW n \in Nodes, NEW o \in Operations, ExpireUnsafe(n, o, Operations)
      PROVE  /\ current[o] \in Attempts
             /\ attemptState' = [attemptState EXCEPT ![o][current[o]] = "expired"]
             /\ Released(o) /\ UNCHANGED <<now, serial, current>>
  BY <1>6 DEF ExpireUnsafe, IInv, OneLiveAttempt, clockVars
<1>7. ASSUME NEW o \in Operations, NEW k \in Attempts, Finish(o, k, "succeeded")
      PROVE  /\ attemptState' = [attemptState EXCEPT ![o][k] = "succeeded"]
             /\ Released(o) /\ UNCHANGED <<now, serial, current>>
  BY <1>7 DEF Finish, clockVars
<1>8. CASE Tick
  BY <1>1, <1>2, <1>8 DEF Tick, TypeOK
<1>9. ASSUME UNCHANGED <<now, serial, current, attemptVars>>
      PROVE  /\ ClaimsAge'
             /\ \A o \in Operations, k \in Attempts :
                  k <= current[o] /\ ~ ActiveAttempt(o, k) => k <= current'[o] /\ ~ ActiveAttempt(o, k)'
  BY <1>1, <1>2, <1>9 DEF TypeOK
<1>10. ASSUME NEW n \in Nodes, NEW o \in Operations, NEW lease \in Leases, Claim(n, o, Operations, lease)
       PROVE  /\ ClaimsAge'
              /\ \A p \in Operations, k \in Attempts :
                   k <= current[p] /\ ~ ActiveAttempt(p, k) => k <= current'[p] /\ ~ ActiveAttempt(p, k)'
  <2>1. CASE ClaimBlocked(n, o, Operations)
    BY <1>9, <2>1 DEF ClaimBlocked, clockVars
  <2>2. CASE ExpireUnsafe(n, o, Operations)
    BY <1>4, <1>6, <2>2, Zenon
  <2> QED BY <1>5, <1>10, <2>1, <2>2 DEF Claim
<1> QED
  <2>1. CASE \E o \in Operations, k \in Attempts : Finish(o, k, "succeeded")
    BY <1>4, <1>7, <2>1, Zenon
  <2> QED BY <1>3, <1>8, <1>9, <1>10, <2>1
             DEF QueueStep, OpenParent, QuarantineUnlinked, ResumeJob, Enqueue, GrantRetry, clockVars, vars, attemptVars
-----------------------------------------------------------------------------
(* The agent's steps.                                                      *)

LEMMA InitDInv == DeliveryInit => DInv
<1> SUFFICES ASSUME DeliveryInit PROVE DInv
  OBVIOUS
<1> USE AgentJobsAssumption
<1>1. IInv
  BY InitIInv DEF DeliveryInit
<1>2. ClaimsAge
  BY DEF DeliveryInit, Init, ClaimsAge
<1>3. NoEntry \in Entries /\ NoClaim \in [op : Operations \cup {0}, attempt : 0..MaxAttempts, deadline : Nat]
  BY DEF NoEntry, Entries, NoClaim
<1>4. AgentTypes
  BY <1>3 DEF DeliveryInit, AgentTypes
<1>5. \A o \in Operations : EntrySound(o)
  BY DEF DeliveryInit, Init, EntrySound, NoEntry, Attempts
<1>6. HandSound /\ \A r \in reports : ReportSound(r)
  BY DEF DeliveryInit, HandSound
<1>7. SuccessIsReal /\ SuccessIsRecorded
  BY DEF DeliveryInit, Init, SuccessIsReal, SuccessIsRecorded, NoEntry
<1> QED BY <1>1, <1>2, <1>4, <1>5, <1>6, <1>7 DEF DInv

\* What a step of the queue leaves as it is for the agent: attempts become
\* more, no attempt becomes a success, nothing acknowledged is waited for again.
LEMMA QueueKeeps ==
  ASSUME DInv, QueueStep
  PROVE  /\ IInv' /\ ClaimsAge'
         /\ \A o \in Operations : current[o] \in Nat /\ current'[o] \in Nat /\ current[o] <= current'[o]
         /\ \A o \in Operations, k \in Attempts :
              /\ journal[o].state = "completed" /\ journal[o].acked /\ journal[o].result = "succeeded"
              /\ k = journal[o].attempt
              => ~ ActiveAttempt(o, k)'
<1>1. IInv /\ ClaimsAge
  BY DEF DInv
<1>2. IInv' /\ ClaimsAge'
  BY <1>1, QueueNext, NextIInv, PastStays
<1>3. \A o \in Operations, k \in Attempts :
        k <= current[o] /\ ~ ActiveAttempt(o, k) => k <= current'[o] /\ ~ ActiveAttempt(o, k)'
  BY <1>1, PastStays
<1>4. ASSUME NEW o \in Operations
      PROVE  current[o] \in Nat /\ current'[o] \in Nat /\ current[o] <= current'[o]
  <2>1. current \in [Operations -> 0..MaxAttempts] /\ current'[o] \in 0..MaxAttempts
    BY <1>1, <1>2 DEF IInv, TypeOK
  <2>2. \/ current' = current
        \/ \E p \in Operations : current' = [current EXCEPT ![p] = current[p] + 1]
    BY Zenon DEF QueueStep, Claim, ClaimBlocked, ExpireUnsafe, StartAttempt, OpenParent, QuarantineUnlinked,
           ResumeJob, Enqueue, GrantRetry, RotateCertificate, Finish, Tick, vars
  <2> QED BY <2>1, <2>2, AgentJobsAssumption
<1>5. ASSUME NEW o \in Operations, journal[o].state = "completed", journal[o].acked,
             journal[o].result = "succeeded", NEW k \in Attempts, k = journal[o].attempt
      PROVE  ~ ActiveAttempt(o, k)'
  <2>1. EntrySound(o) /\ ~ ActiveAttempt(o, k)
    BY <1>5 DEF DInv, SuccessIsRecorded, Awaited
  <2>2. k <= current[o]
    BY <1>5, <2>1 DEF EntrySound
  <2> QED BY <1>3, <2>1, <2>2
<1> QED BY <1>2, <1>4, <1>5
\* Only a recorded report makes a success.
LEMMA NewSuccess ==
  ASSUME IInv, QueueStep
  PROVE  \A o \in Operations, k \in Attempts :
           attemptState'[o][k] = "succeeded" => attemptState[o][k] = "succeeded" \/ Finish(o, k, "succeeded")
<1>1. TypeOK
  BY DEF IInv
<1>2. ASSUME NEW n \in Nodes, NEW p \in Operations, NEW lease \in Leases, Claim(n, p, Operations, lease),
             NEW o \in Operations, NEW k \in Attempts, attemptState'[o][k] = "succeeded"
      PROVE  attemptState[o][k] = "succeeded"
  <2>1. CASE ClaimBlocked(n, p, Operations)
    BY <1>2, <2>1, Zenon DEF ClaimBlocked, attemptVars
  <2>2. CASE ExpireUnsafe(n, p, Operations)
    BY <1>1, <1>2, <2>2 DEF ExpireUnsafe, TypeOK
  <2>3. CASE StartAttempt(n, p, Operations, lease)
    BY <1>1, <1>2, <2>3 DEF StartAttempt, TypeOK
  <2> QED BY <1>2, <2>1, <2>2, <2>3 DEF Claim
<1>3. ASSUME NEW p \in Operations, NEW i \in Attempts, Finish(p, i, "succeeded"),
             NEW o \in Operations, NEW k \in Attempts, attemptState'[o][k] = "succeeded"
      PROVE  attemptState[o][k] = "succeeded" \/ (o = p /\ k = i)
  BY <1>1, <1>3 DEF Finish, TypeOK
<1>4. \/ attemptState' = attemptState
      \/ \E n \in Nodes, o \in Operations, lease \in Leases : Claim(n, o, Operations, lease)
      \/ \E o \in Operations, k \in Attempts : Finish(o, k, "succeeded")
  BY Zenon DEF QueueStep, OpenParent, QuarantineUnlinked, ResumeJob, Enqueue, GrantRetry, RotateCertificate, Tick,
         vars, attemptVars
<1> SUFFICES ASSUME NEW o \in Operations, NEW k \in Attempts, attemptState'[o][k] = "succeeded"
             PROVE  attemptState[o][k] = "succeeded" \/ Finish(o, k, "succeeded")
  OBVIOUS
<1>5. ASSUME NEW p \in Operations, NEW i \in Attempts, Finish(p, i, "succeeded")
      PROVE  attemptState[o][k] = "succeeded" \/ Finish(o, k, "succeeded")
  <2>1. attemptState[o][k] = "succeeded" \/ (o = p /\ k = i)
    BY <1>3, <1>5
  <2> QED BY <1>5, <2>1
<1> QED BY <1>2, <1>4, <1>5, Zenon

\* The journal and what has been run stay sound while attempts are numbered on.
LEMMA EntriesKeep ==
  ASSUME DInv, QueueStep, UNCHANGED <<journal, runs, outcome>>
  PROVE  \A o \in Operations : EntrySound(o)'
<1> SUFFICES ASSUME NEW o \in Operations PROVE EntrySound(o)'
  OBVIOUS
<1>1. EntrySound(o) /\ journal[o].attempt \in Nat
  BY EntryNumbers DEF DInv
<1>2. current[o] \in Nat /\ current'[o] \in Nat /\ current[o] <= current'[o]
  BY QueueKeeps
<1>3. journal[o].attempt <= current'[o]
  BY <1>1, <1>2 DEF EntrySound
<1> QED BY <1>1, <1>3, Zenon DEF EntrySound

\* The queue moves and the agent does not, or the agent gives up waiting.
LEMMA WaitKeeps ==
  ASSUME DInv, QueueStep, UNCHANGED <<journal, runs, outcome>>,
         \/ UNCHANGED <<agent, hand, reports>>
         \/ agent' \in {"down", "ready"} /\ hand' = NoClaim /\ reports' = Abandoned,
         \A o \in Operations, k \in Attempts : ~ Finish(o, k, "succeeded")
  PROVE  DInv'
<1>1. IInv' /\ ClaimsAge'
  BY QueueKeeps, Zenon
<1>2. AgentTypes
  BY DEF DInv
<1>3. \A r \in Abandoned : r \in Reports /\ r.late
                          /\ \E q \in reports : r.op = q.op /\ r.attempt = q.attempt /\ r.result = q.result
  BY <1>2, ZenonT(40) DEF Abandoned, AgentTypes, Reports
<1>4. AgentTypes'
  <2>1. NoClaim \in [op : Operations \cup {0}, attempt : 0..MaxAttempts, deadline : Nat]
    BY AgentJobsAssumption DEF NoClaim
  <2> QED BY <1>2, <1>3, <2>1 DEF AgentTypes
<1>5. \A o \in Operations : EntrySound(o)'
  BY EntriesKeep
<1>6. HandSound'
  <2>1. CASE UNCHANGED <<agent, hand>>
    <3>1. agent \in {"claimed", "executing", "reporting"} =>
            hand.op \in Operations /\ hand.attempt \in Attempts /\ hand.attempt <= current[hand.op]
      BY Zenon DEF DInv, HandSound
    <3>2. \A o \in Operations : current[o] \in Nat /\ current'[o] \in Nat /\ current[o] <= current'[o]
      BY QueueKeeps, Zenon
    <3>3. agent \in {"claimed", "executing", "reporting"} => hand.attempt <= current'[hand.op]
      BY <3>1, <3>2 DEF Attempts
    <3> QED BY <2>1, <3>1, <3>3, SMT DEF DInv, HandSound
  <2>2. CASE agent' \in {"down", "ready"}
    BY <2>2 DEF HandSound
  <2> QED BY <2>1, <2>2
<1>7. \A r \in reports' : ReportSound(r)'
  <2>1. CASE UNCHANGED <<agent, hand, reports>>
    BY <2>1 DEF DInv, ReportSound
  <2>2. CASE reports' = Abandoned
    BY <1>3, <2>2 DEF DInv, ReportSound
  <2> QED BY <2>1, <2>2, SMTT(20)
<1>8. SuccessIsReal'
  BY NewSuccess DEF DInv, SuccessIsReal
<1>9. SuccessIsRecorded'
  BY QueueKeeps, Zenon DEF DInv, SuccessIsRecorded, Awaited, EntrySound
<1> QED BY <1>1, <1>4, <1>5, <1>6, <1>7, <1>8, <1>9 DEF DInv
\* A step of the agent that leaves the queue alone.
LEMMA QueueRests ==
  ASSUME DInv, UNCHANGED vars
  PROVE  IInv' /\ ClaimsAge' /\ QueueStep
  BY QueueKeeps, Zenon DEF QueueStep

LEMMA BootKeeps == ASSUME DInv, Boot PROVE DInv'
<1>1. UNCHANGED vars /\ UNCHANGED <<hand, reports, runs, outcome>> /\ agent = "down" /\ agent' = "ready"
  BY Zenon DEF Boot
<1>2. IInv' /\ ClaimsAge'
  BY <1>1, QueueRests
<1>3. AgentTypes /\ HandSound /\ (\A o \in Operations : EntrySound(o)) /\ (\A r \in reports : ReportSound(r))
      /\ SuccessIsReal /\ SuccessIsRecorded
  BY DEF DInv
<1> DEFINE settled(o) == [journal[o] EXCEPT !.state = "completed", !.acked = FALSE, !.result = "waiting-for-operator"]
<1>4. \A o \in Operations : journal'[o] = IF journal[o].state = "running" THEN settled(o) ELSE journal[o]
  BY Zenon DEF Boot
<1>5. \A o \in Operations :
        /\ settled(o) \in Entries
        /\ settled(o).attempt = journal[o].attempt /\ settled(o).state = "completed"
        /\ settled(o).result = "waiting-for-operator" /\ ~ settled(o).acked
  BY <1>3, ZenonT(40) DEF AgentTypes, Entries, Results
<1> HIDE DEF settled
<1>6. AgentTypes'
  <2>1. journal' \in [Operations -> Entries]
    <3>1. \A o \in Operations : journal'[o] \in Entries
      BY <1>3, <1>4, <1>5, Zenon DEF AgentTypes
    <3> QED BY <3>1, Zenon DEF Boot
  <2> QED BY <1>1, <1>3, <2>1 DEF AgentTypes
<1>7. ASSUME NEW o \in Operations PROVE EntrySound(o)'
  <2>1. CASE journal[o].state = "running"
    BY <1>1, <1>3, <1>4, <1>5, <2>1 DEF EntrySound, Results, vars
  <2>2. CASE journal[o].state # "running"
    BY <1>1, <1>3, <1>4, <2>2, Zenon DEF EntrySound, vars
  <2> QED BY <2>1, <2>2
<1>8. HandSound'
  BY <1>1 DEF HandSound
<1>9. \A r \in reports' : ReportSound(r)'
  BY <1>1, <1>3, Zenon DEF ReportSound
<1>10. SuccessIsReal'
  BY <1>1, <1>3 DEF SuccessIsReal, vars
<1>11. ASSUME NEW o \in Operations, journal'[o].state = "completed", journal'[o].acked,
              journal'[o].result = "succeeded"
       PROVE  ~ Awaited(o)'
  <2>1. journal'[o] = journal[o]
    BY <1>4, <1>5, <1>11
  <2> QED BY <1>1, <1>3, <1>11, <2>1, SMTT(20) DEF SuccessIsRecorded, Awaited, ActiveAttempt, vars
<1>12. SuccessIsRecorded'
  BY <1>11 DEF SuccessIsRecorded
<1> QED BY <1>2, <1>6, <1>7, <1>8, <1>9, <1>10, <1>12 DEF DInv

\* The journal's own entry is sent, and nobody else is waited for.
LEMMA SendKeeps ==
  ASSUME DInv, NEW o \in Operations, UNCHANGED <<vars, runs>>, agent # "reporting", agent' = "reporting",
         hand'.op = o, hand'.attempt = journal[o].attempt,
         hand' \in [op : Operations \cup {0}, attempt : 0..MaxAttempts, deadline : Nat],
         reports' = reports \cup {Report(o, FALSE)},
         AgentTypes', \A p \in Operations : EntrySound(p)',
         journal'[o].state = "completed", journal'[o].attempt = journal[o].attempt,
         SuccessIsReal', SuccessIsRecorded',
         \A p \in Operations, k \in Attempts : outcome[p][k] = "succeeded" => outcome'[p][k] = "succeeded"
  PROVE  DInv'
<1>1. IInv' /\ ClaimsAge'
  BY QueueRests
<1>2. EntrySound(o)' /\ current' = current
  BY SMTT(20) DEF vars
<1>3. HandSound'
  <2>1. hand'.attempt \in Attempts /\ hand'.attempt <= current'[o]
    BY <1>2 DEF EntrySound
  <2> QED BY <2>1 DEF HandSound
<1>4. \A r \in reports : ReportSound(r)'
  <2>1. \A r \in reports : r.late /\ r \in Reports /\ (r.result = "succeeded" => outcome[r.op][r.attempt] = "succeeded")
    BY Zenon DEF DInv, ReportSound, AgentTypes
  <2>2. \A r \in Reports : r.op \in Operations /\ r.attempt \in Attempts
    BY Zenon DEF Reports
  <2> QED BY <2>1, <2>2, Zenon DEF ReportSound
<1>5. LET r == Report(o, FALSE)
      IN  /\ r.op = o /\ r.attempt = journal'[o].attempt /\ r.result = journal'[o].result /\ ~ r.late
  BY Zenon DEF Report
<1>6. ASSUME NEW r, r = Report(o, FALSE) PROVE ReportSound(r)'
  <2>1. r.op = o /\ r.attempt = journal'[o].attempt /\ r.result = journal'[o].result /\ ~ r.late
    BY <1>5, <1>6, Zenon
  <2>2. r.result = "succeeded" => outcome'[o][r.attempt] = "succeeded"
    BY <1>2, <2>1, Zenon DEF EntrySound
  <2> QED BY <2>1, <2>2, Zenon DEF ReportSound
<1>7. \A r \in reports' : ReportSound(r)'
  BY <1>4, <1>6, Zenon
<1> QED BY <1>1, <1>3, <1>7, Zenon DEF DInv
LEMMA ResubmitKeeps == ASSUME DInv, NEW o \in Operations, Resubmit(o) PROVE DInv'
<1>1. /\ UNCHANGED <<vars, journal, runs, outcome>> /\ agent = "ready" /\ agent' = "reporting"
      /\ reports' = reports \cup {Report(o, FALSE)} /\ journal[o].state = "completed"
      /\ hand' = [op |-> o, attempt |-> journal[o].attempt, deadline |-> 0]
  BY Zenon DEF Resubmit, Pending
<1>2. /\ EntrySound(o) /\ AgentTypes /\ journal[o] \in Entries
  BY DEF DInv, AgentTypes
<1>3. hand' \in [op : Operations \cup {0}, attempt : 0..MaxAttempts, deadline : Nat]
  BY <1>1, <1>2 DEF Entries
<1>4. journal[o].attempt \in Attempts /\ journal[o].result \in Results
  BY <1>1, <1>2, Zenon DEF EntrySound
<1>5. Report(o, FALSE) \in Reports
  BY <1>1, <1>4, Zenon DEF Report, Reports
<1>6. AgentTypes'
  BY <1>1, <1>2, <1>3, <1>5, Zenon DEF AgentTypes
<1>7. \A p \in Operations : EntrySound(p)'
  BY <1>1, Zenon DEF DInv, EntrySound, vars
<1>8. SuccessIsReal' /\ SuccessIsRecorded'
  BY <1>1, Zenon DEF DInv, SuccessIsReal, SuccessIsRecorded, Awaited, ActiveAttempt, vars
<1> QED BY <1>1, <1>3, <1>6, <1>7, <1>8, SendKeeps, ZenonT(20)

LEMMA ExecuteKeeps == ASSUME DInv, NEW result \in HandlerResults, Execute(result) PROVE DInv'
<1> DEFINE o == hand.op
           k == hand.attempt
           e == [journal[o] EXCEPT !.state = "completed", !.result = result]
<1>1. /\ UNCHANGED <<vars, hand, runs>> /\ agent = "executing" /\ agent' = "reporting"
      /\ reports' = reports \cup {Report(o, FALSE)}
      /\ outcome' = [outcome EXCEPT ![o][k] = result]
      /\ journal' = [journal EXCEPT ![o].state = "completed", ![o].result = result]
  BY Zenon DEF Execute
<1>2. /\ o \in Operations /\ k \in Attempts
      /\ journal[o].state = "running" /\ journal[o].attempt = k
  BY <1>1 DEF DInv, HandSound
<1>3. AgentTypes /\ journal[o] \in Entries /\ EntrySound(o)
  BY <1>2 DEF DInv, AgentTypes
<1>4. outcome[o][k] = "none" /\ ~ journal[o].acked
  BY <1>2, <1>3 DEF EntrySound
<1>5. /\ e \in Entries /\ e.state = "completed" /\ e.result = result /\ e.attempt = k
      /\ (e.acked <=> journal[o].acked)
  BY <1>2, <1>3, Zenon DEF Entries, HandlerResults, Results
<1>6. /\ journal' \in [Operations -> Entries] /\ journal'[o] = e
      /\ \A p \in Operations \ {o} : journal'[p] = journal[p]
  <2>1. journal' = [journal EXCEPT ![o] = e]
    BY <1>1, <1>2, <1>3, Zenon DEF AgentTypes
  <2> HIDE DEF e, o
  <2> QED BY <1>2, <1>3, <1>5, <2>1 DEF AgentTypes
<1>7. /\ outcome' \in [Operations -> [Attempts -> HandlerResults \cup {"none"}]]
      /\ \A p \in Operations, i \in Attempts :
           outcome'[p][i] = IF p = o /\ i = k THEN result ELSE outcome[p][i]
  BY <1>1, <1>2, <1>3 DEF AgentTypes
<1> HIDE DEF e
<1>8. Report(o, FALSE) \in Reports
  BY <1>2, <1>5, <1>6, Zenon DEF Report, Reports, HandlerResults, Results
<1>9. AgentTypes'
  BY <1>1, <1>3, <1>6, <1>7, <1>8, Zenon DEF AgentTypes
<1>10. ASSUME NEW p \in Operations PROVE EntrySound(p)'
  <2>1. EntrySound(p)
    BY DEF DInv
  <2>2. CASE p = o
    <3>1. /\ journal'[p].attempt = k /\ journal'[p].state = "completed" /\ journal'[p].result = result
          /\ outcome'[p][k] = result /\ result \in Results /\ UNCHANGED <<current, runs>>
      BY <1>1, <1>2, <1>5, <1>6, <1>7, <2>2 DEF vars, HandlerResults, Results
    <3>2. \A i \in Attempts : i > k => i # k
      BY <1>2, SMTT(20) DEF Attempts
    <3>3. \A i \in Attempts : i > k => outcome'[p][i] = "none"
      BY <1>2, <1>7, <2>1, <2>2, <3>2, Zenon DEF EntrySound
    <3> QED BY <1>2, <2>1, <2>2, <3>1, <3>3, Zenon DEF EntrySound
  <2>3. CASE p # o
    BY <1>1, <1>6, <1>7, <2>1, <2>3, Zenon DEF EntrySound, vars
  <2> QED BY <2>2, <2>3
<1>11. SuccessIsReal'
  <2>1. attemptState' = attemptState
    BY <1>1 DEF vars
  <2> QED BY <1>4, <1>7, <2>1, SMTT(20) DEF DInv, SuccessIsReal
<1>12. ASSUME NEW p \in Operations, journal'[p].state = "completed", journal'[p].acked,
              journal'[p].result = "succeeded"
       PROVE  ~ Awaited(p)'
  <2>1. p # o
    BY <1>4, <1>5, <1>6, <1>12
  <2>2. journal'[p] = journal[p]
    BY <1>6, <2>1
  <2> QED BY <1>1, <1>12, <2>2, Zenon DEF DInv, SuccessIsRecorded, Awaited, ActiveAttempt, vars
<1>13. SuccessIsRecorded'
  BY <1>12 DEF SuccessIsRecorded
<1>14. \A p \in Operations, i \in Attempts : outcome[p][i] = "succeeded" => outcome'[p][i] = "succeeded"
  BY <1>4, <1>7
<1> QED BY <1>1, <1>2, <1>3, <1>5, <1>6, <1>9, <1>10, <1>11, <1>13, <1>14, SendKeeps, Zenon DEF AgentTypes
\* An attempt is begun only when it is newer than the journal's, which is why
\* its handler has not been run.
LEMMA BeginKeeps == ASSUME DInv, Begin PROVE DInv'
<1> DEFINE o == hand.op
           k == hand.attempt
           e == [attempt |-> k, state |-> "running", result |-> "none", acked |-> FALSE]
<1>1. UNCHANGED <<vars, reports, outcome>> /\ agent = "claimed"
  BY DEF Begin
<1>2. /\ o \in Operations /\ k \in Attempts /\ k <= current[o] /\ AgentTypes
      /\ (\A p \in Operations : EntrySound(p)) /\ (\A r \in reports : ReportSound(r))
      /\ SuccessIsReal /\ SuccessIsRecorded
  BY <1>1 DEF DInv, HandSound
<1>3. IInv' /\ ClaimsAge'
  BY <1>1, QueueRests
<1>4. SuccessIsReal'
  BY <1>1, <1>2 DEF SuccessIsReal, vars
<1>5. CASE hand.deadline <= now \/ k <= journal[o].attempt
  <2>1. agent' = "down" /\ hand' = NoClaim /\ UNCHANGED <<journal, runs>>
    BY <1>5 DEF Begin
  <2>2. AgentTypes'
    BY <1>1, <1>2, <2>1, AgentJobsAssumption DEF AgentTypes, NoClaim
  <2>3. (\A p \in Operations : EntrySound(p)') /\ HandSound' /\ \A r \in reports' : ReportSound(r)'
    <3>1. \A p \in Operations : EntrySound(p)'
      BY <1>1, <1>2, <2>1, Zenon DEF EntrySound, vars
    <3>2. HandSound'
      BY <2>1 DEF HandSound
    <3>3. \A r \in reports' : ReportSound(r)'
      BY <1>1, <1>2, <2>1 DEF ReportSound
    <3> QED BY <3>1, <3>2, <3>3
  <2>4. SuccessIsRecorded'
    BY <1>1, <1>2, <2>1, Zenon DEF SuccessIsRecorded, Awaited, ActiveAttempt, vars
  <2> QED BY <1>3, <1>4, <2>2, <2>3, <2>4 DEF DInv
<1>6. CASE ~ (hand.deadline <= now \/ k <= journal[o].attempt)
  <2>1. /\ agent' = "executing" /\ hand' = hand /\ journal' = [journal EXCEPT ![o] = e]
        /\ runs' = [runs EXCEPT ![o][k] = @ + 1]
    BY <1>6, Zenon DEF Begin
  <2>2. e \in Entries /\ e.attempt = k /\ e.state = "running" /\ ~ e.acked
    BY <1>2, AgentJobsAssumption DEF Entries, Attempts
  <2> HIDE DEF e
  <2>3. /\ journal' \in [Operations -> Entries] /\ journal'[o] = e
        /\ \A p \in Operations \ {o} : journal'[p] = journal[p]
    BY <1>2, <2>1, <2>2 DEF AgentTypes
  <2>4. k \in Nat /\ journal[o].attempt \in Nat /\ k > journal[o].attempt
    <3>1. k \in Nat /\ journal[o].attempt \in Nat
      BY <1>2, EntryNumbers DEF Attempts
    <3> QED BY <1>6, <3>1
  <2>5. runs[o][k] = 0 /\ outcome[o][k] = "none"
    BY <1>2, <2>4, Zenon DEF EntrySound
  <2>6. /\ runs' \in [Operations -> [Attempts -> Nat]]
        /\ \A p \in Operations, i \in Attempts : runs'[p][i] = IF p = o /\ i = k THEN 1 ELSE runs[p][i]
    BY <1>2, <2>1, <2>5 DEF AgentTypes
  <2>7. AgentTypes'
    BY <1>1, <1>2, <2>1, <2>3, <2>6 DEF AgentTypes
  <2>8. ASSUME NEW p \in Operations PROVE EntrySound(p)'
    <3>1. CASE p = o
      <4>1. /\ journal'[p].attempt = k /\ journal'[p].state = "running" /\ ~ journal'[p].acked
            /\ k <= current'[p] /\ outcome' = outcome /\ outcome'[p][k] = "none"
        BY <1>1, <1>2, <2>2, <2>3, <2>5, <3>1, Zenon DEF vars
      <4>2. ASSUME NEW i \in Attempts, i > k PROVE runs'[p][i] = 0 /\ outcome'[p][i] = "none"
        <5>1. i # k /\ i > journal[o].attempt
          BY <2>4, <4>2 DEF Attempts
        <5>2. runs[o][i] = 0 /\ outcome[o][i] = "none"
          BY <1>2, <4>2, <5>1, ZenonT(20) DEF EntrySound
        <5> QED BY <1>1, <2>6, <3>1, <5>1, <5>2, Zenon
      <4>3. \A i \in Attempts : runs[o][i] <= 1
        BY <1>2, Zenon DEF EntrySound
      <4>4. \A i \in Attempts : runs'[p][i] <= 1
        BY <2>6, <3>1, <4>3
      <4> QED BY <1>2, <4>1, <4>2, <4>4, Zenon DEF EntrySound
    <3>2. CASE p # o
      <4>0. runs'[p] = runs[p]
        BY <1>2, <2>1, <3>2 DEF AgentTypes
      <4>1. /\ journal'[p] = journal[p] /\ runs'[p] = runs[p]
            /\ outcome'[p] = outcome[p] /\ current'[p] = current[p]
        BY <1>1, <2>3, <3>2, <4>0, Zenon DEF vars
      <4>2. EntrySound(p)
        BY <1>2, Zenon
      <4> QED BY <4>1, <4>2, SMTT(40) DEF EntrySound
    <3> QED BY <3>1, <3>2
  <2>9. HandSound'
    BY <1>1, <1>2, <2>1, <2>2, <2>3 DEF HandSound, vars
  <2>10. \A r \in reports' : ReportSound(r)'
    BY <1>1, <1>2, Zenon DEF ReportSound
  <2>11. ASSUME NEW p \in Operations, journal'[p].state = "completed", journal'[p].acked,
                journal'[p].result = "succeeded"
         PROVE  ~ Awaited(p)'
    <3>1. journal'[p] = journal[p]
      BY <2>2, <2>3, <2>11, Zenon
    <3> QED BY <1>1, <1>2, <2>11, <3>1, Zenon DEF SuccessIsRecorded, Awaited, ActiveAttempt, vars
  <2>12. SuccessIsRecorded'
    BY <2>11 DEF SuccessIsRecorded
  <2> QED BY <1>3, <1>4, <2>7, <2>8, <2>9, <2>10, <2>12 DEF DInv
<1> QED BY <1>5, <1>6
LEMMA PollKeeps ==
  ASSUME DInv, NEW n \in Nodes, NEW o \in Operations, NEW lease \in Leases, Poll(n, o, lease) PROVE DInv'
<1>1. Claim(n, o, Operations, lease) /\ UNCHANGED <<journal, reports, runs, outcome>> /\ agent = "ready"
  BY Zenon DEF Poll
<1>2. QueueStep
  BY <1>1 DEF QueueStep
<1>3. ASSUME NEW p \in Operations, NEW k \in Attempts, Finish(p, k, "succeeded") PROVE FALSE
  <2>1. attemptState[p][k] = "running" /\ attemptState' = [attemptState EXCEPT ![p][k] = "succeeded"] /\ TypeOK
    BY <1>3, Zenon DEF Finish, ActiveAttempt, DInv, IInv
  <2>2. attemptState'[p][k] = "succeeded"
    BY <2>1 DEF TypeOK
  <2>3. CASE ClaimBlocked(n, o, Operations)
    BY <2>1, <2>2, <2>3 DEF ClaimBlocked, attemptVars
  <2>4. CASE ExpireUnsafe(n, o, Operations)
    BY <2>1, <2>2, <2>4 DEF ExpireUnsafe, TypeOK
  <2>5. CASE StartAttempt(n, o, Operations, lease)
    BY <2>1, <2>2, <2>5 DEF StartAttempt, TypeOK
  <2> QED BY <1>1, <2>3, <2>4, <2>5 DEF Claim
<1>4. CASE UNCHANGED <<agent, hand>>
  BY <1>1, <1>2, <1>3, <1>4, WaitKeeps
<1>5. CASE /\ current'[o] > current[o] /\ agent' = "claimed"
           /\ hand' = [op |-> o, attempt |-> current'[o], deadline |-> deadline'[o]]
  <2>1. IInv' /\ ClaimsAge' /\ current[o] \in Nat /\ current'[o] \in Nat
    BY <1>2, QueueKeeps, Zenon
  <2>2. current'[o] \in 0..MaxAttempts /\ current'[o] \in Attempts /\ deadline'[o] \in Nat
    BY <1>5, <2>1, AgentJobsAssumption DEF IInv, TypeOK, Attempts
  <2>3. hand' \in [op : Operations \cup {0}, attempt : 0..MaxAttempts, deadline : Nat]
    BY <1>5, <2>2, Zenon
  <2>4. AgentTypes'
    BY <1>1, <1>5, <2>3, Zenon DEF DInv, AgentTypes
  <2>5. HandSound'
    BY <1>5, <2>1, <2>2, SMTT(40) DEF HandSound
  <2>6. \A p \in Operations : EntrySound(p)'
    BY <1>1, <1>2, EntriesKeep
  <2>7. \A r \in reports' : ReportSound(r)'
    BY <1>1, Zenon DEF DInv, ReportSound
  <2>8. SuccessIsReal'
    BY <1>1, <1>2, <1>3, NewSuccess, Zenon DEF DInv, SuccessIsReal
  <2>9. SuccessIsRecorded'
    BY <1>1, <1>2, QueueKeeps, Zenon DEF DInv, SuccessIsRecorded, Awaited, EntrySound
  <2> QED BY <2>1, <2>4, <2>5, <2>6, <2>7, <2>8, <2>9, Zenon DEF DInv
<1> QED BY <1>4, <1>5, Zenon DEF Poll

\* A report is processed: the success it may record is the handler's.
LEMMA ProcessKeeps ==
  ASSUME DInv, NEW r \in reports, Process(r) \/ UNCHANGED vars, UNCHANGED outcome
  PROVE  QueueStep /\ SuccessIsReal'
<1>1. r \in Reports /\ ReportSound(r) /\ r.op \in Operations /\ r.attempt \in Attempts
  BY DEF DInv, AgentTypes, Reports
<1>2. CASE UNCHANGED vars
  BY <1>2, Zenon DEF QueueStep, DInv, SuccessIsReal, vars
<1>3. CASE r.result = "succeeded" /\ Finish(r.op, r.attempt, "succeeded")
  <2>1. QueueStep
    BY <1>1, <1>3 DEF QueueStep
  <2>2. outcome[r.op][r.attempt] = "succeeded"
    BY <1>1, <1>3, Zenon DEF ReportSound
  <2>3. \A p \in Operations, k \in Attempts :
          attemptState'[p][k] = "succeeded" => attemptState[p][k] = "succeeded" \/ (p = r.op /\ k = r.attempt)
    BY <1>1, <1>3, Zenon DEF Finish, DInv, IInv, TypeOK
  <2> QED BY <2>1, <2>2, <2>3, Zenon DEF DInv, SuccessIsReal
<1> QED BY <1>1, <1>2, <1>3, ProcessStep, Zenon

LEMMA LateReportKeeps == ASSUME DInv, NEW r \in reports, LateReport(r) PROVE DInv'
<1>1. /\ Process(r) \/ UNCHANGED vars
      /\ reports' \subseteq reports /\ UNCHANGED <<agent, hand, journal, runs, outcome>>
  BY Zenon DEF LateReport
<1>2. QueueStep /\ SuccessIsReal'
  BY <1>1, ProcessKeeps
<1>3. IInv' /\ ClaimsAge'
  BY <1>2, QueueKeeps, Zenon
<1>4. AgentTypes'
  BY <1>1 DEF DInv, AgentTypes
<1>5. \A o \in Operations : EntrySound(o)'
  BY <1>1, <1>2, EntriesKeep
<1>6. HandSound'
  <2>1. agent \in {"claimed", "executing", "reporting"} =>
          hand.op \in Operations /\ hand.attempt \in Attempts /\ hand.attempt <= current[hand.op]
    BY Zenon DEF DInv, HandSound
  <2>2. \A o \in Operations : current[o] \in Nat /\ current'[o] \in Nat /\ current[o] <= current'[o]
    BY <1>2, QueueKeeps, Zenon
  <2>3. \A k \in Attempts : k \in Nat
    BY AgentJobsAssumption DEF Attempts
  <2>4. \A o \in Operations, k \in Attempts : k <= current[o] => k <= current'[o]
    BY <2>2, <2>3
  <2>5. agent = "executing" =>
          journal[hand.op].state = "running" /\ journal[hand.op].attempt = hand.attempt
    BY Zenon DEF DInv, HandSound
  <2> QED BY <1>1, <2>1, <2>4, <2>5, Zenon DEF HandSound
<1>7. \A q \in reports' : ReportSound(q)'
  BY <1>1, Zenon DEF DInv, ReportSound
<1>8. SuccessIsRecorded'
  BY <1>1, <1>2, QueueKeeps, Zenon DEF DInv, SuccessIsRecorded, Awaited, EntrySound
<1> QED BY <1>2, <1>3, <1>4, <1>5, <1>6, <1>7, <1>8 DEF DInv
\* Whoever gets an answer gets it for the journal's entry, and takes it for
\* delivered only when the attempt cannot be answered for any more.
LEMMA AnsweredKeeps == ASSUME DInv, NEW r \in reports, Answered(r) PROVE DInv'
<1> DEFINE o == r.op
<1>1. /\ ~ r.late /\ Process(r) /\ reports' = reports \ {r} /\ agent' = "ready" /\ hand' = NoClaim
      /\ journal' = IF Status(r) # "error" THEN [journal EXCEPT ![o].acked = TRUE] ELSE journal
      /\ UNCHANGED <<runs, outcome>>
  BY DEF Answered
<1>2. AgentTypes /\ r \in Reports /\ ReportSound(r) /\ (\A p \in Operations : EntrySound(p))
      /\ (\A q \in reports : ReportSound(q))
  BY DEF DInv, AgentTypes
<1>3. /\ o \in Operations /\ r.attempt \in Attempts /\ r.result \in Results
      /\ journal[o].state = "completed" /\ r.attempt = journal[o].attempt /\ r.result = journal[o].result
  BY <1>1, <1>2 DEF ReportSound, Reports
<1>4. QueueStep /\ SuccessIsReal'
  BY <1>1, ProcessKeeps
<1>5. IInv' /\ ClaimsAge'
  BY <1>4, QueueKeeps
<1> DEFINE e == [journal[o] EXCEPT !.acked = TRUE]
<1>6. e \in Entries /\ e.attempt = journal[o].attempt /\ e.state = journal[o].state /\ e.result = journal[o].result
  <2>1. ASSUME NEW x \in Entries
        PROVE  LET y == [x EXCEPT !.acked = TRUE]
               IN  y \in Entries /\ y.attempt = x.attempt /\ y.state = x.state /\ y.result = x.result
    BY Zenon DEF Entries
  <2>2. journal[o] \in Entries
    BY <1>2, <1>3, Zenon DEF AgentTypes
  <2> QED BY <2>1, <2>2
<1>7. /\ journal' \in [Operations -> Entries]
      /\ \A p \in Operations : /\ journal'[p].attempt = journal[p].attempt
                               /\ journal'[p].state = journal[p].state /\ journal'[p].result = journal[p].result
      /\ \A p \in Operations : p # o \/ Status(r) = "error" => journal'[p] = journal[p]
  <2>1. CASE Status(r) = "error"
    BY <1>1, <1>2, <2>1 DEF AgentTypes
  <2>2. CASE Status(r) # "error"
    <3>1. journal' = [journal EXCEPT ![o] = e]
      BY <1>1, <1>2, <1>3, <2>2 DEF AgentTypes
    <3> HIDE DEF e, o
    <3> QED BY <1>2, <1>3, <1>6, <2>2, <3>1, Zenon DEF AgentTypes
  <2> QED BY <2>1, <2>2, Zenon
<1>8. AgentTypes'
  BY <1>1, <1>2, <1>7, AgentJobsAssumption, SMTT(20) DEF AgentTypes, NoClaim
<1>9. ASSUME NEW p \in Operations PROVE EntrySound(p)'
  <2>1. journal[p].attempt \in Nat /\ current[p] \in Nat /\ current'[p] \in Nat /\ current[p] <= current'[p]
    BY <1>2, <1>4, AgentJobsAssumption, QueueKeeps, SMTT(20) DEF AgentTypes, Entries
  <2>2. journal'[p].attempt <= current'[p]
    <3>1. journal'[p].attempt = journal[p].attempt
      BY <1>7, Zenon
    <3>2. journal[p].attempt <= current[p]
      BY <1>2, Zenon DEF EntrySound
    <3> QED BY <2>1, <3>1, <3>2
  <2>3. journal[p].state = "running" => journal'[p] = journal[p]
    BY <1>3, <1>7, Zenon
  <2>4. /\ journal'[p].attempt = journal[p].attempt /\ journal'[p].state = journal[p].state
        /\ journal'[p].result = journal[p].result /\ UNCHANGED <<runs, outcome>> /\ EntrySound(p)
    BY <1>1, <1>2, <1>7
  <2>5. journal'[p].state = "running" => ~ journal'[p].acked /\ outcome'[p][journal'[p].attempt] = "none"
    BY <2>3, <2>4, Zenon DEF EntrySound
  <2> QED BY <2>2, <2>4, <2>5, ZenonT(20) DEF EntrySound
<1>10. HandSound'
  BY <1>1 DEF HandSound
<1>11. ASSUME NEW q \in reports' PROVE ReportSound(q)'
  <2>1. q \in reports /\ q # r /\ q \in Reports /\ ReportSound(q)
    BY <1>1, <1>2 DEF AgentTypes
  <2>2. q.late
    <3> SUFFICES ASSUME ~ q.late PROVE FALSE
      OBVIOUS
    <3>1. q.op = r.op /\ q.attempt = r.attempt /\ q.result = r.result
      BY <1>1, <1>2, <2>1 DEF ReportSound
    <3>2. q.late = r.late
      BY <1>1, <1>2, <2>1, Zenon DEF Reports
    <3> QED BY <1>2, <2>1, <3>1, <3>2 DEF Reports
  <2> QED BY <1>1, <2>1, <2>2 DEF ReportSound
<1>12. ASSUME NEW p \in Operations, journal'[p].state = "completed", journal'[p].acked,
              journal'[p].result = "succeeded"
       PROVE  ~ Awaited(p)'
  <2>1. journal'[p].attempt = journal[p].attempt /\ journal[p].attempt \in Attempts
    BY <1>2, <1>7, <1>12, Zenon DEF EntrySound
  <2>2. CASE journal'[p] = journal[p]
    BY <1>4, <1>12, <2>1, <2>2, QueueKeeps, Zenon DEF Awaited
  <2>3. CASE journal'[p] # journal[p]
    <3>1. p = o /\ Status(r) # "error" /\ r.result = "succeeded"
      BY <1>3, <1>7, <1>12, <2>3, Zenon
    <3>2. CASE Status(r) = "recorded"
      <4>1. Finish(o, r.attempt, "succeeded")
        BY <1>1, <3>1, <3>2 DEF Process
      <4>2. attemptState'[o][r.attempt] = "succeeded"
        BY <1>3, <4>1, Zenon DEF Finish, DInv, IInv, TypeOK
      <4> QED BY <1>3, <2>1, <3>1, <4>2, Zenon DEF Awaited, ActiveAttempt
    <3>3. CASE Status(r) # "recorded"
      <4>1. ~ ActiveAttempt(r.op, r.attempt) /\ UNCHANGED vars
        BY <1>1, <3>1, <3>3 DEF Process, Status
      <4> QED BY <1>3, <2>1, <3>1, <4>1, Zenon DEF Awaited, ActiveAttempt, vars
    <3> QED BY <3>2, <3>3
  <2> QED BY <2>2, <2>3
<1>13. SuccessIsRecorded'
  BY <1>12, Zenon DEF SuccessIsRecorded
<1> QED BY <1>4, <1>5, <1>8, <1>9, <1>10, <1>11, <1>13 DEF DInv

LEMMA NextDInv == DInv /\ [DeliveryNext]_allVars => DInv'
<1> SUFFICES ASSUME DInv, [DeliveryNext]_allVars PROVE DInv'
  OBVIOUS
<1>1. QueueStep
  BY DeliveryQueue DEF DInv
<1>2. ASSUME UNCHANGED attemptState PROVE \A o \in Operations, k \in Attempts : ~ Finish(o, k, "succeeded")
  <2>1. attemptState = [o \in Operations |-> attemptState[o]]
        /\ \A o \in Operations : attemptState[o] = [k \in Attempts |-> attemptState[o][k]]
    BY DEF DInv, IInv, TypeOK
  <2>2. ASSUME NEW o \in Operations, NEW k \in Attempts, Finish(o, k, "succeeded") PROVE FALSE
    <3>1. attemptState[o][k] = "running" /\ attemptState = [attemptState EXCEPT ![o][k] = "succeeded"]
      BY <1>2, <2>2, Zenon DEF Finish, ActiveAttempt
    <3> QED BY <2>1, <3>1
  <2> QED BY <2>2
<1>3. ASSUME NEW n \in Nodes, Renew(n) PROVE DInv'
  <2>1. UNCHANGED agentVars /\ attemptState' = attemptState
    BY <1>3, Zenon DEF Renew, RotateCertificate, attemptVars
  <2> QED BY <1>1, <1>2, <2>1, WaitKeeps DEF agentVars
<1>4. CASE Controller
  <2>1. UNCHANGED agentVars /\ attemptState' = attemptState
    BY <1>4, Zenon DEF Controller, OpenParent, QuarantineUnlinked, ResumeJob, Enqueue, GrantRetry, Tick, attemptVars
  <2> QED BY <1>1, <1>2, <2>1, WaitKeeps DEF agentVars
<1>5. CASE Crash \/ Timeout
  <2>1. UNCHANGED <<journal, runs, outcome>> /\ attemptState' = attemptState
        /\ agent' \in {"down", "ready"} /\ hand' = NoClaim /\ reports' = Abandoned
    BY <1>5, Zenon DEF Crash, Timeout, vars
  <2> QED BY <1>1, <1>2, <2>1, WaitKeeps
<1>6. CASE UNCHANGED allVars
  <2>1. UNCHANGED agentVars /\ attemptState' = attemptState
    BY <1>6, Zenon DEF allVars, vars
  <2> QED BY <1>1, <1>2, <2>1, WaitKeeps DEF agentVars
<1> QED BY <1>3, <1>4, <1>5, <1>6, BootKeeps, ResubmitKeeps, PollKeeps, BeginKeeps, ExecuteKeeps,
           AnsweredKeeps, LateReportKeeps DEF DeliveryNext, Agent

-----------------------------------------------------------------------------
(* Theorems.                                                               *)

\* What the agent, its crashes and its lost messages do to the queue is what
\* AgentJobService allows: the delivery implements the queue.
THEOREM DeliveryImplementsQueue == DeliverySpec => Spec
<1>1. DeliveryInit => Init
  BY DEF DeliveryInit
<1>2. DInv /\ [DeliveryNext]_allVars => [Next]_vars
  BY DeliveryQueue, QueueNext DEF DInv
<1> QED BY <1>1, <1>2, InitDInv, NextDInv, PTL DEF DeliverySpec, Spec

\* No crash, lost report or late answer invents a success or drops one
\* (SuccessSound): the controller's success is the handler's, and a success is
\* acknowledged only once it is recorded or can no longer be.
THEOREM SuccessesStaySound == DeliverySpec => []SuccessSound
<1>1. DInv => SuccessSound
  BY ZenonT(20) DEF DInv, IInv, AgentTypes, Entries, Reports, SuccessSound, DeliveryTypeOK
<1> QED BY <1>1, InitDInv, NextDInv, PTL DEF DeliverySpec

\* The handler of an attempt is run at most once, and that of an operation at
\* most once more than an operator allowed (RunsOnce): StateStore.begin writes
\* the journal first, and recover_interrupted settles instead of running again.
THEOREM HandlersRunOnce == DeliverySpec => []RunsOnce
<1>1. DInv => RunsOnce
  <2> SUFFICES ASSUME DInv, NEW o \in Operations
               PROVE  /\ \A k \in Attempts : runs[o][k] <= 1
                      /\ Cardinality({k \in Attempts : runs[o][k] > 0}) <= 1 + grants[o]
    BY Zenon DEF RunsOnce
  <2> DEFINE ran == {k \in Attempts : runs[o][k] > 0}
  <2>1. EntrySound(o) /\ TypeOK /\ AgentTypes /\ current[o] <= 1 + grants[o]
    BY DeliveryAssumption DEF DInv, IInv, UnusedGrants
  <2>2. current[o] \in Nat /\ grants[o] \in Nat /\ journal[o].attempt \in Nat /\ journal[o].attempt <= current[o]
    BY <2>1, AgentJobsAssumption, SMTT(20) DEF TypeOK, AgentTypes, Entries, EntrySound
  <2>3. ran \subseteq 1..current[o]
    <3>1. ASSUME NEW k \in Attempts, runs[o][k] > 0 PROVE k \in 1..current[o]
      <4>1. runs[o][k] # 0
        BY <3>1
      <4>2. ~ (k > journal[o].attempt)
        BY <2>1, <4>1, Zenon DEF EntrySound
      <4> QED BY <2>2, <4>2 DEF Attempts
    <3> QED BY <3>1, Zenon
  <2>4. IsFiniteSet(1..current[o]) /\ Cardinality(1..current[o]) = current[o]
    <3>1. \A a, b \in Int : IsFiniteSet(a..b) /\ Cardinality(a..b) = IF a > b THEN 0 ELSE b - a + 1
      BY FS_Interval
    <3>2. \A c \in Nat : IsFiniteSet(1..c) /\ Cardinality(1..c) = IF 1 > c THEN 0 ELSE c - 1 + 1
      <4>1. \A c \in Nat : 1 \in Int /\ c \in Int
        OBVIOUS
      <4> QED BY <3>1, <4>1, Zenon
    <3>3. \A c \in Nat : (IF 1 > c THEN 0 ELSE c - 1 + 1) = c
      OBVIOUS
    <3> QED BY <2>2, <3>2, <3>3, Zenon
  <2>5. Cardinality(ran) <= current[o] /\ Cardinality(ran) \in Nat
    BY <2>3, <2>4, FS_Subset, FS_CardinalityType, Zenon
  <2>6. \A k \in Attempts : runs[o][k] <= 1
    BY <2>1, Zenon DEF EntrySound
  <2> HIDE DEF ran
  <2>7. Cardinality(ran) <= 1 + grants[o]
    BY <2>1, <2>2, <2>5
  <2> QED BY <2>6, <2>7 DEF ran
<1> QED BY <1>1, InitDInv, NextDInv, PTL DEF DeliverySpec
=============================================================================
