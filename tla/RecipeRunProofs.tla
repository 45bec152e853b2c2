--------------------------- MODULE RecipeRunProofs ---------------------------
(***************************************************************************)
(* Proof that a run's reservations outlive its containers, and that hence  *)
(* no two containers claim one port of a node (RecipeRuns), for every set  *)
(* of nodes, installations and runs and without a bound on the jobs.       *)
(*                                                                         *)
(* Why it holds: the operations of a node are taken in the order of their  *)
(* jobs, the start of a run precedes all its stops, so behind the stop     *)
(* evidence of a node no start of the run can execute there.  Only a stop  *)
(* with evidence from every node releases.  The inductive invariant says   *)
(* just that, of the rows (js, os, rn, rs) and of the nodes (dg, u); it is *)
(* an operator of those so that a step which both records a result and     *)
(* queues a cleanup can be taken apart.                                    *)
(***************************************************************************)
EXTENDS RecipeRuns, TLAPS

JobRows == [kind : InstallKinds, owner : Installations]
             \cup [kind : {"start", "stop"}, owner : Runs]

RunStates == {"absent", "starting", "running", "stopping", "stopped", "failed"}

Assignments == [job : Nat, result : {"none", "succeeded", "failed"}]

IsStart(job, r) == job.kind = "start" /\ job.owner = r
IsStop(job, r) == job.kind = "stop" /\ job.owner = r

Typed(js, os, rn, rs, dg, u) ==
  /\ js \in Seq(JobRows)
  /\ os \in Seq([Nodes -> OpStates])
  /\ Len(os) = Len(js)
  /\ rn \in [Runs -> RunStates]
  /\ rs \subseteq Runs
  /\ dg \in [Nodes -> Assignments]
  /\ u \in [Runs -> SUBSET Nodes]

\* A job of a run has an operation on exactly the run's nodes.
Targeted(js, os) ==
  \A k \in 1..Len(js), r \in Runs, n \in Nodes :
    IsStart(js[k], r) \/ IsStop(js[k], r)
      => (os[k][n] = "none" <=> n \notin RunNodesOf(r))

\* A node takes an operation only when it is done with all earlier ones.
InOrder(os) ==
  \A j, k \in 1..Len(os), n \in Nodes :
    j < k /\ os[k][n] \notin {"none", "queued"} => os[j][n] \notin {"queued", "running"}

\* The start of a run precedes its stops, and a run with jobs exists.
StartsFirst(js) ==
  \A j, k \in 1..Len(js), r \in Runs :
    IsStart(js[j], r) /\ IsStop(js[k], r) => j < k

Known(js, rn) ==
  \A k \in 1..Len(js), r \in Runs :
    IsStart(js[k], r) \/ IsStop(js[k], r) => rn[r] # "absent"

\* What an agent executes is running.
Assigned(os, dg) ==
  \A n \in Nodes : dg[n].job # 0 =>
    dg[n].job \in 1..Len(os) /\ os[dg[n].job][n] = "running"

UpKnown(rn, u) ==
  \A r \in Runs : \A n \in u[r] : n \in RunNodesOf(r) /\ rn[r] # "absent"

\* A stop that succeeded on a node, reported or not, left no container there.
DownAfterStop(js, os, dg, u) ==
  \A k \in 1..Len(js), r \in Runs, n \in Nodes :
    /\ IsStop(js[k], r)
    /\ os[k][n] = "succeeded" \/ (dg[n].job = k /\ dg[n].result = "succeeded")
    => n \notin u[r]

StoppedEverywhere(ops) == \A n \in Nodes : ops[n] \in {"none", "succeeded"}

\* Reservations are given up on complete stop evidence only.
ReleasedOnEvidence(js, os, rn, rs) ==
  \A r \in Runs \ rs :
    rn[r] # "absent" =>
      \E k \in 1..Len(js) : IsStop(js[k], r) /\ StoppedEverywhere(os[k])

Safe(js, os, rn, rs, dg, u) ==
  /\ Typed(js, os, rn, rs, dg, u)
  /\ Targeted(js, os)
  /\ InOrder(os)
  /\ StartsFirst(js)
  /\ Known(js, rn)
  /\ Assigned(os, dg)
  /\ UpKnown(rn, u)
  /\ DownAfterStop(js, os, dg, u)
  /\ ReleasedOnEvidence(js, os, rn, rs)

IInv == Safe(jobs, op, run, reserved, doing, up)

-----------------------------------------------------------------------------
(* Sequences.                                                              *)

\* What a sequence with one more element looks like.
LEMMA AppendFacts ==
  ASSUME NEW S, NEW s \in Seq(S), NEW e \in S
  PROVE  /\ Append(s, e) \in Seq(S)
         /\ Len(Append(s, e)) = Len(s) + 1
         /\ \A k \in 1..Len(s) : Append(s, e)[k] = s[k]
         /\ Append(s, e)[Len(s) + 1] = e
  OBVIOUS

\* What the operations look like when one of them changes.
LEMMA ExceptFacts ==
  ASSUME NEW os \in Seq([Nodes -> OpStates]), NEW k \in 1..Len(os),
         NEW n \in Nodes, NEW v \in OpStates
  PROVE  LET os2 == [os EXCEPT ![k][n] = v]
         IN  /\ os2 \in Seq([Nodes -> OpStates])
             /\ Len(os2) = Len(os)
             /\ \A j \in 1..Len(os), m \in Nodes :
                  os2[j][m] = IF j = k /\ m = n THEN v ELSE os[j][m]
  OBVIOUS

-----------------------------------------------------------------------------
(* Steps that preserve the invariant.                                      *)

\* A job may be queued behind all others (_queue_in_session): a start only for
\* a run that did not exist, a stop only for one that does.
LEMMA QueuePreserves ==
  ASSUME NEW js, NEW os, NEW rn, NEW rs, NEW dg, NEW u,
         Safe(js, os, rn, rs, dg, u),
         NEW job \in JobRows, NEW targets,
         NEW rn2 \in [Runs -> RunStates], NEW rs2 \in SUBSET Runs,
         rs \subseteq rs2,
         \A r \in Runs : rn[r] # "absent" => rn2[r] # "absent",
         \A r \in Runs : rn2[r] # "absent" => rn[r] # "absent" \/ r \in rs2,
         \A r \in Runs : IsStart(job, r) =>
           rn[r] = "absent" /\ rn2[r] # "absent" /\ targets = RunNodesOf(r),
         \A r \in Runs : IsStop(job, r) =>
           rn2[r] # "absent" /\ targets = RunNodesOf(r)
  PROVE  Safe(Append(js, job), Append(os, Operations(targets)), rn2, rs2, dg, u)
<1> DEFINE js2 == Append(js, job)
           os2 == Append(os, Operations(targets))
<1>1. js \in Seq(JobRows) /\ os \in Seq([Nodes -> OpStates]) /\ Len(os) = Len(js)
      /\ Len(js) \in Nat
  BY DEF Safe, Typed
<1>2. Operations(targets) \in [Nodes -> OpStates]
  BY DEF Operations, OpStates
<1>3. js2 \in Seq(JobRows) /\ Len(js2) = Len(js) + 1
      /\ (\A k \in 1..Len(js) : js2[k] = js[k]) /\ js2[Len(js) + 1] = job
  BY <1>1, AppendFacts
<1>4. os2 \in Seq([Nodes -> OpStates]) /\ Len(os2) = Len(js) + 1
      /\ (\A k \in 1..Len(js) : os2[k] = os[k])
      /\ os2[Len(js) + 1] = Operations(targets)
  BY <1>1, <1>2, AppendFacts
<1> HIDE DEF js2, os2
<1>a. \A k \in 1..(Len(js) + 1) : k \in 1..Len(js) \/ (k = Len(js) + 1 /\ \A j \in 1..Len(js) : j < k)
  BY <1>1
<1>5. Typed(js2, os2, rn2, rs2, dg, u)
  BY <1>3, <1>4 DEF Safe, Typed
<1>6. Targeted(js2, os2)
  BY <1>1, <1>3, <1>4 DEF Safe, Targeted, Operations
<1>7. InOrder(os2)
  <2> SUFFICES ASSUME NEW j \in 1..(Len(js) + 1), NEW k \in 1..(Len(js) + 1), NEW n \in Nodes,
                      j < k, os2[k][n] \notin {"none", "queued"}
               PROVE  os2[j][n] \notin {"queued", "running"}
    BY <1>4 DEF InOrder
  <2>1. k \in 1..Len(js) /\ j \in 1..Len(js)
    BY <1>1, <1>4 DEF Operations
  <2> QED
    BY <2>1, <1>1, <1>4 DEF Safe, InOrder
<1>8. StartsFirst(js2)
  <2> SUFFICES ASSUME NEW j \in 1..(Len(js) + 1), NEW k \in 1..(Len(js) + 1), NEW r \in Runs,
                      IsStart(js2[j], r), IsStop(js2[k], r)
               PROVE  j < k
    BY <1>3 DEF StartsFirst
  <2>1. CASE j \in 1..Len(js) /\ k \in 1..Len(js)
    BY <2>1, <1>1, <1>3 DEF Safe, StartsFirst
  <2>2. CASE j = Len(js) + 1
    <3>1. IsStart(job, r) /\ rn[r] = "absent"
      BY <2>2, <1>3
    <3>2. k \in 1..Len(js)
      BY <3>1, <1>a, <1>3 DEF IsStart, IsStop
    <3> QED
      BY <3>1, <3>2, <1>1, <1>3 DEF Safe, Known
  <2>3. CASE j \in 1..Len(js) /\ k = Len(js) + 1
    BY <2>3, <1>a
  <2> QED
    BY <2>1, <2>2, <2>3, <1>a
<1>9. Known(js2, rn2)
  BY <1>1, <1>3 DEF Safe, Known
<1>10. Assigned(os2, dg)
  BY <1>1, <1>4 DEF Safe, Assigned
<1>11. UpKnown(rn2, u)
  BY DEF Safe, UpKnown
<1>12. DownAfterStop(js2, os2, dg, u)
  <2> SUFFICES ASSUME NEW k \in 1..(Len(js) + 1), NEW r \in Runs, NEW n \in Nodes,
                      IsStop(js2[k], r),
                      os2[k][n] = "succeeded" \/ (dg[n].job = k /\ dg[n].result = "succeeded")
               PROVE  n \notin u[r]
    BY <1>3 DEF DownAfterStop
  <2>1. k \in 1..Len(js)
    BY <1>1, <1>4, <1>a DEF Safe, Assigned, Operations
  <2> QED
    BY <2>1, <1>1, <1>3, <1>4 DEF Safe, DownAfterStop
<1>13. ReleasedOnEvidence(js2, os2, rn2, rs2)
  <2> SUFFICES ASSUME NEW r \in Runs, r \notin rs2, rn2[r] # "absent"
               PROVE  \E k \in 1..Len(js2) : IsStop(js2[k], r) /\ StoppedEverywhere(os2[k])
    BY DEF ReleasedOnEvidence
  <2>1. PICK k \in 1..Len(js) : IsStop(js[k], r) /\ StoppedEverywhere(os[k])
    BY DEF Safe, ReleasedOnEvidence
  <2>2. k \in 1..Len(js2) /\ js2[k] = js[k] /\ os2[k] = os[k]
    BY <1>1, <1>3, <1>4
  <2> QED
    BY <2>1, <2>2
<1> QED
  BY <1>5, <1>6, <1>7, <1>8, <1>9, <1>10, <1>11, <1>12, <1>13 DEF Safe, js2, os2

\* The rows of the runs may change (_project_node_result, _release) as long as
\* no run appears or disappears and every release has its evidence.
LEMMA RunRowsPreserve ==
  ASSUME NEW js, NEW os, NEW rn, NEW rs, NEW dg, NEW u,
         Safe(js, os, rn, rs, dg, u),
         NEW rn2 \in [Runs -> RunStates], NEW rs2 \in SUBSET Runs,
         \A r \in Runs : rn[r] # "absent" <=> rn2[r] # "absent",
         \A r \in rs \ rs2 :
           \E k \in 1..Len(js) : IsStop(js[k], r) /\ StoppedEverywhere(os[k])
  PROVE  Safe(js, os, rn2, rs2, dg, u)
<1>1. Typed(js, os, rn2, rs2, dg, u)
  BY DEF Safe, Typed
<1>2. Known(js, rn2) /\ UpKnown(rn2, u)
  BY DEF Safe, Known, UpKnown
<1>3. ReleasedOnEvidence(js, os, rn2, rs2)
  BY DEF Safe, ReleasedOnEvidence
<1> QED
  BY <1>1, <1>2, <1>3 DEF Safe

\* A node may take its oldest queued operation (_claim_once).
LEMMA ClaimPreserves ==
  ASSUME NEW js, NEW os, NEW rn, NEW rs, NEW dg, NEW u,
         Safe(js, os, rn, rs, dg, u),
         NEW k \in 1..Len(js), NEW n \in Nodes,
         os[k][n] = "queued",
         \A j \in 1..Len(js) : os[j][n] # "running",
         \A j \in 1..Len(js) : j < k => os[j][n] # "queued"
  PROVE  Safe(js, [os EXCEPT ![k][n] = "running"], rn, rs,
              [dg EXCEPT ![n] = [job |-> k, result |-> "none"]], u)
<1> DEFINE os2 == [os EXCEPT ![k][n] = "running"]
           dg2 == [dg EXCEPT ![n] = [job |-> k, result |-> "none"]]
<1>1. js \in Seq(JobRows) /\ os \in Seq([Nodes -> OpStates]) /\ Len(os) = Len(js)
      /\ Len(js) \in Nat /\ dg \in [Nodes -> Assignments]
  BY DEF Safe, Typed
<1>2. /\ os2 \in Seq([Nodes -> OpStates])
      /\ Len(os2) = Len(js)
      /\ \A j \in 1..Len(js), m \in Nodes :
           os2[j][m] = IF j = k /\ m = n THEN "running" ELSE os[j][m]
  BY <1>1, ExceptFacts DEF OpStates
<1>3. /\ dg2 \in [Nodes -> Assignments]
      /\ dg2[n].job = k /\ dg2[n].result = "none"
      /\ \A m \in Nodes \ {n} : dg2[m] = dg[m]
  BY <1>1 DEF Assignments
<1> HIDE DEF os2, dg2
<1>4. Typed(js, os2, rn, rs, dg2, u)
  BY <1>2, <1>3 DEF Safe, Typed
<1>5. Targeted(js, os2)
  BY <1>2, SMTT(30) DEF Safe, Targeted
<1>6. InOrder(os2)
  <2> SUFFICES ASSUME NEW i \in 1..Len(js), NEW j \in 1..Len(js), NEW m \in Nodes,
                      i < j, os2[j][m] \notin {"none", "queued"}
               PROVE  os2[i][m] \notin {"queued", "running"}
    BY <1>2 DEF InOrder
  <2>1. CASE m # n
    BY <2>1, <1>1, <1>2 DEF Safe, InOrder
  <2>2. CASE m = n /\ j # k
    BY <2>2, <1>1, <1>2 DEF Safe, InOrder
  <2>3. CASE m = n /\ j = k
    BY <2>3, <1>1, <1>2, Zenon
  <2> QED
    BY <2>1, <2>2, <2>3
<1>7. Assigned(os2, dg2)
  <2> SUFFICES ASSUME NEW m \in Nodes, dg2[m].job # 0
               PROVE  dg2[m].job \in 1..Len(js) /\ os2[dg2[m].job][m] = "running"
    BY <1>2 DEF Assigned
  <2>1. CASE m = n
    BY <1>2, <1>3, <2>1
  <2>2. CASE m # n
    <3>1. dg2[m] = dg[m]
      BY <1>3, <2>2
    <3>2. dg[m].job \in 1..Len(js) /\ os[dg[m].job][m] = "running"
      BY <1>1, <3>1 DEF Safe, Assigned
    <3> QED BY <1>2, <2>2, <3>1, <3>2
  <2> QED BY <2>1, <2>2
<1>8. DownAfterStop(js, os2, dg2, u)
  <2> SUFFICES ASSUME NEW j \in 1..Len(js), NEW r \in Runs, NEW m \in Nodes,
                      IsStop(js[j], r),
                      os2[j][m] = "succeeded" \/ (dg2[m].job = j /\ dg2[m].result = "succeeded")
               PROVE  m \notin u[r]
    BY DEF DownAfterStop
  <2>1. os[j][m] = "succeeded" \/ (dg[m].job = j /\ dg[m].result = "succeeded")
    BY <1>2, <1>3
  <2> QED
    BY <2>1 DEF Safe, DownAfterStop
<1>9. ReleasedOnEvidence(js, os2, rn, rs)
  <2> SUFFICES ASSUME NEW r \in Runs \ rs, rn[r] # "absent"
               PROVE  \E j \in 1..Len(js) : IsStop(js[j], r) /\ StoppedEverywhere(os2[j])
    BY DEF ReleasedOnEvidence
  <2>1. PICK j \in 1..Len(js) : IsStop(js[j], r) /\ StoppedEverywhere(os[j])
    BY DEF Safe, ReleasedOnEvidence
  <2> QED
    BY <2>1, <1>2 DEF StoppedEverywhere
<1> QED
  BY <1>4, <1>5, <1>6, <1>7, <1>8, <1>9 DEF Safe, os2, dg2

\* An operation that runs may end, and "succeeded" only if the agent says so
\* (_project_node_result; parked by a poll after its lease).
LEMMA SettlePreserves ==
  ASSUME NEW js, NEW os, NEW rn, NEW rs, NEW dg, NEW u,
         Safe(js, os, rn, rs, dg, u),
         NEW k \in 1..Len(js), NEW n \in Nodes, NEW v \in OpStates, NEW dg2,
         os[k][n] = "running",
         v \in {"succeeded", "failed", "waiting-for-operator"},
         v = "succeeded" => dg[n].job = k /\ dg[n].result = "succeeded",
         dg2 = [dg EXCEPT ![n] = Idle]
  PROVE  Safe(js, [os EXCEPT ![k][n] = v], rn, rs, dg2, u)
<1> DEFINE os2 == [os EXCEPT ![k][n] = v]
<1>1. js \in Seq(JobRows) /\ os \in Seq([Nodes -> OpStates]) /\ Len(os) = Len(js)
      /\ Len(js) \in Nat /\ dg \in [Nodes -> Assignments]
  BY DEF Safe, Typed
<1>2. /\ os2 \in Seq([Nodes -> OpStates])
      /\ Len(os2) = Len(js)
      /\ \A j \in 1..Len(js), m \in Nodes :
           os2[j][m] = IF j = k /\ m = n THEN v ELSE os[j][m]
  BY <1>1, ExceptFacts
<1>3. /\ dg2 \in [Nodes -> Assignments]
      /\ dg2[n].job = 0 /\ dg2[n].result = "none"
      /\ \A m \in Nodes \ {n} : dg2[m] = dg[m]
  BY <1>1 DEF Assignments, Idle
<1> HIDE DEF os2
<1>4. Typed(js, os2, rn, rs, dg2, u)
  BY <1>2, <1>3 DEF Safe, Typed
<1>5. Targeted(js, os2)
  BY <1>2, SMTT(30) DEF Safe, Targeted
<1>6. InOrder(os2)
  <2> SUFFICES ASSUME NEW i \in 1..Len(js), NEW j \in 1..Len(js), NEW m \in Nodes,
                      i < j, os2[j][m] \notin {"none", "queued"}
               PROVE  os2[i][m] \notin {"queued", "running"}
    BY <1>2 DEF InOrder
  <2>1. CASE m # n
    BY <2>1, <1>1, <1>2 DEF Safe, InOrder
  <2>2. CASE m = n /\ j # k
    BY <2>2, <1>1, <1>2 DEF Safe, InOrder
  <2>3. CASE m = n /\ j = k
    BY <2>3, <1>1, <1>2 DEF Safe, InOrder
  <2> QED
    BY <2>1, <2>2, <2>3
<1>7. Assigned(os2, dg2)
  <2> SUFFICES ASSUME NEW m \in Nodes, dg2[m].job # 0
               PROVE  dg2[m].job \in 1..Len(js) /\ os2[dg2[m].job][m] = "running"
    BY <1>2 DEF Assigned
  <2>1. CASE m = n
    BY <1>2, <1>3, <2>1
  <2>2. CASE m # n
    <3>1. dg2[m] = dg[m]
      BY <1>3, <2>2
    <3>2. dg[m].job \in 1..Len(js) /\ os[dg[m].job][m] = "running"
      BY <1>1, <3>1 DEF Safe, Assigned
    <3> QED BY <1>2, <2>2, <3>1, <3>2
  <2> QED BY <2>1, <2>2
<1>8. DownAfterStop(js, os2, dg2, u)
  <2> SUFFICES ASSUME NEW j \in 1..Len(js), NEW r \in Runs, NEW m \in Nodes,
                      IsStop(js[j], r),
                      os2[j][m] = "succeeded" \/ (dg2[m].job = j /\ dg2[m].result = "succeeded")
               PROVE  m \notin u[r]
    BY DEF DownAfterStop
  <2>1. os[j][m] = "succeeded" \/ (dg[m].job = j /\ dg[m].result = "succeeded")
    BY <1>2, <1>3
  <2> QED
    BY <2>1 DEF Safe, DownAfterStop
<1>9. ReleasedOnEvidence(js, os2, rn, rs)
  <2> SUFFICES ASSUME NEW r \in Runs \ rs, rn[r] # "absent"
               PROVE  \E j \in 1..Len(js) : IsStop(js[j], r) /\ StoppedEverywhere(os2[j])
    BY DEF ReleasedOnEvidence
  <2>1. PICK j \in 1..Len(js) : IsStop(js[j], r) /\ StoppedEverywhere(os[j])
    BY DEF Safe, ReleasedOnEvidence
  <2> QED
    BY <2>1, <1>2 DEF StoppedEverywhere
<1> QED
  BY <1>4, <1>5, <1>6, <1>7, <1>8, <1>9 DEF Safe, os2

\* An agent may execute the operation it has (RecipeExecutor::execute): only a
\* start adds a container, and a stop that succeeds leaves none.
LEMMA ExecutionPreserves ==
  ASSUME NEW js, NEW os, NEW rn, NEW rs, NEW dg, NEW u,
         Safe(js, os, rn, rs, dg, u),
         NEW n \in Nodes, NEW a \in Assignments, NEW u2 \in [Runs -> SUBSET Nodes],
         dg[n].job # 0,
         a.job \in {0, dg[n].job},
         \A r \in Runs : \A m \in u2[r] :
           m \in u[r] \/ (m = n /\ IsStart(js[dg[n].job], r)),
         \A r \in Runs :
           a.job # 0 /\ a.result = "succeeded" /\ IsStop(js[dg[n].job], r) => n \notin u2[r]
  PROVE  Safe(js, os, rn, rs, [dg EXCEPT ![n] = a], u2)
<1> DEFINE dg2 == [dg EXCEPT ![n] = a]
           now == dg[n].job
<1>1. js \in Seq(JobRows) /\ os \in Seq([Nodes -> OpStates]) /\ Len(os) = Len(js)
      /\ Len(js) \in Nat /\ dg \in [Nodes -> Assignments]
  BY DEF Safe, Typed
<1>2. dg2 \in [Nodes -> Assignments] /\ dg2[n] = a /\ \A m \in Nodes \ {n} : dg2[m] = dg[m]
  BY <1>1
<1>3. now \in 1..Len(js) /\ os[now][n] = "running"
  BY <1>1 DEF Safe, Assigned
<1> HIDE DEF dg2, now
<1>4. Typed(js, os, rn, rs, dg2, u2)
  BY <1>2 DEF Safe, Typed
<1>5. Assigned(os, dg2)
  BY <1>2, <1>3 DEF Safe, Assigned, now
<1>6. UpKnown(rn, u2)
  BY <1>3, Zenon DEF Safe, UpKnown, Known, Targeted, now
<1>7. DownAfterStop(js, os, dg2, u2)
  <2> SUFFICES ASSUME NEW k \in 1..Len(js), NEW r \in Runs, NEW m \in Nodes,
                      IsStop(js[k], r),
                      os[k][m] = "succeeded" \/ (dg2[m].job = k /\ dg2[m].result = "succeeded")
               PROVE  m \notin u2[r]
    BY DEF DownAfterStop
  <2>1. CASE m = n /\ IsStart(js[now], r)
    <3>1. now < k
      BY <1>3, <2>1 DEF Safe, StartsFirst
    <3>2. os[k][n] \in {"none", "queued"}
      BY <1>1, <1>3, <3>1 DEF Safe, InOrder
    <3>3. a.job = k
      BY <1>2, <2>1, <3>2
    <3> QED
      BY <1>1, <1>3, <3>1, <3>3, SMTT(30) DEF now
  <2>2. CASE os[k][m] = "succeeded" /\ ~ (m = n /\ IsStart(js[now], r))
    BY <2>2 DEF Safe, DownAfterStop, now
  <2>3. CASE m # n /\ os[k][m] # "succeeded"
    BY <2>3, <1>2 DEF Safe, DownAfterStop
  <2>4. CASE m = n /\ os[k][m] # "succeeded" /\ ~ IsStart(js[now], r)
    BY <2>4, <1>2 DEF now
  <2> QED
    BY <2>1, <2>2, <2>3, <2>4
<1> QED
  BY <1>4, <1>5, <1>6, <1>7 DEF Safe, dg2

-----------------------------------------------------------------------------
(* The steps of the specification.                                         *)

\* A step that touches neither jobs, runs nor nodes.
LEMMA Untouched ==
  ASSUME IInv, UNCHANGED <<jobs, op, run, reserved, doing, up>>
  PROVE  IInv'
  BY DEF IInv

\* Who owns a job.
LEMMA Owners ==
  ASSUME IInv, NEW k \in DOMAIN jobs
  PROVE  /\ k \in 1..Len(jobs)
         /\ jobs[k] \in JobRows
         /\ jobs[k].kind \in {"start", "stop"} => jobs[k].owner \in Runs
  <1>1. jobs \in Seq(JobRows)
    BY DEF IInv, Safe, Typed
  <1>2. k \in 1..Len(jobs) /\ jobs[k] \in JobRows
    BY <1>1
  <1> QED
    BY <1>2 DEF JobRows, InstallKinds

\* A request that queues a job for an installation.
LEMMA InstallationRequest ==
  ASSUME IInv, NEW i \in Installations, NEW kind \in InstallKinds, NEW targets,
         QueueAfter(op, kind, i, targets),
         UNCHANGED <<run, reserved, doing, up>>
  PROVE  IInv'
<1> DEFINE job == [kind |-> kind, owner |-> i]
<1>1. job \in JobRows /\ \A r \in Runs : ~ IsStart(job, r) /\ ~ IsStop(job, r)
  BY DEF JobRows, InstallKinds, IsStart, IsStop
<1>2. run \in [Runs -> RunStates] /\ reserved \in SUBSET Runs
  BY DEF IInv, Safe, Typed
<1>3. Safe(jobs, op, run, reserved, doing, up)
  BY DEF IInv
<1> HIDE DEF job
<1>4. Safe(Append(jobs, job), Append(op, Operations(targets)), run, reserved, doing, up)
  BY <1>1, <1>2, <1>3, QueuePreserves
<1> QED
  BY <1>4 DEF IInv, QueueAfter, job

\* A start request.
LEMMA StartRequest ==
  ASSUME IInv, NEW r \in Runs, Start(r)
  PROVE  IInv'
<1> DEFINE job == [kind |-> "start", owner |-> r]
<1>1. job \in JobRows /\ IsStart(job, r)
      /\ \A s \in Runs : ~ IsStop(job, s) /\ (IsStart(job, s) => s = r)
  BY DEF JobRows, IsStart, IsStop
<1>2. /\ Safe(jobs, op, run, reserved, doing, up)
      /\ run \in [Runs -> RunStates] /\ reserved \in SUBSET Runs
  BY DEF IInv, Safe, Typed
<1>3. /\ run[r] = "absent" /\ run' = [run EXCEPT ![r] = "starting"]
      /\ reserved' = reserved \cup {r}
      /\ jobs' = Append(jobs, job) /\ op' = Append(op, Operations(RunNodesOf(r)))
      /\ UNCHANGED <<doing, up>>
  BY DEF Start, QueueAfter, disk
<1> HIDE DEF job
<1>4. run' \in [Runs -> RunStates] /\ run'[r] = "starting"
      /\ (\A s \in Runs \ {r} : run'[s] = run[s]) /\ reserved' \in SUBSET Runs
  BY <1>2, <1>3 DEF RunStates
<1>5. \A s \in Runs : run[s] # "absent" => run'[s] # "absent"
  BY <1>4
<1>6. \A s \in Runs : run'[s] # "absent" => run[s] # "absent" \/ s \in reserved'
  BY <1>3, <1>4
<1>7. \A s \in Runs : IsStart(job, s) =>
        run[s] = "absent" /\ run'[s] # "absent" /\ RunNodesOf(r) = RunNodesOf(s)
  BY <1>1, <1>3, <1>4
<1>8. reserved \subseteq reserved'
  BY <1>3
<1>9. Safe(Append(jobs, job), Append(op, Operations(RunNodesOf(r))), run', reserved', doing, up)
  BY <1>1, <1>2, <1>4, <1>5, <1>6, <1>7, <1>8, QueuePreserves
<1> QED
  BY <1>3, <1>9 DEF IInv

\* The second transaction of a stop request.
LEMMA StopRequest ==
  ASSUME IInv, NEW r \in Runs, StopCommit(r)
  PROVE  IInv'
<1>1. CASE ~ Stoppable(r)
  BY <1>1, Untouched DEF StopCommit, disk
<1>2. CASE Stoppable(r)
  <2> DEFINE job == [kind |-> "stop", owner |-> r]
  <2>1. job \in JobRows
        /\ \A s \in Runs : ~ IsStart(job, s) /\ (IsStop(job, s) => s = r)
    BY DEF JobRows, IsStart, IsStop
  <2>2. /\ Safe(jobs, op, run, reserved, doing, up)
        /\ run \in [Runs -> RunStates] /\ reserved \in SUBSET Runs
    BY DEF IInv, Safe, Typed
  <2>3. /\ run[r] # "absent" /\ run' = [run EXCEPT ![r] = "stopping"]
        /\ jobs' = Append(jobs, job) /\ op' = Append(op, Operations(RunNodesOf(r)))
        /\ UNCHANGED <<reserved, doing, up>>
    BY <1>2 DEF StopCommit, Stoppable, QueueAfter, disk
  <2> HIDE DEF job
  <2>4. run' \in [Runs -> RunStates] /\ run'[r] = "stopping"
        /\ \A s \in Runs \ {r} : run'[s] = run[s]
    BY <2>2, <2>3 DEF RunStates
  <2>5. \A s \in Runs : run[s] # "absent" <=> run'[s] # "absent"
    BY <2>3, <2>4
  <2>6. \A s \in Runs : IsStop(job, s) => run'[s] # "absent" /\ RunNodesOf(r) = RunNodesOf(s)
    BY <2>1, <2>4
  <2>7. Safe(Append(jobs, job), Append(op, Operations(RunNodesOf(r))), run', reserved, doing, up)
    BY <2>1, <2>2, <2>4, <2>5, <2>6, QueuePreserves
  <2> QED
    BY <2>3, <2>7 DEF IInv
<1> QED
  BY <1>1, <1>2

\* What a node does with the operation it has.
LEMMA NodeStep ==
  ASSUME IInv, NEW n \in Nodes, NEW succeeds \in BOOLEAN, NEW a \in Assignments,
         Executing(n), OnNode(n, doing[n].job, succeeds),
         a = Idle \/ (a.job = doing[n].job /\ (a.result = "succeeded" => succeeds)),
         doing' = [doing EXCEPT ![n] = a],
         UNCHANGED <<rows, queue>>
  PROVE  IInv'
<1> DEFINE k == doing[n].job
<1>1. /\ Safe(jobs, op, run, reserved, doing, up)
      /\ up \in [Runs -> SUBSET Nodes]
      /\ jobs \in Seq(JobRows) /\ Len(op) = Len(jobs)
  BY DEF IInv, Safe, Typed
<1>k. k # 0 /\ Assigned(op, doing)
  BY <1>1 DEF Executing, Safe
<1>l. k \in 1..Len(op)
  BY <1>k, Zenon DEF Assigned
<1>2. k # 0 /\ k \in 1..Len(jobs) /\ jobs[k] \in JobRows
  <2> HIDE DEF k
  <2> QED
    BY <1>1, <1>k, <1>l
<1>3. a.job \in {0, k}
  BY DEF Idle
<1>4. OnNode(n, k, succeeds)
  OBVIOUS
<1> HIDE DEF k
<1>5. /\ up' \in [Runs -> SUBSET Nodes]
      /\ \A r \in Runs : \A m \in up'[r] : m \in up[r] \/ (m = n /\ IsStart(jobs[k], r))
      /\ \A r \in Runs : succeeds /\ IsStop(jobs[k], r) => n \notin up'[r]
  <2>1. CASE jobs[k].kind \in InstallKinds
    <3>1. up' = up
      BY <1>4, <2>1, Zenon DEF OnNode, InstallKinds, InstallOnNode, UninstallOnNode
    <3> QED
      BY <1>1, <2>1, <3>1, Zenon DEF InstallKinds, IsStop
  <2>2. CASE jobs[k].kind = "start"
    <3>1. jobs[k].owner \in Runs
      BY <1>2, <2>2 DEF JobRows, InstallKinds
    <3>2. up'[jobs[k].owner] \in {up[jobs[k].owner], up[jobs[k].owner] \cup {n}}
          /\ up' = [up EXCEPT ![jobs[k].owner] = up'[jobs[k].owner]]
      BY <1>1, <1>4, <2>2, <3>1, Zenon DEF OnNode, StartOnNode
    <3>3. up' \in [Runs -> SUBSET Nodes] /\ \A r \in Runs \ {jobs[k].owner} : up'[r] = up[r]
      BY <1>1, <3>1, <3>2
    <3> QED
      BY <2>2, <3>1, <3>2, <3>3 DEF IsStart, IsStop
  <2>3. CASE jobs[k].kind = "stop"
    <3>1. jobs[k].owner \in Runs
      BY <1>2, <2>3 DEF JobRows, InstallKinds
    <3>2. up'[jobs[k].owner] \in {up[jobs[k].owner], up[jobs[k].owner] \ {n}}
          /\ up' = [up EXCEPT ![jobs[k].owner] = up'[jobs[k].owner]]
          /\ (succeeds => n \notin up'[jobs[k].owner])
      BY <1>1, <1>4, <2>3, <3>1, Zenon DEF OnNode, StopOnNode
    <3>3. up' \in [Runs -> SUBSET Nodes] /\ \A r \in Runs \ {jobs[k].owner} : up'[r] = up[r]
      BY <1>1, <3>1, <3>2
    <3> QED
      BY <2>3, <3>1, <3>2, <3>3 DEF IsStart, IsStop
  <2> QED
    BY <1>2, <2>1, <2>2, <2>3 DEF JobRows
<1>i. a.job # 0 /\ a.result = "succeeded" => succeeds
  BY DEF Idle
<1>6. \A r \in Runs : a.job # 0 /\ a.result = "succeeded" /\ IsStop(jobs[k], r) => n \notin up'[r]
  BY <1>5, <1>i, Zenon
<1>7. Safe(jobs, op, run, reserved, [doing EXCEPT ![n] = a], up')
  BY <1>1, <1>2, <1>3, <1>5, <1>6, ExecutionPreserves, Zenon DEF k
<1> QED
  BY <1>7 DEF IInv, rows, queue

\* A result that reaches the controller: the operation is settled and the agent
\* is free, before the rows of the run are looked at.
LEMMA ResultRecorded ==
  ASSUME IInv, NEW n \in Nodes, NEW k \in DOMAIN jobs, NEW kind, Reported(n, k, kind)
  PROVE  /\ Safe(jobs, WithResult(n, k), run, reserved, doing', up)
         /\ doing[n].result \in {"succeeded", "failed"}
         /\ WithResult(n, k)[k] \in [Nodes -> OpStates]
<1>1. /\ Safe(jobs, op, run, reserved, doing, up)
      /\ jobs \in Seq(JobRows) /\ op \in Seq([Nodes -> OpStates]) /\ Len(op) = Len(jobs)
      /\ doing \in [Nodes -> Assignments]
  BY DEF IInv, Safe, Typed
<1>2. k \in 1..Len(jobs) /\ k # 0 /\ doing[n].job = k
      /\ doing' = [doing EXCEPT ![n] = Idle]
  BY <1>1 DEF Reported
<1>3. op[k][n] = "running"
  BY <1>1, <1>2, Zenon DEF Safe, Assigned
<1>4. doing[n].result \in {"succeeded", "failed"} /\ doing[n].result \in OpStates
  BY <1>1 DEF Assignments, OpStates, Reported
<1>5. Safe(jobs, [op EXCEPT ![k][n] = doing[n].result], run, reserved, doing', up)
  BY <1>1, <1>2, <1>3, <1>4, SettlePreserves, Zenon
<1>6. WithResult(n, k) \in Seq([Nodes -> OpStates]) /\ Len(WithResult(n, k)) = Len(jobs)
  BY <1>5 DEF Safe, Typed, WithResult
<1>7. WithResult(n, k)[k] \in [Nodes -> OpStates]
  BY <1>2, <1>6
<1> QED
  BY <1>4, <1>5, <1>7 DEF WithResult

\* A result of a start.
LEMMA StartResult ==
  ASSUME IInv, NEW n \in Nodes, NEW k \in DOMAIN jobs, RecordStart(n, k)
  PROVE  IInv'
<1> DEFINE r == jobs[k].owner
           ops == WithResult(n, k)
           job == [kind |-> "stop", owner |-> r]
<1>1. Reported(n, k, "start") /\ UNCHANGED <<reserved, up>>
  BY DEF RecordStart, disk
<1>2. r \in Runs /\ k \in 1..Len(jobs) /\ IsStart(jobs[k], r)
  BY <1>1, Owners DEF Reported, IsStart
<1>3. Safe(jobs, ops, run, reserved, doing', up)
  BY <1>1, ResultRecorded
<1>4. run \in [Runs -> RunStates] /\ reserved \in SUBSET Runs /\ run[r] # "absent"
  BY <1>2, Zenon DEF IInv, Safe, Typed, Known
<1>5. \/ op' = ops /\ UNCHANGED <<run, jobs>>
      \/ op' = ops /\ UNCHANGED jobs /\ run' = [run EXCEPT ![r] = "running"]
      \/ /\ jobs' = Append(jobs, job) /\ op' = Append(ops, Operations(RunNodesOf(r)))
         /\ run' = [run EXCEPT ![r] = "stopping"]
  BY DEF RecordStart, QueueAfter
<1>6. job \in JobRows /\ \A s \in Runs : ~ IsStart(job, s) /\ (IsStop(job, s) => s = r)
  BY <1>2 DEF JobRows, IsStart, IsStop
<1> HIDE DEF r, ops, job
<1>7. CASE op' = ops /\ UNCHANGED <<run, jobs>>
  BY <1>1, <1>3, <1>7 DEF IInv
<1>8. CASE op' = ops /\ UNCHANGED jobs /\ run' = [run EXCEPT ![r] = "running"]
  <2>1. run' \in [Runs -> RunStates]
        /\ \A s \in Runs : run[s] # "absent" <=> run'[s] # "absent"
    BY <1>2, <1>4, <1>8 DEF RunStates
  <2>2. Safe(jobs, ops, run', reserved, doing', up)
    BY <1>3, <1>4, <2>1, RunRowsPreserve
  <2> QED
    BY <1>1, <1>8, <2>2 DEF IInv
<1>9. CASE /\ jobs' = Append(jobs, job) /\ op' = Append(ops, Operations(RunNodesOf(r)))
           /\ run' = [run EXCEPT ![r] = "stopping"]
  <2>1. run' \in [Runs -> RunStates] /\ run'[r] = "stopping"
        /\ \A s \in Runs : run[s] # "absent" <=> run'[s] # "absent"
    BY <1>2, <1>4, <1>9 DEF RunStates
  <2>2. \A s \in Runs : IsStop(job, s) => run'[s] # "absent" /\ RunNodesOf(r) = RunNodesOf(s)
    BY <1>6, <2>1
  <2>3. Safe(Append(jobs, job), Append(ops, Operations(RunNodesOf(r))), run', reserved, doing', up)
    BY <1>3, <1>4, <1>6, <2>1, <2>2, QueuePreserves
  <2> QED
    BY <1>1, <1>9, <2>3 DEF IInv
<1> QED
  BY <1>5, <1>7, <1>8, <1>9

\* A result of a stop, with the release that may follow from it.
LEMMA StopResult ==
  ASSUME IInv, NEW n \in Nodes, NEW k \in DOMAIN jobs, RecordStop(n, k)
  PROVE  IInv'
<1> DEFINE r == jobs[k].owner
           ops == WithResult(n, k)
           Done == Terminal(ops, k) /\ ~ AnyFailed(ops, k)
<1>1. Reported(n, k, "stop") /\ UNCHANGED <<jobs, up>> /\ op' = ops
  BY DEF RecordStop, disk
<1>2. r \in Runs /\ k \in 1..Len(jobs) /\ IsStop(jobs[k], r)
  BY <1>1, Owners DEF Reported, IsStop
<1>3. Safe(jobs, ops, run, reserved, doing', up) /\ ops[k] \in [Nodes -> OpStates]
  BY <1>1, ResultRecorded
<1>4. run \in [Runs -> RunStates] /\ reserved \in SUBSET Runs /\ run[r] # "absent"
  BY <1>2 DEF IInv, Safe, Typed, Known
<1>5. /\ run' \in {run, [run EXCEPT ![r] = "stopped"], [run EXCEPT ![r] = "failed"]}
      /\ reserved' = IF Done THEN reserved \ {r} ELSE reserved
  BY <1>4, Zenon DEF RecordStop
<1>6. Done => StoppedEverywhere(ops[k])
  BY <1>3, Zenon DEF Terminal, AnyFailed, TerminalOpStates, StoppedEverywhere
<1> HIDE DEF r, ops, Done
<1>7. run' \in [Runs -> RunStates] /\ reserved' \in SUBSET Runs
      /\ \A s \in Runs : run[s] # "absent" <=> run'[s] # "absent"
  BY <1>2, <1>4, <1>5 DEF RunStates
<1>8. \A s \in reserved \ reserved' :
        \E j \in 1..Len(jobs) : IsStop(jobs[j], s) /\ StoppedEverywhere(ops[j])
  BY <1>2, <1>5, <1>6
<1>9. Safe(jobs, ops, run', reserved', doing', up)
  BY <1>3, <1>7, <1>8, RunRowsPreserve
<1> QED
  BY <1>1, <1>9 DEF IInv

-----------------------------------------------------------------------------
\* The invariant holds at the outset: no run exists, nothing is queued.
LEMMA InitiallySafe ==
  ASSUME Init
  PROVE  IInv
<1>0. /\ jobs = <<>> /\ op = <<>>
      /\ run = [r \in Runs |-> "absent"]
      /\ reserved = {}
      /\ doing = [n \in Nodes |-> Idle]
      /\ up = [r \in Runs |-> {}]
  BY Zenon DEF Init
<1>1. /\ jobs \in Seq(JobRows) /\ op \in Seq([Nodes -> OpStates])
      /\ Len(jobs) = 0 /\ Len(op) = 0
  BY <1>0
<1>2. Typed(jobs, op, run, reserved, doing, up)
  BY <1>0, <1>1 DEF Typed, RunStates, Assignments, Idle
<1>3. \A n \in Nodes : doing[n].job = 0
  BY <1>0 DEF Idle
<1>n. 1..Len(jobs) = {} /\ 1..Len(op) = {}
  BY <1>1
<1>4. Targeted(jobs, op) /\ InOrder(op) /\ StartsFirst(jobs) /\ Known(jobs, run)
  BY <1>n, Zenon DEF Targeted, InOrder, StartsFirst, Known
<1>5. Assigned(op, doing) /\ UpKnown(run, up) /\ DownAfterStop(jobs, op, doing, up)
  BY <1>0, <1>n, <1>3 DEF Assigned, UpKnown, DownAfterStop
<1>6. ReleasedOnEvidence(jobs, op, run, reserved)
  BY <1>0 DEF ReleasedOnEvidence
<1> QED
  BY <1>2, <1>4, <1>5, <1>6 DEF IInv, Safe

\* Every step of the controller and of the agents preserves the invariant.
LEMMA StepsPreserve ==
  ASSUME IInv, [Next]_vars
  PROVE  IInv'
<1>0. /\ Safe(jobs, op, run, reserved, doing, up)
      /\ doing \in [Nodes -> Assignments]
      /\ jobs \in Seq(JobRows) /\ Len(op) = Len(jobs)
  BY DEF IInv, Safe, Typed
<1>1. ASSUME NEW i \in Installations,
             Install(i) \/ Retry(i) \/ UninstallQueue(i)
      PROVE  IInv'
  <2>1. CASE Install(i)
    BY <2>1, InstallationRequest DEF Install, InstallKinds, disk
  <2>2. CASE Retry(i)
    BY <2>2, InstallationRequest DEF Retry, InstallKinds, disk
  <2>3. CASE UninstallQueue(i)
    BY <2>3, InstallationRequest DEF UninstallQueue, InstallKinds, disk, rows
  <2> QED
    BY <1>1, <2>1, <2>2, <2>3
<1>2. ASSUME NEW r \in Runs, Start(r) \/ StopCommit(r)
      PROVE  IInv'
  BY <1>2, StartRequest, StopRequest
<1>3. CASE \/ \E i \in Installations : UninstallCheck(i)
           \/ \E r \in Runs : \/ StopCandidate(r) \/ StopWithdraw(r) \/ StopWithdrawFails(r)
                              \/ StopWithdrawn(r) \/ Age(r)
           \/ Worker \/ WorkerRestart \/ ApiRestart \/ BundleExpires \/ UNCHANGED vars
  <2>1. UNCHANGED <<jobs, op, run, reserved, doing, up>>
    BY <1>3, Zenon DEF UninstallCheck, StopCandidate, StopWithdraw, StopWithdrawFails, StopWithdrawn,
       Age, Worker, WorkerFails, WorkerCandidate, WorkerPublish, WorkerPublishFails,
       WorkerCheck, WorkerWrite, WorkerRestart, ApiRestart, BundleExpires, vars, rows, queue,
       disk
  <2> QED
    BY <2>1, Untouched
<1>4. ASSUME NEW n \in Nodes, NEW k \in DOMAIN jobs, Claim(n, k)
      PROVE  IInv'
  <2>1. k \in 1..Len(jobs) /\ DOMAIN jobs = 1..Len(jobs)
    BY <1>0
  <2>2. Safe(jobs, [op EXCEPT ![k][n] = "running"], run, reserved,
             [doing EXCEPT ![n] = [job |-> k, result |-> "none"]], up)
    BY <1>0, <1>4, <2>1, ClaimPreserves, Zenon DEF Claim, Oldest
  <2> QED
    BY <1>4, <2>2 DEF Claim, IInv, rows, disk
<1>5. ASSUME NEW n \in Nodes, NEW k \in DOMAIN jobs, Expire(n, k)
      PROVE  IInv'
  <2>1. k \in 1..Len(jobs)
    BY <1>0
  <2> DEFINE free == [doing EXCEPT ![n] = Idle]
  <2>2. Safe(jobs, [op EXCEPT ![k][n] = "waiting-for-operator"], run, reserved, free, up)
    BY <1>0, <1>5, <2>1, SettlePreserves, Zenon DEF Expire, OpStates
  <2>3. /\ free \in [Nodes -> Assignments] /\ free[n].job = 0
        /\ \A m \in Nodes \ {n} : free[m] = doing[m]
    BY <1>0 DEF Assignments, Idle
  <2> HIDE DEF free
  <2>4. DownAfterStop(jobs, op', doing, up) /\ Assigned(op', doing)
    BY <1>0, <1>5, <2>1, <2>2, <2>3 DEF Expire, Safe, DownAfterStop, Assigned
  <2> QED
    BY <1>0, <1>5, <2>2, <2>4 DEF Expire, IInv, Safe, Typed, rows, disk
<1>6. ASSUME NEW n \in Nodes, NEW k \in DOMAIN jobs, Record(n, k)
      PROVE  IInv'
  <2>1. CASE RecordInstall(n, k)
    BY <2>1, ResultRecorded DEF RecordInstall, IInv, disk
  <2>2. CASE RecordUninstall(n, k)
    BY <2>2, ResultRecorded DEF RecordUninstall, IInv, disk
  <2> QED
    BY <1>6, <2>1, <2>2, StartResult, StopResult DEF Record
<1>7. ASSUME NEW n \in Nodes, Execute(n)
      PROVE  IInv'
  <2>1. PICK succeeds \in BOOLEAN :
          /\ OnNode(n, doing[n].job, succeeds)
          /\ doing' = [doing EXCEPT ![n] =
               [job |-> @.job, result |-> IF succeeds THEN "succeeded" ELSE "failed"]]
    BY <1>7, Zenon DEF Execute
  <2> DEFINE a == [job |-> doing[n].job, result |-> IF succeeds THEN "succeeded" ELSE "failed"]
  <2>2. a \in Assignments /\ a.job = doing[n].job /\ (a.result = "succeeded" => succeeds)
    BY <1>0 DEF Assignments
  <2>3. doing' = [doing EXCEPT ![n] = a] /\ Executing(n) /\ UNCHANGED <<rows, queue>>
    BY <1>0, <1>7, <2>1, Zenon DEF Execute
  <2> HIDE DEF a
  <2> QED
    BY <2>1, <2>2, <2>3, NodeStep, Zenon
<1>8. ASSUME NEW n \in Nodes, Crash(n)
      PROVE  IInv'
  <2>1. Idle \in Assignments
    BY DEF Idle, Assignments
  <2> QED
    BY <1>8, <2>1, NodeStep, Zenon DEF Crash
<1>9. ASSUME NEW n \in Nodes, Refused(n)
      PROVE  IInv'
  <2>1. /\ doing' = [doing EXCEPT ![n] = Idle] /\ UNCHANGED <<jobs, op, run, reserved, up>>
    BY <1>9 DEF Refused, rows, queue, disk
  <2>2. /\ doing' \in [Nodes -> Assignments] /\ doing'[n].job = 0 /\ doing'[n].result = "none"
        /\ \A m \in Nodes \ {n} : doing'[m] = doing[m]
    BY <1>0, <2>1 DEF Assignments, Idle
  <2>3. DownAfterStop(jobs, op, doing', up) /\ Assigned(op, doing')
    BY <1>0, <2>2, Zenon DEF Safe, DownAfterStop, Assigned
  <2> QED
    BY <1>0, <2>1, <2>2, <2>3 DEF IInv, Safe, Typed
<1> QED
  BY <1>1, <1>2, <1>3, <1>4, <1>5, <1>6, <1>7, <1>8, <1>9 DEF Next

\* The inductive invariant: the order of a run's operations, the containers and
\* the evidence for released reservations fit together in every state.
THEOREM RunInvariant == Spec => []IInv
  BY InitiallySafe, StepsPreserve, PTL DEF Spec

\* A run keeps its reservations for as long as one of its containers exists
\* (_release under recipe.stop), for any number of nodes, runs and jobs.
THEOREM ReservationSafety == Spec => []ReservationHeld
<1>1. IInv => ReservationHeld
  <2> SUFFICES ASSUME IInv, NEW r \in Runs, NEW n \in up[r], r \notin reserved
               PROVE  FALSE
    BY DEF ReservationHeld
  <2>1. n \in Nodes /\ n \in RunNodesOf(r) /\ run[r] # "absent"
    BY DEF IInv, Safe, Typed, UpKnown
  <2>2. PICK k \in 1..Len(jobs) : IsStop(jobs[k], r) /\ StoppedEverywhere(op[k])
    BY <2>1, Zenon DEF IInv, Safe, ReleasedOnEvidence
  <2>3. op[k][n] = "succeeded"
    BY <2>1, <2>2, Zenon DEF IInv, Safe, Targeted, StoppedEverywhere
  <2> QED
    BY <2>1, <2>2, <2>3, Zenon DEF IInv, Safe, DownAfterStop
<1> QED
  BY <1>1, RunInvariant, PTL

\* Active reservations of one port are on different nodes
\* (accept_run_in_session).
PortsReserved ==
  \A r, s \in reserved :
    r # s /\ PortOf[InstallationOf[r]] = PortOf[InstallationOf[s]]
      => RunNodesOf(r) \cap RunNodesOf(s) = {}

\* Reservations are added by an admitted start only.
LEMMA ReservationsGrow ==
  ASSUME [Next]_vars
  PROVE  \/ \E r \in Runs : Admitted(r) /\ reserved' = reserved \cup {r}
         \/ reserved' \subseteq reserved
<1>1. CASE \E r \in Runs : Start(r)
  BY <1>1 DEF Start
<1>2. CASE \E n \in Nodes : \E k \in DOMAIN jobs : RecordStop(n, k)
  BY <1>2 DEF RecordStop
<1>3. CASE \E n \in Nodes : \E k \in DOMAIN jobs :
             RecordInstall(n, k) \/ RecordStart(n, k) \/ RecordUninstall(n, k)
  BY <1>3 DEF RecordInstall, RecordStart, RecordUninstall
<1>4. CASE \/ \E i \in Installations :
                Install(i) \/ Retry(i) \/ UninstallCheck(i) \/ UninstallQueue(i)
           \/ \E r \in Runs : \/ StopCandidate(r) \/ StopWithdraw(r) \/ StopWithdrawFails(r)
                              \/ StopWithdrawn(r) \/ StopCommit(r) \/ Age(r)
           \/ WorkerRestart \/ ApiRestart \/ BundleExpires \/ UNCHANGED vars
  <2>1. UNCHANGED reserved
    BY <1>4, Zenon DEF Install, Retry, UninstallCheck, UninstallQueue, StopCandidate,
       StopWithdraw, StopWithdrawFails, StopWithdrawn, StopCommit, Age, WorkerRestart,
       ApiRestart, BundleExpires, vars, rows
  <2> QED
    BY <2>1
<1>5. CASE Worker
  <2>1. UNCHANGED reserved
    BY <1>5, Zenon DEF Worker, WorkerFails, WorkerCandidate, WorkerPublish,
       WorkerPublishFails, WorkerCheck, WorkerWrite, rows
  <2> QED
    BY <2>1
<1>6. CASE \E n \in Nodes : \/ \E k \in DOMAIN jobs : Claim(n, k) \/ Expire(n, k)
                            \/ Execute(n) \/ Crash(n) \/ Refused(n)
  <2>1. UNCHANGED reserved
    BY <1>6, Zenon DEF Claim, Expire, Execute, Crash, Refused, rows
  <2> QED
    BY <2>1
<1> QED
  BY <1>1, <1>2, <1>3, <1>4, <1>5, <1>6 DEF Next, Record

\* Two containers never claim the same port of a node, although admission looks
\* at reservations and never at the node (accept_run_in_session).
THEOREM PortSafety == Spec => []PortsExclusive
<1>1. Init => PortsReserved
  BY Zenon DEF Init, PortsReserved
<1>2. IInv /\ PortsReserved /\ [Next]_vars => PortsReserved'
  <2> SUFFICES ASSUME IInv, PortsReserved, [Next]_vars
               PROVE  PortsReserved'
    OBVIOUS
  <2>1. CASE reserved' \subseteq reserved
    BY <2>1 DEF PortsReserved
  <2>2. ASSUME NEW r \in Runs, Admitted(r), reserved' = reserved \cup {r}
        PROVE  PortsReserved'
    <3>1. \A s \in reserved :
            PortOf[InstallationOf[s]] = PortOf[InstallationOf[r]]
              => RunNodesOf(s) \cap RunNodesOf(r) = {}
      BY <2>2 DEF Admitted, RunNodesOf
    <3> QED
      BY <2>2, <3>1 DEF PortsReserved
  <2> QED
    BY <2>1, <2>2, ReservationsGrow
<1>3. IInv /\ PortsReserved /\ ReservationHeld => PortsExclusive
  <2> SUFFICES ASSUME IInv, PortsReserved, ReservationHeld,
                      NEW r \in Runs, NEW s \in Runs, r # s,
                      PortOf[InstallationOf[r]] = PortOf[InstallationOf[s]],
                      NEW n \in up[r] \cap up[s]
               PROVE  FALSE
    BY DEF PortsExclusive
  <2>1. r \in reserved /\ s \in reserved
    BY DEF ReservationHeld
  <2>2. n \in RunNodesOf(r) /\ n \in RunNodesOf(s)
    BY Zenon DEF IInv, Safe, UpKnown
  <2> QED
    BY <2>1, <2>2 DEF PortsReserved
<1> QED
  BY <1>1, <1>2, <1>3, RunInvariant, ReservationSafety, PTL DEF Spec
=============================================================================
