----------------------------- MODULE UpdatePlan -----------------------------
(***************************************************************************)
(* The plan of a platform update: VersionSkewAnalyzer, UpdatePlanner and    *)
(* _conflicts of control/src/vonk_control/updates.py, as functions of what  *)
(* the agents reported.                                                    *)
(*                                                                         *)
(* An observation of a node is a record: state, online, whether it named    *)
(* its release (known), whether the target speaks its protocol (speaks),    *)
(* its version and build relative to the target, and whether the agent can  *)
(* update and roll back (able).  Node IDs are ordered, hence numbers.       *)
(***************************************************************************)
EXTENDS Integers, Sequences, FiniteSets, SequencesExt

Offline(o) == ~ o.online

UpdateRequired(o) == o.version # "same" \/ o.build # "same"

\* VersionSkewAnalyzer._node
Status(o) ==
  CASE o.state = "retired"     -> "retired"
    [] o.state \notin {"active", "retired"} -> "incompatible"
    [] o.state = "active" /\ (~ o.known \/ ~ o.speaks \/ o.version = "newer") -> "incompatible"
    [] OTHER ->
         IF Offline(o) THEN IF UpdateRequired(o) THEN "offline-pending" ELSE "offline-current"
         ELSE IF ~ UpdateRequired(o) THEN "current"
         ELSE IF ~ o.able THEN "incompatible"
         ELSE IF o.version = "same" THEN "build-mismatch" ELSE "update-available"

Eligible(fleet) ==
  {n \in DOMAIN fleet : Status(fleet[n]) \in {"update-available", "build-mismatch"}}

\* The members that carry a workload now
Serving(fleet, w) ==
  {n \in w.members : fleet[n].state = "active" /\ fleet[n].online /\ n \notin w.unhealthy}

\* A workload without a disruption budget, or without the capacity for it,
\* refuses the plan.
NoBudget(fleet, w) ==
  /\ w.members \cap Eligible(fleet) # {}
  /\ \/ w.min = Cardinality(w.members)
     \/ Cardinality(Serving(fleet, w)) <= w.min

Accepts(fleet, workloads) == \A w \in workloads : ~ NoBudget(fleet, w)

\* _conflicts: with the nodes already in the batch
Conflicts(n, batch, workloads, topology) ==
  \/ \E w \in workloads : n \in w.members /\ batch \cap w.members # {}
  \/ \E x \in topology : n \in x.members /\ Cardinality(batch \cap x.members) >= x.max

\* One pass over the nodes that remain
Pass(remaining, workloads, topology, size) ==
  FoldLeft(LAMBDA acc, n :
             IF Cardinality(acc.batch) >= size \/ Conflicts(n, acc.batch, workloads, topology)
             THEN [acc EXCEPT !.deferred = Append(@, n)]
             ELSE [acc EXCEPT !.batch = @ \cup {n}],
           [batch |-> {}, deferred |-> <<>>], remaining)

RECURSIVE BatchesOf(_, _, _, _)
BatchesOf(remaining, workloads, topology, size) ==
  IF remaining = <<>> THEN <<>>
  ELSE LET pass == Pass(remaining, workloads, topology, size)
           done == IF pass.batch # {} THEN pass
                   ELSE [batch |-> {Head(pass.deferred)}, deferred |-> Tail(pass.deferred)]
       IN <<done.batch>> \o BatchesOf(done.deferred, workloads, topology, size)

Ordered(S) == SetToSortSeq(S, <)

Canary(fleet, policy) ==
  IF policy.canary \in Eligible(fleet) THEN policy.canary ELSE Ordered(Eligible(fleet))[1]

\* UpdatePlanner.plan
PlanBatches(fleet, workloads, topology, policy) ==
  IF Eligible(fleet) = {} THEN <<>>
  ELSE LET canary == Canary(fleet, policy)
       IN <<{canary}>> \o
          BatchesOf(Ordered(Eligible(fleet) \ {canary}), workloads, topology, policy.size)

-----------------------------------------------------------------------------
\* What a plan must be: the canary alone, then every eligible node once, never
\* more nodes at a time than the policy and an exclusion allow, and every
\* workload keeps its minimum while a batch is down.
SoundPlan(batches, fleet, workloads, topology, policy) ==
  /\ UNION {batches[i] : i \in DOMAIN batches} = Eligible(fleet)
  /\ \A i, j \in DOMAIN batches : i # j => batches[i] \cap batches[j] = {}
  /\ \A i \in DOMAIN batches :
       /\ Cardinality(batches[i]) \in 1 .. (IF i = 1 THEN 1 ELSE policy.size)
       /\ \A x \in topology : Cardinality(batches[i] \cap x.members) <= x.max
       /\ \A w \in workloads :
            w.members \cap batches[i] # {} => Cardinality(Serving(fleet, w) \ batches[i]) >= w.min

=============================================================================
