----------------------------- MODULE NodeLeases -----------------------------
(***************************************************************************)
(* What the node mutation leases promise                                   *)
(* (control/src/vonk_control/node_leases.py, class NodeLeaseService).      *)
(*                                                                         *)
(* A reconciliation or an update rollout (an owner) mutates a fixed set of *)
(* nodes, its targets, and takes all of their leases or none.  A group of  *)
(* leases has one fence; it is first marked as releasing and then removed. *)
(* NodeLeaseTransactions shows that the transactions of the service keep   *)
(* this promise.                                                           *)
(***************************************************************************)
EXTENDS Naturals

CONSTANTS
  Nodes,      \* agent nodes
  Owners,     \* reconciliations and update rollouts
  Targets     \* the nodes an owner mutates

VARIABLES
  lease,      \* the committed row of each node, or NoLease
  fences      \* number of fences issued so far

vars == <<lease, fences>>

NoLease == [owner |-> "none", fence |-> 0, state |-> "free"]

States == {"held", "releasing"}

Leases == [owner : Owners, fence : Nat \ {0}, state : States]

Init ==
  /\ lease = [n \in Nodes |-> NoLease]
  /\ fences = 0

Owned(o) == {n \in Nodes : lease[n] # NoLease /\ lease[n].owner = o}

\* The owner holds its whole group, in one state.
HoldsGroup(o, state) ==
  /\ \A n \in Targets[o] :
       lease[n] # NoLease /\ lease[n].owner = o /\ lease[n].state = state
  /\ \A m, n \in Targets[o] : lease[m].fence = lease[n].fence

\* The rows of the group get the same new value.
Rewrite(o, row) ==
  lease' = [n \in Nodes |-> IF n \in Targets[o] THEN row ELSE lease[n]]

\* acquire_in_session
Acquire(o) ==
  /\ \A n \in Targets[o] : lease[n] = NoLease
  /\ fences' = fences + 1
  /\ Rewrite(o, [owner |-> o, fence |-> fences + 1, state |-> "held"])

\* mark_releasing_in_session
MarkReleasing(o) ==
  /\ HoldsGroup(o, "held")
  /\ lease' = [n \in Nodes |->
                 IF n \in Targets[o] THEN [lease[n] EXCEPT !.state = "releasing"]
                 ELSE lease[n]]
  /\ UNCHANGED fences

\* release_in_session
Release(o) ==
  /\ HoldsGroup(o, "releasing")
  /\ Rewrite(o, NoLease)
  /\ UNCHANGED fences

Next == \E o \in Owners : Acquire(o) \/ MarkReleasing(o) \/ Release(o)

Spec == Init /\ [][Next]_vars

-----------------------------------------------------------------------------
TypeOK ==
  /\ lease \in [Nodes -> Leases \cup {NoLease}]
  /\ fences \in Nat

\* An owner has leases on none of its targets or on exactly all of them, and
\* then under one fence and in one state: no failure leaves part of a group
\* behind, which no later call of the service could release (_grant_rows and
\* owned_grant_in_session refuse a partial group).
GroupWhole ==
  \A o \in Owners :
    \/ Owned(o) = {}
    \/ /\ Owned(o) = Targets[o]
       /\ \A m, n \in Targets[o] : lease[m] = lease[n]

\* A node never passes from one group to the next in one step, and a lease that
\* is held is never removed: the owner announces the release first.
NoStolenLease ==
  [][\A n \in Nodes :
       lease[n] # NoLease =>
         \/ lease'[n] = lease[n]
         \/ lease'[n] = [lease[n] EXCEPT !.state = "releasing"]
         \/ lease[n].state = "releasing" /\ lease'[n] = NoLease]_vars

=============================================================================
