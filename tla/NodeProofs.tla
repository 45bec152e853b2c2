----------------------------- MODULE NodeProofs -----------------------------
(***************************************************************************)
(* Proofs about what the control plane keeps of its nodes.                 *)
(*                                                                         *)
(* Leases (NodeLeaseTransactions): the interleaved lease transactions      *)
(* implement the atomic lease groups, for every set of nodes, owners and   *)
(* targets.                                                                *)
(*                                                                         *)
(* Certificates (Enrollment): every certificate that was signed is         *)
(* accounted for, whatever overlaps or dies, for any number of enrolments, *)
(* certificates and deaths.  The inductive invariant CertInv ties each of  *)
(* the two threads to the claim it has made: what was signed for it has no *)
(* row yet, a claim that has still to be signed is already counted, and    *)
(* between the claim of a rotation and its row only a migration can become *)
(* active.                                                                 *)
(***************************************************************************)
EXTENDS NodeLeaseTransactions, Enrollment, FiniteSetTheorems, WellFoundedInduction, TLAPS

-----------------------------------------------------------------------------
(* Leases.                                                                 *)

\* No two transactions hold a lock on, or are inserting, the same row.
LocksExclude ==
  \A o, p \in Owners :
    o # p => /\ \A r \in rows[o], s \in rows[p] : r[1] # s[1]
             /\ mine[o] \cap mine[p] = {}

IInv == TypeOK /\ ReadsAreCurrent /\ LocksExclude

LEMMA LeaseIsNotNoLease == \A l \in Promise!Leases : l # NoLease
  BY DEF Promise!Leases, NoLease, Promise!NoLease

LEMMA InitIInv == Init => IInv
  BY DEF Init, IInv, TypeOK, ReadsAreCurrent, LocksExclude, Promise!Init,
         Promise!TypeOK, Calls

\* Ending a transaction drops its locks, and a step that writes only rows
\* which the transaction has locked or inserted disturbs no other one.
LEMMA EndStep ==
  ASSUME IInv, NEW o \in Owners, Ended(o), Promise!TypeOK',
         \A n \in Nodes : \/ lease'[n] = lease[n]
                          \/ \E r \in rows[o] : r[1] = n
                          \/ n \in mine[o]
  PROVE  IInv'
<1> USE DEF IInv
<1>1. /\ \A p \in Owners : rows'[p] = IF p = o THEN {} ELSE rows[p]
      /\ \A p \in Owners : mine'[p] = IF p = o THEN {} ELSE mine[p]
  BY DEF TypeOK, Ended
<1>2. TypeOK'
  BY DEF TypeOK, Ended
<1>3. LocksExclude'
  BY <1>1 DEF LocksExclude
<1>4. ReadsAreCurrent'
  <2> SUFFICES ASSUME NEW p \in Owners, p # o
               PROVE  /\ \A r \in rows[p] : lease'[r[1]] = r[2]
                      /\ \A n \in mine[p] : lease'[n] = NoLease
    BY <1>1 DEF ReadsAreCurrent
  <2>1. ASSUME NEW r \in rows[p]
        PROVE  lease'[r[1]] = r[2]
    <3>1. r[1] \in Nodes /\ r[2] \in Promise!Leases /\ lease[r[1]] = r[2]
      BY DEF TypeOK, ReadsAreCurrent
    <3>2. \A s \in rows[o] : s[1] # r[1]
      BY DEF LocksExclude
    <3>3. r[1] \notin mine[o]
      BY <3>1, LeaseIsNotNoLease DEF ReadsAreCurrent
    <3> QED BY <3>1, <3>2, <3>3
  <2>2. ASSUME NEW n \in mine[p]
        PROVE  lease'[n] = NoLease
    <3>1. n \in Nodes /\ lease[n] = NoLease /\ n \notin mine[o]
      BY DEF TypeOK, ReadsAreCurrent, LocksExclude
    <3>2. \A s \in rows[o] : s[1] # n
      <4> SUFFICES ASSUME NEW s \in rows[o], s[1] = n PROVE FALSE
        OBVIOUS
      <4>1. s[2] \in Promise!Leases /\ lease[s[1]] = s[2]
        BY DEF TypeOK, ReadsAreCurrent
      <4> QED BY <4>1, <3>1, LeaseIsNotNoLease
    <3> QED BY <3>1, <3>2
  <2> QED BY <2>1, <2>2
<1> QED BY <1>2, <1>3, <1>4

LEMMA BeginStep ==
  ASSUME IInv, NEW o \in Owners, NEW c \in Calls, Begin(o, c)
  PROVE  IInv'
<1>1. \A n \in Nodes : lease[n] # NoLease => lease[n] \in Promise!Leases
  BY DEF IInv, TypeOK, Promise!TypeOK, NoLease
<1>2. {<<n, lease[n]>> : n \in {m \in Targets[o] : lease[m] # NoLease}}
        \in SUBSET (Nodes \X Promise!Leases)
  BY <1>1, TransactionsAssumption
<1>3. TypeOK'
  BY <1>2 DEF IInv, TypeOK, Promise!TypeOK, Begin
<1>4. ReadsAreCurrent' /\ LocksExclude'
  BY DEF IInv, ReadsAreCurrent, LocksExclude, Begin
<1> QED BY <1>3, <1>4 DEF IInv

LEMMA LockRowStep ==
  ASSUME IInv, NEW o \in Owners, NEW r \in ahead[o], LockRow(o, r)
  PROVE  IInv'
<1> DEFINE n == r[1]
           new == IF lease[n] # NoLease /\ lease[n].fence = r[2].fence
                  THEN {<<n, lease[n]>>} ELSE {}
<1>1. n \in Nodes
  BY DEF IInv, TypeOK
<1>2. lease[n] # NoLease => lease[n] \in Promise!Leases
  BY <1>1 DEF IInv, TypeOK, Promise!TypeOK, NoLease
<1>3. \A p \in Owners : rows'[p] = IF p = o THEN rows[o] \cup new ELSE rows[p]
  BY Zenon DEF IInv, TypeOK, LockRow
<1>4. \A s \in new : s = <<n, lease[n]>> /\ s[1] = n /\ s[2] = lease[n]
  OBVIOUS
<1>5. new \subseteq Nodes \X Promise!Leases
  BY <1>1, <1>2
<1>6. \A p \in Owners : p # o => \A s \in rows[p] : s[1] # n
  BY DEF LockRow, LockedNodes
<1>7. lease' = lease /\ mine' = mine
  BY DEF LockRow
<1> HIDE DEF new, n
<1>8. TypeOK'
  <2>1. rows' \in [Owners -> SUBSET (Nodes \X Promise!Leases)]
    BY <1>3, <1>5 DEF IInv, TypeOK, LockRow
  <2> QED BY <2>1 DEF IInv, TypeOK, Promise!TypeOK, LockRow
<1>9. ReadsAreCurrent'
  BY <1>3, <1>4, <1>7 DEF IInv, ReadsAreCurrent
<1>10. LocksExclude'
  BY <1>3, <1>4, <1>6, <1>7 DEF IInv, LocksExclude
<1> QED BY <1>8, <1>9, <1>10 DEF IInv

LEMMA InsertRowStep ==
  ASSUME IInv, NEW o \in Owners, NEW n \in todo[o], InsertRow(o, n)
  PROVE  IInv'
<1>1. n \in Nodes
  BY DEF IInv, TypeOK
<1>2. \A p \in Owners : mine'[p] = IF p = o /\ lease[n] = NoLease
                                   THEN mine[o] \cup {n} ELSE mine[p]
  BY DEF IInv, TypeOK, InsertRow
<1>3. lease' = lease /\ rows' = rows
  BY DEF InsertRow
<1>4. TypeOK'
  BY <1>1 DEF IInv, TypeOK, Promise!TypeOK, InsertRow
<1>5. ReadsAreCurrent'
  BY <1>2, <1>3 DEF IInv, ReadsAreCurrent
<1>6. LocksExclude'
  BY <1>2, <1>3 DEF IInv, LocksExclude, InsertRow
<1> QED BY <1>4, <1>5, <1>6 DEF IInv

-----------------------------------------------------------------------------
\* A committed acquisition, announcement or release is one step of the atomic
\* leases.
LEMMA CommitAcquireStep ==
  ASSUME IInv, NEW o \in Owners, CommitAcquire(o)
  PROVE  IInv' /\ (Promise!Acquire(o) \/ UNCHANGED <<lease, fences>>)
<1>1. CASE mine[o] = Targets[o]
  <2> DEFINE row == [owner |-> o, fence |-> fences + 1, state |-> "held"]
  <2>1. /\ lease' = [n \in Nodes |-> IF n \in mine[o] THEN row ELSE lease[n]]
        /\ fences' = fences + 1
        /\ Ended(o)
    BY <1>1 DEF CommitAcquire
  <2>2. row \in Promise!Leases /\ fences \in Nat
    BY DEF IInv, TypeOK, Promise!TypeOK, Promise!Leases, Promise!States
  <2> HIDE DEF row
  <2>3. Promise!TypeOK'
    BY <2>1, <2>2 DEF IInv, TypeOK, Promise!TypeOK
  <2>4. IInv'
    BY <2>1, <2>3, EndStep
  <2>5. \A n \in Targets[o] : lease[n] = Promise!NoLease
    BY <1>1 DEF IInv, ReadsAreCurrent, NoLease
  <2>6. Promise!Acquire(o)
    BY <1>1, <2>1, <2>5 DEF Promise!Acquire, Promise!Rewrite, row
  <2> QED BY <2>4, <2>6
<1>2. CASE mine[o] # Targets[o]
  <2>1. lease' = lease /\ fences' = fences /\ Ended(o)
    BY <1>2 DEF CommitAcquire
  <2>2. Promise!TypeOK'
    BY <2>1 DEF IInv, TypeOK, Promise!TypeOK
  <2>3. IInv'
    BY <2>1, <2>2, EndStep
  <2> QED BY <2>1, <2>3
<1> QED BY <1>1, <1>2

\* The rows that a transaction locked are its owner's group, as NodeLeases
\* states it of the committed rows.
LEMMA LockedGroup ==
  ASSUME IInv, NEW o \in Owners, NEW state, IsGroup(o, rows[o], state)
  PROVE  Promise!HoldsGroup(o, state) /\ LockedNodes(o) = Targets[o]
<1>1. LockedNodes(o) = Targets[o]
  BY DEF IsGroup, LockedNodes
<1>2. ASSUME NEW n \in Targets[o]
      PROVE  \E r \in rows[o] : r[1] = n /\ lease[n] = r[2] /\ r[2] # NoLease
  <2>1. PICK r \in rows[o] : r[1] = n
    BY <1>1 DEF LockedNodes
  <2>2. r[2] \in Promise!Leases /\ lease[r[1]] = r[2]
    BY DEF IInv, TypeOK, ReadsAreCurrent
  <2> QED BY <2>1, <2>2, LeaseIsNotNoLease
<1>3. \A n \in Targets[o] :
        lease[n] # Promise!NoLease /\ lease[n].owner = o /\ lease[n].state = state
  BY <1>2 DEF IsGroup, NoLease
<1>4. ASSUME NEW m \in Targets[o], NEW n \in Targets[o]
      PROVE  lease[m].fence = lease[n].fence
  <2>1. PICK r \in rows[o] : lease[m] = r[2]
    BY <1>2
  <2>2. PICK s \in rows[o] : lease[n] = s[2]
    BY <1>2
  <2> QED BY <2>1, <2>2 DEF IsGroup
<1> QED BY <1>1, <1>3, <1>4 DEF Promise!HoldsGroup

LEMMA CommitMarkStep ==
  ASSUME IInv, NEW o \in Owners, CommitMark(o)
  PROVE  IInv' /\ (Promise!MarkReleasing(o) \/ UNCHANGED <<lease, fences>>)
<1>1. CASE IsGroup(o, rows[o], "held")
  <2>1. /\ lease' = [n \in Nodes |-> IF n \in LockedNodes(o)
                       THEN [lease[n] EXCEPT !.state = "releasing"] ELSE lease[n]]
        /\ fences' = fences
        /\ Ended(o)
    BY <1>1 DEF CommitMark
  <2>2. Promise!HoldsGroup(o, "held") /\ LockedNodes(o) = Targets[o]
    BY <1>1, LockedGroup
  <2>3. \A n \in LockedNodes(o) : lease[n] \in Promise!Leases
    BY DEF LockedNodes, IInv, TypeOK, ReadsAreCurrent
  <2>4. \A l \in Promise!Leases :
          [l EXCEPT !.state = "releasing"] \in Promise!Leases
    BY DEF Promise!Leases, Promise!States
  <2>5. Promise!TypeOK'
    BY <2>1, <2>3, <2>4 DEF IInv, TypeOK, Promise!TypeOK
  <2>6. IInv'
    BY <2>1, <2>5, EndStep DEF LockedNodes
  <2> QED BY <2>1, <2>2, <2>6 DEF Promise!MarkReleasing
<1>2. CASE ~IsGroup(o, rows[o], "held")
  <2>1. lease' = lease /\ fences' = fences /\ Ended(o)
    BY <1>2 DEF CommitMark
  <2>2. Promise!TypeOK'
    BY <2>1 DEF IInv, TypeOK, Promise!TypeOK
  <2> QED BY <2>1, <2>2, EndStep
<1> QED BY <1>1, <1>2

LEMMA CommitReleaseStep ==
  ASSUME IInv, NEW o \in Owners, CommitRelease(o)
  PROVE  IInv' /\ (Promise!Release(o) \/ UNCHANGED <<lease, fences>>)
<1>1. CASE IsGroup(o, rows[o], "releasing")
  <2>1. /\ lease' = [n \in Nodes |->
                       IF n \in LockedNodes(o) THEN NoLease ELSE lease[n]]
        /\ fences' = fences
        /\ Ended(o)
    BY <1>1 DEF CommitRelease
  <2>2. Promise!HoldsGroup(o, "releasing") /\ LockedNodes(o) = Targets[o]
    BY <1>1, LockedGroup
  <2>3. Promise!TypeOK'
    BY <2>1 DEF IInv, TypeOK, Promise!TypeOK, NoLease
  <2>4. IInv'
    BY <2>1, <2>3, EndStep DEF LockedNodes
  <2> QED BY <2>1, <2>2, <2>4 DEF Promise!Release, Promise!Rewrite, NoLease
<1>2. CASE ~IsGroup(o, rows[o], "releasing")
  <2>1. lease' = lease /\ fences' = fences /\ Ended(o)
    BY <1>2 DEF CommitRelease
  <2>2. Promise!TypeOK'
    BY <2>1 DEF IInv, TypeOK, Promise!TypeOK
  <2> QED BY <2>1, <2>2, EndStep
<1> QED BY <1>1, <1>2

\* Every step of the transactions keeps the inductive invariant and is a step
\* of the atomic leases or leaves them unchanged.
LEMMA NextStep ==
  ASSUME IInv, [Next]_vars
  PROVE  IInv' /\ [Promise!Next]_(Promise!vars)
<1> USE DEF Promise!vars
<1>1. CASE UNCHANGED vars
  BY <1>1 DEF vars, IInv, TypeOK, ReadsAreCurrent, LocksExclude, Promise!TypeOK
<1>2. ASSUME NEW o \in Owners, NEW c \in Calls, Begin(o, c)
      PROVE  IInv' /\ [Promise!Next]_(Promise!vars)
  BY <1>2, BeginStep, Zenon DEF Begin
<1>3. ASSUME NEW o \in Owners, NEW r \in ahead[o], LockRow(o, r)
      PROVE  IInv' /\ [Promise!Next]_(Promise!vars)
  BY <1>3, LockRowStep, Zenon DEF LockRow
<1>4. ASSUME NEW o \in Owners, DecideAcquire(o)
      PROVE  IInv' /\ [Promise!Next]_(Promise!vars)
  <2>1. lease' = lease /\ fences' = fences
    BY <1>4 DEF DecideAcquire
  <2>2. Promise!TypeOK'
    BY <2>1 DEF IInv, TypeOK, Promise!TypeOK
  <2>3. CASE rows[o] # {}
    BY <1>4, <2>1, <2>2, <2>3, EndStep DEF DecideAcquire
  <2>4. CASE rows[o] = {}
    <3>1. /\ step' = [step EXCEPT ![o] = "insert"]
          /\ todo' = [todo EXCEPT ![o] = Targets[o]]
          /\ UNCHANGED <<call, ahead, rows, mine>>
      BY <1>4, <2>4 DEF DecideAcquire
    <3>2. TypeOK'
      BY <2>2, <3>1, TransactionsAssumption, Zenon DEF IInv, TypeOK
    <3>3. ReadsAreCurrent' /\ LocksExclude'
      BY <2>1, <3>1 DEF IInv, ReadsAreCurrent, LocksExclude
    <3> QED BY <2>1, <3>2, <3>3 DEF IInv
  <2> QED BY <2>3, <2>4
<1>5. ASSUME NEW o \in Owners, NEW n \in todo[o], InsertRow(o, n)
      PROVE  IInv' /\ [Promise!Next]_(Promise!vars)
  BY <1>5, InsertRowStep, Zenon DEF InsertRow
<1>6. ASSUME NEW o \in Owners, CommitAcquire(o)
      PROVE  IInv' /\ [Promise!Next]_(Promise!vars)
  BY <1>6, CommitAcquireStep DEF Promise!Next
<1>7. ASSUME NEW o \in Owners, CommitMark(o)
      PROVE  IInv' /\ [Promise!Next]_(Promise!vars)
  BY <1>7, CommitMarkStep DEF Promise!Next
<1>8. ASSUME NEW o \in Owners, CommitRelease(o)
      PROVE  IInv' /\ [Promise!Next]_(Promise!vars)
  BY <1>8, CommitReleaseStep DEF Promise!Next
<1>9. ASSUME NEW o \in Owners, Rollback(o)
      PROVE  IInv' /\ [Promise!Next]_(Promise!vars)
  <2>1. lease' = lease /\ fences' = fences /\ Ended(o)
    BY <1>9 DEF Rollback
  <2>2. Promise!TypeOK'
    BY <2>1 DEF IInv, TypeOK, Promise!TypeOK
  <2> QED BY <2>1, <2>2, EndStep
<1> QED
  BY <1>1, <1>2, <1>3, <1>4, <1>5, <1>6, <1>7, <1>8, <1>9 DEF Next, Advance

\* What a transaction read under lock, or found free while inserting, is still
\* so when it commits.
THEOREM ReadsStayCurrent == Spec => []ReadsAreCurrent
<1>1. IInv /\ [Next]_vars => IInv'
  BY NextStep
<1>2. IInv => ReadsAreCurrent
  BY DEF IInv
<1> QED BY InitIInv, <1>1, <1>2, PTL DEF Spec

\* The interleaved transactions implement the atomic lease groups.
THEOREM Refinement == Spec => Promised
<1>1. IInv /\ [Next]_vars => IInv' /\ [Promise!Next]_(Promise!vars)
  BY NextStep
<1>2. Init => Promise!Init
  BY DEF Init
<1> QED BY InitIInv, <1>1, <1>2, PTL DEF Spec, Promised, Promise!Spec

-----------------------------------------------------------------------------
\* GroupWhole, node by node.
Has(o, n) == lease[n] # Promise!NoLease /\ lease[n].owner = o

Whole(o) ==
  \/ \A n \in Nodes : ~Has(o, n)
  \/ /\ \A n \in Nodes : Has(o, n) <=> n \in Targets[o]
     /\ \A m, n \in Targets[o] : lease[m] = lease[n]

AllWhole == \A o \in Owners : Whole(o)

LEMMA GroupWholeByNode == GroupWhole <=> AllWhole
<1>1. ASSUME NEW o \in Owners
      PROVE  (\/ Promise!Owned(o) = {}
              \/ /\ Promise!Owned(o) = Targets[o]
                 /\ \A m, n \in Targets[o] : lease[m] = lease[n]) <=> Whole(o)
  <2>1. Targets[o] \subseteq Nodes
    BY TransactionsAssumption
  <2>2. \A n \in Nodes : n \in Promise!Owned(o) <=> Has(o, n)
    BY DEF Promise!Owned, Has
  <2>3. Promise!Owned(o) \subseteq Nodes
    BY DEF Promise!Owned
  <2>4. Promise!Owned(o) = {} <=> \A n \in Nodes : ~Has(o, n)
    BY <2>2, <2>3
  <2>5. Promise!Owned(o) = Targets[o] <=> \A n \in Nodes : Has(o, n) <=> n \in Targets[o]
    BY <2>1, <2>2, <2>3
  <2> QED BY <2>4, <2>5 DEF Whole
<1> QED BY <1>1 DEF GroupWhole, Promise!GroupWhole, AllWhole

\* The rows of an owner are its whole group or none, after every step of the
\* atomic leases.
LEMMA GroupStep ==
  ASSUME Promise!TypeOK, AllWhole, [Promise!Next]_(Promise!vars)
  PROVE  AllWhole'
<1> SUFFICES ASSUME NEW o \in Owners PROVE Whole(o)'
  BY DEF AllWhole
<1>0. /\ \A q \in Owners : Targets[q] \subseteq Nodes /\ Targets[q] # {}
      /\ Whole(o)
  BY TransactionsAssumption DEF AllWhole
<1>1. CASE UNCHANGED Promise!vars
  BY <1>0, <1>1 DEF Promise!vars, Whole, Has
<1>2. ASSUME NEW p \in Owners, Promise!Acquire(p) \/ Promise!Release(p)
      PROVE  Whole(o)'
  <2>1. PICK row :
          /\ row = Promise!NoLease \/ (row # Promise!NoLease /\ row.owner = p)
          /\ \A n \in Nodes : lease'[n] = IF n \in Targets[p] THEN row ELSE lease[n]
    <3>1. CASE Promise!Acquire(p)
      <4> DEFINE new == [owner |-> p, fence |-> fences + 1, state |-> "held"]
      <4>1. new # Promise!NoLease /\ new.owner = p
        BY DEF Promise!NoLease
      <4>2. \A n \in Nodes : lease'[n] = IF n \in Targets[p] THEN new ELSE lease[n]
        BY <3>1 DEF Promise!Acquire, Promise!Rewrite
      <4> QED BY <4>1, <4>2
    <3>2. CASE Promise!Release(p)
      BY <3>2 DEF Promise!Release, Promise!Rewrite
    <3> QED BY <1>2, <3>1, <3>2
  <2>2. \A n \in Targets[p] : lease[n] = Promise!NoLease \/ lease[n].owner = p
    BY <1>2 DEF Promise!Acquire, Promise!Release, Promise!HoldsGroup
  <2>3. CASE o = p
    <3>1. \A n \in Nodes : n \notin Targets[o] => ~Has(o, n)
      BY <1>0 DEF Whole
    <3> QED BY <1>0, <2>1, <2>3, <3>1 DEF Whole, Has
  <2>4. CASE o # p
    <3>1. \A n \in Targets[p] : ~Has(o, n) /\ ~Has(o, n)'
      BY <1>0, <2>1, <2>2, <2>4 DEF Has
    <3>2. \A n \in Nodes \ Targets[p] : lease'[n] = lease[n]
      BY <2>1
    <3>3. \A n \in Nodes : Has(o, n)' <=> Has(o, n)
      BY <3>1, <3>2 DEF Has
    <3>4. CASE \A n \in Nodes : ~Has(o, n)
      BY <3>3, <3>4 DEF Whole
    <3>5. CASE /\ \A n \in Nodes : Has(o, n) <=> n \in Targets[o]
               /\ \A m, n \in Targets[o] : lease[m] = lease[n]
      <4>1. \A n \in Targets[o] : lease'[n] = lease[n]
        BY <1>0, <3>1, <3>2, <3>5
      <4> QED BY <3>3, <3>5, <4>1 DEF Whole
    <3> QED BY <1>0, <3>4, <3>5 DEF Whole
  <2> QED BY <2>3, <2>4
<1>3. ASSUME NEW p \in Owners, Promise!MarkReleasing(p)
      PROVE  Whole(o)'
  <2> DEFINE Announced(l) == [l EXCEPT !.state = "releasing"]
  <2>1. \A n \in Nodes :
          lease'[n] = IF n \in Targets[p] THEN Announced(lease[n]) ELSE lease[n]
    BY <1>3 DEF Promise!MarkReleasing
  <2>2. \A n \in Targets[p] : lease[n] # Promise!NoLease /\ lease[n].owner = p
    BY <1>3 DEF Promise!MarkReleasing, Promise!HoldsGroup
  <2>3. \A n \in Targets[p] : lease[n] \in Promise!Leases
    BY <1>0, <2>2 DEF Promise!TypeOK
  <2>4. \A l \in Promise!Leases :
          Announced(l) # Promise!NoLease /\ Announced(l).owner = l.owner
    BY DEF Promise!Leases, Promise!NoLease
  <2> HIDE DEF Announced
  <2>5. \A n \in Targets[p] : lease'[n] # Promise!NoLease /\ lease'[n].owner = p
    BY <1>0, <2>1, <2>2, <2>3, <2>4
  <2>6. \A n \in Nodes : Has(o, n)' <=> Has(o, n)
    BY <2>1, <2>2, <2>5 DEF Has
  <2>7. \A m, n \in Nodes : lease[m] = lease[n] /\ Has(o, m) /\ Has(o, n)
                              /\ (m \in Targets[p] <=> n \in Targets[p])
                              => lease'[m] = lease'[n]
    BY <2>1
  <2>8. CASE o = p
    BY <1>0, <2>6, <2>7, <2>8 DEF Whole
  <2>9. CASE o # p
    <3>1. \A n \in Nodes : Has(o, n) => n \notin Targets[p]
      BY <2>2, <2>9 DEF Has
    <3> QED BY <1>0, <2>6, <2>7, <3>1 DEF Whole
  <2> QED BY <2>8, <2>9
<1> QED BY <1>1, <1>2, <1>3 DEF Promise!Next

\* No committed state has part of a lease group: the sum of the refinement and
\* of what the atomic leases keep.
THEOREM GroupsStayWhole == Spec => []GroupWhole
<1>1. Init => AllWhole
  BY DEF Init, Promise!Init, AllWhole, Whole, Has
<1>2. IInv /\ AllWhole /\ [Next]_vars => IInv' /\ AllWhole'
  <2> SUFFICES ASSUME IInv, AllWhole, [Next]_vars PROVE IInv' /\ AllWhole'
    OBVIOUS
  <2>1. IInv' /\ [Promise!Next]_(Promise!vars)
    BY NextStep
  <2>2. Promise!TypeOK
    BY DEF IInv, TypeOK
  <2> QED BY <2>1, <2>2, GroupStep
<1> QED BY InitIInv, GroupWholeByNode, <1>1, <1>2, PTL DEF Spec

\* A lease changes hands only through an announced release.
THEOREM LeasesAreNotStolen == Spec => NoStolenLease
<1> DEFINE A == \A n \in Nodes :
       lease[n] # Promise!NoLease =>
         \/ lease'[n] = lease[n]
         \/ lease'[n] = [lease[n] EXCEPT !.state = "releasing"]
         \/ lease[n].state = "releasing" /\ lease'[n] = Promise!NoLease
<1>1. IInv /\ [Next]_vars => IInv' /\ [A]_(Promise!vars)
  <2> SUFFICES ASSUME IInv, [Next]_vars PROVE IInv' /\ [A]_(Promise!vars)
    OBVIOUS
  <2>1. IInv' /\ [Promise!Next]_(Promise!vars)
    BY NextStep
  <2>2. ASSUME NEW p \in Owners, Promise!Acquire(p) PROVE A
    BY <2>2 DEF Promise!Acquire, Promise!Rewrite
  <2>3. ASSUME NEW p \in Owners, Promise!MarkReleasing(p) PROVE A
    BY <2>3 DEF Promise!MarkReleasing
  <2>4. ASSUME NEW p \in Owners, Promise!Release(p) PROVE A
    BY <2>4 DEF Promise!Release, Promise!Rewrite, Promise!HoldsGroup
  <2> HIDE DEF A
  <2> QED BY <2>1, <2>2, <2>3, <2>4 DEF Promise!Next
<1> QED BY InitIInv, <1>1, PTL DEF Spec, NoStolenLease, Promise!NoStolenLease

-----------------------------------------------------------------------------
(* Certificates.                                                           *)

Recorded == {c.serial : c \in certs}
Issuing == {e \in Requests : enr[e].state = "issuing"}
InRotation == IF intent.state \in {"issuing", "manual-recovery"} THEN 1 ELSE 0
ToSign(thread) == IF thread.pc = "sign" THEN 1 ELSE 0

\* The certificates of approved migrations.
LateSerials == {s \in Serials : \E e \in Requests : enr[e].purpose = "rust-migration" /\ enr[e].serial = s}

RecordTypes ==
  /\ node \in Node /\ certs \subseteq Certificate
  /\ enr \in [Requests -> EnrollmentRow] /\ intent \in Rotation
  /\ ca \in [signed : SUBSET Serials, revoked : SUBSET Serials]
  /\ ca.revoked \subseteq ca.signed
  /\ approval \in Thread /\ renewal \in Thread /\ revoking \subseteq ca.signed

\* A row is of a certificate the authority signed; no two have a generation.
RowsKnown ==
  /\ Recorded \subseteq ca.signed
  /\ \E bound \in Nat : \A c \in certs : c.generation <= bound
  /\ \A c, d \in certs : c.generation = d.generation => c = d

\* Only the certificate of a migration may be active beside another, or be
\* newer than the staged one.
RowsOrdered ==
  \A c, d \in certs :
    /\ c.state = "staged" /\ d.state = "staged" => c = d
    /\ c.state = "active" /\ d.state = "active" /\ c # d => c.serial \in LateSerials \/ d.serial \in LateSerials
    /\ c.state = "staged" /\ d.state = "active" => d.serial \in LateSerials \/ d.generation < c.generation

NodeSound ==
  /\ node.state = "absent" => certs = {}
  /\ node.implementation \in {"none", "pending"} => \A c \in certs : c.owner = "rust"
  /\ node.state = "retired" => \A c \in certs : Live(c) => c.serial \in LateSerials
  /\ PythonFenced /\ KeepsOne

\* The thread in approve has claimed its enrolment, and what was signed for it
\* has no row yet; the node is unknown exactly if it is to be a new one.
ApprovalSound ==
  /\ approval.pc \in {"idle", "sign", "check", "insert"}
  /\ approval.pc # "idle" => approval.request \in Issuing
  /\ approval.pc \in {"check", "insert"} => approval.serial \in ca.signed \ Recorded
  /\ approval.pc = "insert" => (enr[approval.request].purpose = "new-node" <=> node.state = "absent")

\* Between the claim and the second transaction of renew nothing is staged, and
\* what became active meanwhile is a migration's.
RenewalSound ==
  /\ renewal.pc \in {"sign", "persist"} =>
       /\ intent.state = "issuing" /\ intent.source \in Recorded
       /\ \A c \in certs :
            /\ c.state # "staged"
            /\ c.state = "active" => c.serial \in LateSerials \/ c.generation < renewal.generation
  /\ renewal.pc = "persist" => renewal.serial \in ca.signed \ Recorded
  /\ renewal.pc = "revoke" => renewal.serial \in ca.signed
  /\ approval.pc \in {"check", "insert"} /\ renewal.pc = "persist" => approval.serial # renewal.serial

\* An enrolment names a certificate only once it is approved.
Unnamed == \A e \in Requests : enr[e].state # "approved" => enr[e].serial = 0

\* A thread that has still to sign has already been counted.
Accounted ==
  Cardinality(ca.signed \ Recorded) + ToSign(approval) + ToSign(renewal)
    <= Cardinality(Issuing) + InRotation

CertInv ==
  /\ RecordTypes /\ RowsKnown /\ RowsOrdered /\ NodeSound
  /\ ApprovalSound /\ RenewalSound /\ Unnamed /\ Accounted

Bounds == MaxSerial \in Nat \ {0} /\ IsFiniteSet(Requests)


-----------------------------------------------------------------------------

LEMMA Numbers ==
  ASSUME Bounds
  PROVE  /\ Serials \subseteq Nat \ {0} /\ Serials \subseteq 0..MaxSerial /\ 0 \in 0..MaxSerial /\ 1 \in Serials
         /\ Idle \in Thread /\ Idle.pc = "idle"
<1>1. /\ Serials \subseteq Nat \ {0} /\ Serials \subseteq 0..MaxSerial /\ 0 \in 0..MaxSerial /\ 1 \in Serials
  BY DEF Bounds, Serials
<1>2. Idle \in Thread /\ Idle.pc = "idle"
  BY <1>1 DEF Idle, Thread, Generations
<1> QED
  BY <1>1, <1>2

\* The authority has a serial left, and the rows have a latest generation.
LEMMA FreshSerial ==
  ASSUME Bounds, RecordTypes, CanSign
  PROVE  Fresh \in Serials /\ Fresh \notin ca.signed
<1> DEFINE unused == Serials \ ca.signed
<1>1. unused \subseteq Nat /\ unused # {} /\ Serials \subseteq Nat
  BY Numbers DEF RecordTypes, CanSign
<1>2. \E s \in unused : \A t \in unused : ~(<<t, s>> \in OpToRel(<, Nat))
  BY <1>1, NatLessThanWellFounded, WFMin, Zenon
<1>3. \A t \in Nat, s \in Nat : t < s => <<t, s>> \in OpToRel(<, Nat)
  BY DEF OpToRel
<1>4. \E s \in Serials : s \notin ca.signed /\ \A t \in Serials : t < s => t \in ca.signed
  BY <1>1, <1>2, <1>3, Zenon
<1> QED
  BY <1>4 DEF Fresh

LEMMA LatestGeneration ==
  ASSUME RecordTypes, RowsKnown
  PROVE  Latest \in Nat /\ \A c \in certs : c.generation <= Latest
<1>1. CASE certs = {}
  BY <1>1 DEF Latest
<1>2. CASE certs # {}
  <2>1. PICK bound \in Nat : \A c \in certs : c.generation <= bound
    BY DEF RowsKnown
  <2>2. \A c \in certs : c.generation \in Nat
    BY DEF RecordTypes, Certificate, Generations
  <2> DEFINE below == {bound - c.generation : c \in certs}
  <2>3. below \subseteq Nat /\ below # {}
    BY <1>2, <2>1, <2>2
  <2>4. \E m \in below : \A k \in below : ~(<<k, m>> \in OpToRel(<, Nat))
    BY <2>3, NatLessThanWellFounded, WFMin, Zenon
  <2>5. \A k \in Nat, m \in Nat : k < m => <<k, m>> \in OpToRel(<, Nat)
    BY DEF OpToRel
  <2>6. PICK m \in below : \A k \in below : ~(k < m)
    BY <2>3, <2>4, <2>5, Zenon
  <2>7. PICK d \in certs : m = bound - d.generation
    BY <2>6
  <2>8. \A c \in certs : c.generation <= d.generation
    <3> SUFFICES ASSUME NEW c \in certs PROVE c.generation <= d.generation
      OBVIOUS
    <3>1. ~(bound - c.generation < bound - d.generation)
      BY <2>6, <2>7
    <3> QED
      BY <2>2, <3>1
  <2> HIDE DEF below
  <2>9. \E g \in {c.generation : c \in certs} : \A c \in certs : c.generation <= g
    BY <2>8
  <2>10. Latest \in {c.generation : c \in certs} /\ \A c \in certs : c.generation <= Latest
    BY <1>2, <2>9 DEF Latest
  <2> QED
    BY <2>2, <2>10
<1> QED
  BY <1>1, <1>2

LEMMA Counts ==
  ASSUME Bounds, RecordTypes
  PROVE  /\ IsFiniteSet(ca.signed \ Recorded) /\ Cardinality(ca.signed \ Recorded) \in Nat
         /\ IsFiniteSet(Issuing) /\ Cardinality(Issuing) \in Nat
<1>1. IsFiniteSet(Serials)
  BY FS_Interval DEF Bounds, Serials
<1>2. ca.signed \ Recorded \in SUBSET Serials
  BY DEF RecordTypes
<1>3. Issuing \in SUBSET Requests
  BY DEF Issuing
<1>4. IsFiniteSet(ca.signed \ Recorded) /\ IsFiniteSet(Issuing)
  BY <1>1, <1>2, <1>3, FS_Subset DEF Bounds
<1> QED
  BY <1>4, FS_CardinalityType

LEMMA CertInvSound ==
  ASSUME Bounds, CertInv
  PROVE  CertificatesAccounted
<1>1. EnrollmentTypeOK
  BY DEF CertInv, RecordTypes, EnrollmentTypeOK
<1>0. \A c \in certs : c.serial \in LateSerials => LateApproval(c)
  BY DEF LateSerials, LateApproval
<1>2. GenerationsOrdered
  BY <1>0 DEF CertInv, RowsKnown, RowsOrdered, GenerationsOrdered
<1>3. PythonFenced /\ RetiredDenied /\ KeepsOne
  BY <1>0 DEF CertInv, NodeSound, RetiredDenied
<1>4. IssuedAccounted
  <2>1. Cardinality(ca.signed \ Recorded) <= Cardinality(Issuing) + InRotation
    BY Counts DEF CertInv, Accounted, ToSign, InRotation
  <2> QED
    BY <2>1 DEF IssuedAccounted, Recorded, Issuing, InRotation
<1> QED
  BY <1>1, <1>2, <1>3, <1>4 DEF CertificatesAccounted

LEMMA CertInitially ==
  ASSUME Bounds, EnrollmentInit
  PROVE  CertInv
<1> DEFINE first == [serial |-> 1, generation |-> 1, state |-> "active", caRevoked |-> FALSE, owner |-> "python"]
<1>0. /\ \/ /\ node.state = "absent" /\ node.implementation = "none"
            /\ certs = {} /\ ca.signed = {} /\ ca.revoked = {}
         \/ /\ node.state = "active" /\ node.implementation = "python"
            /\ certs = {first} /\ ca.signed = {1} /\ ca.revoked = {}
      /\ node \in Node /\ ca \in [signed : SUBSET Serials, revoked : SUBSET Serials]
  BY Numbers DEF EnrollmentInit, Node
<1>1. RecordTypes
  <2>1. first \in Certificate
    BY Numbers DEF Certificate, Generations
  <2>2. enr \in [Requests -> EnrollmentRow] /\ intent \in Rotation
    BY Numbers DEF EnrollmentInit, EnrollmentRow, Rotation, NoRotation, Generations
  <2>3. approval \in Thread /\ renewal \in Thread /\ revoking = {}
    BY Numbers DEF EnrollmentInit
  <2> HIDE DEF first
  <2> QED
    BY <1>0, <2>1, <2>2, <2>3 DEF RecordTypes
<1>2. first.serial = 1 /\ first.generation = 1 /\ first.state = "active"
  OBVIOUS
<1> HIDE DEF first
<1>3. RowsKnown /\ ca.signed \ Recorded = {}
  <2>1. CASE certs = {} /\ ca.signed = {}
    BY <2>1 DEF RowsKnown, Recorded
  <2>2. CASE certs = {first} /\ ca.signed = {1}
    <3>1. Recorded = {1}
      BY <1>2, <2>2 DEF Recorded
    <3> QED
      BY <1>2, <2>2, <3>1 DEF RowsKnown
  <2> QED
    BY <1>0, <2>1, <2>2
<1>4. RowsOrdered /\ NodeSound
  BY <1>0, <1>2 DEF RowsOrdered, NodeSound, PythonFenced, KeepsOne
<1>5. ApprovalSound /\ RenewalSound /\ Unnamed
  BY DEF EnrollmentInit, ApprovalSound, RenewalSound, Unnamed, Idle
<1>6. Accounted
  <2>1. Cardinality(ca.signed \ Recorded) = 0
    BY <1>3, FS_EmptySet
  <2>2. Cardinality(Issuing) \in Nat /\ ToSign(approval) = 0 /\ ToSign(renewal) = 0 /\ InRotation = 0
    BY <1>1, Counts DEF EnrollmentInit, ToSign, InRotation, Idle, NoRotation
  <2> QED
    BY <2>1, <2>2 DEF Accounted
<1> QED
  BY <1>1, <1>3, <1>4, <1>5, <1>6 DEF CertInv

-----------------------------------------------------------------------------

LEMMA CountStays ==
  ASSUME Bounds, RecordTypes, Accounted,
         Recorded' = Recorded, ca'.signed = ca.signed, Issuing' = Issuing, InRotation' = InRotation,
         approval'.pc = "sign" => approval.pc = "sign", renewal'.pc = "sign" => renewal.pc = "sign"
  PROVE  Accounted'
  BY Counts DEF Accounted, ToSign, InRotation

\* A step that leaves the node and its rows alone.
LEMMA RowsRest ==
  ASSUME RecordTypes, RowsKnown, RowsOrdered, NodeSound, UNCHANGED <<node, certs>>,
         ca.signed \subseteq ca'.signed, LateSerials \subseteq LateSerials'
  PROVE  RowsKnown' /\ RowsOrdered' /\ NodeSound' /\ Recorded' = Recorded
<1>1. Recorded' = Recorded
  BY DEF Recorded
<1>2. RowsKnown'
  BY <1>1 DEF RowsKnown
<1>3. RowsOrdered'
  BY DEF RowsOrdered
<1>4. NodeSound'
  BY DEF NodeSound, PythonFenced, KeepsOne, Live
<1> QED
  BY <1>1, <1>2, <1>3, <1>4

\* An enrolment that is not approved yet moves.
LEMMA EnrolmentMoves ==
  ASSUME RecordTypes, Unnamed, NEW e \in Requests, NEW row \in EnrollmentRow,
         enr[e].state # "approved", enr' = [enr EXCEPT ![e] = row],
         row.state # "approved" => row.serial = 0
  PROVE  /\ enr' \in [Requests -> EnrollmentRow] /\ Unnamed' /\ LateSerials \subseteq LateSerials'
         /\ enr'[e] = row /\ \A f \in Requests \ {e} : enr'[f] = enr[f]
<1>1. /\ enr' \in [Requests -> EnrollmentRow]
      /\ enr'[e] = row /\ \A f \in Requests \ {e} : enr'[f] = enr[f]
  BY DEF RecordTypes
<1>2. Unnamed'
  BY <1>1 DEF Unnamed
<1>3. LateSerials \subseteq LateSerials'
  <2> SUFFICES ASSUME NEW s \in Serials, NEW f \in Requests,
                      enr[f].purpose = "rust-migration", enr[f].serial = s
               PROVE  enr'[f] = enr[f]
    BY DEF LateSerials
  <2>1. s # 0
    BY DEF Serials
  <2> QED
    BY <1>1, <2>1 DEF Unnamed
<1> QED
  BY <1>1, <1>2, <1>3

\* create, submit, reject.
LEMMA EnrolmentKeeps ==
  ASSUME Bounds, CertInv, NEW e \in Requests, NEW row \in EnrollmentRow,
         enr[e].state \notin {"approved", "issuing"}, row.state \notin {"approved", "issuing"}, row.serial = 0,
         enr' = [enr EXCEPT ![e] = row],
         UNCHANGED <<node, certs, intent, ca, approval, renewal, revoking, crashes>>
  PROVE  CertInv'
<1>1. RecordTypes /\ RowsKnown /\ RowsOrdered /\ NodeSound /\ ApprovalSound /\ RenewalSound /\ Unnamed /\ Accounted
  BY DEF CertInv
<1>2. /\ enr' \in [Requests -> EnrollmentRow] /\ Unnamed' /\ LateSerials \subseteq LateSerials'
      /\ enr'[e] = row /\ \A f \in Requests \ {e} : enr'[f] = enr[f]
  BY <1>1, EnrolmentMoves, Zenon
<1>3. Issuing' = Issuing
  BY <1>2 DEF Issuing
<1>4. RecordTypes'
  BY <1>1, <1>2 DEF RecordTypes
<1>5. RowsKnown' /\ RowsOrdered' /\ NodeSound' /\ Recorded' = Recorded
  BY <1>1, <1>2, RowsRest
<1>6. ApprovalSound'
  BY <1>1, <1>2, <1>3, <1>5 DEF ApprovalSound, Issuing
<1>7. RenewalSound'
  BY <1>1, <1>2, <1>5 DEF RenewalSound
<1>8. Accounted'
  BY <1>1, <1>3, <1>5, CountStays DEF InRotation
<1> QED
  BY <1>2, <1>4, <1>5, <1>6, <1>7, <1>8 DEF CertInv

\* A step of a thread, or of the authority, that leaves the tables alone.
LEMMA ThreadKeeps ==
  ASSUME Bounds, CertInv, RecordTypes', UNCHANGED <<node, certs, enr>>, InRotation' = InRotation,
         ca'.signed = ca.signed,
         ApprovalSound', RenewalSound',
         approval'.pc = "sign" => approval.pc = "sign", renewal'.pc = "sign" => renewal.pc = "sign"
  PROVE  CertInv'
<1>1. RecordTypes /\ RowsKnown /\ RowsOrdered /\ NodeSound /\ Unnamed /\ Accounted
  BY DEF CertInv
<1>2. Unnamed' /\ LateSerials' = LateSerials /\ Issuing' = Issuing
  BY <1>1 DEF Unnamed, LateSerials, Issuing
<1>3. RowsKnown' /\ RowsOrdered' /\ NodeSound' /\ Recorded' = Recorded
  BY <1>1, <1>2, RowsRest
<1>4. Accounted'
  BY <1>1, <1>2, <1>3, CountStays
<1> QED
  BY <1>2, <1>3, <1>4 DEF CertInv

LEMMA ClaimIssuanceKeeps ==
  ASSUME Bounds, CertInv, NEW e \in Requests, ClaimIssuance(e)
  PROVE  CertInv'
<1> DEFINE row == [enr[e] EXCEPT !.state = "issuing"]
<1>1. RecordTypes /\ RowsKnown /\ RowsOrdered /\ NodeSound /\ ApprovalSound /\ RenewalSound /\ Unnamed /\ Accounted
  BY DEF CertInv
<1>2. /\ approval.pc = "idle" /\ enr[e].state = "pending-approval"
      /\ enr' = [enr EXCEPT ![e].state = "issuing"]
      /\ approval' = [pc |-> "sign", request |-> e, serial |-> 0, generation |-> 0]
      /\ UNCHANGED <<node, certs, intent, ca, renewal, revoking, crashes>>
  BY Zenon DEF ClaimIssuance, Claimable, Idle
<1>3. enr[e] \in EnrollmentRow /\ enr[e].serial = 0
  BY <1>1, <1>2 DEF RecordTypes, Unnamed
<1>4. row \in EnrollmentRow /\ row.state = "issuing" /\ row.serial = 0
  BY <1>3 DEF EnrollmentRow
<1>5. enr' = [enr EXCEPT ![e] = row]
  BY <1>1, <1>2 DEF RecordTypes
<1> HIDE DEF row
<1>6. /\ enr' \in [Requests -> EnrollmentRow] /\ Unnamed' /\ LateSerials \subseteq LateSerials'
      /\ enr'[e] = row /\ \A f \in Requests \ {e} : enr'[f] = enr[f]
  BY <1>1, <1>2, <1>4, <1>5, EnrolmentMoves, Zenon
<1>7. e \notin Issuing /\ Issuing' = Issuing \cup {e}
  BY <1>2, <1>4, <1>6 DEF Issuing
<1>8. RecordTypes'
  <2>1. approval' \in Thread
    BY <1>2, Numbers DEF Thread, Generations
  <2> QED
    BY <1>1, <1>2, <1>6, <2>1 DEF RecordTypes
<1>9. RowsKnown' /\ RowsOrdered' /\ NodeSound' /\ Recorded' = Recorded
  BY <1>1, <1>2, <1>6, RowsRest
<1>10. ApprovalSound'
  BY <1>2, <1>7 DEF ApprovalSound
<1>11. RenewalSound'
  BY <1>1, <1>2, <1>6, <1>9 DEF RenewalSound
<1>12. Accounted'
  <2>1. Cardinality(Issuing') = Cardinality(Issuing) + 1
    BY <1>1, <1>7, Counts, FS_AddElement, Zenon
  <2>2. /\ ToSign(approval) = 0 /\ ToSign(approval)' = 1 /\ ToSign(renewal)' = ToSign(renewal)
        /\ ToSign(renewal) \in {0, 1} /\ InRotation' = InRotation /\ InRotation \in {0, 1}
    BY <1>2 DEF ToSign, InRotation
  <2>3. ca'.signed \ Recorded' = ca.signed \ Recorded
    BY <1>2, <1>9
  <2> QED
    BY <1>1, <2>1, <2>2, <2>3, Counts DEF Accounted
<1> QED
  BY <1>6, <1>8, <1>9, <1>10, <1>11, <1>12 DEF CertInv

\* The authority has signed, for the thread that was to sign.
LEMMA SigningKeeps ==
  ASSUME Bounds, CertInv, CanSign, UNCHANGED <<node, certs, enr, intent, revoking>>,
         ca' = [ca EXCEPT !.signed = @ \cup {Fresh}],
         approval' \in Thread, renewal' \in Thread, ApprovalSound', RenewalSound',
         \/ approval.pc = "sign" /\ approval'.pc # "sign" /\ renewal' = renewal
         \/ renewal.pc = "sign" /\ renewal'.pc # "sign" /\ approval' = approval
  PROVE  CertInv'
<1>1. RecordTypes /\ RowsKnown /\ RowsOrdered /\ NodeSound /\ Unnamed /\ Accounted
  BY DEF CertInv
<1>2. Fresh \in Serials /\ Fresh \notin ca.signed
  BY <1>1, FreshSerial
<1>3. Unnamed' /\ LateSerials' = LateSerials /\ Issuing' = Issuing /\ InRotation' = InRotation
  BY <1>1 DEF Unnamed, LateSerials, Issuing, InRotation
<1>4. ca'.signed = ca.signed \cup {Fresh} /\ ca'.revoked = ca.revoked /\ ca' \in [signed : SUBSET Serials, revoked : SUBSET Serials]
  BY <1>1, <1>2 DEF RecordTypes
<1>5. RecordTypes'
  BY <1>1, <1>4 DEF RecordTypes
<1>6. RowsKnown' /\ RowsOrdered' /\ NodeSound' /\ Recorded' = Recorded
  BY <1>1, <1>3, <1>4, RowsRest
<1>7. Accounted'
  <2>1. /\ ca'.signed \ Recorded' = (ca.signed \ Recorded) \cup {Fresh}
        /\ Fresh \notin ca.signed \ Recorded
    BY <1>1, <1>2, <1>4, <1>6 DEF RowsKnown
  <2>2. Cardinality(ca'.signed \ Recorded') = Cardinality(ca.signed \ Recorded) + 1
    BY <1>1, <2>1, Counts, FS_AddElement, Zenon
  <2>3. /\ ToSign(approval)' + ToSign(renewal)' + 1 = ToSign(approval) + ToSign(renewal)
        /\ ToSign(approval) \in {0, 1} /\ ToSign(renewal) \in {0, 1}
        /\ ToSign(approval)' \in {0, 1} /\ ToSign(renewal)' \in {0, 1} /\ InRotation \in {0, 1}
    BY DEF ToSign, InRotation
  <2> QED
    BY <1>1, <1>3, <2>2, <2>3, Counts DEF Accounted
<1> QED
  BY <1>3, <1>5, <1>6, <1>7 DEF CertInv

LEMMA IssueNodeKeeps ==
  ASSUME Bounds, CertInv, IssueNode
  PROVE  CertInv'
<1>1. RecordTypes /\ RowsKnown /\ ApprovalSound /\ RenewalSound
  BY DEF CertInv
<1>2. /\ approval.pc = "sign" /\ CanSign
      /\ UNCHANGED <<node, certs, enr, intent, renewal, revoking, crashes>>
      /\ \/ /\ ca' = [ca EXCEPT !.signed = @ \cup {Fresh}]
            /\ approval' \in {[approval EXCEPT !.pc = "check", !.serial = Fresh], Idle}
         \/ approval' = Idle /\ ca' = ca
  BY DEF IssueNode
<1>3. Idle \in Thread /\ Idle.pc = "idle"
  BY Numbers
<1>4. Recorded' = Recorded /\ Issuing' = Issuing /\ LateSerials' = LateSerials /\ InRotation' = InRotation
  BY <1>2 DEF Recorded, Issuing, LateSerials, InRotation
<1>5. CASE ca' = ca
  <2>1. approval' = Idle
    BY <1>2, <1>5, <1>1, FreshSerial DEF RecordTypes
  <2>2. ApprovalSound' /\ RenewalSound'
    BY <1>1, <1>2, <1>3, <1>4, <1>5, <2>1 DEF ApprovalSound, RenewalSound
  <2>3. RecordTypes'
    BY <1>1, <1>2, <1>3, <1>5, <2>1 DEF RecordTypes
  <2> QED
    BY <1>2, <1>3, <1>4, <1>5, <2>1, <2>2, <2>3, ThreadKeeps
<1>6. CASE ca' = [ca EXCEPT !.signed = @ \cup {Fresh}]
  <2>1. Fresh \in Serials /\ Fresh \notin ca.signed
    BY <1>1, <1>2, FreshSerial
  <2>2. ca'.signed = ca.signed \cup {Fresh}
    BY <1>1, <1>6 DEF RecordTypes
  <2>3. RenewalSound' /\ ApprovalSound' /\ approval' \in Thread /\ approval'.pc # "sign"
    <3>1. CASE approval' = Idle
      BY <1>1, <1>2, <1>3, <1>4, <2>2, <3>1 DEF ApprovalSound, RenewalSound
    <3>2. CASE approval' = [approval EXCEPT !.pc = "check", !.serial = Fresh]
      <4>1. /\ approval' \in Thread /\ approval'.pc = "check" /\ approval'.serial = Fresh
            /\ approval'.request = approval.request
        BY <1>1, <2>1, <3>2, Numbers, Zenon DEF RecordTypes, Thread
      <4>2. Fresh \notin Recorded
        BY <1>1, <2>1 DEF RowsKnown
      <4>3. ApprovalSound'
        BY <1>1, <1>2, <1>4, <2>2, <4>1, <4>2 DEF ApprovalSound
      <4>4. RenewalSound'
        BY <1>1, <1>2, <1>4, <2>1, <2>2, <4>1 DEF RenewalSound
      <4> QED
        BY <4>1, <4>3, <4>4
    <3> QED
      BY <1>2, <1>3, <1>6, <2>1, <2>2, <3>1, <3>2
  <2> QED
    BY <1>1, <1>2, <1>6, <2>3, SigningKeeps DEF RecordTypes
<1> QED
  BY <1>2, <1>5, <1>6

LEMMA CheckIssuedKeeps ==
  ASSUME Bounds, CertInv, CheckIssued
  PROVE  CertInv'
<1>1. RecordTypes /\ RowsKnown /\ ApprovalSound /\ RenewalSound
  BY DEF CertInv
<1>2. /\ approval.pc = "check" /\ UNCHANGED <<node, certs, enr, intent, ca, renewal, revoking, crashes>>
      /\ approval' = IF Eligible(enr[approval.request].purpose)
                     THEN [approval EXCEPT !.pc = "insert", !.generation = Latest + 1] ELSE Idle
  BY DEF CheckIssued
<1>3. Recorded' = Recorded /\ Issuing' = Issuing /\ LateSerials' = LateSerials /\ InRotation' = InRotation
  BY <1>2 DEF Recorded, Issuing, LateSerials, InRotation
<1>4. Idle \in Thread /\ Idle.pc = "idle"
  BY Numbers
<1>5. CASE Eligible(enr[approval.request].purpose)
  <2>1. Latest + 1 \in Nat
    BY <1>1, LatestGeneration
  <2>2. /\ approval' \in Thread /\ approval'.pc = "insert"
        /\ approval'.request = approval.request /\ approval'.serial = approval.serial
    BY <1>1, <1>2, <1>5, <2>1, Zenon DEF RecordTypes, Thread, Generations
  <2>3. enr[approval.request].purpose = "new-node" <=> node.state = "absent"
    BY <1>5 DEF Eligible, Migratable
  <2>4. ApprovalSound' /\ RenewalSound' /\ RecordTypes'
    BY <1>1, <1>2, <1>3, <2>2, <2>3 DEF ApprovalSound, RenewalSound, RecordTypes
  <2> QED
    BY <1>2, <1>3, <2>2, <2>4, ThreadKeeps
<1>6. CASE ~ Eligible(enr[approval.request].purpose)
  <2>1. ApprovalSound' /\ RenewalSound' /\ RecordTypes'
    BY <1>1, <1>2, <1>3, <1>4, <1>6 DEF ApprovalSound, RenewalSound, RecordTypes
  <2> QED
    BY <1>2, <1>3, <1>4, <1>6, <2>1, ThreadKeeps
<1> QED
  BY <1>5, <1>6

\* A row is added under a generation of its own.
LEMMA RowAdded ==
  ASSUME RecordTypes, RowsKnown, NEW row \in Certificate, row.serial \in ca.signed \ Recorded,
         ~ Conflicts(row.generation), certs' = certs \cup {row}, ca' = ca
  PROVE  /\ certs' \subseteq Certificate /\ RowsKnown' /\ Recorded' = Recorded \cup {row.serial}
<1>1. Recorded' = Recorded \cup {row.serial}
  BY DEF Recorded
<1>2. \E bound \in Nat : \A c \in certs' : c.generation <= bound
  <2>1. PICK bound \in Nat : \A c \in certs : c.generation <= bound
    BY DEF RowsKnown
  <2>2. row.generation \in Nat /\ \A c \in certs : c.generation \in Nat
    BY DEF RecordTypes, Certificate, Generations
  <2>3. bound + row.generation \in Nat /\ \A c \in certs' : c.generation <= bound + row.generation
    BY <2>1, <2>2
  <2> QED
    BY <2>3
<1>3. \A c, d \in certs' : c.generation = d.generation => c = d
  BY DEF RowsKnown, Conflicts
<1>4. Recorded' \subseteq ca'.signed
  BY <1>1 DEF RowsKnown
<1> QED
  BY <1>1, <1>2, <1>3, <1>4 DEF RecordTypes, RowsKnown

\* What was signed for a thread gets its row, and the claim ends with it.
LEMMA CountDrops ==
  ASSUME Bounds, RecordTypes, Accounted, NEW s \in ca.signed \ Recorded,
         Recorded' = Recorded \cup {s}, ca' = ca, approval.pc # "sign" => approval'.pc # "sign",
         renewal.pc # "sign" => renewal'.pc # "sign",
         \/ InRotation' = InRotation /\ \E e \in Issuing : Issuing' = Issuing \ {e}
         \/ InRotation = 1 /\ InRotation' = 0 /\ Issuing' = Issuing
  PROVE  Accounted'
<1>1. ca'.signed \ Recorded' = (ca.signed \ Recorded) \ {s}
  OBVIOUS
<1>2. Cardinality(ca'.signed \ Recorded') = Cardinality(ca.signed \ Recorded) - 1
  <2> DEFINE open == ca.signed \ Recorded
  <2>1. IsFiniteSet(open) /\ s \in open
    BY Counts
  <2> HIDE DEF open
  <2>2. Cardinality(open \ {s}) = Cardinality(open) - 1
    BY <2>1, FS_RemoveElement, Zenon
  <2> QED
    BY <1>1, <2>2 DEF open
<1>3. Cardinality(Issuing') + InRotation' = Cardinality(Issuing) + InRotation - 1
  <2>1. CASE InRotation' = InRotation /\ \E e \in Issuing : Issuing' = Issuing \ {e}
    <3>1. PICK e \in Issuing : Issuing' = Issuing \ {e}
      BY <2>1
    <3>2. Cardinality(Issuing') = Cardinality(Issuing) - 1
      BY <3>1, Counts, FS_RemoveElement, Zenon
    <3> QED
      BY <2>1, <3>2, Counts DEF InRotation
  <2>2. CASE InRotation = 1 /\ InRotation' = 0 /\ Issuing' = Issuing
    BY <2>2, Counts
  <2> QED
    BY <2>1, <2>2
<1>4. /\ ToSign(approval)' <= ToSign(approval) /\ ToSign(renewal)' <= ToSign(renewal)
      /\ ToSign(approval) \in {0, 1} /\ ToSign(renewal) \in {0, 1} /\ InRotation \in {0, 1}
      /\ ToSign(approval)' \in {0, 1} /\ ToSign(renewal)' \in {0, 1} /\ InRotation' \in {0, 1}
  BY DEF ToSign, InRotation
<1> QED
  BY <1>2, <1>3, <1>4, Counts DEF Accounted

LEMMA PersistIssuedKeeps ==
  ASSUME Bounds, CertInv, PersistIssued
  PROVE  CertInv'
<1> DEFINE e == approval.request
           row == [enr[e] EXCEPT !.state = "approved", !.serial = approval.serial]
           cert == [serial |-> approval.serial, generation |-> approval.generation, state |-> "active",
                    caRevoked |-> FALSE, owner |-> "rust"]
           new == enr[e].purpose = "new-node"
<1>1. RecordTypes /\ RowsKnown /\ RowsOrdered /\ NodeSound /\ ApprovalSound /\ RenewalSound /\ Unnamed /\ Accounted
  BY DEF CertInv
<1>2. /\ approval.pc = "insert" /\ approval' = Idle /\ UNCHANGED <<intent, ca, renewal, revoking, crashes>>
      /\ IF Conflicts(approval.generation) THEN UNCHANGED <<node, certs, enr>>
         ELSE /\ certs' = certs \cup {cert}
              /\ node' = IF new THEN [state |-> "active", implementation |-> "pending"] ELSE node
              /\ enr' = [enr EXCEPT ![e].state = "approved", ![e].serial = approval.serial]
  BY DEF PersistIssued
<1>3. Idle \in Thread /\ Idle.pc = "idle"
  BY Numbers
<1>4. CASE Conflicts(approval.generation)
  <2>1. Recorded' = Recorded /\ LateSerials' = LateSerials /\ InRotation' = InRotation
    BY <1>2, <1>4 DEF Recorded, LateSerials, InRotation
  <2>2. ApprovalSound' /\ RenewalSound' /\ RecordTypes'
    BY <1>1, <1>2, <1>3, <1>4, <2>1 DEF ApprovalSound, RenewalSound, RecordTypes
  <2> QED
    BY <1>2, <1>3, <1>4, <2>1, <2>2, ThreadKeeps
<1>5. CASE ~ Conflicts(approval.generation)
  <2>1. /\ certs' = certs \cup {cert} /\ node' = IF new THEN [state |-> "active", implementation |-> "pending"] ELSE node
        /\ enr' = [enr EXCEPT ![e].state = "approved", ![e].serial = approval.serial]
    BY <1>2, <1>5
  <2>2. /\ e \in Requests /\ enr[e] \in EnrollmentRow /\ enr[e].state = "issuing" /\ e \in Issuing
        /\ approval.serial \in ca.signed \ Recorded /\ approval.serial \in Serials /\ approval.generation \in Nat
        /\ new <=> node.state = "absent"
    BY <1>1, <1>2 DEF ApprovalSound, Issuing, RecordTypes, Thread, Generations
  <2>3. cert \in Certificate /\ cert.serial = approval.serial /\ cert.generation = approval.generation
        /\ cert.state = "active" /\ cert.owner = "rust"
    BY <2>2 DEF Certificate, Generations
  <2>4. row \in EnrollmentRow /\ row.state = "approved" /\ row.serial = approval.serial /\ row.purpose = enr[e].purpose
    BY <2>2, Numbers, Zenon DEF EnrollmentRow
  <2>5. enr' = [enr EXCEPT ![e] = row]
    BY <1>1, <2>1, <2>2, Zenon DEF RecordTypes
  <2> HIDE DEF row, cert
  <2>6. /\ enr' \in [Requests -> EnrollmentRow] /\ Unnamed' /\ LateSerials \subseteq LateSerials'
        /\ enr'[e] = row /\ \A f \in Requests \ {e} : enr'[f] = enr[f]
    BY <1>1, <2>2, <2>4, <2>5, EnrolmentMoves, Zenon
  <2>7. Issuing' = Issuing \ {e}
    BY <2>4, <2>6 DEF Issuing
  <2>8. certs' \subseteq Certificate /\ RowsKnown' /\ Recorded' = Recorded \cup {approval.serial}
    BY <1>1, <1>2, <1>5, <2>1, <2>2, <2>3, RowAdded
  <2>9. ~ new => cert.serial \in LateSerials'
    BY <2>2, <2>3, <2>4, <2>6 DEF LateSerials, EnrollmentRow
  <2>10. new => certs = {}
    BY <1>1, <2>2 DEF NodeSound
  <2>11. node' \in Node /\ (~ new => node' = node)
         /\ (new => node'.state = "active" /\ node'.implementation = "pending")
    BY <1>1, <2>1 DEF RecordTypes, Node
  <2> HIDE DEF new
  <2>12. RecordTypes'
    BY <1>1, <1>2, <1>3, <2>6, <2>8, <2>11 DEF RecordTypes
  <2>13. RowsOrdered'
    BY <1>1, <2>1, <2>3, <2>6, <2>9, <2>10 DEF RowsOrdered
  <2>14. NodeSound'
    <3>1. CASE new
      <4>1. certs' = {cert}
        BY <2>1, <2>10, <3>1
      <4> QED
        BY <2>3, <2>11, <3>1, <4>1 DEF NodeSound, PythonFenced, KeepsOne
    <3>2. CASE ~ new
      <4>1. node.state # "absent"
        BY <2>2, <3>2 DEF new
      <4> QED
        BY <1>1, <2>1, <2>3, <2>6, <2>9, <2>11, <3>2, <4>1 DEF NodeSound, PythonFenced, KeepsOne, Live
    <3> QED
      BY <3>1, <3>2
  <2>15. ApprovalSound'
    BY <1>2, <1>3 DEF ApprovalSound
  <2>16. RenewalSound'
    <3>1. renewal.pc \in {"sign", "persist"} => ~ new
      BY <1>1, <2>10 DEF RenewalSound, Recorded
    <3> QED
      BY <1>1, <1>2, <1>3, <2>1, <2>3, <2>6, <2>8, <2>9, <3>1 DEF RenewalSound
  <2>17. Accounted'
    <3>1. InRotation' = InRotation /\ \E f \in Issuing : Issuing' = Issuing \ {f}
      BY <1>2, <2>2, <2>7 DEF InRotation
    <3> QED
      BY <1>1, <1>2, <1>3, <2>2, <2>8, <3>1, CountDrops
  <2> QED
    BY <2>6, <2>8, <2>12, <2>13, <2>14, <2>15, <2>16, <2>17 DEF CertInv
<1> QED
  BY <1>4, <1>5

LEMMA ClaimRotationKeeps ==
  ASSUME Bounds, CertInv, NEW c \in certs, ClaimRotation(c)
  PROVE  CertInv'
<1>1. RecordTypes /\ RowsKnown /\ RowsOrdered /\ NodeSound /\ ApprovalSound /\ RenewalSound /\ Unnamed /\ Accounted
  BY DEF CertInv
<1>2. /\ renewal.pc = "idle" /\ (\A d \in certs : d.state # "staged")
      /\ UNCHANGED <<node, certs, enr, ca, approval, revoking, crashes>>
  BY DEF ClaimRotation
<1>3. /\ Recorded' = Recorded /\ Issuing' = Issuing /\ LateSerials' = LateSerials /\ Unnamed'
      /\ c.serial \in Recorded /\ c.serial \in Serials
  BY <1>1, <1>2 DEF Recorded, Issuing, LateSerials, Unnamed, RecordTypes, Certificate
<1>4. Latest \in Nat /\ \A d \in certs : d.generation <= Latest /\ d.generation \in Nat
  BY <1>1, LatestGeneration DEF RecordTypes, Certificate, Generations
<1>5. ApprovalSound'
  BY <1>1, <1>2, <1>3 DEF ApprovalSound
<1>6. CASE /\ Unclaimed
           /\ intent' = [state |-> "issuing", source |-> c.serial, generation |-> Latest + 1]
           /\ renewal' = [Idle EXCEPT !.pc = "sign", !.generation = Latest + 1]
  <2>1. /\ renewal' \in Thread /\ renewal'.pc = "sign" /\ renewal'.generation = Latest + 1
        /\ intent' \in Rotation /\ intent'.state = "issuing" /\ intent'.source = c.serial
    <3>1. Latest + 1 \in Nat /\ c.serial \in 0..MaxSerial
      BY <1>3, <1>4, Numbers
    <3>2. renewal' = [pc |-> "sign", request |-> "none", serial |-> 0, generation |-> Latest + 1]
      BY <1>6, Zenon DEF Idle
    <3>3. renewal' \in Thread /\ renewal'.pc = "sign" /\ renewal'.generation = Latest + 1
      BY <3>1, <3>2, Numbers DEF Thread, Generations
    <3>4. intent' \in Rotation /\ intent'.state = "issuing" /\ intent'.source = c.serial
      BY <1>6, <3>1 DEF Rotation, Generations
    <3> QED
      BY <3>3, <3>4
  <2>2. RecordTypes'
    BY <1>1, <1>2, <2>1 DEF RecordTypes
  <2>3. RowsKnown' /\ RowsOrdered' /\ NodeSound'
    BY <1>1, <1>2, <1>3, RowsRest
  <2>4. RenewalSound'
    BY <1>2, <1>3, <1>4, <2>1 DEF RenewalSound
  <2>5. Accounted'
    <3>1. /\ ToSign(renewal) = 0 /\ ToSign(renewal)' = 1 /\ InRotation = 0 /\ InRotation' = 1
          /\ ToSign(approval)' = ToSign(approval) /\ ToSign(approval) \in {0, 1}
      BY <1>2, <1>6, <2>1 DEF ToSign, InRotation, Unclaimed
    <3>2. ca'.signed \ Recorded' = ca.signed \ Recorded
      BY <1>2, <1>3
    <3> QED
      <4>1. Cardinality(ca.signed \ Recorded) \in Nat /\ Cardinality(Issuing) \in Nat
        BY <1>1, Counts
      <4> QED
        BY <1>1, <1>3, <3>1, <3>2, <4>1 DEF Accounted
  <2> QED
    BY <1>3, <1>5, <2>2, <2>3, <2>4, <2>5 DEF CertInv
<1>7. CASE /\ intent.state = "issuing" /\ intent.source = c.serial
           /\ intent' = [intent EXCEPT !.state = "manual-recovery"]
           /\ UNCHANGED renewal
  <2>1. intent' \in Rotation /\ intent'.state = "manual-recovery"
    BY <1>1, <1>7 DEF RecordTypes, Rotation
  <2>2. RecordTypes' /\ InRotation' = InRotation /\ RenewalSound'
    BY <1>1, <1>2, <1>7, <2>1 DEF RecordTypes, InRotation, RenewalSound
  <2> QED
    BY <1>2, <1>5, <1>7, <2>2, ThreadKeeps
<1> QED
  BY <1>6, <1>7 DEF ClaimRotation

LEMMA RenewNodeKeeps ==
  ASSUME Bounds, CertInv, RenewNode
  PROVE  CertInv'
<1>1. RecordTypes /\ RowsKnown /\ ApprovalSound /\ RenewalSound
  BY DEF CertInv
<1>2. /\ renewal.pc = "sign" /\ CanSign
      /\ UNCHANGED <<node, certs, enr, intent, approval, revoking, crashes>>
  BY DEF RenewNode
<1>3. /\ Recorded' = Recorded /\ Issuing' = Issuing /\ LateSerials' = LateSerials /\ InRotation' = InRotation
  BY <1>2 DEF Recorded, Issuing, LateSerials, InRotation
<1>4. Fresh \in Serials /\ Fresh \notin ca.signed /\ Fresh \notin Recorded
  BY <1>1, <1>2, FreshSerial DEF RowsKnown
<1>5. ASSUME renewal' = [renewal EXCEPT !.pc = "uncertain"], ca.signed \subseteq ca'.signed
      PROVE  renewal' \in Thread /\ renewal'.pc = "uncertain" /\ ApprovalSound' /\ RenewalSound'
  <2>1. renewal' \in Thread /\ renewal'.pc = "uncertain"
    BY <1>1, <1>5 DEF RecordTypes, Thread
  <2> QED
    BY <1>1, <1>2, <1>3, <1>5, <2>1 DEF ApprovalSound, RenewalSound
<1>6. CASE renewal' = [renewal EXCEPT !.pc = "uncertain"] /\ UNCHANGED ca
  <2>1. RecordTypes'
    BY <1>1, <1>2, <1>5, <1>6 DEF RecordTypes
  <2> QED
    BY <1>2, <1>3, <1>5, <1>6, <2>1, ThreadKeeps
<1>7. CASE /\ ca' = [ca EXCEPT !.signed = @ \cup {Fresh}]
           /\ renewal' \in {[renewal EXCEPT !.pc = "persist", !.serial = Fresh], [renewal EXCEPT !.pc = "uncertain"]}
  <2>1. ca'.signed = ca.signed \cup {Fresh}
    BY <1>1, <1>7 DEF RecordTypes
  <2>2. CASE renewal' = [renewal EXCEPT !.pc = "persist", !.serial = Fresh]
    <3>1. /\ renewal' \in Thread /\ renewal'.pc = "persist" /\ renewal'.serial = Fresh
          /\ renewal'.generation = renewal.generation
      BY <1>1, <1>4, <2>2, Numbers, Zenon DEF RecordTypes, Thread
    <3>2. ApprovalSound' /\ RenewalSound'
      BY <1>1, <1>2, <1>3, <1>4, <2>1, <3>1 DEF ApprovalSound, RenewalSound
    <3> QED
      BY <1>1, <1>2, <1>7, <3>1, <3>2, SigningKeeps DEF RecordTypes
  <2>3. CASE renewal' = [renewal EXCEPT !.pc = "uncertain"]
    BY <1>1, <1>2, <1>5, <1>7, <2>1, <2>3, SigningKeeps DEF RecordTypes
  <2> QED
    BY <1>7, <2>2, <2>3
<1> QED
  BY <1>6, <1>7 DEF RenewNode

LEMMA PersistRotationKeeps ==
  ASSUME Bounds, CertInv, PersistRotation
  PROVE  CertInv'
<1> DEFINE cert == [serial |-> renewal.serial, generation |-> renewal.generation,
                    state |-> IF Denied THEN "revoked" ELSE "staged", caRevoked |-> FALSE,
                    owner |-> OwnerOf(intent.source)]
<1>1. RecordTypes /\ RowsKnown /\ RowsOrdered /\ NodeSound /\ ApprovalSound /\ RenewalSound /\ Unnamed /\ Accounted
  BY DEF CertInv
<1>2. renewal.pc = "persist" /\ UNCHANGED <<node, enr, ca, approval, revoking, crashes>>
  BY DEF PersistRotation
<1>3. Issuing' = Issuing /\ LateSerials' = LateSerials /\ Unnamed'
  BY <1>1, <1>2 DEF Issuing, LateSerials, Unnamed
<1>4. /\ intent.state = "issuing" /\ renewal.serial \in ca.signed \ Recorded
      /\ renewal.serial \in Serials /\ renewal.generation \in Nat
      /\ \A c \in certs : /\ c.state # "staged"
                          /\ c.state = "active" => c.serial \in LateSerials \/ c.generation < renewal.generation
  BY <1>1, <1>2 DEF RenewalSound, RecordTypes, Thread, Generations
<1>5. PICK source \in certs : source.serial = intent.source
  BY <1>1, <1>2 DEF RenewalSound, Recorded
<1>6. CASE Conflicts(renewal.generation)
  <2>1. renewal' = [renewal EXCEPT !.pc = "uncertain"] /\ UNCHANGED <<certs, intent>>
    BY <1>6 DEF PersistRotation
  <2>2. renewal' \in Thread /\ renewal'.pc = "uncertain"
    BY <1>1, <2>1 DEF RecordTypes, Thread
  <2>3. Recorded' = Recorded /\ InRotation' = InRotation
    BY <2>1 DEF Recorded, InRotation
  <2>4. ApprovalSound' /\ RenewalSound' /\ RecordTypes'
    BY <1>1, <1>2, <1>3, <2>1, <2>2, <2>3 DEF ApprovalSound, RenewalSound, RecordTypes
  <2> QED
    BY <1>2, <2>1, <2>2, <2>3, <2>4, ThreadKeeps
<1>7. CASE ~ Conflicts(renewal.generation)
  <2>1. /\ certs' = certs \cup {cert}
        /\ intent' = IF Denied THEN [intent EXCEPT !.state = "revocation-pending"] ELSE NoRotation
        /\ renewal' = IF Denied THEN [renewal EXCEPT !.pc = "revoke"] ELSE Idle
    BY <1>7 DEF PersistRotation
  <2>2. /\ cert \in Certificate /\ cert.serial = renewal.serial /\ cert.generation = renewal.generation
        /\ cert.state = IF Denied THEN "revoked" ELSE "staged"
        /\ cert.owner = OwnerOf(intent.source)
    BY <1>4 DEF Certificate, Generations, OwnerOf
  <2> HIDE DEF cert
  <2>3. certs' \subseteq Certificate /\ RowsKnown' /\ Recorded' = Recorded \cup {renewal.serial}
    BY <1>1, <1>2, <1>4, <1>7, <2>1, <2>2, RowAdded
  <2>4. /\ renewal' \in Thread /\ renewal'.pc \in {"revoke", "idle"}
        /\ renewal'.pc = "revoke" => renewal'.serial = renewal.serial
    BY <1>1, <2>1, Numbers DEF RecordTypes, Thread
  <2>5. intent' \in Rotation /\ InRotation = 1 /\ InRotation' = 0
    BY <1>1, <1>4, <2>1, Numbers DEF RecordTypes, Rotation, NoRotation, InRotation, Generations
  <2>6. RecordTypes'
    BY <1>1, <1>2, <2>3, <2>4, <2>5 DEF RecordTypes
  <2>7. RowsOrdered'
    BY <1>1, <1>3, <1>4, <2>1, <2>2 DEF RowsOrdered
  <2>8. NodeSound'
    <3>1. node.state # "absent"
      BY <1>1, <1>5 DEF NodeSound
    <3>2. node.implementation \in {"none", "pending"} => cert.owner = "rust"
      BY <1>1, <1>5, <2>2 DEF NodeSound, OwnerOf, RowOf
    <3>3. node.state # "active" => ~ Live(cert)
      BY <2>2 DEF Denied, Live
    <3>4. node.implementation = "rust" /\ Live(cert) => cert.owner = "rust"
      <4> SUFFICES ASSUME node.implementation = "rust", Live(cert) PROVE cert.owner = "rust"
        OBVIOUS
      <4>1. PICK c \in RowOf(intent.source) : c.state = "active"
        BY <2>2 DEF Live, Denied
      <4>2. c \in certs /\ c.owner \in {"python", "rust"}
        BY <1>1 DEF RowOf, RecordTypes, Certificate
      <4>3. c.owner = "rust"
        BY <1>1, <4>1, <4>2 DEF NodeSound, PythonFenced, Live
      <4> QED
        BY <2>2, <4>3 DEF OwnerOf
    <3> QED
      BY <1>1, <1>2, <1>3, <2>1, <3>1, <3>2, <3>3, <3>4 DEF NodeSound, PythonFenced, KeepsOne
  <2>9. ApprovalSound'
    <3>1. approval.pc \in {"check", "insert"} => approval.serial # renewal.serial
      BY <1>1, <1>2 DEF RenewalSound
    <3> QED
      BY <1>1, <1>2, <1>3, <2>3, <3>1 DEF ApprovalSound
  <2>10. RenewalSound'
    BY <1>2, <1>4, <2>4 DEF RenewalSound
  <2>11. Accounted'
    BY <1>1, <1>2, <1>3, <1>4, <2>3, <2>4, <2>5, CountDrops
  <2> QED
    BY <1>3, <2>3, <2>6, <2>7, <2>8, <2>9, <2>10, <2>11 DEF CertInv
<1> QED
  BY <1>6, <1>7

LEMMA MarkUncertainKeeps ==
  ASSUME Bounds, CertInv, MarkUncertain
  PROVE  CertInv'
<1>1. RecordTypes /\ ApprovalSound /\ RenewalSound
  BY DEF CertInv
<1>2. /\ intent' = [intent EXCEPT !.state = IF @ = "issuing" THEN "manual-recovery" ELSE @]
      /\ renewal' = Idle /\ UNCHANGED <<node, certs, enr, ca, approval, revoking, crashes>>
  BY DEF MarkUncertain
<1>3. Recorded' = Recorded /\ Issuing' = Issuing
  BY <1>2 DEF Recorded, Issuing
<1>4. intent' \in Rotation /\ InRotation' = InRotation
  BY <1>1, <1>2 DEF RecordTypes, Rotation, InRotation
<1>5. Idle \in Thread /\ Idle.pc = "idle"
  BY Numbers
<1>6. RecordTypes' /\ ApprovalSound' /\ RenewalSound'
  BY <1>1, <1>2, <1>3, <1>4, <1>5 DEF RecordTypes, ApprovalSound, RenewalSound
<1> QED
  BY <1>2, <1>4, <1>5, <1>6, ThreadKeeps

LEMMA CrashKeeps ==
  ASSUME Bounds, CertInv, Crash
  PROVE  CertInv'
<1>1. RecordTypes
  BY DEF CertInv
<1>2. /\ approval' = Idle /\ renewal' = Idle /\ revoking' = {} /\ UNCHANGED <<node, certs, enr, intent, ca>>
  BY DEF Crash
<1>3. Idle \in Thread /\ Idle.pc = "idle"
  BY Numbers
<1>4. RecordTypes' /\ ApprovalSound' /\ RenewalSound' /\ InRotation' = InRotation
  BY <1>1, <1>2, <1>3 DEF RecordTypes, ApprovalSound, RenewalSound, InRotation
<1> QED
  BY <1>2, <1>3, <1>4, ThreadKeeps

\* A step that rewrites rows without changing whose they are.
LEMMA RowsRewritten ==
  ASSUME RecordTypes, RowsKnown, NEW f \in [certs -> Certificate],
         \A c \in certs : f[c].serial = c.serial /\ f[c].generation = c.generation,
         certs' = {f[c] : c \in certs}, ca'.signed = ca.signed
  PROVE  certs' \subseteq Certificate /\ Recorded' = Recorded /\ RowsKnown'
<1>1. certs' \subseteq Certificate
  OBVIOUS
<1>2. Recorded' = Recorded
  BY DEF Recorded
<1>3. \E bound \in Nat : \A c \in certs' : c.generation <= bound
  BY DEF RowsKnown
<1>4. \A c, d \in certs' : c.generation = d.generation => c = d
  BY DEF RowsKnown
<1> QED
  BY <1>1, <1>2, <1>3, <1>4 DEF RowsKnown

\* Rows that are only ever denied stay in order.
LEMMA RowsDenied ==
  ASSUME RowsOrdered, NEW f \in [certs -> Certificate], certs' = {f[c] : c \in certs}, enr' = enr,
         \A c \in certs : /\ f[c].serial = c.serial /\ f[c].generation = c.generation
                          /\ f[c].state \in {c.state, "revoked"}
  PROVE  RowsOrdered'
<1>1. LateSerials' = LateSerials
  BY DEF LateSerials
<1> SUFFICES ASSUME NEW c \in certs, NEW d \in certs
             PROVE  /\ f[c].state = "staged" /\ f[d].state = "staged" => f[c] = f[d]
                    /\ f[c].state = "active" /\ f[d].state = "active" /\ f[c] # f[d]
                         => f[c].serial \in LateSerials \/ f[d].serial \in LateSerials
                    /\ f[c].state = "staged" /\ f[d].state = "active"
                         => f[d].serial \in LateSerials \/ f[d].generation < f[c].generation
  BY <1>1 DEF RowsOrdered
<1>2. /\ f[c].state \in {c.state, "revoked"} /\ f[d].state \in {d.state, "revoked"}
      /\ f[c].serial = c.serial /\ f[d].serial = d.serial
      /\ f[c].generation = c.generation /\ f[d].generation = d.generation
  OBVIOUS
<1> QED
  BY <1>2 DEF RowsOrdered

LEMMA RewriteKeeps ==
  ASSUME Bounds, CertInv, RecordTypes', NEW f \in [certs -> Certificate],
         \A c \in certs : f[c].serial = c.serial /\ f[c].generation = c.generation,
         certs' = {f[c] : c \in certs}, RowsOrdered', NodeSound', RenewalSound',
         UNCHANGED <<enr, approval>>, ca'.signed = ca.signed, InRotation' = InRotation,
         renewal'.pc = "sign" => renewal.pc = "sign",
         node'.state = "absent" <=> node.state = "absent"
  PROVE  CertInv'
<1>1. RecordTypes /\ RowsKnown /\ ApprovalSound /\ Unnamed /\ Accounted
  BY DEF CertInv
<1>2. RowsKnown' /\ Recorded' = Recorded
  BY <1>1, RowsRewritten
<1>3. Unnamed' /\ Issuing' = Issuing
  BY <1>1 DEF Unnamed, Issuing
<1>4. ApprovalSound'
  BY <1>1, <1>2, <1>3 DEF ApprovalSound
<1>5. Accounted'
  BY <1>1, <1>2, <1>3, CountStays
<1> QED
  BY <1>2, <1>3, <1>4, <1>5 DEF CertInv

\* The authority's revocation is noted in the row.
LEMMA ConfirmedKeeps ==
  ASSUME Bounds, CertInv, NEW s \in ca.signed, Confirmed(s), ca' = [ca EXCEPT !.revoked = @ \cup {s}],
         UNCHANGED <<node, enr, approval>>, revoking' \subseteq revoking, renewal' \in {renewal, Idle}
  PROVE  CertInv'
<1> DEFINE f == [c \in certs |-> IF c.serial = s THEN [c EXCEPT !.caRevoked = TRUE] ELSE c]
<1>1. RecordTypes /\ RowsKnown /\ RowsOrdered /\ NodeSound /\ RenewalSound
  BY DEF CertInv
<1>2. /\ f \in [certs -> Certificate]
      /\ \A c \in certs : /\ f[c].serial = c.serial /\ f[c].generation = c.generation
                          /\ f[c].owner = c.owner /\ f[c].state = c.state
  <2> SUFFICES ASSUME NEW c \in certs
               PROVE  /\ f[c] \in Certificate /\ f[c].serial = c.serial /\ f[c].generation = c.generation
                      /\ f[c].owner = c.owner /\ f[c].state = c.state
    OBVIOUS
  <2>1. c \in Certificate
    BY <1>1 DEF RecordTypes
  <2> QED
    BY <2>1, Zenon DEF Certificate
<1>3. certs' = {f[c] : c \in certs}
  BY DEF Confirmed
<1> HIDE DEF f
<1>4. ca'.signed = ca.signed /\ ca' \in [signed : SUBSET Serials, revoked : SUBSET Serials] /\ ca'.revoked \subseteq ca.signed
  BY <1>1 DEF RecordTypes
<1>5. /\ intent' \in Rotation /\ InRotation' = InRotation
      /\ intent.state = "issuing" => intent' = intent
  BY <1>1 DEF Confirmed, RecordTypes, Rotation, InRotation
<1>6. Idle \in Thread /\ Idle.pc = "idle"
  BY Numbers
<1>7. certs' \subseteq Certificate /\ Recorded' = Recorded
  BY <1>1, <1>2, <1>3, <1>4, RowsRewritten
<1>8. RecordTypes'
  BY <1>1, <1>4, <1>5, <1>6, <1>7 DEF RecordTypes
<1>9. RowsOrdered'
  BY <1>1, <1>2, <1>3, RowsDenied
<1>10. LateSerials' = LateSerials
  BY DEF LateSerials
<1>11. NodeSound'
  BY <1>1, <1>2, <1>3, <1>10 DEF NodeSound, PythonFenced, KeepsOne, Live
<1>12. RenewalSound'
  BY <1>1, <1>2, <1>3, <1>4, <1>5, <1>6, <1>7, <1>10 DEF RenewalSound
<1> QED
  BY <1>2, <1>3, <1>4, <1>5, <1>6, <1>8, <1>9, <1>11, <1>12, RewriteKeeps

LEMMA RevocationKeeps ==
  ASSUME Bounds, CertInv, RevokeDenied \/ \E s \in Serials : RevokeSerial(s)
  PROVE  CertInv'
<1>1. RecordTypes /\ ApprovalSound /\ RenewalSound
  BY DEF CertInv
<1>2. Idle \in Thread /\ Idle.pc = "idle"
  BY Numbers
<1>3. PICK s \in ca.signed :
        /\ \/ ca' = [ca EXCEPT !.revoked = @ \cup {s}] /\ Confirmed(s)
           \/ UNCHANGED <<ca, certs, intent>>
        /\ UNCHANGED <<node, enr, approval>> /\ revoking' \subseteq revoking /\ renewal' \in {renewal, Idle}
  BY <1>1 DEF RevokeDenied, RevokeSerial, RenewalSound, RecordTypes
<1>4. CASE UNCHANGED <<ca, certs, intent>>
  <2>1. Recorded' = Recorded /\ Issuing' = Issuing /\ LateSerials' = LateSerials /\ InRotation' = InRotation
    BY <1>3, <1>4 DEF Recorded, Issuing, LateSerials, InRotation
  <2>2. RecordTypes' /\ ApprovalSound' /\ RenewalSound'
    BY <1>1, <1>2, <1>3, <1>4, <2>1 DEF RecordTypes, ApprovalSound, RenewalSound
  <2> QED
    BY <1>2, <1>3, <1>4, <2>1, <2>2, ThreadKeeps
<1> QED
  BY <1>3, <1>4, ConfirmedKeeps

LEMMA ActivateKeeps ==
  ASSUME Bounds, CertInv, NEW c \in certs, Activate(c)
  PROVE  CertInv'
<1> DEFINE f == [d \in certs |-> IF d = c THEN [d EXCEPT !.state = "active"]
                                 ELSE IF Superseded(c, d) THEN [d EXCEPT !.state = "revoked"] ELSE d]
<1>1. RecordTypes /\ RowsKnown /\ RowsOrdered /\ NodeSound /\ RenewalSound
  BY DEF CertInv
<1>2. /\ renewal.pc = "idle" /\ node.state = "active" /\ c.state = "staged"
      /\ certs' = {f[d] : d \in certs}
      /\ UNCHANGED <<node, enr, intent, ca, approval, renewal, revoking, crashes>>
  BY DEF Activate
<1>3. f \in [certs -> Certificate]
  BY <1>1 DEF RecordTypes, Certificate
<1>4. \A d \in certs : /\ f[d].serial = d.serial /\ f[d].generation = d.generation /\ f[d].owner = d.owner
                       /\ d = c => f[d].state = "active"
                       /\ d # c /\ d.generation < c.generation => f[d].state = "revoked"
                       /\ d # c /\ ~ (d.generation < c.generation) => f[d] = d
  BY <1>1 DEF RecordTypes, Certificate, Superseded
<1> HIDE DEF f
<1>5. certs' \subseteq Certificate /\ Recorded' = Recorded
  BY <1>1, <1>2, <1>3, <1>4, RowsRewritten
<1>6. LateSerials' = LateSerials /\ InRotation' = InRotation
  BY <1>2 DEF LateSerials, InRotation
<1>7. RecordTypes'
  BY <1>1, <1>2, <1>5 DEF RecordTypes
<1>8. RowsOrdered'
  <2>1. \A d \in certs : f[d].state # "staged"
    BY <1>1, <1>2, <1>4 DEF RowsOrdered
  <2>2. ASSUME NEW d \in certs, NEW b \in certs, f[d].state = "active", f[b].state = "active", d # b
        PROVE  d.serial \in LateSerials \/ b.serial \in LateSerials
    <3>1. CASE d # c /\ b # c
      BY <1>1, <1>4, <2>2, <3>1 DEF RowsOrdered
    <3>2. CASE d = c
      BY <1>1, <1>2, <1>4, <2>2, <3>2 DEF RowsOrdered
    <3>3. CASE b = c
      BY <1>1, <1>2, <1>4, <2>2, <3>3 DEF RowsOrdered
    <3> QED
      BY <3>1, <3>2, <3>3
  <2> QED
    BY <1>2, <1>4, <1>6, <2>1, <2>2 DEF RowsOrdered
<1>9. NodeSound'
  BY <1>1, <1>2, <1>4, <1>6 DEF NodeSound, PythonFenced, KeepsOne, Live
<1>10. RenewalSound'
  BY <1>2 DEF RenewalSound
<1> QED
  BY <1>2, <1>3, <1>4, <1>6, <1>7, <1>8, <1>9, <1>10, RewriteKeeps

LEMMA NegotiateKeeps ==
  ASSUME Bounds, CertInv, NEW c \in certs, Negotiate(c)
  PROVE  CertInv'
<1> DEFINE f == [d \in certs |-> IF d # c /\ Live(d) THEN [d EXCEPT !.state = "revoked"] ELSE d]
           g == [d \in certs |-> d]
<1>1. RecordTypes /\ RowsKnown /\ RowsOrdered /\ NodeSound /\ RenewalSound
  BY DEF CertInv
<1>2. /\ node.state = "active" /\ c.state = "active" /\ c.owner = "rust"
      /\ node' = [node EXCEPT !.implementation = "rust"]
      /\ UNCHANGED <<enr, intent, ca, approval, renewal, revoking, crashes>>
      /\ \/ node.implementation = "pending" /\ certs' = certs
         \/ certs' = {f[d] : d \in certs}
  BY DEF Negotiate, Fenced
<1>3. node' \in Node /\ node'.state = "active" /\ node'.implementation = "rust"
  BY <1>1, <1>2 DEF RecordTypes, Node
<1>4. LateSerials' = LateSerials /\ InRotation' = InRotation
  BY <1>2 DEF LateSerials, InRotation
<1>5. PICK h \in [certs -> Certificate] :
        /\ certs' = {h[d] : d \in certs} /\ h[c] = c
        /\ \A d \in certs : /\ h[d].serial = d.serial /\ h[d].generation = d.generation /\ h[d].owner = d.owner
                            /\ h[d].state \in {d.state, "revoked"}
                            /\ d.owner = "python" => ~ Live(h[d])
  <2>1. CASE node.implementation = "pending" /\ certs' = certs
    <3>1. g \in [certs -> Certificate] /\ certs' = {g[d] : d \in certs} /\ \A d \in certs : d.owner = "rust"
      BY <1>1, <2>1 DEF RecordTypes, NodeSound
    <3> QED
      BY <3>1, Zenon
  <2>2. CASE certs' = {f[d] : d \in certs}
    <3>1. f \in [certs -> Certificate]
      BY <1>1 DEF RecordTypes, Certificate
    <3>2. f[c] = c /\ \A d \in certs : /\ f[d].serial = d.serial /\ f[d].generation = d.generation /\ f[d].owner = d.owner
                                       /\ f[d].state \in {d.state, "revoked"}
                                       /\ d.owner = "python" => ~ Live(f[d])
      BY <1>1, <1>2 DEF RecordTypes, Certificate, Live
    <3> QED
      BY <2>2, <3>1, <3>2, Zenon
  <2> QED
    BY <1>2, <2>1, <2>2
<1>6. certs' \subseteq Certificate /\ Recorded' = Recorded
  BY <1>1, <1>2, <1>5, RowsRewritten
<1>7. RecordTypes'
  BY <1>1, <1>2, <1>3, <1>6 DEF RecordTypes
<1>8. RowsOrdered'
  BY <1>1, <1>2, <1>5, RowsDenied
<1>9. NodeSound'
  BY <1>1, <1>2, <1>3, <1>4, <1>5 DEF NodeSound, PythonFenced, KeepsOne
<1>10. RenewalSound'
  BY <1>1, <1>2, <1>4, <1>5, <1>6 DEF RenewalSound
<1> QED
  BY <1>2, <1>3, <1>4, <1>5, <1>7, <1>8, <1>9, <1>10, RewriteKeeps

LEMMA RevokeNodeKeeps ==
  ASSUME Bounds, CertInv, RevokeNode
  PROVE  CertInv'
<1> DEFINE f == [c \in certs |-> [c EXCEPT !.state = "revoked"]]
<1>1. RecordTypes /\ RowsKnown /\ RowsOrdered /\ NodeSound /\ RenewalSound
  BY DEF CertInv
<1>2. /\ node.state # "absent" /\ node' = [node EXCEPT !.state = "retired"]
      /\ certs' = {f[c] : c \in certs}
      /\ revoking' = {c.serial : c \in {d \in certs : ~d.caRevoked}}
      /\ UNCHANGED <<enr, intent, ca, approval, renewal, crashes>>
  BY DEF RevokeNode, Retired
<1>3. node' \in Node /\ node'.state = "retired" /\ node'.implementation = node.implementation
  BY <1>1, <1>2 DEF RecordTypes, Node
<1>4. LateSerials' = LateSerials /\ InRotation' = InRotation
  BY <1>2 DEF LateSerials, InRotation
<1>5. /\ f \in [certs -> Certificate]
      /\ \A c \in certs : /\ f[c].serial = c.serial /\ f[c].generation = c.generation /\ f[c].owner = c.owner
                          /\ f[c].state = "revoked"
  BY <1>1 DEF RecordTypes, Certificate
<1> HIDE DEF f
<1>6. certs' \subseteq Certificate /\ Recorded' = Recorded
  BY <1>1, <1>2, <1>5, RowsRewritten
<1>7. revoking' \subseteq ca.signed
  BY <1>1, <1>2 DEF RowsKnown, Recorded
<1>8. RecordTypes'
  BY <1>1, <1>2, <1>3, <1>6, <1>7 DEF RecordTypes
<1>9. RowsOrdered'
  BY <1>1, <1>2, <1>5, RowsDenied
<1>10. NodeSound'
  BY <1>1, <1>2, <1>3, <1>5 DEF NodeSound, PythonFenced, KeepsOne, Live
<1>11. RenewalSound'
  BY <1>1, <1>2, <1>4, <1>5, <1>6 DEF RenewalSound
<1> QED
  BY <1>2, <1>3, <1>4, <1>5, <1>8, <1>9, <1>10, <1>11, RewriteKeeps

LEMMA CertInvKept ==
  ASSUME Bounds, CertInv, [EnrollmentNext]_enrollmentVars
  PROVE  CertInv'
<1>1. CASE UNCHANGED enrollmentVars
  <2>1. /\ node' = node /\ certs' = certs /\ enr' = enr /\ intent' = intent /\ ca' = ca
        /\ approval' = approval /\ renewal' = renewal /\ revoking' = revoking /\ crashes' = crashes
    BY <1>1 DEF enrollmentVars
  <2>2. RecordTypes' /\ RowsKnown'
    BY <2>1 DEF CertInv, RecordTypes, RowsKnown, Recorded
  <2>3. RowsOrdered'
    BY <2>1 DEF CertInv, RowsOrdered, LateSerials
  <2>4. NodeSound'
    BY <2>1 DEF CertInv, NodeSound, LateSerials, PythonFenced, KeepsOne, Live
  <2>5. ApprovalSound' /\ Unnamed'
    BY <2>1 DEF CertInv, ApprovalSound, Unnamed, Recorded, Issuing
  <2>6. RenewalSound'
    BY <2>1 DEF CertInv, RenewalSound, Recorded, LateSerials
  <2>7. Accounted'
    BY <2>1 DEF CertInv, Accounted, Recorded, Issuing, InRotation, ToSign
  <2> QED
    BY <2>2, <2>3, <2>4, <2>5, <2>6, <2>7 DEF CertInv
<1>2. ASSUME NEW e \in Requests,
             \/ \E purpose \in {"new-node", "rust-migration"} : Create(e, purpose)
             \/ Submit(e) \/ Reject(e)
      PROVE  CertInv'
  <2>1. enr \in [Requests -> EnrollmentRow] /\ Unnamed
    BY DEF CertInv, RecordTypes
  <2>2. CASE \E purpose \in {"new-node", "rust-migration"} : Create(e, purpose)
    <3>1. PICK purpose \in {"new-node", "rust-migration"} : Create(e, purpose)
      BY <2>2
    <3> DEFINE row == [state |-> "granted", purpose |-> purpose, serial |-> 0]
    <3>2. row \in EnrollmentRow /\ row.state = "granted" /\ row.serial = 0
      BY DEF EnrollmentRow, Bounds
    <3> QED
      BY <3>1, <3>2, EnrolmentKeeps, Zenon DEF Create
  <2>3. ASSUME NEW state \in {"pending-approval", "consumed", "rejected"},
               enr[e].state \in {"granted", "pending-approval"}, enr' = [enr EXCEPT ![e].state = state],
               UNCHANGED <<node, certs, intent, ca, approval, renewal, revoking, crashes>>
        PROVE  CertInv'
    <3> DEFINE row == [enr[e] EXCEPT !.state = state]
    <3>1. row \in EnrollmentRow /\ row.state = state /\ row.serial = 0
      BY <2>1, <2>3 DEF EnrollmentRow, Unnamed
    <3>2. enr' = [enr EXCEPT ![e] = row]
      BY <2>1, <2>3
    <3> HIDE DEF row
    <3> QED
      BY <2>3, <3>1, <3>2, EnrolmentKeeps, Zenon
  <2>4. CASE Submit(e)
    BY <2>3, <2>4, Zenon DEF Submit
  <2>5. CASE Reject(e)
    BY <2>3, <2>5 DEF Reject
  <2> QED
    BY <1>2, <2>2, <2>4, <2>5
<1> QED
  BY <1>1, <1>2, ClaimIssuanceKeeps, IssueNodeKeeps, CheckIssuedKeeps, PersistIssuedKeeps, ClaimRotationKeeps,
     ActivateKeeps, NegotiateKeeps, RenewNodeKeeps, PersistRotationKeeps, MarkUncertainKeeps, RevocationKeeps,
     RevokeNodeKeeps, CrashKeeps DEF EnrollmentNext

\* Whatever overlaps, fails or dies, every certificate that was signed is
\* accounted for, generations are ordered, old certificates of a migrated or
\* revoked node are refused, and a node in use keeps one (EnrollmentService).
THEOREM CertificateSafety ==
  ASSUME MaxSerial \in Nat \ {0}, IsFiniteSet(Requests)
  PROVE  EnrollmentSpec => []CertificatesAccounted
<1>1. Bounds
  BY DEF Bounds
<1>2. EnrollmentInit => CertInv
  BY <1>1, CertInitially
<1>3. CertInv /\ [EnrollmentNext]_enrollmentVars => CertInv'
  BY <1>1, CertInvKept
<1>4. CertInv => CertificatesAccounted
  BY <1>1, CertInvSound
<1> QED
  BY <1>2, <1>3, <1>4, PTL DEF EnrollmentSpec
=============================================================================
