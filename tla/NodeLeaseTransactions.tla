----------------------- MODULE NodeLeaseTransactions ------------------------
(***************************************************************************)
(* The transactions behind the node mutation leases                        *)
(* (control/src/vonk_control/node_leases.py).                              *)
(*                                                                         *)
(* Each call of the service is a sequence of SQL statements inside its     *)
(* caller's transaction, and transactions of different owners interleave.  *)
(* SELECT ... FOR UPDATE takes the rows that existed when the statement    *)
(* began, in the order of the nodes, waits for rows that another           *)
(* transaction has locked and drops rows that were removed meanwhile.      *)
(* INSERT ... ON CONFLICT DO NOTHING inserts in the same order, waits for  *)
(* rows that another transaction is inserting and skips nodes that have a  *)
(* committed row.  These rules are PostgreSQL's at READ COMMITTED; which   *)
(* statements run, and what is decided from their results, is the code's.  *)
(***************************************************************************)
EXTENDS Naturals, FiniteSets

CONSTANTS
  Nodes,      \* agent nodes
  Owners,     \* reconciliations and update rollouts
  Targets,    \* the nodes an owner mutates
  MaxFence    \* bound: no acquisition begins after so many groups

ASSUME TransactionsAssumption ==
  /\ Nodes \subseteq Nat
  /\ Targets \in [Owners -> (SUBSET Nodes) \ {{}}]
  /\ MaxFence \in Nat

VARIABLES
  lease,    \* committed rows
  fences,   \* number of fences issued so far
  step,     \* where an owner's transaction is
  call,     \* the method it runs
  ahead,    \* rows the running SELECT has still to lock, as pairs <<node, row>>
  rows,     \* rows it has read and locked, as pairs <<node, row>>
  todo,     \* nodes the running INSERT has still to try
  mine      \* nodes it has inserted, not yet committed

vars == <<lease, fences, step, call, ahead, rows, todo, mine>>

Promise == INSTANCE NodeLeases

NoLease == Promise!NoLease

Calls == {"acquire", "mark", "release"}

Init ==
  /\ Promise!Init
  /\ step = [o \in Owners |-> "idle"]
  /\ call = [o \in Owners |-> "acquire"]
  /\ ahead = [o \in Owners |-> {}]
  /\ rows = [o \in Owners |-> {}]
  /\ todo = [o \in Owners |-> {}]
  /\ mine = [o \in Owners |-> {}]

-----------------------------------------------------------------------------
LockedNodes(o) == {r[1] : r \in rows[o]}

\* Fault: rows are locked and inserted in the order the caller names them.
AnyOrder(S, n) == n \in S

First(S, n) == n \in S /\ \A m \in S : n <= m

\* _matching_grant and owned_grant_in_session: the rows are the owner's whole
\* group, under one fence and in the given state.
IsGroup(o, read, state) ==
  /\ {r[1] : r \in read} = Targets[o]
  /\ \A r \in read : r[2].owner = o /\ r[2].state = state
  /\ \A r, s \in read : r[2].fence = s[2].fence

\* The transaction ends; its locks and snapshots are gone.
Ended(o) ==
  /\ step' = [step EXCEPT ![o] = "idle"]
  /\ ahead' = [ahead EXCEPT ![o] = {}]
  /\ rows' = [rows EXCEPT ![o] = {}]
  /\ todo' = [todo EXCEPT ![o] = {}]
  /\ mine' = [mine EXCEPT ![o] = {}]
  /\ UNCHANGED call

\* The first statement of every method, _rows, takes its snapshot.
Begin(o, c) ==
  /\ step[o] = "idle"
  /\ c = "acquire" => fences < MaxFence
  /\ step' = [step EXCEPT ![o] = "lock"]
  /\ call' = [call EXCEPT ![o] = c]
  /\ ahead' = [ahead EXCEPT ![o] =
       {<<n, lease[n]>> : n \in {m \in Targets[o] : lease[m] # NoLease}}]
  /\ UNCHANGED <<lease, fences, rows, todo, mine>>

\* The next row of the snapshot: wait for its lock, take its current version,
\* drop it when the row of the snapshot has been removed.
LockRow(o, r) ==
  /\ step[o] = "lock"
  /\ r \in ahead[o] /\ First({s[1] : s \in ahead[o]}, r[1])
  /\ \A p \in Owners \ {o} : r[1] \notin LockedNodes(p)
  /\ ahead' = [ahead EXCEPT ![o] = @ \ {r}]
  /\ rows' = [rows EXCEPT ![o] =
       IF lease[r[1]] # NoLease /\ lease[r[1]].fence = r[2].fence
       THEN @ \cup {<<r[1], lease[r[1]]>>} ELSE @]
  /\ UNCHANGED <<lease, fences, step, call, todo, mine>>

\* acquire_in_session after _rows: the group is held already, or some row
\* exists (NodeLeaseConflict), or the INSERT begins.
DecideAcquire(o) ==
  /\ step[o] = "lock" /\ call[o] = "acquire" /\ ahead[o] = {}
  /\ IF rows[o] # {}
     THEN Ended(o)
     ELSE /\ step' = [step EXCEPT ![o] = "insert"]
          /\ todo' = [todo EXCEPT ![o] = Targets[o]]
          /\ UNCHANGED <<call, ahead, rows, mine>>
  /\ UNCHANGED <<lease, fences>>

InsertRow(o, n) ==
  /\ step[o] = "insert"
  /\ First(todo[o], n)
  /\ \A p \in Owners \ {o} : n \notin mine[p]
  /\ todo' = [todo EXCEPT ![o] = @ \ {n}]
  /\ mine' = [mine EXCEPT ![o] = IF lease[n] = NoLease THEN @ \cup {n} ELSE @]
  /\ UNCHANGED <<lease, fences, step, call, ahead, rows>>

\* Fault: the rows of an incomplete group are not taken back.
CommitWhatWasInserted(o) ==
  /\ step[o] = "insert" /\ todo[o] = {}
  /\ lease' = [n \in Nodes |->
       IF n \in mine[o] THEN [owner |-> o, fence |-> fences + 1, state |-> "held"]
       ELSE lease[n]]
  /\ fences' = fences + 1
  /\ Ended(o)

\* All rows were inserted and the transaction commits, or some node was taken:
\* the inserted rows are deleted again and NodeLeaseConflict is raised.
CommitAcquire(o) ==
  /\ step[o] = "insert" /\ todo[o] = {}
  /\ IF mine[o] = Targets[o]
     THEN /\ lease' = [n \in Nodes |->
               IF n \in mine[o]
               THEN [owner |-> o, fence |-> fences + 1, state |-> "held"]
               ELSE lease[n]]
          /\ fences' = fences + 1
     ELSE UNCHANGED <<lease, fences>>
  /\ Ended(o)

\* owned_grant_in_session and mark_releasing_in_session
CommitMark(o) ==
  /\ step[o] = "lock" /\ call[o] = "mark" /\ ahead[o] = {}
  /\ IF IsGroup(o, rows[o], "held")
     THEN lease' = [n \in Nodes |->
            IF n \in LockedNodes(o) THEN [lease[n] EXCEPT !.state = "releasing"]
            ELSE lease[n]]
     ELSE UNCHANGED lease
  /\ UNCHANGED fences
  /\ Ended(o)

\* owned_grant_in_session and release_in_session
CommitRelease(o) ==
  /\ step[o] = "lock" /\ call[o] = "release" /\ ahead[o] = {}
  /\ IF IsGroup(o, rows[o], "releasing")
     THEN lease' = [n \in Nodes |-> IF n \in LockedNodes(o) THEN NoLease ELSE lease[n]]
     ELSE UNCHANGED lease
  /\ UNCHANGED fences
  /\ Ended(o)

\* The process dies or the caller's transaction fails elsewhere.
Rollback(o) ==
  /\ step[o] # "idle"
  /\ Ended(o)
  /\ UNCHANGED <<lease, fences>>

\* One statement or commit of the owner's open transaction.
Advance(o) ==
  \/ \E r \in ahead[o] : LockRow(o, r)
  \/ DecideAcquire(o)
  \/ \E n \in todo[o] : InsertRow(o, n)
  \/ CommitAcquire(o)
  \/ CommitMark(o)
  \/ CommitRelease(o)

Next ==
  \E o \in Owners :
    \/ \E c \in Calls : Begin(o, c)
    \/ Advance(o)
    \/ Rollback(o)

Spec == Init /\ [][Next]_vars

\* Strong fairness: PostgreSQL wakes a waiting transaction when the one that
\* holds its row ends, so a row that is free again and again is obtained.
Fairness == \A o \in Owners : SF_vars(Advance(o))
FairSpec == Spec /\ Fairness

-----------------------------------------------------------------------------
TypeOK ==
  /\ Promise!TypeOK
  /\ step \in [Owners -> {"idle", "lock", "insert"}]
  /\ call \in [Owners -> Calls]
  /\ ahead \in [Owners -> SUBSET (Nodes \X Promise!Leases)]
  /\ rows \in [Owners -> SUBSET (Nodes \X Promise!Leases)]
  /\ todo \in [Owners -> SUBSET Nodes]
  /\ mine \in [Owners -> SUBSET Nodes]

\* What a transaction has read under lock is still what is committed when it
\* acts on it, and a node it is inserting is still free: no other owner gets in
\* between the check of _rows and the write that relies on it.
ReadsAreCurrent ==
  \A o \in Owners :
    /\ \A r \in rows[o] : lease[r[1]] = r[2]
    /\ \A n \in mine[o] : lease[n] = NoLease

\* The interleaved transactions do what the atomic leases promise.
Promised == Promise!Spec

\* No committed state has part of a group (see NodeLeases), although an
\* acquisition inserts its rows one by one and may find some of them taken.
GroupWhole == Promise!GroupWhole

\* A node changes hands only through a release that was announced.
NoStolenLease == Promise!NoStolenLease

\* Every transaction that is begun ends: the node order in which rows are locked
\* and inserted leaves no cycle of transactions that wait for each other.
TransactionsEnd ==
  \A o \in Owners : []<>(step[o] = "idle")

=============================================================================
