---------------------------- MODULE PackageStore ----------------------------
(***************************************************************************)
(* The content store of a node's package engine (packages/store.py) and    *)
(* the acquisition that fills it (packages/fetch.py).                      *)
(*                                                                         *)
(* A component is downloaded into a partial file, verified, and renamed    *)
(* into the verified namespace.  A row says who owns the download, how     *)
(* many bytes were written and the change time of the file; a reservation  *)
(* accounts for the bytes still to come.  Every call names the operation   *)
(* and the attempt it works for: a newer attempt of an operation fences    *)
(* the older one, another operation shares a download in progress or       *)
(* adopts an abandoned one.                                                *)
(*                                                                         *)
(* Transactions of the database are atomic; the files are changed between  *)
(* or inside them, a change of a file may fail half way, and the process   *)
(* may die anywhere.  Opening the store runs _recover, which may refuse.   *)
(***************************************************************************)
EXTENDS Integers, FiniteSets

CONSTANTS
    Ops,        \* operations that fetch
    Digests,    \* components
    Size,       \* the size of every component, in chunks
    Capacity,   \* the capacity of the store, in chunks
    MaxAttempts,   \* attempts per operation
    Sources,    \* mirrors per component
    MaxNames,   \* how many partial files a component may use up
    MaxCrashes, \* how often the process dies
    MaxErrors   \* how often a change of a file fails

ASSUME StoreAssumption ==
    /\ IsFiniteSet(Ops) /\ IsFiniteSet(Digests)
    /\ Size \in Nat /\ Capacity \in Nat /\ MaxAttempts \in Nat
    /\ Sources \in Nat \ {0} /\ MaxNames \in Nat \ {0}
    /\ MaxCrashes \in Nat /\ MaxErrors \in Nat

VARIABLES
    attempt,    \* operations.attempt of every operation, 0 before the first
    reservation, \* the reservation of every operation: chunks, or None
    component,  \* the components table
    partial,    \* the partials table
    file,       \* the file a partials row names
    object,     \* the components in the verified namespace: "none", "good" or "bad"
    process,    \* the fetches: one per operation and attempt
    store,      \* "open", "closed" after a crash, "refused" when it cannot be opened
    crashes     \* crashes and failures so far, the step at which a file and its row last parted, and
                \* the promotions recorded after their reservation was dropped

storeVars == <<attempt, reservation, component, partial, file, object, process, store, crashes>>

None == -1
Procs == Ops \X (1 .. MaxAttempts)

\* The rows of the database, the files and the fetches in progress.
ComponentRow == [state : {"absent", "partial", "complete"}, owner : Procs \cup {<<>>}]
PartialRow == [owner : Procs \cup {<<>>}, name : 0 .. MaxNames, written : 0 .. Size, current : BOOLEAN]
File == [there : BOOLEAN, size : 0 .. Size, good : BOOLEAN, sealed : BOOLEAN]
Waiting == {"begin", "wait", "source", "open", "stream", "wrote", "verify", "sealed", "renamed",
            "moved", "created", "release"}
Process == [pc : {"idle", "lookup", "reserve", "done", "failed", "dead"} \cup Waiting, digest : Digests,
            name : 0 .. MaxNames, source : 0 .. Sources, held : {None, 0, Size}, next : {"source", "stream", "done", "failed"}]

NoPartial == [owner |-> <<>>, name |-> 0, written |-> 0, current |-> TRUE]
NoFile == [there |-> FALSE, size |-> 0, good |-> TRUE, sealed |-> FALSE]
EmptyFile == [NoFile EXCEPT !.there = TRUE]

\* A fetch of a component; one that has ended remembers no more than that.
Fetch(d, step) == [pc |-> step, digest |-> d, name |-> 0, source |-> 0, held |-> None, next |-> "failed"]

StoreInit ==
    /\ attempt = [o \in Ops |-> 0]
    /\ reservation = [o \in Ops |-> None]
    /\ component = [d \in Digests |-> [state |-> "absent", owner |-> <<>>]]
    /\ partial = [d \in Digests |-> NoPartial]
    /\ file = [d \in Digests |-> NoFile]
    /\ object = [d \in Digests |-> "none"]
    /\ \E wants \in [Ops -> Digests] :
         process = [p \in Procs |-> Fetch(wants[p[1]], "idle")]
    /\ store = "open"
    /\ crashes = [count |-> 0, errors |-> 0, window |-> "none", unpaid |-> {}]

-----------------------------------------------------------------------------
(* The checks every call starts with.                                      *)

\* PackageState.assert_binding: the attempt is the latest one of its operation.
Bound(p) == attempt[p[1]] = p[2]

\* A write transaction is open while a chunk is on its way (BEGIN IMMEDIATE):
\* no other call gets to the database.
Unlocked(p) == store = "open" /\ \A q \in Procs \ {p} : process[q].pc # "wrote"

\* _open_partial: the file the row names exists, is private and unchanged.
Openable(d) == file[d].there /\ ~file[d].sealed /\ partial[d].current

\* _partial_row, _refresh_record: the row is still this fetch's.
Owns(p) == LET d == process[p].digest
           IN Bound(p) /\ partial[d].owner = p /\ partial[d].name = process[p].name /\ partial[d].name > 0

To(p, step) ==
    process' = [process EXCEPT ![p] =
        IF step \in {"done", "failed"} THEN Fetch(@.digest, step) ELSE [@ EXCEPT !.pc = step]]
Goto(p, step, next) == process' = [process EXCEPT ![p].pc = step, ![p].next = next]

\* The bytes of the verified components, and of all reservations: every chunk
\* that some operation has reserved.
Committed == Size * Cardinality({d \in Digests : component[d].state = "complete"})
Reserved(r) == Cardinality({c \in Ops \X (1 .. Size) : c[2] <= r[c[1]]})

\* The operations that hold a reservation for the component they own.
Pledged == {o \in Ops : /\ reservation[o] = Size
                        /\ \E d \in Digests : component[d].state = "partial" /\ component[d].owner = <<o, attempt[o]>>}

-----------------------------------------------------------------------------
(* AcquisitionEngine.fetch, up to the choice of a source.                  *)

\* An attempt starts to fetch its component; an older attempt may still run.
StartFetch(p) ==
    /\ store = "open"
    /\ process[p].pc = "idle"
    /\ p[2] > 1 => process[<<p[1], p[2] - 1>>].pc # "idle"
    /\ To(p, "lookup")
    /\ UNCHANGED <<attempt, reservation, component, partial, file, object, store, crashes>>

\* lookup: a verified component needs no fetch.
Lookup(p) ==
    LET d == process[p].digest
    IN /\ process[p].pc = "lookup"
       /\ Unlocked(p)
       /\ \/ component[d].state # "complete" /\ To(p, "reserve")
          \/ component[d].state = "complete" /\ object[d] = "good" /\ To(p, "done")
       /\ UNCHANGED <<attempt, reservation, component, partial, file, object, store, crashes>>

\* PackageState.begin_operation: a newer attempt drops the reservation of the
\* older one.
BeginOperation(p) == [reservation EXCEPT ![p[1]] = IF p[2] > attempt[p[1]] THEN None ELSE @]

\* A faulty variant: the reservations of the other operations are not counted.
Fits_Faulty(r) == Committed + Size <= Capacity

\* The capacity check of reserve_component.
Fits(r) == Committed + Reserved(r) + Size <= Capacity

\* The reservation for a partial that changes hands: the whole component.
Adopted(d) == Size

\* reserve_component: a new component gets its rows and its partial file, one
\* that another operation is fetching is shared without a reservation, and one
\* whose owner holds no reservation any more changes hands.
Reserve(p) ==
    LET d == process[p].digest
        o == p[1]
        r == BeginOperation(p)
        Charge(n) == reservation' = [r EXCEPT ![o] = n] /\ process' = [process EXCEPT ![p].pc = "begin", ![p].held = n]
        Keep == UNCHANGED <<component, partial, file>>
    IN /\ process[p].pc = "reserve"
       /\ Unlocked(p)
       /\ \/ /\ p[2] < attempt[o]
             /\ To(p, "failed")
             /\ UNCHANGED <<attempt, reservation>> /\ Keep
          \/ /\ p[2] >= attempt[o]
             /\ attempt' = [attempt EXCEPT ![o] = p[2]]
             /\ \/ r[o] # None /\ Charge(r[o]) /\ Keep
                \/ /\ r[o] = None
                   /\ \/ component[d].state = "complete"
                      \/ component[d].state = "partial" /\ r[component[d].owner[1]] # None
                   /\ Charge(0)
                   /\ Keep
                \/ /\ r[o] = None
                   /\ component[d].state = "partial" /\ r[component[d].owner[1]] = None
                   /\ Fits(r)
                   /\ Charge(Adopted(d))
                   /\ component' = [component EXCEPT ![d].owner = p]
                   /\ partial' = [partial EXCEPT ![d].owner = p]
                   /\ UNCHANGED file
                \/ /\ r[o] = None
                   /\ component[d].state = "absent"
                   /\ Fits(r)
                   /\ Charge(Size)
                   /\ component' = [component EXCEPT ![d] = [state |-> "partial", owner |-> p]]
                   /\ partial' = [partial EXCEPT ![d] = [NoPartial EXCEPT !.owner = p, !.name = 1]]
                   /\ file' = [file EXCEPT ![d] = EmptyFile]
                \/ /\ r[o] = None
                   /\ \/ component[d].state = "absent"
                      \/ component[d].state = "partial" /\ r[component[d].owner[1]] = None
                   /\ ~Fits(r)
                   /\ reservation' = r
                   /\ To(p, "failed")
                   /\ Keep
       /\ UNCHANGED <<object, store, crashes>>

\* begin_component, called once to learn what kind of fetch this is and again
\* before every source: the reservation is checked, an older attempt's partial
\* adopted.  Only the later calls release the reservation when they fail.
Begin(p) ==
    LET d == process[p].digest
        first == process[p].pc = "begin"
        own == component[d].state = "partial" /\ partial[d].owner[1] = p[1] /\ partial[d].owner[2] <= p[2]
        valid == /\ Bound(p) /\ reservation[p[1]] = process[p].held
                 /\ own => partial[d].owner = p \/ Openable(d)
    IN /\ \/ first
          \/ process[p].pc = "source" /\ process[p].source < Sources
       /\ Unlocked(p)
       /\ \/ /\ ~valid
             /\ IF first \/ ~Bound(p) THEN To(p, "failed") ELSE Goto(p, "release", "failed")
             /\ UNCHANGED <<component, partial>>
          \/ /\ valid /\ component[d].state = "complete"
             /\ Goto(p, "release", "done")
             /\ UNCHANGED <<component, partial>>
          \/ /\ valid /\ own
             /\ partial' = [partial EXCEPT ![d].owner = p]
             /\ component' = [component EXCEPT ![d].owner = p]
             /\ process' = [process EXCEPT ![p].name = partial[d].name, ![p].source = @ + 1, ![p].pc = "open"]
          \/ /\ valid /\ component[d].state = "partial" /\ ~own
             /\ IF first THEN To(p, "wait") ELSE Goto(p, "release", "failed")
             /\ UNCHANGED <<component, partial>>
       /\ UNCHANGED <<attempt, reservation, file, object, store, crashes>>

\* Every source was tried.
GiveUp(p) ==
    /\ process[p].pc = "source" /\ process[p].source = Sources
    /\ Goto(p, "release", "failed")
    /\ UNCHANGED <<attempt, reservation, component, partial, file, object, store, crashes>>

\* wait_for_component: the owner promotes the component, or thirty seconds pass.
Wait(p) ==
    /\ process[p].pc = "wait"
    /\ Unlocked(p)
    /\ \/ component[process[p].digest].state = "complete" /\ Goto(p, "release", "done")
       \/ Goto(p, "release", "failed")
    /\ UNCHANGED <<attempt, reservation, component, partial, file, object, store, crashes>>

\* The row release_reservation deletes.
Released(p) == [reservation EXCEPT ![p[1]] = None]

\* release_reservation, the finally of a fetch.
Release(p) ==
    /\ process[p].pc = "release"
    /\ Unlocked(p)
    /\ IF Bound(p) /\ reservation[p[1]] \in {None, process[p].held}
       THEN reservation' = Released(p) /\ To(p, process[p].next)
       ELSE To(p, "failed") /\ UNCHANGED reservation
    /\ UNCHANGED <<attempt, component, partial, file, object, store, crashes>>

-----------------------------------------------------------------------------
(* _from_source: one mirror.                                               *)

\* A call of the store fails: with a lost fence the fetch ends, and so it does
\* when the error is not one of the acquisition's own.
Broken(p) == Goto(p, "release", "failed")

\* A file was changed and the call failed before its row was: the row is as it
\* was, and names a file that is not the recorded one any more.
Parted(step) ==
    /\ crashes.errors < MaxErrors
    /\ crashes' = [crashes EXCEPT !.errors = @ + 1, !.window = step]

\* The partial is hashed and the source asked for the rest.  It continues it,
\* starts over (the partial is moved to quarantine), declares another size
\* (the same, and the next source is tried) or fails.
Open(p) ==
    LET d == process[p].digest
    IN /\ process[p].pc = "open"
       /\ Unlocked(p)
       /\ IF ~(Owns(p) /\ Openable(d)) THEN Broken(p) /\ UNCHANGED file
          ELSE \/ To(p, "stream") /\ UNCHANGED file
               \/ Goto(p, "source", "source") /\ UNCHANGED file
               \/ /\ partial[d].name < MaxNames
                  /\ \E next \in {"stream", "source"} : Goto(p, "moved", next)
                  /\ file' = [file EXCEPT ![d] = NoFile]
       /\ UNCHANGED <<attempt, reservation, component, partial, object, store, crashes>>

\* _reset_partial, after the rename into quarantine: a new file is created, or
\* cannot be: the error ends the fetch, or the source when it is met in the
\* stream ...
Recreate(p) ==
    /\ process[p].pc = "moved" /\ store = "open"
    /\ \/ To(p, "created") /\ UNCHANGED crashes
       \/ Broken(p) /\ Parted("moved")
       \/ process[p].next = "source" /\ Goto(p, "source", "source") /\ Parted("moved")
    /\ UNCHANGED <<attempt, reservation, component, partial, file, object, store>>

\* ... and the row made to name it, if it is still this fetch's: otherwise the
\* row keeps the name of a file that is gone.
Renamed(p) ==
    LET d == process[p].digest
    IN /\ process[p].pc = "created"
       /\ Unlocked(p)
       /\ IF Owns(p)
          THEN /\ partial' = [partial EXCEPT ![d].name = @ + 1, ![d].written = 0, ![d].current = TRUE]
               /\ file' = [file EXCEPT ![d] = EmptyFile]
               /\ process' = [process EXCEPT ![p].pc = process[p].next, ![p].name = @ + 1]
               /\ UNCHANGED crashes
          ELSE Broken(p) /\ crashes' = [crashes EXCEPT !.window = "created"] /\ UNCHANGED <<partial, file>>
       /\ UNCHANGED <<attempt, reservation, component, object, store>>

\* write_partial's checks: the fence, the row, the offset, the file itself.
Writable(p) == Owns(p) /\ Openable(process[p].digest)

\* The source sends a chunk, the right one or another: write_partial puts it
\* into the file inside its transaction.  Or the source ends early, fails, or
\* sends more than it declared (the partial goes to quarantine), or the
\* operation is cancelled.
Stream(p) ==
    LET d == process[p].digest
        full == partial[d].written = Size
    IN /\ process[p].pc = "stream"
       /\ Unlocked(p)
       /\ IF ~Writable(p)
          THEN Goto(p, "source", "source") /\ UNCHANGED <<partial, file>>
          ELSE \/ /\ ~full
                  /\ \E good \in BOOLEAN :
                       file' = [file EXCEPT ![d].size = partial[d].written + 1, ![d].good = @ /\ good]
                  /\ partial' = [partial EXCEPT ![d].current = FALSE]
                  /\ To(p, "wrote")
               \/ /\ ~full
                  /\ Goto(p, "source", "source") \/ Goto(p, "release", "failed")
                  /\ UNCHANGED <<partial, file>>
               \/ /\ full /\ partial[d].name < MaxNames
                  /\ Goto(p, "moved", "source")
                  /\ file' = [file EXCEPT ![d] = NoFile]
                  /\ UNCHANGED partial
               \/ full /\ To(p, "verify") /\ UNCHANGED <<partial, file>>
       /\ UNCHANGED <<attempt, reservation, component, object, store, crashes>>

\* The size write_partial records.
Recorded(d) == file[d].size

\* The transaction of write_partial records the size and the change time.  When
\* the write, its fsync or the transaction fails, the row is rolled back, the
\* file is not, and the next source is tried.
Commit(p) ==
    LET d == process[p].digest
    IN /\ process[p].pc = "wrote" /\ store = "open"
       /\ \/ /\ partial' = [partial EXCEPT ![d].written = Recorded(d), ![d].current = TRUE]
             /\ To(p, "stream")
             /\ UNCHANGED crashes
          \/ Goto(p, "source", "source") /\ Parted("wrote") /\ UNCHANGED partial
       /\ UNCHANGED <<attempt, reservation, component, file, object, store>>

-----------------------------------------------------------------------------
(* promote_component.                                                      *)

\* The digest of the bytes, taken by the acquisition and again by the store.
Verified(d) == file[d].size = Size /\ file[d].good

\* The whole component is there: one with the wrong digest goes to quarantine,
\* the right one is made read-only.
Verify(p) ==
    LET d == process[p].digest
    IN /\ process[p].pc = "verify"
       /\ Unlocked(p)
       /\ IF ~Writable(p) THEN Broken(p) /\ UNCHANGED <<partial, file>>
          ELSE \/ /\ ~Verified(d) /\ partial[d].name < MaxNames
                  /\ Goto(p, "moved", "source")
                  /\ file' = [file EXCEPT ![d] = NoFile]
                  /\ UNCHANGED partial
               \/ /\ Verified(d)
                  /\ file' = [file EXCEPT ![d].sealed = TRUE]
                  /\ partial' = [partial EXCEPT ![d].current = FALSE]
                  /\ To(p, "sealed")
       /\ UNCHANGED <<attempt, reservation, component, object, store, crashes>>

\* The file is renamed into the verified namespace.  The fence is not asked.
\* The rename may fail, which leaves the file read-only, and so may the fsync
\* of the directories after it.
Publish(p) ==
    LET d == process[p].digest
    IN /\ process[p].pc = "sealed" /\ store = "open"
       /\ \/ /\ file' = [file EXCEPT ![d] = NoFile]
             /\ object' = [object EXCEPT ![d] = IF file[d].good THEN "good" ELSE "bad"]
             /\ \/ To(p, "renamed") /\ UNCHANGED crashes
                \/ Broken(p) /\ crashes.errors < MaxErrors /\ crashes' = [crashes EXCEPT !.errors = @ + 1]
          \/ Broken(p) /\ Parted("sealed") /\ UNCHANGED <<file, object>>
       /\ UNCHANGED <<attempt, reservation, component, partial, store>>

\* _complete_partial_journal, if the partial is still this fetch's.
Complete(p) ==
    LET d == process[p].digest
    IN /\ process[p].pc = "renamed"
       /\ Unlocked(p)
       /\ IF Bound(p) /\ partial[d].owner = p
          THEN /\ partial' = [partial EXCEPT ![d] = NoPartial]
               /\ component' = [component EXCEPT ![d] = [state |-> "complete", owner |-> <<>>]]
               /\ Goto(p, "release", "done")
          ELSE Broken(p) /\ UNCHANGED <<partial, component>>
       /\ UNCHANGED <<attempt, reservation, file, object, store, crashes>>

-----------------------------------------------------------------------------
(* The process dies and the store is opened again.                         *)

\* The steps at which the file is ahead of its row.
Windows == {"wrote", "sealed", "moved", "created"}

Die ==
    LET struck == {process[p].pc : p \in Procs} \cap Windows
    IN /\ store = "open" /\ crashes.count < MaxCrashes
       /\ process' = [p \in Procs |->
            IF process[p].pc \in {"idle", "done", "failed", "dead"} THEN process[p]
            ELSE Fetch(process[p].digest, "dead")]
       /\ store' = "closed"
       /\ crashes' = [crashes EXCEPT !.count = @ + 1, !.window = IF struck = {} THEN @ ELSE CHOOSE w \in struck : TRUE]
       /\ UNCHANGED <<attempt, reservation, component, partial, file, object>>

\* What _recover accepts of a partial row: its object was already published,
\* or its file is exactly as recorded.
Recoverable(d) == object[d] # "none" \/ Openable(d)

\* _recover: published components are completed, everything else must be as
\* the rows say, or the store cannot be opened.
Recover ==
    LET partials == {d \in Digests : component[d].state = "partial"}
        published == {d \in partials : object[d] # "none"}
    IN /\ store = "closed"
       /\ IF \A d \in partials : Recoverable(d)
          THEN /\ store' = "open"
               /\ component' = [d \in Digests |->
                    IF d \in published THEN [state |-> "complete", owner |-> <<>>] ELSE component[d]]
               /\ partial' = [d \in Digests |-> IF d \in published THEN NoPartial ELSE partial[d]]
               /\ file' = [d \in Digests |-> IF d \in published THEN NoFile ELSE file[d]]
               /\ crashes' = [crashes EXCEPT !.unpaid = @ \cup {d \in published : component[d].owner[1] \notin Pledged}]
          ELSE store' = "refused" /\ UNCHANGED <<component, partial, file, crashes>>
       /\ UNCHANGED <<attempt, reservation, object, process>>

Step(p) == \/ StartFetch(p) \/ Lookup(p) \/ Reserve(p) \/ Begin(p) \/ GiveUp(p) \/ Wait(p) \/ Release(p)
           \/ Open(p) \/ Recreate(p) \/ Renamed(p) \/ Stream(p) \/ Commit(p)
           \/ Verify(p) \/ Publish(p) \/ Complete(p)

StoreNext == (\E p \in Procs : Step(p)) \/ Die \/ Recover

StoreSpec == StoreInit /\ [][StoreNext]_storeVars

-----------------------------------------------------------------------------

StoreTypeOK ==
    /\ attempt \in [Ops -> 0 .. MaxAttempts]
    /\ reservation \in [Ops -> {None, 0, Size}]
    /\ component \in [Digests -> ComponentRow]
    /\ partial \in [Digests -> PartialRow]
    /\ file \in [Digests -> File]
    /\ object \in [Digests -> {"none", "good", "bad"}]
    /\ process \in [Procs -> Process]
    /\ store \in {"open", "closed", "refused"}

\* Nothing but verified bytes ever has a name in the verified namespace, and a
\* component the journal calls complete is there: whatever the sources send,
\* whoever writes, wherever the process dies (promote_component, _recover).
OnlyVerified ==
    /\ \A d \in Digests : object[d] # "bad"
    /\ \A d \in Digests : component[d].state = "complete" => object[d] = "good"

\* The components that are complete and the ones somebody still has a
\* reservation for fit the capacity together (reserve_component): sharing and
\* adopting a download never promises the same bytes twice.  Only a promotion
\* that was published and lost its reservation before it was recorded comes on
\* top, when _recover records it; what was promised before and after it is
\* still accounted for.
NotOvercommitted ==
    Committed + Size * Cardinality(Pledged) <= Capacity + Size * Cardinality(crashes.unpaid)

\* A reservation outlives its fetch only when the process died: whichever way
\* a fetch ends, the bytes it did not use are free again and nobody waits for
\* an owner that has given up (release_reservation, wait_for_component).
NoLeakedReservation ==
    \A o \in Ops : reservation[o] # None => process[<<o, attempt[o]>>].pc \in Waiting \cup {"dead"}

\* Between two chunks the journal and the file agree: what the row says was
\* written is what is in the file, so a resumed download continues where it
\* stopped and not in the middle of somebody else's bytes.
JournalExact ==
    \A d \in Digests :
        (component[d].state = "partial" /\ Openable(d)) => partial[d].written = file[d].size

\* The store cannot be opened again only when a file and its row have parted:
\* a call failed, or the process died, between a chunk's write and its commit,
\* between a promotion's change of mode and its rename, or while a partial is
\* replaced; or a replacement lost its fence.  Everywhere else a restart
\* recovers (_recover, Recoverable).
RefusedOnlyInWindow == store = "refused" => crashes.window \in Windows

\* Whatever the sources send, whoever takes over a download and wherever the
\* process dies, the store holds verified content only, promises no more space
\* than it has, leaks no reservation, has a journal that agrees with its files,
\* and refuses to open only after a failure or a death in one of the named
\* windows (ContentStore, AcquisitionEngine).
StoreAccounts ==
    /\ StoreTypeOK
    /\ OnlyVerified
    /\ NotOvercommitted
    /\ NoLeakedReservation
    /\ JournalExact
    /\ RefusedOnlyInWindow
=============================================================================
