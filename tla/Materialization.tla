--------------------------- MODULE Materialization ---------------------------
(***************************************************************************)
(* How a node builds what a package runs from: Python environments         *)
(* (packages/python_env.py), stored as objects under their derivation, and *)
(* generations (packages/materialize.py), directories renamed into place.  *)
(*                                                                         *)
(* Builders work side by side and may die; a lock file per key, freed with *)
(* its process, is all they share.  A builder is one operation, asked      *)
(* again under a new attempt until it is given up.  The bytes of a file    *)
(* are "whole", "short" when a write stopped early, or "rotten".           *)
(* PackageStore has the steps inside the store's own calls.                *)
(***************************************************************************)
EXTENDS Integers, FiniteSets

CONSTANTS Builders, None,
          Environments,  \* derivations of Python environments
          Plain,         \* generations whose lock names no digest of a tree
          Checked,       \* generations with the tree of an environment or of a
                         \* container, whose digests the lock names
          MaxFaults      \* bound: deaths, power losses, rot, failures

VARIABLES
    pc, key,    \* what every builder does, and for which key
    dir,        \* its partial directory: "none", "open", "whole", "short"
    lock,       \* the holder of every key's lock file
    left,       \* keys with a partial directory nobody owns
    input,      \* the stored objects a build reads: "whole", "rotten", "unlocked"
                \* when the lock does not list just those wheels, "unfit" when their
                \* entries cannot be used, "malformed" when the lock does not parse
    partial,    \* the partials of environments in the store: who began one, and
                \* whether it is "begun", "written" or "torn", not as its row says
    refused,    \* the store was opened again with a torn partial, and refuses
    object,     \* the stored environments: "none", "whole", "rotten"
    derived,    \* environments whose derivation is recorded
    row,        \* environments the store's table calls complete
    reachable,  \* environments a recorded generation uses
    final,      \* the published generations: "none", "whole", "short", "rotten"
    unsynced,   \* generations whose rename is not yet on disk
    faults

vars == <<pc, key, dir, lock, left, input, partial, refused, object, derived, row, reachable, final, unsynced,
          faults>>

Generations == Plain \cup Checked
Keys == Environments \cup Generations
Partials == [by : Builders \cup {None}, is : {"none", "begun", "written", "torn"}]
NoPartial == [by |-> None, is |-> "none"]
Building == {"clean", "make", "inputs", "compose", "imports", "existing", "publish", "write", "promote",
             "record", "seal", "verify", "receipt", "rename", "sync", "forget"}

TypeOK ==
    /\ pc \in [Builders -> {"idle", "lock", "look", "done", "given up"} \cup Building]
    /\ key \in [Builders -> Keys]
    /\ dir \in [Builders -> {"none", "open", "whole", "short"}]
    /\ lock \in [Keys -> Builders \cup {None}]
    /\ left \subseteq Keys /\ input \in {"whole", "rotten", "unlocked", "unfit", "malformed"}
    /\ partial \in [Environments -> Partials] /\ refused \in BOOLEAN
    /\ object \in [Environments -> {"none", "whole", "rotten"}]
    /\ derived \subseteq Environments /\ row \subseteq Environments /\ reachable \subseteq Environments
    /\ final \in [Generations -> {"none", "whole", "short", "rotten"}]
    /\ unsynced \subseteq Generations /\ faults \in 0..MaxFaults

Init ==
    /\ pc = [b \in Builders |-> "idle"] /\ key \in [Builders -> Keys]
    /\ dir = [b \in Builders |-> "none"] /\ lock = [k \in Keys |-> None]
    /\ left = {} /\ input \in {"whole", "unlocked", "unfit", "malformed"}
    /\ partial = [e \in Environments |-> NoPartial] /\ refused = FALSE /\ object = [e \in Environments |-> "none"]
    /\ derived = {} /\ row = {} /\ reachable = {}
    /\ final = [g \in Generations |-> "none"] /\ unsynced = {} /\ faults = 0

Stored == <<partial, refused, object, derived, row, reachable>>
Published == <<final, unsynced>>

Goto(b, l) == pc' = [pc EXCEPT ![b] = l]

\* The end of a build: its directory is removed, its lock file closed.
Finally(b, l) ==
    /\ Goto(b, l)
    /\ dir' = [dir EXCEPT ![b] = "none"]
    /\ lock' = [lock EXCEPT ![key[b]] = None]

Fail(b) == Finally(b, "idle")

\* A step that fails only for want of luck counts as a fault.
Fault == faults < MaxFaults /\ faults' = faults + 1

-----------------------------------------------------------------------------
(* Both builders. *)

\* PythonEnvironmentSpec.parse and _components, _objects: the lock is readable.
SpecParses == input # "malformed"

\* _locked_wheels: the lock lists the wheels and the wheels built from source.
LockedWheels == SpecParses /\ input \notin {"rotten", "unlocked"}

\* _environment_entries, _extract_tar, _extract_zip: the entries are safe, within
\* the limits and no two have the same path.
EntriesFit == input # "unfit"

\* A lock is read before anything is locked, and an environment's compared.
\* Without the store nothing is read.
Start(b) ==
    /\ pc[b] = "idle" /\ ~refused
    /\ SpecParses /\ (key[b] \in Environments => LockedWheels)
    /\ Goto(b, "lock")
    /\ UNCHANGED <<key, dir, lock, left, input, Stored, Published, faults>>

\* _environment_lock and _generation_lock wait for the lock.
Lock(b) ==
    /\ pc[b] = "lock" /\ lock[key[b]] = None
    /\ lock' = [lock EXCEPT ![key[b]] = b] /\ Goto(b, "look")
    /\ UNCHANGED <<key, dir, left, input, Stored, Published, faults>>

\* A faulty variant: every partial directory is swept, whoever works in it.
RemoveAbandoned_Faulty(b) ==
    /\ pc[b] = "clean" /\ key[b] \in Environments
    /\ left' = {}
    /\ dir' = [p \in Builders |-> IF key[p] \in Environments THEN "none" ELSE dir[p]]
    /\ Goto(b, "make")
    /\ UNCHANGED <<key, lock, input, Stored, Published, faults>>

\* An environment's builder sweeps the directories of every derivation whose
\* lock it holds or gets.
RemoveAbandoned(b) ==
    /\ pc[b] = "clean" /\ key[b] \in Environments
    /\ left' = left \ {e \in Environments : lock[e] \in {b, None}}
    /\ Goto(b, "make")
    /\ UNCHANGED <<key, dir, lock, input, Stored, Published, faults>>

\* A generation's builder sweeps its own release's.
RemoveAbandonedGeneration(b) ==
    /\ pc[b] = "clean" /\ key[b] \in Generations
    /\ left' = left \ {key[b]}
    /\ Goto(b, "make")
    /\ UNCHANGED <<key, dir, lock, input, Stored, Published, faults>>

Make(b) ==
    /\ pc[b] = "make"
    /\ dir' = [dir EXCEPT ![b] = "open"] /\ Goto(b, "inputs")
    /\ UNCHANGED <<key, lock, left, input, Stored, Published, faults>>

\* _require_object and _verified_path hash every object before it is read.
Inputs(b) ==
    /\ pc[b] = "inputs"
    /\ IF input # "rotten" THEN Goto(b, "compose") /\ UNCHANGED <<dir, lock>> ELSE Fail(b)
    /\ UNCHANGED <<key, left, input, Stored, Published, faults>>

\* The build is cancelled or its step fails.
Cancel(b) ==
    /\ pc[b] \in Building \ {"clean", "record", "sync", "forget"} /\ Fault /\ Fail(b)
    /\ UNCHANGED <<key, left, input, Stored, Published>>

-----------------------------------------------------------------------------
(* PythonEnvironmentBuilder.build. *)

\* quarantine_corrupt: the file is moved away, unless a generation reaches it.
QuarantineCorrupt(e) ==
    /\ object[e] = "rotten" /\ e \notin reachable
    /\ object' = [object EXCEPT ![e] = "none"]

\* _lookup_derived: a recorded environment is returned if its bytes hash to its
\* name.  One that does not is moved to the quarantine, unless a generation
\* reaches it or it is already gone.
LookupDerived(b) ==
    LET e == key[b]
    IN /\ pc[b] = "look" /\ e \in Environments
       /\ \/ /\ e \in derived /\ object[e] = "whole"
             /\ Finally(b, "done") /\ UNCHANGED object
          \/ /\ e \in derived /\ QuarantineCorrupt(e)
             /\ Goto(b, "forget") /\ UNCHANGED <<dir, lock>>
          \/ /\ e \in derived
             /\ object[e] = "none" \/ (object[e] = "rotten" /\ e \in reachable)
             /\ Fail(b) /\ UNCHANGED object
          \/ /\ e \notin derived
             /\ Goto(b, "clean") /\ UNCHANGED <<dir, lock, object>>
       /\ UNCHANGED <<key, left, input, partial, refused, derived, row, reachable, Published, faults>>

\* forget_corrupt: both rows go in one transaction.
Forget(b) ==
    /\ pc[b] = "forget"
    /\ derived' = derived \ {key[b]} /\ row' = row \ {key[b]} /\ Goto(b, "clean")
    /\ UNCHANGED <<key, dir, lock, left, input, partial, refused, object, reachable, Published, faults>>

\* Source builds in the sandbox, the entries of every wheel, the archive.
Compose(b) ==
    /\ pc[b] = "compose" /\ key[b] \in Environments
    /\ IF EntriesFit THEN dir' = [dir EXCEPT ![b] = "whole"] /\ Goto(b, "imports") /\ UNCHANGED lock
       ELSE Fail(b)
    /\ UNCHANGED <<key, left, input, Stored, Published, faults>>

\* The archive is written to the directory and its imports tried in the sandbox.
ValidateImports(b) ==
    /\ pc[b] = "imports" /\ Goto(b, "existing")
    /\ UNCHANGED <<key, dir, lock, left, input, Stored, Published, faults>>

\* An object of the same content is recorded instead of being published again.
Existing(b) ==
    LET e == key[b]
    IN /\ pc[b] = "existing"
       /\ \/ e \notin row /\ Goto(b, "publish") /\ UNCHANGED <<dir, lock>>
          \/ e \in row /\ object[e] = "whole" /\ Goto(b, "record") /\ UNCHANGED <<dir, lock>>
          \/ e \in row /\ object[e] # "whole" /\ Fail(b)
       /\ UNCHANGED <<key, left, input, Stored, Published, faults>>

\* _publish: the partial this operation began is taken up if its file is as its
\* row says.  One that another operation began is shared, and promote_component
\* then refuses what is not complete.
BeginComponent(b) ==
    LET e == key[b]
    IN /\ pc[b] = "publish"
       /\ \/ /\ partial[e] = NoPartial
             /\ partial' = [partial EXCEPT ![e] = [by |-> b, is |-> "begun"]]
             /\ Goto(b, "write") /\ UNCHANGED <<dir, lock>>
          \/ /\ partial[e].by = b /\ partial[e].is # "torn"
             /\ Goto(b, "write") /\ UNCHANGED <<dir, lock, partial>>
          \/ /\ partial[e].by \notin {b, None} \/ partial[e].is = "torn"
             /\ Fail(b) /\ UNCHANGED partial
       /\ UNCHANGED <<key, left, input, refused, object, derived, row, reachable, Published, faults>>

\* write_partial, the whole environment at offset 0: refused when bytes were
\* already recorded.  A write that fails leaves a file its row does not know.
WritePartial(b) ==
    LET e == key[b]
    IN /\ pc[b] = "write"
       /\ \/ /\ partial[e].is = "begun"
             /\ partial' = [partial EXCEPT ![e].is = "written"]
             /\ Goto(b, "promote") /\ UNCHANGED <<dir, lock, faults>>
          \/ /\ partial[e].is = "begun" /\ Fault
             /\ partial' = [partial EXCEPT ![e].is = "torn"]
             /\ Fail(b)
          \/ /\ partial[e].is = "written"
             /\ Fail(b) /\ UNCHANGED <<partial, faults>>
       /\ UNCHANGED <<key, left, input, refused, object, derived, row, reachable, Published>>

\* promote_component: an object under its digest; the reservation is freed.
Promote(b) ==
    /\ pc[b] = "promote"
    /\ object' = [object EXCEPT ![key[b]] = "whole"] /\ row' = row \cup {key[b]}
    /\ partial' = [partial EXCEPT ![key[b]] = NoPartial]
    /\ Goto(b, "record")
    /\ UNCHANGED <<key, dir, lock, left, input, refused, derived, reachable, Published, faults>>

RecordDerived(b) ==
    /\ pc[b] = "record" /\ derived' = derived \cup {key[b]} /\ Finally(b, "done")
    /\ UNCHANGED <<key, left, input, partial, refused, object, row, reachable, Published, faults>>

-----------------------------------------------------------------------------
(* Materializer.materialize. *)

\* _existing_generation: the tree must be what its receipt says.
ExistingGeneration(b) ==
    LET g == key[b]
    IN /\ pc[b] = "look" /\ g \in Generations
       /\ \/ final[g] = "none" /\ Goto(b, "clean") /\ UNCHANGED <<dir, lock>>
          \/ final[g] \in {"whole", "short"} /\ Finally(b, "done")
          \/ final[g] = "rotten" /\ Fail(b)
       /\ UNCHANGED <<key, left, input, Stored, Published, faults>>

\* Every component is extracted or copied.  _stream_file counts the bytes it
\* read; what os.write says it wrote is not looked at.
Extract(b, bytes) ==
    /\ pc[b] = "compose" /\ key[b] \in Generations /\ EntriesFit
    /\ dir' = [dir EXCEPT ![b] = bytes] /\ Goto(b, "seal")
    /\ IF bytes = "short" THEN Fault ELSE UNCHANGED faults
    /\ UNCHANGED <<key, lock, left, input, Stored, Published>>

ExtractFails(b) ==
    /\ pc[b] = "compose" /\ key[b] \in Generations /\ ~EntriesFit /\ Fail(b)
    /\ UNCHANGED <<key, left, input, Stored, Published, faults>>

\* The containers' metadata are written beside their files, then all is sealed.
SealTree(b) ==
    /\ pc[b] = "seal" /\ Goto(b, "verify")
    /\ UNCHANGED <<key, dir, lock, left, input, Stored, Published, faults>>

\* _verify_python_environment_tree and _verify_oci_bundle_archive, where the
\* lock has such a tree.
VerifyTrees(b) ==
    /\ pc[b] = "verify"
    /\ IF key[b] \in Checked /\ dir[b] = "short" THEN Fail(b)
       ELSE Goto(b, "receipt") /\ UNCHANGED <<dir, lock>>
    /\ UNCHANGED <<key, left, input, Stored, Published, faults>>

\* The receipt lists the files as they are now; everything is synced.
WriteReceipt(b) ==
    /\ pc[b] = "receipt" /\ Goto(b, "rename")
    /\ UNCHANGED <<key, dir, lock, left, input, Stored, Published, faults>>

Rename(b) ==
    /\ pc[b] = "rename"
    /\ final' = [final EXCEPT ![key[b]] = dir[b]]
    /\ unsynced' = unsynced \cup {key[b]}
    /\ dir' = [dir EXCEPT ![b] = "none"] /\ Goto(b, "sync")
    /\ UNCHANGED <<key, lock, left, input, Stored, faults>>

Sync(b) ==
    /\ pc[b] = "sync" /\ unsynced' = unsynced \ {key[b]} /\ Finally(b, "done")
    /\ UNCHANGED <<key, left, input, Stored, final, faults>>

-----------------------------------------------------------------------------
(* What happens around them. *)

Ask(b) ==
    /\ pc[b] = "done" /\ Fault /\ Goto(b, "idle")
    /\ UNCHANGED <<key, dir, lock, left, input, Stored, Published>>

\* The operation is never asked for again.
GiveUp(b) ==
    /\ pc[b] = "idle" /\ Fault /\ Goto(b, "given up")
    /\ UNCHANGED <<key, dir, lock, left, input, Stored, Published>>

Use(e) ==
    /\ e \in derived /\ e \notin reachable /\ reachable' = reachable \cup {e}
    /\ UNCHANGED <<pc, key, dir, lock, left, input, partial, refused, object, derived, row, Published, faults>>

Rot ==
    /\ Fault
    /\ \/ input' = "rotten" /\ UNCHANGED <<object, final>>
       \/ \E e \in Environments : /\ object[e] = "whole" /\ object' = [object EXCEPT ![e] = "rotten"]
                                  /\ UNCHANGED <<input, final>>
       \/ \E g \in Generations : /\ final[g] # "none" /\ final' = [final EXCEPT ![g] = "rotten"]
                                 /\ UNCHANGED <<input, object>>
    /\ UNCHANGED <<pc, key, dir, lock, left, partial, refused, derived, row, reachable, unsynced>>

\* What _recover finds when the builders of `dead' died: a chunk whose row was
\* not committed or a file made read-only and not renamed is torn, and the store
\* refuses to open; a renamed one is completed.
Reopen(dead) ==
    LET At(l) == {key[b] : b \in {x \in dead : pc[x] = l}}
    IN \E torn \in SUBSET (At("write") \cup At("promote")) :
       \E renamed \in SUBSET (At("promote") \ torn) :
         /\ partial' = [e \in Environments |->
              IF e \in torn THEN [partial[e] EXCEPT !.is = "torn"]
              ELSE IF e \in renamed THEN NoPartial ELSE partial[e]]
         /\ object' = [e \in Environments |-> IF e \in renamed THEN "whole" ELSE object[e]]
         /\ row' = row \cup renamed
         /\ refused' = (refused \/ \E e \in Environments : partial'[e].is = "torn")
         /\ UNCHANGED <<derived, reachable>>

\* The process is killed: its lock is free, its directory stays.
Kill(b) ==
    /\ pc[b] \in Building \cup {"look"} /\ Fault
    /\ left' = IF dir[b] = "none" THEN left ELSE left \cup {key[b]}
    /\ Finally(b, "idle") /\ Reopen({b})
    /\ UNCHANGED <<key, input, Published>>

\* Every builder is gone and a rename that was not synced may be undone.
PowerLoss ==
    /\ Fault
    /\ \E lost \in SUBSET unsynced :
         /\ final' = [g \in Generations |-> IF g \in lost THEN "none" ELSE final[g]]
         /\ left' = left \cup lost \cup {key[b] : b \in {x \in Builders : dir[x] # "none"}}
    /\ unsynced' = {}
    /\ pc' = [b \in Builders |-> IF pc[b] \in {"done", "given up"} THEN pc[b] ELSE "idle"]
    /\ dir' = [b \in Builders |-> "none"] /\ lock' = [k \in Keys |-> None]
    /\ Reopen(Builders)
    /\ UNCHANGED <<key, input>>

Build(b) ==
    \/ Start(b) \/ Lock(b) \/ RemoveAbandoned(b) \/ RemoveAbandonedGeneration(b) \/ Make(b) \/ Inputs(b)
    \/ LookupDerived(b) \/ Forget(b) \/ Compose(b) \/ ValidateImports(b) \/ Existing(b)
    \/ BeginComponent(b) \/ WritePartial(b) \/ Promote(b) \/ RecordDerived(b)
    \/ ExistingGeneration(b) \/ (\E bytes \in {"whole", "short"} : Extract(b, bytes)) \/ ExtractFails(b) \/ SealTree(b)
    \/ VerifyTrees(b) \/ WriteReceipt(b) \/ Rename(b) \/ Sync(b)

Next ==
    \/ \E b \in Builders : Build(b) \/ Cancel(b) \/ Ask(b) \/ GiveUp(b) \/ Kill(b)
    \/ (\E e \in Environments : Use(e)) \/ Rot \/ PowerLoss

Fairness == \A b \in Builders : WF_vars(Build(b)) /\ SF_vars(Lock(b))
Spec == Init /\ [][Next]_vars /\ Fairness

-----------------------------------------------------------------------------
(* Properties. *)

\* A builder at work has its directory: no other builder, sweeping what dead
\* ones left, removes it.
LiveStagingKept ==
    \A b \in Builders : pc[b] \in Building \ {"clean", "make", "sync", "forget"} => dir[b] # "none"

\* One key is built by one builder at a time, so nothing is published twice.
OneBuilder ==
    \A a, b \in Builders : a # b /\ pc[a] \in Building /\ pc[b] \in Building => key[a] # key[b]

\* A published generation whose lock names the digest of its tree is whole,
\* unless it rotted on disk: deaths and power losses publish nothing half done.
CheckedWhole == \A g \in Checked : final[g] \in {"none", "whole", "rotten"}

\* What no retry builds: the inputs or the generation rotted; the store keeps
\* rows of an environment that is rotten or gone; its partial is one that
\* another operation began, that is torn, or that was already written when its
\* builder died; or the store cannot be opened at all.
Stuck(b) ==
    LET k == key[b]
    IN \/ input # "whole" \/ refused
       \/ k \in Generations /\ final[k] = "rotten"
       \/ k \in Environments /\ k \in row /\ object[k] # "whole"
       \/ k \in Environments /\ (partial[k].by \notin {b, None} \/ partial[k].is \in {"written", "torn"})

\* Every build that is asked for until it is given up ends in the end, whoever
\* died on the way, or remains one that no retry builds.
BuildsEnd == <>[](\A b \in Builders : pc[b] \in {"done", "given up"} \/ Stuck(b))

=============================================================================
