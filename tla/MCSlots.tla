------------------------------ MODULE MCSlots -------------------------------
(***************************************************************************)
(* The A/B supervisor of the agent under crashes, its fallback when the    *)
(* package script runs three times, the package engine and the staging of  *)
(* releases by the Python agent. A behaviour is about one of them, `sel',  *)
(* and leaves the variables of the others as they were.                    *)
(***************************************************************************)
EXTENDS SlotSupervisor

CONSTANTS r1, r2, r3

\* r1 reads and writes schema 1 only, r2 writes 2 and reads 1 to 3, r3 writes 3
\* and reads 2 and 3: r2 and r3 may replace each other, r1 may replace neither.
WritesOf == [x \in {r1, r2, r3} |-> CASE x = r1 -> 1 [] x = r2 -> 2 [] x = r3 -> 3]
OldestOf == [x \in {r1, r2, r3} |-> CASE x = r1 -> 1 [] x = r2 -> 1 [] x = r3 -> 2]
NewestOf == [x \in {r1, r2, r3} |-> CASE x = r1 -> 1 [] x = r2 -> 3 [] x = r3 -> 3]

\* The package engine is asked for two releases of a deployment, which share an
\* object, or for one release by two deployments, which share its tree.
Contents == [r1 |-> {"a", "c"}, r2 |-> {"c"}]

VARIABLES
  engine_gen, engine_mine, engine_tree, engine_lock, engine_object,
  engine_pointer, engine_op, engine_torn, engine_faults,
  releases_disk, releases_release, releases_signed, releases_op,
  releases_used, releases_deferred, releases_ran,
  sel   \* the component this behaviour is about

engineVars == <<engine_gen, engine_mine, engine_tree, engine_lock,
                engine_object, engine_pointer, engine_op, engine_torn,
                engine_faults>>
releasesVars == <<releases_disk, releases_release, releases_signed,
                  releases_op, releases_used, releases_deferred,
                  releases_ran>>

Fallback == INSTANCE SlotSupervisor WITH
  Artifacts <- {r2, r3}, Writes <- WritesOf, MinReadable <- OldestOf,
  MaxReadable <- NewestOf, Refusing <- FALSE, Substituting <- TRUE,
  MaxGeneration <- 2, MaxInstalls <- 3, MaxCrashes <- 0

Engine == INSTANCE PackageEngine WITH
  Deployments <- {"d1"}, Releases <- {"r1", "r2"},
  Wanted <- {<<"d1", "r1">>, <<"d1", "r2">>}, Parts <- Contents,
  MaxFaults <- 1, gen <- engine_gen, mine <- engine_mine,
  tree <- engine_tree, lock <- engine_lock, object <- engine_object,
  pointer <- engine_pointer, op <- engine_op, torn <- engine_torn,
  faults <- engine_faults

Shared == INSTANCE PackageEngine WITH
  Deployments <- {"d1", "d2"}, Releases <- {"r1"},
  Wanted <- {<<"d1", "r1">>, <<"d2", "r1">>}, Parts <- Contents,
  MaxFaults <- 1, gen <- engine_gen, mine <- engine_mine,
  tree <- engine_tree, lock <- engine_lock, object <- engine_object,
  pointer <- engine_pointer, op <- engine_op, torn <- engine_torn,
  faults <- engine_faults

Staging == INSTANCE NodeReleases WITH
  Attempts <- 3, Cap <- 6, Slots <- 4, disk <- releases_disk,
  release <- releases_release, signed <- releases_signed, op <- releases_op,
  used <- releases_used, deferred <- releases_deferred, ran <- releases_ran

MCInit ==
  /\ sel \in {"crash", "fallback", "engine", "shared", "releases"}
  /\ Init
  /\ IF sel = "shared" THEN Shared!Init ELSE Engine!Init
  /\ IF sel = "releases" THEN Staging!Init
     ELSE /\ releases_disk = "off"
          /\ releases_release = "off"
          /\ releases_signed = "off"
          /\ releases_op = "off"
          /\ releases_used = "off"
          /\ releases_deferred = "off"
          /\ releases_ran = "off"

MCNext ==
  \/ sel = "crash" /\ Next
       /\ UNCHANGED <<engineVars, releasesVars, sel>>
  \/ sel = "fallback" /\ Fallback!Next
       /\ UNCHANGED <<engineVars, releasesVars, sel>>
  \/ sel = "engine" /\ Engine!Next
       /\ UNCHANGED <<vars, releasesVars, sel>>
  \/ sel = "shared" /\ Shared!Next
       /\ UNCHANGED <<vars, releasesVars, sel>>
  \/ sel = "releases" /\ Staging!Next
       /\ UNCHANGED <<vars, engineVars, sel>>

all == <<vars, engineVars, releasesVars, sel>>

MCSpec == MCInit /\ [][MCNext]_all

-----------------------------------------------------------------------------
\* Wherever the power is lost, the links are those of the recorded state
\* before anybody uses them, an activation is rolled back at most once, a
\* release is started only on data that it can read, and what is fallen back
\* to was verified, even when the package script overwrites slots meanwhile.
SlotsSound ==
  /\ [](TypeOK /\ LinksFollowState)
  /\ RollsBackOnce
  /\ LaunchReadsData
  /\ [](sel = "fallback" => Fallback!FallbackIsTrusted)

\* Wherever the engine dies or the disk fails and whichever start or health
\* check fails, a generation that may be activated finds all its objects, its
\* lock and its tree, pointer and journal agree or the exception is named, what
\* a failed activation replaced serves again, what a successful one chose
\* serves, and an active generation is only ever replaced by another.
EngineRecovers ==
  /\ [](sel = "engine" =>
          /\ Engine!TypeOK
          /\ Engine!Offline
          /\ Engine!PointerAgrees
          /\ Engine!FailedActivationUndone
          /\ Engine!ActivationServes)
  /\ [](sel = "shared" =>
          /\ Shared!TypeOK
          /\ Shared!Offline
          /\ Shared!PointerAgrees
          /\ Shared!ActivationServes)
  /\ [][sel = "engine" => Engine!Succeeded]_engineVars

\* Wherever an installation of a release is cut off or fails, what it has pulled
\* is on record and within its cap and the next attempt recovers it, a release
\* is published whole and stays so under the workload that runs in it, and the
\* answer to the control plane is true.
StagingRecovers ==
  /\ [](sel = "releases" =>
          /\ Staging!TypeOK
          /\ Staging!CapHeld
          /\ Staging!ContentRecorded
          /\ Staging!AnswersTrue
          /\ Staging!RunsInWhole
          /\ Staging!RecoversAll)
  /\ Staging!PublishedWhole
=============================================================================
