----------------------------- MODULE MCRecipes ------------------------------
(***************************************************************************)
(* Recipe runs, with three components of the nodes and the signing of      *)
(* updates. A behaviour is about one of them, `sel', and leaves the        *)
(* variables of the others as they were. The configurations differ in the  *)
(* components, `Focus', and in the recipes: Gang.cfg has a gang of two     *)
(* nodes and the content store of the package engine; Ports.cfg two runs   *)
(* that compete for a port, the package helper, the materialization of     *)
(* environments and generations and the signing; StopRace.cfg a single run *)
(* on a single node.                                                       *)
(***************************************************************************)
EXTENDS RecipeRuns, PackageStore, TLC

CONSTANT Focus

\* One gang: an installation on every node, all runs of it.
MCInstallationOf == [r \in Runs |-> CHOOSE i \in Installations : TRUE]
MCNodesOf == [i \in Installations |-> Nodes]
MCPortOf == [i \in Installations |-> 8000]
MCAliasOf == [r \in Runs |-> r]

\* Nothing tells the nodes of the gang apart, nor the operations and components
\* of the store. A behaviour is about the gang or about the store: the nodes of
\* the one and the operations of the other are the same two model values.
MCSymmetry == Permutations(Nodes \cup Ops) \cup Permutations(Digests)

VARIABLES
  helper_lease, helper_gone, helper_agent, helper_request, helper_built,
  helper_socket, helper_helper, helper_seen, helper_rows, helper_slot,
  helper_units, helper_orphans, helper_ran, helper_faults,
  builds_pc, builds_key, builds_dir, builds_lock, builds_left, builds_input,
  builds_partial, builds_refused, builds_object, builds_derived, builds_row,
  builds_reachable, builds_final, builds_unsynced, builds_faults,
  signing_published, signing_control, signing_node, signing_routes,
  signing_admin, signing_plan, signing_rollout, signing_grant,
  signing_intent, signing_queued, signing_worker, signing_since,
  signing_faults,
  sel   \* the component this behaviour is about

helperVars == <<helper_lease, helper_gone, helper_agent, helper_request,
                helper_built, helper_socket, helper_helper, helper_seen,
                helper_rows, helper_slot, helper_units, helper_orphans,
                helper_ran, helper_faults>>
buildsVars == <<builds_pc, builds_key, builds_dir, builds_lock, builds_left,
                builds_input, builds_partial, builds_refused, builds_object, builds_derived, builds_row,
                builds_reachable, builds_final, builds_unsynced,
                builds_faults>>
signingVars == <<signing_published, signing_control, signing_node,
                 signing_routes, signing_admin, signing_plan,
                 signing_rollout, signing_grant, signing_intent,
                 signing_queued, signing_worker, signing_since,
                 signing_faults>>

Helper == INSTANCE PackageHelper WITH
  Steps <- 2, MaxAttempts <- 2, MaxRequests <- 3, GrantLife <- 2,
  LeaseLife <- 2, MaxRows <- 2, MaxFaults <- 2, lease <- helper_lease,
  gone <- helper_gone, agent <- helper_agent, request <- helper_request,
  built <- helper_built, socket <- helper_socket, helper <- helper_helper,
  seen <- helper_seen, rows <- helper_rows, slot <- helper_slot,
  units <- helper_units, orphans <- helper_orphans, ran <- helper_ran,
  faults <- helper_faults

Builds == INSTANCE Materialization WITH
  Builders <- {"b1", "b2"}, None <- "None", Environments <- {"e1", "e2"},
  Plain <- {"p"}, Checked <- {"c"}, MaxFaults <- 2, pc <- builds_pc,
  key <- builds_key, dir <- builds_dir, lock <- builds_lock,
  left <- builds_left, input <- builds_input, partial <- builds_partial,
  refused <- builds_refused, object <- builds_object,
  derived <- builds_derived, row <- builds_row,
  reachable <- builds_reachable, final <- builds_final,
  unsynced <- builds_unsynced, faults <- builds_faults

Signing == INSTANCE UpdateSigning WITH
  MaxPublished <- 2, MaxGeneration <- 3, ReceiptLife <- 2, GrantLife <- 3,
  MaxFaults <- 1, published <- signing_published,
  control <- signing_control, node <- signing_node,
  routes <- signing_routes, admin <- signing_admin, plan <- signing_plan,
  rollout <- signing_rollout, grant <- signing_grant,
  intent <- signing_intent, queued <- signing_queued,
  worker <- signing_worker, since <- signing_since, faults <- signing_faults

MCInit ==
  /\ sel \in Focus
  /\ Init
  /\ StoreInit
  /\ sel # "store" => \A p, q \in Procs : process[p].digest = process[q].digest
  /\ IF "helper" \in Focus THEN Helper!Init
     ELSE /\ helper_lease = "off"
          /\ helper_gone = "off"
          /\ helper_agent = "off"
          /\ helper_request = "off"
          /\ helper_built = "off"
          /\ helper_socket = "off"
          /\ helper_helper = "off"
          /\ helper_seen = "off"
          /\ helper_rows = "off"
          /\ helper_slot = "off"
          /\ helper_units = "off"
          /\ helper_orphans = "off"
          /\ helper_ran = "off"
          /\ helper_faults = "off"
  /\ IF "builds" \in Focus THEN Builds!Init /\ (sel # "builds" => builds_key = [m \in {"b1", "b2"} |-> "p"] /\ builds_input = "whole")
     ELSE /\ builds_pc = "off"
          /\ builds_key = "off"
          /\ builds_dir = "off"
          /\ builds_lock = "off"
          /\ builds_left = "off"
          /\ builds_input = "off"
          /\ builds_partial = "off"
          /\ builds_refused = "off"
          /\ builds_object = "off"
          /\ builds_derived = "off"
          /\ builds_row = "off"
          /\ builds_reachable = "off"
          /\ builds_final = "off"
          /\ builds_unsynced = "off"
          /\ builds_faults = "off"
  /\ Signing!Init

MCNext ==
  \/ sel = "recipes" /\ Next
       /\ UNCHANGED <<storeVars, helperVars, buildsVars, signingVars, sel>>
  \/ sel = "store" /\ StoreNext
       /\ UNCHANGED <<vars, helperVars, buildsVars, signingVars, sel>>
  \/ sel = "helper" /\ Helper!Next
       /\ UNCHANGED <<vars, storeVars, buildsVars, signingVars, sel>>
  \/ sel = "builds" /\ Builds!Next
       /\ UNCHANGED <<vars, storeVars, helperVars, signingVars, sel>>
  \/ sel = "signing" /\ Signing!Next
       /\ UNCHANGED <<vars, storeVars, helperVars, buildsVars, sel>>

\* The fairness of RecipeRuns, in the behaviours that are about it.
MainFair ==
  /\ \A n \in Nodes : WF_vars(sel = "recipes" /\ (Execute(n) \/ \E k \in DOMAIN jobs : Claim(n, k) \/ Expire(n, k) \/ Record(n, k)))
  /\ \A r \in Runs : SF_vars(sel = "recipes" /\ WorkerFails(r))
  /\ \A r \in Runs : SF_vars(sel = "recipes" /\ WorkerCandidate(r))
  /\ SF_vars(sel = "recipes" /\ WorkerPublish)
  /\ SF_vars(sel = "recipes" /\ WorkerCheck)
  /\ SF_vars(sel = "recipes" /\ WorkerWrite)

\* The fairness of PackageHelper, in the behaviours that are about it.
HelperFair ==
  /\ WF_helperVars(sel = "helper" /\ Helper!ClaimAgain)
  /\ WF_helperVars(sel = "helper" /\ Helper!Build)
  /\ WF_helperVars(sel = "helper" /\ Helper!Submit)
  /\ WF_helperVars(sel = "helper" /\ Helper!Accept)
  /\ WF_helperVars(sel = "helper" /\ (\E v \in BOOLEAN : Helper!Launch(v)))
  /\ WF_helperVars(sel = "helper" /\ Helper!Fail)
  /\ WF_helperVars(sel = "helper" /\ Helper!HelperStarts)

\* The fairness of Materialization, in the behaviours that are about it.
BuildsFair ==
  /\ \A m \in {"b1", "b2"} : WF_buildsVars(sel = "builds" /\ Builds!Build(m))
  /\ \A m \in {"b1", "b2"} : SF_buildsVars(sel = "builds" /\ Builds!Lock(m))

\* The fairness of UpdateSigning, in the behaviours that are about it.
SigningFair ==
  /\ WF_signingVars(sel = "signing" /\ Signing!Heartbeat)
  /\ WF_signingVars(sel = "signing" /\ Signing!RefreshGrant)
  /\ WF_signingVars(sel = "signing" /\ Signing!Withdraw)
  /\ WF_signingVars(sel = "signing" /\ (\E a \in Signing!Actions : Signing!Reserve(a)))
  /\ WF_signingVars(sel = "signing" /\ Signing!Sign)
  /\ WF_signingVars(sel = "signing" /\ Signing!Finalize)
  /\ WF_signingVars(sel = "signing" /\ Signing!Watch)
  /\ WF_signingVars(sel = "signing" /\ Signing!Claim)
  /\ WF_signingVars(sel = "signing" /\ (Signing!Switch \/ Signing!NodeRefuses))

all == <<vars, storeVars, helperVars, buildsVars, signingVars, sel>>

MCSpec == MCInit /\ [][MCNext]_all

-----------------------------------------------------------------------------
\* The route of a run that keeps running is published or given up, and a stop
\* ends unless one of its operations waits for an operator.
RunsSettle ==
  /\ sel = "recipes" /\ MainFair => RouteSettles
  /\ sel = "recipes" /\ MainFair => StopsFinish

\* The helper runs one unit at a time, says done only of what ran, spends a
\* grant only while it is valid, whatever the client has given up meanwhile,
\* and works off what waits in its socket.
HelperSpendsOnce ==
  /\ [](sel = "helper" =>
          /\ Helper!TypeOK
          /\ Helper!OneAtATime
          /\ Helper!DoneRan)
  /\ Helper!SpentInTime
  /\ sel = "helper" /\ HelperFair => Helper!QueueDrains

\* No builder removes or publishes what another is building, a tree whose
\* digest the lock names is published whole, and every build that is asked for
\* again ends or is one that no retry builds.
BuildsSeparate ==
  /\ [](sel = "builds" =>
          /\ Builds!TypeOK
          /\ Builds!LiveStagingKept
          /\ Builds!OneBuilder
          /\ Builds!CheckedWhole)
  /\ sel = "builds" /\ BuildsFair => Builds!BuildsEnd
\* A receipt never outlives the grant it rests on, a node switches only on a
\* recent receipt and as the plan said that was approved, and a drained node,
\* or one that is to be rolled back, gets its signature unless the signer
\* refuses for good.
SigningBounds ==
  /\ [](sel = "signing" =>
          /\ Signing!TypeOK
          /\ Signing!GrantBoundsReceipt)
  /\ Signing!SwitchIsRecent
  /\ Signing!SwitchedAsPlanned
  /\ sel = "signing" /\ SigningFair => Signing!DrainedIsSigned
  /\ sel = "signing" /\ SigningFair => Signing!RollbackIsSigned
=============================================================================
