------------------------------ MODULE MCLeases ------------------------------
(***************************************************************************)
(* The transactions on node leases and the enrolment of a node, with the   *)
(* fleet's update rollouts, from plans of the planner, and with three      *)
(* smaller components of the nodes: the TUF caches, the acquisition of a   *)
(* component and the launch of a backend. A behaviour is about one of      *)
(* them, `sel', and leaves the variables of the others as they were.       *)
(***************************************************************************)
EXTENDS NodeLeaseTransactions, Enrollment, TLC

CONSTANTS o1, o2, o3

MCTargets == (o1 :> {1, 2}) @@ (o2 :> {2, 3}) @@ (o3 :> {1, 3})

Planner == INSTANCE UpdatePlan

(* The planner over small fleets.                                          *)

Up(version, build) ==
  [state |-> "active", online |-> TRUE, known |-> TRUE, speaks |-> TRUE,
   version |-> version, build |-> build, able |-> TRUE]

Observations ==
  {Up("older", "other"), Up("same", "other"), Up("same", "same"), Up("newer", "other"),
   [Up("older", "other") EXCEPT !.online = FALSE], [Up("older", "other") EXCEPT !.able = FALSE],
   [Up("older", "other") EXCEPT !.known = FALSE], [Up("older", "other") EXCEPT !.speaks = FALSE],
   [Up("older", "other") EXCEPT !.state = "retired"], [Up("older", "other") EXCEPT !.state = "revoked"],
   [Up("same", "same") EXCEPT !.online = FALSE]}

Fleets == [1..4 -> {Up("older", "other")}] \cup [1..3 -> Observations]

PlannedWorkloads ==
  {{}} \cup {{[members |-> M, min |-> min, unhealthy |-> U]} :
     M \in {{1, 2}, {1, 2, 3}}, min \in 0..2, U \in {{}, {2}}}

Topologies == {{}, {[members |-> {1, 2, 3}, max |-> 2]}, {[members |-> {2, 3}, max |-> 1]}}

Policies == [size : {1, 2, 3}, canary : {0, 3}]

EveryPlanIsSound ==
  \A fleet \in Fleets, workloads \in PlannedWorkloads, topology \in Topologies, policy \in Policies :
    Planner!Accepts(fleet, workloads) =>
      Planner!SoundPlan(Planner!PlanBatches(fleet, workloads, topology, policy), fleet, workloads, topology, policy)

(* The rollout: a canary and a second node with faults; a batch of two.    *)

MCWorkloads == {[members |-> {1, 2}, min |-> 1, unhealthy |-> {}]}

PlanOf(nodes) ==
  Planner!PlanBatches([n \in nodes |-> Up("older", "other")], MCWorkloads, {}, [size |-> 2, canary |-> 0])

MCScenarios ==
  {[plan |-> PlanOf({1, 2}), begin |-> 1, faults |-> 2, rollbacks |-> 1, resumes |-> 1],
   [plan |-> PlanOf({1, 2, 3}), begin |-> 2, faults |-> 1, rollbacks |-> 0, resumes |-> 0],
   [plan |-> PlanOf({1, 2, 3}), begin |-> 2, faults |-> 0, rollbacks |-> 1, resumes |-> 0]}

VARIABLES
  tuf_who, tuf_roots, tuf_targets, tuf_seen, tuf_safe, tuf_marker,
  tuf_floor, tuf_pc, tuf_best, tuf_losses,
  acquisition_pc, acquisition_mirror, acquisition_lock, acquisition_tag,
  acquisition_honours, acquisition_serves, acquisition_partial,
  acquisition_validator, acquisition_sent, acquisition_faults,
  backend_backend, backend_file, backend_at, backend_snapshot,
  backend_checked, backend_time, backend_units, backend_bundles,
  backend_changes, backend_launches,
  rollout_plan, rollout_roll, rollout_row, rollout_agent, rollout_lease,
  rollout_fence, rollout_record, rollout_marker, rollout_recon, rollout_pc,
  rollout_left,
  sel   \* the component this behaviour is about

tufVars == <<tuf_who, tuf_roots, tuf_targets, tuf_seen, tuf_safe,
             tuf_marker, tuf_floor, tuf_pc, tuf_best, tuf_losses>>
acquisitionVars == <<acquisition_pc, acquisition_mirror, acquisition_lock,
                     acquisition_tag, acquisition_honours,
                     acquisition_serves, acquisition_partial,
                     acquisition_validator, acquisition_sent,
                     acquisition_faults>>
backendVars == <<backend_backend, backend_file, backend_at,
                 backend_snapshot, backend_checked, backend_time,
                 backend_units, backend_bundles, backend_changes,
                 backend_launches>>

rolloutVars == <<rollout_plan, rollout_roll, rollout_row, rollout_agent,
                 rollout_lease, rollout_fence, rollout_record,
                 rollout_marker, rollout_recon, rollout_pc, rollout_left>>

Caches == INSTANCE TufCaches WITH
  MaxRoot <- 3, MaxTargets <- 2, MaxLosses <- 2, who <- tuf_who,
  roots <- tuf_roots, targets <- tuf_targets, seen <- tuf_seen,
  safe <- tuf_safe, marker <- tuf_marker, floor <- tuf_floor, pc <- tuf_pc,
  best <- tuf_best, losses <- tuf_losses

Fetching == INSTANCE Acquisition WITH
  Size <- 3, Mirrors <- 2, Versions <- {0, 1, 2}, MaxFaults <- 3,
  pc <- acquisition_pc, mirror <- acquisition_mirror,
  lock <- acquisition_lock, tag <- acquisition_tag,
  honours <- acquisition_honours, serves <- acquisition_serves,
  partial <- acquisition_partial, validator <- acquisition_validator,
  sent <- acquisition_sent, faults <- acquisition_faults

Backend == INSTANCE BackendLaunch WITH
  MaxTime <- 2, MaxChanges <- 2, MaxLaunches <- 2,
  backend <- backend_backend, file <- backend_file, at <- backend_at,
  snapshot <- backend_snapshot, checked <- backend_checked,
  time <- backend_time, units <- backend_units, bundles <- backend_bundles,
  changes <- backend_changes, launches <- backend_launches

Rollout == INSTANCE UpdateRollout WITH
  Nodes <- 1 .. 3, Scenarios <- MCScenarios, Workloads <- MCWorkloads,
  Entrypoints <- {1},
  plan <- rollout_plan, roll <- rollout_roll, row <- rollout_row,
  agent <- rollout_agent, lease <- rollout_lease, fence <- rollout_fence,
  record <- rollout_record, marker <- rollout_marker,
  recon <- rollout_recon, pc <- rollout_pc, left <- rollout_left

MCInit ==
  /\ sel \in {"leases", "enrolment", "tuf", "acquisition", "backend", "rollout"}
  /\ Init
  /\ EnrollmentInit
  /\ sel # "enrolment" => certs = {}
  /\ Caches!Init
  /\ sel # "tuf" => tuf_who = "agent"
  /\ Fetching!Init
  /\ sel # "acquisition" => /\ acquisition_tag = [s \in 1 .. 2 |-> 0] /\ acquisition_honours = [s \in 1 .. 2 |-> TRUE]
                              /\ acquisition_serves = [s \in 1 .. 2 |-> "right"]
  /\ Backend!Init
  /\ sel # "backend" => backend_backend = "oci"
  /\ Rollout!Init
  /\ sel # "rollout" => rollout_left.faults = 2

MCNext ==
  \/ sel = "leases" /\ Next
       /\ UNCHANGED <<enrollmentVars, tufVars, acquisitionVars, backendVars,
                       rolloutVars, sel>>
  \/ sel = "enrolment" /\ EnrollmentNext
       /\ UNCHANGED <<vars, tufVars, acquisitionVars, backendVars,
                       rolloutVars, sel>>
  \/ sel = "tuf" /\ Caches!Next
       /\ UNCHANGED <<vars, enrollmentVars, acquisitionVars, backendVars,
                       rolloutVars, sel>>
  \/ sel = "acquisition" /\ Fetching!Next
       /\ UNCHANGED <<vars, enrollmentVars, tufVars, backendVars,
                       rolloutVars, sel>>
  \/ sel = "backend" /\ Backend!Next
       /\ UNCHANGED <<vars, enrollmentVars, tufVars, acquisitionVars,
                       rolloutVars, sel>>
  \/ sel = "rollout" /\ Rollout!Next
       /\ UNCHANGED <<vars, enrollmentVars, tufVars, acquisitionVars,
                       backendVars, sel>>

\* The fairness of NodeLeaseTransactions, in the behaviours that are about it.
MainFair ==
  /\ \A o \in Owners : SF_vars(sel = "leases" /\ Advance(o))

\* The fairness of TufCaches, in the behaviours that are about it.
CachesFair ==
  /\ WF_tufVars(sel = "tuf" /\ Caches!OpenAgent)
  /\ WF_tufVars(sel = "tuf" /\ Caches!OpenPlatform)
  /\ WF_tufVars(sel = "tuf" /\ Caches!StartUpdater)
  /\ WF_tufVars(sel = "tuf" /\ Caches!MarkBootstrap)
  /\ WF_tufVars(sel = "tuf" /\ Caches!RefreshRoot)
  /\ SF_tufVars(sel = "tuf" /\ (\E fits \in BOOLEAN : fits /\ Caches!AgentTarget(fits)))
  /\ SF_tufVars(sel = "tuf" /\ Caches!PlatformTarget)
  /\ SF_tufVars(sel = "tuf" /\ (Caches!RefreshTargets /\ tuf_pc' = "checked"))
  /\ WF_tufVars(sel = "tuf" /\ Caches!MarkAgent)

\* The fairness of Acquisition, in the behaviours that are about it.
FetchingFair ==
  /\ WF_acquisitionVars(sel = "acquisition" /\ Fetching!Fetch)
  /\ WF_acquisitionVars(sel = "acquisition" /\ Fetching!TrustedTarget(TRUE))

\* The fairness of BackendLaunch, in the behaviours that are about it.
BackendFair ==
  /\ WF_backendVars(sel = "backend" /\ Backend!Launch)
  /\ WF_backendVars(sel = "backend" /\ (Backend!Ended \/ Backend!Cleanup \/ Backend!CleanupFails))
  /\ \A i \in Backend!Launches : WF_backendVars(sel = "backend" /\ Backend!RuntimeMax(i))

\* The fairness of UpdateRollout, in the behaviours that are about it.
RolloutFair ==
  /\ WF_rolloutVars(sel = "rollout" /\ Rollout!Advance)
  /\ WF_rolloutVars(sel = "rollout" /\ Rollout!Reconciler)
  /\ \A n \in 1 .. 3 : WF_rolloutVars(sel = "rollout" /\ Rollout!Contact(n))

all == <<vars, enrollmentVars, tufVars, acquisitionVars, backendVars,
         rolloutVars, sel>>

MCSpec == MCInit /\ [][MCNext]_all

-----------------------------------------------------------------------------
\* What a lease transaction has read is still so when it commits, no
\* committed state has part of a group, no lease is taken from its owner, and
\* no transactions wait for each other for ever.
LeasesSettle ==
  /\ [](sel = "leases" => TypeOK /\ ReadsAreCurrent /\ GroupWhole)
  /\ NoStolenLease
  /\ sel = "leases" /\ MainFair => TransactionsEnd

\* Whatever a power loss takes from the cache, the root that a marker names
\* is there, nothing older than what was authorised before is authorised, and
\* the cache goes on answering unless it is in a state that only an operator
\* ends.
CachesKeepTrust ==
  /\ [](sel = "tuf" =>
          /\ Caches!TypeOK
          /\ Caches!RootKept)
  /\ Caches!AuthorisedInOrder
  /\ sel = "tuf" /\ CachesFair => Caches!KeepsAnswering

\* Whatever the mirrors serve and whenever the process dies, only the right
\* bytes are accepted, no partial mixes two versions, the metadata lock is
\* given back, and a fetch ends.
FetchesRightBytes ==
  /\ [](sel = "acquisition" =>
          /\ Fetching!TypeOK
          /\ Fetching!OnlyRightBytes
          /\ Fetching!OneVersion
          /\ Fetching!LockFreed)
  /\ sel = "acquisition" /\ FetchingFair => Fetching!FetchEnds

\* What runs is what was signed and verified, although files change under the
\* helper, and no unit outlives its limit: only a container or an adapter that
\* lost its helper may go on.
BackendsAsSigned ==
  /\ [](sel = "backend" =>
          /\ Backend!TypeOK
          /\ Backend!RunsAsSigned
          /\ Backend!RunsVerified)
  /\ sel = "backend" /\ BackendFair => Backend!UnitsEnd

\* A rollout starts from a plan of UpdatePlanner.plan, and whatever the agents
\* report every plan it accepts keeps the disruption budget of the workloads,
\* the exclusions of the topology and the batch size, and leaves no eligible
\* node out.
PlansAreSound ==
  sel = "rollout" /\ rollout_roll.st = "planned" => EveryPlanIsSound

\* A node is updated only under its lease and with its routes down, one
\* member of a workload at a time and not before the canary has passed; a
\* rollout at rest holds nothing, the plan it starts from is sound, and its
\* phases end.
UpdatesUnderLease ==
  /\ [](sel = "rollout" =>
          /\ Rollout!TypeOK
          /\ Rollout!RoutesDownWhileUpdated
          /\ Rollout!UpdatedUnderLease
          /\ Rollout!FanOutWaits
          /\ Rollout!OneMemberAtATime
          /\ Rollout!AtRestFree
          /\ PlansAreSound)
  /\ sel = "rollout" /\ RolloutFair => Rollout!PhasesEnd
=============================================================================
