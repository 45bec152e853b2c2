---------------------------- MODULE DesiredState ----------------------------
(***************************************************************************)
(* What a reconciliation plan is made from and what it leaves behind       *)
(* (control/src/vonk_control/desired_state.py, with placement.py,          *)
(* reconcile.py, orchestration.py and the apply handler of api.py).        *)
(*                                                                         *)
(* Planning replays the accepted start and stop evidence of the completed  *)
(* reconciliations to learn what every node runs, joins it with the latest *)
(* health observation of every node, places the workloads of a profile and *)
(* derives a graph of operations: stop what is no longer wanted, prove     *)
(* with a probe that no GPU process is left, then install, prepare, start  *)
(* and check what is.  A plan is stored with the digest of the fleet       *)
(* evidence it was made from and is applied only while that digest is      *)
(* still the current one.                                                  *)
(*                                                                         *)
(* Reconciliation.tla has the worker that dispatches the graph; here one   *)
(* applied plan executes at a time and an operation is one step of its     *)
(* node.  A node is a number, in the order of the node IDs; a release      *)
(* stands for the definition, release, adapter and preparation digests.    *)
(***************************************************************************)
EXTENDS Integers, Sequences, FiniteSets, SequencesExt

CONSTANTS
  Nodes,      \* the nodes of inventory/fleet.toml: 1 .. n
  Workloads,  \* workload IDs, numbered in sorted order
  NodeCount,  \* node_count of a workload's requirement
  Preferred,  \* its preferred_node_ids, a sequence of nodes
  Linked,     \* node sets joined by an accepted RDMA link
  Profiles,   \* profiles, with the workload and release documents they name
  MaxNow,     \* bound: clock readings
  MaxPlans,   \* bound: plans stored
  MaxFaults   \* bound: failed operations, dying workloads, foreign processes

VARIABLES
  plans,    \* Reconciliation rows with their resolved plans, in creation order
  history,  \* the completed ones, in the order of completion_generation
  running,  \* per node, the workloads with a GPU process
  foreign,  \* nodes with a GPU process that no workload owns
  obs,      \* per node, the latest health observation
  now,      \* the clock of the API process
  faults

vars == <<plans, history, running, foreign, obs, now, faults>>

None == 0

-----------------------------------------------------------------------------
(* Workload groups.  The first node of a group is its entrypoint.          *)

Group(release, nodes, ordered) ==
  [release |-> release, nodes |-> nodes, ordered |-> ordered]

NoGroup == Group(None, <<>>, FALSE)

Members(g) == ToSet(g.nodes)

Entrypoint(g) == Head(g.nodes)

Selected(groups) == {w \in Workloads : groups[w] # NoGroup}

\* the replay raises: no current state can be told
Broken == {[node |-> None, w |-> None, group |-> NoGroup]}

\* what every node runs when the groups are up
Expected(groups) ==
  {[node |-> n, w |-> w, group |-> groups[w]] :
     <<n, w>> \in {nw \in Nodes \X Workloads : nw[1] \in Members(groups[nw[2]])}}

-----------------------------------------------------------------------------
(* What orchestration.py asks of a graph, a function from operations to    *)
(* their dependencies, when it is stored and whenever it is loaded again.  *)

\* _topological: the layers of operations whose dependencies are all in
\* earlier layers; what is left when no layer is ready is a cycle.
Cyclic(graph) ==
  LET left[k \in 0 .. Cardinality(DOMAIN graph)] ==
        IF k = 0 THEN DOMAIN graph
        ELSE LET before == left[k - 1]
             IN  {o \in before : graph[o] \cap before # {}}
  IN  left[Cardinality(DOMAIN graph)] # {}

\* _parse_plan
Parses(graph) ==
  /\ DOMAIN graph # {}
  /\ \A o \in DOMAIN graph : \A d \in graph[o] :
       /\ d \in DOMAIN graph
       /\ \/ d.w = o.w
          \/ o.kind = "probe" /\ d.kind = "stop"
          \/ o.kind = "install" /\ d.kind = "probe"
  /\ ~Cyclic(graph)

\* validate_persisted_resolved_plan
Validates(graph) ==
  LET OfKind(k) == {o \in DOMAIN graph : o.kind = k}
  IN  /\ Parses(graph)
      /\ {o.node : o \in OfKind("probe")} = {o.node : o \in OfKind("stop") \cup OfKind("install")}
      /\ \A o \in OfKind("probe") : o.w = None /\ graph[o] = OfKind("stop")
      /\ \A o \in OfKind("install") : graph[o] = OfKind("probe")

-----------------------------------------------------------------------------
(* _accepted_current_workloads                                             *)

Touched(plan, kind) == {o \in DOMAIN plan.graph : o.kind = kind}

Entry(plan, o) == [node |-> o.node, w |-> o.w, group |-> plan.desired[o.w]]

\* One completed reconciliation: its accepted stops and starts, and the
\* comparison with the groups it promised.
ReplayOne(state, plan) ==
  LET Stopped(e) == \E o \in Touched(plan, "stop") : o.node = e.node /\ o.w = e.w
      kept == {e \in state : ~Stopped(e)}
      started == {Entry(plan, o) : o \in Touched(plan, "start")}
      drift == \/ \E o \in Touched(plan, "stop") :
                    ~\E e \in state : /\ e.node = o.node /\ e.w = o.w
                                      /\ e.group.release = plan.current[o.w].release
               \/ \E e \in kept, s \in started : e.node = s.node /\ e.w = s.w
  IN  IF state = Broken \/ ~Validates(plan.graph) \/ drift \/ kept \cup started # Expected(plan.desired)
      THEN Broken
      ELSE kept \cup started

\* A start or a stop succeeded in a reconciliation that is not completed.
Uncertain ==
  \E i \in DOMAIN plans :
    /\ plans[i].state # "completed"
    /\ \E o \in plans[i].done : o.kind \in {"start", "stop"}

AcceptedCurrent ==
  IF Uncertain THEN Broken
  ELSE FoldLeft(LAMBDA s, i : ReplayOne(s, plans[i]), {}, history)

\* _current_workload_groups
CurrentGroups(state) ==
  [w \in Workloads |->
     IF \E e \in state : e.w = w THEN (CHOOSE e \in state : e.w = w).group ELSE NoGroup]

-----------------------------------------------------------------------------
(* durable_desired_state_observations and _placement_observations          *)

Managed(state, n) == \E e \in state : e.node = n

ComputeOccupancy(state, n) ==
  CASE Managed(state, n) /\ obs[n].procs  -> "managed"
    [] Managed(state, n) /\ ~obs[n].procs -> "unknown"
    [] ~Managed(state, n) /\ obs[n].procs -> "unmanaged"
    [] OTHER                              -> "clean"

Available(state) ==
  {n \in Nodes : obs[n].healthy /\ ComputeOccupancy(state, n) \in {"clean", "managed"}}

-----------------------------------------------------------------------------
(* PlacementPlanner.plan: preferred nodes first, then by node ID           *)

Rank(w, n) ==
  IF n \in ToSet(Preferred[w])
  THEN CHOOSE k \in DOMAIN Preferred[w] : Preferred[w][k] = n
  ELSE Len(Preferred[w]) + n

Ordered(w, eligible) == SetToSortSeq(eligible, LAMBDA a, b : Rank(w, a) < Rank(w, b))

Placeable(w, eligible) ==
  /\ Cardinality(eligible) >= NodeCount[w]
  /\ NodeCount[w] > 1 =>
       \E link \in Linked : ToSet(SubSeq(Ordered(w, eligible), 1, NodeCount[w])) \subseteq link

\* The workloads of a profile in sorted order, each on nodes no earlier one took.
Place(profile, free) ==
  FoldLeft(
    LAMBDA acc, w :
      IF profile.want[w] = None \/ ~acc.ok THEN acc
      ELSE IF ~Placeable(w, acc.free) THEN [acc EXCEPT !.ok = FALSE]
      ELSE LET chosen == SubSeq(Ordered(w, acc.free), 1, NodeCount[w])
           IN  [acc EXCEPT !.free = @ \ ToSet(chosen),
                           !.groups[w] = Group(profile.want[w], chosen, profile.ordered)],
    [ok |-> TRUE, free |-> free, groups |-> [w \in Workloads |-> NoGroup]],
    SetToSortSeq(Workloads, <))

-----------------------------------------------------------------------------
(* The documents of a profile at one commit                                *)

Wanted(p) == {w \in Workloads : p.want[w] # None}

\* _requirements: exactly one requirement for every workload, and exclusive
Requirements(p) == p.required = Wanted(p) /\ p.exclusive

\* The profile, the workload and the release manifest name one definition.
Releases(p) ==
  \A w \in Wanted(p) :
    p.profileHash[w] = p.workloadHash[w] /\ p.releaseHash[w] = p.workloadHash[w]

\* _profile_cross_references
CrossReferences(p) ==
  /\ p.endpoints \subseteq Wanted(p)
  /\ p.quotas = p.endpoints
  /\ \A w \in Wanted(p) : p.conflicts[w] \cap (Wanted(p) \ {w}) = {}

\* _routes: every endpoint leads to the entrypoint node of its workload
Routes(p, groups) ==
  {[w |-> w, node |-> IF groups[w] = NoGroup THEN None ELSE Entrypoint(groups[w])] :
     w \in p.endpoints}

-----------------------------------------------------------------------------
(* _operations: the graph, a function from operations to their             *)
(* dependencies.  On one node "install" stands for release.install and     *)
(* workload.prepare, "verify" for workload.health and workload.verify:     *)
(* nothing but a failure comes between the two.                            *)

Op(w, n, kind) == [w |-> w, node |-> n, kind |-> kind]

OpsOf(groups, ws, kind) ==
  {Op(wn[1], wn[2], kind) :
     wn \in {x \in ws \X Nodes : x[2] \in Members(groups[x[1]])}}

Teardown(current, desired) == {w \in Selected(current) : desired[w] # current[w]}

Deploy(current, desired) == {w \in Selected(desired) : current[w] # desired[w]}

Gated(current, desired) ==
  UNION ({Members(current[w]) : w \in Teardown(current, desired)}
           \cup {Members(desired[w]) : w \in Deploy(current, desired)})

\* the stops that a stop waits for
StopAfter(current, o) ==
  IF current[o.w].ordered /\ o.node # Entrypoint(current[o.w])
  THEN {Op(o.w, Entrypoint(current[o.w]), "stop")}
  ELSE {}

\* the starts that a start waits for
StartAfter(desired, o) ==
  IF desired[o.w].ordered /\ o.node = Entrypoint(desired[o.w])
  THEN {Op(o.w, n, "start") : n \in Members(desired[o.w]) \ {o.node}}
  ELSE {}

Operations(current, desired) ==
  LET deploy == Deploy(current, desired)
      retained == Selected(desired) \ deploy
      stops == OpsOf(current, Teardown(current, desired), "stop")
      probes == {Op(None, n, "probe") : n \in Gated(current, desired)}
      deployed == UNION {OpsOf(desired, deploy, k) : k \in {"install", "start", "verify"}}
      checked == OpsOf(desired, retained, "verify")
      Deps(o) ==
        CASE o.kind = "stop" -> StopAfter(current, o)
          [] o.kind = "probe" -> stops
          [] o.kind = "install" -> probes
          [] o.kind = "start" -> {[o EXCEPT !.kind = "install"]} \cup StartAfter(desired, o)
          [] o \in checked -> {}
          [] OTHER -> {[o EXCEPT !.kind = "start"]}
  IN  [o \in stops \cup probes \cup deployed \cup checked |-> Deps(o)]

-----------------------------------------------------------------------------
(* Planning and applying                                                   *)

\* fleet_response over DashboardService.fleet: the health of every node, and
\* the ages of its observation, of its last contact and of its certificate,
\* which are differences to the clock at the instant of the call
FleetEvidence ==
  [ages |-> now,
   node |-> [n \in Nodes |-> [healthy |-> obs[n].healthy, fresh |-> obs[n].fresh]]]

Init ==
  /\ plans = <<>> /\ history = <<>>
  /\ running = [n \in Nodes |-> {}]
  /\ foreign = {}
  /\ obs = [n \in Nodes |-> [healthy |-> TRUE, procs |-> FALSE, fresh |-> TRUE]]
  /\ now = 1
  /\ faults = 0

Resolvable(profile) ==
  /\ Requirements(profile) /\ Releases(profile) /\ CrossReferences(profile)
  /\ AcceptedCurrent # Broken
  /\ \A n \in Nodes : obs[n].fresh
  /\ Place(profile, Available(AcceptedCurrent)).ok

\* _plan_content: what the digest of a plan covers
Content(plan) == [plan EXCEPT !.state = "planned", !.done = {}]

\* resolved_plan and _restore_plan, before a plan is applied
Loads(plan) == Validates(plan.graph)

\* DesiredStateResolver.resolve and ReconciliationOrchestrator's
\* get_or_create_resolved_plan: a plan of the same content is the same row
Plan(profile) ==
  /\ Len(plans) < MaxPlans
  /\ Resolvable(profile)
  /\ LET current == CurrentGroups(AcceptedCurrent)
         desired == Place(profile, Available(AcceptedCurrent)).groups
         graph == Operations(current, desired)
         plan == [current |-> current, desired |-> desired, graph |-> graph,
                  routes |-> Routes(profile, desired), evidence |-> FleetEvidence, state |-> "planned", done |-> {}]
     IN  /\ Parses(graph)
         /\ ~\E i \in DOMAIN plans : Content(plans[i]) = Content(plan)
         /\ plans' = Append(plans, plan)
  /\ UNCHANGED <<history, running, foreign, obs, now, faults>>

\* The apply handler, Reconciler.enqueue and JobService.enqueue_guarded
Apply(i) ==
  /\ plans[i].state = "planned"
  /\ Loads(plans[i])
  /\ plans[i].evidence = FleetEvidence
  /\ plans' = [plans EXCEPT ![i].state = "queued"]
  /\ UNCHANGED <<history, running, foreign, obs, now, faults>>

-----------------------------------------------------------------------------
(* Executing                                                               *)

Active(i) == plans[i].state \in {"running", "undoing", "renewing"}

\* The owner of the publication: the newest plan that has begun.
Owner == Max({0} \cup {i \in DOMAIN plans : plans[i].state \notin {"planned", "queued"}})

Targets(i) == {o.node : o \in DOMAIN plans[i].graph}

\* The plan needs a node whose lease a halted reconciliation has kept.
LeaseKept(i) == \E j \in DOMAIN plans : plans[j].state = "halted" /\ Targets(i) \cap Targets(j) # {}

\* _candidate_id takes the oldest plan that is newer than the owner, also one
\* that was never applied, for which the tick raises; and the node leases of
\* the plan are to be had.
Begin(i) ==
  /\ plans[i].state = "queued"
  /\ ~\E j \in DOMAIN plans : Active(j)
  /\ i = Owner + 1
  /\ ~LeaseKept(i)
  /\ plans' = [plans EXCEPT ![i].state = "running"]
  /\ UNCHANGED <<history, running, foreign, obs, now, faults>>

Ready(i, o) ==
  /\ plans[i].state = "running"
  /\ o \in DOMAIN plans[i].graph \ plans[i].done
  /\ plans[i].graph[o] \subseteq plans[i].done

Procs(n) == running[n] # {} \/ n \in foreign

\* A faulty variant: the probe does not count the GPU processes.
Succeeds_Faulty(o) == o.kind = "verify" => o.w \in running[o.node]

\* What a node answers.  Starting a workload that runs already and stopping
\* one that does not are answered as done.
Succeeds(o) ==
  CASE o.kind = "probe" -> ~Procs(o.node)
    [] o.kind = "verify" -> o.w \in running[o.node]
    [] OTHER -> TRUE

Effect(o) ==
  CASE o.kind = "start" -> [running EXCEPT ![o.node] = @ \cup {o.w}]
    [] o.kind = "stop" -> [running EXCEPT ![o.node] = @ \ {o.w}]
    [] OTHER -> running

Execute(i, o) ==
  /\ Ready(i, o) /\ Succeeds(o)
  /\ running' = Effect(o)
  /\ plans' = [plans EXCEPT ![i].done = @ \cup {o}]
  /\ UNCHANGED <<history, foreign, obs, now, faults>>

Started(i) == {o \in plans[i].done : o.kind = "start"}

\* _handle_primary_failure: when a start or a check fails, the starts that
\* succeeded are compensated; a mutation that leaves nothing to compensate
\* waits for the operator and keeps its node leases ("halted").
Failed(i, o) ==
  CASE o.kind \in {"start", "verify"} /\ Started(i) # {} -> "undoing"
    [] o.kind \in {"install", "start", "stop"} -> "halted"
    [] OTHER -> "failed"

\* An operation fails, or its agent asks for the operator, or a sibling was
\* running: the work may be done all the same.
Fails(i, o) ==
  /\ Ready(i, o)
  /\ IF Succeeds(o) THEN faults < MaxFaults /\ faults' = faults + 1 ELSE UNCHANGED faults
  /\ running' \in (IF Succeeds(o) THEN {running, Effect(o)} ELSE {running})
  /\ \E s \in {Failed(i, o), "halted"} : plans' = [plans EXCEPT ![i].state = s]
  /\ UNCHANGED <<history, foreign, obs, now>>

\* A compensation is an operation of its own: the start it undoes stays a
\* succeeded start of the reconciliation.  When it fails, the reconciliation
\* waits for the operator.
Undo(i) ==
  /\ plans[i].state = "undoing"
  /\ \/ \E o \in Started(i) :
          /\ o.w \in running[o.node]
          /\ running' = [running EXCEPT ![o.node] = @ \ {o.w}]
          /\ UNCHANGED plans
     \/ /\ \A o \in Started(i) : o.w \notin running[o.node]
        /\ plans' = [plans EXCEPT ![i].state = "failed"]
        /\ UNCHANGED running
     \/ /\ plans' = [plans EXCEPT ![i].state = "halted"]
        /\ UNCHANGED running
  /\ UNCHANGED <<history, foreign, obs, now, faults>>

\* Every operation is accepted and the routes are published.
Complete(i) ==
  /\ plans[i].state = "running"
  /\ plans[i].done = DOMAIN plans[i].graph
  /\ plans' = [plans EXCEPT ![i].state = "completed"]
  /\ history' = Append(history, i)
  /\ UNCHANGED <<running, foreign, obs, now, faults>>

\* The route lease of the owner is renewed: it is not completed until its
\* routes are published again, under its first completion generation.
Renew(i) ==
  /\ plans[i].state = "completed" /\ i = Owner
  /\ faults < MaxFaults /\ faults' = faults + 1
  /\ plans' = [plans EXCEPT ![i].state = "renewing"]
  /\ UNCHANGED <<history, running, foreign, obs, now>>

\* ... or its authority is gone: it waits for the operator and gives its node
\* leases back.
Renewed(i) ==
  /\ plans[i].state = "renewing"
  /\ \E s \in {"completed", "waiting"} : plans' = [plans EXCEPT ![i].state = s]
  /\ UNCHANGED <<history, running, foreign, obs, now, faults>>

-----------------------------------------------------------------------------
(* The nodes and the clock                                                 *)

\* The workload of a node exits by itself.
Dies(n) ==
  /\ running[n] # {}
  /\ faults < MaxFaults /\ faults' = faults + 1
  /\ running' = [running EXCEPT ![n] = {}]
  /\ UNCHANGED <<plans, history, foreign, obs, now>>

\* Somebody else's process takes the GPU of a node, or leaves it.
Foreign(n) ==
  /\ \/ /\ n \notin foreign /\ faults < MaxFaults
        /\ faults' = faults + 1 /\ foreign' = foreign \cup {n}
     \/ n \in foreign /\ foreign' = foreign \ {n} /\ UNCHANGED faults
  /\ UNCHANGED <<plans, history, running, obs, now>>

\* bound: what is observed is read by planning and by applying only
Read == Len(plans) < MaxPlans \/ \E i \in DOMAIN plans : plans[i].state = "planned"

Observe(n) ==
  /\ Read
  /\ \E healthy \in BOOLEAN :
       /\ IF healthy \/ ~obs[n].healthy THEN UNCHANGED faults
          ELSE faults < MaxFaults /\ faults' = faults + 1
       /\ obs' = [obs EXCEPT ![n] = [healthy |-> healthy, procs |-> Procs(n), fresh |-> TRUE]]
  /\ UNCHANGED <<plans, history, running, foreign, now>>

\* The node has been silent for longer than the observation TTL.
Silent(n) ==
  /\ Read
  /\ obs[n].fresh
  /\ faults < MaxFaults /\ faults' = faults + 1
  /\ obs' = [obs EXCEPT ![n].fresh = FALSE]
  /\ UNCHANGED <<plans, history, running, foreign, now>>

Tick ==
  /\ now < MaxNow
  /\ \E i \in DOMAIN plans : plans[i].state = "planned"
  /\ now' = now + 1
  /\ UNCHANGED <<plans, history, running, foreign, obs, faults>>

Worker ==
  \E i \in DOMAIN plans :
    \/ Begin(i) \/ Complete(i) \/ Undo(i) \/ Renewed(i)
    \/ \E o \in DOMAIN plans[i].graph : Execute(i, o) \/ Fails(i, o)

Next ==
  \/ \E p \in Profiles : Plan(p)
  \/ \E i \in DOMAIN plans : Apply(i) \/ Renew(i)
  \/ Worker
  \/ \E n \in Nodes : Dies(n) \/ Foreign(n) \/ Observe(n) \/ Silent(n)
  \/ Tick

\* the worker keeps ticking and the agents keep answering
Fairness == WF_vars(Worker)
Spec == Init /\ [][Next]_vars /\ Fairness

-----------------------------------------------------------------------------
States == {"planned", "queued", "running", "undoing", "completed", "renewing", "waiting", "halted", "failed"}

TypeOK ==
  /\ \A i \in DOMAIN plans :
       /\ plans[i].state \in States
       /\ plans[i].done \subseteq DOMAIN plans[i].graph
       /\ (plans[i].state \in {"completed", "renewing", "waiting"}) = (i \in ToSet(history))
  /\ running \in [Nodes -> SUBSET Workloads]
  /\ foreign \subseteq Nodes
  /\ now \in 1 .. MaxNow

\* Every graph the resolver derives is one that the stored plan's validation
\* accepts when the plan is loaded again: the two pieces of code agree on
\* the gates, the barriers and the dependencies.
PlansReload == \A i \in DOMAIN plans : Validates(plans[i].graph)

\* Two workloads never hold a node's GPU at once: not while a plan moves
\* them between nodes, not after a failed plan, and not when a plan made
\* from an older state executes.
NoCoResidence == \A n \in Nodes : Cardinality(running[n]) <= 1

\* While a plan executes, the entrypoint of an ordered group that the plan
\* started has all its workers started before it, and a worker of a group
\* it takes down stops after the entrypoint.
EntrypointOrder ==
  \A i \in DOMAIN plans, w \in Workloads :
    LET Done(n, kind) == Op(w, n, kind) \in plans[i].done
        new == plans[i].desired[w]
        old == plans[i].current[w]
    IN  /\ (new.ordered /\ Done(Entrypoint(new), "start")) =>
             \A n \in Members(new) : Done(n, "start")
        /\ (old.ordered /\ \E n \in Members(old) : Done(n, "stop")) => Done(Entrypoint(old), "stop")

\* The plan that completes first after the state it was made from leaves
\* exactly the groups of its profile behind, and the replay of the recorded
\* evidence says so: what planning believes is what was asked for.
ReplayIsDesired ==
  (AcceptedCurrent # Broken /\ history # <<>>) =>
     AcceptedCurrent = Expected(plans[Last(history)].desired)

\* As long as nothing fails, what planning believes every node runs is what
\* it runs, also while plans that were made from an older state execute.
BeliefIsReal ==
  (faults = 0 /\ AcceptedCurrent # Broken) =>
     \A n \in Nodes : running[n] = {e.w : e \in {x \in AcceptedCurrent : x.node = n}}

\* As long as nothing fails, every route of the plan that completed last
\* leads to a node that runs its workload.
RoutedWorkloadRuns ==
  (faults = 0 /\ AcceptedCurrent # Broken /\ history # <<>>) =>
     \A r \in plans[Last(history)].routes : r.node \in Nodes /\ r.w \in running[r.node]

\* A group that a plan keeps is neither stopped nor started by it.
RetainedUntouched ==
  [][\A i \in DOMAIN plans, n \in Nodes :
       (plans[i].state = "running" /\ running'[n] # running[n]
          /\ \E o \in DOMAIN plans[i].graph : Execute(i, o))
       => \A w \in Workloads :
            (plans[i].current[w] = plans[i].desired[w] /\ n \in Members(plans[i].desired[w]))
               => (w \in running[n]) = (w \in running'[n])]_vars

\* An unapplied plan stands before it, or it, or an applied one before it,
\* needs a node whose lease a halted reconciliation has kept.
Blocked(i) == \E j \in 1 .. i : plans[j].state = "planned" \/ (plans[j].state = "queued" /\ LeaseKept(j))

\* An applied plan ends, however plans fail and whatever the nodes do, unless
\* it is blocked from some time on for ever.
AppliedEnds ==
  \A i \in 1 .. MaxPlans :
    <>[](i \in DOMAIN plans => plans[i].state \notin {"queued", "running", "undoing"} \/ Blocked(i))

=============================================================================
