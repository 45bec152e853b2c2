# Verification of the Vonk Forge control plane and node agents

TLA+ models of the concurrent and crash-prone parts of Vonk Forge, TLC runs that check them on
small instances, and TLAPS proofs that hold for every instance. `PROJECT.json` lists the source
lines that every definition translates, the hazards, and which property covers which.

1. The system
2. Modules and their correspondence to the code
3. Runs
4. Bounds and fairness
5. Proofs
6. What is not modelled

## 1. The system

Vonk Forge runs model-serving workloads on a few GPU nodes.

- The **control plane** (`control/src/vonk_control`) runs beside PostgreSQL as an API process and a
  worker process. It plans desired state, dispatches operations, publishes routes and rolls out
  packages and updates. It never connects to a node.
- The **agent** of a node polls the API over mutual TLS, executes one operation at a time and
  reports its result. There are two: `rust/crates/vonk-agent` and `agent/src/vonk_agent` (Python).
  Each has a root supervisor that selects one of two installed releases, and root helpers that
  launch workloads.
- The **proxy** (LiteLLM) is restarted by `deploy/compose/litellm/config_supervisor.py` whenever
  the route bundle on a shared volume changes.
- The **control host** is backed up and upgraded by a root tool with a journal of its own.

Nearly everything interacts through three means: rows that are changed in short transactions, files
that are replaced one after the other, and requests whose answer may be lost. What is hard is the
same everywhere: a step of somebody else between two steps of one's own, a death between two
writes, and an answer that comes too late.

## 2. Modules and their correspondence to the code

The state of a component are its rows, its files and the place its processes are at; an action is a
transaction, a system call that others can observe, or a message. Data is reduced to what decides:
a release, a key or a payload is a name, a signature is the fact that it verifies.

| Module | Source | State and actions |
|---|---|---|
| `AgentJobs` | `agent_jobs.py` | rows of operations and attempts; enqueue, poll, heartbeat, result, expiry, operator's retry, verdict of the parent, quarantine |
| `AgentDelivery` (extends it) | `vonk-agent`: `main.rs`, `executor.rs`, `state.rs`, `client.rs`; `agent_api.py` | the journal, the place in `run_agent`, requests on the network; crash after any step, lost claims, lost and late reports, certificate renewal |
| `NodeAttempts` | Python agent `main.py`, `operations.py`, `state.py`, `client.py` | main thread and heartbeat thread over one row |
| `NodeLeases`, `NodeLeaseTransactions` | `node_leases.py` | the promise (groups taken and given back whole), and the SQL statements of interleaved transactions |
| `RecipeRuns` | `recipe_operations.py`, `recipe_routes.py`, `recipe_operation_worker.py`, `oci.rs` | installations, runs, ranks, reservations, jobs per node, containers, the live bundle; API and worker as two processes |
| `Reconciliation` | `agent_reconciliation.py`, `reconcile.py`, `orchestration.py` | phases, leases, dispatch, compensation, cancellation, handoff, the route marker |
| `DesiredState` | `desired_state.py`, `placement.py` | replay of accepted evidence, placement, operation graph, plans stored and applied |
| `ControlJobs` | `jobs.py`, `worker.py` | rows of jobs and attempts; claim, quarantine, handlers, heartbeat, the cursor over the sources of work |
| `WorkerAuthority` | `worker_authority.py` | the worker's request, the API's reads around it, the cached decision and its use |
| `RouteBoard`, `RouteRuntime` | `route_runtime.py`, `config_supervisor.py` | the promise to callers, and the volume with marker, lock, boundary and acknowledgement |
| `UpdatePlan`, `UpdateRollout`, `UpdateSigning` | `updates.py`, `update_worker.py`, `update_routes.py`, `update_admin.py`, `update_signer.py`, `update_authority.py` | the planner as functions; one rollout with leases, fence, routes, soak and rollback; grants and receipts |
| `AgentActivation` | `vonk_agent/update.py`, `agent/supervisor` | every file the updater, the activation helper and the supervisor write |
| `SlotSupervisor` | `vonk-agent-supervisor`, `supervisor_readiness.rs`, `postinst` | state, challenge, links, slots, readiness; three programs, power loss between any two replacements |
| `Enrollment`, `NodeCredentials` | `enrollment.py`; `client.py`, `pair.rs`, `identity.rs`, `rotation.rs` | certificates as the control plane records them, and the credential files of both agents |
| `PackageRollouts`, `PackagePlans` | `package_rollouts.py`, `package_rollout_worker.py`, `package_services.py`, `package_validation_runner.py`, `package_publication.py` | the graph per node and its advance; plans, applies, validation, publication |
| `PackageStore`, `Acquisition`, `Materialization`, `PackageEngine` | `agent/src/vonk_agent/packages` | downloads and reservations; mirrors and ranges; builders; generations, pointers and journal |
| `PackageHelper`, `BackendLaunch` | root package helper, backends, sandbox | grant, socket, replay table, units; what a launch opens, checks and seals |
| `NodeReleases` | `releases.py`, `workloads.py` | staging, recovery records, publication, one system call at a time |
| `TufCaches`, `WorkloadTrust` | `update_trust.py` (node and platform), `workload_trust.py`, `workload_signer.py` | metadata files, marker, floor; the signer's files in order |
| `HostUpgrade` | `upgrade.py`, `offline.py`, `host_state.py`, `host_backup.py` | phase programs, probes, effects, journal, compensation, recovery |

`NodeLeaseTransactions` follows PostgreSQL's rules for row locks and conflicting inserts at READ
COMMITTED, and `TufCaches` python-tuf's order of writes; these are external and modelled from how the
code uses them.

Notes on single modules:

- `AgentJobs`. Every method is one transaction that locks the rows it uses, hence one action. A
  fence is a fresh UUID, here the pair of operation and attempt number. Certificates are
  generations of a counter; 0 is a revoked node. `grants` is a history variable. Parents that are
  reconciliations or updates carry further checks of authority that are in `Reconciliation` and
  `UpdateSigning`.
- `AgentDelivery`. What the controller does with a report is the queue's own action, guarded by the
  checks of `agent_api.py`.
- `RecipeRuns`. A request handler with two transactions is two actions. The queue is reduced to its
  order: a node takes its operations oldest first, results may be lost, and an operation whose lease
  ran out is parked. Admission (`Admitted`) keeps the tests that tell runs apart here: every rank
  installed, no other reservation of the port. The rendezvous port 29500 that a run of several nodes
  needs, and the memory that must be free on each node, are left out: both only refuse more.
- `SlotSupervisor`. A command that holds the lock computes its new state, publishes the challenge
  and then replaces the files of its list one by one. `supervise` is a program, `sup.path` what is
  left of it. The agent's start, the challenge check and the package script read without the lock,
  as in the code. `trusted` and `contacted` are history variables. `Refusing` switches on that
  systemd refuses a restart, `Substituting` that the package script replaces a binary between its
  verification and its execution; the code executes the path, so both can happen.
- `PackageRollouts`. `via` distinguishes the queue, which closes the parent job when all its
  operations are terminal, from the direct boundary that the repository's tests use.
- `UpdateSigning`. A request reads its answer together piece by piece (`ReadTarget`, `ReadNodes`,
  `Plan`; for an apply also `Compare`, `IssueGrant`, `Create`), each a transaction or a query of its
  own. A route published after the comparison of the plans is not part of what was approved.
- `ControlJobs`. The check of a result's fence and its commit are two actions, since the row is read
  without a lock. A claim selects and locks one row in one statement and is one action.
- `HostUpgrade`. An effect of a phase is one durable step; `Stranded` lists the states from which no
  further command of the tool leads on.

Operators whose name ends in `_Faulty`, or whose comment begins with "Fault", are deliberately
wrong variants of a definition; no specification uses them. Each shows that some property notices
such a mistake.

## 3. Runs

An `MC` module extends one component or two, gives their constants values, and instantiates further
components with variables of their own. The variable `sel` is chosen in the initial state: a
behaviour is about the component it names, and the variables of the others keep their values. So a
run explores each of its components separately, from all their initial states. Some properties are
contracts: the conjunction of what one component promises, liveness included, where
`sel = "c" /\ Fair => P` has the fairness of that component as its premise.

| Run | Components and instance | Properties |
|---|---|---|
| `queue` | `AgentJobs`: one node, two jobs, three operations of which two mutate, two attempts, clock 0..2, two certificates. `PackageRollouts`: three nodes, all replaced, or one up to date, one empty, one replaced. `PackagePlans`: each kind of plan, two requests, two validation runs, one crash | `QueueSound`, `OneMutationPerNode`, `DecisionsAreFinal`, `RolloutServes`, `PlansHonoured` |
| `delivery` | `AgentDelivery`: two operations, two attempts, clock 0..2. `NodeAttempts`: four kinds of operation, two attempts, two faults. `NodeCredentials`: both agents, three generations, two deaths | `RunsOnce`, `SuccessSound`, `ResultsSurface`, `AttemptsResolve`, `CredentialsSurvive` |
| `leases` | `NodeLeaseTransactions`: three owners with pairwise overlapping targets. `Enrollment`: two requests, three certificates, one crash. `TufCaches`: three roots, two power losses. `Acquisition`: two mirrors, three versions, three faults. `BackendLaunch`: two launches, two changes of files or deaths. `UpdatePlan` over fleets of three and four nodes; `UpdateRollout` on plans of that planner, with faults, a rollback and a resume | `Promised`, `LeasesSettle`, `CertificatesAccounted`, `CachesKeepTrust`, `FetchesRightBytes`, `BackendsAsSigned`, `UpdatesUnderLease` |
| `gang` | `RecipeRuns`: two nodes, one installation, one run, three requests. `PackageStore`: two operations, two components, room for one and a half, one crash, one failing write | `ReservationHeld`, `GangSound`, `StoreAccounts` |
| `ports` | `RecipeRuns`: two runs on one port. `PackageHelper`: three requests, two attempts, two faults. `Materialization`: two builders, two environments, two generations, two faults. `UpdateSigning`: two publications, three generations of a node, one death | `PortsExclusive`, `RunsSettle`, `HelperSpendsOnce`, `BuildsSeparate`, `SigningBounds` |
| `slots` | `SlotSupervisor` twice: three releases, a power loss and refused restarts; two releases, three package installations and substitution. `PackageEngine` twice, with one fault: a deployment with two releases that share an object; two deployments of one release. `NodeReleases`: three attempts, four tokens, a cap of six files | `CommittedWasReady`, `SlotsSound`, `EngineRecovers`, `StagingRecovers` |
| `routes` | `RouteRuntime`: three generations. `AgentActivation`: two publications, two receipts, two power losses. `WorkloadTrust`: two locks, three versions. `SlotSupervisor` without power loss | `BoardSpec`, `RoutesSettle`, `ActivationSettles`, `TrustPublished` |
| `host` | `WorkerAuthority`: two plans of one commit, window 2, two moves of the world. `HostUpgrade`: three generations, two operations, one crash, two failing commands | `PublishedUnderAuthority`, `AuthorityFollowed`, `UpgradeRecoverable` |
| `planning` | `ControlJobs`: two workers, a linked and an unlinked job, two other sources, one death. `DesiredState`: three nodes, two workloads, seven profiles, two plans | `JobsSound`, `JobsSettle`, `PlansReal` |
| `reconciliation` | `Reconciliation`: two reconciliations that share a node, three operations, one loss of authority, a rollout that takes a lease | `PublicationsOwned` |
| `stop_race` | `RecipeRuns`: one node, one run | `RouteWithdrawnBeforeStop`: violated |
| `upgrade_ends` | `HostUpgrade` as in `host` | `UpgradesComplete`: violated |

The properties of the first ten runs hold, those of the last two are violated (section 3.2).

### 3.1 What the properties say, and what they except

- *Queue.* A late or repeated result changes nothing that was decided; two mutations of a node never
  overlap; a mutation has one attempt more than the retries granted; a parent's verdict agrees with
  its operations.
- *Delivery.* A handler runs at most once for an attempt, and for an operation once more than
  retries were granted; "succeeded" is the handler's word; an acknowledged success was recorded or
  came too late; stored results leave the journal. `ResultsSurface` excepts expired operations that
  are held back again and again: a poll looks at the oldest candidate only, and only under a parent
  that is open. `AttemptsResolve` excepts a package operation of the Python agent that was cut off
  after it completed (`Wedged`), `CredentialsSurvive` the wedges named in `NodeCredentials`.
- *Leases.* The transactions implement the promise (refinement), what they read is still so when
  they commit, and they do not wait for each other in a cycle.
- *Credentials.* An enrolled node that was not revoked always holds a key the control plane accepts, and
  no key of a waiting certificate is thrown away. Excepted from the liveness part are an approval that is
  picked up after a reboot (`Rebooted`), a generation directory that a death left without its pointer
  (`Unpointed`, Python), half a pending request (`Halved`, Rust), and the revocation of the node.
- *Recipes.* Reservations outlive containers, hence ports are exclusive; a bundle never routes a gang
  some rank of which was not started. A rank recorded as installed has its files, except when its
  node has taken an uninstall since its last install: the files go first, and the result that corrects
  the row may come late or be lost. A failed publication counts as settled, as it does for the worker.
  `StopsFinish` excepts runs with an operation parked for an operator.
- *Reconciliation.* Operations go out only under the lease, are undone in reverse, and cancelled or
  unauthorised publications come down. `Stalled` excepts three states: a reconciliation that waits for
  the operator keeps its nodes; a cancellation that is requested during the reconciliation's own handoff
  is put off for as long as the handoff is pending (`agent_reconciliation.py` 1042-1046); and a successor
  that displaced it from some of its nodes leaves it with a torn group of leases.
- *Slots.* A generation is committed only by an agent started for it that reached the controller; a
  rollback is final and selects the release that was stable last. Reading of old data
  (`LaunchReadsData`) is checked without `Substituting`, with which it does not hold.
  `SettlesUndisturbed` excepts a power loss, an overwritten slot of the activation, and refused
  restarts: after these the state stays pending.
- *Activation* (Python agent). The slot the node boots from is always whole, a receipt moves the state
  once, and a commit needs a report of that very launch. The supervisor's unit is not restarted by
  systemd: when `supervise` is killed or raises, or the helper stops before it restarts the unit, the
  activation stays pending (`Unsupervised`). A request that is refused `TriggerBurst` times disables its
  path unit.
- *Routes.* Publisher, volume and supervisor implement the board (refinement): what a caller was
  told is live is never followed by something older. Stale routes come down.
- *Trust.* What planning was told is authorised is signed for that commit for good. `PublishEnds` excepts
  expired metadata and a file of the next version that a dying signer left behind (`Collision`), on which
  every later publication fails.
- *Jobs.* A job has at most one attempt that can still end it, an ended job stays ended, and no source
  of work starves. The result of an attempt that passed its check just before its lease was reclaimed is
  written all the same (`WroteLate`, `jobs.py:424`), although `test_jobs.py:176` expects an overtaken worker
  to be refused; the properties except exactly this. `UnlinkedPutAside` and `NoSourceStarves` except a
  source that raises, which ends the worker's loop each time, and a generation that is not selected.
- *Desired state.* Stored plans reload, nodes are never shared, and what planning replays is what was
  asked for. A plan that fails after it changed something leaves a history that cannot be replayed
  (`AcceptedCurrent = Broken`, `desired_state.py:541`): planning then refuses every profile, although the
  design of the control plane (2026-08-03, lines 285-286) says recovery can select a previously accepted commit.
  `AppliedEnds` excepts plans behind an unapplied one, or behind a lease that a halted one has kept.
- *Updates.* A node is updated under its lease with its routes down; every plan the planner accepts
  keeps disruption budgets and exclusions. A superseded boundary record, which nothing repairs, is
  excepted from `PhasesEnd`. A switch happens as the administrator's plan said (`SwitchedAsPlanned`: the
  generation, digest and coverage compared when it was applied), on a recent receipt, and a receipt on
  its grant; the conditions under which the signer refuses for good are named in `DrainedIsSigned` and
  `RollbackIsSigned`.
- *Host.* However an upgrade is cut off, services run only against the database of their own
  revision, a migration has a backup behind it, and an operator who keeps recovering gets to a
  terminal phase or to one of the `Stranded` states:

  | State | Why no command leads on |
  |---|---|
  | `SelectionRefused` | the probe of the selection conflicts while another generation is active, and the phase is performed only when the probe says absent or partial (`offline.py` 893-894, `upgrade.py` 206-223) |
  | `FailureUnprovable` | after a failure before the migration, "failed" demands the predecessor's readiness under a nonce of this operation, which no phase of that program writes (`offline.py` 963-967, `upgrade.py` 138-142) |
  | `PublicationCutOff` | half of two files: a bundle without receipt (`offline.py` 720-722, 1634), a backup's sidecar without archive (`host_backup.py` 816-817), a staging directory that has its receipt and not yet its name, in which the receipt cannot be created again (`host_state.py` 1187-1193), a torn journal entry or plan (`host_state.py` 1832-1856) |
  | `AuthorizationMoved` | the release source has published since, and "authorized" is checked again on every resume (`upgrade.py` 1321-1334, 196-205) |
  | `StagingOfAnother` | the staging directory holds the receipt of another operation's plan (`offline.py` 749-766) |
  | `MigrationUnknown` | the database is at neither of the two revisions (`offline.py` 812-813, 1076-1079) |
  | `RestoreOutdated` | the site was edited after a restore, whose receipt no longer matches (`host_backup.py` 1272-1281) |
- *Package rollouts.* `RolloutServes`: no node is touched before the canary is healthy; a predecessor is
  stopped only for a prepared replacement; "completed" and "rolled-back" mean what they say; and no
  rollout is forgotten. An operator's rollback beside it is the named exception: it marks the rollout and
  queues operations the rollout never looks at. With the queue as boundary, an advance that would enqueue
  beneath a parent job the queue has already closed raises (`agent_jobs.py:328`, closed at `:2277`), so
  every tick raises again, although `package_rollout_worker.py` 38-41 has the worker advance the graph
  after an operation is terminal; with the direct boundary of the repository's tests it does (`via`).
- *Package plans.* A plan is queued once, a second time only after a crash of the API process and under
  another request identifier. What changes between the comparison with the preview and the job, or
  between the comparison of the head and the publication, is not noticed; what changed before the apply
  began always is.
- *Package store and builders.* The store holds verified content only and refuses to open only after a
  failure or a death in one of the windows named in `PackageStore`. It promises no more space than it
  has, but for downloads a restart completed from files whose reservation was gone (`unpaid`). A build
  that no retry builds (`Stuck`) has rotten inputs, rows of an environment that is gone, a partial that
  somebody else began, that is torn or that was fully written when its builder died, or a store that
  does not open. Downloads with a partial that no mirror continues are `Unresumable`.
- *Package engine.* Every generation that may be activated has its lock and its objects on the node, and
  one in use its tree, also when deployments share it. Pointer and journal disagree only within and after
  a death between their two writes (`torn`), and the next activation makes them agree. A failed activation
  is undone, unless the disk failed from the replacement of the pointer on (`lost`).
- *Releases directory.* A release is published whole, a workload's release stays whole, and every
  directory that holds content has a record that leads the next attempt to it; empty directories may have
  none. No attempt recovers from a torn record, a temporary record whose directory is gone, or a removal
  that was cut off (`Wedged`).
- *Helper and backends.* What a unit executes is what was signed. A container or an adapter's process may
  go on without its helper after a kill or a failed cleanup; a unit of systemd-run ends even then.

### 3.2 What the violated properties show

`stop_race`: a stop that is accepted during a start is overtaken by the start's last result, and the
run is routed while it is being stopped. A comment in `recipe_operations.py` says that no stop
command can race a live route.

`upgrade_ends`: a rollback of the control host that nothing disturbs stops its services and comes to its
selection; the probe finds the current generation active, which it calls a conflict rather than work to
be done, and the operation stays pending with the services down. The design and the runbook describe the
rollback as an operation that completes.

Both statements are quoted in `PROJECT.json` under `findings`.

## 4. Bounds and fairness

### 4.1 Bounds

Clocks, attempts, requests, generations, crashes and faults are counted and bounded in the guards
(`Max...`). Two attempts give a late result beside a newer attempt; a clock of two lets a first and
a second lease run out; three owners with pairwise overlapping targets can form a cycle of waits;
three requests are install, start and stop, or install, retry and uninstall; a crash counter of one
puts a death between any two steps, one of two also a death during the recovery from the first.
An activation of a slot is possible below `MaxGeneration`: 3 includes the generation of the
rollback. Two package installations fill both slots, the third overwrites the fallback of an
activation.

Symmetry is used in `gang` only, where nodes, operations and components of the store are
interchangeable and all properties are invariants. Deadlock is not checked: every component comes to
rest once its bounded requests are done, and a behaviour leaves the other components alone.

The bounds do not limit the proofs of section 5.

### 4.2 Fairness

Fairness is assumed of programs and never of persons, single messages or faults, with three
exceptions that the code's own documents ask for: the administrator answers an enrolment
(`NodeCredentials`), the operator runs `recover` while an operation is pending (`HostUpgrade`), and
a publication that failed is asked for again (`WorkloadTrust`).

- Loops and threads go on and systemd or the container runtime restarts them (weak fairness):
  `ControlJobs`, `UpdateRollout`, `UpdateSigning`, `RouteRuntime`, `NodeAttempts`, `SlotSupervisor`,
  `AgentActivation`, `BackendLaunch`, `PackageHelper`, `DesiredState`, `HostUpgrade`, `Acquisition`,
  `WorkloadTrust`. The Python agent's `supervise` is the exception: it goes on once it was started, and
  nothing restarts it. The administrator's requests in `UpdateSigning` have no fairness at all.
- Waits have an end because the code gives them a time limit: a handler (`process.rs`, `health.rs`),
  the acknowledgement of a route (30 seconds), the worker's request for authority, a lease.
- A transaction that waits for a row gets it when it is free again and again, since PostgreSQL wakes
  it (strong fairness in `NodeLeaseTransactions`); so does a builder that waits for a lock file
  (`Materialization`).
- A step that a restart may cut off again and again succeeds some time (strong fairness): the
  agent's reports and polls (`AgentDelivery`), the worker's publication (`RecipeRuns`), the tick of
  a reconciliation (`Reconciliation`), the calls of a rotation (`NodeCredentials`), the worker's
  preparation of authority (`WorkerAuthority`), a refresh (`TufCaches`).

## 5. Proofs

Every theorem is of the form `Spec => []P`, `Spec => [][A]_vars` or a refinement, holds for every
value of the constants that satisfies the named `ASSUME`, and is checked by TLAPS with its SMT,
Zenon and LS4 back ends. "Any number" below includes attempts, requests, crashes and time.

### 5.1 The queue: `AgentDeliveryProofs`, first part (`AgentJobsAssumption`)

That at most one mutation runs on a node depends on an operation being "running" exactly while its
latest attempt is, and the retry budget on grants that are not used yet. `IInv` adds `Ledger`
(attempts exist exactly when the operation has left the queue, a settled attempt has the result of
its operation, the retry disposition names no live attempt) and `UnusedGrants`. From it follow
`TypeCorrect`, `LiveAttempts`, `MutationsExclude`, `RetriesAreGranted`, `VerdictsAgree`,
`QueueStaysSound` (the run's `QueueSound`) and `DecisionsHold`.

### 5.2 The delivery: `AgentDeliveryProofs`, second part (`DeliveryAssumption`)

The assumption says what recipe operations are: all of them mutate, and the agent is able to execute
them. `DeliveryImplementsQueue` shows that agent, network and crashes are an implementation of the
queue: every step is a step of `AgentJobs` on the queue's rows or leaves them alone. So `IInv` of
section 5.1 carries over. `DInv` adds what ties the journal to it: journal numbers never exceed the
attempts of the queue and only grow, so an attempt is not begun twice; a report somebody waits for is
the journal's own entry; an attempt that can no longer be answered for stays so (`PastStays`); every
attempt the controller calls succeeded is among those the handler ended with success. From it follow
`HandlersRunOnce` (`RunsOnce`) and `SuccessesStaySound` (`SuccessSound`): no crash, lost claim, lost
report or late report makes the handler of an attempt run again, or a success be invented or dropped.

### 5.3 Leases and certificates: `NodeProofs`

*Leases* (`TransactionsAssumption`). `IInv` is the type, `ReadsAreCurrent` (what a transaction has
read under lock, or found free while inserting, is still so) and `LocksExclude` (no two transactions
hold the same row). `ReadsStayCurrent` states the second conjunct; from `IInv` `Refinement` shows
that every commit is a step of `NodeLeases` and everything else a stutter (`Promised`);
`GroupsStayWhole` and `LeasesAreNotStolen` follow.

*Certificates*. `CertificateSafety` (`CertificatesAccounted`) holds for any finite set of enrolment
requests, at least one serial number and any number of deaths; these two hypotheses stand in the
theorem. None of the conjuncts is inductive, because an approval and a renewal each take several
transactions with the authority's signature between them. `CertInv` says what each thread may rely on
meanwhile:

- `Accounted`: certificates signed and not recorded, plus the threads that have still to sign, are at
  most the enrolments being issued plus the rotation in progress. A thread is counted from its claim
  on, so a signature moves the count and never raises it. `IssuedAccounted` follows.
- `ApprovalSound` and `RenewalSound`: what was signed has no row yet, the two threads never hold the
  same certificate, and between the claim of a rotation and its row nothing is staged and only a
  migration's certificate can become active. This makes `RowsOrdered` inductive, hence
  `GenerationsOrdered`, and makes the certificate a denied rotation revokes its own.
- `NodeSound`: a node that has not settled on an agent yet has certificates of the Rust agent only, and
  a retired node has a live certificate only from a migration that was approved meanwhile; with it go
  `PythonFenced`, `RetiredDenied` and `KeepsOne`.

### 5.4 Recipes: `RecipeRunProofs` and `RecipeGangProofs` (`RecipeRunsAssumption`)

Why a container never outlives its reservation: a node takes its operations in order (`InOrder`), the
start of a run precedes its stops (`StartsFirst`), so behind a successful stop no start of the run
can execute on that node (`DownAfterStop`), and reservations are given up only when a stop has
succeeded on every node (`ReleasedOnEvidence`). `RunInvariant` is this conjunction;
`ReservationSafety` follows from it, and with `PortsReserved` also `PortSafety`.

Why the rows of a gang are backed by what its nodes did (`GangSafety`, the run's `GangSound`): the
operations remember what a node reported and are never forgotten (`History`). `GangInv` says that a
run has one start job, that a running run has all ranks of it succeeded, and that whatever is offered
for routing, in the live bundle, in the worker's candidate or in a stop request's copy of it
(`Offered`), is such a run. `RealInv` says that a row "installed" is evidence of an install that
succeeded, that the files of the last such install are there unless an uninstall was taken after it,
and that an agent about to report an install has its files. Naming this uninstall is needed because
its result may be recorded long after the files are gone, or be lost. `GInv` is the conjunction of
these with `IInv` and the types.

### 5.5 Routes: `RouteRuntimeProofs` (`GenerationAssumption`)

`BoardInv` (`RouteInvariant`): whatever LiteLLM runs on, or is about to, is at least as new as the
acknowledgement file and as what a caller was told. With it `RuntimeImplementsBoard` shows step by
step that the runtime implements `RouteBoard`.

### 5.6 The slot supervisor: `SlotSupervisor` (`SlotSupervisorAssumption`)

`SlotInv` says of the files and of the two programs that write them: while a command replaces its
files it holds the lock, and what it is about to write suits the recorded state (`LockSound`,
`SelectionSound`); the supervisor waits for an agent only while the state is pending, although it
read the state before it took the lock (`WaitSound`); a stable state, and the fallback of a pending
one, name a release that was stable (`StableIsTrusted`, `FallbackIsTrusted`). The waiting part is what
makes the rest inductive: without it a supervisor that read an old state could commit a new one.
`SlotInvariant` is its proof. From it:

- `FallbacksAreTrusted`: a rollback selects the release that was stable last, whatever the package
  script wrote meanwhile.
- `RollbacksHappenOnce`: once a rollback is recorded nothing selects another slot until it is
  committed.
- `CommitsWereReady` (`CommittedWasReady`): a generation is committed only when its own agent, running
  the selected release, has reached the controller. `ReadySound` adds that what runs is what was
  verified. The theorem has the hypothesis `~Substituting`: with a binary replaced between its
  verification and its execution, a running agent may be another release than the recorded one, and
  the code has no means to notice.

### 5.7 The control jobs: `ControlJobs` (`JobsAssumption`)

`JobsInv` is the type, `Numbered` (a job has as many attempts as the number it carries), `Fenced` (a
worker in a handler holds the number of an existing attempt of a job of no reconciliation),
`OneRunningAttempt` and `LinkedUntouched`. `JobsStaySound` (`JobsSound`) and `EndsAreFinal` follow for
any number of jobs and workers: there is never a second attempt that could still end a job, and a job
that has ended stays as it ended, because the number of an overtaken worker is no longer the current
one when it is checked. Check and commit are two steps, so one case remains: a result that was checked
in time and is committed after the lease was reclaimed (`Committing`, `WroteLate`). Both properties
name it, and the types of `worker[w].result` in `JobsInv` carry the checked result from one step to the
other. That a claim finds an oldest job uses the well-foundedness of the natural numbers.

### 5.8 Authority: `WorkerAuthority` (`AuthorityAssumption`)

Head and evidence never go back and were at least the plan's when the call read them first, so
finding them equal at the second read means they were equal in between, when eligibility was seen.
`AuthorityInv` says this for every stage of the call, for the cached decision and for what is
published. `AuthorityBoundsPublication` (`PublishedUnderAuthority`): a publication happens within the
window of a moment at which its plan had its whole authority. `DeploymentsStayMatched`: the
deployments published with a set of routes were decided for these routes at this address.

### 5.9 Only model-checked

- All liveness properties: the prover has no rules for fairness and ENABLED.
- `RolloutServes` and `StoreAccounts`: the first rests on a fold over the nodes of a rollout, the
  second on sums over sets of components. What these compute for every set needs induction over data.
- `LinksFollowState` and `LaunchReadsData` of `SlotSupervisor`: they depend on the order of the files
  still to be replaced and, for the second, on the history of data schemas, and need invariants over
  the remaining program beyond `SlotInv`.
- The planner (`UpdatePlan`), which is recursive: what a recursive function computes for every input
  needs induction over data.
- The remaining components, which no theorem is about yet.

## 6. What is not modelled

`PROJECT.json` names every component with its status and reason. Left out of the modelled parts are
signatures, digests and file modes; the wording of reasons and evidence; the container work of a
handler beyond its effect and its result; memory sums and the rendezvous port in run admission; image
builds and their distribution; the contents of certificates; several update rollouts at a time;
encodings and transport. Not modelled at all are the HTTP layer, authentication, catalog and imports,
metrics and web interface, the cluster profile CLI, and the legacy route runtime, which only its tests
import.
