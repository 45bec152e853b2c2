-------------------------- MODULE WorkerAuthority --------------------------
(***************************************************************************)
(* The repository-less worker's authority (worker_authority.py): before a  *)
(* reconciliation tick takes its locks, the worker asks the API whether    *)
(* the plan's commit is the head of the repository, still eligible, and    *)
(* its fleet evidence current; the signed answer is cached for at most     *)
(* fifteen seconds and consulted under the locks, by the route publisher   *)
(* too, while head, eligibility, evidence and node addresses move on.      *)
(***************************************************************************)
EXTENDS Naturals, FiniteSets, TLAPS

CONSTANTS
  Plans,        \* reconciliations
  Commit,       \* [Plans -> Nat]: the commit a plan was made from, by its place on the branch
  Evidence,     \* [Plans -> Nat]: the fleet evidence it was accepted on
  Aliases,      \* the route aliases of every plan
  Window,       \* _MAX_ATTESTATION_SECONDS, in clock ticks
  MaxNow, MaxMoves   \* bounds: the clock, and moves of head, checks, evidence, address

ASSUME AuthorityAssumption ==
  /\ Commit \in [Plans -> Nat] /\ Evidence \in [Plans -> Nat]
  /\ Window \in Nat /\ MaxNow \in Nat /\ MaxMoves \in Nat

VARIABLES
  head,       \* the head of the protected deployment branch, which never goes back
  barred,     \* commits whose required checks do not stand
  evidence,   \* version of the fleet evidence
  address,    \* version of the management address of the routes' nodes
  now,
  worker,     \* what the worker is doing: [at, plan]
  call,       \* the evaluation in progress at the API
  cached,     \* the worker's _CachedAuthority
  published,  \* the published routes: [plan, routes, address, by]
  moves,      \* moves still to come
  held        \* when each plan last had its whole authority (history)

world == <<head, barred, evidence, address>>
vars == <<world, now, worker, call, cached, published, moves, held>>

Commits == {Commit[p] : p \in Plans}

NoCall == [st |-> "none"]

NoDecision == [expires |-> 0]

Withdrawn == [routes |-> {}]

Idle == [at |-> "idle"]

\* What the answer is about: at some moment all of this held.
Authoritative(p) == head = Commit[p] /\ Commit[p] \notin barred /\ evidence = Evidence[p]

\* build_published_route for every alias of the plan, at the address last seen.
PublishedRoutes(names) == [routes |-> names, address |-> address]

Init ==
  /\ head = 0 /\ barred \in SUBSET Commits /\ evidence = 0 /\ address = 0 /\ now = 1
  /\ worker = Idle /\ call = NoCall /\ cached = NoDecision /\ published = Withdrawn
  /\ moves = MaxMoves
  /\ held = [p \in Plans |-> IF Authoritative(p) THEN now ELSE 0]

---------------------------------------------------------------------------
(* The worker asks. *)

\* _prepare_authority: the earlier decision is discarded, the plan's identity
\* and routes are read in one short transaction, and the request is sent.
PrepareAuthority(p) ==
  /\ worker.at = "idle" /\ Commit[p] <= head /\ Evidence[p] <= evidence
  /\ cached' = NoDecision
  /\ worker' = [at |-> "waiting", plan |-> p]
  /\ call' = [st |-> "sent", plan |-> p, routes |-> PublishedRoutes(Aliases)]
  /\ UNCHANGED <<world, now, published, moves>>

---------------------------------------------------------------------------
(* The API answers (evaluate): evidence and head are read before and after *)
(* eligibility and the deployments, each read a moment of its own, and the *)
(* answer's age counts from before.                                        *)

\* The routes the API computes itself must be the ones it is asked about.
InputValid == call.routes = PublishedRoutes(Aliases)

EvaluateEvidence ==
  /\ call.st = "sent" /\ InputValid
  /\ call' = [st |-> "evidence", plan |-> call.plan, routes |-> call.routes, issued |-> now,
              evidence |-> evidence = Evidence[call.plan]]
  /\ UNCHANGED <<world, now, worker, cached, published, moves>>

EvaluateHead ==
  /\ call.st = "evidence"
  /\ call' = [st |-> "head", plan |-> call.plan, routes |-> call.routes, issued |-> call.issued,
              evidence |-> call.evidence, current |-> head = Commit[call.plan]]
  /\ UNCHANGED <<world, now, worker, cached, published, moves>>

EvaluateEligible ==
  /\ call.st = "head"
  /\ call' = [st |-> "eligible", plan |-> call.plan, routes |-> call.routes, issued |-> call.issued,
              evidence |-> call.evidence, current |-> call.current,
              eligible |-> call.current /\ Commit[call.plan] \notin barred]
  /\ UNCHANGED <<world, now, worker, cached, published, moves>>

\* A faulty variant: head is not looked at again.
EvaluateHeadAgain_Faulty ==
  /\ call.st = "eligible"
  /\ call' = [st |-> "again", plan |-> call.plan, routes |-> call.routes, issued |-> call.issued,
              evidence |-> call.evidence, current |-> call.current, eligible |-> call.eligible]
  /\ UNCHANGED <<world, now, worker, cached, published, moves>>

EvaluateHeadAgain ==
  /\ call.st = "eligible"
  /\ LET current == call.current /\ head = Commit[call.plan]
     IN  call' = [st |-> "again", plan |-> call.plan, routes |-> call.routes,
                  issued |-> call.issued, evidence |-> call.evidence,
                  current |-> current, eligible |-> call.eligible /\ current]
  /\ UNCHANGED <<world, now, worker, cached, published, moves>>

EvaluateEvidenceAgain ==
  /\ call.st = "again"
  /\ call' = [st |-> "answered", plan |-> call.plan, routes |-> call.routes, issued |-> call.issued,
              evidence |-> call.evidence /\ evidence = Evidence[call.plan],
              current |-> call.current, eligible |-> call.eligible]
  /\ UNCHANGED <<world, now, worker, cached, published, moves>>

\* The answer is for this request and not yet out of date when it is read.
ResponseValid == call.issued <= now /\ now < call.issued + Window

\* prefetch: the decision is cached, whatever it says.
Receive ==
  /\ worker.at = "waiting" /\ call.st = "answered" /\ ResponseValid
  /\ cached' = [plan |-> call.plan, routes |-> call.routes, expires |-> call.issued + Window,
                yes |-> call.current /\ call.eligible /\ call.evidence]
  /\ worker' = [at |-> "locked", plan |-> worker.plan] /\ call' = NoCall
  /\ UNCHANGED <<world, now, published, moves>>

\* The request is refused, lost, answered too late or not at all: the tick
\* goes on without a decision.
Unavailable ==
  /\ worker.at = "waiting"
  /\ worker' = [at |-> "locked", plan |-> worker.plan] /\ call' = NoCall
  /\ UNCHANGED <<world, now, cached, published, moves>>

---------------------------------------------------------------------------
(* The decision is used. *)

RequireCached == now < cached.expires

\* authorized, authorization_reason: this plan, these routes, and a yes.
Authorized(p) ==
  /\ RequireCached
  /\ cached.plan = p /\ cached.routes = PublishedRoutes(Aliases)
  /\ cached.yes

\* deployments: only for the very routes that were decided on.
Deployments(p, names) ==
  /\ RequireCached
  /\ Commit[cached.plan] = Commit[p] /\ cached.routes = PublishedRoutes(names)
  /\ cached.yes

\* The locked tick of a plan that still has its authority publishes its
\* routes, with the Hermes deployments of the decision.
Publish ==
  /\ worker.at = "locked" /\ Authorized(worker.plan) /\ Deployments(worker.plan, Aliases)
  /\ published' = [plan |-> worker.plan, routes |-> Aliases, address |-> address,
                   deployments |-> cached.routes, by |-> "reconciliation"]
  /\ worker' = Idle
  /\ UNCHANGED <<world, now, call, cached, moves>>

\* A faulty variant: the tick stops at the missing decision.
AuthorityLost_Faulty ==
  /\ worker.at = "locked" /\ ~Authorized(worker.plan)
  /\ worker' = Idle
  /\ UNCHANGED <<world, now, call, cached, published, moves>>

\* Without it the publication comes down, if it is this plan's.
AuthorityLost ==
  /\ worker.at = "locked" /\ ~Authorized(worker.plan)
  /\ published' = IF published # Withdrawn /\ published.plan = worker.plan THEN Withdrawn ELSE published
  /\ worker' = Idle
  /\ UNCHANGED <<world, now, call, cached, moves>>

\* An update rollout's publication goes through the same publisher, with
\* whatever decision the last reconciliation tick has left: the routes of the
\* plan, or those whose nodes are not in the batch.
UpdatePublishes(names) ==
  /\ worker.at = "idle" /\ published # Withdrawn /\ names # {}
  /\ Deployments(published.plan, names)
  /\ published' = [plan |-> published.plan, routes |-> names, address |-> address,
                   deployments |-> cached.routes, by |-> "update"]
  /\ UNCHANGED <<world, now, worker, call, cached, moves>>

---------------------------------------------------------------------------
(* The world moves on. *)

Moved == moves > 0 /\ moves' = moves - 1

Push ==
  /\ Moved /\ head' = head + 1
  /\ UNCHANGED <<barred, evidence, address, now, worker, call, cached, published>>

\* A required check of the commit fails, or is run again and succeeds.
Recheck(c) ==
  /\ Moved /\ barred' = IF c \in barred THEN barred \ {c} ELSE barred \cup {c}
  /\ UNCHANGED <<head, evidence, address, now, worker, call, cached, published>>

FleetMoves ==
  /\ Moved /\ evidence' = evidence + 1
  /\ UNCHANGED <<head, barred, address, now, worker, call, cached, published>>

NodeMoves ==
  /\ Moved /\ address' = address + 1
  /\ UNCHANGED <<head, barred, evidence, now, worker, call, cached, published>>

Tick ==
  /\ now < MaxNow /\ now' = now + 1
  /\ UNCHANGED <<world, worker, call, cached, published, moves>>

Step ==
  \/ \E p \in Plans : PrepareAuthority(p)
  \/ EvaluateEvidence \/ EvaluateHead \/ EvaluateEligible
  \/ EvaluateHeadAgain \/ EvaluateEvidenceAgain
  \/ Receive \/ Unavailable \/ Publish \/ AuthorityLost
  \/ \E names \in SUBSET Aliases : UpdatePublishes(names)
  \/ \E c \in Commits : Recheck(c)
  \/ Push \/ FleetMoves \/ NodeMoves \/ Tick

Next == Step /\ held' = [p \in Plans |-> IF Authoritative(p)' THEN now' ELSE held[p]]

\* The worker's loop goes on, and a request it sent ends with its timeout.
Fairness ==
  /\ \A p \in Plans : SF_vars(Next /\ PrepareAuthority(p))
  /\ WF_vars(Next /\ (Receive \/ Unavailable)) /\ WF_vars(Next /\ (Publish \/ AuthorityLost))

Spec == Init /\ [][Next]_vars /\ Fairness

---------------------------------------------------------------------------
(* Properties. *)

\* The worker, the call, the decision and the publication have their types.
TypeOK ==
  /\ worker.at \in {"idle", "waiting", "locked"}
  /\ call.st \in {"none", "sent", "evidence", "head", "eligible", "again", "answered"}
  /\ cached # NoDecision => cached.plan \in Plans /\ cached.yes \in BOOLEAN
  /\ cached.expires \in 0 .. MaxNow + Window
  /\ published # Withdrawn => published.plan \in Plans /\ published.routes \subseteq Aliases

\* Whatever moved between the API's reads, on the wire and under the locks, a
\* plan is only ever published for within the window of a moment at which its
\* commit was the head, eligible, and its evidence current, all at once.
PublishedUnderAuthority ==
  [][(published' # published /\ published' # Withdrawn) => now < held[published'.plan] + Window]_vars

\* The Hermes deployments that go out with a set of routes were decided for
\* exactly these routes at exactly this address.
DeploymentsMatchRoutes ==
  published # Withdrawn =>
    published.deployments = [routes |-> published.routes, address |-> published.address]

\* A plan that has lost its authority for good does not stay published.
LostAuthorityComesDown ==
  \A p \in Plans :
    <>[](~Authoritative(p)) => []<>(published = Withdrawn \/ published.plan # p)

---------------------------------------------------------------------------
(* PublishedUnderAuthority and DeploymentsMatchRoutes for every set of      *)
(* plans, any window and any number of moves.  Head and evidence never go   *)
(* back and were at least the plan's when it was read, so finding them      *)
(* equal at the second read means they were equal all along; eligibility,   *)
(* which may come and go, was seen in between.  So at every stage of the    *)
(* call the answer, if it is still to be yes, implies a moment of full      *)
(* authority no earlier than the time the answer counts from.               *)

WorldTypes ==
  /\ head \in Nat /\ evidence \in Nat /\ address \in Nat /\ now \in Nat
  /\ held \in [Plans -> Nat]

HeldInv == \A p \in Plans : held[p] <= now /\ (Authoritative(p) => held[p] = now)

AsSent(r, a) == r = [routes |-> Aliases, address |-> r.address] /\ r.address \in Nat /\ r.address <= a

\* The stages at which the answer may still be yes, in terms of what is yet to be read.
StageInv ==
  LET p == call.plan
  IN  /\ call.st = "eligible" =>
           (call.eligible /\ head = Commit[p] /\ evidence = Evidence[p] => call.issued <= held[p])
      /\ call.st = "again" => (call.eligible /\ evidence = Evidence[p] => call.issued <= held[p])
      /\ call.st = "answered" => (call.eligible /\ call.evidence => call.issued <= held[p])

CallInv ==
  call.st # "none" =>
    /\ call.plan \in Plans /\ Commit[call.plan] <= head /\ Evidence[call.plan] <= evidence
    /\ worker.at = "waiting" /\ worker.plan = call.plan
    /\ AsSent(call.routes, address)
    /\ call.st # "sent" => call.issued \in Nat /\ call.issued <= now
    /\ StageInv

CachedInv ==
  /\ cached.expires \in Nat
  /\ cached.expires > 0 =>
       /\ cached.plan \in Plans /\ AsSent(cached.routes, address)
       /\ worker.at # "waiting" /\ (worker.at = "locked" => worker.plan = cached.plan)
       /\ cached.yes => cached.expires <= held[cached.plan] + Window

PublishedInv ==
  /\ worker.at # "idle" => worker.plan \in Plans
  /\ published # Withdrawn => published.plan \in Plans
  /\ worker.at = "idle" /\ published # Withdrawn /\ now < cached.expires /\ cached.yes
     /\ cached.routes.address = address => published.plan = cached.plan

AuthorityInv ==
  WorldTypes /\ HeldInv /\ CallInv /\ CachedInv /\ PublishedInv /\ DeploymentsMatchRoutes

LEMMA AuthorityInitially == Init => AuthorityInv
<1> SUFFICES ASSUME Init PROVE AuthorityInv
  OBVIOUS
<1>1. WorldTypes
  BY DEF Init, WorldTypes
<1>2. HeldInv
  BY DEF Init, HeldInv
<1>3. CallInv /\ CachedInv
  BY DEF Init, CallInv, NoCall, CachedInv, NoDecision
<1>4. PublishedInv /\ DeploymentsMatchRoutes
  BY DEF Init, PublishedInv, DeploymentsMatchRoutes, Idle
<1> QED BY <1>1, <1>2, <1>3, <1>4 DEF AuthorityInv

\* No step moves the clock, the branch, the evidence or the addresses back.
LEMMA WorldStep ==
  ASSUME AuthorityInv, Step
  PROVE  /\ head' \in Nat /\ evidence' \in Nat /\ address' \in Nat /\ now' \in Nat
         /\ head <= head' /\ evidence <= evidence' /\ address <= address' /\ now <= now'
<1>1. head \in Nat /\ evidence \in Nat /\ address \in Nat /\ now \in Nat
  BY DEF AuthorityInv, WorldTypes
<1>2. CASE Push \/ FleetMoves \/ NodeMoves \/ Tick
  BY <1>1, <1>2 DEF Push, FleetMoves, NodeMoves, Tick, world
<1>3. CASE UNCHANGED <<head, evidence, address, now>>
  BY <1>1, <1>3
<1>4. Push \/ FleetMoves \/ NodeMoves \/ Tick \/ UNCHANGED <<head, evidence, address, now>>
  BY DEF Step, PrepareAuthority, EvaluateEvidence, EvaluateHead, EvaluateEligible, EvaluateHeadAgain,
         EvaluateEvidenceAgain, Receive, Unavailable, Publish, AuthorityLost, UpdatePublishes, Recheck, world
<1> QED BY <1>2, <1>3, <1>4

\* The history of full authority only grows.
LEMMA HeldStep ==
  ASSUME AuthorityInv, Next
  PROVE  WorldTypes' /\ HeldInv' /\ \A p \in Plans : held[p] <= held'[p]
<1>1. /\ head' \in Nat /\ evidence' \in Nat /\ address' \in Nat /\ now' \in Nat /\ now <= now'
  BY WorldStep DEF Next
<1>2. held' = [p \in Plans |-> IF Authoritative(p)' THEN now' ELSE held[p]]
  BY DEF Next
<1>3. held \in [Plans -> Nat] /\ now \in Nat /\ \A p \in Plans : held[p] <= now
  BY DEF AuthorityInv, WorldTypes, HeldInv
<1> QED BY <1>1, <1>2, <1>3 DEF WorldTypes, HeldInv
\* What was sent stays something the addresses have reached.
LEMMA SentStep ==
  ASSUME AuthorityInv, Next, NEW r, AsSent(r, address) PROVE AsSent(r, address')
  BY WorldStep DEF Next, AsSent, AuthorityInv, WorldTypes

\* A call that is not at work is as good as it was: what has moved past the
\* plan's commit or evidence does not come back to it.
LEMMA CallWaits ==
  ASSUME AuthorityInv, Next, UNCHANGED <<call, worker>> PROVE CallInv'
<1> SUFFICES ASSUME call.st # "none" PROVE CallInv'
  BY DEF CallInv
<1> DEFINE p == call.plan
<1>1. /\ p \in Plans /\ Commit[p] <= head /\ Evidence[p] <= evidence
      /\ worker.at = "waiting" /\ worker.plan = p /\ AsSent(call.routes, address)
      /\ call.st # "sent" => call.issued \in Nat /\ call.issued <= now
      /\ StageInv
  BY DEF AuthorityInv, CallInv
<1>2. Commit[p] \in Nat /\ Evidence[p] \in Nat
  BY <1>1, AuthorityAssumption
<1>3. /\ head \in Nat /\ evidence \in Nat /\ now \in Nat
      /\ head' \in Nat /\ evidence' \in Nat /\ now' \in Nat
      /\ head <= head' /\ evidence <= evidence' /\ now <= now'
      /\ held[p] \in Nat /\ held'[p] \in Nat /\ held[p] <= held'[p]
  BY <1>1, WorldStep, HeldStep DEF Next, AuthorityInv, WorldTypes
<1>4. Commit[p] <= head' /\ Evidence[p] <= evidence'
  BY <1>1, <1>2, <1>3
<1>5. (head' = Commit[p] => head = Commit[p]) /\ (evidence' = Evidence[p] => evidence = Evidence[p])
  BY <1>1, <1>2, <1>3
<1>6. call.st # "sent" => call.issued \in Nat /\ call.issued <= now' /\ (call.issued <= held[p] => call.issued <= held'[p])
  BY <1>1, <1>3
<1>7. StageInv'
  BY <1>1, <1>5, <1>6 DEF StageInv
<1> QED BY <1>1, <1>4, <1>6, <1>7, SentStep DEF CallInv

\* The moment eligibility is read: with head and evidence as they should be,
\* that is a moment of full authority.
LEMMA EligibleKeeps ==
  ASSUME AuthorityInv, Next, EvaluateEligible PROVE CallInv'
<1> DEFINE p == call.plan
<1>1. /\ p \in Plans /\ Commit[p] <= head /\ Evidence[p] <= evidence
      /\ worker.at = "waiting" /\ worker.plan = p /\ AsSent(call.routes, address)
      /\ call.issued \in Nat /\ call.issued <= now
  BY DEF AuthorityInv, CallInv, EvaluateEligible
<1>2. UNCHANGED <<head, barred, evidence, address, now, worker>>
  BY DEF EvaluateEligible, world
<1>3. /\ call'.st = "eligible" /\ call'.plan = p /\ call'.routes = call.routes
      /\ call'.issued = call.issued
  BY DEF EvaluateEligible
<1>4. call'.eligible => Commit[p] \notin barred
  BY DEF EvaluateEligible
<1>5. head = Commit[p] /\ evidence = Evidence[p] /\ Commit[p] \notin barred => held'[p] = now
  BY <1>1, <1>2, HeldStep DEF HeldInv, Authoritative
<1>6. StageInv'
  BY <1>1, <1>2, <1>3, <1>4, <1>5 DEF StageInv
<1> QED BY <1>1, <1>2, <1>3, <1>6, SentStep DEF CallInv
\* The reads before and after it.
LEMMA ReadsKeep ==
  ASSUME AuthorityInv, Next,
         EvaluateEvidence \/ EvaluateHead \/ EvaluateHeadAgain \/ EvaluateEvidenceAgain
  PROVE  CallInv'
<1> DEFINE p == call.plan
<1>1. /\ p \in Plans /\ Commit[p] <= head /\ Evidence[p] <= evidence
      /\ worker.at = "waiting" /\ worker.plan = p /\ AsSent(call.routes, address)
      /\ call.st # "sent" => call.issued \in Nat /\ call.issued <= now
      /\ StageInv
  BY DEF AuthorityInv, CallInv, EvaluateEvidence, EvaluateHead, EvaluateHeadAgain, EvaluateEvidenceAgain
<1>2. UNCHANGED <<head, evidence, address, now, worker>> /\ AsSent(call.routes, address')
  BY <1>1, SentStep DEF EvaluateEvidence, EvaluateHead, EvaluateHeadAgain, EvaluateEvidenceAgain, world, AsSent
<1>3. now \in Nat /\ held[p] \in Nat /\ held'[p] \in Nat /\ held[p] <= held'[p]
  BY <1>1, HeldStep DEF AuthorityInv, WorldTypes
<1>4. CASE EvaluateEvidence
  <2>1. call'.st = "evidence" /\ call'.plan = p /\ call'.routes = call.routes /\ call'.issued = now
    BY <1>4 DEF EvaluateEvidence
  <2> QED BY <1>1, <1>2, <1>3, <2>1 DEF CallInv, StageInv, AsSent
<1>5. CASE EvaluateHead
  <2>1. /\ call'.st = "head" /\ call'.plan = p /\ call'.routes = call.routes
        /\ call'.issued = call.issued /\ call.st = "evidence"
    BY <1>5 DEF EvaluateHead
  <2> QED BY <1>1, <1>2, <2>1 DEF CallInv, StageInv, AsSent
<1>6. CASE EvaluateHeadAgain
  <2>1. /\ call'.st = "again" /\ call'.plan = p /\ call'.routes = call.routes
        /\ call'.issued = call.issued /\ call.st = "eligible"
    BY <1>6 DEF EvaluateHeadAgain
  <2>2. call'.eligible => call.eligible /\ head = Commit[p]
    BY <1>6 DEF EvaluateHeadAgain
  <2>3. StageInv'
    BY <1>1, <1>2, <1>3, <2>1, <2>2 DEF StageInv
  <2> QED BY <1>1, <1>2, <2>1, <2>3 DEF CallInv, AsSent
<1>7. CASE EvaluateEvidenceAgain
  <2>1. /\ call'.st = "answered" /\ call'.plan = p /\ call'.routes = call.routes
        /\ call'.issued = call.issued /\ call.st = "again"
    BY <1>7 DEF EvaluateEvidenceAgain
  <2>2. (call'.eligible => call.eligible) /\ (call'.evidence => evidence = Evidence[p])
    BY <1>7 DEF EvaluateEvidenceAgain
  <2>3. StageInv'
    BY <1>1, <1>2, <1>3, <2>1, <2>2 DEF StageInv
  <2> QED BY <1>1, <1>2, <2>1, <2>3 DEF CallInv, AsSent
<1> QED BY <1>4, <1>5, <1>6, <1>7

LEMMA CallStep == ASSUME AuthorityInv, Next PROVE CallInv'
<1>1. ASSUME NEW p \in Plans, PrepareAuthority(p) PROVE CallInv'
  <2>1. /\ call'.st = "sent" /\ call'.plan = p
        /\ call'.routes = [routes |-> Aliases, address |-> address]
        /\ worker'.at = "waiting" /\ worker'.plan = p
        /\ Commit[p] <= head /\ Evidence[p] <= evidence
    BY <1>1 DEF PrepareAuthority, PublishedRoutes
  <2>2. UNCHANGED <<head, evidence, address>>
    BY <1>1 DEF PrepareAuthority, world
  <2>3. AsSent(call'.routes, address')
    BY <2>1, <2>2 DEF AsSent, AuthorityInv, WorldTypes
  <2> QED BY <2>1, <2>2, <2>3 DEF CallInv, StageInv
<1>2. ASSUME Receive \/ Unavailable PROVE CallInv'
  BY <1>2 DEF Receive, Unavailable, NoCall, CallInv
<1>3. ASSUME Publish \/ AuthorityLost PROVE CallInv'
  <2>1. call' = call /\ call.st = "none"
    BY <1>3 DEF Publish, AuthorityLost, AuthorityInv, CallInv
  <2> QED BY <2>1 DEF CallInv
<1>4. ASSUME \/ \E names \in SUBSET Aliases : UpdatePublishes(names)
             \/ \E c \in Commits : Recheck(c)
             \/ Push \/ FleetMoves \/ NodeMoves \/ Tick
      PROVE  CallInv'
  <2>1. UNCHANGED <<call, worker>>
    BY <1>4 DEF UpdatePublishes, Recheck, Push, FleetMoves, NodeMoves, Tick
  <2> QED BY <2>1, CallWaits
<1> QED BY <1>1, <1>2, <1>3, <1>4, ReadsKeep, EligibleKeeps DEF Next, Step

\* The decision: as good as the moment its answer counts from.
LEMMA CachedStep == ASSUME AuthorityInv, Next PROVE CachedInv'
<1>1. ASSUME UNCHANGED cached, cached.expires > 0 => worker'.at # "waiting" /\
               (worker'.at = "locked" => worker'.plan = cached.plan)
      PROVE  CachedInv'
  <2>1. CachedInv
    BY DEF AuthorityInv
  <2>2. \A p \in Plans : held[p] \in Nat /\ held'[p] \in Nat /\ held[p] <= held'[p]
    BY HeldStep DEF AuthorityInv, WorldTypes
  <2>3. cached.expires > 0 => AsSent(cached.routes, address')
    BY <2>1, SentStep DEF CachedInv
  <2>4. cached.expires > 0 /\ cached.yes => cached.expires <= held'[cached.plan] + Window
    BY <2>1, <2>2, AuthorityAssumption DEF CachedInv
  <2> QED BY <1>1, <2>1, <2>3, <2>4 DEF CachedInv, AsSent
<1>2. ASSUME NEW p \in Plans, PrepareAuthority(p) PROVE CachedInv'
  BY <1>2 DEF PrepareAuthority, NoDecision, CachedInv
<1>3. CASE Receive
  <2> DEFINE p == call.plan
  <2>1. /\ p \in Plans /\ worker.plan = p /\ AsSent(call.routes, address) /\ call.st = "answered"
        /\ call.issued \in Nat /\ StageInv
    BY <1>3 DEF Receive, AuthorityInv, CallInv
  <2>2. /\ cached'.expires = call.issued + Window /\ cached'.plan = p /\ cached'.routes = call.routes
        /\ worker'.at = "locked" /\ worker'.plan = p
    BY <1>3, <2>1 DEF Receive
  <2>3. cached'.yes => call.eligible /\ call.evidence
    BY <1>3 DEF Receive
  <2>4. held[p] \in Nat /\ held'[p] \in Nat /\ held[p] <= held'[p]
    BY <2>1, HeldStep DEF AuthorityInv, WorldTypes
  <2>5. cached'.yes => cached'.expires <= held'[p] + Window
    BY <2>1, <2>2, <2>3, <2>4, AuthorityAssumption DEF StageInv
  <2>6. AsSent(call.routes, address')
    BY <2>1, SentStep
  <2> QED BY <2>1, <2>2, <2>5, <2>6, AuthorityAssumption DEF CachedInv
<1>4. CASE Unavailable
  <2>1. cached' = cached /\ ~(cached.expires > 0)
    BY <1>4 DEF Unavailable, AuthorityInv, CachedInv
  <2> QED BY <1>1, <2>1
<1>5. CASE Publish \/ AuthorityLost
  <2>1. cached' = cached /\ worker'.at = "idle"
    BY <1>5 DEF Publish, AuthorityLost, Idle
  <2> QED BY <1>1, <2>1
<1>6. CASE UNCHANGED <<cached, worker>>
  BY <1>1, <1>6 DEF AuthorityInv, CachedInv
<1> QED BY <1>2, <1>3, <1>4, <1>5, <1>6 DEF Next, Step, EvaluateEvidence, EvaluateHead, EvaluateEligible,
           EvaluateHeadAgain, EvaluateEvidenceAgain, UpdatePublishes, Recheck, Push, FleetMoves, NodeMoves, Tick
\* A publication another plan left behind is not renewed on this plan's
\* decision: the tick that took the decision replaced it, or found the decision
\* of no use, which it then stays.
LEMMA PublishedStep == ASSUME AuthorityInv, Next PROVE PublishedInv' /\ DeploymentsMatchRoutes'
<1>1. PublishedInv /\ CachedInv /\ DeploymentsMatchRoutes
  BY DEF AuthorityInv
<1>2. ASSUME NEW p \in Plans, PrepareAuthority(p) PROVE PublishedInv' /\ DeploymentsMatchRoutes'
  BY <1>1, <1>2 DEF PrepareAuthority, PublishedInv, DeploymentsMatchRoutes
<1>3. CASE Receive \/ Unavailable
  BY <1>1, <1>3 DEF Receive, Unavailable, PublishedInv, DeploymentsMatchRoutes
<1>4. CASE Publish
  <2>1. /\ worker.at = "locked" /\ cached.plan = worker.plan
        /\ cached.routes = [routes |-> Aliases, address |-> address]
    BY <1>4 DEF Publish, Authorized, PublishedRoutes
  <2>2. published' = [plan |-> worker.plan, routes |-> Aliases, address |-> address,
                      deployments |-> cached.routes, by |-> "reconciliation"]
    BY <1>4 DEF Publish
  <2>3. cached' = cached /\ worker' = Idle
    BY <1>4 DEF Publish
  <2>4. PublishedInv'
    BY <1>1, <2>1, <2>2, <2>3 DEF PublishedInv, Idle
  <2>5. DeploymentsMatchRoutes'
    BY <2>1, <2>2 DEF DeploymentsMatchRoutes
  <2> QED BY <2>4, <2>5
<1>5. CASE AuthorityLost
  <2>1. worker.at = "locked" /\ ~Authorized(worker.plan) /\ worker' = Idle
        /\ UNCHANGED <<now, cached, address>>
    BY <1>5 DEF AuthorityLost, world
  <2>2. published' = published \/ published' = Withdrawn
    BY <1>5 DEF AuthorityLost
  <2>3. cached.expires > 0 => cached.plan = worker.plan /\ AsSent(cached.routes, address)
    BY <1>1, <2>1 DEF CachedInv
  <2>4. ~(now < cached.expires /\ cached.yes /\ cached.routes.address = address)
    <3> SUFFICES ASSUME now < cached.expires, cached.yes, cached.routes.address = address PROVE FALSE
      OBVIOUS
    <3>1. cached.expires > 0
      BY <1>1 DEF CachedInv, AuthorityInv, WorldTypes
    <3>2. cached.routes = PublishedRoutes(Aliases)
      BY <2>3, <3>1 DEF AsSent, PublishedRoutes
    <3> QED BY <2>1, <2>3, <3>1, <3>2 DEF Authorized, RequireCached
  <2>5. PublishedInv'
    BY <1>1, <2>1, <2>2, <2>4 DEF PublishedInv, Idle
  <2> QED BY <1>1, <2>2, <2>5 DEF DeploymentsMatchRoutes
<1>6. ASSUME NEW names \in SUBSET Aliases, UpdatePublishes(names)
      PROVE  PublishedInv' /\ DeploymentsMatchRoutes'
  <2>1. /\ published # Withdrawn /\ UNCHANGED <<now, worker, cached, address>>
        /\ published' = [plan |-> published.plan, routes |-> names, address |-> address,
                         deployments |-> cached.routes, by |-> "update"]
        /\ cached.routes = [routes |-> names, address |-> address]
    BY <1>6 DEF UpdatePublishes, Deployments, PublishedRoutes, world
  <2>2. PublishedInv'
    BY <1>1, <2>1 DEF PublishedInv
  <2> QED BY <2>1, <2>2 DEF DeploymentsMatchRoutes
<1>7. CASE NodeMoves
  <2>1. UNCHANGED <<now, worker, cached, published>> /\ address' = address + 1 /\ address \in Nat
    BY <1>7 DEF NodeMoves, AuthorityInv, WorldTypes
  <2>2. now < cached.expires => cached.routes.address # address'
    BY <1>1, <2>1 DEF CachedInv, AsSent, AuthorityInv, WorldTypes
  <2> QED BY <1>1, <2>1, <2>2 DEF PublishedInv, DeploymentsMatchRoutes
<1>8. CASE Tick
  <2>1. UNCHANGED <<worker, cached, published, address>> /\ (now' < cached.expires => now < cached.expires)
    BY <1>1, <1>8 DEF Tick, world, CachedInv, AuthorityInv, WorldTypes
  <2> QED BY <1>1, <2>1 DEF PublishedInv, DeploymentsMatchRoutes
<1>9. CASE UNCHANGED <<worker, cached, published, address, now>>
  BY <1>1, <1>9 DEF PublishedInv, DeploymentsMatchRoutes
<1> QED BY <1>2, <1>3, <1>4, <1>5, <1>6, <1>7, <1>8, <1>9
           DEF Next, Step, EvaluateEvidence, EvaluateHead, EvaluateEligible, EvaluateHeadAgain,
               EvaluateEvidenceAgain, Recheck, Push, FleetMoves, world

LEMMA AuthorityStep == AuthorityInv /\ [Next]_vars => AuthorityInv'
<1>1. CASE Next
  BY <1>1, HeldStep, CallStep, CachedStep, PublishedStep DEF AuthorityInv
<1>2. CASE UNCHANGED vars
  BY <1>2 DEF vars, world, AuthorityInv, WorldTypes, HeldInv, Authoritative, CallInv, StageInv, CachedInv,
              PublishedInv, DeploymentsMatchRoutes
<1> QED BY <1>1, <1>2

\* The deployments that accompany published routes were decided for exactly
\* these routes, at exactly this address (worker_authority.py, deployments).
THEOREM DeploymentsStayMatched == Spec => []DeploymentsMatchRoutes
<1>1. AuthorityInv => DeploymentsMatchRoutes
  BY DEF AuthorityInv
<1> QED BY <1>1, AuthorityInitially, AuthorityStep, PTL DEF Spec

\* Whatever moves between the API's reads, on the wire and under the locks, a
\* publication is made within the window of a moment at which the plan had its
\* whole authority (PublishedUnderAuthority).
THEOREM AuthorityBoundsPublication == Spec => PublishedUnderAuthority
<1>1. AuthorityInv /\ [Next]_vars =>
        [(published' # published /\ published' # Withdrawn) => now < held[published'.plan] + Window]_vars
  <2> SUFFICES ASSUME AuthorityInv, Next, published' # published, published' # Withdrawn
               PROVE  now < held[published'.plan] + Window
    OBVIOUS
  <2>1. CachedInv /\ PublishedInv /\ WorldTypes
    BY DEF AuthorityInv
  <2>2. ASSUME now < cached.expires, cached.yes, published'.plan = cached.plan
        PROVE  now < held[published'.plan] + Window
    BY <2>1, <2>2, AuthorityAssumption DEF CachedInv, WorldTypes
  <2>3. CASE Publish
    BY <2>2, <2>3 DEF Publish, Authorized, RequireCached
  <2>4. ASSUME NEW names \in SUBSET Aliases, UpdatePublishes(names)
        PROVE  now < held[published'.plan] + Window
    <3>1. /\ worker.at = "idle" /\ published # Withdrawn /\ now < cached.expires /\ cached.yes
          /\ cached.routes.address = address /\ published'.plan = published.plan
      BY <2>4 DEF UpdatePublishes, Deployments, RequireCached, PublishedRoutes
    <3>2. published.plan = cached.plan
      BY <2>1, <3>1 DEF PublishedInv
    <3> QED BY <2>2, <3>1, <3>2
  <2>5. Publish \/ \E names \in SUBSET Aliases : UpdatePublishes(names)
    BY DEF Next, Step, PrepareAuthority, EvaluateEvidence, EvaluateHead, EvaluateEligible, EvaluateHeadAgain,
           EvaluateEvidenceAgain, Receive, Unavailable, AuthorityLost, Recheck, Push, FleetMoves, NodeMoves, Tick
  <2> QED BY <2>3, <2>4, <2>5
<1> QED BY <1>1, AuthorityInitially, AuthorityStep, PTL DEF Spec, PublishedUnderAuthority
=============================================================================
