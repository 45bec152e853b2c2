------------------------------ MODULE TufCaches ------------------------------
(***************************************************************************)
(* The two TUF clients' caches over process deaths and power losses: the   *)
(* node agent's (vonk_agent/update_trust.py), which hardens and syncs the  *)
(* files python-tuf wrote and then records the root it trusts in a marker, *)
(* and the platform's (cluster_profiles/update_trust.py), which keeps a    *)
(* floor of the versions it has accepted.                                  *)
(*                                                                         *)
(* python-tuf itself (external) writes its files without syncing them, so  *)
(* each of its files has the value a reader sees and the value a power     *)
(* loss may leave.  Metadata below the root are one version number; the    *)
(* repository is a mirror that may serve any version published so far.     *)
(***************************************************************************)
EXTENDS Integers, FiniteSets

CONSTANTS MaxRoot,     \* bound: root versions; version 1 is built in
          MaxTargets,  \* bound: versions of the other metadata
          MaxLosses    \* bound: power losses and killed processes

VARIABLES
    who,        \* "agent" or "platform": which client this is
    roots,      \* the newest root, and the newest metadata, published
    targets,
    seen,       \* the cache as read: root history, root.json, metadata version
    safe,       \* the same, as far as it is sure to survive a power loss
    marker,     \* .bootstrap-established: the root trusted last (0: none)
    floor,      \* trusted-state.json: the root and metadata accepted last
    pc,         \* where the process that holds the cache lock is
    best,       \* the newest root and metadata a release was authorised under
    losses

vars == <<who, roots, targets, seen, safe, marker, floor, pc, best, losses>>

Cache == [history : SUBSET (1..MaxRoot), root : 0..MaxRoot, targets : 0..MaxTargets]
Pair == [root : 0..MaxRoot, targets : 0..MaxTargets]
Empty == [history |-> {}, root |-> 0, targets |-> 0]
Nothing == [root |-> 0, targets |-> 0]

TypeOK ==
    /\ who \in {"agent", "platform"}
    /\ roots \in 1..MaxRoot /\ targets \in 1..MaxTargets
    /\ seen \in Cache /\ safe \in Cache
    /\ marker \in 0..MaxRoot /\ floor \in Pair /\ best \in Pair
    /\ pc \in {"idle", "open", "bootstrapped", "refresh", "fetched", "checked", "synced"}
    /\ losses \in 0..MaxLosses

Init ==
    /\ who \in {"agent", "platform"}
    /\ roots = 1 /\ targets = 1
    /\ seen = Empty /\ safe = Empty
    /\ marker = 0 /\ floor = Nothing /\ best = Nothing
    /\ pc = "idle" /\ losses = 0

PublishRoot ==
    /\ roots < MaxRoot /\ roots' = roots + 1
    /\ UNCHANGED <<who, targets, seen, safe, marker, floor, pc, best, losses>>

PublishTargets ==
    /\ targets < MaxTargets /\ targets' = targets + 1
    /\ UNCHANGED <<who, roots, seen, safe, marker, floor, pc, best, losses>>

-----------------------------------------------------------------------------
(* The agent's client. *)

\* The cached root, if root.json leads to a root of the history.
CachedRoot == IF seen.root \in seen.history THEN seen.root ELSE 0

\* _established_root_is_openable: the root of the marker is the cached one, or
\* it is found in the history and made the cached one; if it is gone, an
\* operator has to recover the node.
Established == marker # 0
Recoverable == marker \in seen.history

\* The lock is taken, leftovers are removed and the cache is validated; the
\* established root is put back in place.
OpenAgent ==
    /\ pc = "idle" /\ who = "agent" /\ pc' = "open"
    /\ Established => Recoverable
    /\ IF Established /\ CachedRoot # marker
       THEN /\ seen' = [seen EXCEPT !.root = marker]
            /\ safe' = [safe EXCEPT !.root = marker]
       ELSE UNCHANGED <<seen, safe>>
    /\ UNCHANGED <<who, roots, targets, marker, floor, best, losses>>

\* The updater starts from the built-in root or from the cached one.
StartUpdater ==
    /\ pc = "open"
    /\ LET bootstrap == IF who = "agent" THEN ~Established ELSE CachedRoot = 0
       IN IF bootstrap
          THEN /\ seen' = [seen EXCEPT !.history = @ \cup {1}, !.root = 1]
               /\ pc' = IF who = "agent" THEN "bootstrapped" ELSE "refresh"
          ELSE /\ UNCHANGED seen /\ pc' = "refresh"
    /\ UNCHANGED <<who, roots, targets, safe, marker, floor, best, losses>>

\* _harden_cache and _fsync_cache: everything the updater wrote is durable.
Synced == safe' = seen

\* The bootstrap is synced, then marked.
MarkBootstrap ==
    /\ pc = "bootstrapped" /\ pc' = "refresh"
    /\ Synced /\ marker' = CachedRoot
    /\ UNCHANGED <<who, roots, targets, seen, floor, best, losses>>

-----------------------------------------------------------------------------
(* python-tuf, and what both clients do with it. *)

\* Roots are walked from the cached one, first through the history and then
\* through what the mirror serves; the link is moved to the last.
Walk(r, upto) == LET known == {n \in seen.history : n > r /\ (r + 1)..n \subseteq seen.history}
                     last == IF known = {} THEN r ELSE CHOOSE n \in known : \A m \in known : m <= n
                 IN IF upto > last THEN upto ELSE last

RefreshRoot ==
    /\ pc = "refresh" /\ pc' = "fetched"
    /\ \E upto \in 1..roots :
          LET r == Walk(seen.root, upto)
          IN seen' = [seen EXCEPT !.history = @ \cup (seen.root..r), !.root = r]
    /\ UNCHANGED <<who, roots, targets, safe, marker, floor, best, losses>>

\* The other metadata may not be older than the cached ones.
RefreshTargets ==
    /\ pc = "fetched"
    /\ \E v \in 1..targets :
          IF v >= seen.targets
          THEN seen' = [seen EXCEPT !.targets = v] /\ pc' = "checked"
          ELSE UNCHANGED seen /\ pc' = "idle"
    /\ UNCHANGED <<who, roots, targets, safe, marker, floor, best, losses>>

\* The platform compares the versions with its floor and raises it.
AboveFloor == seen.root >= floor.root /\ seen.targets >= floor.targets

Authorised == best' = [root |-> seen.root, targets |-> seen.targets]

PlatformTarget ==
    /\ pc = "checked" /\ who = "platform" /\ pc' = "idle"
    /\ IF AboveFloor
       THEN floor' = [root |-> seen.root, targets |-> seen.targets] /\ Authorised
       ELSE UNCHANGED <<floor, best>>
    /\ UNCHANGED <<who, roots, targets, seen, safe, marker, losses>>

\* A faulty variant: what was accepted is not synced.
AgentTarget_Faulty(fits) ==
    /\ pc = "checked" /\ who = "agent"
    /\ pc' = IF fits THEN "synced" ELSE "idle"
    /\ UNCHANGED <<who, roots, targets, seen, safe, marker, floor, best, losses>>

\* The agent compares target, request and local policy.  What python-tuf
\* accepted is synced whether the release fits or not; the marker is written
\* only when it does.
AgentTarget(fits) ==
    /\ pc = "checked" /\ who = "agent" /\ Synced
    /\ pc' = IF fits THEN "synced" ELSE "idle"
    /\ UNCHANGED <<who, roots, targets, seen, marker, floor, best, losses>>

MarkAgent ==
    /\ pc = "synced" /\ pc' = "idle"
    /\ marker' = CachedRoot /\ Authorised
    /\ UNCHANGED <<who, roots, targets, seen, safe, floor, losses>>

OpenPlatform ==
    /\ pc = "idle" /\ who = "platform" /\ pc' = "open"
    /\ UNCHANGED <<who, roots, targets, seen, safe, marker, floor, best, losses>>

-----------------------------------------------------------------------------
(* Faults. *)

\* The process dies, or its deadline elapses: nothing further is synced.
Stop ==
    /\ pc # "idle" /\ losses < MaxLosses /\ losses' = losses + 1 /\ pc' = "idle"
    /\ UNCHANGED <<who, roots, targets, seen, safe, marker, floor, best>>

\* Of what was not synced, any part may be gone.
PowerLoss ==
    /\ losses < MaxLosses /\ losses' = losses + 1 /\ pc' = "idle"
    /\ \E h \in SUBSET seen.history, r \in {seen.root, safe.root},
          t \in {seen.targets, safe.targets} :
          /\ safe.history \subseteq h
          /\ seen' = [history |-> h, root |-> r, targets |-> t]
          /\ safe' = seen'
    /\ UNCHANGED <<who, roots, targets, marker, floor, best>>

Next ==
    \/ PublishRoot \/ PublishTargets
    \/ OpenAgent \/ OpenPlatform \/ StartUpdater \/ MarkBootstrap
    \/ RefreshRoot \/ RefreshTargets
    \/ PlatformTarget \/ (\E fits \in BOOLEAN : AgentTarget(fits)) \/ MarkAgent
    \/ Stop \/ PowerLoss

Fairness ==
    /\ WF_vars(OpenAgent) /\ WF_vars(OpenPlatform) /\ WF_vars(StartUpdater)
    /\ WF_vars(MarkBootstrap) /\ WF_vars(RefreshRoot)
    /\ SF_vars(\E fits \in BOOLEAN : fits /\ AgentTarget(fits)) /\ SF_vars(PlatformTarget)
    /\ SF_vars(RefreshTargets /\ pc' = "checked") /\ WF_vars(MarkAgent)

Spec == Init /\ [][Next]_vars /\ Fairness

-----------------------------------------------------------------------------
(* Properties. *)

\* The root the marker names survives every power loss, so the agent never
\* finds itself without the root it trusts.
RootKept == Established => marker \in seen.history

\* No release is authorised under an older root or older metadata than an
\* earlier one, whatever was lost in between and whatever the mirror serves.
AuthorisedInOrder ==
    [][ best'.root >= best.root /\ best'.targets >= best.targets ]_vars

\* Whatever a power loss or a deadline left of the cache, the client gets to
\* judge a release again: no remains of an earlier attempt shut it out.
KeepsAnswering == []<>(pc = "checked")
=============================================================================
