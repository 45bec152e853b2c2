---------------------------- MODULE PackageHelper ----------------------------
(***************************************************************************)
(* One package operation of the Python agent and the root helper that runs *)
(* its adapter: the agent asks the control plane for receipts and a grant  *)
(* of the attempt's fence, hands the request to the helper's socket, and   *)
(* the helper spends the fence, launches a transient unit and answers.     *)
(*                                                                         *)
(* The helper takes one connection at a time; the socket is systemd's, so  *)
(* a request survives the client that gave up on it and the helper's own   *)
(* restart.  Signatures are the fact that the control plane issued the     *)
(* grant; times are the ticks left of a lease or of a grant.               *)
(***************************************************************************)
EXTENDS Integers, FiniteSets, Sequences, SequencesExt

CONSTANTS Steps,        \* adapter calls the operation makes in one attempt
          MaxAttempts,  \* bound: attempts of the operation
          MaxRequests,  \* bound: requests built
          GrantLife,    \* ticks a grant lasts
          LeaseLife,    \* ticks the attempt's lease lasts unless renewed
          MaxRows,      \* MAX_REPLAY_ENTRIES of the durable table and of the
                        \* set in memory
          MaxFaults     \* bound: deaths, slot changes and client timeouts

VARIABLES
    lease,     \* the control plane's attempt: its number and ticks left
    gone,      \* ticks since an attempt lost its lease, for every attempt
    agent,     \* the agent's engine: where it is, its attempt, its next call
    request,   \* the request it built or waits for
    built,     \* requests built so far
    socket,    \* requests in the helper's socket
    helper,    \* the helper's process and the request it handles
    seen,      \* requests this process has taken
    rows,      \* the replay table: request, attempt and ticks left
    slot,      \* the agent slot the supervisor's state names
    units,     \* transient units running, by request
    orphans,   \* units whose helper died
    ran,       \* adapter calls whose unit ended well, by attempt and step
    faults

vars == <<lease, gone, agent, request, built, socket, helper, seen, rows, slot, units,
          orphans, ran, faults>>

Attempts == 1..MaxAttempts
Ids == 1..MaxRequests
RequestSet == [id : Ids, attempt : Attempts, step : 1..Steps, left : 0..GrantLife]
NoRequest == [id |-> 0, attempt |-> 0, step |-> 0, left |-> 0]
Row == [id : Ids, attempt : Attempts, left : 1..GrantLife]

TypeOK ==
    /\ lease \in [attempt : Attempts, left : 0..LeaseLife]
    /\ gone \in [Attempts -> 0..(GrantLife + 1)]
    /\ agent \in [at : {"next", "send", "wait", "done", "failed"},
                  attempt : Attempts, step : 1..Steps]
    /\ request \in RequestSet \cup {NoRequest}
    /\ built \in 0..MaxRequests
    /\ Range(socket) \subseteq RequestSet
    /\ helper \in [up : BOOLEAN, slot : {0, 1}, at : {"idle", "taken", "running"},
                   request : RequestSet \cup {NoRequest}]
    /\ seen \subseteq Ids /\ rows \subseteq Row /\ slot \in {0, 1}
    /\ units \subseteq Ids /\ orphans \subseteq Ids /\ ran \subseteq (Attempts \X (1..Steps))
    /\ faults \in 0..MaxFaults

Idle == [up |-> TRUE, slot |-> 0, at |-> "idle", request |-> NoRequest]

Init ==
    /\ lease = [attempt |-> 1, left |-> LeaseLife]
    /\ gone = [a \in Attempts |-> 0]
    /\ agent = [at |-> "next", attempt |-> 1, step |-> 1]
    /\ request = NoRequest /\ built = 0 /\ socket = <<>>
    /\ helper = Idle /\ seen = {} /\ rows = {} /\ slot = 0
    /\ units = {} /\ orphans = {} /\ ran = {} /\ faults = 0

helperOther == <<lease, gone, built, slot, faults>>

-----------------------------------------------------------------------------
(* Time and the control plane. *)

Less(n) == IF n > 0 THEN n - 1 ELSE 0
Aged(r) == [r EXCEPT !.left = Less(r.left)]

\* Rows that expired stay until the next request prunes them, so they may go
\* as soon as they are worthless.
Tick ==
    /\ lease' = Aged(lease)
    /\ gone' = [a \in Attempts |-> IF a < lease.attempt \/ (a = lease.attempt /\ lease.left = 0)
                                   THEN IF gone[a] <= GrantLife THEN gone[a] + 1 ELSE gone[a]
                                   ELSE 0]
    /\ request' = Aged(request)
    /\ socket' = [i \in DOMAIN socket |-> Aged(socket[i])]
    /\ helper' = [helper EXCEPT !.request = Aged(@)]
    /\ rows' = {Aged(r) : r \in {x \in rows : x.left > 1}}
    /\ UNCHANGED <<agent, built, seen, slot, units, orphans, ran, faults>>

Renew ==
    /\ lease.left > 0 /\ agent.attempt = lease.attempt /\ agent.at \in {"next", "send", "wait"}
    /\ lease' = [lease EXCEPT !.left = LeaseLife]
    /\ UNCHANGED <<gone, agent, request, built, socket, helper, seen, rows, slot, units,
                   orphans, ran, faults>>

\* The operation is claimed again when its attempt is over.
ClaimAgain ==
    /\ lease.attempt < MaxAttempts
    /\ agent.at = "failed" \/ lease.left = 0
    /\ lease' = [attempt |-> lease.attempt + 1, left |-> LeaseLife]
    /\ agent' = [at |-> "next", attempt |-> lease.attempt + 1, step |-> 1]
    /\ request' = NoRequest
    /\ UNCHANGED <<gone, built, socket, helper, seen, rows, slot, units, orphans,
                   ran, faults>>

\* _check_attempt: the attempt is the running one and its lease holds.
CheckAttempt == agent.attempt = lease.attempt /\ lease.left > 0

\* Both authorities look at the attempt: receipts of the release's objects, then
\* the grant.
IssueReceipts == CheckAttempt

IssueGrant == [id |-> built + 1, attempt |-> agent.attempt, step |-> agent.step,
               left |-> GrantLife]

-----------------------------------------------------------------------------
(* The agent. *)

\* package_request_factory: receipts and a grant for the next adapter call.
Build ==
    /\ agent.at = "next" /\ built < MaxRequests
    /\ IF IssueReceipts
       THEN /\ request' = IssueGrant
            /\ built' = built + 1
            /\ agent' = [agent EXCEPT !.at = "send"]
       ELSE /\ agent' = [agent EXCEPT !.at = "failed"]
            /\ UNCHANGED <<request, built>>
    /\ UNCHANGED <<lease, gone, socket, helper, seen, rows, slot, units, orphans,
                   ran, faults>>

\* verify_request: the node's own check of receipts and grant.
VerifyRequest == request.left > 0

\* submit: the grant is verified once more, then the request is sent.
Submit ==
    /\ agent.at = "send"
    /\ IF VerifyRequest
       THEN /\ socket' = Append(socket, request)
            /\ agent' = [agent EXCEPT !.at = "wait"]
       ELSE /\ agent' = [agent EXCEPT !.at = "failed"]
            /\ UNCHANGED socket
    /\ UNCHANGED <<lease, gone, request, built, helper, seen, rows, slot, units, orphans,
                   ran, faults>>

\* The client's five seconds are over; its request stays where it is.
GiveUp ==
    /\ agent.at = "wait" /\ faults < MaxFaults /\ faults' = faults + 1
    /\ agent' = [agent EXCEPT !.at = "failed"]
    /\ UNCHANGED <<lease, gone, request, built, socket, helper, seen, rows, slot, units,
                   orphans, ran>>

\* The agent restarts and takes its attempt up again from the first call.
AgentDies ==
    /\ agent.at \in {"next", "send", "wait"} /\ faults < MaxFaults /\ faults' = faults + 1
    /\ agent' = [agent EXCEPT !.at = "next", !.step = 1]
    /\ request' = NoRequest
    /\ UNCHANGED <<lease, gone, built, socket, helper, seen, rows, slot, units, orphans,
                   ran>>

Waiting(id) == agent.at = "wait" /\ request.id = id

\* The engine goes on to its next adapter call.
Proceed == IF agent.step = Steps THEN [agent EXCEPT !.at = "done"]
           ELSE [agent EXCEPT !.at = "next", !.step = @ + 1]

\* The client sees its connection end without an answer.
HangUp(id) == agent' = IF Waiting(id) THEN [agent EXCEPT !.at = "failed"] ELSE agent

-----------------------------------------------------------------------------
(* The helper. *)

\* ActiveSlotVerifier: the helper runs the slot the state names.
ActiveSlot == helper.slot = slot

\* A faulty variant: a grant is good for ever.
InForce_Faulty(r) == TRUE

InForce(r) == r.left > 0

\* The table's primary key and its unique constraint.
Unspent(r) == \A row \in rows : row.id # r.id /\ row.attempt # r.attempt

\* SignedFenceAuthorizer.authorize, in one transaction.
Authorize(r) == InForce(r) /\ Cardinality(rows) < MaxRows /\ Unspent(r)

\* handle: the next connection's request is checked and its fence spent before
\* anything is launched; a request that is refused ends the connection.
Accept ==
    /\ helper.up /\ helper.at = "idle" /\ socket # <<>>
    /\ LET r == Head(socket)
       IN IF ActiveSlot /\ r.id \notin seen /\ Cardinality(seen) < MaxRows /\ Authorize(r)
          THEN /\ rows' = rows \cup {[id |-> r.id, attempt |-> r.attempt, left |-> r.left]}
               /\ seen' = seen \cup {r.id}
               /\ helper' = [helper EXCEPT !.at = "taken", !.request = r]
               /\ UNCHANGED agent
          ELSE /\ HangUp(r.id) /\ UNCHANGED <<rows, seen, helper>>
    /\ socket' = Tail(socket)
    /\ UNCHANGED <<helperOther, request, units, orphans, ran>>

Released == helper' = [helper EXCEPT !.at = "idle", !.request = NoRequest]

\* launch: the generation's files are opened and verified, then systemd-run
\* starts the unit; content that does not verify ends the request.
Launch(verified) ==
    /\ helper.at = "taken"
    /\ IF verified
       THEN /\ units' = units \cup {helper.request.id}
            /\ helper' = [helper EXCEPT !.at = "running"]
            /\ UNCHANGED agent
       ELSE /\ Released /\ HangUp(helper.request.id) /\ UNCHANGED units
    /\ UNCHANGED <<helperOther, request, socket, seen, rows, orphans, ran>>

\* The unit ends well and the client, if it still waits, has its answer.
Answer ==
    /\ helper.at = "running" /\ Released
    /\ ran' = ran \cup {<<helper.request.attempt, helper.request.step>>}
    /\ units' = units \ {helper.request.id}
    /\ agent' = IF Waiting(helper.request.id) THEN Proceed ELSE agent
    /\ UNCHANGED <<helperOther, request, socket, seen, rows, orphans>>

\* The unit fails or outlives its time: it is stopped and reset.
Fail ==
    /\ helper.at = "running" /\ Released /\ HangUp(helper.request.id)
    /\ units' = units \ {helper.request.id}
    /\ UNCHANGED <<helperOther, request, socket, seen, rows, orphans, ran>>

\* The helper dies; a unit it had started goes on by itself.
HelperDies ==
    /\ helper.up /\ faults < MaxFaults /\ faults' = faults + 1
    /\ helper' = [helper EXCEPT !.up = FALSE, !.at = "idle", !.request = NoRequest]
    /\ seen' = {}
    /\ orphans' = orphans \cup (units \cap {helper.request.id})
    /\ HangUp(helper.request.id)
    /\ UNCHANGED <<lease, gone, request, built, socket, rows, slot, units, ran>>

HelperStarts ==
    /\ ~helper.up /\ helper' = [helper EXCEPT !.up = TRUE, !.slot = slot]
    /\ UNCHANGED <<helperOther, agent, request, socket, seen, rows, units, orphans, ran>>

\* An orphan reaches its RuntimeMaxSec.
OrphanEnds ==
    /\ \E u \in units \cap orphans : units' = units \ {u}
    /\ UNCHANGED <<helperOther, agent, request, socket, helper, seen, rows, orphans, ran>>

\* The supervisor switches slots; the helper's unit is part of its unit.
SwitchSlot ==
    /\ slot = 0 /\ faults < MaxFaults /\ faults' = faults + 1 /\ slot' = 1
    /\ UNCHANGED <<lease, gone, agent, request, built, socket, helper, seen, rows, units,
                   orphans, ran>>

Next ==
    \/ Tick \/ Renew \/ ClaimAgain
    \/ Build \/ Submit \/ GiveUp \/ AgentDies
    \/ Accept \/ (\E v \in BOOLEAN : Launch(v)) \/ Answer \/ Fail
    \/ HelperDies \/ HelperStarts \/ OrphanEnds \/ SwitchSlot

Fairness ==
    /\ WF_vars(ClaimAgain) /\ WF_vars(Build) /\ WF_vars(Submit)
    /\ WF_vars(Accept) /\ WF_vars(\E v \in BOOLEAN : Launch(v))
    /\ WF_vars(Fail) /\ WF_vars(HelperStarts)

Spec == Init /\ [][Next]_vars /\ Fairness

-----------------------------------------------------------------------------
(* Properties. *)

\* An operation is done only when every one of its adapter calls ended well in
\* the same attempt, whoever died on the way.
DoneRan == agent.at = "done" => \A k \in 1..Steps : <<agent.attempt, k>> \in ran

\* Two units of the operation run at once only where the helper of one died:
\* whatever the clients did, the helper never starts a second one itself.
OneAtATime == Cardinality(units \ orphans) <= 1

\* A fence is spent within a grant's life of its attempt losing its lease,
\* however long the request lay in the socket after its client gave up.
SpentInTime ==
    [][ \A r \in rows' : r.id \notin {x.id : x \in rows} => gone[r.attempt] < GrantLife ]_vars

\* The socket is always emptied again: no request, however it ends, keeps the
\* helper from the next.
QueueDrains == []<>(socket = <<>>)

=============================================================================
