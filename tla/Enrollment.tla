---------------------------- MODULE Enrollment ----------------------------
(***************************************************************************)
(* EnrollmentService (enrollment.py) for one node: grants, submissions,    *)
(* approval, renewal, activation and revocation, with the certificate      *)
(* authority as a service that may answer, fail, or sign and lose the      *)
(* answer, and a control plane that may die between any two transactions.  *)
(*                                                                         *)
(* approve and renew are each a durable claim, a call of the authority and *)
(* a second transaction.  One thread of each runs at a time (_issuance_    *)
(* lock, _rotation_lock); revoke_node takes neither lock.                  *)
(***************************************************************************)
EXTENDS Naturals, FiniteSets

CONSTANTS
    Requests,    \* enrolments of the node
    MaxSerial,   \* certificates the authority may sign
    MaxCrashes

VARIABLES
    node,        \* AgentNode
    certs,       \* AgentCertificate rows
    enr,         \* AgentEnrollment and its grant, by request
    intent,      \* AgentCertificateRotation
    ca,          \* the authority: serials signed and serials revoked
    approval,    \* the thread in approve
    renewal,     \* the thread in renew
    revoking,    \* revoke_node: the serials it still has to revoke
    crashes

enrollmentVars == <<node, certs, enr, intent, ca, approval, renewal, revoking, crashes>>

Serials == 1 .. MaxSerial
Generations == Nat

\* AgentNode: state and agent_implementation.
Node == [state : {"absent", "active", "retired"}, implementation : {"none", "pending", "python", "rust"}]

\* AgentCertificate.  caRevoked is ca_revoked_at; owner the agent that holds
\* the key, which no row says.
Certificate == [serial : Serials, generation : Generations, state : {"active", "staged", "revoked"},
                caRevoked : BOOLEAN, owner : {"python", "rust"}]

\* AgentEnrollmentGrant and AgentEnrollment.
EnrollmentRow ==
    [state : {"none", "granted", "consumed", "pending-approval", "rejected", "issuing", "approved"},
     purpose : {"new-node", "rust-migration"}, serial : 0 .. MaxSerial]

\* AgentCertificateRotation.
Rotation == [state : {"none", "issuing", "manual-recovery", "revocation-pending", "revoked"},
             source : 0 .. MaxSerial, generation : Generations]

Thread == [pc : {"idle", "sign", "check", "insert", "persist", "uncertain", "revoke"},
           request : Requests \cup {"none"}, serial : 0 .. MaxSerial, generation : Generations]

NoRotation == [state |-> "none", source |-> 0, generation |-> 0]
Idle == [pc |-> "idle", request |-> "none", serial |-> 0, generation |-> 0]

\* A node nobody knows, or a Python node of an earlier release.
EnrollmentInit ==
    /\ \/ node = [state |-> "absent", implementation |-> "none"] /\ certs = {} /\ ca = [signed |-> {}, revoked |-> {}]
       \/ /\ node = [state |-> "active", implementation |-> "python"]
          /\ certs = {[serial |-> 1, generation |-> 1, state |-> "active", caRevoked |-> FALSE, owner |-> "python"]}
          /\ ca = [signed |-> {1}, revoked |-> {}]
    /\ enr = [e \in Requests |-> [state |-> "none", purpose |-> "new-node", serial |-> 0]]
    /\ intent = NoRotation
    /\ approval = Idle /\ renewal = Idle
    /\ revoking = {}
    /\ crashes = 0

-----------------------------------------------------------------------------
Live(c) == c.state \in {"active", "staged"}
Latest == IF certs = {} THEN 0 ELSE CHOOSE g \in {c.generation : c \in certs} : \A c \in certs : c.generation <= g
RowOf(serial) == {c \in certs : c.serial = serial}
Migratable == node.state = "active" /\ node.implementation = "python"

\* create and create_migration.
Create(e, purpose) ==
    /\ enr[e].state = "none"
    /\ purpose = "rust-migration" => Migratable
    /\ enr' = [enr EXCEPT ![e] = [state |-> "granted", purpose |-> purpose, serial |-> 0]]
    /\ UNCHANGED <<node, certs, intent, ca, approval, renewal, revoking, crashes>>

\* submit: the grant is used up whether or not the request is accepted; a
\* replay changes nothing.
Submit(e) ==
    /\ enr[e].state = "granted"
    /\ \E state \in {"pending-approval", "consumed"} : enr' = [enr EXCEPT ![e].state = state]
    /\ UNCHANGED <<node, certs, intent, ca, approval, renewal, revoking, crashes>>

\* reject.
Reject(e) ==
    /\ enr[e].state = "pending-approval"
    /\ enr' = [enr EXCEPT ![e].state = "rejected"]
    /\ UNCHANGED <<node, certs, intent, ca, approval, renewal, revoking, crashes>>

-----------------------------------------------------------------------------
(* approve                                                                 *)

Eligible(purpose) == IF purpose = "new-node" THEN node.state = "absent" ELSE Migratable

\* A faulty variant: an enrolment that is being issued may be approved again.
Claimable_Faulty(e) == enr[e].state \in {"pending-approval", "issuing"} /\ Eligible(enr[e].purpose)

\* _claim_issuance: the enrolment waits, its purpose still holds, and no other
\* one of the node is being issued.
Claimable(e) ==
    /\ enr[e].state = "pending-approval"
    /\ Eligible(enr[e].purpose)
    /\ \A f \in Requests \ {e} : enr[f].state # "issuing"

ClaimIssuance(e) ==
    /\ approval.pc = "idle"
    /\ Claimable(e)
    /\ enr' = [enr EXCEPT ![e].state = "issuing"]
    /\ approval' = [Idle EXCEPT !.pc = "sign", !.request = e]
    /\ UNCHANGED <<node, certs, intent, ca, renewal, revoking, crashes>>

\* The authority signs, refuses, or signs and the answer is lost.
Fresh == CHOOSE s \in Serials : s \notin ca.signed /\ \A t \in Serials : t < s => t \in ca.signed
CanSign == ca.signed # Serials

IssueNode ==
    /\ approval.pc = "sign" /\ CanSign
    /\ \/ /\ ca' = [ca EXCEPT !.signed = @ \cup {Fresh}]
          /\ approval' \in {[approval EXCEPT !.pc = "check", !.serial = Fresh], Idle}
       \/ approval' = Idle /\ UNCHANGED ca
    /\ UNCHANGED <<node, certs, enr, intent, renewal, revoking, crashes>>

\* _persist_issued_enrollment reads the node and the generation ...
CheckIssued ==
    /\ approval.pc = "check"
    /\ approval' = IF Eligible(enr[approval.request].purpose)
                   THEN [approval EXCEPT !.pc = "insert", !.generation = Latest + 1] ELSE Idle
    /\ UNCHANGED <<node, certs, enr, intent, ca, renewal, revoking, crashes>>

\* UNIQUE(node_id, generation) of agent_certificates.
Conflicts(generation) == \E c \in certs : c.generation = generation

\* ... and writes: a generation taken meanwhile is an IntegrityError, and the
\* enrolment stays "issuing" for an operator.
PersistIssued ==
    /\ approval.pc = "insert"
    /\ approval' = Idle
    /\ LET e == approval.request  new == enr[e].purpose = "new-node"
       IN IF Conflicts(approval.generation) THEN UNCHANGED <<node, certs, enr>>
          ELSE /\ certs' = certs \cup {[serial |-> approval.serial, generation |-> approval.generation, state |-> "active",
                                      caRevoked |-> FALSE, owner |-> "rust"]}
               /\ node' = IF new THEN [state |-> "active", implementation |-> "pending"] ELSE node
               /\ enr' = [enr EXCEPT ![e].state = "approved", ![e].serial = approval.serial]
    /\ UNCHANGED <<intent, ca, renewal, revoking, crashes>>

-----------------------------------------------------------------------------
(* renew                                                                   *)

\* The certificate the agent renews with.
Renewable(c) == c.state = "active" /\ node.state = "active"

\* No rotation of the node is recorded.
Unclaimed == intent.state = "none"

\* _claim_rotation.  A staged certificate is answered as it is.
ClaimRotation(c) ==
    /\ renewal.pc = "idle"
    /\ Renewable(c) /\ ~\E d \in certs : d.state = "staged"
    /\ \/ /\ Unclaimed
          /\ intent' = [state |-> "issuing", source |-> c.serial, generation |-> Latest + 1]
          /\ renewal' = [Idle EXCEPT !.pc = "sign", !.generation = Latest + 1]
       \/ /\ intent.state = "issuing" /\ intent.source = c.serial
          /\ intent' = [intent EXCEPT !.state = "manual-recovery"]
          /\ UNCHANGED renewal
    /\ UNCHANGED <<node, certs, enr, ca, approval, revoking, crashes>>

\* renew_node of the authority.
RenewNode ==
    /\ renewal.pc = "sign" /\ CanSign
    /\ \/ /\ ca' = [ca EXCEPT !.signed = @ \cup {Fresh}]
          /\ renewal' \in {[renewal EXCEPT !.pc = "persist", !.serial = Fresh], [renewal EXCEPT !.pc = "uncertain"]}
       \/ renewal' = [renewal EXCEPT !.pc = "uncertain"] /\ UNCHANGED ca
    /\ UNCHANGED <<node, certs, enr, intent, approval, revoking, crashes>>

\* _persist_rotation: the node or the source was revoked meanwhile.
Denied == node.state # "active" \/ ~\E c \in RowOf(intent.source) : c.state = "active"

OwnerOf(serial) == IF \E c \in RowOf(serial) : c.owner = "rust" THEN "rust" ELSE "python"

PersistRotation ==
    /\ renewal.pc = "persist"
    /\ IF Conflicts(renewal.generation) THEN renewal' = [renewal EXCEPT !.pc = "uncertain"] /\ UNCHANGED <<certs, intent>>
       ELSE /\ certs' = certs \cup {[serial |-> renewal.serial, generation |-> renewal.generation,
                                   state |-> IF Denied THEN "revoked" ELSE "staged", caRevoked |-> FALSE,
                                   owner |-> OwnerOf(intent.source)]}
            /\ intent' = IF Denied THEN [intent EXCEPT !.state = "revocation-pending"] ELSE NoRotation
            /\ renewal' = IF Denied THEN [renewal EXCEPT !.pc = "revoke"] ELSE Idle
    /\ UNCHANGED <<node, enr, ca, approval, revoking, crashes>>

\* _mark_rotation_uncertain.
MarkUncertain ==
    /\ renewal.pc = "uncertain"
    /\ intent' = [intent EXCEPT !.state = IF @ = "issuing" THEN "manual-recovery" ELSE @]
    /\ renewal' = Idle
    /\ UNCHANGED <<node, certs, enr, ca, approval, revoking, crashes>>

\* _confirm_remote_revocation.
Confirmed(serial) ==
    /\ certs' = {IF c.serial = serial THEN [c EXCEPT !.caRevoked = TRUE] ELSE c : c \in certs}
    /\ intent' = IF intent.state = "revocation-pending" /\ \E c \in RowOf(serial) : c.generation = intent.generation
                 THEN [intent EXCEPT !.state = "revoked"] ELSE intent

\* _revoke_denied_rotation: the authority may fail.
RevokeDenied ==
    /\ renewal.pc = "revoke"
    /\ renewal' = Idle
    /\ \/ ca' = [ca EXCEPT !.revoked = @ \cup {renewal.serial}] /\ Confirmed(renewal.serial)
       \/ UNCHANGED <<ca, certs, intent>>
    /\ UNCHANGED <<node, enr, approval, revoking, crashes>>

-----------------------------------------------------------------------------
\* activate revokes the older generations.
Superseded(c, d) == d.generation < c.generation

\* activate.
Activate(c) ==
    /\ renewal.pc = "idle"
    /\ node.state = "active" /\ c.state = "staged"
    /\ certs' = {IF d = c THEN [d EXCEPT !.state = "active"]
                ELSE IF Superseded(c, d) THEN [d EXCEPT !.state = "revoked"] ELSE d : d \in certs}
    /\ UNCHANGED <<node, enr, intent, ca, approval, renewal, revoking, crashes>>

\* What is left of the node's certificates once the Rust agent made contact.
Fenced(c) == {IF d # c /\ Live(d) THEN [d EXCEPT !.state = "revoked"] ELSE d : d \in certs}

\* _negotiate_implementation on the first contact of the Rust agent.
Negotiate(c) ==
    /\ node.state = "active" /\ c.state = "active" /\ c.owner = "rust"
    /\ \/ node.implementation = "pending" /\ UNCHANGED certs
       \/ /\ node.implementation = "python"
          /\ \E e \in Requests : enr[e].state = "approved" /\ enr[e].purpose = "rust-migration" /\ enr[e].serial = c.serial
          /\ certs' = Fenced(c)
    /\ node' = [node EXCEPT !.implementation = "rust"]
    /\ UNCHANGED <<enr, intent, ca, approval, renewal, revoking, crashes>>

Retired(c) == [c EXCEPT !.state = "revoked"]

\* revoke_node: denied here first; safe to repeat.
RevokeNode ==
    /\ node.state # "absent" /\ revoking = {}
    /\ node.state = "active" \/ \E c \in certs : ~c.caRevoked
    /\ node' = [node EXCEPT !.state = "retired"]
    /\ certs' = {Retired(c) : c \in certs}
    /\ revoking' = {c.serial : c \in {d \in certs : ~d.caRevoked}}
    /\ UNCHANGED <<enr, intent, ca, approval, renewal, crashes>>

\* One serial after another; a failure leaves it for the next attempt.
RevokeSerial(s) ==
    /\ s \in revoking
    /\ revoking' = revoking \ {s}
    /\ \/ ca' = [ca EXCEPT !.revoked = @ \cup {s}] /\ Confirmed(s)
       \/ UNCHANGED <<ca, certs, intent>>
    /\ UNCHANGED <<node, enr, approval, renewal, crashes>>

\* The control plane dies.
Crash ==
    /\ crashes < MaxCrashes
    /\ approval # Idle \/ renewal # Idle \/ revoking # {}
    /\ crashes' = crashes + 1
    /\ approval' = Idle /\ renewal' = Idle /\ revoking' = {}
    /\ UNCHANGED <<node, certs, enr, intent, ca>>

-----------------------------------------------------------------------------
EnrollmentNext ==
    \/ \E e \in Requests : \/ \E purpose \in {"new-node", "rust-migration"} : Create(e, purpose)
                           \/ Submit(e) \/ Reject(e) \/ ClaimIssuance(e)
    \/ IssueNode \/ CheckIssued \/ PersistIssued
    \/ \E c \in certs : ClaimRotation(c) \/ Activate(c) \/ Negotiate(c)
    \/ RenewNode \/ PersistRotation \/ MarkUncertain \/ RevokeDenied
    \/ RevokeNode \/ \E s \in Serials : RevokeSerial(s)
    \/ Crash

EnrollmentSpec == EnrollmentInit /\ [][EnrollmentNext]_enrollmentVars

-----------------------------------------------------------------------------
EnrollmentTypeOK ==
    /\ node \in Node /\ certs \subseteq Certificate
    /\ enr \in [Requests -> EnrollmentRow] /\ intent \in Rotation
    /\ ca.signed \subseteq Serials /\ ca.revoked \subseteq ca.signed
    /\ approval \in Thread /\ renewal \in Thread /\ revoking \subseteq Serials

\* Every certificate the authority signed is accounted for: it has a row, or it
\* is the one certificate of an enrolment left "issuing" or of a rotation left
\* for manual recovery.  Neither is ever asked for a second time.
IssuedAccounted ==
    Cardinality(ca.signed \ {c.serial : c \in certs})
        <= Cardinality({e \in Requests : enr[e].state = "issuing"})
           + (IF intent.state \in {"issuing", "manual-recovery"} THEN 1 ELSE 0)

\* The certificate of an approved migration, written without a lock on the node.
LateApproval(c) == \E e \in Requests : enr[e].purpose = "rust-migration" /\ enr[e].serial = c.serial

\* The rows of two certificates never share a generation, at most one is staged,
\* and when two are active one of them is a migration's.
GenerationsOrdered ==
    \A c, d \in certs : c # d =>
        /\ c.generation # d.generation
        /\ ~(c.state = "staged" /\ d.state = "staged")
        /\ (c.state = "active" /\ d.state = "active") => LateApproval(c) \/ LateApproval(d)

\* Once a node runs the Rust agent, no certificate the Python agent holds the key
\* of is accepted again, also not one that was being renewed.
PythonFenced == node.implementation = "rust" => \A c \in certs : c.owner = "python" => ~Live(c)

\* A revoked node has no certificate that is accepted, except the migration
\* certificate whose approval was being written while the node was revoked.
RetiredDenied == node.state = "retired" => \A c \in certs : Live(c) => LateApproval(c)

\* A node is never left without an active certificate, unless it was revoked.
KeepsOne == node.state = "active" => \E c \in certs : c.state = "active"

\* Every certificate the authority signed has a row, a waiting enrolment or a
\* waiting rotation; generations are ordered; a migrated or revoked node's old
\* certificates are refused, and a node in use has one that is accepted, also
\* when issuance, renewal and revocation overlap or die (EnrollmentService).
CertificatesAccounted ==
    /\ EnrollmentTypeOK
    /\ IssuedAccounted
    /\ GenerationsOrdered
    /\ PythonFenced
    /\ RetiredDenied
    /\ KeepsOne
=============================================================================
