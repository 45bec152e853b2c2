----------------------------- MODULE Acquisition -----------------------------
(***************************************************************************)
(* How a node gets one component of a package from its mirrors: the lock   *)
(* is authorised by the workload metadata (package_trust.py,               *)
(* workload_runtime.py), then the acquisition (packages/fetch.py) asks one *)
(* mirror after the other for the bytes that are missing, through the      *)
(* providers (packages/providers.py) and the HTTPS transport.              *)
(*                                                                         *)
(* The content store is the module PackageStore; here are the partial's    *)
(* bytes, each with the version of the file it came from, and the          *)
(* validator recorded beside them.  A mirror answers as HTTP says: a range *)
(* that begins at the end cannot be satisfied, and If-Range with another   *)
(* version's validator is answered with the whole file.                    *)
(***************************************************************************)
EXTENDS Integers, Sequences, SequencesExt

CONSTANTS Size,       \* chunks of the component
          Mirrors,    \* mirrors, tried in order
          Versions,   \* entity tags a mirror may have; 0 is none
          MaxFaults   \* bound: deaths, broken streams, changes of a mirror

VARIABLES
    pc,          \* where the attempt is
    mirror,      \* the mirror it asks
    lock,        \* the workload metadata's lock file: "free" or "held"
    tag,         \* every mirror's current entity tag
    honours,     \* whether it looks at If-Range
    serves,      \* what it has: "right" or "wrong" bytes, or "nothing" the node's
                 \* policy, addresses and credentials let through
    partial,     \* the partial: the version of every chunk, and whether it is right
    validator,   \* the validator recorded with it
    sent,        \* the tag of the answer being streamed
    faults

vars == <<pc, mirror, lock, tag, honours, serves, partial, validator, sent, faults>>

Sources == 1..Mirrors
Bytes == {"right", "wrong", "nothing"}
Chunk == [version : Versions, good : BOOLEAN]

TypeOK ==
    /\ pc \in {"idle", "target", "next", "open", "again", "stream", "verify", "done"}
    /\ mirror \in 0..Mirrors /\ lock \in {"free", "held"}
    /\ tag \in [Sources -> Versions] /\ honours \in [Sources -> BOOLEAN]
    /\ serves \in [Sources -> Bytes]
    /\ Range(partial) \subseteq Chunk /\ Len(partial) <= Size
    /\ validator \in Versions /\ sent \in Versions /\ faults \in 0..MaxFaults

Init ==
    /\ pc = "idle" /\ mirror = 0 /\ lock = "free"
    /\ tag \in [Sources -> Versions] /\ honours \in [Sources -> BOOLEAN]
    /\ serves \in [Sources -> Bytes] /\ \E s \in Sources : serves[s] = "right"
    /\ partial = <<>> /\ validator = 0 /\ sent = 0 /\ faults = 0

Mirror == <<tag, honours, serves>>
Fault == faults < MaxFaults /\ faults' = faults + 1

-----------------------------------------------------------------------------
(* The workload metadata. *)

\* refresh takes the cache's lock and keeps it for trusted_target.
Refresh ==
    /\ pc = "idle" /\ lock = "free" /\ lock' = "held" /\ pc' = "target"
    /\ UNCHANGED <<mirror, Mirror, partial, validator, sent, faults>>

\* WorkloadTrust.trusted_lock: the target's bytes are the lock that was asked for.
TrustedLock(authorised) ==
    IF authorised THEN pc' = "next" /\ mirror' = 0 /\ UNCHANGED faults
    ELSE Fault /\ pc' = "idle" /\ UNCHANGED mirror

\* trusted_target frees it, whether the lock of the package is authorised or not.
TrustedTarget(authorised) ==
    /\ pc = "target" /\ lock' = "free"
    /\ TrustedLock(authorised)
    /\ UNCHANGED <<Mirror, partial, validator, sent>>

-----------------------------------------------------------------------------
(* AcquisitionEngine.fetch and _from_source. *)

\* The mirrors in order; after the last the attempt has failed.
NextSource ==
    /\ pc = "next"
    /\ IF mirror < Mirrors THEN mirror' = mirror + 1 /\ pc' = "open"
       ELSE mirror' = 0 /\ pc' = "idle"
    /\ UNCHANGED <<lock, Mirror, partial, validator, sent, faults>>

\* SourcePolicy.validate: every hop's domain and addresses.
PolicyAllows(s) == serves[s] # "nothing"

\* _progress and _prefix_hash: the bytes the next answer has to continue.
Resumed == Len(partial)

IfRange(s) == honours[s] /\ validator # 0 /\ validator # tag[s]

\* What HTTPSProviderTransport makes of a request for the bytes from n on: an
\* answer, or an error for 416 and for 200 to a range.
Answers(s, n) == PolicyAllows(s) /\ (n = 0 \/ (n < Size /\ ~IfRange(s)))

\* A faulty variant: whatever tag the answer has, it continues the partial.
CompatibleWith_Faulty(s) == TRUE

CompatibleWith(s) == validator = 0 \/ validator = tag[s]

Recorded(s) == validator' = tag[s] /\ sent' = tag[s]

\* The mirror is asked for what is missing.  An answer of another version makes
\* the partial start again.
OpenSource ==
    LET n == Resumed
    IN /\ pc = "open"
       /\ IF ~Answers(mirror, n) THEN pc' = "next" /\ UNCHANGED <<partial, validator, sent>>
          ELSE IF n > 0 /\ ~CompatibleWith(mirror)
          THEN pc' = "again" /\ partial' = <<>> /\ validator' = 0 /\ UNCHANGED sent
          ELSE pc' = "stream" /\ Recorded(mirror) /\ UNCHANGED partial
       /\ UNCHANGED <<mirror, lock, Mirror, faults>>

\* The second request of the same call, from the beginning.
OpenAgain ==
    /\ pc = "again" /\ pc' = "stream" /\ Recorded(mirror)
    /\ UNCHANGED <<mirror, lock, Mirror, partial, faults>>

\* A chunk is appended and checkpointed.
Stream ==
    /\ pc = "stream" /\ Len(partial) < Size
    /\ partial' = Append(partial, [version |-> sent, good |-> serves[mirror] = "right"])
    /\ UNCHANGED <<pc, mirror, lock, Mirror, validator, sent, faults>>

\* The stream is over.
StreamEnds ==
    /\ pc = "stream" /\ Len(partial) = Size /\ pc' = "verify"
    /\ UNCHANGED <<mirror, lock, Mirror, partial, validator, sent, faults>>

StreamBreaks ==
    /\ pc = "stream" /\ Fault /\ pc' = "next"
    /\ UNCHANGED <<mirror, lock, Mirror, partial, validator, sent>>

\* The digest, of the resumed bytes too: the wrong bytes go to the quarantine.
Verify ==
    /\ pc = "verify"
    /\ IF \A i \in DOMAIN partial : partial[i].good THEN pc' = "done" /\ UNCHANGED <<partial, validator>>
       ELSE pc' = "next" /\ partial' = <<>> /\ validator' = 0
    /\ UNCHANGED <<mirror, lock, Mirror, sent, faults>>

-----------------------------------------------------------------------------
(* What happens around the acquisition. *)

\* The process dies, or the operation is cancelled or out of time: the partial
\* and its validator stay.
Dies ==
    /\ pc \notin {"idle", "done"} /\ Fault
    /\ pc' = "idle" /\ mirror' = 0 /\ lock' = "free"
    /\ UNCHANGED <<Mirror, partial, validator, sent>>

\* A mirror serves another version of the file.
MirrorChanges ==
    /\ Fault
    /\ \E s \in Sources, v \in Versions : tag[s] # v /\ tag' = [tag EXCEPT ![s] = v]
    /\ UNCHANGED <<pc, mirror, lock, honours, serves, partial, validator, sent>>

Fetch ==
    \/ Refresh \/ (\E a \in BOOLEAN : TrustedTarget(a)) \/ NextSource \/ OpenSource \/ OpenAgain
    \/ Stream \/ StreamEnds \/ Verify

Next == Fetch \/ StreamBreaks \/ Dies \/ MirrorChanges

Fairness == WF_vars(Fetch) /\ WF_vars(TrustedTarget(TRUE))
Spec == Init /\ [][Next]_vars /\ Fairness

-----------------------------------------------------------------------------
(* Properties. *)

\* Only the right bytes are promoted, however many mirrors and versions they
\* came from.
OnlyRightBytes == pc = "done" => \A i \in DOMAIN partial : partial[i].good

\* The bytes of a partial are of one version, the one whose validator is
\* recorded, as far as the mirrors tell versions apart.
OneVersion ==
    validator # 0
    => \A i \in DOMAIN partial : partial[i].version \in {validator, 0}

\* No attempt leaves the metadata locked for the next.
LockFreed == pc \notin {"target"} => lock = "free"

\* A partial no mirror continues: all bytes are there and were never verified,
\* or every mirror has another version than the recorded one.
Unresumable ==
    /\ partial # <<>>
    /\ \A s \in Sources : ~Answers(s, Len(partial))

\* An acquisition that is retried ends with the component, unless its partial is
\* one that no mirror continues.
FetchEnds == <>(pc = "done" \/ Unresumable)

=============================================================================
