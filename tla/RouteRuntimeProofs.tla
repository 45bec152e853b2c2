------------------------- MODULE RouteRuntimeProofs -------------------------
(***************************************************************************)
(* The route runtime implements the route board, for any number of         *)
(* generations.                                                            *)
(***************************************************************************)
EXTENDS RouteRuntime, TLAPS

\* What a configuration that LiteLLM runs on, or is about to run on, has behind
\* it: it is not older than what a caller was told, nor than what the
\* acknowledgement file says.
Current(g) == g > 0 => g >= told /\ g >= ack.gen

\* The inductive invariant behind the refinement.
BoardInv ==
  /\ TypeOK
  /\ told <= marker.gen /\ ack.gen <= marker.gen
  /\ selected <= marker.gen /\ child <= marker.gen
  /\ Current(selected) /\ Current(child)
  /\ sup \in {"starting", "watching"} => child = selected
  /\ sup \in {"down", "launching"} => child = NoChild
  /\ \A c \in Callers : call[c].at = "waiting" => lock = c /\ call[c].gen = marker.gen

USE GenerationAssumption

\* What the supervisor writes into the acknowledgement file has its type.
LEMMA AckTyped ==
  /\ NoAck \in [gen : Generations, recent : BOOLEAN] /\ NoAck.gen = 0
  /\ \A g \in Generations : [gen |-> g, recent |-> TRUE] \in [gen : Generations, recent : BOOLEAN]
<1>1. 0 \in Generations
  BY DEF Generations
<1>. QED
  BY <1>1, Zenon DEF NoAck

LEMMA BoardInvInit == Init => BoardInv
<1> SUFFICES ASSUME Init PROVE BoardInv
  OBVIOUS
<1>1. \A c \in Callers : call[c] = [at |-> "idle", gen |-> 0]
  BY DEF Init, Idle
<1>2. call \in [Callers -> [at : {"idle", "waiting"}, gen : Generations]]
  BY DEF Init, Idle, Generations
<1>3. marker \in [gen : Generations, author : {"none", "reconciliation", "recipe", "update"}, state : States]
  BY DEF Init, Generations, States
<1>4. TypeOK
  <2>1. lock \in Callers \cup {"none"} /\ lapsed \in BOOLEAN /\ boundary \in BOOLEAN
    BY Zenon DEF Init
  <2>. QED
    BY <1>2, <1>3, <2>1, AckTyped DEF Init, TypeOK, NoChild, Generations
<1>. QED
  BY <1>1, <1>4, AckTyped DEF Init, BoardInv, Current, NoChild, Generations

\* Every step of the publishers, of the supervisor and of the clock keeps it.
LEMMA BoardInvNext == BoardInv /\ [Next]_vars => BoardInv'
<1> SUFFICES ASSUME BoardInv, [Next]_vars PROVE BoardInv'
  OBVIOUS
<1> USE AckTyped DEF BoardInv, TypeOK, Current, Generations, supVars, pubVars
<1>1. ASSUME NEW c \in Callers, NEW author \in Authors[c], NEW state \in States,
             Activate(c, author, state)
      PROVE BoardInv'
  <2>1. author \in {"reconciliation", "recipe", "update"}
    BY DEF Authors, Callers
  <2>2. PICK g \in Generations : call' = [call EXCEPT ![c] = [at |-> "waiting", gen |-> g]]
                                /\ g = marker'.gen /\ marker.gen <= g
    <3>1. CASE Reusable(author, state) /\ UNCHANGED marker
      BY <1>1, <3>1 DEF Activate
    <3>2. CASE marker.gen < MaxGeneration /\ marker'.gen = marker.gen + 1
      BY <1>1, <3>2 DEF Activate
    <3>. QED BY <1>1, <3>1, <3>2 DEF Activate
  <2>3. call' \in [Callers -> [at : {"idle", "waiting"}, gen : Generations]]
    BY <2>2
  <2>4. \A d \in Callers : call'[d].at = "waiting" => d = c /\ call'[d].gen = marker'.gen
    BY <1>1, <2>2 DEF Activate, Callers
  <2>5. marker' \in [gen : Generations, author : {"none", "reconciliation", "recipe", "update"}, state : States]
    BY <1>1, <2>1 DEF Activate
  <2>6. lock' = c /\ lapsed' \in BOOLEAN /\ UNCHANGED <<boundary, told, failed, supVars>>
    BY <1>1 DEF Activate
  <2>7. TypeOK'
    BY <2>3, <2>5, <2>6
  <2>8. told <= marker'.gen /\ ack.gen <= marker'.gen /\ selected <= marker'.gen /\ child <= marker'.gen
    BY <2>2 DEF NoChild
  <2>. QED BY <2>4, <2>6, <2>7, <2>8
<1>2. ASSUME NEW c \in Callers, Acknowledged(c) PROVE BoardInv'
  BY <1>2 DEF Acknowledged, Matches, Idle
<1>3. ASSUME NEW c \in Callers, TimesOut(c) PROVE BoardInv'
  BY <1>3 DEF TimesOut, Idle
<1>4. ASSUME NEW c \in Callers, Dies(c) PROVE BoardInv'
  BY <1>4 DEF Dies, Idle
<1>5. CASE ClaimBoundary \/ ReleaseBoundary
  <2>1. boundary' \in BOOLEAN /\ UNCHANGED <<marker, lock, call, told, lapsed, failed, supVars>>
    BY <1>5 DEF ClaimBoundary, ReleaseBoundary
  <2>2. TypeOK'
    BY <2>1
  <2> QED BY <2>1, <2>2
<1>6. CASE Boot
  BY <1>6 DEF Boot, Active
<1>7. CASE Launch
  BY <1>7 DEF Launch
<1>8. CASE Healthy
  BY <1>8 DEF Healthy, WriteAck
<1>9. CASE Poll
  <2>1. CASE Active # selected
    BY <1>9, <2>1 DEF Poll, Active
  <2>2. CASE Active = selected
    <3>1. ack' \in {NoAck, [gen |-> selected, recent |-> TRUE]}
      <4>1. WriteAck(selected) \/ ack' = NoAck
        BY <1>9, <2>2 DEF Poll
      <4>. QED BY <4>1, Zenon DEF WriteAck
    <3>2. ack' \in [gen : Generations, recent : BOOLEAN] /\ ack'.gen \in {0, selected}
      <4>1. CASE ack' = NoAck
        BY <4>1, Zenon
      <4>2. CASE ack' = [gen |-> selected, recent |-> TRUE]
        BY <4>2, Zenon
      <4>. QED BY <3>1, <4>1, <4>2
    <3>. QED BY <1>9, <2>2, <3>2 DEF Poll
  <2>. QED BY <2>1, <2>2
<1>10. CASE Stopped
  BY <1>10 DEF Stopped, NoChild
<1>11. CASE Exits \/ Killed
  <2>1. child' = NoChild /\ selected' = 0 /\ sup' = "down" /\ ack' \in {ack, NoAck}
    BY <1>11 DEF Exits, Killed
  <2>2. UNCHANGED <<pubVars, lapsed>>
    BY <1>11 DEF Exits, Killed
  <2>. QED BY <2>1, <2>2 DEF NoChild
<1>12. CASE AckAges
  <2>1. ack'.gen = ack.gen /\ ack' \in [gen : Generations, recent : BOOLEAN]
    BY <1>12 DEF AckAges
  <2>2. UNCHANGED <<pubVars, lapsed, sup, selected, child>>
    BY <1>12 DEF AckAges
  <2> QED BY <2>1, <2>2
<1>13. CASE Lapse
  BY <1>13 DEF Lapse
<1>14. CASE UNCHANGED vars
  BY <1>14 DEF vars
<1>. QED
  BY <1>1, <1>2, <1>3, <1>4, <1>5, <1>6, <1>7, <1>8, <1>9, <1>10, <1>11, <1>12, <1>13, <1>14
     DEF Next, Publishers, Supervisor

\* TypeOK, and the invariant it is part of, hold in every reachable state.
THEOREM RouteInvariant == Spec => []BoardInv
BY BoardInvInit, BoardInvNext, PTL DEF Spec

\* Each step of the runtime is a step of the board: a new marker is a post, a
\* start or stop of LiteLLM shows something else, an acknowledged call tells,
\* and everything else is invisible.
LEMMA BoardStep == BoardInv /\ [Next]_vars => [Board!Next]_(Board!vars)
<1> SUFFICES ASSUME BoardInv, [Next]_vars PROVE [Board!Next]_(Board!vars)
  OBVIOUS
<1> USE DEF BoardInv, TypeOK, Current, Generations, supVars, pubVars, Served, NoChild
<1> DEFINE Same == UNCHANGED <<marker.gen, Served, told>>
<1>0. Same => [Board!Next]_(Board!vars)
  BY DEF Board!vars
<1>1. ASSUME NEW c \in Callers, NEW author \in Authors[c], NEW state \in States,
             Activate(c, author, state)
      PROVE Same \/ Board!Post
  BY <1>1 DEF Activate, Board!Post
<1>2. ASSUME NEW c \in Callers, Acknowledged(c) PROVE Board!Tell
  <2>1. told' = marker.gen /\ UNCHANGED <<marker, child>>
    BY <1>2 DEF Acknowledged
  <2>2. child <= 0 \/ child = marker.gen
    BY <1>2 DEF Acknowledged, Matches
  <2>3. Served \in {0, marker.gen}
    BY <2>2
  <2>. QED BY <2>1, <2>3 DEF Board!Tell
<1>3. ASSUME NEW c \in Callers, TimesOut(c) \/ Dies(c) PROVE Same
  BY <1>3 DEF TimesOut, Dies
<1>4. CASE ClaimBoundary \/ ReleaseBoundary \/ Lapse \/ AckAges
  BY <1>4, <1>0 DEF ClaimBoundary, ReleaseBoundary, Lapse, AckAges
<1>5. CASE Boot \/ Healthy \/ Poll
  BY <1>5, <1>0 DEF Boot, Healthy, Poll
<1>6. CASE Launch
  <2>1. Served' \in {0} \cup told..marker.gen
    BY <1>6 DEF Launch
  <2>. QED BY <1>6, <2>1 DEF Launch, Board!Show, Board!Next
<1>7. CASE Stopped \/ Exits \/ Killed
  <2>1. Served' = 0
    BY <1>7 DEF Stopped, Exits, Killed
  <2>. QED BY <1>7, <2>1 DEF Stopped, Exits, Killed, Board!Show, Board!Next
<1>8. CASE UNCHANGED vars
  BY <1>8, <1>0 DEF vars
<1>. QED
  BY <1>0, <1>1, <1>2, <1>3, <1>4, <1>5, <1>6, <1>7, <1>8
     DEF Next, Publishers, Supervisor, Board!Next

\* The publisher and the supervisor implement the board: whoever was told that
\* a generation is live can rely on no older one being served.
THEOREM RuntimeImplementsBoard == Spec => BoardSpec
<1>1. Init => Board!Init
  BY DEF Init, Board!Init, Served, NoChild
<1>. QED
  BY <1>1, BoardStep, RouteInvariant, PTL DEF Spec, BoardSpec, Board!Spec

=============================================================================
