----------------------------- MODULE RouteBoard -----------------------------
(***************************************************************************)
(* What the publisher of route bundles promises its callers: bundles are   *)
(* posted in generations, the proxy shows one of them or nothing, and once *)
(* a caller has been told that a generation is live, the proxy never shows *)
(* an older one again.                                                     *)
(***************************************************************************)
EXTENDS Naturals

VARIABLES
  posted,   \* the newest generation
  shown,    \* the generation the proxy serves, 0 for no routes
  told      \* the newest generation some caller was told is live

vars == <<posted, shown, told>>

Init == posted = 0 /\ shown = 0 /\ told = 0

Post == posted' = posted + 1 /\ UNCHANGED <<shown, told>>

Show ==
  /\ shown' \in {0} \cup told..posted
  /\ UNCHANGED <<posted, told>>

Tell ==
  /\ shown \in {0, posted}
  /\ told' = posted
  /\ UNCHANGED <<posted, shown>>

Next == Post \/ Show \/ Tell

Spec == Init /\ [][Next]_vars

=============================================================================
