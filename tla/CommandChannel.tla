--------------------------- MODULE CommandChannel ---------------------------
(***************************************************************************)
(* What the session with the server promises, without its connection: the  *)
(* commands are handled in the order in which they were sent, each at most *)
(* once.  A command may be lost (nothing is acknowledged or sent again).   *)
(***************************************************************************)
EXTENDS Naturals

VARIABLES
  sent,      \* the commands 1..sent have been sent
  handled,   \* the last one that was handled
  taken      \* how many were handled
vars == <<sent, handled, taken>>

Init == sent = 0 /\ handled = 0 /\ taken = 0

Send == sent' = sent + 1 /\ UNCHANGED <<handled, taken>>

Deliver ==
  /\ handled' \in handled + 1..sent
  /\ taken' = taken + 1
  /\ UNCHANGED sent

Next == Send \/ Deliver

Spec == Init /\ [][Next]_vars
=============================================================================
