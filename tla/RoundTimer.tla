----------------------------- MODULE RoundTimer -----------------------------
(* What the engine expects of its countdown: one countdown, for the round of *)
(* the last Reset, that expires, calls back and starts over until the next   *)
(* Reset or StopTimer.                                                       *)
EXTENDS Naturals

CONSTANT Off

VARIABLES counting,  \* the round the countdown is for, or Off
          expired    \* it has run out and the callback is still to be started

vars == <<counting, expired>>

Init == counting = Off /\ expired = FALSE

Reset == /\ counting' \in Nat
         /\ counting = Off \/ counting' > counting
         /\ expired' = FALSE

Expire == counting # Off /\ ~expired /\ expired' = TRUE /\ UNCHANGED counting

Fire == expired /\ expired' = FALSE /\ UNCHANGED counting

Stop == counting # Off /\ counting' = Off /\ expired' = FALSE

Next == Reset \/ Expire \/ Fire \/ Stop

Spec == Init /\ [][Next]_vars

=============================================================================
