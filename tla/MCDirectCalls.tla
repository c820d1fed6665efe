--------------------------- MODULE MCDirectCalls ---------------------------
(* Small instances of DirectCalls for TLC. *)
EXTENDS DirectCalls

CONSTANTS c1, c2, t1, b1, temp, display, lo, hi

OneChange == [c \in Cmd |-> <<[attr |-> temp, value |-> hi]>>]

\* Two entities changed at the same time, one change each.
TwoCalls == c1 :> <<[attr |-> temp, value |-> hi]>> @@ c2 :> <<[attr |-> display, value |-> hi]>>

OnePush == [remote |-> 0, push |-> 1, fault |-> 1]
=============================================================================
