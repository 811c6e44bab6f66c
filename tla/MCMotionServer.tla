--------------------------- MODULE MCMotionServer ---------------------------
(* MotionServer with the arm at home and two more poses.  One request is a  *)
(* program of two legs in Program; every request is a single move in Moves. *)
EXTENDS MotionServer

CONSTANTS c1, home, a, b

Program == [c \in Cmd |-> <<a, b>>]
Moves   == [c \in Cmd |-> IF c = c1 THEN <<a>> ELSE <<b>>]

Sequence == {<<a>>, <<a, home>>}
RoundTrip == {<<b, home>>}
=============================================================================
