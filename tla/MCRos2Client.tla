---------------------------- MODULE MCRos2Client ----------------------------
(* t1 runs a program of two legs, every other thread a single move.         *)
EXTENDS Ros2Client

CONSTANT t1

TwoLegs == [t \in Thread |-> IF t = t1 THEN 2 ELSE 1]
=============================================================================
