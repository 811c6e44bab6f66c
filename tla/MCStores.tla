------------------------------ MODULE MCStores ------------------------------
(* Two server processes, two waypoints, and a program that visits both.     *)
EXTENDS Stores

CONSTANTS w1, w2

Visits == {<<w1, w2>>}
=============================================================================
