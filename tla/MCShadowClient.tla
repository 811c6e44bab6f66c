--------------------------- MODULE MCShadowClient ---------------------------
(* Moves to the middle, except for m1, which goes to the far end.           *)
EXTENDS ShadowClient

CONSTANTS m1

Targets == [m \in Move |-> IF m = m1 THEN 2 ELSE 1]
=============================================================================
