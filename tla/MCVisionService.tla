-------------------------- MODULE MCVisionService --------------------------
(* Two requests at a time; people at two places near each other and at one  *)
(* far away.                                                                *)
EXTENDS VisionService, TLC

Scenes == {<<>>, <<1>>, <<4>>, <<1, 2>>, <<4, 2>>}
Symmetry == Permutations(Request)
=============================================================================
