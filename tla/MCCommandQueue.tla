--------------------------- MODULE MCCommandQueue ---------------------------
(* CommandQueue and its refinement of SerialQueue on a small set of requests. *)
EXTENDS QueueRefinement, TLC

Symmetry == Permutations(Cmd)
=============================================================================
