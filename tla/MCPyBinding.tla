---------------------------- MODULE MCPyBinding ----------------------------
(***************************************************************************)
(* Threads do the same things, so they are interchangeable.                *)
(***************************************************************************)
EXTENDS PyBinding, TLC

Symmetry == Permutations(Threads)
=============================================================================
