--------------------------- MODULE MCTrieTraversal ---------------------------
(***************************************************************************)
(* Instances of TrieTraversal for TLC.  Every other path is near the       *)
(* target, so that a skipped or repeated path changes the result.          *)
(***************************************************************************)
EXTENDS TrieTraversal

EvenPaths == {k \in 0..NumPaths - 1 : k % 2 = 0}
=============================================================================
