---------------------------- MODULE MCSyntaxTrees ----------------------------
(***************************************************************************)
(* An instance of SyntaxTrees for TLC.  Threads are interchangeable.       *)
(***************************************************************************)
EXTENDS SyntaxTrees, TLC

ThreadSymmetry == Permutations(Threads)
=============================================================================
