------------------------------- MODULE MCTrie -------------------------------
(***************************************************************************)
(* An instance of CandidateSearch, and of Trie in it, for TLC.             *)
(* Expressions that the dump tool prints are balanced, and none begins     *)
(* another; nested ones do, as when the dataset was cut or edited by hand. *)
(***************************************************************************)
EXTENDS CandidateSearch

Nested == { << >>, <<"1">>, <<"1", "2">>, <<"1", "2", "1">>, <<"2", "2">> }

(* Contributors are interchangeable.                                       *)
ContributorSymmetry == Permutations(Contributors)

(* Targets in the training data and not, one of them empty.                *)
Near == { << >>, <<"1">>, <<"2", "1">> }
=============================================================================
