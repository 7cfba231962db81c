----------------------------- MODULE MCFileScan ------------------------------
(***************************************************************************)
(* Instances of FileScan for TLC.                                          *)
(***************************************************************************)
EXTENDS FileScan

OneUnreadable == {1}
SomeThrowing == {0, 2, 11}
NoFile == {}

(* cf_file_scanner -t dataset -s list -j threads                           *)
List(threads, n) ==
  [unknown |-> FALSE, train_dataset |-> TRUE,
   eval_source_file |-> FALSE, eval_source_file_list |-> TRUE,
   j |-> threads, lines |-> n]

(* One scanner thread (num_threads 1..3) with lists long enough for every  *)
(* case of the tenth, and two (num_threads 4..8) with lists in which both  *)
(* find something to race over and the race can repeat.                    *)
AloneLists == {List(1, n) : n \in 0..MaxFiles}
PairLists == {List(4, n) : n \in 0..4}

(* Numbers of threads that are clamped, a file that wins over a list, and  *)
(* command lines that lack something.                                      *)
Edges ==
  {List(0, 2), List(-5, 2), List(3, 2),
   [List(4, 3) EXCEPT !.eval_source_file = TRUE],
   [List(1, 2) EXCEPT !.eval_source_file_list = FALSE],
   [List(1, 2) EXCEPT !.train_dataset = FALSE],
   [List(1, 2) EXCEPT !.unknown = TRUE]}

AllLists == AloneLists \cup PairLists \cup Edges
=============================================================================
