----------------------------- MODULE GreedyVisit -----------------------------
(***************************************************************************)
(* What the two greedy work loops of ControlFlag promise: the trie         *)
(* traversal of src/autocorrect.cpp and the file scan of                   *)
(* src/cf_file_scanner.cpp.                                                *)
(*                                                                         *)
(* A crew of visitors goes over a set of items.  No visitor visits the     *)
(* same item twice, the selected items that were visited are found, and    *)
(* when the visit finishes at least one item in Cardinality(Visitors) has  *)
(* been seen.  With one visitor that is the exhaustive visit: every item,  *)
(* exactly once.  With more it is all that can be promised, because the    *)
(* loops read the shared index and advance it in separate steps.           *)
(***************************************************************************)
EXTENDS Integers, FiniteSets

CONSTANTS
  Visitors,  \* the threads, a finite set that is not empty
  Items,     \* what there may be to visit, a finite set
  Selected   \* the items of those that a visit reports

VARIABLES
  items,    \* what there is to visit
  visited,  \* the pairs <<visitor, item>> of the visits made
  found,    \* the selected items reported so far
  status    \* "visiting", "finished" or "failed"

vars == <<items, visited, found, status>>

Seen == {k \in items : \E v \in Visitors : <<v, k>> \in visited}

Init ==
  /\ items \in SUBSET Items
  /\ visited = {}
  /\ found = {}
  /\ status = "visiting"

Visit(v, k) ==
  /\ status = "visiting"
  /\ k \in items
  /\ <<v, k>> \notin visited
  /\ visited' = visited \cup {<<v, k>>}
  /\ found' = found \cup ({k} \cap Selected)
  /\ UNCHANGED <<items, status>>

Finish ==
  /\ status = "visiting"
  /\ Cardinality(Visitors) * Cardinality(Seen) >= Cardinality(items)
  /\ status' = "finished"
  /\ UNCHANGED <<items, visited, found>>

(* The process may die or give up at any time, with what it found so far.  *)
Fail ==
  /\ status = "visiting"
  /\ status' = "failed"
  /\ UNCHANGED <<items, visited, found>>

Next == Finish \/ Fail \/ \E v \in Visitors, k \in Items : Visit(v, k)

Spec == Init /\ [][Next]_vars
=============================================================================
