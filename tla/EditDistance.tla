---------------------------- MODULE EditDistance ----------------------------
(***************************************************************************)
(* Trie::CalculateEditDistance (src/autocorrect.cpp): the cost of a path   *)
(* of the trie for the target of a search.  The table of the distances of  *)
(* all prefixes is filled in a row at a time, and only two rows are kept.  *)
(*                                                                         *)
(* The rest of the search uses the result in two ways: paths within        *)
(* max_cost are suggestions, and a path of cost 0 is the expression itself.*)
(***************************************************************************)
EXTENDS Alignments, Integers

CONSTANTS
  Alphabet,  \* the characters of compact expressions
  Strings    \* the strings compared

ASSUME StringsAssumption == Strings \subseteq Seq(Alphabet)

VARIABLES
  pc,              \* "rows", "cells", or "returned"
  source, target,  \* the arguments
  num_chars_read,  \* one more than the characters of source read
  i,               \* the next cell of the row
  current_row,     \* distances of the prefix of source read ...
  previous_row     \* ... and of the one before, to every prefix of target

vars == <<pc, source, target, num_chars_read, i, current_row, previous_row>>

Columns == 0..Len(target)

-----------------------------------------------------------------------------
(* Slips: mistakes in the definitions below, for testing the properties.   *)
(* None is part of the specification.                                      *)

SubstitutionCost_Free == 0
Cell_NoReplacement == Min({current_row[i - 1] + 1, previous_row[i] + 1})
Cell_DeletesForFree ==
  Min({current_row[i - 1] + 1, previous_row[i],
       previous_row[i - 1] + (IF source[num_chars_read - 1] = target[i]
                                THEN 0 ELSE 1)})

-----------------------------------------------------------------------------
Init ==
  /\ source \in Strings
  /\ target \in Strings
  /\ pc = "rows"
  /\ num_chars_read = 1
  /\ i = 1
  /\ current_row = [j \in 0..Len(target) |-> j]
  /\ previous_row = current_row

(* The next character of source starts a row.                              *)
ReadChar ==
  /\ pc = "rows" /\ num_chars_read <= Len(source)
  /\ current_row' = [current_row EXCEPT ![0] = num_chars_read]
  /\ num_chars_read' = num_chars_read + 1
  /\ i' = 1
  /\ pc' = "cells"
  /\ UNCHANGED <<source, target, previous_row>>

SubstitutionCost == IF source[num_chars_read - 1] = target[i] THEN 0 ELSE 1

(* Insert, delete or replace one character, whatever is cheapest.          *)
Cell ==
  Min({current_row[i - 1] + 1,
       previous_row[i] + 1,
       previous_row[i - 1] + SubstitutionCost})

LastColumn == Len(target)

FillCell ==
  /\ pc = "cells" /\ i <= LastColumn
  /\ current_row' = [current_row EXCEPT ![i] = Cell]
  /\ i' = i + 1
  /\ UNCHANGED <<pc, source, target, num_chars_read, previous_row>>

EndRow ==
  /\ pc = "cells" /\ i > LastColumn
  /\ previous_row' = current_row
  /\ pc' = "rows"
  /\ UNCHANGED <<source, target, num_chars_read, i, current_row>>

Return ==
  /\ pc = "rows" /\ num_chars_read > Len(source)
  /\ pc' = "returned"
  /\ UNCHANGED <<source, target, num_chars_read, i, current_row, previous_row>>

Over == pc = "returned" /\ UNCHANGED vars

Next == ReadChar \/ FillCell \/ EndRow \/ Return \/ Over

Spec == Init /\ [][Next]_vars

Cost == current_row[Len(target)]

-----------------------------------------------------------------------------
(* Every variable holds a value of its type.                               *)
TypeOK ==
  /\ pc \in {"rows", "cells", "returned"}
  /\ source \in Seq(Alphabet) /\ target \in Seq(Alphabet)
  /\ num_chars_read \in 1..Len(source) + 1
  /\ i \in 1..Len(target) + 1
  /\ current_row \in [Columns -> Nat]
  /\ previous_row \in [Columns -> Nat]

(* The cost returned is the fewest insertions, deletions and replacements  *)
(* of one character that turn the path into the target.                    *)
CostIsFewestEdits ==
  pc = "returned" => Cost = FewestEdits(source, target)

(* A path costs nothing exactly when it is the target: the expression the  *)
(* ranking takes for the one that was scanned is that one.                 *)
ZeroCostIsEquality == pc = "returned" => (Cost = 0 <=> source = target)

(* The cost is at least the difference of the lengths, and at most the     *)
(* longer length: max_cost bounds how much longer a suggestion can be.     *)
CostWithinLengths ==
  pc = "returned" =>
    /\ Cost >= Len(source) - Len(target)
    /\ Cost >= Len(target) - Len(source)
    /\ Cost <= Max({Len(source), Len(target)})

-----------------------------------------------------------------------------
(* What holds of the table all along and makes the two facts above true.   *)

(* A cell for the prefixes of lengths k of source and j of target.         *)
CellInv(value, k, j) ==
  /\ value >= k - j /\ value >= j - k
  /\ value <= k \/ value <= j
  /\ value = 0 <=> k = j /\ \A n \in 1..k : source[n] = target[n]

(* The characters of source the rows stand for.                            *)
Read == num_chars_read - 1
Before == IF pc = "cells" THEN Read - 1 ELSE Read

(* The rows hold cells of the character being read, up to i in the row     *)
(* being filled, and of the one before it.                                 *)
TableInv ==
  /\ \A j \in Columns : CellInv(previous_row[j], Before, j)
  /\ \A j \in Columns :
       CellInv(current_row[j],
               IF pc = "cells" /\ j >= i THEN Before ELSE Read, j)
  /\ pc = "cells" => Read >= 1
  /\ pc = "returned" => Read = Len(source)

(* Such a cell is the fewest edits between the two prefixes.               *)
EditsUpTo(k, j) == FewestEdits(SubSeq(source, 1, k), SubSeq(target, 1, j))

DistanceInv ==
  /\ \A j \in Columns : previous_row[j] = EditsUpTo(Before, j)
  /\ \A j \in Columns :
       current_row[j] =
         EditsUpTo(IF pc = "cells" /\ j >= i THEN Before ELSE Read, j)

IInv == TypeOK /\ TableInv /\ DistanceInv
=============================================================================
