--------------------------- MODULE TokenDictionary ---------------------------
(***************************************************************************)
(* What the expression compacter promises of its dictionary: every token   *)
(* gets the next free number when it is first seen and keeps it for ever.  *)
(***************************************************************************)
EXTENDS Naturals, FiniteSets

CONSTANT Tokens  \* what there may be to number

VARIABLE id  \* the number of every token seen so far

Init == id = [t \in {} |-> 0]

(* A token seen for the first time takes the next number.                  *)
Learn(t) ==
  /\ t \in Tokens \ DOMAIN id
  /\ id' = [u \in DOMAIN id \cup {t} |->
              IF u = t THEN Cardinality(DOMAIN id) ELSE id[u]]

(* The token learned is the one the dictionary has afterwards.             *)
Next == \E t \in DOMAIN id' : Learn(t)

Spec == Init /\ [][Next]_id
=============================================================================
