--------------------------- MODULE MCEditDistance ---------------------------
(***************************************************************************)
(* An instance of EditDistance for TLC: all strings of up to three of the  *)
(* alphabet, the empty string among them.                                  *)
(***************************************************************************)
EXTENDS EditDistance

ShortStrings == UNION {[1..n -> Alphabet] : n \in 0..3}
=============================================================================
