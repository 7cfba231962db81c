---------------------------- MODULE MCCompacter -----------------------------
(***************************************************************************)
(* Instances of Compacter for TLC: a small alphabet with binary digits, so *)
(* that numbers of two digits are given out, and expressions whose words   *)
(* overlap, repeat, look like numbers, or stand at the end.                *)
(***************************************************************************)
EXTENDS Compacter

BinaryDigits == <<"0", "1">>

SomeSources ==
  { <<"a">>, <<"a", "(", "b">>, <<"b", "(", "a", ")">>, <<"a", "b">>,
    <<"1", "(", "0">>, <<"a", "1">> }

StrayBytes == { <<"1">>, <<"1", "0", "(", "0">> }
=============================================================================
