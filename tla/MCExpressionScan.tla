-------------------------- MODULE MCExpressionScan --------------------------
(***************************************************************************)
(* Instances of ExpressionScan for TLC.  Level one tells conditions apart  *)
(* that level two does not: a to d are level-one expressions, x and z      *)
(* level-two ones, and b is the same at both.  Costs and occurrences are   *)
(* such that there are ties, a rare expression next to common ones, one    *)
(* beyond max_cost, and strangers at either level.                         *)
(***************************************************************************)
EXTENDS ExpressionScan

CONSTANTS a, b, c, d, x, z

MCExpressions == {a, b, c, d, x, z}

(* The distances of pairs; other pairs of different expressions are far.   *)
Close == ({a, b} :> 1) @@ ({a, c} :> 1) @@ ({b, c} :> 1)
           @@ ({c, d} :> 1) @@ ({a, d} :> 2) @@ ({x, b} :> 1) @@ ({x, z} :> 2)

MCDistance ==
  [e \in MCExpressions |->
     [f \in MCExpressions |->
        IF e = f THEN 0
        ELSE IF {e, f} \in DOMAIN Close THEN Close[{e, f}] ELSE 9]]

MCTrained ==
  ("ONE" :> (a :> 1 @@ b :> 40 @@ c :> 40)) @@ ("TWO" :> (x :> 1 @@ b :> 50))

MCBlocks ==
  {[l \in Levels |-> IF l = "ONE" THEN p[1] ELSE p[2]] :
     p \in {<<a, x>>, <<b, b>>, <<d, z>>, <<d, x>>, <<b, Malformed>>}}

(* One that passes for the scanned expression, and one for a common one    *)
(* next to it.                                                             *)
MCStrays ==
  { [expression |-> "stray", cost |-> 0, occurrences |-> 0, copy |-> 0],
    [expression |-> "stray", cost |-> 1, occurrences |-> 90, copy |-> 0] }
NoStrays == {}

(* Three conditions of one scanner, one of each of two.                     *)
AloneAndPair == <<3, 1>>
AloneOnce == <<1>>

(* Scanners are interchangeable.                                           *)
ScannerSymmetry == Permutations(Scanners)
=============================================================================
