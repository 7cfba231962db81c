----------------------------- MODULE Alignments ------------------------------
(***************************************************************************)
(* What an edit distance is, without reference to how it is computed: the  *)
(* fewest insertions, deletions and replacements of one character that     *)
(* turn one string into the other.                                         *)
(***************************************************************************)
EXTENDS Naturals, Sequences, FiniteSets, FiniteSetsExt

(* An alignment pairs positions of s with positions of t without          *)
(* crossing; a pair is kept or replaced, positions of s that are in no     *)
(* pair are deleted, and those of t inserted.                              *)
Alignments(s, t) ==
  {A \in SUBSET ((DOMAIN s) \X (DOMAIN t)) :
     \A p, q \in A : p # q => \/ p[1] < q[1] /\ p[2] < q[2]
                              \/ p[1] > q[1] /\ p[2] > q[2]}

Edits(s, t, A) ==
  (Len(s) - Cardinality(A)) + (Len(t) - Cardinality(A))
    + Cardinality({p \in A : s[p[1]] # t[p[2]]})

FewestEdits(s, t) == Min({Edits(s, t, A) : A \in Alignments(s, t)})
=============================================================================
