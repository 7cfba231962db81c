------------------------- MODULE EditDistanceProofs -------------------------
(***************************************************************************)
(* For all strings over any alphabet: the rows of EditDistance have their  *)
(* types, every cell filled in is the fewest edits between two prefixes,   *)
(* a path costs nothing exactly when it is the target, and the cost lies   *)
(* between the difference of the lengths and the longer length.            *)
(*                                                                         *)
(* First comes the theory of FewestEdits, for strings over any set of      *)
(* characters: it is attained, it obeys the recurrence edit distances are  *)
(* computed by and the triangle inequality, and one edit replaces, deletes *)
(* or inserts one character.  Inductions are by minimal counterexample: of *)
(* the strings that refute a fact, two of the least total length.          *)
(***************************************************************************)
EXTENDS EditDistance, FiniteSetTheorems, SequenceTheorems,
        WellFoundedInduction, TLAPS

(* A set of numbers has a least one.                                       *)
LEMMA LeastNumber ==
  ASSUME NEW N, N \subseteq Nat, N # {}
  PROVE  \E n \in N : \A m \in N : n <= m
<1> DEFINE R == OpToRel(<, Nat)
<1>1. IsWellFoundedOn(R, Nat)
  BY NatLessThanWellFounded
<1> HIDE DEF R
<1>2. PICK n \in N : \A m \in N : ~(<<m, n>> \in R)
  BY <1>1, WFMin
<1>3. ASSUME NEW m \in N PROVE n <= m
  <2>1. n \in Nat /\ m \in Nat
    OBVIOUS
  <2>2. m < n => <<m, n>> \in R
    BY <2>1 DEF R, OpToRel
  <2> QED  BY <1>2, <2>1, <2>2
<1> QED  BY <1>3

(* The least member of a set of numbers, given that it is one.             *)
LEMMA MinIs ==
  ASSUME NEW N, N \subseteq Int, NEW n \in N, \A m \in N : n <= m
  PROVE  Min(N) = n
<1> DEFINE P(x) == x \in N /\ \A y \in N : x <= y
<1>1. Min(N) = CHOOSE x : P(x)
  BY Zenon DEF Min
<1>2. P(n)
  OBVIOUS
<1>3. P(CHOOSE x : P(x))
  BY <1>2, Zenon
<1>4. P(Min(N))
  BY <1>1, <1>3, Zenon
<1>5. Min(N) \in N /\ Min(N) <= n /\ n <= Min(N)
  BY <1>4
<1>6. Min(N) \in Int /\ n \in Int
  BY <1>5
<1> HIDE DEF P
<1> QED  BY <1>5, <1>6

-----------------------------------------------------------------------------
(* Alignments and their edits.                                             *)

Replaced(s, t, A) == {p \in A : s[p[1]] # t[p[2]]}

(* An alignment pairs no position twice, so it has no more pairs than each *)
(* string has positions.                                                   *)
LEMMA AlignmentSizes ==
  ASSUME NEW S, NEW s \in Seq(S), NEW t \in Seq(S), NEW A \in Alignments(s, t)
  PROVE  /\ IsFiniteSet(A) /\ Cardinality(A) \in Nat
         /\ Cardinality(A) <= Len(s) /\ Cardinality(A) <= Len(t)
         /\ IsFiniteSet(Replaced(s, t, A))
         /\ Cardinality(Replaced(s, t, A)) \in Nat
         /\ Cardinality(Replaced(s, t, A)) <= Cardinality(A)
         /\ Edits(s, t, A) = Len(s) + Len(t) - 2 * Cardinality(A)
                               + Cardinality(Replaced(s, t, A))
         /\ Edits(s, t, A) \in Nat
<1> DEFINE m == Len(s)
           n == Len(t)
<1>1. m \in Nat /\ n \in Nat /\ DOMAIN s = 1..m /\ DOMAIN t = 1..n
  OBVIOUS
<1>2. /\ A \subseteq (1..m) \X (1..n)
      /\ \A p, q \in A : p # q => \/ p[1] < q[1] /\ p[2] < q[2]
                                  \/ p[1] > q[1] /\ p[2] > q[2]
  BY <1>1 DEF Alignments
<1> HIDE DEF m, n
<1>3. /\ IsFiniteSet(1..m) /\ Cardinality(1..m) = m
      /\ IsFiniteSet(1..n) /\ Cardinality(1..n) = n
  BY <1>1, FS_Interval
<1>4. IsFiniteSet(A) /\ Cardinality(A) <= m
  <2> DEFINE f == [p \in A |-> p[1]]
  <2>1. f \in Injection(A, 1..m)
    <3>1. f \in [A -> 1..m]
      BY <1>2
    <3>2. \A p, q \in A : f[p] = f[q] => p = q
      BY <1>1, <1>2
    <3> QED  BY <3>1, <3>2 DEF Injection, IsInjective
  <2> HIDE DEF f
  <2> QED  BY <1>3, <2>1, FS_Injection
<1>5. Cardinality(A) <= n
  <2> DEFINE f == [p \in A |-> p[2]]
  <2>1. f \in Injection(A, 1..n)
    <3>1. f \in [A -> 1..n]
      BY <1>2
    <3>2. \A p, q \in A : f[p] = f[q] => p = q
      BY <1>1, <1>2
    <3> QED  BY <3>1, <3>2 DEF Injection, IsInjective
  <2> HIDE DEF f
  <2> QED  BY <1>3, <2>1, FS_Injection
<1>6. Cardinality(A) \in Nat
  BY <1>4, FS_CardinalityType
<1>7. /\ IsFiniteSet(Replaced(s, t, A))
      /\ Cardinality(Replaced(s, t, A)) <= Cardinality(A)
  <2>1. Replaced(s, t, A) \in SUBSET A
    BY DEF Replaced
  <2> QED  BY <1>4, <2>1, FS_Subset
<1>8. Cardinality(Replaced(s, t, A)) \in Nat
  BY <1>7, FS_CardinalityType
<1>9. Edits(s, t, A) = (m - Cardinality(A)) + (n - Cardinality(A))
                         + Cardinality(Replaced(s, t, A))
  BY Zenon DEF Edits, Replaced, m, n
<1> QED
  BY <1>1, <1>4, <1>5, <1>6, <1>7, <1>8, <1>9 DEF m, n

LEMMA EmptyIsAlignment ==
  ASSUME NEW s, NEW t
  PROVE  {} \in Alignments(s, t)
BY DEF Alignments

(* FewestEdits is attained by an alignment, and by no less.                *)
LEMMA FewestEditsIsLeast ==
  ASSUME NEW S, NEW s \in Seq(S), NEW t \in Seq(S)
  PROVE  /\ FewestEdits(s, t) \in Nat
         /\ \E A \in Alignments(s, t) : FewestEdits(s, t) = Edits(s, t, A)
         /\ \A A \in Alignments(s, t) : FewestEdits(s, t) <= Edits(s, t, A)
<1> DEFINE N == {Edits(s, t, A) : A \in Alignments(s, t)}
<1>1. N \subseteq Nat
  <2> SUFFICES ASSUME NEW A \in Alignments(s, t) PROVE Edits(s, t, A) \in Nat
    OBVIOUS
  <2> QED  BY AlignmentSizes
<1>2. N # {}
  BY EmptyIsAlignment
<1>3. FewestEdits(s, t) = Min(N)
  BY Zenon DEF FewestEdits
<1>4. \A x : x \in N <=> \E A \in Alignments(s, t) : x = Edits(s, t, A)
  OBVIOUS
<1> HIDE DEF N
<1>5. PICK n \in N : \A m \in N : n <= m
  BY <1>1, <1>2, LeastNumber
<1>6. Min(N) = n
  <2>1. N \subseteq Int
    BY <1>1
  <2> QED  BY <1>5, <2>1, MinIs, Zenon
<1> QED  BY <1>1, <1>3, <1>4, <1>5, <1>6

(* To show what FewestEdits is, show an alignment and that none is better. *)
LEMMA FewestEditsIs ==
  ASSUME NEW S, NEW s \in Seq(S), NEW t \in Seq(S), NEW n \in Nat,
         \E A \in Alignments(s, t) : Edits(s, t, A) <= n,
         \A A \in Alignments(s, t) : n <= Edits(s, t, A)
  PROVE  FewestEdits(s, t) = n
<1>1. PICK A \in Alignments(s, t) : Edits(s, t, A) <= n
  OBVIOUS
<1>2. PICK B \in Alignments(s, t) : FewestEdits(s, t) = Edits(s, t, B)
  BY FewestEditsIsLeast
<1>3. /\ FewestEdits(s, t) \in Nat /\ FewestEdits(s, t) <= Edits(s, t, A)
      /\ Edits(s, t, A) \in Nat
  BY FewestEditsIsLeast, AlignmentSizes
<1> QED  BY <1>1, <1>2, <1>3

-----------------------------------------------------------------------------
(* The recurrence.                                                         *)

LEMMA Appended ==
  ASSUME NEW S, NEW s \in Seq(S), NEW c \in S
  PROVE  /\ Append(s, c) \in Seq(S) /\ Len(s) \in Nat
         /\ Len(Append(s, c)) = Len(s) + 1
         /\ DOMAIN s = 1..Len(s) /\ DOMAIN Append(s, c) = 1..Len(s) + 1
         /\ \A w \in 1..Len(s) : Append(s, c)[w] = s[w]
         /\ Append(s, c)[Len(s) + 1] = c
OBVIOUS

(* The last character of t inserted.                                       *)
LEMMA LastInserted ==
  ASSUME NEW S, NEW s \in Seq(S), NEW t \in Seq(S), NEW d \in S,
         NEW A \in Alignments(s, t)
  PROVE  /\ A \in Alignments(s, Append(t, d))
         /\ Edits(s, Append(t, d), A) = Edits(s, t, A) + 1
<1> DEFINE td == Append(t, d)
<1>1. /\ td \in Seq(S) /\ Len(t) \in Nat /\ Len(td) = Len(t) + 1
      /\ DOMAIN t = 1..Len(t) /\ DOMAIN td = 1..Len(t) + 1
      /\ \A w \in 1..Len(t) : td[w] = t[w]
  BY Appended
<1> HIDE DEF td
<1>2. A \subseteq (DOMAIN s) \X (1..Len(t))
  BY <1>1 DEF Alignments
<1>3. A \in Alignments(s, td)
  <2>1. 1..Len(t) \subseteq 1..Len(t) + 1
    BY <1>1
  <2>2. A \subseteq (DOMAIN s) \X (DOMAIN td)
    BY <1>1, <1>2, <2>1
  <2> QED  BY <2>2 DEF Alignments
<1>4. Replaced(s, td, A) = Replaced(s, t, A)
  BY <1>1, <1>2 DEF Replaced
<1>5. Len(s) \in Nat /\ Cardinality(A) \in Nat
      /\ Cardinality(Replaced(s, t, A)) \in Nat
  BY AlignmentSizes
<1>6. /\ Edits(s, t, A) = Len(s) + Len(t) - 2 * Cardinality(A)
                            + Cardinality(Replaced(s, t, A))
      /\ Edits(s, td, A) = Len(s) + Len(td) - 2 * Cardinality(A)
                             + Cardinality(Replaced(s, td, A))
  BY <1>1, <1>3, AlignmentSizes
<1> QED  BY <1>1, <1>3, <1>4, <1>5, <1>6 DEF td

(* The last character of s deleted.                                        *)
LEMMA LastDeleted ==
  ASSUME NEW S, NEW s \in Seq(S), NEW t \in Seq(S), NEW c \in S,
         NEW A \in Alignments(s, t)
  PROVE  /\ A \in Alignments(Append(s, c), t)
         /\ Edits(Append(s, c), t, A) = Edits(s, t, A) + 1
<1> DEFINE sc == Append(s, c)
<1>1. /\ sc \in Seq(S) /\ Len(s) \in Nat /\ Len(sc) = Len(s) + 1
      /\ DOMAIN s = 1..Len(s) /\ DOMAIN sc = 1..Len(s) + 1
      /\ \A w \in 1..Len(s) : sc[w] = s[w]
  BY Appended
<1> HIDE DEF sc
<1>2. A \subseteq (1..Len(s)) \X (DOMAIN t)
  BY <1>1 DEF Alignments
<1>3. A \in Alignments(sc, t)
  <2>1. 1..Len(s) \subseteq 1..Len(s) + 1
    BY <1>1
  <2>2. A \subseteq (DOMAIN sc) \X (DOMAIN t)
    BY <1>1, <1>2, <2>1
  <2> QED  BY <2>2 DEF Alignments
<1>4. Replaced(sc, t, A) = Replaced(s, t, A)
  BY <1>1, <1>2 DEF Replaced
<1>5. Len(t) \in Nat /\ Cardinality(A) \in Nat
      /\ Cardinality(Replaced(s, t, A)) \in Nat
  BY AlignmentSizes
<1>6. /\ Edits(s, t, A) = Len(s) + Len(t) - 2 * Cardinality(A)
                            + Cardinality(Replaced(s, t, A))
      /\ Edits(sc, t, A) = Len(sc) + Len(t) - 2 * Cardinality(A)
                             + Cardinality(Replaced(sc, t, A))
  BY <1>1, <1>3, AlignmentSizes
<1> QED  BY <1>1, <1>3, <1>4, <1>5, <1>6 DEF sc

Substitution(c, d) == IF c = d THEN 0 ELSE 1

(* The last characters kept or replaced.                                   *)
LEMMA LastPaired ==
  ASSUME NEW S, NEW s \in Seq(S), NEW t \in Seq(S), NEW c \in S, NEW d \in S,
         NEW A \in Alignments(s, t)
  PROVE  LET B == A \cup {<<Len(s) + 1, Len(t) + 1>>}
         IN  /\ B \in Alignments(Append(s, c), Append(t, d))
             /\ Edits(Append(s, c), Append(t, d), B)
                  = Edits(s, t, A) + Substitution(c, d)
<1> DEFINE sc == Append(s, c)
           td == Append(t, d)
           l == <<Len(s) + 1, Len(t) + 1>>
           B == A \cup {l}
<1>1. /\ sc \in Seq(S) /\ Len(s) \in Nat /\ Len(sc) = Len(s) + 1
      /\ DOMAIN s = 1..Len(s) /\ DOMAIN sc = 1..Len(s) + 1
      /\ \A w \in 1..Len(s) : sc[w] = s[w]
      /\ sc[Len(s) + 1] = c
  BY Appended
<1>2. /\ td \in Seq(S) /\ Len(t) \in Nat /\ Len(td) = Len(t) + 1
      /\ DOMAIN t = 1..Len(t) /\ DOMAIN td = 1..Len(t) + 1
      /\ \A w \in 1..Len(t) : td[w] = t[w]
      /\ td[Len(t) + 1] = d
  BY Appended
<1> HIDE DEF sc, td
<1>3. /\ A \subseteq (1..Len(s)) \X (1..Len(t))
      /\ \A p, q \in A : p # q => \/ p[1] < q[1] /\ p[2] < q[2]
                                  \/ p[1] > q[1] /\ p[2] > q[2]
  BY <1>1, <1>2 DEF Alignments
<1>4. /\ l[1] = Len(s) + 1 /\ l[2] = Len(t) + 1
      /\ l \in (1..Len(s) + 1) \X (1..Len(t) + 1)
  BY <1>1, <1>2
<1>5. ASSUME NEW p \in A
      PROVE  /\ p \in (1..Len(s) + 1) \X (1..Len(t) + 1)
             /\ p[1] < l[1] /\ p[2] < l[2]
  BY <1>1, <1>2, <1>3, <1>4
<1> HIDE DEF l
<1>6. B \in Alignments(sc, td)
  <2>1. B \subseteq (DOMAIN sc) \X (DOMAIN td)
    BY <1>1, <1>2, <1>4, <1>5
  <2>2. ASSUME NEW p \in B, NEW q \in B, p # q
        PROVE  \/ p[1] < q[1] /\ p[2] < q[2]
               \/ p[1] > q[1] /\ p[2] > q[2]
    <3>1. /\ l[1] \in Nat /\ l[2] \in Nat
          /\ \A r \in A : r[1] \in Nat /\ r[2] \in Nat
      BY <1>1, <1>2, <1>3, <1>4
    <3> QED  BY <1>3, <1>5, <2>2, <3>1
  <2> QED  BY <2>1, <2>2 DEF Alignments
<1>7. /\ IsFiniteSet(A) /\ Cardinality(A) \in Nat
      /\ IsFiniteSet(Replaced(s, t, A))
      /\ Cardinality(Replaced(s, t, A)) \in Nat
  BY AlignmentSizes
<1>8. Cardinality(B) = Cardinality(A) + 1
  <2>1. l \notin A
    BY <1>1, <1>5, <1>4
  <2> QED  BY <1>7, <2>1, FS_AddElement
<1>9. Cardinality(Replaced(sc, td, B))
        = Cardinality(Replaced(s, t, A)) + Substitution(c, d)
  <2> DEFINE R == Replaced(s, t, A)
  <2>1. \A p \in A : sc[p[1]] = s[p[1]] /\ td[p[2]] = t[p[2]]
    BY <1>1, <1>2, <1>3
  <2>2. sc[l[1]] = c /\ td[l[2]] = d
    BY <1>1, <1>2, <1>4
  <2>3. l \notin R
    BY <1>1, <1>5, <1>4 DEF Replaced
  <2>4. CASE c = d
    <3>1. Replaced(sc, td, B) = R
      BY <2>1, <2>2, <2>4 DEF Replaced
    <3> QED  BY <1>7, <2>4, <3>1 DEF Substitution
  <2>5. CASE c # d
    <3>1. Replaced(sc, td, B) = R \cup {l}
      BY <2>1, <2>2, <2>5 DEF Replaced
    <3> HIDE DEF R
    <3>2. Cardinality(R \cup {l}) = Cardinality(R) + 1
      BY <1>7, <2>3, FS_AddElement DEF R
    <3> QED  BY <2>5, <3>1, <3>2 DEF Substitution, R
  <2> QED  BY <2>4, <2>5
<1>10. /\ Edits(s, t, A) = Len(s) + Len(t) - 2 * Cardinality(A)
                             + Cardinality(Replaced(s, t, A))
       /\ Edits(sc, td, B) = Len(sc) + Len(td) - 2 * Cardinality(B)
                               + Cardinality(Replaced(sc, td, B))
  <2> HIDE DEF B
  <2> QED  BY <1>1, <1>2, <1>6, AlignmentSizes
<1>11. Edits(sc, td, B) = Edits(s, t, A) + Substitution(c, d)
  <2> HIDE DEF B
  <2>1. Substitution(c, d) \in Nat
    BY DEF Substitution
  <2> QED  BY <1>1, <1>2, <1>7, <1>8, <1>9, <1>10, <2>1
<1> QED  BY <1>6, <1>11, Zenon DEF sc, td, B, l

(* An alignment deletes the last character of s, inserts that of t, or     *)
(* pairs the two: with anything else a pair would cross.                   *)
LEMMA LastOfAlignment ==
  ASSUME NEW S, NEW s \in Seq(S), NEW t \in Seq(S), NEW c \in S, NEW d \in S,
         NEW A \in Alignments(Append(s, c), Append(t, d))
  PROVE  \/ A \in Alignments(Append(s, c), t)
         \/ A \in Alignments(s, Append(t, d))
         \/ \E B \in Alignments(s, t) :
              A = B \cup {<<Len(s) + 1, Len(t) + 1>>}
<1> DEFINE m == Len(s)
           n == Len(t)
           l == <<m + 1, n + 1>>
           Uncrossed == \A p, q \in A :
             p # q => \/ p[1] < q[1] /\ p[2] < q[2]
                      \/ p[1] > q[1] /\ p[2] > q[2]
<1>1. /\ m \in Nat /\ DOMAIN s = 1..m /\ DOMAIN Append(s, c) = 1..m + 1
      /\ n \in Nat /\ DOMAIN t = 1..n /\ DOMAIN Append(t, d) = 1..n + 1
  BY Appended
<1>2. A \subseteq (1..m + 1) \X (1..n + 1) /\ Uncrossed
  <2>1. /\ A \subseteq (DOMAIN Append(s, c)) \X (DOMAIN Append(t, d))
        /\ Uncrossed
    BY DEF Alignments
  <2> HIDE DEF m, n, Uncrossed
  <2> QED  BY <1>1, <2>1
<1> HIDE DEF m, n
<1>3. CASE \A p \in A : p[2] # n + 1
  <2>1. A \subseteq (1..m + 1) \X (1..n)
    BY <1>1, <1>2, <1>3
  <2> QED  BY <1>1, <1>2, <2>1 DEF Alignments
<1>4. CASE \A p \in A : p[1] # m + 1
  <2>1. A \subseteq (1..m) \X (1..n + 1)
    BY <1>1, <1>2, <1>4
  <2> QED  BY <1>1, <1>2, <2>1 DEF Alignments
<1>5. ASSUME NEW p \in A, NEW q \in A, p[2] = n + 1, q[1] = m + 1
      PROVE  \E B \in Alignments(s, t) : A = B \cup {l}
  <2>0. /\ p \in (1..m + 1) \X (1..n + 1) /\ q \in (1..m + 1) \X (1..n + 1)
    BY <1>2
  <2>1. p = q
    BY <1>1, <1>2, <1>5, <2>0
  <2>2. l \in A
    BY <1>5, <2>0, <2>1
  <2> DEFINE B == A \ {l}
  <2>3. ASSUME NEW r \in B PROVE r \in (1..m) \X (1..n)
    <3>1. r \in (1..m + 1) \X (1..n + 1) /\ r # l /\ r \in A
      BY <1>2
    <3>2. r[1] < m + 1 /\ r[2] < n + 1
      <4>1. l[1] = m + 1 /\ l[2] = n + 1
        OBVIOUS
      <4> HIDE DEF l
      <4> QED  BY <1>1, <1>2, <2>2, <3>1, <4>1
    <3> QED  BY <1>1, <3>1, <3>2
  <2>4. B \in Alignments(s, t)
    BY <1>1, <1>2, <2>3 DEF Alignments
  <2> QED  BY <2>2, <2>4
<1> QED  BY <1>3, <1>4, <1>5 DEF m, n

(* The least of three numbers is one of them and no greater than any.      *)
LEMMA MinOfThree ==
  ASSUME NEW a \in Int, NEW b \in Int, NEW c \in Int
  PROVE  /\ Min({a, b, c}) \in {a, b, c}
         /\ Min({a, b, c}) <= a /\ Min({a, b, c}) <= b /\ Min({a, b, c}) <= c
<1>1. PICK x \in {a, b, c} : x <= a /\ x <= b /\ x <= c
  <2>1. CASE a <= b /\ a <= c
    BY <2>1
  <2>2. CASE b <= a /\ b <= c
    BY <2>2
  <2>3. CASE c <= a /\ c <= b
    BY <2>3
  <2> QED  BY <2>1, <2>2, <2>3
<1>2. Min({a, b, c}) = x
  BY <1>1, MinIs
<1> QED  BY <1>1, <1>2

(* The recurrence that Trie::CalculateEditDistance computes.               *)
THEOREM EditRecurrence ==
  ASSUME NEW S, NEW s \in Seq(S), NEW t \in Seq(S), NEW c \in S, NEW d \in S
  PROVE  FewestEdits(Append(s, c), Append(t, d))
           = Min({FewestEdits(Append(s, c), t) + 1,
                  FewestEdits(s, Append(t, d)) + 1,
                  FewestEdits(s, t) + Substitution(c, d)})
<1> DEFINE sc == Append(s, c)
           td == Append(t, d)
           left == FewestEdits(sc, t)
           above == FewestEdits(s, td)
           corner == FewestEdits(s, t)
           least == Min({left + 1, above + 1, corner + Substitution(c, d)})
<1>1. sc \in Seq(S) /\ td \in Seq(S)
  OBVIOUS
<1> HIDE DEF sc, td
<1>2. left \in Nat /\ above \in Nat /\ corner \in Nat
  BY <1>1, FewestEditsIsLeast
<1>3. Substitution(c, d) \in Nat
  BY DEF Substitution
<1> HIDE DEF left, above, corner
<1>4. /\ least \in {left + 1, above + 1, corner + Substitution(c, d)}
      /\ least <= left + 1 /\ least <= above + 1
      /\ least <= corner + Substitution(c, d)
  <2>1. /\ left + 1 \in Int /\ above + 1 \in Int
        /\ corner + Substitution(c, d) \in Int
    BY <1>2, <1>3
  <2> QED  BY <2>1, MinOfThree, Zenon
<1>5. least \in Nat
  <2> HIDE DEF least
  <2> QED  BY <1>2, <1>3, <1>4
<1> HIDE DEF least
<1>6. \E A \in Alignments(sc, td) : Edits(sc, td, A) <= least
  <2>1. CASE least = left + 1
    <3>1. PICK A \in Alignments(sc, t) : left = Edits(sc, t, A)
      BY <1>1, FewestEditsIsLeast DEF left
    <3>2. A \in Alignments(sc, td) /\ Edits(sc, td, A) = left + 1
      BY <1>1, <3>1, LastInserted DEF td
    <3> QED  BY <1>5, <2>1, <3>2
  <2>2. CASE least = above + 1
    <3>1. PICK A \in Alignments(s, td) : above = Edits(s, td, A)
      BY <1>1, FewestEditsIsLeast DEF above
    <3>2. A \in Alignments(sc, td) /\ Edits(sc, td, A) = above + 1
      BY <1>1, <3>1, LastDeleted DEF sc
    <3> QED  BY <1>5, <2>2, <3>2
  <2>3. CASE least = corner + Substitution(c, d)
    <3>1. PICK A \in Alignments(s, t) : corner = Edits(s, t, A)
      BY FewestEditsIsLeast DEF corner
    <3> DEFINE B == A \cup {<<Len(s) + 1, Len(t) + 1>>}
    <3>2. /\ B \in Alignments(sc, td)
          /\ Edits(sc, td, B) = corner + Substitution(c, d)
      BY <3>1, LastPaired DEF sc, td
    <3> HIDE DEF B
    <3> QED  BY <1>5, <2>3, <3>2
  <2> QED  BY <1>4, <2>1, <2>2, <2>3
<1>7. ASSUME NEW A \in Alignments(sc, td) PROVE least <= Edits(sc, td, A)
  <2>1. CASE A \in Alignments(sc, t)
    <3>1. left <= Edits(sc, t, A) /\ Edits(sc, t, A) \in Nat
      BY <1>1, <2>1, FewestEditsIsLeast, AlignmentSizes DEF left
    <3>2. Edits(sc, td, A) = Edits(sc, t, A) + 1
      BY <1>1, <2>1, LastInserted DEF td
    <3> QED  BY <1>2, <1>4, <1>5, <3>1, <3>2
  <2>2. CASE A \in Alignments(s, td)
    <3>1. above <= Edits(s, td, A) /\ Edits(s, td, A) \in Nat
      BY <1>1, <2>2, FewestEditsIsLeast, AlignmentSizes DEF above
    <3>2. Edits(sc, td, A) = Edits(s, td, A) + 1
      BY <1>1, <2>2, LastDeleted DEF sc
    <3> QED  BY <1>2, <1>4, <1>5, <3>1, <3>2
  <2>3. ASSUME NEW B \in Alignments(s, t),
               A = B \cup {<<Len(s) + 1, Len(t) + 1>>}
        PROVE  least <= Edits(sc, td, A)
    <3>1. corner <= Edits(s, t, B) /\ Edits(s, t, B) \in Nat
      BY FewestEditsIsLeast, AlignmentSizes DEF corner
    <3>2. Edits(sc, td, A) = Edits(s, t, B) + Substitution(c, d)
      BY <2>3, LastPaired DEF sc, td
    <3> QED  BY <1>2, <1>3, <1>4, <1>5, <3>1, <3>2
  <2> QED  BY <1>7, <2>1, <2>2, <2>3, LastOfAlignment DEF sc, td
<1>8. FewestEdits(sc, td) = least
  BY <1>1, <1>5, <1>6, <1>7, FewestEditsIs
<1> QED  BY <1>8 DEF sc, td, least, left, above, corner

(* From nothing every character is inserted, to nothing it is deleted.     *)
LEMMA EditsOfNothing ==
  ASSUME NEW S, NEW t \in Seq(S)
  PROVE  FewestEdits(<< >>, t) = Len(t) /\ FewestEdits(t, << >>) = Len(t)
<1>1. << >> \in Seq(S) /\ Len(t) \in Nat /\ Len(<< >>) = 0
  OBVIOUS
<1>2. /\ \A A \in Alignments(<< >>, t) : A = {}
      /\ \A A \in Alignments(t, << >>) : A = {}
  BY DEF Alignments
<1>3. /\ Replaced(<< >>, t, {}) = {} /\ Replaced(t, << >>, {}) = {}
      /\ Cardinality({}) = 0
  BY FS_EmptySet DEF Replaced
<1>4. /\ Edits(<< >>, t, {}) = Len(t) /\ Edits(t, << >>, {}) = Len(t)
  <2>1. /\ {} \in Alignments(<< >>, t) /\ {} \in Alignments(t, << >>)
    BY EmptyIsAlignment
  <2>2. /\ Edits(<< >>, t, {}) = Len(<< >>) + Len(t) - 2 * Cardinality({})
                                   + Cardinality(Replaced(<< >>, t, {}))
        /\ Edits(t, << >>, {}) = Len(t) + Len(<< >>) - 2 * Cardinality({})
                                   + Cardinality(Replaced(t, << >>, {}))
    BY <1>1, <2>1, AlignmentSizes
  <2>3. /\ Cardinality(Replaced(<< >>, t, {})) = 0
        /\ Cardinality(Replaced(t, << >>, {})) = 0
    BY <1>3, Zenon
  <2> QED  BY <1>1, <1>3, <2>2, <2>3
<1>5. FewestEdits(<< >>, t) = Len(t)
  <2>1. {} \in Alignments(<< >>, t)
    BY EmptyIsAlignment
  <2>2. \E A \in Alignments(<< >>, t) : Edits(<< >>, t, A) <= Len(t)
    BY <1>1, <1>4, <2>1
  <2>3. ASSUME NEW A \in Alignments(<< >>, t)
        PROVE  Len(t) <= Edits(<< >>, t, A)
    <3>1. A = {}
      BY <1>2
    <3> QED  BY <1>1, <1>4, <3>1
  <2> DEFINE e == << >>
  <2>4. e \in Seq(S)
    OBVIOUS
  <2> HIDE DEF e
  <2> QED  BY <1>1, <2>2, <2>3, <2>4, FewestEditsIs DEF e
<1>6. FewestEdits(t, << >>) = Len(t)
  <2>1. {} \in Alignments(t, << >>)
    BY EmptyIsAlignment
  <2>2. \E A \in Alignments(t, << >>) : Edits(t, << >>, A) <= Len(t)
    BY <1>1, <1>4, <2>1
  <2>3. ASSUME NEW A \in Alignments(t, << >>)
        PROVE  Len(t) <= Edits(t, << >>, A)
    <3>1. A = {}
      BY <1>2
    <3> QED  BY <1>1, <1>4, <3>1
  <2> QED  BY <1>1, <2>2, <2>3, FewestEditsIs
<1> QED  BY <1>5, <1>6

-----------------------------------------------------------------------------
(* A distance.                                                             *)

(* Edits compose, as alignments do.                                        *)
LEMMA EditsCompose ==
  ASSUME NEW S, NEW s \in Seq(S), NEW t \in Seq(S), NEW u \in Seq(S),
         NEW A \in Alignments(s, t), NEW B \in Alignments(t, u)
  PROVE  \E C \in Alignments(s, u) :
           Edits(s, u, C) <= Edits(s, t, A) + Edits(t, u, B)
<1> DEFINE M == DOMAIN s
           N == DOMAIN t
           O == DOMAIN u
           before(j) == CHOOSE w : <<w, j>> \in A
           after(j) == CHOOSE k : <<j, k>> \in B
           TA == {j \in N : \E w \in M : <<w, j>> \in A}
           TB == {j \in N : \E k \in O : <<j, k>> \in B}
           T == TA \cap TB
           C == {<<before(j), after(j)>> : j \in T}
           JA == {j \in TA : s[before(j)] # t[j]}
           JB == {j \in TB : t[j] # u[after(j)]}
<1>1. /\ M \subseteq Nat /\ N \subseteq Nat /\ O \subseteq Nat
      /\ IsFiniteSet(N) /\ Cardinality(N) = Len(t)
      /\ Len(s) \in Nat /\ Len(t) \in Nat /\ Len(u) \in Nat
  <2>1. /\ Len(s) \in Nat /\ Len(t) \in Nat /\ Len(u) \in Nat
        /\ M = 1..Len(s) /\ N = 1..Len(t) /\ O = 1..Len(u)
    OBVIOUS
  <2> HIDE DEF M, N, O
  <2>2. IsFiniteSet(1..Len(t)) /\ Cardinality(1..Len(t)) = Len(t)
    <3> DEFINE n == Len(t)
    <3>1. n \in Nat
      BY <2>1
    <3> HIDE DEF n
    <3>2. IsFiniteSet(1..n) /\ Cardinality(1..n) = n
      BY <3>1, FS_Interval
    <3> QED  BY <3>2 DEF n
  <2>3. M \subseteq Nat /\ N \subseteq Nat /\ O \subseteq Nat
    BY <2>1
  <2> QED  BY <2>1, <2>2, <2>3, Zenon
<1>2. /\ A \subseteq M \X N
      /\ \A p, q \in A : p # q => \/ p[1] < q[1] /\ p[2] < q[2]
                                  \/ p[1] > q[1] /\ p[2] > q[2]
      /\ B \subseteq N \X O
      /\ \A p, q \in B : p # q => \/ p[1] < q[1] /\ p[2] < q[2]
                                  \/ p[1] > q[1] /\ p[2] > q[2]
  BY DEF Alignments
<1> HIDE DEF M, N, O
<1>3. ASSUME NEW j \in TA
      PROVE  before(j) \in M /\ <<before(j), j>> \in A
  <2>1. PICK w \in M : <<w, j>> \in A
    OBVIOUS
  <2>2. <<before(j), j>> \in A
    BY <2>1, Zenon
  <2> HIDE DEF before
  <2> QED  BY <1>2, <2>2
<1>4. ASSUME NEW j \in TB
      PROVE  after(j) \in O /\ <<j, after(j)>> \in B
  <2>1. PICK k \in O : <<j, k>> \in B
    OBVIOUS
  <2>2. <<j, after(j)>> \in B
    BY <2>1, Zenon
  <2> HIDE DEF after
  <2> QED  BY <1>2, <2>2
<1> HIDE DEF before, after
<1>5. \A w, j, k : <<w, j>> \in A /\ <<k, j>> \in A => w = k
  <2> SUFFICES ASSUME NEW w, NEW j, NEW k,
                      <<w, j>> \in A, <<k, j>> \in A, w # k
               PROVE  FALSE
    OBVIOUS
  <2>1. w \in Nat /\ j \in Nat /\ k \in Nat
    BY <1>1, <1>2
  <2>2. <<w, j>> # <<k, j>>
    OBVIOUS
  <2>3. \/ <<w, j>>[1] < <<k, j>>[1] /\ <<w, j>>[2] < <<k, j>>[2]
        \/ <<w, j>>[1] > <<k, j>>[1] /\ <<w, j>>[2] > <<k, j>>[2]
    BY <1>2, <2>2, Zenon
  <2> QED  BY <2>1, <2>3
<1>6. ASSUME NEW w \in TA, NEW j \in TA, w < j PROVE before(w) < before(j)
  <2>1. /\ <<before(w), w>> \in A /\ <<before(j), j>> \in A
        /\ before(w) \in Nat /\ before(j) \in Nat /\ w \in Nat /\ j \in Nat
    BY <1>1, <1>3
  <2>2. <<before(w), w>> # <<before(j), j>>
    BY <1>6, <2>1
  <2>3. \/ <<before(w), w>>[1] < <<before(j), j>>[1]
           /\ <<before(w), w>>[2] < <<before(j), j>>[2]
        \/ <<before(w), w>>[1] > <<before(j), j>>[1]
           /\ <<before(w), w>>[2] > <<before(j), j>>[2]
    BY <1>2, <2>1, <2>2, Zenon
  <2> QED  BY <1>6, <2>1, <2>3
<1>7. ASSUME NEW w \in TB, NEW j \in TB, w < j PROVE after(w) < after(j)
  <2>1. /\ <<w, after(w)>> \in B /\ <<j, after(j)>> \in B
        /\ after(w) \in Nat /\ after(j) \in Nat /\ w \in Nat /\ j \in Nat
    BY <1>1, <1>4
  <2>2. <<w, after(w)>> # <<j, after(j)>>
    BY <1>7, <2>1
  <2>3. \/ <<w, after(w)>>[1] < <<j, after(j)>>[1]
           /\ <<w, after(w)>>[2] < <<j, after(j)>>[2]
        \/ <<w, after(w)>>[1] > <<j, after(j)>>[1]
           /\ <<w, after(w)>>[2] > <<j, after(j)>>[2]
    BY <1>2, <2>1, <2>2, Zenon
  <2> QED  BY <1>7, <2>1, <2>3
<1>8. \A p \in A : p[1] \in M /\ p[2] \in TA /\ before(p[2]) = p[1]
                   /\ p = <<p[1], p[2]>>
  <2> SUFFICES ASSUME NEW p \in A
               PROVE  /\ p[1] \in M /\ p[2] \in TA /\ before(p[2]) = p[1]
                      /\ p = <<p[1], p[2]>>
    OBVIOUS
  <2>1. p[1] \in M /\ p[2] \in N /\ p = <<p[1], p[2]>>
    BY <1>2
  <2>2. <<p[1], p[2]>> \in A
    BY <2>1
  <2>3. p[2] \in TA
    BY <2>1, <2>2
  <2>4. <<before(p[2]), p[2]>> \in A
    BY <1>3, <2>3
  <2>5. before(p[2]) = p[1]
    BY <1>5, <2>2, <2>4
  <2> QED  BY <2>1, <2>3, <2>5
<1>9. \A p \in B : p[2] \in O /\ p[1] \in TB /\ after(p[1]) = p[2]
                   /\ p = <<p[1], p[2]>>
  <2> SUFFICES ASSUME NEW p \in B
               PROVE  /\ p[2] \in O /\ p[1] \in TB /\ after(p[1]) = p[2]
                      /\ p = <<p[1], p[2]>>
    OBVIOUS
  <2>1. p[1] \in N /\ p[2] \in O /\ p = <<p[1], p[2]>>
    BY <1>2
  <2>2. <<p[1], p[2]>> \in B
    BY <2>1
  <2>3. p[1] \in TB
    BY <2>1, <2>2
  <2>4. <<p[1], after(p[1])>> \in B /\ after(p[1]) \in Nat /\ p[2] \in Nat
        /\ p[1] \in Nat
    BY <1>1, <1>4, <2>1, <2>3
  <2>5. \/ <<p[1], after(p[1])>> = p
        \/ <<p[1], after(p[1])>>[1] < p[1] \/ <<p[1], after(p[1])>>[1] > p[1]
    BY <1>2, <2>4
  <2>6. after(p[1]) = p[2]
    BY <2>1, <2>4, <2>5
  <2> QED  BY <2>1, <2>3, <2>6
<1>10. TA \subseteq N /\ TB \subseteq N /\ JA \subseteq TA /\ JB \subseteq TB
  OBVIOUS
<1> HIDE DEF TA, TB
<1>11. /\ IsFiniteSet(A) /\ IsFiniteSet(B)
       /\ IsFiniteSet(Replaced(s, t, A)) /\ IsFiniteSet(Replaced(t, u, B))
  BY AlignmentSizes
<1>12. IsFiniteSet(TA) /\ Cardinality(TA) = Cardinality(A)
  <2> DEFINE f == [p \in A |-> p[2]]
  <2>1. f \in Bijection(A, TA)
    <3>1. f \in [A -> TA]
      BY <1>8
    <3>2. \A p, q \in A : f[p] = f[q] => p = q
      BY <1>8
    <3>3. \A j \in TA : \E p \in A : f[p] = j
      <4> TAKE j \in TA
      <4>1. <<before(j), j>> \in A
        BY <1>3
      <4>2. f[<<before(j), j>>] = j
        BY <4>1
      <4> QED  BY <4>1, <4>2
    <3> HIDE DEF f
    <3> QED
      BY <3>1, <3>2, <3>3 DEF Bijection, Injection, IsInjective, Surjection
  <2> HIDE DEF f
  <2>2. ExistsBijection(A, TA)
    BY <2>1 DEF ExistsBijection
  <2> QED  BY <1>11, <2>2, FS_Bijection
<1>13. IsFiniteSet(TB) /\ Cardinality(TB) = Cardinality(B)
  <2> DEFINE f == [p \in B |-> p[1]]
  <2>1. f \in Bijection(B, TB)
    <3>1. f \in [B -> TB]
      BY <1>9
    <3>2. \A p, q \in B : f[p] = f[q] => p = q
      BY <1>9
    <3>3. \A j \in TB : \E p \in B : f[p] = j
      <4> TAKE j \in TB
      <4>1. <<j, after(j)>> \in B
        BY <1>4
      <4>2. f[<<j, after(j)>>] = j
        BY <4>1
      <4> QED  BY <4>1, <4>2
    <3> HIDE DEF f
    <3> QED
      BY <3>1, <3>2, <3>3 DEF Bijection, Injection, IsInjective, Surjection
  <2> HIDE DEF f
  <2>2. ExistsBijection(B, TB)
    BY <2>1 DEF ExistsBijection
  <2> QED  BY <1>11, <2>2, FS_Bijection
<1>14. /\ IsFiniteSet(T) /\ Cardinality(T) \in Nat
       /\ Cardinality(TA) + Cardinality(TB) - Cardinality(T) <= Len(t)
  <2>1. TA \cup TB \in SUBSET N /\ T \in SUBSET TA
    BY <1>10
  <2>2. Cardinality(TA \cup TB) <= Len(t) /\ IsFiniteSet(T)
    BY <1>1, <1>12, <2>1, FS_Subset
  <2>3. Cardinality(TA \cup TB)
          = Cardinality(TA) + Cardinality(TB) - Cardinality(T)
    BY <1>12, <1>13, FS_Union
  <2> QED  BY <2>2, <2>3, FS_CardinalityType
<1>15. C \in Alignments(s, u)
  <2>1. C \subseteq M \X O
    <3> SUFFICES ASSUME NEW j \in T PROVE <<before(j), after(j)>> \in M \X O
      OBVIOUS
    <3>1. before(j) \in M /\ after(j) \in O
      BY <1>3, <1>4
    <3> QED  BY <3>1
  <2>2. ASSUME NEW p \in C, NEW q \in C, p # q
        PROVE  \/ p[1] < q[1] /\ p[2] < q[2]
               \/ p[1] > q[1] /\ p[2] > q[2]
    <3>1. PICK w \in T : p = <<before(w), after(w)>>
      OBVIOUS
    <3>2. PICK j \in T : q = <<before(j), after(j)>>
      OBVIOUS
    <3>3. w # j /\ w \in Nat /\ j \in Nat
      BY <1>1, <1>10, <2>2, <3>1, <3>2
    <3>4. CASE w < j
      BY <1>6, <1>7, <3>1, <3>2, <3>4
    <3>5. CASE j < w
      <4>1. before(j) < before(w) /\ after(j) < after(w)
        BY <1>6, <1>7, <3>5
      <4>2. /\ before(w) \in Nat /\ before(j) \in Nat
            /\ after(w) \in Nat /\ after(j) \in Nat
        BY <1>1, <1>3, <1>4
      <4> QED  BY <3>1, <3>2, <4>1, <4>2
    <3> QED  BY <3>3, <3>4, <3>5
  <2> HIDE DEF C
  <2> QED  BY <2>1, <2>2 DEF Alignments, M, O
<1>16. Cardinality(C) = Cardinality(T)
  <2> DEFINE f == [j \in T |-> <<before(j), after(j)>>]
  <2>1. f \in Bijection(T, C)
    <3>1. f \in [T -> C]
      OBVIOUS
    <3>2. ASSUME NEW w \in T, NEW j \in T, f[w] = f[j] PROVE w = j
      <4>1. before(w) = before(j) /\ w \in Nat /\ j \in Nat
            /\ before(w) \in Nat /\ before(j) \in Nat
        BY <1>1, <1>3, <1>10, <3>2
      <4>2. ~(w < j) /\ ~(j < w)
        BY <1>6, <4>1
      <4> QED  BY <4>1, <4>2
    <3>3. \A p \in C : \E j \in T : f[j] = p
      OBVIOUS
    <3> HIDE DEF f, C, T
    <3> QED
      BY <3>1, <3>2, <3>3 DEF Bijection, Injection, IsInjective, Surjection
  <2> HIDE DEF f
  <2>2. ExistsBijection(T, C)
    BY <2>1 DEF ExistsBijection
  <2> HIDE DEF C, T
  <2> QED  BY <1>14, <2>2, FS_Bijection
<1>17. /\ IsFiniteSet(JA)
       /\ Cardinality(JA) <= Cardinality(Replaced(s, t, A))
  <2> DEFINE f == [j \in JA |-> <<before(j), j>>]
             R == Replaced(s, t, A)
  <2>1. f \in Injection(JA, R)
    <3>1. f \in [JA -> R]
      BY <1>3, <1>10 DEF Replaced
    <3>2. \A w, j \in JA : f[w] = f[j] => w = j
      OBVIOUS
    <3> HIDE DEF f, R, JA
    <3> QED  BY <3>1, <3>2 DEF Injection, IsInjective
  <2> HIDE DEF f, JA
  <2> QED  BY <1>11, <2>1, FS_Injection
<1>18. /\ IsFiniteSet(JB)
       /\ Cardinality(JB) <= Cardinality(Replaced(t, u, B))
  <2> DEFINE f == [j \in JB |-> <<j, after(j)>>]
             R == Replaced(t, u, B)
  <2>1. f \in Injection(JB, R)
    <3>1. f \in [JB -> R]
      BY <1>4, <1>10 DEF Replaced
    <3>2. \A w, j \in JB : f[w] = f[j] => w = j
      OBVIOUS
    <3> HIDE DEF f, R, JB
    <3> QED  BY <3>1, <3>2 DEF Injection, IsInjective
  <2> HIDE DEF f, JB
  <2> QED  BY <1>11, <2>1, FS_Injection
<1>19. Cardinality(Replaced(s, u, C)) <= Cardinality(JA) + Cardinality(JB)
  <2> DEFINE R == Replaced(s, u, C)
             through(p) ==
               CHOOSE j \in JA \cup JB : p = <<before(j), after(j)>>
             g == [p \in R |-> through(p)]
  <2>1. ASSUME NEW p \in R
        PROVE  \E j \in JA \cup JB : p = <<before(j), after(j)>>
    <3>1. PICK j \in T : p = <<before(j), after(j)>>
      BY DEF Replaced
    <3>2. s[before(j)] # u[after(j)]
      BY <3>1 DEF Replaced
    <3>3. j \in JA \cup JB
      BY <3>2
    <3> QED  BY <3>1, <3>3
  <2>2. g \in Injection(R, JA \cup JB)
    <3>1. ASSUME NEW p \in R
          PROVE  /\ g[p] \in JA \cup JB
                 /\ p = <<before(g[p]), after(g[p])>>
      <4> HIDE DEF R, JA, JB
      <4>1. /\ through(p) \in JA \cup JB
            /\ p = <<before(through(p)), after(through(p))>>
        BY <2>1, Zenon
      <4> HIDE DEF through
      <4> QED  BY <4>1
    <3>2. g \in [R -> JA \cup JB]
      <4>1. \A p \in R : through(p) \in JA \cup JB
        BY <3>1
      <4> HIDE DEF through, R, JA, JB
      <4> QED  BY <4>1
    <3> HIDE DEF g, R, JA, JB
    <3>3. \A p, q \in R : g[p] = g[q] => p = q
      BY <3>1
    <3> QED  BY <3>2, <3>3 DEF Injection, IsInjective
  <2> HIDE DEF g, JA, JB
  <2>3. /\ IsFiniteSet(JA \cup JB)
        /\ Cardinality(JA \cup JB) = Cardinality(JA) + Cardinality(JB)
                                       - Cardinality(JA \cap JB)
    BY <1>17, <1>18, FS_Union
  <2>4. Cardinality(R) <= Cardinality(JA \cup JB) /\ IsFiniteSet(R)
    <3> HIDE DEF R
    <3> QED  BY <2>2, <2>3, FS_Injection
  <2>5. /\ Cardinality(JA \cap JB) \in Nat /\ Cardinality(JA) \in Nat
        /\ Cardinality(JB) \in Nat /\ Cardinality(R) \in Nat
    <3>1. IsFiniteSet(JA \cap JB)
      BY <1>17, FS_Intersection
    <3> HIDE DEF R
    <3> QED  BY <1>17, <1>18, <2>4, <3>1, FS_CardinalityType
  <2> QED  BY <2>3, <2>4, <2>5
<1> HIDE DEF C, JA, JB, T
<1>20. /\ Cardinality(A) \in Nat /\ Cardinality(B) \in Nat
       /\ Cardinality(C) \in Nat
       /\ Cardinality(Replaced(s, t, A)) \in Nat
       /\ Cardinality(Replaced(t, u, B)) \in Nat
       /\ Cardinality(Replaced(s, u, C)) \in Nat
       /\ Cardinality(JA) \in Nat /\ Cardinality(JB) \in Nat
       /\ Edits(s, t, A) = Len(s) + Len(t) - 2 * Cardinality(A)
                             + Cardinality(Replaced(s, t, A))
       /\ Edits(t, u, B) = Len(t) + Len(u) - 2 * Cardinality(B)
                             + Cardinality(Replaced(t, u, B))
       /\ Edits(s, u, C) = Len(s) + Len(u) - 2 * Cardinality(C)
                             + Cardinality(Replaced(s, u, C))
  BY <1>15, <1>17, <1>18, AlignmentSizes, FS_CardinalityType
<1>21. Edits(s, u, C) <= Edits(s, t, A) + Edits(t, u, B)
  <2> HIDE DEF TA, TB, T, C, JA, JB
  <2>1. Cardinality(A) + Cardinality(B) - Cardinality(C) <= Len(t)
    BY <1>12, <1>13, <1>14, <1>16, Zenon
  <2>2. Cardinality(Replaced(s, u, C))
          <= Cardinality(Replaced(s, t, A)) + Cardinality(Replaced(t, u, B))
    BY <1>17, <1>18, <1>19, <1>20
  <2>3. Len(s) \in Nat /\ Len(t) \in Nat /\ Len(u) \in Nat
    BY <1>1
  <2> DEFINE l == Len(s)
             m == Len(t)
             n == Len(u)
             a == Cardinality(A)
             b == Cardinality(B)
             c == Cardinality(C)
             x == Cardinality(Replaced(s, t, A))
             y == Cardinality(Replaced(t, u, B))
             z == Cardinality(Replaced(s, u, C))
  <2>4. /\ l \in Nat /\ m \in Nat /\ n \in Nat
        /\ a \in Nat /\ b \in Nat /\ c \in Nat
        /\ x \in Nat /\ y \in Nat /\ z \in Nat
        /\ a + b - c <= m /\ z <= x + y
        /\ Edits(s, t, A) = l + m - 2 * a + x
        /\ Edits(t, u, B) = m + n - 2 * b + y
        /\ Edits(s, u, C) = l + n - 2 * c + z
    BY <1>20, <2>1, <2>2, <2>3, Zenon
  <2> HIDE DEF l, m, n, a, b, c, x, y, z
  <2> QED  BY <2>4
<1> QED  BY <1>15, <1>21

(* From s to u by way of t takes no fewer edits than the fewest.           *)
THEOREM EditTriangle ==
  ASSUME NEW S, NEW s \in Seq(S), NEW t \in Seq(S), NEW u \in Seq(S)
  PROVE  FewestEdits(s, u) <= FewestEdits(s, t) + FewestEdits(t, u)
<1>1. PICK A \in Alignments(s, t) : FewestEdits(s, t) = Edits(s, t, A)
  BY FewestEditsIsLeast
<1>2. PICK B \in Alignments(t, u) : FewestEdits(t, u) = Edits(t, u, B)
  BY FewestEditsIsLeast
<1>3. PICK C \in Alignments(s, u) :
        Edits(s, u, C) <= Edits(s, t, A) + Edits(t, u, B)
  BY EditsCompose
<1>4. FewestEdits(s, u) <= Edits(s, u, C) /\ FewestEdits(s, u) \in Nat
      /\ Edits(s, u, C) \in Nat /\ Edits(s, t, A) \in Nat
      /\ Edits(t, u, B) \in Nat
  BY FewestEditsIsLeast, AlignmentSizes
<1> QED  BY <1>1, <1>2, <1>3, <1>4

-----------------------------------------------------------------------------
(* Edits in the middle of a string.                                        *)

LEMMA JoinedStrings ==
  ASSUME NEW S, NEW a \in Seq(S), NEW x \in Seq(S), NEW b \in Seq(S)
  PROVE  LET s == a \o x \o b
             m == Len(a)
             n == Len(a) + Len(x)
         IN  /\ s \in Seq(S)
             /\ Len(a) \in Nat /\ Len(x) \in Nat /\ Len(b) \in Nat
             /\ Len(s) = Len(a) + Len(x) + Len(b)
             /\ DOMAIN s = 1..Len(a) + Len(x) + Len(b)
             /\ \A w \in 1..m : s[w] = a[w]
             /\ \A w \in 1..Len(b) : s[n + w] = b[w]
<1> DEFINE ax == a \o x
<1>1. /\ ax \in Seq(S) /\ Len(ax) = Len(a) + Len(x)
      /\ Len(a) \in Nat /\ Len(x) \in Nat /\ Len(b) \in Nat
      /\ \A w \in 1..Len(a) : ax[w] = a[w]
  OBVIOUS
<1> HIDE DEF ax
<1>2. /\ ax \o b \in Seq(S) /\ Len(ax \o b) = Len(ax) + Len(b)
      /\ DOMAIN (ax \o b) = 1..Len(ax) + Len(b)
      /\ \A w \in 1..Len(ax) : (ax \o b)[w] = ax[w]
      /\ \A w \in 1..Len(b) : (ax \o b)[Len(ax) + w] = b[w]
  <2>1. /\ ax \o b \in Seq(S) /\ Len(ax \o b) = Len(ax) + Len(b)
        /\ DOMAIN (ax \o b) = 1..Len(ax) + Len(b)
    <3>1. ax \in Seq(S)
      BY <1>1
    <3> QED  BY ONLY <3>1, b \in Seq(S)
  <2>2. \A w \in 1..Len(ax) + Len(b) :
          (ax \o b)[w] = IF w <= Len(ax) THEN ax[w] ELSE b[w - Len(ax)]
    <3> SUFFICES ASSUME NEW w \in 1..Len(ax) + Len(b)
                 PROVE  (ax \o b)[w] = IF w <= Len(ax) THEN ax[w]
                                                       ELSE b[w - Len(ax)]
      OBVIOUS
    <3>1. ax \in Seq(S) /\ Len(ax) \in Nat
      BY <1>1
    <3> QED  BY <3>1
  <2>3. ASSUME NEW w \in 1..Len(b) PROVE (ax \o b)[Len(ax) + w] = b[w]
    <3> DEFINE k == Len(ax) + w
    <3>1. /\ k \in 1..Len(ax) + Len(b) /\ ~(k <= Len(ax))
          /\ k - Len(ax) = w
      BY <1>1
    <3> HIDE DEF k
    <3>2. (ax \o b)[k] = b[w]
      BY <2>2, <3>1
    <3> QED  BY <3>2 DEF k
  <2>4. ASSUME NEW w \in 1..Len(ax) PROVE (ax \o b)[w] = ax[w]
    BY <1>1, <2>2
  <2> QED  BY <2>1, <2>3, <2>4
<1>3. \A w \in 1..Len(a) : w \in 1..Len(ax)
  BY <1>1
<1> QED  BY <1>1, <1>2, <1>3 DEF ax

(* Replacing x by y within a string takes no more edits than the longer of *)
(* the two has characters.                                                 *)
LEMMA EditsOfSplice ==
  ASSUME NEW S, NEW a \in Seq(S), NEW b \in Seq(S),
         NEW x \in Seq(S), NEW y \in Seq(S),
         NEW n \in Nat, Len(x) <= n, Len(y) <= n
  PROVE  FewestEdits(a \o x \o b, a \o y \o b) <= n
<1> DEFINE s == a \o x \o b
           t == a \o y \o b
           j == Len(a)
           k == Len(x)
           l == Len(y)
           m == IF k <= l THEN k ELSE l
           r == Len(b)
           f == [q \in 1..j + m + r |->
                   IF q <= j + m THEN <<q, q>>
                                 ELSE <<q - m + k, q - m + l>>]
           A == {f[q] : q \in 1..j + m + r}
<1>1. /\ s \in Seq(S) /\ t \in Seq(S)
      /\ j \in Nat /\ k \in Nat /\ l \in Nat /\ r \in Nat
      /\ k <= n /\ l <= n
      /\ Len(s) = j + k + r /\ Len(t) = j + l + r
      /\ DOMAIN s = 1..j + k + r /\ DOMAIN t = 1..j + l + r
      /\ \A w \in 1..j : s[w] = t[w]
      /\ \A w \in 1..r : s[j + k + w] = t[j + l + w]
  BY JoinedStrings
<1> HIDE DEF s, t, j, k, l, r
<1>2. m \in Nat /\ m <= k /\ m <= l /\ (m = k \/ m = l)
  BY <1>1
<1> HIDE DEF m
<1>3. ASSUME NEW q \in 1..j + m + r
      PROVE  /\ f[q] \in (DOMAIN s) \X (DOMAIN t)
             /\ f[q][1] \in Nat /\ f[q][2] \in Nat
             /\ q <= j + m => f[q][1] = q /\ f[q][2] = q
             /\ q > j + m => f[q][1] = q - m + k /\ f[q][2] = q - m + l
  <2>1. CASE q <= j + m
    BY <1>1, <1>2, <2>1
  <2>2. CASE q > j + m
    <3>1. f[q] = <<q - m + k, q - m + l>>
      BY <1>1, <1>2, <2>2
    <3>2. q - m + k \in DOMAIN s /\ q - m + l \in DOMAIN t
      BY <1>1, <1>2, <2>2
    <3> QED  BY <1>1, <1>2, <2>2, <3>1, <3>2
  <2> QED  BY <1>1, <1>2, <2>1, <2>2
<1> HIDE DEF f
<1>4. ASSUME NEW p \in 1..j + m + r, NEW q \in 1..j + m + r, p < q
      PROVE  f[p][1] < f[q][1] /\ f[p][2] < f[q][2]
  <2>1. CASE q <= j + m
    BY <1>1, <1>2, <1>3, <1>4, <2>1
  <2>2. CASE q > j + m /\ p <= j + m
    <3>1. /\ f[p][1] = p /\ f[p][2] = p
          /\ f[q][1] = q - m + k /\ f[q][2] = q - m + l
      BY <1>3, <2>2
    <3>2. p \in Nat /\ q \in Nat /\ p < q /\ k >= m /\ l >= m
      BY <1>1, <1>2, <1>4
    <3>3. p < q - m + k /\ p < q - m + l
      BY <1>1, <1>2, <3>2
    <3> QED  BY <3>1, <3>3
  <2>3. CASE q > j + m /\ p > j + m
    <3>1. /\ f[p][1] = p - m + k /\ f[p][2] = p - m + l
          /\ f[q][1] = q - m + k /\ f[q][2] = q - m + l
      BY <1>3, <2>3
    <3> QED  BY <1>1, <1>2, <1>4, <3>1
  <2> QED  BY <1>1, <1>2, <2>1, <2>2, <2>3
<1>5. A \in Alignments(s, t)
  <2>1. A \subseteq (DOMAIN s) \X (DOMAIN t)
    BY <1>3
  <2>2. ASSUME NEW p \in A, NEW q \in A, p # q
        PROVE  \/ p[1] < q[1] /\ p[2] < q[2]
               \/ p[1] > q[1] /\ p[2] > q[2]
    <3>1. PICK v \in 1..j + m + r : p = f[v]
      OBVIOUS
    <3>2. PICK w \in 1..j + m + r : q = f[w]
      OBVIOUS
    <3>3. v # w /\ v \in Nat /\ w \in Nat
      BY <1>1, <1>2, <2>2, <3>1, <3>2
    <3>4. v < w \/ w < v
      BY <3>3
    <3> QED  BY <1>3, <1>4, <3>1, <3>2, <3>4
  <2> HIDE DEF A
  <2> QED  BY <2>1, <2>2 DEF Alignments
<1>6. Cardinality(A) = j + m + r
  <2> DEFINE I == 1..j + m + r
  <2>1. IsFiniteSet(I) /\ Cardinality(I) = j + m + r
    <3>1. j + m + r \in Nat
      BY <1>1, <1>2
    <3> DEFINE h == j + m + r
    <3>2. h \in Nat
      BY <3>1
    <3> HIDE DEF h
    <3>3. IsFiniteSet(1..h) /\ Cardinality(1..h) = h
      BY <3>2, FS_Interval
    <3> QED  BY <3>3 DEF h
  <2>2. I \subseteq Nat
    OBVIOUS
  <2>3. f \in Bijection(I, A)
    <3>1. f \in [I -> A]
      BY DEF f
    <3>2. ASSUME NEW p \in I, NEW q \in I, f[p] = f[q] PROVE p = q
      <4>1. f[p][1] \in Nat /\ ~(p < q) /\ ~(q < p)
        BY <1>3, <1>4, <3>2
      <4> QED  BY <2>2, <4>1
    <3>3. \A p \in A : \E q \in I : f[q] = p
      OBVIOUS
    <3> HIDE DEF I, A
    <3> QED
      BY <3>1, <3>2, <3>3 DEF Bijection, Injection, IsInjective, Surjection
  <2>4. ExistsBijection(I, A)
    <3> HIDE DEF I, A
    <3> QED  BY <2>3 DEF ExistsBijection
  <2> HIDE DEF I, A
  <2> QED  BY <2>1, <2>4, FS_Bijection
<1>7. Cardinality(Replaced(s, t, A)) <= m
  <2> DEFINE R == Replaced(s, t, A)
             I == j + 1..j + m
             g == [p \in R |-> p[1]]
  <2>1. ASSUME NEW p \in R PROVE p[1] \in I /\ p = <<p[1], p[1]>>
    <3>1. PICK q \in 1..j + m + r : p = f[q]
      BY DEF Replaced
    <3>2. s[p[1]] # t[p[2]]
      BY DEF Replaced
    <3>3. q <= j + m
      <4>1. ASSUME q > j + m PROVE FALSE
        <5>1. p[1] = j + k + (q - m - j) /\ p[2] = j + l + (q - m - j)
              /\ q - m - j \in 1..r
          BY <1>1, <1>2, <1>3, <3>1, <4>1
        <5> QED  BY <1>1, <3>2, <5>1
      <4> QED  BY <1>1, <1>2, <4>1
    <3>4. q > j
      <4>1. ASSUME q \in 1..j PROVE FALSE
        <5>1. p[1] = q /\ p[2] = q
          BY <1>3, <3>1, <3>3
        <5> QED  BY <1>1, <3>2, <4>1, <5>1
      <4> QED  BY <1>1, <1>2, <4>1
    <3>5. p = <<q, q>>
      BY <3>1, <3>3 DEF f
    <3> QED  BY <1>1, <1>2, <3>3, <3>4, <3>5
  <2>2. IsFiniteSet(I) /\ Cardinality(I) = m
    <3>1. j + 1 \in Int /\ j + m \in Int
      BY <1>1, <1>2
    <3>2. IsFiniteSet(I)
          /\ Cardinality(I) =
               IF j + 1 > j + m THEN 0 ELSE (j + m) - (j + 1) + 1
      BY <3>1, FS_Interval
    <3> HIDE DEF I
    <3> QED  BY <1>1, <1>2, <3>2
  <2> HIDE DEF R, I
  <2>3. g \in Injection(R, I)
    <3>1. g \in [R -> I]
      BY <2>1
    <3>2. \A p, q \in R : g[p] = g[q] => p = q
      BY <2>1
    <3> HIDE DEF g
    <3> QED  BY <3>1, <3>2 DEF Injection, IsInjective
  <2> HIDE DEF g
  <2> QED  BY <2>2, <2>3, FS_Injection DEF R
<1> HIDE DEF A
<1>8. /\ Cardinality(Replaced(s, t, A)) \in Nat
      /\ Edits(s, t, A) = Len(s) + Len(t) - 2 * Cardinality(A)
                            + Cardinality(Replaced(s, t, A))
  BY <1>1, <1>5, AlignmentSizes
<1>9. Edits(s, t, A) <= n
  <2> DEFINE z == Cardinality(Replaced(s, t, A))
  <2>1. /\ z \in Nat /\ z <= m
        /\ Edits(s, t, A) = (j + k + r) + (j + l + r) - 2 * (j + m + r) + z
    BY <1>1, <1>6, <1>7, <1>8
  <2> HIDE DEF z
  <2> QED  BY <1>1, <1>2, <2>1
<1>10. FewestEdits(s, t) <= Edits(s, t, A) /\ FewestEdits(s, t) \in Nat
  BY <1>1, <1>5, FewestEditsIsLeast
<1>11. FewestEdits(s, t) <= n
  BY <1>1, <1>5, <1>9, <1>10, AlignmentSizes
<1> QED  BY <1>11 DEF s, t

(* Nothing is edited in turning a string into itself.                      *)
LEMMA NoEdits ==
  ASSUME NEW S, NEW s \in Seq(S)
  PROVE  FewestEdits(s, s) = 0
<1> DEFINE e == << >>
<1>1. e \in Seq(S) /\ Len(e) = 0 /\ s \o e \o e = s
  OBVIOUS
<1> HIDE DEF e
<1>2. FewestEdits(s \o e \o e, s \o e \o e) <= 0
  <2>1. 0 \in Nat /\ Len(e) <= 0
    BY <1>1
  <2> QED  BY <1>1, <2>1, EditsOfSplice, Zenon
<1>3. FewestEdits(s, s) \in Nat
  BY FewestEditsIsLeast
<1> QED  BY <1>1, <1>2, <1>3

-----------------------------------------------------------------------------
(* One edit.                                                               *)

LastOf(s) == s[Len(s)]
ButLast(s) == SubSeq(s, 1, Len(s) - 1)

LEMMA Unappend ==
  ASSUME NEW S, NEW s \in Seq(S), s # << >>
  PROVE  /\ ButLast(s) \in Seq(S) /\ LastOf(s) \in S
         /\ s = Append(ButLast(s), LastOf(s))
         /\ Len(s) \in Nat /\ Len(ButLast(s)) = Len(s) - 1
<1>1. Len(s) \in Nat /\ Len(s) # 0
  OBVIOUS
<1>2. s[Len(s)] \in S /\ Len(s) - 1 \in 0..Len(s)
  BY <1>1
<1>3. ButLast(s) \in Seq(S) /\ Len(ButLast(s)) = Len(s) - 1
  <2>1. \A k \in 0..Len(s) : /\ SubSeq(s, 1, k) \in Seq(S)
                              /\ Len(SubSeq(s, 1, k)) = k
    OBVIOUS
  <2> QED  BY <1>2, <2>1 DEF ButLast
<1>4. s = Append(ButLast(s), LastOf(s))
  BY <1>1, <1>2 DEF ButLast, LastOf
<1> QED  BY <1>1, <1>2, <1>3, <1>4 DEF LastOf

(* t is s with the characters x, of which there is at most one, replaced   *)
(* by the characters y, of which there is at most one.                     *)
OneSplice(S, s, t) ==
  \E a, x, y, b \in Seq(S) :
    /\ s = a \o x \o b /\ t = a \o y \o b
    /\ Len(x) <= 1 /\ Len(y) <= 1

LEMMA SpliceIs ==
  ASSUME NEW S, NEW a \in Seq(S), NEW x \in Seq(S), NEW y \in Seq(S),
         NEW b \in Seq(S), Len(x) <= 1, Len(y) <= 1,
         NEW s, NEW t, s = a \o x \o b, t = a \o y \o b
  PROVE  OneSplice(S, s, t)
BY Zenon DEF OneSplice

LEMMA AppendIsJoin ==
  ASSUME NEW S, NEW s \in Seq(S), NEW c \in S
  PROVE  /\ Append(s, c) = s \o <<c>> \o << >>
         /\ s = s \o << >> \o << >>
<1>1. s \o << >> = s /\ Append(s, c) = s \o <<c>>
  OBVIOUS
<1>2. Append(s, c) \in Seq(S)
  OBVIOUS
<1> DEFINE sc == Append(s, c)
<1> HIDE DEF sc
<1>3. sc \in Seq(S) => sc \o << >> = sc
  OBVIOUS
<1> QED  BY <1>1, <1>2, <1>3 DEF sc

(* What two strings at distance 0 or 1 are; that they are is shown for all *)
(* lengths by the recurrence.                                              *)
Apart(S, s, t) ==
  /\ FewestEdits(s, t) = 0 => s = t
  /\ FewestEdits(s, t) = 1 => OneSplice(S, s, t)

LEMMA ApartFromNothing ==
  ASSUME NEW S, NEW t \in Seq(S)
  PROVE  Apart(S, << >>, t) /\ Apart(S, t, << >>)
<1> DEFINE e == << >>
<1>1. e \in Seq(S) /\ Len(e) = 0 /\ Len(t) \in Nat
      /\ e \o t \o e = t /\ e \o e \o e = e
      /\ (Len(t) = 0 => t = e)
  OBVIOUS
<1> HIDE DEF e
<1>2. FewestEdits(e, t) = Len(t) /\ FewestEdits(t, e) = Len(t)
  BY EditsOfNothing DEF e
<1>3. Len(t) = 1 => OneSplice(S, e, t) /\ OneSplice(S, t, e)
  <2> SUFFICES ASSUME Len(t) = 1 PROVE OneSplice(S, e, t) /\ OneSplice(S, t, e)
    OBVIOUS
  <2>1. Len(t) <= 1 /\ Len(e) <= 1
    BY <1>1
  <2>2. OneSplice(S, e, t)
    BY <1>1, <2>1, SpliceIs
  <2>3. OneSplice(S, t, e)
    BY <1>1, <2>1, SpliceIs
  <2> QED  BY <2>2, <2>3
<1>4. Apart(S, e, t) /\ Apart(S, t, e)
  BY <1>1, <1>2, <1>3 DEF Apart
<1> QED  BY <1>4 DEF e

LEMMA SpliceGoesOn ==
  ASSUME NEW S, NEW s, NEW t, OneSplice(S, s, t), NEW c \in S
  PROVE  OneSplice(S, Append(s, c), Append(t, c))
<1>1. PICK a \in Seq(S), x \in Seq(S), y \in Seq(S), b \in Seq(S) :
        /\ s = a \o x \o b /\ t = a \o y \o b
        /\ Len(x) <= 1 /\ Len(y) <= 1
  BY DEF OneSplice
<1> DEFINE bc == Append(b, c)
<1>2. bc \in Seq(S)
  OBVIOUS
<1>3. \A z \in Seq(S) : Append(a \o z \o b, c) = a \o z \o bc
  <2> SUFFICES ASSUME NEW z \in Seq(S)
               PROVE  Append(a \o z \o b, c) = a \o z \o Append(b, c)
    OBVIOUS
  <2> DEFINE az == a \o z
  <2>1. az \in Seq(S)
    OBVIOUS
  <2> HIDE DEF az
  <2>2. Append(az \o b, c) = az \o Append(b, c)
    <3>1. /\ az \o b \in Seq(S) /\ <<c>> \in Seq(S)
      BY <2>1, ConcatProperties
    <3>2. /\ Append(az \o b, c) = (az \o b) \o <<c>>
          /\ Append(b, c) = b \o <<c>>
      BY <3>1, AppendIsConcat, Zenon
    <3>3. (az \o b) \o <<c>> = az \o (b \o <<c>>)
      BY <2>1, <3>1, ConcatAssociative
    <3> QED  BY <3>2, <3>3, Zenon
  <2> QED  BY <2>2 DEF az
<1> HIDE DEF bc
<1>4. Append(s, c) = a \o x \o bc /\ Append(t, c) = a \o y \o bc
  BY <1>1, <1>3, Zenon
<1> QED  BY <1>1, <1>2, <1>4, SpliceIs

LEMMA ApartStep ==
  ASSUME NEW S, NEW s \in Seq(S), NEW t \in Seq(S), NEW c \in S, NEW d \in S,
         Apart(S, Append(s, c), t), Apart(S, s, Append(t, d)), Apart(S, s, t)
  PROVE  Apart(S, Append(s, c), Append(t, d))
<1> DEFINE sc == Append(s, c)
           td == Append(t, d)
           e == << >>
           left == FewestEdits(sc, t)
           above == FewestEdits(s, td)
           corner == FewestEdits(s, t)
           cell == FewestEdits(sc, td)
<1>1. /\ sc \in Seq(S) /\ td \in Seq(S) /\ e \in Seq(S)
      /\ Len(e) = 0 /\ <<c>> \in Seq(S) /\ <<d>> \in Seq(S)
      /\ Len(<<c>>) <= 1 /\ Len(<<d>>) <= 1 /\ Len(e) <= 1
  OBVIOUS
<1>2. /\ left \in Nat /\ above \in Nat /\ corner \in Nat
  <2> HIDE DEF sc, td
  <2> QED  BY <1>1, FewestEditsIsLeast
<1>3. cell \in {left + 1, above + 1, corner + Substitution(c, d)}
  <2>1. cell = Min({left + 1, above + 1, corner + Substitution(c, d)})
    BY EditRecurrence
  <2>2. /\ left + 1 \in Int /\ above + 1 \in Int
        /\ corner + Substitution(c, d) \in Int
    BY <1>2 DEF Substitution
  <2> HIDE DEF cell, left, above, corner
  <2> QED  BY <2>1, <2>2, MinOfThree
<1> HIDE DEF cell, left, above, corner
<1>4. CASE cell = left + 1
  <2>1. ASSUME left = 0 PROVE OneSplice(S, sc, td)
    <3>1. sc = t
      BY <2>1 DEF Apart, left
    <3>2. td = sc \o <<d>> \o e /\ sc = sc \o e \o e
      BY <3>1, AppendIsJoin
    <3> HIDE DEF sc, td, e
    <3> QED  BY <1>1, <3>2, SpliceIs
  <2> QED  BY <1>2, <1>4, <2>1 DEF Apart, cell
<1>5. CASE cell = above + 1
  <2>1. ASSUME above = 0 PROVE OneSplice(S, sc, td)
    <3>1. s = td
      BY <2>1 DEF Apart, above
    <3>2. sc = td \o <<c>> \o e /\ td = td \o e \o e
      BY <1>1, <3>1, AppendIsJoin
    <3> HIDE DEF sc, td, e
    <3> QED  BY <1>1, <3>2, SpliceIs
  <2> QED  BY <1>2, <1>5, <2>1 DEF Apart, cell
<1>6. CASE cell = corner /\ c = d
  <2>1. corner = 0 => sc = td
    BY <1>6 DEF Apart, corner
  <2>2. ASSUME corner = 1 PROVE OneSplice(S, sc, td)
    <3>1. OneSplice(S, s, t)
      BY <2>2 DEF Apart, corner
    <3>2. sc = Append(s, c) /\ td = Append(t, c)
      BY <1>6
    <3> HIDE DEF sc, td, e
    <3> QED  BY <3>1, <3>2, SpliceGoesOn
  <2> QED  BY <1>6, <2>1, <2>2 DEF Apart, cell
<1>7. CASE cell = corner + 1 /\ c # d
  <2>1. ASSUME corner = 0 PROVE OneSplice(S, sc, td)
    <3>1. s = t
      BY <2>1 DEF Apart, corner
    <3>2. sc = s \o <<c>> \o e /\ td = s \o <<d>> \o e
      BY <3>1, AppendIsJoin
    <3> HIDE DEF sc, td, e
    <3> QED  BY <1>1, <3>2, SpliceIs
  <2> QED  BY <1>2, <1>7, <2>1 DEF Apart, cell
<1> QED
  BY <1>2, <1>3, <1>4, <1>5, <1>6, <1>7 DEF Substitution, sc, td

(* Strings at distance 0 are equal; at distance 1 one character of one is  *)
(* replaced, deleted or inserted in the other.                             *)
THEOREM OneEdit ==
  ASSUME NEW S, NEW s \in Seq(S), NEW t \in Seq(S)
  PROVE  /\ FewestEdits(s, t) = 0 => s = t
         /\ FewestEdits(s, t) = 1 => OneSplice(S, s, t)
<1> DEFINE N == {n \in Nat : \E u, v \in Seq(S) : /\ n = Len(u) + Len(v)
                                                  /\ ~Apart(S, u, v)}
<1>1. SUFFICES ASSUME N # {} PROVE FALSE
  <2>1. Len(s) + Len(t) \in Nat
    OBVIOUS
  <2>2. CASE N = {}
    <3>1. Apart(S, s, t)
      BY <2>1, <2>2
    <3> QED  BY <3>1 DEF Apart
  <2> QED  BY <2>2
<1>2. PICK n \in N : \A m \in N : n <= m
  <2>1. N \subseteq Nat
    OBVIOUS
  <2> HIDE DEF N
  <2> QED  BY <1>1, <2>1, LeastNumber
<1>3. PICK u \in Seq(S), v \in Seq(S) : n = Len(u) + Len(v) /\ ~Apart(S, u, v)
  BY <1>2
<1>4. u # << >> /\ v # << >>
  BY <1>3, ApartFromNothing
<1> DEFINE s1 == ButLast(u)
           c == LastOf(u)
           t1 == ButLast(v)
           d == LastOf(v)
<1>5. /\ s1 \in Seq(S) /\ c \in S /\ u = Append(s1, c)
      /\ t1 \in Seq(S) /\ d \in S /\ v = Append(t1, d)
      /\ Len(u) \in Nat /\ Len(v) \in Nat
      /\ Len(s1) = Len(u) - 1 /\ Len(t1) = Len(v) - 1
  BY <1>4, Unappend
<1>6. \A p, q \in Seq(S) : Len(p) + Len(q) < n => Apart(S, p, q)
  <2> SUFFICES ASSUME NEW p \in Seq(S), NEW q \in Seq(S),
                      Len(p) + Len(q) < n, ~Apart(S, p, q)
               PROVE  FALSE
    OBVIOUS
  <2>1. Len(p) + Len(q) \in Nat /\ n \in Nat
    OBVIOUS
  <2>2. Len(p) + Len(q) \in N
    BY <2>1
  <2> HIDE DEF N
  <2> QED  BY <1>2, <2>1, <2>2
<1> HIDE DEF N, s1, c, t1, d
<1>7. Len(s1) \in Nat /\ Len(t1) \in Nat
  BY <1>5
<1>8. Apart(S, u, t1) /\ Apart(S, s1, v) /\ Apart(S, s1, t1)
  <2>1. /\ Len(u) + Len(t1) < n /\ Len(s1) + Len(v) < n
        /\ Len(s1) + Len(t1) < n
    BY <1>3, <1>5, <1>7
  <2> QED  BY <1>5, <1>6, <2>1
<1>9. Apart(S, u, v)
  BY <1>5, <1>8, ApartStep
<1> QED  BY <1>3, <1>9

-----------------------------------------------------------------------------
(* The table.                                                              *)

(* The greater of two lengths bounds both.                                 *)
LEMMA MaxOfTwo ==
  ASSUME NEW a \in Int, NEW b \in Int
  PROVE  Max({a, b}) \in {a, b} /\ Max({a, b}) >= a /\ Max({a, b}) >= b
<1>1. \E x \in {a, b} : \A y \in {a, b} : x >= y
  <2>1. CASE a >= b
    BY <2>1
  <2>2. CASE b >= a
    BY <2>2
  <2> QED
    BY <2>1, <2>2
<1> DEFINE P(x) == x \in {a, b} /\ \A y \in {a, b} : x >= y
<1>2. Max({a, b}) = CHOOSE x : P(x)
  BY Zenon DEF Max
<1>3. P(CHOOSE x : P(x))
  BY <1>1, Zenon
<1> QED
  BY <1>2, <1>3

(* The recurrence of the table keeps the facts about its cells: a cell for *)
(* prefixes of lengths k and j from the cells to its left, above it, and   *)
(* between the two.                                                        *)
LEMMA CellFromNeighbours ==
  ASSUME NEW k \in Nat \ {0}, NEW j \in Nat \ {0},
         NEW left \in Nat, NEW above \in Nat, NEW corner \in Nat,
         CellInv(left, k, j - 1), CellInv(above, k - 1, j),
         CellInv(corner, k - 1, j - 1),
         NEW s \in {0, 1}, s = 0 <=> source[k] = target[j]
  PROVE  /\ Min({left + 1, above + 1, corner + s}) \in Nat
         /\ CellInv(Min({left + 1, above + 1, corner + s}), k, j)
<1> DEFINE value == Min({left + 1, above + 1, corner + s})
<1>1. /\ value \in {left + 1, above + 1, corner + s}
      /\ value <= left + 1 /\ value <= above + 1 /\ value <= corner + s
  <2>1. left + 1 \in Int /\ above + 1 \in Int /\ corner + s \in Int
    OBVIOUS
  <2> QED
    BY <2>1, MinOfThree, Zenon
<1> HIDE DEF value
<1>2. value \in Nat
  BY <1>1
<1>3. value >= k - j /\ value >= j - k
  BY <1>1 DEF CellInv
<1>4. value <= k \/ value <= j
  BY <1>1 DEF CellInv
<1>5. value = 0 <=> corner = 0 /\ s = 0
  BY <1>1
<1>6. corner = 0 /\ s = 0 <=> k = j /\ \A n \in 1..k : source[n] = target[n]
  <2>1. ASSUME corner = 0, s = 0
        PROVE  k = j /\ \A n \in 1..k : source[n] = target[n]
    <3>1. k - 1 = j - 1 /\ \A n \in 1..k - 1 : source[n] = target[n]
      BY <2>1 DEF CellInv
    <3>2. source[k] = target[k]
      BY <2>1, <3>1
    <3> QED
      BY <3>1, <3>2
  <2>2. ASSUME k = j, \A n \in 1..k : source[n] = target[n]
        PROVE  corner = 0 /\ s = 0
    BY <2>2 DEF CellInv
  <2> QED
    BY <2>1, <2>2
<1> QED
  BY <1>2, <1>3, <1>4, <1>5, <1>6 DEF CellInv, value

CellsInv == TypeOK /\ TableInv

LEMMA InitCells == Init => CellsInv
<1> SUFFICES ASSUME Init PROVE CellsInv
  OBVIOUS
<1>1. source \in Seq(Alphabet) /\ target \in Seq(Alphabet)
  BY StringsAssumption DEF Init
<1>2. Len(source) \in Nat /\ Len(target) \in Nat
  BY <1>1
<1>3. TypeOK
  BY <1>1, <1>2 DEF Init, TypeOK, Columns
<1>4. \A j \in Columns : CellInv(j, 0, j)
  BY <1>2 DEF CellInv, Columns
<1>5. TableInv
  BY <1>2, <1>4 DEF Init, TableInv, Read, Before, Columns
<1> QED
  BY <1>3, <1>5 DEF CellsInv

LEMMA StepCells == CellsInv /\ [Next]_vars => CellsInv'
<1> SUFFICES ASSUME CellsInv, [Next]_vars PROVE CellsInv'
  OBVIOUS
<1> USE DEF CellsInv
<1>0. /\ Len(source) \in Nat /\ Len(target) \in Nat
      /\ num_chars_read \in Nat /\ i \in Nat
      /\ Read \in Nat
  BY DEF TypeOK, Read
<1>1. CASE ReadChar
  <2>1. TypeOK'
    BY <1>0, <1>1 DEF TypeOK, ReadChar, Columns
  <2>2. /\ Read' = Read + 1 /\ Before' = Read /\ Before = Read
        /\ Columns' = Columns
    BY <1>0, <1>1 DEF ReadChar, Read, Before, Columns, TypeOK
  <2>3. \A j \in Columns : CellInv(previous_row[j], Before, j)'
    BY <1>1, <2>2 DEF TableInv, CellInv, ReadChar
  <2>4. CellInv(Read, Read, 0)'
    BY <1>0, <1>1, <2>2 DEF ReadChar, CellInv, Read, TypeOK
  <2>5. ASSUME NEW j \in Columns
        PROVE  CellInv(current_row[j], IF pc = "cells" /\ j >= i
                                         THEN Before ELSE Read, j)'
    <3>1. CASE j = 0
      <4>1. current_row'[j] = Read' /\ ~(j >= i')
        BY <1>0, <1>1, <3>1 DEF ReadChar, TypeOK, Columns, Read
      <4> QED
        BY <2>4, <3>1, <4>1 DEF CellInv
    <3>2. CASE j # 0
      <4>1. CellInv(current_row[j], Read, j)
        BY <1>1 DEF TableInv, ReadChar
      <4>2. current_row'[j] = current_row[j] /\ j >= i' /\ pc' = "cells"
        BY <1>0, <1>1, <3>2 DEF ReadChar, TypeOK, Columns
      <4> QED
        BY <1>1, <2>2, <4>1, <4>2 DEF CellInv, ReadChar
    <3> QED
      BY <3>1, <3>2
  <2>6. TableInv'
    BY <1>0, <1>1, <2>2, <2>3, <2>5 DEF TableInv, ReadChar, CellInv
  <2> QED
    BY <2>1, <2>6
<1>2. CASE FillCell
  <2> DEFINE k == Read
  <2>1. /\ i \in Columns /\ i - 1 \in Columns /\ k \in 1..Len(source)
        /\ Before = k - 1
    BY <1>0, <1>2 DEF FillCell, LastColumn, Columns, TableInv, TypeOK, Before, Read
  <2>2. /\ current_row[i - 1] \in Nat /\ previous_row[i] \in Nat
        /\ previous_row[i - 1] \in Nat
    BY <2>1 DEF TypeOK
  <2>3. /\ CellInv(current_row[i - 1], k, i - 1)
        /\ CellInv(previous_row[i], k - 1, i)
        /\ CellInv(previous_row[i - 1], k - 1, i - 1)
    BY <1>0, <1>2, <2>1 DEF TableInv, FillCell
  <2>4. /\ SubstitutionCost \in {0, 1}
        /\ SubstitutionCost = 0 <=> source[k] = target[i]
    BY DEF SubstitutionCost, Read
  <2>5. Cell \in Nat /\ CellInv(Cell, k, i)
    <3> HIDE DEF k, CellsInv
    <3>1. k \in Nat \ {0} /\ i \in Nat \ {0}
      BY <1>0, <2>1 DEF Columns
    <3> QED
      BY <2>2, <2>3, <2>4, <3>1, CellFromNeighbours DEF Cell
  <2>6. /\ current_row' \in [Columns -> Nat]
        /\ current_row'[i] = Cell
        /\ \A j \in Columns : j # i => current_row'[j] = current_row[j]
    BY <1>2, <2>1, <2>5 DEF FillCell, TypeOK
  <2>7. TypeOK'
    BY <1>0, <1>2, <2>6 DEF TypeOK, FillCell, LastColumn, Columns
  <2>8. /\ Read' = Read /\ Before' = Before /\ Columns' = Columns
        /\ pc = "cells" /\ pc' = "cells" /\ i' = i + 1
    BY <1>2 DEF FillCell, Read, Before, Columns
  <2>9. ASSUME NEW j \in Columns
        PROVE  CellInv(current_row[j], IF pc = "cells" /\ j >= i
                                         THEN Before ELSE Read, j)'
    <3>0. j \in Nat
      BY DEF Columns
    <3>1. CASE j = i
      BY <1>0, <1>2, <2>5, <2>6, <2>8, <3>1 DEF CellInv, FillCell
    <3>2. CASE j # i
      <4>1. CellInv(current_row[j], IF j >= i THEN Before ELSE Read, j)
        BY <2>8 DEF TableInv
      <4>2. current_row'[j] = current_row[j] /\ (j >= i' <=> j >= i)
        BY <1>0, <2>6, <2>8, <3>0, <3>2
      <4> QED
        BY <1>2, <2>8, <4>1, <4>2 DEF CellInv, FillCell
    <3> QED
      BY <3>1, <3>2
  <2>10. \A j \in Columns : CellInv(previous_row[j], Before, j)'
    BY <1>2, <2>8 DEF TableInv, CellInv, FillCell
  <2>11. TableInv'
    BY <2>1, <2>8, <2>9, <2>10 DEF TableInv
  <2> QED
    BY <2>7, <2>11
<1>3. CASE EndRow
  <2>1. TypeOK'
    BY <1>3 DEF TypeOK, EndRow, Columns
  <2>2. /\ Read' = Read /\ Before' = Read /\ Columns' = Columns
        /\ pc = "cells" /\ pc' = "rows"
        /\ previous_row' = current_row /\ current_row' = current_row
        /\ source' = source /\ target' = target
    BY <1>3 DEF EndRow, Read, Before, Columns
  <2>3. \A j \in Columns : CellInv(current_row[j], Read, j)
    BY <1>0, <1>3 DEF EndRow, TableInv, Columns, LastColumn
  <2>4. TableInv'
    BY <2>2, <2>3 DEF TableInv, CellInv
  <2> QED
    BY <2>1, <2>4
<1>4. CASE Return
  <2>1. TypeOK'
    BY <1>4 DEF TypeOK, Return, Columns
  <2>2. /\ Read' = Read /\ Before' = Before /\ Columns' = Columns
        /\ pc = "rows" /\ pc' = "returned" /\ Read = Len(source)
        /\ previous_row' = previous_row /\ current_row' = current_row
        /\ source' = source /\ target' = target
    BY <1>0, <1>4 DEF Return, Read, Before, Columns, TypeOK
  <2>3. TableInv'
    BY <2>2 DEF TableInv, CellInv
  <2> QED
    BY <2>1, <2>3
<1>5. CASE UNCHANGED vars
  BY <1>5 DEF vars, TypeOK, TableInv, CellInv, Columns, Read, Before
<1> QED
  BY <1>1, <1>2, <1>3, <1>4, <1>5 DEF Next, Over

-----------------------------------------------------------------------------
(* The cells are fewest edits.                                             *)

LEMMA PrefixSteps ==
  ASSUME NEW s \in Seq(Alphabet)
  PROVE  /\ SubSeq(s, 1, 0) = << >> /\ SubSeq(s, 1, Len(s)) = s
         /\ \A k \in 0..Len(s) : /\ SubSeq(s, 1, k) \in Seq(Alphabet)
                                 /\ Len(SubSeq(s, 1, k)) = k
         /\ \A k \in 1..Len(s) :
              /\ s[k] \in Alphabet
              /\ SubSeq(s, 1, k) = Append(SubSeq(s, 1, k - 1), s[k])
OBVIOUS

(* A row or a column of the empty prefix.                                  *)
LEMMA EditsAtTheEdge ==
  ASSUME TypeOK
  PROVE  /\ \A j \in Columns : EditsUpTo(0, j) = j
         /\ \A k \in 0..Len(source) : EditsUpTo(k, 0) = k
<1>1. source \in Seq(Alphabet) /\ target \in Seq(Alphabet)
  BY DEF TypeOK
<1>2. ASSUME NEW j \in Columns PROVE EditsUpTo(0, j) = j
  <2> DEFINE t == SubSeq(target, 1, j)
  <2>1. t \in Seq(Alphabet) /\ Len(t) = j /\ SubSeq(source, 1, 0) = << >>
    BY <1>1, PrefixSteps DEF Columns
  <2> HIDE DEF t
  <2> QED  BY <2>1, EditsOfNothing DEF EditsUpTo, t
<1>3. ASSUME NEW k \in 0..Len(source) PROVE EditsUpTo(k, 0) = k
  <2> DEFINE s == SubSeq(source, 1, k)
  <2>1. s \in Seq(Alphabet) /\ Len(s) = k /\ SubSeq(target, 1, 0) = << >>
    BY <1>1, PrefixSteps
  <2> HIDE DEF s
  <2> QED  BY <2>1, EditsOfNothing DEF EditsUpTo, s
<1> QED  BY <1>2, <1>3

(* The cell computed from its three neighbours.                            *)
LEMMA EditsFromNeighbours ==
  ASSUME TypeOK, NEW k \in 1..Len(source), NEW j \in 1..Len(target)
  PROVE  EditsUpTo(k, j)
           = Min({EditsUpTo(k, j - 1) + 1, EditsUpTo(k - 1, j) + 1,
                  EditsUpTo(k - 1, j - 1) + Substitution(source[k], target[j])})
<1> DEFINE s == SubSeq(source, 1, k - 1)
           t == SubSeq(target, 1, j - 1)
           c == source[k]
           d == target[j]
<1>1. /\ source \in Seq(Alphabet) /\ target \in Seq(Alphabet)
      /\ Len(source) \in Nat /\ Len(target) \in Nat
  BY DEF TypeOK
<1>2. /\ s \in Seq(Alphabet) /\ c \in Alphabet
      /\ SubSeq(source, 1, k) = Append(s, c)
  <2>1. k - 1 \in 0..Len(source)
    BY <1>1
  <2> QED  BY <1>1, <2>1, PrefixSteps
<1>3. /\ t \in Seq(Alphabet) /\ d \in Alphabet
      /\ SubSeq(target, 1, j) = Append(t, d)
  <2>1. j - 1 \in 0..Len(target)
    BY <1>1
  <2> QED  BY <1>1, <2>1, PrefixSteps
<1> HIDE DEF s, t, c, d
<1>4. FewestEdits(Append(s, c), Append(t, d))
        = Min({FewestEdits(Append(s, c), t) + 1,
               FewestEdits(s, Append(t, d)) + 1,
               FewestEdits(s, t) + Substitution(c, d)})
  BY <1>2, <1>3, EditRecurrence
<1>5. /\ EditsUpTo(k, j) = FewestEdits(Append(s, c), Append(t, d))
      /\ EditsUpTo(k, j - 1) = FewestEdits(Append(s, c), t)
      /\ EditsUpTo(k - 1, j) = FewestEdits(s, Append(t, d))
      /\ EditsUpTo(k - 1, j - 1) = FewestEdits(s, t)
  BY <1>2, <1>3, Zenon DEF EditsUpTo, s, t
<1> QED  BY <1>4, <1>5, Zenon DEF c, d

LEMMA InitDistances == Init => DistanceInv
<1> SUFFICES ASSUME Init PROVE DistanceInv
  OBVIOUS
<1>1. TypeOK
  BY InitCells DEF CellsInv
<1>2. \A j \in Columns : EditsUpTo(0, j) = j
  BY <1>1, EditsAtTheEdge
<1> QED  BY <1>2 DEF Init, DistanceInv, Before, Read, Columns

LEMMA StepDistances == CellsInv /\ DistanceInv /\ [Next]_vars => DistanceInv'
<1> SUFFICES ASSUME CellsInv, DistanceInv, [Next]_vars PROVE DistanceInv'
  OBVIOUS
<1>0. /\ Len(source) \in Nat /\ Len(target) \in Nat
      /\ num_chars_read \in Nat /\ i \in Nat /\ Read \in Nat
      /\ Columns' = Columns /\ Columns = 0..Len(target)
      /\ \A k, j : EditsUpTo(k, j)' = EditsUpTo(k, j)
      /\ current_row \in [Columns -> Nat] /\ TypeOK
  BY DEF CellsInv, TypeOK, Read, Columns, EditsUpTo, Next, vars, ReadChar,
         FillCell, EndRow, Return, Over
<1>1. CASE ReadChar
  <2>1. /\ Read' = Read + 1 /\ Before' = Read /\ Before = Read
        /\ Read' \in 0..Len(source)
    BY <1>0, <1>1 DEF ReadChar, Read, Before, CellsInv, TypeOK
  <2>2. EditsUpTo(Read', 0) = Read'
    BY <1>0, <2>1, EditsAtTheEdge
  <2>3. ASSUME NEW j \in Columns
        PROVE  current_row'[j] = EditsUpTo(IF j >= i' THEN Read ELSE Read', j)
    <3>1. CASE j = 0
      <4>1. current_row'[j] = Read' /\ ~(j >= i')
        BY <1>0, <1>1, <3>1 DEF ReadChar, Read
      <4> QED  BY <2>2, <3>1, <4>1
    <3>2. CASE j # 0
      <4>1. current_row'[j] = current_row[j] /\ j >= i'
        BY <1>0, <1>1, <3>2 DEF ReadChar
      <4>2. current_row[j] = EditsUpTo(Read, j)
        BY <1>1, <2>1 DEF DistanceInv, ReadChar
      <4> QED  BY <4>1, <4>2
    <3> QED  BY <3>1, <3>2
  <2> QED  BY <1>0, <1>1, <2>1, <2>3 DEF ReadChar, DistanceInv
<1>2. CASE FillCell
  <2>1. /\ i \in 1..Len(target) /\ i - 1 \in Columns /\ i \in Columns
        /\ Read \in 1..Len(source) /\ Before = Read - 1
        /\ Read' = Read /\ Before' = Before /\ pc = "cells" /\ pc' = "cells"
        /\ i' = i + 1 /\ previous_row' = previous_row
    BY <1>0, <1>2 DEF FillCell, LastColumn, CellsInv, TableInv, TypeOK, Before,
                      Read
  <2>2. /\ current_row[i - 1] = EditsUpTo(Read, i - 1)
        /\ previous_row[i] = EditsUpTo(Read - 1, i)
        /\ previous_row[i - 1] = EditsUpTo(Read - 1, i - 1)
    BY <1>0, <2>1 DEF DistanceInv
  <2>3. SubstitutionCost = Substitution(source[Read], target[i])
    BY DEF SubstitutionCost, Substitution, Read
  <2>4. Cell = EditsUpTo(Read, i)
    <3>1. EditsUpTo(Read, i)
            = Min({EditsUpTo(Read, i - 1) + 1, EditsUpTo(Read - 1, i) + 1,
                   EditsUpTo(Read - 1, i - 1)
                     + Substitution(source[Read], target[i])})
      BY <1>0, <2>1, EditsFromNeighbours
    <3> QED  BY <2>2, <2>3, <3>1, Zenon DEF Cell
  <2>5. ASSUME NEW j \in Columns
        PROVE  current_row'[j] = EditsUpTo(IF j >= i' THEN Before ELSE Read, j)
    <3>0. j \in Nat
      BY <1>0
    <3>1. CASE j = i
      <4>1. current_row'[j] = Cell /\ ~(j >= i')
        BY <1>0, <1>2, <2>1, <3>1 DEF FillCell
      <4> QED  BY <2>4, <3>1, <4>1
    <3>2. CASE j # i
      <4>1. current_row'[j] = current_row[j] /\ (j >= i' <=> j >= i)
        BY <1>0, <1>2, <2>1, <3>0, <3>2 DEF FillCell
      <4>2. current_row[j] = EditsUpTo(IF j >= i THEN Before ELSE Read, j)
        BY <2>1 DEF DistanceInv
      <4> QED  BY <4>1, <4>2
    <3> QED  BY <3>1, <3>2
  <2>6. \A j \in Columns : previous_row[j] = EditsUpTo(Before, j)
    BY DEF DistanceInv
  <2> QED  BY <1>0, <2>1, <2>5, <2>6 DEF DistanceInv
<1>3. CASE EndRow
  <2>1. /\ Read' = Read /\ Before' = Read /\ pc' = "rows"
        /\ previous_row' = current_row /\ current_row' = current_row
    BY <1>3 DEF EndRow, Read, Before
  <2>2. \A j \in Columns : current_row[j] = EditsUpTo(Read, j)
    BY <1>0, <1>3 DEF EndRow, DistanceInv, LastColumn
  <2> QED  BY <1>0, <2>1, <2>2 DEF DistanceInv
<1>4. CASE Return
  <2>1. /\ Read' = Read /\ Before' = Before /\ pc = "rows" /\ pc' = "returned"
        /\ previous_row' = previous_row /\ current_row' = current_row
    BY <1>4 DEF Return, Read, Before
  <2> QED  BY <1>0, <2>1 DEF DistanceInv
<1>5. CASE UNCHANGED vars
  BY <1>0, <1>5 DEF vars, DistanceInv, Read, Before
<1> QED
  BY <1>1, <1>2, <1>3, <1>4, <1>5 DEF Next, Over

(* Every cell has the facts about it, and every variable its type, in all  *)
(* reachable states.                                                       *)
THEOREM TableCorrect == Spec => []IInv
<1>1. IInv <=> CellsInv /\ DistanceInv
  BY DEF IInv, CellsInv
<1> QED
  BY <1>1, InitCells, StepCells, InitDistances, StepDistances, PTL DEF Spec

(* For all strings: the cost returned is the fewest insertions, deletions  *)
(* and replacements that turn the path into the target.                    *)
THEOREM CostCorrect == Spec => []CostIsFewestEdits
<1>1. IInv => CostIsFewestEdits
  <2> SUFFICES ASSUME IInv, pc = "returned"
               PROVE  Cost = FewestEdits(source, target)
    BY DEF CostIsFewestEdits
  <2>1. /\ source \in Seq(Alphabet) /\ target \in Seq(Alphabet)
        /\ Len(target) \in Columns /\ Read = Len(source)
    BY DEF IInv, TypeOK, TableInv, Columns
  <2>2. Cost = EditsUpTo(Len(source), Len(target))
    BY <2>1 DEF IInv, DistanceInv, Cost
  <2> QED  BY <2>1, <2>2, PrefixSteps DEF EditsUpTo
<1> QED
  BY <1>1, TableCorrect, PTL

(* A path costs nothing exactly when it is the target.                     *)
THEOREM ZeroCostCorrect == Spec => []ZeroCostIsEquality
<1>1. IInv => ZeroCostIsEquality
  <2> SUFFICES ASSUME IInv, pc = "returned"
               PROVE  Cost = 0 <=> source = target
    BY DEF ZeroCostIsEquality
  <2>1. /\ Len(source) \in Nat /\ Len(target) \in Nat
        /\ source \in Seq(Alphabet) /\ target \in Seq(Alphabet)
    BY DEF IInv, TypeOK
  <2>2. CellInv(Cost, Len(source), Len(target))
    BY <2>1 DEF IInv, TableInv, Cost, Columns
  <2>3. Cost = 0 <=> /\ Len(source) = Len(target)
                     /\ \A n \in 1..Len(source) : source[n] = target[n]
    BY <2>2 DEF CellInv
  <2> QED
    BY <2>1, <2>3
<1> QED
  BY <1>1, TableCorrect, PTL

(* The cost lies between the difference of the lengths and the longer one. *)
THEOREM LengthsCorrect == Spec => []CostWithinLengths
<1>1. IInv => CostWithinLengths
  <2> SUFFICES ASSUME IInv, pc = "returned"
               PROVE  /\ Cost >= Len(source) - Len(target)
                      /\ Cost >= Len(target) - Len(source)
                      /\ Cost <= Max({Len(source), Len(target)})
    BY DEF CostWithinLengths
  <2>1. Len(source) \in Nat /\ Len(target) \in Nat /\ Cost \in Nat
    BY DEF IInv, TypeOK, Cost, Columns
  <2>1a. Len(source) \in Int /\ Len(target) \in Int
    BY <2>1
  <2>2. CellInv(Cost, Len(source), Len(target))
    BY <2>1 DEF IInv, TableInv, Cost, Columns
  <2>3. /\ Max({Len(source), Len(target)}) \in {Len(source), Len(target)}
        /\ Max({Len(source), Len(target)}) >= Len(source)
        /\ Max({Len(source), Len(target)}) >= Len(target)
    BY <2>1, <2>1a, MaxOfTwo, Zenon
  <2> QED
    BY <2>1, <2>2, <2>3 DEF CellInv
<1> QED
  BY <1>1, TableCorrect, PTL
=============================================================================
