---------------------------- MODULE MiningProofs ----------------------------
(***************************************************************************)
(* For all syntax trees, repositories, languages and numbers of jobs:      *)
(* the dataset that mining leaves has every code block that both levels    *)
(* have an expression for, once and whole; of code that parses, LEVEL_ONE  *)
(* tells apart all that LEVEL_TWO does; and no expression begins another   *)
(* one.                                                                    *)
(*                                                                         *)
(* The first part is about the recursive functions on trees, which are     *)
(* what their definitions say because no tree is below itself.  Then come  *)
(* expressions: those of LEVEL_ONE are texts in parentheses that can be    *)
(* read in one way only, and those of both levels end where their first    *)
(* parenthesis is closed.  Last come the jobs that print them.             *)
(***************************************************************************)
EXTENDS Mining, FiniteSetTheorems, SequenceTheorems, WellFoundedInduction,
        TLAPS

(* A set of numbers has a least one.                                       *)
LEMMA LeastNumber ==
  ASSUME NEW N, N \subseteq Nat, N # {}
  PROVE  \E n \in N : \A m \in N : n <= m
<1> DEFINE R == OpToRel(<, Nat)
<1>1. IsWellFoundedOn(R, Nat)
  BY NatLessThanWellFounded
<1> HIDE DEF R
<1>2. PICK n \in N : \A m \in N : ~(<<m, n>> \in R)
  BY <1>1, WFMin
<1>3. ASSUME NEW m \in N PROVE n <= m
  <2>1. n \in Nat /\ m \in Nat
    OBVIOUS
  <2>2. m < n => <<m, n>> \in R
    BY <2>1 DEF R, OpToRel
  <2> QED  BY <1>2, <2>1, <2>2
<1> QED  BY <1>3

-----------------------------------------------------------------------------
(* Recursion over trees.                                                   *)

LEMMA SubSequences ==
  ASSUME NEW V, NEW W \in SUBSET V, NEW s \in Seq(W)
  PROVE  s \in Seq(V)
OBVIOUS

LEMMA ShortSequences ==
  ASSUME NEW V
  PROVE  /\ << >> \in Seq(V) /\ DOMAIN << >> = {}
         /\ \A x \in V : <<x>> \in Seq(V) /\ DOMAIN <<x>> = {1} /\ <<x>>[1] = x
OBVIOUS

LEMMA JoinedSequences ==
  ASSUME NEW V, NEW s \in Seq(V), NEW t \in Seq(V)
  PROVE  s \o t \in Seq(V) /\ (s # << >> => Tail(s) \in Seq(V))
OBVIOUS

LEMMA TreesAreTrees ==
  ASSUME NEW l \in Languages
  PROVE  TreesOf[l] \subseteq Trees
BY DEF Trees

(* What TreesAssumption says of a tree.                                    *)
LEMMA TreeOfFacts ==
  ASSUME NEW l \in Languages, NEW n \in TreesOf[l]
  PROVE  /\ n \in NodeType(TreesOf[l]) /\ n \in Trees
         /\ n.children \in Seq(TreesOf[l])
         /\ \A k \in DOMAIN n.children : n.children[k] \in TreesOf[l]
<1>1. n \in NodeType(TreesOf[l]) /\ n \in Trees
  BY TreesAssumption, TreesAreTrees
<1>2. n.children \in Seq(TreesOf[l])
  BY <1>1 DEF NodeType
<1> QED  BY <1>1, <1>2

LEMMA TreeFacts ==
  ASSUME NEW n \in Trees
  PROVE  /\ n.type \in Tokens /\ n.op \in Tokens /\ n.children \in Seq(Trees)
         /\ Height[n] \in Nat
         /\ \A k \in DOMAIN n.children :
              /\ n.children[k] \in Trees
              /\ Height[n.children[k]] \in Nat
              /\ Height[n.children[k]] < Height[n]
<1>1. PICK l \in Languages : n \in TreesOf[l]
  BY DEF Trees
<1>2. n \in NodeType(TreesOf[l]) /\ n.children \in Seq(TreesOf[l])
  BY <1>1, TreeOfFacts
<1>3. n.children \in Seq(Trees)
  <2>1. TreesOf[l] \in SUBSET Trees
    BY TreesAreTrees
  <2> QED  BY <1>2, <2>1, SubSequences
<1>4. \A k \in DOMAIN n.children : n.children[k] \in Trees
  BY <1>3
<1> QED  BY <1>2, <1>3, <1>4, TreesAssumption DEF NodeType

(* What else there is in a node.                                           *)
LEMMA NodeFacts ==
  ASSUME NEW n \in Trees
  PROVE  /\ n.field \in Tokens /\ n.missing \in BOOLEAN /\ n.unexpected \in Tokens
         /\ n.inserted \in Seq(Seq(Tokens))
         /\ Len(n.inserted) = Len(n.children) + 1
         /\ 1 \in DOMAIN n.inserted
         /\ \A k \in DOMAIN n.children : k + 1 \in DOMAIN n.inserted
         /\ \A k \in DOMAIN n.inserted : n.inserted[k] \in Seq(Tokens)
<1>1. PICK l \in Languages : n \in NodeType(TreesOf[l])
  BY TreeOfFacts DEF Trees
<1>2. /\ n.field \in Tokens /\ n.missing \in BOOLEAN /\ n.unexpected \in Tokens
      /\ n.inserted \in Seq(Seq(Tokens))
  BY <1>1 DEF NodeType
<1>3. Len(n.inserted) = Len(n.children) + 1
  BY TreesAssumption
<1>4. Len(n.children) \in Nat /\ DOMAIN n.children = 1..Len(n.children)
  BY TreeFacts
<1>5. DOMAIN n.inserted = 1..Len(n.children) + 1
  BY <1>2, <1>3
<1> QED  BY <1>2, <1>3, <1>4, <1>5

(* The values of a function for the children of a node, and that it        *)
(* follows a rule which gives a value to a node from those.                *)
Below(f, n) == [k \in DOMAIN n.children |-> f[n.children[k]]]
Follows(rule, f, n) == f[n] = rule[<<n, Below(f, n)>>]

(* The trees below a height, and a function that follows a rule on them.   *)
Low(h) == {n \in Trees : Height[n] < h}
FollowsBelow(V, rule, f, h) ==
  f \in [Low(h) -> V] /\ \A n \in Low(h) : Follows(rule, f, n)

LEMMA ChildrenAreLow ==
  ASSUME NEW h \in Nat, NEW n \in Low(h + 1), NEW k \in DOMAIN n.children
  PROVE  n.children[k] \in Low(h)
BY TreeFacts DEF Low

LEMMA BelowIsSeq ==
  ASSUME NEW V, NEW h \in Nat, NEW f \in [Low(h) -> V], NEW n \in Low(h + 1)
  PROVE  n \in Trees /\ Below(f, n) \in Seq(V)
<1>1. n \in Trees /\ n.children \in Seq(Trees)
  BY TreeFacts DEF Low
<1>2. \A k \in DOMAIN n.children : f[n.children[k]] \in V
  BY ChildrenAreLow
<1> QED  BY <1>1, <1>2 DEF Below

(* Such functions exist for every height ...                               *)
LEMMA RecursionExists ==
  ASSUME NEW V, NEW rule \in [Trees \X Seq(V) -> V], NEW h \in Nat
  PROVE  \E f : FollowsBelow(V, rule, f, h)
<1> DEFINE N == {m \in Nat : ~\E f : FollowsBelow(V, rule, f, m)}
<1>1. SUFFICES ASSUME N # {} PROVE FALSE
  OBVIOUS
<1>2. PICK m \in N : \A j \in N : m <= j
  <2>1. N \subseteq Nat
    OBVIOUS
  <2> HIDE DEF N
  <2> QED  BY <1>1, <2>1, LeastNumber
<1>3. m \in Nat /\ ~\E f : FollowsBelow(V, rule, f, m)
  OBVIOUS
<1>4. CASE m = 0
  <2>1. Low(0) = {}
    BY TreeFacts DEF Low
  <2>2. FollowsBelow(V, rule, [n \in Low(0) |-> n], 0)
    BY <2>1 DEF FollowsBelow
  <2> QED  BY <1>3, <1>4, <2>2
<1>5. CASE m # 0
  <2>1. m - 1 \in Nat /\ ~(m <= m - 1) /\ (m - 1) + 1 = m
    BY <1>3, <1>5
  <2>2. PICK g : FollowsBelow(V, rule, g, m - 1)
    BY <1>2, <2>1
  <2> DEFINE f == [n \in Low(m) |-> rule[<<n, Below(g, n)>>]]
  <2>3. ASSUME NEW n \in Low(m)
        PROVE  /\ f[n] = rule[<<n, Below(g, n)>>] /\ f[n] \in V
    <3>1. n \in Trees /\ Below(g, n) \in Seq(V)
      BY <2>1, <2>2, BelowIsSeq DEF FollowsBelow
    <3> QED  BY <3>1
  <2>4. f \in [Low(m) -> V]
    BY <2>3
  <2> HIDE DEF f
  <2>5. ASSUME NEW n \in Low(m - 1) PROVE n \in Low(m) /\ f[n] = g[n]
    <3>1. n \in Low(m)
      BY <2>1, TreeFacts DEF Low
    <3>2. g[n] = rule[<<n, Below(g, n)>>]
      BY <2>2 DEF FollowsBelow, Follows
    <3> QED  BY <2>3, <3>1, <3>2
  <2>6. ASSUME NEW n \in Low(m) PROVE Follows(rule, f, n)
    <3>1. \A k \in DOMAIN n.children : f[n.children[k]] = g[n.children[k]]
      BY <2>1, <2>5, ChildrenAreLow
    <3>2. Below(f, n) = Below(g, n)
      BY <3>1 DEF Below
    <3> QED  BY <2>3, <3>2 DEF Follows
  <2>7. FollowsBelow(V, rule, f, m)
    BY <2>4, <2>6 DEF FollowsBelow
  <2> QED  BY <1>3, <2>7
<1> QED  BY <1>4, <1>5

(* ... and agree where both are defined.                                   *)
LEMMA RecursionAgrees ==
  ASSUME NEW V, NEW W, NEW rule, NEW f, NEW g, NEW h \in Nat, NEW j \in Nat,
         FollowsBelow(V, rule, f, h), FollowsBelow(W, rule, g, j)
  PROVE  \A n \in Low(h) \cap Low(j) : f[n] = g[n]
<1> DEFINE N == {m \in Nat : \E n \in Low(h) \cap Low(j) :
                               m = Height[n] /\ f[n] # g[n]}
<1>1. SUFFICES ASSUME N # {} PROVE FALSE
  BY TreeFacts DEF Low
<1>2. PICK m \in N : \A i \in N : m <= i
  <2>1. N \subseteq Nat
    OBVIOUS
  <2> HIDE DEF N
  <2> QED  BY <1>1, <2>1, LeastNumber
<1>3. PICK n \in Low(h) \cap Low(j) : m = Height[n] /\ f[n] # g[n]
  OBVIOUS
<1>4. ASSUME NEW k \in DOMAIN n.children
      PROVE  f[n.children[k]] = g[n.children[k]]
  <2>1. n \in Trees
    BY DEF Low
  <2>2. /\ n.children[k] \in Trees
        /\ Height[n.children[k]] \in Nat /\ Height[n.children[k]] < m
        /\ m \in Nat
    BY <1>3, <2>1, TreeFacts
  <2>3. n.children[k] \in Low(h) \cap Low(j)
    BY <1>3, <2>2 DEF Low
  <2> QED  BY <1>2, <2>2, <2>3
<1>5. Below(f, n) = Below(g, n)
  BY <1>4 DEF Below
<1> QED  BY <1>3, <1>5 DEF FollowsBelow, Follows

(* A rule has a function that follows it.                                  *)
LEMMA Recursion ==
  ASSUME NEW V, NEW rule \in [Trees \X Seq(V) -> V]
  PROVE  \E f \in [Trees -> V] : \A n \in Trees : Follows(rule, f, n)
<1> DEFINE P(f, h) == FollowsBelow(V, rule, f, h)
           part(h) == CHOOSE f : P(f, h)
           F == [n \in Trees |-> part(Height[n] + 1)[n]]
<1>1. \A h \in Nat : P(part(h), h)
  <2>1. \A h \in Nat : \E f : P(f, h)
    BY RecursionExists
  <2> HIDE DEF P
  <2> QED  BY <2>1, Zenon
<1> HIDE DEF part
<1>2. ASSUME NEW n \in Trees
      PROVE  /\ Height[n] + 1 \in Nat /\ n \in Low(Height[n] + 1)
             /\ F[n] = part(Height[n] + 1)[n]
  BY TreeFacts DEF Low
<1>3. F \in [Trees -> V]
  <2>1. \A n \in Trees : F[n] \in V
    BY <1>1, <1>2 DEF FollowsBelow
  <2> QED  BY <2>1
<1> HIDE DEF F
<1>4. ASSUME NEW n \in Trees PROVE Follows(rule, F, n)
  <2> DEFINE h == Height[n] + 1
             f == part(h)
  <2>1. h \in Nat /\ n \in Low(h) /\ P(f, h) /\ F[n] = f[n]
    BY <1>1, <1>2
  <2>2. ASSUME NEW k \in DOMAIN n.children
        PROVE  F[n.children[k]] = f[n.children[k]]
    <3> DEFINE c == n.children[k]
               j == Height[c] + 1
    <3>1. c \in Trees /\ c \in Low(h)
      BY <2>1, TreeFacts DEF Low
    <3>2. j \in Nat /\ c \in Low(j) /\ P(part(j), j) /\ F[c] = part(j)[c]
      BY <1>1, <1>2, <3>1
    <3>3. \A d \in Low(h) \cap Low(j) : part(h)[d] = part(j)[d]
      <4> HIDE DEF c, j, h, part
      <4> QED  BY <2>1, <3>2, RecursionAgrees
    <3> QED  BY <3>1, <3>2, <3>3
  <2>3. Below(F, n) = Below(f, n)
    BY <2>2 DEF Below
  <2> HIDE DEF h, f
  <2> QED  BY <2>1, <2>3 DEF FollowsBelow, Follows
<1> QED  BY <1>3, <1>4

(* What holds of 0 and of the next number holds of all.                    *)
LEMMA Induction ==
  ASSUME NEW S, 0 \in S, \A n \in Nat : n \in S => n + 1 \in S
  PROVE  \A n \in Nat : n \in S
<1> DEFINE N == {n \in Nat : n \notin S}
<1>1. SUFFICES ASSUME N # {} PROVE FALSE
  OBVIOUS
<1>2. PICK n \in N : \A m \in N : n <= m
  <2>1. N \subseteq Nat
    OBVIOUS
  <2> HIDE DEF N
  <2> QED  BY <1>1, <2>1, LeastNumber
<1>3. n # 0 /\ n \in Nat /\ n \notin S
  OBVIOUS
<1>4. n - 1 \in Nat /\ ~(n <= n - 1) /\ (n - 1) + 1 = n
  BY <1>3
<1>5. n - 1 \in S
  BY <1>2, <1>4
<1> QED  BY <1>3, <1>4, <1>5

-----------------------------------------------------------------------------
(* Sequences of sequences, joined.                                         *)

(* f is the joins of the first 0, 1, ..., n of the sequences ss.           *)
JoinsTo(ss, f, n) ==
  f = [i \in 1..n |-> IF i = 1 THEN ss[i] ELSE f[i - 1] \o ss[i]]

LEMMA JoinsToIs ==
  ASSUME NEW ss, NEW f, NEW n \in Nat
  PROVE  JoinsTo(ss, f, n) <=>
           /\ f = [i \in 1..n |-> f[i]]
           /\ \A i \in 1..n : f[i] = IF i = 1 THEN ss[i] ELSE f[i - 1] \o ss[i]
<1> DEFINE g == [i \in 1..n |-> IF i = 1 THEN ss[i] ELSE f[i - 1] \o ss[i]]
<1>1. ASSUME f = g
      PROVE  /\ f = [i \in 1..n |-> f[i]]
             /\ \A i \in 1..n : f[i] = IF i = 1 THEN ss[i] ELSE f[i - 1] \o ss[i]
  <2>1. \A i \in 1..n : g[i] = IF i = 1 THEN ss[i] ELSE f[i - 1] \o ss[i]
    OBVIOUS
  <2>2. g = [i \in 1..n |-> g[i]]
    OBVIOUS
  <2> HIDE DEF g
  <2> QED  BY <1>1, <2>1, <2>2
<1>2. ASSUME f = [i \in 1..n |-> f[i]],
             \A i \in 1..n : f[i] = IF i = 1 THEN ss[i] ELSE f[i - 1] \o ss[i]
      PROVE  f = g
  <2>1. \A i \in 1..n : f[i] = g[i]
    BY <1>2
  <2>2. g = [i \in 1..n |-> g[i]]
    OBVIOUS
  <2> HIDE DEF g
  <2> QED  BY <1>2, <2>1, <2>2
<1> QED  BY <1>1, <1>2 DEF JoinsTo

LEMMA JoinsExist ==
  ASSUME NEW ss, NEW n \in Nat
  PROVE  \E f : JoinsTo(ss, f, n)
<1> DEFINE S == {m \in Nat : \E f : JoinsTo(ss, f, m)}
<1>1. 0 \in S
  <2> DEFINE e == [i \in 1..0 |-> i]
  <2>1. JoinsTo(ss, e, 0)
    <3>1. e = [i \in 1..0 |-> e[i]] /\ 1..0 = {}
      OBVIOUS
    <3> HIDE DEF e
    <3> QED  BY <3>1, JoinsToIs
  <2> QED  BY <2>1
<1>2. ASSUME NEW m \in Nat, m \in S PROVE m + 1 \in S
  <2>1. PICK f : JoinsTo(ss, f, m)
    BY <1>2
  <2>2. /\ f = [i \in 1..m |-> f[i]]
        /\ \A i \in 1..m : f[i] = IF i = 1 THEN ss[i] ELSE f[i - 1] \o ss[i]
    BY <2>1, JoinsToIs
  <2> DEFINE g == [i \in 1..m + 1 |->
                     IF i = 1 THEN ss[i] ELSE f[i - 1] \o ss[i]]
  <2>3. /\ g = [i \in 1..m + 1 |-> g[i]]
        /\ \A i \in 1..m + 1 : g[i] = IF i = 1 THEN ss[i] ELSE f[i - 1] \o ss[i]
    OBVIOUS
  <2> HIDE DEF g
  <2>4. ASSUME NEW i \in 1..m PROVE g[i] = f[i]
    <3>1. i \in 1..m + 1
      OBVIOUS
    <3>2. g[i] = IF i = 1 THEN ss[i] ELSE f[i - 1] \o ss[i]
      BY <2>3, <3>1
    <3>3. f[i] = IF i = 1 THEN ss[i] ELSE f[i - 1] \o ss[i]
      BY <2>2
    <3> QED  BY <3>2, <3>3
  <2>5. \A i \in 1..m + 1 : i # 1 => i - 1 \in 1..m
    OBVIOUS
  <2>6. JoinsTo(ss, g, m + 1)
    <3>1. ASSUME NEW i \in 1..m + 1
          PROVE  g[i] = IF i = 1 THEN ss[i] ELSE g[i - 1] \o ss[i]
      <4>1. i # 1 => g[i - 1] = f[i - 1]
        BY <2>4, <2>5
      <4>2. g[i] = IF i = 1 THEN ss[i] ELSE f[i - 1] \o ss[i]
        BY <2>3
      <4> QED  BY <4>1, <4>2
    <3>2. m + 1 \in Nat /\ g = [i \in 1..m + 1 |-> g[i]]
      BY <2>3
    <3> QED  BY <3>1, <3>2, JoinsToIs
  <2> QED  BY <2>6
<1> HIDE DEF S
<1>3. n \in S
  BY <1>1, <1>2, Induction
<1> QED  BY <1>3 DEF S

(* FlattenSeq is the last of such joins.                                   *)
LEMMA FlattenIs ==
  ASSUME NEW ss, Len(ss) \in Nat, Len(ss) # 0
  PROVE  \E f : JoinsTo(ss, f, Len(ss)) /\ FlattenSeq(ss) = f[Len(ss)]
<1> DEFINE n == Len(ss)
           P(f) == JoinsTo(ss, f, n)
           v == CHOOSE f : P(f)
<1>1. FlattenSeq(ss) = v[n]
  BY DEF FlattenSeq, JoinsTo
<1>2. \E f : P(f)
  BY JoinsExist
<1> HIDE DEF P
<1>3. P(v)
  BY <1>2, Zenon
<1> QED  BY <1>1, <1>3 DEF P

LEMMA JoinsAgree ==
  ASSUME NEW ss, NEW tt, NEW f, NEW g, NEW m \in Nat, NEW n \in Nat,
         JoinsTo(ss, f, m), JoinsTo(tt, g, n), m <= n,
         \A i \in 1..m : ss[i] = tt[i]
  PROVE  \A i \in 1..m : f[i] = g[i]
<1> DEFINE S == {i \in Nat : i \in 1..m => f[i] = g[i]}
<1>1. 0 \in S
  OBVIOUS
<1>2. ASSUME NEW i \in Nat, i \in S PROVE i + 1 \in S
  <2>1. SUFFICES ASSUME i + 1 \in 1..m PROVE f[i + 1] = g[i + 1]
    OBVIOUS
  <2> DEFINE j == i + 1
  <2>2. j \in 1..m /\ j \in 1..n /\ j - 1 = i /\ (j # 1 => i \in 1..m)
    BY <2>1
  <2>3. j # 1 => f[j - 1] = g[j - 1]
    BY <1>2, <2>2
  <2> HIDE DEF j
  <2>4. f[j] = g[j]
    BY <2>2, <2>3, JoinsToIs
  <2> QED  BY <2>4 DEF j
<1> HIDE DEF S
<1>3. \A i \in Nat : i \in S
  BY <1>1, <1>2, Induction
<1> QED  BY <1>3 DEF S

(* FlattenSeq by its parts.                                                *)
LEMMA FlattenEmpty == FlattenSeq(<< >>) = << >>
BY DEF FlattenSeq

LEMMA FlattenAppend ==
  ASSUME NEW V, NEW ss \in Seq(Seq(V)), NEW s \in Seq(V)
  PROVE  FlattenSeq(Append(ss, s)) = FlattenSeq(ss) \o s
<1> DEFINE tt == Append(ss, s)
           n == Len(ss)
<1>1. /\ n \in Nat /\ Len(tt) = n + 1 /\ tt[n + 1] = s
      /\ \A i \in 1..n : tt[i] = ss[i]
  OBVIOUS
<1>2. PICK g : JoinsTo(tt, g, n + 1) /\ FlattenSeq(tt) = g[n + 1]
  <2> HIDE DEF tt, n
  <2>1. n + 1 \in Nat /\ n + 1 # 0
    BY <1>1
  <2> QED  BY <1>1, <2>1, FlattenIs
<1> HIDE DEF tt
<1>3. g[n + 1] = IF n + 1 = 1 THEN tt[n + 1] ELSE g[n] \o tt[n + 1]
  <2>1. n + 1 \in Nat /\ n + 1 \in 1..n + 1 /\ (n + 1) - 1 = n
    BY <1>1
  <2> HIDE DEF n
  <2> QED  BY <1>2, <2>1, JoinsToIs
<1>4. CASE n = 0
  <2>1. ss = << >>
    BY <1>4
  <2> QED  BY <1>1, <1>2, <1>3, <1>4, <2>1, FlattenEmpty DEF tt
<1>5. CASE n # 0
  <2>1. PICK f : JoinsTo(ss, f, n) /\ FlattenSeq(ss) = f[n]
    BY <1>1, <1>5, FlattenIs
  <2>2. n + 1 \in Nat /\ n <= n + 1 /\ n \in 1..n /\ n + 1 # 1
    BY <1>1, <1>5
  <2> HIDE DEF n
  <2>3. f[n] = g[n]
    BY <1>1, <1>2, <2>1, <2>2, JoinsAgree
  <2> QED  BY <1>1, <1>2, <1>3, <2>1, <2>2, <2>3 DEF tt
<1> QED  BY <1>4, <1>5

(* Every sequence but the empty one is one to which something is appended. *)
ButLast(ss, n) == [i \in 1..n |-> ss[i]]

LEMMA Unappend ==
  ASSUME NEW V, NEW ss \in Seq(V), NEW n \in Nat, Len(ss) = n + 1
  PROVE  /\ ButLast(ss, n) \in Seq(V) /\ Len(ButLast(ss, n)) = n
         /\ ss[n + 1] \in V /\ ss = Append(ButLast(ss, n), ss[n + 1])
<1> DEFINE t == ButLast(ss, n)
<1>1. t \in Seq(V) /\ Len(t) = n /\ ss[n + 1] \in V
  BY DEF ButLast
<1>2. ss = Append(t, ss[n + 1])
  BY DEF ButLast
<1> QED  BY <1>1, <1>2

LEMMA FlattenCat ==
  ASSUME NEW V, NEW ss \in Seq(Seq(V)), NEW tt \in Seq(Seq(V))
  PROVE  /\ FlattenSeq(tt) \in Seq(V)
         /\ FlattenSeq(ss \o tt) = FlattenSeq(ss) \o FlattenSeq(tt)
<1> DEFINE S == {n \in Nat :
                   \A uu \in Seq(Seq(V)) : Len(uu) = n =>
                     /\ FlattenSeq(uu) \in Seq(V)
                     /\ FlattenSeq(ss) \in Seq(V) =>
                          FlattenSeq(ss \o uu) = FlattenSeq(ss) \o FlattenSeq(uu)}
<1>1. 0 \in S
  <2>1. ASSUME NEW uu \in Seq(Seq(V)), Len(uu) = 0
        PROVE  /\ FlattenSeq(uu) \in Seq(V)
               /\ FlattenSeq(ss) \in Seq(V) =>
                    FlattenSeq(ss \o uu) = FlattenSeq(ss) \o FlattenSeq(uu)
    <3>1. uu = << >> /\ ss \o uu = ss /\ FlattenSeq(uu) = << >>
      BY <2>1, FlattenEmpty
    <3>2. FlattenSeq(ss) \in Seq(V) => FlattenSeq(ss) \o << >> = FlattenSeq(ss)
      OBVIOUS
    <3>3. << >> \in Seq(V)
      OBVIOUS
    <3> QED  BY <3>1, <3>2, <3>3
  <2> QED  BY <2>1
<1>2. ASSUME NEW n \in Nat, n \in S PROVE n + 1 \in S
  <2>1. ASSUME NEW uu \in Seq(Seq(V)), Len(uu) = n + 1
        PROVE  /\ FlattenSeq(uu) \in Seq(V)
               /\ FlattenSeq(ss) \in Seq(V) =>
                    FlattenSeq(ss \o uu) = FlattenSeq(ss) \o FlattenSeq(uu)
    <3> DEFINE vv == ButLast(uu, n)
               x == uu[n + 1]
    <3>1. /\ vv \in Seq(Seq(V)) /\ x \in Seq(V)
          /\ Len(vv) = n /\ uu = Append(vv, x)
      BY <2>1, Unappend
    <3> HIDE DEF vv, x
    <3>2. /\ FlattenSeq(vv) \in Seq(V)
          /\ FlattenSeq(ss) \in Seq(V) =>
               FlattenSeq(ss \o vv) = FlattenSeq(ss) \o FlattenSeq(vv)
      BY <1>2, <3>1
    <3>3. FlattenSeq(uu) = FlattenSeq(vv) \o x
      BY <3>1, FlattenAppend
    <3>4. ss \o uu = Append(ss \o vv, x) /\ ss \o vv \in Seq(Seq(V))
      BY <3>1
    <3>5. FlattenSeq(ss \o uu) = FlattenSeq(ss \o vv) \o x
      BY <3>1, <3>4, FlattenAppend
    <3>6. FlattenSeq(uu) \in Seq(V)
      BY <3>1, <3>2, <3>3
    <3>7. ASSUME FlattenSeq(ss) \in Seq(V)
          PROVE  FlattenSeq(ss \o uu) = FlattenSeq(ss) \o FlattenSeq(uu)
      <4>1. FlattenSeq(ss \o vv) = FlattenSeq(ss) \o FlattenSeq(vv)
        BY <3>2, <3>7
      <4>2. \A a, b \in Seq(V) : (a \o b) \o x = a \o (b \o x)
        OBVIOUS
      <4> QED  BY <3>2, <3>3, <3>5, <3>7, <4>1, <4>2
    <3> QED  BY <3>6, <3>7
  <2> QED  BY <2>1
<1> HIDE DEF S
<1>3. \A n \in Nat : n \in S
  BY <1>1, <1>2, Induction
<1>4. Len(ss) \in S /\ Len(tt) \in S
  BY <1>3
<1> QED  BY <1>4 DEF S

LEMMA FlattenType ==
  ASSUME NEW V, NEW ss \in Seq(Seq(V))
  PROVE  FlattenSeq(ss) \in Seq(V)
BY FlattenCat

LEMMA FlattenOne ==
  ASSUME NEW V, NEW s \in Seq(V)
  PROVE  FlattenSeq(<<s>>) = s
<1>1. << >> \in Seq(Seq(V)) /\ <<s>> = Append(<< >>, s)
  OBVIOUS
<1>2. FlattenSeq(<<s>>) = << >> \o s
  BY <1>1, FlattenAppend, FlattenEmpty
<1> QED  BY <1>2

(* The join has elements of the parts only.                                *)
LEMMA FlattenRange ==
  ASSUME NEW V, NEW ss \in Seq(Seq(V)), NEW x \in Range(FlattenSeq(ss))
  PROVE  \E k \in DOMAIN ss : x \in Range(ss[k])
<1> DEFINE S == {n \in Nat :
                   \A uu \in Seq(Seq(V)) :
                     Len(uu) = n /\ x \in Range(FlattenSeq(uu)) =>
                       \E k \in DOMAIN uu : x \in Range(uu[k])}
<1>1. 0 \in S
  <2>1. ASSUME NEW uu \in Seq(Seq(V)), Len(uu) = 0
        PROVE  x \notin Range(FlattenSeq(uu))
    <3>1. uu = << >> /\ FlattenSeq(uu) = << >>
      BY <2>1, FlattenEmpty
    <3> QED  BY <3>1 DEF Range
  <2> QED  BY <2>1
<1>2. ASSUME NEW n \in Nat, n \in S PROVE n + 1 \in S
  <2>1. ASSUME NEW uu \in Seq(Seq(V)), Len(uu) = n + 1,
               x \in Range(FlattenSeq(uu))
        PROVE  \E k \in DOMAIN uu : x \in Range(uu[k])
    <3> DEFINE vv == ButLast(uu, n)
               y == uu[n + 1]
    <3>1. /\ vv \in Seq(Seq(V)) /\ y \in Seq(V)
          /\ Len(vv) = n /\ uu = Append(vv, y)
      BY <2>1, Unappend
    <3> HIDE DEF vv, y
    <3>2. FlattenSeq(uu) = FlattenSeq(vv) \o y /\ FlattenSeq(vv) \in Seq(V)
      BY <3>1, FlattenAppend, FlattenType
    <3>3. x \in Range(FlattenSeq(vv)) \/ x \in Range(y)
      <4>1. PICK i \in DOMAIN (FlattenSeq(vv) \o y) : x = (FlattenSeq(vv) \o y)[i]
        BY <2>1, <3>2 DEF Range
      <4>2. CASE i <= Len(FlattenSeq(vv))
        BY <3>2, <4>1, <4>2 DEF Range
      <4>3. CASE ~(i <= Len(FlattenSeq(vv)))
        <5>1. i - Len(FlattenSeq(vv)) \in DOMAIN y /\ x = y[i - Len(FlattenSeq(vv))]
          BY <3>2, <4>1, <4>3
        <5> QED  BY <5>1 DEF Range
      <4> QED  BY <4>2, <4>3
    <3>4. CASE x \in Range(FlattenSeq(vv))
      <4>1. PICK k \in DOMAIN vv : x \in Range(vv[k])
        BY <1>2, <3>1, <3>4
      <4>2. k \in DOMAIN uu /\ uu[k] = vv[k]
        BY <3>1, <4>1
      <4> QED  BY <4>1, <4>2
    <3>5. CASE x \in Range(y)
      <4>1. Len(uu) \in DOMAIN uu /\ uu[Len(uu)] = y
        BY <2>1, <3>1
      <4> QED  BY <3>5, <4>1
    <3> QED  BY <3>3, <3>4, <3>5
  <2> QED  BY <2>1
<1> HIDE DEF S
<1>3. Len(ss) \in S
  BY <1>1, <1>2, Induction
<1> QED  BY <1>3 DEF S

(* What holds of a tree when it holds of its children holds of all trees.  *)
LEMMA TreeInduction ==
  ASSUME NEW S,
         \A n \in Trees : (\A k \in DOMAIN n.children : n.children[k] \in S)
                            => n \in S
  PROVE  \A n \in Trees : n \in S
<1> DEFINE N == {m \in Nat : \E n \in Trees : m = Height[n] /\ n \notin S}
<1>1. SUFFICES ASSUME N # {} PROVE FALSE
  BY TreeFacts
<1>2. PICK m \in N : \A i \in N : m <= i
  <2>1. N \subseteq Nat
    OBVIOUS
  <2> HIDE DEF N
  <2> QED  BY <1>1, <2>1, LeastNumber
<1>3. PICK n \in Trees : m = Height[n] /\ n \notin S
  OBVIOUS
<1>4. PICK k \in DOMAIN n.children : n.children[k] \notin S
  BY <1>3
<1>5. n.children[k] \in Trees /\ Height[n.children[k]] \in Nat
      /\ Height[n.children[k]] < m /\ m \in Nat
  BY <1>3, TreeFacts
<1> QED  BY <1>2, <1>4, <1>5

-----------------------------------------------------------------------------
(* The functions on trees are what their definitions say.                  *)

Strings == Seq(Tokens)

LEMMA TextTypes ==
  ASSUME NEW n \in Trees
  PROVE  /\ <<"(">> \o Label(n) \in Strings
         /\ Close \in Strings /\ Label(n) \in Strings
<1>1. n.type \in Tokens /\ n.op \in Tokens
  BY TreeFacts
<1>2. OpToString(n) \in Strings
  BY <1>1 DEF OpToString, Strings
<1>3. Label(n) \in Strings
  BY <1>1, <1>2, TokensAssumption DEF Label, Strings
<1> QED  BY <1>1, <1>3, TokensAssumption DEF Strings, Close

LEMMA JoinedType ==
  ASSUME NEW a \in Strings, NEW ss \in Seq(Strings)
  PROVE  /\ << a >> \o ss \o << Close >> \in Seq(Strings)
         /\ FlattenSeq(<< a >> \o ss \o << Close >>) \in Strings
<1>1. Close \in Strings
  BY TokensAssumption DEF Close, Strings
<1>2. << a >> \o ss \o << Close >> \in Seq(Strings)
  BY <1>1
<1> QED  BY <1>2, FlattenType DEF Strings

(* The recursive functions are what their definitions say of each tree.    *)
LEMMA LevelOneIs ==
  ASSUME NEW n \in Trees
  PROVE  /\ LevelOne[n] \in Strings
         /\ LevelOne[n] = FlattenSeq(<< <<"(">> \o Label(n) >>
                                       \o Below(LevelOne, n) \o << Close >>)
<1> DEFINE e(m, ss) == FlattenSeq(<< <<"(">> \o Label(m) >> \o ss \o << Close >>)
           body(f) == [m \in Trees |-> e(m, Below(f, m))]
           rule == [p \in Trees \X Seq(Strings) |-> e(p[1], p[2])]
           P(f) == f = body(f)
<1>1. \A m \in Trees, ss \in Seq(Strings) : e(m, ss) \in Strings
  BY TextTypes, JoinedType
<1> HIDE DEF e
<1>2. rule \in [Trees \X Seq(Strings) -> Strings]
  BY <1>1
<1>3. PICK F \in [Trees -> Strings] : \A m \in Trees : Follows(rule, F, m)
  <2> HIDE DEF rule
  <2> QED  BY <1>2, Recursion
<1>4. P(F)
  <2>1. ASSUME NEW m \in Trees PROVE F[m] = e(m, Below(F, m))
    <3>1. Below(F, m) \in Seq(Strings)
      BY TreeFacts DEF Below
    <3> QED  BY <1>3, <3>1 DEF Follows
  <2> QED  BY <2>1
<1>5. LevelOne = CHOOSE f : P(f)
  BY DEF LevelOne, Below, Shown, e
<1> HIDE DEF P
<1>6. P(LevelOne)
  BY <1>4, <1>5, Zenon
<1>7. \A m \in Trees : LevelOne[m] = e(m, Below(LevelOne, m))
  BY <1>6 DEF P
<1>8. \A m \in Trees : m \in {t \in Trees : LevelOne[t] \in Strings}
  <2> DEFINE S == {t \in Trees : LevelOne[t] \in Strings}
  <2>1. ASSUME NEW m \in Trees, \A k \in DOMAIN m.children : m.children[k] \in S
        PROVE  m \in S
    <3>1. Below(LevelOne, m) \in Seq(Strings)
      BY <2>1, TreeFacts DEF Below
    <3> QED  BY <1>1, <1>7, <3>1
  <2> HIDE DEF S
  <2>2. \A m \in Trees : m \in S
    BY <2>1, TreeInduction
  <2> QED  BY <2>2 DEF S
<1> QED  BY <1>7, <1>8 DEF e

LEMMA BelowType ==
  ASSUME NEW V, NEW f \in [Trees -> V], NEW n \in Trees
  PROVE  Below(f, n) \in Seq(V)
BY TreeFacts DEF Below

(* A function on the positions of a sequence is a sequence.                *)
LEMMA MapType ==
  ASSUME NEW V, NEW W, NEW s \in Seq(W), NEW f,
         f = [k \in DOMAIN s |-> f[k]], \A k \in DOMAIN s : f[k] \in V
  PROVE  f \in Seq(V) /\ Len(f) = Len(s) /\ DOMAIN f = DOMAIN s
<1>1. Len(s) \in Nat /\ DOMAIN s = 1..Len(s)
  OBVIOUS
<1> QED  BY <1>1

(* What LevelMin says of a node, given the texts of its children.          *)
MinParts(n, ss) ==
  <<InsertedToString(n.inserted[1])>>
    \o [k \in DOMAIN n.children |->
          FieldToString(n.children[k]) \o ss[k]
            \o InsertedToString(n.inserted[k + 1])]
MinText(n, ss) ==
  <<"(">> \o MinLabel(n) \o FlattenSeq(MinParts(n, ss)) \o Close

LEMMA InsertedType ==
  ASSUME NEW tokens \in Seq(Tokens)
  PROVE  InsertedToString(tokens) \in Strings
<1> DEFINE ss == [i \in DOMAIN tokens |-> <<"(", "MISSING", tokens[i], ")">>]
<1>1. ss \in Seq(Seq(Tokens))
  <2>1. \A i \in DOMAIN tokens : ss[i] \in Seq(Tokens)
    BY TokensAssumption
  <2>2. ss = [i \in DOMAIN tokens |-> ss[i]]
    OBVIOUS
  <2> HIDE DEF ss
  <2> QED  BY <2>1, <2>2, MapType
<1> HIDE DEF ss
<1>2. FlattenSeq(ss) \in Strings
  BY <1>1, FlattenType DEF Strings
<1> QED  BY <1>2 DEF InsertedToString, ss

LEMMA MinPartsType ==
  ASSUME NEW n \in Trees, NEW ss \in Seq(Strings), Len(ss) = Len(n.children)
  PROVE  /\ MinParts(n, ss) \in Seq(Strings)
         /\ MinText(n, ss) \in Strings
<1> DEFINE tt == [k \in DOMAIN n.children |->
                    FieldToString(n.children[k]) \o ss[k]
                      \o InsertedToString(n.inserted[k + 1])]
<1>1. ASSUME NEW k \in DOMAIN n.children PROVE tt[k] \in Strings
  <2>1. n.children[k] \in Trees /\ n.children[k].field \in Tokens
        /\ n.inserted[k + 1] \in Seq(Tokens)
    BY TreeFacts, NodeFacts
  <2>2. FieldToString(n.children[k]) \in Strings
    BY <2>1 DEF FieldToString, Strings
  <2>3. InsertedToString(n.inserted[k + 1]) \in Strings
    BY <2>1, InsertedType
  <2>4. ss[k] \in Strings
    BY TreeFacts
  <2> QED  BY <2>2, <2>3, <2>4 DEF Strings
<1>2. tt \in Seq(Strings)
  <2>1. tt = [k \in DOMAIN n.children |-> tt[k]] /\ n.children \in Seq(Trees)
    BY TreeFacts
  <2> HIDE DEF tt
  <2> QED  BY <1>1, <2>1, MapType
<1> HIDE DEF tt
<1>3. InsertedToString(n.inserted[1]) \in Strings
  BY NodeFacts, InsertedType
<1>4. <<InsertedToString(n.inserted[1])>> \o tt \in Seq(Strings)
  BY <1>2, <1>3
<1>5. MinParts(n, ss) \in Seq(Strings)
  BY <1>4 DEF MinParts, tt
<1>6. FlattenSeq(MinParts(n, ss)) \in Strings
  BY <1>5, FlattenType DEF Strings
<1>7. MinLabel(n) \in Strings
  BY TreeFacts, NodeFacts, TokensAssumption DEF MinLabel, Strings
<1>8. <<"(">> \in Strings /\ Close \in Strings
  BY TokensAssumption DEF Strings, Close
<1>9. MinText(n, ss) \in Strings
  BY <1>6, <1>7, <1>8 DEF MinText, Strings
<1> QED  BY <1>5, <1>9

LEMMA LevelMinIs ==
  ASSUME NEW n \in Trees
  PROVE  /\ LevelMin[n] \in Strings
         /\ LevelMin[n] = MinText(n, Below(LevelMin, n))
<1> DEFINE rule == [p \in Trees \X Seq(Strings) |->
                      IF Len(p[2]) = Len(p[1].children) THEN MinText(p[1], p[2])
                                                        ELSE << >>]
           text(f, m) ==
             <<"(">> \o MinLabel(m)
               \o FlattenSeq(<<InsertedToString(m.inserted[1])>>
                    \o [k \in DOMAIN m.children |->
                          FieldToString(m.children[k]) \o f[m.children[k]]
                            \o InsertedToString(m.inserted[k + 1])])
               \o Close
           P(f) == f = [m \in Trees |-> text(f, m)]
<1>1. rule \in [Trees \X Seq(Strings) -> Strings]
  <2>1. << >> \in Strings
    BY DEF Strings
  <2>2. \A m \in Trees, ss \in Seq(Strings) :
          Len(ss) = Len(m.children) => MinText(m, ss) \in Strings
    BY MinPartsType
  <2> QED  BY <2>1, <2>2
<1>2. PICK F \in [Trees -> Strings] : \A m \in Trees : Follows(rule, F, m)
  <2> HIDE DEF rule
  <2> QED  BY <1>1, Recursion
<1>3. \A f, m : m \in Trees => Len(Below(f, m)) = Len(m.children)
  BY TreeFacts DEF Below
<1>4. \A f, m : MinText(m, Below(f, m)) = text(f, m)
  BY DEF MinText, MinParts, Below
<1>5. P(F)
  <2>1. ASSUME NEW m \in Trees PROVE F[m] = MinText(m, Below(F, m))
    <3>1. Below(F, m) \in Seq(Strings)
      BY TreeFacts DEF Below
    <3> QED  BY <1>2, <1>3, <3>1 DEF Follows
  <2> HIDE DEF text
  <2> QED  BY <1>4, <2>1
<1>6. LevelMin = CHOOSE f : P(f)
  BY DEF LevelMin
<1> HIDE DEF P
<1>7. P(LevelMin)
  BY <1>5, <1>6, Zenon
<1>8. \A m \in Trees : LevelMin[m] = MinText(m, Below(LevelMin, m))
  <2> HIDE DEF text
  <2> QED  BY <1>4, <1>7 DEF P
<1> DEFINE S == {t \in Trees : LevelMin[t] \in Strings}
<1>9. ASSUME NEW m \in Trees, \A k \in DOMAIN m.children : m.children[k] \in S
      PROVE  m \in S
  <2>1. Below(LevelMin, m) \in Seq(Strings)
    BY <1>9, TreeFacts DEF Below
  <2> QED  BY <1>3, <1>8, <2>1, MinPartsType
<1> HIDE DEF S
<1>10. n \in S
  BY <1>9, TreeInduction
<1> QED  BY <1>8, <1>10 DEF S

LEMMA PreorderIs ==
  ASSUME NEW n \in Trees
  PROVE  /\ Preorder[n] \in Seq(Trees)
         /\ Preorder[n] = FlattenSeq(<< <<n>> >> \o Below(Preorder, n))
<1> DEFINE V == Seq(Trees)
           e(m, ss) == FlattenSeq(<< <<m>> >> \o ss)
           body(f) == [m \in Trees |-> e(m, Below(f, m))]
           rule == [p \in Trees \X Seq(V) |-> e(p[1], p[2])]
           P(f) == f = body(f)
<1>1. \A m \in Trees, ss \in Seq(V) : e(m, ss) \in V
  <2>1. ASSUME NEW m \in Trees, NEW ss \in Seq(Seq(Trees))
        PROVE  << <<m>> >> \o ss \in Seq(Seq(Trees))
    <3>1. << <<m>> >> \in Seq(Seq(Trees))
      OBVIOUS
    <3> QED  BY <3>1
  <2> QED  BY <2>1, FlattenType
<1> HIDE DEF e, V
<1>2. rule \in [Trees \X Seq(V) -> V]
  BY <1>1
<1>3. PICK F \in [Trees -> V] : \A m \in Trees : Follows(rule, F, m)
  <2> HIDE DEF rule
  <2> QED  BY <1>2, Recursion
<1>4. P(F)
  <2>1. ASSUME NEW m \in Trees PROVE F[m] = e(m, Below(F, m))
    <3>1. Below(F, m) \in Seq(V)
      BY TreeFacts DEF Below
    <3> QED  BY <1>3, <3>1 DEF Follows
  <2> QED  BY <2>1
<1>5. Preorder = CHOOSE f : P(f)
  BY DEF Preorder, Below, e
<1> HIDE DEF P
<1>6. P(Preorder)
  BY <1>4, <1>5, Zenon
<1>7. \A m \in Trees : Preorder[m] = e(m, Below(Preorder, m))
  BY <1>6 DEF P
<1>8. \A m \in Trees : m \in {t \in Trees : Preorder[t] \in V}
  <2> DEFINE S == {t \in Trees : Preorder[t] \in V}
  <2>1. ASSUME NEW m \in Trees, \A k \in DOMAIN m.children : m.children[k] \in S
        PROVE  m \in S
    <3>1. Below(Preorder, m) \in Seq(V)
      BY <2>1, TreeFacts DEF Below
    <3> QED  BY <1>1, <1>7, <3>1
  <2> HIDE DEF S
  <2>2. \A m \in Trees : m \in S
    BY <2>1, TreeInduction
  <2> QED  BY <2>2 DEF S
<1> QED  BY <1>7, <1>8 DEF e, V

LEMMA HasErrorIs ==
  ASSUME NEW n \in Trees
  PROVE  HasError[n] = (\/ n.type = "ERROR" \/ n.missing
                        \/ \E k \in DOMAIN n.inserted : n.inserted[k] # << >>
                        \/ \E k \in DOMAIN n.children : HasError[n.children[k]])
<1> DEFINE own(m) == \/ m.type = "ERROR" \/ m.missing
                     \/ \E k \in DOMAIN m.inserted : m.inserted[k] # << >>
           e(f, m) == \/ m.type = "ERROR" \/ m.missing
                      \/ \E k \in DOMAIN m.inserted : m.inserted[k] # << >>
                      \/ \E k \in DOMAIN m.children : f[m.children[k]]
           rule == [p \in Trees \X Seq(BOOLEAN) |->
                      own(p[1]) \/ \E k \in DOMAIN p[2] : p[2][k]]
           P(f) == f = [m \in Trees |-> e(f, m)]
<1>1. rule \in [Trees \X Seq(BOOLEAN) -> BOOLEAN]
  OBVIOUS
<1>2. PICK F \in [Trees -> BOOLEAN] : \A m \in Trees : Follows(rule, F, m)
  <2> HIDE DEF rule
  <2> QED  BY <1>1, Recursion
<1>3. P(F)
  <2>1. ASSUME NEW m \in Trees PROVE F[m] = e(F, m)
    <3>1. Below(F, m) \in Seq(BOOLEAN)
      BY BelowType
    <3>2. F[m] = (own(m) \/ \E k \in DOMAIN Below(F, m) : Below(F, m)[k])
      BY <1>2, <3>1 DEF Follows
    <3> QED  BY <3>2 DEF Below
  <2> QED  BY <2>1
<1>4. HasError = CHOOSE f : P(f)
  BY DEF HasError
<1> HIDE DEF P
<1>5. P(HasError)
  BY <1>3, <1>4, Zenon
<1> QED  BY <1>5 DEF P

(* What AbstractConditional and ConditionalThrows say of a node, given     *)
(* what they say of its children.                                          *)
Described(f, n) ==
  IF Len(n.children) # 1 THEN << >>
  ELSE LET c == n.children[1]
       IN CASE c.type \in Nested -> <<"(", c.type>> \o f[c] \o Close
            [] c.type = "call_expression" -> <<"(", c.type>> \o Close
            [] c.type = "field_expression" ->
                 <<"(", c.type, "argument", "(", "identifier", ")",
                   "field", "(", "field_identifier", ")">> \o Close
            [] c.type \in Unary \cup Binary ->
                 <<"(">> \o Label(c) \o AbstractOperands(c) \o Close
            [] OTHER -> AbstractTerminal(c)

LEMMA AbstractTerminalType ==
  ASSUME NEW c \in Trees
  PROVE  AbstractTerminal(c) \in Strings
BY TreeFacts, TokensAssumption DEF AbstractTerminal, Close, Strings

LEMMA AbstractOperandsType ==
  ASSUME NEW c \in Trees
  PROVE  AbstractOperands(c) \in Strings
<1> DEFINE ss == [k \in DOMAIN c.children |->
                    IF k \in Operands(c) THEN AbstractTerminal(c.children[k])
                                         ELSE << >>]
<1>1. \A k \in DOMAIN c.children : ss[k] \in Seq(Tokens)
  BY TreeFacts, AbstractTerminalType DEF Strings
<1>2. ss \in Seq(Seq(Tokens))
  <2>1. c.children \in Seq(Trees) /\ ss = [k \in DOMAIN c.children |-> ss[k]]
    BY TreeFacts
  <2> HIDE DEF ss
  <2> QED  BY <1>1, <2>1, MapType
<1> HIDE DEF ss
<1>3. FlattenSeq(ss) \in Strings
  BY <1>2, FlattenType DEF Strings
<1> QED  BY <1>3 DEF AbstractOperands, ss

LEMMA DescribedType ==
  ASSUME NEW n \in Trees, NEW f, \A k \in DOMAIN n.children : f[n.children[k]] \in Strings
  PROVE  Described(f, n) \in Strings
<1>1. CASE Len(n.children) # 1
  BY <1>1 DEF Described, Strings
<1>2. CASE Len(n.children) = 1
  <2> DEFINE c == n.children[1]
  <2>1. c \in Trees /\ f[c] \in Strings
    BY <1>2, TreeFacts
  <2>2. /\ c.type \in Tokens /\ Label(c) \in Strings
        /\ AbstractOperands(c) \in Strings /\ AbstractTerminal(c) \in Strings
    BY <2>1, TextTypes, TreeFacts, AbstractOperandsType, AbstractTerminalType
  <2> HIDE DEF c
  <2>3. <<"(", c.type>> \o f[c] \o Close \in Strings
    BY <2>1, <2>2, TokensAssumption DEF Strings, Close
  <2>4. <<"(", c.type>> \o Close \in Strings
    BY <2>1, <2>2, TokensAssumption DEF Strings, Close
  <2>5. <<"(", c.type, "argument", "(", "identifier", ")",
          "field", "(", "field_identifier", ")">> \o Close \in Strings
    BY <2>1, <2>2, TokensAssumption DEF Strings, Close
  <2>6. <<"(">> \o Label(c) \o AbstractOperands(c) \o Close \in Strings
    BY <2>1, <2>2, TokensAssumption DEF Strings, Close
  <2> QED  BY <1>2, <2>2, <2>3, <2>4, <2>5, <2>6 DEF Described, c
<1> QED  BY <1>1, <1>2

LEMMA AbstractConditionalIs ==
  ASSUME NEW n \in Trees
  PROVE  /\ AbstractConditional[n] \in Strings
         /\ AbstractConditional[n] = Described(AbstractConditional, n)
<1> DEFINE pick(m, ss) == [c \in {m.children[k] : k \in DOMAIN m.children} |->
                             ss[CHOOSE k \in DOMAIN m.children : m.children[k] = c]]
           rule == [p \in Trees \X Seq(Strings) |->
                      IF Len(p[2]) # Len(p[1].children) THEN << >>
                      ELSE Described(pick(p[1], p[2]), p[1])]
           P(f) == f = [m \in Trees |-> Described(f, m)]
<1>1. rule \in [Trees \X Seq(Strings) -> Strings]
  <2>1. ASSUME NEW m \in Trees, NEW ss \in Seq(Strings),
               Len(ss) = Len(m.children)
        PROVE  Described(pick(m, ss), m) \in Strings
    <3>1. ASSUME NEW k \in DOMAIN m.children
          PROVE  pick(m, ss)[m.children[k]] \in Strings
      <4> DEFINE j == CHOOSE j \in DOMAIN m.children : m.children[j] = m.children[k]
      <4>1. j \in DOMAIN m.children
        OBVIOUS
      <4>2. pick(m, ss)[m.children[k]] = ss[j]
        OBVIOUS
      <4> HIDE DEF j, pick
      <4>3. ss[j] \in Strings
        BY <2>1, <4>1, TreeFacts
      <4> QED  BY <4>2, <4>3
    <3> HIDE DEF pick
    <3> QED  BY <3>1, DescribedType
  <2>2. << >> \in Strings
    BY DEF Strings
  <2> HIDE DEF pick
  <2> QED  BY <2>1, <2>2
<1>2. PICK F \in [Trees -> Strings] : \A m \in Trees : Follows(rule, F, m)
  <2> HIDE DEF rule
  <2> QED  BY <1>1, Recursion
<1>3. P(F)
  <2>1. ASSUME NEW m \in Trees PROVE F[m] = Described(F, m)
    <3>1. /\ Below(F, m) \in Seq(Strings)
          /\ Len(Below(F, m)) = Len(m.children)
      BY BelowType, TreeFacts DEF Below
    <3>2. F[m] = Described(pick(m, Below(F, m)), m)
      <4> HIDE DEF pick
      <4> QED  BY <1>2, <3>1 DEF Follows
    <3>3. ASSUME Len(m.children) = 1
          PROVE  pick(m, Below(F, m))[m.children[1]] = F[m.children[1]]
      <4> DEFINE k == CHOOSE k \in DOMAIN m.children : m.children[k] = m.children[1]
      <4>1. DOMAIN m.children = {1}
        BY <3>3, TreeFacts
      <4>2. pick(m, Below(F, m))[m.children[1]] = Below(F, m)[k] /\ k = 1
        BY <4>1
      <4> QED  BY <4>1, <4>2 DEF Below
    <3> HIDE DEF pick
    <3>4. Described(pick(m, Below(F, m)), m) = Described(F, m)
      BY <3>3 DEF Described
    <3> QED  BY <3>2, <3>4
  <2> QED  BY <2>1
<1>4. AbstractConditional = CHOOSE f : P(f)
  BY DEF AbstractConditional, Described
<1> HIDE DEF P
<1>5. P(AbstractConditional)
  BY <1>3, <1>4, Zenon
<1>6. \A m \in Trees : AbstractConditional[m] = Described(AbstractConditional, m)
  BY <1>5 DEF P
<1> DEFINE S == {t \in Trees : AbstractConditional[t] \in Strings}
<1>7. ASSUME NEW m \in Trees, \A k \in DOMAIN m.children : m.children[k] \in S
      PROVE  m \in S
  BY <1>6, <1>7, DescribedType
<1> HIDE DEF S
<1>8. n \in S
  BY <1>7, TreeInduction
<1> QED  BY <1>6, <1>8 DEF S

Fails(f, n) ==
  /\ Len(n.children) = 1
  /\ LET c == n.children[1]
     IN \/ c.type \in Nested /\ f[c]
        \/ c.type \in Unary \cup Binary /\ Cardinality(Operands(c)) # Arity(c)

LEMMA ConditionalThrowsIs ==
  ASSUME NEW n \in Trees
  PROVE  ConditionalThrows[n] = Fails(ConditionalThrows, n)
<1> DEFINE rule == [p \in Trees \X Seq(BOOLEAN) |->
                      /\ Len(p[1].children) = 1
                      /\ LET c == p[1].children[1]
                         IN \/ c.type \in Nested /\ p[2][1]
                            \/ /\ c.type \in Unary \cup Binary
                               /\ Cardinality(Operands(c)) # Arity(c)]
           P(f) == f = [m \in Trees |-> Fails(f, m)]
<1>1. rule \in [Trees \X Seq(BOOLEAN) -> BOOLEAN]
  OBVIOUS
<1>2. PICK F \in [Trees -> BOOLEAN] : \A m \in Trees : Follows(rule, F, m)
  <2> HIDE DEF rule
  <2> QED  BY <1>1, Recursion
<1>3. P(F)
  <2>1. ASSUME NEW m \in Trees PROVE F[m] = Fails(F, m)
    <3>1. Below(F, m) \in Seq(BOOLEAN)
      BY BelowType
    <3>2. F[m] = rule[<<m, Below(F, m)>>]
      BY <1>2 DEF Follows
    <3>3. Len(m.children) = 1 => Below(F, m)[1] = F[m.children[1]]
      BY TreeFacts DEF Below
    <3> QED  BY <3>1, <3>2, <3>3 DEF Fails
  <2> QED  BY <2>1
<1>4. ConditionalThrows = CHOOSE f : P(f)
  BY DEF ConditionalThrows, Fails
<1> HIDE DEF P
<1>5. P(ConditionalThrows)
  BY <1>3, <1>4, Zenon
<1> QED  BY <1>5 DEF P

-----------------------------------------------------------------------------
(* Texts: a label in parentheses, with texts after the label.              *)

Labels == Seq(Tokens \ {"(", ")"})

Text(label, ss) == <<"(">> \o label \o FlattenSeq(ss) \o <<")">>

(* Expressions are the least set with the text of every label and all      *)
(* texts of its own members.                                               *)
ClosedUnderText(S) ==
  \A label \in Labels, ss \in Seq(S) : Text(label, ss) \in S

Expressions == {e \in Strings : \A S \in SUBSET Strings :
                                  ClosedUnderText(S) => e \in S}

LEMMA LabelFacts ==
  ASSUME NEW label \in Labels
  PROVE  /\ label \in Strings
         /\ \A k \in DOMAIN label : label[k] \notin {"(", ")"}
BY DEF Labels, Strings

LEMMA ParenFacts == <<"(">> \in Strings /\ <<")">> \in Strings /\ << >> \in Strings
BY TokensAssumption DEF Strings

LEMMA TextIsString ==
  ASSUME NEW label \in Labels, NEW ss \in Seq(Strings)
  PROVE  Text(label, ss) \in Strings /\ FlattenSeq(ss) \in Strings
<1>1. FlattenSeq(ss) \in Strings
  BY FlattenType DEF Strings
<1>2. label \in Strings
  BY LabelFacts
<1> QED  BY <1>1, <1>2, ParenFacts DEF Text, Strings

LEMMA ExpressionsClosed ==
  ASSUME NEW label \in Labels, NEW ss \in Seq(Expressions)
  PROVE  Text(label, ss) \in Expressions
<1>1. Expressions \subseteq Strings
  BY DEF Expressions
<1>2. Text(label, ss) \in Strings
  <2>1. ss \in Seq(Strings)
    BY <1>1, SubSequences
  <2> QED  BY <2>1, TextIsString
<1>3. ASSUME NEW S \in SUBSET Strings, ClosedUnderText(S)
      PROVE  Text(label, ss) \in S
  <2>1. Expressions \subseteq S
    BY <1>3 DEF Expressions
  <2>2. ss \in Seq(S)
    BY <2>1, SubSequences
  <2> QED  BY <1>3, <2>2 DEF ClosedUnderText
<1> QED  BY <1>2, <1>3 DEF Expressions

(* What is closed under the rule has all expressions.                      *)
LEMMA ExpressionInduction ==
  ASSUME NEW S \in SUBSET Expressions, ClosedUnderText(S)
  PROVE  S = Expressions
<1>1. S \in SUBSET Strings
  BY DEF Expressions
<1> QED  BY <1>1 DEF Expressions

(* An expression is the text of a label and expressions.                   *)
LEMMA ExpressionIsText ==
  ASSUME NEW e \in Expressions
  PROVE  \E label \in Labels, ss \in Seq(Expressions) : e = Text(label, ss)
<1> DEFINE S == {f \in Expressions :
                   \E label \in Labels, ss \in Seq(Expressions) : f = Text(label, ss)}
<1>1. ClosedUnderText(S)
  <2>1. ASSUME NEW label \in Labels, NEW ss \in Seq(S)
        PROVE  Text(label, ss) \in S
    <3>1. ss \in Seq(Expressions)
      <4>1. S \subseteq Expressions
        OBVIOUS
      <4> HIDE DEF S
      <4> QED  BY <4>1, SubSequences
    <3>2. Text(label, ss) \in Expressions
      BY <3>1, ExpressionsClosed
    <3> QED  BY <3>1, <3>2
  <2> HIDE DEF S
  <2> QED  BY <2>1 DEF ClosedUnderText
<1>2. S = Expressions
  <2>1. S \in SUBSET Expressions
    OBVIOUS
  <2> HIDE DEF S
  <2> QED  BY <1>1, <2>1, ExpressionInduction
<1> QED  BY <1>2

-----------------------------------------------------------------------------
(* Reading an expression from the front of a string.                       *)

LEMMA Associative ==
  ASSUME NEW V, NEW a \in Seq(V), NEW b \in Seq(V), NEW c \in Seq(V)
  PROVE  (a \o b) \o c = a \o (b \o c)
OBVIOUS

LEMMA CancelLeft ==
  ASSUME NEW V, NEW a \in Seq(V), NEW b \in Seq(V), NEW c \in Seq(V),
         a \o b = a \o c
  PROVE  b = c
<1>1. Len(b) = Len(c)
  <2>1. Len(a \o b) = Len(a) + Len(b) /\ Len(a \o c) = Len(a) + Len(c)
    OBVIOUS
  <2>2. Len(a \o b) = Len(a \o c)
    OBVIOUS
  <2>3. Len(a) \in Nat /\ Len(b) \in Nat /\ Len(c) \in Nat
    OBVIOUS
  <2> QED  BY <2>1, <2>2, <2>3
<1>2. ASSUME NEW i \in 1..Len(b) PROVE b[i] = c[i]
  <2>1. (a \o b)[Len(a) + i] = b[i]
    OBVIOUS
  <2>2. (a \o c)[Len(a) + i] = c[i]
    BY <1>1
  <2> QED  BY <2>1, <2>2
<1> QED  BY <1>1, <1>2

(* What an expression begins with.                                         *)
LEMMA ExpressionBegins ==
  ASSUME NEW e \in Expressions, NEW u \in Strings
  PROVE  /\ e \in Strings /\ Len(e) >= 1
         /\ e[1] = "(" /\ (e \o u)[1] = "(" /\ Len(e \o u) >= 1
<1>1. PICK label \in Labels, ss \in Seq(Expressions) : e = Text(label, ss)
  BY ExpressionIsText
<1> DEFINE rest == label \o FlattenSeq(ss) \o <<")">>
<1>2. FlattenSeq(ss) \in Strings /\ label \in Strings /\ e \in Strings
  <2>1. Expressions \subseteq Strings
    BY DEF Expressions
  <2>2. ss \in Seq(Strings)
    BY <2>1, SubSequences
  <2> QED  BY <1>1, <2>2, TextIsString, LabelFacts
<1>3. rest \in Strings /\ e = <<"(">> \o rest
  <2>1. rest \in Strings
    BY <1>2, ParenFacts DEF Strings
  <2>2. <<"(">> \o label \o FlattenSeq(ss) = <<"(">> \o (label \o FlattenSeq(ss))
    BY <1>2, ParenFacts DEF Strings
  <2>3. label \o FlattenSeq(ss) \in Strings
    BY <1>2 DEF Strings
  <2>4. (<<"(">> \o (label \o FlattenSeq(ss))) \o <<")">>
          = <<"(">> \o ((label \o FlattenSeq(ss)) \o <<")">>)
    BY <2>3, ParenFacts, Associative DEF Strings
  <2> QED  BY <1>1, <2>1, <2>2, <2>4 DEF Text
<1> HIDE DEF rest
<1>4. Len(e) >= 1 /\ e[1] = "("
  BY <1>3, ParenFacts DEF Strings
<1> QED  BY <1>2, <1>4 DEF Strings

LEMMA FlattenCons ==
  ASSUME NEW V, NEW s \in Seq(V), NEW ss \in Seq(Seq(V))
  PROVE  FlattenSeq(<<s>> \o ss) = s \o FlattenSeq(ss)
<1>1. <<s>> \in Seq(Seq(V))
  OBVIOUS
<1>2. FlattenSeq(<<s>> \o ss) = FlattenSeq(<<s>>) \o FlattenSeq(ss)
  BY <1>1, FlattenCat
<1>3. FlattenSeq(<<s>>) = s
  BY FlattenOne
<1> QED  BY <1>2, <1>3

(* A sequence that is not empty has a first element and others.            *)
Others(ss) == [k \in 1..Len(ss) - 1 |-> ss[k + 1]]

LEMMA Uncons ==
  ASSUME NEW V, NEW ss \in Seq(V), ss # << >>
  PROVE  /\ Others(ss) \in Seq(V) /\ ss[1] \in V /\ Len(ss) \in Nat \ {0}
         /\ Len(Others(ss)) = Len(ss) - 1
         /\ ss = <<ss[1]>> \o Others(ss)
<1>1. Len(ss) \in Nat \ {0} /\ ss[1] \in V
  OBVIOUS
<1>2. Others(ss) \in Seq(V) /\ Len(Others(ss)) = Len(ss) - 1
  BY <1>1 DEF Others
<1>3. ss = <<ss[1]>> \o Others(ss)
  BY <1>1, <1>2 DEF Others
<1> QED  BY <1>1, <1>2, <1>3

(* An expression that no other one, followed by anything, can be read for. *)
ReadOneWay(e) ==
  \A f \in Expressions, u, v \in Strings : e \o u = f \o v => e = f

(* What follows a label in an expression and what follows that.            *)
After(ss, u) == FlattenSeq(ss) \o (<<")">> \o u)

LEMMA AfterFacts ==
  ASSUME NEW ss \in Seq(Expressions), NEW u \in Strings
  PROVE  /\ ss \in Seq(Strings)
         /\ FlattenSeq(ss) \in Strings /\ After(ss, u) \in Strings
         /\ Len(After(ss, u)) >= 1
         /\ ss = << >> => After(ss, u)[1] = ")"
         /\ ss # << >> =>
              /\ After(ss, u)[1] = "("
              /\ After(ss, u) = ss[1] \o After(Others(ss), u)
<1>1. Expressions \subseteq Strings
  BY DEF Expressions
<1>2. ss \in Seq(Strings)
  BY <1>1, SubSequences
<1>3. FlattenSeq(ss) \in Strings
  BY <1>2, FlattenType DEF Strings
<1>4. <<")">> \o u \in Strings /\ (<<")">> \o u)[1] = ")" /\ Len(<<")">> \o u) >= 1
  BY ParenFacts DEF Strings
<1>5. After(ss, u) \in Strings /\ Len(After(ss, u)) >= 1
  BY <1>3, <1>4 DEF After, Strings
<1>6. ASSUME ss = << >> PROVE After(ss, u)[1] = ")"
  <2>1. After(ss, u) = << >> \o (<<")">> \o u)
    BY <1>6, FlattenEmpty DEF After
  <2>2. << >> \o (<<")">> \o u) = <<")">> \o u
    BY <1>4 DEF Strings
  <2> QED  BY <1>4, <2>1, <2>2
<1>7. ASSUME ss # << >>
      PROVE  /\ After(ss, u)[1] = "("
             /\ After(ss, u) = ss[1] \o After(Others(ss), u)
  <2> DEFINE e == ss[1]
             tt == Others(ss)
  <2>1. /\ tt \in Seq(Expressions) /\ e \in Expressions /\ ss = <<e>> \o tt
    BY <1>7, Uncons
  <2> HIDE DEF e, tt
  <2>2. tt \in Seq(Strings) /\ e \in Strings
    BY <1>1, <2>1, SubSequences
  <2>3. FlattenSeq(ss) = e \o FlattenSeq(tt) /\ FlattenSeq(tt) \in Strings
    BY <2>1, <2>2, FlattenCons, FlattenType DEF Strings
  <2>4. (e \o FlattenSeq(tt)) \o (<<")">> \o u)
          = e \o (FlattenSeq(tt) \o (<<")">> \o u))
    <3> DEFINE b == FlattenSeq(tt)
               c == <<")">> \o u
    <3>1. b \in Strings /\ c \in Strings
      BY <1>4, <2>3
    <3> HIDE DEF b, c
    <3>2. (e \o b) \o c = e \o (b \o c)
      BY <2>2, <3>1, Associative DEF Strings
    <3> QED  BY <3>2 DEF b, c
  <2>5. After(tt, u) \in Strings
    BY <1>4, <2>3 DEF After, Strings
  <2>6. After(ss, u) = e \o After(tt, u)
    BY <2>3, <2>4 DEF After
  <2> QED  BY <2>1, <2>5, <2>6, ExpressionBegins DEF e, tt
<1> QED  BY <1>2, <1>3, <1>5, <1>6, <1>7

(* A row of expressions that can be read in one way each can be read in    *)
(* one way.                                                                *)
LEMMA ReadSequence ==
  ASSUME NEW ss \in Seq(Expressions), \A k \in DOMAIN ss : ReadOneWay(ss[k]),
         NEW tt \in Seq(Expressions), NEW u \in Strings, NEW v \in Strings,
         After(ss, u) = After(tt, v)
  PROVE  ss = tt
<1> DEFINE Same(aa, bb) ==
             (\A k \in DOMAIN aa : ReadOneWay(aa[k])) /\ After(aa, u) = After(bb, v)
               => aa = bb
           S == {n \in Nat : \A aa, bb \in Seq(Expressions) :
                               Len(aa) = n => Same(aa, bb)}
<1>1. 0 \in S
  <2>1. ASSUME NEW aa \in Seq(Expressions), NEW bb \in Seq(Expressions),
               Len(aa) = 0, After(aa, u) = After(bb, v)
        PROVE  aa = bb
    <3>1. aa = << >>
      BY <2>1
    <3>2. After(aa, u)[1] = ")"
      BY <3>1, AfterFacts
    <3>3. bb # << >> => After(bb, v)[1] = "("
      BY AfterFacts
    <3> QED  BY <2>1, <3>1, <3>2, <3>3
  <2> QED  BY <2>1
<1>2. ASSUME NEW n \in Nat, n \in S PROVE n + 1 \in S
  <2>1. ASSUME NEW aa \in Seq(Expressions), NEW bb \in Seq(Expressions),
               Len(aa) = n + 1, \A k \in DOMAIN aa : ReadOneWay(aa[k]),
               After(aa, u) = After(bb, v)
        PROVE  aa = bb
    <3>1. aa # << >>
      BY <2>1
    <3>2. After(aa, u)[1] = "(" /\ After(aa, u) = aa[1] \o After(Others(aa), u)
      BY <3>1, AfterFacts
    <3>3. bb # << >>
      <4>1. bb = << >> => After(bb, v)[1] = ")"
        BY AfterFacts
      <4> QED  BY <2>1, <3>2, <4>1
    <3>4. After(bb, v) = bb[1] \o After(Others(bb), v)
      BY <3>3, AfterFacts
    <3>5. /\ Others(aa) \in Seq(Expressions) /\ aa[1] \in Expressions
          /\ Len(Others(aa)) = n /\ aa = <<aa[1]>> \o Others(aa)
          /\ Others(bb) \in Seq(Expressions) /\ bb[1] \in Expressions
          /\ bb = <<bb[1]>> \o Others(bb)
      <4>1. /\ Others(aa) \in Seq(Expressions) /\ aa[1] \in Expressions
            /\ Len(Others(aa)) = n /\ aa = <<aa[1]>> \o Others(aa)
        <5>1. /\ Others(aa) \in Seq(Expressions) /\ aa[1] \in Expressions
              /\ Len(Others(aa)) = Len(aa) - 1 /\ aa = <<aa[1]>> \o Others(aa)
          BY <3>1, Uncons
        <5>2. Len(aa) - 1 = n
          BY <2>1
        <5> QED  BY <5>1, <5>2
      <4>2. /\ Others(bb) \in Seq(Expressions) /\ bb[1] \in Expressions
            /\ bb = <<bb[1]>> \o Others(bb)
        BY <3>3, Uncons
      <4> QED  BY <4>1, <4>2
    <3>6. /\ After(Others(aa), u) \in Strings /\ After(Others(bb), v) \in Strings
          /\ aa[1] \in Strings
      BY <3>5, AfterFacts DEF Expressions
    <3>7. ReadOneWay(aa[1])
      BY <2>1, <3>1
    <3>8. aa[1] = bb[1]
      BY <2>1, <3>2, <3>4, <3>5, <3>6, <3>7 DEF ReadOneWay
    <3>9. After(Others(aa), u) = After(Others(bb), v)
      BY <2>1, <3>2, <3>4, <3>6, <3>8, CancelLeft DEF Strings
    <3>10. \A k \in DOMAIN Others(aa) : ReadOneWay(Others(aa)[k])
      BY <2>1 DEF Others
    <3>11. Others(aa) = Others(bb)
      BY <1>2, <3>5, <3>9, <3>10
    <3> QED  BY <3>5, <3>8, <3>11
  <2> HIDE DEF Same
  <2>2. ASSUME NEW aa \in Seq(Expressions), NEW bb \in Seq(Expressions),
               Len(aa) = n + 1
        PROVE  Same(aa, bb)
    BY <2>1, <2>2 DEF Same
  <2> QED  BY <2>2
<1> HIDE DEF S
<1>3. Len(ss) \in S
  BY <1>1, <1>2, Induction
<1> QED  BY <1>3 DEF S

(* Concatenation, for the provers not to look into.                        *)
Cat(a, b) == a \o b

LEMMA CatFacts ==
  /\ \A a, b \in Strings : Cat(a, b) \in Strings
  /\ \A a, b, c \in Strings : Cat(Cat(a, b), c) = Cat(a, Cat(b, c))
BY Associative DEF Strings, Cat

LEMMA Reassociated ==
  ASSUME NEW p \in Strings, NEW l \in Strings, NEW b \in Strings,
         NEW q \in Strings, NEW u \in Strings
  PROVE  /\ (((p \o l) \o b) \o q) \o u = p \o (l \o (b \o (q \o u)))
         /\ ((p \o l) \o b) \o q \in Strings
<1>1. /\ Cat(p, l) \in Strings /\ Cat(Cat(p, l), b) \in Strings
      /\ Cat(Cat(Cat(p, l), b), q) \in Strings
      /\ Cat(q, u) \in Strings /\ Cat(b, Cat(q, u)) \in Strings
  BY CatFacts
<1>2. Cat(Cat(Cat(Cat(p, l), b), q), u) = Cat(Cat(Cat(p, l), b), Cat(q, u))
  BY <1>1, CatFacts
<1>3. Cat(Cat(Cat(p, l), b), Cat(q, u)) = Cat(Cat(p, l), Cat(b, Cat(q, u)))
  BY <1>1, CatFacts
<1>4. Cat(Cat(p, l), Cat(b, Cat(q, u))) = Cat(p, Cat(l, Cat(b, Cat(q, u))))
  BY <1>1, CatFacts
<1>5. /\ Cat(Cat(Cat(Cat(p, l), b), q), u) = Cat(p, Cat(l, Cat(b, Cat(q, u))))
      /\ Cat(Cat(Cat(p, l), b), q) \in Strings
  BY <1>1, <1>2, <1>3, <1>4
<1> QED  BY <1>5, Zenon DEF Cat

(* What follows the parenthesis that opens an expression.                  *)
LEMMA TextParts ==
  ASSUME NEW label \in Labels, NEW ss \in Seq(Expressions), NEW u \in Strings
  PROVE  /\ Text(label, ss) \o u = <<"(">> \o (label \o After(ss, u))
         /\ label \in Strings /\ After(ss, u) \in Strings
         /\ Text(label, ss) \in Strings
<1> DEFINE b == FlattenSeq(ss)
           p == <<"(">>
           q == <<")">>
<1>1. /\ label \in Strings /\ b \in Strings /\ p \in Strings /\ q \in Strings
      /\ After(ss, u) = b \o (q \o u) /\ After(ss, u) \in Strings
      /\ Text(label, ss) = ((p \o label) \o b) \o q
  BY LabelFacts, AfterFacts, ParenFacts DEF After, Text
<1> HIDE DEF b, p, q
<1>2. /\ (((p \o label) \o b) \o q) \o u = p \o (label \o (b \o (q \o u)))
      /\ ((p \o label) \o b) \o q \in Strings
  <2>1. /\ label \in Strings /\ b \in Strings /\ p \in Strings /\ q \in Strings
        /\ u \in Strings
    BY <1>1
  <2> QED  BY ONLY <2>1, Reassociated
<1> QED  BY <1>1, <1>2, Zenon DEF p

(* A label ends at the first parenthesis.                                  *)
LEMMA ReadLabel ==
  ASSUME NEW label \in Labels, NEW other \in Labels,
         NEW a \in Strings, NEW b \in Strings,
         Len(a) >= 1, Len(b) >= 1, a[1] \in {"(", ")"}, b[1] \in {"(", ")"},
         label \o a = other \o b
  PROVE  label = other /\ a = b
<1>1. label \in Strings /\ other \in Strings
  BY LabelFacts
<1>2. ASSUME NEW l \in Labels, NEW m \in Labels, NEW c \in Strings,
             NEW d \in Strings, Len(c) >= 1, Len(d) >= 1, c[1] \in {"(", ")"},
             l \o c = m \o d
      PROVE  Len(l) >= Len(m)
  <2>1. l \in Strings /\ m \in Strings /\ Len(l) \in Nat /\ Len(m) \in Nat
    BY LabelFacts DEF Strings
  <2>2. SUFFICES ASSUME Len(l) < Len(m) PROVE FALSE
    BY <2>1
  <2> DEFINE i == Len(l) + 1
  <2>3. (l \o c)[i] = c[1]
    <3>1. /\ l \in Seq(Tokens) /\ c \in Seq(Tokens) /\ Len(c) \in Nat
          /\ Len(l) + 1 \in 1..Len(l) + Len(c) /\ (Len(l) + 1) - Len(l) = 1
      BY <1>2, <2>1 DEF Strings
    <3>2. \A k \in Len(l) + 1..Len(l) + Len(c) : (l \o c)[k] = c[k - Len(l)]
      BY <3>1
    <3> QED  BY <3>1, <3>2
  <2>4. i \in DOMAIN m /\ (m \o d)[i] = m[i]
    BY <2>1, <2>2 DEF Strings
  <2>5. m[i] \notin {"(", ")"}
    BY <2>4, LabelFacts
  <2> QED  BY <1>2, <2>3, <2>4, <2>5
<1>3. Len(label) >= Len(other)
  BY <1>2
<1>4. Len(other) >= Len(label)
  BY <1>2
<1>5. Len(label) = Len(other) /\ Len(label) \in Nat
  BY <1>1, <1>3, <1>4 DEF Strings
<1>6. ASSUME NEW k \in 1..Len(label) PROVE label[k] = other[k]
  <2>1. (label \o a)[k] = label[k] /\ (other \o b)[k] = other[k]
    BY <1>1, <1>5 DEF Strings
  <2> QED  BY <2>1
<1>7. label = other
  BY <1>1, <1>5, <1>6 DEF Strings
<1> QED  BY <1>1, <1>7, CancelLeft DEF Strings

Forests == Seq(Expressions)

AllReadOneWay(ss) == \A k \in DOMAIN ss : ReadOneWay(ss[k])

(* A text is read in one way if what follows the label is.                 *)
LEMMA ReadText ==
  ASSUME NEW label \in Labels, NEW ss \in Forests, NEW u \in Strings,
         NEW other \in Labels, NEW tt \in Forests, NEW v \in Strings,
         AllReadOneWay(ss),
         Cat(Text(label, ss), u) = Cat(Text(other, tt), v)
  PROVE  label = other /\ ss = tt
<1> USE DEF Forests
<1>0. Text(label, ss) \o u = Text(other, tt) \o v
  BY DEF Cat
<1>1. /\ <<"(">> \o (label \o After(ss, u)) = <<"(">> \o (other \o After(tt, v))
      /\ label \in Strings /\ After(ss, u) \in Strings
      /\ other \in Strings /\ After(tt, v) \in Strings
  BY <1>0, TextParts
<1>2. label \o After(ss, u) \in Strings /\ other \o After(tt, v) \in Strings
  BY <1>1 DEF Strings
<1>3. label \o After(ss, u) = other \o After(tt, v)
  BY <1>1, <1>2, ParenFacts, CancelLeft DEF Strings
<1>4. /\ Len(After(ss, u)) >= 1 /\ After(ss, u)[1] \in {"(", ")"}
      /\ Len(After(tt, v)) >= 1 /\ After(tt, v)[1] \in {"(", ")"}
  BY AfterFacts
<1>5. label = other /\ After(ss, u) = After(tt, v)
  <2> DEFINE a == After(ss, u)
             b == After(tt, v)
  <2>1. /\ a \in Strings /\ b \in Strings /\ label \o a = other \o b
        /\ Len(a) >= 1 /\ Len(b) >= 1 /\ a[1] \in {"(", ")"} /\ b[1] \in {"(", ")"}
    BY <1>1, <1>3, <1>4
  <2> HIDE DEF a, b
  <2>2. label = other /\ a = b
    BY <2>1, ReadLabel
  <2> QED  BY <2>2 DEF a, b
<1> QED  BY <1>5, ReadSequence DEF AllReadOneWay

(* Expressions are read in one way: none begins another.                   *)
LEMMA TextIsReadOneWay ==
  ASSUME NEW label \in Labels, NEW ss \in Forests, AllReadOneWay(ss)
  PROVE  ReadOneWay(Text(label, ss))
<1> SUFFICES ASSUME NEW f \in Expressions, NEW u \in Strings, NEW v \in Strings,
                    Text(label, ss) \o u = f \o v
             PROVE  Text(label, ss) = f
  BY DEF ReadOneWay
<1>1. PICK other \in Labels, tt \in Forests : f = Text(other, tt)
  BY ExpressionIsText DEF Forests
<1>2. Cat(Text(label, ss), u) = Cat(Text(other, tt), v)
  BY <1>1 DEF Cat
<1>3. other \in Labels /\ tt \in Forests
  BY <1>1
<1>4. label = other /\ ss = tt
  BY <1>2, <1>3, ReadText
<1> QED  BY <1>1, <1>4

(* Every expression is read in one way.                                    *)
THEOREM ExpressionsAreReadOneWay ==
  ASSUME NEW e \in Expressions
  PROVE  ReadOneWay(e)
<1> DEFINE S == {f \in Expressions : ReadOneWay(f)}
<1>1. S \in SUBSET Expressions /\ \A f \in S : ReadOneWay(f)
  OBVIOUS
<1>2. ASSUME NEW label \in Labels, NEW ss \in Seq(S)
      PROVE  Text(label, ss) \in S
  <2> HIDE DEF S
  <2>1. ss \in Seq(Expressions) /\ \A k \in DOMAIN ss : ss[k] \in S
    BY <1>1, SubSequences
  <2>2. Text(label, ss) \in Expressions
    BY <2>1, ExpressionsClosed
  <2>3. ReadOneWay(Text(label, ss))
    BY <1>1, <2>1, TextIsReadOneWay DEF AllReadOneWay, Forests
  <2> QED  BY <2>2, <2>3 DEF S
<1> HIDE DEF S
<1>3. ClosedUnderText(S)
  BY <1>2 DEF ClosedUnderText
<1>4. S = Expressions
  BY <1>1, <1>3, ExpressionInduction
<1> QED  BY <1>1, <1>4

(* So the label and the texts in an expression are its own.                *)
LEMMA TextIsOneToOne ==
  ASSUME NEW label \in Labels, NEW ss \in Forests,
         NEW other \in Labels, NEW tt \in Forests,
         Text(label, ss) = Text(other, tt)
  PROVE  label = other /\ ss = tt
<1>1. AllReadOneWay(ss)
  BY ExpressionsAreReadOneWay DEF AllReadOneWay, Forests
<1>2. << >> \in Strings
  BY ParenFacts
<1>3. Cat(Text(label, ss), << >>) = Cat(Text(other, tt), << >>)
  OBVIOUS
<1> QED  BY <1>1, <1>2, <1>3, ReadText, Zenon

(* None is a strict prefix of another.                                     *)
LEMMA ForestsAreStrings ==
  Forests \subseteq Seq(Strings)
<1>1. Expressions \subseteq Strings
  BY DEF Expressions
<1> QED  BY <1>1, SubSequences DEF Forests

-----------------------------------------------------------------------------
(* Balanced texts: LEVEL_TWO also has the names of fields between the      *)
(* texts in parentheses, so what counts is how deep one is in them.        *)

(* d tells how deep one is after every token of s, which ends where it     *)
(* began.                                                                  *)
Turn(x) == IF x = "(" THEN 1 ELSE IF x = ")" THEN 0 - 1 ELSE 0
Nests(s, d) ==
  /\ d \in [0..Len(s) -> Nat] /\ d[0] = 0 /\ d[Len(s)] = 0
  /\ \A i \in 1..Len(s) : d[i] = d[i - 1] + Turn(s[i])

(* What may be within parentheses, and what is in one pair of them.        *)
Inners == {s \in Strings : \E d : Nests(s, d)}
Balanced ==
  {s \in Strings : /\ Len(s) >= 1
                   /\ \E d : Nests(s, d) /\ \A i \in 1..Len(s) - 1 : d[i] >= 1}

(* A row of texts after a label, in parentheses.                           *)
Enclosed(label, row) == ((<<"(">> \o label) \o row) \o <<")">>

LEMMA InnerCat ==
  ASSUME NEW a \in Inners, NEW b \in Inners
  PROVE  a \o b \in Inners
<1>1. PICK da : Nests(a, da)
  BY DEF Inners
<1>2. PICK db : Nests(b, db)
  BY DEF Inners
<1>3. /\ a \o b \in Strings /\ Len(a \o b) = Len(a) + Len(b)
      /\ Len(a) \in Nat /\ Len(b) \in Nat
      /\ \A i \in 1..Len(a) : (a \o b)[i] = a[i]
      /\ \A i \in 1..Len(b) : (a \o b)[Len(a) + i] = b[i]
  BY DEF Inners, Strings
<1> DEFINE d == [i \in 0..Len(a) + Len(b) |->
                   IF i <= Len(a) THEN da[i] ELSE db[i - Len(a)]]
<1>4. d \in [0..Len(a) + Len(b) -> Nat]
  BY <1>1, <1>2, <1>3 DEF Nests
<1>5. d[0] = 0 /\ d[Len(a) + Len(b)] = 0
  BY <1>1, <1>2, <1>3 DEF Nests
<1>6. ASSUME NEW i \in 1..Len(a) + Len(b)
      PROVE  d[i] = d[i - 1] + Turn((a \o b)[i])
  <2>1. CASE i <= Len(a)
    <3>1. d[i] = da[i] /\ d[i - 1] = da[i - 1] /\ (a \o b)[i] = a[i] /\ i \in 1..Len(a)
      BY <1>3, <2>1
    <3> QED  BY <1>1, <3>1 DEF Nests
  <2>2. CASE ~(i <= Len(a))
    <3> DEFINE k == i - Len(a)
    <3>1. k \in 1..Len(b) /\ i = Len(a) + k
      BY <1>3, <2>2
    <3>2. d[i] = db[k] /\ d[i - 1] = db[k - 1]
      BY <1>1, <1>2, <1>3, <2>2, <3>1 DEF Nests
    <3>3. (a \o b)[i] = b[k]
      <4> HIDE DEF k
      <4> QED  BY <1>3, <3>1
    <3> HIDE DEF k, d
    <3> QED  BY <1>2, <3>1, <3>2, <3>3 DEF Nests
  <2> QED  BY <2>1, <2>2
<1> HIDE DEF d
<1>7. Nests(a \o b, d)
  BY <1>3, <1>4, <1>5, <1>6 DEF Nests
<1> QED  BY <1>3, <1>7 DEF Inners

LEMMA InnerFacts ==
  /\ Inners \subseteq Strings /\ << >> \in Inners /\ Balanced \subseteq Inners
  /\ Labels \subseteq Inners
<1>1. ASSUME NEW label \in Labels PROVE label \in Inners
  <2> DEFINE d == [i \in 0..Len(label) |-> 0]
  <2>1. label \in Strings /\ Len(label) \in Nat
        /\ \A k \in 1..Len(label) : Turn(label[k]) = 0
    BY LabelFacts DEF Strings, Turn
  <2>2. /\ d \in [0..Len(label) -> Nat]
        /\ \A i \in 0..Len(label) : d[i] = 0
    OBVIOUS
  <2> HIDE DEF d
  <2>3. Nests(label, d)
    BY <2>1, <2>2 DEF Nests
  <2> QED  BY <2>1, <2>3 DEF Inners
<1>2. << >> \in Labels
  BY DEF Labels
<1> QED  BY <1>1, <1>2 DEF Inners, Balanced

LEMMA InnersInARow ==
  ASSUME NEW ss \in Seq(Inners)
  PROVE  FlattenSeq(ss) \in Inners
<1> DEFINE S == {n \in Nat : \A tt \in Seq(Inners) :
                               Len(tt) = n => FlattenSeq(tt) \in Inners}
<1>1. 0 \in S
  <2>1. ASSUME NEW tt \in Seq(Inners), Len(tt) = 0 PROVE FlattenSeq(tt) \in Inners
    <3>1. tt = << >>
      BY <2>1
    <3> QED  BY <3>1, FlattenEmpty, InnerFacts
  <2> QED  BY <2>1
<1>2. ASSUME NEW n \in Nat, n \in S PROVE n + 1 \in S
  <2>1. ASSUME NEW tt \in Seq(Inners), Len(tt) = n + 1
        PROVE  FlattenSeq(tt) \in Inners
    <3> DEFINE uu == ButLast(tt, n)
               x == tt[n + 1]
    <3>1. /\ uu \in Seq(Inners) /\ x \in Inners /\ Len(uu) = n /\ tt = Append(uu, x)
      BY <2>1, Unappend
    <3> HIDE DEF uu, x
    <3>2. uu \in Seq(Seq(Tokens)) /\ x \in Seq(Tokens)
      <4>1. Inners \subseteq Seq(Tokens)
        BY InnerFacts DEF Strings
      <4> QED  BY <3>1, <4>1, SubSequences
    <3>3. FlattenSeq(tt) = FlattenSeq(uu) \o x
      BY <3>1, <3>2, FlattenAppend
    <3>4. FlattenSeq(uu) \in Inners
      BY <1>2, <3>1
    <3>5. FlattenSeq(uu) \o x \in Inners
      BY <3>1, <3>4, InnerCat, Zenon
    <3> QED  BY <3>3, <3>5
  <2> QED  BY <2>1
<1> HIDE DEF S
<1>3. Len(ss) \in S
  BY <1>1, <1>2, Induction
<1> QED  BY <1>3 DEF S

LEMMA Surrounded ==
  ASSUME NEW a \in Inners
  PROVE  (<<"(">> \o a) \o <<")">> \in Balanced
<1>1. PICK da : Nests(a, da)
  BY DEF Inners
<1> DEFINE s == (<<"(">> \o a) \o <<")">>
           d == [i \in 0..Len(a) + 2 |->
                   IF i = 0 \/ i = Len(a) + 2 THEN 0 ELSE da[i - 1] + 1]
<1>2. /\ s \in Strings /\ Len(s) = Len(a) + 2 /\ Len(a) \in Nat
      /\ s[1] = "(" /\ s[Len(a) + 2] = ")"
      /\ \A i \in 2..Len(a) + 1 : s[i] = a[i - 1]
  BY ParenFacts DEF Inners, Strings
<1>3. /\ da \in [0..Len(a) -> Nat] /\ da[0] = 0 /\ da[Len(a)] = 0
      /\ \A i \in 1..Len(a) : da[i] = da[i - 1] + Turn(a[i])
  BY <1>1 DEF Nests
<1>4. /\ d[0] = 0 /\ d[Len(a) + 2] = 0 /\ d \in [0..Len(a) + 2 -> Nat]
      /\ \A i \in 1..Len(a) + 1 : d[i] = da[i - 1] + 1 /\ d[i] >= 1
  <2>1. ASSUME NEW i \in 1..Len(a) + 1
        PROVE  da[i - 1] \in Nat /\ d[i] = da[i - 1] + 1 /\ d[i] >= 1
    <3>1. i - 1 \in 0..Len(a) /\ i # 0 /\ i # Len(a) + 2 /\ i \in 0..Len(a) + 2
      BY <1>2
    <3>2. da[i - 1] \in Nat
      BY <1>3, <3>1
    <3> QED  BY <3>1, <3>2
  <2>2. d[0] = 0 /\ d[Len(a) + 2] = 0
    BY <1>2
  <2>3. ASSUME NEW i \in 0..Len(a) + 2 PROVE d[i] \in Nat
    <3>1. CASE i = 0 \/ i = Len(a) + 2
      BY <1>2, <3>1
    <3>2. CASE i \in 1..Len(a) + 1
      <4> HIDE DEF d
      <4> QED  BY <2>1, <3>2
    <3> QED  BY <1>2, <3>1, <3>2
  <2>4. d = [i \in 0..Len(a) + 2 |-> d[i]]
    OBVIOUS
  <2> HIDE DEF d
  <2> QED  BY <2>1, <2>2, <2>3, <2>4
<1> HIDE DEF d, s
<1>5. ASSUME NEW i \in 1..Len(a) + 2 PROVE d[i] = d[i - 1] + Turn(s[i])
  <2>1. CASE i = 1
    BY <1>2, <1>3, <1>4, <2>1 DEF Turn
  <2>2. CASE i = Len(a) + 2
    <3>1. d[i - 1] = 1 /\ d[i] = 0 /\ Turn(s[i]) = 0 - 1
      <4>1. i - 1 = Len(a) + 1 /\ (Len(a) + 1) - 1 = Len(a)
        BY <1>2, <2>2
      <4>2. d[Len(a) + 1] = 1
        BY <1>2, <1>3, <1>4, <4>1
      <4> QED  BY <1>2, <1>4, <2>2, <4>1, <4>2 DEF Turn
    <3> QED  BY <3>1
  <2>3. CASE i \in 2..Len(a) + 1
    <3> DEFINE k == i - 1
    <3>1. k \in 1..Len(a) /\ s[i] = a[k] /\ d[i] = da[k] + 1 /\ d[i - 1] = da[k - 1] + 1
      BY <1>2, <1>4, <2>3
    <3>2. da[k] = da[k - 1] + Turn(a[k]) /\ da[k] \in Nat /\ da[k - 1] \in Nat
      BY <1>2, <1>3, <3>1
    <3> HIDE DEF k
    <3> QED  BY <3>1, <3>2 DEF Turn
  <2> QED  BY <1>2, <2>1, <2>2, <2>3
<1>6. Nests(s, d)
  BY <1>2, <1>4, <1>5 DEF Nests
<1>7. \A i \in 1..Len(s) - 1 : d[i] >= 1
  BY <1>2, <1>4
<1>8. s \in Balanced
  BY <1>2, <1>6, <1>7 DEF Balanced
<1> QED  BY <1>8 DEF s

LEMMA EnclosedIsBalanced ==
  ASSUME NEW label \in Labels, NEW row \in Inners
  PROVE  Enclosed(label, row) \in Balanced
<1>1. label \in Inners /\ label \o row \in Inners
  BY InnerFacts, InnerCat
<1>2. (<<"(">> \o (label \o row)) \o <<")">> \in Balanced
  BY <1>1, Surrounded
<1>3. (<<"(">> \o label) \o row = <<"(">> \o (label \o row)
  <2>1. <<"(">> \in Seq(Tokens) /\ label \in Seq(Tokens) /\ row \in Seq(Tokens)
    BY <1>1, ParenFacts DEF Inners, Strings
  <2> QED  BY <2>1, Associative
<1> QED  BY <1>2, <1>3 DEF Enclosed

(* None is a strict prefix of another: there it would have ended.          *)
LEMMA NoBalancedBeginsAnother ==
  ASSUME NEW e \in Balanced, NEW f \in Balanced
  PROVE  ~IsStrictPrefix(e, f)
<1>1. SUFFICES ASSUME IsStrictPrefix(e, f) PROVE FALSE
  OBVIOUS
<1>2. e \in Seq(Tokens) /\ f \in Seq(Tokens) /\ Len(e) \in Nat /\ Len(f) \in Nat
      /\ Len(e) >= 1
  BY DEF Balanced, Strings
<1>3. /\ Len(e) <= Len(f) /\ e # f
      /\ SubSeq(e, 1, Len(e)) = SubSeq(f, 1, Len(e))
  BY <1>1 DEF IsStrictPrefix, IsPrefix
<1>4. \A k \in 1..Len(e) : e[k] = f[k]
  BY <1>2, <1>3
<1>5. Len(e) < Len(f)
  <2>1. Len(e) # Len(f)
    BY <1>2, <1>3, <1>4, SeqEqual
  <2> QED  BY <1>2, <1>3, <2>1
<1>6. PICK d : Nests(e, d)
  BY DEF Balanced
<1>7. PICK g : Nests(f, g) /\ \A i \in 1..Len(f) - 1 : g[i] >= 1
  BY DEF Balanced
<1> DEFINE S == {n \in Nat : n <= Len(e) => d[n] = g[n]}
<1>8. 0 \in S
  BY <1>6, <1>7 DEF Nests
<1>9. ASSUME NEW n \in Nat, n \in S PROVE n + 1 \in S
  <2>1. SUFFICES ASSUME n + 1 <= Len(e) PROVE d[n + 1] = g[n + 1]
    OBVIOUS
  <2>2. n + 1 \in 1..Len(e) /\ n + 1 \in 1..Len(f) /\ (n + 1) - 1 = n /\ d[n] = g[n]
    BY <1>2, <1>3, <1>9, <2>1
  <2>3. d[n + 1] = d[n] + Turn(e[n + 1]) /\ g[n + 1] = g[n] + Turn(f[n + 1])
    BY <1>6, <1>7, <2>2 DEF Nests
  <2> QED  BY <1>4, <2>2, <2>3
<1> HIDE DEF S
<1>10. Len(e) \in S
  BY <1>2, <1>8, <1>9, Induction
<1>11. d[Len(e)] = g[Len(e)] /\ d[Len(e)] = 0
  BY <1>2, <1>6, <1>10 DEF S, Nests
<1>12. g[Len(e)] >= 1
  <2>1. Len(e) \in 1..Len(f) - 1
    BY <1>2, <1>5
  <2> QED  BY <1>7, <2>1
<1> QED  BY <1>11, <1>12

(* A word alone.                                                           *)
Words == Tokens \ {"(", ")"}

LEMMA WordsAreLabels ==
  /\ Labels = Seq(Words) /\ << >> \in Labels
  /\ \A x \in Words : <<x>> \in Labels
  /\ \A x \in Words, y \in Words : <<x>> \o <<y>> = <<x, y>> /\ <<x, y>> \in Labels
<1>1. \A x \in Words : <<x>> \in Labels
  BY DEF Labels, Words
<1>2. ASSUME NEW x \in Words, NEW y \in Words
      PROVE  <<x>> \o <<y>> = <<x, y>> /\ <<x, y>> \in Labels
  <2>1. <<x>> \o <<y>> = <<x, y>>
    <3> DEFINE z == <<x>> \o <<y>>
    <3>1. z \in Seq(Words) /\ Len(z) = 2 /\ z[1] = x /\ z[2] = y
      OBVIOUS
    <3> HIDE DEF z
    <3>2. z = <<x, y>>
      BY <3>1
    <3> QED  BY <3>2 DEF z
  <2>2. <<x, y>> \in Labels
    BY DEF Labels, Words
  <2> QED  BY <2>1, <2>2
<1> QED  BY <1>1, <1>2 DEF Labels, Words

LEMMA WordIsBalanced ==
  ASSUME NEW x \in Words
  PROVE  /\ <<"(", x>> \o Close \in Balanced
         /\ <<"(", x>> = <<"(">> \o <<x>>
<1>1. <<x>> \in Labels
  BY WordsAreLabels
<1>2. <<"(", x>> = <<"(">> \o <<x>>
  OBVIOUS
<1>3. <<x>> \in Strings /\ (<<"(">> \o <<x>>) \o << >> = <<"(">> \o <<x>>
  BY ParenFacts DEF Words, Strings
<1>4. Enclosed(<<x>>, << >>) \in Balanced
  BY <1>1, InnerFacts, EnclosedIsBalanced
<1>5. Enclosed(<<x>>, << >>) = <<"(", x>> \o Close
  BY <1>2, <1>3 DEF Enclosed, Close
<1> QED  BY <1>2, <1>4, <1>5

-----------------------------------------------------------------------------
(* The lines of the dump are expressions.                                  *)

LEMMA NodeWords ==
  ASSUME NEW n \in Trees
  PROVE  /\ n.type \in Words /\ n.op \in Words
         /\ n.field \in Words /\ n.unexpected \in Words
         /\ \A k \in DOMAIN n.inserted : n.inserted[k] \in Seq(Words)
         /\ {"binary_expression", "=", "non_terminal_expression", "argument",
             "identifier", "field", "field_identifier", "parenthesized_expression",
             "condition_clause", "MISSING", "UNEXPECTED"} \subseteq Words
<1>1. {n.type, n.op, n.field, n.unexpected}
        \cup UNION {Range(n.inserted[k]) : k \in DOMAIN n.inserted} \subseteq Words
  BY TreesAssumption DEF Words
<1>2. ASSUME NEW k \in DOMAIN n.inserted PROVE n.inserted[k] \in Seq(Words)
  <2>1. n.inserted[k] \in Seq(Tokens)
    BY NodeFacts
  <2>2. Range(n.inserted[k]) \subseteq Words
    BY <1>1
  <2>3. \A i \in DOMAIN n.inserted[k] : n.inserted[k][i] \in Words
    BY <2>2 DEF Range
  <2> QED  BY <2>1, <2>3
<1>3. {"binary_expression", "=", "non_terminal_expression", "argument",
       "identifier", "field", "field_identifier", "parenthesized_expression",
       "condition_clause", "MISSING", "UNEXPECTED"} \subseteq Words
  BY TokensAssumption DEF Words
<1> QED  BY <1>1, <1>2, <1>3

LEMMA LabelIsLabel ==
  ASSUME NEW n \in Trees
  PROVE  /\ Label(n) \in Labels /\ <<n.type>> \in Labels
         /\ MinLabel(n) \in Labels /\ FieldToString(n) \in Labels
<1>1. /\ <<n.type>> \in Labels /\ <<n.type, n.op>> \in Labels
      /\ <<n.type>> \o <<n.op>> = <<n.type, n.op>>
      /\ <<n.type>> \o << >> = <<n.type>>
      /\ <<"binary_expression", "=">> \in Labels
  BY NodeWords, WordsAreLabels
<1>2. <<n.type>> \o OpToString(n) \in Labels
  BY <1>1 DEF OpToString
<1>3. MinLabel(n) \in Labels
  <2>1. <<"MISSING", n.type>> \in Labels /\ <<"UNEXPECTED", n.unexpected>> \in Labels
    BY NodeWords, WordsAreLabels
  <2> QED  BY <1>1, <2>1, NodeFacts DEF MinLabel
<1>4. FieldToString(n) \in Labels
  BY NodeWords, WordsAreLabels DEF FieldToString
<1> QED  BY <1>1, <1>2, <1>3, <1>4 DEF Label

LEMMA JoinedIs ==
  ASSUME NEW label \in Labels, NEW ss \in Seq(Strings)
  PROVE  FlattenSeq(<< <<"(">> \o label >> \o ss \o << Close >>) = Text(label, ss)
<1>1. PICK a \in Strings : a = <<"(">> \o label
  <2>1. <<"(">> \o label \in Strings
    BY LabelFacts, ParenFacts DEF Strings
  <2> QED  BY <2>1
<1>2. Close \in Strings /\ Close = <<")">>
  BY ParenFacts DEF Close
<1>3. << a >> \in Seq(Seq(Tokens)) /\ ss \in Seq(Seq(Tokens))
      /\ << a >> \o ss \in Seq(Seq(Tokens)) /\ << Close >> \in Seq(Seq(Tokens))
  BY <1>1, <1>2 DEF Strings
<1>4. FlattenSeq(<< a >> \o ss) = a \o FlattenSeq(ss)
  BY <1>1, <1>3, FlattenCons DEF Strings
<1>5. FlattenSeq((<< a >> \o ss) \o << Close >>)
        = FlattenSeq(<< a >> \o ss) \o FlattenSeq(<< Close >>)
  BY <1>3, FlattenCat
<1>6. FlattenSeq(<< Close >>) = Close
  BY <1>2, FlattenOne DEF Strings
<1> QED  BY <1>1, <1>2, <1>4, <1>5, <1>6 DEF Text

LEMMA BelowSeq ==
  ASSUME NEW V, NEW f, \A m \in Trees : f[m] \in V, NEW n \in Trees
  PROVE  Below(f, n) \in Seq(V)
<1>1. /\ n.children \in Seq(Trees)
      /\ \A k \in DOMAIN n.children : n.children[k] \in Trees
  BY TreeFacts
<1>2. \A k \in DOMAIN n.children : f[n.children[k]] \in V
  BY <1>1
<1> QED  BY <1>1, <1>2 DEF Below

(* What is an expression for a tree if it is for its children.             *)
LEMMA AllAreExpressions ==
  ASSUME NEW f, NEW label,
         \A n \in Trees : /\ label[n] \in Labels
                          /\ Below(f, n) \in Seq(Strings)
                          /\ f[n] = Text(label[n], Below(f, n))
  PROVE  \A n \in Trees : f[n] \in Expressions /\ Below(f, n) \in Forests
<1> DEFINE S == {n \in Trees : f[n] \in Expressions}
<1>1. ASSUME NEW n \in Trees, \A k \in DOMAIN n.children : n.children[k] \in S
      PROVE  Below(f, n) \in Seq(Expressions)
  BY <1>1, TreeFacts DEF Below
<1>2. ASSUME NEW n \in Trees, \A k \in DOMAIN n.children : n.children[k] \in S
      PROVE  n \in S
  BY <1>1, <1>2, ExpressionsClosed
<1> HIDE DEF S
<1>3. \A n \in Trees : n \in S
  BY <1>2, TreeInduction
<1>4. ASSUME NEW n \in Trees PROVE Below(f, n) \in Forests
  BY <1>1, <1>3, TreeFacts DEF Forests
<1> QED  BY <1>3, <1>4 DEF S

(* LEVEL_ONE is an expression, and its label and what is below it are      *)
(* those of the node.                                                      *)
LEMMA LevelOneIsExpression ==
  ASSUME NEW n \in Trees
  PROVE  /\ LevelOne[n] = Text(Label(n), Below(LevelOne, n))
         /\ LevelOne[n] \in Expressions /\ Below(LevelOne, n) \in Forests
<1> DEFINE label == [m \in Trees |-> Label(m)]
<1>1. ASSUME NEW m \in Trees
      PROVE  /\ label[m] \in Labels /\ label[m] = Label(m)
             /\ Below(LevelOne, m) \in Seq(Strings)
             /\ LevelOne[m] = Text(label[m], Below(LevelOne, m))
  <2>1. label[m] \in Labels /\ label[m] = Label(m)
    BY LabelIsLabel
  <2>2. Below(LevelOne, m) \in Seq(Strings)
    BY LevelOneIs, BelowSeq
  <2> HIDE DEF label
  <2>3. LevelOne[m] = Text(Label(m), Below(LevelOne, m))
    BY <2>1, <2>2, LevelOneIs, JoinedIs
  <2> QED  BY <2>1, <2>2, <2>3
<1> HIDE DEF label
<1>2. LevelOne[n] \in Expressions /\ Below(LevelOne, n) \in Forests
  BY <1>1, AllAreExpressions
<1> QED  BY <1>1, <1>2

LEMMA LevelOneIsBalanced ==
  ASSUME NEW n \in Trees
  PROVE  LevelOne[n] \in Balanced
<1> DEFINE S == {t \in Trees : LevelOne[t] \in Balanced}
<1>1. ASSUME NEW m \in Trees, \A k \in DOMAIN m.children : m.children[k] \in S
      PROVE  m \in S
  <2>1. Below(LevelOne, m) \in Seq(Inners)
    BY <1>1, TreeFacts, InnerFacts DEF Below
  <2>2. Enclosed(Label(m), FlattenSeq(Below(LevelOne, m))) \in Balanced
    BY <2>1, InnersInARow, LabelIsLabel, EnclosedIsBalanced
  <2> QED  BY <2>2, LevelOneIsExpression DEF Enclosed, Text
<1> HIDE DEF S
<1>2. n \in S
  BY <1>1, TreeInduction
<1> QED  BY <1>2 DEF S

LEMMA InsertedIsInner ==
  ASSUME NEW tokens \in Seq(Words)
  PROVE  InsertedToString(tokens) \in Inners
<1> DEFINE ss == [i \in DOMAIN tokens |-> <<"(", "MISSING", tokens[i], ")">>]
<1>1. ASSUME NEW i \in DOMAIN tokens PROVE ss[i] \in Inners
  <2>1. PICK x \in Words : x = tokens[i]
    OBVIOUS
  <2>2. "MISSING" \in Words
    BY TokensAssumption DEF Words
  <2>3. Enclosed(<<"MISSING", x>>, << >>) \in Balanced
    BY <2>2, WordsAreLabels, InnerFacts, EnclosedIsBalanced
  <2>4. Enclosed(<<"MISSING", x>>, << >>) = <<"(", "MISSING", x, ")">>
    <3> DEFINE z == ((<<"(">> \o <<"MISSING", x>>) \o << >>) \o <<")">>
    <3>1. /\ z \in Seq(Tokens) /\ Len(z) = 4 /\ z[1] = "(" /\ z[2] = "MISSING"
          /\ z[3] = x /\ z[4] = ")"
      BY TokensAssumption DEF Words
    <3> HIDE DEF z
    <3>2. z = <<"(", "MISSING", x, ")">>
      BY <3>1
    <3> QED  BY <3>2 DEF z, Enclosed
  <2> QED  BY <2>1, <2>3, <2>4, InnerFacts
<1>2. ss \in Seq(Inners)
  <2>1. ss = [i \in DOMAIN tokens |-> ss[i]]
    OBVIOUS
  <2> HIDE DEF ss
  <2> QED  BY <1>1, <2>1, MapType
<1> HIDE DEF ss
<1>3. FlattenSeq(ss) \in Inners
  BY <1>2, InnersInARow
<1> QED  BY <1>3 DEF InsertedToString, ss

LEMMA MinTextIsBalanced ==
  ASSUME NEW n \in Trees, NEW ss \in Seq(Inners), Len(ss) = Len(n.children)
  PROVE  MinText(n, ss) \in Balanced
<1> DEFINE tt == [k \in DOMAIN n.children |->
                    FieldToString(n.children[k]) \o ss[k]
                      \o InsertedToString(n.inserted[k + 1])]
<1>1. ASSUME NEW k \in DOMAIN n.children PROVE tt[k] \in Inners
  <2>1. FieldToString(n.children[k]) \in Inners
    BY TreeFacts, LabelIsLabel, InnerFacts
  <2>2. InsertedToString(n.inserted[k + 1]) \in Inners
    BY NodeFacts, NodeWords, InsertedIsInner
  <2>3. ss[k] \in Inners
    BY TreeFacts
  <2>4. FieldToString(n.children[k]) \o ss[k] \in Inners
    BY <2>1, <2>3, InnerCat
  <2> QED  BY <2>2, <2>4, InnerCat
<1>2. tt \in Seq(Inners)
  <2>1. tt = [k \in DOMAIN n.children |-> tt[k]] /\ n.children \in Seq(Trees)
    BY TreeFacts
  <2> HIDE DEF tt
  <2> QED  BY <1>1, <2>1, MapType
<1> HIDE DEF tt
<1>3. InsertedToString(n.inserted[1]) \in Inners
  BY NodeFacts, NodeWords, InsertedIsInner
<1>4. <<InsertedToString(n.inserted[1])>> \o tt \in Seq(Inners)
  BY <1>2, <1>3
<1>5. FlattenSeq(MinParts(n, ss)) \in Inners
  BY <1>4, InnersInARow DEF MinParts, tt
<1>6. Enclosed(MinLabel(n), FlattenSeq(MinParts(n, ss))) \in Balanced
  BY <1>5, LabelIsLabel, EnclosedIsBalanced
<1> QED  BY <1>6 DEF Enclosed, MinText, Close

LEMMA LevelMinIsBalanced ==
  ASSUME NEW n \in Trees
  PROVE  LevelMin[n] \in Balanced
<1> DEFINE S == {t \in Trees : LevelMin[t] \in Balanced}
<1>1. ASSUME NEW m \in Trees, \A k \in DOMAIN m.children : m.children[k] \in S
      PROVE  m \in S
  <2>1. Below(LevelMin, m) \in Seq(Inners) /\ Len(Below(LevelMin, m)) = Len(m.children)
    BY <1>1, TreeFacts, InnerFacts DEF Below
  <2> QED  BY <2>1, LevelMinIs, MinTextIsBalanced
<1> HIDE DEF S
<1>2. n \in S
  BY <1>1, TreeInduction
<1> QED  BY <1>2 DEF S

LEMMA AbstractTerminalIsBalanced ==
  ASSUME NEW c \in Trees
  PROVE  AbstractTerminal(c) \in Balanced
<1>1. c.type \in Words /\ "non_terminal_expression" \in Words
  BY NodeWords
<1> QED  BY <1>1, WordIsBalanced DEF AbstractTerminal

LEMMA AbstractOperandsIsInner ==
  ASSUME NEW c \in Trees
  PROVE  AbstractOperands(c) \in Inners
<1> DEFINE ss == [k \in DOMAIN c.children |->
                    IF k \in Operands(c) THEN AbstractTerminal(c.children[k])
                                         ELSE << >>]
<1>1. \A k \in DOMAIN c.children : ss[k] \in Inners
  <2>1. \A k \in DOMAIN c.children : AbstractTerminal(c.children[k]) \in Inners
    BY TreeFacts, AbstractTerminalIsBalanced, InnerFacts
  <2> QED  BY <2>1, InnerFacts
<1>2. ss \in Seq(Inners)
  <2>1. c.children \in Seq(Trees) /\ ss = [k \in DOMAIN c.children |-> ss[k]]
    BY TreeFacts
  <2> HIDE DEF ss
  <2> QED  BY <1>1, <2>1, MapType
<1> HIDE DEF ss
<1>3. FlattenSeq(ss) \in Inners
  BY <1>2, InnersInARow
<1> QED  BY <1>3 DEF AbstractOperands, ss

LEMMA FieldIsBalanced ==
  ASSUME NEW x \in Words
  PROVE  <<"(", x, "argument", "(", "identifier", ")",
           "field", "(", "field_identifier", ")">> \o Close \in Balanced
<1> DEFINE a == <<"(", "identifier", ")">>
           b == <<"(", "field_identifier", ")">>
           row == ((<<"argument">> \o a) \o <<"field">>) \o b
<1>1. a \in Inners /\ b \in Inners
  <2>1. {"identifier", "field_identifier"} \subseteq Words
    BY TokensAssumption DEF Words
  <2>2. \A y \in Words : <<"(", y>> \o Close = <<"(", y, ")">>
    <3> TAKE y \in Words
    <3> DEFINE z == <<"(", y>> \o <<")">>
    <3>1. z \in Seq(Tokens) /\ Len(z) = 3 /\ z[1] = "(" /\ z[2] = y /\ z[3] = ")"
      BY TokensAssumption DEF Words
    <3> HIDE DEF z
    <3>2. z = <<"(", y, ")">>
      BY <3>1
    <3> QED  BY <3>2 DEF z, Close
  <2> QED  BY <2>1, <2>2, WordIsBalanced, InnerFacts
<1>2. <<"argument">> \in Inners /\ <<"field">> \in Inners
  <2>1. {"argument", "field"} \subseteq Words
    BY TokensAssumption DEF Words
  <2> QED  BY <2>1, WordsAreLabels, InnerFacts
<1>3. row \in Inners
  <2> HIDE DEF a, b
  <2>1. <<"argument">> \o a \in Inners
    BY <1>1, <1>2, InnerCat
  <2>2. (<<"argument">> \o a) \o <<"field">> \in Inners
    BY <1>2, <2>1, InnerCat
  <2> QED  BY <1>1, <2>2, InnerCat
<1>4. Enclosed(<<x>>, row) \in Balanced
  BY <1>3, WordsAreLabels, EnclosedIsBalanced
<1>5. (<<"(">> \o <<x>>) \o row
        = <<"(", x, "argument", "(", "identifier", ")",
            "field", "(", "field_identifier", ")">>
  <2> DEFINE z == (<<"(">> \o <<x>>) \o row
  <2>1. /\ z \in Seq(Tokens) /\ Len(z) = 10 /\ z[1] = "(" /\ z[2] = x
        /\ z[3] = "argument" /\ z[4] = "(" /\ z[5] = "identifier" /\ z[6] = ")"
        /\ z[7] = "field" /\ z[8] = "(" /\ z[9] = "field_identifier" /\ z[10] = ")"
    BY TokensAssumption DEF Words
  <2> HIDE DEF z
  <2>2. z = <<"(", x, "argument", "(", "identifier", ")",
              "field", "(", "field_identifier", ")">>
    BY <2>1
  <2> QED  BY <2>2 DEF z
<1> HIDE DEF row
<1> QED  BY <1>4, <1>5 DEF Enclosed, Close

(* What is described of a condition is balanced.                           *)
LEMMA DescribedIsInner ==
  ASSUME NEW n \in Trees, NEW f, \A k \in DOMAIN n.children : f[n.children[k]] \in Inners
  PROVE  Described(f, n) \in Inners
<1>1. CASE Len(n.children) # 1
  BY <1>1, InnerFacts DEF Described
<1>2. CASE Len(n.children) = 1
  <2> DEFINE c == n.children[1]
  <2>1. c \in Trees /\ f[c] \in Inners
    BY <1>2, TreeFacts
  <2> HIDE DEF c
  <2>2. /\ c.type \in Words /\ <<c.type>> \in Labels /\ Label(c) \in Labels
        /\ <<"(", c.type>> = <<"(">> \o <<c.type>>
        /\ AbstractOperands(c) \in Inners /\ AbstractTerminal(c) \in Balanced
    BY <2>1, NodeWords, LabelIsLabel, WordIsBalanced, AbstractOperandsIsInner,
       AbstractTerminalIsBalanced
  <2>3. <<"(", c.type>> \o f[c] \o Close \in Balanced
    <3>1. Enclosed(<<c.type>>, f[c]) \in Balanced
      BY <2>1, <2>2, EnclosedIsBalanced
    <3> QED  BY <2>2, <3>1 DEF Enclosed, Close
  <2>4. <<"(", c.type>> \o Close \in Balanced
    BY <2>2, WordIsBalanced
  <2>5. <<"(", c.type, "argument", "(", "identifier", ")",
          "field", "(", "field_identifier", ")">> \o Close \in Balanced
    BY <2>2, FieldIsBalanced
  <2>6. <<"(">> \o Label(c) \o AbstractOperands(c) \o Close \in Balanced
    <3>1. Enclosed(Label(c), AbstractOperands(c)) \in Balanced
      BY <2>2, EnclosedIsBalanced
    <3> QED  BY <3>1 DEF Enclosed, Close
  <2>7. Described(f, n) \in Balanced
    BY <1>2, <2>2, <2>3, <2>4, <2>5, <2>6 DEF Described, c
  <2> QED  BY <2>7, InnerFacts
<1> QED  BY <1>1, <1>2

LEMMA AbstractConditionalIsInner ==
  ASSUME NEW n \in Trees
  PROVE  AbstractConditional[n] \in Inners
<1> DEFINE S == {t \in Trees : AbstractConditional[t] \in Inners}
<1>1. ASSUME NEW m \in Trees, \A k \in DOMAIN m.children : m.children[k] \in S
      PROVE  m \in S
  BY <1>1, AbstractConditionalIs, DescribedIsInner
<1> HIDE DEF S
<1>2. n \in S
  BY <1>1, TreeInduction
<1> QED  BY <1>2 DEF S

(* LEVEL_TWO is balanced in every language.                                *)
LEMMA LevelTwoIsBalanced ==
  ASSUME NEW n \in Trees, NEW lang
  PROVE  LevelTwo(lang, n) \in Balanced
<1>1. Top(lang) \in Words
  BY TokensAssumption DEF Top, Words
<1>2. <<Top(lang)>> \in Labels
      /\ <<"(", Top(lang)>> = <<"(">> \o <<Top(lang)>>
  BY <1>1, WordsAreLabels, WordIsBalanced
<1>3. Enclosed(<<Top(lang)>>, AbstractConditional[n]) \in Balanced
  BY <1>2, AbstractConditionalIsInner, EnclosedIsBalanced
<1>4. <<"(", Top(lang)>> \o AbstractConditional[n] \o Close \in Balanced
  BY <1>2, <1>3 DEF Enclosed, Close
<1> QED  BY <1>4, LevelMinIsBalanced DEF LevelTwo

-----------------------------------------------------------------------------
(* What LEVEL_ONE tells apart.                                             *)

(* A label tells the type of the node, except that an assignment passes    *)
(* for a binary expression.                                                *)
LEMMA LabelTellsType ==
  ASSUME NEW n \in Trees, NEW m \in Trees, Label(n) = Label(m)
  PROVE  n.type = m.type
<1>1. ASSUME NEW t \in Trees
      PROVE  /\ Len(Label(t)) \in {1, 2}
             /\ t.type = "assignment_expression" =>
                  /\ Len(Label(t)) = 2
                  /\ Label(t)[1] = "binary_expression" /\ Label(t)[2] = "="
             /\ t.type # "assignment_expression" =>
                  /\ Label(t)[1] = t.type
                  /\ Label(t)[1] = "binary_expression" /\ Len(Label(t)) = 2
                       => Label(t)[2] # "="
  <2>1. t.type = "binary_expression" => t.op # "="
    BY TreesAssumption
  <2>2. CASE t.type = "assignment_expression"
    BY <2>2 DEF Label
  <2>3. CASE t.type \in {"binary_expression", "unary_expression"}
    <3>1. CASE t.op = None
      <4>1. Label(t) = <<t.type>> \o << >>
        BY <2>3, <3>1 DEF Label, OpToString
      <4>2. <<t.type>> \o << >> = <<t.type>>
        OBVIOUS
      <4> QED  BY <2>3, <4>1, <4>2
    <3>2. CASE t.op # None
      <4>1. Label(t) = <<t.type>> \o <<t.op>>
        BY <2>3, <3>2 DEF Label, OpToString
      <4>2. <<t.type>> \o <<t.op>> = <<t.type, t.op>>
        BY NodeWords, WordsAreLabels
      <4> QED  BY <2>1, <2>3, <4>1, <4>2
    <3> QED  BY <3>1, <3>2
  <2>4. CASE t.type \notin {"binary_expression", "unary_expression",
                            "assignment_expression"}
    <3>1. Label(t) = <<t.type>>
      BY <2>4 DEF Label
    <3> QED  BY <2>4, <3>1
  <2> QED  BY <2>2, <2>3, <2>4
<1> QED  BY <1>1

(* Trees with the same LEVEL_ONE have labels that are the same, and        *)
(* children with the same LEVEL_ONE.                                       *)
LEMMA SameAtOne ==
  ASSUME NEW n \in Trees, NEW m \in Trees, LevelOne[n] = LevelOne[m]
  PROVE  /\ n.type = m.type /\ Label(n) = Label(m)
         /\ Len(n.children) = Len(m.children)
         /\ DOMAIN n.children = DOMAIN m.children
         /\ \A k \in DOMAIN n.children :
              LevelOne[n.children[k]] = LevelOne[m.children[k]]
<1>1. Text(Label(n), Below(LevelOne, n)) = Text(Label(m), Below(LevelOne, m))
      /\ Below(LevelOne, n) \in Forests /\ Below(LevelOne, m) \in Forests
      /\ Label(n) \in Labels /\ Label(m) \in Labels
  BY LevelOneIsExpression, LabelIsLabel
<1>2. Label(n) = Label(m) /\ Below(LevelOne, n) = Below(LevelOne, m)
  BY <1>1, TextIsOneToOne
<1>3. n.children \in Seq(Trees) /\ m.children \in Seq(Trees)
  BY TreeFacts
<1>4. DOMAIN n.children = DOMAIN m.children
  BY <1>2 DEF Below
<1>5. ASSUME NEW k \in DOMAIN n.children
      PROVE  LevelOne[n.children[k]] = LevelOne[m.children[k]]
  <2>1. Below(LevelOne, n)[k] = LevelOne[n.children[k]]
        /\ Below(LevelOne, m)[k] = LevelOne[m.children[k]]
    BY <1>4 DEF Below
  <2> QED  BY <1>2, <2>1
<1>6. Len(n.children) = Len(m.children)
  BY <1>3, <1>4
<1> QED  BY <1>2, <1>4, <1>5, <1>6, LabelTellsType

LEMMA SameOperands ==
  ASSUME NEW n \in Trees, NEW m \in Trees, LevelOne[n] = LevelOne[m]
  PROVE  /\ AbstractTerminal(n) = AbstractTerminal(m)
         /\ Operands(n) = Operands(m) /\ Arity(n) = Arity(m)
         /\ AbstractOperands(n) = AbstractOperands(m)
<1>1. ASSUME NEW s \in Trees, NEW t \in Trees, LevelOne[s] = LevelOne[t]
      PROVE  AbstractTerminal(s) = AbstractTerminal(t)
  <2>1. s.children = << >> <=> t.children = << >>
    <3>1. s.children \in Seq(Trees) /\ t.children \in Seq(Trees)
          /\ Len(s.children) = Len(t.children)
      BY <1>1, TreeFacts, SameAtOne
    <3> QED  BY <3>1
  <2>2. s.type = t.type
    BY <1>1, SameAtOne
  <2> QED  BY <2>1, <2>2 DEF AbstractTerminal
<1>2. /\ n.type = m.type /\ DOMAIN n.children = DOMAIN m.children
      /\ \A k \in DOMAIN n.children :
           /\ n.children[k] \in Trees /\ m.children[k] \in Trees
           /\ LevelOne[n.children[k]] = LevelOne[m.children[k]]
  BY SameAtOne, TreeFacts
<1>3. \A k \in DOMAIN n.children :
        /\ n.children[k].type = m.children[k].type
        /\ AbstractTerminal(n.children[k]) = AbstractTerminal(m.children[k])
  BY <1>1, <1>2, SameAtOne
<1>4. Operands(n) = Operands(m)
  BY <1>2, <1>3 DEF Operands, IsCommentNode
<1>5. AbstractOperands(n) = AbstractOperands(m)
  <2> DEFINE ss(t) == [k \in DOMAIN t.children |->
                         IF k \in Operands(t) THEN AbstractTerminal(t.children[k])
                                              ELSE << >>]
  <2>1. ss(n) = ss(m)
    BY <1>2, <1>3, <1>4
  <2>2. AbstractOperands(n) = FlattenSeq(ss(n)) /\ AbstractOperands(m) = FlattenSeq(ss(m))
    BY DEF AbstractOperands
  <2> HIDE DEF ss
  <2> QED  BY <2>1, <2>2
<1> QED  BY <1>1, <1>2, <1>4, <1>5 DEF Arity

(* LEVEL_ONE tells apart all that LEVEL_TWO does in C and C++ ...          *)
LEMMA SameAtTwo ==
  ASSUME NEW n \in Trees, NEW m \in Trees, LevelOne[n] = LevelOne[m]
  PROVE  /\ AbstractConditional[n] = AbstractConditional[m]
         /\ ConditionalThrows[n] = ConditionalThrows[m]
<1> DEFINE Same(s, t) == /\ AbstractConditional[s] = AbstractConditional[t]
                         /\ ConditionalThrows[s] = ConditionalThrows[t]
           S == {s \in Trees : \A t \in Trees : LevelOne[s] = LevelOne[t] => Same(s, t)}
<1>1. ASSUME NEW s \in Trees, NEW t \in Trees, LevelOne[s] = LevelOne[t],
             \A k \in DOMAIN s.children : s.children[k] \in S
      PROVE  Same(s, t)
  <2>1. /\ s.type = t.type /\ DOMAIN s.children = DOMAIN t.children
        /\ Len(s.children) = Len(t.children)
        /\ \A k \in DOMAIN s.children :
             /\ s.children[k] \in Trees /\ t.children[k] \in Trees
             /\ LevelOne[s.children[k]] = LevelOne[t.children[k]]
    BY <1>1, SameAtOne, TreeFacts
  <2>2. \A k \in DOMAIN s.children : Same(s.children[k], t.children[k])
    BY <1>1, <2>1
  <2> HIDE DEF S
  <2>4. ASSUME Len(s.children) = 1
        PROVE  /\ Described(AbstractConditional, s) = Described(AbstractConditional, t)
               /\ Fails(ConditionalThrows, s) = Fails(ConditionalThrows, t)
    <3> DEFINE c == s.children[1]
               d == t.children[1]
    <3>1. 1 \in DOMAIN s.children /\ Len(t.children) = 1
      BY <2>1, <2>4, TreeFacts
    <3>2. /\ c \in Trees /\ d \in Trees /\ LevelOne[c] = LevelOne[d]
          /\ AbstractConditional[c] = AbstractConditional[d]
          /\ ConditionalThrows[c] = ConditionalThrows[d]
      BY <2>1, <2>2, <3>1
    <3> HIDE DEF c, d, Same
    <3>3. /\ c.type = d.type /\ Label(c) = Label(d)
          /\ AbstractTerminal(c) = AbstractTerminal(d)
          /\ Operands(c) = Operands(d) /\ Arity(c) = Arity(d)
          /\ AbstractOperands(c) = AbstractOperands(d)
      BY <3>2, SameAtOne, SameOperands
    <3>4. Described(AbstractConditional, s) = Described(AbstractConditional, t)
      BY <2>4, <3>1, <3>2, <3>3 DEF Described, c, d
    <3>5. Fails(ConditionalThrows, s) = Fails(ConditionalThrows, t)
      BY <2>4, <3>1, <3>2, <3>3 DEF Fails, c, d
    <3> QED  BY <3>4, <3>5
  <2>5. ASSUME Len(s.children) # 1
        PROVE  /\ Described(AbstractConditional, s) = Described(AbstractConditional, t)
               /\ Fails(ConditionalThrows, s) = Fails(ConditionalThrows, t)
    BY <2>1, <2>5 DEF Described, Fails
  <2> QED  BY <2>4, <2>5, AbstractConditionalIs, ConditionalThrowsIs
<1>2. \A s \in Trees : (\A k \in DOMAIN s.children : s.children[k] \in S) => s \in S
  BY <1>1
<1>3. n \in S
  <2> HIDE DEF S
  <2> QED  BY <1>2, TreeInduction
<1> QED  BY <1>3

(* A tree without errors has nothing that the parser put in, and nothing   *)
(* unexpected.                                                             *)
LEMMA ErrorFree ==
  ASSUME NEW n \in Trees, ~HasError[n]
  PROVE  /\ n.type \notin ErrorWords /\ ~n.missing /\ n.unexpected = None
         /\ n.op \notin ErrorWords /\ n.field \notin ErrorWords
         /\ MinLabel(n) = <<n.type>>
         /\ \A k \in DOMAIN n.children : ~HasError[n.children[k]]
         /\ n.inserted[1] = << >>
         /\ \A k \in DOMAIN n.children : n.inserted[k + 1] = << >>
<1>1. /\ n.type # "ERROR" /\ ~n.missing
      /\ \A k \in DOMAIN n.inserted : n.inserted[k] = << >>
      /\ \A k \in DOMAIN n.children : ~HasError[n.children[k]]
  BY HasErrorIs
<1>2. n.type \notin ErrorWords /\ n.unexpected = None
      /\ n.op \notin ErrorWords /\ n.field \notin ErrorWords
  BY <1>1, TreesAssumption
<1> QED  BY <1>1, <1>2, NodeFacts DEF MinLabel

(* ... and in PHP and Verilog where the code parses.                       *)
LEMMA SameAtMin ==
  ASSUME NEW l \in {"PHP", "VERILOG"},
         NEW n \in TreesOf[l], NEW m \in TreesOf[l], ~HasError[n], ~HasError[m],
         LevelOne[n] = LevelOne[m]
  PROVE  LevelMin[n] = LevelMin[m]
<1> l \in Languages
  BY DEF Languages
<1> DEFINE Parsed == {t \in TreesOf[l] : ~HasError[t]}
           Alike(s) == \A t \in Parsed : LevelOne[s] = LevelOne[t]
                                           => LevelMin[s] = LevelMin[t]
           S == {s \in Trees : s \in Parsed => Alike(s)}
<1>1. ASSUME NEW s \in Parsed, NEW t \in Parsed, LevelOne[s] = LevelOne[t],
             \A k \in DOMAIN s.children : s.children[k] \in S
      PROVE  LevelMin[s] = LevelMin[t]
  <2>1. s \in Trees /\ t \in Trees /\ ~HasError[s] /\ ~HasError[t]
    BY TreesAreTrees
  <2>2. /\ s.type = t.type /\ DOMAIN s.children = DOMAIN t.children
        /\ Len(s.children) = Len(t.children)
        /\ \A k \in DOMAIN s.children :
             LevelOne[s.children[k]] = LevelOne[t.children[k]]
    BY <1>1, <2>1, SameAtOne
  <2>3. \A k \in DOMAIN s.children :
          /\ s.children[k] \in Parsed /\ t.children[k] \in Parsed
          /\ s.children[k] \in Trees /\ t.children[k] \in Trees
    BY <2>1, <2>2, ErrorFree, TreeOfFacts, TreeFacts
  <2>4. \A k \in DOMAIN s.children :
          LevelMin[s.children[k]] = LevelMin[t.children[k]]
    BY <1>1, <2>2, <2>3
  <2> HIDE DEF Parsed, S
  <2>5. \A k \in DOMAIN s.children : s.children[k].type = t.children[k].type
    BY <2>2, <2>3, SameAtOne
  <2>6. \A k \in DOMAIN s.children : s.children[k].field = t.children[k].field
    <3>1. s \in {u \in TreesOf[l] : ~HasError[u]} /\ t \in {u \in TreesOf[l] : ~HasError[u]}
      BY DEF Parsed
    <3> QED  BY <2>2, <2>5, <3>1, FieldsAssumption
  <2>7. MinParts(s, Below(LevelMin, s)) = MinParts(t, Below(LevelMin, t))
    <3> DEFINE part(u, k) == FieldToString(u.children[k]) \o Below(LevelMin, u)[k]
                               \o InsertedToString(u.inserted[k + 1])
    <3>1. s.inserted[1] = << >> /\ t.inserted[1] = << >>
      BY <2>1, ErrorFree
    <3>2. ASSUME NEW k \in DOMAIN s.children PROVE part(s, k) = part(t, k)
      <4>1. s.inserted[k + 1] = << >> /\ t.inserted[k + 1] = << >>
        BY <2>1, <2>2, ErrorFree
      <4>2. Below(LevelMin, s)[k] = Below(LevelMin, t)[k]
        BY <2>2, <2>4 DEF Below
      <4>3. FieldToString(s.children[k]) = FieldToString(t.children[k])
        BY <2>6 DEF FieldToString
      <4> QED  BY <4>1, <4>2, <4>3
    <3>3. [k \in DOMAIN s.children |-> part(s, k)] = [k \in DOMAIN t.children |-> part(t, k)]
      <4> HIDE DEF part
      <4> QED  BY <2>2, <3>2
    <3> QED  BY <3>1, <3>3 DEF MinParts
  <2>8. MinLabel(s) = MinLabel(t)
    BY <2>1, <2>2, ErrorFree
  <2>9. MinText(s, Below(LevelMin, s)) = MinText(t, Below(LevelMin, t))
    BY <2>7, <2>8 DEF MinText
  <2> QED  BY <2>1, <2>9, LevelMinIs
<1>2. \A s \in Trees : (\A k \in DOMAIN s.children : s.children[k] \in S) => s \in S
  BY <1>1
<1>3. n \in S
  <2>1. n \in Trees
    BY TreesAreTrees
  <2> HIDE DEF S
  <2> QED  BY <1>2, <2>1, TreeInduction
<1> QED  BY <1>3

(* What is known at LEVEL_ONE is known at LEVEL_TWO: equal expressions of  *)
(* the first level come with equal ones of the second, or with none.  For  *)
(* PHP and Verilog, whose LEVEL_TWO shows what the parser put in and what  *)
(* it did not expect, this is so of code that parses.                      *)
THEOREM OneTellsTwo ==
  ASSUME NEW l \in Languages, NEW n \in TreesOf[l], NEW m \in TreesOf[l],
         l \in {"PHP", "VERILOG"} => ~HasError[n] /\ ~HasError[m],
         LevelOne[n] = LevelOne[m]
  PROVE  /\ LevelTwo(l, n) = LevelTwo(l, m)
         /\ LevelTwoThrows(l, n) = LevelTwoThrows(l, m)
<1>1. n \in Trees /\ m \in Trees
  BY TreesAreTrees
<1>2. n.type = m.type /\ AbstractConditional[n] = AbstractConditional[m]
      /\ ConditionalThrows[n] = ConditionalThrows[m]
  BY <1>1, SameAtOne, SameAtTwo
<1>3. l \notin {"C", "CPP"} => LevelMin[n] = LevelMin[m]
  BY SameAtMin DEF Languages
<1> QED  BY <1>2, <1>3 DEF LevelTwo, LevelTwoThrows

-----------------------------------------------------------------------------
(* No parse error gets into the expressions of a tree that has none.       *)

Clean(s) == Range(s) \cap ErrorWords = {}

LEMMA CleanCat ==
  ASSUME NEW a \in Strings, NEW b \in Strings, Clean(a), Clean(b)
  PROVE  a \o b \in Strings /\ Clean(a \o b)
<1> a \o b \in Strings
  BY DEF Strings
<1>1. SUFFICES ASSUME NEW i \in DOMAIN (a \o b), (a \o b)[i] \in ErrorWords
               PROVE  FALSE
  BY DEF Clean, Range
<1>2. CASE i <= Len(a)
  <2>1. i \in DOMAIN a /\ a[i] \in ErrorWords
    BY <1>1, <1>2 DEF Strings
  <2> QED  BY <2>1 DEF Clean, Range
<1>3. CASE ~(i <= Len(a))
  <2>1. i - Len(a) \in DOMAIN b /\ b[i - Len(a)] \in ErrorWords
    BY <1>1, <1>3 DEF Strings
  <2> QED  BY <2>1 DEF Clean, Range
<1> QED  BY <1>2, <1>3

LEMMA CleanFlatten ==
  ASSUME NEW ss \in Seq(Strings), \A k \in DOMAIN ss : Clean(ss[k])
  PROVE  Clean(FlattenSeq(ss))
<1>1. ASSUME NEW x \in ErrorWords PROVE x \notin Range(FlattenSeq(ss))
  <2>1. x \in Range(FlattenSeq(ss)) => \E k \in DOMAIN ss : x \in Range(ss[k])
    BY FlattenRange DEF Strings
  <2> QED  BY <2>1 DEF Clean
<1> QED  BY <1>1 DEF Clean

LEMMA CleanEnds ==
  /\ Clean(Close) /\ Clean(<<"(">>) /\ Clean(<< >>)
  /\ Close \in Strings /\ <<"(">> \in Strings /\ << >> \in Strings
BY ParenFacts DEF Clean, Range, Close, ErrorWords

LEMMA CleanText ==
  ASSUME NEW label \in Labels, Clean(label),
         NEW ss \in Seq(Strings), \A k \in DOMAIN ss : Clean(ss[k])
  PROVE  Clean(Text(label, ss))
<1> DEFINE p == <<"(">>
           q == <<")">>
           b == FlattenSeq(ss)
<1>1. /\ p \in Strings /\ q \in Strings /\ label \in Strings
      /\ Clean(p) /\ Clean(q) /\ Clean(b) /\ b \in Strings
  BY CleanEnds, LabelFacts, CleanFlatten, TextIsString DEF Close
<1> HIDE DEF p, q, b
<1>2. p \o label \in Strings /\ Clean(p \o label)
  BY <1>1, CleanCat
<1>3. (p \o label) \o b \in Strings /\ Clean((p \o label) \o b)
  BY <1>1, <1>2, CleanCat
<1>4. Clean(((p \o label) \o b) \o q)
  BY <1>1, <1>3, CleanCat
<1> QED  BY <1>4 DEF Text, p, q, b

LEMMA CleanNode ==
  ASSUME NEW n \in Trees, ~HasError[n]
  PROVE  /\ n.type \notin ErrorWords
         /\ \A k \in DOMAIN n.children : ~HasError[n.children[k]]
         /\ Clean(<<n.type>>) /\ Clean(Label(n))
         /\ MinLabel(n) = <<n.type>> /\ Clean(FieldToString(n))
<1>1. /\ n.type \notin ErrorWords /\ n.op \notin ErrorWords
      /\ n.field \notin ErrorWords /\ MinLabel(n) = <<n.type>>
      /\ \A k \in DOMAIN n.children : ~HasError[n.children[k]]
  BY ErrorFree
<1>2. Clean(<<n.type>>) /\ Clean(OpToString(n)) /\ Clean(FieldToString(n))
  BY <1>1 DEF Clean, Range, OpToString, FieldToString
<1>3. Clean(Label(n))
  <2>1. OpToString(n) \in Strings /\ <<n.type>> \in Strings
    <3>1. n.op \in Tokens /\ n.type \in Tokens
      BY TreeFacts
    <3> QED  BY <3>1 DEF OpToString, Strings
  <2>2. Clean(<<n.type>> \o OpToString(n))
    BY <1>2, <2>1, CleanCat
  <2>3. Clean(<<"binary_expression", "=">>)
    BY DEF Clean, Range, ErrorWords
  <2> QED  BY <1>2, <2>2, <2>3 DEF Label
<1> QED  BY <1>1, <1>2, <1>3

LEMMA CleanChildren ==
  ASSUME NEW f, NEW label,
         \A n \in Trees : /\ label[n] \in Labels
                          /\ Below(f, n) \in Seq(Strings)
                          /\ f[n] = Text(label[n], Below(f, n))
                          /\ ~HasError[n] => Clean(label[n])
  PROVE  \A n \in Trees : ~HasError[n] => Clean(f[n])
<1> DEFINE S == {n \in Trees : ~HasError[n] => Clean(f[n])}
<1>1. ASSUME NEW n \in Trees, \A k \in DOMAIN n.children : n.children[k] \in S,
             ~HasError[n]
      PROVE  Clean(f[n])
  <2>1. \A k \in DOMAIN n.children : Clean(f[n.children[k]])
    BY <1>1, CleanNode
  <2>2. \A k \in DOMAIN Below(f, n) : Clean(Below(f, n)[k])
    BY <2>1 DEF Below
  <2> QED  BY <1>1, <2>2, CleanText
<1>2. \A n \in Trees : (\A k \in DOMAIN n.children : n.children[k] \in S) => n \in S
  BY <1>1
<1> HIDE DEF S
<1>3. \A n \in Trees : n \in S
  BY <1>2, TreeInduction
<1> QED  BY <1>3 DEF S

LEMMA CleanOne ==
  ASSUME NEW n \in Trees, ~HasError[n]
  PROVE  Clean(LevelOne[n])
<1> DEFINE label == [m \in Trees |-> Label(m)]
<1>1. ASSUME NEW m \in Trees
      PROVE  /\ label[m] \in Labels
             /\ Below(LevelOne, m) \in Seq(Strings)
             /\ LevelOne[m] = Text(label[m], Below(LevelOne, m))
             /\ ~HasError[m] => Clean(label[m])
  <2>1. label[m] = Label(m)
    OBVIOUS
  <2> HIDE DEF label
  <2>2. Below(LevelOne, m) \in Seq(Strings)
    BY LevelOneIsExpression, ForestsAreStrings
  <2> QED  BY <2>1, <2>2, LabelIsLabel, LevelOneIsExpression, CleanNode
<1> HIDE DEF label
<1> QED  BY <1>1, CleanChildren

LEMMA InsertedNothing ==
  InsertedToString(<< >>) = << >>
<1>1. [i \in DOMAIN << >> |-> <<"(", "MISSING", << >>[i], ")">>] = << >>
  OBVIOUS
<1> QED  BY <1>1, FlattenEmpty DEF InsertedToString

LEMMA CleanMinText ==
  ASSUME NEW n \in Trees, ~HasError[n],
         NEW ss \in Seq(Strings), Len(ss) = Len(n.children),
         \A k \in DOMAIN n.children : Clean(ss[k])
  PROVE  Clean(MinText(n, ss))
<1> DEFINE tt == [k \in DOMAIN n.children |->
                    FieldToString(n.children[k]) \o ss[k]
                      \o InsertedToString(n.inserted[k + 1])]
<1>1. ASSUME NEW k \in DOMAIN n.children
      PROVE  tt[k] \in Strings /\ Clean(tt[k])
  <2>1. n.children[k] \in Trees /\ ~HasError[n.children[k]]
        /\ ss[k] \in Strings /\ Clean(ss[k])
    <3>1. k \in DOMAIN ss
      BY TreeFacts
    <3>2. ss[k] \in Strings
      BY <3>1
    <3>3. n.children[k] \in Trees
      BY TreeFacts
    <3> QED  BY <3>2, <3>3, CleanNode
  <2>2. InsertedToString(n.inserted[k + 1]) = << >>
    BY ErrorFree, InsertedNothing
  <2>3. FieldToString(n.children[k]) \in Strings /\ Clean(FieldToString(n.children[k]))
    BY <2>1, LabelIsLabel, LabelFacts, CleanNode
  <2>4. /\ FieldToString(n.children[k]) \o ss[k] \in Strings
        /\ Clean(FieldToString(n.children[k]) \o ss[k])
    BY <2>1, <2>3, CleanCat
  <2>5. /\ (FieldToString(n.children[k]) \o ss[k]) \o << >> \in Strings
        /\ Clean((FieldToString(n.children[k]) \o ss[k]) \o << >>)
    BY <2>4, CleanEnds, CleanCat
  <2> QED  BY <2>2, <2>5
<1>2. tt \in Seq(Strings) /\ DOMAIN tt = DOMAIN n.children
  <2>1. tt = [k \in DOMAIN n.children |-> tt[k]] /\ n.children \in Seq(Trees)
    BY TreeFacts
  <2> HIDE DEF tt
  <2> QED  BY <1>1, <2>1, MapType
<1> HIDE DEF tt
<1>3. FlattenSeq(tt) \in Strings /\ Clean(FlattenSeq(tt))
  BY <1>1, <1>2, CleanFlatten, FlattenType DEF Strings
<1>4. FlattenSeq(MinParts(n, ss)) \in Strings /\ Clean(FlattenSeq(MinParts(n, ss)))
  <2>1. MinParts(n, ss) = << << >> >> \o tt
    BY ErrorFree, InsertedNothing DEF MinParts, tt
  <2>2. FlattenSeq(MinParts(n, ss)) = << >> \o FlattenSeq(tt)
    BY <1>2, <2>1, CleanEnds, FlattenCons DEF Strings
  <2> QED  BY <1>3, <2>2, CleanEnds, CleanCat
<1>5. MinLabel(n) \in Strings /\ Clean(MinLabel(n))
  BY LabelIsLabel, LabelFacts, CleanNode
<1>6. <<"(">> \o MinLabel(n) \in Strings /\ Clean(<<"(">> \o MinLabel(n))
  BY <1>5, CleanEnds, CleanCat
<1>7. /\ (<<"(">> \o MinLabel(n)) \o FlattenSeq(MinParts(n, ss)) \in Strings
      /\ Clean((<<"(">> \o MinLabel(n)) \o FlattenSeq(MinParts(n, ss)))
  BY <1>4, <1>6, CleanCat
<1>8. Clean(((<<"(">> \o MinLabel(n)) \o FlattenSeq(MinParts(n, ss))) \o Close)
  BY <1>7, CleanEnds, CleanCat
<1> QED  BY <1>8 DEF MinText

LEMMA CleanMin ==
  ASSUME NEW n \in Trees, ~HasError[n]
  PROVE  Clean(LevelMin[n])
<1> DEFINE S == {m \in Trees : ~HasError[m] => Clean(LevelMin[m])}
<1>1. ASSUME NEW m \in Trees, \A k \in DOMAIN m.children : m.children[k] \in S,
             ~HasError[m]
      PROVE  Clean(LevelMin[m])
  <2>1. \A k \in DOMAIN m.children : Clean(LevelMin[m.children[k]])
    BY <1>1, CleanNode
  <2>2. Below(LevelMin, m) \in Seq(Strings)
    BY LevelMinIs, BelowSeq
  <2>3. /\ Len(Below(LevelMin, m)) = Len(m.children)
        /\ \A k \in DOMAIN m.children : Clean(Below(LevelMin, m)[k])
    BY <2>1, TreeFacts DEF Below
  <2>4. Clean(MinText(m, Below(LevelMin, m)))
    BY <1>1, <2>2, <2>3, CleanMinText
  <2> QED  BY <2>4, LevelMinIs
<1>2. \A m \in Trees : (\A k \in DOMAIN m.children : m.children[k] \in S) => m \in S
  BY <1>1
<1> HIDE DEF S
<1>3. n \in S
  BY <1>2, TreeInduction
<1> QED  BY <1>3 DEF S

LEMMA CleanAbstractTerminal ==
  ASSUME NEW c \in Trees, ~HasError[c]
  PROVE  Clean(AbstractTerminal(c))
<1> DEFINE x == IF c.children = << >> THEN c.type ELSE "non_terminal_expression"
<1>1. x \notin ErrorWords /\ x \in Tokens
  BY CleanNode, TreeFacts, TokensAssumption DEF ErrorWords
<1> HIDE DEF x
<1>2. <<"(", x>> \in Strings /\ Clean(<<"(", x>>)
  BY <1>1, TokensAssumption DEF Strings, Clean, Range, ErrorWords
<1>3. Clean(<<"(", x>> \o Close)
  BY <1>2, CleanEnds, CleanCat
<1> QED  BY <1>3 DEF AbstractTerminal, x

LEMMA CleanAbstractOperands ==
  ASSUME NEW c \in Trees, ~HasError[c]
  PROVE  Clean(AbstractOperands(c))
<1> DEFINE ss == [k \in DOMAIN c.children |->
                    IF k \in Operands(c) THEN AbstractTerminal(c.children[k])
                                         ELSE << >>]
<1>1. \A k \in DOMAIN c.children : ss[k] \in Strings /\ Clean(ss[k])
  <2>1. \A k \in DOMAIN c.children : /\ AbstractTerminal(c.children[k]) \in Strings
                                     /\ Clean(AbstractTerminal(c.children[k]))
    BY TreeFacts, AbstractTerminalType, CleanNode, CleanAbstractTerminal
  <2> QED  BY <2>1, CleanEnds
<1>2. ss \in Seq(Strings) /\ DOMAIN ss = DOMAIN c.children
  <2>1. c.children \in Seq(Trees) /\ ss = [k \in DOMAIN c.children |-> ss[k]]
    BY TreeFacts
  <2> HIDE DEF ss
  <2> QED  BY <1>1, <2>1, MapType
<1> HIDE DEF ss
<1>3. Clean(FlattenSeq(ss))
  BY <1>1, <1>2, CleanFlatten
<1> QED  BY <1>3 DEF AbstractOperands, ss

LEMMA CleanDescribed ==
  ASSUME NEW n \in Trees, ~HasError[n], NEW f,
         \A k \in DOMAIN n.children : f[n.children[k]] \in Strings /\ Clean(f[n.children[k]])
  PROVE  Clean(Described(f, n))
<1>1. CASE Len(n.children) # 1
  BY <1>1, CleanEnds DEF Described
<1>2. CASE Len(n.children) = 1
  <2> DEFINE c == n.children[1]
  <2>1. c \in Trees /\ ~HasError[c] /\ f[c] \in Strings /\ Clean(f[c])
    <3>1. 1 \in DOMAIN n.children
      BY <1>2, TreeFacts
    <3> QED  BY <3>1, TreeFacts, CleanNode
  <2> HIDE DEF c
  <2>2. /\ c.type \in Tokens /\ c.type \notin ErrorWords
        /\ Label(c) \in Strings /\ Clean(Label(c))
        /\ AbstractOperands(c) \in Strings /\ Clean(AbstractOperands(c))
        /\ Clean(AbstractTerminal(c))
    BY <2>1, TextTypes, TreeFacts, AbstractOperandsType, CleanAbstractOperands,
       CleanAbstractTerminal, CleanNode
  <2>3. <<"(", c.type>> \in Strings /\ Clean(<<"(", c.type>>)
    BY <2>2, TokensAssumption DEF Strings, Clean, Range, ErrorWords
  <2>4. Clean(<<"(", c.type>> \o f[c] \o Close)
    <3>1. <<"(", c.type>> \o f[c] \in Strings /\ Clean(<<"(", c.type>> \o f[c])
      BY <2>1, <2>3, CleanCat
    <3> QED  BY <3>1, CleanEnds, CleanCat
  <2>5. Clean(<<"(", c.type>> \o Close)
    BY <2>3, CleanEnds, CleanCat
  <2>6. Clean(<<"(", c.type, "argument", "(", "identifier", ")",
                "field", "(", "field_identifier", ")">> \o Close)
    <3> DEFINE w == <<"(", c.type, "argument", "(", "identifier", ")",
                      "field", "(", "field_identifier", ")">>
    <3>1. w \in Strings /\ Clean(w)
      BY <2>2, TokensAssumption DEF Strings, Clean, Range, ErrorWords
    <3> HIDE DEF w
    <3>2. Clean(w \o Close)
      BY <3>1, CleanEnds, CleanCat
    <3> QED  BY <3>2 DEF w
  <2>7. Clean(<<"(">> \o Label(c) \o AbstractOperands(c) \o Close)
    <3>1. <<"(">> \o Label(c) \in Strings /\ Clean(<<"(">> \o Label(c))
      BY <2>2, CleanEnds, CleanCat
    <3>2. (<<"(">> \o Label(c)) \o AbstractOperands(c) \in Strings
          /\ Clean((<<"(">> \o Label(c)) \o AbstractOperands(c))
      BY <2>2, <3>1, CleanCat
    <3> QED  BY <3>2, CleanEnds, CleanCat
  <2> QED  BY <1>2, <2>2, <2>4, <2>5, <2>6, <2>7 DEF Described, c
<1> QED  BY <1>1, <1>2

LEMMA CleanTwo ==
  ASSUME NEW n \in Trees, ~HasError[n], NEW lang
  PROVE  Clean(LevelTwo(lang, n))
<1> DEFINE S == {t \in Trees : ~HasError[t] => Clean(AbstractConditional[t])}
<1>1. ASSUME NEW m \in Trees, \A k \in DOMAIN m.children : m.children[k] \in S
      PROVE  m \in S
  <2>1. ASSUME ~HasError[m] PROVE Clean(AbstractConditional[m])
    <3>1. \A k \in DOMAIN m.children : /\ AbstractConditional[m.children[k]] \in Strings
                                       /\ Clean(AbstractConditional[m.children[k]])
      BY <1>1, <2>1, CleanNode, TreeFacts, AbstractConditionalIs
    <3> QED  BY <2>1, <3>1, CleanDescribed, AbstractConditionalIs
  <2> QED  BY <2>1
<1> HIDE DEF S
<1>2. n \in S
  BY <1>1, TreeInduction
<1>3. Clean(AbstractConditional[n]) /\ AbstractConditional[n] \in Strings
  BY <1>2, AbstractConditionalIs DEF S
<1>4. <<"(", Top(lang)>> \in Strings /\ Clean(<<"(", Top(lang)>>)
  BY TokensAssumption DEF Top, Strings, Clean, Range, ErrorWords
<1>5. /\ <<"(", Top(lang)>> \o AbstractConditional[n] \in Strings
      /\ Clean(<<"(", Top(lang)>> \o AbstractConditional[n])
  BY <1>3, <1>4, CleanCat
<1>6. Clean(<<"(", Top(lang)>> \o AbstractConditional[n] \o Close)
  BY <1>5, CleanEnds, CleanCat
<1> QED  BY <1>6, CleanMin DEF LevelTwo

-----------------------------------------------------------------------------
(* The code blocks of a file.                                              *)

LEMMA ConditionNode ==
  ASSUME NEW l \in Languages, NEW n \in TreesOf[l], IsIfStatement(n)
  PROVE  GetIfConditionNode(n) \in TreesOf[l]
<1> DEFINE K == {k \in DOMAIN n.children : HasField(n.children[k], "condition")}
<1>1. K # {} /\ K \subseteq Nat /\ K \subseteq DOMAIN n.children
  BY TreesAssumption, TreesAreTrees, TreeFacts
<1> HIDE DEF K
<1>2. \E i \in K : \A j \in K : i <= j
  BY <1>1, LeastNumber
<1>3. Min(K) \in K
  BY <1>2 DEF Min
<1> QED  BY <1>1, <1>3, TreeOfFacts DEF GetIfConditionNode, K

LEMMA BlockFacts ==
  ASSUME NEW l \in Languages, NEW n \in TreesOf[l], NEW lang
  PROVE  /\ BlockOf(lang, n) \in Seq(TreesOf[l])
         /\ lang # "VERILOG" =>
              \A k \in DOMAIN BlockOf(lang, n) : ~HasError[BlockOf(lang, n)[k]]
<1> DEFINE b == BlockOf(lang, n)
<1>1. CASE lang = "VERILOG"
  <2>1. b = << >> \/ b = <<n>>
    BY <1>1 DEF BlockOf
  <2> HIDE DEF b
  <2>2. b \in Seq(TreesOf[l])
    BY <2>1, ShortSequences
  <2> QED  BY <1>1, <2>2 DEF b
<1>2. CASE lang # "VERILOG" /\ IsIfStatement(n) /\ ~HasError[GetIfConditionNode(n)]
  <2> DEFINE c == GetIfConditionNode(n)
  <2>1. c \in TreesOf[l] /\ ~HasError[c]
    BY <1>2, ConditionNode
  <2>2. b = <<c>>
    BY <1>2 DEF BlockOf
  <2> HIDE DEF b, c
  <2>3. b \in Seq(TreesOf[l]) /\ \A k \in DOMAIN b : ~HasError[b[k]]
    BY <2>1, <2>2, ShortSequences
  <2> QED  BY <2>3 DEF b
<1>3. CASE lang # "VERILOG" /\ ~(IsIfStatement(n) /\ ~HasError[GetIfConditionNode(n)])
  <2>1. b = << >>
    BY <1>3 DEF BlockOf
  <2> HIDE DEF b
  <2>2. b \in Seq(TreesOf[l]) /\ DOMAIN b = {}
    BY <2>1, ShortSequences
  <2> QED  BY <2>2 DEF b
<1> QED  BY <1>1, <1>2, <1>3

(* A tree and those below it are of one language.                          *)
LEMMA PreorderType ==
  ASSUME NEW l \in Languages, NEW n \in TreesOf[l]
  PROVE  Preorder[n] \in Seq(TreesOf[l])
<1> DEFINE S == {t \in Trees : t \in TreesOf[l] => Preorder[t] \in Seq(TreesOf[l])}
<1>1. ASSUME NEW m \in TreesOf[l], \A k \in DOMAIN m.children : m.children[k] \in S
      PROVE  Preorder[m] \in Seq(TreesOf[l])
  <2>1. m \in Trees /\ m.children \in Seq(TreesOf[l])
        /\ \A k \in DOMAIN m.children : m.children[k] \in TreesOf[l]
    BY TreeOfFacts
  <2>2. \A k \in DOMAIN m.children : Preorder[m.children[k]] \in Seq(TreesOf[l])
    BY <1>1, <2>1
  <2>3. Below(Preorder, m) \in Seq(Seq(TreesOf[l]))
    <3> DEFINE ss == Below(Preorder, m)
    <3>1. /\ ss = [k \in DOMAIN m.children |-> ss[k]]
          /\ \A k \in DOMAIN m.children : ss[k] \in Seq(TreesOf[l])
      BY <2>2 DEF Below
    <3> HIDE DEF ss
    <3>2. ss \in Seq(Seq(TreesOf[l]))
      BY <2>1, <3>1, MapType
    <3> QED  BY <3>2 DEF ss
  <2>4. << <<m>> >> \in Seq(Seq(TreesOf[l]))
    BY ShortSequences
  <2>5. << <<m>> >> \o Below(Preorder, m) \in Seq(Seq(TreesOf[l]))
    BY <2>3, <2>4, JoinedSequences
  <2> QED  BY <2>1, <2>5, PreorderIs, FlattenType
<1>2. \A m \in Trees : (\A k \in DOMAIN m.children : m.children[k] \in S) => m \in S
  BY <1>1
<1>3. n \in Trees
  BY TreesAreTrees
<1> HIDE DEF S
<1>4. n \in S
  BY <1>2, <1>3, TreeInduction
<1> QED  BY <1>4 DEF S

(* The blocks of a file are trees of its language, and without parse       *)
(* errors but in Verilog.                                                  *)
LEMMA CodeBlocksAreTrees ==
  ASSUME NEW l \in Languages, NEW n \in TreesOf[l], NEW lang
  PROVE  /\ CodeBlocksOf(lang, n) \in Seq(TreesOf[l])
         /\ lang # "VERILOG" =>
              \A k \in DOMAIN CodeBlocksOf(lang, n) :
                ~HasError[CodeBlocksOf(lang, n)[k]]
<1> DEFINE below == Tail(Preorder[n])
           ss == [k \in DOMAIN below |-> BlockOf(lang, below[k])]
           Sound == {t \in TreesOf[l] : lang # "VERILOG" => ~HasError[t]}
<1>1. below \in Seq(TreesOf[l])
  <2>1. << <<n>> >> \in Seq(Seq(Trees)) /\ <<n>> \in Seq(Trees) /\ n \in Trees
    BY TreesAreTrees
  <2>2. Below(Preorder, n) \in Seq(Seq(Trees))
    BY <2>1, PreorderIs, BelowSeq
  <2>3. Preorder[n] = <<n>> \o FlattenSeq(Below(Preorder, n))
    BY <2>1, <2>2, PreorderIs, FlattenCons
  <2>4. FlattenSeq(Below(Preorder, n)) \in Seq(Trees)
    BY <2>2, FlattenType
  <2>5. Preorder[n] # << >>
    BY <2>3, <2>4
  <2>6. Preorder[n] \in Seq(TreesOf[l])
    BY PreorderType
  <2> QED  BY <2>5, <2>6, JoinedSequences
<1> HIDE DEF below
<1>2. \A k \in DOMAIN below : ss[k] \in Seq(Sound)
  <2>1. ASSUME NEW t \in TreesOf[l] PROVE BlockOf(lang, t) \in Seq(Sound)
    <3>1. \A j \in DOMAIN BlockOf(lang, t) : BlockOf(lang, t)[j] \in Sound
      BY BlockFacts
    <3> HIDE DEF Sound
    <3> QED  BY <3>1, BlockFacts
  <2>2. \A k \in DOMAIN below : below[k] \in TreesOf[l]
    BY <1>1
  <2> QED  BY <2>1, <2>2
<1>3. ss \in Seq(Seq(Sound))
  <2>1. ss = [k \in DOMAIN below |-> ss[k]]
    OBVIOUS
  <2> HIDE DEF ss, Sound
  <2> QED  BY <1>1, <1>2, <2>1, MapType
<1> HIDE DEF ss, Sound
<1>4. FlattenSeq(ss) \in Seq(Sound)
  BY <1>3, FlattenType
<1>5. CodeBlocksOf(lang, n) = FlattenSeq(ss)
  BY DEF CodeBlocksOf, below, ss
<1>6. CodeBlocksOf(lang, n) \in Seq(Sound)
  BY <1>4, <1>5
<1> DEFINE s == CodeBlocksOf(lang, n)
<1> HIDE DEF s
<1>7. s \in Seq(Sound) => s \in Seq(TreesOf[l]) /\ \A k \in DOMAIN s : s[k] \in Sound
  <2>1. Sound \subseteq TreesOf[l]
    BY DEF Sound
  <2> QED  BY <2>1
<1> QED  BY <1>6, <1>7 DEF s, Sound

-----------------------------------------------------------------------------
(* The invariant.                                                          *)

(* The blocks of the f-th file, none of one that cannot be read.           *)
Blocks(f) ==
  IF f = 0 \/ files[f] = Unreadable THEN << >> ELSE CodeBlocksOf(language, files[f])

(* The line of a kind for a block x, a file and a place in it; the three   *)
(* lines of one, and those of many blocks.                                 *)
LineOf(kind, x) ==
  [kind |-> kind, file |-> x[1], block |-> x[2],
   text |-> LineText(kind, Blocks(x[1])[x[2]])]

ThreeLines(x) == [i \in 1..3 |-> LineOf(LineKinds[i], x)]
LinesOf(xs) == FlattenSeq([k \in DOMAIN xs |-> ThreeLines(xs[k])])
(* The lines a job has printed of the block at hand.                       *)
Printed(j) == [i \in 1..j.printed |-> LineOf(LineKinds[i], <<j.file, j.block>>)]

(* Where a slot prints to: its log, or the output for the only one without *)
(* GNU parallel.                                                           *)
Log(s) == IF has_parallel THEN proc_log[s] ELSE IF s = 1 THEN output ELSE << >>
(* Every name names the file it is of.                                     *)
InOrder == NameList = [f \in DOMAIN files |-> f]

(* The parts of the invariant: the arguments ...                           *)
ArgumentsInv ==
  /\ language \in Languages /\ usable \in BOOLEAN /\ output_exists \in BOOLEAN
  /\ has_parallel \in BOOLEAN
  /\ files \in Seq(TreesOf[language] \cup {Unreadable})
  /\ words \in Seq(Seq(0..Len(files))) /\ Len(words) = Len(files)

(* ... the jobs: a job has the blocks of its file, and begins no block     *)
(* that is skipped ...                                                     *)
Job(j) ==
  /\ j \in [file : 0..Len(files), blocks : Seq(Trees), block : Nat \ {0}, printed : 0..2]
  /\ j.blocks = Blocks(j.file)
  /\ j.printed > 0 => /\ j.block <= Len(j.blocks)
                      /\ ~LevelTwoThrows(language, j.blocks[j.block])

JobsInv ==
  /\ job = [s \in Slots |-> job[s]]
  /\ \A s \in Slots : job[s] = NoJob \/ Job(job[s])
  /\ ~has_parallel => \A s \in Slots \ {1} : job[s] = NoJob

(* ... and the phases, and what there is in each.                          *)
Idle == \A s \in Slots : job[s] = NoJob
NoLogs == proc_log = [s \in Slots |-> << >>]

PhaseInv ==
  /\ phase \in {"checking", "dumping", "concatenating", "done", "usage"}
  /\ next_file \in 1..Len(NameList) + 1
  /\ concatenated \in 0..NUM_MINER_PROCS
  /\ proc_log = [s \in Slots |-> proc_log[s]]
  /\ phase \in {"checking", "usage"} =>
       /\ next_file = 1 /\ Idle /\ NoLogs /\ concatenated = 0
       /\ output = IF output_exists THEN Old ELSE << >>
  /\ phase \notin {"checking", "usage"} => ~output_exists
  /\ phase = "dumping" => concatenated = 0 /\ (has_parallel => output = << >>)
  /\ phase \in {"concatenating", "done"} => Idle /\ next_file > Len(NameList)
  /\ phase = "concatenating" => has_parallel
  /\ phase = "done" \/ ~has_parallel => NoLogs

(* Blocks of files that no job has taken, and those a job has not done     *)
(* with.                                                                   *)
Pending(x) ==
  \/ x[1] >= next_file
  \/ \E s \in Slots : job[s] # NoJob /\ job[s].file = x[1] /\ job[s].block <= x[2]

Distinct(xs) == \A i, k \in DOMAIN xs : xs[i] = xs[k] => i = k

(* bs, what each slot has printed, has each block once that is not         *)
(* pending.                                                                *)
OnceEach(bs) ==
  /\ \A s \in Slots : Distinct(bs[s])
  /\ \A s, t \in Slots : s # t => Range(bs[s]) \cap Range(bs[t]) = {}
  /\ \A x \in Minable : Pending(x) <=> \A s \in Slots : x \notin Range(bs[s])
  /\ \A s \in Slots : job[s] # NoJob => job[s].file < next_file
  /\ \A s, t \in Slots : s # t /\ job[s] # NoJob /\ job[t] # NoJob
                           => job[s].file # job[t].file

(* The logs are the lines of the blocks printed, with the lines of the     *)
(* block at hand, and the output is the lines of out.                      *)
Mined(bs, out) ==
  /\ phase # "done" => \A s \in Slots : Log(s) = LinesOf(bs[s]) \o Printed(job[s])
  /\ ~has_parallel => \A s \in Slots \ {1} : bs[s] = << >>
  /\ InOrder => OnceEach(bs)
  /\ phase \in {"concatenating", "done"} =>
      /\ output = LinesOf(out)
      /\ InOrder =>
           /\ Distinct(out)
           /\ phase = "concatenating" =>
                Range(out) = UNION {Range(bs[s]) : s \in 1..concatenated}
           /\ phase = "done" => Range(out) = Minable

-----------------------------------------------------------------------------
(* Blocks and their lines.                                                 *)

(* The lines of the blocks there are to mine.                              *)
MinedLines == {LineOf(kind, x) : kind \in {"comment", "ONE", "TWO"}, x \in Minable}

LEMMA BlocksAreTrees ==
  ASSUME ArgumentsInv, NEW f \in 0..Len(files)
  PROVE  /\ Blocks(f) \in Seq(Trees) /\ Blocks(f) \in Seq(TreesOf[language])
         /\ language # "VERILOG" => \A k \in DOMAIN Blocks(f) : ~HasError[Blocks(f)[k]]
<1> language \in Languages
  BY DEF ArgumentsInv
<1>1. CASE f = 0 \/ files[f] = Unreadable
  <2>1. Blocks(f) = << >>
    BY <1>1 DEF Blocks
  <2> QED  BY <2>1, ShortSequences
<1>2. CASE f # 0 /\ files[f] # Unreadable
  <2>1. files[f] \in TreesOf[language]
    BY <1>2 DEF ArgumentsInv
  <2>2. Blocks(f) = CodeBlocksOf(language, files[f])
    BY <1>2 DEF Blocks
  <2>3. /\ Blocks(f) \in Seq(TreesOf[language])
        /\ language # "VERILOG" => \A k \in DOMAIN Blocks(f) : ~HasError[Blocks(f)[k]]
    BY <2>1, <2>2, CodeBlocksAreTrees
  <2>4. TreesOf[language] \in SUBSET Trees
    BY TreesAreTrees
  <2>5. Blocks(f) \in Seq(Trees)
    BY <2>3, <2>4, SubSequences
  <2> QED  BY <2>3, <2>5
<1> QED  BY <1>1, <1>2

(* What Minable is in terms of Blocks.                                     *)
LEMMA MinableIs ==
  ASSUME ArgumentsInv
  PROVE  Minable = {x \in (1..Len(files)) \X Nat :
                      /\ x[2] \in DOMAIN Blocks(x[1])
                      /\ ~LevelTwoThrows(language, Blocks(x[1])[x[2]])}
<1> DEFINE F == {g \in DOMAIN files : files[g] # Unreadable}
           B(f) == CodeBlocksOf(language, files[f])
<1>1. DOMAIN files = 1..Len(files)
  BY DEF ArgumentsInv
<1>2. ASSUME NEW f \in F PROVE DOMAIN B(f) \subseteq Nat /\ B(f) = Blocks(f) /\ f \in 1..Len(files)
  <2>1. f \in 0..Len(files) /\ f # 0
    BY <1>1, <1>2 DEF ArgumentsInv
  <2>2. B(f) = Blocks(f)
    BY <1>2, <2>1 DEF Blocks
  <2>3. Blocks(f) \in Seq(Trees)
    BY <2>1, BlocksAreTrees
  <2> QED  BY <1>1, <1>2, <2>2, <2>3
<1>3. ASSUME NEW f \in 1..Len(files), NEW b \in DOMAIN Blocks(f) PROVE f \in F
  BY <1>1, <1>3 DEF Blocks
<1>4. Minable = UNION {{<<f, b>> : b \in {c \in DOMAIN B(f) :
                                       ~LevelTwoThrows(language, B(f)[c])}}
                       : f \in F}
  BY DEF Minable
<1> HIDE DEF B, F
<1> QED  BY <1>2, <1>3, <1>4

(* The lines of a block have their type, tell the block, and have no parse *)
(* error but in Verilog.                                                   *)
LEMMA LineFacts ==
  ASSUME ArgumentsInv, NEW x \in Minable, NEW kind \in {"comment", "ONE", "TWO"}
  PROVE  /\ x[1] \in 1..Len(files) /\ x[2] \in Nat \ {0} /\ x = <<x[1], x[2]>>
         /\ Blocks(x[1])[x[2]] \in Trees
         /\ Blocks(x[1])[x[2]] \in TreesOf[language]
         /\ LineOf(kind, x) \in MinedLines /\ LineOf(kind, x) \in Line
         /\ LineOf(kind, x).kind = kind
         /\ <<LineOf(kind, x).file, LineOf(kind, x).block>> = x
         /\ language # "VERILOG" => Clean(LineOf(kind, x).text)
<1>1. /\ x[1] \in 1..Len(files) /\ x[2] \in DOMAIN Blocks(x[1]) /\ x = <<x[1], x[2]>>
  BY MinableIs
<1> DEFINE n == Blocks(x[1])[x[2]]
<1>2. x[1] \in 0..Len(files)
  BY <1>1
<1>3. /\ n \in Trees /\ n \in TreesOf[language] /\ x[2] \in Nat \ {0}
      /\ language # "VERILOG" => ~HasError[n]
  BY <1>1, <1>2, BlocksAreTrees
<1> HIDE DEF n
<1>4. LineText(kind, n) \in Seq(Tokens)
  <2>1. LevelOne[n] \in Seq(Tokens) /\ LevelTwo(language, n) \in Seq(Tokens)
    <3>1. LevelOne[n] \in Balanced /\ LevelTwo(language, n) \in Balanced
      BY <1>3, LevelOneIsBalanced, LevelTwoIsBalanced
    <3> QED  BY <3>1 DEF Balanced, Strings
  <2> QED  BY <2>1 DEF LineText
<1>5. language # "VERILOG" => Clean(LineText(kind, n))
  BY <1>3, CleanEnds, CleanOne, CleanTwo DEF LineText
<1>6. LineOf(kind, x) = [kind |-> kind, file |-> x[1], block |-> x[2], text |-> LineText(kind, n)]
  BY DEF LineOf, n
<1>7. LineOf(kind, x) \in MinedLines
  BY DEF MinedLines
<1>8. LineOf(kind, x) \in Line
  BY <1>1, <1>3, <1>4, <1>6 DEF Line
<1> QED  BY <1>1, <1>3, <1>5, <1>6, <1>7, <1>8 DEF n

LEMMA ConcatenationIs ==
  ASSUME NEW V, NEW a \in Seq(V), NEW b \in Seq(V)
  PROVE  /\ a \o b \in Seq(V) /\ Len(a \o b) = Len(a) + Len(b)
         /\ Len(a) \in Nat /\ Len(b) \in Nat
         /\ \A k \in 1..Len(a) : (a \o b)[k] = a[k]
         /\ \A k \in 1..Len(b) : (a \o b)[Len(a) + k] = b[k]
OBVIOUS

LEMMA ThreeLinesFacts ==
  ASSUME ArgumentsInv, NEW x \in Minable
  PROVE  /\ ThreeLines(x) \in Seq(MinedLines) /\ Len(ThreeLines(x)) = 3
         /\ \A i \in 1..3 : ThreeLines(x)[i] = LineOf(LineKinds[i], x)
<1>1. \A i \in 1..3 : LineKinds[i] \in {"comment", "ONE", "TWO"}
  BY DEF LineKinds
<1>2. \A i \in 1..3 : LineOf(LineKinds[i], x) \in MinedLines
  BY <1>1, LineFacts
<1> QED  BY <1>2 DEF ThreeLines

LEMMA LinesOfEmpty == LinesOf(<< >>) = << >>
<1>1. [k \in DOMAIN << >> |-> ThreeLines(<< >>[k])] = << >>
  OBVIOUS
<1> QED  BY <1>1, FlattenEmpty DEF LinesOf

(* The lines of blocks in two parts are those of the parts.                *)
LEMMA LinesOfCat ==
  ASSUME ArgumentsInv, NEW xs \in Seq(Minable), NEW ys \in Seq(Minable)
  PROVE  LinesOf(xs \o ys) = LinesOf(xs) \o LinesOf(ys) /\ LinesOf(xs) \in Seq(MinedLines)
<1> DEFINE M(zs) == [k \in DOMAIN zs |-> ThreeLines(zs[k])]
<1>1. ASSUME NEW zs \in Seq(Minable)
      PROVE  /\ M(zs) \in Seq(Seq(MinedLines)) /\ Len(M(zs)) = Len(zs)
             /\ \A k \in 1..Len(zs) : M(zs)[k] = ThreeLines(zs[k])
  <2>1. \A k \in DOMAIN zs : M(zs)[k] \in Seq(MinedLines)
    BY ThreeLinesFacts
  <2>2. M(zs) = [k \in DOMAIN zs |-> M(zs)[k]]
    OBVIOUS
  <2>3. \A k \in DOMAIN zs : M(zs)[k] = ThreeLines(zs[k])
    OBVIOUS
  <2>4. DOMAIN zs = 1..Len(zs)
    OBVIOUS
  <2> HIDE DEF M
  <2>5. M(zs) \in Seq(Seq(MinedLines)) /\ Len(M(zs)) = Len(zs)
    BY <2>1, <2>2, MapType
  <2> QED  BY <2>3, <2>4, <2>5
<1> HIDE DEF M
<1>2. M(xs \o ys) = M(xs) \o M(ys)
  <2> DEFINE zs == xs \o ys
  <2>1. /\ zs \in Seq(Minable) /\ Len(zs) = Len(xs) + Len(ys)
        /\ \A k \in 1..Len(xs) : zs[k] = xs[k]
        /\ \A k \in 1..Len(ys) : zs[Len(xs) + k] = ys[k]
    OBVIOUS
  <2> HIDE DEF zs
  <2>2. Len(xs) \in Nat /\ Len(ys) \in Nat
    OBVIOUS
  <2>3. ASSUME NEW k \in 1..Len(zs) PROVE M(zs)[k] = (M(xs) \o M(ys))[k]
    <3>1. CASE k <= Len(xs)
      <4>1. M(zs)[k] = ThreeLines(zs[k]) /\ zs[k] = xs[k] /\ M(xs)[k] = ThreeLines(xs[k])
        BY <1>1, <2>1, <2>2, <3>1
      <4>2. (M(xs) \o M(ys))[k] = M(xs)[k]
        BY <1>1, <2>2, <3>1
      <4> QED  BY <4>1, <4>2
    <3>2. CASE ~(k <= Len(xs))
      <4> DEFINE i == k - Len(xs)
      <4>1. i \in 1..Len(ys) /\ k = Len(xs) + i
        BY <2>1, <2>2, <3>2
      <4> HIDE DEF i
      <4>2. M(zs)[k] = ThreeLines(zs[k]) /\ zs[k] = ys[i] /\ M(ys)[i] = ThreeLines(ys[i])
        BY <1>1, <2>1, <2>2, <4>1
      <4>3. (M(xs) \o M(ys))[k] = M(ys)[i]
        BY <1>1, <2>2, <4>1
      <4> QED  BY <4>2, <4>3
    <3> QED  BY <3>1, <3>2
  <2> DEFINE a == M(zs)
             b == M(xs) \o M(ys)
  <2>4. a \in Seq(Seq(MinedLines)) /\ Len(a) = Len(zs)
    BY <1>1, <2>1
  <2>5. b \in Seq(Seq(MinedLines)) /\ Len(b) = Len(zs)
    BY <1>1, <2>1
  <2>6. \A k \in 1..Len(zs) : a[k] = b[k]
    BY <2>3
  <2> HIDE DEF a, b
  <2>7. a = b
    BY <2>4, <2>5, <2>6, SeqEqual
  <2> QED  BY <2>7 DEF a, b, zs
<1>3. FlattenSeq(M(xs) \o M(ys)) = FlattenSeq(M(xs)) \o FlattenSeq(M(ys))
      /\ FlattenSeq(M(xs)) \in Seq(MinedLines)
  BY <1>1, FlattenCat
<1> QED  BY <1>2, <1>3 DEF LinesOf, M

LEMMA LinesOfAppend ==
  ASSUME ArgumentsInv, NEW xs \in Seq(Minable), NEW x \in Minable
  PROVE  /\ LinesOf(Append(xs, x)) = LinesOf(xs) \o ThreeLines(x)
         /\ LinesOf(xs) \in Seq(MinedLines)
<1>1. <<x>> \in Seq(Minable) /\ Append(xs, x) = xs \o <<x>>
  OBVIOUS
<1>2. LinesOf(<<x>>) = ThreeLines(x)
  <2>1. [k \in DOMAIN <<x>> |-> ThreeLines(<<x>>[k])] = <<ThreeLines(x)>>
    OBVIOUS
  <2>2. ThreeLines(x) \in Seq(MinedLines)
    BY ThreeLinesFacts
  <2> QED  BY <2>1, <2>2, FlattenOne DEF LinesOf
<1> QED  BY <1>1, <1>2, LinesOfCat

(* The lines of a block are together, in their order.                      *)
LEMMA LinesOfIs ==
  ASSUME ArgumentsInv, NEW xs \in Seq(Minable)
  PROVE  /\ Len(LinesOf(xs)) = 3 * Len(xs)
         /\ \A k \in 1..Len(xs), i \in 1..3 :
              LinesOf(xs)[3 * (k - 1) + i] = LineOf(LineKinds[i], xs[k])
<1> DEFINE Is(ys) == /\ Len(LinesOf(ys)) = 3 * Len(ys)
                     /\ \A k \in 1..Len(ys), i \in 1..3 :
                          LinesOf(ys)[3 * (k - 1) + i] = LineOf(LineKinds[i], ys[k])
           S == {n \in Nat : \A ys \in Seq(Minable) : Len(ys) = n => Is(ys)}
<1>1. 0 \in S
  <2>1. ASSUME NEW ys \in Seq(Minable), Len(ys) = 0 PROVE Is(ys)
    <3>1. ys = << >> /\ LinesOf(ys) = << >>
      BY <2>1, LinesOfEmpty
    <3> QED  BY <3>1
  <2> HIDE DEF Is
  <2> QED  BY <2>1
<1>2. ASSUME NEW n \in Nat, n \in S PROVE n + 1 \in S
  <2>1. ASSUME NEW ys \in Seq(Minable), Len(ys) = n + 1 PROVE Is(ys)
    <3> DEFINE zs == ButLast(ys, n)
               x == ys[n + 1]
    <3>1. /\ zs \in Seq(Minable) /\ x \in Minable /\ Len(zs) = n
          /\ ys = Append(zs, x)
      BY <2>1, Unappend
    <3>2. \A k \in 1..n : zs[k] = ys[k]
      BY DEF ButLast
    <3> HIDE DEF zs
    <3>3. Is(zs)
      BY <1>2, <3>1
    <3> DEFINE a == LinesOf(zs)
               b == ThreeLines(x)
    <3>4. /\ LinesOf(ys) = a \o b /\ a \in Seq(MinedLines) /\ b \in Seq(MinedLines)
          /\ Len(a) = 3 * n /\ Len(b) = 3
          /\ \A i \in 1..3 : b[i] = LineOf(LineKinds[i], x)
      BY <3>1, <3>3, LinesOfAppend, ThreeLinesFacts
    <3>5. \A k \in 1..n, i \in 1..3 : a[3 * (k - 1) + i] = LineOf(LineKinds[i], ys[k])
      BY <3>1, <3>2, <3>3
    <3> HIDE DEF a, b, x
    <3>6. Len(LinesOf(ys)) = 3 * Len(ys)
      <4>1. Len(a \o b) = Len(a) + Len(b)
        BY <3>4, ConcatenationIs
      <4> QED  BY <2>1, <3>4, <4>1
    <3>7. ASSUME NEW k \in 1..Len(ys), NEW i \in 1..3
          PROVE  LinesOf(ys)[3 * (k - 1) + i] = LineOf(LineKinds[i], ys[k])
      <4>1. CASE k \in 1..n
        <5>1. 3 * (k - 1) + i \in 1..3 * n
          BY <4>1
        <5>2. (a \o b)[3 * (k - 1) + i] = a[3 * (k - 1) + i]
          BY <3>4, <5>1
        <5> QED  BY <3>4, <3>5, <4>1, <5>2
      <4>2. CASE k = n + 1
        <5>1. 3 * (k - 1) + i = 3 * n + i
          BY <4>2
        <5>2. (a \o b)[3 * n + i] = b[i]
          <6>1. i \in 1..Len(b)
            BY <3>4
          <6>2. (a \o b)[Len(a) + i] = b[i]
            <7>1. a \in Seq(MinedLines) /\ b \in Seq(MinedLines)
              BY <3>4
            <7>2. \A j \in 1..Len(b) : (a \o b)[Len(a) + j] = b[j]
              BY ONLY <7>1, ConcatenationIs
            <7> QED  BY <6>1, <7>2
          <6> QED  BY <3>4, <6>2
        <5> QED  BY <3>4, <4>2, <5>1, <5>2 DEF x
      <4> QED  BY <2>1, <4>1, <4>2
    <3> QED  BY <3>6, <3>7
  <2> HIDE DEF Is
  <2> QED  BY <2>1
<1> HIDE DEF S
<1>3. Len(xs) \in S
  BY <1>1, <1>2, Induction
<1> QED  BY <1>3 DEF S

(* Names that are words are taken in their order.                          *)
LEMMA WordsInOrder ==
  ASSUME ArgumentsInv, has_parallel \/ NamesAreWords
  PROVE  InOrder
<1>1. CASE has_parallel
  BY <1>1 DEF InOrder, NameList
<1>2. CASE ~has_parallel
  <2>1. NamesAreWords
    BY <1>2
  <2> DEFINE W == 0..Len(files)
             id(n) == [f \in 1..n |-> f]
             S == {n \in Nat : n <= Len(files) => FlattenSeq(ButLast(words, n)) = id(n)}
  <2>2. /\ words \in Seq(Seq(W)) /\ Len(words) = Len(files) /\ Len(files) \in Nat
        /\ DOMAIN files = 1..Len(files) /\ \A f \in 1..Len(files) : words[f] = <<f>>
    <3>1. words \in Seq(Seq(W)) /\ Len(words) = Len(files)
      BY DEF ArgumentsInv
    <3>2. Len(files) \in Nat /\ DOMAIN files = 1..Len(files)
      BY DEF ArgumentsInv
    <3> QED  BY <2>1, <3>1, <3>2 DEF NamesAreWords
  <2> HIDE DEF W
  <2>3. 0 \in S
    <3>1. ButLast(words, 0) = << >> /\ id(0) = << >>
      BY DEF ButLast
    <3> QED  BY <3>1, FlattenEmpty
  <2>4. ASSUME NEW n \in Nat, n \in S PROVE n + 1 \in S
    <3>1. SUFFICES ASSUME n + 1 <= Len(files)
                   PROVE  FlattenSeq(ButLast(words, n + 1)) = id(n + 1)
      OBVIOUS
    <3>2. /\ n + 1 \in 1..Len(files) /\ n + 1 \in W /\ words[n + 1] = <<n + 1>>
          /\ words[n + 1] \in Seq(W)
      BY <2>2, <3>1 DEF W
    <3>3. ButLast(words, n) \in Seq(Seq(W))
          /\ ButLast(words, n + 1) = Append(ButLast(words, n), words[n + 1])
      BY <2>2, <3>1 DEF ButLast
    <3>4. FlattenSeq(ButLast(words, n + 1)) = FlattenSeq(ButLast(words, n)) \o <<n + 1>>
      BY <3>2, <3>3, FlattenAppend
    <3>5. FlattenSeq(ButLast(words, n)) = id(n)
      BY <2>2, <2>4, <3>1
    <3>6. id(n) \o <<n + 1>> = id(n + 1)
      OBVIOUS
    <3> QED  BY <3>4, <3>5, <3>6
  <2> HIDE DEF S
  <2>5. Len(files) \in S
    BY <2>2, <2>3, <2>4, Induction
  <2>6. ButLast(words, Len(files)) = words
    BY <2>2 DEF ButLast
  <2> QED  BY <1>2, <2>2, <2>5, <2>6 DEF S, InOrder, NameList
<1> QED  BY <1>1, <1>2

AtWork == phase \in {"dumping", "concatenating", "done"}

(* The inductive invariant: what MinedOnceAndWhole says when all is done   *)
(* is true because at any time some sequences of whole blocks, disjoint    *)
(* ones for each slot, account for what was printed and for what is not    *)
(* pending.                                                                *)
IInv ==
  /\ ArgumentsInv /\ JobsInv /\ PhaseInv
  /\ AtWork => \E bs \in [Slots -> Seq(Minable)], out \in Seq(Minable) : Mined(bs, out)

-----------------------------------------------------------------------------
(* The steps of the script.                                                *)

(* Nothing that depends on the arguments only ever changes.                *)
LEMMA ArgumentsStay ==
  ASSUME UNCHANGED arguments
  PROVE  /\ Minable' = Minable /\ NameList' = NameList /\ (InOrder' <=> InOrder)
         /\ language' = language /\ files' = files /\ output_exists' = output_exists
         /\ has_parallel' = has_parallel
         /\ \A f : Blocks(f)' = Blocks(f)
         /\ \A kind, x : LineOf(kind, x)' = LineOf(kind, x)
         /\ \A xs : LinesOf(xs)' = LinesOf(xs)
         /\ \A j : Job(j)' <=> Job(j)
         /\ \A j : Printed(j)' = Printed(j)
         /\ ArgumentsInv' <=> ArgumentsInv
<1>1. /\ language' = language /\ files' = files /\ words' = words
      /\ usable' = usable /\ output_exists' = output_exists
      /\ has_parallel' = has_parallel
  BY DEF arguments
<1>2. NameList' = NameList
  BY <1>1 DEF NameList
<1>3. \A f : Blocks(f)' = Blocks(f)
  BY <1>1 DEF Blocks
<1>4. \A kind, x : LineOf(kind, x)' = LineOf(kind, x)
  BY <1>1, <1>3 DEF LineOf, LineText
<1>5. \A xs : LinesOf(xs)' = LinesOf(xs)
  BY <1>4 DEF LinesOf, ThreeLines
<1>6. \A j : Printed(j)' = Printed(j)
  BY <1>4 DEF Printed
<1>7. \A j : Job(j)' <=> Job(j)
  BY <1>1, <1>3 DEF Job
<1>8. Minable' = Minable
  BY <1>1 DEF Minable
<1>9. (ArgumentsInv' <=> ArgumentsInv) /\ (InOrder' <=> InOrder)
  BY <1>1, <1>2 DEF ArgumentsInv, InOrder
<1> QED  BY <1>1, <1>2, <1>3, <1>4, <1>5, <1>6, <1>7, <1>8, <1>9

LEMMA NamesType ==
  ASSUME ArgumentsInv
  PROVE  NameList \in Seq(0..Len(files)) /\ Len(NameList) \in Nat
<1>1. files \in Seq(TreesOf[language] \cup {Unreadable}) /\ Len(files) \in Nat
      /\ DOMAIN files = 1..Len(files)
  BY DEF ArgumentsInv
<1>2. words \in Seq(Seq(0..Len(files)))
  BY DEF ArgumentsInv
<1>3. [f \in DOMAIN files |-> f] \in Seq(0..Len(files))
  BY <1>1
<1>4. FlattenSeq(words) \in Seq(0..Len(files))
  BY <1>2, FlattenType
<1>5. NameList \in Seq(0..Len(files))
  BY <1>3, <1>4 DEF NameList
<1> QED  BY <1>5

LEMMA NothingPrinted ==
  ASSUME NEW j, j.printed = 0
  PROVE  Printed(j) = << >>
BY DEF Printed

LEMMA MinedLinesFacts ==
  ASSUME ArgumentsInv, NEW xs \in Seq(Minable)
  PROVE  LinesOf(xs) \in Seq(MinedLines) /\ LinesOf(xs) \o << >> = LinesOf(xs)
<1>1. LinesOf(xs) \in Seq(MinedLines)
  BY LinesOfCat
<1> HIDE DEF LinesOf
<1> QED  BY <1>1

(* The first states.                                                       *)
LEMMA InitInv ==
  ASSUME Init
  PROVE  IInv
<1>1. PICK r \in Repositories : language = r[1] /\ files = r[2] /\ words = r[3]
  BY DEF Init
<1>2. ArgumentsInv
  BY <1>1, RepositoriesAssumption DEF Init, ArgumentsInv
<1>3. JobsInv
  BY DEF Init, JobsInv
<1>4. PhaseInv
  <2>1. next_file \in 1..Len(NameList) + 1
    BY <1>2, NamesType DEF Init
  <2>2. concatenated \in 0..NUM_MINER_PROCS
    BY MinersAssumption DEF Init
  <2> QED  BY <2>1, <2>2 DEF Init, PhaseInv, Idle, NoLogs
<1> QED  BY <1>2, <1>3, <1>4 DEF Init, IInv, AtWork

(* Checking the arguments: no block is printed, and all are pending.       *)
LEMMA CheckArgumentsInv ==
  ASSUME IInv, CheckArguments
  PROVE  IInv'
<1>1. UNCHANGED arguments
  BY DEF CheckArguments
<1>2. ArgumentsInv' /\ ArgumentsInv
  BY <1>1, ArgumentsStay DEF IInv
<1>3. JobsInv'
  BY <1>1, ArgumentsStay DEF IInv, JobsInv, CheckArguments
<1>4. PhaseInv'
  BY <1>1, ArgumentsStay DEF IInv, PhaseInv, CheckArguments, Idle, NoLogs, Accepts
<1>5. ASSUME AtWork'
      PROVE  \E bs \in [Slots -> Seq(Minable')], out \in Seq(Minable') : Mined(bs, out)'
  <2> DEFINE bs == [s \in Slots |-> << >>]
             out == << >>
  <2>1. /\ bs \in [Slots -> Seq(Minable')] /\ out \in Seq(Minable')
        /\ \A s \in Slots : bs[s] = << >>
    OBVIOUS
  <2>2. /\ phase = "checking" /\ phase' = "dumping" /\ ~output_exists
        /\ \A s \in Slots : job'[s] = NoJob /\ proc_log'[s] = << >>
        /\ output' = << >> /\ next_file' = 1
    BY <1>5 DEF AtWork, CheckArguments, IInv, PhaseInv, Idle, NoLogs, Accepts
  <2> HIDE DEF bs
  <2>3. ASSUME NEW s \in Slots PROVE Log(s)' = LinesOf(bs[s])' \o Printed(job[s])'
    <3>1. Printed(job[s])' = << >>
      BY <2>2, NothingPrinted DEF Printed, NoJob
    <3>2. LinesOf(bs[s])' = << >>
      BY <1>1, <2>1, LinesOfEmpty, ArgumentsStay
    <3>3. Log(s)' = << >>
      BY <2>2 DEF Log
    <3> QED  BY <3>1, <3>2, <3>3
  <2>4. OnceEach(bs)'
    <3>1. \A x \in Minable' : Pending(x)'
      <4>1. \A x \in Minable : x[1] \in 1..Len(files)
        BY <1>2, LineFacts
      <4> QED  BY <1>1, <2>2, <4>1, ArgumentsStay DEF Pending
    <3>2. \A s \in Slots : Range(bs[s]) = {}
      BY <2>1 DEF Range
    <3>3. \A s \in Slots : Distinct(bs[s])
      BY <2>1 DEF Distinct
    <3> QED  BY <2>2, <3>1, <3>2, <3>3 DEF OnceEach
  <2>5. Mined(bs, out)'
    BY <2>1, <2>2, <2>3, <2>4 DEF Mined
  <2> QED  BY <2>1, <2>5
<1> QED  BY <1>2, <1>3, <1>4, <1>5 DEF IInv

LEMMA JobFacts ==
  ASSUME IInv, NEW s \in Slots, job[s] # NoJob
  PROVE  /\ Job(job[s]) /\ job[s].file \in 0..Len(files) /\ job[s].block \in Nat \ {0}
         /\ job[s].printed \in 0..2 /\ job[s].blocks \in Seq(Trees)
         /\ job[s].blocks = Blocks(job[s].file)
BY DEF IInv, JobsInv, Job

(* A step of a job that prints nothing.                                    *)
LEMMA QuietStep ==
  ASSUME IInv, phase = "dumping",
         UNCHANGED <<arguments, phase, proc_log, concatenated, output>>,
         NEW s \in Slots, NEW j, job' = [job EXCEPT ![s] = j],
         next_file' \in next_file..Len(NameList) + 1,
         j = NoJob \/ Job(j), has_parallel \/ s = 1,
         job[s].printed = 0, j.printed = 0,
         InOrder => \A x \in Minable : Pending(x)' <=> Pending(x),
         InOrder /\ j # NoJob =>
           /\ j.file < next_file'
           /\ \A t \in Slots \ {s} : job[t] # NoJob => job[t].file # j.file
  PROVE  IInv'
<1>1. UNCHANGED arguments /\ ArgumentsInv /\ ArgumentsInv'
  BY ArgumentsStay DEF IInv
<1>2. JobsInv /\ job = [t \in Slots |-> job[t]]
  BY DEF IInv, JobsInv
<1>3. job' = [t \in Slots |-> job'[t]] /\ job'[s] = j
      /\ \A t \in Slots \ {s} : job'[t] = job[t]
  BY <1>2
<1>4. JobsInv'
  BY <1>1, <1>2, <1>3, ArgumentsStay DEF JobsInv
<1>5. PhaseInv'
  <2>1. next_file' \in 1..Len(NameList) + 1
    BY <1>1, NamesType DEF IInv, PhaseInv
  <2> QED  BY <1>1, <2>1, ArgumentsStay DEF IInv, PhaseInv, NoLogs
<1>6. ASSUME NEW bs \in [Slots -> Seq(Minable)], NEW out \in Seq(Minable),
             Mined(bs, out)
      PROVE  Mined(bs, out)'
  <2>1. ASSUME NEW t \in Slots PROVE Log(t)' = LinesOf(bs[t])' \o Printed(job[t])'
    <3>1. Log(t)' = Log(t) /\ LinesOf(bs[t])' = LinesOf(bs[t])
      BY <1>1, ArgumentsStay DEF Log
    <3>2. Printed(job[t])' = Printed(job[t])
      <4>1. CASE t = s
        <5>1. Printed(job[t])' = << >>
          BY <1>3, <4>1 DEF Printed
        <5> QED  BY <4>1, <5>1, NothingPrinted
      <4>2. CASE t # s
        <5>1. job'[t] = job[t]
          BY <1>3, <4>2
        <5>2. language' = language /\ files' = files
          BY <1>1 DEF arguments
        <5> QED  BY <5>1, <5>2 DEF Printed, LineOf, LineText, Blocks
      <4> QED  BY <4>1, <4>2
    <3> QED  BY <1>6, <3>1, <3>2 DEF Mined
  <2>2. ASSUME InOrder PROVE OnceEach(bs)'
    <3>1. OnceEach(bs)
      BY <1>6, <2>2 DEF Mined
    <3>2. \A x \in Minable' : Pending(x)' <=> \A t \in Slots : x \notin Range(bs[t])
      BY <1>1, <2>2, <3>1, ArgumentsStay DEF OnceEach
    <3>3. \A t \in Slots : job'[t] # NoJob => job'[t].file < next_file'
      <4>1. ASSUME NEW t \in Slots, t # s, job[t] # NoJob
            PROVE  job[t].file < next_file'
        <5>1. job[t].file < next_file /\ job[t].file \in Nat
          BY <3>1, <4>1, JobFacts DEF OnceEach
        <5>2. next_file \in Nat /\ next_file' \in Nat /\ next_file <= next_file'
          BY <1>1, NamesType DEF IInv, PhaseInv
        <5> QED  BY <5>1, <5>2
      <4> QED  BY <1>3, <2>2, <4>1
    <3>4. \A t, u \in Slots : t # u /\ job'[t] # NoJob /\ job'[u] # NoJob
                                => job'[t].file # job'[u].file
      BY <1>3, <2>2, <3>1 DEF OnceEach
    <3> QED  BY <3>1, <3>2, <3>3, <3>4 DEF OnceEach
  <2> QED  BY <1>1, <1>6, <2>1, <2>2, ArgumentsStay DEF Mined
<1>7. AtWork' /\ AtWork
  BY DEF AtWork
<1>8. PICK bs \in [Slots -> Seq(Minable)], out \in Seq(Minable) : Mined(bs, out)
  BY <1>7 DEF IInv
<1>9. \E cs \in [Slots -> Seq(Minable')], o \in Seq(Minable') : Mined(cs, o)'
  BY <1>1, <1>6, <1>8, ArgumentsStay
<1> QED  BY <1>1, <1>4, <1>5, <1>9 DEF IInv

(* What one job's change does to the blocks that are pending.              *)
LEMMA PendingStep ==
  ASSUME IInv, NEW s \in Slots, NEW j, job' = [job EXCEPT ![s] = j],
         NEW x,
         (\/ x[1] >= next_file'
          \/ j # NoJob /\ j.file = x[1] /\ j.block <= x[2])
         <=> (\/ x[1] >= next_file
              \/ job[s] # NoJob /\ job[s].file = x[1] /\ job[s].block <= x[2])
  PROVE  Pending(x)' <=> Pending(x)
<1>1. job' = [t \in Slots |-> job'[t]] /\ job'[s] = j
      /\ \A t \in Slots \ {s} : job'[t] = job[t]
  BY DEF IInv, JobsInv
<1> QED  BY <1>1 DEF Pending

(* A job starts: the blocks of its file were pending and still are.        *)
LEMMA StartInv ==
  ASSUME IInv, NEW s \in Slots, Start(s)
  PROVE  IInv'
<1> DEFINE f == NameList[next_file]
           j == [file |-> f, block |-> 1, printed |-> 0,
                 blocks |-> IF f = 0 \/ files[f] = Unreadable THEN << >>
                            ELSE CodeBlocksOf(language, files[f])]
<1>1. /\ phase = "dumping" /\ job[s] = NoJob /\ (has_parallel \/ s = 1)
      /\ next_file <= Len(NameList) /\ job' = [job EXCEPT ![s] = j]
      /\ next_file' = next_file + 1
      /\ UNCHANGED <<arguments, phase, proc_log, concatenated, output>>
  BY DEF Start
<1>2. ArgumentsInv /\ next_file \in 1..Len(NameList) /\ Len(NameList) \in Nat
      /\ NameList \in Seq(0..Len(files))
  BY <1>1, NamesType DEF IInv, PhaseInv
<1>3. f \in 0..Len(files)
  BY <1>2
<1> HIDE DEF f
<1>4. j.file = f /\ j.block = 1 /\ j.printed = 0 /\ j.blocks = Blocks(f)
      /\ j = [file |-> f, blocks |-> Blocks(f), block |-> 1, printed |-> 0]
  BY DEF Blocks
<1> HIDE DEF j
<1>5. Job(j)
  BY <1>2, <1>3, <1>4, BlocksAreTrees DEF Job
<1>6. j # NoJob
  BY <1>4 DEF NoJob
<1>7. job[s].printed = 0
  BY <1>1 DEF NoJob
<1>8. ASSUME InOrder
      PROVE  /\ f = next_file
             /\ \A x \in Minable : Pending(x)' <=> Pending(x)
             /\ \A t \in Slots \ {s} : job[t] # NoJob => job[t].file # f
  <2>1. f = next_file
    <3>1. NameList = [g \in DOMAIN files |-> g] /\ DOMAIN NameList = 1..Len(NameList)
      BY <1>2, <1>8 DEF InOrder
    <3> QED  BY <1>2, <3>1 DEF f
  <2>2. ASSUME NEW x \in Minable PROVE Pending(x)' <=> Pending(x)
    <3>1. x[1] \in Nat /\ x[2] \in Nat \ {0} /\ next_file \in Nat
      BY <1>2, LineFacts
    <3>2. (\/ x[1] >= next_file'
           \/ j # NoJob /\ j.file = x[1] /\ j.block <= x[2])
          <=> (\/ x[1] >= next_file
               \/ job[s] # NoJob /\ job[s].file = x[1] /\ job[s].block <= x[2])
      BY <1>1, <1>4, <1>6, <2>1, <3>1
    <3> QED  BY <1>1, <3>2, PendingStep
  <2>3. ASSUME NEW t \in Slots, job[t] # NoJob PROVE job[t].file # f
    <3>1. AtWork
      BY <1>1 DEF AtWork
    <3>2. job[t].file < next_file
      BY <1>8, <2>3, <3>1 DEF IInv, Mined, OnceEach
    <3>3. job[t].file \in Nat /\ next_file \in Nat
      BY <1>2, <2>3, JobFacts
    <3> QED  BY <2>1, <3>2, <3>3
  <2> QED  BY <2>1, <2>2, <2>3
<1>9. next_file' \in next_file..Len(NameList) + 1
  BY <1>1, <1>2
<1>10. InOrder => j.file < next_file'
  BY <1>1, <1>2, <1>4, <1>8
<1> QED  BY <1>1, <1>4, <1>5, <1>7, <1>8, <1>9, <1>10, QuietStep

LEMMA NextBlockFacts ==
  ASSUME NEW j, Job(j)
  PROVE  /\ NextBlock(j).file = j.file /\ NextBlock(j).block = j.block + 1
         /\ NextBlock(j).printed = 0 /\ NextBlock(j).blocks = j.blocks
         /\ Job(NextBlock(j)) /\ NextBlock(j) # NoJob
<1> DEFINE R == [file : 0..Len(files), blocks : Seq(Trees), block : Nat \ {0}, printed : 0..2]
           n == NextBlock(j)
<1>1. j \in R
  BY DEF Job
<1>2. /\ n.file = j.file /\ n.blocks = j.blocks /\ n.block = j.block + 1 /\ n.printed = 0
  BY <1>1 DEF NextBlock
<1>3. n \in R
  <2>1. \A r \in R : [r EXCEPT !.block = @ + 1] \in R
    OBVIOUS
  <2>2. \A r \in R : [r EXCEPT !.printed = 0] \in R
    OBVIOUS
  <2>3. n = [[j EXCEPT !.block = @ + 1] EXCEPT !.printed = 0]
    BY DEF NextBlock
  <2> HIDE DEF R, n
  <2> QED  BY <1>1, <2>1, <2>2, <2>3
<1>4. n.block # NoJob.block
  BY <1>1, <1>2 DEF NoJob
<1> HIDE DEF n
<1>5. Job(n) /\ n # NoJob
  BY <1>2, <1>3, <1>4 DEF Job
<1> QED  BY <1>2, <1>5 DEF n

(* A block is skipped: it was none to mine.                                *)
LEMMA SkipInv ==
  ASSUME IInv, NEW s \in Slots, phase = "dumping", Skip(s)
  PROVE  IInv'
<1> DEFINE j == NextBlock(job[s])
<1>1. /\ job[s] # NoJob /\ job[s].block <= Len(job[s].blocks)
      /\ LevelTwoThrows(language, job[s].blocks[job[s].block])
      /\ job' = [job EXCEPT ![s] = j]
      /\ UNCHANGED <<arguments, phase, next_file, proc_log, concatenated, output>>
  BY DEF Skip, AtBlock, Block
<1>2. /\ Job(job[s]) /\ job[s].file \in 0..Len(files) /\ job[s].block \in Nat \ {0}
      /\ job[s].printed \in 0..2 /\ job[s].blocks = Blocks(job[s].file)
      /\ job[s] \in [file : 0..Len(files), blocks : Seq(Trees), block : Nat \ {0}, printed : 0..2]
  BY <1>1, JobFacts DEF Job
<1>3. job[s].printed = 0
  BY <1>1, <1>2 DEF Job
<1>4. /\ j.file = job[s].file /\ j.block = job[s].block + 1 /\ j.printed = 0
      /\ Job(j) /\ j # NoJob
  BY <1>2, NextBlockFacts
<1> HIDE DEF j
<1>7. ArgumentsInv /\ next_file \in 1..Len(NameList) + 1 /\ Len(NameList) \in Nat
  BY NamesType DEF IInv, PhaseInv
<1>8. ASSUME NEW x \in Minable PROVE Pending(x)' <=> Pending(x)
  <2>1. x[1] \in Nat /\ x[2] \in Nat \ {0}
    BY <1>7, LineFacts
  <2>2. ~(x[1] = job[s].file /\ x[2] = job[s].block)
    BY <1>1, <1>2, <1>7, MinableIs
  <2>3. (\/ x[1] >= next_file'
         \/ j # NoJob /\ j.file = x[1] /\ j.block <= x[2])
        <=> (\/ x[1] >= next_file
             \/ job[s] # NoJob /\ job[s].file = x[1] /\ job[s].block <= x[2])
    BY <1>1, <1>2, <1>4, <2>1, <2>2
  <2> QED  BY <1>1, <2>3, PendingStep
<1>9. next_file' \in next_file..Len(NameList) + 1
  BY <1>1, <1>7
<1>10. has_parallel \/ s = 1
  BY <1>1 DEF IInv, JobsInv
<1>11. InOrder => /\ j.file < next_file'
                  /\ \A t \in Slots \ {s} : job[t] # NoJob => job[t].file # j.file
  <2>1. AtWork
    BY DEF AtWork
  <2> QED  BY <1>1, <1>4, <2>1 DEF IInv, Mined, OnceEach
<1> QED  BY <1>1, <1>3, <1>4, <1>8, <1>9, <1>10, <1>11, QuietStep

(* A job ends: it has no blocks left.                                      *)
LEMMA ExitInv ==
  ASSUME IInv, NEW s \in Slots, phase = "dumping", Exit(s)
  PROVE  IInv'
<1>1. /\ job[s] # NoJob /\ ~(job[s].block <= Len(job[s].blocks))
      /\ job' = [job EXCEPT ![s] = NoJob]
      /\ UNCHANGED <<arguments, phase, next_file, proc_log, concatenated, output>>
  BY DEF Exit, AtBlock
<1>2. /\ Job(job[s]) /\ job[s].file \in 0..Len(files) /\ job[s].block \in Nat \ {0}
      /\ job[s].printed \in 0..2 /\ job[s].blocks = Blocks(job[s].file)
      /\ job[s].blocks \in Seq(Trees)
  BY <1>1, JobFacts
<1>3. job[s].printed = 0
  BY <1>1, <1>2 DEF Job
<1>4. ArgumentsInv /\ next_file \in 1..Len(NameList) + 1 /\ Len(NameList) \in Nat
  BY NamesType DEF IInv, PhaseInv
<1>5. ASSUME NEW x \in Minable PROVE Pending(x)' <=> Pending(x)
  <2>1. x[1] \in Nat /\ x[2] \in Nat \ {0} /\ x[2] \in DOMAIN Blocks(x[1])
    BY <1>4, LineFacts, MinableIs
  <2>2. ~(x[1] = job[s].file /\ job[s].block <= x[2])
    <3>1. SUFFICES ASSUME x[1] = job[s].file, job[s].block <= x[2] PROVE FALSE
      OBVIOUS
    <3>2. x[2] \in DOMAIN job[s].blocks /\ Len(job[s].blocks) \in Nat
      BY <1>2, <2>1, <3>1
    <3>3. x[2] <= Len(job[s].blocks)
      BY <1>2, <3>2
    <3> QED  BY <1>1, <1>2, <2>1, <3>1, <3>2, <3>3
  <2> QED  BY <1>1, <2>2, PendingStep
<1>6. next_file' \in next_file..Len(NameList) + 1
  BY <1>1, <1>4
<1>7. has_parallel \/ s = 1
  BY <1>1 DEF IInv, JobsInv
<1>8. NoJob.printed = 0
  BY DEF NoJob
<1> QED  BY <1>1, <1>3, <1>5, <1>6, <1>7, <1>8, QuietStep

LEMMA RangeFacts ==
  ASSUME NEW V, NEW a \in Seq(V)
  PROVE  /\ Range(a) \subseteq V
         /\ \A x : x \in Range(a) <=> \E k \in 1..Len(a) : x = a[k]
<1>1. DOMAIN a = 1..Len(a)
  OBVIOUS
<1> QED  BY <1>1 DEF Range

(* What is in a concatenation, and that it has everything once.            *)
LEMMA RangeOfCat ==
  ASSUME NEW V, NEW a \in Seq(V), NEW b \in Seq(V)
  PROVE  /\ Range(a \o b) = Range(a) \cup Range(b)
         /\ Distinct(a) /\ Distinct(b) /\ Range(a) \cap Range(b) = {} => Distinct(a \o b)
<1> DEFINE c == a \o b
<1>1. /\ c \in Seq(V) /\ Len(c) = Len(a) + Len(b) /\ Len(a) \in Nat /\ Len(b) \in Nat
      /\ \A k \in 1..Len(a) : c[k] = a[k]
      /\ \A k \in 1..Len(b) : c[Len(a) + k] = b[k]
  BY ConcatenationIs
<1>2. DOMAIN a = 1..Len(a) /\ DOMAIN b = 1..Len(b) /\ DOMAIN c = 1..Len(c)
  OBVIOUS
<1> HIDE DEF c
<1>3. ASSUME NEW k \in DOMAIN c
      PROVE  \/ k \in DOMAIN a /\ c[k] = a[k]
             \/ k - Len(a) \in DOMAIN b /\ c[k] = b[k - Len(a)]
  <2>1. k \in 1..Len(a) \/ (k - Len(a) \in 1..Len(b) /\ k = Len(a) + (k - Len(a)))
    BY <1>1, <1>2
  <2> QED  BY <1>1, <1>2, <2>1
<1>4. ASSUME NEW k \in DOMAIN a PROVE k \in DOMAIN c /\ c[k] = a[k]
  BY <1>1, <1>2
<1>5. ASSUME NEW k \in DOMAIN b PROVE Len(a) + k \in DOMAIN c /\ c[Len(a) + k] = b[k]
  BY <1>1, <1>2
<1>6. Range(c) = Range(a) \cup Range(b)
  BY <1>3, <1>4, <1>5 DEF Range
<1>7. ASSUME Distinct(a), Distinct(b), Range(a) \cap Range(b) = {} PROVE Distinct(c)
  <2> SUFFICES ASSUME NEW i \in DOMAIN c, NEW k \in DOMAIN c, c[i] = c[k] PROVE i = k
    BY DEF Distinct
  <2>1. \A m \in DOMAIN a, n \in DOMAIN b : a[m] # b[n]
    BY <1>7 DEF Range
  <2>2. i \in Nat /\ k \in Nat
    BY <1>2
  <2> QED  BY <1>1, <1>3, <1>7, <2>1, <2>2 DEF Distinct
<1> QED  BY <1>6, <1>7 DEF c

LEMMA RangeOfOne ==
  ASSUME NEW x
  PROVE  Range(<<x>>) = {x} /\ Distinct(<<x>>)
BY DEF Range, Distinct

LEMMA UnionWithOne ==
  ASSUME NEW f, NEW A, NEW c, NEW B, B = A \cup {c}
  PROVE  UNION {Range(f[s]) : s \in B} = (UNION {Range(f[s]) : s \in A}) \cup Range(f[c])
OBVIOUS

(* When all jobs are done nothing is pending.                              *)
LEMMA AllMined ==
  ASSUME ArgumentsInv, InOrder, Idle, next_file > Len(NameList), next_file \in Nat,
         NEW bs \in [Slots -> Seq(Minable)], OnceEach(bs)
  PROVE  UNION {Range(bs[s]) : s \in Slots} = Minable
<1>1. ASSUME NEW x \in Minable PROVE \E s \in Slots : x \in Range(bs[s])
  <2>1. x[1] \in 1..Len(files) /\ Len(files) \in Nat
    BY LineFacts DEF ArgumentsInv
  <2>2. Len(NameList) = Len(files)
    BY DEF InOrder, ArgumentsInv
  <2>3. ~Pending(x)
    BY <2>1, <2>2 DEF Pending, Idle
  <2> QED  BY <2>3 DEF OnceEach
<1>2. \A s \in Slots : Range(bs[s]) \subseteq Minable
  BY RangeFacts
<1> QED  BY <1>1, <1>2

(* All is dumped: without GNU parallel the output is the log of slot 1.    *)
LEMMA AllDumpedInv ==
  ASSUME IInv, AllDumped
  PROVE  IInv'
<1>1. /\ phase = "dumping" /\ next_file > Len(NameList) /\ Idle
      /\ phase' = IF has_parallel THEN "concatenating" ELSE "done"
      /\ UNCHANGED <<next_file, job, proc_log, concatenated, output>>
      /\ UNCHANGED arguments
  BY DEF AllDumped, Idle
<1>2. ArgumentsInv' /\ ArgumentsInv
  BY <1>1, ArgumentsStay DEF IInv
<1>3. JobsInv'
  BY <1>1, ArgumentsStay DEF IInv, JobsInv
<1>4. PhaseInv'
  BY <1>1, ArgumentsStay DEF IInv, PhaseInv, Idle, NoLogs
<1>5. PICK bs \in [Slots -> Seq(Minable)], out \in Seq(Minable) : Mined(bs, out)
  BY <1>1 DEF IInv, AtWork
<1>6. /\ \A s \in Slots : Log(s) = LinesOf(bs[s])
      /\ next_file \in Nat /\ concatenated = 0 /\ 1 \in Slots
  <2>1. ASSUME NEW s \in Slots PROVE Log(s) = LinesOf(bs[s])
    <3>1. Printed(job[s]) = << >>
      BY <1>1, NothingPrinted DEF Idle, NoJob
    <3>2. LinesOf(bs[s]) \o << >> = LinesOf(bs[s])
      BY <1>2, MinedLinesFacts
    <3> QED  BY <1>1, <1>5, <3>1, <3>2 DEF Mined
  <2>2. next_file \in Nat /\ concatenated = 0 /\ 1 \in Slots
    BY <1>1, <1>2, NamesType, MinersAssumption DEF IInv, PhaseInv, Slots
  <2> QED  BY <2>1, <2>2
<1>7. PICK o \in Seq(Minable) : o = IF has_parallel THEN << >> ELSE bs[1]
  <2>1. << >> \in Seq(Minable) /\ bs[1] \in Seq(Minable)
    BY <1>6
  <2> QED  BY <2>1
<1>8. Mined(bs, o)'
  <2>1. \A s \in Slots : Log(s)' = LinesOf(bs[s])' \o Printed(job[s])'
    <3> TAKE s \in Slots
    <3>1. Log(s)' = Log(s) /\ LinesOf(bs[s])' = LinesOf(bs[s])
      BY <1>1, ArgumentsStay DEF Log
    <3>2. Printed(job[s])' = << >>
      BY <1>1 DEF Idle, NoJob, Printed
    <3>3. LinesOf(bs[s]) \o << >> = LinesOf(bs[s])
      BY <1>2, MinedLinesFacts
    <3> QED  BY <1>6, <3>1, <3>2, <3>3
  <2>2. ~has_parallel' => \A s \in Slots \ {1} : bs[s] = << >>
    BY <1>1, <1>5, ArgumentsStay DEF Mined
  <2>3. InOrder' => OnceEach(bs)'
    BY <1>1, <1>5, ArgumentsStay DEF Mined, OnceEach, Pending
  <2>4. CASE has_parallel
    <3>1. o = << >> /\ output' = << >> /\ phase' = "concatenating" /\ concatenated' = 0
      BY <1>1, <1>6, <1>7, <2>4 DEF IInv, PhaseInv
    <3>2. LinesOf(o)' = << >> /\ Distinct(o) /\ Range(o) = {}
      BY <1>1, <3>1, LinesOfEmpty, ArgumentsStay DEF Distinct, Range
    <3>3. UNION {Range(bs[s]) : s \in 1..concatenated'} = {}
      BY <3>1
    <3> QED  BY <2>1, <2>2, <2>3, <3>1, <3>2, <3>3 DEF Mined
  <2>5. CASE ~has_parallel
    <3>1. o = bs[1] /\ phase' = "done"
      BY <1>1, <1>7, <2>5
    <3>2. output' = LinesOf(o)'
      <4>1. output' = output /\ Log(1) = output
        BY <1>1, <2>5 DEF Log
      <4>2. LinesOf(o)' = LinesOf(o)
        BY <1>1, ArgumentsStay
      <4> QED  BY <1>6, <3>1, <4>1, <4>2
    <3>3. InOrder => Distinct(o) /\ Range(o) = Minable
      <4>1. SUFFICES ASSUME InOrder PROVE Distinct(o) /\ Range(o) = Minable
        OBVIOUS
      <4>2. OnceEach(bs)
        BY <1>5, <4>1 DEF Mined
      <4>3. UNION {Range(bs[s]) : s \in Slots} = Minable
        BY <1>1, <1>2, <1>6, <4>1, <4>2, AllMined
      <4>4. \A s \in Slots \ {1} : Range(bs[s]) = {}
        BY <1>5, <2>5 DEF Mined, Range
      <4>5. UNION {Range(bs[s]) : s \in Slots} = Range(bs[1])
        BY <1>6, <4>4
      <4> QED  BY <1>6, <3>1, <4>2, <4>3, <4>5 DEF OnceEach
    <3> QED  BY <1>1, <2>2, <2>3, <3>1, <3>2, <3>3, ArgumentsStay DEF Mined
  <2> QED  BY <2>4, <2>5
<1>9. \E cs \in [Slots -> Seq(Minable')], p \in Seq(Minable') : Mined(cs, p)'
  BY <1>1, <1>7, <1>8, ArgumentsStay
<1> QED  BY <1>2, <1>3, <1>4, <1>9 DEF IInv

(* One log more is concatenated: it has other blocks than those before.    *)
LEMMA ConcatenateInv ==
  ASSUME IInv, Concatenate
  PROVE  IInv'
<1>0. PICK c : c = concatenated + 1
  OBVIOUS
<1>1. /\ phase = "concatenating" /\ concatenated < NUM_MINER_PROCS
      /\ concatenated' = c
      /\ output' = output \o (IF c \in Slots THEN proc_log[c] ELSE << >>)
      /\ UNCHANGED <<phase, next_file, job, proc_log>>
      /\ UNCHANGED arguments
  BY <1>0 DEF Concatenate, LastLog
<1>2. ArgumentsInv' /\ ArgumentsInv
  BY <1>1, ArgumentsStay DEF IInv
<1>3. JobsInv'
  BY <1>1, ArgumentsStay DEF IInv, JobsInv
<1>4. concatenated \in Nat /\ c \in Slots /\ c \in 0..NUM_MINER_PROCS /\ has_parallel /\ Idle
      /\ output' = output \o proc_log[c]
  BY <1>0, <1>1, MinersAssumption DEF IInv, PhaseInv, Slots
<1>5. PhaseInv'
  BY <1>1, <1>4, ArgumentsStay DEF IInv, PhaseInv, Idle, NoLogs
<1>6. PICK bs \in [Slots -> Seq(Minable)], out \in Seq(Minable) : Mined(bs, out)
  BY <1>1 DEF IInv, AtWork
<1>7. bs[c] \in Seq(Minable)
  BY <1>4
<1>8. PICK o \in Seq(Minable) : o = out \o bs[c]
  <2>1. out \o bs[c] \in Seq(Minable)
    BY <1>7
  <2> QED  BY <2>1
<1>9. proc_log[c] = LinesOf(bs[c])
  <2>1. Printed(job[c]) = << >>
    BY <1>4, NothingPrinted DEF Idle, NoJob
  <2>2. LinesOf(bs[c]) \o << >> = LinesOf(bs[c])
    BY <1>2, <1>7, MinedLinesFacts
  <2>3. Log(c) = LinesOf(bs[c]) \o Printed(job[c])
    BY <1>1, <1>4, <1>6 DEF Mined
  <2> QED  BY <1>4, <2>1, <2>2, <2>3 DEF Log
<1>10. Mined(bs, o)'
  <2>1. \A s \in Slots : Log(s)' = LinesOf(bs[s])' \o Printed(job[s])'
    <3> TAKE s \in Slots
    <3>1. Log(s)' = Log(s) /\ LinesOf(bs[s])' = LinesOf(bs[s])
      BY <1>1, <1>4, ArgumentsStay DEF Log
    <3>2. Printed(job[s])' = << >> /\ Printed(job[s]) = << >>
      BY <1>1, <1>4, NothingPrinted DEF Idle, NoJob, Printed
    <3>3. Log(s) = LinesOf(bs[s]) \o Printed(job[s])
      BY <1>1, <1>6 DEF Mined
    <3> QED  BY <3>1, <3>2, <3>3
  <2>2. InOrder' => OnceEach(bs)'
    BY <1>1, <1>6, ArgumentsStay DEF Mined, OnceEach, Pending
  <2>3. output' = LinesOf(o)'
    <3>1. output = LinesOf(out)
      BY <1>1, <1>6 DEF Mined
    <3>2. LinesOf(o) = LinesOf(out) \o LinesOf(bs[c])
      BY <1>2, <1>7, <1>8, LinesOfCat
    <3>3. LinesOf(o)' = LinesOf(o)
      BY <1>1, ArgumentsStay
    <3> QED  BY <1>4, <1>9, <3>1, <3>2, <3>3
  <2>4. ASSUME InOrder
        PROVE  Distinct(o) /\ Range(o) = UNION {Range(bs[s]) : s \in 1..concatenated'}
    <3>1. /\ Distinct(out) /\ Range(out) = UNION {Range(bs[s]) : s \in 1..concatenated}
          /\ OnceEach(bs)
      BY <1>1, <1>6, <2>4 DEF Mined
    <3>2. 1..concatenated \subseteq Slots /\ c \notin 1..concatenated
          /\ 1..concatenated' = 1..concatenated \cup {c}
      <4>1. concatenated \in Nat /\ c = concatenated + 1 /\ concatenated' = c
            /\ c <= NUM_MINER_PROCS /\ NUM_MINER_PROCS \in Nat
        BY <1>0, <1>1, <1>4, MinersAssumption
      <4> QED  BY <4>1 DEF Slots
    <3>3. \A s \in 1..concatenated : Range(bs[s]) \cap Range(bs[c]) = {}
      BY <1>4, <3>1, <3>2 DEF OnceEach
    <3>4. Range(out) \cap Range(bs[c]) = {}
      BY <3>1, <3>3
    <3>5. Distinct(bs[c])
      BY <1>4, <3>1 DEF OnceEach
    <3>6. Distinct(o) /\ Range(o) = Range(out) \cup Range(bs[c])
      BY <1>7, <1>8, <3>1, <3>4, <3>5, RangeOfCat
    <3>7. UNION {Range(bs[s]) : s \in 1..concatenated'}
            = (UNION {Range(bs[s]) : s \in 1..concatenated}) \cup Range(bs[c])
      BY <3>2, UnionWithOne
    <3>8. Range(o) = (UNION {Range(bs[s]) : s \in 1..concatenated}) \cup Range(bs[c])
      BY <1>8, <3>1, <3>6
    <3>9. Distinct(o)
      BY <1>8, <3>6
    <3> QED  BY <3>7, <3>8, <3>9, Zenon
  <2> QED  BY <1>1, <1>4, <2>1, <2>2, <2>3, <2>4, ArgumentsStay DEF Mined
<1>11. \E cs \in [Slots -> Seq(Minable')], p \in Seq(Minable') : Mined(cs, p)'
  BY <1>1, <1>8, <1>10, ArgumentsStay
<1> QED  BY <1>2, <1>3, <1>5, <1>11 DEF IInv

(* All logs are concatenated, and so every block.                          *)
LEMMA RemoveLogsInv ==
  ASSUME IInv, RemoveLogs
  PROVE  IInv'
<1>1. /\ phase = "concatenating" /\ concatenated = NUM_MINER_PROCS /\ phase' = "done"
      /\ proc_log' = [s \in Slots |-> << >>]
      /\ UNCHANGED <<next_file, job, concatenated, output>>
      /\ UNCHANGED arguments
  BY DEF RemoveLogs, LastLog
<1>2. ArgumentsInv' /\ ArgumentsInv
  BY <1>1, ArgumentsStay DEF IInv
<1>3. JobsInv'
  BY <1>1, ArgumentsStay DEF IInv, JobsInv
<1>4. PhaseInv' /\ has_parallel /\ Idle /\ next_file > Len(NameList) /\ next_file \in Nat
  <2>1. PhaseInv' /\ has_parallel /\ Idle /\ next_file > Len(NameList)
    BY <1>1, ArgumentsStay DEF IInv, PhaseInv, Idle, NoLogs
  <2> QED  BY <1>2, <2>1, NamesType DEF IInv, PhaseInv
<1>5. PICK bs \in [Slots -> Seq(Minable)], out \in Seq(Minable) : Mined(bs, out)
  BY <1>1 DEF IInv, AtWork
<1>6. Mined(bs, out)'
  <2>1. InOrder' => OnceEach(bs)'
    BY <1>1, <1>5, ArgumentsStay DEF Mined, OnceEach, Pending
  <2>2. output' = LinesOf(out)'
    BY <1>1, <1>5, ArgumentsStay DEF Mined
  <2>3. InOrder => Distinct(out) /\ Range(out) = Minable
    <3>1. SUFFICES ASSUME InOrder PROVE Distinct(out) /\ Range(out) = Minable
      OBVIOUS
    <3>2. OnceEach(bs) /\ Distinct(out) /\ Range(out) = UNION {Range(bs[s]) : s \in Slots}
      BY <1>1, <1>5, <3>1 DEF Mined, Slots
    <3> QED  BY <1>2, <1>4, <3>1, <3>2, AllMined
  <2> QED  BY <1>1, <1>4, <2>1, <2>2, <2>3, ArgumentsStay DEF Mined
<1>7. \E cs \in [Slots -> Seq(Minable')], p \in Seq(Minable') : Mined(cs, p)'
  BY <1>1, <1>6, ArgumentsStay
<1> QED  BY <1>2, <1>3, <1>4, <1>7 DEF IInv

(* The lines printed of a block.                                           *)
FirstLines(i, x) == [k \in 1..i |-> LineOf(LineKinds[k], x)]

LEMMA FirstLinesFacts ==
  ASSUME ArgumentsInv, NEW x \in Minable, NEW i \in 0..2
  PROVE  /\ FirstLines(i, x) \in Seq(MinedLines)
         /\ FirstLines(i + 1, x) = Append(FirstLines(i, x), LineOf(LineKinds[i + 1], x))
         /\ FirstLines(3, x) = ThreeLines(x) /\ LineOf(LineKinds[i + 1], x) \in MinedLines
<1>1. \A k \in 1..3 : LineOf(LineKinds[k], x) \in MinedLines
  <2>1. \A k \in 1..3 : LineKinds[k] \in {"comment", "ONE", "TWO"}
    BY DEF LineKinds
  <2> QED  BY <2>1, LineFacts
<1>2. FirstLines(i, x) \in Seq(MinedLines) /\ Len(FirstLines(i, x)) = i
      /\ FirstLines(i + 1, x) \in Seq(MinedLines) /\ Len(FirstLines(i + 1, x)) = i + 1
      /\ LineOf(LineKinds[i + 1], x) \in MinedLines
  BY <1>1 DEF FirstLines
<1>3. \A k \in 1..i + 1 : FirstLines(i + 1, x)[k]
                            = Append(FirstLines(i, x), LineOf(LineKinds[i + 1], x))[k]
  BY <1>2 DEF FirstLines
<1> DEFINE a == FirstLines(i + 1, x)
           b == Append(FirstLines(i, x), LineOf(LineKinds[i + 1], x))
<1>4. a \in Seq(MinedLines) /\ b \in Seq(MinedLines) /\ Len(a) = i + 1 /\ Len(b) = i + 1
  BY <1>2
<1>5. a = b
  <2>1. \A k \in 1..Len(a) : a[k] = b[k]
    BY <1>3, <1>4
  <2> HIDE DEF a, b
  <2> QED  BY <1>4, <2>1, SeqEqual
<1> QED  BY <1>2, <1>5 DEF FirstLines, ThreeLines

LEMMA AppendToCat ==
  \A a, b \in Seq(MinedLines), c \in MinedLines : Append(a \o b, c) = a \o Append(b, c)
OBVIOUS

(* What writing a line changes.                                            *)
LEMMA WriteLineStep ==
  ASSUME IInv, NEW s \in Slots, WriteLine(s)
  PROVE  \E x \in Minable, i \in 0..2 :
           /\ phase = "dumping" /\ (has_parallel \/ s = 1)
           /\ Job(job[s]) /\ job[s] # NoJob /\ job[s].printed = i
           /\ x = <<job[s].file, job[s].block>>
           /\ job' = [job EXCEPT ![s] = IF i = 2 THEN NextBlock(@) ELSE NextLine(@)]
           /\ Log(s)' = Append(Log(s), LineOf(LineKinds[i + 1], x))
           /\ \A t \in Slots \ {s} : Log(t)' = Log(t)
           /\ proc_log' = [t \in Slots |-> proc_log'[t]]
           /\ has_parallel => output' = output
           /\ ~has_parallel => proc_log' = proc_log
<1> DEFINE i == job[s].printed
           x == <<job[s].file, job[s].block>>
           line == [kind |-> LineKinds[i + 1], file |-> job[s].file, block |-> job[s].block,
                    text |-> LineText(LineKinds[i + 1], Block(s))]
<1>1. /\ job[s] # NoJob /\ job[s].block <= Len(job[s].blocks)
      /\ ~LevelTwoThrows(language, Block(s))
      /\ Write(s, line)
      /\ job' = [job EXCEPT ![s] = IF LineKinds[i + 1] = "TWO" THEN NextBlock(@)
                                   ELSE NextLine(@)]
      /\ UNCHANGED arguments
  BY DEF WriteLine, AtBlock
<1>2. phase = "dumping" /\ (has_parallel \/ s = 1)
      /\ proc_log = [t \in Slots |-> proc_log[t]]
  BY <1>1 DEF IInv, PhaseInv, JobsInv, Idle
<1>3. /\ Job(job[s]) /\ job[s].file \in 0..Len(files) /\ job[s].block \in Nat \ {0}
      /\ job[s].printed \in 0..2 /\ job[s].blocks = Blocks(job[s].file)
      /\ job[s].blocks \in Seq(Trees)
  BY <1>1, JobFacts
<1>4. ArgumentsInv /\ Len(files) \in Nat
  BY DEF IInv, ArgumentsInv
<1>5. job[s].block \in DOMAIN Blocks(job[s].file)
  <2>1. Len(job[s].blocks) \in Nat /\ DOMAIN job[s].blocks = 1..Len(job[s].blocks)
    BY <1>3
  <2>2. job[s].block \in DOMAIN job[s].blocks
    BY <1>1, <1>3, <2>1
  <2> QED  BY <1>3, <2>2
<1>6. x \in Minable
  <2>1. job[s].file # 0
    <3>1. Blocks(0) = << >>
      BY DEF Blocks
    <3>2. DOMAIN Blocks(0) = {}
      BY <3>1
    <3> QED  BY <1>5, <3>2
  <2>2. job[s].file \in 1..Len(files)
    BY <1>3, <1>4, <2>1
  <2>3. ~LevelTwoThrows(language, Blocks(job[s].file)[job[s].block])
    BY <1>1, <1>3 DEF Block
  <2> QED  BY <1>3, <1>4, <1>5, <2>2, <2>3, MinableIs
<1>7. line = LineOf(LineKinds[i + 1], x)
  BY <1>3 DEF LineOf, Block
<1>8. LineKinds[i + 1] = "TWO" <=> i = 2
  BY <1>3 DEF LineKinds
<1> HIDE DEF line
<1>9. /\ Log(s)' = Append(Log(s), line)
      /\ \A t \in Slots \ {s} : Log(t)' = Log(t)
      /\ proc_log' = [t \in Slots |-> proc_log'[t]]
      /\ has_parallel => output' = output
      /\ ~has_parallel => proc_log' = proc_log
  <2>1. has_parallel' = has_parallel
    BY <1>1 DEF arguments
  <2>2. CASE has_parallel
    <3>1. proc_log' = [proc_log EXCEPT ![s] = Append(@, line)] /\ output' = output
      BY <1>1, <2>2 DEF Write, LogOf
    <3> QED  BY <1>2, <2>1, <2>2, <3>1 DEF Log
  <2>3. CASE ~has_parallel
    <3>1. output' = Append(output, line) /\ proc_log' = proc_log /\ s = 1
      BY <1>1, <1>2, <2>3 DEF Write
    <3> QED  BY <1>2, <2>1, <2>3, <3>1 DEF Log
  <2> QED  BY <2>2, <2>3
<1>10. job' = [job EXCEPT ![s] = IF i = 2 THEN NextBlock(@) ELSE NextLine(@)]
  BY <1>1, <1>8
<1> HIDE DEF i, x
<1>11. job[s].printed = i /\ x = <<job[s].file, job[s].block>> /\ i \in 0..2
  BY <1>3 DEF i, x
<1> QED  BY <1>1, <1>2, <1>3, <1>6, <1>7, <1>9, <1>10, <1>11

LEMMA OnePrintedMore ==
  ASSUME NEW j, Job(j), j.printed < 2, j.block <= Len(j.blocks),
         ~LevelTwoThrows(language, j.blocks[j.block]), NEW k,
         k = NextLine(j)
  PROVE  /\ Job(k) /\ k # NoJob /\ k.printed = j.printed + 1
         /\ k.file = j.file /\ k.block = j.block
<1>1. j \in [file : 0..Len(files), blocks : Seq(Trees), block : Nat \ {0}, printed : 0..2]
  BY DEF Job
<1>2. /\ k \in [file : 0..Len(files), blocks : Seq(Trees), block : Nat \ {0}, printed : 0..2]
      /\ k.file = j.file /\ k.block = j.block /\ k.blocks = j.blocks
      /\ k.printed = j.printed + 1
  BY <1>1 DEF NextLine
<1>3. k.block # NoJob.block
  BY <1>2 DEF NoJob
<1> QED  BY <1>2, <1>3 DEF Job

LEMMA PrintedStays ==
  ASSUME UNCHANGED arguments, NEW t, job'[t] = job[t]
  PROVE  Printed(job[t])' = Printed(job[t])
<1>1. language' = language /\ files' = files
  BY DEF arguments
<1> QED  BY <1>1 DEF Printed, LineOf, LineText, Blocks

(* A line is printed: of the three the last makes the block one that is    *)
(* printed and no longer pending.                                          *)
LEMMA WriteLineInv ==
  ASSUME IInv, NEW s \in Slots, WriteLine(s)
  PROVE  IInv'
<1>1. PICK x \in Minable, i \in 0..2 :
        /\ phase = "dumping" /\ (has_parallel \/ s = 1)
        /\ Job(job[s]) /\ job[s] # NoJob /\ job[s].printed = i
        /\ x = <<job[s].file, job[s].block>>
        /\ job' = [job EXCEPT ![s] = IF i = 2 THEN NextBlock(@) ELSE NextLine(@)]
        /\ Log(s)' = Append(Log(s), LineOf(LineKinds[i + 1], x))
        /\ \A t \in Slots \ {s} : Log(t)' = Log(t)
        /\ proc_log' = [t \in Slots |-> proc_log'[t]]
        /\ has_parallel => output' = output
        /\ ~has_parallel => proc_log' = proc_log
  BY WriteLineStep
<1>2. UNCHANGED arguments /\ phase' = phase /\ next_file' = next_file
      /\ concatenated' = concatenated
  BY DEF WriteLine
<1>3. /\ ArgumentsInv /\ ArgumentsInv' /\ JobsInv
      /\ job = [t \in Slots |-> job[t]]
  BY <1>2, ArgumentsStay DEF IInv, JobsInv
<1>4. PICK j : j = IF i = 2 THEN NextBlock(job[s]) ELSE NextLine(job[s])
  OBVIOUS
<1>5. /\ job' = [job EXCEPT ![s] = j] /\ job'[s] = j
      /\ job' = [t \in Slots |-> job'[t]]
      /\ \A t \in Slots \ {s} : job'[t] = job[t]
  <2>1. job'[s] = j
    <3>1. CASE i = 2
      BY <1>1, <1>3, <1>4, <3>1
    <3>2. CASE i # 2
      BY <1>1, <1>3, <1>4, <3>2
    <3> QED  BY <3>1, <3>2
  <2>2. job' = [t \in Slots |-> job'[t]] /\ \A t \in Slots \ {s} : job'[t] = job[t]
    BY <1>1, <1>3
  <2>3. job' = [job EXCEPT ![s] = j]
    BY <1>3, <2>1, <2>2
  <2> QED  BY <2>1, <2>2, <2>3
<1>6. /\ job[s].block <= Len(job[s].blocks)
      /\ ~LevelTwoThrows(language, job[s].blocks[job[s].block])
      /\ x[1] \in Nat /\ x[2] \in Nat \ {0} /\ x[1] = job[s].file /\ x[2] = job[s].block
      /\ job[s].block \in Nat /\ x[1] \in 0..Len(files)
  <2>1. /\ job[s].blocks = Blocks(x[1]) /\ job[s].blocks \in Seq(Trees)
        /\ x[1] = job[s].file /\ x[2] = job[s].block /\ job[s].block \in Nat
        /\ x[1] \in 0..Len(files)
    BY <1>1, JobFacts
  <2>2. x[2] \in DOMAIN Blocks(x[1]) /\ ~LevelTwoThrows(language, Blocks(x[1])[x[2]])
    BY <1>3, MinableIs
  <2>3. x[1] \in Nat /\ x[2] \in Nat \ {0}
    BY <1>3, LineFacts
  <2> QED  BY <2>1, <2>2, <2>3
<1>7. /\ Job(j) /\ j # NoJob /\ j.file = x[1]
      /\ i < 2 => j.printed = i + 1 /\ j.block = x[2]
      /\ i = 2 => j.printed = 0 /\ j.block = x[2] + 1
  <2>1. CASE i = 2
    BY <1>1, <1>4, <1>6, <2>1, NextBlockFacts
  <2>2. CASE i # 2
    <3>1. j = NextLine(job[s]) /\ job[s].printed < 2
      BY <1>1, <1>4, <2>2
    <3> QED  BY <1>1, <1>6, <2>2, <3>1, OnePrintedMore
  <2> QED  BY <2>1, <2>2
<1>8. JobsInv'
  BY <1>1, <1>2, <1>3, <1>5, <1>7, ArgumentsStay DEF JobsInv
<1>9. PhaseInv'
  BY <1>1, <1>2, ArgumentsStay DEF IInv, PhaseInv, NoLogs
<1>10. PICK bs \in [Slots -> Seq(Minable)], out \in Seq(Minable) : Mined(bs, out)
  BY <1>1 DEF IInv, AtWork
<1>11. /\ bs[s] \in Seq(Minable) /\ LinesOf(bs[s]) \in Seq(MinedLines)
       /\ FirstLines(i, x) \in Seq(MinedLines)
       /\ FirstLines(i + 1, x) \in Seq(MinedLines)
  <2>1. bs[s] \in Seq(Minable)
    OBVIOUS
  <2>2. FirstLines(i, x) \in Seq(MinedLines) /\ LineOf(LineKinds[i + 1], x) \in MinedLines
        /\ FirstLines(i + 1, x) = Append(FirstLines(i, x), LineOf(LineKinds[i + 1], x))
    BY <1>3, FirstLinesFacts
  <2>3. LinesOf(bs[s]) \in Seq(MinedLines)
    BY <1>3, <2>1, MinedLinesFacts
  <2>4. \A a \in Seq(MinedLines), c \in MinedLines : Append(a, c) \in Seq(MinedLines)
    OBVIOUS
  <2> QED  BY <2>1, <2>2, <2>3, <2>4
<1>12. Log(s)' = LinesOf(bs[s]) \o FirstLines(i + 1, x)
  <2>1. Printed(job[s]) = FirstLines(i, x)
    BY <1>1 DEF Printed, FirstLines
  <2>2. Log(s) = LinesOf(bs[s]) \o FirstLines(i, x)
    BY <1>1, <1>10, <2>1 DEF Mined
  <2>3. FirstLines(i + 1, x) = Append(FirstLines(i, x), LineOf(LineKinds[i + 1], x))
        /\ LineOf(LineKinds[i + 1], x) \in MinedLines
    BY <1>3, FirstLinesFacts
  <2>4. Append(LinesOf(bs[s]) \o FirstLines(i, x), LineOf(LineKinds[i + 1], x))
          = LinesOf(bs[s]) \o Append(FirstLines(i, x), LineOf(LineKinds[i + 1], x))
    BY <1>11, <2>3, AppendToCat
  <2> QED  BY <1>1, <2>2, <2>3, <2>4
<1>13. ASSUME NEW t \in Slots, t # s
       PROVE  Log(t)' = LinesOf(bs[t]) \o Printed(job[t])'
  <2>1. Log(t)' = Log(t) /\ Log(t) = LinesOf(bs[t]) \o Printed(job[t])
    BY <1>1, <1>10, <1>13 DEF Mined
  <2>2. Printed(job[t])' = Printed(job[t])
    BY <1>2, <1>5, <1>13, PrintedStays
  <2> QED  BY <2>1, <2>2
<1>14. ASSUME InOrder
       PROVE  /\ OnceEach(bs)
              /\ \A t \in Slots : job'[t] # NoJob => job'[t].file < next_file'
              /\ \A t, u \in Slots : t # u /\ job'[t] # NoJob /\ job'[u] # NoJob
                                       => job'[t].file # job'[u].file
  <2>1. OnceEach(bs)
    BY <1>10, <1>14 DEF Mined
  <2>2. \A t \in Slots : job'[t] # NoJob => job'[t].file < next_file'
    BY <1>1, <1>2, <1>5, <1>6, <1>7, <2>1 DEF OnceEach
  <2>3. \A t \in Slots : job'[t] # NoJob <=> job[t] # NoJob
    BY <1>1, <1>5, <1>7
  <2>4. \A t \in Slots : job[t] # NoJob => job'[t].file = job[t].file
    BY <1>1, <1>5, <1>6, <1>7
  <2> QED  BY <2>1, <2>2, <2>3, <2>4 DEF OnceEach
<1>15. ASSUME i < 2
       PROVE  Mined(bs, out)'
  <2>1. \A t \in Slots : Log(t)' = LinesOf(bs[t])' \o Printed(job[t])'
    <3> TAKE t \in Slots
    <3>1. LinesOf(bs[t])' = LinesOf(bs[t])
      BY <1>2, ArgumentsStay
    <3>2. CASE t = s
      <4>1. Printed(job[t])' = FirstLines(i + 1, x)
        <5>1. job'[t].printed = i + 1 /\ x = <<job'[t].file, job'[t].block>>
          BY <1>1, <1>5, <1>6, <1>7, <1>15, <3>2
        <5>2. language' = language /\ files' = files
          BY <1>2 DEF arguments
        <5> QED  BY <5>1, <5>2 DEF Printed, FirstLines, LineOf, LineText, Blocks
      <4> QED  BY <1>12, <3>1, <3>2, <4>1
    <3>3. CASE t # s
      BY <1>13, <3>1, <3>3
    <3> QED  BY <3>2, <3>3
  <2>2. ASSUME InOrder PROVE OnceEach(bs)'
    <3>1. ASSUME NEW y \in Minable PROVE Pending(y)' <=> Pending(y)
      <4>1. (\/ y[1] >= next_file'
             \/ j # NoJob /\ j.file = y[1] /\ j.block <= y[2])
            <=> (\/ y[1] >= next_file
                 \/ job[s] # NoJob /\ job[s].file = y[1] /\ job[s].block <= y[2])
        BY <1>1, <1>2, <1>6, <1>7, <1>15
      <4> QED  BY <1>5, <4>1, PendingStep
    <3>2. \A y \in Minable' : Pending(y)' <=> \A t \in Slots : y \notin Range(bs[t])
      BY <1>2, <1>14, <2>2, <3>1, ArgumentsStay DEF OnceEach
    <3> QED  BY <1>14, <2>2, <3>2 DEF OnceEach
  <2> QED  BY <1>1, <1>2, <1>10, <2>1, <2>2, ArgumentsStay DEF Mined
<1>16. ASSUME i = 2
       PROVE  \E cs \in [Slots -> Seq(Minable)] : Mined(cs, out)'
  <2>1. PICK cs \in [Slots -> Seq(Minable)] : cs = [bs EXCEPT ![s] = Append(@, x)]
    <3>1. [bs EXCEPT ![s] = Append(@, x)] \in [Slots -> Seq(Minable)]
      OBVIOUS
    <3> QED  BY <3>1
  <2>2. cs[s] = Append(bs[s], x) /\ \A t \in Slots \ {s} : cs[t] = bs[t]
    BY <2>1
  <2>3. \A t \in Slots : Log(t)' = LinesOf(cs[t])' \o Printed(job[t])'
    <3> TAKE t \in Slots
    <3>1. LinesOf(cs[t])' = LinesOf(cs[t])
      BY <1>2, ArgumentsStay
    <3>2. CASE t = s
      <4>1. Printed(job[t])' = << >>
        <5>1. job'[t].printed = 0
          BY <1>5, <1>7, <1>16, <3>2
        <5> QED  BY <5>1 DEF Printed
      <4>2. LinesOf(cs[t]) = LinesOf(bs[s]) \o ThreeLines(x)
        BY <1>3, <1>11, <2>2, <3>2, LinesOfAppend
      <4>3. FirstLines(3, x) = ThreeLines(x)
        BY <1>3, FirstLinesFacts
      <4>4. Log(s)' = LinesOf(cs[t])
        BY <1>12, <1>16, <4>2, <4>3
      <4>5. LinesOf(cs[t]) \o << >> = LinesOf(cs[t])
        BY <1>3, MinedLinesFacts
      <4> QED  BY <3>1, <3>2, <4>1, <4>4, <4>5
    <3>3. CASE t # s
      BY <1>13, <2>2, <3>1, <3>3
    <3> QED  BY <3>2, <3>3
  <2>4. ASSUME InOrder PROVE OnceEach(cs)'
    <3>1. OnceEach(bs)
      BY <1>14, <2>4
    <3>2. \A t \in Slots : x \notin Range(bs[t])
      <4>1. Pending(x)
        BY <1>1, <1>6 DEF Pending
      <4> QED  BY <3>1, <4>1 DEF OnceEach
    <3>3. Range(cs[s]) = Range(bs[s]) \cup {x} /\ Distinct(cs[s])
      <4>1. <<x>> \in Seq(Minable) /\ Append(bs[s], x) = bs[s] \o <<x>>
        BY <1>11
      <4>2. Distinct(bs[s]) /\ Distinct(<<x>>) /\ Range(<<x>>) = {x}
        BY <3>1, RangeOfOne DEF OnceEach
      <4>3. Range(bs[s]) \cap Range(<<x>>) = {}
        BY <3>2, <4>2
      <4>4. /\ Range(bs[s] \o <<x>>) = Range(bs[s]) \cup Range(<<x>>)
            /\ Distinct(bs[s] \o <<x>>)
        <5>1. \A a, b \in Seq(Minable) :
                /\ Range(a \o b) = Range(a) \cup Range(b)
                /\ Distinct(a) /\ Distinct(b) /\ Range(a) \cap Range(b) = {}
                     => Distinct(a \o b)
          BY RangeOfCat
        <5> QED  BY <1>11, <4>1, <4>2, <4>3, <5>1
      <4> QED  BY <2>2, <4>1, <4>2, <4>4
    <3>4. ASSUME NEW t \in Slots, NEW u \in Slots, t # u
          PROVE  Range(cs[t]) \cap Range(cs[u]) = {}
      <4>1. Range(bs[t]) \cap Range(bs[u]) = {} /\ x \notin Range(bs[t]) /\ x \notin Range(bs[u])
        BY <3>1, <3>2, <3>4 DEF OnceEach
      <4>2. CASE t = s
        BY <2>2, <3>3, <3>4, <4>1, <4>2
      <4>3. CASE u = s
        BY <2>2, <3>3, <3>4, <4>1, <4>3
      <4>4. CASE t # s /\ u # s
        BY <2>2, <4>1, <4>4
      <4> QED  BY <4>2, <4>3, <4>4
    <3>5. ASSUME NEW y \in Minable PROVE Pending(y)' <=> Pending(y) /\ y # x
      <4>1. /\ y[1] \in Nat /\ y[2] \in Nat \ {0} /\ y = <<y[1], y[2]>>
        BY <1>3, LineFacts
      <4>2. x = <<x[1], x[2]>>
        BY <1>3, LineFacts
      <4>3. CASE y # x
        <5>1. y[1] # x[1] \/ y[2] # x[2]
          BY <4>1, <4>2, <4>3
        <5>2. (\/ y[1] >= next_file'
               \/ j # NoJob /\ j.file = y[1] /\ j.block <= y[2])
              <=> (\/ y[1] >= next_file
                   \/ job[s] # NoJob /\ job[s].file = y[1] /\ job[s].block <= y[2])
          BY <1>1, <1>2, <1>6, <1>7, <1>16, <4>1, <5>1
        <5> QED  BY <1>5, <4>3, <5>2, PendingStep
      <4>4. CASE y = x
        <5>1. ~(y[1] >= next_file')
          <6>1. job[s].file < next_file /\ next_file \in Nat
            BY <1>1, <1>3, <3>1, NamesType DEF OnceEach, IInv, PhaseInv
          <6> QED  BY <1>2, <1>6, <4>4, <6>1
        <5>2. \A t \in Slots : ~(job'[t] # NoJob /\ job'[t].file = y[1] /\ job'[t].block <= y[2])
          <6>1. ASSUME NEW t \in Slots, t # s, job[t] # NoJob PROVE job[t].file # y[1]
            BY <1>1, <1>6, <3>1, <4>4, <6>1 DEF OnceEach
          <6>2. ~(j.block <= y[2])
            BY <1>6, <1>7, <1>16, <4>4
          <6> QED  BY <1>5, <6>1, <6>2
        <5> QED  BY <4>4, <5>1, <5>2 DEF Pending
      <4> QED  BY <4>3, <4>4
    <3>6. ASSUME NEW y \in Minable
          PROVE  Pending(y)' <=> \A t \in Slots : y \notin Range(cs[t])
      <4>1. (\A t \in Slots : y \notin Range(cs[t]))
              <=> (\A t \in Slots : y \notin Range(bs[t])) /\ y # x
        BY <2>2, <3>3
      <4>2. Pending(y) <=> \A t \in Slots : y \notin Range(bs[t])
        BY <3>1 DEF OnceEach
      <4> QED  BY <3>5, <4>1, <4>2
    <3>7. \A t \in Slots : Distinct(cs[t])
      BY <2>2, <3>1, <3>3 DEF OnceEach
    <3>8. Minable' = Minable
      BY <1>2, ArgumentsStay
    <3> QED  BY <1>14, <2>4, <3>4, <3>6, <3>7, <3>8 DEF OnceEach
  <2>5. ~has_parallel => \A t \in Slots \ {1} : cs[t] = << >>
    BY <1>1, <1>10, <2>2 DEF Mined
  <2>6. Mined(cs, out)'
    BY <1>1, <1>2, <2>3, <2>4, <2>5, ArgumentsStay DEF Mined
  <2> QED  BY <2>6
<1>17. \E cs \in [Slots -> Seq(Minable')], o \in Seq(Minable') : Mined(cs, o)'
  <2>1. Minable' = Minable
    BY <1>2, ArgumentsStay
  <2>2. i < 2 \/ i = 2
    OBVIOUS
  <2> QED  BY <1>10, <1>15, <1>16, <2>1, <2>2
<1> QED  BY <1>3, <1>8, <1>9, <1>17 DEF IInv

(* Every step keeps the invariant.                                         *)
LEMMA NextInv ==
  ASSUME IInv, [Next]_vars
  PROVE  IInv'
<1>1. ASSUME NEW s \in Slots, job[s] # NoJob
      PROVE  phase = "dumping"
  BY <1>1 DEF IInv, PhaseInv, Idle
<1>2. ASSUME NEW s \in Slots, Start(s) \/ Skip(s) \/ WriteLine(s) \/ Exit(s)
      PROVE  IInv'
  <2>1. CASE Start(s)
    BY <2>1, StartInv
  <2>2. CASE Skip(s)
    <3>1. phase = "dumping"
      BY <1>1, <2>2 DEF Skip, AtBlock
    <3> QED  BY <2>2, <3>1, SkipInv
  <2>3. CASE WriteLine(s)
    BY <2>3, WriteLineInv
  <2>4. CASE Exit(s)
    <3>1. phase = "dumping"
      BY <1>1, <2>4 DEF Exit
    <3> QED  BY <2>4, <3>1, ExitInv
  <2> QED  BY <1>2, <2>1, <2>2, <2>3, <2>4
<1>3. CASE UNCHANGED vars
  <2>1. UNCHANGED arguments /\ UNCHANGED <<phase, next_file, job, proc_log, concatenated, output>>
    BY <1>3 DEF vars
  <2>2. ArgumentsInv'
    BY <2>1, ArgumentsStay DEF IInv
  <2>3. JobsInv' /\ PhaseInv'
    BY <2>1, ArgumentsStay DEF IInv, JobsInv, PhaseInv, Idle, NoLogs
  <2>4. ASSUME NEW bs \in [Slots -> Seq(Minable)], NEW out \in Seq(Minable), Mined(bs, out)
        PROVE  Mined(bs, out)'
    <3>1. ASSUME NEW t \in Slots, phase # "done"
          PROVE  Log(t)' = LinesOf(bs[t])' \o Printed(job[t])'
      <4>1. Log(t)' = Log(t) /\ Log(t) = LinesOf(bs[t]) \o Printed(job[t])
        BY <2>1, <2>4, <3>1, ArgumentsStay DEF Log, Mined
      <4>2. LinesOf(bs[t])' = LinesOf(bs[t])
        BY <2>1, ArgumentsStay
      <4>3. Printed(job[t])' = Printed(job[t])
        BY <2>1, PrintedStays
      <4> QED  BY <4>1, <4>2, <4>3
    <3>2. InOrder' => OnceEach(bs)'
      BY <2>1, <2>4, ArgumentsStay DEF Mined, OnceEach, Pending
    <3> QED  BY <2>1, <2>4, <3>1, <3>2, ArgumentsStay DEF Mined
  <2>5. AtWork' => \E bs \in [Slots -> Seq(Minable')], out \in Seq(Minable') : Mined(bs, out)'
    <3>1. Minable' = Minable /\ (AtWork' <=> AtWork)
      BY <2>1, ArgumentsStay DEF AtWork
    <3> QED  BY <2>4, <3>1 DEF IInv
  <2> QED  BY <2>2, <2>3, <2>5 DEF IInv
<1> QED  BY <1>2, <1>3, CheckArgumentsInv, AllDumpedInv, ConcatenateInv, RemoveLogsInv
         DEF Next, Over

(* What all jobs together have printed is, in every interleaving, whole    *)
(* blocks of the files taken so far, each once (WriteLine in every slot).  *)
THEOREM Invariance == Spec => []IInv
<1>1. Init => IInv
  BY InitInv
<1>2. IInv /\ [Next]_vars => IInv'
  BY NextInv
<1> QED  BY <1>1, <1>2, PTL DEF Spec

-----------------------------------------------------------------------------
(* What the invariant implies.                                             *)

LEMMA MinedLinesAreLines ==
  ASSUME ArgumentsInv
  PROVE  MinedLines \subseteq Line
BY LineFacts DEF MinedLines

LEMMA PrintedFacts ==
  ASSUME IInv, NEW s \in Slots
  PROVE  Printed(job[s]) \in Seq(MinedLines)
<1>0. job[s].printed = 0 => Printed(job[s]) = << >> /\ << >> \in Seq(MinedLines)
  BY NothingPrinted
<1>1. CASE job[s] = NoJob
  BY <1>0, <1>1 DEF NoJob
<1>2. CASE job[s] # NoJob
  <2>1. /\ Job(job[s]) /\ job[s].file \in 0..Len(files) /\ job[s].block \in Nat \ {0}
        /\ job[s].printed \in 0..2 /\ job[s].blocks \in Seq(Trees)
        /\ job[s].blocks = Blocks(job[s].file)
    BY <1>2, JobFacts
  <2>2. CASE job[s].printed = 0
    BY <1>0, <2>2
  <2>3. CASE job[s].printed # 0
    <3>1. /\ job[s].block <= Len(job[s].blocks)
          /\ ~LevelTwoThrows(language, job[s].blocks[job[s].block])
      BY <2>1, <2>3 DEF Job
    <3>2. job[s].block \in DOMAIN job[s].blocks
      BY <2>1, <3>1
    <3>3. job[s].file # 0
      <4>1. DOMAIN Blocks(0) = {}
        BY DEF Blocks
      <4> QED  BY <2>1, <3>2, <4>1
    <3>4. ArgumentsInv /\ Len(files) \in Nat
      BY DEF IInv, ArgumentsInv
    <3>5. job[s].file \in 1..Len(files)
      BY <2>1, <3>3, <3>4
    <3>6. PICK x : x = <<job[s].file, job[s].block>>
      OBVIOUS
    <3>7. x \in Minable
      BY <2>1, <3>1, <3>2, <3>4, <3>5, <3>6, MinableIs
    <3>8. Printed(job[s]) = FirstLines(job[s].printed, x)
      BY <3>6 DEF Printed, FirstLines
    <3> QED  BY <2>1, <3>4, <3>7, <3>8, FirstLinesFacts
  <2> QED  BY <2>2, <2>3
<1> QED  BY <1>1, <1>2

LEMMA LogFacts ==
  ASSUME IInv, phase = "dumping" \/ phase = "concatenating", NEW s \in Slots
  PROVE  Log(s) \in Seq(MinedLines)
<1>1. PICK bs \in [Slots -> Seq(Minable)], out \in Seq(Minable) : Mined(bs, out)
  BY DEF IInv, AtWork
<1>2. Log(s) = LinesOf(bs[s]) \o Printed(job[s])
  BY <1>1 DEF Mined
<1>3. bs[s] \in Seq(Minable) /\ ArgumentsInv
  BY <1>1 DEF IInv
<1>4. LinesOf(bs[s]) \in Seq(MinedLines)
  BY <1>3, MinedLinesFacts
<1>5. \A a, b \in Seq(MinedLines) : a \o b \in Seq(MinedLines)
  OBVIOUS
<1> QED  BY <1>2, <1>4, <1>5, PrintedFacts

(* All that is printed and concatenated are lines of blocks to mine.       *)
LEMMA OutputFacts ==
  ASSUME IInv
  PROVE  /\ output = Old \/ output \in Seq(MinedLines)
         /\ proc_log \in [Slots -> Seq(MinedLines)]
<1>1. ArgumentsInv /\ 1 \in Slots /\ << >> \in Seq(MinedLines)
  BY MinersAssumption DEF IInv, Slots
<1>2. output = Old \/ output \in Seq(MinedLines)
  <2>1. CASE phase \in {"checking", "usage"}
    BY <1>1, <2>1 DEF IInv, PhaseInv
  <2>2. CASE phase = "dumping" /\ has_parallel
    BY <1>1, <2>2 DEF IInv, PhaseInv
  <2>3. CASE phase = "dumping" /\ ~has_parallel
    <3>1. output = Log(1)
      BY <2>3 DEF Log
    <3> QED  BY <1>1, <2>3, <3>1, LogFacts
  <2>4. CASE phase \in {"concatenating", "done"}
    <3>1. PICK bs \in [Slots -> Seq(Minable)], out \in Seq(Minable) : Mined(bs, out)
      BY <2>4 DEF IInv, AtWork
    <3>2. output = LinesOf(out)
      BY <2>4, <3>1 DEF Mined
    <3> QED  BY <1>1, <3>2, MinedLinesFacts
  <2> QED  BY <2>1, <2>2, <2>3, <2>4 DEF IInv, PhaseInv
<1>3. proc_log \in [Slots -> Seq(MinedLines)]
  <2>1. CASE NoLogs
    BY <1>1, <2>1 DEF NoLogs
  <2>2. CASE ~NoLogs
    <3>1. has_parallel /\ phase \in {"dumping", "concatenating"}
          /\ proc_log = [s \in Slots |-> proc_log[s]]
      BY <2>2 DEF IInv, PhaseInv
    <3>2. \A s \in Slots : proc_log[s] = Log(s)
      BY <3>1 DEF Log
    <3>3. \A s \in Slots : proc_log[s] \in Seq(MinedLines)
      BY <3>1, <3>2, LogFacts
    <3> QED  BY <3>1, <3>3
  <2> QED  BY <2>1, <2>2
<1> QED  BY <1>2, <1>3

LEMMA TypeHolds ==
  ASSUME IInv
  PROVE  TypeOK
<1>1. ArgumentsInv
  BY DEF IInv
<1>2. \A s \in Slots : job[s].file \in 0..Len(files) /\ job[s].printed \in 0..2
  <2> TAKE s \in Slots
  <2>1. CASE job[s] = NoJob
    <3>1. Len(files) \in Nat
      BY <1>1 DEF ArgumentsInv
    <3> QED  BY <2>1, <3>1 DEF NoJob
  <2>2. CASE job[s] # NoJob
    BY <2>2, JobFacts
  <2> QED  BY <2>1, <2>2
<1>3. Seq(MinedLines) \subseteq Seq(Line)
  BY <1>1, MinedLinesAreLines
<1>4. proc_log \in [Slots -> Seq(Line)] /\ (output = Old \/ output \in Seq(Line))
  BY <1>3, OutputFacts
<1> QED  BY <1>1, <1>2, <1>4 DEF IInv, ArgumentsInv, PhaseInv, TypeOK

(* Every variable of the mining script holds a value of its type.          *)
THEOREM TypeCorrect == Spec => []TypeOK
BY Invariance, TypeHolds, PTL

(* Where the lines of the k-th block are.                                    *)
At(k, i) == 3 * (k - 1) + i

LEMMA Thirds ==
  ASSUME NEW n \in Nat, NEW m \in 1..3 * n
  PROVE  \E k \in 1..n, i \in 1..3 : m = At(k, i) /\ (m - 1) % 3 = i - 1
<1> DEFINE i == ((m - 1) % 3) + 1
           k == ((m - 1) \div 3) + 1
<1>1. m - 1 \in Nat
  OBVIOUS
<1>2. k \in 1..n /\ i \in 1..3 /\ m = At(k, i) /\ (m - 1) % 3 = i - 1
  BY <1>1 DEF At
<1> QED  BY <1>2

(* The output line by line.                                                *)
LEMMA OutputIs ==
  ASSUME ArgumentsInv, NEW out \in Seq(Minable), output = LinesOf(out)
  PROVE  /\ Len(out) \in Nat /\ DOMAIN out = 1..Len(out)
         /\ Len(output) = 3 * Len(out) /\ DOMAIN output = 1..3 * Len(out)
         /\ \A k \in 1..Len(out), i \in 1..3 :
              /\ At(k, i) \in DOMAIN output
              /\ output[At(k, i)] = LineOf(LineKinds[i], out[k])
<1>1. /\ Len(out) \in Nat /\ DOMAIN out = 1..Len(out)
  OBVIOUS
<1>2. Len(output) = 3 * Len(out) /\ output \in Seq(MinedLines)
  BY LinesOfIs, MinedLinesFacts
<1>3. DOMAIN output = 1..3 * Len(out)
  BY <1>2
<1>4. \A k \in 1..Len(out), i \in 1..3 : At(k, i) \in 1..3 * Len(out)
  BY <1>1 DEF At
<1> QED  BY <1>1, <1>2, <1>3, <1>4, LinesOfIs DEF At

(* A sequence without repetitions is as long as its range is large.        *)
LEMMA CountOfDistinct ==
  ASSUME NEW V, NEW xs \in Seq(V), Distinct(xs)
  PROVE  Cardinality(Range(xs)) = Len(xs)
<1>1. Len(xs) \in Nat /\ DOMAIN xs = 1..Len(xs)
  OBVIOUS
<1>2. xs \in Bijection(1..Len(xs), Range(xs))
  <2>1. xs \in [1..Len(xs) -> Range(xs)]
    BY <1>1 DEF Range
  <2>2. \A i, k \in 1..Len(xs) : xs[i] = xs[k] => i = k
    BY <1>1 DEF Distinct
  <2>3. \A x \in Range(xs) : \E k \in 1..Len(xs) : xs[k] = x
    BY <1>1 DEF Range
  <2> QED  BY <2>1, <2>2, <2>3 DEF Bijection, Injection, Surjection, IsInjective
<1>3. ExistsBijection(1..Len(xs), Range(xs))
  BY <1>2 DEF ExistsBijection
<1> QED  BY <1>1, <1>3, FS_CountingElements

LEMMA LineIs ==
  ASSUME NEW kind, NEW x, NEW y, y = LineOf(kind, x)
  PROVE  y.kind = kind /\ y.file = x[1] /\ y.block = x[2]
BY DEF LineOf

LEMMA MinedHolds ==
  ASSUME IInv
  PROVE  MinedOnceAndWhole
<1>1. output_exists => output = Old
  BY DEF IInv, PhaseInv
<1>2. ASSUME phase = "done", has_parallel \/ NamesAreWords
      PROVE  /\ Len(output) = 3 * Cardinality(Minable)
             /\ {<<output[k].file, output[k].block>> : k \in DOMAIN output} = Minable
             /\ \A k \in DOMAIN output :
                  LET first == k - ((k - 1) % 3)
                  IN /\ output[k].kind = LineKinds[((k - 1) % 3) + 1]
                     /\ output[k].file = output[first].file
                     /\ output[k].block = output[first].block
                     /\ language # "VERILOG" =>
                          Range(output[k].text) \cap ErrorWords = {}
  <2>1. ArgumentsInv
    BY DEF IInv
  <2>2. InOrder
    BY <1>2, <2>1, WordsInOrder
  <2>3. PICK out \in Seq(Minable) :
          output = LinesOf(out) /\ Distinct(out) /\ Range(out) = Minable
    BY <1>2, <2>2 DEF IInv, AtWork, Mined
  <2>4. /\ Len(out) \in Nat /\ DOMAIN out = 1..Len(out)
        /\ Len(output) = 3 * Len(out) /\ DOMAIN output = 1..3 * Len(out)
        /\ \A k \in 1..Len(out), i \in 1..3 :
             /\ At(k, i) \in DOMAIN output
             /\ output[At(k, i)] = LineOf(LineKinds[i], out[k])
    BY <2>1, <2>3, OutputIs
  <2>5. Len(output) = 3 * Cardinality(Minable)
    BY <2>3, <2>4, CountOfDistinct
  <2>6. ASSUME NEW k \in 1..Len(out), NEW i \in 1..3
        PROVE  /\ output[At(k, i)].kind = LineKinds[i]
               /\ output[At(k, i)].file = out[k][1]
               /\ output[At(k, i)].block = out[k][2]
               /\ <<output[At(k, i)].file, output[At(k, i)].block>> = out[k]
               /\ language # "VERILOG" => Clean(output[At(k, i)].text)
    <3>1. LineKinds[i] \in {"comment", "ONE", "TWO"}
      BY DEF LineKinds
    <3>2. output[At(k, i)] = LineOf(LineKinds[i], out[k]) /\ out[k] \in Minable
      BY <2>4
    <3> QED  BY <2>1, <3>1, <3>2, LineFacts, LineIs
  <2>7. ASSUME NEW m \in DOMAIN output
        PROVE  \E k \in 1..Len(out), i \in 1..3 : m = At(k, i) /\ (m - 1) % 3 = i - 1
    <3>1. \A h \in 1..3 * Len(out) :
            \E k \in 1..Len(out), i \in 1..3 : h = At(k, i) /\ (h - 1) % 3 = i - 1
      BY <2>4, Thirds
    <3> QED  BY <2>4, <3>1
  <2>8. {<<output[m].file, output[m].block>> : m \in DOMAIN output} = Minable
    <3>1. ASSUME NEW m \in DOMAIN output PROVE <<output[m].file, output[m].block>> \in Minable
      <4>1. PICK k \in 1..Len(out), i \in 1..3 : m = At(k, i)
        BY <2>7
      <4>2. out[k] \in Minable
        BY <2>4
      <4> QED  BY <2>6, <4>1, <4>2
    <3>2. ASSUME NEW x \in Minable
          PROVE  \E m \in DOMAIN output : <<output[m].file, output[m].block>> = x
      <4>1. PICK k \in 1..Len(out) : out[k] = x
        BY <2>3, <2>4 DEF Range
      <4>2. PICK m : m = At(k, 1)
        OBVIOUS
      <4>3. m \in DOMAIN output /\ <<output[m].file, output[m].block>> = out[k]
        BY <2>4, <2>6, <4>2
      <4> QED  BY <4>1, <4>3
    <3> QED  BY <3>1, <3>2
  <2>9. ASSUME NEW m \in DOMAIN output
        PROVE  LET first == m - ((m - 1) % 3)
               IN /\ output[m].kind = LineKinds[((m - 1) % 3) + 1]
                  /\ output[m].file = output[first].file
                  /\ output[m].block = output[first].block
                  /\ language # "VERILOG" =>
                       Range(output[m].text) \cap ErrorWords = {}
    <3>1. PICK k \in 1..Len(out), i \in 1..3 : m = At(k, i) /\ (m - 1) % 3 = i - 1
      BY <2>7
    <3>2. m - ((m - 1) % 3) = At(k, 1) /\ ((m - 1) % 3) + 1 = i
      BY <3>1 DEF At
    <3>3. output[At(k, 1)].file = out[k][1] /\ output[At(k, 1)].block = out[k][2]
      BY <2>6
    <3> QED  BY <2>6, <3>1, <3>2, <3>3 DEF Clean
  <2> QED  BY <2>5, <2>8, <2>9
<1> QED  BY <1>1, <1>2 DEF MinedOnceAndWhole

(* Whatever the repository, the number of jobs and their interleaving:     *)
(* when the script is done the dataset has every block that both levels    *)
(* have an expression for, once, as three lines in a row, and nothing      *)
(* else.                                                                   *)
THEOREM MinedCorrect == Spec => []MinedOnceAndWhole
BY Invariance, MinedHolds, PTL

LEMMA FoundHolds ==
  ASSUME IInv
  PROVE  FoundAtOneIsFoundAtTwo
<1> SUFFICES ASSUME phase = "done", NEW n \in Conditions[language],
                    NEW m \in DOMAIN output,
                    output[m].kind = "ONE", output[m].text = LevelOne[n],
                    ~HasError[n], ~HasError[BlockOfLine(output[m])]
             PROVE  /\ ~LevelTwoThrows(language, n)
                    /\ LevelTwo(language, n) \in Texts("TWO")
  BY DEF FoundAtOneIsFoundAtTwo
<1>1. ArgumentsInv /\ language \in Languages /\ n \in TreesOf[language]
  BY RepositoriesAssumption DEF IInv, ArgumentsInv
<1>2. PICK out \in Seq(Minable) : output = LinesOf(out)
  BY DEF IInv, AtWork, Mined
<1>3. /\ Len(out) \in Nat /\ DOMAIN out = 1..Len(out)
      /\ Len(output) = 3 * Len(out) /\ DOMAIN output = 1..3 * Len(out)
      /\ \A k \in 1..Len(out), i \in 1..3 :
           /\ At(k, i) \in DOMAIN output
           /\ output[At(k, i)] = LineOf(LineKinds[i], out[k])
  BY <1>1, <1>2, OutputIs
<1>5. PICK k \in 1..Len(out), i \in 1..3 : m = At(k, i)
  <2>1. \A h \in 1..3 * Len(out) : \E k \in 1..Len(out), i \in 1..3 : h = At(k, i)
    BY <1>3, Thirds
  <2> QED  BY <1>3, <2>1
<1>6. PICK x \in Minable : x = out[k]
  OBVIOUS
<1> DEFINE b == Blocks(x[1])[x[2]]
<1>7. b \in TreesOf[language] /\ ~LevelTwoThrows(language, b)
  <2>1. "ONE" \in {"comment", "ONE", "TWO"}
    OBVIOUS
  <2> QED  BY <1>1, <2>1, LineFacts, MinableIs
<1>4. BlockOfLine(output[m]) = b
  <2>1. LineKinds[i] \in {"comment", "ONE", "TWO"}
    BY DEF LineKinds
  <2>2. output[m] = LineOf(LineKinds[i], x)
    BY <1>3, <1>5, <1>6
  <2>3. output[m].file = x[1] /\ output[m].block = x[2]
    BY <2>2, LineIs
  <2>4. Blocks(x[1]) = CodeBlocksOf(language, files[x[1]])
    BY <1>1, MinableIs DEF Blocks
  <2> QED  BY <2>3, <2>4 DEF BlockOfLine, b
<1> HIDE DEF b
<1>8. \A kind : LineOf(kind, x).kind = kind /\ LineOf(kind, x).text = LineText(kind, b)
  BY DEF LineOf, b
<1>9. LevelOne[b] = LevelOne[n]
  <2>1. output[m] = LineOf(LineKinds[i], x)
    BY <1>3, <1>5, <1>6
  <2>2. LineKinds[i] = "ONE"
    BY <1>8, <2>1
  <2>3. output[m].text = LineText("ONE", b)
    BY <1>8, <2>1, <2>2
  <2> QED  BY <2>3 DEF LineText
<1>10. /\ LevelTwo(language, n) = LevelTwo(language, b)
       /\ LevelTwoThrows(language, n) = LevelTwoThrows(language, b)
  <2>1. ~HasError[b]
    BY <1>4
  <2> QED  BY <1>1, <1>7, <1>9, <2>1, OneTellsTwo
<1>11. LevelTwo(language, b) \in Texts("TWO")
  <2>1. PICK h : h = At(k, 3)
    OBVIOUS
  <2>2. h \in DOMAIN output /\ output[h] = LineOf(LineKinds[3], x)
    BY <1>3, <1>6, <2>1
  <2>3. LineKinds[3] = "TWO"
    BY DEF LineKinds
  <2>4. output[h].kind = "TWO" /\ output[h].text = LineText("TWO", b)
    BY <1>8, <2>2, <2>3
  <2> QED  BY <2>2, <2>4 DEF LineText, Texts
<1> QED  BY <1>7, <1>10, <1>11

(* For all conditions and repositories: of code that parses, what a scan   *)
(* finds at LEVEL_ONE it also finds at LEVEL_TWO, so that ScanFile may     *)
(* leave what is missing at LEVEL_ONE to LEVEL_TWO.                        *)
THEOREM FoundCorrect == Spec => []FoundAtOneIsFoundAtTwo
BY Invariance, FoundHolds, PTL

LEMMA NoneBeginsHolds ==
  ASSUME IInv
  PROVE  NoneBeginsAnother
<1>1. ArgumentsInv
  BY DEF IInv
<1>2. ASSUME NEW kind \in {"ONE", "TWO"}, NEW e \in Texts(kind)
      PROVE  e \in Balanced
  <2>1. PICK m \in DOMAIN output : output[m].kind = kind /\ output[m].text = e
    BY <1>2 DEF Texts
  <2>2. output # Old
    BY <1>2, <2>1 DEF Old
  <2>3. output[m] \in MinedLines
    BY <2>1, <2>2, OutputFacts
  <2>4. PICK k \in {"comment", "ONE", "TWO"}, x \in Minable : output[m] = LineOf(k, x)
    BY <2>3 DEF MinedLines
  <2> DEFINE b == Blocks(x[1])[x[2]]
  <2>5. b \in Trees
    BY <1>1, LineFacts
  <2> HIDE DEF b
  <2>6. LineOf(k, x).kind = k /\ LineOf(k, x).text = LineText(k, b)
    BY DEF LineOf, b
  <2>7. e = LineText(kind, b)
    BY <2>1, <2>4, <2>6
  <2>8. e = LevelOne[b] \/ e = LevelTwo(language, b)
    BY <1>2, <2>7 DEF LineText
  <2> QED  BY <2>5, <2>8, LevelOneIsBalanced, LevelTwoIsBalanced
<1> QED  BY <1>2, NoBalancedBeginsAnother DEF NoneBeginsAnother

(* For all trees: no expression of the dataset begins another one of its   *)
(* level, so that occurrences are never those of another expression.       *)
THEOREM NoneBeginsCorrect == Spec => []NoneBeginsAnother
BY Invariance, NoneBeginsHolds, PTL
=============================================================================
