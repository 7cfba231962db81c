----------------------------- MODULE TrieProofs -----------------------------
(***************************************************************************)
(* For datasets of any length over any alphabet: the counters of the nodes *)
(* count the lines below them, terminal nodes and contributors are those   *)
(* of the dataset, and looking up finds exactly the training set.  An      *)
(* insertion is the only step that matters, and each count grows by one    *)
(* exactly when the new line is one it counts.  The list of all paths is   *)
(* right because the queue of the visit never holds a node above another   *)
(* or above a listed one, and loses no expression.                         *)
(*                                                                         *)
(* Of the searches by candidates: the candidates are near the target, and  *)
(* one edit is found.                                                      *)
(***************************************************************************)
EXTENDS CandidateSearch, FiniteSetTheorems, SequenceTheorems, TLAPS

(* Counting the indices of a sequence that grew by one element.            *)
LEMMA CountOneMore ==
  ASSUME NEW n \in Nat, NEW S \in SUBSET (1..n), NEW b \in BOOLEAN
  PROVE  /\ Cardinality(S) \in Nat
         /\ Cardinality(S \cup (IF b THEN {n + 1} ELSE {}))
              = Cardinality(S) + (IF b THEN 1 ELSE 0)
<1>1. IsFiniteSet(S) /\ Cardinality(S) \in Nat
  <2>1. IsFiniteSet(1..n)
    BY FS_Interval
  <2>2. IsFiniteSet(S)
    BY <2>1, FS_Subset, Zenon
  <2> QED
    BY <2>2, FS_CardinalityType, Zenon
<1>2. CASE b
  <2>1. n + 1 \notin S
    OBVIOUS
  <2> QED
    BY <1>1, <1>2, <2>1, FS_AddElement
<1>3. CASE ~b
  BY <1>1, <1>3
<1> QED
  BY <1>1, <1>2, <1>3

(* The prefixes of a string are strings, the string and the empty one      *)
(* among them, and they are those that begin it.                           *)
LEMMA PrefixesBegin ==
  ASSUME NEW e \in Seq(Alphabet)
  PROVE  /\ Prefixes(e) \subseteq Seq(Alphabet)
         /\ e \in Prefixes(e) /\ Root \in Prefixes(e)
         /\ \A p \in Seq(Alphabet) : p \in Prefixes(e) <=> IsPrefix(p, e)
<1>0. Len(e) \in Nat
  OBVIOUS
<1>1. \A k \in 0..Len(e) : SubSeq(e, 1, k) \in Seq(Alphabet)
  OBVIOUS
<1>2. SubSeq(e, 1, Len(e)) = e /\ SubSeq(e, 1, 0) = << >>
  OBVIOUS
<1>3. ASSUME NEW p \in Seq(Alphabet)
      PROVE  p \in Prefixes(e) <=> IsPrefix(p, e)
  <2>1. SubSeq(p, 1, Len(p)) = p /\ Len(p) \in Nat
    OBVIOUS
  <2>2. ASSUME p \in Prefixes(e) PROVE IsPrefix(p, e)
    <3>1. PICK k \in 0..Len(e) : p = SubSeq(e, 1, k)
      BY <2>2 DEF Prefixes
    <3>2. Len(p) = k
      BY <3>1
    <3> QED
      BY <2>1, <3>1, <3>2 DEF IsPrefix
  <2>3. ASSUME IsPrefix(p, e) PROVE p \in Prefixes(e)
    <3>1. Len(p) \in 0..Len(e) /\ p = SubSeq(e, 1, Len(p))
      BY <1>0, <2>1, <2>3 DEF IsPrefix
    <3> QED
      BY <3>1, Zenon DEF Prefixes
  <2> QED
    BY <2>2, <2>3
<1> QED
  <2>1. Prefixes(e) \subseteq Seq(Alphabet)
    BY <1>1 DEF Prefixes
  <2>2. e \in Prefixes(e) /\ Root \in Prefixes(e)
    <3>1. Len(e) \in 0..Len(e) /\ 0 \in 0..Len(e)
      BY <1>0
    <3> QED
      BY <1>2, <3>1, Zenon DEF Prefixes, Root
  <2> QED
    BY <1>3, <2>1, <2>2

(* A node that is not in the trie stands for no line, so that what is true *)
(* of the nodes is true of all strings.                                    *)
LEMMA CountsOfAllStrings ==
  ASSUME CountsInv, NEW p \in Seq(Alphabet)
  PROVE  /\ Node(p).num_occurrences = Cardinality(LinesBelow(p))
         /\ Node(p).terminal_node <=> p \in TrainingSet
         /\ \A c \in Contributors :
              Node(p).pattern_contributors[c] = Cardinality(LinesOf(p, c))
<1>1. CASE p \in DOMAIN nodes
  BY <1>1 DEF Node, CountsInv, OccurrencesCountPrefixes,
              TerminalsAreTheTrainingSet
<1>2. CASE p \notin DOMAIN nodes
  <2>1. \A k \in DOMAIN lines : lines[k].expression \in Seq(Alphabet)
    <3>1. \A k \in DOMAIN lines : lines[k] \in Line
      BY DEF CountsInv
    <3> QED
      BY <3>1, ExpressionsAssumption DEF Line
  <2>2. \A k \in DOMAIN lines : p \notin Prefixes(lines[k].expression)
    BY <1>2 DEF CountsInv, OccurrencesCountPrefixes, TrainingSet
  <2>3. LinesBelow(p) = {}
    BY <2>1, <2>2, PrefixesBegin DEF LinesBelow
  <2>4. \A k \in DOMAIN lines : lines[k].expression # p
    BY <2>1, <2>2, PrefixesBegin
  <2>5. p \notin TrainingSet /\ \A c \in Contributors : LinesOf(p, c) = {}
    BY <2>4 DEF TrainingSet, LinesOf, LinesWith
  <2> QED
    BY <1>2, <2>3, <2>5, FS_EmptySet DEF Node, NewNode
<1> QED
  BY <1>1, <1>2

LEMMA InitCounts == Init => CountsInv
<1> SUFFICES ASSUME Init PROVE CountsInv
  OBVIOUS
<1>1. lines = << >> /\ DOMAIN nodes = {Root} /\ nodes[Root] = NewNode
  BY DEF Init
<1>2. TrainingSet = {} /\ \A p : LinesBelow(p) = {}
  BY <1>1 DEF TrainingSet, LinesBelow
<1>3. \A p, c : LinesOf(p, c) = {}
  BY <1>1 DEF LinesOf, LinesWith
<1>3a. /\ NewNode.num_occurrences = 0 /\ NewNode.terminal_node = FALSE
       /\ NewNode.pattern_contributors = [c \in Contributors |-> 0]
       /\ NewNode \in [num_occurrences : Nat, terminal_node : BOOLEAN,
                       pattern_contributors : [Contributors -> Nat]]
  BY DEF NewNode
<1>3b. Cardinality({}) = 0
  BY FS_EmptySet
<1>4. OccurrencesCountPrefixes
  BY <1>1, <1>2, <1>3a, <1>3b DEF OccurrencesCountPrefixes
<1>5. TerminalsAreTheTrainingSet
  BY <1>1, <1>2, <1>3, <1>3a, <1>3b DEF TerminalsAreTheTrainingSet
<1> QED
  BY <1>1, <1>3a, <1>4, <1>5 DEF CountsInv

LEMMA ReadLineCounts == CountsInv /\ ReadLine => CountsInv'
<1> SUFFICES ASSUME CountsInv, ReadLine PROVE CountsInv'
  OBVIOUS
<1>1. PICK line \in Line :
        /\ lines' = Append(lines, line)
        /\ Insert(line.expression, line.contributor)
  BY DEF ReadLine
<1> DEFINE e == line.expression
           n == Len(lines)
<1>2. /\ e \in Expressions /\ e \in Seq(Alphabet)
      /\ line.contributor \in Contributors
  BY ExpressionsAssumption DEF Line
<1>3. /\ n \in Nat /\ DOMAIN lines = 1..n /\ lines \in Seq(Line)
      /\ lines' \in Seq(Line) /\ DOMAIN lines' = 1..n + 1
      /\ lines'[n + 1] = line
      /\ \A k \in 1..n : lines'[k] = lines[k]
  BY <1>1 DEF CountsInv
<1>4. TrainingSet' = TrainingSet \cup {e}
  <2>1. \A k \in DOMAIN lines' : k \in DOMAIN lines \/ k = n + 1
    BY <1>3
  <2>2. TrainingSet' \subseteq TrainingSet \cup {e}
    BY <1>3, <2>1 DEF TrainingSet
  <2>3. TrainingSet \subseteq TrainingSet'
    BY <1>3 DEF TrainingSet
  <2>4. e \in TrainingSet'
    BY <1>3 DEF TrainingSet
  <2> QED
    BY <2>2, <2>3, <2>4
<1>5. ASSUME NEW p
      PROVE  LinesBelow(p)' =
               LinesBelow(p) \cup (IF IsPrefix(p, e) THEN {n + 1} ELSE {})
  BY <1>3 DEF LinesBelow
<1>6. ASSUME NEW p, NEW c
      PROVE  LinesOf(p, c)' =
               LinesOf(p, c) \cup (IF p = e /\ c = line.contributor
                                     THEN {n + 1} ELSE {})
  BY <1>3 DEF LinesOf, LinesWith
<1> DEFINE count(p) ==
             Node(p).num_occurrences + (IF p \in Prefixes(e) THEN 1 ELSE 0)
           ends(p) == Node(p).terminal_node \/ p = e
           credit(p) ==
             [d \in Contributors |->
                Node(p).pattern_contributors[d]
                  + (IF p = e /\ d = line.contributor THEN 1 ELSE 0)]
<1>6a. /\ DOMAIN nodes' = DOMAIN nodes \cup Prefixes(e)
       /\ \A p \in DOMAIN nodes' :
            nodes'[p] = [num_occurrences |-> count(p),
                         terminal_node |-> ends(p),
                         pattern_contributors |-> credit(p)]
  BY <1>1, Zenon DEF Insert, Counted, Credit
<1> HIDE DEF count, ends, credit
<1>7. \A p \in DOMAIN nodes' : /\ nodes'[p].num_occurrences = count(p)
                               /\ nodes'[p].terminal_node = ends(p)
                               /\ nodes'[p].pattern_contributors = credit(p)
  <2> SUFFICES ASSUME NEW p \in DOMAIN nodes'
               PROVE  /\ nodes'[p].num_occurrences = count(p)
                      /\ nodes'[p].terminal_node = ends(p)
                      /\ nodes'[p].pattern_contributors = credit(p)
    OBVIOUS
  <2>1. nodes'[p] = [num_occurrences |-> count(p), terminal_node |-> ends(p),
                     pattern_contributors |-> credit(p)]
    BY <1>6a, Zenon
  <2> QED
    BY <2>1
<1>8. DOMAIN nodes' = {Root} \cup UNION {Prefixes(f) : f \in TrainingSet'}
  BY <1>4, <1>6a DEF CountsInv, OccurrencesCountPrefixes
<1>9. DOMAIN nodes' \subseteq Seq(Alphabet)
  <2>1. TrainingSet \subseteq Seq(Alphabet)
    <3>1. \A k \in DOMAIN lines : lines[k] \in Line
      BY <1>3
    <3>2. \A k \in DOMAIN lines : lines[k].expression \in Seq(Alphabet)
      BY <3>1, ExpressionsAssumption DEF Line
    <3> QED
      BY <3>2, Zenon DEF TrainingSet
  <2>2. TrainingSet' \subseteq Seq(Alphabet)
    BY <1>2, <1>4, <2>1
  <2>3. Root \in Seq(Alphabet)
    BY DEF Root
  <2> QED
    BY <1>8, <2>2, <2>3, PrefixesBegin
<1>10. ASSUME NEW p \in DOMAIN nodes'
       PROVE  /\ nodes'[p].num_occurrences = Cardinality(LinesBelow(p)')
              /\ nodes'[p].num_occurrences \in Nat
  <2>1. p \in Seq(Alphabet)
    BY <1>9
  <2>2. LinesBelow(p) \in SUBSET (1..n) /\ IsPrefix(p, e) \in BOOLEAN
    BY <1>3 DEF LinesBelow, IsPrefix
  <2>3. /\ Cardinality(LinesBelow(p)) \in Nat
        /\ Cardinality(LinesBelow(p)') =
             Cardinality(LinesBelow(p)) + (IF IsPrefix(p, e) THEN 1 ELSE 0)
    BY <1>3, <1>5, <2>2, CountOneMore
  <2>4. p \in Prefixes(e) <=> IsPrefix(p, e)
    BY <1>2, <2>1, PrefixesBegin
  <2>5. Node(p).num_occurrences = Cardinality(LinesBelow(p))
    BY <2>1, CountsOfAllStrings
  <2> QED
    BY <1>7, <2>3, <2>4, <2>5 DEF count
<1>11. ASSUME NEW p \in DOMAIN nodes'
       PROVE  nodes'[p].terminal_node <=> p \in TrainingSet'
  <2>1. p \in Seq(Alphabet)
    BY <1>9
  <2>2. nodes'[p].terminal_node <=> Node(p).terminal_node \/ p = e
    BY <1>7, Zenon DEF ends
  <2> QED
    BY <1>4, <2>1, <2>2, CountsOfAllStrings
<1>12. ASSUME NEW p \in DOMAIN nodes', NEW c \in Contributors
       PROVE  /\ nodes'[p].pattern_contributors[c] = Cardinality(LinesOf(p, c)')
              /\ nodes'[p].pattern_contributors[c] \in Nat
  <2>1. p \in Seq(Alphabet)
    BY <1>9
  <2>2. LinesOf(p, c) \in SUBSET (1..n)
    BY <1>3 DEF LinesOf, LinesWith
  <2> DEFINE b == p = e /\ c = line.contributor
  <2>3. /\ Cardinality(LinesOf(p, c)) \in Nat
        /\ Cardinality(LinesOf(p, c)') =
             Cardinality(LinesOf(p, c)) + (IF b THEN 1 ELSE 0)
    BY <1>3, <1>6, <2>2, CountOneMore
  <2>4. Node(p).pattern_contributors[c] = Cardinality(LinesOf(p, c))
    BY <2>1, CountsOfAllStrings
  <2>5. nodes'[p].pattern_contributors[c] =
          Node(p).pattern_contributors[c] + (IF b THEN 1 ELSE 0)
    <3>1. credit(p)[c] =
            Node(p).pattern_contributors[c] + (IF b THEN 1 ELSE 0)
      BY DEF credit
    <3> QED
      BY <1>7, <3>1
  <2> QED
    BY <2>3, <2>4, <2>5
<1>13. ASSUME NEW p \in DOMAIN nodes'
       PROVE  nodes'[p] \in [num_occurrences : Nat, terminal_node : BOOLEAN,
                             pattern_contributors : [Contributors -> Nat]]
  <2>1. nodes'[p].num_occurrences \in Nat
    BY <1>10
  <2>2. nodes'[p].terminal_node \in BOOLEAN
    BY <1>7, Zenon DEF ends
  <2>3. nodes'[p].pattern_contributors \in [Contributors -> Nat]
    BY <1>7, <1>12 DEF credit
  <2>4. nodes'[p] = [num_occurrences |-> nodes'[p].num_occurrences,
                     terminal_node |-> nodes'[p].terminal_node,
                     pattern_contributors |-> nodes'[p].pattern_contributors]
    BY <1>6a, <1>7, Zenon
  <2> QED
    BY <2>1, <2>2, <2>3, <2>4, Zenon
<1>14. OccurrencesCountPrefixes'
  BY <1>8, <1>10 DEF OccurrencesCountPrefixes
<1>15. TerminalsAreTheTrainingSet'
  BY <1>11, <1>12 DEF TerminalsAreTheTrainingSet
<1> QED
  BY <1>3, <1>13, <1>14, <1>15 DEF CountsInv

LEMMA StepCounts == CountsInv /\ [Next]_vars => CountsInv'
<1> SUFFICES ASSUME CountsInv, [Next]_vars PROVE CountsInv'
  OBVIOUS
<1>1. CASE ReadLine
  BY <1>1, ReadLineCounts
<1>2. CASE UNCHANGED <<lines, nodes>>
  <2>1. lines' = lines /\ nodes' = nodes
    BY <1>2
  <2>2. TrainingSet' = TrainingSet
    BY <2>1, Zenon DEF TrainingSet
  <2>3. \A p : LinesBelow(p)' = LinesBelow(p)
    BY <2>1, Zenon DEF LinesBelow
  <2>4. \A p, c : LinesOf(p, c)' = LinesOf(p, c)
    BY <2>1, Zenon DEF LinesOf, LinesWith
  <2>5. OccurrencesCountPrefixes'
    BY <2>1, <2>2, <2>3, Zenon DEF CountsInv, OccurrencesCountPrefixes
  <2>6. TerminalsAreTheTrainingSet'
    BY <2>1, <2>2, <2>4, Zenon DEF CountsInv, TerminalsAreTheTrainingSet
  <2> QED
    BY <2>1, <2>5, <2>6, Zenon DEF CountsInv
<1> QED
  BY <1>1, <1>2 DEF Next, OpenFails, EndOfFile, Visit, BuildReturns, Over, vars

(* The counters, the terminal nodes and the contributors agree with the    *)
(* lines read in every reachable state.                                    *)
THEOREM CountsCorrect == Spec => []CountsInv
BY InitCounts, StepCounts, PTL DEF Spec

(* A node is there for each prefix of the training set, and its counter is *)
(* the number of lines with an expression it begins.                       *)
THEOREM OccurrencesCorrect == Spec => []OccurrencesCountPrefixes
<1>1. CountsInv => OccurrencesCountPrefixes
  BY DEF CountsInv
<1> QED
  BY <1>1, CountsCorrect, PTL

(* Terminal nodes are the expressions of the dataset, and contributors are *)
(* credited with exactly their lines.                                      *)
THEOREM TerminalsCorrect == Spec => []TerminalsAreTheTrainingSet
<1>1. CountsInv => TerminalsAreTheTrainingSet
  BY DEF CountsInv
<1> QED
  BY <1>1, CountsCorrect, PTL

(* An expression is found exactly when a line of the dataset has it.       *)
THEOREM LookUpCorrect == Spec => []LookUpFindsTheTrainingSet
<1>1. CountsInv => LookUpFindsTheTrainingSet
  <2> SUFFICES ASSUME CountsInv, NEW e \in Expressions
               PROVE  Found(e) <=> e \in TrainingSet
    BY DEF LookUpFindsTheTrainingSet
  <2>1. e \in Seq(Alphabet)
    BY ExpressionsAssumption
  <2>2. e \in TrainingSet => e \in DOMAIN nodes
    BY <2>1, PrefixesBegin DEF CountsInv, OccurrencesCountPrefixes
  <2> QED
    BY <2>2 DEF CountsInv, TerminalsAreTheTrainingSet, Found
<1> QED
  BY <1>1, CountsCorrect, PTL

-----------------------------------------------------------------------------
(* The order of prefixes.                                                  *)

LEMMA StringBasics ==
  ASSUME NEW p \in Seq(Alphabet)
  PROVE  /\ Len(p) \in Nat
         /\ SubSeq(p, 1, Len(p)) = p
         /\ \A k \in 0..Len(p) : /\ SubSeq(p, 1, k) \in Seq(Alphabet)
                                 /\ Len(SubSeq(p, 1, k)) = k
                                 /\ \A i \in 1..k : SubSeq(p, 1, k)[i] = p[i]
OBVIOUS

LEMMA SameString ==
  ASSUME NEW p \in Seq(Alphabet), NEW q \in Seq(Alphabet),
         Len(p) = Len(q), \A i \in 1..Len(p) : p[i] = q[i]
  PROVE  p = q
OBVIOUS

LEMMA PrefixPointwise ==
  ASSUME NEW p \in Seq(Alphabet), NEW q \in Seq(Alphabet)
  PROVE  IsPrefix(p, q) <=> /\ Len(p) <= Len(q)
                            /\ \A i \in 1..Len(p) : p[i] = q[i]
<1>1. Len(p) \in Nat /\ Len(q) \in Nat /\ SubSeq(p, 1, Len(p)) = p
  BY StringBasics
<1>2. CASE Len(p) <= Len(q)
  <2> DEFINE r == SubSeq(q, 1, Len(p))
  <2>1. /\ r \in Seq(Alphabet) /\ Len(r) = Len(p)
        /\ \A i \in 1..Len(p) : r[i] = q[i]
    <3>1. Len(p) \in 0..Len(q)
      BY <1>1, <1>2
    <3> QED  BY <3>1, StringBasics
  <2>2. IsPrefix(p, q) <=> p = r
    BY <1>1, <1>2 DEF IsPrefix
  <2> HIDE DEF r
  <2>3. ASSUME \A i \in 1..Len(p) : p[i] = q[i]
        PROVE  p = r
    BY <2>1, <2>3, SameString
  <2> QED  BY <1>2, <2>1, <2>2, <2>3
<1>3. CASE ~(Len(p) <= Len(q))
  BY <1>3 DEF IsPrefix
<1> QED  BY <1>2, <1>3

LEMMA PrefixReflexive ==
  ASSUME NEW p \in Seq(Alphabet)
  PROVE  IsPrefix(p, p)
BY PrefixPointwise, StringBasics

LEMMA PrefixTransitive ==
  ASSUME NEW p \in Seq(Alphabet), NEW q \in Seq(Alphabet),
         NEW r \in Seq(Alphabet), IsPrefix(p, q), IsPrefix(q, r)
  PROVE  IsPrefix(p, r)
<1>1. Len(p) \in Nat /\ Len(q) \in Nat /\ Len(r) \in Nat
  BY StringBasics
<1>2. /\ Len(p) <= Len(q) /\ \A i \in 1..Len(p) : p[i] = q[i]
      /\ Len(q) <= Len(r) /\ \A i \in 1..Len(q) : q[i] = r[i]
  BY PrefixPointwise
<1>3. Len(p) <= Len(r) /\ \A i \in 1..Len(p) : p[i] = r[i]
  BY <1>1, <1>2
<1> QED  BY <1>3, PrefixPointwise

(* What begins a child is the child or begins its parent.                  *)
LEMMA PrefixOfChild ==
  ASSUME NEW p \in Seq(Alphabet), NEW c \in Seq(Alphabet),
         NEW t \in Seq(Alphabet),
         IsPrefix(p, c), Len(c) = Len(p) + 1, IsPrefix(t, c)
  PROVE  t = c \/ IsPrefix(t, p)
<1>1. Len(p) \in Nat /\ Len(c) \in Nat /\ Len(t) \in Nat
  BY StringBasics
<1>2. /\ \A i \in 1..Len(p) : p[i] = c[i]
      /\ Len(t) <= Len(c) /\ \A i \in 1..Len(t) : t[i] = c[i]
  BY PrefixPointwise
<1>3. CASE Len(t) = Len(c)
  BY <1>2, <1>3, SameString
<1>4. CASE Len(t) <= Len(p)
  <2>1. \A i \in 1..Len(t) : t[i] = p[i]
    BY <1>1, <1>2, <1>4
  <2> QED  BY <1>4, <2>1, PrefixPointwise
<1> QED  BY <1>1, <1>2, <1>3, <1>4

(* A string that p begins and that is not p has a prefix one longer.       *)
LEMMA NextPrefix ==
  ASSUME NEW p \in Seq(Alphabet), NEW t \in Seq(Alphabet),
         IsPrefix(p, t), p # t
  PROVE  \E c \in Seq(Alphabet) :
           Len(c) = Len(p) + 1 /\ IsPrefix(p, c) /\ IsPrefix(c, t)
<1>1. Len(p) \in Nat /\ Len(t) \in Nat
  BY StringBasics
<1>2. Len(p) <= Len(t) /\ \A i \in 1..Len(p) : p[i] = t[i]
  BY PrefixPointwise
<1>3. Len(p) # Len(t)
  BY <1>2, SameString
<1> DEFINE c == SubSeq(t, 1, Len(p) + 1)
<1>4. Len(p) + 1 \in 0..Len(t)
  BY <1>1, <1>2, <1>3
<1>5. /\ c \in Seq(Alphabet) /\ Len(c) = Len(p) + 1
      /\ \A i \in 1..Len(p) + 1 : c[i] = t[i]
  BY <1>4, StringBasics
<1> HIDE DEF c
<1>6. Len(c) <= Len(t) /\ \A i \in 1..Len(c) : c[i] = t[i]
  BY <1>1, <1>4, <1>5
<1>7. Len(p) <= Len(c) /\ \A i \in 1..Len(p) : p[i] = c[i]
  BY <1>1, <1>2, <1>5
<1> QED  BY <1>5, <1>6, <1>7, PrefixPointwise

-----------------------------------------------------------------------------
(* The nodes.                                                              *)

LEMMA TrainingSetStrings ==
  ASSUME CountsInv
  PROVE  TrainingSet \subseteq Seq(Alphabet)
<1>1. \A k \in DOMAIN lines : lines[k] \in Line
  BY DEF CountsInv
<1>2. \A k \in DOMAIN lines : lines[k].expression \in Seq(Alphabet)
  BY <1>1, ExpressionsAssumption DEF Line
<1> QED  BY <1>2, Zenon DEF TrainingSet

LEMMA NodesAreStrings ==
  ASSUME CountsInv
  PROVE  DOMAIN nodes \subseteq Seq(Alphabet)
<1>1. DOMAIN nodes = {Root} \cup UNION {Prefixes(e) : e \in TrainingSet}
  BY DEF CountsInv, OccurrencesCountPrefixes
<1>2. Root \in Seq(Alphabet)
  BY DEF Root
<1> QED  BY <1>1, <1>2, TrainingSetStrings, PrefixesBegin

(* With a node the trie has all nodes above it.                            *)
LEMMA NodesAreClosed ==
  ASSUME CountsInv, NEW t \in DOMAIN nodes, NEW c \in Seq(Alphabet),
         IsPrefix(c, t)
  PROVE  c \in DOMAIN nodes
<1>1. DOMAIN nodes = {Root} \cup UNION {Prefixes(e) : e \in TrainingSet}
  BY DEF CountsInv, OccurrencesCountPrefixes
<1>2. t \in Seq(Alphabet)
  BY NodesAreStrings
<1>3. CASE t = Root
  <2>1. Len(t) = 0 /\ Len(c) \in Nat /\ Len(c) <= Len(t)
    BY <1>2, <1>3, StringBasics, PrefixPointwise DEF Root
  <2>2. c = t
    BY <1>2, <2>1, SameString
  <2> QED  BY <2>2
<1>4. CASE t # Root
  <2>1. PICK e \in TrainingSet : t \in Prefixes(e)
    BY <1>1, <1>4
  <2>2. e \in Seq(Alphabet)
    BY TrainingSetStrings
  <2>3. IsPrefix(t, e)
    BY <1>2, <2>1, <2>2, PrefixesBegin
  <2>4. IsPrefix(c, e)
    BY <1>2, <2>2, <2>3, PrefixTransitive
  <2>5. c \in Prefixes(e)
    BY <2>2, <2>4, PrefixesBegin
  <2> QED  BY <1>1, <2>5
<1> QED  BY <1>3, <1>4

LEMMA PrefixesFinite ==
  ASSUME NEW e \in Seq(Alphabet)
  PROVE  IsFiniteSet(Prefixes(e))
<1>1. IsFiniteSet(0..Len(e))
  BY FS_Interval, StringBasics
<1> DEFINE f == [k \in 0..Len(e) |-> SubSeq(e, 1, k)]
           T == {f[k] : k \in 0..Len(e)}
<1>2. IsFiniteSet(T)
  <2>1. f \in Surjection(0..Len(e), T)
    BY DEF Surjection
  <2> HIDE DEF f, T
  <2> QED  BY <1>1, <2>1, FS_Surjection
<1>3. Prefixes(e) = T
  BY Zenon DEF Prefixes
<1> QED  BY <1>2, <1>3

-----------------------------------------------------------------------------
(* The list of all paths.                                                  *)

(* An order of the children holds each of them once and nothing else.      *)
LEMMA OrderOfChildren ==
  ASSUME IsFiniteSet(DOMAIN nodes), NEW p \in DOMAIN nodes,
         NEW order \in ToVisit(p)
  PROVE  /\ order \in Seq(Children(p))
         /\ \A i, j \in DOMAIN order : order[i] = order[j] => i = j
         /\ \A c \in Children(p) : \E i \in DOMAIN order : order[i] = c
<1> DEFINE C == Children(p)
           n == Cardinality(C)
<1>1. IsFiniteSet(C) /\ n \in Nat
  <2>1. C \in SUBSET DOMAIN nodes
    BY DEF Children
  <2>2. IsFiniteSet(C)
    BY <2>1, FS_Subset, Zenon
  <2> QED  BY <2>2, FS_CardinalityType, Zenon
<1> HIDE DEF C
<1>2. /\ order \in [1..n -> C]
      /\ \A i, j \in 1..n : i # j => order[i] # order[j]
  BY Zenon DEF ToVisit, SetToSeqs, C
<1>3. order \in Injection(1..n, C)
  BY <1>2 DEF Injection, IsInjective
<1>4. Cardinality(1..n) = n
  BY <1>1, FS_Interval
<1> HIDE DEF n
<1>5. order \in Surjection(1..n, C)
  <2>1. Cardinality(1..n) = Cardinality(C) <=> order \in Surjection(1..n, C)
    BY <1>1, <1>3, FS_Injection, Zenon
  <2> QED  BY <1>4, <2>1 DEF n
<1>6. \A c \in C : \E i \in 1..n : order[i] = c
  BY <1>5, Zenon DEF Surjection
<1>7. order \in Seq(C) /\ DOMAIN order = 1..n
  BY <1>1, <1>2
<1> QED
  BY <1>2, <1>6, <1>7 DEF C

LEMMA InitQueue == Init => QueueInv
<1> SUFFICES ASSUME Init PROVE QueueInv
  OBVIOUS
<1>1. IsFiniteSet(DOMAIN nodes)
  BY FS_Singleton DEF Init
<1> QED
  BY <1>1 DEF Init, QueueInv

LEMMA ReadLineQueue == CountsInv /\ QueueInv /\ ReadLine => QueueInv'
<1> SUFFICES ASSUME CountsInv, QueueInv, ReadLine PROVE QueueInv'
  OBVIOUS
<1>1. PICK line \in Line : Insert(line.expression, line.contributor)
  BY DEF ReadLine
<1>2. line.expression \in Seq(Alphabet)
  BY ExpressionsAssumption DEF Line
<1>3. DOMAIN nodes' = DOMAIN nodes \cup Prefixes(line.expression)
  BY <1>1, Zenon DEF Insert
<1>4. IsFiniteSet(DOMAIN nodes')
  <2>1. IsFiniteSet(DOMAIN nodes)
    BY DEF QueueInv
  <2>2. IsFiniteSet(Prefixes(line.expression))
    BY <1>2, PrefixesFinite
  <2> QED  BY <1>3, <2>1, <2>2, FS_Union
<1>5. /\ pc = "reading" /\ pc' = "reading"
      /\ queue' = << >> /\ all_trie_paths' = << >>
  BY DEF ReadLine, QueueInv
<1> QED
  BY <1>4, <1>5 DEF QueueInv

LEMMA EndOfFileQueue == CountsInv /\ QueueInv /\ EndOfFile => QueueInv'
<1> SUFFICES ASSUME CountsInv, QueueInv, EndOfFile PROVE QueueInv'
  OBVIOUS
<1>1. /\ pc' = "visiting" /\ queue' = <<Root>> /\ all_trie_paths' = << >>
      /\ nodes' = nodes
  BY DEF EndOfFile, QueueInv
<1>2. Root \in DOMAIN nodes
  BY DEF CountsInv, OccurrencesCountPrefixes
<1>3. \A p \in DOMAIN nodes : IsPrefix(Root, p)
  <2> SUFFICES ASSUME NEW p \in DOMAIN nodes PROVE IsPrefix(Root, p)
    OBVIOUS
  <2>1. p \in Seq(Alphabet) /\ Root \in Seq(Alphabet) /\ Len(Root) = 0
    BY NodesAreStrings DEF Root
  <2>2. Len(Root) <= Len(p) /\ \A i \in 1..Len(Root) : Root[i] = p[i]
    BY <2>1, StringBasics
  <2> QED  BY <2>1, <2>2, PrefixPointwise
<1>4. /\ queue' \in Seq(DOMAIN nodes') /\ DOMAIN queue' = {1}
      /\ queue'[1] = Root
  BY <1>1, <1>2
<1>5. \A p \in DOMAIN nodes' : \E j \in DOMAIN queue' : IsPrefix(queue'[j], p)
  BY <1>1, <1>3, <1>4
<1>6. IsFiniteSet(DOMAIN nodes')
  BY <1>1 DEF QueueInv
<1> QED
  BY <1>1, <1>4, <1>5, <1>6 DEF QueueInv

(* The step of the visit: the node at the head is listed if an expression  *)
(* ends there, and its children take its place at the end of the queue.    *)
LEMMA VisitQueue == CountsInv /\ QueueInv /\ Visit => QueueInv'
<1> SUFFICES ASSUME CountsInv, QueueInv, Visit PROVE QueueInv'
  OBVIOUS
<1> DEFINE p == Head(queue)
           n == Len(queue)
           old == all_trie_paths
           new == all_trie_paths'
<1>1. PICK order \in ToVisit(p) : queue' = Tail(queue) \o order
  BY DEF Visit
<1>2. /\ pc = "visiting" /\ pc' = "visiting" /\ nodes' = nodes
      /\ queue # << >> /\ queue \in Seq(DOMAIN nodes)
      /\ IsFiniteSet(DOMAIN nodes)
      /\ new = IF nodes[p].terminal_node
                 THEN Append(old, <<p, nodes[p].num_occurrences>>) ELSE old
  BY DEF Visit, Listed, QueueInv
<1>3. /\ n \in Nat \ {0} /\ DOMAIN queue = 1..n /\ queue[1] = p
      /\ p \in DOMAIN nodes /\ \A i \in 1..n : queue[i] \in DOMAIN nodes
      /\ 1 \in DOMAIN queue
  BY <1>2
<1>4. DOMAIN nodes \subseteq Seq(Alphabet)
  BY NodesAreStrings
<1>5. /\ order \in Seq(Children(p))
      /\ \A i, j \in DOMAIN order : order[i] = order[j] => i = j
      /\ \A c \in Children(p) : \E i \in DOMAIN order : order[i] = c
  BY <1>2, <1>3, OrderOfChildren
<1>6. \A c \in Children(p) :
        c \in DOMAIN nodes /\ Len(c) = Len(p) + 1 /\ IsPrefix(p, c)
  BY DEF Children
<1>7. \A i \in DOMAIN order : order[i] \in Children(p)
  BY <1>5
<1>8. /\ queue' \in Seq(DOMAIN nodes)
      /\ DOMAIN queue' = 1..(n - 1 + Len(order))
      /\ DOMAIN order = 1..Len(order) /\ Len(order) \in Nat
      /\ \A i \in 2..n : queue'[i - 1] = queue[i]
      /\ \A i \in DOMAIN order : queue'[n - 1 + i] = order[i]
  <2>1. order \in Seq(DOMAIN nodes)
    BY <1>5, <1>6
  <2>2. Tail(queue) \in Seq(DOMAIN nodes) /\ Len(Tail(queue)) = n - 1
    BY <1>2, <1>3
  <2>3. \A i \in 1..(n - 1) : Tail(queue)[i] = queue[i + 1]
    BY <1>2, <1>3
  <2>4. \A i \in 2..n : queue'[i - 1] = Tail(queue)[i - 1]
    BY <1>1, <1>3, <2>1, <2>2
  <2>5. \A i \in 2..n : Tail(queue)[i - 1] = queue[i]
    <3> SUFFICES ASSUME NEW i \in 2..n PROVE Tail(queue)[i - 1] = queue[i]
      OBVIOUS
    <3>1. i - 1 \in 1..(n - 1) /\ (i - 1) + 1 = i
      BY <1>3
    <3> QED  BY <2>3, <3>1
  <2>6. \A i \in DOMAIN order : queue'[n - 1 + i] = order[i]
    BY <1>1, <1>3, <2>1, <2>2
  <2>7. /\ queue' \in Seq(DOMAIN nodes)
        /\ DOMAIN queue' = 1..(n - 1 + Len(order))
        /\ DOMAIN order = 1..Len(order) /\ Len(order) \in Nat
    BY <1>1, <1>3, <2>1, <2>2
  <2> QED  BY <2>4, <2>5, <2>6, <2>7
<1> DEFINE Stayed(j) == \E i \in 2..n : j = i - 1 /\ queue'[j] = queue[i]
           Came(j) == \E i \in DOMAIN order :
                        j = n - 1 + i /\ queue'[j] = order[i]
<1>9. \A j \in DOMAIN queue' : Stayed(j) \/ Came(j)
  <2> SUFFICES ASSUME NEW j \in DOMAIN queue' PROVE Stayed(j) \/ Came(j)
    OBVIOUS
  <2>1. CASE j <= n - 1
    <3>1. j + 1 \in 2..n /\ j = (j + 1) - 1
      BY <1>3, <1>8, <2>1
    <3> QED  BY <1>8, <3>1
  <2>2. CASE ~(j <= n - 1)
    <3>1. j - (n - 1) \in DOMAIN order /\ j = n - 1 + (j - (n - 1))
      BY <1>3, <1>8, <2>2
    <3> QED  BY <1>8, <3>1
  <2> QED  BY <2>1, <2>2
<1>10. /\ \A i, j \in DOMAIN queue : IsPrefix(queue[i], queue[j]) => i = j
       /\ \A j \in DOMAIN queue, k \in DOMAIN old :
            ~IsPrefix(queue[j], old[k][1])
       /\ \A j, k \in DOMAIN old : old[j][1] = old[k][1] => j = k
       /\ \A k \in DOMAIN old : /\ nodes[old[k][1]].terminal_node
                                /\ old[k][2] = nodes[old[k][1]].num_occurrences
       /\ old \in Seq((DOMAIN nodes) \X Nat)
  BY DEF QueueInv
<1>11. /\ nodes[p].num_occurrences \in Nat
       /\ p \in Seq(Alphabet) /\ IsPrefix(p, p)
  <2>1. nodes[p] \in [num_occurrences : Nat, terminal_node : BOOLEAN,
                      pattern_contributors : [Contributors -> Nat]]
    BY <1>3, Zenon DEF CountsInv
  <2>2. nodes[p].num_occurrences \in Nat
    BY <2>1
  <2> QED  BY <1>3, <1>4, <2>2, PrefixReflexive
(* The list keeps what it had and may gain the node visited.               *)
<1>12. /\ new \in Seq((DOMAIN nodes) \X Nat)
       /\ DOMAIN old \subseteq DOMAIN new
       /\ \A k \in DOMAIN old : new[k] = old[k]
       /\ \A k \in DOMAIN new :
            \/ k \in DOMAIN old
            \/ /\ k = Len(old) + 1 /\ nodes[p].terminal_node
               /\ new[k] = <<p, nodes[p].num_occurrences>>
       /\ nodes[p].terminal_node => \E k \in DOMAIN new : new[k][1] = p
  <2> DEFINE e == <<p, nodes[p].num_occurrences>>
  <2>1. e \in (DOMAIN nodes) \X Nat /\ e[1] = p
    BY <1>3, <1>11
  <2> HIDE DEF e
  <2>2. CASE nodes[p].terminal_node
    <3>1. new = Append(old, e)
      BY <1>2, <2>2 DEF e
    <3>2. /\ Append(old, e) \in Seq((DOMAIN nodes) \X Nat)
          /\ DOMAIN Append(old, e) = 1..(Len(old) + 1)
          /\ DOMAIN old = 1..Len(old) /\ Len(old) \in Nat
          /\ \A k \in 1..Len(old) : Append(old, e)[k] = old[k]
          /\ Append(old, e)[Len(old) + 1] = e
      <4> HIDE DEF old, p
      <4> QED  BY <1>10, <2>1
    <3>3. Len(old) + 1 \in DOMAIN new
      BY <3>1, <3>2
    <3>4. \A k \in DOMAIN new : k \in DOMAIN old \/ k = Len(old) + 1
      BY <3>1, <3>2
    <3> QED  BY <2>1, <2>2, <3>1, <3>2, <3>3, <3>4 DEF e
  <2>3. CASE ~nodes[p].terminal_node
    <3>1. new = old
      BY <1>2, <2>3
    <3> QED  BY <1>10, <2>3, <3>1
  <2> QED  BY <2>2, <2>3
<1> HIDE DEF p, n, old, new, Stayed, Came
<1>13. \A j, k \in DOMAIN new : new[j][1] = new[k][1] => j = k
  <2>1. \A k \in DOMAIN old : old[k][1] # p
    BY <1>3, <1>10, <1>11
  <2> QED  BY <1>10, <1>12, <2>1
<1>14. \A k \in DOMAIN new : /\ nodes[new[k][1]].terminal_node
                             /\ new[k][2] = nodes[new[k][1]].num_occurrences
  BY <1>10, <1>12
(* A node that stays in the queue, a child of the node visited.            *)
<1>15. ASSUME NEW i \in 2..n, NEW c \in Children(p)
       PROVE  ~IsPrefix(queue[i], c) /\ ~IsPrefix(c, queue[i])
  <2>1. /\ i \in DOMAIN queue /\ i # 1 /\ queue[i] \in Seq(Alphabet)
        /\ c \in Seq(Alphabet) /\ Len(c) = Len(p) + 1 /\ IsPrefix(p, c)
    BY <1>3, <1>4, <1>6
  <2>2. ~IsPrefix(queue[i], p) /\ ~IsPrefix(p, queue[i])
    BY <1>3, <1>10, <2>1
  <2>3. ~IsPrefix(c, queue[i])
    BY <1>11, <2>1, <2>2, PrefixTransitive
  <2>4. ASSUME IsPrefix(queue[i], c) PROVE FALSE
    <3>1. queue[i] = c
      BY <1>11, <2>1, <2>2, <2>4, PrefixOfChild
    <3> QED  BY <2>1, <2>2, <3>1
  <2> QED  BY <2>3, <2>4
<1>16. ASSUME NEW c \in Children(p), NEW d \in Children(p), IsPrefix(c, d)
       PROVE  c = d
  <2>1. /\ c \in Seq(Alphabet) /\ d \in Seq(Alphabet)
        /\ Len(c) = Len(d)
    BY <1>4, <1>6
  <2>2. \A i \in 1..Len(c) : c[i] = d[i]
    BY <1>16, <2>1, PrefixPointwise
  <2> QED  BY <2>1, <2>2, SameString
<1>17. ASSUME NEW i \in DOMAIN queue', NEW j \in DOMAIN queue',
              IsPrefix(queue'[i], queue'[j])
       PROVE  i = j
  <2>1. CASE Stayed(i) /\ Stayed(j)
    <3>1. PICK a \in 2..n : i = a - 1 /\ queue'[i] = queue[a]
      BY <2>1 DEF Stayed
    <3>2. PICK b \in 2..n : j = b - 1 /\ queue'[j] = queue[b]
      BY <2>1 DEF Stayed
    <3>3. a \in DOMAIN queue /\ b \in DOMAIN queue
      BY <1>3
    <3>4. a = b
      BY <1>10, <1>17, <3>1, <3>2, <3>3, Zenon
    <3> QED  BY <3>1, <3>2, <3>4
  <2>2. CASE Stayed(i) /\ Came(j)
    BY <1>7, <1>15, <1>17, <2>2 DEF Stayed, Came
  <2>3. CASE Came(i) /\ Stayed(j)
    BY <1>7, <1>15, <1>17, <2>3 DEF Stayed, Came
  <2>4. CASE Came(i) /\ Came(j)
    <3>1. PICK a \in DOMAIN order : i = n - 1 + a /\ queue'[i] = order[a]
      BY <2>4 DEF Came
    <3>2. PICK b \in DOMAIN order : j = n - 1 + b /\ queue'[j] = order[b]
      BY <2>4 DEF Came
    <3>3. order[a] = order[b]
      BY <1>7, <1>16, <1>17, <3>1, <3>2
    <3> QED  BY <1>5, <3>1, <3>2, <3>3
  <2> QED  BY <1>9, <2>1, <2>2, <2>3, <2>4
<1>18. ASSUME NEW j \in DOMAIN queue', NEW k \in DOMAIN new
       PROVE  ~IsPrefix(queue'[j], new[k][1])
  <2>1. CASE Stayed(j)
    <3>1. PICK a \in 2..n : queue'[j] = queue[a]
      BY <2>1 DEF Stayed
    <3>2. a \in DOMAIN queue /\ a # 1
      BY <1>3
    <3>3. ~IsPrefix(queue[a], p)
      BY <1>3, <1>10, <3>2
    <3> QED  BY <1>10, <1>12, <3>1, <3>2, <3>3
  <2>2. CASE Came(j)
    <3>1. PICK c \in Children(p) : queue'[j] = c
      BY <1>7, <2>2 DEF Came
    <3>2. /\ c \in Seq(Alphabet) /\ Len(c) = Len(p) + 1 /\ IsPrefix(p, c)
          /\ Len(p) \in Nat
      BY <1>4, <1>6, <1>11, StringBasics
    <3>3. ~IsPrefix(c, p)
      BY <1>11, <3>2, PrefixPointwise
    <3>4. ASSUME k \in DOMAIN old PROVE ~IsPrefix(c, old[k][1])
      <4>1. old[k][1] \in Seq(Alphabet)
        BY <1>4, <1>10, <3>4
      <4>2. ~IsPrefix(p, old[k][1])
        BY <1>3, <1>10, <3>4
      <4> QED  BY <1>11, <3>2, <4>1, <4>2, PrefixTransitive
    <3> QED  BY <1>12, <3>1, <3>3, <3>4
  <2> QED  BY <1>9, <2>1, <2>2
<1>19. ASSUME NEW t \in DOMAIN nodes, nodes[t].terminal_node
       PROVE  \/ \E k \in DOMAIN new : new[k][1] = t
              \/ \E j \in DOMAIN queue' : IsPrefix(queue'[j], t)
  <2>1. \/ \E k \in DOMAIN old : old[k][1] = t
        \/ \E j \in DOMAIN queue : IsPrefix(queue[j], t)
    BY <1>2, <1>19 DEF QueueInv, old
  <2>2. CASE \E k \in DOMAIN old : old[k][1] = t
    BY <1>12, <2>2
  <2>3. ASSUME NEW j \in 2..n, IsPrefix(queue[j], t)
        PROVE  \E i \in DOMAIN queue' : IsPrefix(queue'[i], t)
    <3>1. j - 1 \in DOMAIN queue'
      BY <1>3, <1>8
    <3> QED  BY <1>8, <2>3, <3>1
  <2>4. CASE t = p
    BY <1>12, <1>19, <2>4
  <2>5. CASE IsPrefix(p, t) /\ t # p
    <3>1. PICK c \in Seq(Alphabet) :
            Len(c) = Len(p) + 1 /\ IsPrefix(p, c) /\ IsPrefix(c, t)
      BY <1>4, <1>11, <2>5, NextPrefix
    <3>2. c \in Children(p)
      BY <3>1, NodesAreClosed DEF Children
    <3>3. PICK i \in DOMAIN order : order[i] = c
      BY <1>5, <3>2
    <3>4. n - 1 + i \in DOMAIN queue' /\ queue'[n - 1 + i] = c
      BY <1>3, <1>8, <3>3
    <3> QED  BY <3>1, <3>4
  <2> QED  BY <1>3, <2>1, <2>2, <2>3, <2>4, <2>5
<1>20. new = all_trie_paths'
  BY DEF new
<1> QED
  <2>1. /\ IsFiniteSet(DOMAIN nodes') /\ queue' \in Seq(DOMAIN nodes')
        /\ all_trie_paths' \in Seq((DOMAIN nodes') \X Nat)
    BY <1>2, <1>8, <1>12, <1>20
  <2> QED
    BY <1>2, <1>13, <1>14, <1>17, <1>18, <1>19, <1>20, <2>1 DEF QueueInv

LEMMA StepQueue == CountsInv /\ QueueInv /\ [Next]_vars => QueueInv'
<1> SUFFICES ASSUME CountsInv, QueueInv, [Next]_vars PROVE QueueInv'
  OBVIOUS
<1>1. CASE OpenFails
  BY <1>1 DEF OpenFails, QueueInv
<1>2. CASE BuildReturns
  BY <1>2 DEF BuildReturns, QueueInv
<1>3. CASE UNCHANGED vars
  BY <1>3, Zenon DEF QueueInv, vars
<1> QED
  BY <1>1, <1>2, <1>3, ReadLineQueue, EndOfFileQueue, VisitQueue DEF Next, Over

(* No node of the queue is above another or above a listed one, and every  *)
(* expression is listed or still below a node of the queue.                *)
THEOREM QueueCorrect == Spec => [](CountsInv /\ QueueInv)
BY InitCounts, StepCounts, InitQueue, StepQueue, PTL DEF Spec

(* The list all searches go through holds every expression of the dataset  *)
(* once, with the number of lines with an expression it begins.            *)
THEOREM PathsCorrect == Spec => []PathsAreTheTrainingSet
<1>1. CountsInv /\ QueueInv => PathsAreTheTrainingSet
  <2> SUFFICES ASSUME CountsInv, QueueInv PROVE PathsAreTheTrainingSet
    OBVIOUS
  <2>1. \A p \in DOMAIN nodes :
          /\ nodes[p].terminal_node <=> p \in TrainingSet
          /\ nodes[p].num_occurrences = Cardinality(LinesBelow(p))
    BY DEF CountsInv, TerminalsAreTheTrainingSet, OccurrencesCountPrefixes
  <2>2. \A k \in DOMAIN all_trie_paths : all_trie_paths[k][1] \in DOMAIN nodes
    BY DEF QueueInv
  <2>3. /\ \A j, k \in DOMAIN all_trie_paths :
             all_trie_paths[j][1] = all_trie_paths[k][1] => j = k
        /\ \A k \in DOMAIN all_trie_paths :
             /\ nodes[all_trie_paths[k][1]].terminal_node
             /\ all_trie_paths[k][2] =
                  nodes[all_trie_paths[k][1]].num_occurrences
    BY DEF QueueInv
  <2>4. \A k \in DOMAIN all_trie_paths :
          /\ all_trie_paths[k][1] \in TrainingSet
          /\ all_trie_paths[k][2] =
               Cardinality(LinesBelow(all_trie_paths[k][1]))
    BY <2>1, <2>2, <2>3
  <2>5. ASSUME pc = "built", NEW e \in TrainingSet
        PROVE  \E k \in DOMAIN all_trie_paths : all_trie_paths[k][1] = e
    <3>1. e \in DOMAIN nodes
      <4>1. e \in Prefixes(e)
        BY TrainingSetStrings, PrefixesBegin
      <4> QED  BY <4>1 DEF CountsInv, OccurrencesCountPrefixes
    <3>2. DOMAIN queue = {}
      BY <2>5 DEF QueueInv
    <3> QED  BY <2>1, <2>5, <3>1, <3>2 DEF QueueInv
  <2>6. pc = "built" =>
          {all_trie_paths[k][1] : k \in DOMAIN all_trie_paths} = TrainingSet
    <3> SUFFICES ASSUME pc = "built"
                 PROVE  {all_trie_paths[k][1] : k \in DOMAIN all_trie_paths}
                          = TrainingSet
      OBVIOUS
    <3>1. \A k \in DOMAIN all_trie_paths : all_trie_paths[k][1] \in TrainingSet
      BY <2>4
    <3> QED  BY <2>5, <3>1
  <2> QED
    BY <2>3, <2>4, <2>6 DEF PathsAreTheTrainingSet
<1> QED
  BY <1>1, QueueCorrect, PTL

(* Every variable holds a value of its type.                               *)
THEOREM TypeCorrect == Spec => []TypeOK
<1> DEFINE Phase == pc \in {"reading", "visiting", "built", "threw"}
<1>1. Init => Phase
  BY DEF Init
<1>2. Phase /\ [Next]_vars => Phase'
  BY DEF Next, OpenFails, ReadLine, EndOfFile, Visit, BuildReturns, Over, vars
<1>3. Phase /\ CountsInv /\ QueueInv => TypeOK
  <2> SUFFICES ASSUME Phase, CountsInv, QueueInv PROVE TypeOK
    OBVIOUS
  <2>1. DOMAIN nodes = {Root} \cup UNION {Prefixes(e) : e \in TrainingSet}
    BY DEF CountsInv, OccurrencesCountPrefixes
  <2>2. TrainingSet \subseteq Expressions
    <3>1. \A k \in DOMAIN lines : lines[k] \in Line
      BY DEF CountsInv
    <3>2. \A k \in DOMAIN lines : lines[k].expression \in Expressions
      BY <3>1 DEF Line
    <3> QED  BY <3>2, Zenon DEF TrainingSet
  <2>3. Root \in Prefixes(Root)
    <3>1. Root \in Seq(Alphabet)
      BY DEF Root
    <3> QED  BY <3>1, PrefixesBegin
  <2>4. DOMAIN nodes \subseteq UNION {Prefixes(e) : e \in Expressions \cup {Root}}
    BY <2>1, <2>2, <2>3
  <2>5. Root \in DOMAIN nodes
    BY <2>1
  <2> QED
    BY <2>4, <2>5, Zenon DEF CountsInv, QueueInv, TypeOK
<1> QED
  BY <1>1, <1>2, <1>3, QueueCorrect, PTL DEF Spec

-----------------------------------------------------------------------------
(* The search by candidates.                                               *)

(* The theory of FewestEdits is that of EditDistanceProofs, where targets  *)
(* are the strings compared.  It is about no state of a table.             *)
Table == INSTANCE EditDistanceProofs
  WITH Strings <- Targets, pc <- "returned", source <- << >>, target <- << >>,
       num_chars_read <- 1, i <- 1, current_row <- << >>, previous_row <- << >>

LEMMA SameEdits ==
  \A s, t : Table!FewestEdits(s, t) = FewestEdits(s, t)
BY DEF Table!FewestEdits, FewestEdits, Table!Edits, Edits,
       Table!Alignments, Alignments, Table!Min, Min,
       Table!Cardinality, Cardinality, Table!IsFiniteSet, IsFiniteSet

LEMMA EditsAreNat ==
  ASSUME NEW S, NEW s \in Seq(S), NEW t \in Seq(S)
  PROVE  FewestEdits(s, t) \in Nat
BY SearchAssumption, SameEdits, Table!FewestEditsIsLeast

LEMMA NoEdits ==
  ASSUME NEW S, NEW s \in Seq(S)
  PROVE  FewestEdits(s, s) = 0
BY SearchAssumption, SameEdits, Table!NoEdits

LEMMA EditTriangle ==
  ASSUME NEW S, NEW s \in Seq(S), NEW t \in Seq(S), NEW u \in Seq(S)
  PROVE  FewestEdits(s, u) <= FewestEdits(s, t) + FewestEdits(t, u)
BY SearchAssumption, SameEdits, Table!EditTriangle

LEMMA EditsOfSplice ==
  ASSUME NEW S, NEW a \in Seq(S), NEW b \in Seq(S),
         NEW x \in Seq(S), NEW y \in Seq(S),
         NEW n \in Nat, Len(x) <= n, Len(y) <= n
  PROVE  FewestEdits(a \o x \o b, a \o y \o b) <= n
BY SearchAssumption, SameEdits, Table!EditsOfSplice

LEMMA OneEdit ==
  ASSUME NEW S, NEW s \in Seq(S), NEW t \in Seq(S)
  PROVE  /\ FewestEdits(s, t) = 0 => s = t
         /\ FewestEdits(s, t) = 1 => Table!OneSplice(S, s, t)
BY SearchAssumption, SameEdits, Table!OneEdit

(* A string is what precedes a run of its characters, the run, and what    *)
(* follows it.                                                             *)
LEMMA Cut ==
  ASSUME NEW e \in Seq(Alphabet), NEW i \in 1..Len(e), NEW k \in i - 1..Len(e)
  PROVE  /\ SubSeq(e, 1, i - 1) \in Seq(Alphabet)
         /\ SubSeq(e, i, k) \in Seq(Alphabet)
         /\ SubSeq(e, k + 1, Len(e)) \in Seq(Alphabet)
         /\ Len(SubSeq(e, i, k)) = k - i + 1
         /\ e = SubSeq(e, 1, i - 1) \o SubSeq(e, i, k)
                  \o SubSeq(e, k + 1, Len(e))
<1>1. /\ Len(e) \in Nat /\ \A j \in 1..Len(e) : e[j] \in Alphabet
      /\ i \in Int /\ k \in Int /\ 0 < i /\ i <= Len(e)
      /\ i - 1 <= k /\ k <= Len(e)
  OBVIOUS
<1> DEFINE n == Len(e)
<1>2. n \in Nat /\ n = Len(e)
  BY <1>1
<1> HIDE DEF n
<1>3. ASSUME NEW l \in 1..n + 1, NEW m \in l - 1..n
      PROVE  /\ SubSeq(e, l, m) \in Seq(Alphabet)
             /\ Len(SubSeq(e, l, m)) = m - l + 1
  <2>1. /\ l \in Int /\ m \in Int /\ l >= 1 /\ m <= n /\ l <= m + 1
    BY <1>2
  <2>2. \A j \in l..m : e[j] \in Alphabet
    BY <1>1, <1>2, <2>1
  <2>3. /\ SubSeq(e, l, m) \in Seq(Alphabet)
        /\ Len(SubSeq(e, l, m)) = IF l <= m THEN m - l + 1 ELSE 0
    BY <2>1, <2>2, SubSeqProperties
  <2> QED  BY <2>1, <2>3
<1>4. /\ i \in 1..n + 1 /\ i - 1 \in 0..n /\ k \in i - 1..n
      /\ k + 1 \in 1..n + 1 /\ n \in (k + 1) - 1..n
      /\ 1 \in 1..n + 1 /\ i - 1 \in 1 - 1..n /\ k \in 0..n
      /\ n \in k..n /\ k \in 1 - 1..n
  BY <1>1, <1>2
<1>5. /\ SubSeq(e, 1, i - 1) \in Seq(Alphabet)
      /\ SubSeq(e, i, k) \in Seq(Alphabet) /\ Len(SubSeq(e, i, k)) = k - i + 1
      /\ SubSeq(e, k + 1, n) \in Seq(Alphabet)
  BY <1>3, <1>4
<1>6. SubSeq(e, 1, i - 1) \o SubSeq(e, (i - 1) + 1, k) = SubSeq(e, 1, k)
  BY <1>2, <1>4, ConcatAdjacentSubSeq
<1>7. SubSeq(e, 1, k) \o SubSeq(e, k + 1, n) = SubSeq(e, 1, n)
  BY <1>2, <1>4, ConcatAdjacentSubSeq
<1>8. SubSeq(e, 1, n) = e
  BY <1>2, SubSeqFull
<1>9. (i - 1) + 1 = i
  BY <1>1
<1> QED  BY <1>2, <1>5, <1>6, <1>7, <1>8, <1>9

LEMMA CopiesOf ==
  ASSUME NEW n \in Nat, NEW c \in Alphabet
  PROVE  Copies(c, n) \in Seq(Alphabet) /\ Len(Copies(c, n)) = n
BY DEF Copies

(* An edit of cost n takes no more than n edits, whichever it is.          *)
LEMMA EditedIsNear ==
  ASSUME alphabets_ \subseteq Alphabet,
         NEW e \in Seq(Alphabet), NEW n \in Nat, n > 0, NEW f \in Edited(e, n)
  PROVE  f \in Seq(Alphabet) /\ FewestEdits(e, f) <= n
<1> DEFINE none == << >>
<1>1. none \in Seq(Alphabet) /\ Len(none) = 0
  OBVIOUS
<1>2. Len(e) \in Nat /\ DOMAIN e = 1..Len(e)
  OBVIOUS
<1>3. ASSUME NEW i \in DOMAIN e
      PROVE  \E x \in Seq(Alphabet) :
               /\ e = Before(e, i) \o x \o After(e, i, n) /\ Len(x) <= n
               /\ Before(e, i) \in Seq(Alphabet)
               /\ After(e, i, n) \in Seq(Alphabet)
  <2> DEFINE l == Len(e)
             k == IF i + n - 1 <= l THEN i + n - 1 ELSE l
  <2>0. l \in Nat /\ i \in 1..l /\ i \in Int
    BY <1>2
  <2> HIDE DEF l
  <2>1. /\ l \in Nat /\ i \in 1..l /\ k \in i - 1..l /\ k - i + 1 <= n
        /\ k + 1 = i + n \/ (l < k + 1 /\ l < i + n)
        /\ k \in Int /\ i \in Int
    BY ONLY <2>0, n \in Nat, n > 0 DEF k
  <2> USE DEF l
  <2>2. SubSeq(e, k + 1, l) = After(e, i, n)
    <3>1. CASE k + 1 = i + n
      BY <3>1 DEF After
    <3>2. CASE l < k + 1 /\ l < i + n
      <4>1. k + 1 \in Int /\ i + n \in Int
        BY <2>1
      <4> HIDE DEF k
      <4>2. SubSeq(e, k + 1, l) = << >> /\ SubSeq(e, i + n, l) = << >>
        BY <2>1, <3>2, <4>1, SubSeqEmpty
      <4> QED  BY <4>2 DEF After
    <3> QED  BY <2>1, <3>1, <3>2
  <2> DEFINE x == SubSeq(e, i, k)
  <2> HIDE DEF k
  <2>3. /\ SubSeq(e, 1, i - 1) \in Seq(Alphabet)
        /\ x \in Seq(Alphabet)
        /\ SubSeq(e, k + 1, l) \in Seq(Alphabet)
        /\ Len(x) = k - i + 1
        /\ e = SubSeq(e, 1, i - 1) \o x \o SubSeq(e, k + 1, l)
    BY <2>1, Cut
  <2> QED  BY <2>1, <2>2, <2>3 DEF Before
<1>4. ASSUME NEW i \in DOMAIN e
      PROVE  /\ e = Before(e, i) \o none \o After(e, i, 0)
             /\ Before(e, i) \in Seq(Alphabet)
             /\ After(e, i, 0) \in Seq(Alphabet)
  <2> DEFINE l == Len(e)
             k == i - 1
  <2>1. /\ l \in Nat /\ i \in 1..l /\ k \in i - 1..l /\ k + 1 = i + 0
        /\ i \in Int /\ k < i
    BY <1>2
  <2>2. SubSeq(e, i, k) = none
    BY <2>1, SubSeqEmpty
  <2> HIDE DEF k
  <2>3. /\ SubSeq(e, 1, i - 1) \in Seq(Alphabet)
        /\ SubSeq(e, k + 1, l) \in Seq(Alphabet)
        /\ e = SubSeq(e, 1, i - 1) \o SubSeq(e, i, k) \o SubSeq(e, k + 1, l)
    BY <2>1, Cut
  <2> QED  BY <2>1, <2>2, <2>3 DEF Before, After
<1>5. \A c \in alphabets_ : Copies(c, n) \in Seq(Alphabet)
                             /\ Len(Copies(c, n)) <= n
  <2> SUFFICES ASSUME NEW c \in alphabets_
               PROVE  Copies(c, n) \in Seq(Alphabet) /\ Len(Copies(c, n)) <= n
    OBVIOUS
  <2>1. c \in Alphabet
    OBVIOUS
  <2>2. Copies(c, n) \in Seq(Alphabet) /\ Len(Copies(c, n)) = n
    BY <2>1, CopiesOf
  <2> QED  BY <2>2
<1>6. PICK i \in DOMAIN e :
        \/ f = Deletion(e, i, n)
        \/ \E c \in alphabets_ : f = Replacement(e, i, n, c)
        \/ \E c \in alphabets_ : f = Insertion(e, i, n, c)
  BY DEF Edited
<1>7. /\ \E x \in Seq(Alphabet), y \in Seq(Alphabet), b \in Seq(Alphabet) :
           /\ e = Before(e, i) \o x \o b /\ f = Before(e, i) \o y \o b
           /\ Len(x) <= n /\ Len(y) <= n
      /\ Before(e, i) \in Seq(Alphabet)
  <2>1. PICK x \in Seq(Alphabet) :
               /\ e = Before(e, i) \o x \o After(e, i, n) /\ Len(x) <= n
               /\ Before(e, i) \in Seq(Alphabet)
               /\ After(e, i, n) \in Seq(Alphabet)
    BY <1>3
  <2>2. CASE f = Deletion(e, i, n)
    <3>1. f = Before(e, i) \o none \o After(e, i, n)
      BY <2>1, <2>2 DEF Deletion
    <3>2. Len(none) <= n
      BY <1>1
    <3> HIDE DEF none
    <3> QED  BY <1>1, <2>1, <3>1, <3>2, Zenon
  <2>3. ASSUME NEW c \in alphabets_, f = Replacement(e, i, n, c)
        PROVE  <1>7!1
    BY <1>5, <2>1, <2>3, Zenon DEF Replacement
  <2>4. ASSUME NEW c \in alphabets_, f = Insertion(e, i, n, c)
        PROVE  <1>7!1
    <3>1. Len(none) <= n
      BY <1>1
    <3> HIDE DEF none
    <3> QED  BY <1>1, <1>4, <1>5, <2>4, <3>1, Zenon DEF Insertion
  <2> QED  BY <1>6, <2>1, <2>2, <2>3, <2>4
<1> HIDE DEF none
<1>8. PICK x \in Seq(Alphabet), y \in Seq(Alphabet), b \in Seq(Alphabet) :
        /\ e = Before(e, i) \o x \o b /\ f = Before(e, i) \o y \o b
        /\ Len(x) <= n /\ Len(y) <= n
  BY <1>7
<1> DEFINE a == Before(e, i)
<1>9. a \in Seq(Alphabet)
  BY <1>7
<1> HIDE DEF a
<1>10. FewestEdits(a \o x \o b, a \o y \o b) <= n
  BY <1>8, <1>9, EditsOfSplice
<1>11. a \o y \o b \in Seq(Alphabet)
  BY <1>8, <1>9, SearchAssumption, Table!JoinedStrings
<1> QED  BY <1>8, <1>10, <1>11, Zenon DEF a

LEMMA CharactersOfNodes ==
  ASSUME DOMAIN nodes \subseteq Seq(Alphabet)
  PROVE  alphabets_ \subseteq Alphabet
<1>1. \A p \in Seq(Alphabet) : ToSet(p) \subseteq Alphabet
  BY DEF ToSet
<1>2. \A p \in DOMAIN nodes : ToSet(p) \subseteq Alphabet
  BY <1>1
<1>3. ASSUME NEW c \in alphabets_ PROVE c \in Alphabet
  <2>1. PICK p \in DOMAIN nodes : c \in ToSet(p)
    BY DEF alphabets_
  <2> QED  BY <1>2, <2>1
<1> QED  BY <1>3

LEMMA TrainedCharacters ==
  ASSUME CountsInv
  PROVE  alphabets_ \subseteq Alphabet
BY CharactersOfNodes, NodesAreStrings

(* While nothing is read, what the counts are about does not change.       *)
LEMMA CountsKept == CountsInv /\ UNCHANGED vars => CountsInv'
BY StepCounts

LEMMA InitNear == SearchInit => NearInv
<1> SUFFICES ASSUME SearchInit PROVE NearInv
  OBVIOUS
<1>1. CountsInv
  BY InitCounts DEF SearchInit
<1>2. /\ search = "idle" /\ target = << >> /\ current_cost = 0
      /\ DOMAIN candidates = {}
  BY DEF SearchInit
<1> QED  BY <1>1, <1>2 DEF NearInv, CandidatesAreNear

(* n edits more, after the passes for the costs before n.                  *)
LEMMA Triangular ==
  ASSUME NEW n \in Nat, n > 0
  PROVE  ((n - 1) * ((n - 1) + 1)) \div 2 + n = (n * (n + 1)) \div 2
<1> DEFINE x == (n - 1) * n
<1>1. (n - 1) * ((n - 1) + 1) = x /\ n * (n + 1) = x + 2 * n /\ x \in Int
  OBVIOUS
<1> HIDE DEF x
<1>2. (x + 2 * n) \div 2 = x \div 2 + n
  BY <1>1
<1> QED  BY <1>1, <1>2

LEMMA SearchNear == NearInv /\ Search => NearInv'
<1> SUFFICES ASSUME NearInv, Search PROVE NearInv'
  OBVIOUS
<1>1. CountsInv'
  BY CountsKept DEF Search, NearInv
<1>2. /\ target' \in Seq(Alphabet) /\ DOMAIN candidates' = {target'}
      /\ candidates'[target'] = 0 /\ current_cost' = 1
      /\ search' = "generating"
  BY SearchAssumption DEF Search
<1>3. FewestEdits(target', target') = 0
  BY <1>2, NoEdits
<1>4. CandidatesAreNear'
  <2>1. 0 <= (0 * (0 + 1)) \div 2
    OBVIOUS
  <2> QED  BY <1>2, <1>3, <2>1 DEF CandidatesAreNear
<1> QED  BY <1>1, <1>2, <1>4 DEF NearInv

LEMMA PassNear == NearInv /\ Pass => NearInv'
<1> SUFFICES ASSUME NearInv, Pass PROVE NearInv'
  OBVIOUS
<1> DEFINE n == current_cost
<1>1. CountsInv'
  BY CountsKept DEF Pass, NearInv
<1>2. /\ n \in Nat /\ n > 0 /\ current_cost' = n + 1
      /\ target' = target /\ target \in Seq(Alphabet)
      /\ search = "generating" /\ search' = search
  BY DEF NearInv, Pass
<1>3. PICK Taken \in SUBSET {e \in DOMAIN candidates : candidates[e] = n - 1} :
        candidates' = Labelled(UNION {Edited(e, n) : e \in Taken}, n)
  BY DEF Pass
<1> DEFINE found == UNION {Edited(e, n) : e \in Taken}
<1>4. /\ DOMAIN candidates' = DOMAIN candidates \cup found
      /\ \A e \in DOMAIN candidates' :
           candidates'[e] = IF e \in DOMAIN candidates THEN candidates[e]
                                                       ELSE n
  BY <1>3, Zenon DEF Labelled
<1>5. ASSUME NEW f \in found
      PROVE  /\ f \in Seq(Alphabet)
             /\ FewestEdits(target, f) <= (n * (n + 1)) \div 2
  <2>1. PICK e \in Taken : f \in Edited(e, n)
    OBVIOUS
  <2>2. /\ e \in DOMAIN candidates /\ candidates[e] = n - 1
        /\ e \in Seq(Alphabet)
    BY <1>3, <2>1 DEF NearInv
  <2>3. FewestEdits(target, e) <= ((n - 1) * ((n - 1) + 1)) \div 2
    BY <2>2 DEF NearInv, CandidatesAreNear
  <2>4. alphabets_ \subseteq Alphabet
    <3>1. CountsInv
      BY DEF NearInv
    <3> QED  BY <3>1, TrainedCharacters, Zenon
  <2>5. f \in Seq(Alphabet) /\ FewestEdits(e, f) <= n
    BY <1>2, <2>1, <2>2, <2>4, EditedIsNear
  <2>6. FewestEdits(target, f) <= FewestEdits(target, e) + FewestEdits(e, f)
    BY <1>2, <2>2, <2>5, EditTriangle
  <2>7. /\ FewestEdits(target, f) \in Nat /\ FewestEdits(target, e) \in Nat
        /\ FewestEdits(e, f) \in Nat
    BY <1>2, <2>2, <2>5, EditsAreNat
  <2>8. ((n - 1) * ((n - 1) + 1)) \div 2 + n = (n * (n + 1)) \div 2
    BY <1>2, Triangular
  <2> DEFINE before == ((n - 1) * ((n - 1) + 1)) \div 2
             after == (n * (n + 1)) \div 2
  <2>9. before \in Int /\ after \in Int
    <3>1. \A k \in Int : k \div 2 \in Int
      OBVIOUS
    <3>2. (n - 1) * ((n - 1) + 1) \in Int /\ n * (n + 1) \in Int
      BY <1>2
    <3> QED  BY <3>1, <3>2
  <2> HIDE DEF before, after, found
  <2>10. FewestEdits(target, f) <= after
    <3>1. FewestEdits(target, e) <= before /\ before + n = after
      BY <2>3, <2>8 DEF before, after
    <3> QED  BY <1>2, <2>5, <2>6, <2>7, <2>9, <3>1
  <2> QED  BY <2>5, <2>10 DEF after
<1> HIDE DEF found
<1>6. DOMAIN candidates' \subseteq Seq(Alphabet)
  BY <1>4, <1>5 DEF NearInv
<1>7. \A e \in DOMAIN candidates' : candidates'[e] \in 0..current_cost' - 1
  BY <1>2, <1>4 DEF NearInv
<1>8. CandidatesAreNear'
  <2>1. \A e \in DOMAIN candidates' :
          FewestEdits(target, e) <=
            (candidates'[e] * (candidates'[e] + 1)) \div 2
    BY <1>4, <1>5, Zenon DEF NearInv, CandidatesAreNear
  <2> QED  BY <1>2, <2>1 DEF CandidatesAreNear
<1> QED  BY <1>1, <1>2, <1>6, <1>7, <1>8 DEF NearInv

LEMMA StepNear == NearInv /\ [SearchNext]_allVars => NearInv'
<1> SUFFICES ASSUME NearInv, [SearchNext]_allVars PROVE NearInv'
  OBVIOUS
<1>1. CASE Search
  BY <1>1, SearchNear
<1>2. CASE Pass
  BY <1>2, PassNear
<1>3. CASE BuildStep \/ Return \/ UNCHANGED allVars
  <2>1. /\ candidates' = candidates /\ target' = target
        /\ current_cost' = current_cost
    BY <1>3 DEF BuildStep, Return, allVars, searchVars
  <2>2. search' = search \/ (search # "idle" /\ search' # "idle")
    BY <1>3 DEF BuildStep, Return, allVars, searchVars
  <2>3. [Next]_vars
    BY <1>3 DEF BuildStep, Return, allVars, Next
  <2>4. CountsInv'
    BY <2>3, StepCounts DEF NearInv
  <2>5. CandidatesAreNear'
    BY <2>1 DEF NearInv, CandidatesAreNear
  <2> QED  BY <2>1, <2>2, <2>4, <2>5 DEF NearInv
<1> QED  BY <1>1, <1>2, <1>3 DEF SearchNext, SearchOver

(* Candidates are near whatever the training data, the target, the costs   *)
(* searched and the order of the table.                                    *)
THEOREM CandidatesCorrect == SearchSpec => []CandidatesAreNear
<1>1. NearInv => CandidatesAreNear
  BY DEF NearInv
<1> QED  BY <1>1, InitNear, StepNear, PTL DEF SearchSpec

(* What precedes and what follows a run of characters of a string.         *)
Around(s, a, x, b) ==
  /\ Before(s, Len(a) + 1) = a
  /\ After(s, Len(a) + 1, Len(x)) = b
  /\ x # << >> \/ b # << >> => Len(a) + 1 \in DOMAIN s

LEMMA AroundIs ==
  ASSUME NEW a \in Seq(Alphabet), NEW x \in Seq(Alphabet),
         NEW b \in Seq(Alphabet), NEW s, s = a \o x \o b
  PROVE  Around(s, a, x, b)
<1> DEFINE j == Len(a)
           k == Len(x)
           l == Len(b)
<1>1. /\ s \in Seq(Alphabet) /\ j \in Nat /\ k \in Nat /\ l \in Nat
      /\ Len(s) = j + k + l /\ DOMAIN s = 1..j + k + l
      /\ \A i \in 1..j : s[i] = a[i]
      /\ \A i \in 1..l : s[(j + k) + i] = b[i]
  BY SearchAssumption, Table!JoinedStrings
<1>0. j \in Nat /\ k \in Nat /\ l \in Nat
  BY <1>1
<1>2. /\ j = Len(a) /\ k = Len(x) /\ l = Len(b)
      /\ (k = 0 => x = << >>) /\ (l = 0 => b = << >>)
      /\ \A i \in 1..j : a[i] \in Alphabet
      /\ \A i \in 1..l : b[i] \in Alphabet
  OBVIOUS
<1> HIDE DEF j, k, l
<1>3. Before(s, j + 1) = a
  <2> DEFINE r == SubSeq(s, 1, j)
  <2>1. \A i \in 1..j : s[i] \in Alphabet
    BY <1>1, <1>2
  <2>2. /\ r \in Seq(Alphabet) /\ Len(r) = IF 1 <= j THEN j - 1 + 1 ELSE 0
        /\ \A i \in 1..j - 1 + 1 : r[i] = s[1 + i - 1]
    BY <1>1, <2>1, SubSeqProperties
  <2> HIDE DEF r
  <2>3. Len(r) = j /\ \A i \in 1..j : r[i] = a[i]
    <3>1. \A i \in 1..j : i \in 1..j - 1 + 1 /\ 1 + i - 1 = i
      BY ONLY <1>0
    <3>2. \A i \in 1..j : r[i] = s[i]
      BY <2>2, <3>1, Zenon
    <3>3. Len(r) = j
      BY <1>0, <2>2
    <3> QED  BY <1>1, <3>2, <3>3, Zenon
  <2>4. r = a
    BY <1>2, <2>2, <2>3, SameString
  <2>5. (j + 1) - 1 = j
    BY <1>1
  <2> QED  BY <2>4, <2>5 DEF Before, r
<1>4. After(s, j + 1, k) = b
  <2> DEFINE m == j + 1 + k
             n == j + k + l
             r == SubSeq(s, m, n)
  <2>0. /\ m \in Int /\ n \in Int /\ n - m + 1 = l
        /\ (IF m <= n THEN n - m + 1 ELSE 0) = l
    BY ONLY <1>0
  <2>1. \A i \in m..n : s[i] \in Alphabet
    <3>1. \A i \in 1..j + k + l : s[i] \in Alphabet
      BY <1>1
    <3>2. \A i \in m..n : i \in 1..j + k + l
      BY ONLY <1>0
    <3> QED  BY <3>1, <3>2
  <2>2. /\ r \in Seq(Alphabet) /\ Len(r) = IF m <= n THEN n - m + 1 ELSE 0
        /\ \A i \in 1..n - m + 1 : r[i] = s[m + i - 1]
    <3> HIDE DEF m, n
    <3>1. m \in Int /\ n \in Int
      BY <2>0
    <3> QED  BY ONLY <2>1, <3>1, SubSeqProperties
  <2>3. \A i \in 1..l : m + i - 1 = (j + k) + i
    BY <1>1
  <2> HIDE DEF r, m
  <2>4. Len(r) = l /\ \A i \in 1..l : r[i] = b[i]
    <3> HIDE DEF n
    <3>1. Len(r) = l
      BY <2>0, <2>2
    <3>2. \A i \in 1..l : r[i] = s[(j + k) + i]
      BY <2>0, <2>2, <2>3, Zenon
    <3> QED  BY <1>1, <3>1, <3>2, Zenon
  <2>5. r = b
    BY <1>2, <2>2, <2>4, SameString
  <2>6. After(s, j + 1, k) = SubSeq(s, m, n)
    BY <1>1 DEF After, m
  <2> QED  BY <2>5, <2>6 DEF r
<1>5. x # << >> \/ b # << >> => j + 1 \in DOMAIN s
  BY <1>1, <1>2
<1> QED  BY <1>2, <1>3, <1>4, <1>5 DEF Around

LEMMA OneCopy ==
  ASSUME NEW d
  PROVE  Copies(d, 1) = <<d>>
BY DEF Copies

LEMMA EditsMade ==
  ASSUME algorithm = "CANDIDATE_GENERATION", NEW s, NEW i \in DOMAIN s, NEW n
  PROVE  /\ Deletion(s, i, n) \in Edited(s, n)
         /\ \A c \in alphabets_ : /\ Replacement(s, i, n, c) \in Edited(s, n)
                                 /\ Insertion(s, i, n, c) \in Edited(s, n)
<1>1. algorithm # "SYMMETRIC_DELETE"
  OBVIOUS
<1>2. Deletion(s, i, n) \in Edited(s, n)
  <2> DEFINE I == {Deletion(s, j, n) : j \in DOMAIN s}
  <2>1. Deletion(s, i, n) \in I
    OBVIOUS
  <2>2. I \subseteq Edited(s, n)
    BY DEF Edited
  <2> HIDE DEF I
  <2> QED  BY <2>1, <2>2
<1>3. ASSUME NEW c \in alphabets_
      PROVE  /\ Replacement(s, i, n, c) \in Edited(s, n)
             /\ Insertion(s, i, n, c) \in Edited(s, n)
  <2> DEFINE R == {Replacement(s, j, n, g) : j \in DOMAIN s, g \in alphabets_}
             I == {Insertion(s, j, n, g) : j \in DOMAIN s, g \in alphabets_}
  <2>1. Replacement(s, i, n, c) \in R /\ Insertion(s, i, n, c) \in I
    OBVIOUS
  <2>2. R \subseteq Edited(s, n) /\ I \subseteq Edited(s, n)
    BY <1>1 DEF Edited
  <2> HIDE DEF R, I
  <2> QED  BY <2>1, <2>2
<1> QED  BY <1>2, <1>3

(* Candidate generation inserts before a character.                        *)
LEMMA InsertionIsMade ==
  ASSUME algorithm = "CANDIDATE_GENERATION",
         NEW a \in Seq(Alphabet), NEW b \in Seq(Alphabet), b # << >>,
         NEW d \in alphabets_,
         NEW s, s = a \o << >> \o b, NEW e, e = a \o <<d>> \o b
  PROVE  e \in Edited(s, 1)
<1> DEFINE none == << >>
           i == Len(a) + 1
<1>1. none \in Seq(Alphabet) /\ Len(none) = 0
  OBVIOUS
<1>2. s = a \o none \o b
  OBVIOUS
<1> HIDE DEF none
<1>3. Before(s, i) = a /\ After(s, i, 0) = b /\ i \in DOMAIN s
  <2>1. Around(s, a, none, b)
    BY <1>1, <1>2, AroundIs
  <2> QED  BY <1>1, <2>1 DEF Around
<1> HIDE DEF i
<1>4. e = Insertion(s, i, 1, d)
  BY <1>3, OneCopy DEF Insertion
<1> QED  BY <1>3, <1>4, EditsMade

LEMMA ShortString ==
  ASSUME NEW z \in Seq(Alphabet), Len(z) <= 1, z # << >>
  PROVE  Len(z) = 1 /\ \E d \in Alphabet : z = <<d>>
<1>1. Len(z) \in Nat /\ Len(z) # 0
  OBVIOUS
<1>2. Len(z) = 1
  <2> DEFINE k == Len(z)
  <2>1. k \in Nat /\ k # 0 /\ k <= 1
    BY <1>1
  <2> HIDE DEF k
  <2>2. k = 1
    BY <2>1
  <2> QED  BY <2>2 DEF k
<1>3. z[1] \in Alphabet
  BY <1>2
<1>4. z = <<z[1]>>
  BY <1>2
<1> QED  BY <1>2, <1>3, <1>4

(* The only edit that candidate generation does not make is the insertion  *)
(* after the end of another character than the last.                       *)
LEMMA OneEditIsMade ==
  ASSUME algorithm = "CANDIDATE_GENERATION",
         target \in Seq(Alphabet), NEW e \in Seq(Alphabet), e \in DOMAIN nodes,
         FewestEdits(target, e) = 1, ~IsAppended(e)
  PROVE  e \in Edited(target, 1)
<1>1. PICK a \in Seq(Alphabet), x \in Seq(Alphabet),
           y \in Seq(Alphabet), b \in Seq(Alphabet) :
        /\ target = a \o x \o b /\ e = a \o y \o b
        /\ Len(x) <= 1 /\ Len(y) <= 1
  <2>1. Table!OneSplice(Alphabet, target, e)
    BY OneEdit
  <2> QED  BY <2>1 DEF Table!OneSplice
<1>2. /\ x = << >> \/ (x # << >> /\ Len(x) = 1)
      /\ y = << >> \/ \E d \in Alphabet : y = <<d>>
  BY <1>1, ShortString
<1>3. ASSUME NEW d \in Alphabet, y = <<d>> PROVE d \in alphabets_
  <2>1. d \in ToSet(e)
    <3>1. /\ Len(a) \in Nat /\ Len(b) \in Nat /\ Len(y) = 1
          /\ <<d>> \in Seq(Alphabet) /\ y[1] = d
      BY <1>1, <1>3
    <3> DEFINE ay == a \o y
               k == Len(a) + 1
    <3>2. /\ ay \in Seq(Alphabet) /\ Len(ay) = k /\ ay[k] = d
          /\ k \in Nat /\ k > 0
      <4>1. /\ ay \in Seq(Alphabet) /\ Len(ay) = Len(a) + Len(y)
            /\ \A n \in 1..Len(a) + Len(y) :
                 ay[n] = IF n <= Len(a) THEN a[n] ELSE y[n - Len(a)]
        BY ConcatProperties
      <4>2. k \in Nat /\ k \in 1..Len(a) + 1 /\ ~(k <= Len(a)) /\ k > 0
            /\ k - Len(a) = 1
        BY <3>1
      <4> HIDE DEF ay, k
      <4> QED  BY <3>1, <4>1, <4>2
    <3> HIDE DEF ay
    <3>3. DOMAIN e = 1..k + Len(b) /\ e[k] = d
      <4>1. e = ay \o b
        BY <1>1 DEF ay
      <4> HIDE DEF k
      <4>2. /\ Len(ay \o b) = Len(ay) + Len(b)
            /\ \A n \in 1..Len(ay) + Len(b) :
                 (ay \o b)[n] = IF n <= Len(ay) THEN ay[n] ELSE b[n - Len(ay)]
        BY <3>2, ConcatProperties
      <4>3. k \in 1..k + Len(b) /\ k <= k
        BY <3>1, <3>2
      <4>4. DOMAIN e = 1..Len(e)
        OBVIOUS
      <4> QED  BY <3>2, <4>1, <4>2, <4>3, <4>4
    <3>4. k \in DOMAIN e
      BY <3>1, <3>2, <3>3
    <3> HIDE DEF k
    <3> QED  BY <3>3, <3>4, Zenon DEF ToSet
  <2> QED  BY <2>1, Zenon DEF alphabets_
<1> DEFINE i == Len(a) + 1
           none == << >>
<1>4. CASE x # << >> /\ Len(x) = 1
  <2>1. Before(target, i) = a /\ After(target, i, 1) = b /\ i \in DOMAIN target
    <3>1. Around(target, a, x, b)
      BY <1>1, AroundIs
    <3> QED  BY <1>4, <3>1 DEF Around
  <2> HIDE DEF i
  <2>2. CASE y = << >>
    <3>1. e = a \o b
      BY <1>1, <2>2
    <3>2. e = Deletion(target, i, 1)
      BY <2>1, <3>1 DEF Deletion
    <3> QED  BY <2>1, <3>2, EditsMade
  <2>3. ASSUME NEW d \in Alphabet, y = <<d>> PROVE e \in Edited(target, 1)
    <3>1. e = Replacement(target, i, 1, d)
      BY <1>1, <2>1, <2>3, OneCopy DEF Replacement
    <3>2. d \in alphabets_
      BY <1>3, <2>3
    <3> QED  BY <2>1, <3>1, <3>2, EditsMade
  <2> QED  BY <1>2, <2>2, <2>3
<1>5. CASE x = << >>
  <2>1. y # << >>
    <3>1. SUFFICES ASSUME y = << >> PROVE FALSE
      OBVIOUS
    <3>2. target = e
      BY <1>1, <1>5, <3>1
    <3>3. FewestEdits(e, e) = 0
      BY NoEdits
    <3> QED  BY <3>2, <3>3
  <2>2. PICK d \in Alphabet : y = <<d>>
    BY <1>2, <2>1
  <2>3. d \in alphabets_
    BY <1>3, <2>2
  <2>4. CASE b # << >>
    BY <1>1, <1>5, <2>2, <2>3, <2>4, InsertionIsMade
  <2>5. CASE b = << >>
    <3>1. target = a /\ e = a \o <<d>>
      BY <1>1, <1>5, <2>2, <2>5
    <3>2. e = Append(target, d)
      BY <3>1, AppendIsConcat
    <3>3. target # << >> /\ d = Last(target)
      BY <3>2, Zenon DEF IsAppended
    <3> DEFINE f == Table!ButLast(target)
    <3>4. f \in Seq(Alphabet) /\ target = Append(f, d)
      BY <3>3, SearchAssumption, Table!Unappend DEF Table!LastOf, Last
    <3> HIDE DEF f
    <3>5. <<d>> \in Seq(Alphabet) /\ <<d>> # << >>
      OBVIOUS
    <3>6. target = f \o <<d>> /\ f \o << >> = f
      BY <3>4, AppendIsConcat
    <3>7. target = f \o << >> \o <<d>> /\ e = f \o <<d>> \o <<d>>
      BY <3>1, <3>6
    <3> QED  BY <2>3, <3>4, <3>5, <3>7, InsertionIsMade
  <2> QED  BY <2>4, <2>5
<1> QED  BY <1>2, <1>4, <1>5

(* Passes and answers leave the trie alone.                                *)
LEMMA KeptBySearch ==
  ASSUME UNCHANGED <<vars, algorithm>>
  PROVE  /\ TrainingSet' = TrainingSet
         /\ \A e : LinesBelow(e)' = LinesBelow(e)
         /\ alphabets_' = alphabets_
         /\ \A e, n : Edited(e, n)' = Edited(e, n)
<1>1. /\ lines' = lines /\ nodes' = nodes /\ algorithm' = algorithm
  BY DEF vars
<1>2. TrainingSet' = TrainingSet
  BY <1>1, Zenon DEF TrainingSet
<1>3. \A e : LinesBelow(e)' = LinesBelow(e)
  BY <1>1, Zenon DEF LinesBelow
<1>4. alphabets_' = alphabets_
  BY <1>1, Zenon DEF alphabets_
<1>5. ASSUME NEW e, NEW n PROVE Edited(e, n)' = Edited(e, n)
  BY <1>1, <1>4 DEF Edited
<1> QED  BY <1>2, <1>3, <1>4, <1>5, Zenon

LEMMA SearchFinds == FoundInv /\ Search => FoundInv'
<1> SUFFICES ASSUME FoundInv, Search PROVE FoundInv'
  OBVIOUS
<1>1. NearInv'
  BY SearchNear DEF FoundInv
<1>2. /\ pc' = "built" /\ DOMAIN candidates' = {target'}
      /\ candidates'[target'] = 0 /\ current_cost' = 1
      /\ search' = "generating"
  BY DEF Search, vars
<1>3. OneEditIsFound'
  BY <1>2 DEF OneEditIsFound
<1> QED  BY <1>1, <1>2, <1>3 DEF FoundInv

LEMMA PassFinds == FoundInv /\ Pass => FoundInv'
<1> SUFFICES ASSUME FoundInv, Pass PROVE FoundInv'
  OBVIOUS
<1> DEFINE n == current_cost
           level == {e \in DOMAIN candidates : candidates[e] = n - 1}
<1>1. NearInv'
  BY PassNear DEF FoundInv
<1>2. /\ n \in Nat /\ n > 0 /\ current_cost' = n + 1
      /\ target' = target /\ search = "generating" /\ search' = search
      /\ pc' = pc /\ algorithm' = algorithm
  BY DEF FoundInv, NearInv, Pass, vars
<1>3. PICK Taken \in SUBSET level :
        /\ level # {} => Taken # {}
        /\ candidates' = Labelled(UNION {Edited(e, n) : e \in Taken}, n)
  BY DEF Pass
<1> DEFINE found == UNION {Edited(e, n) : e \in Taken}
<1>4. /\ DOMAIN candidates' = DOMAIN candidates \cup found
      /\ \A e \in DOMAIN candidates' :
           candidates'[e] = IF e \in DOMAIN candidates THEN candidates[e]
                                                       ELSE n
  BY <1>3, Zenon DEF Labelled
<1>5. /\ target \in DOMAIN candidates
      /\ \A e \in DOMAIN candidates : candidates[e] = 0 <=> e = target
  BY <1>2 DEF FoundInv
<1>6. target' \in DOMAIN candidates'
  BY <1>2, <1>4, <1>5
<1>7. \A e \in DOMAIN candidates' : candidates'[e] = 0 <=> e = target'
  BY <1>2, <1>4, <1>5
<1>8. ASSUME algorithm = "CANDIDATE_GENERATION", NEW e \in Edited(target, 1)
      PROVE  e \in DOMAIN candidates' /\ candidates'[e] <= 1
  <2>1. CASE n = 1
    <3>1. level = {target}
      BY <1>5, <2>1
    <3>2. Taken = {target}
      <4> HIDE DEF level
      <4> QED  BY <1>3, <3>1
    <3>3. e \in found
      BY <2>1, <3>2
    <3>4. e \in DOMAIN candidates => candidates[e] \in 0..n - 1
      BY DEF FoundInv, NearInv
    <3> HIDE DEF found
    <3> QED  BY <1>4, <2>1, <3>3, <3>4
  <2>2. CASE n > 1
    <3>1. e \in DOMAIN candidates /\ candidates[e] <= 1
      BY <1>2, <1>8, <2>2 DEF FoundInv
    <3> HIDE DEF found
    <3> QED  BY <1>4, <3>1
  <2> QED  BY <1>2, <2>1, <2>2
<1>9. Edited(target, 1)' = Edited(target, 1)
  <2>1. UNCHANGED <<vars, algorithm>>
    BY DEF Pass
  <2>2. \A e, m : Edited(e, m)' = Edited(e, m)
    BY <2>1, KeptBySearch
  <2> QED  BY <1>2, <2>2
<1>10. OneEditIsFound'
  BY <1>2 DEF OneEditIsFound
<1>11. pc = "built"
  BY <1>2 DEF FoundInv
<1> HIDE DEF found, level
<1> QED  BY <1>1, <1>2, <1>6, <1>7, <1>8, <1>9, <1>10, <1>11 DEF FoundInv

LEMMA ReturnFinds == FoundInv /\ Return => FoundInv'
<1> SUFFICES ASSUME FoundInv, Return PROVE FoundInv'
  OBVIOUS
<1>1. NearInv'
  <2>1. [SearchNext]_allVars
    BY DEF SearchNext
  <2> QED  BY <2>1, StepNear DEF FoundInv
<1>2. /\ candidates' = candidates /\ target' = target /\ pc' = pc
      /\ algorithm' = algorithm /\ search = "generating"
      /\ current_cost' = current_cost /\ current_cost > max_cost
      /\ search' = "returned" /\ UNCHANGED <<vars, algorithm>>
  BY DEF Return, vars
<1>3. /\ TrainingSet' = TrainingSet
      /\ \A e : LinesBelow(e)' = LinesBelow(e)
      /\ \A e, n : Edited(e, n)' = Edited(e, n)
  BY <1>2, KeptBySearch
<1>4. ASSUME algorithm = "CANDIDATE_GENERATION"
      PROVE  result' = {[expression |-> e, cost |-> candidates[e],
                         occurrences |-> nodes[e].num_occurrences] :
                          e \in {d \in DOMAIN candidates : Found(d)}}
  BY <1>4 DEF Return
<1>5. CountsInv /\ target \in Seq(Alphabet)
  BY DEF FoundInv, NearInv
<1>6. ASSUME algorithm = "CANDIDATE_GENERATION", NEW r \in result'
      PROVE  /\ r.expression \in TrainingSet
             /\ r.occurrences = Cardinality(LinesBelow(r.expression))
  <2>1. PICK e \in {d \in DOMAIN candidates : Found(d)} :
          r = [expression |-> e, cost |-> candidates[e],
               occurrences |-> nodes[e].num_occurrences]
    BY <1>4, <1>6
  <2>2. r.expression = e /\ r.occurrences = nodes[e].num_occurrences
    BY <2>1
  <2>3. e \in DOMAIN nodes /\ nodes[e].terminal_node
    BY DEF Found
  <2>4. /\ e \in TrainingSet
        /\ nodes[e].num_occurrences = Cardinality(LinesBelow(e))
    BY <1>5, <2>3 DEF CountsInv, OccurrencesCountPrefixes,
                      TerminalsAreTheTrainingSet
  <2> QED  BY <2>2, <2>4
<1>7. ASSUME algorithm = "CANDIDATE_GENERATION",
             NEW e \in TrainingSet, FewestEdits(target, e) <= max_cost,
             FewestEdits(target, e) < 2, ~IsAppended(e)
      PROVE  \E r \in result' :
               r.expression = e /\ r.cost = FewestEdits(target, e)
  <2>1. e \in Seq(Alphabet)
    BY <1>5, TrainingSetStrings
  <2>2. e \in DOMAIN nodes
    <3>1. e \in Prefixes(e)
      BY <2>1, PrefixesBegin
    <3> QED  BY <1>5, <3>1 DEF CountsInv, OccurrencesCountPrefixes
  <2>3. Found(e)
    BY <1>5, <2>2 DEF Found, CountsInv, TerminalsAreTheTrainingSet
  <2>4. e \in DOMAIN candidates /\ candidates[e] = FewestEdits(target, e)
    <3>1. FewestEdits(target, e) \in {0, 1}
      <4> DEFINE k == FewestEdits(target, e)
      <4>1. k \in Nat /\ k < 2
        BY <1>5, <1>7, <2>1, EditsAreNat
      <4> HIDE DEF k
      <4>2. k \in {0, 1}
        BY <4>1
      <4> QED  BY <4>2 DEF k
    <3>2. CASE FewestEdits(target, e) = 0
      <4>1. e = target
        BY <1>5, <2>1, <3>2, OneEdit
      <4> QED  BY <1>2, <3>2, <4>1 DEF FoundInv
    <3>3. CASE FewestEdits(target, e) = 1
      <4>1. e \in Edited(target, 1)
        BY <1>5, <1>7, <2>1, <2>2, <3>3, OneEditIsMade
      <4>2. current_cost > 1
        <5>1. 1 <= max_cost /\ max_cost \in Nat
          BY <1>7, <3>3, SearchAssumption
        <5>2. current_cost \in Nat
          BY DEF FoundInv, NearInv
        <5> QED  BY <1>2, <5>1, <5>2
      <4>3. e \in DOMAIN candidates /\ candidates[e] <= 1
        BY <1>2, <1>7, <4>1, <4>2 DEF FoundInv
      <4>4. candidates[e] \in Nat
        BY <4>3 DEF FoundInv, NearInv
      <4>5. candidates[e] # 0
        <5>1. e # target
          BY <1>5, <3>3, NoEdits
        <5> QED  BY <1>2, <4>3, <5>1 DEF FoundInv
      <4> QED  BY <3>3, <4>3, <4>4, <4>5
    <3> QED  BY <3>1, <3>2, <3>3
  <2> DEFINE r == [expression |-> e, cost |-> candidates[e],
                   occurrences |-> nodes[e].num_occurrences]
  <2>5. r \in result'
    BY <1>4, <1>7, <2>3, <2>4, Zenon
  <2>6. r.expression = e /\ r.cost = candidates[e]
    OBVIOUS
  <2> QED  BY <2>4, <2>5, <2>6, Zenon
<1>8. \A e : IsAppended(e)' <=> IsAppended(e)
  BY <1>2 DEF IsAppended
<1>9. OneEditIsFound'
  BY <1>2, <1>3, <1>6, <1>7, <1>8, Zenon DEF OneEditIsFound
<1> QED  BY <1>1, <1>2, <1>3, <1>9 DEF FoundInv

LEMMA StepFinds == FoundInv /\ [SearchNext]_allVars => FoundInv'
<1> SUFFICES ASSUME FoundInv, [SearchNext]_allVars PROVE FoundInv'
  OBVIOUS
<1>1. CASE Search
  BY <1>1, SearchFinds
<1>2. CASE Pass
  BY <1>2, PassFinds
<1>3. CASE Return
  BY <1>3, ReturnFinds
<1>4. CASE BuildStep
  <2>1. pc # "built"
    BY <1>4 DEF BuildStep, OpenFails, ReadLine, EndOfFile, Visit, BuildReturns
  <2>2. search = "idle" /\ search' = "idle"
    BY <1>4, <2>1 DEF FoundInv, BuildStep, searchVars
  <2>3. NearInv'
    BY StepNear DEF FoundInv
  <2>4. OneEditIsFound'
    BY <2>2 DEF OneEditIsFound
  <2> QED  BY <2>2, <2>3, <2>4 DEF FoundInv
<1>5. CASE UNCHANGED allVars
  <2>1. NearInv'
    BY StepNear DEF FoundInv
  <2>2. /\ UNCHANGED <<vars, algorithm>> /\ UNCHANGED searchVars
    BY <1>5 DEF allVars, searchVars
  <2>3. /\ TrainingSet' = TrainingSet
        /\ \A e : LinesBelow(e)' = LinesBelow(e)
        /\ \A e, n : Edited(e, n)' = Edited(e, n)
    BY <2>2, KeptBySearch
  <2>4. \A e : IsAppended(e)' <=> IsAppended(e)
    BY <2>2 DEF IsAppended, searchVars
  <2>5. OneEditIsFound'
    BY <2>2, <2>3, <2>4, Zenon DEF FoundInv, OneEditIsFound, searchVars
  <2> QED  BY <2>1, <2>2, <2>3, <2>5 DEF FoundInv, searchVars, vars
<1> QED  BY <1>1, <1>2, <1>3, <1>4, <1>5 DEF SearchNext, SearchOver

(* Candidate generation finds every trained expression one edit from the   *)
(* target that it can make, and only trained ones with their counts.       *)
THEOREM OneEditCorrect == SearchSpec => []OneEditIsFound
<1>1. SearchInit => FoundInv
  <2> SUFFICES ASSUME SearchInit PROVE FoundInv
    OBVIOUS
  <2>1. NearInv /\ search = "idle"
    BY InitNear DEF SearchInit
  <2> QED  BY <2>1 DEF FoundInv, OneEditIsFound
<1>2. FoundInv => OneEditIsFound
  BY DEF FoundInv
<1> QED  BY <1>1, <1>2, StepFinds, PTL DEF SearchSpec
=============================================================================
