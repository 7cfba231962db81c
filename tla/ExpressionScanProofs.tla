------------------------ MODULE ExpressionScanProofs ------------------------
(***************************************************************************)
(* For any training set, any number of scanners and any race among the     *)
(* workers of a search: what the cache holds are results for its key, and  *)
(* a report names its evidence.  The argument has one hard step, that the  *)
(* results of a search are those ResultsFor describes; the rest follows    *)
(* them through the scanner, the cache, another scanner and the log.       *)
(*                                                                         *)
(* For any race among the scanners: the hits and misses count every        *)
(* condition once, none searches for what it has judged at that level, and *)
(* the conditions of a file are judged at both levels in turn.  For a      *)
(* search with one worker: the results are complete, so that the verdict   *)
(* is the one the training set determines.                                 *)
(***************************************************************************)
EXTENDS ExpressionScan, FiniteSetTheorems, TLAPS

-----------------------------------------------------------------------------
(* The results of a search.                                                *)

PushedFor(l, e) ==
  IF e \in DOMAIN Trained[l] THEN {}
  ELSE {[expression |-> e, cost |-> 0, occurrences |-> 0, copy |-> 1]}

LEMMA NearFinite ==
  ASSUME NEW l \in Levels, NEW e \in Expressions
  PROVE  /\ Near(l, e) \subseteq DOMAIN Trained[l]
         /\ Near(l, e) \subseteq Expressions
         /\ IsFiniteSet(Near(l, e))
<1>1. /\ Near(l, e) \in SUBSET DOMAIN Trained[l]
      /\ IsFiniteSet(DOMAIN Trained[l])
      /\ DOMAIN Trained[l] \subseteq Expressions
  BY TrainedAssumption DEF Near
<1> QED
  BY <1>1, FS_Subset, Zenon

(* A search finds paths near the expression, with their cost and counter,  *)
(* and finitely many, since there are finitely many workers.               *)
LEMMA FoundIsFinite ==
  ASSUME NEW l \in Levels, NEW e \in Expressions, NEW v \in Visits(l),
         num_workers \in Nat
  PROVE  /\ IsFiniteSet(Found(l, e, v))
         /\ \A x \in Found(l, e, v) :
              /\ x.expression \in Near(l, e)
              /\ x.cost = Distance[e][x.expression]
              /\ x.occurrences = Trained[l][x.expression]
<1> DEFINE R(f, k) == [expression |-> f, cost |-> Distance[e][f],
                       occurrences |-> Trained[l][f], copy |-> k]
           S == Near(l, e) \X (1..num_workers)
           m == [x \in S |-> R(x[1], x[2])]
           T == {m[x] : x \in S}
<1>1. \A x \in Found(l, e, v) :
        \E f \in Near(l, e) : \E k \in 1..v[f] : x = R(f, k)
  BY Zenon DEF Found
<1>2. \A f \in Near(l, e) : 1..v[f] \subseteq 1..num_workers
  <2>1. v \in [DOMAIN Trained[l] -> 0..num_workers]
    BY DEF Visits
  <2> QED
    BY <2>1, NearFinite
<1>3. IsFiniteSet(S)
  <2>1. IsFiniteSet(1..num_workers)
    BY FS_Interval
  <2> QED
    BY <2>1, NearFinite, FS_Product, Zenon
<1>4. IsFiniteSet(T)
  <2>1. m \in Surjection(S, T)
    BY Zenon DEF Surjection
  <2> HIDE DEF m, T, S
  <2> QED  BY <1>3, <2>1, FS_Surjection, Zenon
<1>5. Found(l, e, v) \subseteq T
  <2> SUFFICES ASSUME NEW x \in Found(l, e, v) PROVE x \in T
    OBVIOUS
  <2>1. PICK f \in Near(l, e) : \E k \in 1..v[f] : x = R(f, k)
    BY <1>1
  <2>1a. PICK k \in 1..v[f] : x = R(f, k)
    BY <2>1
  <2>2. <<f, k>> \in S /\ <<f, k>>[1] = f /\ <<f, k>>[2] = k
    BY <1>2
  <2> HIDE DEF R, S
  <2>3. m[<<f, k>>] = R(f, k)
    BY <2>2
  <2> HIDE DEF m
  <2> QED  BY <2>1a, <2>2, <2>3, Zenon
<1>6. IsFiniteSet(Found(l, e, v))
  <2> HIDE DEF T
  <2> QED  BY <1>4, <1>5, FS_Subset, Zenon
<1>7. \A x \in Found(l, e, v) :
        /\ x.expression \in Near(l, e)
        /\ x.cost = Distance[e][x.expression]
        /\ x.occurrences = Trained[l][x.expression]
  <2> SUFFICES ASSUME NEW x \in Found(l, e, v)
               PROVE  /\ x.expression \in Near(l, e)
                      /\ x.cost = Distance[e][x.expression]
                      /\ x.occurrences = Trained[l][x.expression]
    OBVIOUS
  <2>1. PICK f \in Near(l, e) : \E k \in 1..v[f] : x = R(f, k)
    BY <1>1
  <2> QED  BY <2>1
<1> QED  BY <1>6, <1>7

(* Sorted, cut and freed of what tells copies apart, whatever a search may *)
(* bring is what ResultsFor says.                                          *)
LEMMA SearchIsSound ==
  ASSUME num_workers \in Nat \ {0},
         NEW l \in Levels, NEW e \in Expressions, NEW v \in Visits(l),
         NEW stray \in ReadPastEnd,
         NEW r \in Ranked(Found(l, e, v) \cup stray \cup PushedFor(l, e))
  PROVE  /\ WithoutCopy(r) \in Seq(AnyResult)
         /\ ResultsFor(num_workers, l, e, WithoutCopy(r))
<1> DEFINE R == Found(l, e, v) \cup stray \cup PushedFor(l, e)
           n == IF Cardinality(R) > max_autocorrections
                  THEN max_autocorrections ELSE Cardinality(R)
           q == WithoutCopy(r)
<1>1. /\ stray \subseteq Strays /\ IsFiniteSet(stray)
      /\ Cardinality(stray) < num_workers
      /\ Cardinality(stray) \in Nat
  <2>1. stray \in SUBSET Strays /\ Cardinality(stray) < num_workers
    BY DEF ReadPastEnd
  <2>2. IsFiniteSet(stray)
    BY <2>1, StraysAssumption, FS_Subset, Zenon
  <2> QED  BY <2>1, <2>2, FS_CardinalityType
<1>2. IsFiniteSet(R) /\ Cardinality(R) \in Nat
  <2>1. IsFiniteSet(Found(l, e, v))
    BY FoundIsFinite
  <2>2. IsFiniteSet(PushedFor(l, e))
    BY FS_EmptySet, FS_Singleton, Zenon DEF PushedFor
  <2>3. IsFiniteSet(Found(l, e, v) \cup stray)
    BY <1>1, <2>1, FS_Union, Zenon
  <2>4. IsFiniteSet(R)
    BY <2>2, <2>3, FS_Union, Zenon
  <2> QED  BY <2>4, FS_CardinalityType, Zenon
<1>3. n \in Nat /\ n <= max_autocorrections
  BY <1>2, BoundsAssumption
<1>4. /\ r \in [1..n -> R]
      /\ \A j, k \in 1..n : j < k => r[j] # r[k] /\ ~Better(r[k], r[j])
  <2>1. r \in Ranked(R)
    OBVIOUS
  <2> HIDE DEF R
  <2> QED  BY <2>1, Zenon DEF Ranked
<1> HIDE DEF n
<1>5. /\ DOMAIN q = 1..n
      /\ \A k \in 1..n : q[k] = [expression |-> r[k].expression,
                                 cost |-> r[k].cost,
                                 occurrences |-> r[k].occurrences]
  BY <1>4, Zenon DEF WithoutCopy
<1> HIDE DEF q
(* Each is found, read past the end, or the expression itself.             *)
<1>6. \A k \in 1..n :
        \/ r[k] \in Found(l, e, v)
        \/ r[k] \in stray
        \/ /\ e \notin DOMAIN Trained[l]
           /\ r[k] = [expression |-> e, cost |-> 0, occurrences |-> 0,
                      copy |-> 1]
  <2> SUFFICES ASSUME NEW k \in 1..n, r[k] \notin Found(l, e, v),
                      r[k] \notin stray
               PROVE  /\ e \notin DOMAIN Trained[l]
                      /\ r[k] = [expression |-> e, cost |-> 0,
                                 occurrences |-> 0, copy |-> 1]
    OBVIOUS
  <2>1. r[k] \in PushedFor(l, e)
    BY <1>4
  <2> QED  BY <2>1 DEF PushedFor
<1>7. /\ Distance[e][e] = 0 /\ \A f \in Expressions : Distance[e][f] \in Nat
      /\ \A f \in DOMAIN Trained[l] : Trained[l][f] \in Nat
      /\ Near(l, e) \subseteq DOMAIN Trained[l]
      /\ Near(l, e) \subseteq Expressions
  BY DistanceAssumption, TrainedAssumption, NearFinite
<1>8. ASSUME NEW k \in 1..n, q[k].expression \in Expressions
      PROVE  /\ q[k].expression \in Near(l, e) \cup {e}
             /\ q[k].cost = Distance[e][q[k].expression]
             /\ q[k].occurrences = Occurrences(l, q[k].expression)
             /\ q[k] \in Result
  <2>1. /\ q[k].expression = r[k].expression /\ q[k].cost = r[k].cost
        /\ q[k].occurrences = r[k].occurrences
    BY <1>5
  <2>2. r[k] \notin stray
    BY <1>1, <1>8, <2>1, StraysAssumption
  <2>3. CASE r[k] \in Found(l, e, v)
    <3>1. /\ r[k].expression \in Near(l, e)
          /\ r[k].cost = Distance[e][r[k].expression]
          /\ r[k].occurrences = Trained[l][r[k].expression]
      BY <2>3, FoundIsFinite
    <3> QED  BY <1>5, <1>7, <2>1, <3>1 DEF Result, Occurrences
  <2>4. CASE /\ e \notin DOMAIN Trained[l]
             /\ r[k] = [expression |-> e, cost |-> 0, occurrences |-> 0,
                        copy |-> 1]
    BY <1>5, <1>7, <2>1, <2>4 DEF Result, Occurrences
  <2> QED  BY <1>6, <2>2, <2>3, <2>4
<1>9. ASSUME NEW k \in 1..n, q[k].expression \notin Expressions
      PROVE  r[k] \in stray /\ q[k] \in AnyResult
  <2>1. q[k].expression = r[k].expression
    BY <1>5
  <2>2. r[k] \notin Found(l, e, v)
    BY <1>7, <1>9, <2>1, FoundIsFinite
  <2>3. r[k] \in stray
    BY <1>6, <1>9, <2>1, <2>2
  <2> QED  BY <1>1, <1>5, <2>3 DEF AnyResult
<1>10. q \in Seq(AnyResult)
  <2>1. \A k \in 1..n : q[k] \in AnyResult
    BY <1>8, <1>9 DEF AnyResult
  <2>2. q = [k \in 1..n |-> q[k]]
    BY Zenon, <1>5 DEF q, WithoutCopy
  <2> QED  BY <1>3, <2>1, <2>2
<1>11. Len(q) = n /\ Len(q) <= max_autocorrections
  BY <1>3, <1>5, <1>10
<1>12. \A j, k \in DOMAIN q : j < k => ~Better(q[k], q[j])
  <2> SUFFICES ASSUME NEW j \in 1..n, NEW k \in 1..n, j < k
               PROVE  ~Better(q[k], q[j])
    BY <1>5
  <2>1. ~Better(r[k], r[j])
    BY <1>4
  <2>2. /\ q[j].cost = r[j].cost /\ q[j].occurrences = r[j].occurrences
        /\ q[k].cost = r[k].cost /\ q[k].occurrences = r[k].occurrences
    BY <1>5
  <2> QED  BY <2>1, <2>2 DEF Better
<1>13. Cardinality(StrayIn(q)) < num_workers
  <2> DEFINE D == StrayIn(q)
             f == [k \in D |-> r[k]]
  <2>1. D \subseteq 1..n /\ \A k \in D : q[k].expression \notin Expressions
    BY <1>5 DEF StrayIn
  <2>2. IsFiniteSet(D) /\ Cardinality(D) \in Nat
    <3>1. IsFiniteSet(1..n)
      BY <1>3, FS_Interval
    <3>2. IsFiniteSet(D)
      BY <2>1, <3>1, FS_Subset, Zenon
    <3> QED  BY <3>2, FS_CardinalityType, Zenon
  <2>3. \A j, k \in D : r[j] = r[k] => j = k
    <3> SUFFICES ASSUME NEW j \in D, NEW k \in D, r[j] = r[k] PROVE j = k
      OBVIOUS
    <3>1. j \in 1..n /\ k \in 1..n
      BY <2>1
    <3>2. ~(j < k) /\ ~(k < j)
      BY <1>4, <3>1
    <3> QED  BY <1>3, <3>1, <3>2
  <2>4. \A k \in D : r[k] \in stray
    BY <1>9, <2>1
  <2> HIDE DEF D
  <2>5. f \in Injection(D, stray)
    BY <2>3, <2>4 DEF Injection, IsInjective
  <2>6. Cardinality(D) <= Cardinality(stray)
    BY <1>1, <2>5, FS_Injection, Zenon
  <2> QED  BY <1>1, <2>2, <2>6 DEF D
<1>14. \A k \in (DOMAIN q) \ StrayIn(q) :
         /\ q[k].expression \in Near(l, e) \cup {e}
         /\ q[k].cost = Distance[e][q[k].expression]
         /\ q[k].occurrences = Occurrences(l, q[k].expression)
  BY <1>5, <1>8 DEF StrayIn
<1>15. ResultsFor(num_workers, l, e, q)
  BY <1>11, <1>12, <1>13, <1>14 DEF ResultsFor
<1> QED
  BY <1>10, <1>15 DEF q

-----------------------------------------------------------------------------
(* The types.                                                              *)

Labels == {"next", "lookUp", "cache", "search", "insert", "judge", "done",
           "died"}

Verdict == [block : Blocks, level : Levels, anomaly : BOOLEAN,
            results : Seq(AnyResult)]

(* The room a log has.                                                     *)
Room == 2 * MaxBlocks[num_workers]

LEMMA RoomIsANumber == TypeOK => Room \in Nat
<1> SUFFICES ASSUME TypeOK PROVE Room \in Nat
  OBVIOUS
<1>1. Cardinality(Scanners) \in Nat
  BY BoundsAssumption, FS_CardinalityType
<1>2. /\ num_workers \in 1..Cardinality(Scanners)
      /\ MaxBlocks \in Seq(Nat) /\ Len(MaxBlocks) >= Cardinality(Scanners)
  BY BoundsAssumption DEF TypeOK
<1>3. num_workers \in DOMAIN MaxBlocks
  BY <1>1, <1>2
<1>4. MaxBlocks[num_workers] \in Nat
  BY <1>2, <1>3
<1> QED
  BY <1>4 DEF Room

(* The number of workers is one.                                           *)
LEMMA WorkersAreANumber == TypeOK => num_workers \in Nat \ {0}
<1>1. Cardinality(Scanners) \in Nat
  BY BoundsAssumption, FS_CardinalityType
<1> QED
  BY <1>1 DEF TypeOK

LEMMA ExpressionOrMalformed ==
  ASSUME TypeOK, NEW s \in Scanners
  PROVE  Expression(s) \in Expressions \cup {Malformed}
BY BlocksAssumption DEF TypeOK, Expression

LEMMA InitIInv == Init => IInv
<1> SUFFICES ASSUME Init PROVE IInv
  OBVIOUS
<1>1. /\ scan \in {"ScanFile", "ScanExpression"}
      /\ pc \in [Scanners -> {"next", "done"}]
      /\ level = [s \in Scanners |-> "ONE"]
      /\ found_in_training_dataset = [s \in Scanners |-> FALSE]
      /\ nearest_expressions = [s \in Scanners |-> << >>]
      /\ expression_cache = [l \in Levels |-> << >>]
      /\ hit_ = [l \in Levels |-> 0] /\ miss_ = [l \in Levels |-> 0]
      /\ log = [s \in Scanners |-> << >>]
  BY DEF Init
<1>2. num_workers \in 1..Cardinality(Scanners)
  <2>1. PICK running \in (SUBSET Scanners) \ {{}} :
          num_workers = Cardinality(running)
    BY DEF Init
  <2>2. /\ IsFiniteSet(running)
        /\ Cardinality(running) <= Cardinality(Scanners)
    BY BoundsAssumption, FS_Subset, Zenon
  <2>3. Cardinality(running) \in Nat /\ Cardinality(running) # 0
    BY <2>2, FS_CardinalityType, FS_EmptySet
  <2>4. Cardinality(Scanners) \in Nat
    BY BoundsAssumption, FS_CardinalityType
  <2> QED  BY <2>1, <2>2, <2>3, <2>4
<1>3. code_block \in [Scanners -> Blocks]
  <2>1. (CHOOSE b \in Blocks : TRUE) \in Blocks
    BY BlocksAssumption, Zenon
  <2> QED  BY <2>1 DEF Init
<1>4. /\ \A s \in Scanners : Len(log[s]) = 0 /\ log[s] = << >>
      /\ \A s \in Scanners : DOMAIN log[s] = {}
      /\ \A l \in Levels : DOMAIN expression_cache[l] = {}
      /\ DOMAIN expression_cache = Levels
  BY <1>1
<1>5. MaxBlocks[num_workers] \in Nat
  <2>1. Cardinality(Scanners) \in Nat
    BY BoundsAssumption, FS_CardinalityType
  <2>2. num_workers \in DOMAIN MaxBlocks
    BY <1>2, <2>1, BoundsAssumption
  <2> QED  BY <2>2, BoundsAssumption
<1>6. TypeOK
  <2>1. pc \in [Scanners -> Labels] /\ level \in [Scanners -> Levels]
    BY <1>1 DEF Labels, Levels
  <2>2. found_in_training_dataset \in [Scanners -> BOOLEAN]
    BY <1>1
  <2>3. nearest_expressions \in [Scanners -> Seq(AnyResult)]
    BY <1>1
  <2>4. hit_ \in [Levels -> Nat] /\ miss_ \in [Levels -> Nat]
    BY <1>1
  <2>5. log \in [Scanners -> Seq(Verdict)]
    BY <1>1
  <2>6. \A s \in Scanners : Len(log[s]) <= 2 * MaxBlocks[num_workers]
    BY <1>4, <1>5
  <2> QED
    BY <1>1, <1>2, <1>3, <1>4, <2>1, <2>2, <2>3, <2>4, <2>5, <2>6, Zenon
    DEF TypeOK, Labels, Verdict
<1>7. ScannerInv
  BY <1>1 DEF ScannerInv
<1>8. LengthInv
  BY <1>1, <1>4 DEF LengthInv
<1> QED
  BY <1>4, <1>6, <1>7, <1>8 DEF IInv, CacheIsSound, LogInv

LEMMA ConfigStays == [Next]_vars => scan' = scan /\ num_workers' = num_workers
BY DEF Next, Step, NextBlock, EndOfFile, LookUp, NodeToStringThrows, CacheHit,
       CacheMiss, Search, SearchFails, CacheInsert, Judge, Over, vars, config

LEMMA TypeStep == IInv /\ [Next]_vars => TypeOK'
<1> SUFFICES ASSUME IInv, [Next]_vars PROVE TypeOK'
  OBVIOUS
<1>1. TypeOK /\ scan' = scan /\ num_workers' = num_workers
  BY ConfigStays DEF IInv
<1>2. /\ pc \in [Scanners -> Labels]
      /\ log \in [Scanners -> Seq(Verdict)]
      /\ code_block \in [Scanners -> Blocks]
      /\ level \in [Scanners -> Levels]
      /\ found_in_training_dataset \in [Scanners -> BOOLEAN]
      /\ nearest_expressions \in [Scanners -> Seq(AnyResult)]
      /\ DOMAIN expression_cache = Levels
      /\ \A l \in Levels :
           /\ DOMAIN expression_cache[l] \subseteq Expressions
           /\ \A e \in DOMAIN expression_cache[l] :
                expression_cache[l][e] \in Seq(AnyResult)
      /\ hit_ \in [Levels -> Nat] /\ miss_ \in [Levels -> Nat]
      /\ \A s \in Scanners : Len(log[s]) <= 2 * MaxBlocks[num_workers]
  BY <1>1, Zenon DEF TypeOK, Labels, Verdict
<1> DEFINE PC == pc' \in [Scanners -> Labels]
           Locals == /\ code_block' \in [Scanners -> Blocks]
                     /\ level' \in [Scanners -> Levels]
           Finds == found_in_training_dataset' \in [Scanners -> BOOLEAN]
           Nearest == nearest_expressions' \in [Scanners -> Seq(AnyResult)]
           Cache ==
             /\ DOMAIN expression_cache' = Levels
             /\ \A l \in Levels :
                  /\ DOMAIN expression_cache'[l] \subseteq Expressions
                  /\ \A e \in DOMAIN expression_cache'[l] :
                       expression_cache'[l][e] \in Seq(AnyResult)
           Statistics ==
             hit_' \in [Levels -> Nat] /\ miss_' \in [Levels -> Nat]
           Log == /\ log' \in [Scanners -> Seq(Verdict)]
                  /\ \A s \in Scanners :
                       Len(log'[s]) <= 2 * MaxBlocks[num_workers]
<1>3. ASSUME PC, Locals, Finds, Nearest, Cache, Statistics, Log
      PROVE  TypeOK'
  BY <1>1, <1>3, Zenon DEF TypeOK, Labels, Verdict
<1> HIDE DEF PC, Locals, Finds, Nearest, Cache, Statistics, Log
<1>4. ASSUME NEW s \in Scanners, NEW b \in Labels, Goto(s, b) PROVE PC
  BY <1>2, <1>4 DEF PC, Goto
<1>5. /\ UNCHANGED <<code_block, level>> => Locals
      /\ UNCHANGED found_in_training_dataset => Finds
      /\ UNCHANGED nearest_expressions => Nearest
      /\ UNCHANGED expression_cache => Cache
      /\ UNCHANGED statistics => Statistics
      /\ UNCHANGED log => Log
  <2>1. UNCHANGED <<code_block, level>> => Locals
    BY <1>2 DEF Locals
  <2>2. UNCHANGED found_in_training_dataset => Finds
    BY <1>2 DEF Finds
  <2>3. UNCHANGED nearest_expressions => Nearest
    BY <1>2 DEF Nearest
  <2>4. UNCHANGED expression_cache => Cache
    BY <1>2, Zenon DEF Cache
  <2>5. UNCHANGED statistics => Statistics
    BY <1>2 DEF Statistics, statistics
  <2>6. UNCHANGED log => Log
    BY <1>2, Zenon DEF Log
  <2> QED  BY <2>1, <2>2, <2>3, <2>4, <2>5, <2>6
<1>6. ASSUME NEW s \in Scanners, NextBlock(s) PROVE TypeOK'
  <2>1. PC
    BY <1>4, <1>6 DEF NextBlock, Labels
  <2>2. Locals
    BY <1>2, <1>6 DEF NextBlock, Locals, Levels
  <2> QED  BY <1>3, <1>5, <1>6, <2>1, <2>2 DEF NextBlock
<1>7. ASSUME NEW s \in Scanners, EndOfFile(s) \/ CacheMiss(s) PROVE TypeOK'
  <2>1. PC
    BY <1>4, <1>7 DEF EndOfFile, CacheMiss, Labels
  <2>2. Statistics
    BY <1>2, <1>5, <1>7 DEF EndOfFile, CacheMiss, Statistics
  <2> QED
    BY <1>3, <1>5, <1>7, <2>1, <2>2 DEF EndOfFile, CacheMiss, local
<1>8. ASSUME NEW s \in Scanners, NodeToStringThrows(s) \/ SearchFails(s)
      PROVE  TypeOK'
  <2>1. PC
    BY <1>8 DEF NodeToStringThrows, SearchFails, PC, Labels
  <2> QED
    BY <1>3, <1>5, <1>8, <2>1 DEF NodeToStringThrows, SearchFails, local
<1>9. ASSUME NEW s \in Scanners, LookUp(s) PROVE TypeOK'
  <2>1. PC
    BY <1>4, <1>9 DEF LookUp, Labels
  <2>2. Finds
    BY <1>2, <1>9 DEF LookUp, Finds
  <2> QED  BY <1>3, <1>5, <1>9, <2>1, <2>2 DEF LookUp
<1>10. ASSUME NEW s \in Scanners, CacheHit(s) PROVE TypeOK'
  <2>1. PC
    BY <1>4, <1>10 DEF CacheHit, Labels
  <2>2. expression_cache[level[s]][Expression(s)] \in Seq(AnyResult)
    BY <1>2, <1>10 DEF CacheHit, CacheOf
  <2>3. Nearest
    BY <1>2, <1>10, <2>2 DEF CacheHit, CacheOf, Nearest
  <2>4. Statistics
    BY <1>2, <1>10 DEF CacheHit, Statistics
  <2> QED  BY <1>3, <1>5, <1>10, <2>1, <2>3, <2>4 DEF CacheHit
<1>11. ASSUME NEW s \in Scanners, Search(s) PROVE TypeOK'
  <2>1. PC
    BY <1>4, <1>11 DEF Search, Labels
  <2> DEFINE l == level[s]
             e == Expression(s)
  <2>2. l \in Levels /\ e \in Expressions
    BY <1>2, <1>11 DEF IInv, ScannerInv, Search
  <2>3. Pushed(s) = PushedFor(l, e)
    BY <1>11 DEF IInv, ScannerInv, Search, Pushed, PushedFor
  <2>4. PICK v \in Visits(l), stray \in ReadPastEnd :
          \E r \in Ranked(Found(l, e, v) \cup stray \cup PushedFor(l, e)) :
            nearest_expressions' =
              [nearest_expressions EXCEPT ![s] = WithoutCopy(r)]
    BY <1>11, <2>3, Zenon DEF Search
  <2>5. PICK r \in Ranked(Found(l, e, v) \cup stray \cup PushedFor(l, e)) :
          nearest_expressions' =
            [nearest_expressions EXCEPT ![s] = WithoutCopy(r)]
    BY <2>4, Zenon
  <2>6. WithoutCopy(r) \in Seq(AnyResult)
    <3> HIDE DEF l, e
    <3> QED  BY <1>1, <2>2, WorkersAreANumber, SearchIsSound
  <2>7. Nearest
    BY <1>2, <2>5, <2>6 DEF Nearest
  <2> QED  BY <1>3, <1>5, <1>11, <2>1, <2>7 DEF Search
<1>12. ASSUME NEW s \in Scanners, CacheInsert(s) PROVE TypeOK'
  <2>1. PC
    BY <1>4, <1>12 DEF CacheInsert, Labels
  <2> DEFINE l == level[s]
             e == Expression(s)
             new == [f \in DOMAIN expression_cache[l] \cup {e} |->
                       IF f = e THEN nearest_expressions[s]
                                ELSE expression_cache[l][f]]
  <2>2. l \in Levels /\ e \in Expressions
    BY <1>2, <1>12 DEF IInv, ScannerInv, CacheInsert
  <2>3. expression_cache' = [expression_cache EXCEPT ![l] = new]
    BY <1>12, Zenon DEF CacheInsert, CacheOf, Kept
  <2>4. /\ DOMAIN new \subseteq Expressions
        /\ \A f \in DOMAIN new : new[f] \in Seq(AnyResult)
    BY <1>2, <2>2
  <2> HIDE DEF new, l, e
  <2>5. Cache
    BY <1>2, <2>2, <2>3, <2>4 DEF Cache
  <2> QED
    BY <1>3, <1>5, <1>12, <2>1, <2>5 DEF CacheInsert, local, statistics
<1>13. ASSUME NEW s \in Scanners, Judge(s) PROVE TypeOK'
  <2>1. PC
    BY <1>4, <1>13 DEF Judge, Labels
  <2>2. Locals
    BY <1>2, <1>13 DEF Judge, Locals, Levels, NextLevel
  <2> DEFINE v == [block |-> code_block[s], level |-> level[s],
                   anomaly |-> MayReport(s)
                                 /\ IsPotentialAnomaly(nearest_expressions[s]),
                   results |-> nearest_expressions[s]]
  <2>3. log' = [log EXCEPT ![s] = Append(log[s], v)]
    BY <1>13, Zenon DEF Judge
  <2>4. v \in Verdict
    <3> DEFINE a == MayReport(s) /\ IsPotentialAnomaly(nearest_expressions[s])
    <3>1. a \in BOOLEAN
      BY Zenon
    <3>2. /\ code_block[s] \in Blocks /\ level[s] \in Levels
          /\ nearest_expressions[s] \in Seq(AnyResult)
      BY <1>2
    <3> HIDE DEF a
    <3> QED  BY <3>1, <3>2 DEF Verdict
  <2> HIDE DEF v
  <2>5. Len(log[s]) < 2 * MaxBlocks[num_workers]
    BY <1>13 DEF IInv, LengthInv, Judge
  <2>6. log[s] \in Seq(Verdict) /\ Len(log[s]) \in Nat
    BY <1>2
  <2>6a. 2 * MaxBlocks[num_workers] \in Nat
    BY <1>1, RoomIsANumber DEF Room
  <2>7. /\ Append(log[s], v) \in Seq(Verdict)
        /\ Len(Append(log[s], v)) <= 2 * MaxBlocks[num_workers]
    BY <2>4, <2>5, <2>6, <2>6a
  <2>8. Log
    BY <1>2, <2>3, <2>7 DEF Log
  <2> QED  BY <1>3, <1>5, <1>13, <2>1, <2>2, <2>8 DEF Judge
<1>14. CASE UNCHANGED vars
  <2>1. PC
    BY <1>2, <1>14 DEF PC, vars
  <2> QED
    BY <1>3, <1>5, <1>14, <2>1 DEF vars, local
<1> QED
  BY <1>6, <1>7, <1>8, <1>9, <1>10, <1>11, <1>12, <1>13, <1>14
  DEF Next, Step, Over

-----------------------------------------------------------------------------
(* Each scanner, and what it hands on.                                     *)

(* ScannerInv for one scanner.                                             *)
ScannerOK(s) ==
  /\ pc[s] \in {"cache", "search", "insert", "judge"} =>
       /\ Expression(s) \in Expressions
       /\ found_in_training_dataset[s]
            <=> Expression(s) \in DOMAIN Trained[level[s]]
  /\ pc[s] \in {"insert", "judge"} =>
       ResultsFor(num_workers, level[s], Expression(s),
                  nearest_expressions[s])

(* What keeps a scanner as it is.                                          *)
Same(s) ==
  /\ pc'[s] = pc[s] /\ code_block'[s] = code_block[s] /\ level'[s] = level[s]
  /\ found_in_training_dataset'[s] = found_in_training_dataset[s]
  /\ nearest_expressions'[s] = nearest_expressions[s]

(* A step of a scanner leaves all others where they are, unless they die.  *)
LEMMA OthersStay ==
  ASSUME TypeOK, NEW s \in Scanners, Step(s), NEW t \in Scanners, t # s
  PROVE  /\ log'[t] = log[t]
         /\ Same(t) \/ (pc'[t] = "died" /\ level'[t] = level[t])
<1>1. /\ DOMAIN pc = Scanners /\ DOMAIN code_block = Scanners
      /\ DOMAIN level = Scanners
      /\ DOMAIN found_in_training_dataset = Scanners
      /\ DOMAIN nearest_expressions = Scanners /\ DOMAIN log = Scanners
  BY DEF TypeOK
<1>2. CASE NodeToStringThrows(s) \/ SearchFails(s)
  BY <1>2 DEF NodeToStringThrows, SearchFails, local
<1>3. ASSUME NEW b, Goto(s, b) PROVE pc'[t] = pc[t]
  BY <1>1, <1>3, Zenon DEF Goto, TypeOK
<1>4. CASE NextBlock(s) \/ EndOfFile(s) \/ LookUp(s) \/ Judge(s)
  BY <1>1, <1>3, <1>4 DEF NextBlock, EndOfFile, LookUp, Judge, local, Same
<1>5. CASE CacheHit(s) \/ CacheMiss(s) \/ CacheInsert(s)
  BY <1>1, <1>3, <1>5 DEF CacheHit, CacheMiss, CacheInsert, local, Same
<1>6. CASE Search(s)
  BY <1>1, <1>3, <1>6 DEF Search, Same
<1> QED
  BY <1>2, <1>4, <1>5, <1>6 DEF Step

LEMMA ScannerStep == IInv /\ [Next]_vars => ScannerInv'
<1> SUFFICES ASSUME IInv, [Next]_vars PROVE ScannerInv'
  OBVIOUS
<1>1. /\ TypeOK /\ num_workers' = num_workers
      /\ \A t \in Scanners : ScannerOK(t)
  BY ConfigStays DEF IInv, ScannerInv, ScannerOK
<1>2. SUFFICES \A t \in Scanners : ScannerOK(t)'
  BY DEF ScannerInv, ScannerOK
<1>3. ASSUME NEW t \in Scanners, Same(t) PROVE ScannerOK(t)'
  BY <1>1, <1>3 DEF Same, ScannerOK, Expression
<1>4. ASSUME NEW t \in Scanners, pc'[t] \in {"next", "done", "lookUp", "died"}
      PROVE  ScannerOK(t)'
  BY <1>4 DEF ScannerOK
<1>5. ASSUME NEW s \in Scanners, Step(s), ScannerOK(s)'
      PROVE  \A t \in Scanners : ScannerOK(t)'
  <2> SUFFICES ASSUME NEW t \in Scanners, t # s PROVE ScannerOK(t)'
    BY <1>5
  <2> QED  BY <1>1, <1>3, <1>4, <1>5, OthersStay
<1>6. ASSUME NEW s \in Scanners, NEW b, Goto(s, b) PROVE pc'[s] = b
  BY <1>1, <1>6 DEF Goto, TypeOK
<1>7. ASSUME NEW s \in Scanners,
             NextBlock(s) \/ EndOfFile(s) \/ NodeToStringThrows(s)
               \/ SearchFails(s) \/ Judge(s)
      PROVE  ScannerOK(s)'
  <2>1. pc'[s] \in {"next", "done", "lookUp", "died"}
    BY <1>6, <1>7
    DEF NextBlock, EndOfFile, NodeToStringThrows, SearchFails, Judge
  <2> QED  BY <1>4, <2>1
<1>8. ASSUME NEW s \in Scanners, LookUp(s) PROVE ScannerOK(s)'
  <2>1. pc'[s] = "cache" /\ Expression(s)' = Expression(s)
    BY <1>6, <1>8 DEF LookUp, Expression
  <2>2. Expression(s) \in Expressions
    BY <1>1, <1>8, ExpressionOrMalformed DEF LookUp
  <2>3. found_in_training_dataset'[s]
          <=> Expression(s) \in DOMAIN Trained[level[s]]
    BY <1>1, <1>8 DEF LookUp, TypeOK
  <2>4. level' = level
    BY <1>8 DEF LookUp
  <2> QED  BY <2>1, <2>2, <2>3, <2>4 DEF ScannerOK
<1>9. ASSUME NEW s \in Scanners, CacheMiss(s) PROVE ScannerOK(s)'
  <2>1. /\ pc[s] = "cache" /\ pc'[s] = "search"
        /\ Expression(s)' = Expression(s) /\ level' = level
        /\ found_in_training_dataset' = found_in_training_dataset
    BY <1>6, <1>9 DEF CacheMiss, Expression, local
  <2> QED  BY <1>1, <2>1 DEF ScannerOK
<1>10. ASSUME NEW s \in Scanners, CacheInsert(s) PROVE ScannerOK(s)'
  <2>1. /\ pc[s] = "insert" /\ pc'[s] = "judge"
        /\ Expression(s)' = Expression(s) /\ level' = level
        /\ found_in_training_dataset' = found_in_training_dataset
        /\ nearest_expressions' = nearest_expressions
    BY <1>6, <1>10 DEF CacheInsert, Expression, local
  <2> QED  BY <1>1, <2>1 DEF ScannerOK
<1>11. ASSUME NEW s \in Scanners, CacheHit(s) PROVE ScannerOK(s)'
  <2> DEFINE r == expression_cache[level[s]][Expression(s)]
  <2>1. /\ pc[s] = "cache" /\ pc'[s] = "judge"
        /\ Expression(s)' = Expression(s) /\ level' = level
        /\ found_in_training_dataset' = found_in_training_dataset
    BY <1>6, <1>11 DEF CacheHit, Expression
  <2>2. nearest_expressions'[s] = r
    BY <1>1, <1>11 DEF CacheHit, CacheOf, TypeOK
  <2>3. ResultsFor(num_workers, level[s], Expression(s), r)
    BY <1>1, <1>11 DEF CacheHit, CacheOf, TypeOK, IInv, CacheIsSound
  <2> HIDE DEF r
  <2> QED  BY <1>1, <2>1, <2>2, <2>3 DEF ScannerOK
<1>12. ASSUME NEW s \in Scanners, Search(s) PROVE ScannerOK(s)'
  <2> DEFINE l == level[s]
             e == Expression(s)
  <2>1. /\ pc[s] = "search" /\ pc'[s] = "insert"
        /\ Expression(s)' = Expression(s) /\ level' = level
        /\ found_in_training_dataset' = found_in_training_dataset
    BY <1>6, <1>12 DEF Search, Expression
  <2>2. l \in Levels /\ e \in Expressions
    BY <1>1, <2>1 DEF TypeOK, ScannerOK
  <2>3. Pushed(s) = PushedFor(l, e)
    BY <1>1, <2>1 DEF ScannerOK, Pushed, PushedFor
  <2>4. PICK v \in Visits(l), stray \in ReadPastEnd :
          \E r \in Ranked(Found(l, e, v) \cup stray \cup PushedFor(l, e)) :
            nearest_expressions' =
              [nearest_expressions EXCEPT ![s] = WithoutCopy(r)]
    BY <1>12, <2>3, Zenon DEF Search
  <2>5. PICK r \in Ranked(Found(l, e, v) \cup stray \cup PushedFor(l, e)) :
          nearest_expressions' =
            [nearest_expressions EXCEPT ![s] = WithoutCopy(r)]
    BY <2>4, Zenon
  <2>6. nearest_expressions'[s] = WithoutCopy(r)
    BY <1>1, <2>5 DEF TypeOK
  <2>7. ResultsFor(num_workers, l, e, WithoutCopy(r))
    <3> HIDE DEF l, e
    <3> QED  BY <1>1, <2>2, WorkersAreANumber, SearchIsSound
  <2> QED  BY <1>1, <2>1, <2>6, <2>7 DEF ScannerOK
<1>13. CASE UNCHANGED vars
  BY <1>3, <1>13 DEF Same, vars, local
<1>14. ASSUME NEW s \in Scanners, Step(s) PROVE ScannerOK(s)'
  BY <1>7, <1>8, <1>9, <1>10, <1>11, <1>12, <1>14 DEF Step
<1> QED
  BY <1>5, <1>13, <1>14 DEF Next, Over

(* Even and odd lengths.                                                   *)
LEMMA NextIsOdd ==
  ASSUME NEW n \in Nat, n % 2 = 0
  PROVE  (n + 1) % 2 = 1
OBVIOUS

LEMMA NextIsEven ==
  ASSUME NEW n \in Nat, n % 2 = 1
  PROVE  (n + 1) % 2 = 0
OBVIOUS

LEMMA RoomForTwo ==
  ASSUME NEW n \in Nat, n % 2 = 0, NEW m \in Nat, n < 2 * m
  PROVE  n + 1 < 2 * m
OBVIOUS

(* Room for a verdict.                                                     *)
LEMMA LengthStep == IInv /\ [Next]_vars => LengthInv'
<1> SUFFICES ASSUME IInv, [Next]_vars PROVE LengthInv'
  OBVIOUS
<1> DEFINE OK(t) ==
             /\ pc[t] \notin {"next", "done", "died"} => Len(log[t]) < Room
             /\ pc[t] = "next" => level[t] = "ONE"
             /\ scan = "ScanExpression" => level[t] = "ONE"
             /\ scan = "ScanFile" =>
                  Len(log[t]) % 2 = (IF level[t] = "TWO" THEN 1 ELSE 0)
<1>1. /\ TypeOK /\ scan' = scan /\ Room' = Room /\ Room \in Nat
      /\ \A t \in Scanners : OK(t)
  BY ConfigStays, RoomIsANumber DEF IInv, LengthInv, Room
<1>2. SUFFICES \A t \in Scanners : OK(t)'
  BY DEF LengthInv, Room
<1>3. \A t \in Scanners : Len(log[t]) \in Nat /\ level[t] \in Levels
  BY <1>1 DEF TypeOK
<1>4. ASSUME NEW t \in Scanners, log'[t] = log[t], level'[t] = level[t],
             \/ pc'[t] \in {pc[t], "done", "died"}
             \/ pc[t] \notin {"next", "done", "died"} /\ pc'[t] # "next"
      PROVE  OK(t)'
  BY <1>1, <1>4
<1>5. ASSUME NEW s \in Scanners, Judge(s) PROVE OK(s)'
  <2>1. pc[s] = "judge" /\ Len(log'[s]) = Len(log[s]) + 1
    BY <1>1, <1>5 DEF Judge, TypeOK
  <2>2. /\ level'[s] = NextLevel(s)
        /\ pc'[s] = IF NextLevel(s) = "TWO" THEN "lookUp" ELSE "next"
    BY <1>1, <1>5 DEF Judge, TypeOK, Goto
  <2>3. Len(log[s]) < Room
    BY <1>1, <2>1
  <2>4. MaxBlocks[num_workers] \in Nat
    <3>1. Cardinality(Scanners) \in Nat
      BY BoundsAssumption, FS_CardinalityType
    <3>2. num_workers \in DOMAIN MaxBlocks
      BY <1>1, <3>1, BoundsAssumption DEF TypeOK
    <3> QED  BY <3>2, BoundsAssumption
  <2>5. CASE NextLevel(s) = "TWO"
    <3>1. scan = "ScanFile" /\ level[s] = "ONE"
      BY <2>5 DEF NextLevel
    <3>2. Len(log[s]) % 2 = 0
      BY <1>1, <3>1
    <3>3. Len(log[s]) + 1 < Room /\ (Len(log[s]) + 1) % 2 = 1
      BY <1>3, <2>3, <2>4, <3>2, NextIsOdd, RoomForTwo DEF Room
    <3> QED  BY <1>1, <2>1, <2>2, <2>5, <3>1, <3>3
  <2>6. CASE NextLevel(s) # "TWO"
    <3>1. level'[s] = "ONE" /\ pc'[s] = "next"
      BY <2>2, <2>6 DEF NextLevel
    <3>2. scan = "ScanFile" => level[s] = "TWO"
      BY <1>3, <2>6 DEF NextLevel, Levels
    <3>3. scan = "ScanFile" => Len(log[s]) % 2 = 1
      BY <1>1, <3>2
    <3>4. scan = "ScanFile" => (Len(log[s]) + 1) % 2 = 0
      BY <1>3, <3>3, NextIsEven
    <3> QED  BY <1>1, <2>1, <3>1, <3>4
  <2> QED  BY <2>5, <2>6
<1>6. ASSUME NEW s \in Scanners, NextBlock(s) PROVE OK(s)'
  <2>1. /\ Len(log[s]) < Room /\ log' = log
        /\ level'[s] = "ONE" /\ pc[s] = "next"
    BY <1>1, <1>6 DEF NextBlock, TypeOK, Room
  <2>2. scan = "ScanFile" => Len(log[s]) % 2 = 0
    BY <1>1, <1>3, <2>1
  <2> QED  BY <1>1, <2>1, <2>2
<1>7. ASSUME NEW s \in Scanners, Step(s), ~Judge(s), ~NextBlock(s)
      PROVE  OK(s)'
  <2>1. log' = log /\ level' = level
    BY <1>7
    DEF Step, EndOfFile, LookUp, NodeToStringThrows, CacheHit, CacheMiss,
        Search, SearchFails, CacheInsert, local
  <2>2. \/ pc'[s] \in {"done", "died"}
        \/ pc[s] \notin {"next", "done", "died"} /\ pc'[s] # "next"
    BY <1>1, <1>7
    DEF Step, EndOfFile, LookUp, NodeToStringThrows, CacheHit, CacheMiss,
        Search, SearchFails, CacheInsert, Goto, TypeOK
  <2> QED  BY <1>4, <2>1, <2>2
<1>8. ASSUME NEW s \in Scanners, Step(s), NEW t \in Scanners, t # s
      PROVE  OK(t)'
  BY <1>1, <1>4, <1>8, OthersStay DEF Same
<1>9. CASE UNCHANGED vars
  BY <1>4, <1>9 DEF vars, local
<1>10. ASSUME NEW s \in Scanners, Step(s) PROVE \A t \in Scanners : OK(t)'
  BY <1>5, <1>6, <1>7, <1>8, <1>10
<1> HIDE DEF OK
<1> QED
  BY <1>9, <1>10 DEF Next, Over

-----------------------------------------------------------------------------
(* The cache and the logs.                                                 *)

(* What one scanner inserts is right for whoever finds it, whichever of    *)
(* two insertions of the same expression comes last.                       *)
LEMMA CacheStep == IInv /\ [Next]_vars => CacheIsSound'
<1> SUFFICES ASSUME IInv, [Next]_vars PROVE CacheIsSound'
  OBVIOUS
<1>1. num_workers' = num_workers /\ TypeOK /\ CacheIsSound
  BY ConfigStays DEF IInv
<1>2. CASE UNCHANGED expression_cache
  BY <1>1, <1>2 DEF CacheIsSound
<1>3. ASSUME NEW s \in Scanners, CacheInsert(s) PROVE CacheIsSound'
  <2> DEFINE l == level[s]
             e == Expression(s)
             new == [f \in DOMAIN expression_cache[l] \cup {e} |->
                       IF f = e THEN nearest_expressions[s]
                                ELSE expression_cache[l][f]]
  <2>1. /\ l \in Levels
        /\ ResultsFor(num_workers, l, e, nearest_expressions[s])
    BY <1>1, <1>3 DEF IInv, ScannerInv, CacheInsert, TypeOK
  <2>2. expression_cache' = [expression_cache EXCEPT ![l] = new]
    BY <1>3, Zenon DEF CacheInsert, CacheOf, Kept
  <2>3. \A f \in DOMAIN new : ResultsFor(num_workers, l, f, new[f])
    BY <1>1, <2>1 DEF CacheIsSound
  <2>4. /\ expression_cache'[l] = new
        /\ \A k \in Levels \ {l} : expression_cache'[k] = expression_cache[k]
    BY <1>1, <2>1, <2>2 DEF TypeOK
  <2> HIDE DEF new, l, e
  <2> QED
    BY <1>1, <2>3, <2>4 DEF CacheIsSound
<1> QED
  BY <1>2, <1>3
  DEF Next, Step, NextBlock, EndOfFile, LookUp, NodeToStringThrows, CacheHit,
      CacheMiss, Search, SearchFails, Judge, Over, vars

(* A verdict is written from the results at hand, at the level it names.   *)
LEMMA LogStep == IInv /\ [Next]_vars => LogInv'
<1> SUFFICES ASSUME IInv, [Next]_vars PROVE LogInv'
  OBVIOUS
<1> DEFINE Good(v) ==
             /\ v.block[v.level] \in Expressions
             /\ ResultsFor(num_workers, v.level, v.block[v.level], v.results)
             /\ v.anomaly <=>
                  /\ \/ v.level = "TWO"
                     \/ v.block[v.level] \in DOMAIN Trained[v.level]
                  /\ IsPotentialAnomaly(v.results)
<1>1. /\ num_workers' = num_workers /\ TypeOK
      /\ \A t \in Scanners : \A k \in DOMAIN log[t] : Good(log[t][k])
  BY ConfigStays DEF IInv, LogInv
<1>2. CASE UNCHANGED log
  BY <1>1, <1>2, Zenon DEF IInv, LogInv
<1>3. ASSUME NEW s \in Scanners, Judge(s) PROVE LogInv'
  <2> DEFINE a == MayReport(s) /\ IsPotentialAnomaly(nearest_expressions[s])
             v == [block |-> code_block[s], level |-> level[s],
                   anomaly |-> a, results |-> nearest_expressions[s]]
  <2>1. log' = [log EXCEPT ![s] = Append(log[s], v)]
    BY <1>3, Zenon DEF Judge
  <2>2. /\ Expression(s) \in Expressions
        /\ ResultsFor(num_workers, level[s], Expression(s),
                      nearest_expressions[s])
    BY <1>3 DEF IInv, ScannerInv, Judge
  <2>3. a <=> /\ \/ level[s] = "TWO"
                 \/ Expression(s) \in DOMAIN Trained[level[s]]
              /\ IsPotentialAnomaly(nearest_expressions[s])
    <3>1. level[s] \in {"ONE", "TWO"}
      BY <1>1 DEF TypeOK, Levels
    <3>2. found_in_training_dataset[s]
            <=> Expression(s) \in DOMAIN Trained[level[s]]
      BY <1>3 DEF IInv, ScannerInv, Judge
    <3> QED  BY <3>1, <3>2 DEF MayReport
  <2>4. Good(v)
    <3>1. /\ v.block[v.level] = Expression(s) /\ v.level = level[s]
          /\ v.results = nearest_expressions[s] /\ v.anomaly = a
      BY DEF Expression
    <3> HIDE DEF v, a
    <3> QED  BY <2>2, <2>3, <3>1
  <2> HIDE DEF v, Good
  <2>5. ASSUME NEW t \in Scanners, NEW k \in DOMAIN log'[t]
        PROVE  Good(log'[t][k])
    <3>0. log \in [Scanners -> Seq(Verdict)]
      BY <1>1 DEF TypeOK, Verdict
    <3>1. CASE t # s
      <4>1. log'[t] = log[t]
        BY <2>1, <3>0, <3>1
      <4> QED  BY <1>1, <2>5, <4>1
    <3>2. CASE t = s
      <4>1. log'[s] = Append(log[s], v) /\ log[s] \in Seq(Verdict)
        BY <2>1, <3>0
      <4>2. \/ k \in DOMAIN log[s] /\ log'[s][k] = log[s][k]
            \/ log'[s][k] = v
        BY <2>5, <3>2, <4>1
      <4> QED  BY <1>1, <2>4, <3>2, <4>2
    <3> QED  BY <3>1, <3>2
  <2> QED
    BY <1>1, <2>5 DEF Good, LogInv
<1> QED
  BY <1>2, <1>3
  DEF Next, Step, NextBlock, EndOfFile, LookUp, NodeToStringThrows, CacheHit,
      CacheMiss, Search, SearchFails, CacheInsert, Over, vars

(* The inductive invariant, for any number of scanners and conditions.     *)
THEOREM InvariantCorrect == Spec => []IInv
<1>1. IInv /\ [Next]_vars => IInv'
  BY TypeStep, ScannerStep, LengthStep, CacheStep, LogStep DEF IInv
<1> QED
  BY <1>1, InitIInv, PTL DEF Spec

(* Every variable keeps its type, and no log outgrows its file.            *)
THEOREM TypeCorrect == Spec => []TypeOK
<1>1. IInv => TypeOK
  BY DEF IInv
<1> QED
  BY <1>1, InvariantCorrect, PTL

(* What the shared cache holds was found for that expression at that       *)
(* level, however look-ups, searches and insertions interleave.            *)
THEOREM CacheCorrect == Spec => []CacheIsSound
<1>1. IInv => CacheIsSound
  BY DEF IInv
<1> QED
  BY <1>1, InvariantCorrect, PTL

(* A condition that is reported has a common neighbour in the training     *)
(* set, unless a result read past the end of the paths stands in for it.   *)
THEOREM ReportsCorrect == Spec => []ReportsHaveEvidence
<1>1. IInv => ReportsHaveEvidence
  <2> SUFFICES ASSUME IInv, NEW v \in Verdicts, v.anomaly,
                      StrayIn(v.results) = {}
               PROVE  \E k \in DOMAIN v.results :
                        LET e == v.block[v.level]
                            f == v.results[k].expression
                        IN /\ f \in Near(v.level, e) \ {e}
                           /\ Occurrences(v.level, e) * 100
                                <= anomaly_threshold * Trained[v.level][f]
    BY DEF ReportsHaveEvidence
  <2> DEFINE e == v.block[v.level]
             r == v.results
             l == v.level
  <2>0. PICK s \in Scanners : v \in ToSet(log[s])
    BY DEF Verdicts
  <2>1. PICK i \in DOMAIN log[s] : v = log[s][i]
    BY <2>0 DEF ToSet
  <2>2. /\ e \in Expressions
        /\ ResultsFor(num_workers, l, e, r)
        /\ IsPotentialAnomaly(r)
    BY <2>1 DEF IInv, LogInv
  <2>3. l \in Levels
    <3>1. log[s] \in Seq(Verdict)
      BY DEF IInv, TypeOK, Verdict
    <3>2. v \in Verdict
      BY <2>1, <3>1
    <3> QED  BY <3>2 DEF Verdict
  <2> HIDE DEF e, r, l
  <2>4. \A k \in DOMAIN r :
          /\ r[k].expression \in Near(l, e) \cup {e}
          /\ r[k].cost = Distance[e][r[k].expression]
          /\ r[k].occurrences = Occurrences(l, r[k].expression)
    <3>1. StrayIn(r) = {}
      BY DEF r
    <3> QED  BY <2>2, <3>1 DEF ResultsFor
  <2>5. PICK b \in DOMAIN r :
          /\ r[b].cost = 0
          /\ \E k \in DOMAIN r : r[k].cost # 0
          /\ \A k \in DOMAIN r : r[k].cost # 0 => IsRare(r[b], r[k])
    BY <2>2 DEF IsPotentialAnomaly
  <2>6. PICK k \in DOMAIN r : r[k].cost # 0
    BY <2>5
  <2>7. Near(l, e) \subseteq Expressions /\ Near(l, e) \subseteq DOMAIN Trained[l]
    BY <2>2, <2>3, NearFinite
  <2>8. r[b].expression = e
    BY <2>2, <2>4, <2>5, <2>7, DistanceAssumption
  <2>9. r[k].expression # e
    BY <2>2, <2>4, <2>6, DistanceAssumption
  <2>10. /\ r[k].expression \in Near(l, e) \ {e}
         /\ r[k].occurrences = Trained[l][r[k].expression]
    BY <2>4, <2>7, <2>9 DEF Occurrences
  <2>11. r[b].occurrences = Occurrences(l, e)
    BY <2>4, <2>8
  <2>12. r[b].occurrences * 100 <= anomaly_threshold * r[k].occurrences
    BY <2>5, <2>6 DEF IsRare
  <2> QED
    BY <2>10, <2>11, <2>12 DEF e, r, l
<1> QED
  BY <1>1, InvariantCorrect, PTL

-----------------------------------------------------------------------------
(* The verdicts of a scanner.                                              *)

(* What a step other than a verdict or a new condition keeps of a scanner. *)
LEMMA QuietStep ==
  ASSUME TypeOK, NEW s \in Scanners, Step(s), ~Judge(s), ~NextBlock(s)
  PROVE  /\ log' = log /\ level' = level /\ code_block' = code_block
         /\ \/ pc[s] = "next" /\ pc'[s] = "done"
            \/ pc'[s] \notin {"next", "done"}
BY DEF Step, EndOfFile, LookUp, NodeToStringThrows, CacheHit, CacheMiss, Search,
       SearchFails, CacheInsert, Goto, TypeOK, local

(* A verdict is one more line of its scanner's log, and of no other.       *)
LEMMA VerdictStep ==
  ASSUME TypeOK, NEW s \in Scanners, Judge(s)
  PROVE  /\ code_block' = code_block /\ expression_cache' = expression_cache
         /\ level'[s] = NextLevel(s) /\ pc[s] = "judge"
         /\ pc'[s] = IF NextLevel(s) = "TWO" THEN "lookUp" ELSE "next"
         /\ Len(log[s]) \in Nat /\ Len(log'[s]) = Len(log[s]) + 1
         /\ DOMAIN log'[s] = 1..Len(log[s]) + 1
         /\ \A k \in 1..Len(log[s]) : log'[s][k] = log[s][k]
         /\ log'[s][Len(log[s]) + 1].block = code_block[s]
         /\ log'[s][Len(log[s]) + 1].level = level[s]
<1> DEFINE a == MayReport(s) /\ IsPotentialAnomaly(nearest_expressions[s])
           v == [block |-> code_block[s], level |-> level[s],
                 anomaly |-> a, results |-> nearest_expressions[s]]
<1>1. log' = [log EXCEPT ![s] = Append(log[s], v)]
  BY Zenon DEF Judge
<1>2. v.block = code_block[s] /\ v.level = level[s]
  OBVIOUS
<1>3. log \in [Scanners -> Seq(Verdict)]
  BY DEF TypeOK, Verdict
<1> HIDE DEF v
<1>4. log'[s] = Append(log[s], v) /\ log[s] \in Seq(Verdict)
  BY <1>1, <1>3
<1>5. /\ Len(log[s]) \in Nat /\ Len(log'[s]) = Len(log[s]) + 1
      /\ DOMAIN log'[s] = 1..Len(log[s]) + 1
      /\ \A k \in 1..Len(log[s]) : log'[s][k] = log[s][k]
      /\ log'[s][Len(log[s]) + 1] = v
  BY <1>4
<1>6. /\ level'[s] = NextLevel(s) /\ pc[s] = "judge"
      /\ pc'[s] = IF NextLevel(s) = "TWO" THEN "lookUp" ELSE "next"
      /\ code_block' = code_block /\ expression_cache' = expression_cache
  BY DEF Judge, TypeOK, Goto
<1> QED  BY <1>2, <1>5, <1>6

(* PairsInv for a scanner.                                                 *)
PairsOK(t) ==
  /\ scan = "ScanFile" =>
       /\ \A k \in DOMAIN log[t] :
            /\ log[t][k].level = (IF k % 2 = 1 THEN "ONE" ELSE "TWO")
            /\ k % 2 = 0 => log[t][k].block = log[t][k - 1].block
       /\ pc[t] \in {"next", "done"} => Len(log[t]) % 2 = 0
  /\ level[t] = "TWO" =>
       /\ Len(log[t]) > 0 /\ log[t][Len(log[t])].block = code_block[t]
       /\ pc[t] \notin {"next", "done"}

LEMMA InitPairs == Init => PairsInv
<1> SUFFICES ASSUME Init, NEW t \in Scanners PROVE PairsOK(t)
  BY DEF PairsInv, VerdictsComeInPairs, PairsOK
<1>1. log[t] = << >> /\ level[t] = "ONE"
  BY DEF Init
<1> QED  BY <1>1 DEF PairsOK

LEMMA EvenOrOdd ==
  ASSUME NEW n \in Nat
  PROVE  (n % 2 = 0 /\ (n + 1) % 2 = 1) \/ (n % 2 = 1 /\ (n + 1) % 2 = 0)
OBVIOUS

LEMMA PairsStep == IInv /\ PairsInv /\ [Next]_vars => PairsInv'
<1> SUFFICES ASSUME IInv, PairsInv, [Next]_vars PROVE PairsInv'
  OBVIOUS
<1>1. /\ TypeOK /\ scan' = scan /\ \A t \in Scanners : PairsOK(t)
  BY ConfigStays DEF IInv, PairsInv, VerdictsComeInPairs, PairsOK
<1>2. SUFFICES \A t \in Scanners : PairsOK(t)'
  BY DEF PairsInv, VerdictsComeInPairs, PairsOK
<1>3. \A t \in Scanners :
        /\ level[t] \in {"ONE", "TWO"} /\ Len(log[t]) \in Nat
        /\ DOMAIN log[t] = 1..Len(log[t])
  BY <1>1 DEF TypeOK, Levels
<1>4. \A t \in Scanners :
        scan = "ScanFile" => Len(log[t]) % 2 = (IF level[t] = "TWO" THEN 1 ELSE 0)
  BY DEF IInv, LengthInv
<1>5. ASSUME NEW t \in Scanners,
             log'[t] = log[t] /\ level'[t] = level[t],
             code_block'[t] = code_block[t],
             \/ pc'[t] = pc[t]
             \/ pc[t] = "next" /\ pc'[t] = "done"
             \/ pc'[t] \notin {"next", "done"}
      PROVE  PairsOK(t)'
  <2>1. PairsOK(t)
    BY <1>1
  <2>2. ASSUME scan = "ScanFile", NEW k \in DOMAIN log[t]
        PROVE  /\ log'[t][k].level = (IF k % 2 = 1 THEN "ONE" ELSE "TWO")
               /\ k % 2 = 0 => log'[t][k].block = log'[t][k - 1].block
    BY <1>5, <2>1, <2>2 DEF PairsOK
  <2>3. ASSUME scan = "ScanFile", pc'[t] \in {"next", "done"}
        PROVE  Len(log'[t]) % 2 = 0
    <3>1. pc[t] \in {"next", "done"}
      BY <1>5, <2>3
    <3> QED  BY <1>5, <2>1, <2>3, <3>1 DEF PairsOK
  <2>4. ASSUME level'[t] = "TWO"
        PROVE  /\ Len(log'[t]) > 0 /\ log'[t][Len(log'[t])].block = code_block'[t]
               /\ pc'[t] \notin {"next", "done"}
    BY <1>5, <2>1, <2>4 DEF PairsOK
  <2>5. scan' = scan /\ log'[t] = log[t]
    BY <1>1, <1>5
  <2> QED  BY <2>2, <2>3, <2>4, <2>5 DEF PairsOK
<1>6. ASSUME NEW s \in Scanners, NextBlock(s) PROVE PairsOK(s)'
  <2>1. log' = log /\ level'[s] = "ONE" /\ pc'[s] = "lookUp"
    BY <1>1, <1>6 DEF NextBlock, Goto, TypeOK
  <2> QED  BY <1>1, <2>1 DEF PairsOK
<1>7. ASSUME NEW s \in Scanners, Judge(s) PROVE PairsOK(s)'
  <2> DEFINE n == Len(log[s])
  <2>1. /\ n \in Nat /\ Len(log'[s]) = n + 1 /\ DOMAIN log'[s] = 1..n + 1
        /\ \A k \in 1..n : log'[s][k] = log[s][k]
        /\ log'[s][n + 1].block = code_block[s]
        /\ log'[s][n + 1].level = level[s]
        /\ code_block'[s] = code_block[s] /\ level'[s] = NextLevel(s)
        /\ pc'[s] = IF NextLevel(s) = "TWO" THEN "lookUp" ELSE "next"
    BY <1>1, <1>7, VerdictStep
  <2>2. scan = "ScanFile" => n % 2 = (IF level[s] = "TWO" THEN 1 ELSE 0)
    BY <1>4
  <2>3. \/ n % 2 = 0 /\ (n + 1) % 2 = 1
        \/ n % 2 = 1 /\ (n + 1) % 2 = 0
    BY <2>1, EvenOrOdd
  <2>4. level[s] = "TWO" => n > 0 /\ log[s][n].block = code_block[s]
    BY <1>1 DEF PairsOK
  <2> HIDE DEF n
  <2>5. ASSUME scan = "ScanFile", NEW k \in 1..n + 1
        PROVE  /\ log'[s][k].level = (IF k % 2 = 1 THEN "ONE" ELSE "TWO")
               /\ k % 2 = 0 => log'[s][k].block = log'[s][k - 1].block
    <3>1. CASE k \in 1..n
      <4>1. /\ log[s][k].level = (IF k % 2 = 1 THEN "ONE" ELSE "TWO")
            /\ k % 2 = 0 => log[s][k].block = log[s][k - 1].block
        BY <1>1, <1>3, <2>5, <3>1 DEF PairsOK, n
      <4>2. k % 2 = 0 => k - 1 \in 1..n
        BY <2>1, <3>1
      <4> QED  BY <2>1, <3>1, <4>1, <4>2
    <3>2. CASE k = n + 1
      <4>1. log'[s][k].level = (IF k % 2 = 1 THEN "ONE" ELSE "TWO")
        BY <1>3, <2>1, <2>2, <2>3, <2>5, <3>2
      <4>2. ASSUME k % 2 = 0 PROVE log'[s][k].block = log'[s][k - 1].block
        <5>1. level[s] = "TWO"
          BY <2>2, <2>3, <2>5, <3>2, <4>2
        <5>2. n \in 1..n /\ k - 1 = n /\ log[s][n].block = code_block[s]
          BY <2>1, <2>4, <3>2, <5>1
        <5> QED  BY <2>1, <3>2, <5>2
      <4> QED  BY <4>1, <4>2
    <3> QED  BY <2>1, <2>5, <3>1, <3>2
  <2>6. CASE NextLevel(s) = "TWO"
    <3>1. n + 1 > 0 /\ pc'[s] = "lookUp"
      BY <2>1, <2>6
    <3> QED  BY <1>1, <2>1, <2>5, <2>6, <3>1 DEF PairsOK
  <2>7. CASE NextLevel(s) # "TWO"
    <3>1. level'[s] = "ONE" /\ pc'[s] = "next"
      BY <2>1, <2>7 DEF NextLevel
    <3>2. scan = "ScanFile" => level[s] = "TWO"
      BY <1>3, <2>7 DEF NextLevel
    <3>3. scan = "ScanFile" => (n + 1) % 2 = 0
      BY <2>2, <2>3, <3>2
    <3> QED  BY <1>1, <2>1, <2>5, <3>1, <3>3 DEF PairsOK
  <2> QED  BY <2>6, <2>7
<1>8. ASSUME NEW s \in Scanners, Step(s) PROVE \A t \in Scanners : PairsOK(t)'
  <2>1. ASSUME NEW t \in Scanners, t # s PROVE PairsOK(t)'
    <3>1. log'[t] = log[t]
          /\ (Same(t) \/ (pc'[t] = "died" /\ level'[t] = level[t]))
      BY <1>1, <1>8, <2>1, OthersStay
    <3>2. code_block'[t] = code_block[t]
      BY <1>1, <1>8, <2>1
      DEF Step, NextBlock, EndOfFile, LookUp, NodeToStringThrows, CacheHit,
          CacheMiss, Search, SearchFails, CacheInsert, Judge, local, TypeOK
    <3> QED  BY <1>5, <3>1, <3>2 DEF Same
  <2>2. CASE ~Judge(s) /\ ~NextBlock(s)
    BY <1>1, <1>5, <1>8, <2>1, <2>2, QuietStep
  <2> QED  BY <1>6, <1>7, <2>1, <2>2
<1>9. CASE UNCHANGED vars
  BY <1>5, <1>9 DEF vars, local
<1> QED
  BY <1>8, <1>9 DEF Next, Over

(* For any number of scanners and conditions, whatever dies when: a        *)
(* condition of a file is judged at both levels, in a row, and only the    *)
(* last one of a log can have been left in between, by an abort.           *)
THEOREM PairsCorrect == Spec => []VerdictsComeInPairs
<1>1. PairsInv => VerdictsComeInPairs
  BY DEF PairsInv
<1> QED
  BY <1>1, InitPairs, PairsStep, InvariantCorrect, PTL DEF Spec

-----------------------------------------------------------------------------
(* The statistics.                                                         *)

Working == {"search", "insert", "judge"}
Active == {s \in Scanners : pc[s] # "done"}
Alive == \A s \in Scanners : pc[s] # "died"

(* Every set that is counted is finite.                                    *)
LEMMA CountedSetsAreFinite ==
  ASSUME TypeOK, NEW l \in Levels
  PROVE  /\ \A labels : IsFiniteSet(Busy(l, labels))
         /\ IsFiniteSet(First(l)) /\ First(l) \subseteq Active
         /\ IsFiniteSet(Active)
         /\ IsFiniteSet(Asked(l))
         /\ IsFiniteSet(Judged(l))
<1>1. \A S \in SUBSET Scanners : IsFiniteSet(S)
  BY BoundsAssumption, FS_Subset
<1>2. \A labels : Busy(l, labels) \in SUBSET Scanners
  BY DEF Busy
<1>3. First(l) \in SUBSET Scanners /\ First(l) \subseteq Active
  BY DEF First, Busy, Active
<1>4. Active \in SUBSET Scanners
  BY DEF Active
<1>5. IsFiniteSet(Asked(l))
  <2> DEFINE S == Busy(l, {"search", "insert"})
             m == [s \in S |-> Expression(s)]
  <2>1. m \in Surjection(S, Asked(l))
    BY Zenon DEF Surjection, Asked
  <2>2. IsFiniteSet(S)
    BY <1>1, <1>2
  <2> HIDE DEF S, m
  <2> QED  BY <2>1, <2>2, FS_Surjection, Zenon
<1>6. IsFiniteSet(Judged(l))
  <2>1. ASSUME NEW s \in Scanners PROVE IsFiniteSet(JudgedBy(s, l))
    <3> DEFINE K == {k \in DOMAIN log[s] : log[s][k].level = l}
    <3>1. Len(log[s]) \in Nat /\ DOMAIN log[s] = 1..Len(log[s])
      BY DEF TypeOK
    <3>2. K \in SUBSET (1..Len(log[s])) /\ IsFiniteSet(1..Len(log[s]))
      BY <3>1, FS_Interval
    <3> HIDE DEF K
    <3>3. IsFiniteSet(K) /\ IsFiniteSet({s})
      BY <3>2, FS_Subset, FS_Singleton, Zenon
    <3>4. IsFiniteSet({s} \X K)
      BY <3>3, FS_Product, Zenon
    <3> QED  BY <3>4 DEF JudgedBy, K
  <2> DEFINE U == {JudgedBy(s, l) : s \in Scanners}
             m == [s \in Scanners |-> JudgedBy(s, l)]
  <2>2. m \in Surjection(Scanners, U)
    BY Zenon DEF Surjection
  <2>3. \A T \in U : IsFiniteSet(T)
    BY <2>1
  <2>4. Judged(l) = UNION U
    BY DEF Judged
  <2> HIDE DEF U, m
  <2>5. IsFiniteSet(U)
    BY <2>2, BoundsAssumption, FS_Surjection, Zenon
  <2> QED  BY <2>3, <2>4, <2>5, FS_UNION, Zenon
<1> QED  BY <1>1, <1>2, <1>3, <1>4, <1>5, <1>6

(* The pairs of a scanner and the place of a verdict of it.                *)
LEMMA JudgedIs ==
  ASSUME NEW l, NEW x
  PROVE  x \in Judged(l) <=>
           \E s \in Scanners : \E k \in DOMAIN log[s] :
             x = <<s, k>> /\ log[s][k].level = l
BY DEF Judged, JudgedBy

(* Who else is at work stays at work, on the same expression.              *)
LEMMA OthersStayBusy ==
  ASSUME TypeOK, NEW s \in Scanners, Step(s), Alive'
  PROVE  /\ Alive
         /\ \A t \in Scanners \ {s} : Same(t) /\ log'[t] = log[t]
<1>1. \A t \in Scanners \ {s} : Same(t) /\ log'[t] = log[t]
  BY OthersStay DEF Alive
<1>2. pc[s] # "died"
  BY DEF Step, NextBlock, EndOfFile, LookUp, NodeToStringThrows, CacheHit,
         CacheMiss, Search, SearchFails, CacheInsert, Judge
<1> QED  BY <1>1, <1>2 DEF Same, Alive

Cached(l) == DOMAIN expression_cache[l]

(* StatisticsInv for a level.                                              *)
CountsOK(l) ==
  /\ miss_[l] <= num_workers * Cardinality(Cached(l)) + Cardinality(First(l))
  /\ miss_[l] >= Cardinality(Cached(l) \cup Asked(l))
  /\ hit_[l] + miss_[l] = Cardinality(Judged(l)) + Cardinality(Busy(l, Working))

LEMMA CountsAre ==
  StatisticsInv <=>
    /\ \A l \in Levels : IsFiniteSet(Cached(l))
    /\ Alive => Cardinality(Active) <= num_workers /\ \A l \in Levels : CountsOK(l)
BY DEF StatisticsInv, Cached, Alive, Active, CountsOK, Working

(* A step that moves a scanner neither into nor out of the labels at work, *)
(* and writes nothing down.                                                *)
LEMMA IdleStepKeepsCounts ==
  ASSUME TypeOK, NEW s \in Scanners, NEW l \in Levels,
         \A t \in Scanners \ {s} : Same(t),
         pc[s] \notin Working, pc'[s] \notin Working,
         expression_cache' = expression_cache, log' = log,
         hit_' = hit_, miss_' = miss_, num_workers' = num_workers,
         CountsOK(l)
  PROVE  CountsOK(l)'
<1>1. ASSUME NEW labels \in SUBSET Working
      PROVE  Busy(l, labels)' = Busy(l, labels)
  BY DEF Same, Busy, Working
<1>2. Busy(l, {"search", "insert"})' = Busy(l, {"search", "insert"})
  <2>1. {"search", "insert"} \in SUBSET Working
    BY DEF Working
  <2> QED  BY <1>1, <2>1
<1>3. \A t \in Busy(l, {"search", "insert"}) : Expression(t)' = Expression(t)
  BY DEF Busy, Same, Expression, Working
<1>4. Asked(l)' = Asked(l) /\ First(l)' = First(l) /\ Cached(l)' = Cached(l)
  BY <1>2, <1>3 DEF Asked, First, Cached
<1>5. Judged(l)' = Judged(l)
  BY DEF Judged, JudgedBy
<1> QED
  BY <1>1, <1>4, <1>5 DEF CountsOK, Working

(* A step moves at most its own scanner in or out.                         *)
LEMMA BusyAfter ==
  ASSUME TypeOK, NEW s \in Scanners, NEW l \in Levels,
         NEW labels \in SUBSET Working,
         \A t \in Scanners \ {s} : Same(t)
  PROVE  Busy(l, labels)' = IF pc'[s] \in labels /\ level'[s] = l
                              THEN Busy(l, labels) \cup {s}
                              ELSE Busy(l, labels) \ {s}
BY DEF Same, Busy, Working

LEMMA SearchingIsWorking ==
  {"search", "insert"} \in SUBSET Working /\ Working \in SUBSET Working
BY DEF Working

LEMMA MissKeepsCounts ==
  ASSUME TypeOK, NEW s \in Scanners, CacheMiss(s), NEW l \in Levels,
         \A t \in Scanners \ {s} : Same(t), num_workers' = num_workers,
         IsFiniteSet(Cached(l)), CountsOK(l)
  PROVE  CountsOK(l)'
<1> DEFINE S == {"search", "insert"}
<1>1. /\ pc[s] = "cache" /\ pc'[s] = "search" /\ level' = level
      /\ code_block' = code_block /\ expression_cache' = expression_cache
      /\ hit_' = hit_ /\ log' = log
      /\ miss_' = [miss_ EXCEPT ![level[s]] = @ + 1]
      /\ Expression(s) \notin Cached(level[s])
  BY DEF CacheMiss, local, Goto, TypeOK, Cached, CacheOf
<1>2. level[s] \in Levels /\ miss_ \in [Levels -> Nat] /\ hit_ \in [Levels -> Nat]
  BY DEF TypeOK
<1>3. CASE level[s] # l
  <2>1. /\ Busy(l, S)' = Busy(l, S) /\ Busy(l, Working)' = Busy(l, Working)
    <3>1. s \notin Busy(l, S) /\ s \notin Busy(l, Working)
      BY <1>3 DEF Busy
    <3> QED  BY <1>1, <1>3, <3>1, BusyAfter, SearchingIsWorking
  <2>2. \A t \in Scanners : Expression(t)' = Expression(t)
    BY <1>1 DEF Expression
  <2>3. Asked(l)' = Asked(l) /\ First(l)' = First(l) /\ Cached(l)' = Cached(l)
    BY <1>1, <2>1, <2>2 DEF Asked, First, Cached, Busy
  <2>4. Judged(l)' = Judged(l)
    BY <1>1 DEF Judged, JudgedBy
  <2>5. miss_'[l] = miss_[l]
    BY <1>1, <1>2, <1>3
  <2> QED  BY <1>1, <2>1, <2>3, <2>4, <2>5 DEF CountsOK
<1>4. CASE level[s] = l
  <2> DEFINE e == Expression(s)
  <2>1. /\ Busy(l, S)' = Busy(l, S) \cup {s} /\ s \notin Busy(l, S)
        /\ Busy(l, Working)' = Busy(l, Working) \cup {s}
        /\ s \notin Busy(l, Working)
    <3>1. s \notin Busy(l, S) /\ s \notin Busy(l, Working)
      BY <1>1 DEF Busy, Working
    <3>2. pc'[s] \in S /\ pc'[s] \in Working /\ level'[s] = l
      BY <1>1, <1>4 DEF Working
    <3> QED  BY <3>1, <3>2, BusyAfter, SearchingIsWorking
  <2>2. \A t \in Scanners : Expression(t)' = Expression(t)
    BY <1>1 DEF Expression
  <2>3. /\ Asked(l)' = Asked(l) \cup {e} /\ Cached(l)' = Cached(l)
        /\ First(l)' = First(l) \cup {s} /\ s \notin First(l)
    <3>1. Asked(l)' = Asked(l) \cup {e}
      BY <2>1, <2>2 DEF Asked, Busy
    <3>2. First(l)' = First(l) \cup {s}
      <4>1. Busy(l, S) \subseteq Scanners /\ DOMAIN expression_cache'[l] = Cached(l)
        BY <1>1 DEF Busy, Cached
      <4>2. First(l)' = {t \in Busy(l, S) \cup {s} : Expression(t) \notin Cached(l)}
        BY <2>1, <2>2, <4>1, Zenon DEF First
      <4>3. First(l) = {t \in Busy(l, S) : Expression(t) \notin Cached(l)}
        BY Zenon DEF First, Cached
      <4> QED  BY <1>1, <1>4, <4>2, <4>3
    <3> QED  BY <1>1, <2>1, <3>1, <3>2 DEF First, Cached
  <2>4. Judged(l)' = Judged(l)
    BY <1>1 DEF Judged, JudgedBy
  <2>5. miss_'[l] = miss_[l] + 1
    BY <1>1, <1>2, <1>4
  <2>6. Cardinality(First(l)') = Cardinality(First(l)) + 1
    BY <2>3, CountedSetsAreFinite, FS_AddElement
  <2>7. /\ Cardinality((Cached(l) \cup Asked(l))')
             <= Cardinality(Cached(l) \cup Asked(l)) + 1
        /\ Cardinality(Cached(l) \cup Asked(l)) \in Nat
        /\ Cardinality((Cached(l) \cup Asked(l))') \in Nat
    <3>1. IsFiniteSet(Cached(l) \cup Asked(l))
      BY CountedSetsAreFinite, FS_Union, Zenon
    <3>2. (Cached(l) \cup Asked(l))' = (Cached(l) \cup Asked(l)) \cup {e}
      BY <2>3
    <3> DEFINE U == Cached(l) \cup Asked(l)
    <3> HIDE DEF e, U
    <3>3. /\ IsFiniteSet(U \cup {e}) /\ Cardinality(U) \in Nat
          /\ Cardinality(U \cup {e})
               = IF e \in U THEN Cardinality(U) ELSE Cardinality(U) + 1
      BY <3>1, FS_AddElement, FS_CardinalityType DEF U
    <3>4. Cardinality(U \cup {e}) \in Nat
      BY <3>3, FS_CardinalityType
    <3> QED
      <4>1. (Cached(l) \cup Asked(l))' = U \cup {e}
        BY <3>2 DEF U
      <4>2. Cardinality((Cached(l) \cup Asked(l))') = Cardinality(U \cup {e})
        BY <4>1, Zenon
      <4>3. Cardinality(Cached(l) \cup Asked(l)) = Cardinality(U)
        BY Zenon DEF U
      <4>4. Cardinality(U \cup {e}) <= Cardinality(U) + 1
        BY <3>3
      <4> QED  BY <3>3, <3>4, <4>2, <4>3, <4>4, Zenon
  <2>8. Cardinality(Busy(l, Working)') = Cardinality(Busy(l, Working)) + 1
    BY <2>1, CountedSetsAreFinite, FS_AddElement
  <2>9. /\ Cardinality(Cached(l)) \in Nat /\ Cardinality(First(l)) \in Nat
        /\ Cardinality(Judged(l)) \in Nat
        /\ Cardinality(Busy(l, Working)) \in Nat /\ num_workers \in Nat
    BY CountedSetsAreFinite, FS_CardinalityType, WorkersAreANumber
  <2> DEFINE C == num_workers * Cardinality(Cached(l))
  <2>10. C \in Nat /\ C' = C
    BY <2>3, <2>9
  <2>11. miss_'[l] <= C' + Cardinality(First(l)')
    <3>1. miss_[l] <= C + Cardinality(First(l))
      BY DEF CountsOK
    <3> HIDE DEF C
    <3> QED  BY <1>2, <2>5, <2>6, <2>9, <2>10, <3>1
  <2>12. /\ miss_'[l] >= Cardinality((Cached(l) \cup Asked(l))')
         /\ hit_'[l] + miss_'[l]
              = Cardinality(Judged(l)') + Cardinality(Busy(l, Working)')
    BY <1>1, <1>2, <2>4, <2>5, <2>7, <2>8, <2>9 DEF CountsOK
  <2> QED  BY <2>11, <2>12 DEF CountsOK
<1> QED  BY <1>3, <1>4

LEMMA HitKeepsCounts ==
  ASSUME TypeOK, NEW s \in Scanners, CacheHit(s), NEW l \in Levels,
         \A t \in Scanners \ {s} : Same(t), num_workers' = num_workers,
         CountsOK(l)
  PROVE  CountsOK(l)'
<1> DEFINE S == {"search", "insert"}
<1>1. /\ pc[s] = "cache" /\ pc'[s] = "judge" /\ level' = level
      /\ code_block' = code_block /\ expression_cache' = expression_cache
      /\ miss_' = miss_ /\ log' = log
      /\ hit_' = [hit_ EXCEPT ![level[s]] = @ + 1]
  BY DEF CacheHit, Goto, TypeOK
<1>2. level[s] \in Levels /\ miss_ \in [Levels -> Nat] /\ hit_ \in [Levels -> Nat]
  BY DEF TypeOK
<1>3. s \notin Busy(l, S) /\ s \notin Busy(l, Working)
  BY <1>1 DEF Busy, Working
<1>4. /\ Busy(l, S)' = Busy(l, S)
      /\ Busy(l, Working)' = IF level[s] = l THEN Busy(l, Working) \cup {s}
                                             ELSE Busy(l, Working)
  <2>1. pc'[s] \notin S /\ pc'[s] \in Working
    BY <1>1 DEF Working
  <2> QED  BY <1>1, <1>3, <2>1, BusyAfter, SearchingIsWorking
<1>5. \A t \in Scanners : Expression(t)' = Expression(t)
  BY <1>1 DEF Expression
<1>6. Asked(l)' = Asked(l) /\ First(l)' = First(l) /\ Cached(l)' = Cached(l)
  BY <1>1, <1>4, <1>5 DEF Asked, First, Cached, Busy
<1>7. Judged(l)' = Judged(l)
  BY <1>1 DEF Judged, JudgedBy
<1>8. Cardinality(Busy(l, Working)')
        = Cardinality(Busy(l, Working)) + (IF level[s] = l THEN 1 ELSE 0)
  <2>1. /\ IsFiniteSet(Busy(l, Working))
        /\ Cardinality(Busy(l, Working)) \in Nat
    BY CountedSetsAreFinite, FS_CardinalityType
  <2>2. Cardinality(Busy(l, Working) \cup {s}) = Cardinality(Busy(l, Working)) + 1
    BY <1>3, <2>1, FS_AddElement
  <2> QED  BY <1>4, <2>1, <2>2
<1>9. hit_'[l] = hit_[l] + (IF level[s] = l THEN 1 ELSE 0)
  BY <1>1, <1>2
<1>10. /\ Cardinality(Judged(l)) \in Nat
       /\ Cardinality(Busy(l, Working)) \in Nat
  BY CountedSetsAreFinite, FS_CardinalityType
<1>11. hit_'[l] + miss_'[l]
         = Cardinality(Judged(l)') + Cardinality(Busy(l, Working)')
  BY <1>1, <1>2, <1>7, <1>8, <1>9, <1>10 DEF CountsOK
<1> QED  BY <1>1, <1>6, <1>11 DEF CountsOK

LEMMA SearchKeepsCounts ==
  ASSUME TypeOK, NEW s \in Scanners, Search(s), NEW l \in Levels,
         \A t \in Scanners \ {s} : Same(t), num_workers' = num_workers,
         CountsOK(l)
  PROVE  CountsOK(l)'
<1> DEFINE S == {"search", "insert"}
<1>1. /\ pc[s] = "search" /\ pc'[s] = "insert" /\ level' = level
      /\ code_block' = code_block /\ expression_cache' = expression_cache
      /\ miss_' = miss_ /\ hit_' = hit_ /\ log' = log
  BY DEF Search, Goto, TypeOK, statistics
<1>2. /\ Busy(l, S)' = Busy(l, S) /\ Busy(l, Working)' = Busy(l, Working)
  <2>1. /\ s \in Busy(l, S) <=> level[s] = l
        /\ s \in Busy(l, Working) <=> level[s] = l
    BY <1>1 DEF Busy, Working
  <2>2. pc'[s] \in S /\ pc'[s] \in Working
    BY <1>1 DEF Working
  <2> QED  BY <1>1, <2>1, <2>2, BusyAfter, SearchingIsWorking
<1>3. \A t \in Scanners : Expression(t)' = Expression(t)
  BY <1>1 DEF Expression
<1>4. Asked(l)' = Asked(l) /\ First(l)' = First(l) /\ Cached(l)' = Cached(l)
  BY <1>1, <1>2, <1>3 DEF Asked, First, Cached, Busy
<1>5. Judged(l)' = Judged(l)
  BY <1>1 DEF Judged, JudgedBy
<1> QED  BY <1>1, <1>2, <1>4, <1>5 DEF CountsOK

(* An insertion adds its expression to the cache of its level.             *)
LEMMA CachedAfter ==
  ASSUME TypeOK, NEW s \in Scanners, CacheInsert(s), NEW l \in Levels
  PROVE  Cached(l)' = IF level[s] = l THEN Cached(l) \cup {Expression(s)}
                                     ELSE Cached(l)
<1> DEFINE e == Expression(s)
           new == [f \in DOMAIN expression_cache[level[s]] \cup {e} |->
                     IF f = e THEN nearest_expressions[s]
                              ELSE expression_cache[level[s]][f]]
<1>1. expression_cache' = [expression_cache EXCEPT ![level[s]] = new]
  BY Zenon DEF CacheInsert, CacheOf, Kept
<1>2. DOMAIN new = Cached(level[s]) \cup {e}
  BY DEF Cached
<1>3. level[s] \in Levels /\ DOMAIN expression_cache = Levels
  BY DEF TypeOK
<1> HIDE DEF new
<1> QED  BY <1>1, <1>2, <1>3 DEF Cached

LEMMA InsertKeepsCounts ==
  ASSUME TypeOK, NEW s \in Scanners, CacheInsert(s), NEW l \in Levels,
         \A t \in Scanners \ {s} : Same(t), num_workers' = num_workers,
         Cardinality(Active) <= num_workers,
         IsFiniteSet(Cached(l)), CountsOK(l)
  PROVE  IsFiniteSet(Cached(l)') /\ CountsOK(l)'
<1> DEFINE S == {"search", "insert"}
           e == Expression(s)
<1>1. /\ pc[s] = "insert" /\ pc'[s] = "judge" /\ level' = level
      /\ code_block' = code_block /\ hit_' = hit_ /\ log' = log
      /\ miss_' = miss_
  BY DEF CacheInsert, local, statistics, Goto, TypeOK
<1>2. /\ level[s] \in Levels /\ DOMAIN expression_cache = Levels
      /\ miss_[l] \in Nat /\ hit_[l] \in Nat
  BY DEF TypeOK
<1>3. Cached(l)' = IF level[s] = l THEN Cached(l) \cup {e} ELSE Cached(l)
  BY CachedAfter
<1>4. Judged(l)' = Judged(l)
  BY <1>1 DEF Judged, JudgedBy
<1>5. /\ Busy(l, S)' = Busy(l, S) \ {s}
      /\ Busy(l, Working)' = Busy(l, Working)
  <2>1. /\ s \in Busy(l, S) <=> level[s] = l
        /\ s \in Busy(l, Working) <=> level[s] = l
    BY <1>1 DEF Busy, Working
  <2>2. pc'[s] \notin S /\ pc'[s] \in Working
    BY <1>1 DEF Working
  <2> QED  BY <1>1, <2>1, <2>2, BusyAfter, SearchingIsWorking
<1>6. \A t \in Scanners : Expression(t)' = Expression(t)
  BY <1>1 DEF Expression
<1>7. s \in Busy(l, S) <=> level[s] = l
  BY <1>1 DEF Busy
<1>8. Asked(l) = {Expression(t) : t \in Busy(l, S)}
  BY DEF Asked
<1>9. Asked(l)' = {Expression(t) : t \in Busy(l, S) \ {s}}
  BY <1>5, <1>6 DEF Asked, Busy
<1>10. (Cached(l) \cup Asked(l))' \subseteq Cached(l) \cup Asked(l)
  BY <1>3, <1>7, <1>8, <1>9
<1>11. /\ IsFiniteSet(Cached(l) \cup Asked(l))
       /\ IsFiniteSet(Cached(l)')
       /\ Cardinality(Cached(l)')
            = IF level[s] = l /\ e \notin Cached(l)
                THEN Cardinality(Cached(l)) + 1 ELSE Cardinality(Cached(l))
       /\ Cardinality(Cached(l)) \in Nat
  <2>1. /\ IsFiniteSet(Cached(l) \cup {e})
        /\ Cardinality(Cached(l) \cup {e})
             = IF e \in Cached(l) THEN Cardinality(Cached(l))
                                  ELSE Cardinality(Cached(l)) + 1
    <3> HIDE DEF e
    <3> QED  BY FS_AddElement
  <2>2. IsFiniteSet(Cached(l) \cup Asked(l))
    BY CountedSetsAreFinite, FS_Union, Zenon
  <2>3. Cardinality(Cached(l)) \in Nat
    BY FS_CardinalityType
  <2> HIDE DEF e
  <2> QED  BY <1>3, <2>1, <2>2, <2>3
(* The misses cover what is cached or searched for: there is no more.      *)
<1>12. miss_'[l] >= Cardinality((Cached(l) \cup Asked(l))')
  <2> DEFINE U == Cached(l) \cup Asked(l)
             V == (Cached(l) \cup Asked(l))'
  <2>1. V \in SUBSET U /\ IsFiniteSet(U)
    BY <1>10, <1>11, Zenon
  <2>2. miss_[l] >= Cardinality(U)
    BY DEF CountsOK
  <2> HIDE DEF U, V
  <2>3. /\ Cardinality(V) <= Cardinality(U)
        /\ Cardinality(V) \in Nat /\ Cardinality(U) \in Nat
    BY <2>1, FS_Subset, FS_CardinalityType
  <2>4. miss_'[l] >= Cardinality(V)
    BY <1>1, <1>2, <2>2, <2>3
  <2> QED  BY <2>4, Zenon DEF V
(* An expression that is new in the cache pays for all who search for it.  *)
<1>13. miss_'[l] <= num_workers * Cardinality(Cached(l)')
                      + Cardinality(First(l)')
  <2> DEFINE c == Cardinality(Cached(l))
             c2 == Cardinality(Cached(l)')
             f == Cardinality(First(l))
             f2 == Cardinality(First(l)')
  <2>1. First(l)' \subseteq First(l)
    BY <1>3, <1>5, <1>6 DEF First, Cached, Busy
  <2>2. /\ First(l)' \in SUBSET First(l) /\ First(l) \in SUBSET Active
        /\ IsFiniteSet(First(l)) /\ IsFiniteSet(Active)
    BY <2>1, CountedSetsAreFinite
  <2>3. /\ IsFiniteSet(First(l)') /\ Cardinality(First(l)) <= Cardinality(Active)
    BY <2>2, FS_Subset, Zenon
  <2>4. /\ f2 \in Nat /\ f \in Nat /\ f <= num_workers
        /\ c \in Nat /\ num_workers \in Nat
    BY <1>11, <2>2, <2>3, FS_CardinalityType, WorkersAreANumber
  <2>5. miss_[l] <= num_workers * c + f
    BY DEF CountsOK
  <2>6. CASE level[s] = l /\ e \notin Cached(l)
    <3>1. c2 = c + 1
      BY <1>11, <2>6
    <3> HIDE DEF c, c2, f, f2
    <3>2. num_workers * c2 = num_workers * c + num_workers
      BY <2>4, <3>1
    <3>3. num_workers * c \in Nat
      BY <2>4
    <3>4. miss_[l] <= num_workers * c2 + f2
      BY <1>2, <2>4, <2>5, <3>2, <3>3
    <3> QED  BY <1>1, <3>4 DEF c2, f2
  <2>7. CASE ~(level[s] = l /\ e \notin Cached(l))
    <3>1. c2 = c /\ Cached(l)' = Cached(l)
      BY <1>3, <1>11, <2>7
    <3>2. s \notin First(l)
      BY <2>7 DEF First, Busy, Cached
    <3>3. First(l)' = First(l)
      <4>1. \A t \in Busy(l, S) : t \in Scanners
        BY DEF Busy
      <4> QED  BY <1>5, <1>6, <3>1, <3>2, <4>1 DEF First, Cached
    <3> QED  BY <1>1, <2>5, <3>1, <3>3
  <2> QED  BY <2>6, <2>7
<1>14. hit_'[l] + miss_'[l]
         = Cardinality(Judged(l)') + Cardinality(Busy(l, Working)')
  BY <1>1, <1>4, <1>5 DEF CountsOK
<1> QED
  BY <1>11, <1>12, <1>13, <1>14 DEF CountsOK

LEMMA JudgeKeepsCounts ==
  ASSUME TypeOK, NEW s \in Scanners, Judge(s), NEW l \in Levels,
         \A t \in Scanners \ {s} : Same(t) /\ log'[t] = log[t],
         num_workers' = num_workers, CountsOK(l)
  PROVE  CountsOK(l)'
<1> DEFINE S == {"search", "insert"}
           at == <<s, Len(log[s]) + 1>>
           n == Cardinality(Judged(l))
           b == Cardinality(Busy(l, Working))
<1>1. /\ pc[s] = "judge" /\ pc'[s] \in {"lookUp", "next"}
      /\ expression_cache' = expression_cache
      /\ miss_' = miss_ /\ hit_' = hit_
  BY DEF Judge, statistics, Goto, TypeOK
<1>2. PICK v : /\ log' = [log EXCEPT ![s] = Append(log[s], v)]
               /\ v.level = level[s]
  <2> DEFINE a == MayReport(s) /\ IsPotentialAnomaly(nearest_expressions[s])
             w == [block |-> code_block[s], level |-> level[s],
                   anomaly |-> a, results |-> nearest_expressions[s]]
  <2>1. log' = [log EXCEPT ![s] = Append(log[s], w)]
    BY Zenon DEF Judge
  <2> HIDE DEF a
  <2>2. w.level = level[s]
    OBVIOUS
  <2> HIDE DEF w
  <2> QED  BY <2>1, <2>2
<1>3. /\ DOMAIN log = Scanners /\ DOMAIN log[s] = 1..Len(log[s])
      /\ Len(log[s]) \in Nat /\ log[s] \in Seq(Verdict \cup {v})
  <2>1. log \in [Scanners -> Seq(Verdict)]
    BY DEF TypeOK, Verdict
  <2>2. log[s] \in Seq(Verdict)
    BY <2>1
  <2>3. Seq(Verdict) \subseteq Seq(Verdict \cup {v})
    <3>1. Verdict \subseteq Verdict \cup {v}
      OBVIOUS
    <3> HIDE DEF Verdict
    <3> QED  BY <3>1
  <2> QED  BY <2>1, <2>2, <2>3
<1>4. /\ DOMAIN log'[s] = 1..Len(log[s]) + 1
      /\ log'[s][Len(log[s]) + 1] = v
      /\ \A k \in DOMAIN log[s] : log'[s][k] = log[s][k]
  BY <1>2, <1>3
<1>5. Judged(l)' = IF level[s] = l THEN Judged(l) \cup {at} ELSE Judged(l)
  <2>1. ASSUME NEW x
        PROVE  x \in Judged(l)' <=>
                 \E t \in Scanners : \E k \in DOMAIN log'[t] :
                   x = <<t, k>> /\ log'[t][k].level = l
    BY DEF Judged, JudgedBy
  <2>2. ASSUME NEW x, NEW t \in Scanners, t # s
        PROVE  (\E k \in DOMAIN log'[t] : x = <<t, k>> /\ log'[t][k].level = l)
                 <=> \E k \in DOMAIN log[t] : x = <<t, k>> /\ log[t][k].level = l
    BY <2>2
  <2>3. ASSUME NEW x
        PROVE  (\E k \in DOMAIN log'[s] : x = <<s, k>> /\ log'[s][k].level = l)
                 <=> \/ \E k \in DOMAIN log[s] :
                           x = <<s, k>> /\ log[s][k].level = l
                     \/ level[s] = l /\ x = at
    <3>1. \A k : k \in DOMAIN log'[s] <=> k \in DOMAIN log[s] \/ k = Len(log[s]) + 1
      BY <1>3, <1>4
    <3> QED  BY <1>2, <1>4, <3>1
  <2>4. ASSUME NEW x
        PROVE  x \in Judged(l)' <=> x \in Judged(l) \/ (level[s] = l /\ x = at)
    <3> HIDE DEF at
    <3> QED  BY <2>1, <2>2, <2>3, JudgedIs
  <2> HIDE DEF at
  <2> QED  BY <2>4
<1>6. at \notin Judged(l)
  BY <1>3, JudgedIs
<1>7. /\ Busy(l, S)' = Busy(l, S)
      /\ Busy(l, Working)' = Busy(l, Working) \ {s}
      /\ s \in Busy(l, Working) <=> level[s] = l
  <2>1. s \notin Busy(l, S) /\ (s \in Busy(l, Working) <=> level[s] = l)
    BY <1>1 DEF Busy, Working
  <2>2. pc'[s] \notin S /\ pc'[s] \notin Working
    BY <1>1 DEF Working
  <2> QED  BY <2>1, <2>2, BusyAfter, SearchingIsWorking
<1>8. \A t \in Busy(l, S) : Expression(t)' = Expression(t)
  BY <1>1 DEF Expression, Same, Busy
<1>9. Asked(l)' = Asked(l) /\ First(l)' = First(l) /\ Cached(l)' = Cached(l)
  BY <1>1, <1>7, <1>8 DEF Asked, First, Cached
<1>10. n + b = Cardinality(Judged(l)') + Cardinality(Busy(l, Working)')
  <2>1. /\ IsFiniteSet(Judged(l)) /\ IsFiniteSet(Busy(l, Working))
        /\ n \in Nat /\ b \in Nat
    BY CountedSetsAreFinite, FS_CardinalityType
  <2>2. CASE level[s] = l
    <3> HIDE DEF at
    <3>1. Cardinality(Judged(l)') = n + 1
      BY <1>5, <1>6, <2>1, <2>2, FS_AddElement
    <3>2. Cardinality(Busy(l, Working)') = b - 1
      BY <1>7, <2>1, <2>2, FS_RemoveElement
    <3> QED  BY <2>1, <3>1, <3>2
  <2>3. CASE level[s] # l
    <3>1. Judged(l)' = Judged(l) /\ Busy(l, Working)' = Busy(l, Working)
      BY <1>5, <1>7, <2>3
    <3> QED  BY <2>1, <3>1
  <2> QED  BY <2>2, <2>3
<1>11. hit_'[l] + miss_'[l]
         = Cardinality(Judged(l)') + Cardinality(Busy(l, Working)')
  BY <1>1, <1>10 DEF CountsOK
<1> QED  BY <1>1, <1>9, <1>11 DEF CountsOK

(* JudgedInv for a scanner.                                                *)
InCache(t, k) ==
  log[t][k].block[log[t][k].level] \in DOMAIN expression_cache[log[t][k].level]

JudgedOK(t) ==
  /\ pc[t] = "judge" => Expression(t) \in DOMAIN expression_cache[level[t]]
  /\ \A k \in DOMAIN log[t] :
       /\ InCache(t, k)
       /\ pc[t] \in {"search", "insert"} /\ log[t][k].level = level[t] =>
            log[t][k].block[log[t][k].level] # Expression(t)

LEMMA JudgedAre == JudgedInv <=> \A t \in Scanners : JudgedOK(t)
BY DEF JudgedInv, JudgedOK, InCache

LEMMA InitJudged == Init => JudgedInv
<1> SUFFICES ASSUME Init, NEW t \in Scanners PROVE JudgedOK(t)
  BY JudgedAre
<1>1. log[t] = << >> /\ pc[t] \in {"next", "done"}
  BY DEF Init
<1> QED  BY <1>1 DEF JudgedOK

(* Nothing leaves the cache.                                               *)
LEMMA CacheGrows ==
  ASSUME TypeOK, NEW s \in Scanners, Step(s), NEW l \in Levels
  PROVE  Cached(l) \subseteq Cached(l)'
<1>1. CASE CacheInsert(s)
  BY <1>1, CachedAfter
<1>2. CASE ~CacheInsert(s)
  <2>1. expression_cache' = expression_cache
    BY <1>2 DEF Step, NextBlock, EndOfFile, LookUp, NodeToStringThrows, CacheHit,
                CacheMiss, Search, SearchFails, Judge
  <2> QED  BY <2>1 DEF Cached
<1> QED  BY <1>1, <1>2

LEMMA JudgedStep == IInv /\ JudgedInv /\ [Next]_vars => JudgedInv'
<1> SUFFICES ASSUME IInv, JudgedInv, [Next]_vars PROVE JudgedInv'
  OBVIOUS
<1>1. TypeOK /\ \A t \in Scanners : JudgedOK(t)
  BY JudgedAre DEF IInv
<1>2. SUFFICES \A t \in Scanners : JudgedOK(t)'
  BY DEF JudgedInv, JudgedOK, InCache
<1>3. \A t \in Scanners :
        /\ level[t] \in Levels /\ DOMAIN log[t] = 1..Len(log[t])
        /\ \A k \in DOMAIN log[t] : log[t][k].level \in Levels
  <2> TAKE t \in Scanners
  <2>1. log[t] \in Seq(Verdict) /\ level[t] \in Levels
    BY <1>1 DEF TypeOK, Verdict
  <2>2. \A k \in DOMAIN log[t] : log[t][k] \in Verdict
    BY <2>1
  <2> QED  BY <2>1, <2>2 DEF Verdict
<1>4. ASSUME NEW s \in Scanners, Step(s), NEW t \in Scanners, log'[t] = log[t],
             NEW k \in DOMAIN log[t]
      PROVE  InCache(t, k)'
  <2> DEFINE l == log[t][k].level
             e == log[t][k].block[l]
  <2>1. l \in Levels /\ e \in Cached(l)
    BY <1>1, <1>3, <1>4 DEF JudgedOK, InCache, Cached
  <2>2. e \in DOMAIN expression_cache'[l]
    <3> HIDE DEF e, l
    <3> QED  BY <1>1, <1>4, <2>1, CacheGrows DEF Cached
  <2> QED  BY <1>4, <2>2 DEF InCache
<1>5. ASSUME NEW s \in Scanners, Step(s), NEW t \in Scanners, Same(t),
             log'[t] = log[t]
      PROVE  JudgedOK(t)'
  <2>1. /\ Expression(t)' = Expression(t) /\ pc'[t] = pc[t] /\ level'[t] = level[t]
        /\ level[t] \in Levels
    BY <1>3, <1>5 DEF Same, Expression
  <2>2. pc[t] = "judge" => Expression(t) \in DOMAIN expression_cache'[level[t]]
    BY <1>1, <1>5, <2>1, CacheGrows DEF JudgedOK, Cached
  <2>3. \A k \in DOMAIN log[t] : InCache(t, k)'
    BY <1>4, <1>5
  <2> QED  BY <1>1, <1>5, <2>1, <2>2, <2>3 DEF JudgedOK
<1>6. ASSUME NEW s \in Scanners, Step(s), NEW t \in Scanners, log'[t] = log[t],
             pc'[t] \notin {"search", "insert", "judge"}
      PROVE  JudgedOK(t)'
  <2>1. \A k \in DOMAIN log[t] : InCache(t, k)'
    BY <1>4, <1>6
  <2> QED  BY <1>6, <2>1 DEF JudgedOK
<1>7. ASSUME NEW s \in Scanners, Step(s) PROVE JudgedOK(s)'
  <2>1. CASE NextBlock(s) \/ EndOfFile(s) \/ LookUp(s) \/ NodeToStringThrows(s)
               \/ SearchFails(s)
    <3>1. log' = log /\ pc'[s] \notin {"search", "insert", "judge"}
      BY <1>1, <2>1 DEF NextBlock, EndOfFile, LookUp, NodeToStringThrows,
                        SearchFails, Goto, TypeOK
    <3> QED  BY <1>6, <1>7, <3>1
  <2>2. CASE CacheHit(s)
    <3>1. /\ log' = log /\ pc'[s] = "judge" /\ expression_cache' = expression_cache
          /\ Expression(s)' = Expression(s) /\ level' = level
          /\ Expression(s) \in DOMAIN expression_cache[level[s]]
      BY <1>1, <2>2 DEF CacheHit, Goto, TypeOK, Expression, CacheOf
    <3>2. \A k \in DOMAIN log[s] : InCache(s, k)'
      BY <1>4, <1>7, <3>1
    <3> QED  BY <3>1, <3>2 DEF JudgedOK
  <2>3. CASE CacheMiss(s)
    <3>1. /\ log' = log /\ pc'[s] = "search" /\ expression_cache' = expression_cache
          /\ Expression(s)' = Expression(s) /\ level' = level
          /\ Expression(s) \notin DOMAIN expression_cache[level[s]]
      BY <1>1, <2>3 DEF CacheMiss, Goto, TypeOK, Expression, CacheOf, local
    <3>2. \A k \in DOMAIN log[s] : InCache(s, k) /\ InCache(s, k)'
      BY <1>1, <1>4, <1>7, <3>1 DEF JudgedOK
    <3>3. \A k \in DOMAIN log[s] :
            log[s][k].level = level[s] =>
              log[s][k].block[log[s][k].level] # Expression(s)
      BY <3>1, <3>2 DEF InCache
    <3> QED  BY <3>1, <3>2, <3>3 DEF JudgedOK
  <2>4. CASE Search(s)
    <3>1. /\ log' = log /\ pc[s] = "search" /\ pc'[s] = "insert"
          /\ Expression(s)' = Expression(s) /\ level' = level
      BY <1>1, <2>4 DEF Search, Goto, TypeOK, Expression
    <3>2. \A k \in DOMAIN log[s] : InCache(s, k)'
      BY <1>4, <1>7, <3>1
    <3> QED  BY <1>1, <3>1, <3>2 DEF JudgedOK
  <2>5. CASE CacheInsert(s)
    <3>1. /\ log' = log /\ pc'[s] = "judge"
          /\ Expression(s)' = Expression(s) /\ level' = level
      BY <1>1, <2>5 DEF CacheInsert, Goto, TypeOK, Expression, local
    <3>2. Expression(s) \in DOMAIN expression_cache'[level[s]]
      BY <1>1, <1>3, <2>5, CachedAfter DEF Cached
    <3>3. \A k \in DOMAIN log[s] : InCache(s, k)'
      BY <1>4, <1>7, <3>1
    <3> QED  BY <3>1, <3>2, <3>3 DEF JudgedOK
  <2>6. CASE Judge(s)
    <3> DEFINE n == Len(log[s])
    <3>1. /\ pc[s] = "judge" /\ pc'[s] \notin {"search", "insert", "judge"}
          /\ n \in Nat /\ DOMAIN log'[s] = 1..n + 1
          /\ \A k \in 1..n : log'[s][k] = log[s][k]
          /\ log'[s][n + 1].block = code_block[s]
          /\ log'[s][n + 1].level = level[s]
          /\ expression_cache' = expression_cache
      BY <1>1, <2>6, VerdictStep
    <3>2. Expression(s) \in DOMAIN expression_cache[level[s]]
      BY <1>1, <3>1 DEF JudgedOK
    <3>3. ASSUME NEW k \in DOMAIN log'[s] PROVE InCache(s, k)'
      <4>1. CASE k = n + 1
        BY <3>1, <3>2, <4>1 DEF Expression, InCache
      <4>2. CASE k \in 1..n
        <5>1. k \in DOMAIN log[s] /\ log'[s][k] = log[s][k]
          BY <1>3, <3>1, <4>2
        <5> QED  BY <1>1, <3>1, <5>1 DEF JudgedOK, InCache
      <4> QED  BY <3>1, <3>3, <4>1, <4>2
    <3> QED  BY <3>1, <3>3 DEF JudgedOK
  <2> QED  BY <1>7, <2>1, <2>2, <2>3, <2>4, <2>5, <2>6 DEF Step
<1>8. ASSUME NEW s \in Scanners, Step(s) PROVE \A t \in Scanners : JudgedOK(t)'
  <2>1. ASSUME NEW t \in Scanners, t # s PROVE JudgedOK(t)'
    <3>1. log'[t] = log[t] /\ (Same(t) \/ pc'[t] = "died")
      BY <1>1, <1>8, <2>1, OthersStay
    <3> QED  BY <1>5, <1>6, <1>8, <3>1
  <2> QED  BY <1>7, <1>8, <2>1
<1>9. CASE UNCHANGED vars
  <2> SUFFICES ASSUME NEW t \in Scanners PROVE JudgedOK(t)'
    OBVIOUS
  <2>1. JudgedOK(t)
    BY <1>1
  <2>2. /\ pc' = pc /\ log' = log /\ level' = level /\ code_block' = code_block
        /\ expression_cache' = expression_cache
    BY <1>9 DEF vars, local
  <2> QED  BY <2>1, <2>2 DEF JudgedOK, InCache, Expression
<1> QED
  BY <1>8, <1>9 DEF Next, Over

LEMMA InitStatistics == Init => StatisticsInv
<1> SUFFICES ASSUME Init PROVE StatisticsInv
  OBVIOUS
<1>0. TypeOK
  BY InitIInv DEF IInv
<1>1. ASSUME NEW l \in Levels
      PROVE  Cached(l) = {} /\ First(l) = {} /\ Asked(l) = {}
             /\ Judged(l) = {} /\ Busy(l, Working) = {}
             /\ miss_[l] = 0 /\ hit_[l] = 0
  <2>1. \A labels \in SUBSET Working : Busy(l, labels) = {}
    BY DEF Init, Busy, Working
  <2>2. First(l) = {} /\ Asked(l) = {}
    BY <2>1, SearchingIsWorking DEF First, Asked
  <2>3. Judged(l) = {}
    <3>1. \A s \in Scanners : DOMAIN log[s] = {}
      BY DEF Init
    <3> QED  BY <3>1, JudgedIs
  <2> QED  BY <2>1, <2>2, <2>3, SearchingIsWorking DEF Init, Cached
<1>2. \A l \in Levels : IsFiniteSet(Cached(l)) /\ CountsOK(l)
  <2>1. IsFiniteSet({}) /\ Cardinality({}) = 0
    BY FS_EmptySet
  <2>2. ASSUME NEW l \in Levels PROVE CountsOK(l)
    <3>1. Cached(l) \cup Asked(l) = {}
      BY <1>1
    <3>2. num_workers * Cardinality({}) = 0
      BY <1>0, <2>1, WorkersAreANumber
    <3> QED  BY <1>1, <2>1, <3>1, <3>2 DEF CountsOK
  <2> QED  BY <1>1, <2>1, <2>2
<1>3. Cardinality(Active) <= num_workers
  <2>1. PICK running \in (SUBSET Scanners) \ {{}} :
          /\ num_workers = Cardinality(running)
          /\ pc = [s \in Scanners |-> IF s \in running THEN "next" ELSE "done"]
    BY DEF Init
  <2>2. Active = running
    BY <2>1 DEF Active
  <2>3. num_workers \in Nat
    BY <1>0, WorkersAreANumber
  <2> QED  BY <2>1, <2>2, <2>3
<1> QED  BY <1>2, <1>3, CountsAre

LEMMA StatisticsStep == IInv /\ StatisticsInv /\ [Next]_vars => StatisticsInv'
<1> SUFFICES ASSUME IInv, StatisticsInv, [Next]_vars PROVE StatisticsInv'
  OBVIOUS
<1>1. TypeOK /\ num_workers' = num_workers
  BY ConfigStays DEF IInv
<1>2. /\ \A l \in Levels : IsFiniteSet(Cached(l))
      /\ Alive => Cardinality(Active) <= num_workers
                    /\ \A l \in Levels : CountsOK(l)
  BY CountsAre
<1>3. SUFFICES /\ \A l \in Levels : IsFiniteSet(Cached(l)')
               /\ Alive' => /\ Cardinality(Active') <= num_workers
                            /\ \A l \in Levels : CountsOK(l)'
  BY <1>1 DEF StatisticsInv, Cached, Alive, Active, CountsOK, Working
<1>4. CASE UNCHANGED vars
  <2>1. \A l \in Levels : CountsOK(l) => CountsOK(l)'
    BY <1>4 DEF vars, local, config, statistics, CountsOK, Cached, First,
                Asked, Judged, JudgedBy, Busy, Expression
  <2>2. \A l \in Levels : Cached(l)' = Cached(l)
    BY <1>4 DEF vars, Cached
  <2>3. (Alive' => Alive) /\ Active' = Active
    BY <1>4 DEF vars, Alive, Active
  <2> QED  BY <1>1, <1>2, <2>1, <2>2, <2>3
<1>5. ASSUME NEW s \in Scanners, Step(s), NEW l \in Levels
      PROVE  IsFiniteSet(Cached(l)')
  <2>1. CASE CacheInsert(s)
    <3>1. IsFiniteSet(Cached(l) \cup {Expression(s)})
      BY <1>2, FS_AddElement
    <3> QED  BY <1>1, <1>2, <2>1, <3>1, CachedAfter
  <2>2. CASE expression_cache' = expression_cache
    BY <1>2, <2>2 DEF Cached
  <2> QED
    BY <1>5, <2>1, <2>2
    DEF Step, NextBlock, EndOfFile, LookUp, NodeToStringThrows, CacheHit,
        CacheMiss, Search, SearchFails, Judge
<1>6. ASSUME NEW s \in Scanners, Step(s), Alive'
      PROVE  /\ Cardinality(Active') <= num_workers
             /\ \A l \in Levels : CountsOK(l)'
  <2>1. /\ Alive /\ Cardinality(Active) <= num_workers
        /\ \A l \in Levels : CountsOK(l)
        /\ \A t \in Scanners \ {s} : Same(t) /\ log'[t] = log[t]
    BY <1>1, <1>2, <1>6, OthersStayBusy
  <2>2. pc[s] # "done"
    BY <1>6 DEF Step, NextBlock, EndOfFile, LookUp, NodeToStringThrows, CacheHit,
        CacheMiss, Search, SearchFails, CacheInsert, Judge
  <2>3. Active' \in SUBSET Active
    BY <2>1, <2>2 DEF Active, Same
  <2>4. IsFiniteSet(Active)
    BY BoundsAssumption, FS_Subset DEF Active
  <2>5. IsFiniteSet(Active') /\ Cardinality(Active') <= Cardinality(Active)
    BY <2>3, <2>4, FS_Subset, Zenon
  <2>6. Cardinality(Active') <= num_workers
    BY <1>1, <2>1, <2>4, <2>5, FS_CardinalityType, WorkersAreANumber
  <2>7. ASSUME NEW l \in Levels PROVE CountsOK(l)'
    <3>1. CASE NextBlock(s) \/ EndOfFile(s) \/ LookUp(s)
      <4>1. /\ pc[s] \notin Working /\ pc'[s] \notin Working
            /\ expression_cache' = expression_cache /\ log' = log
            /\ hit_' = hit_ /\ miss_' = miss_
        BY <1>1, <3>1 DEF NextBlock, EndOfFile, LookUp, Goto, Working, TypeOK,
                          statistics
      <4> QED  BY <1>1, <2>1, <4>1, IdleStepKeepsCounts
    <3>2. CASE CacheHit(s)
      BY <1>1, <2>1, <3>2, HitKeepsCounts
    <3>3. CASE CacheMiss(s)
      BY <1>1, <1>2, <2>1, <3>3, MissKeepsCounts
    <3>4. CASE Search(s)
      BY <1>1, <2>1, <3>4, SearchKeepsCounts
    <3>5. CASE CacheInsert(s)
      BY <1>1, <1>2, <2>1, <3>5, InsertKeepsCounts
    <3>6. CASE Judge(s)
      BY <1>1, <2>1, <3>6, JudgeKeepsCounts
    <3>7. CASE NodeToStringThrows(s) \/ SearchFails(s)
      BY <1>6, <3>7 DEF NodeToStringThrows, SearchFails, Alive
    <3> QED  BY <1>6, <3>1, <3>2, <3>3, <3>4, <3>5, <3>6, <3>7 DEF Step
  <2> QED  BY <2>6, <2>7
<1> QED
  BY <1>4, <1>5, <1>6 DEF Next, Over

(* For any number of scanners: none searches for what it has judged at     *)
(* that level, and the misses that are not shared by those who search for  *)
(* the same expression are at most one per scanner.                        *)
THEOREM StatisticsCorrect == Spec => []SearchedOncePerScanner
<1>1. IInv /\ StatisticsInv /\ JudgedInv => SearchedOncePerScanner
  <2> SUFFICES ASSUME IInv, StatisticsInv, JudgedInv
               PROVE  SearchedOncePerScanner
    OBVIOUS
  <2>0. ASSUME NEW s \in Scanners, pc[s] \in {"search", "insert"},
               NEW k \in DOMAIN log[s], log[s][k].level = level[s]
        PROVE  log[s][k].block[level[s]] # Expression(s)
    BY <2>0 DEF JudgedInv
  <2> SUFFICES ASSUME Alive, NEW l \in Levels
               PROVE  /\ miss_[l] <= num_workers * Cardinality(Cached(l) \cup Asked(l))
                      /\ miss_[l] >= Cardinality(Cached(l))
                      /\ hit_[l] + miss_[l] = Cardinality(Judged(l))
                                                + Cardinality(Busy(l, Working))
    BY <2>0 DEF SearchedOncePerScanner, Cached, Alive, Working
  <2> DEFINE c == Cardinality(Cached(l))
             f == Cardinality(First(l))
             u == Cardinality(Cached(l) \cup Asked(l))
  <2>1. /\ TypeOK /\ CountsOK(l) /\ Cardinality(Active) <= num_workers
        /\ IsFiniteSet(Cached(l))
    BY CountsAre DEF IInv
  <2>2. /\ IsFiniteSet(Cached(l) \cup Asked(l)) /\ IsFiniteSet(First(l))
        /\ IsFiniteSet(Active)
    BY <2>1, CountedSetsAreFinite, FS_Union, Zenon
  <2>3. c \in Nat /\ f \in Nat /\ u \in Nat /\ num_workers \in Nat
        /\ miss_[l] \in Nat
    BY <2>1, <2>2, FS_CardinalityType, WorkersAreANumber DEF TypeOK
  <2>4. c <= u /\ (c = u => Cached(l) = Cached(l) \cup Asked(l))
    <3>1. Cached(l) \in SUBSET (Cached(l) \cup Asked(l))
      OBVIOUS
    <3> QED  BY <2>2, <3>1, FS_Subset, Zenon
  <2>5. f <= num_workers
    <3>1. First(l) \in SUBSET Active
      BY <2>1, CountedSetsAreFinite
    <3>2. f <= Cardinality(Active) /\ Cardinality(Active) \in Nat
      BY <2>2, <3>1, FS_Subset, FS_CardinalityType, Zenon
    <3> QED  BY <2>1, <2>3, <3>2
  <2>6. miss_[l] <= num_workers * c + f /\ miss_[l] >= u
    BY <2>1 DEF CountsOK
  <2>7. CASE c = u
    <3>1. First(l) = {}
      BY <2>4, <2>7 DEF First, Asked, Cached
    <3>2. f = 0
      BY <3>1, FS_EmptySet
    <3> HIDE DEF c, f, u
    <3>3. num_workers * c \in Nat
      BY <2>3
    <3>4. miss_[l] <= num_workers * u /\ miss_[l] >= c
      BY <2>3, <2>6, <2>7, <3>2, <3>3
    <3> QED  BY <2>1, <3>4 DEF c, u, CountsOK
  <2>8. CASE c # u
    <3> HIDE DEF c, f, u
    <3>1. PICK d \in Nat : u = c + 1 + d
      <4>1. u - c - 1 \in Nat /\ u = c + 1 + (u - c - 1)
        BY <2>3, <2>4, <2>8
      <4> QED  BY <4>1
    <3>2. num_workers * u = num_workers * c + num_workers + num_workers * d
      BY <2>3, <3>1
    <3>3. num_workers * c \in Nat /\ num_workers * d \in Nat
      BY <2>3
    <3>4. miss_[l] <= num_workers * u /\ miss_[l] >= c
      BY <2>3, <2>4, <2>5, <2>6, <3>2, <3>3
    <3> QED  BY <2>1, <3>4 DEF c, u, CountsOK
  <2> QED  BY <2>7, <2>8
<1>2. Init => IInv /\ StatisticsInv /\ JudgedInv
  BY InitIInv, InitStatistics, InitJudged
<1>3. /\ IInv /\ StatisticsInv /\ [Next]_vars => StatisticsInv'
      /\ IInv /\ JudgedInv /\ [Next]_vars => JudgedInv'
  BY StatisticsStep, JudgedStep
<1> QED
  BY <1>1, <1>2, <1>3, InvariantCorrect, PTL DEF Spec

-----------------------------------------------------------------------------
(* With one worker.                                                        *)

(* What there is to say of an expression near e, or of e itself.           *)
Known(l, e, f) ==
  [expression |-> f, cost |-> Distance[e][f],
   occurrences |-> Occurrences(l, f), copy |-> 1]

All(l, e) == Near(l, e) \cup {e}

(* A worker that is alone visits every path once.                          *)
LEMMA AloneVisitsAll ==
  ASSUME num_workers = 1, NEW l \in Levels, NEW v \in Visits(l)
  PROVE  \A f \in DOMAIN Trained[l] : v[f] = 1
<1> DEFINE P == DOMAIN Trained[l]
           V == {p \in P : v[p] > 0}
<1>1. IsFiniteSet(P)
  BY TrainedAssumption
<1>2. /\ v \in [P -> 0..1]
      /\ 1 * Cardinality(V) >= Cardinality(P)
  BY DEF Visits
<1> HIDE DEF P
<1>3. V \in SUBSET P
  OBVIOUS
<1> HIDE DEF V
<1>4. /\ Cardinality(V) <= Cardinality(P)
      /\ Cardinality(V) = Cardinality(P) => P = V
      /\ Cardinality(V) \in Nat /\ Cardinality(P) \in Nat
  BY <1>1, <1>3, FS_Subset, FS_CardinalityType
<1>5. P = V
  BY <1>2, <1>4
<1>6. \A p \in P : v[p] > 0
  BY <1>5 DEF V
<1> QED  BY <1>2, <1>6 DEF P

(* What it has to rank: all there is, once.                                *)
LEMMA AloneFindsAll ==
  ASSUME num_workers = 1, NEW l \in Levels, NEW e \in Expressions,
         NEW v \in Visits(l), NEW stray \in ReadPastEnd
  PROVE  Found(l, e, v) \cup stray \cup PushedFor(l, e)
           = {Known(l, e, f) : f \in All(l, e)}
<1>1. stray = {}
  <2>1. stray \in SUBSET Strays /\ Cardinality(stray) < 1
    BY DEF ReadPastEnd
  <2>2. IsFiniteSet(stray)
    BY <2>1, StraysAssumption, FS_Subset, Zenon
  <2> QED  BY <2>1, <2>2, FS_CardinalityType, FS_EmptySet
<1>2. Found(l, e, v) = {Known(l, e, f) : f \in Near(l, e)}
  <2> DEFINE R(f, k) == [expression |-> f, cost |-> Distance[e][f],
                         occurrences |-> Trained[l][f], copy |-> k]
  <2>1. ASSUME NEW f \in Near(l, e)
        PROVE  {R(f, k) : k \in 1..v[f]} = {Known(l, e, f)}
    <3>1. f \in DOMAIN Trained[l] /\ v[f] = 1
      BY AloneVisitsAll, NearFinite
    <3>2. R(f, 1) = Known(l, e, f)
      BY <3>1 DEF Known, Occurrences
    <3>3. 1..v[f] = {1}
      BY <3>1
    <3> HIDE DEF R
    <3> QED  BY <3>2, <3>3
  <2>2. Found(l, e, v) = UNION {{R(f, k) : k \in 1..v[f]} : f \in Near(l, e)}
    BY Zenon DEF Found
  <2> HIDE DEF R
  <2>3. ASSUME NEW x
        PROVE  x \in Found(l, e, v)
                 <=> \E f \in Near(l, e) : x \in {R(f, k) : k \in 1..v[f]}
    BY <2>2
  <2> QED  BY <2>1, <2>3
<1>3. CASE e \in DOMAIN Trained[l]
  <2>1. e \in Near(l, e)
    BY <1>3, DistanceAssumption, BoundsAssumption DEF Near
  <2> QED  BY <1>1, <1>2, <1>3, <2>1 DEF PushedFor, All
<1>4. CASE e \notin DOMAIN Trained[l]
  <2>1. PushedFor(l, e) = {Known(l, e, e)}
    BY <1>4, DistanceAssumption DEF PushedFor, Known, Occurrences
  <2> QED  BY <1>1, <1>2, <2>1 DEF All
<1> QED  BY <1>3, <1>4

(* Cut and ranked, it misses nothing that is better than what it lists.    *)
LEMMA AloneIsComplete ==
  ASSUME num_workers = 1, NEW l \in Levels, NEW e \in Expressions,
         NEW v \in Visits(l), NEW stray \in ReadPastEnd,
         NEW r \in Ranked(Found(l, e, v) \cup stray \cup PushedFor(l, e))
  PROVE  CompleteFor(l, e, WithoutCopy(r))
<1> DEFINE R == {Known(l, e, f) : f \in All(l, e)}
           n == IF Cardinality(R) > max_autocorrections
                  THEN max_autocorrections ELSE Cardinality(R)
           q == WithoutCopy(r)
<1>1. r \in Ranked(R)
  BY AloneFindsAll
<1>2. IsFiniteSet(R) /\ Cardinality(R) \in Nat
  <2> DEFINE m == [f \in All(l, e) |-> Known(l, e, f)]
  <2>1. m \in Surjection(All(l, e), R)
    BY Zenon DEF Surjection
  <2>2. IsFiniteSet(All(l, e))
    BY NearFinite, FS_AddElement DEF All
  <2> HIDE DEF m, R
  <2> QED  BY <2>1, <2>2, FS_Surjection, FS_CardinalityType, Zenon
<1> HIDE DEF R
<1>3. /\ r \in [1..n -> R] /\ n \in Nat
      /\ \A j, k \in 1..n : j < k => r[j] # r[k]
      /\ \A x \in R \ ToSet(r), j \in 1..n : ~Better(x, r[j])
  BY <1>1, <1>2, BoundsAssumption, Zenon DEF Ranked
<1>4. Cardinality(R) <= max_autocorrections => \A x \in R : x \in ToSet(r)
  <2> SUFFICES ASSUME Cardinality(R) <= max_autocorrections, NEW x \in R
               PROVE  x \in ToSet(r)
    OBVIOUS
  <2>1. n = Cardinality(R)
    BY <1>2, BoundsAssumption
  <2> HIDE DEF n
  <2>2. r \in Injection(1..n, R)
    BY <1>3 DEF Injection, IsInjective
  <2>3. Cardinality(1..n) = n
    BY <1>3, FS_Interval
  <2>4. r \in Surjection(1..n, R)
    BY <1>2, <2>1, <2>2, <2>3, FS_Injection, Zenon
  <2> QED  BY <1>3, <2>4 DEF Surjection, ToSet
<1>5. n = max_autocorrections \/ Cardinality(R) <= max_autocorrections
  BY <1>2, BoundsAssumption
<1> HIDE DEF n
<1>6. /\ DOMAIN q = 1..n /\ DOMAIN r = 1..n /\ Len(q) = n
      /\ \A k \in 1..n : /\ q[k].expression = r[k].expression
                         /\ q[k].cost = r[k].cost
                         /\ q[k].occurrences = r[k].occurrences
  BY <1>3 DEF WithoutCopy
<1> HIDE DEF q
<1>7. \A k \in 1..n : \E f \in All(l, e) :
        r[k] = Known(l, e, f) /\ q[k].expression = f
  <2> SUFFICES ASSUME NEW k \in 1..n
               PROVE  \E f \in All(l, e) :
                        r[k] = Known(l, e, f) /\ q[k].expression = f
    OBVIOUS
  <2>1. r[k] \in R
    BY <1>3
  <2>2. PICK f \in All(l, e) : r[k] = Known(l, e, f)
    BY <2>1 DEF R
  <2> QED  BY <1>6, <2>2 DEF Known
<1>8. \A j, k \in DOMAIN q : q[j].expression = q[k].expression => j = k
  BY <1>3, <1>6, <1>7
<1>9. ASSUME NEW f \in All(l, e),
             f \notin {q[k].expression : k \in DOMAIN q}
      PROVE  /\ Len(q) = max_autocorrections
             /\ \A k \in DOMAIN q :
                  ~Better([cost |-> Distance[e][f],
                           occurrences |-> Occurrences(l, f)], q[k])
  <2>1. Known(l, e, f) \in R
    BY DEF R
  <2>2. Known(l, e, f) \notin ToSet(r)
    <3>1. ASSUME NEW k \in 1..n PROVE r[k] # Known(l, e, f)
      BY <1>6, <1>9 DEF Known
    <3> QED  BY <1>6, <3>1 DEF ToSet
  <2>3. \A k \in 1..n : ~Better(Known(l, e, f), r[k])
    BY <1>3, <2>1, <2>2
  <2> QED  BY <1>4, <1>5, <1>6, <2>1, <2>2, <2>3 DEF Better, Known
<1> QED  BY <1>8, <1>9 DEF CompleteFor, All, q

-----------------------------------------------------------------------------
(* From complete results to the verdict.                                   *)

Goodness(l, e, f) ==
  [cost |-> Distance[e][f], occurrences |-> Occurrences(l, f)]

(* What is known of complete results: they are of e and its neighbours,    *)
(* each of which is listed once at most, and nothing better is left out.   *)
LEMMA CompleteResults ==
  ASSUME NEW l \in Levels, NEW e \in Expressions, NEW r \in Seq(AnyResult),
         ResultsFor(1, l, e, r), CompleteFor(l, e, r)
  PROVE  /\ Len(r) \in Nat /\ DOMAIN r = 1..Len(r)
         /\ Len(r) <= max_autocorrections
         /\ \A j, k \in DOMAIN r :
              /\ r[j].expression = r[k].expression => j = k
              /\ j < k => ~Better(r[k], r[j])
         /\ \A k \in DOMAIN r :
              /\ r[k].expression \in All(l, e)
              /\ r[k].cost = Distance[e][r[k].expression]
              /\ r[k].occurrences = Occurrences(l, r[k].expression)
              /\ r[k].cost \in Nat /\ r[k].occurrences \in Nat
              /\ r[k].cost = 0 <=> r[k].expression = e
         /\ \A f \in All(l, e) :
              \/ \E k \in DOMAIN r : r[k].expression = f
              \/ /\ Len(r) = max_autocorrections
                 /\ \A k \in DOMAIN r : ~Better(Goodness(l, e, f), r[k])
<1>1. Len(r) \in Nat /\ DOMAIN r = 1..Len(r)
  OBVIOUS
<1>2. StrayIn(r) = {}
  <2>1. /\ StrayIn(r) \in SUBSET (1..Len(r)) /\ IsFiniteSet(1..Len(r))
        /\ Cardinality(StrayIn(r)) < 1
    BY <1>1, FS_Interval DEF StrayIn, ResultsFor
  <2>2. IsFiniteSet(StrayIn(r))
    BY <2>1, FS_Subset, Zenon
  <2> QED  BY <2>1, <2>2, FS_CardinalityType, FS_EmptySet
<1>3. All(l, e) \subseteq Expressions
  BY NearFinite DEF All
<1>4. \A f \in Expressions : Occurrences(l, f) \in Nat
  BY TrainedAssumption DEF Occurrences
<1>5. ASSUME NEW k \in DOMAIN r
      PROVE  /\ r[k].expression \in All(l, e)
             /\ r[k].cost = Distance[e][r[k].expression]
             /\ r[k].occurrences = Occurrences(l, r[k].expression)
             /\ r[k].cost \in Nat /\ r[k].occurrences \in Nat
             /\ r[k].cost = 0 <=> r[k].expression = e
  <2>1. /\ r[k].expression \in All(l, e)
        /\ r[k].cost = Distance[e][r[k].expression]
        /\ r[k].occurrences = Occurrences(l, r[k].expression)
    BY <1>2 DEF ResultsFor, All
  <2> QED  BY <1>3, <1>4, <2>1, DistanceAssumption
<1> QED
  BY <1>1, <1>5 DEF ResultsFor, CompleteFor, All, Goodness

(* If anything is listed the expression itself is, and it is the one whose *)
(* cost is 0; what comes before a suggestion in the list are those better. *)
LEMMA ItselfIsListed ==
  ASSUME NEW l \in Levels, NEW e \in Expressions, NEW r \in Seq(AnyResult),
         ResultsFor(1, l, e, r), CompleteFor(l, e, r), Len(r) > 0
  PROVE  \E b \in DOMAIN r :
           /\ r[b].expression = e /\ r[b].cost = 0
           /\ \A k \in DOMAIN r : k # b => r[k].cost # 0 /\ b < k
<1>1. \E b \in DOMAIN r : r[b].expression = e
  <2> SUFFICES ASSUME \A k \in DOMAIN r : r[k].expression # e
               PROVE  FALSE
    OBVIOUS
  <2>1. 1 \in DOMAIN r /\ r[1].cost # 0 /\ r[1].cost \in Nat
    BY CompleteResults
  <2>2. ~Better(Goodness(l, e, e), r[1])
    BY <2>1, CompleteResults DEF All
  <2>3. Goodness(l, e, e).cost = 0
    BY DistanceAssumption DEF Goodness
  <2> QED  BY <2>1, <2>2, <2>3 DEF Better
<1>2. PICK b \in DOMAIN r : r[b].expression = e
  BY <1>1
<1>3. ASSUME NEW k \in DOMAIN r, k # b PROVE r[k].cost # 0 /\ b < k
  <2>1. r[k].cost # 0 /\ r[b].cost = 0 /\ r[k].cost \in Nat
    BY <1>2, <1>3, CompleteResults
  <2>2. Better(r[b], r[k])
    BY <2>1 DEF Better
  <2>3. ~(k < b)
    BY <2>2, CompleteResults
  <2>4. k \in Int /\ b \in Int
    BY CompleteResults
  <2> QED  BY <1>3, <2>1, <2>3, <2>4
<1> QED  BY <1>2, <1>3, CompleteResults

(* The others that are better suggestions for e than f.                    *)
BetterThan(l, e, f) ==
  {g \in Near(l, e) \ {e} : Better(Goodness(l, e, g), Goodness(l, e, f))}

LEMMA SuggestionsAre ==
  ASSUME NEW l \in Levels, NEW e \in Expressions
  PROVE  Suggestions(l, e) =
           {f \in Near(l, e) \ {e} :
              Cardinality(BetterThan(l, e, f)) < max_autocorrections - 1}
<1>1. \A f \in Near(l, e) : Occurrences(l, f) = Trained[l][f]
  BY NearFinite DEF Occurrences
<1>2. ASSUME NEW f \in Near(l, e) \ {e}
      PROVE  {g \in Near(l, e) \ {e} :
                Better([cost |-> Distance[e][g], occurrences |-> Trained[l][g]],
                       [cost |-> Distance[e][f], occurrences |-> Trained[l][f]])}
               = BetterThan(l, e, f)
  BY <1>1 DEF BetterThan, Goodness
<1> QED
  BY <1>2 DEF Suggestions

LEMMA IntervalWithoutOne ==
  ASSUME NEW n \in Nat, NEW b \in 1..n
  PROVE  /\ IsFiniteSet((1..n) \ {b})
         /\ Cardinality((1..n) \ {b}) = n - 1
<1> DEFINE S == 1..n
<1>1. IsFiniteSet(S) /\ Cardinality(S) = n
  BY FS_Interval
<1>2. b \in S
  OBVIOUS
<1> HIDE DEF S
<1>3. /\ IsFiniteSet(S \ {b})
      /\ Cardinality(S \ {b}) = Cardinality(S) - 1
  BY <1>1, <1>2, FS_RemoveElement
<1> QED  BY <1>1, <1>3 DEF S

(* What is listed besides the expression itself is a suggestion: what is   *)
(* better comes before it in the list.                                     *)
LEMMA ListedIsSuggested ==
  ASSUME NEW l \in Levels, NEW e \in Expressions, NEW r \in Seq(AnyResult),
         ResultsFor(1, l, e, r), CompleteFor(l, e, r),
         NEW i \in DOMAIN r, r[i].expression # e
  PROVE  r[i].expression \in Suggestions(l, e)
<1> DEFINE f == r[i].expression
           G == BetterThan(l, e, f)
           at == [g \in G |-> CHOOSE k \in DOMAIN r : r[k].expression = g]
<1>1. PICK b \in DOMAIN r : r[b].expression = e /\ b < i
  <2>1. Len(r) > 0
    BY CompleteResults
  <2> QED  BY <2>1, ItselfIsListed
<1>2. /\ i \in Nat /\ i <= max_autocorrections /\ f \in Near(l, e) \ {e}
      /\ b \in Nat /\ 1 <= b /\ DOMAIN r = 1..Len(r) /\ Len(r) \in Nat
  BY CompleteResults, BoundsAssumption DEF All
<1>3. ASSUME NEW g \in G
      PROVE  \E k \in (1..i - 1) \ {b} : k \in DOMAIN r /\ r[k].expression = g
  <2>1. /\ g \in Near(l, e) \ {e} /\ g \in All(l, e)
        /\ Better(Goodness(l, e, g), Goodness(l, e, f))
    BY DEF BetterThan, All
  <2>2. Better(Goodness(l, e, g), r[i])
    <3>1. r[i].cost = Distance[e][f] /\ r[i].occurrences = Occurrences(l, f)
      BY CompleteResults
    <3> QED  BY <2>1, <3>1 DEF Better, Goodness
  <2>3. PICK k \in DOMAIN r : r[k].expression = g
    BY <2>1, <2>2, CompleteResults
  <2>4. Better(r[k], r[i])
    <3>1. r[k].cost = Distance[e][g] /\ r[k].occurrences = Occurrences(l, g)
      BY <2>3, CompleteResults
    <3> QED  BY <2>2, <3>1 DEF Better, Goodness
  <2>5. ~(i < k)
    BY <2>4, CompleteResults
  <2>6. k # i
    <3>1. ~Better(r[i], r[i])
      BY CompleteResults DEF Better
    <3> QED  BY <2>4, <3>1
  <2>7. k # b
    BY <1>1, <2>1, <2>3
  <2> QED  BY <1>2, <2>3, <2>5, <2>6, <2>7
<1>4. ASSUME NEW g \in G
      PROVE  /\ at[g] \in (1..i - 1) \ {b}
             /\ at[g] \in DOMAIN r /\ r[at[g]].expression = g
  <2>1. PICK k \in (1..i - 1) \ {b} : k \in DOMAIN r /\ r[k].expression = g
    BY <1>3
  <2>2. at[g] = CHOOSE m \in DOMAIN r : r[m].expression = g
    OBVIOUS
  <2>3. at[g] \in DOMAIN r /\ r[at[g]].expression = g
    BY <2>1, <2>2
  <2> QED  BY <2>1, <2>3, CompleteResults
<1> HIDE DEF at, G
<1>5. at \in Injection(G, (1..i - 1) \ {b})
  <2>1. DOMAIN at = G
    BY DEF at
  <2> QED  BY <1>4, <2>1 DEF Injection, IsInjective, at
<1>6. /\ IsFiniteSet((1..i - 1) \ {b})
      /\ Cardinality((1..i - 1) \ {b}) = i - 2
  <2>1. i - 1 \in Nat /\ b \in 1..i - 1 /\ (i - 1) - 1 = i - 2
    BY <1>1, <1>2
  <2> QED  BY <2>1, IntervalWithoutOne
<1>7. Cardinality(G) <= i - 2 /\ Cardinality(G) \in Nat
  <2>1. IsFiniteSet(G) /\ Cardinality(G) <= Cardinality((1..i - 1) \ {b})
    BY <1>5, <1>6, FS_Injection, Zenon
  <2> QED  BY <1>6, <2>1, FS_CardinalityType
<1>8. Cardinality(G) < max_autocorrections - 1
  BY <1>2, <1>7, BoundsAssumption
<1> QED  BY <1>2, <1>8, SuggestionsAre DEF G

(* A suggestion is listed, or one that occurs as often is in its place.    *)
LEMMA SuggestedIsListed ==
  ASSUME NEW l \in Levels, NEW e \in Expressions, NEW r \in Seq(AnyResult),
         ResultsFor(1, l, e, r), CompleteFor(l, e, r),
         NEW f \in Suggestions(l, e)
  PROVE  \E k \in DOMAIN r : /\ r[k].expression # e
                            /\ r[k].occurrences = Occurrences(l, f)
<1> DEFINE G == BetterThan(l, e, f)
<1>1. /\ f \in Near(l, e) \ {e} /\ f \in All(l, e)
      /\ Cardinality(G) < max_autocorrections - 1
  BY SuggestionsAre DEF All
<1>2. CASE \E k \in DOMAIN r : r[k].expression = f
  BY <1>1, <1>2, CompleteResults
<1>3. CASE \A k \in DOMAIN r : r[k].expression # f
  <2>1. /\ Len(r) = max_autocorrections
        /\ \A k \in DOMAIN r : ~Better(Goodness(l, e, f), r[k])
    BY <1>1, <1>3, CompleteResults
  <2>2. IsFiniteSet(G) /\ Cardinality(G) \in Nat
    <3>1. G \in SUBSET Near(l, e)
      BY DEF BetterThan
    <3> HIDE DEF G
    <3> QED  BY <3>1, NearFinite, FS_Subset, FS_CardinalityType
  <2>3. Len(r) \in Nat /\ Len(r) > 1 /\ DOMAIN r = 1..Len(r)
    BY <1>1, <2>1, <2>2, BoundsAssumption
  <2>4. PICK b \in DOMAIN r : /\ r[b].expression = e
                              /\ \A k \in DOMAIN r : k # b => r[k].cost # 0
    BY <2>3, ItselfIsListed
  <2> DEFINE S == (1..Len(r)) \ {b}
             of == [k \in S |-> r[k].expression]
  <2>5. \E k \in S : ~Better(r[k], Goodness(l, e, f))
    <3> SUFFICES ASSUME \A k \in S : Better(r[k], Goodness(l, e, f))
                 PROVE  FALSE
      OBVIOUS
    <3>1. ASSUME NEW k \in S PROVE r[k].expression \in G
      <4>1. /\ k \in DOMAIN r /\ k # b
            /\ r[k].cost = Distance[e][r[k].expression]
            /\ r[k].occurrences = Occurrences(l, r[k].expression)
            /\ r[k].expression \in All(l, e) /\ r[k].expression # e
        BY <2>3, <2>4, CompleteResults
      <4>2. Better(Goodness(l, e, r[k].expression), Goodness(l, e, f))
        BY <4>1 DEF Better, Goodness
      <4> QED  BY <4>1, <4>2 DEF BetterThan, All
    <3>2. \A j, k \in S : r[j].expression = r[k].expression => j = k
      BY <2>3, CompleteResults
    <3> HIDE DEF G
    <3>3. of \in Injection(S, G)
      BY <3>1, <3>2 DEF Injection, IsInjective
    <3>5. Cardinality(S) = Len(r) - 1
      BY <2>3, IntervalWithoutOne
    <3> HIDE DEF S, of
    <3>6. Cardinality(S) <= Cardinality(G)
      BY <2>2, <3>3, FS_Injection, Zenon
    <3> QED  BY <1>1, <2>1, <2>2, <2>3, <3>5, <3>6
  <2>6. PICK k \in S : ~Better(r[k], Goodness(l, e, f))
    BY <2>5
  <2>7. /\ k \in DOMAIN r /\ r[k].expression # e
        /\ r[k].cost \in Nat /\ r[k].occurrences \in Nat
    BY <2>3, <2>4, <2>6, CompleteResults
  <2>8. Distance[e][f] \in Nat /\ Occurrences(l, f) \in Nat
    <3>1. f \in Expressions
      BY <1>1, NearFinite
    <3> QED  BY <3>1, DistanceAssumption, TrainedAssumption DEF Occurrences
  <2>9. r[k].occurrences = Occurrences(l, f)
    BY <2>1, <2>6, <2>7, <2>8 DEF Better, Goodness
  <2> QED  BY <2>7, <2>9
<1> QED  BY <1>2, <1>3

(* The verdict on complete results is that of the training set.            *)
LEMMA VerdictIsAnomaly ==
  ASSUME NEW l \in Levels, NEW e \in Expressions, NEW r \in Seq(AnyResult),
         ResultsFor(1, l, e, r), CompleteFor(l, e, r)
  PROVE  (l = "TWO" \/ e \in DOMAIN Trained[l]) /\ IsPotentialAnomaly(r)
           <=> IsAnomaly(l, e)
<1> DEFINE Rare(n) == Occurrences(l, e) * 100 <= anomaly_threshold * n
<1>1. \A f \in Suggestions(l, e) :
        f \in DOMAIN Trained[l] /\ Trained[l][f] = Occurrences(l, f)
  BY NearFinite, SuggestionsAre DEF Occurrences
<1>2. ASSUME IsPotentialAnomaly(r)
      PROVE  /\ Suggestions(l, e) # {}
             /\ \A f \in Suggestions(l, e) : Rare(Trained[l][f])
  <2>1. PICK b \in DOMAIN r :
          /\ r[b].cost = 0
          /\ \E k \in DOMAIN r : r[k].cost # 0
          /\ \A k \in DOMAIN r : r[k].cost # 0 => IsRare(r[b], r[k])
    BY <1>2 DEF IsPotentialAnomaly
  <2>2. r[b].expression = e /\ r[b].occurrences = Occurrences(l, e)
    BY <2>1, CompleteResults
  <2>3. Suggestions(l, e) # {}
    BY <2>1, CompleteResults, ListedIsSuggested
  <2>4. ASSUME NEW f \in Suggestions(l, e) PROVE Rare(Trained[l][f])
    <3>1. PICK k \in DOMAIN r : /\ r[k].expression # e
                                /\ r[k].occurrences = Occurrences(l, f)
      BY SuggestedIsListed
    <3>2. IsRare(r[b], r[k])
      BY <2>1, <3>1, CompleteResults
    <3> QED  BY <1>1, <2>2, <3>1, <3>2 DEF IsRare
  <2> QED  BY <2>3, <2>4
<1>3. ASSUME Suggestions(l, e) # {},
             \A f \in Suggestions(l, e) : Rare(Trained[l][f])
      PROVE  IsPotentialAnomaly(r)
  <2>1. PICK k \in DOMAIN r : r[k].expression # e
    BY <1>3, SuggestedIsListed
  <2>2. PICK b \in DOMAIN r :
          /\ r[b].expression = e /\ r[b].cost = 0
          /\ \A m \in DOMAIN r : m # b => r[m].cost # 0 /\ b < m
    <3>1. Len(r) > 0
      BY <2>1, CompleteResults
    <3> QED  BY <3>1, ItselfIsListed
  <2>3. \A m \in 1..b - 1 : r[m].cost # 0
    BY <2>2, CompleteResults
  <2>4. r[k].cost # 0
    BY <2>1, CompleteResults
  <2>5. ASSUME NEW m \in DOMAIN r, r[m].cost # 0 PROVE IsRare(r[b], r[m])
    <3>1. r[m].expression # e
      BY <2>5, CompleteResults
    <3>2. r[m].expression \in Suggestions(l, e)
      BY <3>1, ListedIsSuggested
    <3>3. /\ r[m].occurrences = Occurrences(l, r[m].expression)
          /\ r[b].occurrences = Occurrences(l, e)
      BY <2>2, CompleteResults
    <3> QED  BY <1>1, <1>3, <3>2, <3>3 DEF IsRare
  <2> QED  BY <2>2, <2>3, <2>4, <2>5 DEF IsPotentialAnomaly
<1> QED
  BY <1>2, <1>3 DEF IsAnomaly

LEMMA InitCompleteness == Init => CompletenessInv
BY DEF Init, CompletenessInv

LEMMA CompletenessStep ==
  IInv /\ CompletenessInv /\ [Next]_vars => CompletenessInv'
<1> SUFFICES ASSUME IInv, CompletenessInv, [Next]_vars, num_workers = 1
             PROVE  CompletenessInv'
  BY ConfigStays DEF CompletenessInv
<1> DEFINE ScannerDone(t) ==
             pc[t] \in {"insert", "judge"} =>
               CompleteFor(level[t], Expression(t), nearest_expressions[t])
           CacheDone(l) ==
             \A e \in DOMAIN expression_cache[l] :
               CompleteFor(l, e, expression_cache[l][e])
           VerdictDone(v) ==
             CompleteFor(v.level, v.block[v.level], v.results)
           LogDone(t) == \A k \in DOMAIN log[t] : VerdictDone(log[t][k])
<1>1. /\ TypeOK
      /\ \A t \in Scanners : ScannerDone(t) /\ LogDone(t) /\ ScannerOK(t)
      /\ \A l \in Levels : CacheDone(l)
  <2>1. TypeOK /\ \A t \in Scanners : ScannerOK(t)
    BY DEF IInv, ScannerInv, ScannerOK
  <2> QED  BY <2>1 DEF CompletenessInv
<1>2. SUFFICES /\ \A t \in Scanners : ScannerDone(t)' /\ LogDone(t)'
               /\ \A l \in Levels : CacheDone(l)'
  BY DEF CompletenessInv
<1>3. ASSUME NEW t \in Scanners, Same(t) PROVE ScannerDone(t)'
  BY <1>1, <1>3 DEF Same, Expression
<1>4. CASE UNCHANGED vars
  <2>1. \A t \in Scanners : ScannerDone(t)'
    BY <1>3, <1>4 DEF Same, vars, local
  <2>2. /\ \A t \in Scanners : LogDone(t)'
        /\ \A l \in Levels : CacheDone(l)'
    BY <1>1, <1>4 DEF vars
  <2> QED  BY <2>1, <2>2
<1>5. ASSUME NEW s \in Scanners, NEW b, Goto(s, b) PROVE pc'[s] = b
  BY <1>1, <1>5 DEF Goto, TypeOK
<1>6. ASSUME NEW s \in Scanners, Step(s)
      PROVE  \A t \in Scanners \ {s} : ScannerDone(t)' /\ LogDone(t)'
  <2> SUFFICES ASSUME NEW t \in Scanners, t # s
               PROVE  ScannerDone(t)' /\ LogDone(t)'
    OBVIOUS
  <2>1. log'[t] = log[t] /\ (Same(t) \/ pc'[t] = "died")
    BY <1>1, <1>6, OthersStay
  <2> QED  BY <1>1, <1>3, <2>1
<1>7. ASSUME NEW s \in Scanners, Step(s), ~Judge(s)
      PROVE  LogDone(s)'
  <2>1. log' = log
    BY <1>7
    DEF Step, NextBlock, EndOfFile, LookUp, NodeToStringThrows, CacheHit,
        CacheMiss, Search, SearchFails, CacheInsert
  <2> QED  BY <1>1, <2>1
<1>8. ASSUME NEW s \in Scanners, Step(s), ~CacheInsert(s)
      PROVE  \A l \in Levels : CacheDone(l)'
  <2>1. expression_cache' = expression_cache
    BY <1>8
    DEF Step, NextBlock, EndOfFile, LookUp, NodeToStringThrows, CacheHit,
        CacheMiss, Search, SearchFails, Judge
  <2> QED  BY <1>1, <2>1
<1>9. ASSUME NEW s \in Scanners, Step(s), ~CacheHit(s), ~Search(s)
      PROVE  ScannerDone(s)'
  <2>1. CASE CacheInsert(s)
    <3>1. /\ pc[s] = "insert" /\ Expression(s)' = Expression(s)
          /\ level' = level /\ nearest_expressions' = nearest_expressions
      BY <2>1 DEF CacheInsert, local, Expression
    <3> QED  BY <1>1, <3>1
  <2>2. CASE pc'[s] \notin {"insert", "judge"}
    BY <2>2
  <2>3. CASE \/ NextBlock(s) \/ EndOfFile(s) \/ LookUp(s)
            \/ NodeToStringThrows(s) \/ CacheMiss(s) \/ SearchFails(s)
            \/ Judge(s)
    <3>1. pc'[s] \notin {"insert", "judge"}
      BY <1>1, <1>5, <2>3
      DEF NextBlock, EndOfFile, LookUp, NodeToStringThrows, CacheMiss,
          SearchFails, Judge
    <3> QED  BY <2>2, <3>1
  <2> QED  BY <1>9, <2>1, <2>3 DEF Step
<1>10. ASSUME NEW s \in Scanners, CacheHit(s) PROVE ScannerDone(s)'
  <2> DEFINE r == expression_cache[level[s]][Expression(s)]
  <2>1. /\ Expression(s)' = Expression(s) /\ level' = level
        /\ level[s] \in Levels /\ Expression(s) \in DOMAIN expression_cache[level[s]]
    BY <1>1, <1>10 DEF CacheHit, CacheOf, Expression, TypeOK
  <2>2. nearest_expressions'[s] = r
    BY <1>1, <1>10 DEF CacheHit, CacheOf, TypeOK
  <2>3. CompleteFor(level[s], Expression(s), r)
    BY <1>1, <2>1
  <2> HIDE DEF r
  <2> QED  BY <2>1, <2>2, <2>3
<1>11. ASSUME NEW s \in Scanners, Search(s) PROVE ScannerDone(s)'
  <2> DEFINE l == level[s]
             e == Expression(s)
  <2>1. pc[s] = "search" /\ Expression(s)' = Expression(s) /\ level' = level
    BY <1>11 DEF Search, Expression
  <2>2. l \in Levels /\ e \in Expressions
    BY <1>1, <2>1 DEF TypeOK, ScannerOK
  <2>3. Pushed(s) = PushedFor(l, e)
    BY <1>1, <2>1 DEF ScannerOK, Pushed, PushedFor
  <2>4. PICK v \in Visits(l), stray \in ReadPastEnd :
          \E r \in Ranked(Found(l, e, v) \cup stray \cup PushedFor(l, e)) :
            nearest_expressions' =
              [nearest_expressions EXCEPT ![s] = WithoutCopy(r)]
    BY <1>11, <2>3, Zenon DEF Search
  <2>5. PICK r \in Ranked(Found(l, e, v) \cup stray \cup PushedFor(l, e)) :
          nearest_expressions' =
            [nearest_expressions EXCEPT ![s] = WithoutCopy(r)]
    BY <2>4, Zenon
  <2>6. nearest_expressions'[s] = WithoutCopy(r)
    BY <1>1, <2>5 DEF TypeOK
  <2>7. CompleteFor(l, e, WithoutCopy(r))
    <3> HIDE DEF l, e
    <3> QED  BY <2>2, AloneIsComplete
  <2> QED  BY <2>1, <2>6, <2>7
<1>12. ASSUME NEW s \in Scanners, CacheInsert(s)
       PROVE  \A l \in Levels : CacheDone(l)'
  <2> DEFINE l == level[s]
             e == Expression(s)
             new == [f \in DOMAIN expression_cache[l] \cup {e} |->
                       IF f = e THEN nearest_expressions[s]
                                ELSE expression_cache[l][f]]
  <2>1. l \in Levels /\ CompleteFor(l, e, nearest_expressions[s])
    BY <1>1, <1>12 DEF CacheInsert, TypeOK
  <2>2. expression_cache' = [expression_cache EXCEPT ![l] = new]
    BY <1>12, Zenon DEF CacheInsert, CacheOf, Kept
  <2>3. \A f \in DOMAIN new : CompleteFor(l, f, new[f])
    BY <1>1, <2>1
  <2>4. /\ expression_cache'[l] = new
        /\ \A k \in Levels \ {l} : expression_cache'[k] = expression_cache[k]
    BY <1>1, <2>1, <2>2 DEF TypeOK
  <2> HIDE DEF new, l, e
  <2> QED  BY <1>1, <2>3, <2>4
<1>13. ASSUME NEW s \in Scanners, Judge(s) PROVE LogDone(s)'
  <2> DEFINE a == MayReport(s) /\ IsPotentialAnomaly(nearest_expressions[s])
             v == [block |-> code_block[s], level |-> level[s],
                   anomaly |-> a, results |-> nearest_expressions[s]]
  <2>1. log' = [log EXCEPT ![s] = Append(log[s], v)]
    BY <1>13, Zenon DEF Judge
  <2>2. VerdictDone(v)
    <3>1. CompleteFor(level[s], Expression(s), nearest_expressions[s])
      BY <1>1, <1>13 DEF Judge
    <3>2. /\ v.block[v.level] = Expression(s) /\ v.level = level[s]
          /\ v.results = nearest_expressions[s]
      BY DEF Expression
    <3> HIDE DEF v, a
    <3> QED  BY <3>1, <3>2
  <2> HIDE DEF v, VerdictDone
  <2>3. log \in [Scanners -> Seq(Verdict)]
    BY <1>1 DEF TypeOK, Verdict
  <2>4. log'[s] = Append(log[s], v) /\ log[s] \in Seq(Verdict)
    BY <2>1, <2>3
  <2>5. ASSUME NEW k \in DOMAIN log'[s] PROVE VerdictDone(log'[s][k])
    <3>1. \/ k \in DOMAIN log[s] /\ log'[s][k] = log[s][k]
          \/ log'[s][k] = v
      BY <2>4, <2>5
    <3> QED  BY <1>1, <2>2, <3>1
  <2> QED  BY <2>5 DEF VerdictDone
<1>14. ASSUME NEW s \in Scanners, Step(s)
       PROVE  /\ \A t \in Scanners : ScannerDone(t)' /\ LogDone(t)'
              /\ \A l \in Levels : CacheDone(l)'
  <2> HIDE DEF ScannerDone, LogDone, CacheDone
  <2> QED
    BY <1>6, <1>7, <1>8, <1>9, <1>10, <1>11, <1>12, <1>13, <1>14
<1> HIDE DEF ScannerDone, LogDone, CacheDone
<1> QED  BY <1>4, <1>14 DEF Next, Over

(* With one thread the verdict on an expression is a function of the       *)
(* training set, from the cache or not, in whatever order ties are sorted. *)
THEOREM VerdictsCorrect == Spec => []VerdictsFollowTraining
<1>1. IInv /\ CompletenessInv => VerdictsFollowTraining
  <2> SUFFICES ASSUME IInv, CompletenessInv, num_workers = 1,
                      NEW v \in Verdicts
               PROVE  v.anomaly <=> IsAnomaly(v.level, v.block[v.level])
    BY DEF VerdictsFollowTraining
  <2> DEFINE e == v.block[v.level]
             r == v.results
             l == v.level
  <2>0. PICK s \in Scanners : v \in ToSet(log[s])
    BY DEF Verdicts
  <2>1. PICK i \in DOMAIN log[s] : v = log[s][i]
    BY <2>0 DEF ToSet
  <2>2. v \in Verdict
    <3>1. log \in [Scanners -> Seq(Verdict)]
      BY DEF IInv, TypeOK, Verdict
    <3> QED  BY <2>1, <3>1
  <2>3. /\ e \in Expressions
        /\ ResultsFor(num_workers, l, e, r)
        /\ v.anomaly <=> /\ l = "TWO" \/ e \in DOMAIN Trained[l]
                         /\ IsPotentialAnomaly(r)
    BY <2>1 DEF IInv, LogInv
  <2>4. l \in Levels /\ r \in Seq(AnyResult)
    BY <2>2 DEF Verdict
  <2>5. CompleteFor(l, e, r)
    BY <2>1 DEF CompletenessInv
  <2> HIDE DEF e, r, l
  <2>6. v.anomaly <=> IsAnomaly(l, e)
    BY <2>3, <2>4, <2>5, VerdictIsAnomaly
  <2> QED  BY <2>6 DEF e, l
<1>2. Init => IInv /\ CompletenessInv
  BY InitIInv, InitCompleteness
<1>3. IInv /\ CompletenessInv /\ [Next]_vars => CompletenessInv'
  BY CompletenessStep
<1> QED
  BY <1>1, <1>2, <1>3, InvariantCorrect, PTL DEF Spec
=============================================================================
