------------------------- MODULE TrieTraversalProofs -------------------------
(***************************************************************************)
(* What holds of the trie traversal for any number of paths and workers.   *)
(*                                                                         *)
(* The invariant is built in layers, each inductive given the layers under *)
(* it: types and control, the race on the index, the claims counted        *)
(* against it, and the results under the mutex.                            *)
(***************************************************************************)
EXTENDS TrieTraversal, FiniteSetTheorems, TLAPS

USE DEF Workers, Paths, NoWorker, LastSpawned, MayJoin, MorePaths, NextIndex,
        WithinMaxCost, MayEnter

LEMMA ConstantTypes ==
  /\ NumPaths \in Nat /\ NumPaths >= 1
  /\ NumWorkers \in Nat /\ NumWorkers >= 1
  /\ Near \subseteq Paths
  /\ NoWorker \notin Workers
BY PathsAssumption, ThreadsAssumption

LEMMA WorkersFinite ==
  IsFiniteSet(Workers) /\ Cardinality(Workers) = NumWorkers
<1>1. NumWorkers \in Int /\ 1 \in Int /\ ~(1 > NumWorkers)
  BY ConstantTypes
<1> QED  BY <1>1, FS_Interval

LEMMA PathsFinite ==
  IsFiniteSet(Paths) /\ Cardinality(Paths) = NumPaths
<1>1. 0 \in Int /\ NumPaths - 1 \in Int /\ ~(0 > NumPaths - 1)
  BY ConstantTypes
<1> QED  BY <1>1, FS_Interval, ConstantTypes

-----------------------------------------------------------------------------
(* Types, control and the mutex.  That the result stays a sequence rests   *)
(* on the mutex: the size a worker read when it entered push_back must     *)
(* still be the size of the vector when it stores.                         *)

BaseInv == TypeOK /\ ControlInv /\ LockInv

LEMMA WholeSubSeq ==
  ASSUME NEW s \in Seq(Nat)
  PROVE  SubSeq(s, 1, Len(s)) = s /\ Len(s) \in Nat
OBVIOUS

LEMMA AppendProperties ==
  ASSUME NEW s \in Seq(Nat), NEW e \in Nat
  PROVE  /\ Append(s, e) \in Seq(Nat)
         /\ Len(Append(s, e)) = Len(s) + 1
         /\ SubSeq(Append(s, e), 1, Len(s)) = s
         /\ {Append(s, e)[i] : i \in DOMAIN Append(s, e)}
              = {s[i] : i \in DOMAIN s} \cup {e}
<1>1. Append(s, e) \in Seq(Nat) /\ Len(Append(s, e)) = Len(s) + 1
  OBVIOUS
<1>2. SubSeq(Append(s, e), 1, Len(s)) = s
  OBVIOUS
<1>3. {Append(s, e)[i] : i \in DOMAIN Append(s, e)}
        = {s[i] : i \in DOMAIN s} \cup {e}
  <2>1. DOMAIN s = 1..Len(s) /\ Len(s) \in Nat
    OBVIOUS
  <2>2. DOMAIN Append(s, e) = 1..Len(s) + 1
    OBVIOUS
  <2>3. \A i \in 1..Len(s) : Append(s, e)[i] = s[i]
    OBVIOUS
  <2>4. Append(s, e)[Len(s) + 1] = e
    OBVIOUS
  <2>5. 1..Len(s) + 1 = (1..Len(s)) \cup {Len(s) + 1}
    BY <2>1
  <2> HIDE DEF Paths
  <2> QED  BY <2>1, <2>2, <2>3, <2>4, <2>5, Zenon
<1> QED  BY <1>1, <1>2, <1>3

LEMMA BaseInit == Init => BaseInv
BY ConstantTypes DEF Init, BaseInv, TypeOK, ControlInv, LockInv

LEMMA BaseNext == BaseInv /\ [Next]_vars => BaseInv'
<1> SUFFICES ASSUME BaseInv, [Next]_vars PROVE BaseInv'
  OBVIOUS
<1> USE ConstantTypes DEF BaseInv, TypeOK, ControlInv, LockInv, workerVars, mainVars
<1>1. CASE Spawn
  BY <1>1 DEF Spawn, Goto
<1>2. CASE SpawnFails
  BY <1>2 DEF SpawnFails
<1>3. CASE Join
  BY <1>3 DEF Join
<1>4. CASE Return
  BY <1>4 DEF Return
<1>5. ASSUME NEW w \in Workers, Check(w) PROVE BaseInv'
  BY <1>5 DEF Check, Goto, At
<1>6. ASSUME NEW w \in Workers, Grab(w) PROVE BaseInv'
  BY <1>6 DEF Grab, Goto, At
<1>7. ASSUME NEW w \in Workers, Advance(w) PROVE BaseInv'
  BY <1>7 DEF Advance, Goto, At
<1>8. ASSUME NEW w \in Workers, Evaluate(w) PROVE BaseInv'
  BY <1>8 DEF Evaluate, Goto, At
<1>9. ASSUME NEW w \in Workers, EvaluateOutOfRange(w) PROVE BaseInv'
  BY <1>9 DEF EvaluateOutOfRange, Goto, At
<1>10. ASSUME NEW w \in Workers, Lock(w) PROVE BaseInv'
  <2>1. Len(nearest_expressions) \in Nat
    OBVIOUS
  <2> QED  BY <1>10, <2>1 DEF Lock, Goto, At
<1>11. ASSUME NEW w \in Workers, PushBack(w) PROVE BaseInv'
  <2>1. nearest_expressions' =
          Append(nearest_expressions, path_occurrences[w])
    BY <1>11, WholeSubSeq DEF PushBack, At
  <2>2. nearest_expressions' \in Seq(Nat)
    BY <2>1, AppendProperties
  <2>3. TypeOK'
    BY <1>11, <2>2 DEF PushBack, At, Goto
  <2>4. LockInv' /\ ControlInv'
    BY <1>11 DEF PushBack, At, Goto
  <2> QED  BY <2>3, <2>4
<1>12. CASE UNCHANGED vars
  BY <1>12 DEF vars
<1> QED
  BY <1>1, <1>2, <1>3, <1>4, <1>5, <1>6, <1>7, <1>8, <1>9, <1>10, <1>11,
     <1>12 DEF Next, MainStep, WorkerStep, Over

(* Types, control and the mutex are right in every reachable state.        *)
THEOREM BaseCorrect == Spec => []BaseInv
BY BaseInit, BaseNext, PTL DEF Spec

(* Every variable of the traversal keeps its type: the index stays a       *)
(* natural number and the result a sequence of path indexes, whatever the  *)
(* workers' interleaving.                                                  *)
THEOREM TypeCorrect == Spec => []TypeOK
BY BaseCorrect, PTL DEF BaseInv

-----------------------------------------------------------------------------
(* The race on the index.                                                  *)

RaceInv == OvershootInv /\ ClaimInv /\ CountInv

LEMMA OvertakingFinite ==
  /\ IsFiniteSet(Overtaking)
  /\ Cardinality(Overtaking) \in Nat
  /\ Cardinality(Overtaking) <= NumWorkers
<1>1. Overtaking \in SUBSET Workers
  BY DEF Overtaking
<1> QED  BY <1>1, WorkersFinite, FS_Subset, FS_CardinalityType

LEMMA RaceInit == Init => RaceInv
<1> SUFFICES ASSUME Init PROVE RaceInv
  OBVIOUS
<1>1. Overtaking = {} /\ claims = {} /\ InRange = {}
  BY DEF Init, Overtaking, InRange
<1>2. Cardinality({}) = 0 /\ IsFiniteSet({})
  BY FS_EmptySet
<1> QED
  BY <1>1, <1>2, ConstantTypes
     DEF Init, RaceInv, OvershootInv, ClaimInv, CountInv

(* A step that leaves index and claims alone, takes no new path and does   *)
(* not test the bound, leaves the race as it was.                          *)
LEMMA RaceUnmoved ==
  ASSUME RaceInv,
         path_index' = path_index, claims' = claims,
         Overtaking' = Overtaking,
         \A w \in Workers : pc'[w] = "advance" =>
           pc[w] = "advance" /\ path_occurrences'[w] = path_occurrences[w]
  PROVE  RaceInv'
<1>1. InRange' = InRange
  BY DEF InRange
<1> QED  BY <1>1 DEF RaceInv, OvershootInv, ClaimInv, CountInv

LEMMA RaceCheck ==
  ASSUME BaseInv, RaceInv, NEW w \in Workers, Check(w)
  PROVE  RaceInv'
<1> USE DEF BaseInv, TypeOK
<1>1. InRange' = InRange
  BY DEF InRange, Check
<1>2. ClaimInv' /\ CountInv'
  BY <1>1 DEF RaceInv, ClaimInv, CountInv, Check, Goto
<1>3. CASE path_index < NumPaths
  <2>1. Cardinality(Overtaking') \in Nat /\ Cardinality(Overtaking') <= NumWorkers
    <3>1. Overtaking' \in SUBSET Workers
      BY DEF Overtaking
    <3>2. /\ IsFiniteSet(Overtaking')
          /\ Cardinality(Overtaking') <= Cardinality(Workers)
      BY <3>1, WorkersFinite, FS_Subset
    <3> QED  BY <3>2, WorkersFinite, FS_CardinalityType
  <2> QED
    BY <1>2, <1>3, <2>1, ConstantTypes DEF RaceInv, OvershootInv, Check
<1>4. CASE ~(path_index < NumPaths)
  <2>1. Overtaking' = Overtaking
    BY <1>4 DEF Overtaking, Check, At, Goto
  <2> QED  BY <1>2, <2>1 DEF RaceInv, OvershootInv, Check
<1> QED  BY <1>3, <1>4

LEMMA RaceGrab ==
  ASSUME BaseInv, RaceInv, NEW w \in Workers, Grab(w)
  PROVE  RaceInv'
<1> USE DEF BaseInv, TypeOK
<1>1. InRange' = InRange
  BY DEF InRange, Grab
<1>2. Overtaking' = Overtaking
  BY DEF Overtaking, Grab, At, Goto
<1>3. \A c \in claims : c[2] \in Nat /\ c[2] < path_index
  BY DEF RaceInv, ClaimInv
<1>4. ClaimInv'
  BY <1>3 DEF RaceInv, ClaimInv, Grab, Goto
<1> QED
  BY <1>1, <1>2, <1>4 DEF RaceInv, OvershootInv, CountInv, Grab

(* The claim is fresh, because the worker's earlier claims are all below   *)
(* the index it read, so the claims go on counting the increments.         *)
LEMMA RaceAdvance ==
  ASSUME BaseInv, RaceInv, NEW w \in Workers, Advance(w)
  PROVE  RaceInv'
<1> USE DEF BaseInv, TypeOK
<1> DEFINE k == path_occurrences[w]
           c0 == <<w, k>>
<1>1. /\ k \in Nat /\ k <= path_index
      /\ \A c \in claims : c[1] = w => c[2] < k
  BY DEF RaceInv, ClaimInv, Advance, At
<1>2. c0 \notin claims
  BY <1>1
<1>3. w \in Overtaking
  BY DEF Overtaking, Advance, At
<1>4. Overtaking' = Overtaking \ {w}
  BY DEF Overtaking, Advance, At, Goto
<1>5. /\ Cardinality(Overtaking') = Cardinality(Overtaking) - 1
      /\ Cardinality(Overtaking) \in Nat
  BY <1>3, <1>4, OvertakingFinite, FS_RemoveElement
<1>6. Cardinality(Overtaking) >= 1
  <2>1. Cardinality(Overtaking') \in Nat
    BY <1>4, OvertakingFinite, FS_RemoveElement, FS_CardinalityType
  <2> QED  BY <2>1, <1>5
<1>7. OvershootInv'
  BY <1>5, ConstantTypes DEF RaceInv, OvershootInv, Advance
<1>8. k < NumPaths + NumWorkers - 1
  BY <1>1, <1>5, <1>6, ConstantTypes DEF RaceInv, OvershootInv
<1>9. claims' = claims \cup {c0} /\ path_index' = path_index + 1
  BY DEF Advance
<1>10. ClaimInv'
  <2>1. \A c \in claims' :
          c[2] < path_index' /\ c[2] < NumPaths + NumWorkers - 1
    BY <1>1, <1>8, <1>9, ConstantTypes DEF RaceInv, ClaimInv
  <2>2. ASSUME NEW v \in Workers, pc'[v] = "advance"
        PROVE  /\ path_occurrences'[v] <= path_index'
               /\ \A c \in claims' : c[1] = v => c[2] < path_occurrences'[v]
    <3>1. v # w /\ pc[v] = "advance" /\ path_occurrences'[v] = path_occurrences[v]
      BY <2>2 DEF Advance, At, Goto
    <3>2. /\ path_occurrences[v] <= path_index
          /\ \A c \in claims : c[1] = v => c[2] < path_occurrences[v]
      BY <3>1 DEF RaceInv, ClaimInv
    <3>3. path_occurrences[v] \in Nat /\ c0[1] = w
      OBVIOUS
    <3> HIDE DEF c0, k
    <3> QED  BY <3>1, <3>2, <3>3, <1>9
  <2> QED  BY <2>1, <2>2 DEF ClaimInv
<1>11. CountInv'
  <2>1. IsFiniteSet(claims') /\ Cardinality(claims') = path_index'
    BY <1>2, <1>9, FS_AddElement DEF RaceInv, CountInv
  <2>2. IsFiniteSet(InRange) /\ Cardinality(InRange) \in Nat
    BY FS_Subset, FS_CardinalityType DEF RaceInv, CountInv, InRange
  <2>3. CASE k < NumPaths
    <3>1. InRange' = InRange \cup {c0} /\ c0 \notin InRange
      BY <1>2, <1>9, <2>3 DEF InRange
    <3>2. Cardinality(InRange') = Cardinality(InRange) + 1
      BY <2>2, <3>1, FS_AddElement
    <3> QED
      BY <1>9, <2>1, <2>2, <3>2, ConstantTypes DEF RaceInv, CountInv
  <2>4. CASE ~(k < NumPaths)
    <3>1. InRange' = InRange
      BY <1>9, <2>4 DEF InRange
    <3>2. ~(path_index < NumPaths) /\ ~(path_index' < NumPaths)
      BY <1>1, <1>9, <2>4, ConstantTypes
    <3> QED
      BY <2>1, <3>1, <3>2 DEF RaceInv, CountInv
  <2> QED  BY <2>3, <2>4
<1> QED  BY <1>7, <1>10, <1>11 DEF RaceInv

LEMMA RaceNext == BaseInv /\ RaceInv /\ [Next]_vars => RaceInv'
<1> SUFFICES ASSUME BaseInv, RaceInv, [Next]_vars PROVE RaceInv'
  OBVIOUS
<1> USE DEF BaseInv, TypeOK, ControlInv, Overtaking, workerVars, mainVars
<1>1. CASE Spawn
  <2>1. pc[spawned + 1] = "idle" /\ spawned + 1 \in Workers
    BY <1>1, ConstantTypes DEF Spawn
  <2> QED  BY <1>1, <2>1, RaceUnmoved DEF Spawn, Goto
<1>2. CASE SpawnFails \/ Join \/ Return \/ UNCHANGED vars
  BY <1>2, RaceUnmoved DEF SpawnFails, Join, Return, vars
<1>3. ASSUME NEW w \in Workers, Evaluate(w) PROVE RaceInv'
  BY <1>3, RaceUnmoved DEF Evaluate, Goto, At
<1>4. ASSUME NEW w \in Workers, EvaluateOutOfRange(w) PROVE RaceInv'
  BY <1>4, RaceUnmoved DEF EvaluateOutOfRange, Goto, At
<1>5. ASSUME NEW w \in Workers, Lock(w) PROVE RaceInv'
  BY <1>5, RaceUnmoved DEF Lock, Goto, At
<1>6. ASSUME NEW w \in Workers, PushBack(w) PROVE RaceInv'
  BY <1>6, RaceUnmoved DEF PushBack, Goto, At
<1> QED
  BY <1>1, <1>2, <1>3, <1>4, <1>5, <1>6, RaceCheck, RaceGrab, RaceAdvance
     DEF Next, MainStep, WorkerStep, Over

(* In every reachable state each increment of the index stands for a claim *)
(* of its own, and the workers about to increment it cannot carry it more  *)
(* than NumWorkers - 1 past the end.                                       *)
THEOREM RaceCorrect == Spec => [](BaseInv /\ RaceInv)
BY BaseCorrect, RaceInit, RaceNext, PTL DEF Spec

(* For any number of workers and paths, no worker reads further than       *)
(* NumWorkers - 1 elements past the end of all_trie_paths.                 *)
THEOREM OvershootCorrect == Spec => []OvershootBound
<1>1. BaseInv /\ RaceInv => OvershootBound
  <2> SUFFICES ASSUME BaseInv, RaceInv PROVE OvershootBound
    OBVIOUS
  <2>1. path_index < NumPaths + NumWorkers
    BY OvertakingFinite, ConstantTypes
       DEF RaceInv, OvershootInv, BaseInv, TypeOK
  <2> QED  BY <2>1 DEF RaceInv, ClaimInv, OvershootBound
<1> QED  BY <1>1, RaceCorrect, PTL

(* For any number of workers and paths, every increment of the index       *)
(* stands for a path taken by a worker that had not taken it before.       *)
THEOREM FreshClaimsCorrect == Spec => []EveryClaimIsFresh
<1>1. RaceInv => EveryClaimIsFresh
  BY DEF RaceInv, CountInv, EveryClaimIsFresh
<1> QED  BY <1>1, RaceCorrect, PTL

(* The claims of existing paths pair a worker with a visited path, so      *)
(* there are at most NumWorkers of them for each visited path.             *)
LEMMA VisitedCount ==
  ASSUME BaseInv, RaceInv
  PROVE  /\ Cardinality(Visited) \in Nat
         /\ NumWorkers * Cardinality(Visited) >= Cardinality(InRange)
         /\ Cardinality(InRange) \in Nat
<1>1. IsFiniteSet(Visited) /\ Cardinality(Visited) \in Nat
  <2>1. Visited \in SUBSET Paths
    BY DEF Visited
  <2> QED  BY <2>1, PathsFinite, FS_Subset, FS_CardinalityType
<1>2. /\ IsFiniteSet(Workers \X Visited)
      /\ Cardinality(Workers \X Visited) = NumWorkers * Cardinality(Visited)
  BY <1>1, WorkersFinite, FS_Product
<1>3. InRange \in SUBSET (Workers \X Visited)
  <2> SUFFICES ASSUME NEW c \in InRange PROVE c \in Workers \X Visited
    OBVIOUS
  <2>1. c \in claims /\ c \in Workers \X Nat /\ c[2] < NumPaths
    BY DEF InRange, BaseInv, TypeOK
  <2>2. c = <<c[1], c[2]>> /\ c[1] \in Workers /\ c[2] \in Paths
    BY <2>1, ConstantTypes
  <2>3. c[2] \in Visited
    BY <2>1, <2>2 DEF Visited
  <2> QED  BY <2>2, <2>3
<1>4. /\ IsFiniteSet(InRange)
      /\ Cardinality(InRange) <= Cardinality(Workers \X Visited)
  BY <1>2, <1>3, FS_Subset
<1>5. Cardinality(InRange) \in Nat /\ Cardinality(Workers \X Visited) \in Nat
  BY <1>2, <1>4, FS_CardinalityType
<1> QED  BY <1>1, <1>2, <1>4, <1>5

LEMMA ReturnedCount ==
  ASSUME BaseInv, RaceInv, main = "returned"
  PROVE  NumWorkers * Cardinality(Visited) >= NumPaths
<1>1. pc[1] = "done" /\ path_index >= NumPaths
  BY ConstantTypes DEF BaseInv, TypeOK, ControlInv
<1>2. Cardinality(InRange) >= NumPaths
  BY <1>1, ConstantTypes DEF RaceInv, CountInv, BaseInv, TypeOK
<1> QED
  <2> HIDE DEF Workers, Paths
  <2>1. NumWorkers * Cardinality(Visited) \in Nat
    BY VisitedCount, ConstantTypes
  <2> QED  BY <1>2, <2>1, VisitedCount, ConstantTypes

(* For any number of workers and paths: when the search returns, at least  *)
(* one path in NumWorkers has been compared with the target.               *)
THEOREM CoverageCorrect == Spec => []CoverageBound
<1>1. BaseInv /\ RaceInv => CoverageBound
  BY ReturnedCount DEF CoverageBound
<1> QED  BY <1>1, RaceCorrect, PTL

(* For any number of workers, the call never leaves a worker behind that   *)
(* could use its locals, whether it returns or throws.                     *)
THEOREM NoDanglingCorrect == Spec => []NoDanglingWorker
<1>1. BaseInv => NoDanglingWorker
  BY ConstantTypes DEF BaseInv, TypeOK, ControlInv, NoDanglingWorker
<1> QED  BY <1>1, BaseCorrect, PTL

-----------------------------------------------------------------------------
(* The results.                                                            *)

LEMMA ResultInit == Init => ResultInv
<1> SUFFICES ASSUME Init PROVE ResultInv
  OBVIOUS
<1>1. DOMAIN nearest_expressions = {}
  BY DEF Init
<1>2. Results = {}
  BY <1>1 DEF Results
<1> QED  BY <1>2 DEF Init, ResultInv

(* A step that leaves claims and results alone keeps ResultInv when no     *)
(* worker starts or finishes being busy with a near path.                  *)
LEMMA ResultUnmoved ==
  ASSUME BaseInv, ResultInv,
         claims' = claims, nearest_expressions' = nearest_expressions,
         \A w \in Workers :
           \/ pc'[w] = pc[w] /\ path_occurrences'[w] = path_occurrences[w]
           \/ /\ pc[w] \notin {"evaluate", "lock", "push"}
              /\ pc'[w] \notin {"evaluate", "lock", "push"}
           \/ /\ pc[w] \in {"lock", "push"} /\ pc'[w] \in {"lock", "push"}
              /\ path_occurrences'[w] = path_occurrences[w]
           \/ /\ pc[w] = "evaluate"
              /\ path_occurrences'[w] = path_occurrences[w]
              /\ path_occurrences[w] \in Near => pc'[w] = "lock"
              /\ pc'[w] = "lock" =>
                   \/ path_occurrences[w] \in Near
                   \/ path_occurrences[w] >= NumPaths
              /\ pc'[w] \in {"lock", "check"}
  PROVE  ResultInv'
<1> USE DEF ResultInv
<1>1. Results' = Results
  BY DEF Results
<1>2. Visited' = Visited
  BY DEF Visited
<1>3. ASSUME NEW w \in Workers
      PROVE  BusyWith(w)' \cap Near = BusyWith(w) \cap Near
  BY DEF BusyWith
<1>4. \A c \in claims' : c[1] \in Workers
  BY DEF BaseInv, TypeOK
<1>5. \A c \in claims' : c[2] \in Near \ BusyWith(c[1])' => c[2] \in Results'
  BY <1>1, <1>3, <1>4
<1>6. (Results \cap Paths \subseteq Visited \cap Near)'
  BY <1>1, <1>2
<1>7. ASSUME NEW w \in Workers
      PROVE  /\ pc'[w] \in {"evaluate", "lock", "push"} =>
                  <<w, path_occurrences'[w]>> \in claims'
             /\ pc'[w] \in {"lock", "push"} =>
                  \/ path_occurrences'[w] \in Near
                  \/ path_occurrences'[w] >= NumPaths
  OBVIOUS
<1> QED  BY <1>5, <1>6, <1>7

LEMMA ResultAdvance ==
  ASSUME BaseInv, ResultInv, NEW w \in Workers, Advance(w)
  PROVE  ResultInv'
<1> USE DEF BaseInv, TypeOK
<1>1. /\ claims' = claims \cup {<<w, path_occurrences[w]>>}
      /\ path_occurrences' = path_occurrences
      /\ pc[w] = "advance" /\ pc' = [pc EXCEPT ![w] = "evaluate"]
      /\ nearest_expressions' = nearest_expressions
  BY DEF Advance, At, Goto
<1>2. Results' = Results
  BY <1>1 DEF Results
<1>3. Visited \subseteq Visited'
  BY <1>1 DEF Visited
<1>4. ASSUME NEW v \in Workers
      PROVE  BusyWith(v) \subseteq BusyWith(v)'
  BY <1>1 DEF BusyWith
<1>5. path_occurrences[w] \in BusyWith(w)'
  BY <1>1 DEF BusyWith
<1>6. ASSUME NEW c \in claims', c[2] \in Near \ BusyWith(c[1])'
      PROVE  c[2] \in Results'
  <2>1. CASE c \in claims
    BY <1>2, <1>4, <1>6, <2>1 DEF ResultInv
  <2>2. CASE c = <<w, path_occurrences[w]>>
    BY <1>5, <1>6, <2>2
  <2> QED  BY <1>1, <2>1, <2>2
<1>7. ASSUME NEW v \in Workers
      PROVE  /\ pc'[v] \in {"evaluate", "lock", "push"} =>
                  <<v, path_occurrences'[v]>> \in claims'
             /\ pc'[v] \in {"lock", "push"} =>
                  \/ path_occurrences'[v] \in Near
                  \/ path_occurrences'[v] >= NumPaths
  BY <1>1 DEF ResultInv
<1> QED  BY <1>2, <1>3, <1>6, <1>7 DEF ResultInv

LEMMA ResultPushBack ==
  ASSUME BaseInv, ResultInv, NEW w \in Workers, PushBack(w)
  PROVE  ResultInv'
<1> DEFINE k == path_occurrences[w]
<1> USE DEF BaseInv, TypeOK
<1>1. /\ claims' = claims
      /\ path_occurrences' = path_occurrences
      /\ pc[w] = "push" /\ pc' = [pc EXCEPT ![w] = "check"]
  BY DEF PushBack, At, Goto
<1>2. k \in Nat /\ <<w, k>> \in claims /\ (k \in Near \/ k >= NumPaths)
  BY <1>1 DEF ResultInv
<1>3. nearest_expressions' = Append(nearest_expressions, k)
  BY <1>1, WholeSubSeq DEF PushBack, LockInv
<1>4. Results' = Results \cup {k}
  <2>1. nearest_expressions \in Seq(Nat)
    OBVIOUS
  <2> HIDE DEF k, BaseInv, TypeOK
  <2>2. {Append(nearest_expressions, k)[i] :
            i \in DOMAIN Append(nearest_expressions, k)} = Results \cup {k}
    BY <1>2, <2>1, AppendProperties DEF Results
  <2> QED  BY <1>3, <2>2, Zenon DEF Results
<1>5. Visited' = Visited
  BY <1>1 DEF Visited
<1>6. Results' \cap Paths \subseteq Visited' \cap Near
  <2>1. ASSUME k \in Paths PROVE k \in Visited \cap Near
    <3>1. k < NumPaths /\ k \in Near
      BY <1>2, <2>1, ConstantTypes
    <3> HIDE DEF k
    <3> QED  BY <1>2, <2>1, <3>1 DEF Visited
  <2> QED  BY <1>4, <1>5, <2>1 DEF ResultInv
<1>7. ASSUME NEW c \in claims, c[2] \in Near \ BusyWith(c[1])'
      PROVE  c[2] \in Results'
  <2>1. c[1] \in Workers
    OBVIOUS
  <2>2. CASE c[1] = w /\ c[2] = k
    BY <1>4, <2>2
  <2>3. CASE ~(c[1] = w /\ c[2] = k)
    <3>1. c[2] \notin BusyWith(c[1])
      BY <1>1, <1>7, <2>1, <2>3 DEF BusyWith
    <3> QED  BY <1>4, <1>7, <3>1 DEF ResultInv
  <2> QED  BY <2>2, <2>3
<1>8. ASSUME NEW v \in Workers
      PROVE  /\ pc'[v] \in {"evaluate", "lock", "push"} =>
                  <<v, path_occurrences'[v]>> \in claims'
             /\ pc'[v] \in {"lock", "push"} =>
                  \/ path_occurrences'[v] \in Near
                  \/ path_occurrences'[v] >= NumPaths
  BY <1>1 DEF ResultInv
<1> QED  BY <1>1, <1>6, <1>7, <1>8 DEF ResultInv

LEMMA ResultNext == BaseInv /\ ResultInv /\ [Next]_vars => ResultInv'
<1> SUFFICES ASSUME BaseInv, ResultInv, [Next]_vars PROVE ResultInv'
  OBVIOUS
<1> USE ConstantTypes
    DEF BaseInv, TypeOK, ControlInv, workerVars, mainVars, At, Goto
<1>1. CASE Spawn
  <2>1. pc[spawned + 1] = "idle" /\ spawned + 1 \in Workers
    BY <1>1 DEF Spawn
  <2> QED  BY <1>1, <2>1, ResultUnmoved DEF Spawn
<1>2. CASE SpawnFails \/ Join \/ Return \/ UNCHANGED vars
  BY <1>2, ResultUnmoved DEF SpawnFails, Join, Return, vars
<1>3. ASSUME NEW w \in Workers, Check(w) PROVE ResultInv'
  BY <1>3, ResultUnmoved DEF Check
<1>4. ASSUME NEW w \in Workers, Grab(w) PROVE ResultInv'
  BY <1>4, ResultUnmoved DEF Grab
<1>5. ASSUME NEW w \in Workers, Evaluate(w) PROVE ResultInv'
  BY <1>5, ResultUnmoved DEF Evaluate
<1>6. ASSUME NEW w \in Workers, EvaluateOutOfRange(w) PROVE ResultInv'
  <2>1. path_occurrences[w] \notin Near
    BY <1>6 DEF EvaluateOutOfRange
  <2> QED  BY <1>6, <2>1, ResultUnmoved DEF EvaluateOutOfRange
<1>7. ASSUME NEW w \in Workers, Lock(w) PROVE ResultInv'
  BY <1>7, ResultUnmoved DEF Lock
<1> QED
  BY <1>1, <1>2, <1>3, <1>4, <1>5, <1>6, <1>7, ResultAdvance, ResultPushBack
     DEF Next, MainStep, WorkerStep, Over

(* The inductive invariant holds in every reachable state.                 *)
THEOREM InvariantCorrect == Spec => []IInv
<1>1. BaseInv /\ RaceInv /\ ResultInv <=> IInv
  BY DEF BaseInv, RaceInv, IInv
<1>2. Spec => []ResultInv
  BY BaseCorrect, ResultInit, ResultNext, PTL DEF Spec
<1> QED  BY <1>1, <1>2, RaceCorrect, PTL

(* For any number of workers and paths: the result of a search that        *)
(* returns holds the visited paths near the target, all of them and no     *)
(* other path of the trie.                                                 *)
THEOREM ResultsCorrect == Spec => []ResultsAreTheVisitedNearPaths
<1>1. IInv => ResultsAreTheVisitedNearPaths
  <2> SUFFICES ASSUME IInv, main = "returned"
               PROVE  Results \cap Paths = Visited \cap Near
    BY DEF ResultsAreTheVisitedNearPaths, Results
  <2>1. \A w \in Workers : BusyWith(w) = {}
    BY ConstantTypes DEF IInv, TypeOK, ControlInv, BusyWith
  <2>2. ASSUME NEW k \in Visited \cap Near PROVE k \in Results
    BY <2>1 DEF IInv, ResultInv, Visited
  <2> QED  BY <2>2, ConstantTypes DEF IInv, ResultInv
<1> QED  BY <1>1, InvariantCorrect, PTL

(* With one worker (max_threads below 4) the comment on the loop holds:    *)
(* when the search returns it has visited every path, and the result has   *)
(* every one near the target.                                              *)
THEOREM CompleteAlone == NumWorkers = 1 => (Spec => []CompleteSearch)
<1> SUFFICES ASSUME NumWorkers = 1 PROVE Spec => []CompleteSearch
  OBVIOUS
<1>1. ASSUME BaseInv, RaceInv, main = "returned" PROVE Visited = Paths
  <2>1. Visited \subseteq Paths
    BY DEF Visited
  <2>2. Cardinality(Visited) \in Nat /\ Cardinality(Visited) <= NumPaths
    BY <2>1, PathsFinite, FS_Subset, FS_CardinalityType
  <2>3. Cardinality(Visited) = NumPaths
    BY <1>1, <2>2, ReturnedCount, ConstantTypes DEF CoverageBound
  <2> QED  BY <2>1, <2>3, PathsFinite, FS_Subset
<1>2. IInv => CompleteSearch
  <2> SUFFICES ASSUME IInv, main = "returned", NEW k \in Near
               PROVE  k \in Results
    BY DEF CompleteSearch, Results
  <2>1. k \in Visited
    BY <1>1, ConstantTypes DEF IInv, BaseInv, RaceInv
  <2>2. \A w \in Workers : BusyWith(w) = {}
    BY ConstantTypes DEF IInv, TypeOK, ControlInv, BusyWith
  <2> QED  BY <2>1, <2>2 DEF IInv, ResultInv, Visited
<1> QED  BY <1>2, InvariantCorrect, PTL

(* The index never moves back, no claim is forgotten, and the result grows *)
(* at its end, an entry at a time.                                         *)
THEOREM OnlyGrowsCorrect == Spec => OnlyGrows
<1> DEFINE Grows == /\ path_index' >= path_index
                    /\ claims \subseteq claims'
                    /\ Len(nearest_expressions') <= Len(nearest_expressions) + 1
                    /\ SubSeq(nearest_expressions', 1, Len(nearest_expressions))
                         = nearest_expressions
<1>1. BaseInv /\ [Next]_vars => [Grows]_vars
  <2> SUFFICES ASSUME BaseInv, Next PROVE Grows
    OBVIOUS
  <2>1. path_index \in Nat /\ nearest_expressions \in Seq(Nat)
    BY DEF BaseInv, TypeOK
  <2>2. SubSeq(nearest_expressions, 1, Len(nearest_expressions))
          = nearest_expressions
    BY <2>1, WholeSubSeq
  <2>3. ASSUME UNCHANGED <<path_index, claims, nearest_expressions>>
        PROVE  Grows
    BY <2>1, <2>2, <2>3
  <2>4. ASSUME NEW w \in Workers, Advance(w) PROVE Grows
    BY <2>1, <2>2, <2>4 DEF Advance
  <2>5. ASSUME NEW w \in Workers, PushBack(w) PROVE Grows
    <3>1. path_occurrences[w] \in Nat
      BY DEF BaseInv, TypeOK
    <3>2. nearest_expressions' = Append(nearest_expressions, path_occurrences[w])
      BY <2>2, <2>5 DEF PushBack, At, BaseInv, LockInv
    <3>3. /\ Len(nearest_expressions') = Len(nearest_expressions) + 1
          /\ SubSeq(nearest_expressions', 1, Len(nearest_expressions))
               = nearest_expressions
      <4> HIDE DEF Grows
      <4> QED  BY <2>1, <3>1, <3>2, AppendProperties, Zenon
    <3>4. path_index' = path_index /\ claims' = claims
      BY <2>5 DEF PushBack
    <3>5. Len(nearest_expressions) \in Nat
      BY <2>1
    <3> QED  BY <2>1, <3>3, <3>4, <3>5
  <2> HIDE DEF Grows
  <2> QED
    BY <2>3, <2>4, <2>5
       DEF Next, MainStep, WorkerStep, Over, Spawn, SpawnFails, Join, Return,
           Check, Grab, Evaluate, EvaluateOutOfRange, Lock, vars
<1> QED  BY <1>1, BaseCorrect, PTL DEF Spec, OnlyGrows

-----------------------------------------------------------------------------
(* The traversal as a visit of the paths.                                  *)

(* GreedyVisit counts with the Cardinality of its own instance.            *)
LEMMA SameCardinality ==
  ASSUME NEW S
  PROVE  Visit!Cardinality(S) = Cardinality(S)
BY Zenon DEF Cardinality, Visit!Cardinality

(* Outside Advance and the end of an evaluation nothing of the visit moves. *)
LEMMA VisitUnmoved ==
  ASSUME BaseInv, claims' = claims,
         Results' \cap Paths = Results \cap Paths,
         \A w \in Workers : BusyWith(w)' \cap Paths = BusyWith(w) \cap Paths
  PROVE  /\ VisitsMade' = VisitsMade
         /\ VisitStatus' = VisitStatus => UNCHANGED Visit!vars
<1>1. \A c \in claims : c[1] \in Workers
  BY DEF BaseInv, TypeOK
<1>2. VisitsMade' = VisitsMade
  BY <1>1 DEF VisitsMade
<1> QED  BY <1>2 DEF Visit!vars

LEMMA StatusUnmoved ==
  ASSUME main' = main \/ (main = "spawning" /\ main' = "joining")
  PROVE  VisitStatus' = VisitStatus
BY DEF VisitStatus

(* A worker inside its loop keeps the call from being over.                *)
LEMMA VisitingWhileAtWork ==
  ASSUME BaseInv, NEW w \in Workers, pc[w] \notin {"idle", "done"},
         main # "aborted"
  PROVE  VisitStatus = "visiting"
BY ConstantTypes DEF BaseInv, TypeOK, ControlInv, VisitStatus

LEMMA RefinesInit == Init => Visit!Init
<1> SUFFICES ASSUME Init PROVE Visit!Init
  OBVIOUS
<1>1. DOMAIN nearest_expressions = {}
  BY DEF Init
<1>2. Results = {} /\ VisitsMade = {}
  BY <1>1 DEF Results, VisitsMade, Init
<1> QED  BY <1>2 DEF Init, VisitStatus, Visit!Init

(* A claim is not a visit yet: its worker is busy with the path.           *)
LEMMA VisitAdvance ==
  ASSUME BaseInv, ClaimInv, NEW w \in Workers, Advance(w)
  PROVE  UNCHANGED Visit!vars
<1> USE DEF BaseInv, TypeOK
<1>1. /\ claims' = claims \cup {<<w, path_occurrences[w]>>}
      /\ path_occurrences' = path_occurrences
      /\ pc[w] = "advance" /\ pc' = [pc EXCEPT ![w] = "evaluate"]
      /\ nearest_expressions' = nearest_expressions /\ main' = main
  BY DEF Advance, At, Goto, mainVars
<1>2. \A c \in claims : c[1] = w => c[2] < path_occurrences[w]
  BY <1>1 DEF ClaimInv
<1>3. ASSUME NEW v \in Workers, v # w
      PROVE  BusyWith(v)' = BusyWith(v)
  BY <1>1, <1>3 DEF BusyWith
<1>4. BusyWith(w) = {} /\ BusyWith(w)' = {path_occurrences[w]}
  BY <1>1 DEF BusyWith
<1>5. ASSUME NEW c \in claims
      PROVE  c[2] \in BusyWith(c[1])' <=> c[2] \in BusyWith(c[1])
  <2>1. c[1] \in Workers /\ c[2] \in Nat /\ path_occurrences[w] \in Nat
    OBVIOUS
  <2>2. CASE c[1] = w
    BY <1>2, <1>4, <2>1, <2>2
  <2> QED  BY <1>3, <2>1, <2>2
<1>6. VisitsMade' = VisitsMade
  <2>1. \A c \in claims' :
          c \in VisitsMade' <=> c[2] \in Paths /\ c[2] \notin BusyWith(c[1])'
    BY DEF VisitsMade
  <2>2. <<w, path_occurrences[w]>> \notin VisitsMade'
    BY <1>1, <1>4, <2>1
  <2>3. <<w, path_occurrences[w]>> \notin claims
    BY <1>2
  <2> QED  BY <1>1, <1>5, <2>2, <2>3 DEF VisitsMade
<1>7. Results' = Results /\ VisitStatus' = VisitStatus
  BY <1>1, StatusUnmoved DEF Results
<1> QED  BY <1>6, <1>7 DEF Visit!vars

(* A worker that stops being busy with an existing path has visited it.    *)
LEMMA VisitEnds ==
  ASSUME BaseInv, ResultInv, NEW w \in Workers, main # "aborted",
         pc[w] \in {"evaluate", "push"}, pc' = [pc EXCEPT ![w] = "check"],
         claims' = claims, path_occurrences' = path_occurrences, main' = main,
         path_occurrences[w] \in Paths,
         Results' \cap Paths
           = (Results \cap Paths) \cup ({path_occurrences[w]} \cap Near)
  PROVE  Visit!Visit(w, path_occurrences[w])
<1> USE DEF BaseInv, TypeOK
<1> DEFINE c0 == <<w, path_occurrences[w]>>
<1>1. BusyWith(w) = {path_occurrences[w]} /\ BusyWith(w)' = {}
  BY DEF BusyWith
<1>2. \A v \in Workers : v # w => BusyWith(v)' = BusyWith(v)
  BY DEF BusyWith
<1>3. c0 \in claims /\ c0[1] = w /\ c0[2] = path_occurrences[w]
  BY DEF ResultInv
<1>4. c0 \notin VisitsMade
  BY <1>1, <1>3 DEF VisitsMade
<1>5. \A c \in claims : /\ c[1] \in Workers
                        /\ c = <<c[1], c[2]>>
  OBVIOUS
<1>6. VisitsMade' = VisitsMade \cup {c0}
  <2>1. ASSUME NEW c \in claims
        PROVE  c \in VisitsMade' <=> c \in VisitsMade \/ c = c0
    <3>1. CASE c[1] = w /\ c[2] = path_occurrences[w]
      <4>1. c = c0
        BY <1>5, <3>1
      <4> QED  BY <1>1, <1>3, <4>1 DEF VisitsMade
    <3>2. CASE c[1] = w /\ c[2] # path_occurrences[w]
      BY <1>1, <1>3, <3>2 DEF VisitsMade
    <3>3. CASE c[1] # w
      BY <1>2, <1>3, <1>5, <3>3 DEF VisitsMade
    <3> QED  BY <3>1, <3>2, <3>3
  <2> QED  BY <1>3, <2>1 DEF VisitsMade
<1>7. VisitStatus = "visiting" /\ VisitStatus' = VisitStatus
  BY VisitingWhileAtWork, StatusUnmoved
<1> HIDE DEF c0
<1> QED  BY <1>4, <1>6, <1>7 DEF Visit!Visit, c0

LEMMA VisitEvaluate ==
  ASSUME BaseInv, ResultInv, NEW w \in Workers, Evaluate(w)
  PROVE  [Visit!Next]_(Visit!vars)
<1> USE DEF BaseInv, TypeOK
<1>1. /\ claims' = claims /\ path_occurrences' = path_occurrences
      /\ Results' = Results /\ main' = main /\ main # "aborted"
      /\ pc[w] = "evaluate" /\ path_occurrences[w] \in Paths
  BY ConstantTypes DEF Evaluate, At, Results, mainVars
<1>2. CASE path_occurrences[w] \in Near
  <2>1. \A v \in Workers : BusyWith(v)' = BusyWith(v)
    BY <1>1, <1>2 DEF Evaluate, Goto, BusyWith
  <2> QED  BY <1>1, <2>1, VisitUnmoved, StatusUnmoved
<1>3. CASE path_occurrences[w] \notin Near
  <2>1. pc' = [pc EXCEPT ![w] = "check"]
    BY <1>3 DEF Evaluate, Goto
  <2>2. Visit!Visit(w, path_occurrences[w])
    BY <1>1, <1>3, <2>1, VisitEnds
  <2> QED  BY <1>1, <2>2 DEF Visit!Next
<1> QED  BY <1>2, <1>3

LEMMA VisitOutOfRange ==
  ASSUME BaseInv, NEW w \in Workers, EvaluateOutOfRange(w)
  PROVE  [Visit!Next]_(Visit!vars)
<1> USE DEF BaseInv, TypeOK
<1>1. /\ claims' = claims /\ path_occurrences' = path_occurrences
      /\ Results' = Results /\ main # "aborted"
      /\ pc[w] = "evaluate" /\ path_occurrences[w] \notin Paths
  BY ConstantTypes DEF EvaluateOutOfRange, At, Results
<1>2. \A v \in Workers : BusyWith(v)' \cap Paths = BusyWith(v) \cap Paths
  BY <1>1 DEF EvaluateOutOfRange, Goto, BusyWith
<1>3. VisitsMade' = VisitsMade
  BY <1>1, <1>2, VisitUnmoved
<1>4. CASE main' = main
  BY <1>1, <1>2, <1>4, VisitUnmoved, StatusUnmoved
<1>5. CASE main' = "aborted"
  <2>1. VisitStatus = "visiting" /\ VisitStatus' = "failed"
    BY <1>1, <1>5, VisitingWhileAtWork DEF VisitStatus
  <2>2. Visit!Fail
    BY <1>1, <1>3, <2>1 DEF Visit!Fail
  <2> QED  BY <2>2 DEF Visit!Next
<1> QED  BY <1>4, <1>5 DEF EvaluateOutOfRange

LEMMA VisitPushBack ==
  ASSUME BaseInv, ResultInv, NEW w \in Workers, PushBack(w)
  PROVE  [Visit!Next]_(Visit!vars)
<1> DEFINE k == path_occurrences[w]
<1> USE DEF BaseInv, TypeOK
<1>1. /\ claims' = claims /\ path_occurrences' = path_occurrences
      /\ main' = main /\ main # "aborted"
      /\ pc[w] = "push" /\ pc' = [pc EXCEPT ![w] = "check"]
  BY DEF PushBack, At, Goto, mainVars
<1>2. k \in Nat /\ (k \in Near \/ k >= NumPaths)
  BY <1>1 DEF ResultInv
<1>3. nearest_expressions' = Append(nearest_expressions, k)
  BY <1>1, WholeSubSeq DEF PushBack, LockInv
<1>4. Results' = Results \cup {k}
  <2>1. nearest_expressions \in Seq(Nat)
    OBVIOUS
  <2> HIDE DEF k, BaseInv, TypeOK
  <2>2. {Append(nearest_expressions, k)[i] :
            i \in DOMAIN Append(nearest_expressions, k)} = Results \cup {k}
    BY <1>2, <2>1, AppendProperties DEF Results
  <2> QED  BY <1>3, <2>2, Zenon DEF Results
<1>5. CASE k \in Near
  <2>1. k \in Paths
    BY <1>5, ConstantTypes
  <2>2. Results' \cap Paths = (Results \cap Paths) \cup ({k} \cap Near)
    BY <1>4, <1>5, <2>1
  <2>3. Visit!Visit(w, k)
    BY <1>1, <2>1, <2>2, VisitEnds
  <2> QED  BY <2>1, <2>3 DEF Visit!Next
<1>6. CASE k >= NumPaths
  <2>1. k \notin Paths
    BY <1>2, <1>6, ConstantTypes
  <2>2. \A v \in Workers : BusyWith(v)' \cap Paths = BusyWith(v) \cap Paths
    BY <1>1, <2>1 DEF BusyWith
  <2>3. Results' \cap Paths = Results \cap Paths
    BY <1>4, <2>1
  <2> HIDE DEF k
  <2> QED  BY <1>1, <2>2, <2>3, VisitUnmoved, StatusUnmoved
<1> QED  BY <1>2, <1>5, <1>6

LEMMA VisitReturn ==
  ASSUME BaseInv, BaseInv', RaceInv', Return
  PROVE  Visit!Finish
<1>1. /\ main = "joining" /\ main' = "returned" /\ joined = NumWorkers
      /\ UNCHANGED <<nearest_expressions, claims, pc, path_occurrences>>
  BY DEF Return, workerVars
<1>2. \A w \in Workers : BusyWith(w) = {} /\ BusyWith(w)' = {}
  BY <1>1, ConstantTypes DEF BaseInv, TypeOK, ControlInv, BusyWith
<1>3. \A c \in claims : c[1] \in Workers
  BY DEF BaseInv, TypeOK
<1>4. VisitsMade = {c \in claims : c[2] \in Paths} /\ VisitsMade' = VisitsMade
  BY <1>1, <1>2, <1>3 DEF VisitsMade
<1>5. Visit!Seen = Visited /\ Visited' = Visited
  BY <1>1, <1>4 DEF Visit!Seen, Visited
<1>6. NumWorkers * Cardinality(Visited) >= NumPaths
  <2>1. (BaseInv /\ RaceInv /\ main = "returned" =>
           NumWorkers * Cardinality(Visited) >= NumPaths)'
    BY ReturnedCount, PTL
  <2> QED  BY <1>1, <1>5, <2>1
<1>7. /\ VisitStatus = "visiting" /\ VisitStatus' = "finished"
      /\ Results' = Results
  BY <1>1 DEF VisitStatus, Results
<1> HIDE DEF Workers, Paths
<1> QED
  BY <1>4, <1>5, <1>6, <1>7, SameCardinality, WorkersFinite, PathsFinite
     DEF Visit!Finish

LEMMA RefinesNext ==
  ASSUME IInv, IInv', [Next]_vars
  PROVE  [Visit!Next]_(Visit!vars)
<1>1. /\ BaseInv /\ RaceInv /\ ResultInv /\ ClaimInv
      /\ BaseInv' /\ RaceInv'
  BY DEF IInv, BaseInv, RaceInv
<1> USE DEF workerVars, mainVars
<1>2. CASE Spawn
  <2>1. spawned + 1 \in Workers /\ pc[spawned + 1] = "idle"
    BY <1>1, <1>2, ConstantTypes DEF Spawn, BaseInv, TypeOK, ControlInv
  <2>2. \A w \in Workers : BusyWith(w)' = BusyWith(w)
    BY <1>1, <1>2, <2>1 DEF Spawn, Goto, BusyWith, BaseInv, TypeOK
  <2>3. /\ claims' = claims /\ Results' = Results
        /\ main = "spawning" /\ main' \in {"spawning", "joining"}
    BY <1>2 DEF Spawn, Results
  <2> QED  BY <1>1, <2>2, <2>3, VisitUnmoved, StatusUnmoved
<1>3. CASE SpawnFails
  <2>1. /\ VisitsMade' = VisitsMade /\ Results' = Results
        /\ VisitStatus = "visiting" /\ VisitStatus' = "failed"
    BY <1>3 DEF SpawnFails, VisitsMade, BusyWith, Results, VisitStatus
  <2> QED  BY <2>1 DEF Visit!Next, Visit!Fail
<1>4. CASE Join \/ UNCHANGED vars
  <2>1. /\ VisitsMade' = VisitsMade /\ Results' = Results
        /\ VisitStatus' = VisitStatus
    BY <1>4 DEF Join, vars, VisitsMade, BusyWith, Results, VisitStatus
  <2> QED  BY <2>1 DEF Visit!vars
<1>5. CASE Return
  BY <1>1, <1>5, VisitReturn DEF Visit!Next
<1>6. ASSUME NEW w \in Workers, Check(w) \/ Grab(w) \/ Lock(w)
      PROVE  UNCHANGED Visit!vars
  <2>1. \A v \in Workers : BusyWith(v)' = BusyWith(v)
    BY <1>1, <1>6
       DEF Check, Grab, Lock, At, Goto, BusyWith, BaseInv, TypeOK
  <2>2. claims' = claims /\ Results' = Results /\ main' = main
    BY <1>6 DEF Check, Grab, Lock, Results
  <2> QED  BY <1>1, <2>1, <2>2, VisitUnmoved, StatusUnmoved
<1> QED
  BY <1>1, <1>2, <1>3, <1>4, <1>5, <1>6, VisitAdvance, VisitEvaluate,
     VisitOutOfRange, VisitPushBack
     DEF Next, MainStep, WorkerStep, Over

(* For any number of workers and paths the traversal is a bounded visit:   *)
(* each step of it visits one path anew, fails, finishes with one path in  *)
(* NumWorkers seen, or changes nothing of the visit.                       *)
THEOREM RefinementCorrect == Spec => ImplementsGreedyVisit
BY InvariantCorrect, RefinesInit, RefinesNext, PTL
   DEF Spec, ImplementsGreedyVisit, Visit!Spec
=============================================================================
