--------------------------- MODULE FileScanProofs ----------------------------
(***************************************************************************)
(* What holds of the file scanner for any list of files, any number of     *)
(* threads and any command line.                                           *)
(*                                                                         *)
(* The invariant is built in layers, each inductive given the layers under *)
(* it: types and control, the race on the index, the claims counted        *)
(* against it, the progress report, and the logs.                          *)
(***************************************************************************)
EXTENDS FileScan, FiniteSetTheorems, TLAPS

USE DEF Workers, LastSpawned, MayJoin, MoreFiles, NextIndex, StoredIndex

LEMMA ConstantTypes ==
  /\ MaxFiles \in Nat /\ MaxFiles >= 1
  /\ MaxWorkers \in Nat /\ MaxWorkers >= 1
  /\ SizeMax \in Nat /\ SizeMax >= MaxFiles + MaxWorkers
  /\ CommandLines \subseteq Arguments
<1>1. CommandLines \subseteq Arguments
  BY CommandLinesAssumption, Zenon
<1> QED  BY <1>1, CommandLinesAssumption, SizeAssumption

LEMMA RootOfOne == Sqrt(1) = 1
<1>1. 1 \in 0..1 /\ 1 * 1 <= 1 /\ 1 < (1 + 1) * (1 + 1)
  OBVIOUS
<1>2. Sqrt(1) \in 0..1 /\ 1 < (Sqrt(1) + 1) * (Sqrt(1) + 1)
  <2> DEFINE R(r) == r * r <= 1 /\ 1 < (r + 1) * (r + 1)
  <2>1. \E r \in 0..1 : R(r)
    BY <1>1
  <2>2. (CHOOSE r \in 0..1 : R(r)) \in 0..1 /\ R(CHOOSE r \in 0..1 : R(r))
    <3> HIDE DEF R
    <3> QED  BY <2>1, Zenon
  <2> QED  BY <2>2 DEF Sqrt
<1> QED  BY <1>2

-----------------------------------------------------------------------------
(* Types and control.                                                      *)

Entries == Nat \X {"scanning", "scanned", "skipping"}

(* TypeOK without the bounds that rest on the race.                        *)
BaseTypes ==
  /\ args \in CommandLines
  /\ num_files \in 0..MaxFiles
  /\ num_workers \in 0..MaxWorkers
  /\ file_index \in Nat
  /\ reports \subseteq Nat
  /\ log \in [Workers -> Seq(Entries)]
  /\ pc \in [Workers ->
       {"idle", "check", "grab", "advance", "announce", "scan", "mod",
        "loadPrinted", "compare", "report", "loadIndex", "storePrinted",
        "done"}]
  /\ eval_file \in [Workers -> Nat]
  /\ main \in {"arguments", "usage", "listing", "training", "spawning",
               "joining", "finished", "reported", "aborted"}
  /\ spawned \in 0..num_workers
  /\ joined \in 0..num_workers
  /\ claims \subseteq Workers \X Nat

BaseInv == BaseTypes /\ ControlInv

LEMMA ArgumentTypes ==
  ASSUME BaseTypes
  PROVE  /\ args \in Arguments
         /\ ListLength \in 0..MaxFiles
         /\ num_threads_ \in Int
         /\ Sqrt(num_threads_) \in 1..MaxWorkers
<1>1. /\ args \in Arguments
      /\ args.j > 0 => Sqrt(args.j) \in 1..MaxWorkers
      /\ args.j \in Int /\ args.lines \in 0..MaxFiles
  BY CommandLinesAssumption DEF BaseTypes, Arguments
<1>2. CASE args.j > 0
  <2>1. num_threads_ = args.j
    BY <1>1, <1>2 DEF num_threads_
  <2> QED  BY <1>1, <1>2, <2>1, ConstantTypes DEF ListLength
<1>3. CASE ~(args.j > 0)
  <2>1. num_threads_ = 1
    BY <1>1, <1>3 DEF num_threads_
  <2> QED  BY <1>1, <2>1, RootOfOne, ConstantTypes DEF ListLength
<1> QED  BY <1>2, <1>3

LEMMA LogAppends ==
  ASSUME NEW s \in Seq(Entries), NEW e \in Entries
  PROVE  /\ Append(s, e) \in Seq(Entries)
         /\ \A x : (\E i \in DOMAIN Append(s, e) : Append(s, e)[i] = x)
                     <=> (\E i \in DOMAIN s : s[i] = x) \/ x = e
<1>1. Append(s, e) \in Seq(Entries)
  OBVIOUS
<1>2. DOMAIN s = 1..Len(s) /\ Len(s) \in Nat
  OBVIOUS
<1>3. DOMAIN Append(s, e) = 1..Len(s) + 1
  OBVIOUS
<1>4. \A i \in 1..Len(s) : Append(s, e)[i] = s[i]
  OBVIOUS
<1>5. Append(s, e)[Len(s) + 1] = e
  OBVIOUS
<1>6. 1..Len(s) + 1 = (1..Len(s)) \cup {Len(s) + 1}
  BY <1>2
<1> QED  BY <1>1, <1>2, <1>3, <1>4, <1>5, <1>6, Zenon

LEMMA BaseInit == Init => BaseInv
<1> SUFFICES ASSUME Init PROVE BaseInv
  OBVIOUS
<1>1. BaseTypes
  BY ConstantTypes DEF Init, BaseTypes
<1> QED
  BY <1>1, ArgumentTypes, ConstantTypes DEF Init, BaseInv, ControlInv

LEMMA TypesNext ==
  ASSUME BaseInv, [Next]_vars
  PROVE  BaseTypes'
<1>a. /\ ListLength \in 0..MaxFiles
      /\ Sqrt(num_threads_) \in 1..MaxWorkers
  BY ArgumentTypes DEF BaseInv
<1>b. main = "training" => joined = 0 /\ spawned = 0
  <2> HIDE DEF Workers
  <2> QED  BY ConstantTypes DEF BaseInv, BaseTypes, ControlInv
<1>c. main = "spawning" => spawned + 1 \in Workers /\ spawned < num_workers
  BY ConstantTypes DEF BaseInv, BaseTypes, ControlInv
<1>d. BaseTypes
  BY DEF BaseInv
<1> USE <1>a, <1>b, <1>c, <1>d, ConstantTypes
    DEF BaseTypes, workerVars, mainVars, progressVars, At, Goto
<1> HIDE DEF Workers, Entries
<1>1. CASE ParseArguments
  BY <1>1 DEF ParseArguments
<1>2. CASE ReadList
  BY <1>2 DEF ReadList
<1>3. CASE ReadListFails
  BY <1>3 DEF ReadListFails
<1>4. CASE Train
  BY <1>4 DEF Train
<1>5. CASE TrainFails
  BY <1>5 DEF TrainFails
<1>6. CASE Spawn
  BY <1>6 DEF Spawn
<1>7. CASE SpawnFails
  BY <1>7 DEF SpawnFails
<1>8. CASE Join
  BY <1>8 DEF Join
<1>9. CASE Return
  BY <1>9 DEF Return
<1>10. ASSUME NEW w \in Workers, Check(w) \/ Grab(w) PROVE BaseTypes'
  BY <1>10 DEF Check, Grab
<1>11. ASSUME NEW w \in Workers, Advance(w) PROVE BaseTypes'
  BY <1>11 DEF Advance
<1>12. ASSUME NEW w \in Workers, NEW e \in Entries, Write(w, e)
       PROVE  log' \in [Workers -> Seq(Entries)]
  BY <1>12, LogAppends DEF Write
<1>13. ASSUME NEW w \in Workers
       PROVE  \A l \in {"scanning", "scanned", "skipping"} :
                <<eval_file[w], l>> \in Entries
  BY DEF Entries
<1>14. ASSUME NEW w \in Workers, Announce(w) \/ AnnounceOutOfRange(w)
       PROVE  BaseTypes'
  <2>1. log' \in [Workers -> Seq(Entries)]
    BY <1>12, <1>13, <1>14 DEF Announce, AnnounceOutOfRange
  <2> QED  BY <1>14, <2>1 DEF Announce, AnnounceOutOfRange
<1>15. ASSUME NEW w \in Workers, Scan(w) \/ ScanSkips(w) \/ ScanThrows(w)
       PROVE  BaseTypes'
  <2>1. log' \in [Workers -> Seq(Entries)]
    BY <1>12, <1>13, <1>15 DEF Scan, ScanSkips, ScanThrows, Outcome
  <2> QED  BY <1>15, <2>1 DEF Scan, ScanSkips, ScanThrows
<1>16. ASSUME NEW w \in Workers, TestTenth(w) \/ LoadPrinted(w) \/ Compare(w)
       PROVE  BaseTypes'
  BY <1>16 DEF TestTenth, LoadPrinted, Compare
<1>17. ASSUME NEW w \in Workers, Report(w) \/ LoadIndex(w) \/ StorePrinted(w)
       PROVE  BaseTypes'
  BY <1>17 DEF Report, LoadIndex, StorePrinted
<1>18. CASE UNCHANGED vars
  BY <1>18 DEF vars
<1> QED
  BY <1>1, <1>2, <1>3, <1>4, <1>5, <1>6, <1>7, <1>8, <1>9, <1>10, <1>11,
     <1>14, <1>15, <1>16, <1>17, <1>18
     DEF Next, MainStep, MainFails, WorkerStep, Over

(* A step of a worker that leaves the index, the logs and main alone and   *)
(* moves within the loop.                                                  *)
LEMMA ControlUnmoved ==
  ASSUME BaseInv, NEW w \in Workers, pc[w] \notin {"idle", "check", "done"},
         NEW l, pc' = [pc EXCEPT ![w] = l], l \notin {"idle", "done"},
         UNCHANGED <<file_index, reports, log, mainVars, claims>>
  PROVE  ControlInv'
<1> USE DEF BaseInv, BaseTypes, ControlInv, mainVars
<1> HIDE DEF Workers, Entries
<1>1. \A v \in Workers : v \in Nat
  BY ConstantTypes DEF Workers
<1>2. ListLength' = ListLength
  BY DEF ListLength
<1> QED  BY <1>1, <1>2

LEMMA ControlNext ==
  ASSUME BaseInv, [Next]_vars
  PROVE  ControlInv'
<1>a. /\ ListLength \in 0..MaxFiles
      /\ Sqrt(num_threads_) \in 1..MaxWorkers
  BY ArgumentTypes DEF BaseInv
<1>b. args' = args => ListLength' = ListLength
  BY DEF ListLength
<1>c. \A v \in Workers : v \in Nat /\ v >= 1
  BY ConstantTypes
<1> USE <1>a, <1>b, <1>c, ConstantTypes
    DEF BaseInv, BaseTypes, ControlInv, workerVars, mainVars, progressVars,
        At, Goto
<1> HIDE DEF Workers, Entries
<1>1. CASE ParseArguments
  BY <1>1 DEF ParseArguments
<1>2. CASE ReadList
  BY <1>2 DEF ReadList
<1>3. CASE ReadListFails
  BY <1>3 DEF ReadListFails
<1>4. CASE Train
  BY <1>4 DEF Train
<1>5. CASE TrainFails
  BY <1>5 DEF TrainFails
<1>6. CASE Spawn
  <2>1. spawned + 1 \in Workers
    BY <1>6 DEF Spawn, Workers
  <2> QED  BY <1>6, <2>1 DEF Spawn
<1>7. CASE SpawnFails
  BY <1>7 DEF SpawnFails
<1>8. CASE Join
  <2>1. joined + 1 \in Workers /\ \A v \in Workers : v <= joined' =>
          v <= joined \/ v = joined + 1
    BY <1>8 DEF Join, Workers
  <2> QED  BY <1>8, <2>1 DEF Join
<1>9. CASE Return
  BY <1>9 DEF Return
<1>10. ASSUME NEW w \in Workers, Check(w) PROVE ControlInv'
  BY <1>10 DEF Check
<1>11. ASSUME NEW w \in Workers, Grab(w) PROVE ControlInv'
  BY <1>11, ControlUnmoved DEF Grab
<1>12. ASSUME NEW w \in Workers, Advance(w) PROVE ControlInv'
  BY <1>12 DEF Advance
<1>13. ASSUME NEW w \in Workers, Announce(w) \/ AnnounceOutOfRange(w)
       PROVE  ControlInv'
  <2>1. \A v \in Workers : pc'[v] = "idle" => log'[v] = log[v]
    BY <1>13 DEF Announce, AnnounceOutOfRange, Write
  <2> QED  BY <1>13, <2>1 DEF Announce, AnnounceOutOfRange
<1>14. ASSUME NEW w \in Workers, Scan(w) \/ ScanSkips(w) \/ ScanThrows(w)
       PROVE  ControlInv'
  <2>1. \A v \in Workers : pc'[v] = "idle" => log'[v] = log[v]
    BY <1>14 DEF Scan, ScanSkips, ScanThrows, Write
  <2> QED  BY <1>14, <2>1 DEF Scan, ScanSkips, ScanThrows
<1>15. ASSUME NEW w \in Workers, TestTenth(w) \/ LoadPrinted(w) \/ Compare(w)
       PROVE  ControlInv'
  <2>1. CASE TestTenth(w)
    <3>1. PICK l \in {"loadPrinted", "loadIndex"} : pc' = [pc EXCEPT ![w] = l]
      BY <2>1 DEF TestTenth
    <3> QED  BY <2>1, <3>1, ControlUnmoved DEF TestTenth
  <2>2. CASE LoadPrinted(w)
    BY <2>2, ControlUnmoved DEF LoadPrinted
  <2>3. CASE Compare(w)
    <3>1. PICK l \in {"report", "loadIndex"} : pc' = [pc EXCEPT ![w] = l]
      BY <2>3 DEF Compare
    <3> QED  BY <2>3, <3>1, ControlUnmoved DEF Compare
  <2> QED  BY <1>15, <2>1, <2>2, <2>3
<1>16. ASSUME NEW w \in Workers, LoadIndex(w) \/ StorePrinted(w)
       PROVE  ControlInv'
  <2>1. CASE LoadIndex(w)
    BY <2>1, ControlUnmoved DEF LoadIndex
  <2>2. CASE StorePrinted(w)
    BY <2>2, ControlUnmoved DEF StorePrinted
  <2> QED  BY <1>16, <2>1, <2>2
<1>17. ASSUME NEW w \in Workers, Report(w) PROVE ControlInv'
  BY <1>17 DEF Report
<1>18. CASE UNCHANGED vars
  BY <1>18 DEF vars
<1> QED
  BY <1>1, <1>2, <1>3, <1>4, <1>5, <1>6, <1>7, <1>8, <1>9, <1>10, <1>11,
     <1>12, <1>13, <1>14, <1>15, <1>16, <1>17, <1>18
     DEF Next, MainStep, MainFails, WorkerStep, Over

(* Types and control are right in every reachable state: no thread runs    *)
(* before the list is known, none is left when main has finished.          *)
THEOREM BaseCorrect == Spec => []BaseInv
<1>1. BaseInv /\ [Next]_vars => BaseInv'
  BY TypesNext, ControlNext DEF BaseInv
<1> QED  BY BaseInit, <1>1, PTL DEF Spec

-----------------------------------------------------------------------------
(* The race on the index.                                                  *)

RaceInv == OvershootInv /\ ClaimInv /\ CountInv

Crew == 1..num_workers

LEMMA BaseFacts ==
  ASSUME BaseInv
  PROVE  /\ DOMAIN pc = Workers
         /\ eval_file \in [Workers -> Nat]
         /\ file_index \in Nat /\ num_files \in Nat
         /\ num_workers \in Nat /\ num_workers >= 1
         /\ spawned \in Nat /\ spawned <= num_workers
         /\ \A w \in Workers : w \in Nat /\ w >= 1
         /\ \A w \in Workers : pc[w] # "idle" => w <= spawned
         /\ claims \subseteq Workers \X Nat
<1>1. \A w \in Workers : w \in Nat /\ w >= 1
  BY ConstantTypes
<1> HIDE DEF Workers
<1> QED  BY <1>1, ConstantTypes DEF BaseInv, BaseTypes, ControlInv

LEMMA CrewFinite ==
  ASSUME BaseInv
  PROVE  IsFiniteSet(Crew) /\ Cardinality(Crew) = num_workers
<1>1. num_workers \in Int /\ 1 \in Int /\ ~(1 > num_workers)
  BY ConstantTypes DEF BaseInv, BaseTypes, ControlInv
<1> QED  BY <1>1, FS_Interval DEF Crew

LEMMA OvertakingFinite ==
  ASSUME BaseInv
  PROVE  /\ IsFiniteSet(Overtaking)
         /\ Cardinality(Overtaking) \in Nat
         /\ Cardinality(Overtaking) <= num_workers
<1>1. Overtaking \in SUBSET Crew
  <2> HIDE DEF Workers
  <2> QED  BY BaseFacts DEF Overtaking, Crew
<1> QED  BY <1>1, CrewFinite, BaseFacts, FS_Subset, FS_CardinalityType

(* Before the first thread runs nothing has been claimed.                  *)
LEMMA RaceBefore ==
  ASSUME BaseInv, spawned = 0
  PROVE  RaceInv
<1>1. file_index = 0 /\ claims = {} /\ \A w \in Workers : pc[w] = "idle"
  BY ConstantTypes DEF BaseInv, BaseTypes, ControlInv
<1>2. Overtaking = {} /\ InRange = {}
  BY <1>1 DEF Overtaking, InRange
<1>3. Cardinality({}) = 0 /\ IsFiniteSet({})
  BY FS_EmptySet
<1>4. OvershootInv /\ CountInv
  BY <1>1, <1>2, <1>3, ConstantTypes
     DEF OvershootInv, CountInv, BaseInv, BaseTypes, ControlInv
<1> QED  BY <1>1, <1>4 DEF RaceInv, ClaimInv

(* A step that leaves index, claims and list alone, takes no new file and  *)
(* does not test the bound, leaves the race as it was.                     *)
LEMMA RaceUnmoved ==
  ASSUME BaseInv, BaseInv', RaceInv,
         UNCHANGED <<file_index, claims, num_files, num_workers, eval_file>>,
         spawned <= spawned',
         Overtaking' = Overtaking,
         \A w \in Workers :
           /\ pc'[w] = "advance" => pc[w] = "advance"
           /\ pc'[w] \in {"announce", "scan"} =>
                pc[w] \in {"announce", "scan"}
           /\ pc[w] \in {"idle", "check", "grab", "advance", "done"} =>
                pc'[w] \in {"idle", "check", "grab", "advance", "done"}
  PROVE  RaceInv'
<1>1. InRange' = InRange
  BY DEF InRange
<1>2. OvershootInv' /\ CountInv'
  BY <1>1 DEF RaceInv, OvershootInv, CountInv
<1>3. \A c \in claims : c[1] <= spawned => c[1] <= spawned'
  BY DEF BaseInv, BaseTypes
<1>4. ClaimInv'
  <2> HIDE DEF Workers
  <2> QED  BY <1>3 DEF RaceInv, ClaimInv
<1> QED  BY <1>2, <1>4 DEF RaceInv

LEMMA RaceCheck ==
  ASSUME BaseInv, BaseInv', RaceInv, NEW w \in Workers, Check(w)
  PROVE  RaceInv'
<1>1. /\ UNCHANGED <<file_index, claims, num_files, num_workers, eval_file,
                     spawned>>
      /\ pc[w] = "check"
      /\ pc' = [pc EXCEPT ![w] = IF MoreFiles THEN "grab" ELSE "done"]
      /\ DOMAIN pc = Workers
  BY BaseFacts DEF Check, At, Goto, mainVars
<1>2. ClaimInv' /\ CountInv'
  <2>1. InRange' = InRange
    BY <1>1 DEF InRange
  <2> HIDE DEF Workers
  <2> QED  BY <1>1, <2>1 DEF RaceInv, ClaimInv, CountInv
<1>3. CASE MoreFiles
  <2>1. Cardinality(Overtaking') \in Nat /\ Cardinality(Overtaking') <= num_workers
    <3>1. (BaseInv => /\ Cardinality(Overtaking) \in Nat
                      /\ Cardinality(Overtaking) <= num_workers)'
      BY OvertakingFinite, PTL
    <3> QED  BY <1>1, <3>1
  <2>2. OvershootInv'
    BY <1>1, <1>3, <2>1, ConstantTypes DEF OvershootInv, BaseInv, BaseTypes
  <2> QED  BY <1>2, <2>2 DEF RaceInv
<1>4. CASE ~MoreFiles
  <2>1. Overtaking' = Overtaking
    BY <1>1, <1>4 DEF Overtaking
  <2> QED  BY <1>1, <1>2, <2>1 DEF RaceInv, OvershootInv
<1> QED  BY <1>3, <1>4

LEMMA RaceGrab ==
  ASSUME BaseInv, RaceInv, NEW w \in Workers, Grab(w)
  PROVE  RaceInv'
<1>1. /\ UNCHANGED <<file_index, claims, num_files, num_workers, spawned>>
      /\ pc[w] = "grab" /\ pc' = [pc EXCEPT ![w] = "advance"]
      /\ eval_file' = [eval_file EXCEPT ![w] = file_index]
      /\ DOMAIN pc = Workers /\ eval_file \in [Workers -> Nat]
      /\ file_index \in Nat
  BY BaseFacts DEF Grab, At, Goto, mainVars
<1>2. InRange' = InRange
  BY <1>1 DEF InRange
<1>3. Overtaking' = Overtaking
  BY <1>1 DEF Overtaking
<1>4. ClaimInv'
  <2> HIDE DEF Workers
  <2> QED  BY <1>1 DEF RaceInv, ClaimInv
<1> QED
  BY <1>1, <1>2, <1>3, <1>4 DEF RaceInv, OvershootInv, CountInv

(* The claim is fresh, because the worker's earlier claims are all below   *)
(* the index it read, so the claims of files go on counting the increments.*)
LEMMA RaceAdvance ==
  ASSUME BaseInv, RaceInv, NEW w \in Workers, Advance(w)
  PROVE  RaceInv'
<1> DEFINE k == eval_file[w]
           c0 == <<w, k>>
<1>1. /\ UNCHANGED <<num_files, num_workers, spawned, eval_file>>
      /\ file_index' = file_index + 1 /\ claims' = claims \cup {c0}
      /\ pc[w] = "advance" /\ pc' = [pc EXCEPT ![w] = "announce"]
  BY DEF Advance, At, Goto, mainVars
<1>2. /\ DOMAIN pc = Workers /\ eval_file \in [Workers -> Nat]
      /\ file_index \in Nat /\ num_files \in Nat
      /\ num_workers \in Nat /\ num_workers >= 1
      /\ spawned \in Nat /\ w <= spawned
      /\ claims \subseteq Workers \X Nat
  BY <1>1, BaseFacts
<1>3. /\ k \in Nat /\ k <= file_index
      /\ \A c \in claims : c[1] = w => c[2] < k
  BY <1>1, <1>2 DEF RaceInv, ClaimInv
<1>4. c0 \notin claims
  BY <1>3
<1>5. w \in Overtaking /\ Overtaking' = Overtaking \ {w}
  BY <1>1, <1>2 DEF Overtaking
<1>6. /\ Cardinality(Overtaking') = Cardinality(Overtaking) - 1
      /\ Cardinality(Overtaking) \in Nat
  BY <1>5, OvertakingFinite, FS_RemoveElement
<1>7. Cardinality(Overtaking) >= 1
  <2>1. Cardinality(Overtaking') \in Nat
    BY <1>5, OvertakingFinite, FS_RemoveElement, FS_CardinalityType
  <2> QED  BY <1>6, <2>1
<1>8. OvershootInv'
  BY <1>1, <1>2, <1>6 DEF RaceInv, OvershootInv
<1>9. k < num_files + num_workers - 1
  BY <1>2, <1>3, <1>6, <1>7 DEF RaceInv, OvershootInv
<1>10. ClaimInv'
  <2>1. ASSUME NEW c \in claims'
        PROVE  /\ c[1] <= spawned' /\ c[2] < file_index'
               /\ c[2] < num_files' + num_workers' - 1
    <3>1. CASE c \in claims
      BY <1>1, <1>2, <3>1 DEF RaceInv, ClaimInv
    <3>2. CASE c = c0
      BY <1>1, <1>2, <1>3, <1>9, <3>2
    <3> QED  BY <1>1, <2>1, <3>1, <3>2
  <2>2. ASSUME NEW v \in Workers, pc'[v] = "advance"
        PROVE  /\ eval_file'[v] <= file_index'
               /\ \A c \in claims' : c[1] = v => c[2] < eval_file'[v]
    <3>1. v # w /\ pc[v] = "advance" /\ eval_file'[v] = eval_file[v]
      BY <1>1, <1>2, <2>2
    <3>2. /\ eval_file[v] <= file_index
          /\ \A c \in claims : c[1] = v => c[2] < eval_file[v]
      BY <3>1 DEF RaceInv, ClaimInv
    <3>3. eval_file[v] \in Nat /\ c0[1] = w
      BY <1>2
    <3> HIDE DEF c0, k
    <3> QED  BY <1>1, <1>2, <3>1, <3>2, <3>3
  <2>3. ASSUME NEW v \in Workers
        PROVE  /\ pc'[v] \in {"announce", "scan"} =>
                    <<v, eval_file'[v]>> \in claims'
               /\ pc'[v] \notin {"idle", "check", "grab", "advance", "done"}
                    => file_index' > 0
    <3> HIDE DEF Workers
    <3> QED  BY <1>1, <1>2 DEF RaceInv, ClaimInv
  <2> QED  BY <2>1, <2>2, <2>3 DEF ClaimInv
<1>11. CountInv'
  <2>1. IsFiniteSet(claims')
    BY <1>1, FS_AddElement DEF RaceInv, CountInv
  <2>2. IsFiniteSet(InRange) /\ Cardinality(InRange) \in Nat
    BY FS_Subset, FS_CardinalityType DEF RaceInv, CountInv, InRange
  <2>3. CASE k < num_files
    <3>1. InRange' = InRange \cup {c0} /\ c0 \notin InRange
      BY <1>1, <1>4, <2>3 DEF InRange
    <3>2. Cardinality(InRange') = Cardinality(InRange) + 1
      BY <2>2, <3>1, FS_AddElement
    <3> QED
      BY <1>1, <1>2, <2>1, <2>2, <3>2 DEF RaceInv, CountInv
  <2>4. CASE ~(k < num_files)
    <3>1. InRange' = InRange
      BY <1>1, <2>4 DEF InRange
    <3>2. ~(file_index < num_files) /\ ~(file_index' < num_files')
      BY <1>1, <1>2, <1>3, <2>4
    <3> QED  BY <1>1, <2>1, <3>1, <3>2 DEF RaceInv, CountInv
  <2> QED  BY <2>3, <2>4
<1> QED  BY <1>8, <1>10, <1>11 DEF RaceInv

LEMMA RaceNext ==
  ASSUME BaseInv, BaseInv', RaceInv, [Next]_vars
  PROVE  RaceInv'
<1>a. DOMAIN pc = Workers /\ spawned \in Nat
  BY BaseFacts
<1>b. (BaseInv /\ spawned = 0 => RaceInv)'
  BY RaceBefore, PTL
<1> USE DEF workerVars, mainVars, progressVars, At, Goto, Overtaking
<1> HIDE DEF Workers
<1>1. CASE ParseArguments \/ ReadList \/ ReadListFails \/ Train \/ TrainFails
  <2>1. spawned' = 0
    BY <1>1 DEF ParseArguments, ReadList, ReadListFails, Train, TrainFails,
                BaseInv, ControlInv
  <2> QED  BY <1>b, <2>1
<1>2. CASE Spawn
  <2>1. pc[spawned + 1] = "idle" /\ spawned + 1 \in Workers
    BY <1>2, ConstantTypes DEF Spawn, BaseInv, BaseTypes, ControlInv, Workers
  <2> QED  BY <1>a, <1>2, <2>1, RaceUnmoved DEF Spawn
<1>3. CASE SpawnFails \/ Join \/ Return \/ UNCHANGED vars
  BY <1>a, <1>3, RaceUnmoved DEF SpawnFails, Join, Return, vars
<1>4. ASSUME NEW w \in Workers, Announce(w) \/ AnnounceOutOfRange(w)
      PROVE  RaceInv'
  BY <1>a, <1>4, RaceUnmoved DEF Announce, AnnounceOutOfRange
<1>5. ASSUME NEW w \in Workers, Scan(w) \/ ScanSkips(w) \/ ScanThrows(w)
      PROVE  RaceInv'
  BY <1>a, <1>5, RaceUnmoved DEF Scan, ScanSkips, ScanThrows
<1>6. ASSUME NEW w \in Workers, TestTenth(w) \/ LoadPrinted(w) \/ Compare(w)
      PROVE  RaceInv'
  BY <1>a, <1>6, RaceUnmoved DEF TestTenth, LoadPrinted, Compare
<1>7. ASSUME NEW w \in Workers, Report(w) \/ LoadIndex(w) \/ StorePrinted(w)
      PROVE  RaceInv'
  BY <1>a, <1>7, RaceUnmoved DEF Report, LoadIndex, StorePrinted
<1> QED
  BY <1>1, <1>2, <1>3, <1>4, <1>5, <1>6, <1>7, RaceCheck, RaceGrab,
     RaceAdvance
     DEF Next, MainStep, MainFails, WorkerStep, Over

(* In every reachable state the threads about to increment the index       *)
(* cannot carry it more than one less than their number past the end.      *)
THEOREM RaceCorrect == Spec => [](BaseInv /\ RaceInv)
<1>1. Init => RaceInv
  BY BaseInit, RaceBefore DEF Init
<1> QED  BY <1>1, BaseCorrect, RaceNext, PTL DEF Spec

(* For any list and any number of threads: no file name is read further    *)
(* past the end of the list than there are other threads.                  *)
THEOREM OvershootCorrect == Spec => []OvershootBound
<1>1. BaseInv /\ RaceInv => OvershootBound
  <2> SUFFICES ASSUME BaseInv, RaceInv PROVE OvershootBound
    OBVIOUS
  <2>1. file_index < num_files + num_workers
    BY OvertakingFinite, ConstantTypes
       DEF RaceInv, OvershootInv, BaseInv, BaseTypes
  <2> QED  BY <2>1 DEF RaceInv, ClaimInv, OvershootBound
<1> QED  BY <1>1, RaceCorrect, PTL

(* For any list, also an empty one: the tenth is no zero when a thread     *)
(* computes a remainder by it.                                             *)
THEOREM NoModuloByZeroCorrect == Spec => []NoModuloByZero
<1>1. BaseInv => NoModuloByZero
  <2> SUFFICES ASSUME BaseInv, NEW w \in Workers, pc[w] = "mod"
               PROVE  tenth_eval_file_names > 0
    BY DEF NoModuloByZero
  <2>1. num_files \in Nat /\ num_files > 0
    <3> HIDE DEF Workers
    <3> QED  BY BaseFacts DEF BaseInv, ControlInv
  <2> QED  BY <2>1 DEF tenth_eval_file_names
<1> QED  BY <1>1, BaseCorrect, PTL

-----------------------------------------------------------------------------
(* What is taken.                                                          *)

LEMMA FilesFinite ==
  ASSUME BaseInv
  PROVE  IsFiniteSet(Files) /\ Cardinality(Files) = num_files
<1>1. 0 \in Int /\ num_files - 1 \in Int /\ num_files \in Nat
  BY BaseFacts
<1>2. CASE num_files = 0
  <2>1. Files = {}
    BY <1>2 DEF Files
  <2> QED  BY <1>2, <2>1, FS_EmptySet
<1>3. CASE num_files # 0
  BY <1>1, <1>3, FS_Interval DEF Files
<1> QED  BY <1>2, <1>3

(* A thread of the crew claims a file at most once, so a file that was     *)
(* taken stands for at most num_workers claims.                            *)
LEMMA TakenCount ==
  ASSUME BaseInv, RaceInv
  PROVE  /\ Cardinality(Taken) \in Nat
         /\ num_workers * Cardinality(Taken) >= Cardinality(InRange)
         /\ Cardinality(InRange) \in Nat
<1>1. IsFiniteSet(Taken) /\ Cardinality(Taken) \in Nat
  <2>1. Taken \in SUBSET Files
    BY DEF Taken
  <2> QED  BY <2>1, FilesFinite, FS_Subset, FS_CardinalityType
<1>2. /\ IsFiniteSet(Crew \X Taken)
      /\ Cardinality(Crew \X Taken) = num_workers * Cardinality(Taken)
  BY <1>1, CrewFinite, FS_Product
<1>3. InRange \in SUBSET (Crew \X Taken)
  <2> SUFFICES ASSUME NEW c \in InRange PROVE c \in Crew \X Taken
    OBVIOUS
  <2>1. c \in claims /\ c \in Workers \X Nat /\ c[2] < num_files
    BY BaseFacts DEF InRange
  <2>2. c[1] \in Workers /\ c[1] <= spawned
    BY <2>1 DEF RaceInv, ClaimInv
  <2>3. c[1] \in Crew
    <3> HIDE DEF Workers
    <3> QED  BY <2>2, BaseFacts DEF Crew
  <2>4. c = <<c[1], c[2]>> /\ c[2] \in Files
    BY <2>1, BaseFacts DEF Files
  <2>5. c[2] \in Taken
    BY <2>1, <2>2, <2>4 DEF Taken
  <2> QED  BY <2>3, <2>4, <2>5
<1>4. /\ IsFiniteSet(InRange)
      /\ Cardinality(InRange) <= Cardinality(Crew \X Taken)
  BY <1>2, <1>3, FS_Subset
<1>5. Cardinality(InRange) \in Nat /\ Cardinality(Crew \X Taken) \in Nat
  BY <1>2, <1>4, FS_CardinalityType
<1> QED  BY <1>1, <1>2, <1>4, <1>5

LEMMA FinishedCount ==
  ASSUME BaseInv, RaceInv, main = "finished"
  PROVE  num_workers * Cardinality(Taken) >= num_files
<1>1. 1 \in Workers /\ joined = num_workers
  BY ConstantTypes DEF BaseInv, ControlInv
<1>2. pc[1] = "done" /\ file_index >= num_files
  <2> HIDE DEF Workers
  <2> QED  BY <1>1, BaseFacts DEF BaseInv, ControlInv
<1>3. Cardinality(InRange) >= num_files
  BY <1>2, BaseFacts DEF RaceInv, CountInv
<1>4. num_workers * Cardinality(Taken) \in Nat
  BY TakenCount, BaseFacts
<1> QED  BY <1>3, <1>4, TakenCount, BaseFacts

(* With one scanner thread every file of the list is taken, for a list of  *)
(* any length; with more the comment on the loop promises too much.        *)
THEOREM EveryFileTakenCorrect == Spec => []EveryFileTakenAlone
<1>1. ASSUME BaseInv, RaceInv, num_workers < 2, main = "finished"
      PROVE  Taken = Files
  <2>1. num_workers = 1
    BY <1>1, BaseFacts
  <2>2. Taken \in SUBSET Files
    BY DEF Taken
  <2>3. Cardinality(Taken) \in Nat /\ Cardinality(Taken) <= num_files
    BY <1>1, <2>2, FilesFinite, FS_Subset, FS_CardinalityType
  <2>4. Cardinality(Taken) = num_files
    BY <1>1, <2>1, <2>3, FinishedCount, BaseFacts
  <2> QED  BY <1>1, <2>2, <2>4, FilesFinite, FS_Subset
<1>2. BaseInv /\ RaceInv => EveryFileTakenAlone
  BY <1>1 DEF EveryFileTakenAlone, EveryFileTaken, Taken
<1> QED  BY <1>2, RaceCorrect, PTL

-----------------------------------------------------------------------------
(* The progress report.                                                    *)

LEMMA IndexFits ==
  ASSUME BaseInv, RaceInv
  PROVE  file_index \in 0..SizeMax /\ file_index < num_files + num_workers
<1>1. file_index < num_files + num_workers
  BY OvertakingFinite, BaseFacts DEF RaceInv, OvershootInv
<1>2. num_files <= MaxFiles /\ num_workers <= MaxWorkers
  BY ConstantTypes DEF BaseInv, BaseTypes
<1> QED  BY <1>1, <1>2, BaseFacts, ConstantTypes

LEMMA PrintedInit == Init => PrintedInv
<1> SUFFICES ASSUME Init PROVE PrintedInv
  OBVIOUS
<1>1. (0 - 1) % (SizeMax + 1) = SizeMax
  BY ConstantTypes
<1> QED  BY <1>1, ConstantTypes DEF Init, PrintedInv

LEMMA PrintedNext ==
  ASSUME BaseInv, RaceInv, PrintedInv, [Next]_vars
  PROVE  PrintedInv'
<1>1. /\ file_index \in 0..SizeMax /\ file_index < num_files + num_workers
      /\ DOMAIN pc = Workers /\ num_files \in Nat /\ num_workers \in Nat
      /\ \A w \in Workers :
           pc[w] \notin {"idle", "check", "grab", "advance", "done"} =>
             file_index > 0
      /\ spawned \in Nat /\ SizeMax \in Nat
  BY IndexFits, BaseFacts, ConstantTypes DEF RaceInv, ClaimInv
<1>2. spawned = 0 => reports = {} /\ \A w \in Workers : pc[w] = "idle"
  <2> HIDE DEF Workers
  <2> QED  BY BaseFacts DEF BaseInv, ControlInv
<1> USE DEF PrintedInv, workerVars, mainVars, progressVars, At, Goto
<1> HIDE DEF Workers
<1>3. CASE MainStep \/ MainFails \/ Over \/ UNCHANGED vars
  <2>1. CASE ParseArguments \/ ReadList \/ ReadListFails \/ Train \/ TrainFails
    <3>1. spawned = 0
      BY <2>1 DEF ParseArguments, ReadList, ReadListFails, Train, TrainFails,
                  BaseInv, ControlInv
    <3> QED
      BY <1>2, <2>1, <3>1
         DEF ParseArguments, ReadList, ReadListFails, Train, TrainFails
  <2>2. CASE Spawn
    BY <1>1, <2>2 DEF Spawn
  <2>3. CASE SpawnFails \/ Join \/ Return \/ UNCHANGED vars
    BY <2>3 DEF SpawnFails, Join, Return, vars
  <2> QED  BY <1>3, <2>1, <2>2, <2>3 DEF MainStep, MainFails, Over
<1>4. ASSUME NEW w \in Workers, WorkerStep(w) PROVE PrintedInv'
  <2>1. spawned > 0 /\ UNCHANGED <<spawned, num_files, num_workers>>
    BY <1>1, <1>2, <1>4
       DEF WorkerStep, Check, Grab, Advance, Announce, AnnounceOutOfRange,
           Scan, ScanSkips, ScanThrows, TestTenth, LoadPrinted, Compare,
           Report, LoadIndex, StorePrinted
  <2>2. CASE Check(w) \/ Grab(w) \/ TestTenth(w)
    BY <1>1, <2>1, <2>2 DEF Check, Grab, TestTenth
  <2>3. CASE Advance(w)
    BY <1>1, <2>1, <2>3 DEF Advance
  <2>4. CASE Announce(w) \/ AnnounceOutOfRange(w)
    BY <1>1, <2>1, <2>4 DEF Announce, AnnounceOutOfRange
  <2>5. CASE Scan(w) \/ ScanSkips(w) \/ ScanThrows(w)
    BY <1>1, <2>1, <2>5 DEF Scan, ScanSkips, ScanThrows
  <2>6. CASE LoadPrinted(w)
    BY <1>1, <2>1, <2>6 DEF LoadPrinted
  <2>7. CASE Compare(w)
    <3>1. loaded[w] \in Nat /\ loaded[w] > 0
      BY <1>1, <2>7 DEF Compare
    <3>2. loaded[w] < file_index => file_index >= 2
      BY <1>1, <3>1
    <3> QED  BY <1>1, <2>1, <2>7, <3>2 DEF Compare
  <2>8. CASE Report(w)
    BY <1>1, <2>1, <2>8 DEF Report
  <2>9. CASE LoadIndex(w)
    BY <1>1, <2>1, <2>9 DEF LoadIndex
  <2>10. CASE StorePrinted(w)
    <3>1. loaded[w] \in 1..SizeMax
      BY <1>1, <2>10 DEF StorePrinted
    <3> QED  BY <1>1, <2>1, <2>10, <3>1 DEF StorePrinted
  <2> QED
    BY <1>4, <2>2, <2>3, <2>4, <2>5, <2>6, <2>7, <2>8, <2>9, <2>10
       DEF WorkerStep
<1> QED  BY <1>3, <1>4 DEF Next

(* Every variable keeps its type, whatever the list and the race: both     *)
(* indexes fit in a size_t, and nothing is divided by zero.                *)
THEOREM TypeCorrect == Spec => []TypeOK
<1>1. BaseInv /\ RaceInv /\ PrintedInv /\ OvershootBound /\ NoModuloByZero
        => TypeOK
  <2> SUFFICES ASSUME BaseInv, RaceInv, PrintedInv,
                      OvershootBound, NoModuloByZero
               PROVE  TypeOK
    OBVIOUS
  <2>1. file_index \in 0..SizeMax /\ args \in Arguments
    BY IndexFits, ConstantTypes DEF BaseInv, BaseTypes
  <2>2. loaded \in [Workers -> Nat]
    <3> HIDE DEF Workers
    <3> QED  BY ConstantTypes DEF PrintedInv
  <2> HIDE DEF Workers
  <2> QED
    BY <2>1, <2>2 DEF BaseInv, BaseTypes, PrintedInv, Entries, TypeOK
<1>2. Spec => []PrintedInv
  BY PrintedInit, PrintedNext, RaceCorrect, PTL DEF Spec
<1> QED
  BY <1>1, <1>2, RaceCorrect, OvershootCorrect, NoModuloByZeroCorrect, PTL

LEMMA TenthsStep ==
  ASSUME NEW n \in Nat, n >= 1
  PROVE  Tenths(n) = IF n >= 2 /\ n % tenth_eval_file_names = 0
                     THEN Tenths(n - 1) \cup {n} ELSE Tenths(n - 1)
<1>1. \A i : i \in 2..n <=> i \in 2..(n - 1) \/ (n >= 2 /\ i = n)
  OBVIOUS
<1> HIDE DEF tenth_eval_file_names
<1>2. CASE n >= 2 /\ n % tenth_eval_file_names = 0
  BY <1>1, <1>2, Zenon DEF Tenths
<1>3. CASE ~(n >= 2 /\ n % tenth_eval_file_names = 0)
  <2>1. \A i : i \in Tenths(n) => i \in Tenths(n - 1)
    BY <1>1, <1>3 DEF Tenths
  <2>2. \A i : i \in Tenths(n - 1) => i \in Tenths(n)
    BY <1>1 DEF Tenths
  <2>3. Tenths(n) = Tenths(n - 1)
    BY <2>1, <2>2
  <2> QED  BY <1>3, <2>3
<1> QED  BY <1>2, <1>3

LEMMA TenthsUnmoved ==
  ASSUME num_files' = num_files, file_index' = file_index
  PROVE  /\ tenth_eval_file_names' = tenth_eval_file_names
         /\ Tenths(file_index)' = Tenths(file_index)
         /\ Tenths(file_index - 1)' = Tenths(file_index - 1)
         /\ Previous' = Previous
BY DEF tenth_eval_file_names, Tenths, Previous

(* A step that leaves the index, the reports and the one thread where they *)
(* are.                                                                    *)
LEMMA ReportsUnmoved ==
  ASSUME ReportsInv,
         UNCHANGED <<file_index, reports, printed_file_index, num_files,
                     num_workers, spawned>>,
         pc'[1] = pc[1], loaded'[1] = loaded[1]
  PROVE  ReportsInv'
BY TenthsUnmoved DEF ReportsInv

LEMMA ReportsSpawn ==
  ASSUME BaseInv, PrintedInv, Spawn, spawned' = 1
  PROVE  ReportsInv'
<1>1. /\ spawned = 0 /\ file_index = 0 /\ reports = {}
      /\ printed_file_index = SizeMax
  BY BaseFacts DEF Spawn, BaseInv, ControlInv, PrintedInv
<1>2. 1 \in Workers /\ DOMAIN pc = Workers
  BY ConstantTypes, BaseFacts
<1>3. /\ pc'[1] = "check" /\ file_index' = 0 /\ reports' = {}
      /\ printed_file_index' = SizeMax
  BY <1>1, <1>2 DEF Spawn, Goto, progressVars
<1>4. Tenths(file_index)' = {}
  BY <1>3 DEF Tenths
<1> QED  BY <1>3, <1>4 DEF ReportsInv

LEMMA ReportsAdvance ==
  ASSUME BaseInv, BaseInv', RaceInv, RaceInv', ReportsInv, Advance(1),
         1 \in Workers, num_workers = 1, spawned = 1
  PROVE  ReportsInv'
<1>1. /\ file_index' = file_index + 1 /\ pc[1] = "advance"
      /\ pc'[1] = "announce"
      /\ UNCHANGED <<num_files, reports, printed_file_index>>
      /\ file_index \in Nat
  BY BaseFacts DEF Advance, At, Goto, mainVars, progressVars
<1>2. /\ reports = Tenths(file_index)
      /\ printed_file_index = IF file_index = 0 THEN SizeMax ELSE file_index
  BY <1>1 DEF ReportsInv
<1>3. Tenths(file_index - 1)' = Tenths(file_index)
  <2>1. file_index' - 1 = file_index
    BY <1>1
  <2> QED  BY <1>1, <2>1 DEF Tenths, tenth_eval_file_names
<1>4. Previous' = printed_file_index
  BY <1>1, <1>2 DEF Previous
<1> QED  BY <1>1, <1>2, <1>3, <1>4 DEF ReportsInv

LEMMA ReportsNext ==
  ASSUME BaseInv, BaseInv', RaceInv, RaceInv', PrintedInv, ReportsInv,
         [Next]_vars
  PROVE  ReportsInv'
<1> SUFFICES ASSUME num_workers' = 1, spawned' = 1
             PROVE  ReportsInv'
  BY DEF ReportsInv
<1>a. /\ DOMAIN pc = Workers /\ 1 \in Workers /\ file_index \in Nat
      /\ spawned \in Nat
      /\ \A w \in Workers : pc[w] # "idle" => w <= spawned
      /\ \A w \in Workers : w \in Nat /\ w >= 1
  BY BaseFacts, ConstantTypes
<1>b. /\ loaded \in [Workers -> 0..SizeMax]
      /\ pc[1] \notin {"idle", "check", "grab", "advance", "done"} =>
           file_index > 0
      /\ file_index \in 0..SizeMax /\ file_index' \in 0..SizeMax
  <2>1. (BaseInv /\ RaceInv => file_index \in 0..SizeMax)'
    BY IndexFits, PTL
  <2> QED  BY <1>a, <2>1, IndexFits DEF PrintedInv, RaceInv, ClaimInv
<1> USE DEF workerVars, mainVars, progressVars, At, Goto
<1> HIDE DEF Workers
<1>1. CASE ParseArguments \/ ReadList \/ ReadListFails \/ Train \/ TrainFails
  BY <1>1 DEF ParseArguments, ReadList, ReadListFails, Train, TrainFails,
              BaseInv, ControlInv
<1>2. CASE Spawn
  BY <1>2, ReportsSpawn
<1>3. CASE SpawnFails \/ Join \/ Return \/ UNCHANGED vars
  BY <1>3, ReportsUnmoved DEF SpawnFails, Join, Return, vars
<1>4. ASSUME NEW w \in Workers, WorkerStep(w) PROVE ReportsInv'
  <2>1. w = 1 /\ num_workers = 1 /\ spawned = 1 /\ num_files' = num_files
    <3>1. pc[w] # "idle" /\ UNCHANGED <<num_workers, spawned, num_files>>
      BY <1>4
         DEF WorkerStep, Check, Grab, Advance, Announce, AnnounceOutOfRange,
             Scan, ScanSkips, ScanThrows, TestTenth, LoadPrinted, Compare,
             Report, LoadIndex, StorePrinted
    <3> QED  BY <1>a, <3>1
  <2> USE DEF ReportsInv
  <2>2. CASE Check(1) \/ Grab(1)
    BY <1>a, <2>1, <2>2, TenthsUnmoved DEF Check, Grab
  <2>3. CASE Advance(1)
    BY <1>a, <2>1, <2>3, ReportsAdvance
  <2>4. CASE Announce(1) \/ AnnounceOutOfRange(1)
    BY <1>a, <2>1, <2>4, TenthsUnmoved DEF Announce, AnnounceOutOfRange
  <2>5. CASE Scan(1) \/ ScanSkips(1) \/ ScanThrows(1)
    BY <1>a, <2>1, <2>5, TenthsUnmoved DEF Scan, ScanSkips, ScanThrows
  <2>6. CASE TestTenth(1)
    BY <1>a, <1>b, <2>1, <2>6, TenthsUnmoved, TenthsStep DEF TestTenth
  <2>7. CASE LoadPrinted(1)
    BY <1>a, <1>b, <2>1, <2>7, TenthsUnmoved DEF LoadPrinted
  <2>8. CASE Compare(1)
    <3>1. pc[1] = "compare" /\ file_index > 0 /\ loaded[1] = Previous
      BY <1>a, <1>b, <2>1, <2>8 DEF Compare
    <3>2. loaded[1] < file_index <=> file_index >= 2
      BY <1>b, <3>1, ConstantTypes DEF Previous
    <3>3. Tenths(file_index) = Tenths(file_index - 1) \/ file_index >= 2
      BY <1>a, <3>1, TenthsStep
    <3> QED  BY <1>a, <2>1, <2>8, <3>2, <3>3, TenthsUnmoved DEF Compare
  <2>9. CASE Report(1)
    <3>1. Tenths(file_index) = Tenths(file_index - 1) \cup {file_index}
      BY <1>a, <2>1, <2>9, TenthsStep DEF Report
    <3> QED  BY <1>a, <2>1, <2>9, <3>1, TenthsUnmoved DEF Report
  <2>10. CASE LoadIndex(1)
    BY <1>a, <1>b, <2>1, <2>10, TenthsUnmoved DEF LoadIndex
  <2>11. CASE StorePrinted(1)
    <3>1. file_index # 0
      BY <1>b, <2>11 DEF StorePrinted
    <3> QED  BY <1>a, <2>1, <2>11, <3>1, TenthsUnmoved DEF StorePrinted
  <2> QED
    BY <1>4, <2>1, <2>2, <2>3, <2>4, <2>5, <2>6, <2>7, <2>8, <2>9, <2>10,
       <2>11 DEF WorkerStep
<1> QED
  BY <1>1, <1>2, <1>3, <1>4 DEF Next, MainStep, MainFails, Over

-----------------------------------------------------------------------------
(* The logs.                                                               *)

LEMMA Parity ==
  ASSUME NEW n \in Nat
  PROVE  n % 2 \in {0, 1} /\ (n + 1) % 2 = 1 - (n % 2)
OBVIOUS

(* A pair is begun by a file after those of the pairs before, and ended by *)
(* the file that began it.                                                 *)
LEMMA AccountGoesOn ==
  ASSUME NEW s \in Seq(Entries), IsAccount(s), NEW e \in Entries,
         \/ /\ Len(s) % 2 = 0 /\ e[2] = "scanning"
            /\ \A i \in DOMAIN s : s[i][1] < e[1]
         \/ Len(s) % 2 = 1 /\ e[2] # "scanning" /\ s[Len(s)][1] = e[1]
  PROVE  /\ IsAccount(Append(s, e))
         /\ Named(Append(s, e)) = Named(s) \cup {e[1]}
         /\ Len(Append(s, e)) = Len(s) + 1
         /\ Append(s, e)[Len(s) + 1] = e
<1> DEFINE n == Len(s)
           t == Append(s, e)
<1>1. /\ n \in Nat /\ DOMAIN s = 1..n /\ DOMAIN t = 1..n + 1
      /\ Len(t) = n + 1 /\ t[n + 1] = e
      /\ \A i \in 1..n : t[i] = s[i]
  OBVIOUS
<1>2. /\ n % 2 \in {0, 1} /\ (n + 1) % 2 = 1 - (n % 2)
      /\ \A i \in 1..n : i % 2 = 1 /\ n = i + 1 => n % 2 = 0
  <2> HIDE DEF n, t
  <2> QED  BY <1>1, Parity
<1>3. \/ /\ n % 2 = 0 /\ e[2] = "scanning"
         /\ \A i \in DOMAIN s : s[i][1] < e[1]
      \/ n % 2 = 1 /\ e[2] # "scanning" /\ s[n][1] = e[1]
  OBVIOUS
<1> HIDE DEF t, n
<1>4. Named(t) = Named(s) \cup {e[1]}
  <2>1. \A i \in 1..n + 1 : i \in 1..n \/ i = n + 1
    BY <1>1
  <2>2. n + 1 \in 1..n + 1 /\ \A i \in 1..n : i \in 1..n + 1
    BY <1>1
  <2> QED  BY <1>1, <2>1, <2>2 DEF Named
<1>5. ASSUME NEW i \in DOMAIN t PROVE t[i][2] = "scanning" <=> i % 2 = 1
  <2>1. CASE i \in 1..n
    BY <1>1, <2>1 DEF IsAccount
  <2>2. CASE i = n + 1
    <3>1. t[i] = e /\ (i % 2 = 1 <=> n % 2 = 0)
      BY <1>1, <1>2, <2>2
    <3> QED  BY <1>3, <3>1, <1>2
  <2> QED  BY <1>1, <1>5, <2>1, <2>2
<1>6. ASSUME NEW i \in DOMAIN t, NEW j \in DOMAIN t, i < j
      PROVE  IF i % 2 = 1 /\ j = i + 1 THEN t[i][1] = t[j][1]
                                       ELSE t[i][1] < t[j][1]
  <2>1. i \in 1..n /\ t[i] = s[i]
    BY <1>1, <1>6
  <2>2. CASE j \in 1..n
    BY <1>1, <1>6, <2>1, <2>2 DEF IsAccount
  <2>3. CASE j = n + 1 /\ n % 2 = 0
    <3>1. ~(i % 2 = 1 /\ j = i + 1) /\ s[i][1] < e[1]
      <4>1. i % 2 = 1 => j # i + 1
        BY <1>1, <1>2, <2>1, <2>3
      <4> QED  BY <1>1, <1>3, <2>1, <2>3, <4>1
    <3> QED  BY <1>1, <2>1, <2>3, <3>1
  <2>4. CASE j = n + 1 /\ n % 2 = 1
    <3>1. s[n][1] = e[1] /\ n \in 1..n
      BY <1>1, <1>3, <2>1, <2>4
    <3>2. CASE i = n
      BY <1>1, <2>1, <2>4, <3>1, <3>2
    <3>3. CASE i # n
      <4>1. i < n /\ ~(i % 2 = 1 /\ n = i + 1) /\ j # i + 1
        BY <1>1, <1>2, <2>1, <2>4, <3>3
      <4>2. s[i][1] < s[n][1]
        BY <1>1, <2>1, <3>1, <4>1 DEF IsAccount
      <4> QED  BY <1>1, <2>1, <2>4, <3>1, <4>1, <4>2
    <3> QED  BY <3>2, <3>3
  <2> QED  BY <1>1, <1>2, <1>6, <2>2, <2>3, <2>4
<1> QED  BY <1>1, <1>4, <1>5, <1>6 DEF IsAccount, n, t

(* What AccountInv says of one worker.                                     *)
Accounted(w) ==
  /\ IsAccount(log[w])
  /\ Len(log[w]) % 2 = IF pc[w] = "scan" THEN 1 ELSE 0
  /\ pc[w] = "scan" => log[w][Len(log[w])][1] = eval_file[w]
  /\ Named(log[w]) = TakenBy(w) \ (IF pc[w] = "announce"
                                     THEN {eval_file[w]} ELSE {})
  /\ pc[w] = "announce" => \A i \in DOMAIN log[w] : log[w][i][1] < eval_file[w]

(* A worker that neither takes a file nor writes keeps its account.        *)
LEMMA AccountUnmoved ==
  ASSUME NEW v \in Workers, Accounted(v), log'[v] = log[v],
         TakenBy(v)' = TakenBy(v),
         \/ pc'[v] = pc[v] /\ eval_file'[v] = eval_file[v]
         \/ pc[v] \notin {"announce", "scan"}
            /\ pc'[v] \notin {"announce", "scan"}
  PROVE  Accounted(v)'
<1>1. /\ IsAccount(log[v])' <=> IsAccount(log[v])
      /\ Named(log[v])' = Named(log[v])
  BY DEF IsAccount, Named
<1> QED  BY <1>1 DEF Accounted

LEMMA AccountInit == Init => \A w \in Workers : Accounted(w)
<1> SUFFICES ASSUME Init, NEW w \in Workers PROVE Accounted(w)
  OBVIOUS
<1>1. log[w] = << >> /\ pc[w] = "idle" /\ claims = {}
  BY DEF Init
<1>2. Len(log[w]) = 0 /\ DOMAIN log[w] = {}
  BY <1>1
<1>3. Named(log[w]) = {} /\ TakenBy(w) = {}
  BY <1>1, <1>2 DEF Named, TakenBy
<1> QED  BY <1>1, <1>2, <1>3 DEF Accounted, IsAccount

(* Where the account of the worker that takes a step stands after it.      *)
LEMMA AccountAdvance ==
  ASSUME BaseInv, RaceInv, NEW w \in Workers, Accounted(w), Advance(w)
  PROVE  /\ Accounted(w)'
         /\ \A v \in Workers \ {w} : TakenBy(v)' = TakenBy(v)
<1> DEFINE k == eval_file[w]
<1>1. /\ pc[w] = "advance" /\ pc'[w] = "announce"
      /\ log' = log /\ eval_file' = eval_file
      /\ claims' = claims \cup {<<w, k>>}
  <2> HIDE DEF Workers
  <2> QED  BY BaseFacts DEF Advance, At, Goto
<1>2. /\ TakenBy(w)' = TakenBy(w) \cup {k}
      /\ \A v \in Workers \ {w} : TakenBy(v)' = TakenBy(v)
  <2>1. ASSUME NEW v \in Workers, NEW x
        PROVE  x \in TakenBy(v)' <=> x \in TakenBy(v) \/ (v = w /\ x = k)
    <3> HIDE DEF Workers, k
    <3>1. x \in TakenBy(v)' <=> \E c \in claims' : c[1] = v /\ c[2] = x
      BY DEF TakenBy
    <3>2. x \in TakenBy(v) <=> \E c \in claims : c[1] = v /\ c[2] = x
      BY DEF TakenBy
    <3>3. <<w, k>>[1] = w /\ <<w, k>>[2] = k
      OBVIOUS
    <3>4. \A c : c \in claims' <=> c \in claims \/ c = <<w, k>>
      BY <1>1
    <3> QED  BY <3>1, <3>2, <3>3, <3>4, Zenon
  <2> HIDE DEF Workers, k
  <2> QED  BY <2>1
<1>3. \A c \in claims : c[1] = w => c[2] \in Nat /\ c[2] < k
  BY <1>1, BaseFacts DEF RaceInv, ClaimInv
<1>4. k \in Nat /\ \A m \in TakenBy(w) : m \in Nat /\ m < k
  <2> HIDE DEF Workers
  <2> QED  BY <1>3, BaseFacts DEF TakenBy
<1>5. Named(log[w]) = TakenBy(w)
  BY <1>1 DEF Accounted
<1>6. \A i \in DOMAIN log[w] : log[w][i][1] < k
  BY <1>4, <1>5 DEF Named
<1>7. Named(log[w]) = TakenBy(w)' \ {k}
  BY <1>2, <1>4, <1>5
<1> HIDE DEF Workers
<1> QED
  BY <1>1, <1>2, <1>6, <1>7 DEF Accounted, IsAccount, Named

LEMMA AccountWrites ==
  ASSUME BaseInv, RaceInv, NEW w \in Workers, Accounted(w),
         NEW label \in {"scanning", "scanned", "skipping"},
         Write(w, <<eval_file[w], label>>),
         UNCHANGED <<claims, eval_file>>,
         \/ pc[w] = "announce" /\ pc'[w] = "scan" /\ label = "scanning"
         \/ pc[w] = "scan" /\ pc'[w] = "mod" /\ label # "scanning"
  PROVE  /\ Accounted(w)'
         /\ \A v \in Workers \ {w} : log'[v] = log[v]
<1> DEFINE e == <<eval_file[w], label>>
           s == log[w]
<1>1. /\ log \in [Workers -> Seq(Entries)] /\ e \in Entries
      /\ eval_file[w] \in Nat
  BY DEF BaseInv, BaseTypes, Entries
<1>2. /\ log'[w] = Append(s, e) /\ s \in Seq(Entries)
      /\ \A v \in Workers \ {w} : log'[v] = log[v]
  <2>1. log' = [log EXCEPT ![w] = Append(log[w], e)]
    BY DEF Write
  <2> HIDE DEF e, Entries, Workers
  <2> QED  BY <1>1, <2>1
<1>3. Len(s) \in Nat /\ e[1] = eval_file[w] /\ e[2] = label
  BY <1>2
<1>4. eval_file[w] \in TakenBy(w)
  <2>1. <<w, eval_file[w]>> \in claims
    <3> HIDE DEF Workers
    <3> QED  BY DEF RaceInv, ClaimInv
  <2> QED  BY <2>1 DEF TakenBy
<1>5. TakenBy(w)' = TakenBy(w)
  BY DEF TakenBy
<1>6. \/ /\ Len(s) % 2 = 0 /\ e[2] = "scanning"
         /\ \A i \in DOMAIN s : s[i][1] < e[1]
      \/ Len(s) % 2 = 1 /\ e[2] # "scanning" /\ s[Len(s)][1] = e[1]
  BY <1>3 DEF Accounted
<1> HIDE DEF e
<1>7. /\ IsAccount(Append(s, e))
      /\ Named(Append(s, e)) = Named(s) \cup {e[1]}
      /\ Len(Append(s, e)) = Len(s) + 1
      /\ Append(s, e)[Len(s) + 1] = e
  <2>1. IsAccount(s)
    BY DEF Accounted
  <2> HIDE DEF s
  <2> QED  BY <1>1, <1>2, <1>6, <2>1, AccountGoesOn
<1>8. Named(log'[w]) = TakenBy(w)
  BY <1>2, <1>3, <1>4, <1>7 DEF Accounted
<1>9. CASE pc[w] = "announce"
  <2>1. Len(s) % 2 = 0 /\ pc'[w] = "scan"
    BY <1>9 DEF Accounted
  <2>2. Len(log'[w]) % 2 = 1
    <3>1. Len(log'[w]) = Len(s) + 1
      BY <1>2, <1>7
    <3> HIDE DEF s
    <3> QED  BY <1>3, <2>1, <3>1, Parity
  <2>3. log'[w][Len(log'[w])][1] = eval_file'[w]
    BY <1>2, <1>3, <1>7
  <2> QED
    BY <1>2, <1>5, <1>7, <1>8, <2>1, <2>2, <2>3 DEF Accounted, IsAccount, Named
<1>10. CASE pc[w] = "scan"
  <2>1. Len(s) % 2 = 1 /\ pc'[w] = "mod"
    BY <1>10 DEF Accounted
  <2>2. Len(log'[w]) % 2 = 0
    <3>1. Len(log'[w]) = Len(s) + 1
      BY <1>2, <1>7
    <3> HIDE DEF s
    <3> QED  BY <1>3, <2>1, <3>1, Parity
  <2> QED
    BY <1>2, <1>5, <1>7, <1>8, <2>1, <2>2 DEF Accounted, IsAccount, Named
<1> QED  BY <1>2, <1>9, <1>10

LEMMA AccountNext ==
  ASSUME BaseInv, RaceInv, \A v \in Workers : Accounted(v), [Next]_vars
  PROVE  \A v \in Workers : Accounted(v)'
<1>a. DOMAIN pc = Workers /\ eval_file \in [Workers -> Nat] /\ spawned \in Nat
  BY BaseFacts
<1>b. claims' = claims => \A v \in Workers : TakenBy(v)' = TakenBy(v)
  BY DEF TakenBy
<1> DEFINE Quiet(v) == /\ pc[v] \notin {"announce", "scan"}
                       /\ pc'[v] \notin {"announce", "scan"}
<1> USE DEF workerVars, mainVars, progressVars, At, Goto
<1> HIDE DEF Workers
<1>1. ASSUME UNCHANGED <<log, claims>>,
             \A v \in Workers :
               \/ pc'[v] = pc[v] /\ eval_file'[v] = eval_file[v]
               \/ Quiet(v)
      PROVE  \A v \in Workers : Accounted(v)'
  BY <1>b, <1>1, AccountUnmoved
<1>2. CASE MainStep \/ MainFails \/ Over \/ UNCHANGED vars
  <2>1. CASE Spawn
    <3>1. pc[spawned + 1] = "idle" /\ spawned + 1 \in Workers
      BY <2>1, ConstantTypes DEF Spawn, BaseInv, BaseTypes, ControlInv, Workers
    <3> QED  BY <1>a, <1>1, <2>1, <3>1 DEF Spawn
  <2>2. CASE ParseArguments \/ ReadList \/ ReadListFails \/ Train \/ TrainFails
    BY <1>1, <2>2 DEF ParseArguments, ReadList, ReadListFails, Train, TrainFails
  <2>3. CASE SpawnFails \/ Join \/ Return \/ Over \/ UNCHANGED vars
    BY <1>1, <2>3 DEF SpawnFails, Join, Return, Over, vars
  <2> QED  BY <1>2, <2>1, <2>2, <2>3 DEF MainStep, MainFails
<1>3. ASSUME NEW w \in Workers, Check(w) \/ Grab(w)
      PROVE  \A v \in Workers : Accounted(v)'
  BY <1>a, <1>1, <1>3 DEF Check, Grab
<1>4. ASSUME NEW w \in Workers, Advance(w)
      PROVE  \A v \in Workers : Accounted(v)'
  <2>1. Accounted(w)' /\ \A v \in Workers \ {w} : TakenBy(v)' = TakenBy(v)
    BY <1>4, AccountAdvance
  <2>2. \A v \in Workers \ {w} : pc'[v] = pc[v] /\ eval_file'[v] = eval_file[v]
    BY <1>a, <1>4 DEF Advance
  <2>3. log' = log
    BY <1>4 DEF Advance
  <2> QED  BY <2>1, <2>2, <2>3, AccountUnmoved
<1>5. ASSUME NEW w \in Workers, NEW label \in {"scanning", "scanned", "skipping"},
             Write(w, <<eval_file[w], label>>), UNCHANGED <<claims, eval_file>>,
             \/ pc[w] = "announce" /\ Goto(w, "scan") /\ label = "scanning"
             \/ pc[w] = "scan" /\ Goto(w, "mod") /\ label # "scanning"
      PROVE  \A v \in Workers : Accounted(v)'
  <2>1. Accounted(w)' /\ \A v \in Workers \ {w} : log'[v] = log[v]
    BY <1>a, <1>5, AccountWrites
  <2>2. \A v \in Workers \ {w} : pc'[v] = pc[v]
    BY <1>a, <1>5
  <2> QED  BY <1>b, <1>5, <2>1, <2>2, AccountUnmoved
<1>6. ASSUME NEW w \in Workers, Announce(w) \/ AnnounceOutOfRange(w)
      PROVE  \A v \in Workers : Accounted(v)'
  <2>1. CASE Write(w, <<eval_file[w], "scanning">>) /\ Goto(w, "scan")
    BY <1>5, <1>6, <2>1 DEF Announce, AnnounceOutOfRange
  <2>2. CASE UNCHANGED <<pc, log>>
    BY <1>1, <1>6, <2>2 DEF Announce, AnnounceOutOfRange
  <2> QED  BY <1>6, <2>1, <2>2 DEF Announce, AnnounceOutOfRange
<1>7. ASSUME NEW w \in Workers, Scan(w) PROVE \A v \in Workers : Accounted(v)'
  BY <1>5, <1>7 DEF Scan, Outcome
<1>8. ASSUME NEW w \in Workers, ScanSkips(w)
      PROVE  \A v \in Workers : Accounted(v)'
  BY <1>5, <1>8 DEF ScanSkips
<1>9. ASSUME NEW w \in Workers,
             \/ ScanThrows(w) \/ TestTenth(w) \/ LoadPrinted(w) \/ Compare(w)
             \/ Report(w) \/ LoadIndex(w) \/ StorePrinted(w)
      PROVE  \A v \in Workers : Accounted(v)'
  <2>1. CASE ScanThrows(w)
    BY <1>1, <2>1 DEF ScanThrows
  <2>2. CASE TestTenth(w) \/ LoadPrinted(w) \/ Compare(w)
    BY <1>a, <1>1, <2>2 DEF TestTenth, LoadPrinted, Compare
  <2>3. CASE Report(w) \/ LoadIndex(w) \/ StorePrinted(w)
    BY <1>a, <1>1, <2>3 DEF Report, LoadIndex, StorePrinted
  <2> QED  BY <1>9, <2>1, <2>2, <2>3
<1> QED
  BY <1>2, <1>3, <1>4, <1>6, <1>7, <1>8, <1>9 DEF Next, WorkerStep

LEMMA AccountCorrect == Spec => []AccountInv
<1> DEFINE Accounts == \A w \in Workers : Accounted(w)
<1>1. Init => Accounts
  BY AccountInit
<1>2. BaseInv /\ RaceInv /\ Accounts /\ [Next]_vars => Accounts'
  <2> HIDE DEF Workers
  <2>1. Workers' = Workers
    BY DEF Workers
  <2> QED  BY <2>1, AccountNext
<1>3. Accounts => AccountInv
  BY Zenon DEF Accounted, AccountInv
<1> HIDE DEF Accounts
<1> QED  BY <1>1, <1>2, <1>3, RaceCorrect, PTL DEF Spec

(* Whatever the list and the race, the log of a worker names every file it *)
(* took, in order and once, with how its scan ended.                       *)
THEOREM LogsCorrect == Spec => []LogAccountsForClaims
<1>1. BaseInv /\ AccountInv => LogAccountsForClaims
  <2> SUFFICES ASSUME BaseInv, AccountInv, NEW w \in Workers
               PROVE  /\ main = "finished" =>
                           /\ IsAccount(log[w]) /\ Len(log[w]) % 2 = 0
                           /\ Named(log[w]) = TakenBy(w)
                      /\ IsAccount(log[w])
                      /\ Named(log[w]) \subseteq TakenBy(w)
                      /\ TakenBy(w) \ Named(log[w]) \subseteq {eval_file[w]}
    BY DEF LogAccountsForClaims
  <2>1. main = "finished" => pc[w] \in {"idle", "done"}
    <3>1. main = "finished" => joined = spawned /\ spawned \in Nat /\ w \in Nat
      BY BaseFacts DEF BaseInv, ControlInv
    <3> HIDE DEF Workers
    <3> QED  BY <3>1 DEF BaseInv, ControlInv
  <2> HIDE DEF Workers
  <2> QED  BY <2>1 DEF AccountInv
<1> QED  BY <1>1, BaseCorrect, AccountCorrect, PTL

-----------------------------------------------------------------------------
(* The whole invariant.                                                    *)

(* The inductive invariant holds in every reachable state.                 *)
THEOREM InvariantCorrect == Spec => []IInv
<1>1. Spec => []PrintedInv
  BY PrintedInit, PrintedNext, RaceCorrect, PTL DEF Spec
<1>2. Init => ReportsInv
  BY DEF Init, ReportsInv
<1>3. Spec => []ReportsInv
  BY <1>1, <1>2, ReportsNext, RaceCorrect, PTL DEF Spec
<1>4. TypeOK /\ BaseInv /\ RaceInv /\ PrintedInv /\ ReportsInv /\ AccountInv
        => IInv
  BY DEF BaseInv, RaceInv, IInv
<1> QED
  BY <1>1, <1>3, <1>4, TypeCorrect, RaceCorrect, AccountCorrect, PTL

(* With one scanner thread the progress lines are those of the tenths but  *)
(* for the first file, for a list of any length.                           *)
THEOREM ReportsCorrect == Spec => []ReportsTheTenths
<1>1. BaseInv /\ RaceInv /\ IInv => ReportsTheTenths
  <2> SUFFICES ASSUME BaseInv, RaceInv, IInv, main = "finished",
                      num_workers = 1
               PROVE  reports = Tenths(num_files)
    BY DEF ReportsTheTenths, Tenths, IInv, PrintedInv
  <2>1. 1 \in Workers /\ spawned = 1 /\ joined = 1
    BY ConstantTypes DEF BaseInv, ControlInv
  <2>2. pc[1] = "done" /\ file_index >= num_files
    <3> HIDE DEF Workers
    <3> QED  BY <2>1, BaseFacts DEF BaseInv, ControlInv
  <2>3. file_index < num_files + 1
    BY IndexFits
  <2>4. file_index = num_files
    BY <2>2, <2>3, BaseFacts
  <2> QED  BY <2>1, <2>2, <2>4 DEF IInv, ReportsInv
<1> QED  BY <1>1, InvariantCorrect, RaceCorrect, PTL

-----------------------------------------------------------------------------
(* The scan as a visit of the files.                                       *)

(* GreedyVisit counts with the Cardinality of its own instance.            *)
LEMMA SameCardinality ==
  ASSUME NEW S
  PROVE  Visit!Cardinality(S) = Cardinality(S)
BY Zenon DEF Cardinality, Visit!Cardinality

AtFile(w) == pc[w] \in {"announce", "scan"}

LEMMA VisitUnmoved ==
  ASSUME BaseInv, UNCHANGED <<claims, num_files, args>>,
         \A w \in Workers :
           \/ ~AtFile(w) /\ ~AtFile(w)'
           \/ AtFile(w) /\ AtFile(w)' /\ eval_file'[w] = eval_file[w]
  PROVE  /\ VisitsMade' = VisitsMade
         /\ ListLength' = ListLength
<1>1. \A c \in claims : c[1] \in Workers
  BY BaseFacts
<1>2. VisitsMade' = VisitsMade
  <2> HIDE DEF Workers
  <2> QED  BY <1>1 DEF VisitsMade, Files, AtFile
<1> QED  BY <1>2 DEF ListLength

LEMMA ScannedUnmoved ==
  ASSUME UNCHANGED <<log, num_files>>
  PROVE  Scanned' = Scanned
BY DEF Scanned, Files

LEMMA ScannedWrites ==
  ASSUME BaseInv, NEW w \in Workers, NEW l \in {"scanning", "scanned", "skipping"},
         Write(w, <<eval_file[w], l>>), num_files' = num_files
  PROVE  Scanned' = IF l = "scanned" /\ eval_file[w] \in Files
                    THEN Scanned \cup {eval_file[w]} ELSE Scanned
<1> DEFINE e == <<eval_file[w], l>>
<1>1. e \in Entries /\ log[w] \in Seq(Entries) /\ DOMAIN log = Workers
  BY DEF BaseInv, BaseTypes, Entries
<1>2. log' = [log EXCEPT ![w] = Append(log[w], e)]
  BY DEF Write
<1>3. \A x : (\E i \in DOMAIN log'[w] : log'[w][i] = x)
               <=> (\E i \in DOMAIN log[w] : log[w][i] = x) \/ x = e
  <2>1. log'[w] = Append(log[w], e)
    BY <1>1, <1>2
  <2> DEFINE t == Append(log[w], e)
  <2> HIDE DEF e
  <2>2. \A x : (\E i \in DOMAIN t : t[i] = x)
                 <=> (\E i \in DOMAIN log[w] : log[w][i] = x) \/ x = e
    BY <1>1, LogAppends
  <2>3. log'[w] = t
    BY <2>1
  <2> HIDE DEF t
  <2> QED  BY <2>2, <2>3
<1>4. \A v \in Workers : v # w => log'[v] = log[v]
  BY <1>1, <1>2
<1>5. Files' = Files
  BY DEF Files
<1>6. \A k : <<k, "scanned">> = e <=> k = eval_file[w] /\ l = "scanned"
  OBVIOUS
<1>7. ASSUME NEW k \in Files
      PROVE  k \in Scanned' <=>
               k \in Scanned \/ (k = eval_file[w] /\ l = "scanned")
  <2> DEFINE Before(v) == \E i \in DOMAIN log[v] : log[v][i] = <<k, "scanned">>
             After(v) ==
               \E i \in DOMAIN log'[v] : log'[v][i] = <<k, "scanned">>
  <2>1. After(w) <=> Before(w) \/ (k = eval_file[w] /\ l = "scanned")
    <3> HIDE DEF e
    <3> QED  BY <1>3, <1>6
  <2>2. \A v \in Workers : v # w => (After(v) <=> Before(v))
    BY <1>4
  <2>3. k \in Scanned <=> \E v \in Workers : Before(v)
    BY DEF Scanned
  <2>4. k \in Scanned' <=> \E v \in Workers : After(v)
    BY <1>5 DEF Scanned
  <2> HIDE DEF Workers, Before, After
  <2> QED  BY <2>1, <2>2, <2>3, <2>4
<1>8. Scanned \subseteq Files /\ Scanned' \subseteq Files
  BY <1>5 DEF Scanned
<1> HIDE DEF e
<1> QED  BY <1>7, <1>8

LEMMA StatusUnmoved ==
  ASSUME main' = main \/ (main = "spawning" /\ main' = "joining")
  PROVE  VisitStatus' = VisitStatus
BY DEF VisitStatus

(* A thread inside its loop keeps main from being over.                    *)
LEMMA VisitingWhileAtWork ==
  ASSUME BaseInv, NEW w \in Workers, pc[w] \notin {"idle", "done"},
         main # "aborted"
  PROVE  VisitStatus = "visiting"
<1>1. spawned # 0 /\ w <= spawned /\ w \in Nat /\ w >= 1
  <2> HIDE DEF Workers
  <2> QED  BY BaseFacts
<1>2. main # "finished"
  <2> HIDE DEF Workers
  <2> QED  BY <1>1 DEF BaseInv, ControlInv
<1> QED
  BY <1>1, <1>2 DEF BaseInv, ControlInv, VisitStatus

LEMMA RefinesInit == Init => Visit!Init
<1> SUFFICES ASSUME Init PROVE Visit!Init
  OBVIOUS
<1>1. \A w \in Workers : DOMAIN log[w] = {}
  BY DEF Init
<1>2. Scanned = {} /\ VisitsMade = {}
  <2> HIDE DEF Workers
  <2> QED  BY <1>1 DEF Scanned, VisitsMade, Init
<1>3. ListLength \in 0..MaxFiles
  BY BaseInit, ArgumentTypes DEF BaseInv
<1>4. VisitStatus = "visiting"
  BY DEF Init, VisitStatus
<1>5. 0..ListLength - 1 \in SUBSET (0..MaxFiles - 1)
  BY <1>3, ConstantTypes
<1> QED  BY <1>2, <1>4, <1>5 DEF Visit!Init

(* A claim is not a visit yet: its worker is still at the file.            *)
LEMMA VisitAdvance ==
  ASSUME BaseInv, ClaimInv, NEW w \in Workers, Advance(w)
  PROVE  UNCHANGED Visit!vars
<1> DEFINE c0 == <<w, eval_file[w]>>
<1>1. /\ claims' = claims \cup {c0}
      /\ UNCHANGED <<eval_file, log, num_files, args, main>>
      /\ pc[w] = "advance" /\ pc' = [pc EXCEPT ![w] = "announce"]
  BY DEF Advance, At, Goto, mainVars
<1>2. /\ DOMAIN pc = Workers /\ eval_file \in [Workers -> Nat]
      /\ \A c \in claims : c[1] \in Workers /\ c[2] \in Nat
      /\ \A c \in claims : c[1] = w => c[2] < eval_file[w]
  BY <1>1, BaseFacts DEF ClaimInv
<1>3. Files' = Files
  BY <1>1 DEF Files
<1>4. c0 \notin VisitsMade'
  BY <1>1, <1>2 DEF VisitsMade
<1>5. c0 \notin claims
  BY <1>2
<1>6. ASSUME NEW c \in claims
      PROVE  c \in VisitsMade' <=> c \in VisitsMade
  <2>1. CASE c[1] = w
    <3>1. c[2] # eval_file[w]
      BY <1>2, <2>1
    <3> HIDE DEF Workers, c0
    <3> QED  BY <1>1, <1>3, <2>1, <3>1 DEF VisitsMade
  <2>2. CASE c[1] # w
    <3> HIDE DEF Workers, c0
    <3> QED  BY <1>1, <1>2, <1>3, <2>2 DEF VisitsMade
  <2> QED  BY <2>1, <2>2
<1>7. VisitsMade \subseteq claims /\ VisitsMade' \subseteq claims'
  BY DEF VisitsMade
<1>8. VisitsMade' = VisitsMade
  <2> HIDE DEF c0
  <2> QED  BY <1>1, <1>4, <1>5, <1>6, <1>7
<1>9. Scanned' = Scanned /\ VisitStatus' = VisitStatus /\ ListLength' = ListLength
  BY <1>1, ScannedUnmoved, StatusUnmoved DEF ListLength
<1> QED  BY <1>8, <1>9 DEF Visit!vars

(* A worker that is done with an existing file has visited it.             *)
LEMMA VisitEnds ==
  ASSUME BaseInv, ClaimInv, NEW w \in Workers,
         At(w, "scan"), Goto(w, "mod"),
         UNCHANGED <<claims, eval_file, num_files, args, main>>
  PROVE  /\ eval_file[w] \in Files =>
              /\ <<w, eval_file[w]>> \notin VisitsMade
              /\ VisitsMade' = VisitsMade \cup {<<w, eval_file[w]>>}
         /\ eval_file[w] \notin Files => VisitsMade' = VisitsMade
<1> DEFINE c0 == <<w, eval_file[w]>>
<1>1. /\ pc[w] = "scan" /\ pc' = [pc EXCEPT ![w] = "mod"]
      /\ DOMAIN pc = Workers
      /\ \A c \in claims : c[1] \in Workers /\ c = <<c[1], c[2]>>
  BY BaseFacts DEF At, Goto
<1>2. c0 \in claims /\ c0[1] = w /\ c0[2] = eval_file[w]
  BY <1>1 DEF ClaimInv
<1>3. Files' = Files
  BY DEF Files
<1>4. c0 \notin VisitsMade
  BY <1>1, <1>2 DEF VisitsMade
<1>5. ASSUME NEW c \in claims
      PROVE  c \in VisitsMade' <=>
               c \in VisitsMade \/ (c = c0 /\ eval_file[w] \in Files)
  <2>1. CASE c[1] = w /\ c[2] = eval_file[w]
    <3>1. c = c0
      BY <1>1, <2>1
    <3> HIDE DEF c0, Workers
    <3> QED  BY <1>1, <1>2, <1>3, <1>4, <3>1 DEF VisitsMade
  <2>2. CASE c[1] = w /\ c[2] # eval_file[w]
    <3> HIDE DEF c0, Workers
    <3> QED  BY <1>1, <1>2, <1>3, <2>2 DEF VisitsMade
  <2>3. CASE c[1] # w
    <3> HIDE DEF c0, Workers
    <3> QED  BY <1>1, <1>2, <1>3, <2>3 DEF VisitsMade
  <2> QED  BY <2>1, <2>2, <2>3
<1>6. VisitsMade \subseteq claims /\ VisitsMade' \subseteq claims
  BY DEF VisitsMade
<1> HIDE DEF c0
<1>7. CASE eval_file[w] \in Files
  BY <1>2, <1>4, <1>5, <1>6, <1>7 DEF c0
<1>8. CASE eval_file[w] \notin Files
  BY <1>5, <1>6, <1>8
<1> QED  BY <1>7, <1>8

LEMMA VisitScan ==
  ASSUME BaseInv, ClaimInv, NEW w \in Workers, Scan(w) \/ ScanSkips(w)
  PROVE  [Visit!Next]_(Visit!vars)
<1> DEFINE k == eval_file[w]
<1>1. /\ At(w, "scan") /\ Goto(w, "mod")
      /\ UNCHANGED <<claims, eval_file, num_files, args, main>>
  BY DEF Scan, ScanSkips, mainVars
<1>2. VisitStatus = "visiting" /\ VisitStatus' = VisitStatus
  BY <1>1, VisitingWhileAtWork, StatusUnmoved DEF At
<1>3. Scanned' = Scanned \cup ({k} \cap (Files \ Unreadable))
  <2>1. CASE Scan(w)
    <3>1. Write(w, <<k, "scanned">>) /\ k \in Files \ Unreadable
      BY <2>1 DEF Scan, Outcome
    <3>2. Scanned' = Scanned \cup {k}
      BY <1>1, <3>1, ScannedWrites
    <3> HIDE DEF k
    <3> QED  BY <3>1, <3>2
  <2>2. CASE ScanSkips(w)
    <3>1. Write(w, <<k, "skipping">>) /\ k \notin Files \ Unreadable
      BY <2>2 DEF ScanSkips
    <3>2. Scanned' = Scanned
      BY <1>1, <3>1, ScannedWrites
    <3> HIDE DEF k
    <3> QED  BY <3>1, <3>2
  <2> QED  BY <2>1, <2>2
<1>4. ListLength' = ListLength
  BY <1>1 DEF ListLength
<1>5. /\ num_files <= ListLength /\ ListLength \in 0..MaxFiles
      /\ num_files \in Nat
  BY ArgumentTypes, BaseFacts DEF BaseInv, ControlInv
<1>6. CASE k \in Files
  <2>1. k \in 0..ListLength - 1 /\ k \in 0..MaxFiles - 1
    BY <1>5, <1>6, ConstantTypes DEF Files
  <2>2. {k} \cap (Files \ Unreadable)
          = {k} \cap ((0..MaxFiles - 1) \ Unreadable)
    BY <1>6, <2>1
  <2>3. Visit!Visit(w, k)
    <3> HIDE DEF k
    <3> QED
      BY <1>1, <1>2, <1>3, <1>4, <1>6, <2>1, <2>2, VisitEnds
         DEF Visit!Visit, k
  <2> QED  BY <2>1, <2>3 DEF Visit!Next
<1>7. CASE k \notin Files
  <2>1. Scanned' = Scanned
    BY <1>3, <1>7
  <2>2. VisitsMade' = VisitsMade
    BY <1>1, <1>7, VisitEnds
  <2> QED  BY <1>2, <1>4, <2>1, <2>2 DEF Visit!vars
<1> QED  BY <1>6, <1>7

LEMMA VisitReturn ==
  ASSUME BaseInv, BaseInv', RaceInv', Return
  PROVE  Visit!Finish
<1>1. /\ main = "joining" /\ main' = "finished" /\ joined = num_workers
      /\ UNCHANGED <<log, claims, pc, eval_file, args, num_files>>
      /\ UNCHANGED num_workers
  BY DEF Return, workerVars
<1>2. /\ VisitsMade' = VisitsMade /\ Scanned' = Scanned
      /\ ListLength' = ListLength
  BY <1>1 DEF VisitsMade, Scanned, Files, ListLength
<1>3. VisitStatus = "visiting" /\ VisitStatus' = "finished"
  BY <1>1 DEF VisitStatus
<1>4. num_files = ListLength /\ \A w \in Workers : ~AtFile(w)
  <2>1. \A w \in Workers : pc[w] # "idle" => w <= joined
    <3> HIDE DEF Workers
    <3> QED  BY <1>1, BaseFacts DEF BaseInv, ControlInv
  <2> HIDE DEF Workers
  <2> QED  BY <1>1, <2>1 DEF BaseInv, ControlInv, AtFile
<1>5. VisitsMade = {c \in claims : c[2] \in Files}
  <2>1. \A c \in claims : c[1] \in Workers
    BY BaseFacts
  <2> HIDE DEF Workers
  <2> QED  BY <1>4, <2>1 DEF VisitsMade, AtFile
<1>6. Visit!Seen = Taken /\ Taken' = Taken
  <2> HIDE DEF Workers
  <2> QED  BY <1>1, <1>4, <1>5 DEF Visit!Seen, Taken, Files
<1>7. num_workers * Cardinality(Taken) >= num_files
  <2>1. (BaseInv /\ RaceInv /\ main = "finished" =>
           num_workers * Cardinality(Taken) >= num_files)'
    BY FinishedCount, PTL
  <2> QED  BY <1>1, <1>6, <2>1
<1>8. IsFiniteSet(Taken) /\ Cardinality(Taken) \in Nat
  <2>1. Taken \in SUBSET Files
    BY DEF Taken
  <2> QED  BY <2>1, FilesFinite, FS_Subset, FS_CardinalityType
<1>9. MaxWorkers * Cardinality(Taken) >= num_files
  <2> DEFINE n == Cardinality(Taken)
  <2>1. /\ num_workers \in Nat /\ num_workers <= MaxWorkers
        /\ MaxWorkers \in Nat /\ n \in Nat /\ num_files \in Nat
    BY <1>8, BaseFacts, ConstantTypes DEF BaseInv, BaseTypes
  <2>2. PICK d \in Nat : MaxWorkers = num_workers + d
    <3>1. MaxWorkers - num_workers \in Nat
      BY <2>1
    <3>2. MaxWorkers = num_workers + (MaxWorkers - num_workers)
      BY <2>1
    <3> QED  BY <3>1, <3>2
  <2> HIDE DEF n
  <2>3. MaxWorkers * n = num_workers * n + d * n /\ d * n \in Nat
        /\ num_workers * n \in Nat
    BY <2>1, <2>2
  <2>4. num_workers * n >= num_files
    BY <1>7 DEF n
  <2>5. MaxWorkers * n >= num_files
    BY <2>1, <2>3, <2>4
  <2> QED  BY <2>5 DEF n
<1>10. Cardinality(Workers) = MaxWorkers
  <2>1. MaxWorkers \in Int /\ 1 \in Int /\ ~(1 > MaxWorkers)
    BY ConstantTypes
  <2> QED  BY <2>1, FS_Interval
<1>11. Cardinality(0..ListLength - 1) = num_files
  BY <1>4, FilesFinite DEF Files
<1> HIDE DEF Workers
<1> QED
  BY <1>1, <1>2, <1>3, <1>6, <1>9, <1>10, <1>11, SameCardinality
     DEF Visit!Finish

LEMMA RefinesNext ==
  ASSUME IInv, BaseInv, RaceInv, BaseInv', RaceInv', [Next]_vars
  PROVE  [Visit!Next]_(Visit!vars)
<1>1. ClaimInv /\ DOMAIN pc = Workers
  BY BaseFacts DEF RaceInv
<1>a. ASSUME UNCHANGED <<VisitsMade, Scanned, ListLength>>,
             VisitStatus = "visiting", VisitStatus' = "failed"
      PROVE  Visit!Next
  BY <1>a DEF Visit!Next, Visit!Fail
<1>b. ASSUME UNCHANGED <<claims, num_files, args, pc, eval_file, log>>
      PROVE  UNCHANGED <<VisitsMade, Scanned, ListLength>>
  BY <1>b DEF VisitsMade, Scanned, Files, ListLength
<1> USE DEF workerVars, mainVars, progressVars
<1>2. CASE ParseArguments
  <2>1. UNCHANGED <<VisitsMade, Scanned, ListLength>>
    BY <1>b, <1>2 DEF ParseArguments
  <2>2. VisitStatus = "visiting" /\ VisitStatus' \in {"visiting", "failed"}
    BY <1>2 DEF ParseArguments, VisitStatus
  <2> QED  BY <1>a, <2>1, <2>2 DEF Visit!vars
<1>3. CASE ReadList
  <2>1. spawned = 0 /\ UNCHANGED <<claims, log, pc, args>>
    BY <1>3 DEF ReadList, BaseInv, ControlInv
  <2>2. claims = {} /\ \A w \in Workers : log[w] = << >>
    <3> HIDE DEF Workers
    <3> QED  BY <2>1, BaseFacts DEF BaseInv, ControlInv
  <2>3. VisitsMade = {} /\ VisitsMade' = {}
    BY <2>1, <2>2 DEF VisitsMade
  <2>4. Scanned = {} /\ Scanned' = {}
    <3>1. \A w \in Workers : DOMAIN log[w] = {}
      BY <2>2
    <3> HIDE DEF Workers
    <3> QED  BY <2>1, <3>1 DEF Scanned
  <2>5. ListLength' = ListLength /\ VisitStatus' = VisitStatus
    BY <1>3 DEF ReadList, ListLength, VisitStatus
  <2> QED  BY <2>3, <2>4, <2>5 DEF Visit!vars
<1>4. CASE ReadListFails \/ TrainFails \/ SpawnFails
  <2>1. UNCHANGED <<VisitsMade, Scanned, ListLength>>
    BY <1>b, <1>4 DEF ReadListFails, TrainFails, SpawnFails
  <2>2. VisitStatus = "visiting" /\ VisitStatus' = "failed"
    BY <1>4 DEF ReadListFails, TrainFails, SpawnFails, VisitStatus
  <2> QED  BY <1>a, <2>1, <2>2
<1>5. CASE Train \/ Join \/ UNCHANGED vars
  <2>1. UNCHANGED <<VisitsMade, Scanned, ListLength>>
    BY <1>b, <1>5 DEF Train, Join, vars
  <2>2. VisitStatus' = VisitStatus
    BY <1>5 DEF Train, Join, vars, VisitStatus
  <2> QED  BY <2>1, <2>2 DEF Visit!vars
<1>6. CASE Spawn
  <2>1. spawned + 1 \in Workers /\ pc[spawned + 1] = "idle"
    BY <1>6, ConstantTypes DEF Spawn, BaseInv, BaseTypes, ControlInv
  <2>2. \A w \in Workers : \/ ~AtFile(w) /\ ~AtFile(w)'
                           \/ AtFile(w) /\ AtFile(w)'
    <3> HIDE DEF Workers
    <3> QED  BY <1>1, <1>6, <2>1 DEF Spawn, Goto, AtFile
  <2>3. VisitsMade' = VisitsMade /\ ListLength' = ListLength
    <3> HIDE DEF Workers
    <3> QED  BY <1>6, <2>2, VisitUnmoved DEF Spawn
  <2>4. Scanned' = Scanned /\ VisitStatus' = VisitStatus
    BY <1>6, ScannedUnmoved, StatusUnmoved DEF Spawn
  <2> QED  BY <2>3, <2>4 DEF Visit!vars
<1>7. CASE Return
  BY <1>7, VisitReturn DEF Visit!Next
<1>8. ASSUME NEW w \in Workers,
             \/ Check(w) \/ Grab(w)
             \/ TestTenth(w) \/ LoadPrinted(w) \/ Compare(w)
             \/ Report(w) \/ LoadIndex(w) \/ StorePrinted(w)
      PROVE  UNCHANGED Visit!vars
  <2>1. /\ UNCHANGED <<claims, num_files, args, log, main>>
        /\ \A v \in Workers : v # w => eval_file'[v] = eval_file[v]
    <3> HIDE DEF Workers
    <3> QED
      BY <1>1, <1>8, BaseFacts
         DEF Check, Grab, TestTenth, LoadPrinted, Compare, Report, LoadIndex,
             StorePrinted
  <2>2. pc[w] \notin {"announce", "scan"} /\ pc'[w] \notin {"announce", "scan"}
    <3> HIDE DEF Workers
    <3>1. CASE Check(w) \/ Grab(w)
      BY <1>1, <3>1 DEF Check, Grab, At, Goto
    <3>2. CASE TestTenth(w) \/ LoadPrinted(w) \/ Compare(w)
      BY <1>1, <3>2 DEF TestTenth, LoadPrinted, Compare, At, Goto
    <3>3. CASE Report(w) \/ LoadIndex(w) \/ StorePrinted(w)
      BY <1>1, <3>3 DEF Report, LoadIndex, StorePrinted, At, Goto
    <3> QED  BY <1>8, <3>1, <3>2, <3>3
  <2>3. \A v \in Workers : v # w => pc'[v] = pc[v]
    <3> HIDE DEF Workers
    <3> QED
      BY <1>1, <1>8
         DEF Check, Grab, TestTenth, LoadPrinted, Compare, Report, LoadIndex,
             StorePrinted, Goto
  <2>4. VisitsMade' = VisitsMade /\ ListLength' = ListLength
    <3> HIDE DEF Workers
    <3> QED  BY <2>1, <2>2, <2>3, VisitUnmoved DEF AtFile
  <2> QED
    BY <2>1, <2>4, ScannedUnmoved, StatusUnmoved DEF Visit!vars
<1>9. ASSUME NEW w \in Workers, Announce(w) \/ AnnounceOutOfRange(w)
      PROVE  [Visit!Next]_(Visit!vars)
  <2>1. CASE main' = main
    <3>1. /\ Write(w, <<eval_file[w], "scanning">>)
          /\ pc[w] = "announce" /\ pc' = [pc EXCEPT ![w] = "scan"]
          /\ UNCHANGED <<claims, num_files, args, eval_file>>
      BY <1>9, <2>1 DEF Announce, AnnounceOutOfRange, At, Goto
    <3>2. \A v \in Workers : \/ ~AtFile(v) /\ ~AtFile(v)'
                             \/ AtFile(v) /\ AtFile(v)'
      <4> HIDE DEF Workers
      <4> QED  BY <1>1, <3>1 DEF AtFile
    <3>3. VisitsMade' = VisitsMade /\ ListLength' = ListLength
      <4> HIDE DEF Workers
      <4> QED  BY <3>1, <3>2, VisitUnmoved
    <3>4. Scanned' = Scanned
      BY <3>1, ScannedWrites
    <3> QED  BY <2>1, <3>3, <3>4, StatusUnmoved DEF Visit!vars
  <2>2. CASE main' # main
    <3>1. /\ main' = "aborted" /\ main # "aborted" /\ pc[w] = "announce"
          /\ UNCHANGED <<claims, num_files, args, pc, eval_file, log>>
      BY <1>9, <2>2 DEF Announce, AnnounceOutOfRange, At
    <3>2. VisitStatus = "visiting" /\ VisitStatus' = "failed"
      BY <3>1, VisitingWhileAtWork DEF VisitStatus
    <3> QED  BY <1>a, <1>b, <3>1, <3>2
  <2> QED  BY <2>1, <2>2
<1>10. ASSUME NEW w \in Workers, ScanThrows(w)
       PROVE  [Visit!Next]_(Visit!vars)
  <2>1. /\ main' = "aborted" /\ main # "aborted" /\ pc[w] = "scan"
        /\ UNCHANGED <<claims, num_files, args, pc, eval_file, log>>
    BY <1>10 DEF ScanThrows, At
  <2>2. VisitStatus = "visiting" /\ VisitStatus' = "failed"
    BY <2>1, VisitingWhileAtWork DEF VisitStatus
  <2> QED  BY <1>a, <1>b, <2>1, <2>2
<1> QED
  BY <1>1, <1>2, <1>3, <1>4, <1>5, <1>6, <1>7, <1>8, <1>9, <1>10,
     VisitAdvance, VisitScan
     DEF Next, MainStep, MainFails, WorkerStep, Over

(* For any list, any number of threads and any command line the scanner is *)
(* a bounded visit of the files: each step visits one file anew, fails,    *)
(* finishes with one file in MaxWorkers seen, or changes nothing of it.    *)
THEOREM RefinementCorrect == Spec => ImplementsGreedyVisit
BY InvariantCorrect, RaceCorrect, RefinesInit, RefinesNext, PTL
   DEF Spec, ImplementsGreedyVisit, Visit!Spec
=============================================================================
