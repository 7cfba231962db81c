---------------------------- MODULE TrieTraversal ----------------------------
(***************************************************************************)
(* Trie::SearchNearestExpressionsUsingTrieTraversal (src/autocorrect.cpp): *)
(* the search for corrections of an expression.  sqrt(max_threads) worker  *)
(* threads share an atomic index over the paths of the trie; each takes    *)
(* the path at the index, moves the index on, and appends the path to the  *)
(* shared result when its edit distance is within max_cost.                *)
(*                                                                         *)
(* path_index is atomic, but a worker loads it to test the bound, loads it *)
(* again to pick the path, and increments it: three steps, and other       *)
(* workers may move in between.                                            *)
(***************************************************************************)
EXTENDS Integers, Sequences, FiniteSets

CONSTANTS
  NumPaths,    \* all_trie_paths.size()
  Near,        \* the indexes of the paths within max_cost of the target
  MaxThreads,  \* the argument max_threads
  NumWorkers   \* sqrt_max_threads

(* The trie keeps at least one path (cf_assert in Trie::Build) and the     *)
(* command line clamps max_threads to at least 1.                          *)
ASSUME PathsAssumption ==
  /\ NumPaths \in Nat \ {0}
  /\ Near \subseteq 0..NumPaths - 1

ASSUME ThreadsAssumption ==
  /\ MaxThreads \in Nat
  /\ NumWorkers \in Nat \ {0}
  /\ NumWorkers * NumWorkers <= MaxThreads
  /\ MaxThreads < (NumWorkers + 1) * (NumWorkers + 1)

Paths == 0..NumPaths - 1
Workers == 1..NumWorkers
NoWorker == 0

VARIABLES
  path_index,           \* std::atomic<size_t>
  nearest_expressions,  \* the vector of results, each named by its path
  mutex,                \* the worker holding the mutex, or NoWorker
  pc,                   \* where each worker is in its loop
  path_occurrences,     \* the index of the path each worker took
  slot,                 \* vector size a worker in push_back started from
  main,                 \* where the calling thread is
  spawned,              \* number of workers started, in order 1, 2, ...
  joined,               \* number of workers joined, in the same order
  claims                \* history: <<worker, index>> for every path taken

workerVars == <<pc, path_occurrences, slot>>
mainVars == <<main, spawned, joined>>
vars == <<path_index, nearest_expressions, mutex, workerVars, mainVars, claims>>

-----------------------------------------------------------------------------
Init ==
  /\ path_index = 0
  /\ nearest_expressions = << >>
  /\ mutex = NoWorker
  /\ pc = [w \in Workers |-> "idle"]
  /\ path_occurrences = [w \in Workers |-> 0]
  /\ slot = [w \in Workers |-> 0]
  /\ main = "spawning"
  /\ spawned = 0
  /\ joined = 0
  /\ claims = {}

Goto(w, label) == pc' = [pc EXCEPT ![w] = label]

(* A worker runs from its creation until it is done or the process dies.   *)
At(w, label) == pc[w] = label /\ main # "aborted"

-----------------------------------------------------------------------------
(* Slips.  Each is one plausible mistake in a condition or an assignment   *)
(* of the loop; none is part of the specification.  With the definition it *)
(* is named after replaced by the slip, some property must fail.           *)

LastSpawned_RunsOver(n) == n > NumWorkers
MorePaths_Inclusive == path_index <= NumPaths
NextIndex_Twice(w) == path_index + 2
NextIndex_Stored(w) == path_occurrences[w] + 1
WithinMaxCost_Negated(w) == path_occurrences[w] \notin Near
MayEnter_Unlocked(w) == TRUE
MayJoin_Detached(w) == TRUE
Evaluate_Retries(w) ==
  /\ At(w, "evaluate")
  /\ path_occurrences[w] < NumPaths
  /\ Goto(w, IF path_occurrences[w] \in Near THEN "lock" ELSE "evaluate")
  /\ UNCHANGED <<path_index, nearest_expressions, mutex, path_occurrences,
                 slot, mainVars, claims>>

-----------------------------------------------------------------------------
(* The conditions and values the code computes.                            *)

LastSpawned(n) == n = NumWorkers
MayJoin(w) == pc[w] = "done"
MorePaths == path_index < NumPaths
NextIndex(w) == path_index + 1
WithinMaxCost(w) == path_occurrences[w] \in Near
MayEnter(w) == mutex = NoWorker

-----------------------------------------------------------------------------
(* The calling thread.                                                     *)

Spawn ==
  /\ main = "spawning"
  /\ spawned' = spawned + 1
  /\ Goto(spawned + 1, "check")
  /\ main' = IF LastSpawned(spawned + 1) THEN "joining" ELSE "spawning"
  /\ UNCHANGED <<path_index, nearest_expressions, mutex, path_occurrences,
                 slot, joined, claims>>

(* std::thread throws when no thread can be created.  Unwinding destroys   *)
(* the vector of threads: a joinable one in it ends the process.           *)
SpawnFails ==
  /\ main = "spawning"
  /\ main' = IF spawned = 0 THEN "threw" ELSE "aborted"
  /\ UNCHANGED <<path_index, nearest_expressions, mutex, workerVars, spawned,
                 joined, claims>>

Join ==
  /\ main = "joining"
  /\ joined < NumWorkers
  /\ MayJoin(joined + 1)
  /\ joined' = joined + 1
  /\ UNCHANGED <<path_index, nearest_expressions, mutex, workerVars, main,
                 spawned, claims>>

Return ==
  /\ main = "joining"
  /\ joined = NumWorkers
  /\ main' = "returned"
  /\ UNCHANGED <<path_index, nearest_expressions, mutex, workerVars, spawned,
                 joined, claims>>

-----------------------------------------------------------------------------
(* A worker: calculate_edit_distance_fn.                                   *)

Check(w) ==
  /\ At(w, "check")
  /\ Goto(w, IF MorePaths THEN "grab" ELSE "done")
  /\ UNCHANGED <<path_index, nearest_expressions, mutex, path_occurrences,
                 slot, mainVars, claims>>

Grab(w) ==
  /\ At(w, "grab")
  /\ path_occurrences' = [path_occurrences EXCEPT ![w] = path_index]
  /\ Goto(w, "advance")
  /\ UNCHANGED <<path_index, nearest_expressions, mutex, slot, mainVars,
                 claims>>

Advance(w) ==
  /\ At(w, "advance")
  /\ path_index' = NextIndex(w)
  /\ claims' = claims \cup {<<w, path_occurrences[w]>>}
  /\ Goto(w, "evaluate")
  /\ UNCHANGED <<nearest_expressions, mutex, path_occurrences, slot, mainVars>>

Evaluate(w) ==
  /\ At(w, "evaluate")
  /\ path_occurrences[w] < NumPaths
  /\ Goto(w, IF WithinMaxCost(w) THEN "lock" ELSE "check")
  /\ UNCHANGED <<path_index, nearest_expressions, mutex, path_occurrences,
                 slot, mainVars, claims>>

(* The reference is past the end of the vector.  Reading through it is     *)
(* undefined: the bytes found there may be taken for a string, near the    *)
(* target or not, or the process dies.                                     *)
EvaluateOutOfRange(w) ==
  /\ At(w, "evaluate")
  /\ path_occurrences[w] >= NumPaths
  /\ \/ /\ \E label \in {"lock", "check"} : Goto(w, label)
        /\ UNCHANGED main
     \/ /\ main' = "aborted"
        /\ UNCHANGED pc
  /\ UNCHANGED <<path_index, nearest_expressions, mutex, path_occurrences,
                 slot, spawned, joined, claims>>

Lock(w) ==
  /\ At(w, "lock")
  /\ MayEnter(w)
  /\ mutex' = w
  /\ slot' = [slot EXCEPT ![w] = Len(nearest_expressions)]
  /\ Goto(w, "push")
  /\ UNCHANGED <<path_index, nearest_expressions, path_occurrences, mainVars,
                 claims>>

(* push_back stores at the size it read and sets the size; leaving the     *)
(* block releases the mutex.                                               *)
PushBack(w) ==
  /\ At(w, "push")
  /\ nearest_expressions' =
       Append(SubSeq(nearest_expressions, 1, slot[w]), path_occurrences[w])
  /\ mutex' = NoWorker
  /\ Goto(w, "check")
  /\ UNCHANGED <<path_index, path_occurrences, slot, mainVars, claims>>

-----------------------------------------------------------------------------
MainStep == Spawn \/ Join \/ Return

WorkerStep(w) ==
  \/ Check(w) \/ Grab(w) \/ Advance(w)
  \/ Evaluate(w) \/ EvaluateOutOfRange(w)
  \/ Lock(w) \/ PushBack(w)

(* The call is over, one way or another.                                   *)
Over ==
  /\ main \in {"returned", "threw", "aborted"}
  /\ UNCHANGED vars

Next == MainStep \/ SpawnFails \/ (\E w \in Workers : WorkerStep(w)) \/ Over

Spec == Init /\ [][Next]_vars

(* The operating system schedules every thread that can take a step.       *)
FairSpec ==
  /\ Spec
  /\ WF_vars(MainStep)
  /\ \A w \in Workers : WF_vars(WorkerStep(w))

-----------------------------------------------------------------------------
(* Every variable holds a value of its type.                               *)
TypeOK ==
  /\ path_index \in Nat
  /\ nearest_expressions \in Seq(Nat)
  /\ mutex \in Workers \cup {NoWorker}
  /\ pc \in [Workers -> {"idle", "check", "grab", "advance", "evaluate",
                         "lock", "push", "done"}]
  /\ path_occurrences \in [Workers -> Nat]
  /\ slot \in [Workers -> Nat]
  /\ main \in {"spawning", "joining", "returned", "threw", "aborted"}
  /\ spawned \in 0..NumWorkers
  /\ joined \in 0..NumWorkers
  /\ claims \subseteq Workers \X Nat

(* The workers that have tested the bound and not yet moved the index on.  *)
Overtaking == {w \in Workers : pc[w] \in {"grab", "advance"}}

(* However the workers interleave between the test of the bound and the    *)
(* increment, the index passes the end of all_trie_paths by at most one    *)
(* increment for each of the other workers: the out-of-range references    *)
(* are at most NumWorkers - 1 elements past the end, and there are none    *)
(* with one worker.                                                        *)
OvershootBound ==
  /\ path_index < NumPaths + NumWorkers
  /\ \A c \in claims : c[2] < NumPaths + NumWorkers - 1

(* The paths that were taken, out of those that exist.                     *)
Visited == {k \in Paths : \E w \in Workers : <<w, k>> \in claims}

(* No worker takes the same path twice, although every worker reads an     *)
(* index that the others move: each increment stands for a claim of its    *)
(* own.                                                                    *)
EveryClaimIsFresh == Cardinality(claims) = path_index

(* Workers that read the same index before either moves it on take the     *)
(* same path twice and skip the next.  The damage has a limit: when the    *)
(* search returns, at least one path in NumWorkers has been compared with  *)
(* the target, and with one worker every path has.                         *)
CoverageBound ==
  main = "returned" => NumWorkers * Cardinality(Visited) >= NumPaths

(* What is reported is what was visited: when the search returns, the      *)
(* result holds every visited path within max_cost and no other path of    *)
(* the trie.  No append of one worker overwrites that of another.          *)
ResultsAreTheVisitedNearPaths ==
  main = "returned" =>
    {nearest_expressions[i] : i \in DOMAIN nearest_expressions} \cap Paths
      = Visited \cap Near

(* The workers capture the locals of the call by reference: once the call  *)
(* has returned or thrown no worker may be left that can use them.         *)
NoDanglingWorker ==
  main \in {"returned", "threw"} =>
    \A w \in Workers : pc[w] \in {"idle", "done"}

(* The index never moves back, no path taken is forgotten, and the result  *)
(* grows one entry at a time without losing what it holds.                 *)
OnlyGrows ==
  [][/\ path_index' >= path_index
     /\ claims \subseteq claims'
     /\ Len(nearest_expressions') <= Len(nearest_expressions) + 1
     /\ SubSeq(nearest_expressions', 1, Len(nearest_expressions))
          = nearest_expressions
    ]_vars

(* The search ends: the workers run out of paths and the caller joins all  *)
(* of them, whatever index the race left behind.                           *)
Terminates == <>(main \in {"returned", "threw", "aborted"})

(* The comment on the loop: "Visit every expression from training          *)
(* dataset/trie and check if it is within max_cost edit distance. If it    *)
(* is, then add to result set." (src/autocorrect.cpp:227)                  *)
CompleteSearch ==
  main = "returned" =>
    \A k \in Near : \E i \in DOMAIN nearest_expressions :
      nearest_expressions[i] = k

-----------------------------------------------------------------------------
(* What holds all along and makes the properties above hold.               *)

Results == {nearest_expressions[i] : i \in DOMAIN nearest_expressions}

(* The path a worker has claimed and is still busy with.                   *)
BusyWith(w) ==
  IF pc[w] \in {"evaluate", "lock", "push"} THEN {path_occurrences[w]} ELSE {}

InRange == {c \in claims : c[2] < NumPaths}

ControlInv ==
  /\ main = "spawning" => spawned < NumWorkers
  /\ main \in {"joining", "returned"} => spawned = NumWorkers
  /\ main = "threw" => spawned = 0
  /\ main = "returned" => joined = NumWorkers
  /\ \A w \in Workers : /\ (pc[w] = "idle") <=> (w > spawned)
                        /\ w <= joined => (pc[w] = "done")
                        /\ pc[w] = "done" => path_index >= NumPaths

OvershootInv ==
  path_index + Cardinality(Overtaking) <= NumPaths + NumWorkers - 1

ClaimInv ==
  /\ \A c \in claims : c[2] < path_index /\ c[2] < NumPaths + NumWorkers - 1
  /\ \A w \in Workers : pc[w] = "advance" =>
       /\ path_occurrences[w] <= path_index
       /\ \A c \in claims : c[1] = w => c[2] < path_occurrences[w]

CountInv ==
  /\ IsFiniteSet(claims)
  /\ Cardinality(claims) = path_index
  /\ Cardinality(InRange) >= IF path_index < NumPaths THEN path_index
                                                      ELSE NumPaths

LockInv ==
  \A w \in Workers : /\ (pc[w] = "push") <=> (mutex = w)
                     /\ pc[w] = "push" => slot[w] = Len(nearest_expressions)

ResultInv ==
  /\ \A w \in Workers :
       /\ pc[w] \in {"evaluate", "lock", "push"} =>
            <<w, path_occurrences[w]>> \in claims
       /\ pc[w] \in {"lock", "push"} =>
            path_occurrences[w] \in Near \/ path_occurrences[w] >= NumPaths
  /\ \A c \in claims :
       c[2] \in Near \ BusyWith(c[1]) => c[2] \in Results
  /\ Results \cap Paths \subseteq Visited \cap Near

(* The inductive invariant: control, the race on the index, the claims,    *)
(* the mutex and the results together.                                     *)
IInv ==
  /\ TypeOK /\ ControlInv /\ OvershootInv /\ ClaimInv /\ CountInv
  /\ LockInv /\ ResultInv

-----------------------------------------------------------------------------
(* The search as a visit of the paths: a path has been visited by a worker *)
(* that claimed it and is no longer busy with it.                          *)
VisitsMade == {c \in claims : c[2] \in Paths /\ c[2] \notin BusyWith(c[1])}

VisitStatus ==
  CASE main \in {"spawning", "joining"} -> "visiting"
    [] main = "returned" -> "finished"
    [] OTHER -> "failed"

Visit == INSTANCE GreedyVisit WITH
  Visitors <- Workers, Items <- Paths, Selected <- Near,
  items <- Paths, visited <- VisitsMade, found <- Results \cap Paths,
  status <- VisitStatus

(* The traversal implements the bounded visit: every visit is of a worker  *)
(* that has not visited that path, near paths and only they are reported,  *)
(* and the call returns only when one path in NumWorkers has been seen.    *)
ImplementsGreedyVisit == Visit!Spec
=============================================================================
