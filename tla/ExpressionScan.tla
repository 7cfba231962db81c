--------------------------- MODULE ExpressionScan ---------------------------
(***************************************************************************)
(* How scanner threads judge the conditions of their files, or of strings  *)
(* (src/train_and_scan_util.{h,cpp}, src/result_processing.cpp): each is   *)
(* looked up in the trie of a level, the expressions near it are searched, *)
(* ranked and cut to the number the user asked for, kept in a cache that   *)
(* all scanners share, and the condition is reported when it is rare next  *)
(* to them.  Files are scanned at both levels, strings at LEVEL_ONE.       *)
(*                                                                         *)
(* The tries are the training sets that Trie builds, Distance is what      *)
(* EditDistance computes, and a search does what GreedyVisit promises: no  *)
(* worker visits a path twice, and at least one path in num_workers is     *)
(* visited.  With one worker that is all paths.  With more, each but one   *)
(* may also read past the end of the paths and take what it finds there    *)
(* for a result (OvershootBound of TrieTraversal).                         *)
(***************************************************************************)
EXTENDS Integers, Sequences, FiniteSets, SequencesExt

CONSTANTS
  Scanners,            \* the scanner threads there may be
  Expressions,         \* the expressions of both levels
  Trained,             \* per level, the occurrences of the trained ones
  Distance,            \* the edit distance of any two expressions
  Malformed,           \* what has no expression of LEVEL_TWO
  Blocks,              \* the conditions in files: an expression per level
  Strays,              \* results that may be read past the end of the paths
  MaxBlocks,           \* bound on the conditions of a file, by num_workers
  max_cost,            \* -c
  max_autocorrections, \* -n
  anomaly_threshold    \* -a, in percent

Levels == {"ONE", "TWO"}

ASSUME BlocksAssumption ==
  /\ Malformed \notin Expressions
  /\ Blocks # {}
  /\ Blocks \subseteq [Levels -> Expressions \cup {Malformed}]
  /\ \A b \in Blocks : b["ONE"] # Malformed

ASSUME BoundsAssumption ==
  /\ IsFiniteSet(Scanners)
  /\ MaxBlocks \in Seq(Nat) /\ Len(MaxBlocks) >= Cardinality(Scanners)
  /\ max_cost \in Nat /\ max_autocorrections \in Nat
  /\ anomaly_threshold \in Nat

ASSUME StraysAssumption ==
  /\ IsFiniteSet(Strays)
  /\ \A x \in Strays : x.cost <= max_cost /\ x.expression \notin Expressions

ASSUME DistanceAssumption ==
  /\ Distance \in [Expressions -> [Expressions -> Nat]]
  /\ \A e, f \in Expressions : Distance[e][f] = 0 <=> e = f

ASSUME TrainedAssumption ==
  \A l \in Levels : /\ DOMAIN Trained[l] \subseteq Expressions
                    /\ IsFiniteSet(DOMAIN Trained[l])
                    /\ \A e \in DOMAIN Trained[l] : Trained[l][e] \in Nat \ {0}

VARIABLES
  scan,                 \* ScanFile or ScanExpression
  num_workers,          \* the square root of -j: of scanners, and per search
  pc,                   \* where each scanner is
  code_block, level,    \* the condition it is at, and the level
  found_in_training_dataset,
  nearest_expressions,  \* the ranked results of its search, or of the cache
  expression_cache,     \* per level, the results of the expressions searched
  hit_, miss_,          \* per level, the look-ups that found it or did not
  log                   \* the verdicts each scanner wrote to its log file

local == <<code_block, level, found_in_training_dataset, nearest_expressions>>
config == <<scan, num_workers>>
statistics == <<hit_, miss_>>
vars == <<config, pc, local, expression_cache, statistics, log>>

Expression(s) == code_block[s][level[s]]

(* An element of nearest_expressions that is a path of the trie.           *)
Result == [expression : Expressions, cost : Nat, occurrences : Nat]

AnyResult ==
  Result \cup {[expression |-> x.expression, cost |-> x.cost,
                occurrences |-> x.occurrences] : x \in Strays}

(* The stray results a search is still allowed to bring.                   *)
ReadPastEnd == {S \in SUBSET Strays : Cardinality(S) < num_workers}

Near(l, e) == {f \in DOMAIN Trained[l] : Distance[e][f] <= max_cost}

-----------------------------------------------------------------------------
Init ==
  /\ scan \in {"ScanFile", "ScanExpression"}
  /\ \E running \in (SUBSET Scanners) \ {{}} :
       /\ num_workers = Cardinality(running)
       /\ scan = "ScanExpression" => num_workers = 1
       /\ pc = [s \in Scanners |-> IF s \in running THEN "next" ELSE "done"]
  /\ code_block = [s \in Scanners |-> CHOOSE b \in Blocks : TRUE]
  /\ level = [s \in Scanners |-> "ONE"]
  /\ found_in_training_dataset = [s \in Scanners |-> FALSE]
  /\ nearest_expressions = [s \in Scanners |-> << >>]
  /\ expression_cache = [l \in Levels |-> << >>]
  /\ hit_ = [l \in Levels |-> 0]
  /\ miss_ = [l \in Levels |-> 0]
  /\ log = [s \in Scanners |-> << >>]

Goto(s, label) == pc' = [pc EXCEPT ![s] = label]

-----------------------------------------------------------------------------
(* Slips: mistakes in the definitions below, for testing the properties.   *)
(* None is part of the specification.                                      *)

Pushed_Never(s) == {}
CacheOf_AllLevels(l) == "ONE"
IsRare_Swapped(base, other) ==
  other.occurrences * 100 <= anomaly_threshold * base.occurrences
NextLevel_StaysAtTwo(s) == "TWO"
Kept_Nothing(l) == {}
NodeToStringThrows_Caught(s) ==
  /\ pc[s] = "lookUp" /\ Expression(s) = Malformed /\ Goto(s, "next")
  /\ UNCHANGED <<config, local, expression_cache, statistics, log>>

-----------------------------------------------------------------------------
(* The cache of a level: a static variable of a template, one per level.   *)
CacheOf(l) == l

(* The next condition of the file, any of Blocks, starts at LEVEL_ONE.     *)
NextBlock(s) ==
  /\ pc[s] = "next" /\ Len(log[s]) < 2 * MaxBlocks[num_workers]
  /\ \E b \in Blocks : code_block' = [code_block EXCEPT ![s] = b]
  /\ level' = [level EXCEPT ![s] = "ONE"]
  /\ Goto(s, "lookUp")
  /\ UNCHANGED <<config, found_in_training_dataset, nearest_expressions,
                 expression_cache, statistics, log>>

EndOfFile(s) ==
  /\ pc[s] = "next"
  /\ Goto(s, "done")
  /\ UNCHANGED <<config, local, expression_cache, statistics, log>>

LookUp(s) ==
  /\ pc[s] = "lookUp"
  /\ Expression(s) # Malformed
  /\ found_in_training_dataset' =
       [found_in_training_dataset EXCEPT
          ![s] = Expression(s) \in DOMAIN Trained[level[s]]]
  /\ Goto(s, "cache")
  /\ UNCHANGED <<config, code_block, level, nearest_expressions,
                 expression_cache, statistics, log>>

(* NodeToString throws, and nothing up to the thread catches it: the       *)
(* process dies, after the verdict at LEVEL_ONE was written.               *)
NodeToStringThrows(s) ==
  /\ pc[s] = "lookUp"
  /\ Expression(s) = Malformed
  /\ pc' = [t \in Scanners |-> "died"]
  /\ UNCHANGED <<config, local, expression_cache, statistics, log>>

CacheHit(s) ==
  /\ pc[s] = "cache"
  /\ Expression(s) \in DOMAIN expression_cache[CacheOf(level[s])]
  /\ nearest_expressions' =
       [nearest_expressions EXCEPT
          ![s] = expression_cache[CacheOf(level[s])][Expression(s)]]
  /\ hit_' = [hit_ EXCEPT ![level[s]] = @ + 1]
  /\ Goto(s, "judge")
  /\ UNCHANGED <<config, code_block, level, found_in_training_dataset,
                 expression_cache, miss_, log>>

CacheMiss(s) ==
  /\ pc[s] = "cache"
  /\ Expression(s) \notin DOMAIN expression_cache[CacheOf(level[s])]
  /\ miss_' = [miss_ EXCEPT ![level[s]] = @ + 1]
  /\ Goto(s, "search")
  /\ UNCHANGED <<config, local, expression_cache, hit_, log>>

(* How often each path is compared in a search, by GreedyVisit.            *)
Visits(l) ==
  LET P == DOMAIN Trained[l]
  IN {v \in [P -> 0..num_workers] :
        num_workers * Cardinality({p \in P : v[p] > 0}) >= Cardinality(P)}

(* What those visits push back; copy tells equal results apart.            *)
Found(l, e, v) ==
  UNION {{[expression |-> f, cost |-> Distance[e][f],
           occurrences |-> Trained[l][f], copy |-> k] : k \in 1..v[f]}
         : f \in Near(l, e)}

(* An expression that is not in the trie is added to its own results.      *)
Pushed(s) ==
  IF found_in_training_dataset[s] THEN {}
  ELSE {[expression |-> Expression(s), cost |-> 0, occurrences |-> 0,
         copy |-> 1]}

Better(a, b) ==
  IF a.cost = b.cost THEN a.occurrences > b.occurrences ELSE a.cost < b.cost

(* Sorted in any order that keeps better results in front, and cut.        *)
Ranked(R) ==
  LET n == IF Cardinality(R) > max_autocorrections THEN max_autocorrections
                                                   ELSE Cardinality(R)
  IN {r \in [1..n -> R] :
        /\ \A j, k \in 1..n : j < k => r[j] # r[k] /\ ~Better(r[k], r[j])
        /\ \A x \in R \ ToSet(r), j \in 1..n : ~Better(x, r[j])}

WithoutCopy(r) ==
  [k \in DOMAIN r |-> [expression |-> r[k].expression, cost |-> r[k].cost,
                       occurrences |-> r[k].occurrences]]

Search(s) ==
  /\ pc[s] = "search"
  /\ \E v \in Visits(level[s]) :
       \E stray \in ReadPastEnd :
         \E r \in Ranked(Found(level[s], Expression(s), v) \cup stray
                           \cup Pushed(s)) :
           nearest_expressions' =
             [nearest_expressions EXCEPT ![s] = WithoutCopy(r)]
  /\ Goto(s, "insert")
  /\ UNCHANGED <<config, code_block, level, found_in_training_dataset,
                 expression_cache, statistics, log>>

(* The search does not return: the process dies (GreedyVisit's Fail).      *)
SearchFails(s) ==
  /\ pc[s] = "search"
  /\ pc' = [t \in Scanners |-> "died"]
  /\ UNCHANGED <<config, local, expression_cache, statistics, log>>

(* What was in the cache stays there, except for the same expression.      *)
Kept(l) == DOMAIN expression_cache[l]

CacheInsert(s) ==
  /\ pc[s] = "insert"
  /\ expression_cache' =
       [expression_cache EXCEPT ![CacheOf(level[s])] =
          [e \in Kept(CacheOf(level[s])) \cup {Expression(s)} |->
             IF e = Expression(s) THEN nearest_expressions[s] ELSE @[e]]]
  /\ Goto(s, "judge")
  /\ UNCHANGED <<config, local, statistics, log>>

(* base.occurrences / other.occurrences as a percentage: the test that     *)
(* lets an expression pass is that it exceeds the threshold.               *)
IsRare(base, other) ==
  base.occurrences * 100 <= anomaly_threshold * other.occurrences

IsPotentialAnomaly(results) ==
  \E b \in DOMAIN results :
    /\ results[b].cost = 0
    /\ \A k \in 1..b - 1 : results[k].cost # 0
    /\ \E k \in DOMAIN results : results[k].cost # 0
    /\ \A k \in DOMAIN results :
         results[k].cost # 0 => IsRare(results[b], results[k])

(* What is missing at LEVEL_ONE is left to LEVEL_TWO.                      *)
MayReport(s) == level[s] = "ONE" => found_in_training_dataset[s]

NextLevel(s) ==
  IF scan = "ScanFile" /\ level[s] = "ONE" THEN "TWO" ELSE "ONE"

Judge(s) ==
  /\ pc[s] = "judge"
  /\ log' = [log EXCEPT ![s] = Append(@,
       [block |-> code_block[s], level |-> level[s],
        anomaly |-> MayReport(s) /\ IsPotentialAnomaly(nearest_expressions[s]),
        results |-> nearest_expressions[s]])]
  /\ level' = [level EXCEPT ![s] = NextLevel(s)]
  /\ Goto(s, IF NextLevel(s) = "TWO" THEN "lookUp" ELSE "next")
  /\ UNCHANGED <<config, code_block, found_in_training_dataset,
                 nearest_expressions, expression_cache, statistics>>

-----------------------------------------------------------------------------
Step(s) ==
  \/ NextBlock(s) \/ EndOfFile(s) \/ LookUp(s) \/ NodeToStringThrows(s)
  \/ CacheHit(s) \/ CacheMiss(s) \/ Search(s) \/ SearchFails(s)
  \/ CacheInsert(s) \/ Judge(s)

Over ==
  /\ \A s \in Scanners : pc[s] \in {"done", "died"}
  /\ UNCHANGED vars

Next == (\E s \in Scanners : Step(s)) \/ Over

Spec == Init /\ [][Next]_vars

-----------------------------------------------------------------------------
(* Every variable holds a value of its type, and a log has no more than    *)
(* two verdicts on each condition of a file.                               *)
TypeOK ==
  /\ scan \in {"ScanFile", "ScanExpression"}
  /\ num_workers \in 1..Cardinality(Scanners)
  /\ pc \in [Scanners -> {"next", "lookUp", "cache", "search", "insert",
                          "judge", "done", "died"}]
  /\ code_block \in [Scanners -> Blocks]
  /\ level \in [Scanners -> Levels]
  /\ found_in_training_dataset \in [Scanners -> BOOLEAN]
  /\ nearest_expressions \in [Scanners -> Seq(AnyResult)]
  /\ DOMAIN expression_cache = Levels
  /\ \A l \in Levels :
       /\ DOMAIN expression_cache[l] \subseteq Expressions
       /\ \A e \in DOMAIN expression_cache[l] :
            expression_cache[l][e] \in Seq(AnyResult)
  /\ hit_ \in [Levels -> Nat]
  /\ miss_ \in [Levels -> Nat]
  /\ log \in [Scanners -> Seq([block : Blocks, level : Levels,
                               anomaly : BOOLEAN, results : Seq(AnyResult)])]
  /\ \A s \in Scanners : Len(log[s]) <= 2 * MaxBlocks[num_workers]

Occurrences(l, e) == IF e \in DOMAIN Trained[l] THEN Trained[l][e] ELSE 0

StrayIn(r) == {k \in DOMAIN r : r[k].expression \notin Expressions}

(* Results that w workers may bring for e at level l: ranked, no more than *)
(* asked for, fewer stray ones than there are workers, and each of the     *)
(* others an expression of that level's training set with its cost and     *)
(* occurrences, or e itself.                                               *)
ResultsFor(w, l, e, r) ==
  /\ Len(r) <= max_autocorrections
  /\ \A j, k \in DOMAIN r : j < k => ~Better(r[k], r[j])
  /\ Cardinality(StrayIn(r)) < w
  /\ \A k \in (DOMAIN r) \ StrayIn(r) :
       /\ r[k].expression \in Near(l, e) \cup {e}
       /\ r[k].cost = Distance[e][r[k].expression]
       /\ r[k].occurrences = Occurrences(l, r[k].expression)

(* Whatever the cache holds was searched for that expression at that       *)
(* level, although scanners look up, search and insert without holding the *)
(* lock in between, and two may search for the same expression at once.    *)
CacheIsSound ==
  \A l \in Levels : \A e \in DOMAIN expression_cache[l] :
    ResultsFor(num_workers, l, e, expression_cache[l][e])

Verdicts == UNION {ToSet(log[s]) : s \in Scanners}

(* Every report names evidence from the training set of its level: some    *)
(* other expression within max_cost, of which the reported one has no more *)
(* than the threshold.  This holds although the search may have missed     *)
(* paths and the results may come from a search of another thread; only a  *)
(* result read past the end can stand in for evidence.                     *)
ReportsHaveEvidence ==
  \A v \in Verdicts :
    v.anomaly /\ StrayIn(v.results) = {} =>
      \E k \in DOMAIN v.results :
        LET e == v.block[v.level]
            f == v.results[k].expression
        IN /\ f \in Near(v.level, e) \ {e}
           /\ Occurrences(v.level, e) * 100
                <= anomaly_threshold * Trained[v.level][f]

(* A condition of a file that has a verdict at LEVEL_ONE gets the one at   *)
(* LEVEL_TWO next, before its scanner turns to another condition or ends   *)
(* the file.  What an abort leaves half judged is thus only the last       *)
(* condition of each log, which other scanners may be in the middle of     *)
(* when one of them meets a condition without an expression.               *)
VerdictsComeInPairs ==
  scan = "ScanFile" =>
    \A s \in Scanners :
      /\ \A k \in DOMAIN log[s] :
           /\ log[s][k].level = (IF k % 2 = 1 THEN "ONE" ELSE "TWO")
           /\ k % 2 = 0 => log[s][k].block = log[s][k - 1].block
      /\ pc[s] \in {"next", "done"} => Len(log[s]) % 2 = 0

(* Who is at work at a level, what is being searched for there, and the    *)
(* verdicts written.                                                       *)
Busy(l, labels) == {s \in Scanners : pc[s] \in labels /\ level[s] = l}

Asked(l) == {Expression(s) : s \in Busy(l, {"search", "insert"})}

JudgedBy(s, l) == {s} \X {k \in DOMAIN log[s] : log[s][k].level = l}
Judged(l) == UNION {JudgedBy(s, l) : s \in Scanners}

(* The cache saves what it is there for: although look-up and insertion    *)
(* are apart, no scanner searches for an expression of a level that it has *)
(* judged there before, so the misses in the statistics are at most the    *)
(* expressions cached or being searched for, times the scanners, and at    *)
(* least those cached; and every condition counts once, as a hit or as a   *)
(* miss.                                                                   *)
SearchedOncePerScanner ==
  /\ \A s \in Scanners : pc[s] \in {"search", "insert"} =>
       \A k \in DOMAIN log[s] :
         log[s][k].level = level[s] =>
           log[s][k].block[level[s]] # Expression(s)
  /\ (\A s \in Scanners : pc[s] # "died") =>
       \A l \in Levels :
         /\ miss_[l] <= num_workers
              * Cardinality(DOMAIN expression_cache[l] \cup Asked(l))
         /\ miss_[l] >= Cardinality(DOMAIN expression_cache[l])
         /\ hit_[l] + miss_[l] =
              Cardinality(Judged(l))
                + Cardinality(Busy(l, {"search", "insert", "judge"}))

(* What the training set says of an expression: of the others within       *)
(* max_cost, those that make it into the results after it.  Ties for the   *)
(* last place are all in; they have the same occurrences.                  *)
Suggestions(l, e) ==
  LET Score(f) == [cost |-> Distance[e][f], occurrences |-> Trained[l][f]]
      others == Near(l, e) \ {e}
  IN {f \in others :
        Cardinality({g \in others : Better(Score(g), Score(f))})
          < max_autocorrections - 1}

IsAnomaly(l, e) ==
  /\ l = "TWO" \/ e \in DOMAIN Trained[l]
  /\ Suggestions(l, e) # {}
  /\ \A f \in Suggestions(l, e) :
       Occurrences(l, e) * 100 <= anomaly_threshold * Trained[l][f]

(* With one thread (-j below 4) the verdict on an expression is a function *)
(* of the training set: the same from the cache or not, and whatever order *)
(* equally good results are sorted in.                                     *)
VerdictsFollowTraining ==
  num_workers = 1 =>
    \A v \in Verdicts : v.anomaly <=> IsAnomaly(v.level, v.block[v.level])

(* A condition that is missing from the training set at LEVEL_ONE, and not *)
(* missing at LEVEL_TWO, is not reported.                                  *)
MissingAtOneOnlyIsNotReported ==
  \A v \in Verdicts :
    /\ v.block["ONE"] \notin DOMAIN Trained["ONE"]
    /\ v.block["TWO"] \in DOMAIN Trained["TWO"]
    => ~v.anomaly

-----------------------------------------------------------------------------
(* What holds all along and makes the results and the reports right.       *)

(* A scanner that looked its expression up knows whether it was trained;   *)
(* what it holds after a search or a hit are results for that expression.  *)
ScannerInv ==
  \A s \in Scanners :
    /\ pc[s] \in {"cache", "search", "insert", "judge"} =>
         /\ Expression(s) \in Expressions
         /\ found_in_training_dataset[s]
              <=> Expression(s) \in DOMAIN Trained[level[s]]
    /\ pc[s] \in {"insert", "judge"} =>
         ResultsFor(num_workers, level[s], Expression(s),
                    nearest_expressions[s])

(* Verdicts come in pairs when files are scanned, and a scanner at work    *)
(* has room for the one it will write.                                     *)
LengthInv ==
  \A s \in Scanners :
    LET n == Len(log[s])
    IN  /\ pc[s] \notin {"next", "done", "died"} =>
             n < 2 * MaxBlocks[num_workers]
        /\ pc[s] = "next" => level[s] = "ONE"
        /\ scan = "ScanExpression" => level[s] = "ONE"
        /\ scan = "ScanFile" =>
             n % 2 = (IF level[s] = "TWO" THEN 1 ELSE 0)

(* The verdicts of a pair are on one condition: a scanner at LEVEL_TWO has *)
(* just judged the one it is at.                                           *)
PairsInv ==
  /\ VerdictsComeInPairs
  /\ \A s \in Scanners : level[s] = "TWO" =>
       /\ Len(log[s]) > 0 /\ log[s][Len(log[s])].block = code_block[s]
       /\ pc[s] \notin {"next", "done"}

(* What was judged is in the cache, and what is searched for was not.      *)
JudgedInv ==
  \A s \in Scanners :
    /\ pc[s] = "judge" => Expression(s) \in DOMAIN expression_cache[level[s]]
    /\ \A k \in DOMAIN log[s] :
         LET v == log[s][k]
         IN  /\ v.block[v.level] \in DOMAIN expression_cache[v.level]
             /\ pc[s] \in {"search", "insert"} /\ v.level = level[s] =>
                  v.block[v.level] # Expression(s)

LogInv ==
  \A s \in Scanners : \A k \in DOMAIN log[s] :
    LET v == log[s][k]
    IN  /\ v.block[v.level] \in Expressions
        /\ ResultsFor(num_workers, v.level, v.block[v.level], v.results)
        /\ v.anomaly <=>
             /\ v.level = "TWO" \/ v.block[v.level] \in DOMAIN Trained[v.level]
             /\ IsPotentialAnomaly(v.results)

IInv == TypeOK /\ ScannerInv /\ LengthInv /\ CacheIsSound /\ LogInv

(* Results that miss nothing: every neighbour is listed once, or the list  *)
(* is full and no better than what is listed.                              *)
CompleteFor(l, e, r) ==
  LET all == Near(l, e) \cup {e}
      listed == {r[k].expression : k \in DOMAIN r}
  IN  /\ \A j, k \in DOMAIN r : r[j].expression = r[k].expression => j = k
      /\ \A f \in all \ listed :
           /\ Len(r) = max_autocorrections
           /\ \A k \in DOMAIN r :
                ~Better([cost |-> Distance[e][f],
                         occurrences |-> Occurrences(l, f)], r[k])

(* A worker that is alone visits every path once: results are complete     *)
(* wherever they are handed.                                               *)
CompletenessInv ==
  num_workers = 1 =>
    /\ \A s \in Scanners : pc[s] \in {"insert", "judge"} =>
         CompleteFor(level[s], Expression(s), nearest_expressions[s])
    /\ \A l \in Levels : \A e \in DOMAIN expression_cache[l] :
         CompleteFor(l, e, expression_cache[l][e])
    /\ \A s \in Scanners : \A k \in DOMAIN log[s] :
         LET v == log[s][k]
         IN CompleteFor(v.level, v.block[v.level], v.results)

(* Those who search for what is not in the cache yet.                      *)
First(l) ==
  {s \in Busy(l, {"search", "insert"}) :
     Expression(s) \notin DOMAIN expression_cache[l]}

(* While an expression is not in the cache each search for it is a miss of *)
(* its own; once it is, all scanners may have missed it.                   *)
StatisticsInv ==
  /\ \A l \in Levels : IsFiniteSet(DOMAIN expression_cache[l])
  /\ (\A s \in Scanners : pc[s] # "died") =>
       /\ Cardinality({s \in Scanners : pc[s] # "done"}) <= num_workers
       /\ \A l \in Levels :
            /\ miss_[l] <= num_workers * Cardinality(DOMAIN expression_cache[l])
                             + Cardinality(First(l))
            /\ miss_[l] >= Cardinality(DOMAIN expression_cache[l] \cup Asked(l))
            /\ hit_[l] + miss_[l] =
                 Cardinality(Judged(l))
                   + Cardinality(Busy(l, {"search", "insert", "judge"}))
=============================================================================
