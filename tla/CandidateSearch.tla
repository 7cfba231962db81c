-------------------------- MODULE CandidateSearch ---------------------------
(***************************************************************************)
(* The two searches of a built trie that Trie::SearchNearestExpressions    *)
(* knows and does not select (src/autocorrect.cpp): candidate generation   *)
(* edits the target and keeps what the trie holds, symmetric delete only   *)
(* deletes and consults a map of the training data.                        *)
(*                                                                         *)
(* Both grow a set of candidates in a pass for each cost, and insert into  *)
(* the hash table they iterate over.  When it rehashes, the iterator goes  *)
(* on in the new order: a pass edits some of the candidates of the cost    *)
(* before, and at least the first one it comes to.                         *)
(***************************************************************************)
EXTENDS Trie, Alignments

CONSTANTS
  Targets,  \* the compact expressions searched for
  max_cost

ASSUME SearchAssumption == Targets \subseteq Seq(Alphabet) /\ max_cost \in Nat

VARIABLES
  search,        \* "idle", "generating" or "returned"
  algorithm,
  target,
  current_cost,  \* of the next pass
  candidates,    \* the cost each candidate is labelled with
  result         \* the nearest expressions

searchVars == <<search, algorithm, target, current_cost, candidates, result>>
allVars == <<vars, searchVars>>

Algorithms == {"CANDIDATE_GENERATION", "SYMMETRIC_DELETE"}

SearchInit ==
  /\ Init
  /\ search = "idle"
  /\ algorithm \in Algorithms
  /\ target = << >>
  /\ current_cost = 0
  /\ candidates = << >>
  /\ result = {}

-----------------------------------------------------------------------------
(* Slips: mistakes in the definitions below, for testing the properties.   *)
(* None is part of the specification.                                      *)

Labelled_Again(found, n) ==
  [e \in DOMAIN candidates \cup found |->
     IF e \in found THEN n ELSE candidates[e]]

-----------------------------------------------------------------------------
(* The characters of the training data.                                    *)
alphabets_ == UNION {ToSet(p) : p \in DOMAIN nodes}

(* What follows position i when n characters from there on are taken out,  *)
(* or as many as there are.                                                *)
After(e, i, n) == SubSeq(e, i + n, Len(e))

Copies(c, n) == [k \in 1..n |-> c]

(* An edit of cost n is one of n characters in a row, that become the same *)
(* character if they are not deleted.                                      *)
Before(e, i) == SubSeq(e, 1, i - 1)
Replacement(e, i, n, c) == Before(e, i) \o Copies(c, n) \o After(e, i, n)
Insertion(e, i, n, c) == Before(e, i) \o Copies(c, n) \o After(e, i, 0)
Deletion(e, i, n) == Before(e, i) \o After(e, i, n)

Edited(e, n) ==
  {Deletion(e, i, n) : i \in DOMAIN e}
    \cup IF algorithm = "SYMMETRIC_DELETE" THEN {}
         ELSE {Replacement(e, i, n, c) : i \in DOMAIN e, c \in alphabets_}
                \cup {Insertion(e, i, n, c) : i \in DOMAIN e, c \in alphabets_}

(* A candidate that is known keeps its label.                              *)
Labelled(found, n) ==
  [e \in DOMAIN candidates \cup found |->
     IF e \in DOMAIN candidates THEN candidates[e] ELSE n]

Search ==
  /\ pc = "built" /\ search = "idle"
  /\ target' \in Targets
  /\ candidates' = [e \in {target'} |-> 0]
  /\ current_cost' = 1
  /\ search' = "generating"
  /\ UNCHANGED <<vars, algorithm, result>>

(* The pass for a cost: Taken are the candidates that it comes across.     *)
Pass ==
  /\ search = "generating" /\ current_cost <= max_cost
  /\ LET level == {e \in DOMAIN candidates : candidates[e] = current_cost - 1}
     IN \E Taken \in SUBSET level :
          /\ level # {} => Taken # {}
          /\ candidates' =
               Labelled(UNION {Edited(e, current_cost) : e \in Taken},
                        current_cost)
  /\ current_cost' = current_cost + 1
  /\ UNCHANGED <<vars, search, algorithm, target, result>>

(* LookUpShortExpr decides which candidates are expressions.  The map of   *)
(* the symmetric delete is empty: nothing ever fills it.                   *)
Return ==
  /\ search = "generating" /\ current_cost > max_cost
  /\ result' =
       IF algorithm = "SYMMETRIC_DELETE" THEN {}
       ELSE {[expression |-> e, cost |-> candidates[e],
              occurrences |-> nodes[e].num_occurrences] :
               e \in {d \in DOMAIN candidates : Found(d)}}
  /\ search' = "returned"
  /\ UNCHANGED <<vars, algorithm, target, current_cost, candidates>>

-----------------------------------------------------------------------------
BuildStep ==
  /\ OpenFails \/ ReadLine \/ EndOfFile \/ Visit \/ BuildReturns
  /\ UNCHANGED searchVars

SearchOver ==
  /\ pc = "threw" \/ search = "returned"
  /\ UNCHANGED allVars

SearchNext == BuildStep \/ Search \/ Pass \/ Return \/ SearchOver

SearchSpec == SearchInit /\ [][SearchNext]_allVars

-----------------------------------------------------------------------------
(* A candidate labelled with cost n is within 1 + ... + n edits of the     *)
(* target.  It need not be within n: a pass makes n edits of what the pass *)
(* before made.  At the usual cost of 2 a candidate may be three edits     *)
(* away.                                                                   *)
CandidatesAreNear ==
  \A e \in DOMAIN candidates :
    FewestEdits(target, e) <= (candidates[e] * (candidates[e] + 1)) \div 2

(* The target with a character after its end that is not its last: no edit *)
(* reaches it, since insertions are before a character.                    *)
IsAppended(e) ==
  \E c \in Alphabet : /\ e = Append(target, c)
                      /\ target = << >> \/ c # Last(target)

(* Whatever the iteration over the growing table misses, candidate         *)
(* generation finds every trained expression one edit from the target, and *)
(* the target if it is trained, at its distance; and it finds nothing that *)
(* is not trained.                                                         *)
OneEditIsFound ==
  search = "returned" /\ algorithm = "CANDIDATE_GENERATION" =>
    /\ \A r \in result :
         /\ r.expression \in TrainingSet
         /\ r.occurrences = Cardinality(LinesBelow(r.expression))
    /\ \A e \in TrainingSet :
         LET edits == FewestEdits(target, e)
         IN edits <= max_cost /\ edits < 2 /\ ~IsAppended(e) =>
              \E r \in result : r.expression = e /\ r.cost = edits

(* What makes candidates near: each is labelled with the cost of a pass    *)
(* that is over.                                                           *)
NearInv ==
  /\ CountsInv
  /\ target \in Seq(Alphabet)
  /\ current_cost \in Nat
  /\ search = "idle" => DOMAIN candidates = {}
  /\ search # "idle" => current_cost > 0
  /\ DOMAIN candidates \subseteq Seq(Alphabet)
  /\ \A e \in DOMAIN candidates : candidates[e] \in 0..current_cost - 1
  /\ CandidatesAreNear

(* What makes one edit found: the first pass comes across the target, the  *)
(* only candidate of cost 0, and no later pass relabels what it leads to.  *)
FoundInv ==
  /\ NearInv
  /\ search # "idle" =>
       /\ pc = "built"
       /\ target \in DOMAIN candidates
       /\ \A e \in DOMAIN candidates : candidates[e] = 0 <=> e = target
       /\ current_cost > 1 /\ algorithm = "CANDIDATE_GENERATION" =>
            \A e \in Edited(target, 1) :
              e \in DOMAIN candidates /\ candidates[e] <= 1
  /\ OneEditIsFound
=============================================================================
