-------------------------------- MODULE Trie --------------------------------
(***************************************************************************)
(* The trie that training builds (src/trie.h, src/trie.cpp): Trie::Build   *)
(* reads the dataset a line at a time and inserts the expressions of its   *)
(* level, then lists all paths of the trie for the search to go through.   *)
(*                                                                         *)
(* A node is identified with the path that leads to it, so that `nodes` is *)
(* the tree.  Expressions are compact strings: Compact maps different      *)
(* expressions to different strings (Compacter), and nothing else of it    *)
(* matters here.  One thread builds the trie, and nobody reads it before.  *)
(***************************************************************************)
EXTENDS Naturals, Sequences, FiniteSets, SequencesExt

CONSTANTS
  Alphabet,      \* the characters of compact expressions
  Expressions,   \* the compact expressions a dataset may hold
  Contributors,  \* the GitHub ids in front of them
  MaxLines       \* bound on the lines of a dataset

ASSUME ExpressionsAssumption == Expressions \subseteq Seq(Alphabet)
ASSUME MaxLinesAssumption == MaxLines \in Nat

VARIABLES
  pc,              \* what Build is doing
  lines,           \* the lines of this level read so far
  nodes,           \* the nodes of the trie, by their path
  queue,           \* paths of the nodes VisitAllLeafNodes has still to visit
  all_trie_paths   \* the list it makes, of expressions and occurrences

vars == <<pc, lines, nodes, queue, all_trie_paths>>

Line == [contributor : Contributors, expression : Expressions]

NewNode ==
  [num_occurrences |-> 0, terminal_node |-> FALSE,
   pattern_contributors |-> [c \in Contributors |-> 0]]

Root == << >>

Node(p) == IF p \in DOMAIN nodes THEN nodes[p] ELSE NewNode

-----------------------------------------------------------------------------
Init ==
  /\ pc = "reading"
  /\ lines = << >>
  /\ nodes = [p \in {Root} |-> NewNode]
  /\ queue = << >>
  /\ all_trie_paths = << >>

-----------------------------------------------------------------------------
(* Slips: mistakes in the definitions below, for testing the properties.   *)
(* None is part of the specification.                                      *)

Counted_NotTheLast(e) == Prefixes(e) \ {e}
Credit_First(e, c) == IF Node(e).pattern_contributors[c] = 0 THEN 1 ELSE 0
Listed_LeavesOnly(p) ==
  /\ nodes[p].terminal_node
  /\ \A q \in DOMAIN nodes : ~IsStrictPrefix(p, q)
Found_AnyNode(e) == e \in DOMAIN nodes
Children_OfPrefixes(p) ==
  {p \o <<c>> : c \in Alphabet}

-----------------------------------------------------------------------------
(* The nodes whose counter an insertion increments: all it passes through, *)
(* and the one it ends in.                                                 *)
Counted(e) == Prefixes(e)

(* What an insertion adds to the contributions of c to e.                  *)
Credit(e, c) == 1

Insert(e, c) ==
  nodes' =
    [p \in DOMAIN nodes \cup Prefixes(e) |->
       [num_occurrences |->
          Node(p).num_occurrences + (IF p \in Counted(e) THEN 1 ELSE 0),
        terminal_node |-> Node(p).terminal_node \/ p = e,
        pattern_contributors |->
          [d \in Contributors |->
             Node(p).pattern_contributors[d]
               + (IF p = e /\ d = c THEN Credit(e, c) ELSE 0)]]]

(* The file cannot be opened: the exception leaves Build.                  *)
OpenFails ==
  /\ pc = "reading" /\ lines = << >>
  /\ pc' = "threw"
  /\ UNCHANGED <<lines, nodes, queue, all_trie_paths>>

(* A line with an expression of this level.  Other lines (source code in   *)
(* comments, the other level) change nothing.                              *)
ReadLine ==
  /\ pc = "reading" /\ Len(lines) < MaxLines
  /\ \E line \in Line :
       /\ lines' = Append(lines, line)
       /\ Insert(line.expression, line.contributor)
  /\ UNCHANGED <<pc, queue, all_trie_paths>>

(* The end of the file: GenerateListOfAllTriePaths starts at the root.     *)
EndOfFile ==
  /\ pc = "reading"
  /\ pc' = "visiting"
  /\ queue' = <<Root>>
  /\ UNCHANGED <<lines, nodes, all_trie_paths>>

(* The node is the end of an expression.                                   *)
Listed(p) == nodes[p].terminal_node

Children(p) == {q \in DOMAIN nodes : Len(q) = Len(p) + 1 /\ IsPrefix(p, q)}

(* Children are in a hash map, which yields them in any order.             *)
ToVisit(p) == SetToSeqs(Children(p))

Visit ==
  /\ pc = "visiting" /\ queue # << >>
  /\ LET p == Head(queue)
     IN  /\ all_trie_paths' =
              IF Listed(p)
                THEN Append(all_trie_paths, <<p, nodes[p].num_occurrences>>)
                ELSE all_trie_paths
         /\ \E order \in ToVisit(p) : queue' = Tail(queue) \o order
  /\ UNCHANGED <<pc, lines, nodes>>

NoPaths == Len(all_trie_paths) = 0

(* cf_assert at the end of Build.                                          *)
BuildReturns ==
  /\ pc = "visiting" /\ queue = << >>
  /\ pc' = IF NoPaths THEN "threw" ELSE "built"
  /\ UNCHANGED <<lines, nodes, queue, all_trie_paths>>

Over == pc \in {"built", "threw"} /\ UNCHANGED vars

Next == OpenFails \/ ReadLine \/ EndOfFile \/ Visit \/ BuildReturns \/ Over

Spec == Init /\ [][Next]_vars

(* LookUpShortExpr: the walk ends in a node of the trie, and in one where  *)
(* an expression ends.                                                     *)
Found(e) == e \in DOMAIN nodes /\ nodes[e].terminal_node

-----------------------------------------------------------------------------
(* The lines with an expression, and those with one that p begins.         *)
LinesWith(e) == {k \in DOMAIN lines : lines[k].expression = e}
LinesBelow(p) == {k \in DOMAIN lines : IsPrefix(p, lines[k].expression)}
LinesOf(e, c) == {k \in LinesWith(e) : lines[k].contributor = c}
TrainingSet == {lines[k].expression : k \in DOMAIN lines}

(* Every variable holds a value of its type.                               *)
TypeOK ==
  /\ pc \in {"reading", "visiting", "built", "threw"}
  /\ lines \in Seq(Line)
  /\ Root \in DOMAIN nodes
  /\ DOMAIN nodes \subseteq UNION {Prefixes(e) : e \in Expressions \cup {Root}}
  /\ \A p \in DOMAIN nodes :
       nodes[p] \in [num_occurrences : Nat, terminal_node : BOOLEAN,
                     pattern_contributors : [Contributors -> Nat]]
  /\ queue \in Seq(DOMAIN nodes)
  /\ all_trie_paths \in Seq((DOMAIN nodes) \X Nat)

(* The nodes are the prefixes of the training set, and the counter of each *)
(* is the number of lines with an expression it begins, in whatever order  *)
(* the lines came.                                                         *)
OccurrencesCountPrefixes ==
  /\ DOMAIN nodes = {Root} \cup UNION {Prefixes(e) : e \in TrainingSet}
  /\ \A p \in DOMAIN nodes :
       nodes[p].num_occurrences = Cardinality(LinesBelow(p))

(* A node is terminal when an expression of the dataset ends there, also   *)
(* when longer ones go on, and each contributor is credited with exactly   *)
(* the lines that are theirs.                                              *)
TerminalsAreTheTrainingSet ==
  \A p \in DOMAIN nodes :
    /\ nodes[p].terminal_node <=> p \in TrainingSet
    /\ \A c \in Contributors :
         nodes[p].pattern_contributors[c] = Cardinality(LinesOf(p, c))

(* The list holds every expression of the dataset exactly once, also those *)
(* that end in an inner node, with the counter of its node: a search that  *)
(* compares every path with its target compares every expression.          *)
PathsAreTheTrainingSet ==
  /\ \A j, k \in DOMAIN all_trie_paths :
       all_trie_paths[j][1] = all_trie_paths[k][1] => j = k
  /\ \A k \in DOMAIN all_trie_paths :
       /\ all_trie_paths[k][1] \in TrainingSet
       /\ all_trie_paths[k][2] = Cardinality(LinesBelow(all_trie_paths[k][1]))
  /\ pc = "built" =>
       {all_trie_paths[k][1] : k \in DOMAIN all_trie_paths} = TrainingSet

(* Looking an expression up finds it exactly when a line of the dataset    *)
(* has it: a mere prefix of a trained expression is not found.             *)
LookUpFindsTheTrainingSet ==
  \A e \in Expressions : Found(e) <=> e \in TrainingSet

(* What makes the three facts about the nodes true after every insertion.  *)
CountsInv ==
  /\ lines \in Seq(Line)
  /\ \A p \in DOMAIN nodes :
       nodes[p] \in [num_occurrences : Nat, terminal_node : BOOLEAN,
                     pattern_contributors : [Contributors -> Nat]]
  /\ OccurrencesCountPrefixes
  /\ TerminalsAreTheTrainingSet

(* What makes the list right while it is made: no node in the queue is     *)
(* above another or above a listed one, and every terminal node is listed  *)
(* or below a node in the queue.                                           *)
QueueInv ==
  /\ IsFiniteSet(DOMAIN nodes)
  /\ queue \in Seq(DOMAIN nodes)
  /\ all_trie_paths \in Seq((DOMAIN nodes) \X Nat)
  /\ pc = "reading" => all_trie_paths = << >>
  /\ pc \in {"reading", "built"} => queue = << >>
  /\ \A j, k \in DOMAIN all_trie_paths :
       all_trie_paths[j][1] = all_trie_paths[k][1] => j = k
  /\ \A k \in DOMAIN all_trie_paths :
       LET p == all_trie_paths[k][1]
       IN  /\ nodes[p].terminal_node
           /\ all_trie_paths[k][2] = nodes[p].num_occurrences
  /\ \A j, k \in DOMAIN queue : IsPrefix(queue[j], queue[k]) => j = k
  /\ \A j \in DOMAIN queue, k \in DOMAIN all_trie_paths :
       ~IsPrefix(queue[j], all_trie_paths[k][1])
  /\ pc \in {"visiting", "built"} =>
       \A p \in DOMAIN nodes :
         nodes[p].terminal_node =>
           \/ \E k \in DOMAIN all_trie_paths : all_trie_paths[k][1] = p
           \/ \E j \in DOMAIN queue : IsPrefix(queue[j], p)
=============================================================================
