----------------------------- MODULE SyntaxTrees -----------------------------
(***************************************************************************)
(* What ControlFlag holds of tree-sitter and when it lets go of it: the    *)
(* parser of a thread (ParserBase, src/parser.h), the tree of a call of    *)
(* GetTSTree (src/common_util.{h,cpp}), the nodes of code_blocks, which    *)
(* point into that tree, and the strings of ts_node_string.                *)
(*                                                                         *)
(* Three programs call GetTSTree: the file scanner, one thread per log,    *)
(* the dump tool, once, and users of ScanExpression, with the parse errors *)
(* of the expression reported.  Threads share none of these objects; what  *)
(* they share is the process, which an uncaught exception ends.  The       *)
(* language is C or C++: at LEVEL_TWO the others print the node and free   *)
(* the string.                                                             *)
(***************************************************************************)
EXTENDS Naturals, Sequences, FiniteSets

CONSTANTS
  Threads,    \* the threads that may call GetTSTree
  MaxCalls,   \* bound on the calls of a thread, for model checking
  MaxBlocks,  \* bound on the code blocks of a tree, for model checking
  NoTree      \* a ManagedTSTree that is empty

ASSUME BoundsAssumption == MaxCalls \in Nat /\ MaxBlocks \in Nat

(* The tree that the k-th call of a thread makes, if it makes one.         *)
Trees == Threads \X (Nat \ {0})

ASSUME NoTreeAssumption == NoTree \notin Trees

VARIABLES
  program,             \* "scanner", "dump" or "expressions"
  set_language_works,  \* whether tree-sitter accepts the language
  crashed,             \* whether an exception has ended the process
  pc,                  \* where each thread is
  calls,               \* the calls of GetTSTree each thread has begun
  parser_base,         \* of each thread: "none", "ready" or "deleted"
  lost_parsers,        \* the parsers each thread allocated and forgot
  tree,                \* TSTree* tree of GetTSTree: what the parser returned
  ts_tree,             \* the ManagedTSTree of the caller
  live,                \* the trees allocated and not deleted
  refused,             \* history: the trees of the expressions refused
  code_blocks,         \* the nodes still to be converted, each by its tree
  converted,           \* history: the nodes each thread met at LEVEL_TWO
  strings              \* the strings of ts_node_string it did not free

process == <<program, set_language_works>>
parserVars == <<parser_base, lost_parsers>>
treeVars == <<tree, ts_tree, live, refused>>
blockVars == <<code_blocks, converted, strings>>
vars == <<process, crashed, pc, calls, parserVars, treeVars, blockVars>>

-----------------------------------------------------------------------------
Init ==
  /\ program \in {"scanner", "dump", "expressions"}
  /\ set_language_works \in BOOLEAN
  /\ crashed = FALSE
  /\ \E running \in (SUBSET Threads) \ {{}} :
       /\ program = "dump" => Cardinality(running) = 1
       /\ pc = [t \in Threads |-> IF t \in running THEN "idle" ELSE "done"]
  /\ calls = [t \in Threads |-> 0]
  /\ parser_base = [t \in Threads |-> "none"]
  /\ lost_parsers = [t \in Threads |-> 0]
  /\ tree = [t \in Threads |-> NoTree]
  /\ ts_tree = [t \in Threads |-> NoTree]
  /\ live = {}
  /\ refused = {}
  /\ code_blocks = [t \in Threads |-> << >>]
  /\ converted = [t \in Threads |-> 0]
  /\ strings = [t \in Threads |-> 0]

At(t, label) == pc[t] = label /\ ~crashed
Goto(t, label) == pc' = [pc EXCEPT ![t] = label]

report_parse_errors == program = "expressions"

(* The dump tool parses one file.                                          *)
CallsOf == IF program = "dump" THEN 1 ELSE MaxCalls

-----------------------------------------------------------------------------
(* Slips: mistakes in the definitions below, for testing the properties.   *)
(* None is part of the specification.                                      *)

MayCall_Again(t) == calls[t] < MaxCalls
Deleted_AtOnce(t) == {tree[t]}
Refuses_Files == TRUE
Destroyed_NoDeleter(t) == {}

-----------------------------------------------------------------------------
(* Who calls.                                                              *)

MayCall(t) == calls[t] < CallsOf

CallTree(t) == <<t, calls[t]>>

(* A file is opened first, an expression is there already.                 *)
Call(t) ==
  /\ At(t, "idle")
  /\ MayCall(t)
  /\ calls' = [calls EXCEPT ![t] = @ + 1]
  /\ Goto(t, IF report_parse_errors THEN "parser" ELSE "open")
  /\ UNCHANGED <<process, crashed, parserVars, treeVars, blockVars>>

Open(t) ==
  /\ At(t, "open")
  /\ Goto(t, "parser")
  /\ UNCHANGED <<process, crashed, calls, parserVars, treeVars, blockVars>>

(* cf_file_access_exception.  Every caller of GetTSTree catches what it    *)
(* throws and goes on with the next file, or ends.                         *)
OpenFails(t) ==
  /\ At(t, "open")
  /\ Goto(t, "idle")
  /\ UNCHANGED <<process, crashed, calls, parserVars, treeVars, blockVars>>

-----------------------------------------------------------------------------
(* GetTSTree from the source code on.                                      *)

(* The thread_local parser is constructed by the first call that succeeds. *)
ParserIsReady(t) ==
  /\ At(t, "parser")
  /\ parser_base[t] = "ready"
  /\ Goto(t, "parse")
  /\ UNCHANGED <<process, crashed, calls, parserVars, treeVars, blockVars>>

NewParser(t) ==
  /\ At(t, "parser")
  /\ parser_base[t] = "none"
  /\ set_language_works
  /\ parser_base' = [parser_base EXCEPT ![t] = "ready"]
  /\ Goto(t, "parse")
  /\ UNCHANGED <<process, crashed, calls, lost_parsers, treeVars, blockVars>>

(* The constructor throws: no destructor will run, so the TSParser is      *)
(* lost, and as the thread_local was not initialised the next call tries   *)
(* again.                                                                  *)
NewParserFails(t) ==
  /\ At(t, "parser")
  /\ parser_base[t] = "none"
  /\ ~set_language_works
  /\ lost_parsers' = [lost_parsers EXCEPT ![t] = @ + 1]
  /\ Goto(t, "idle")
  /\ UNCHANGED <<process, crashed, calls, parser_base, treeVars, blockVars>>

Parse(t) ==
  /\ At(t, "parse")
  /\ tree' = [tree EXCEPT ![t] = CallTree(t)]
  /\ live' = live \cup {CallTree(t)}
  /\ Goto(t, "check")
  /\ UNCHANGED <<process, crashed, calls, parserVars, ts_tree, refused,
                 blockVars>>

(* NULL: cf_parse_error or cf_unexpected_situation.                        *)
ParseFails(t) ==
  /\ At(t, "parse")
  /\ Goto(t, "idle")
  /\ UNCHANGED <<process, crashed, calls, parserVars, treeVars, blockVars>>

(* The root has an error, and that is to be reported: cf_parse_error is    *)
(* thrown while nobody owns the tree.                                      *)
Refuses == report_parse_errors

Refuse(t) ==
  /\ At(t, "check")
  /\ Refuses
  /\ refused' = refused \cup {tree[t]}
  /\ tree' = [tree EXCEPT ![t] = NoTree]
  /\ Goto(t, "idle")
  /\ UNCHANGED <<process, crashed, calls, parserVars, ts_tree, live, blockVars>>

(* What is deleted before the nodes of the tree are collected.             *)
Deleted(t) == {}

(* GetTSTree returns the tree as a unique_ptr.                             *)
Own(t) ==
  /\ At(t, "check")
  /\ ts_tree' = [ts_tree EXCEPT ![t] = tree[t]]
  /\ tree' = [tree EXCEPT ![t] = NoTree]
  /\ live' = live \ Deleted(t)
  /\ Goto(t, "collect")
  /\ UNCHANGED <<process, crashed, calls, parserVars, refused, blockVars>>

-----------------------------------------------------------------------------
(* The caller again, with the tree.                                        *)

(* Any number of code blocks, none among them.                             *)
Collect(t) ==
  /\ At(t, "collect")
  /\ \E n \in 0..MaxBlocks :
       code_blocks' = [code_blocks EXCEPT ![t] = [k \in 1..n |-> ts_tree[t]]]
  /\ Goto(t, "convert")
  /\ UNCHANGED <<process, crashed, calls, parserVars, treeVars, converted,
                 strings>>

(* ScanExpression stays at LEVEL_ONE.                                      *)
ReachesLevelTwo == program \in {"scanner", "dump"}

(* Operands are checked by three assertions, in a condition that has any.  *)
(* cf_assert evaluates its message, ts_node_string included, whether or    *)
(* not the assertion holds.                                                *)
StringsOfAsserts == IF ReachesLevelTwo THEN {0, 3} ELSE {0}

NodesLeft(t) == Tail(code_blocks[t])

(* Both levels of a code block.  LEVEL_ONE frees the strings it asks for.  *)
Convert(t) ==
  /\ At(t, "convert")
  /\ code_blocks[t] # << >>
  /\ \E n \in StringsOfAsserts : strings' = [strings EXCEPT ![t] = @ + n]
  /\ converted' =
       [converted EXCEPT ![t] = IF ReachesLevelTwo THEN @ + 1 ELSE @]
  /\ code_blocks' = [code_blocks EXCEPT ![t] = NodesLeft(t)]
  /\ UNCHANGED <<process, crashed, pc, calls, parserVars, treeVars>>

(* One of the assertions fails, or the node is no condition.  The dump     *)
(* tool catches the exception and skips the block; in the scanner it       *)
(* leaves the thread.                                                      *)
Caught == {"dump"}

ConvertThrows(t) ==
  /\ At(t, "convert")
  /\ code_blocks[t] # << >>
  /\ ReachesLevelTwo
  /\ \E n \in 1..3 : strings' = [strings EXCEPT ![t] = @ + n]
  /\ converted' = [converted EXCEPT ![t] = @ + 1]
  /\ crashed' = (program \notin Caught)
  /\ code_blocks' = [code_blocks EXCEPT ![t] = NodesLeft(t)]
  /\ UNCHANGED <<process, pc, calls, parserVars, treeVars>>

(* The destructor of the caller's ManagedTSTree.                           *)
Destroyed(t) == {ts_tree[t]}

Return(t) ==
  /\ At(t, "convert")
  /\ code_blocks[t] = << >>
  /\ live' = live \ Destroyed(t)
  /\ ts_tree' = [ts_tree EXCEPT ![t] = NoTree]
  /\ Goto(t, "idle")
  /\ UNCHANGED <<process, crashed, calls, parserVars, tree, refused, blockVars>>

(* The thread ends, and with it its parser, if it has one.                 *)
EndThread(t) ==
  /\ At(t, "idle")
  /\ parser_base' =
       [parser_base EXCEPT ![t] = IF @ = "ready" THEN "deleted" ELSE @]
  /\ Goto(t, "done")
  /\ UNCHANGED <<process, crashed, calls, lost_parsers, treeVars, blockVars>>

-----------------------------------------------------------------------------
Step(t) ==
  \/ Call(t) \/ Open(t) \/ OpenFails(t)
  \/ ParserIsReady(t) \/ NewParser(t) \/ NewParserFails(t)
  \/ Parse(t) \/ ParseFails(t) \/ Refuse(t) \/ Own(t)
  \/ Collect(t) \/ Convert(t) \/ ConvertThrows(t) \/ Return(t) \/ EndThread(t)

Over ==
  /\ crashed \/ \A t \in Threads : pc[t] = "done"
  /\ UNCHANGED vars

Next == (\E t \in Threads : Step(t)) \/ Over

Spec == Init /\ [][Next]_vars

-----------------------------------------------------------------------------
(* Every variable holds a value of its type.                               *)
TypeOK ==
  /\ program \in {"scanner", "dump", "expressions"}
  /\ set_language_works \in BOOLEAN
  /\ crashed \in BOOLEAN
  /\ pc \in [Threads -> {"idle", "open", "parser", "parse", "check", "collect",
                         "convert", "done"}]
  /\ calls \in [Threads -> 0..CallsOf]
  /\ parser_base \in [Threads -> {"none", "ready", "deleted"}]
  /\ lost_parsers \in [Threads -> Nat]
  /\ tree \in [Threads -> Trees \cup {NoTree}]
  /\ ts_tree \in [Threads -> Trees \cup {NoTree}]
  /\ live \subseteq Trees
  /\ refused \subseteq Trees
  /\ code_blocks \in [Threads -> Seq(Trees)]
  /\ converted \in [Threads -> Nat]
  /\ strings \in [Threads -> Nat]

(* Nodes are used only while their tree lives: the root that GetTSTree     *)
(* tests for errors, the tree that blocks are collected from, and every    *)
(* block until it was converted, also after the block before it threw.     *)
NodesAreOfLiveTrees ==
  \A t \in Threads :
    /\ pc[t] = "check" => tree[t] \in live
    /\ pc[t] = "collect" => ts_tree[t] \in live
    /\ \A k \in DOMAIN code_blocks[t] : code_blocks[t][k] \in live

(* The trees a thread has in its hands.                                    *)
Held(t) == {tree[t], ts_tree[t]} \ {NoTree}
Of(t, S) == {x \in S : x[1] = t}

(* Of the trees of a thread that are not deleted one is the tree it works  *)
(* on, and the others are those of the expressions it refused, which       *)
(* nobody will delete: a scan of files loses no tree, whichever of them do *)
(* not open, do not parse or hold no condition.  A parser is lost only by  *)
(* a call that tree-sitter refused the language, none is kept by a thread  *)
(* that has ended, and a condition costs at most three strings.            *)
LosesLittle(t) ==
  /\ Of(t, live) = Held(t) \cup Of(t, refused)
  /\ pc[t] \in {"idle", "done"} => Held(t) = {}
  /\ lost_parsers[t] <= IF set_language_works THEN 0 ELSE calls[t]
  /\ pc[t] = "done" => parser_base[t] # "ready"
  /\ strings[t] <= 3 * converted[t]

LossesAreBounded ==
  /\ refused # {} => program = "expressions"
  /\ \A t \in Threads : LosesLittle(t)

(* Whose every tree is: GetTSTree has the tree of the thread's current     *)
(* call until the caller has it, all nodes are of that one, and what was   *)
(* refused, or lost for want of a parser, was of an earlier call.          *)
AtWork(t) == pc[t] \notin {"idle", "done"}

OwnsItsTree(t) ==
  /\ tree[t] = IF pc[t] = "check" THEN CallTree(t) ELSE NoTree
  /\ ts_tree[t] =
       IF pc[t] \in {"collect", "convert"} THEN CallTree(t) ELSE NoTree
  /\ pc[t] # "convert" => code_blocks[t] = << >>
  /\ \A k \in DOMAIN code_blocks[t] : code_blocks[t][k] = ts_tree[t]
  /\ \A x \in Of(t, refused) :
       x[2] <= calls[t] /\ (AtWork(t) => x[2] # calls[t])
  /\ lost_parsers[t] <= calls[t]
  /\ AtWork(t) => lost_parsers[t] < calls[t]

OwnershipInv == \A t \in Threads : OwnsItsTree(t)

IInv == TypeOK /\ OwnershipInv /\ LossesAreBounded

(* "ts_node_string API mallocs memory for string that we need to free."    *)
(* (src/tree_abstraction.h:133): no thread between two calls has strings   *)
(* that it did not free.                                                   *)
NodeStringsAreFreed ==
  \A t \in Threads : pc[t] = "idle" /\ ~crashed => strings[t] = 0
=============================================================================
