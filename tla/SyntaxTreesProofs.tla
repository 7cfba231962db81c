-------------------------- MODULE SyntaxTreesProofs --------------------------
(***************************************************************************)
(* Ownership of syntax trees, for any number of threads, calls and blocks. *)
(* A step concerns one thread and the tree of its current call: the tree   *)
(* is new when it is parsed, and it is not among those refused before when *)
(* it is deleted.                                                          *)
(***************************************************************************)
EXTENDS SyntaxTrees, TLAPS

USE DEF At, Goto, CallTree, MayCall, CallsOf, report_parse_errors, Refuses,
        Deleted, Destroyed, NodesLeft, ReachesLevelTwo, StringsOfAsserts,
        Caught

LEMMA TailProperties ==
  ASSUME NEW S, NEW s \in Seq(S), s # << >>
  PROVE  /\ Tail(s) \in Seq(S)
         /\ \A k \in DOMAIN Tail(s) : k + 1 \in DOMAIN s /\ Tail(s)[k] = s[k + 1]
OBVIOUS

(* The current call of a thread at work has a tree, if it made one, and    *)
(* that is what the thread holds.                                          *)
LEMMA CallTrees ==
  ASSUME TypeOK, OwnershipInv, NEW t \in Threads, AtWork(t)
  PROVE  /\ CallTree(t) \in Trees
         /\ pc[t] = "check" => tree[t] = CallTree(t) /\ ts_tree[t] = NoTree
         /\ pc[t] \in {"collect", "convert"} =>
              ts_tree[t] = CallTree(t) /\ tree[t] = NoTree
<1>1. calls[t] \in Nat \ {0}
  BY BoundsAssumption DEF TypeOK, OwnershipInv, OwnsItsTree
<1> QED  BY <1>1 DEF Trees, OwnershipInv, OwnsItsTree

(* Every variable keeps its type.  That a thread at work has made a call   *)
(* and collects from a tree makes its trees and nodes of their types.      *)
LEMMA TypeCorrect == TypeOK /\ OwnershipInv /\ [Next]_vars => TypeOK'
<1> USE BoundsAssumption
<1> SUFFICES ASSUME TypeOK, OwnershipInv, [Next]_vars PROVE TypeOK'
  OBVIOUS
<1>1. CASE UNCHANGED vars
  BY <1>1 DEF TypeOK, vars, process, parserVars, treeVars, blockVars
<1>2. CASE Over
  BY <1>2 DEF Over, TypeOK, vars, process, parserVars, treeVars, blockVars
<1>3. ASSUME NEW t \in Threads, Step(t) PROVE TypeOK'
  <2> USE DEF TypeOK, process, parserVars, treeVars, blockVars
  <2>1. CASE Call(t)
    BY <2>1 DEF Call
  <2>2. CASE Open(t) \/ OpenFails(t) \/ ParserIsReady(t) \/ ParseFails(t)
    BY <2>2 DEF Open, OpenFails, ParserIsReady, ParseFails
  <2>3. CASE NewParser(t)
    BY <2>3, Zenon DEF NewParser
  <2>4. CASE NewParserFails(t)
    <3>1. lost_parsers' \in [Threads -> Nat]
      BY <2>4 DEF NewParserFails
    <3> QED  BY <2>4, <3>1, Zenon DEF NewParserFails
  <2>5. CASE Parse(t)
    <3>1. CallTree(t) \in Trees
      BY <2>5, CallTrees DEF Parse, AtWork
    <3> QED  BY <2>5, <3>1 DEF Parse
  <2>6. CASE Refuse(t)
    <3>1. tree[t] \in Trees
      BY <2>6, CallTrees DEF Refuse, AtWork
    <3> QED  BY <2>6, <3>1 DEF Refuse
  <2>7. CASE Own(t) \/ Return(t)
    BY <2>7 DEF Own, Return
  <2>8. CASE Collect(t)
    <3>1. ts_tree[t] \in Trees
      BY <2>8, CallTrees DEF Collect, AtWork
    <3> QED  BY <2>8, <3>1 DEF Collect
  <2>9. CASE Convert(t)
    BY <2>9, TailProperties DEF Convert
  <2>10. CASE ConvertThrows(t)
    BY <2>10, TailProperties DEF ConvertThrows
  <2>11. CASE EndThread(t)
    <3>1. parser_base' \in [Threads -> {"none", "ready", "deleted"}]
      BY <2>11 DEF EndThread
    <3>2. pc' \in [Threads -> {"idle", "open", "parser", "parse", "check",
                              "collect", "convert", "done"}]
      BY <2>11 DEF EndThread
    <3> QED  BY <2>11, <3>1, <3>2 DEF EndThread
  <2> QED
    BY <1>3, <2>1, <2>2, <2>3, <2>4, <2>5, <2>6, <2>7, <2>8, <2>9, <2>10,
       <2>11 DEF Step
<1> QED  BY <1>1, <1>2, <1>3 DEF Next

(* A step of one thread is none of the others' business.                   *)
LEMMA OthersUnmoved ==
  ASSUME TypeOK, OwnershipInv, NEW t \in Threads, Step(t),
         NEW s \in Threads \ {t}
  PROVE  /\ UNCHANGED <<pc[s], calls[s], parser_base[s], lost_parsers[s],
                        tree[s], ts_tree[s], code_blocks[s], converted[s],
                        strings[s], process>>
         /\ UNCHANGED <<Of(s, live), Of(s, refused)>>
<1> USE DEF TypeOK, Of, process, parserVars, treeVars, blockVars
<1>1. CASE Call(t)
  BY <1>1 DEF Call
<1>2. CASE Open(t) \/ OpenFails(t) \/ ParserIsReady(t) \/ ParseFails(t)
  BY <1>2 DEF Open, OpenFails, ParserIsReady, ParseFails
<1>3. CASE NewParser(t) \/ NewParserFails(t) \/ EndThread(t)
  BY <1>3 DEF NewParser, NewParserFails, EndThread
<1>4. CASE Parse(t)
  BY <1>4 DEF Parse
<1>5. CASE Refuse(t)
  <2>1. tree[t] = CallTree(t)
    BY <1>5, CallTrees DEF Refuse, AtWork
  <2> QED  BY <1>5, <2>1 DEF Refuse
<1>6. CASE Own(t)
  BY <1>6 DEF Own
<1>7. CASE Collect(t) \/ Convert(t) \/ ConvertThrows(t)
  BY <1>7 DEF Collect, Convert, ConvertThrows
<1>8. CASE Return(t)
  <2>1. ts_tree[t] = CallTree(t)
    BY <1>8, CallTrees DEF Return, AtWork
  <2> QED  BY <1>8, <2>1 DEF Return
<1> QED
  BY <1>1, <1>2, <1>3, <1>4, <1>5, <1>6, <1>7, <1>8 DEF Step

(* The thread that takes a step still holds the tree of its current call   *)
(* and no other, and what it refuses is refused for ever.                  *)
LEMMA OwnershipCorrect ==
  TypeOK /\ OwnershipInv /\ [Next]_vars => OwnershipInv'
<1> USE BoundsAssumption
<1> SUFFICES ASSUME TypeOK, OwnershipInv, [Next]_vars PROVE OwnershipInv'
  OBVIOUS
<1>1. CASE UNCHANGED vars
  BY <1>1 DEF OwnershipInv, OwnsItsTree, Of, AtWork, vars, process, parserVars,
              treeVars, blockVars
<1>2. CASE Over
  BY <1>2 DEF Over, OwnershipInv, OwnsItsTree, Of, AtWork, vars, process,
              parserVars, treeVars, blockVars
<1>3. ASSUME NEW t \in Threads, Step(t) PROVE OwnershipInv'
  <2>1. ASSUME NEW s \in Threads \ {t} PROVE OwnsItsTree(s)'
    <3>1. OwnsItsTree(s)
      BY DEF OwnershipInv
    <3> QED  BY <1>3, <2>1, <3>1, OthersUnmoved DEF OwnsItsTree, AtWork
  <2>2. OwnsItsTree(t)'
    <3>0. OwnsItsTree(t)
      BY DEF OwnershipInv
    <3> USE DEF TypeOK, OwnsItsTree, Of, AtWork, process, parserVars, treeVars,
                blockVars
    <3>1. CASE Call(t)
      <4>1. calls[t] \in Nat /\ calls'[t] = calls[t] + 1
        BY <3>1 DEF Call
      <4>2. \A x \in refused : x[2] \in Nat
        BY DEF Trees
      <4>3. \A x \in refused : x[1] = t => x[2] <= calls[t]
        BY <3>0
      <4> QED  BY <3>0, <3>1, <4>1, <4>2, <4>3 DEF Call
    <3>2. CASE Open(t) \/ OpenFails(t) \/ ParserIsReady(t) \/ ParseFails(t)
      BY <3>0, <3>2 DEF Open, OpenFails, ParserIsReady, ParseFails
    <3>3. CASE NewParser(t) \/ NewParserFails(t)
      BY <3>0, <3>3 DEF NewParser, NewParserFails
    <3>4. CASE Parse(t) \/ EndThread(t)
      BY <3>0, <3>4 DEF Parse, EndThread
    <3>5. CASE Refuse(t)
      BY <3>0, <3>5 DEF Refuse
    <3>6. CASE Own(t)
      BY <3>0, <3>6 DEF Own
    <3>7. CASE Collect(t)
      <4>1. \A k \in DOMAIN code_blocks'[t] : code_blocks'[t][k] = ts_tree[t]
        BY <3>7 DEF Collect
      <4> QED  BY <3>0, <3>7, <4>1 DEF Collect
    <3>8. CASE Convert(t) \/ ConvertThrows(t)
      <4>1. /\ code_blocks[t] \in Seq(Trees) /\ code_blocks[t] # << >>
            /\ code_blocks'[t] = Tail(code_blocks[t])
        BY <3>8 DEF Convert, ConvertThrows
      <4>2. \A k \in DOMAIN code_blocks'[t] : code_blocks'[t][k] = ts_tree[t]
        <5>1. \A k \in DOMAIN code_blocks[t] : code_blocks[t][k] = ts_tree[t]
          BY <3>0
        <5> HIDE DEF TypeOK, OwnsItsTree
        <5> QED  BY <4>1, <5>1, TailProperties
      <4>3. /\ UNCHANGED <<pc, calls, lost_parsers, tree, ts_tree, refused>>
            /\ pc[t] = "convert"
        <5>1. CASE Convert(t)
          BY <5>1 DEF Convert
        <5>2. CASE ConvertThrows(t)
          BY <5>2 DEF ConvertThrows
        <5> QED  BY <3>8, <5>1, <5>2
      <4> HIDE DEF TypeOK
      <4> QED  BY <3>0, <4>2, <4>3
    <3>9. CASE Return(t)
      BY <3>0, <3>9 DEF Return
    <3> QED
      BY <1>3, <3>1, <3>2, <3>3, <3>4, <3>5, <3>6, <3>7, <3>8, <3>9
         DEF Step
  <2> QED  BY <2>1, <2>2 DEF OwnershipInv
<1> QED  BY <1>1, <1>2, <1>3 DEF Next

(* What a thread loses: its live trees are what it holds and what it       *)
(* refused, and its other losses are bounded by what it did.               *)
LEMMA LossesCorrect == IInv /\ [Next]_vars => LossesAreBounded'
<1> USE BoundsAssumption
<1> SUFFICES ASSUME IInv, [Next]_vars PROVE LossesAreBounded'
  OBVIOUS
<1>0. TypeOK /\ OwnershipInv /\ LossesAreBounded
  BY DEF IInv
<1>1. CASE UNCHANGED vars
  BY <1>0, <1>1 DEF LossesAreBounded, LosesLittle, Of, Held, vars, process,
                    parserVars, treeVars, blockVars
<1>2. CASE Over
  BY <1>0, <1>2 DEF Over, LossesAreBounded, LosesLittle, Of, Held, vars,
                    process, parserVars, treeVars, blockVars
<1>3. ASSUME NEW t \in Threads, Step(t) PROVE LossesAreBounded'
  <2>1. (refused # {} => program = "expressions")'
    <3>1. CASE Refuse(t)
      BY <1>0, <3>1 DEF Refuse, process
    <3>2. CASE ~Refuse(t)
      <4>1. UNCHANGED <<refused, program>>
        BY <1>3, <3>2 DEF Step, Call, Open, OpenFails, ParserIsReady, NewParser,
             NewParserFails, Parse, ParseFails, Own, Collect, Convert,
             ConvertThrows, Return, EndThread, process, treeVars
      <4> QED  BY <1>0, <4>1 DEF LossesAreBounded
    <3> QED  BY <3>1, <3>2
  <2>2. ASSUME NEW s \in Threads \ {t} PROVE LosesLittle(s)'
    <3>1. LosesLittle(s)
      BY <1>0 DEF LossesAreBounded
    <3> QED
      BY <1>0, <1>3, <2>2, <3>1, OthersUnmoved DEF LosesLittle, Held, process
  <2>3. LosesLittle(t)'
    <3>0. LosesLittle(t) /\ OwnsItsTree(t)
      BY <1>0 DEF LossesAreBounded, OwnershipInv
    <3>1. (Of(t, live) = Held(t) \cup Of(t, refused))'
      <4> USE DEF treeVars
      <4>1. CASE Parse(t)
        <5>1. Held(t) = {} /\ CallTree(t) # NoTree
          BY <1>0, <3>0, <4>1, CallTrees, NoTreeAssumption
             DEF Parse, Held, OwnsItsTree, AtWork
        <5>2. Held(t)' = {CallTree(t)}
          BY <1>0, <3>0, <4>1, <5>1 DEF Parse, Held, OwnsItsTree, TypeOK
        <5>3. Of(t, live)' = Of(t, live) \cup {CallTree(t)}
          BY <4>1 DEF Parse, Of
        <5> QED  BY <3>0, <4>1, <5>1, <5>2, <5>3 DEF Parse, LosesLittle, Of
      <4>2. CASE Refuse(t)
        <5>1. Held(t) = {CallTree(t)} /\ tree[t] = CallTree(t)
          BY <1>0, <4>2, CallTrees, NoTreeAssumption DEF Refuse, Held, AtWork
        <5>2. Held(t)' = {}
          BY <1>0, <3>0, <4>2 DEF Refuse, Held, OwnsItsTree, TypeOK
        <5>3. Of(t, refused)' = Of(t, refused) \cup {CallTree(t)}
          BY <4>2, <5>1 DEF Refuse, Of
        <5> QED  BY <3>0, <4>2, <5>1, <5>2, <5>3 DEF Refuse, LosesLittle, Of
      <4>3. CASE Own(t)
        <5>1. Held(t)' = Held(t)
          BY <1>0, <3>0, <4>3 DEF Own, Held, OwnsItsTree, TypeOK
        <5>2. UNCHANGED <<live, refused>>
          BY <4>3 DEF Own
        <5> QED  BY <3>0, <5>1, <5>2 DEF LosesLittle, Of
      <4>4. CASE Return(t)
        <5>1. Held(t) = {CallTree(t)} /\ ts_tree[t] = CallTree(t)
          BY <1>0, <4>4, CallTrees, NoTreeAssumption DEF Return, Held, AtWork
        <5>2. Held(t)' = {}
          BY <1>0, <3>0, <4>4 DEF Return, Held, OwnsItsTree, TypeOK
        <5>3. CallTree(t) \notin Of(t, refused)
          BY <3>0, <4>4 DEF Return, OwnsItsTree, AtWork
        <5>4. Of(t, live)' = Of(t, live) \ {CallTree(t)}
          BY <4>4, <5>1 DEF Return, Of
        <5> QED
          BY <3>0, <4>4, <5>1, <5>2, <5>3, <5>4 DEF Return, LosesLittle, Of
      <4>5. CASE ~(Parse(t) \/ Refuse(t) \/ Own(t) \/ Return(t))
        <5>1. UNCHANGED treeVars
          BY <1>3, <4>5 DEF Step, Call, Open, OpenFails, ParserIsReady,
             NewParser, NewParserFails, ParseFails, Collect, Convert,
             ConvertThrows, EndThread
        <5> QED  BY <3>0, <5>1 DEF LosesLittle, Of, Held
      <4> QED  BY <4>1, <4>2, <4>3, <4>4, <4>5
    <3>2. (pc[t] \in {"idle", "done"} => Held(t) = {})'
      <4>1. OwnsItsTree(t)'
        BY <1>0, <1>3, OwnershipCorrect DEF OwnershipInv, Next
      <4> QED  BY <4>1 DEF OwnsItsTree, Held
    <3>3. (lost_parsers[t] <= IF set_language_works THEN 0 ELSE calls[t])'
      <4>0. /\ calls[t] \in Nat /\ lost_parsers[t] \in Nat
            /\ lost_parsers[t] <= IF set_language_works THEN 0 ELSE calls[t]
        BY <1>0, <3>0 DEF TypeOK, LosesLittle
      <4>1. CASE NewParserFails(t)
        <5>1. /\ ~set_language_works' /\ lost_parsers[t] < calls[t]
              /\ lost_parsers'[t] = lost_parsers[t] + 1 /\ calls'[t] = calls[t]
          BY <1>0, <3>0, <4>1
             DEF NewParserFails, OwnsItsTree, AtWork, TypeOK, process
        <5> QED  BY <4>0, <5>1
      <4>2. CASE ~NewParserFails(t)
        <5>1. /\ UNCHANGED <<lost_parsers, set_language_works>>
              /\ calls'[t] = calls[t] \/ calls'[t] = calls[t] + 1
          BY <1>0, <1>3, <4>2 DEF TypeOK, Step, Call, Open, OpenFails,
             ParserIsReady, NewParser, Parse, ParseFails, Refuse, Own, Collect,
             Convert, ConvertThrows, Return, EndThread, process, parserVars
        <5> QED  BY <4>0, <5>1
      <4> QED  BY <4>1, <4>2
    <3>4. (pc[t] = "done" => parser_base[t] # "ready")'
      <4>1. CASE EndThread(t)
        BY <1>0, <4>1 DEF EndThread, TypeOK
      <4>2. CASE ~EndThread(t)
        <5>1. pc[t] # "done" /\ pc'[t] # "done"
          BY <1>0, <1>3, <4>2 DEF TypeOK, Step, Call, Open, OpenFails,
             ParserIsReady, NewParser, NewParserFails, Parse, ParseFails,
             Refuse, Own, Collect, Convert, ConvertThrows, Return
        <5> QED  BY <5>1
      <4> QED  BY <4>1, <4>2
    <3>5. (strings[t] <= 3 * converted[t])'
      <4>1. CASE Convert(t) \/ ConvertThrows(t)
        <5>1. /\ strings[t] \in Nat /\ converted[t] \in Nat
              /\ strings[t] <= 3 * converted[t]
          BY <1>0, <3>0 DEF TypeOK, LosesLittle
        <5>2. CASE ReachesLevelTwo
          <6>1. /\ \E n \in 0..3 : strings'[t] = strings[t] + n
                /\ converted'[t] = converted[t] + 1
            BY <1>0, <4>1, <5>2 DEF Convert, ConvertThrows, TypeOK
          <6> QED  BY <5>1, <6>1
        <5>3. CASE ~ReachesLevelTwo
          <6>1. strings'[t] = strings[t] /\ converted'[t] = converted[t]
            BY <1>0, <4>1, <5>1, <5>3 DEF Convert, ConvertThrows, TypeOK
          <6> QED  BY <5>1, <6>1
        <5> QED  BY <5>2, <5>3
      <4>2. CASE ~(Convert(t) \/ ConvertThrows(t))
        <5>1. UNCHANGED <<strings, converted>>
          BY <1>3, <4>2 DEF Step, Call, Open, OpenFails, ParserIsReady,
             NewParser, NewParserFails, Parse, ParseFails, Refuse, Own,
             Collect, Return, EndThread, blockVars
        <5> QED  BY <3>0, <5>1 DEF LosesLittle
      <4> QED  BY <4>1, <4>2
    <3> QED  BY <3>1, <3>2, <3>3, <3>4, <3>5 DEF LosesLittle
  <2> QED  BY <2>1, <2>2, <2>3 DEF LossesAreBounded
<1> QED  BY <1>1, <1>2, <1>3 DEF Next

-----------------------------------------------------------------------------
LEMMA Begins == Init => IInv
<1> SUFFICES ASSUME Init PROVE IInv
  OBVIOUS
<1> USE BoundsAssumption DEF Init
<1>1. TypeOK
  <2>1. calls \in [Threads -> 0..CallsOf]
    OBVIOUS
  <2>2. pc \in [Threads -> {"idle", "open", "parser", "parse", "check",
                           "collect", "convert", "done"}]
    OBVIOUS
  <2>3. /\ program \in {"scanner", "dump", "expressions"}
        /\ set_language_works \in BOOLEAN
        /\ crashed \in BOOLEAN
    BY Zenon
  <2>4. /\ parser_base \in [Threads -> {"none", "ready", "deleted"}]
        /\ lost_parsers \in [Threads -> Nat]
        /\ tree \in [Threads -> Trees \cup {NoTree}]
        /\ ts_tree \in [Threads -> Trees \cup {NoTree}]
        /\ live \subseteq Trees /\ refused \subseteq Trees
        /\ code_blocks \in [Threads -> Seq(Trees)]
        /\ converted \in [Threads -> Nat]
        /\ strings \in [Threads -> Nat]
    OBVIOUS
  <2> QED  BY <2>1, <2>2, <2>3, <2>4, Zenon DEF TypeOK
<1>2. OwnershipInv
  BY DEF OwnershipInv, OwnsItsTree, Of, AtWork
<1>3. LossesAreBounded
  <2>1. ASSUME NEW t \in Threads PROVE LosesLittle(t)
    <3>1. lost_parsers[t] = 0 /\ strings[t] = 0 /\ converted[t] = 0
      OBVIOUS
    <3> QED  BY <3>1 DEF LosesLittle, Of, Held
  <2> QED  BY <2>1 DEF LossesAreBounded
<1> QED  BY <1>1, <1>2, <1>3 DEF IInv

LEMMA Inductive == IInv /\ [Next]_vars => IInv'
BY TypeCorrect, OwnershipCorrect, LossesCorrect DEF IInv

(* Threads own what they work on, and lose no more than LossesAreBounded   *)
(* says, however many there are and however many calls they make.          *)
THEOREM OwnershipHolds == Spec => []IInv
BY Begins, Inductive, PTL DEF Spec

(* A scan loses no tree, whatever becomes of its files: GetTSTree and the  *)
(* unique_ptr of its callers.                                              *)
THEOREM LossesBounded == Spec => []LossesAreBounded
<1>1. IInv => LossesAreBounded
  BY DEF IInv
<1> QED  BY <1>1, OwnershipHolds, PTL

(* No node is used after its tree: CollectCodeBlocksOfInterest and         *)
(* NodeToString, in the scanner, the dump tool and ScanExpression.         *)
THEOREM NodesLive == Spec => []NodesAreOfLiveTrees
<1>1. IInv => NodesAreOfLiveTrees
  <2> SUFFICES ASSUME IInv, NEW t \in Threads
               PROVE  /\ pc[t] = "check" => tree[t] \in live
                      /\ pc[t] = "collect" => ts_tree[t] \in live
                      /\ \A k \in DOMAIN code_blocks[t] :
                           code_blocks[t][k] \in live
    BY DEF NodesAreOfLiveTrees
  <2>1. TypeOK /\ OwnershipInv /\ OwnsItsTree(t) /\ LosesLittle(t)
    BY DEF IInv, OwnershipInv, LossesAreBounded
  <2>2. AtWork(t) =>
          /\ pc[t] = "check" => tree[t] = CallTree(t)
          /\ pc[t] \in {"collect", "convert"} => ts_tree[t] = CallTree(t)
          /\ CallTree(t) # NoTree
    BY <2>1, CallTrees, NoTreeAssumption
  <2>3. pc[t] \in {"check", "collect", "convert"} => CallTree(t) \in live
    BY <2>1, <2>2 DEF LosesLittle, Held, Of, AtWork
  <2>4. code_blocks[t] # << >> => pc[t] = "convert"
    BY <2>1 DEF OwnsItsTree
  <2>5. \A k \in DOMAIN code_blocks[t] : code_blocks[t][k] \in live
    BY <2>1, <2>2, <2>3, <2>4 DEF OwnsItsTree, AtWork
  <2> QED  BY <2>2, <2>3, <2>5 DEF AtWork
<1> QED  BY <1>1, OwnershipHolds, PTL
=============================================================================
