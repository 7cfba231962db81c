----------------------------- MODULE CodeBlocks -----------------------------
(***************************************************************************)
(* Which parts of a syntax tree ControlFlag looks at (src/common_util.cpp) *)
(* and the expressions it makes of them (src/tree_abstraction.h).          *)
(*                                                                         *)
(* A node has its tree-sitter type, the operator if it has one, the field  *)
(* of its parent that it is in, if any, and its named children, comments   *)
(* included.  Where the source did not parse there may be nodes that the   *)
(* parser put in (missing), named ones or anonymous tokens between the     *)
(* children, and an ERROR may be a single unexpected character.  An        *)
(* expression is a sequence of tokens; blanks, colons and quotation marks  *)
(* are left out.                                                           *)
(***************************************************************************)
EXTENDS Naturals, Sequences, FiniteSets, SequencesExt

CONSTANTS
  Tokens,   \* the names of types, fields and operators, and what else is in
            \*   expressions
  TreesOf,  \* per language, the syntax trees, every node's children among
            \*   them
  Height    \* of each tree, since no node is below itself

Languages == {"C", "CPP", "PHP", "VERILOG"}
Trees == UNION {TreesOf[l] : l \in Languages}

(* No operator, field or unexpected character.                             *)
None == ""

(* inserted[k] are the tokens put in before the k-th child, the last ones  *)
(* behind all children.                                                    *)
NodeType(S) ==
  [type : Tokens, op : Tokens, field : Tokens, missing : BOOLEAN,
   unexpected : Tokens, inserted : Seq(Seq(Tokens)), children : Seq(S)]

IsCommentNode(n) == n.type = "comment"

(* ts_node_has_error                                                       *)
HasError[n \in Trees] ==
  \/ n.type = "ERROR" \/ n.missing
  \/ \E k \in DOMAIN n.inserted : n.inserted[k] # << >>
  \/ \E k \in DOMAIN n.children : HasError[n.children[k]]

-----------------------------------------------------------------------------
(* Slips: mistakes in the definitions below, for testing the properties.   *)
(* None is part of the specification.                                      *)

Shown_NoComments(n) == SelectSeq(n.children, LAMBDA c : ~IsCommentNode(c))
Close_Forgotten == << >>

-----------------------------------------------------------------------------
(* The node whose text is taken for an if statement's condition.           *)

IsIfStatement(n) == n.type = "if_statement"
IsAlwaysBlock(n) == n.type = "always_construct"

HasField(n, name) == n.field = name

GetIfConditionNode(n) ==
  n.children[Min({k \in DOMAIN n.children :
                    HasField(n.children[k], "condition")})]

(* The words that only the parser's repairs and errors have.               *)
ErrorWords == {"ERROR", "MISSING", "UNEXPECTED"}

(* What tree-sitter ensures: an if statement has a condition, names and    *)
(* operators are not parentheses, and "=" is the operator of assignments.  *)
ASSUME TreesAssumption ==
  /\ \A l \in Languages : TreesOf[l] \subseteq NodeType(TreesOf[l])
  /\ Height \in [Trees -> Nat]
  /\ \A n \in Trees :
       /\ \A k \in DOMAIN n.children : Height[n.children[k]] < Height[n]
       /\ Len(n.inserted) = Len(n.children) + 1
       /\ {n.type, n.op, n.field, n.unexpected}
             \cup UNION {Range(n.inserted[k]) : k \in DOMAIN n.inserted}
             \subseteq Tokens \ {"(", ")"}
       /\ {n.op, n.field} \cap ErrorWords = {}
       /\ n.type \notin ErrorWords \ {"ERROR"}
       /\ n.unexpected # None => n.type = "ERROR"
       /\ n.type = "binary_expression" => n.op # "="
       /\ IsIfStatement(n) =>
            \E k \in DOMAIN n.children : HasField(n.children[k], "condition")

(* In the languages whose fields LEVEL_TWO shows they follow from the      *)
(* types: the grammar of Verilog has no fields, and that of PHP gives the  *)
(* same ones to the same children.                                         *)
ASSUME FieldsAssumption ==
  \A l \in {"PHP", "VERILOG"} : \A n, m \in {t \in TreesOf[l] : ~HasError[t]} :
    /\ n.type = m.type /\ Len(n.children) = Len(m.children)
    /\ \A k \in DOMAIN n.children : n.children[k].type = m.children[k].type
    => \A k \in DOMAIN n.children : n.children[k].field = m.children[k].field

(* What a child contributes itself.                                        *)
BlockOf(language, n) ==
  IF language = "VERILOG"
    THEN IF IsAlwaysBlock(n) THEN <<n>> ELSE << >>
    ELSE IF IsIfStatement(n) /\ ~HasError[GetIfConditionNode(n)]
           THEN <<GetIfConditionNode(n)>> ELSE << >>

(* A node and those below it, in the order of the source.                  *)
Preorder[n \in Trees] ==
  FlattenSeq(<< <<n>> >>
               \o [k \in DOMAIN n.children |-> Preorder[n.children[k]]])

(* CollectCodeBlocksOfInterest: what the nodes below a root contribute, a  *)
(* block before those inside it.                                           *)
CodeBlocksOf(language, n) ==
  LET below == Tail(Preorder[n])
  IN FlattenSeq([k \in DOMAIN below |-> BlockOf(language, below[k])])

-----------------------------------------------------------------------------
(* NodeToString.                                                           *)

ASSUME TokensAssumption ==
  {"(", ")", "=", "binary_expression", "non_terminal_expression", "argument",
   "identifier", "field", "field_identifier", "parenthesized_expression",
   "condition_clause", "MISSING", "UNEXPECTED"} \subseteq Tokens

Close == <<")">>

OpToString(n) == IF n.op = None THEN << >> ELSE <<n.op>>

(* An assignment, also a compound one, passes for a binary expression.     *)
Label(n) ==
  CASE n.type \in {"binary_expression", "unary_expression"} ->
         <<n.type>> \o OpToString(n)
    [] n.type = "assignment_expression" -> <<"binary_expression", "=">>
    [] OTHER -> <<n.type>>

Shown(n) == n.children

LevelOne[n \in Trees] ==
  FlattenSeq(<< <<"(">> \o Label(n) >>
               \o [k \in DOMAIN Shown(n) |-> LevelOne[Shown(n)[k]]]
               \o << Close >>)

FieldToString(n) == IF n.field = None THEN << >> ELSE <<n.field>>

MinLabel(n) ==
  CASE n.missing -> <<"MISSING", n.type>>
    [] ~n.missing /\ n.unexpected # None -> <<"UNEXPECTED", n.unexpected>>
    [] OTHER -> <<n.type>>

InsertedToString(tokens) ==
  FlattenSeq([i \in DOMAIN tokens |-> <<"(", "MISSING", tokens[i], ")">>])

(* ts_node_string: the field of the node itself is not shown.  Those of    *)
(* inserted tokens are left out, since Verilog has none.                   *)
LevelMin[n \in Trees] ==
  <<"(">> \o MinLabel(n)
    \o FlattenSeq(<<InsertedToString(n.inserted[1])>>
         \o [k \in DOMAIN n.children |->
               FieldToString(n.children[k]) \o LevelMin[n.children[k]]
                 \o InsertedToString(n.inserted[k + 1])])
    \o Close

(* The operands are the children, without the comments between them.       *)
Operands(n) == {k \in DOMAIN n.children : ~IsCommentNode(n.children[k])}

Unary == {"unary_expression", "pointer_expression"}
Binary ==
  {"binary_expression", "assignment_expression", "subscript_expression"}

Arity(n) == IF n.type \in Unary THEN 1 ELSE 2

Nested == {"parenthesized_expression", "condition_clause"}

AbstractTerminal(n) ==
  <<"(", IF n.children = << >> THEN n.type ELSE "non_terminal_expression">>
    \o Close

AbstractOperands(n) ==
  FlattenSeq([k \in DOMAIN n.children |->
    IF k \in Operands(n) THEN AbstractTerminal(n.children[k]) ELSE << >>])

(* Only a node with one child, not even a comment beside it, is described. *)
AbstractConditional[n \in Trees] ==
  IF Len(n.children) # 1 THEN << >>
  ELSE LET c == n.children[1]
       IN CASE c.type \in Nested ->
                 <<"(", c.type>> \o AbstractConditional[c] \o Close
            [] c.type = "call_expression" -> <<"(", c.type>> \o Close
            [] c.type = "field_expression" ->
                 <<"(", c.type, "argument", "(", "identifier", ")",
                   "field", "(", "field_identifier", ")">> \o Close
            [] c.type \in Unary \cup Binary ->
                 <<"(">> \o Label(c) \o AbstractOperands(c) \o Close
            [] OTHER -> AbstractTerminal(c)

(* Where cf_assert finds a wrong number of operands.                       *)
ConditionalThrows[n \in Trees] ==
  /\ Len(n.children) = 1
  /\ LET c == n.children[1]
     IN \/ c.type \in Nested /\ ConditionalThrows[c]
        \/ c.type \in Unary \cup Binary /\ Cardinality(Operands(c)) # Arity(c)

(* The type LEVEL_TWO expects the condition to have.                       *)
Top(language) ==
  IF language = "C" THEN "parenthesized_expression" ELSE "condition_clause"

LevelTwo(language, n) ==
  IF language \in {"C", "CPP"}
    THEN <<"(", Top(language)>> \o AbstractConditional[n] \o Close
    ELSE LevelMin[n]

LevelTwoThrows(language, n) ==
  /\ language \in {"C", "CPP"}
  /\ n.type # Top(language) \/ ConditionalThrows[n]
=============================================================================
