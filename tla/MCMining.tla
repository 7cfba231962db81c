------------------------------ MODULE MCMining ------------------------------
(***************************************************************************)
(* Repositories for Mining: two files each.  A file has a condition, or a  *)
(* condition and another one below it, or cannot be read.  The conditions  *)
(* have every shape that the abstraction tells apart, with comments        *)
(* wherever the grammars allow them.  Fields are those of conditions, and  *)
(* in PHP, where LEVEL_TWO shows them, those of operands.                  *)
(***************************************************************************)
EXTENDS Mining

CONSTANT unreadable

Node(type, op, children) ==
  [type |-> type, op |-> op, field |-> None, missing |-> FALSE,
   unexpected |-> None, children |-> children,
   inserted |-> [k \in 1..Len(children) + 1 |-> << >>]]
Leaf(type) == Node(type, None, << >>)
Inner(type, children) == Node(type, None, children)
In(field, n) == [n EXCEPT !.field = field]

X == Leaf("identifier")
One == Leaf("number_literal")
Comment == Leaf("comment")
Bad == Inner("ERROR", <<X>>)
Missing == [X EXCEPT !.missing = TRUE]
Unexpected == [Leaf("ERROR") EXCEPT !.unexpected = "#"]
Call == Inner("call_expression", <<X, Inner("argument_list", <<X>>)>>)
Field == Inner("field_expression", <<Call, Leaf("field_identifier")>>)
Parentheses(children) == Inner("parenthesized_expression", children)
Equal(children) == Node("binary_expression", "==", children)

(* What stands between the parentheses of a condition in C and C++.        *)
Insides ==
  { <<X>>, <<Comment, X>>, <<Comment>>, <<One>>, <<Call>>, <<Field>>,
    <<Bad>>, <<Parentheses(<<X>>)>>, <<Parentheses(<<Comment, X>>)>>,
    <<Equal(<<X, One>>)>>, <<Equal(<<X, Comment, One>>)>>, <<Equal(<<X>>)>>,
    <<Equal(<<X, Bad>>)>>, <<Equal(<<Call, One>>)>>, <<Equal(<<Field, One>>)>>,
    <<Inner("assignment_expression", <<X, One>>)>>,
    <<Node("unary_expression", "!", <<X>>)>>,
    <<Node("unary_expression", "!", <<X, Comment>>)>>,
    <<Inner("pointer_expression", <<X>>)>>,
    <<Inner("subscript_expression", <<X, One>>)>> }

Always(body) == Inner("always_construct", body)
Statement(children) == Inner("statement", children)

(* The last one had no ";".                                                *)
Statements ==
  { Statement(<<X>>), Statement(<<Comment>>), Statement(<<Missing>>),
    Statement(<<Bad>>), Statement(<<Unexpected>>),
    [Statement(<<X>>) EXCEPT !.inserted[2] = <<";">>] }

LeftAndRight(right) == <<In("left", X), In("right", right)>>

MCConditions ==
  [C |-> {Parentheses(i) : i \in Insides},
   CPP |-> {Inner("condition_clause", i) : i \in Insides},
   PHP |-> {Parentheses(i) :
              i \in {<<X>>, <<Comment, X>>, <<Bad>>, <<Equal(LeftAndRight(X))>>,
                     <<Inner("assignment_expression", LeftAndRight(X))>>,
                     <<Equal(LeftAndRight(Missing))>>}},
   VERILOG |-> {Always(i) : i \in {<<s>> : s \in Statements}
                                   \cup {<<Comment, Statement(<<X>>)>>}}]

(* A condition in its statement, above the given ones.                     *)
Around(l, condition, below) ==
  IF l = "VERILOG" THEN Inner("module_declaration", <<condition>> \o below)
  ELSE Inner("if_statement",
             <<Comment, In("condition", condition),
               Inner("compound_statement", below)>>)

File(statements) == Inner("translation_unit", statements)

(* Has a part that tree-sitter could not parse.                            *)
RECURSIVE IsBad(_)
IsBad(n) ==
  \/ n.type = "ERROR" \/ n.missing \/ Range(n.inserted) # {<< >>}
  \/ \E k \in DOMAIN n.children : IsBad(n.children[k])

(* The first file has two conditions, the second another or none.  The     *)
(* name of the second is a word, or splits into the name of the first and  *)
(* a word that names nothing.                                              *)
RepositoriesOf(l) ==
  LET simple == CHOOSE c \in MCConditions[l] : ~IsBad(c)
      firsts == {File(<<Around(l, p, <<Around(l, simple, << >>)>>)>>) :
                   p \in MCConditions[l]}
      seconds == {File(<<Around(l, q, << >>)>>) : q \in MCConditions[l]}
                   \cup {unreadable}
      named(f, g, w) == <<l, <<f, g>>, << <<1>>, w >> >>
  IN {named(f, g, <<2>>) : f \in firsts, g \in seconds}
       \cup {named(f, unreadable, <<1, 0>>) : f \in firsts}
       \cup {named(File(<<Around(l, simple, << >>)>>), g, <<1, 0>>) :
               g \in seconds}

MCRepositories == UNION {RepositoriesOf(l) : l \in Languages}

(* The nodes of all these trees, and how many levels are below each.       *)
RECURSIVE NodesOf(_)
NodesOf(n) ==
  {n} \cup UNION {NodesOf(n.children[k]) : k \in DOMAIN n.children}

RECURSIVE HeightOf(_)
HeightOf(n) ==
  FoldSet(LAMBDA k, h : Max({h, 1 + HeightOf(n.children[k])}), 0,
          DOMAIN n.children)

MCTreesOf ==
  [l \in Languages |->
     UNION {NodesOf(n) : n \in UNION {Range(r[2]) : r \in RepositoriesOf(l)}
                                \ {unreadable}}
       \cup UNION {NodesOf(n) : n \in MCConditions[l]}]
MCTokens == STRING
MCHeight == [n \in Trees |-> HeightOf(n)]
=============================================================================
