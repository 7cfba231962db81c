------------------------------ MODULE Compacter ------------------------------
(***************************************************************************)
(* ExpressionCompacter (src/tree_abstraction.{h,cpp}): the singleton that  *)
(* shortens the expressions of training and scanning by replacing words    *)
(* with numbers, and the threads that share it.                            *)
(*                                                                         *)
(* A thread compacts an expression and expands what it got, a character at *)
(* a time.  A stray thread expands a string that no Compact returned: the  *)
(* bytes a worker of TrieTraversal took from past the end of the paths.    *)
(* GetID and GetToken hold the mutex from end to end; what they do under   *)
(* it is several steps, in which the maps and the counter disagree.        *)
(***************************************************************************)
EXTENDS Naturals, Sequences, FiniteSets

CONSTANTS
  Threads,   \* the threads that use the compacter
  Strays,    \* those that only expand a stray string
  NoThread,  \* the owner of a free mutex
  Letters,   \* characters that are letters or '_'
  Digits,    \* the digit characters in order of their value
  Others,    \* the remaining characters
  Sources,   \* the expressions the threads may be given
  Bytes      \* the stray strings

Digit == {Digits[d] : d \in DOMAIN Digits}
Alnum == Letters \cup Digit
Text == Seq(Alnum \cup Others)
Base == Len(Digits)

ASSUME ThreadsAssumption == NoThread \notin Threads /\ Strays \subseteq Threads

ASSUME CharactersAssumption ==
  /\ Letters \cap Digit = {} /\ Alnum \cap Others = {}
  /\ Digits \in Seq(Digit) /\ Len(Digits) >= 2
  /\ \A d, e \in DOMAIN Digits : Digits[d] = Digits[e] => d = e

ASSUME SourcesAssumption == Sources \subseteq Text /\ Bytes \subseteq Text

VARIABLES
  mutex,         \* the thread in GetID or GetToken, or NoThread
  current_id,    \* the next number
  token_id_map,  \* the number of each token
  id_token_map,  \* the token of each number
  pc,            \* where each thread is
  source,        \* the expression each thread was given
  text,          \* the string it is reading
  i,             \* position of the next character to read
  word,          \* the token or number read so far
  result         \* the string built so far

dictVars == <<current_id, token_id_map, id_token_map>>
textVars == <<text, i, word, result>>
vars == <<mutex, dictVars, pc, source, textVars>>

(* IDToString and StringToID: decimal notation, in the base of Digits.     *)
IDToString[n \in Nat] ==
  IF n < Base THEN <<Digits[n + 1]>>
              ELSE Append(IDToString[n \div Base], Digits[(n % Base) + 1])

ValueOf(c) == CHOOSE d \in 0..Base - 1 : Digits[d + 1] = c
StringToID(s) ==
  LET value[k \in 0..Len(s)] ==
        IF k = 0 THEN 0 ELSE value[k - 1] * Base + ValueOf(s[k])
  IN  value[Len(s)]

-----------------------------------------------------------------------------
Init ==
  /\ mutex = NoThread
  /\ current_id = 0
  /\ token_id_map = << >>
  /\ id_token_map = << >>
  /\ pc = [t \in Threads |-> IF t \in Strays THEN "expand" ELSE "compact"]
  /\ source \in [Threads -> Sources \cup Bytes]
  /\ \A t \in Threads : source[t] \in IF t \in Strays THEN Bytes ELSE Sources
  /\ text = source
  /\ i = [t \in Threads |-> 1]
  /\ word = [t \in Threads |-> << >>]
  /\ result = [t \in Threads |-> << >>]

Goto(t, label) == pc' = [pc EXCEPT ![t] = label]

-----------------------------------------------------------------------------
(* Slips: mistakes in the definitions below, for testing the properties.   *)
(* None is part of the specification.                                      *)

MayLock_Unlocked(t) == TRUE
IsNewToken_Always(t) == TRUE
NextID_Kept == current_id
WordEnd_DropsSeparator(t) == << >>
WordChars_Graphic(t) == Alnum \cup Others
MissToken_Retries(t) ==
  /\ pc[t] = "findToken"
  /\ StringToID(word[t]) \notin DOMAIN id_token_map
  /\ mutex' = NoThread
  /\ Goto(t, "lockToken")
  /\ UNCHANGED <<dictVars, source, textVars>>

-----------------------------------------------------------------------------
(* The characters that make up a word in the function a thread is in.     *)
WordChars(t) == IF pc[t] = "compact" THEN Alnum ELSE Digit

MayLock(t) == mutex = NoThread
Unlock == NoThread
IsNewToken(t) == word[t] \notin DOMAIN token_id_map
NextID == current_id + 1
WordEnd(t) == IF i[t] <= Len(text[t]) THEN <<text[t][i[t]]>> ELSE << >>

(* One character of the loop: it extends the word, ends it, or is copied.  *)
ReadChar(t) ==
  /\ pc[t] \in {"compact", "expand"}
  /\ i[t] <= Len(text[t])
  /\ LET c == text[t][i[t]]
     IN  \/ /\ c \in WordChars(t)
            /\ word' = [word EXCEPT ![t] = Append(@, c)]
            /\ i' = [i EXCEPT ![t] = @ + 1]
            /\ UNCHANGED <<pc, result>>
         \/ /\ c \notin WordChars(t) /\ word[t] # << >>
            /\ Goto(t, IF pc[t] = "compact" THEN "lockID" ELSE "lockToken")
            /\ UNCHANGED <<word, i, result>>
         \/ /\ c \notin WordChars(t) /\ word[t] = << >>
            /\ result' = [result EXCEPT ![t] = Append(@, c)]
            /\ i' = [i EXCEPT ![t] = @ + 1]
            /\ UNCHANGED <<pc, word>>
  /\ UNCHANGED <<mutex, dictVars, source, text>>

(* The end of the string ends a word too.                                  *)
ReadLastWord(t) ==
  /\ pc[t] \in {"compact", "expand"}
  /\ i[t] > Len(text[t]) /\ word[t] # << >>
  /\ Goto(t, IF pc[t] = "compact" THEN "lockID" ELSE "lockToken")
  /\ UNCHANGED <<mutex, dictVars, source, textVars>>

Lock(t) ==
  /\ pc[t] \in {"lockID", "lockToken"}
  /\ MayLock(t)
  /\ mutex' = t
  /\ Goto(t, IF pc[t] = "lockID" THEN "findID" ELSE "findToken")
  /\ UNCHANGED <<dictVars, source, textVars>>

(* Back in the loop: the word is replaced, and the character that ended it *)
(* copied after it.                                                        *)
Replace(t, by) ==
  /\ result' = [result EXCEPT ![t] = @ \o by \o WordEnd(t)]
  /\ word' = [word EXCEPT ![t] = << >>]
  /\ i' = [i EXCEPT ![t] = @ + 1]
  /\ mutex' = Unlock
  /\ UNCHANGED <<source, text>>

FindID(t) ==
  /\ pc[t] = "findID" /\ ~IsNewToken(t)
  /\ Replace(t, IDToString[token_id_map[word[t]]])
  /\ Goto(t, "compact")
  /\ UNCHANGED dictVars

MissID(t) ==
  /\ pc[t] = "findID" /\ IsNewToken(t)
  /\ Goto(t, "addToken")
  /\ UNCHANGED <<mutex, dictVars, source, textVars>>

AddToken(t) ==
  /\ pc[t] = "addToken"
  /\ token_id_map' = [w \in DOMAIN token_id_map \cup {word[t]} |->
                        IF w = word[t] THEN current_id ELSE token_id_map[w]]
  /\ Goto(t, "addID")
  /\ UNCHANGED <<mutex, current_id, id_token_map, source, textVars>>

AddID(t) ==
  /\ pc[t] = "addID"
  /\ id_token_map' = [n \in DOMAIN id_token_map \cup {current_id} |->
                        IF n = current_id THEN word[t] ELSE id_token_map[n]]
  /\ Goto(t, "bump")
  /\ UNCHANGED <<mutex, current_id, token_id_map, source, textVars>>

(* The string is made of the number, then the counter moves on.            *)
Bump(t) ==
  /\ pc[t] = "bump"
  /\ current_id' = NextID
  /\ Replace(t, IDToString[current_id])
  /\ Goto(t, "compact")
  /\ UNCHANGED <<token_id_map, id_token_map>>

CompactReturns(t) ==
  /\ pc[t] = "compact"
  /\ i[t] > Len(text[t]) /\ word[t] = << >>
  /\ text' = [text EXCEPT ![t] = result[t]]
  /\ i' = [i EXCEPT ![t] = 1]
  /\ result' = [result EXCEPT ![t] = << >>]
  /\ Goto(t, "expand")
  /\ UNCHANGED <<mutex, dictVars, source, word>>

FindToken(t) ==
  /\ pc[t] = "findToken"
  /\ StringToID(word[t]) \in DOMAIN id_token_map
  /\ Replace(t, id_token_map[StringToID(word[t])])
  /\ Goto(t, "expand")
  /\ UNCHANGED dictVars

(* cf_assert: the number was never given out.  The lock is released as the *)
(* exception leaves GetToken.                                              *)
MissToken(t) ==
  /\ pc[t] = "findToken"
  /\ StringToID(word[t]) \notin DOMAIN id_token_map
  /\ mutex' = Unlock
  /\ Goto(t, "threw")
  /\ UNCHANGED <<dictVars, source, textVars>>

ExpandReturns(t) ==
  /\ pc[t] = "expand"
  /\ i[t] > Len(text[t]) /\ word[t] = << >>
  /\ Goto(t, "done")
  /\ UNCHANGED <<mutex, dictVars, source, textVars>>

-----------------------------------------------------------------------------
Step(t) ==
  \/ ReadChar(t) \/ ReadLastWord(t) \/ Lock(t)
  \/ FindID(t) \/ MissID(t) \/ AddToken(t) \/ AddID(t) \/ Bump(t)
  \/ CompactReturns(t) \/ FindToken(t) \/ MissToken(t) \/ ExpandReturns(t)

Over ==
  /\ \A t \in Threads : pc[t] \in {"done", "threw"}
  /\ UNCHANGED vars

Next == (\E t \in Threads : Step(t)) \/ Over

Spec == Init /\ [][Next]_vars

FairSpec == Spec /\ \A t \in Threads : WF_vars(Step(t))

-----------------------------------------------------------------------------
(* Every variable holds a value of its type.                               *)
TypeOK ==
  /\ mutex \in Threads \cup {NoThread}
  /\ current_id \in Nat
  /\ DOMAIN token_id_map \subseteq Seq(Alnum)
  /\ \A w \in DOMAIN token_id_map : token_id_map[w] \in Nat
  /\ DOMAIN id_token_map \subseteq Nat
  /\ \A n \in DOMAIN id_token_map : id_token_map[n] \in Seq(Alnum)
  /\ pc \in [Threads -> {"compact", "lockID", "findID", "addToken", "addID",
                         "bump", "expand", "lockToken", "findToken", "done",
                         "threw"}]
  /\ source \in [Threads -> Text]
  /\ text \in [Threads -> Text]
  /\ i \in [Threads -> Nat \ {0}]
  /\ word \in [Threads -> Seq(Alnum)]
  /\ result \in [Threads -> Text]

(* Whenever no thread is inside GetID or GetToken the two maps are         *)
(* inverses of each other and the numbers given out are those below the    *)
(* counter: no token has two numbers and no number two tokens.             *)
DictionaryIsBijective ==
  mutex = NoThread =>
    /\ DOMAIN id_token_map = 0..current_id - 1
    /\ \A w \in DOMAIN token_id_map :
         token_id_map[w] < current_id /\ id_token_map[token_id_map[w]] = w
    /\ \A n \in DOMAIN id_token_map :
         /\ id_token_map[n] \in DOMAIN token_id_map
         /\ token_id_map[id_token_map[n]] = n

(* A number given to a token is never taken back or given to another one:  *)
(* the strings in the trie stay valid while scanning teaches new tokens.   *)
NumbersAreForEver ==
  [][/\ \A w \in DOMAIN token_id_map :
          w \in DOMAIN token_id_map' /\ token_id_map'[w] = token_id_map[w]
     /\ \A n \in DOMAIN id_token_map :
          n \in DOMAIN id_token_map' /\ id_token_map'[n] = id_token_map[n]
    ]_vars

(* The threads that have compacted their expression.                       *)
Compacted == {t \in Threads \ Strays :
                pc[t] \in {"expand", "lockToken", "findToken", "done"}}

(* Compact strings stand for expressions: whichever threads computed them, *)
(* and however the dictionary grew in between, two are equal exactly when  *)
(* the expressions are.  Looking a compact string up in the trie is        *)
(* looking the expression up.                                              *)
CompactIsInjective ==
  \A t, u \in Compacted : text[t] = text[u] <=> source[t] = source[u]

(* Expand is the inverse of Compact, although other threads add tokens     *)
(* between the two and inside each; meanwhile compact strings tell         *)
(* expressions apart, and the assertion in GetToken fails only for a       *)
(* string that Compact did not return.                                     *)
RoundTrip ==
  /\ CompactIsInjective
  /\ \A t \in Threads \ Strays :
       /\ pc[t] # "threw"
       /\ pc[t] = "done" => result[t] = source[t]

(* Every Compact and Expand returns or throws: the mutex is never left     *)
(* locked, not by the exception either.                                    *)
AllReturn == <>(\A t \in Threads : pc[t] \in {"done", "threw"})

-----------------------------------------------------------------------------
(* What holds all along and makes the dictionary a bijection.              *)

Inside == {"findID", "addToken", "addID", "bump", "findToken"}

ExclusionInv == \A t \in Threads : pc[t] \in Inside <=> mutex = t

(* The token being added has the number of the counter until the counter   *)
(* moves on; the others have smaller numbers.                              *)
NumbersInv ==
  /\ \A w \in DOMAIN token_id_map :
       /\ token_id_map[w] \in 0..current_id
       /\ \/ /\ token_id_map[w] < current_id
             /\ id_token_map[token_id_map[w]] = w
          \/ \E t \in Threads : pc[t] \in {"addID", "bump"} /\ word[t] = w
  /\ \A n \in 0..current_id - 1 :
       /\ n \in DOMAIN id_token_map
       /\ id_token_map[n] \in DOMAIN token_id_map
       /\ token_id_map[id_token_map[n]] = n
  /\ \A n \in DOMAIN id_token_map :
       \/ n \in 0..current_id - 1
       \/ n = current_id /\ \E t \in Threads : pc[t] = "bump"

AddingInv ==
  \A t \in Threads :
    /\ pc[t] = "addToken" => word[t] \notin DOMAIN token_id_map
    /\ pc[t] \in {"addID", "bump"} =>
         word[t] \in DOMAIN token_id_map /\ token_id_map[word[t]] = current_id
    /\ pc[t] = "bump" =>
         /\ current_id \in DOMAIN id_token_map
         /\ id_token_map[current_id] = word[t]

(* The part of the type invariant the dictionary needs, and the rest.      *)
DictionaryInv ==
  /\ mutex \in Threads \cup {NoThread}
  /\ current_id \in Nat
  /\ pc \in [Threads -> {"compact", "lockID", "findID", "addToken", "addID",
                         "bump", "expand", "lockToken", "findToken", "done",
                         "threw"}]
  /\ word \in [Threads -> Seq(Alnum)]
  /\ DOMAIN token_id_map \subseteq Seq(Alnum)
  /\ ExclusionInv /\ NumbersInv /\ AddingInv

(* The rest of the type invariant; only words that are not empty are       *)
(* looked up.                                                              *)
TextInv ==
  /\ source \in [Threads -> Text]
  /\ text \in [Threads -> Text]
  /\ i \in [Threads -> Nat \ {0}]
  /\ result \in [Threads -> Text]
  /\ << >> \notin DOMAIN token_id_map
  /\ \A t \in Threads :
       pc[t] \notin {"compact", "expand", "done", "threw"} => word[t] # << >>

-----------------------------------------------------------------------------
(* The dictionary other threads can see: the map when the mutex is free,   *)
(* and without the token being added while it is held.                     *)
Known ==
  [w \in {v \in DOMAIN token_id_map : token_id_map[v] < current_id} |->
     token_id_map[w]]

Dictionary == INSTANCE TokenDictionary WITH Tokens <- Seq(Alnum), id <- Known

(* The compacter implements the dictionary that numbers tokens as they     *)
(* come.                                                                   *)
ImplementsDictionary == Dictionary!Spec
=============================================================================
