--------------------------- MODULE CompacterProofs ---------------------------
(***************************************************************************)
(* What holds of the compacter for any number of threads, any alphabet and *)
(* any expressions.  First its dictionary: the invariant says what the     *)
(* maps and the counter are at each step of the thread that holds the      *)
(* mutex, and the compacter implements TokenDictionary.  Then its texts:   *)
(* numerals are read as the numbers they were written for, replacing words *)
(* one to one can be undone, and so every expression comes back from the   *)
(* round trip.                                                             *)
(***************************************************************************)
EXTENDS Compacter, FiniteSetTheorems, SequenceTheorems, WellFoundedInduction,
        TLAPS

LEMMA ThreadFacts == NoThread \notin Threads
BY ThreadsAssumption

LEMMA DictionaryInit == Init => DictionaryInv
<1> SUFFICES ASSUME Init PROVE DictionaryInv
  OBVIOUS
<1>1. DOMAIN token_id_map = {} /\ DOMAIN id_token_map = {}
  BY DEF Init
<1>2. ExclusionInv /\ NumbersInv /\ AddingInv
  BY <1>1, ThreadFacts
     DEF Init, ExclusionInv, NumbersInv, AddingInv, Inside
<1> QED  BY <1>1, <1>2 DEF Init, DictionaryInv

(* A step outside the critical section changes nothing but its thread's    *)
(* position and the word it has read.                                      *)
LEMMA DictionaryOutside ==
  ASSUME DictionaryInv, NEW t \in Threads,
         UNCHANGED <<mutex, dictVars>>,
         pc[t] \notin Inside,
         NEW label \in {"compact", "lockID", "expand", "lockToken", "done",
                        "threw"},
         pc' = [pc EXCEPT ![t] = label],
         NEW read \in Seq(Alnum), word' = [word EXCEPT ![t] = read]
  PROVE  DictionaryInv'
<1> USE DEF DictionaryInv, dictVars
<1>1. ExclusionInv'
  BY DEF ExclusionInv, Inside
<1>2. \A u \in Threads : pc[u] \in Inside \/ pc'[u] \in Inside =>
        pc'[u] = pc[u] /\ word'[u] = word[u]
  BY DEF Inside
<1>3. NumbersInv'
  BY <1>2 DEF NumbersInv, Inside
<1>4. AddingInv'
  BY <1>2 DEF AddingInv, Inside
<1> QED  BY <1>1, <1>3, <1>4

LEMMA DictionaryLock ==
  ASSUME DictionaryInv, NEW t \in Threads, Lock(t)
  PROVE  DictionaryInv'
<1> USE DEF DictionaryInv, dictVars, textVars, Lock, Goto, MayLock
<1>1. ExclusionInv'
  BY ThreadFacts DEF ExclusionInv, Inside
<1>2. NumbersInv'
  BY DEF NumbersInv
<1>3. AddingInv'
  BY DEF AddingInv
<1> QED  BY <1>1, <1>2, <1>3

(* Leaving GetID for a known token, or GetToken.                           *)
LEMMA DictionaryLeave ==
  ASSUME DictionaryInv, NEW t \in Threads,
         pc[t] \in {"findID", "findToken"},
         UNCHANGED dictVars, mutex' = NoThread,
         NEW label \in {"compact", "expand", "threw"},
         pc' = [pc EXCEPT ![t] = label],
         NEW read \in Seq(Alnum), word' = [word EXCEPT ![t] = read]
  PROVE  DictionaryInv'
<1> USE DEF DictionaryInv, dictVars
<1>1. ExclusionInv'
  BY ThreadFacts DEF ExclusionInv, Inside
<1>2. NumbersInv'
  BY DEF NumbersInv
<1>3. AddingInv'
  BY DEF AddingInv
<1> QED  BY <1>1, <1>2, <1>3

LEMMA DictionaryMissID ==
  ASSUME DictionaryInv, NEW t \in Threads, MissID(t)
  PROVE  DictionaryInv'
<1> USE DEF DictionaryInv, dictVars, textVars, MissID, Goto, IsNewToken
<1>1. ExclusionInv'
  BY DEF ExclusionInv, Inside
<1>2. NumbersInv'
  BY DEF NumbersInv
<1>3. AddingInv'
  BY DEF AddingInv
<1> QED  BY <1>1, <1>2, <1>3

LEMMA DictionaryAddToken ==
  ASSUME DictionaryInv, NEW t \in Threads, AddToken(t)
  PROVE  DictionaryInv'
<1> USE DEF DictionaryInv, dictVars, textVars, AddToken, Goto
<1>1. word[t] \notin DOMAIN token_id_map /\ word[t] \in Seq(Alnum)
  BY DEF AddingInv
<1>2. \A u \in Threads \ {t} : pc[u] \notin Inside /\ pc'[u] = pc[u]
  BY DEF ExclusionInv, Inside
<1>3. ExclusionInv'
  BY DEF ExclusionInv, Inside
<1>4. /\ DOMAIN token_id_map' = DOMAIN token_id_map \cup {word[t]}
      /\ token_id_map'[word[t]] = current_id
      /\ \A w \in DOMAIN token_id_map : token_id_map'[w] = token_id_map[w]
      /\ pc'[t] = "addID"
  BY <1>1
<1>5. \A w \in DOMAIN token_id_map : token_id_map[w] < current_id
  BY <1>2 DEF NumbersInv, Inside
<1>6. NumbersInv'
  BY <1>1, <1>2, <1>4, <1>5 DEF NumbersInv, Inside
<1>7. AddingInv'
  BY <1>1, <1>2, <1>4 DEF AddingInv, Inside
<1> QED  BY <1>1, <1>3, <1>4, <1>6, <1>7

LEMMA DictionaryAddID ==
  ASSUME DictionaryInv, NEW t \in Threads, AddID(t)
  PROVE  DictionaryInv'
<1> USE DEF DictionaryInv, dictVars, textVars, AddID, Goto
<1>1. \A u \in Threads \ {t} : pc[u] \notin Inside /\ pc'[u] = pc[u]
  BY DEF ExclusionInv, Inside
<1>2. ExclusionInv'
  BY DEF ExclusionInv, Inside
<1>3. /\ DOMAIN id_token_map' = DOMAIN id_token_map \cup {current_id}
      /\ id_token_map'[current_id] = word[t]
      /\ \A n \in DOMAIN id_token_map :
           n # current_id => id_token_map'[n] = id_token_map[n]
      /\ pc'[t] = "bump"
  OBVIOUS
<1>4. NumbersInv'
  <2>1. \A n \in 0..current_id - 1 : n # current_id
    OBVIOUS
  <2>2. ASSUME NEW w \in DOMAIN token_id_map
        PROVE  /\ token_id_map[w] \in 0..current_id
               /\ \/ /\ token_id_map[w] < current_id
                     /\ id_token_map'[token_id_map[w]] = w
                  \/ \E u \in Threads : pc'[u] \in {"addID", "bump"} /\ word[u] = w
    <3>1. CASE token_id_map[w] < current_id /\ id_token_map[token_id_map[w]] = w
      <4>1. token_id_map[w] \in 0..current_id - 1
        BY <3>1 DEF NumbersInv
      <4>2. token_id_map[w] \in DOMAIN id_token_map
        BY <4>1 DEF NumbersInv
      <4> QED  BY <2>1, <3>1, <4>1, <4>2, <1>3 DEF NumbersInv
    <3>2. CASE \E u \in Threads : pc[u] \in {"addID", "bump"} /\ word[u] = w
      BY <1>1, <1>3, <3>2 DEF NumbersInv, Inside
    <3> QED  BY <3>1, <3>2 DEF NumbersInv
  <2>3. ASSUME NEW n \in 0..current_id - 1
        PROVE  /\ n \in DOMAIN id_token_map'
               /\ id_token_map'[n] \in DOMAIN token_id_map
               /\ token_id_map[id_token_map'[n]] = n
    BY <2>1, <1>3 DEF NumbersInv
  <2>4. ASSUME NEW n \in DOMAIN id_token_map'
        PROVE  \/ n \in 0..current_id - 1
               \/ n = current_id /\ \E u \in Threads : pc'[u] = "bump"
    <3>1. pc'[t] = "bump"
      BY <1>3
    <3>2. CASE n = current_id
      BY <3>1, <3>2
    <3>3. CASE n # current_id
      BY <1>3, <3>3 DEF NumbersInv
    <3> QED  BY <3>2, <3>3
  <2>5. /\ token_id_map' = token_id_map /\ current_id' = current_id
        /\ word' = word
    OBVIOUS
  <2> HIDE DEF DictionaryInv, dictVars, textVars, AddID, Goto
  <2> QED  BY <2>2, <2>3, <2>4, <2>5 DEF NumbersInv
<1>5. AddingInv'
  BY <1>1, <1>3 DEF AddingInv, Inside
<1> QED  BY <1>2, <1>4, <1>5

LEMMA DictionaryBump ==
  ASSUME DictionaryInv, NEW t \in Threads, Bump(t)
  PROVE  DictionaryInv'
<1> USE DEF DictionaryInv, dictVars, Bump, Goto, Replace, Unlock, NextID
<1>1. \A u \in Threads \ {t} :
        /\ pc[u] \notin Inside /\ pc'[u] = pc[u]
        /\ word'[u] = word[u]
  BY DEF ExclusionInv, Inside
<1>2. ExclusionInv'
  BY ThreadFacts DEF ExclusionInv, Inside
<1>3. /\ word[t] \in DOMAIN token_id_map
      /\ token_id_map[word[t]] = current_id
      /\ current_id \in DOMAIN id_token_map
      /\ id_token_map[current_id] = word[t]
  BY DEF AddingInv
<1>4. pc'[t] = "compact" /\ current_id' = current_id + 1
  OBVIOUS
<1>5. NumbersInv'
  <2>1. ASSUME NEW w \in DOMAIN token_id_map
        PROVE  /\ token_id_map[w] \in 0..current_id + 1
               /\ token_id_map[w] < current_id + 1
               /\ id_token_map[token_id_map[w]] = w
    <3>1. CASE token_id_map[w] < current_id /\ id_token_map[token_id_map[w]] = w
      BY <3>1 DEF NumbersInv
    <3>2. CASE \E u \in Threads : pc[u] \in {"addID", "bump"} /\ word[u] = w
      <4>1. w = word[t]
        BY <1>1, <3>2 DEF Inside
      <4> QED  BY <1>3, <4>1
    <3> QED  BY <3>1, <3>2 DEF NumbersInv
  <2>2. ASSUME NEW n \in 0..(current_id + 1) - 1
        PROVE  /\ n \in DOMAIN id_token_map
               /\ id_token_map[n] \in DOMAIN token_id_map
               /\ token_id_map[id_token_map[n]] = n
    <3>1. n \in 0..current_id - 1 \/ n = current_id
      OBVIOUS
    <3> QED  BY <3>1, <1>3 DEF NumbersInv
  <2>3. ASSUME NEW n \in DOMAIN id_token_map
        PROVE  n \in 0..(current_id + 1) - 1
    BY DEF NumbersInv
  <2> QED  BY <1>4, <2>1, <2>2, <2>3 DEF NumbersInv
<1>6. AddingInv'
  BY <1>1, <1>4 DEF AddingInv, Inside
<1>7. word' \in [Threads -> Seq(Alnum)]
  OBVIOUS
<1> QED  BY <1>2, <1>4, <1>5, <1>6, <1>7

LEMMA DictionaryReadChar ==
  ASSUME DictionaryInv, NEW t \in Threads, ReadChar(t)
  PROVE  DictionaryInv'
<1> DEFINE c == text[t][i[t]]
<1>1. /\ pc[t] \in {"compact", "expand"} /\ pc[t] \notin Inside
      /\ UNCHANGED <<mutex, dictVars>>
  BY DEF ReadChar, Inside
<1>2. WordChars(t) \subseteq Alnum
  BY DEF WordChars, Alnum
<1>3. pc \in [Threads -> {"compact", "lockID", "findID", "addToken", "addID",
                          "bump", "expand", "lockToken", "findToken", "done",
                          "threw"}]
      /\ word \in [Threads -> Seq(Alnum)]
  BY DEF DictionaryInv
<1>4. CASE c \in WordChars(t) /\ word' = [word EXCEPT ![t] = Append(@, c)]
           /\ pc' = pc
  <2>1. Append(word[t], c) \in Seq(Alnum)
    BY <1>2, <1>3, <1>4
  <2>2. /\ pc' = [pc EXCEPT ![t] = pc[t]]
        /\ word' = [word EXCEPT ![t] = Append(word[t], c)]
    BY <1>3, <1>4
  <2> HIDE DEF c
  <2> QED  BY <1>1, <2>1, <2>2, DictionaryOutside
<1>5. CASE /\ word' = word
           /\ \/ pc' = pc
              \/ Goto(t, IF pc[t] = "compact" THEN "lockID" ELSE "lockToken")
  <2>1. word' = [word EXCEPT ![t] = word[t]] /\ word[t] \in Seq(Alnum)
    BY <1>3, <1>5
  <2>2. PICK label \in {"compact", "lockID", "expand", "lockToken"} :
          pc' = [pc EXCEPT ![t] = label]
    BY <1>1, <1>3, <1>5 DEF Goto
  <2> QED  BY <1>1, <2>1, <2>2, DictionaryOutside
<1> QED  BY <1>4, <1>5 DEF ReadChar

LEMMA DictionaryNext == DictionaryInv /\ [Next]_vars => DictionaryInv'
<1> SUFFICES ASSUME DictionaryInv, [Next]_vars PROVE DictionaryInv'
  OBVIOUS
<1> DEFINE Labels == {"compact", "lockID", "findID", "addToken", "addID",
                      "bump", "expand", "lockToken", "findToken", "done",
                      "threw"}
<1>1. pc \in [Threads -> Labels] /\ word \in [Threads -> Seq(Alnum)]
  BY DEF DictionaryInv
<1>2. \A t \in Threads : word = [word EXCEPT ![t] = word[t]]
  BY <1>1
<1>3. << >> \in Seq(Alnum)
  OBVIOUS
<1>4. ASSUME NEW t \in Threads, ReadLastWord(t) PROVE DictionaryInv'
  <2>1. PICK label \in {"lockID", "lockToken"} :
          pc' = [pc EXCEPT ![t] = label]
    BY <1>4 DEF ReadLastWord, Goto
  <2>2. /\ pc[t] \notin Inside /\ UNCHANGED <<mutex, dictVars>>
        /\ word' = [word EXCEPT ![t] = word[t]] /\ word[t] \in Seq(Alnum)
    BY <1>1, <1>2, <1>4 DEF ReadLastWord, textVars, Inside
  <2> QED  BY <2>1, <2>2, DictionaryOutside
<1>5. ASSUME NEW t \in Threads, CompactReturns(t) \/ ExpandReturns(t)
      PROVE  DictionaryInv'
  <2>1. PICK label \in {"expand", "done"} : pc' = [pc EXCEPT ![t] = label]
    BY <1>5 DEF CompactReturns, ExpandReturns, Goto
  <2>2. /\ pc[t] \notin Inside /\ UNCHANGED <<mutex, dictVars>>
        /\ word' = [word EXCEPT ![t] = word[t]] /\ word[t] \in Seq(Alnum)
    BY <1>1, <1>2, <1>5 DEF CompactReturns, ExpandReturns, textVars, Inside
  <2> QED  BY <2>1, <2>2, DictionaryOutside
<1>6. ASSUME NEW t \in Threads, FindID(t) \/ FindToken(t) PROVE DictionaryInv'
  <2>1. PICK label \in {"compact", "expand"} : pc' = [pc EXCEPT ![t] = label]
    BY <1>6 DEF FindID, FindToken, Goto
  <2>2. /\ pc[t] \in {"findID", "findToken"} /\ UNCHANGED dictVars
        /\ mutex' = NoThread /\ word' = [word EXCEPT ![t] = << >>]
    BY <1>6 DEF FindID, FindToken, Replace, Unlock
  <2> QED  BY <1>3, <2>1, <2>2, DictionaryLeave
<1>7. ASSUME NEW t \in Threads, MissToken(t) PROVE DictionaryInv'
  <2>1. pc' = [pc EXCEPT ![t] = "threw"]
    BY <1>7 DEF MissToken, Goto
  <2>2. /\ pc[t] \in {"findID", "findToken"} /\ UNCHANGED dictVars
        /\ mutex' = NoThread
        /\ word' = [word EXCEPT ![t] = word[t]] /\ word[t] \in Seq(Alnum)
    BY <1>1, <1>2, <1>7 DEF MissToken, Unlock, textVars
  <2> QED  BY <2>1, <2>2, DictionaryLeave
<1>8. CASE UNCHANGED vars
  BY <1>8
     DEF vars, dictVars, textVars, DictionaryInv, ExclusionInv, NumbersInv,
         AddingInv
<1> QED
  BY <1>4, <1>5, <1>6, <1>7, <1>8, DictionaryReadChar, DictionaryLock,
     DictionaryMissID, DictionaryAddToken, DictionaryAddID, DictionaryBump
     DEF Next, Step, Over

(* One thread at a time is inside GetID and GetToken, and the two maps     *)
(* agree with the counter up to the token that thread is adding.           *)
THEOREM DictionaryInvCorrect == Spec => []DictionaryInv
BY DictionaryInit, DictionaryNext, PTL DEF Spec

(* For any threads and expressions: while the mutex is free the two maps   *)
(* are inverse to each other and hold the numbers below the counter.       *)
THEOREM BijectionCorrect == Spec => []DictionaryIsBijective
<1>1. DictionaryInv => DictionaryIsBijective
  <2> SUFFICES ASSUME DictionaryInv, mutex = NoThread
               PROVE  /\ DOMAIN id_token_map = 0..current_id - 1
                      /\ \A w \in DOMAIN token_id_map :
                           /\ token_id_map[w] < current_id
                           /\ id_token_map[token_id_map[w]] = w
                      /\ \A n \in DOMAIN id_token_map :
                           /\ id_token_map[n] \in DOMAIN token_id_map
                           /\ token_id_map[id_token_map[n]] = n
    BY DEF DictionaryIsBijective
  <2>1. \A t \in Threads : pc[t] \notin {"addID", "bump"}
    BY ThreadFacts DEF DictionaryInv, ExclusionInv, Inside
  <2>2. DOMAIN id_token_map = 0..current_id - 1
    BY <2>1 DEF DictionaryInv, NumbersInv
  <2> QED  BY <2>1, <2>2 DEF DictionaryInv, NumbersInv
<1> QED  BY <1>1, DictionaryInvCorrect, PTL

(* For any threads and expressions: a number given to a token stays the    *)
(* token's, and a token keeps its number.                                  *)
THEOREM NumbersCorrect == Spec => NumbersAreForEver
<1> DEFINE Kept ==
      /\ \A w \in DOMAIN token_id_map :
           w \in DOMAIN token_id_map' /\ token_id_map'[w] = token_id_map[w]
      /\ \A n \in DOMAIN id_token_map :
           n \in DOMAIN id_token_map' /\ id_token_map'[n] = id_token_map[n]
<1>1. DictionaryInv /\ [Next]_vars => [Kept]_vars
  <2> SUFFICES ASSUME DictionaryInv, [Next]_vars PROVE Kept
    OBVIOUS
  <2>1. CASE UNCHANGED dictVars
    BY <2>1 DEF dictVars
  <2>2. ASSUME NEW t \in Threads, AddToken(t) PROVE Kept
    <3>1. word[t] \notin DOMAIN token_id_map
      BY <2>2 DEF DictionaryInv, AddingInv, AddToken
    <3> QED  BY <2>2, <3>1 DEF AddToken
  <2>3. ASSUME NEW t \in Threads, AddID(t) PROVE Kept
    <3>1. \A u \in Threads : pc[u] # "bump"
      BY <2>3 DEF DictionaryInv, ExclusionInv, Inside, AddID
    <3>2. current_id \notin DOMAIN id_token_map
      <4>1. current_id \in Nat /\ current_id \notin 0..current_id - 1
        BY DEF DictionaryInv
      <4>2. \A n \in DOMAIN id_token_map : n \in 0..current_id - 1
        BY <3>1 DEF DictionaryInv, NumbersInv
      <4> QED  BY <4>1, <4>2
    <3> QED  BY <2>3, <3>2 DEF AddID
  <2>4. ASSUME NEW t \in Threads, Bump(t) PROVE Kept
    BY <2>4 DEF Bump
  <2> QED
    BY <2>1, <2>2, <2>3, <2>4
       DEF Next, Step, Over, vars, ReadChar, ReadLastWord, Lock, FindID,
           MissID, CompactReturns, FindToken, MissToken, ExpandReturns
<1> QED  BY <1>1, DictionaryInvCorrect, PTL DEF Spec, NumbersAreForEver

-----------------------------------------------------------------------------
(* The compacter as a dictionary that numbers tokens as they come.         *)

(* TokenDictionary counts with the Cardinality of its own instance.        *)
LEMMA SameCardinality ==
  ASSUME NEW S
  PROVE  Dictionary!Cardinality(S) = Cardinality(S)
BY Zenon DEF Cardinality, Dictionary!Cardinality

(* As many tokens are known as the counter says.                           *)
LEMMA CounterCounts ==
  ASSUME DictionaryInv
  PROVE  Cardinality(DOMAIN Known) = current_id
<1> DEFINE S == 0..current_id - 1
           T == DOMAIN Known
           f == [n \in S |-> id_token_map[n]]
<1>1. current_id \in Nat
  BY DEF DictionaryInv
<1>2. T = {w \in DOMAIN token_id_map : token_id_map[w] < current_id}
  BY DEF Known
<1>3. \A n \in S : /\ id_token_map[n] \in DOMAIN token_id_map
                   /\ token_id_map[id_token_map[n]] = n
  BY DEF DictionaryInv, NumbersInv
<1>4. \A n \in S : id_token_map[n] \in T
  BY <1>1, <1>2, <1>3
<1>5. ASSUME NEW w \in T
      PROVE  token_id_map[w] \in S /\ id_token_map[token_id_map[w]] = w
  <2>1. w \in DOMAIN token_id_map /\ token_id_map[w] < current_id
    BY <1>2
  <2>2. token_id_map[w] \in 0..current_id
    BY <2>1 DEF DictionaryInv, NumbersInv
  <2>3. token_id_map[w] \in S
    BY <1>1, <2>1, <2>2
  <2>4. CASE id_token_map[token_id_map[w]] = w
    BY <2>3, <2>4
  <2>5. CASE \E t \in Threads : pc[t] \in {"addID", "bump"} /\ word[t] = w
    <3>1. token_id_map[w] = current_id
      BY <2>5 DEF DictionaryInv, AddingInv
    <3> QED  BY <1>1, <2>1, <3>1
  <2> QED  BY <2>1, <2>3, <2>4, <2>5 DEF DictionaryInv, NumbersInv
<1> HIDE DEF S, T
<1>6. f \in Bijection(S, T)
  <2>1. \A m, n \in S : id_token_map[m] = id_token_map[n] => m = n
    BY <1>3
  <2>2. f \in Injection(S, T)
    BY <1>4, <2>1 DEF Injection, IsInjective
  <2>3. f \in Surjection(S, T)
    BY <1>4, <1>5 DEF Surjection
  <2> QED  BY <2>2, <2>3 DEF Bijection
<1>7. IsFiniteSet(S) /\ Cardinality(S) = current_id
  BY <1>1, FS_Interval DEF S
<1>8. Cardinality(T) = Cardinality(S)
  <2> HIDE DEF f
  <2>1. ExistsBijection(S, T)
    BY <1>6, Zenon DEF ExistsBijection
  <2> QED  BY <1>7, <2>1, FS_Bijection, Zenon
<1> QED
  BY <1>7, <1>8 DEF T

LEMMA KnownInit == Init => Dictionary!Init
<1> SUFFICES ASSUME Init PROVE Known = [t \in {} |-> 0]
  BY DEF Dictionary!Init
<1>1. DOMAIN token_id_map = {}
  BY DEF Init
<1> QED
  BY <1>1 DEF Known

(* The token a thread adds is not known before the counter moves on, and   *)
(* the step that moves it learns the token.                                *)
LEMMA KnownNext ==
  ASSUME DictionaryInv, [Next]_vars
  PROVE  [Dictionary!Next]_Known
<1>1. current_id \in Nat /\ \A w \in DOMAIN token_id_map : token_id_map[w] \in Nat
  BY DEF DictionaryInv, NumbersInv
<1>2. CASE UNCHANGED <<current_id, token_id_map>>
  BY <1>2, Zenon DEF Known
<1>3. ASSUME NEW t \in Threads, AddToken(t) PROVE Known' = Known
  <2>1. /\ word[t] \notin DOMAIN token_id_map
        /\ current_id' = current_id
        /\ DOMAIN token_id_map' = DOMAIN token_id_map \cup {word[t]}
        /\ token_id_map'[word[t]] = current_id
        /\ \A w \in DOMAIN token_id_map : token_id_map'[w] = token_id_map[w]
    BY <1>3 DEF DictionaryInv, AddingInv, AddToken
  <2>2. {v \in DOMAIN token_id_map' : token_id_map'[v] < current_id'}
          = {v \in DOMAIN token_id_map : token_id_map[v] < current_id}
    BY <1>1, <2>1
  <2> QED
    BY <2>1, <2>2 DEF Known
<1>4. ASSUME NEW t \in Threads, Bump(t) PROVE Dictionary!Next
  <2> DEFINE w == word[t]
  <2>1. /\ pc[t] = "bump" /\ token_id_map' = token_id_map
        /\ current_id' = current_id + 1
    BY <1>4 DEF Bump, NextID
  <2>2. /\ w \in DOMAIN token_id_map /\ token_id_map[w] = current_id
        /\ w \in Seq(Alnum)
    BY <2>1 DEF DictionaryInv, AddingInv
  <2>3. /\ DOMAIN Known =
             {v \in DOMAIN token_id_map : token_id_map[v] < current_id}
        /\ \A v \in DOMAIN Known : Known[v] = token_id_map[v]
    BY DEF Known
  <2>4. ASSUME NEW v \in DOMAIN token_id_map, token_id_map[v] = current_id
        PROVE  v = w
    <3>0. \/ token_id_map[v] < current_id
          \/ \E u \in Threads : pc[u] \in {"addID", "bump"} /\ word[u] = v
      BY Zenon DEF DictionaryInv, NumbersInv
    <3>1. PICK u \in Threads : pc[u] \in {"addID", "bump"} /\ word[u] = v
      <4>1. ~(token_id_map[v] < current_id)
        BY <1>1, <2>4
      <4> QED  BY <3>0, <4>1, Zenon
    <3>2. u = t
      BY <2>1, <3>1 DEF DictionaryInv, ExclusionInv, Inside
    <3> QED  BY <3>1, <3>2
  <2>5. {v \in DOMAIN token_id_map : token_id_map[v] < current_id + 1}
          = DOMAIN Known \cup {w}
    BY <1>1, <2>2, <2>3, <2>4
  <2>6. Known' = [v \in DOMAIN Known \cup {w} |->
                    IF v = w THEN Dictionary!Cardinality(DOMAIN Known)
                             ELSE Known[v]]
    <3>1. Dictionary!Cardinality(DOMAIN Known) = current_id
      BY SameCardinality, CounterCounts, Zenon
    <3>2. Known' = [v \in DOMAIN Known \cup {w} |-> token_id_map[v]]
      BY <2>1, <2>5, Zenon DEF Known
    <3>3. \A v \in DOMAIN Known \cup {w} :
            token_id_map[v] = IF v = w THEN current_id ELSE Known[v]
      BY <2>2, <2>3
    <3> DEFINE K == DOMAIN Known \cup {w}
    <3>4. [v \in K |-> token_id_map[v]]
            = [v \in K |-> IF v = w THEN current_id ELSE Known[v]]
      <4> HIDE DEF K, w
      <4>1. \A v \in K :
              token_id_map[v] = IF v = w THEN current_id ELSE Known[v]
        BY <3>3 DEF K
      <4> QED  BY <4>1
    <3> QED  BY <3>1, <3>2, <3>4, Zenon
  <2>7. w \in Seq(Alnum) \ DOMAIN Known
    BY <1>1, <2>2, <2>3
  <2>8. w \in DOMAIN Known'
    BY <2>6, Zenon
  <2>9. Dictionary!Learn(w)
    BY <2>6, <2>7, Zenon DEF Dictionary!Learn
  <2> HIDE DEF w
  <2> QED
    BY <2>8, <2>9, Zenon DEF Dictionary!Next
<1> QED
  BY <1>2, <1>3, <1>4
     DEF Next, Step, Over, vars, dictVars, ReadChar, ReadLastWord, Lock,
         FindID, MissID, AddID, CompactReturns, FindToken, MissToken,
         ExpandReturns

(* For any threads and expressions: seen from outside the mutex, the       *)
(* compacter is the dictionary that gives each new token the next number.  *)
THEOREM RefinementCorrect == Spec => ImplementsDictionary
<1>1. DictionaryInv /\ [Next]_vars => [Dictionary!Next]_Known
  BY KnownNext
<1> QED
  BY <1>1, KnownInit, DictionaryInvCorrect, PTL
     DEF Spec, ImplementsDictionary, Dictionary!Spec

-----------------------------------------------------------------------------
(* Numerals.  A recursive function has the value its definition says when  *)
(* some function satisfies the definition; there is one because functions  *)
(* on ever longer initial segments of the numbers do.                      *)

(* A set of numbers has a least one.                                       *)
LEMMA SmallestNumber ==
  ASSUME NEW N, N \subseteq Nat, N # {}
  PROVE  \E n \in N : \A m \in N : n <= m
<1> DEFINE R == OpToRel(<, Nat)
<1>1. IsWellFoundedOn(R, Nat)
  BY NatLessThanWellFounded
<1> HIDE DEF R
<1>2. PICK n \in N : \A m \in N : ~(<<m, n>> \in R)
  BY <1>1, WFMin
<1>3. ASSUME NEW m \in N PROVE n <= m
  <2>1. n \in Nat /\ m \in Nat
    OBVIOUS
  <2>2. m < n => <<m, n>> \in R
    BY <2>1 DEF R, OpToRel
  <2> QED  BY <1>2, <2>1, <2>2
<1> QED  BY <1>3

LEMMA DigitFacts ==
  /\ Base \in Nat /\ Base >= 2
  /\ \A d \in 0..Base - 1 : Digits[d + 1] \in Digit /\ ValueOf(Digits[d + 1]) = d
  /\ \A c \in Digit : ValueOf(c) \in 0..Base - 1
<1>1. /\ Base \in Nat /\ Base >= 2 /\ DOMAIN Digits = 1..Base
      /\ \A d \in 1..Base : Digits[d] \in Digit
      /\ \A d, e \in 1..Base : Digits[d] = Digits[e] => d = e
  BY CharactersAssumption DEF Base
<1> DEFINE V(c, d) == d \in 0..Base - 1 /\ Digits[d + 1] = c
<1>2. \A c : ValueOf(c) = CHOOSE d : V(c, d)
  BY Zenon DEF ValueOf
<1>3. ASSUME NEW d \in 0..Base - 1
      PROVE  Digits[d + 1] \in Digit /\ ValueOf(Digits[d + 1]) = d
  <2>1. d + 1 \in 1..Base
    BY <1>1
  <2>2. \A e : V(Digits[d + 1], e) => e = d
    <3> SUFFICES ASSUME NEW e \in 0..Base - 1, Digits[e + 1] = Digits[d + 1]
                 PROVE  e = d
      OBVIOUS
    <3>1. e + 1 \in 1..Base
      BY <1>1
    <3>2. e + 1 = d + 1
      BY <1>1, <2>1, <3>1
    <3> QED  BY <1>1, <3>2
  <2>3. V(Digits[d + 1], d)
    OBVIOUS
  <2> HIDE DEF V
  <2>4. V(Digits[d + 1], CHOOSE e : V(Digits[d + 1], e))
    BY <2>3, Zenon
  <2> QED  BY <1>1, <1>2, <2>1, <2>2, <2>4
<1>4. ASSUME NEW c \in Digit PROVE ValueOf(c) \in 0..Base - 1
  <2>1. PICK k \in 1..Base : Digits[k] = c
    BY <1>1 DEF Digit
  <2>2. k - 1 \in 0..Base - 1 /\ (k - 1) + 1 = k
    BY <1>1
  <2> QED  BY <1>3, <2>1, <2>2
<1> QED  BY <1>1, <1>3, <1>4

(* Division by the base.                                                   *)
LEMMA Division ==
  ASSUME NEW n \in Nat, n >= Base
  PROVE  /\ n \div Base \in 0..n - 1
         /\ n % Base \in 0..Base - 1
         /\ (n \div Base) * Base + (n % Base) = n
<1> DEFINE b == Base
<1>1. b \in Nat /\ b >= 2
  BY DigitFacts
<1> HIDE DEF b
<1>2. /\ n \div b \in Int /\ n % b \in 0..b - 1
      /\ n = b * (n \div b) + (n % b)
  BY <1>1
<1> DEFINE q == n \div b
           r == n % b
<1>3. q \in Int /\ r \in 0..b - 1 /\ n = b * q + r /\ n >= b
  BY <1>2 DEF b
<1> HIDE DEF q, r
<1>4. q >= 0
  <2>1. SUFFICES ASSUME q <= -1 PROVE FALSE
    BY <1>3
  <2>2. b * q <= b * (-1)
    BY <1>1, <1>3, <2>1
  <2> QED  BY <1>1, <1>3, <2>2
<1>5. q < n
  <2>1. SUFFICES ASSUME q >= n PROVE FALSE
    BY <1>3
  <2>2. b * q >= 2 * q
    BY <1>1, <1>3, <1>4
  <2> QED  BY <1>1, <1>3, <2>1, <2>2
<1>6. q * b + r = n
  BY <1>1, <1>3
<1> QED  BY <1>3, <1>4, <1>5, <1>6 DEF q, r, b

(* The definition of IDToString, of any function up to a number.           *)
IsNumeral(f, n) ==
  f[n] = IF n < Base THEN <<Digits[n + 1]>>
                     ELSE Append(f[n \div Base], Digits[(n % Base) + 1])

NumeralsTo(f, n) == DOMAIN f = 0..n /\ \A m \in 0..n : IsNumeral(f, m)

LEMMA NumeralsAgree ==
  ASSUME NEW f, NEW k \in Nat, NumeralsTo(f, k),
         NEW g, NEW l \in Nat, NumeralsTo(g, l),
         NEW n \in 0..k, n <= l
  PROVE  f[n] = g[n]
<1> DEFINE N == {m \in 0..k : m <= l /\ f[m] # g[m]}
<1>1. SUFFICES ASSUME N # {} PROVE FALSE
  OBVIOUS
<1>2. PICK m \in N : \A j \in N : m <= j
  <2>1. N \subseteq Nat
    OBVIOUS
  <2> HIDE DEF N
  <2> QED  BY <1>1, <2>1, SmallestNumber
<1>3. m \in 0..k /\ m \in 0..l /\ f[m] # g[m] /\ m \in Nat
  OBVIOUS
<1>4. IsNumeral(f, m) /\ IsNumeral(g, m)
  BY <1>3 DEF NumeralsTo
<1>5. CASE m < Base
  BY <1>3, <1>4, <1>5 DEF IsNumeral
<1>6. CASE ~(m < Base)
  <2> DEFINE q == m \div Base
  <2>1. q \in 0..m - 1
    BY <1>3, <1>6, Division, DigitFacts
  <2> HIDE DEF q
  <2>2. q \in 0..k /\ q <= l /\ ~(m <= q)
    BY <1>3, <2>1
  <2>3. f[q] = g[q]
    BY <1>2, <2>2
  <2> QED  BY <1>3, <1>4, <1>6, <2>3 DEF IsNumeral, q
<1> QED  BY <1>5, <1>6

LEMMA NumeralsExist ==
  ASSUME NEW n \in Nat
  PROVE  \E f : NumeralsTo(f, n)
<1> DEFINE N == {m \in Nat : ~\E f : NumeralsTo(f, m)}
<1>1. SUFFICES ASSUME N # {} PROVE FALSE
  OBVIOUS
<1>2. PICK m \in N : \A j \in N : m <= j
  <2>1. N \subseteq Nat
    OBVIOUS
  <2> HIDE DEF N
  <2> QED  BY <1>1, <2>1, SmallestNumber
<1>3. m \in Nat /\ ~\E f : NumeralsTo(f, m)
  OBVIOUS
<1>4. PICK g : \A j \in 0..m - 1 : IsNumeral(g, j)
  <2>1. CASE m = 0
    <3>1. 0..m - 1 = {}
      BY <2>1
    <3> QED  BY <3>1
  <2>2. CASE m # 0
    <3>1. m - 1 \in Nat /\ ~(m <= m - 1)
      BY <1>3, <2>2
    <3>2. PICK g : NumeralsTo(g, m - 1)
      BY <1>2, <3>1
    <3> QED  BY <3>2 DEF NumeralsTo
  <2> QED  BY <2>1, <2>2
<1> DEFINE f == [j \in 0..m |->
                   IF j = m
                     THEN IF m < Base THEN <<Digits[m + 1]>>
                          ELSE Append(g[m \div Base], Digits[(m % Base) + 1])
                     ELSE g[j]]
<1>5. /\ DOMAIN f = 0..m
      /\ \A j \in 0..m - 1 : f[j] = g[j]
      /\ f[m] = IF m < Base THEN <<Digits[m + 1]>>
                ELSE Append(g[m \div Base], Digits[(m % Base) + 1])
  BY <1>3
<1> HIDE DEF f
<1>6. ASSUME NEW j \in 0..m, ~(j < Base)
      PROVE  f[j \div Base] = g[j \div Base]
  <2> DEFINE q == j \div Base
  <2>1. q \in 0..j - 1
    <3>1. j \in Nat /\ j >= Base
      BY <1>3, <1>6, DigitFacts
    <3> QED  BY <3>1, Division
  <2> HIDE DEF q
  <2>2. q \in 0..m - 1
    BY <1>3, <2>1
  <2> QED  BY <1>5, <2>2 DEF q
<1>7. ASSUME NEW j \in 0..m PROVE IsNumeral(f, j)
  <2>1. CASE j = m
    BY <1>5, <1>6, <2>1 DEF IsNumeral
  <2>2. CASE j # m
    <3>1. j \in 0..m - 1
      BY <1>3, <2>2
    <3> QED  BY <1>4, <1>5, <1>6, <3>1 DEF IsNumeral
  <2> QED  BY <2>1, <2>2
<1> QED  BY <1>3, <1>5, <1>7 DEF NumeralsTo

(* The recursive function is what its definition says.                     *)
LEMMA IDToStringIs ==
  ASSUME NEW n \in Nat
  PROVE  IsNumeral(IDToString, n)
<1> DEFINE body(f) ==
      [m \in Nat |->
         IF m < Base THEN <<Digits[m + 1]>>
                     ELSE Append(f[m \div Base], Digits[(m % Base) + 1])]
           F == [m \in Nat |-> (CHOOSE f : NumeralsTo(f, m))[m]]
<1>1. \A m \in Nat : NumeralsTo(CHOOSE f : NumeralsTo(f, m), m)
  BY NumeralsExist, Zenon
<1>2. ASSUME NEW m \in Nat PROVE F[m] = body(F)[m]
  <2> DEFINE f == CHOOSE f : NumeralsTo(f, m)
  <2>1. NumeralsTo(f, m) /\ F[m] = f[m]
    BY <1>1
  <2> HIDE DEF f, F
  <2>2. IsNumeral(f, m)
    BY <2>1 DEF NumeralsTo
  <2>3. CASE m < Base
    BY <2>1, <2>2, <2>3 DEF IsNumeral
  <2>4. CASE ~(m < Base)
    <3> DEFINE q == m \div Base
    <3>1. q \in 0..m - 1
      <4>1. m >= Base
        BY <2>4, DigitFacts
      <4> QED  BY <4>1, Division
    <3>2. q \in Nat /\ q \in 0..m /\ q <= q
      <4> HIDE DEF q
      <4> QED  BY <3>1
    <3> DEFINE g == CHOOSE g : NumeralsTo(g, q)
    <3> HIDE DEF q
    <3>3. NumeralsTo(g, q) /\ F[q] = g[q]
      BY <1>1, <3>2 DEF F
    <3> HIDE DEF g
    <3>4. f[q] = F[q]
      BY <2>1, <3>2, <3>3, NumeralsAgree
    <3> QED  BY <2>1, <2>2, <2>4, <3>4 DEF IsNumeral, q
  <2> QED  BY <2>3, <2>4
<1>3. F = body(F)
  <2>1. DOMAIN F = Nat /\ F = [m \in Nat |-> F[m]]
    OBVIOUS
  <2>2. \A m \in Nat : F[m] = body(F)[m]
    BY <1>2
  <2> HIDE DEF F
  <2> QED  BY <2>1, <2>2
<1>4. IDToString = CHOOSE f : f = body(f)
  BY DEF IDToString
<1> HIDE DEF F
<1>5. IDToString = body(IDToString)
  <2> DEFINE P(f) == f = body(f)
  <2>1. P(F) /\ IDToString = CHOOSE f : P(f)
    BY <1>3, <1>4
  <2> HIDE DEF P
  <2>2. P(IDToString)
    BY <2>1, Zenon
  <2> QED  BY <2>2 DEF P
<1>6. body(IDToString)[n] =
        IF n < Base THEN <<Digits[n + 1]>>
                    ELSE Append(IDToString[n \div Base], Digits[(n % Base) + 1])
  OBVIOUS
<1> QED  BY <1>5, <1>6 DEF IsNumeral

(* The definition of StringToID, of any function up to a position.         *)
ValuesTo(s, f, n) ==
  /\ DOMAIN f = 0..n
  /\ \A k \in 0..n :
       f[k] = IF k = 0 THEN 0 ELSE f[k - 1] * Base + ValueOf(s[k])

LEMMA ValuesAgree ==
  ASSUME NEW s, NEW t, NEW f, NEW g, NEW k \in Nat, NEW l \in Nat,
         ValuesTo(s, f, k), ValuesTo(t, g, l),
         NEW n \in 0..k, n <= l, \A j \in 1..n : s[j] = t[j]
  PROVE  f[n] = g[n]
<1> DEFINE N == {m \in 0..n : f[m] # g[m]}
<1>1. SUFFICES ASSUME N # {} PROVE FALSE
  OBVIOUS
<1>2. PICK m \in N : \A j \in N : m <= j
  <2>1. N \subseteq Nat
    OBVIOUS
  <2> HIDE DEF N
  <2> QED  BY <1>1, <2>1, SmallestNumber
<1>3. m \in 0..n /\ f[m] # g[m]
  OBVIOUS
<1>4. m \in 0..k /\ m \in 0..l
  BY <1>3
<1>5. /\ f[m] = IF m = 0 THEN 0 ELSE f[m - 1] * Base + ValueOf(s[m])
      /\ g[m] = IF m = 0 THEN 0 ELSE g[m - 1] * Base + ValueOf(t[m])
  BY <1>4 DEF ValuesTo
<1>6. m # 0
  BY <1>3, <1>5
<1>7. m - 1 \in 0..n /\ ~(m <= m - 1) /\ m \in 1..n
  BY <1>3, <1>6
<1>8. f[m - 1] = g[m - 1]
  BY <1>2, <1>7
<1>9. s[m] = t[m]
  BY <1>7
<1> QED  BY <1>3, <1>5, <1>6, <1>8, <1>9, Zenon

LEMMA ValuesExist ==
  ASSUME NEW s, NEW n \in Nat
  PROVE  \E f : ValuesTo(s, f, n)
<1> DEFINE N == {m \in Nat : ~\E f : ValuesTo(s, f, m)}
<1>1. SUFFICES ASSUME N # {} PROVE FALSE
  OBVIOUS
<1>2. PICK m \in N : \A j \in N : m <= j
  <2>1. N \subseteq Nat
    OBVIOUS
  <2> HIDE DEF N
  <2> QED  BY <1>1, <2>1, SmallestNumber
<1>3. m \in Nat /\ ~\E f : ValuesTo(s, f, m)
  OBVIOUS
<1>4. m # 0
  <2>1. SUFFICES ASSUME m = 0 PROVE \E f : ValuesTo(s, f, 0)
    BY <1>3
  <2> DEFINE f == [k \in 0..0 |-> 0]
  <2>2. ValuesTo(s, f, 0)
    BY DEF ValuesTo
  <2> HIDE DEF f
  <2> QED  BY <2>2
<1>5. m - 1 \in Nat /\ ~(m <= m - 1)
  BY <1>3, <1>4
<1>6. PICK g : ValuesTo(s, g, m - 1)
  BY <1>2, <1>5
<1> DEFINE f == [k \in 0..m |-> IF k = m
                                  THEN g[m - 1] * Base + ValueOf(s[m])
                                  ELSE g[k]]
<1>7. /\ DOMAIN f = 0..m /\ f[m] = g[m - 1] * Base + ValueOf(s[m])
      /\ \A k \in 0..m - 1 : f[k] = g[k]
  BY <1>3
<1> HIDE DEF f
<1>8. ASSUME NEW k \in 0..m
      PROVE  f[k] = IF k = 0 THEN 0 ELSE f[k - 1] * Base + ValueOf(s[k])
  <2>1. CASE k = m
    <3>1. f[m - 1] = g[m - 1]
      BY <1>5, <1>7
    <3> QED  BY <1>4, <1>7, <2>1, <3>1
  <2>2. CASE k # m
    <3>1. k \in 0..m - 1
      BY <1>3, <2>2
    <3>2. k # 0 => k - 1 \in 0..m - 1
      BY <1>3, <3>1
    <3>3. g[k] = IF k = 0 THEN 0 ELSE g[k - 1] * Base + ValueOf(s[k])
      BY <1>6, <3>1 DEF ValuesTo
    <3> QED  BY <1>7, <3>1, <3>2, <3>3
  <2> QED  BY <2>1, <2>2
<1> QED  BY <1>3, <1>7, <1>8 DEF ValuesTo

LEMMA StringToIDIs ==
  ASSUME NEW s \in Seq(Digit)
  PROVE  \E f : ValuesTo(s, f, Len(s)) /\ StringToID(s) = f[Len(s)]
<1> DEFINE n == Len(s)
           P(f) == f = [k \in 0..n |->
                         IF k = 0 THEN 0
                                  ELSE f[k - 1] * Base + ValueOf(s[k])]
           v == CHOOSE f : P(f)
<1>1. n \in Nat
  OBVIOUS
<1>2. StringToID(s) = v[n]
  BY DEF StringToID
<1> HIDE DEF n
<1>3. PICK f : ValuesTo(s, f, n)
  BY <1>1, ValuesExist
<1>4. P([k \in 0..n |-> f[k]])
  <2> DEFINE g == [k \in 0..n |-> f[k]]
             h == [k \in 0..n |->
                     IF k = 0 THEN 0 ELSE g[k - 1] * Base + ValueOf(s[k])]
  <2>1. ASSUME NEW k \in 0..n PROVE g[k] = h[k]
    <3>1. f[k] = IF k = 0 THEN 0 ELSE f[k - 1] * Base + ValueOf(s[k])
      BY <1>3 DEF ValuesTo
    <3>2. k # 0 => k - 1 \in 0..n
      BY <1>1
    <3> QED  BY <3>1, <3>2
  <2>2. /\ g = [k \in 0..n |-> g[k]] /\ h = [k \in 0..n |-> h[k]]
    OBVIOUS
  <2> HIDE DEF g, h
  <2>3. g = h
    BY <2>1, <2>2
  <2> QED  BY <2>3 DEF g, h
<1> HIDE DEF P
<1>5. P(v)
  BY <1>4, Zenon
<1>6. ValuesTo(s, v, n)
  <2> HIDE DEF v
  <2>1. /\ DOMAIN v = 0..n
        /\ \A k \in 0..n :
             v[k] = IF k = 0 THEN 0 ELSE v[k - 1] * Base + ValueOf(s[k])
    BY <1>5 DEF P
  <2> QED  BY <2>1 DEF ValuesTo
<1> HIDE DEF v
<1> QED  BY <1>2, <1>6 DEF n

LEMMA ValueOfEmpty == StringToID(<< >>) = 0
<1> DEFINE e == << >>
<1>1. e \in Seq(Digit) /\ Len(e) = 0
  OBVIOUS
<1> HIDE DEF e
<1>2. PICK f : ValuesTo(e, f, 0) /\ StringToID(e) = f[0]
  BY <1>1, StringToIDIs
<1> QED  BY <1>2 DEF ValuesTo, e

LEMMA ValueOfAppended ==
  ASSUME NEW s \in Seq(Digit), NEW c \in Digit
  PROVE  StringToID(Append(s, c)) = StringToID(s) * Base + ValueOf(c)
<1> DEFINE n == Len(s)
           t == Append(s, c)
<1>1. /\ n \in Nat /\ t \in Seq(Digit) /\ Len(t) = n + 1 /\ t[n + 1] = c
      /\ \A j \in 1..n : t[j] = s[j]
  BY AppendProperties
<1> HIDE DEF t
<1>2. PICK f : ValuesTo(s, f, n) /\ StringToID(s) = f[n]
  BY StringToIDIs
<1> HIDE DEF n
<1>3. PICK g : ValuesTo(t, g, n + 1) /\ StringToID(t) = g[n + 1]
  BY <1>1, StringToIDIs
<1>4. /\ n \in 0..n + 1 /\ n <= n /\ n + 1 \in Nat /\ n \in 0..n
      /\ n + 1 \in 0..n + 1 /\ n + 1 # 0 /\ (n + 1) - 1 = n
  BY <1>1
<1>5. g[n] = f[n]
  BY <1>1, <1>2, <1>3, <1>4, ValuesAgree
<1>6. g[n + 1] = g[(n + 1) - 1] * Base + ValueOf(t[n + 1])
  BY <1>3, <1>4 DEF ValuesTo
<1> QED  BY <1>1, <1>2, <1>3, <1>4, <1>5, <1>6 DEF t

(* StringToID reads back every number IDToString writes, and what it       *)
(* writes is never empty.                                                  *)
THEOREM NumeralsAreRead ==
  ASSUME NEW n \in Nat
  PROVE  /\ IDToString[n] \in Seq(Digit) /\ IDToString[n] # << >>
         /\ StringToID(IDToString[n]) = n
<1> DEFINE Good(m) == /\ IDToString[m] \in Seq(Digit) /\ IDToString[m] # << >>
                      /\ StringToID(IDToString[m]) = m
           N == {m \in Nat : ~Good(m)}
<1>1. SUFFICES ASSUME N # {} PROVE FALSE
  OBVIOUS
<1>2. PICK m \in N : \A j \in N : m <= j
  <2>1. N \subseteq Nat
    OBVIOUS
  <2> HIDE DEF N
  <2> QED  BY <1>1, <2>1, SmallestNumber
<1>3. m \in Nat /\ ~Good(m)
  OBVIOUS
<1>4. \A j \in 0..m - 1 : Good(j)
  <2> SUFFICES ASSUME NEW j \in 0..m - 1, ~Good(j) PROVE FALSE
    OBVIOUS
  <2>1. j \in N /\ ~(m <= j)
    BY <1>3
  <2> HIDE DEF N, Good
  <2> QED  BY <1>2, <2>1
<1> HIDE DEF N
<1>5. IsNumeral(IDToString, m)
  BY <1>3, IDToStringIs
<1>6. CASE m < Base
  <2>1. m \in 0..Base - 1
    BY <1>3, <1>6, DigitFacts
  <2> DEFINE c == Digits[m + 1]
             e == << >>
  <2>2. c \in Digit /\ ValueOf(c) = m
    BY <2>1, DigitFacts
  <2> HIDE DEF c
  <2>3. e \in Seq(Digit) /\ <<c>> = Append(e, c) /\ <<c>> \in Seq(Digit)
        /\ <<c>> # << >>
    BY <2>2
  <2>4. IDToString[m] = <<c>>
    BY <1>5, <1>6 DEF IsNumeral, c
  <2>5. StringToID(Append(e, c)) = StringToID(e) * Base + ValueOf(c)
    <3> HIDE DEF e
    <3> QED  BY <2>2, <2>3, ValueOfAppended
  <2>6. StringToID(e) * Base + ValueOf(c) = m
    BY <1>3, <2>2, ValueOfEmpty, DigitFacts
  <2> HIDE DEF e
  <2>7. Good(m)
    BY <2>3, <2>4, <2>5, <2>6
  <2> QED  BY <1>3, <2>7
<1>7. CASE ~(m < Base)
  <2> DEFINE q == m \div Base
             r == m % Base
             c == Digits[r + 1]
  <2>1. q \in 0..m - 1 /\ r \in 0..Base - 1 /\ q * Base + r = m
    <3>1. m >= Base
      BY <1>3, <1>7, DigitFacts
    <3> QED  BY <1>3, <3>1, Division
  <2>2. IDToString[m] = Append(IDToString[q], c)
    BY <1>5, <1>7 DEF IsNumeral
  <2> HIDE DEF q, r
  <2>3. c \in Digit /\ ValueOf(c) = r
    BY <2>1, DigitFacts
  <2>4. /\ IDToString[q] \in Seq(Digit) /\ StringToID(IDToString[q]) = q
    BY <1>4, <2>1
  <2> HIDE DEF c
  <2>5. /\ IDToString[m] \in Seq(Digit) /\ IDToString[m] # << >>
    BY <2>2, <2>3, <2>4, AppendProperties
  <2>6. StringToID(IDToString[m]) = q * Base + r
    BY <2>2, <2>3, <2>4, ValueOfAppended
  <2>7. Good(m)
    BY <2>1, <2>5, <2>6
  <2> QED  BY <1>3, <2>7
<1> QED  BY <1>6, <1>7

-----------------------------------------------------------------------------
(* Replacing the words of a text.  A renaming is a set of pairs of a word  *)
(* and the word that replaces it.                                          *)

Words == Seq(Alnum)

(* The pairs of texts in R stay in it when a word and its replacement, and *)
(* one separator, are added to both.                                       *)
Closed(G, R) ==
  /\ << << >>, << >> >> \in R
  /\ \A a, b \in Text, w, n \in Words, c \in Others :
       <<a, b>> \in R /\ <<w, n>> \in G =>
         <<Append(a \o w, c), Append(b \o n, c)>> \in R

(* A text that ends in a separator or is empty, and the same with its      *)
(* words replaced: the least relation that is closed.                      *)
Replaced(G) ==
  {x \in Text \X Text :
     \A R \in SUBSET (Text \X Text) : Closed(G, R) => x \in R}

(* A whole text: its last word has no separator after it.                  *)
ReplacedAll(G) ==
  {x \in Text \X Text :
     \E a, b \in Text, w, n \in Words :
       /\ <<a, b>> \in Replaced(G) /\ <<w, n>> \in G
       /\ x = <<a \o w, b \o n>>}

(* No two words are replaced by the same, and none by two.                 *)
OneToOne(G) == \A x, y \in G : x[1] = y[1] <=> x[2] = y[2]

EndsWord(a) == a # << >> => a[Len(a)] \notin Alnum

LEMMA WordsAreText ==
  /\ Words \subseteq Text /\ << >> \in Text /\ << >> \in Words
  /\ Seq(Digit) \subseteq Words /\ Others \cap Alnum = {}
  /\ \A a \in Text, w \in Words : a \o w \in Text
  /\ \A a \in Text, c \in Others : Append(a, c) \in Text
<1>1. Alnum \subseteq Alnum \cup Others /\ Digit \subseteq Alnum
  BY DEF Alnum
<1>2. Words \subseteq Text /\ Seq(Digit) \subseteq Words
  BY <1>1, SeqMonotonic DEF Words, Text
<1>3. << >> \in Text /\ << >> \in Words
  BY DEF Words, Text
<1>4. ASSUME NEW a \in Text, NEW w \in Words PROVE a \o w \in Text
  <2>1. w \in Text
    BY <1>2
  <2> QED  BY <2>1 DEF Text
<1>5. \A a \in Text, c \in Others : Append(a, c) \in Text
  BY DEF Text
<1>6. Others \cap Alnum = {}
  BY CharactersAssumption
<1> QED  BY <1>2, <1>3, <1>4, <1>5, <1>6

LEMMA ReplacedInduction ==
  ASSUME NEW G, NEW R \in SUBSET (Text \X Text), Closed(G, R)
  PROVE  Replaced(G) \subseteq R
BY Zenon DEF Replaced

LEMMA NothingReplaced ==
  ASSUME NEW G
  PROVE  << << >>, << >> >> \in Replaced(G)
<1>1. << << >>, << >> >> \in Text \X Text
  BY WordsAreText
<1> QED  BY <1>1, Zenon DEF Replaced, Closed

LEMMA WordReplaced ==
  ASSUME NEW G, NEW a \in Text, NEW b \in Text, NEW w \in Words,
         NEW n \in Words,
         NEW c \in Others, <<a, b>> \in Replaced(G), <<w, n>> \in G
  PROVE  <<Append(a \o w, c), Append(b \o n, c)>> \in Replaced(G)
<1>1. <<Append(a \o w, c), Append(b \o n, c)>> \in Text \X Text
  BY WordsAreText
<1>2. ASSUME NEW R \in SUBSET (Text \X Text), Closed(G, R)
      PROVE  <<Append(a \o w, c), Append(b \o n, c)>> \in R
  <2>1. <<a, b>> \in R
    BY <1>2, Zenon DEF Replaced
  <2> QED  BY <1>2, <2>1, Zenon DEF Closed
<1> QED  BY <1>1, <1>2, Zenon DEF Replaced

LEMMA ReplacedGrows ==
  ASSUME NEW G, NEW H, G \subseteq H
  PROVE  /\ Replaced(G) \subseteq Replaced(H)
         /\ ReplacedAll(G) \subseteq ReplacedAll(H)
<1>1. ASSUME NEW R, Closed(H, R) PROVE Closed(G, R)
  BY <1>1, Zenon DEF Closed
<1>2. Replaced(G) \subseteq Replaced(H)
  BY <1>1, Zenon DEF Replaced
<1> QED  BY <1>2, Zenon DEF ReplacedAll

(* How two texts come to be related.                                       *)
WordsBefore(G, a, b) ==
  \E d, e \in Text, w, n \in Words, c \in Others :
    /\ <<d, e>> \in Replaced(G) /\ <<w, n>> \in G
    /\ a = Append(d \o w, c) /\ b = Append(e \o n, c)

LEMMA ReplacedHow ==
  ASSUME NEW G, NEW a, NEW b, <<a, b>> \in Replaced(G)
  PROVE  /\ a \in Text /\ b \in Text
         /\ (a = << >> /\ b = << >>) \/ WordsBefore(G, a, b)
<1> DEFINE R == {x \in Text \X Text :
                   /\ x \in Replaced(G)
                   /\ \/ x = << << >>, << >> >>
                      \/ WordsBefore(G, x[1], x[2])}
<1>1. R \in SUBSET (Text \X Text)
  OBVIOUS
<1>2. << << >>, << >> >> \in R
  BY NothingReplaced, WordsAreText
<1>3. ASSUME NEW d \in Text, NEW e \in Text, NEW w \in Words, NEW n \in Words,
             NEW c \in Others, <<d, e>> \in R, <<w, n>> \in G
      PROVE  <<Append(d \o w, c), Append(e \o n, c)>> \in R
  <2> DEFINE x == Append(d \o w, c)
             y == Append(e \o n, c)
  <2>1. <<d, e>> \in Replaced(G)
    BY <1>3
  <2>2. <<x, y>> \in Replaced(G)
    BY <1>3, <2>1, WordReplaced
  <2>3. WordsBefore(G, x, y)
    BY <1>3, <2>1, Zenon DEF WordsBefore
  <2>4. x \in Text /\ y \in Text
    BY WordsAreText
  <2> DEFINE z == <<x, y>>
  <2> HIDE DEF x, y
  <2>5. z \in Text \X Text /\ z[1] = x /\ z[2] = y
    BY <2>4
  <2>6. z \in Replaced(G) /\ WordsBefore(G, z[1], z[2])
    BY <2>2, <2>3, <2>5
  <2> HIDE DEF z
  <2>7. z \in R
    BY <2>5, <2>6
  <2> QED  BY <2>7 DEF x, y, z
<1> HIDE DEF R
<1>4. Closed(G, R)
  BY <1>2, <1>3, Zenon DEF Closed
<1>5. <<a, b>> \in R
  BY <1>1, <1>4, ReplacedInduction
<1> QED  BY <1>5 DEF R

(* Where a text and a word, and a separator after them, have their         *)
(* characters.                                                             *)
LEMMA Joined ==
  ASSUME NEW a \in Text, NEW w \in Words, NEW c \in Others
  PROVE  LET x == a \o w
             y == Append(a \o w, c)
         IN  /\ x \in Text /\ Len(x) = Len(a) + Len(w)
             /\ \A k \in 1..Len(a) : x[k] = a[k] /\ y[k] = a[k]
             /\ \A k \in Len(a) + 1..Len(a) + Len(w) :
                  x[k] = w[k - Len(a)] /\ x[k] \in Alnum /\ y[k] = x[k]
             /\ y \in Text /\ Len(y) = Len(a) + Len(w) + 1
             /\ y[Len(a) + Len(w) + 1] = c
             /\ Len(a) \in Nat /\ Len(w) \in Nat
<1> DEFINE l == Len(a)
           m == Len(w)
           x == a \o w
           y == Append(x, c)
<1>1. l \in Nat /\ m \in Nat /\ w \in Text
  BY WordsAreText DEF Text, Words
<1>2. \A k \in 1..m : w[k] \in Alnum
  BY DEF Words
<1>3. /\ x \in Text /\ Len(x) = l + m
      /\ \A k \in 1..l + m : x[k] = IF k <= l THEN a[k] ELSE w[k - l]
  BY <1>1, ConcatProperties DEF Text
<1> HIDE DEF x, l, m
<1>4. /\ y \in Text /\ Len(y) = l + m + 1 /\ y[l + m + 1] = c
      /\ \A k \in 1..l + m : y[k] = x[k]
  <2>1. c \in Alnum \cup Others
    OBVIOUS
  <2>2. /\ y \in Seq(Alnum \cup Others) /\ Len(y) = Len(x) + 1
        /\ y[Len(x) + 1] = c
        /\ \A k \in 1..Len(x) : y[k] = x[k]
    BY <1>3, <2>1, AppendProperties DEF Text
  <2> QED  BY <1>3, <2>2 DEF Text
<1> HIDE DEF y
<1>5. ASSUME NEW k \in 1..l PROVE x[k] = a[k] /\ y[k] = a[k]
  BY <1>1, <1>3, <1>4
<1>6. ASSUME NEW k \in l + 1..l + m
      PROVE  x[k] = w[k - l] /\ x[k] \in Alnum /\ y[k] = x[k]
  <2>1. k \in 1..l + m /\ ~(k <= l) /\ k - l \in 1..m
    BY <1>1
  <2> QED  BY <1>2, <1>3, <1>4, <2>1
<1> QED  BY <1>1, <1>3, <1>4, <1>5, <1>6 DEF l, m, x, y

(* A text splits into words and separators in one way.                     *)
LEMMA NotEarlier ==
  ASSUME NEW a \in Text, NEW w \in Words, NEW d \in Text, NEW v \in Words,
         EndsWord(d), a \o w = d \o v
  PROVE  Len(d) <= Len(a)
<1> DEFINE l == Len(a)
           m == Len(w)
           k == Len(d)
<1>1. SUFFICES ASSUME ~(k <= l) PROVE FALSE
  OBVIOUS
<1>2. l \in Nat /\ m \in Nat /\ k \in Nat /\ Len(v) \in Nat
  BY DEF Text, Words
<1>3. /\ Len(a \o w) = l + m /\ Len(d \o v) = k + Len(v)
      /\ \A p \in 1..l + m : (a \o w)[p] = IF p <= l THEN a[p] ELSE w[p - l]
      /\ \A p \in 1..k + Len(v) : (d \o v)[p] = IF p <= k THEN d[p]
                                                          ELSE v[p - k]
  BY WordsAreText, ConcatProperties DEF Text
<1> HIDE DEF l, m, k
<1>4. /\ k \in 1..l + m /\ k \in 1..k + Len(v) /\ ~(k <= l)
      /\ k - l \in 1..m /\ k <= k /\ k # 0
  BY <1>1, <1>2, <1>3
<1>5. d[k] = w[k - l]
  BY <1>3, <1>4
<1>6. w[k - l] \in Alnum
  BY <1>4 DEF Words, m
<1>7. d # << >>
  BY <1>4 DEF k
<1> QED  BY <1>5, <1>6, <1>7 DEF EndsWord, k

LEMMA OneSplit ==
  ASSUME NEW a \in Text, NEW w \in Words, EndsWord(a),
         NEW d \in Text, NEW v \in Words, EndsWord(d), a \o w = d \o v
  PROVE  a = d /\ w = v
<1> DEFINE l == Len(a)
<1>1. l \in Nat /\ Len(d) \in Nat /\ Len(w) \in Nat /\ Len(v) \in Nat
  BY DEF Text, Words
<1>2. l = Len(d)
  <2>1. Len(d) <= Len(a)
    BY NotEarlier
  <2>2. Len(a) <= Len(d)
    BY NotEarlier
  <2> DEFINE k == Len(d)
  <2>3. l \in Nat /\ k \in Nat /\ k <= l /\ l <= k
    BY <1>1, <2>1, <2>2
  <2> HIDE DEF l, k
  <2>4. l = k
    BY <2>3
  <2> QED  BY <2>4 DEF k
<1>3. /\ Len(a \o w) = l + Len(w) /\ Len(d \o v) = l + Len(v)
      /\ \A p \in 1..l + Len(w) : (a \o w)[p] = IF p <= l THEN a[p]
                                                          ELSE w[p - l]
      /\ \A p \in 1..l + Len(v) : (d \o v)[p] = IF p <= l THEN d[p]
                                                          ELSE v[p - l]
  <2>1. w \in Text /\ v \in Text
    BY WordsAreText
  <2>2. /\ Len(a \o w) = Len(a) + Len(w)
        /\ \A p \in 1..Len(a) + Len(w) :
             (a \o w)[p] = IF p <= Len(a) THEN a[p] ELSE w[p - Len(a)]
    BY <2>1, ConcatProperties DEF Text
  <2>3. /\ Len(d \o v) = Len(d) + Len(v)
        /\ \A p \in 1..Len(d) + Len(v) :
             (d \o v)[p] = IF p <= Len(d) THEN d[p] ELSE v[p - Len(d)]
    BY <2>1, ConcatProperties DEF Text
  <2> QED  BY <1>2, <2>2, <2>3, Zenon
<1> HIDE DEF l
<1>4. Len(w) = Len(v)
  BY <1>1, <1>3
<1>5. ASSUME NEW p \in 1..l PROVE a[p] = d[p]
  <2>1. p \in 1..l + Len(w) /\ p \in 1..l + Len(v) /\ p <= l
    BY <1>1
  <2> QED  BY <1>3, <2>1
<1>6. ASSUME NEW p \in 1..Len(w) PROVE w[p] = v[p]
  <2> DEFINE q == l + p
  <2>1. /\ q \in 1..l + Len(w) /\ q \in 1..l + Len(v) /\ ~(q <= l) /\ q - l = p
    BY <1>1, <1>4
  <2> HIDE DEF q
  <2> QED  BY <1>3, <2>1
<1>7. a = d
  BY <1>2, <1>5, SeqEqual DEF Text, l
<1>8. w = v
  BY <1>4, <1>6, SeqEqual DEF Words
<1> QED  BY <1>7, <1>8

(* x is how y begins.                                                      *)
Begins(x, y) == Len(x) <= Len(y) /\ \A k \in 1..Len(x) : y[k] = x[k]

LEMMA EndsOfReplaced ==
  ASSUME NEW G, NEW a, NEW b, <<a, b>> \in Replaced(G)
  PROVE  EndsWord(a) /\ EndsWord(b)
<1>1. CASE a = << >> /\ b = << >>
  BY <1>1 DEF EndsWord
<1>2. CASE WordsBefore(G, a, b)
  <2>1. PICK d \in Text, e \in Text, w \in Words, n \in Words, c \in Others :
          /\ a = Append(d \o w, c)
          /\ b = Append(e \o n, c)
    BY <1>2, Zenon DEF WordsBefore
  <2>2. a[Len(a)] = c
    <3>1. Len(a) = Len(d) + Len(w) + 1 /\ a[Len(d) + Len(w) + 1] = c
      BY <2>1, Joined, Zenon
    <3> QED  BY <3>1, Zenon
  <2>3. b[Len(b)] = c
    <3>1. Len(b) = Len(e) + Len(n) + 1 /\ b[Len(e) + Len(n) + 1] = c
      BY <2>1, Joined, Zenon
    <3> QED  BY <3>1, Zenon
  <2>4. c \notin Alnum
    BY WordsAreText
  <2> QED  BY <2>2, <2>3, <2>4, Zenon DEF EndsWord
<1> QED  BY <1>1, <1>2, ReplacedHow

LEMMA AppendedEqual ==
  ASSUME NEW x \in Text, NEW y \in Text, NEW c \in Others, NEW d \in Others,
         Append(x, c) = Append(y, d)
  PROVE  x = y /\ c = d
<1> DEFINE l == Len(x)
           m == Len(y)
<1>1. /\ Len(Append(x, c)) = l + 1 /\ Append(x, c)[l + 1] = c
      /\ \A k \in 1..l : Append(x, c)[k] = x[k]
      /\ Len(Append(y, d)) = m + 1 /\ Append(y, d)[m + 1] = d
      /\ \A k \in 1..m : Append(y, d)[k] = y[k]
      /\ l \in Nat /\ m \in Nat
  BY AppendProperties DEF Text
<1> HIDE DEF l, m
<1>2. l = m
  BY <1>1
<1>3. \A k \in 1..l : x[k] = y[k]
  BY <1>1, <1>2
<1>4. c = d
  BY <1>1, <1>2
<1> QED  BY <1>2, <1>3, <1>4, SeqEqual DEF Text, l, m

(* s is the text a and the word w, and with a separator c.                 *)
Split(s, a, w) == a \in Text /\ w \in Words /\ EndsWord(a) /\ s = a \o w

Ended(s, a, w, c) ==
  /\ a \in Text /\ w \in Words /\ c \in Others /\ EndsWord(a)
  /\ s = Append(a \o w, c)

LEMMA OneWayToSplit ==
  ASSUME NEW s, NEW a, NEW w, NEW d, NEW v, Split(s, a, w), Split(s, d, v)
  PROVE  a = d /\ w = v
<1>1. /\ a \in Text /\ w \in Words /\ EndsWord(a)
      /\ d \in Text /\ v \in Words /\ EndsWord(d)
  BY DEF Split
<1>2. a \o w = d \o v
  BY Zenon DEF Split
<1> QED  BY ONLY <1>1, <1>2, OneSplit

LEMMA OneWayToEnd ==
  ASSUME NEW s, NEW a, NEW w, NEW c, NEW d, NEW v, NEW e,
         Ended(s, a, w, c), Ended(s, d, v, e)
  PROVE  a = d /\ w = v /\ c = e
<1>1. /\ a \in Text /\ w \in Words /\ c \in Others /\ EndsWord(a)
      /\ d \in Text /\ v \in Words /\ e \in Others /\ EndsWord(d)
  BY DEF Ended
<1>2. Append(a \o w, c) = Append(d \o v, e)
  BY Zenon DEF Ended
<1>3. a \o w \in Text /\ d \o v \in Text
  BY <1>1, WordsAreText
<1>4. a \o w = d \o v /\ c = e
  <2> DEFINE x == a \o w
             y == d \o v
  <2>1. x \in Text /\ y \in Text /\ Append(x, c) = Append(y, e)
    BY <1>2, <1>3
  <2> HIDE DEF x, y
  <2>2. x = y /\ c = e
    BY ONLY <1>1, <2>1, AppendedEqual
  <2> QED  BY <2>2 DEF x, y
<1> QED  BY ONLY <1>1, <1>4, OneSplit

LEMMA EndedNotEmpty ==
  ASSUME NEW s, NEW a, NEW w, NEW c, Ended(s, a, w, c)
  PROVE  s # << >>
<1>1. a \o w \in Seq(Alnum \cup Others) /\ c \in Alnum \cup Others
  BY WordsAreText DEF Ended, Text
<1>2. Append(a \o w, c) # << >>
  BY ONLY <1>1, AppendProperties
<1> QED  BY <1>2, Zenon DEF Ended

(* When words are renamed one to one so are texts.                         *)
LEMMA ReplacedOneToOne ==
  ASSUME NEW G, OneToOne(G), NEW a, NEW b, <<a, b>> \in Replaced(G),
         NEW d, NEW e, <<d, e>> \in Replaced(G)
  PROVE  a = d <=> b = e
<1> DEFINE Same(x, y) == \A z \in Replaced(G) : x = z[1] <=> y = z[2]
           R == {x \in Text \X Text : x \in Replaced(G) /\ Same(x[1], x[2])}
<1>1. R \in SUBSET (Text \X Text)
  OBVIOUS
<1>2. ASSUME NEW z \in Replaced(G)
      PROVE  z = <<z[1], z[2]>> /\ z \in Text \X Text
  BY DEF Replaced
<1>3. << << >>, << >> >> \in R
  <2>1. ASSUME NEW z \in Replaced(G) PROVE << >> = z[1] <=> << >> = z[2]
    <3>1. <<z[1], z[2]>> \in Replaced(G)
      BY <1>2
    <3>2. CASE z[1] = << >> /\ z[2] = << >>
      BY <3>2
    <3>3. CASE WordsBefore(G, z[1], z[2])
      <4>1. PICK x \in Text, y \in Text, w \in Words, n \in Words, c \in Others :
              /\ <<x, y>> \in Replaced(G)
              /\ z[1] = Append(x \o w, c) /\ z[2] = Append(y \o n, c)
        BY <3>3, Zenon DEF WordsBefore
      <4>2. EndsWord(x) /\ EndsWord(y)
        BY <4>1, EndsOfReplaced
      <4>3. Ended(z[1], x, w, c) /\ Ended(z[2], y, n, c)
        BY <4>1, <4>2, Zenon DEF Ended
      <4> QED  BY <4>3, EndedNotEmpty
    <3> QED  BY <3>1, <3>2, <3>3, ReplacedHow
  <2>2. Same(<< >>, << >>)
    BY <2>1
  <2> HIDE DEF Same
  <2> QED  BY <2>2, NothingReplaced, WordsAreText
<1>4. ASSUME NEW x \in Text, NEW y \in Text, NEW w \in Words, NEW n \in Words,
             NEW c \in Others, <<x, y>> \in R, <<w, n>> \in G
      PROVE  <<Append(x \o w, c), Append(y \o n, c)>> \in R
  <2> DEFINE p == Append(x \o w, c)
             q == Append(y \o n, c)
  <2>1. <<x, y>> \in Replaced(G) /\ Same(x, y)
    BY <1>4
  <2>2. <<p, q>> \in Replaced(G)
    BY <1>4, <2>1, WordReplaced
  <2>3. ASSUME NEW z \in Replaced(G) PROVE p = z[1] <=> q = z[2]
    <3>1. <<z[1], z[2]>> \in Replaced(G)
      BY <1>2
    <3>2. EndsWord(x) /\ EndsWord(y)
      BY <2>1, EndsOfReplaced
    <3>5. Ended(p, x, w, c) /\ Ended(q, y, n, c)
      BY <3>2, Zenon DEF Ended
    <3>3. CASE z[1] = << >> /\ z[2] = << >>
      BY <3>3, <3>5, EndedNotEmpty
    <3>4. CASE WordsBefore(G, z[1], z[2])
      <4>1. PICK f \in Text, g \in Text, v \in Words, m \in Words, s \in Others :
              /\ <<f, g>> \in Replaced(G) /\ <<v, m>> \in G
              /\ z[1] = Append(f \o v, s) /\ z[2] = Append(g \o m, s)
        BY <3>4, Zenon DEF WordsBefore
      <4>2. EndsWord(f) /\ EndsWord(g)
        BY <4>1, EndsOfReplaced
      <4>3. Ended(z[1], f, v, s) /\ Ended(z[2], g, m, s)
        BY <4>1, <4>2, Zenon DEF Ended
      <4>4. x = f <=> y = g
        <5>1. <<f, g>>[1] = f /\ <<f, g>>[2] = g
          OBVIOUS
        <5> QED  BY <2>1, <4>1, <5>1, Zenon
      <4>5. w = v <=> n = m
        <5>1. /\ <<v, m>>[1] = v /\ <<v, m>>[2] = m
              /\ <<w, n>>[1] = w /\ <<w, n>>[2] = n
          OBVIOUS
        <5> QED  BY <1>4, <4>1, <5>1, Zenon DEF OneToOne
      <4> HIDE DEF p, q
      <4>6. ASSUME p = z[1] PROVE q = z[2]
        <5>1. Ended(p, f, v, s)
          BY <4>3, <4>6, Zenon
        <5>2. x = f /\ w = v
          BY ONLY <3>5, <5>1, OneWayToEnd
        <5>5. c = s
          BY ONLY <3>5, <5>1, OneWayToEnd
        <5>3. y = g /\ n = m
          BY <4>4, <4>5, <5>2
        <5>4. z[2] = Append(g \o m, c)
          BY <4>1, <5>5
        <5> QED  BY <5>3, <5>4, Zenon DEF q
      <4>7. ASSUME q = z[2] PROVE p = z[1]
        <5>1. Ended(q, g, m, s)
          BY <4>3, <4>7, Zenon
        <5>2. y = g /\ n = m
          BY ONLY <3>5, <5>1, OneWayToEnd
        <5>5. c = s
          BY ONLY <3>5, <5>1, OneWayToEnd
        <5>3. x = f /\ w = v
          BY <4>4, <4>5, <5>2
        <5>4. z[1] = Append(f \o v, c)
          BY <4>1, <5>5
        <5> QED  BY <5>3, <5>4, Zenon DEF p
      <4> QED  BY <4>6, <4>7
    <3> QED  BY <3>1, <3>3, <3>4, ReplacedHow
  <2>4. p \in Text /\ q \in Text
    BY WordsAreText
  <2>5. Same(p, q)
    BY <2>3
  <2> DEFINE z == <<p, q>>
  <2> HIDE DEF p, q, Same
  <2>6. z \in Text \X Text /\ z[1] = p /\ z[2] = q
    BY <2>4
  <2>7. z \in Replaced(G) /\ Same(z[1], z[2])
    BY <2>2, <2>5, <2>6
  <2> HIDE DEF z
  <2>8. z \in R
    BY <2>6, <2>7
  <2> QED  BY <2>8 DEF z, p, q
<1> HIDE DEF R
<1>5. Closed(G, R)
  BY <1>3, <1>4, Zenon DEF Closed
<1>6. <<a, b>> \in R
  BY <1>1, <1>5, ReplacedInduction
<1>7. <<d, e>>[1] = d /\ <<d, e>>[2] = e /\ <<a, b>>[1] = a /\ <<a, b>>[2] = b
  OBVIOUS
<1>8. Same(a, b)
  BY <1>6, <1>7 DEF R
<1> QED  BY <1>7, <1>8, Zenon

(* Compact strings can be read: when the words of two texts are replaced   *)
(* one to one, and the separators copied, the results are equal exactly    *)
(* when the texts are.                                                     *)
THEOREM ReplacedAllOneToOne ==
  ASSUME NEW G, OneToOne(G), NEW a, NEW b, <<a, b>> \in ReplacedAll(G),
         NEW d, NEW e, <<d, e>> \in ReplacedAll(G)
  PROVE  a = d <=> b = e
<1>1. PICK x \in Text, y \in Text, w \in Words, n \in Words :
        /\ <<x, y>> \in Replaced(G) /\ <<w, n>> \in G
        /\ <<a, b>> = <<x \o w, y \o n>>
  BY Zenon DEF ReplacedAll
<1>2. PICK f \in Text, g \in Text, v \in Words, m \in Words :
        /\ <<f, g>> \in Replaced(G) /\ <<v, m>> \in G
        /\ <<d, e>> = <<f \o v, g \o m>>
  BY Zenon DEF ReplacedAll
<1>3. a = x \o w /\ b = y \o n /\ d = f \o v /\ e = g \o m
  BY <1>1, <1>2
<1>4. EndsWord(x) /\ EndsWord(y) /\ EndsWord(f) /\ EndsWord(g)
  BY <1>1, <1>2, EndsOfReplaced
<1>5. x = f <=> y = g
  <2>1. <<x, y>> \in Replaced(G) /\ <<f, g>> \in Replaced(G)
    BY <1>1, <1>2
  <2> QED  BY <2>1, ReplacedOneToOne
<1>6. w = v <=> n = m
  <2>1. /\ <<v, m>>[1] = v /\ <<v, m>>[2] = m
        /\ <<w, n>>[1] = w /\ <<w, n>>[2] = n
    OBVIOUS
  <2> QED  BY <1>1, <1>2, <2>1, Zenon DEF OneToOne
<1>7. Split(a, x, w) /\ Split(b, y, n) /\ Split(d, f, v) /\ Split(e, g, m)
  BY <1>1, <1>2, <1>3, <1>4, Zenon DEF Split
<1>8. ASSUME a = d PROVE b = e
  <2>1. Split(a, x, w) /\ Split(a, f, v)
    BY <1>7, <1>8, Zenon
  <2>2. x = f /\ w = v
    BY ONLY <2>1, OneWayToSplit
  <2> QED  BY <1>3, <1>5, <1>6, <2>2
<1>9. ASSUME b = e PROVE a = d
  <2>1. Split(b, y, n) /\ Split(b, g, m)
    BY <1>7, <1>9, Zenon
  <2>2. y = g /\ n = m
    BY ONLY <2>1, OneWayToSplit
  <2> QED  BY <1>3, <1>5, <1>6, <2>2
<1> QED  BY <1>8, <1>9

(* Every word of y that a separator ends replaces a word.                  *)
WordsReplace(G, y) ==
  \A s, b, v, c : Ended(s, b, v, c) /\ Begins(s, y) =>
                    \E w \in Words : <<w, v>> \in G

LEMMA WordsReplaceGrows ==
  ASSUME NEW G, NEW y \in Text, EndsWord(y), WordsReplace(G, y),
         NEW w \in Words, NEW n \in Words, <<w, n>> \in G, NEW c \in Others
  PROVE  WordsReplace(G, y \o n) /\ WordsReplace(G, Append(y \o n, c))
<1> DEFINE x == y \o n
           z == Append(x, c)
           l == Len(y)
           m == Len(n)
<1>1. /\ x \in Text /\ Len(x) = l + m /\ l \in Nat /\ m \in Nat
      /\ \A k \in 1..l : x[k] = y[k] /\ z[k] = y[k]
      /\ \A k \in l + 1..l + m : x[k] \in Alnum /\ z[k] = x[k]
      /\ z \in Text /\ Len(z) = l + m + 1
  BY Joined, Zenon
<1>2. Ended(z, y, n, c)
  BY Zenon DEF Ended
<1> HIDE DEF x, z, l, m
<1>3. ASSUME NEW s, NEW b, NEW v, NEW d, Ended(s, b, v, d), NEW q \in {x, z},
             Begins(s, q)
      PROVE  \E u \in Words : <<u, v>> \in G
  <2> DEFINE k == Len(s)
  <2>1. b \in Text /\ v \in Words /\ d \in Others /\ s = Append(b \o v, d)
    BY <1>3 DEF Ended
  <2>2. /\ s \in Text /\ Len(s) = Len(b) + Len(v) + 1
        /\ s[Len(b) + Len(v) + 1] = d /\ Len(b) \in Nat /\ Len(v) \in Nat
    BY <2>1, Joined, Zenon
  <2>3. k \in Nat /\ k >= 1 /\ s[k] = d /\ d \notin Alnum
    <3>1. d \notin Alnum
      BY <2>1, WordsAreText
    <3> QED  BY <2>2, <3>1
  <2>4. k <= Len(q) /\ \A j \in 1..k : q[j] = s[j]
    BY <1>3, Zenon DEF Begins
  <2> HIDE DEF k
  <2>5. CASE k <= l
    <3>1. \A j \in 1..k : y[j] = s[j]
      <4> SUFFICES ASSUME NEW j \in 1..k PROVE y[j] = s[j]
        OBVIOUS
      <4>1. j \in 1..l
        BY <1>1, <2>3, <2>5
      <4>2. x[j] = y[j] /\ z[j] = y[j]
        BY <1>1, <4>1
      <4> QED  BY <2>4, <4>2
    <3>2. Begins(s, y)
      BY <2>5, <3>1 DEF Begins, k, l
    <3> QED  BY <1>3, <3>2, Zenon DEF WordsReplace
  <2>6. CASE k \in l + 1..l + m
    <3>1. x[k] \in Alnum /\ z[k] = x[k]
      BY <1>1, <2>6
    <3>2. q[k] = s[k]
      BY <2>3, <2>4
    <3> QED  BY <2>3, <3>1, <3>2
  <2>7. CASE k = l + m + 1
    <3>1. q = z
      BY <1>1, <2>4, <2>7
    <3>2. Len(s) = Len(z) /\ \A j \in 1..Len(s) : s[j] = z[j]
      BY <1>1, <2>4, <2>7, <3>1 DEF k
    <3>3. s = z
      BY <1>1, <2>2, <3>2, SeqEqual DEF Text
    <3>4. Ended(s, y, n, c)
      BY <1>2, <3>3, Zenon
    <3>5. v = n
      BY ONLY <1>3, <3>4, OneWayToEnd
    <3> QED  BY <3>5
  <2>8. k <= l \/ k \in l + 1..l + m \/ k = l + m + 1
    <3>1. Len(q) \in {l + m, l + m + 1}
      BY <1>1
    <3> QED  BY <1>1, <2>3, <2>4, <3>1
  <2> QED  BY <2>5, <2>6, <2>7, <2>8
<1>4. WordsReplace(G, x) /\ WordsReplace(G, z)
  BY <1>3, Zenon DEF WordsReplace
<1> QED  BY <1>4 DEF x, z

LEMMA ReplacedWords ==
  ASSUME NEW G, NEW a, NEW b, <<a, b>> \in Replaced(G)
  PROVE  WordsReplace(G, b)
<1> DEFINE R == {x \in Text \X Text :
                   x \in Replaced(G) /\ WordsReplace(G, x[2])}
<1>1. R \in SUBSET (Text \X Text)
  OBVIOUS
<1>2. << << >>, << >> >> \in R
  <2>1. ASSUME NEW s, NEW x, NEW v, NEW c, Ended(s, x, v, c), Begins(s, << >>)
        PROVE  FALSE
    <3>1. x \in Text /\ v \in Words /\ c \in Others /\ s = Append(x \o v, c)
      BY <2>1 DEF Ended
    <3>2. /\ Len(s) = Len(x) + Len(v) + 1
          /\ Len(x) \in Nat /\ Len(v) \in Nat
      BY <3>1, Joined, Zenon
    <3>3. Len(s) <= 0
      BY <2>1 DEF Begins
    <3> QED  BY <3>2, <3>3
  <2>2. WordsReplace(G, << >>)
    BY <2>1, Zenon DEF WordsReplace
  <2> QED  BY <2>2, NothingReplaced, WordsAreText
<1>3. ASSUME NEW d \in Text, NEW e \in Text, NEW w \in Words, NEW n \in Words,
             NEW c \in Others, <<d, e>> \in R, <<w, n>> \in G
      PROVE  <<Append(d \o w, c), Append(e \o n, c)>> \in R
  <2> DEFINE x == Append(d \o w, c)
             y == Append(e \o n, c)
             z == <<x, y>>
  <2>1. <<d, e>> \in Replaced(G) /\ WordsReplace(G, e)
    BY <1>3
  <2>2. z \in Replaced(G)
    BY <1>3, <2>1, WordReplaced
  <2>3. EndsWord(e)
    BY <2>1, EndsOfReplaced
  <2>4. WordsReplace(G, y)
    BY <1>3, <2>1, <2>3, WordsReplaceGrows
  <2>5. x \in Text /\ y \in Text
    BY WordsAreText
  <2> HIDE DEF x, y
  <2>6. z \in Text \X Text /\ z[2] = y
    BY <2>5
  <2> HIDE DEF z
  <2>7. z \in R
    BY <2>2, <2>4, <2>6
  <2> QED  BY <2>7 DEF x, y, z
<1> HIDE DEF R
<1>4. Closed(G, R)
  BY <1>2, <1>3, Zenon DEF Closed
<1>5. <<a, b>> \in R
  BY <1>1, <1>4, ReplacedInduction
<1> QED  BY <1>5 DEF R

(* So every word of a text whose words have been replaced, its last one    *)
(* too, replaces a word.                                                   *)
LEMMA ReplacedAllWords ==
  ASSUME NEW G, NEW a, NEW b, <<a, b>> \in ReplacedAll(G)
  PROVE  /\ WordsReplace(G, b)
         /\ \A d, v : Split(b, d, v) => \E w \in Words : <<w, v>> \in G
<1>1. PICK x \in Text, y \in Text, w \in Words, n \in Words :
        /\ <<x, y>> \in Replaced(G) /\ <<w, n>> \in G
        /\ <<a, b>> = <<x \o w, y \o n>>
  BY Zenon DEF ReplacedAll
<1>2. b = y \o n
  BY <1>1
<1>3. EndsWord(y) /\ WordsReplace(G, y)
  BY <1>1, EndsOfReplaced, ReplacedWords
<1>4. ASSUME NEW s, NEW d, NEW v, NEW c, Ended(s, d, v, c), Begins(s, y \o n)
      PROVE  \E u \in Words : <<u, v>> \in G
  <2>1. c \in Others
    BY <1>4 DEF Ended
  <2>2. WordsReplace(G, y \o n)
    BY <1>1, <1>3, <2>1, WordsReplaceGrows
  <2> QED  BY <1>4, <2>2, Zenon DEF WordsReplace
<1>5. WordsReplace(G, b)
  BY <1>2, <1>4, Zenon DEF WordsReplace
<1>6. ASSUME NEW d, NEW v, Split(b, d, v) PROVE \E u \in Words : <<u, v>> \in G
  <2>1. Split(b, y, n)
    BY <1>1, <1>2, <1>3, Zenon DEF Split
  <2>2. v = n
    BY ONLY <1>6, <2>1, OneWayToSplit
  <2> QED  BY <1>1, <2>2
<1> QED  BY <1>5, <1>6

(* Texts whose words were replaced by numerals have no letters.            *)
OnlyDigits(y) == \A k \in 1..Len(y) : y[k] \in Alnum => y[k] \in Digit

LEMMA OnlyDigitsGrows ==
  ASSUME NEW y \in Text, OnlyDigits(y), NEW n \in Words, n \in Seq(Digit)
  PROVE  /\ OnlyDigits(y \o n)
         /\ \A c \in Others : OnlyDigits(Append(y \o n, c))
<1> DEFINE l == Len(y)
           m == Len(n)
           x == y \o n
<1>1. l \in Nat /\ m \in Nat /\ n \in Text
  BY WordsAreText DEF Text
<1>2. Len(x) = l + m /\ \A k \in 1..l + m : x[k] = IF k <= l THEN y[k] ELSE n[k - l]
  BY <1>1, ConcatProperties DEF Text
<1>3. /\ \A k \in 1..l : y[k] \in Alnum => y[k] \in Digit
      /\ \A k \in 1..m : n[k] \in Digit
  BY DEF OnlyDigits
<1> HIDE DEF l, m, x
<1>4. ASSUME NEW k \in 1..l + m, x[k] \in Alnum PROVE x[k] \in Digit
  <2>1. CASE k <= l
    <3>1. k \in 1..l
      BY <1>1, <2>1
    <3> QED  BY <1>2, <1>3, <1>4, <2>1, <3>1
  <2>2. CASE ~(k <= l)
    <3>1. k - l \in 1..m
      BY <1>1, <2>2
    <3> QED  BY <1>2, <1>3, <2>2, <3>1
  <2> QED  BY <2>1, <2>2
<1>5. ASSUME NEW c \in Others PROVE OnlyDigits(Append(x, c))
  <2> DEFINE z == Append(x, c)
  <2>1. /\ Len(z) = l + m + 1 /\ z[l + m + 1] = c
        /\ \A k \in 1..l : x[k] = y[k] /\ z[k] = y[k]
        /\ \A k \in l + 1..l + m : z[k] = x[k]
    BY Joined, Zenon DEF x, l, m
  <2>2. c \notin Alnum
    BY WordsAreText
  <2> HIDE DEF z
  <2>3. ASSUME NEW k \in 1..l + m + 1, z[k] \in Alnum PROVE z[k] \in Digit
    <3>1. k # l + m + 1
      BY <2>1, <2>2, <2>3
    <3>2. k \in 1..l + m /\ (k \in 1..l \/ k \in l + 1..l + m)
      BY <1>1, <3>1
    <3>3. z[k] = x[k]
      BY <2>1, <3>2
    <3> QED  BY <1>4, <2>3, <3>2, <3>3
  <2>4. OnlyDigits(z)
    BY <2>1, <2>3 DEF OnlyDigits
  <2> QED  BY <2>4 DEF z
<1>6. OnlyDigits(x)
  BY <1>2, <1>4 DEF OnlyDigits
<1> QED  BY <1>5, <1>6 DEF x

LEMMA ReplacedOnlyDigits ==
  ASSUME NEW G, \A w, n \in Words : <<w, n>> \in G => n \in Seq(Digit),
         NEW a, NEW b, <<a, b>> \in ReplacedAll(G)
  PROVE  OnlyDigits(b)
<1> DEFINE R == {x \in Text \X Text : OnlyDigits(x[2])}
<1>1. R \in SUBSET (Text \X Text)
  OBVIOUS
<1>2. << << >>, << >> >> \in R
  BY WordsAreText DEF OnlyDigits
<1>3. ASSUME NEW d \in Text, NEW e \in Text, NEW w \in Words, NEW n \in Words,
             NEW c \in Others, <<d, e>> \in R, <<w, n>> \in G
      PROVE  <<Append(d \o w, c), Append(e \o n, c)>> \in R
  <2> DEFINE x == Append(d \o w, c)
             y == Append(e \o n, c)
             z == <<x, y>>
  <2>1. OnlyDigits(e) /\ n \in Seq(Digit)
    BY <1>3
  <2>2. OnlyDigits(y)
    BY <2>1, OnlyDigitsGrows, Zenon
  <2>3. x \in Text /\ y \in Text
    BY WordsAreText
  <2> HIDE DEF x, y
  <2>4. z \in Text \X Text /\ z[2] = y
    BY <2>3
  <2> HIDE DEF z
  <2>5. z \in R
    BY <2>2, <2>4
  <2> QED  BY <2>5 DEF x, y, z
<1>4. Closed(G, R)
  <2> HIDE DEF R
  <2> QED  BY <1>2, <1>3, Zenon DEF Closed
<1>5. PICK x \in Text, y \in Text, w \in Words, n \in Words :
        /\ <<x, y>> \in Replaced(G) /\ <<w, n>> \in G
        /\ <<a, b>> = <<x \o w, y \o n>>
  BY Zenon DEF ReplacedAll
<1>6. <<x, y>> \in R
  <2> HIDE DEF R
  <2> QED  BY <1>1, <1>4, <1>5, ReplacedInduction
<1>7. OnlyDigits(y) /\ n \in Seq(Digit) /\ b = y \o n
  BY <1>5, <1>6
<1>8. OnlyDigits(y \o n)
  BY <1>5, <1>7, OnlyDigitsGrows
<1> QED  BY <1>7, <1>8, Zenon

Reversed(G) == {<<z[2], z[1]>> : z \in G}

LEMMA ReversedPairs ==
  ASSUME NEW G, G \subseteq Words \X Words, NEW w, NEW n
  PROVE  <<n, w>> \in Reversed(G) <=> <<w, n>> \in G
<1>1. \A z \in G : z = <<z[1], z[2]>>
  OBVIOUS
<1>2. ASSUME <<n, w>> \in Reversed(G) PROVE <<w, n>> \in G
  <2>1. PICK z \in G : <<n, w>> = <<z[2], z[1]>>
    BY <1>2 DEF Reversed
  <2>2. z = <<w, n>>
    BY <1>1, <2>1
  <2> QED  BY <2>1, <2>2
<1>3. ASSUME <<w, n>> \in G PROVE <<n, w>> \in Reversed(G)
  <2> DEFINE z == <<w, n>>
  <2>1. z \in G /\ z[1] = w /\ z[2] = n
    BY <1>3
  <2> HIDE DEF z
  <2> QED  BY <2>1 DEF Reversed
<1> QED  BY <1>2, <1>3

(* What undoes a renaming of words undoes that of texts.                   *)
LEMMA ReplacedReversed ==
  ASSUME NEW G, G \subseteq Words \X Words, NEW a, NEW b
  PROVE  /\ <<b, a>> \in Replaced(Reversed(G)) => <<a, b>> \in Replaced(G)
         /\ <<b, a>> \in ReplacedAll(Reversed(G)) => <<a, b>> \in ReplacedAll(G)
<1> DEFINE H == Reversed(G)
           R == {x \in Text \X Text : <<x[2], x[1]>> \in Replaced(G)}
<1>1. R \in SUBSET (Text \X Text)
  OBVIOUS
<1>2. << << >>, << >> >> \in R
  BY NothingReplaced, WordsAreText
<1>3. ASSUME NEW d \in Text, NEW e \in Text, NEW w \in Words, NEW n \in Words,
             NEW c \in Others, <<d, e>> \in R, <<w, n>> \in H
      PROVE  <<Append(d \o w, c), Append(e \o n, c)>> \in R
  <2> DEFINE x == Append(d \o w, c)
             y == Append(e \o n, c)
             z == <<x, y>>
  <2>1. <<e, d>> \in Replaced(G)
    BY <1>3
  <2>2. <<n, w>> \in G
    BY <1>3, ReversedPairs
  <2>3. <<y, x>> \in Replaced(G)
    BY <2>1, <2>2, WordReplaced
  <2>4. x \in Text /\ y \in Text
    BY WordsAreText
  <2> HIDE DEF x, y
  <2>5. z \in Text \X Text /\ z[2] = y /\ z[1] = x
    BY <2>4
  <2> HIDE DEF z
  <2>6. z \in R
    BY <2>3, <2>5
  <2> QED  BY <2>6 DEF x, y, z
<1>4. Closed(H, R)
  <2> HIDE DEF R, H
  <2> QED  BY <1>2, <1>3, Zenon DEF Closed
<1>5. ASSUME NEW x, NEW y, <<x, y>> \in Replaced(H)
      PROVE  <<y, x>> \in Replaced(G)
  <2>1. <<x, y>> \in R
    <3> HIDE DEF R, H
    <3> QED  BY <1>1, <1>4, <1>5, ReplacedInduction
  <2> QED  BY <2>1
<1>6. ASSUME <<b, a>> \in ReplacedAll(H) PROVE <<a, b>> \in ReplacedAll(G)
  <2>1. PICK x \in Text, y \in Text, w \in Words, n \in Words :
          /\ <<x, y>> \in Replaced(H) /\ <<w, n>> \in H
          /\ <<b, a>> = <<x \o w, y \o n>>
    BY <1>6, Zenon DEF ReplacedAll
  <2>2. <<y, x>> \in Replaced(G) /\ <<n, w>> \in G
    BY <1>5, <2>1, ReversedPairs
  <2>3. <<a, b>> = <<y \o n, x \o w>>
    BY <2>1
  <2>4. y \o n \in Text /\ x \o w \in Text
    BY <2>1, WordsAreText
  <2>5. <<a, b>> \in Text \X Text
    BY <2>3, <2>4
  <2> QED  BY <2>1, <2>2, <2>3, <2>5, Zenon DEF ReplacedAll
<1> QED  BY <1>5, <1>6

-----------------------------------------------------------------------------
(* A thread that reads x, is at position k, has read the word w and built  *)
(* r: what it read before w became r.                                      *)
Scanned(G, x, k, w, r) ==
  \E a \in Text : /\ <<a, r>> \in Replaced(G)
                  /\ k = Len(a) + Len(w) + 1 /\ Begins(a \o w, x)

(* The text ended in a word, and that word too is in r.                    *)
Finished(G, x, k, w, r) ==
  k > Len(x) /\ w = << >> /\ <<x, r>> \in ReplacedAll(G)

AtSeparator(x, k) == k <= Len(x) => x[k] \in Others

Keeps(G) == << << >>, << >> >> \in G

LEMMA ScanStarts ==
  ASSUME NEW G, NEW x \in Text
  PROVE  Scanned(G, x, 1, << >>, << >>)
<1>1. << >> \o << >> = << >> /\ << >> \in Text
  BY WordsAreText
<1>2. Begins(<< >> \o << >>, x)
  <2>1. Len(x) \in Nat
    BY DEF Text
  <2> QED  BY <1>1, <2>1 DEF Begins
<1>3. 1 = Len(<< >>) + Len(<< >>) + 1
  OBVIOUS
<1> QED  BY <1>1, <1>2, <1>3, NothingReplaced, Zenon DEF Scanned

LEMMA ScanReads ==
  ASSUME NEW G, NEW x \in Text, NEW k, NEW w \in Words, NEW r,
         Scanned(G, x, k, w, r), k <= Len(x), x[k] \in Alnum
  PROVE  Scanned(G, x, k + 1, Append(w, x[k]), r)
<1>1. PICK a \in Text : /\ <<a, r>> \in Replaced(G)
                        /\ k = Len(a) + Len(w) + 1 /\ Begins(a \o w, x)
  BY Zenon DEF Scanned
<1> DEFINE c == x[k]
           v == Append(w, c)
           l == Len(a)
           m == Len(w)
           p == a \o w
           q == a \o v
<1>2. /\ v \in Words /\ Len(v) = m + 1 /\ v[m + 1] = c
      /\ \A j \in 1..m : v[j] = w[j]
  BY AppendProperties DEF Words
<1>3. l \in Nat /\ m \in Nat /\ Len(x) \in Nat
  BY <1>1 DEF Text, Words
<1>4. /\ Len(p) = l + m
      /\ \A j \in 1..l + m : p[j] = IF j <= l THEN a[j] ELSE w[j - l]
  BY <1>1, WordsAreText, ConcatProperties DEF Text
<1>5. /\ Len(q) = l + Len(v)
      /\ \A j \in 1..l + Len(v) : q[j] = IF j <= l THEN a[j] ELSE v[j - l]
  <2> HIDE DEF v
  <2>1. v \in Text /\ a \in Text
    BY <1>1, <1>2, WordsAreText
  <2> QED  BY <2>1, ConcatProperties DEF Text
<1>6. k = l + m + 1 /\ \A j \in 1..Len(p) : x[j] = p[j]
  BY <1>1 DEF Begins
<1> HIDE DEF l, m, p, q, v, c
<1>7. ASSUME NEW j \in 1..l + m + 1 PROVE x[j] = q[j]
  <2>1. q[j] = IF j <= l THEN a[j] ELSE v[j - l]
    BY <1>2, <1>3, <1>5
  <2>2. CASE j = l + m + 1
    <3>1. ~(j <= l) /\ j - l = m + 1 /\ j = k
      BY <1>3, <1>6, <2>2
    <3> QED  BY <1>2, <2>1, <3>1 DEF c
  <2>3. CASE j <= l
    <3>1. j \in 1..l + m
      BY <1>3, <2>3
    <3> QED  BY <1>4, <1>6, <2>1, <2>3, <3>1
  <2>4. CASE ~(j <= l) /\ j # l + m + 1
    <3>1. j \in 1..l + m /\ j - l \in 1..m
      BY <1>3, <2>4
    <3> QED  BY <1>2, <1>4, <1>6, <2>1, <2>4, <3>1
  <2> QED  BY <2>2, <2>3, <2>4
<1>8. Begins(q, x)
  <2>1. Len(q) = l + m + 1 /\ Len(q) <= Len(x)
    BY <1>2, <1>3, <1>5, <1>6
  <2> QED  BY <1>7, <2>1, Zenon DEF Begins
<1>9. k + 1 = Len(a) + Len(v) + 1
  BY <1>2, <1>3, <1>6 DEF l
<1>10. Scanned(G, x, k + 1, v, r)
  BY <1>1, <1>8, <1>9, Zenon DEF Scanned, q
<1> QED  BY <1>10 DEF v, c

LEMMA ScanReplaces ==
  ASSUME NEW G, NEW x \in Text, NEW k, NEW w \in Words, NEW n \in Words,
         NEW r \in Text,
         Scanned(G, x, k, w, r), <<w, n>> \in G
  PROVE  /\ k <= Len(x) /\ x[k] \in Others =>
              Scanned(G, x, k + 1, << >>, r \o n \o <<x[k]>>)
         /\ ~(k <= Len(x)) => Finished(G, x, k + 1, << >>, r \o n \o << >>)
<1>1. PICK a \in Text : /\ <<a, r>> \in Replaced(G)
                        /\ k = Len(a) + Len(w) + 1 /\ Begins(a \o w, x)
  BY Zenon DEF Scanned
<1> DEFINE l == Len(a)
           m == Len(w)
           p == a \o w
           c == x[k]
<1>2. /\ l \in Nat /\ m \in Nat /\ Len(x) \in Nat
      /\ p \in Text /\ Len(p) = l + m
  <2>1. Len(x) \in Nat
    BY DEF Text
  <2>2. w \in Text
    BY WordsAreText
  <2>3. p \in Text /\ Len(p) = l + m /\ l \in Nat /\ m \in Nat
    BY <1>1, <2>2, ConcatProperties DEF Text
  <2> QED  BY <2>1, <2>3
<1>3. k = l + m + 1 /\ Len(p) <= Len(x) /\ \A j \in 1..Len(p) : x[j] = p[j]
  BY <1>1 DEF Begins
<1>4. r \o n \in Text
  BY WordsAreText
<1> HIDE DEF l, m, p, c
<1>5. ASSUME k <= Len(x), c \in Others
      PROVE  Scanned(G, x, k + 1, << >>, r \o n \o <<c>>)
  <2> DEFINE q == Append(p, c)
  <2>1. r \o n \o <<c>> = Append(r \o n, c)
    <3>1. c \in Alnum \cup Others
      BY <1>5
    <3> DEFINE s == r \o n
    <3> HIDE DEF s
    <3>2. s \in Seq(Alnum \cup Others)
      BY <1>4 DEF s, Text
    <3>3. Append(s, c) = s \o <<c>>
      BY <3>1, <3>2, AppendIsConcat
    <3> QED  BY <3>3, Zenon DEF s
  <2>2. <<q, Append(r \o n, c)>> \in Replaced(G)
    BY <1>1, <1>5, WordReplaced DEF p
  <2>3. q \in Text /\ Len(q) = l + m + 1 /\ q[l + m + 1] = c
        /\ \A j \in 1..l + m : q[j] = p[j]
    <3>1. c \in Alnum \cup Others
      BY <1>5
    <3> QED  BY <1>2, <3>1, AppendProperties DEF Text
  <2>4. q \o << >> = q
    BY <2>3, ConcatEmptySeq DEF Text
  <2> HIDE DEF q
  <2>5. ASSUME NEW j \in 1..l + m + 1 PROVE x[j] = q[j]
    <3>1. CASE j = l + m + 1
      BY <1>3, <2>3, <3>1 DEF c
    <3>2. CASE j \in 1..l + m
      BY <1>2, <1>3, <2>3, <3>2
    <3> QED  BY <1>2, <3>1, <3>2
  <2>6. Begins(q, x)
    BY <1>2, <1>3, <1>5, <2>3, <2>5 DEF Begins
  <2>7. k + 1 = Len(q) + Len(<< >>) + 1
    BY <1>2, <1>3, <2>3
  <2> QED  BY <2>1, <2>2, <2>3, <2>4, <2>6, <2>7, Zenon DEF Scanned
<1>6. ASSUME ~(k <= Len(x))
      PROVE  Finished(G, x, k + 1, << >>, r \o n \o << >>)
  <2>1. Len(x) = Len(p)
    BY <1>2, <1>3, <1>6
  <2>2. x = p
    BY <1>2, <1>3, <2>1, SeqEqual DEF Text
  <2>3. r \o n \o << >> = r \o n
    BY <1>4, ConcatEmptySeq DEF Text
  <2>4. <<x, r \o n>> \in ReplacedAll(G)
    <3>1. <<x, r \o n>> \in Text \X Text /\ <<x, r \o n>> = <<a \o w, r \o n>>
      BY <1>4, <2>2 DEF p
    <3> QED  BY <1>1, <3>1, Zenon DEF ReplacedAll
  <2>5. k + 1 > Len(x)
    BY <1>2, <1>3, <1>6
  <2> QED  BY <2>3, <2>4, <2>5, Zenon DEF Finished
<1> QED  BY <1>5, <1>6 DEF c

LEMMA ScanCopies ==
  ASSUME NEW G, Keeps(G), NEW x \in Text, NEW k, NEW r \in Text,
         Scanned(G, x, k, << >>, r), k <= Len(x), x[k] \in Others
  PROVE  Scanned(G, x, k + 1, << >>, Append(r, x[k]))
<1> DEFINE c == x[k]
<1>1. << >> \in Words /\ c \in Alnum \cup Others
  BY WordsAreText
<1>2. Scanned(G, x, k + 1, << >>, r \o << >> \o <<c>>)
  BY <1>1, ScanReplaces, Zenon DEF Keeps
<1> HIDE DEF c
<1>3. r \o << >> = r
  BY ConcatEmptySeq DEF Text
<1>4. r \o <<c>> = Append(r, c)
  BY <1>1, AppendIsConcat DEF Text
<1>5. r \o << >> \o <<c>> = Append(r, c)
  BY <1>3, <1>4, Zenon
<1> QED  BY <1>2, <1>5, Zenon DEF c

LEMMA ScanEnds ==
  ASSUME NEW G, Keeps(G), NEW x \in Text, NEW k, NEW r \in Text,
         Scanned(G, x, k, << >>, r), ~(k <= Len(x))
  PROVE  <<x, r>> \in ReplacedAll(G)
<1>1. Finished(G, x, k + 1, << >>, r \o << >> \o << >>)
  BY WordsAreText, ScanReplaces, Zenon DEF Keeps
<1>2. r \o << >> = r
  BY ConcatEmptySeq DEF Text
<1> QED  BY <1>1, <1>2, Zenon DEF Finished

(* A word that ends in a text of replacements is one of them.              *)
LEMMA ScanFinds ==
  ASSUME NEW G, NEW s, NEW x, <<s, x>> \in ReplacedAll(G),
         NEW H, NEW k, NEW v \in Words, NEW r, Scanned(H, x, k, v, r),
         AtSeparator(x, k)
  PROVE  \E w \in Words : <<w, v>> \in G
<1>1. PICK a \in Text : /\ <<a, r>> \in Replaced(H)
                        /\ k = Len(a) + Len(v) + 1 /\ Begins(a \o v, x)
  BY Zenon DEF Scanned
<1> DEFINE p == a \o v
<1>2. EndsWord(a)
  BY <1>1, EndsOfReplaced
<1>3. x \in Text
  BY DEF ReplacedAll
<1>4. /\ p \in Text /\ Len(p) = Len(a) + Len(v)
      /\ Len(a) \in Nat /\ Len(v) \in Nat /\ Len(x) \in Nat
  <2>1. v \in Text
    BY WordsAreText
  <2> QED  BY <1>1, <1>3, <2>1, ConcatProperties DEF Text
<1>5. Len(p) <= Len(x) /\ \A j \in 1..Len(p) : x[j] = p[j]
  BY <1>1 DEF Begins
<1>6. CASE k <= Len(x)
  <2> DEFINE c == x[k]
             q == Append(p, c)
  <2>1. c \in Others
    BY <1>6 DEF AtSeparator
  <2>2. Ended(q, a, v, c)
    BY <1>1, <1>2, <2>1, Zenon DEF Ended
  <2>3. Len(q) = Len(p) + 1 /\ q[Len(p) + 1] = c
        /\ \A j \in 1..Len(p) : q[j] = p[j]
    <3> HIDE DEF p, c
    <3>1. c \in Alnum \cup Others
      BY <2>1
    <3> QED  BY <1>4, <3>1, AppendProperties DEF Text
  <2>4. k = Len(p) + 1
    BY <1>1, <1>4
  <2> HIDE DEF p, q
  <2>5. ASSUME NEW j \in 1..Len(p) + 1 PROVE x[j] = q[j]
    <3>1. CASE j = Len(p) + 1
      BY <2>3, <2>4, <3>1
    <3>2. CASE j \in 1..Len(p)
      BY <1>5, <2>3, <3>2
    <3>3. Len(p) \in Nat
      BY <1>4
    <3> QED  BY <3>1, <3>2, <3>3
  <2>6. Begins(q, x)
    BY <1>6, <2>3, <2>4, <2>5 DEF Begins
  <2>7. WordsReplace(G, x)
    BY ReplacedAllWords
  <2> QED  BY <2>2, <2>6, <2>7, Zenon DEF WordsReplace
<1>7. CASE ~(k <= Len(x))
  <2> HIDE DEF p
  <2>1. Len(x) = Len(p)
    BY <1>1, <1>4, <1>5, <1>7
  <2>2. x = p
    BY <1>3, <1>4, <1>5, <2>1, SeqEqual DEF Text
  <2>3. Split(x, a, v)
    BY <1>1, <1>2, <2>2, Zenon DEF Split, p
  <2> QED  BY <2>3, ReplacedAllWords, Zenon
<1> QED  BY <1>6, <1>7

-----------------------------------------------------------------------------
(* Types.                                                                  *)

Labels == {"compact", "lockID", "findID", "addToken", "addID", "bump",
           "expand", "lockToken", "findToken", "done", "threw"}

LEMMA TextInit == Init => TextInv
<1> SUFFICES ASSUME Init PROVE TextInv
  OBVIOUS
<1>1. Sources \cup Bytes \subseteq Text
  BY SourcesAssumption
<1>2. source \in [Threads -> Text]
  BY <1>1 DEF Init
<1>3. result \in [Threads -> Text]
  BY WordsAreText DEF Init
<1>4. i \in [Threads -> Nat \ {0}]
  BY DEF Init
<1>5. << >> \notin DOMAIN token_id_map
  BY DEF Init
<1> QED  BY <1>2, <1>3, <1>4, <1>5 DEF Init, TextInv

(* The numbers given out have tokens, and a number that is looked up to    *)
(* expand a word has one that is a word.                                   *)
LEMMA TokensAreWords ==
  ASSUME DictionaryInv, NEW n \in DOMAIN id_token_map
  PROVE  n \in Nat /\ id_token_map[n] \in DOMAIN token_id_map
<1>1. CASE n \in 0..current_id - 1
  BY <1>1 DEF DictionaryInv, NumbersInv
<1>2. CASE n = current_id /\ \E t \in Threads : pc[t] = "bump"
  BY <1>2 DEF DictionaryInv, AddingInv
<1> QED  BY <1>1, <1>2, Zenon DEF DictionaryInv, NumbersInv

(* Back in the loop with a word that replaces the one read.                *)
LEMMA TextReplace ==
  ASSUME DictionaryInv, TextInv, NEW t \in Threads, NEW by \in Words,
         Replace(t, by), NEW label \in {"compact", "expand"}, Goto(t, label),
         UNCHANGED token_id_map
  PROVE  TextInv'
<1>1. word \in [Threads -> Seq(Alnum)] /\ pc \in [Threads -> Labels]
  BY DEF DictionaryInv, Labels
<1>2. WordEnd(t) \in Text
  <2>1. text[t] \in Seq(Alnum \cup Others) /\ i[t] \in Nat \ {0}
    BY DEF TextInv, Text
  <2>2. CASE i[t] <= Len(text[t])
    <3>1. text[t][i[t]] \in Alnum \cup Others
      BY <2>1, <2>2
    <3> QED  BY <2>2, <3>1 DEF WordEnd, Text
  <2>3. CASE ~(i[t] <= Len(text[t]))
    BY <2>3, WordsAreText DEF WordEnd
  <2> QED  BY <2>2, <2>3
<1>3. result[t] \o by \o WordEnd(t) \in Text
  <2>1. result[t] \in Text /\ by \in Text
    BY WordsAreText DEF TextInv
  <2> QED  BY <1>2, <2>1 DEF Text
<1> DEFINE built == result[t] \o by \o WordEnd(t)
<1>4. result' = [result EXCEPT ![t] = built] /\ i' = [i EXCEPT ![t] = @ + 1]
  BY DEF Replace
<1> HIDE DEF built
<1>5. result' \in [Threads -> Text] /\ i' \in [Threads -> Nat \ {0}]
  BY <1>3, <1>4 DEF TextInv, built
<1>6. ASSUME NEW u \in Threads, u # t
      PROVE  pc'[u] = pc[u] /\ word'[u] = word[u]
  BY <1>1, <1>6 DEF Replace, Goto
<1>7. pc'[t] = label
  BY <1>1 DEF Goto
<1> QED  BY <1>5, <1>6, <1>7 DEF TextInv, Replace

(* Steps that change positions only.                                       *)
LEMMA TextGoto ==
  ASSUME TextInv, NEW t \in Threads, pc \in [Threads -> Labels],
         NEW label \in Labels, Goto(t, label),
         label \in {"done", "threw", "expand", "compact"} \/ word[t] # << >>,
         UNCHANGED <<source, text, i, result, word, token_id_map>>
  PROVE  TextInv'
BY DEF TextInv, Goto

LEMMA TextReadChar ==
  ASSUME DictionaryInv, TextInv, NEW t \in Threads, ReadChar(t)
  PROVE  TextInv'
<1> DEFINE c == text[t][i[t]]
<1>1. /\ word \in [Threads -> Seq(Alnum)] /\ pc \in [Threads -> Labels]
      /\ pc[t] \in {"compact", "expand"} /\ i[t] <= Len(text[t])
      /\ UNCHANGED <<source, text, token_id_map>>
  BY DEF DictionaryInv, Labels, ReadChar, dictVars
<1>2. c \in Alnum \cup Others
  BY <1>1 DEF TextInv, Text
<1>3. \/ /\ word' = [word EXCEPT ![t] = Append(@, c)]
         /\ i' = [i EXCEPT ![t] = @ + 1] /\ UNCHANGED <<pc, result>>
      \/ /\ word[t] # << >>
         /\ Goto(t, IF pc[t] = "compact" THEN "lockID" ELSE "lockToken")
         /\ UNCHANGED <<word, i, result>>
      \/ /\ result' = [result EXCEPT ![t] = Append(@, c)]
         /\ i' = [i EXCEPT ![t] = @ + 1] /\ UNCHANGED <<pc, word>>
  BY DEF ReadChar
<1> HIDE DEF c
<1>4. CASE /\ word' = [word EXCEPT ![t] = Append(@, c)]
           /\ i' = [i EXCEPT ![t] = @ + 1] /\ UNCHANGED <<pc, result>>
  BY <1>1, <1>4 DEF TextInv
<1>5. CASE /\ word[t] # << >>
           /\ Goto(t, IF pc[t] = "compact" THEN "lockID" ELSE "lockToken")
           /\ UNCHANGED <<word, i, result>>
  <2>1. PICK label \in Labels : Goto(t, label)
    BY <1>5 DEF Labels
  <2> QED  BY <1>1, <1>5, <2>1, TextGoto
<1>6. CASE /\ result' = [result EXCEPT ![t] = Append(@, c)]
           /\ i' = [i EXCEPT ![t] = @ + 1] /\ UNCHANGED <<pc, word>>
  <2>1. Append(result[t], c) \in Text
    BY <1>2 DEF TextInv, Text
  <2>2. result' \in [Threads -> Text] /\ i' \in [Threads -> Nat \ {0}]
    BY <1>6, <2>1 DEF TextInv
  <2> QED  BY <1>1, <1>6, <2>2 DEF TextInv
<1> QED  BY <1>3, <1>4, <1>5, <1>6

LEMMA TextNext == DictionaryInv /\ TextInv /\ [Next]_vars => TextInv'
<1> SUFFICES ASSUME DictionaryInv, TextInv, [Next]_vars PROVE TextInv'
  OBVIOUS
<1>1. pc \in [Threads -> Labels] /\ word \in [Threads -> Seq(Alnum)]
  BY DEF DictionaryInv, Labels
<1>2. ASSUME NEW t \in Threads, ReadLastWord(t) PROVE TextInv'
  <2>1. PICK label \in Labels : Goto(t, label)
    BY <1>2 DEF ReadLastWord, Labels
  <2> QED
    BY <1>1, <1>2, <2>1, TextGoto DEF ReadLastWord, textVars, dictVars
<1>3. ASSUME NEW t \in Threads, Lock(t) \/ MissID(t) PROVE TextInv'
  <2>1. PICK label \in Labels : Goto(t, label)
    BY <1>3 DEF Lock, MissID, Labels
  <2>2. word[t] # << >>
    BY <1>3 DEF Lock, MissID, TextInv
  <2> QED
    BY <1>1, <1>3, <2>1, <2>2, TextGoto DEF Lock, MissID, textVars, dictVars
<1>4. ASSUME NEW t \in Threads, AddToken(t) PROVE TextInv'
  <2>1. word[t] # << >> /\ Goto(t, "addID")
    BY <1>4 DEF AddToken, TextInv
  <2>2. DOMAIN token_id_map' = DOMAIN token_id_map \cup {word[t]}
    BY <1>4 DEF AddToken
  <2> QED
    BY <1>1, <1>4, <2>1, <2>2 DEF TextInv, AddToken, Goto, textVars
<1>5. ASSUME NEW t \in Threads, AddID(t) PROVE TextInv'
  <2>1. word[t] # << >> /\ Goto(t, "bump") /\ "bump" \in Labels
    BY <1>5 DEF AddID, TextInv, Labels
  <2>2. UNCHANGED <<source, text, i, result, word, token_id_map>>
    BY <1>5 DEF AddID, textVars
  <2> QED  BY <1>1, <2>1, <2>2, TextGoto
<1>6. ASSUME NEW t \in Threads, FindID(t) PROVE TextInv'
  <2> DEFINE by == IDToString[token_id_map[word[t]]]
  <2>1. token_id_map[word[t]] \in Nat
    BY <1>6 DEF FindID, IsNewToken, DictionaryInv, NumbersInv
  <2>2. by \in Words
    BY <2>1, NumeralsAreRead, WordsAreText
  <2>3. Replace(t, by) /\ Goto(t, "compact") /\ UNCHANGED token_id_map
    BY <1>6 DEF FindID, dictVars
  <2> HIDE DEF by
  <2> QED  BY <2>2, <2>3, TextReplace
<1>7. ASSUME NEW t \in Threads, Bump(t) PROVE TextInv'
  <2> DEFINE by == IDToString[current_id]
  <2>1. current_id \in Nat
    BY DEF DictionaryInv
  <2>2. by \in Words
    BY <2>1, NumeralsAreRead, WordsAreText
  <2>3. Replace(t, by) /\ Goto(t, "compact") /\ UNCHANGED token_id_map
    BY <1>7 DEF Bump
  <2> HIDE DEF by
  <2> QED  BY <2>2, <2>3, TextReplace
<1>8. ASSUME NEW t \in Threads, FindToken(t) PROVE TextInv'
  <2> DEFINE by == id_token_map[StringToID(word[t])]
  <2>1. by \in Words
    BY <1>8, TokensAreWords DEF FindToken, DictionaryInv, Words
  <2>2. Replace(t, by) /\ Goto(t, "expand") /\ UNCHANGED token_id_map
    BY <1>8 DEF FindToken, dictVars
  <2> HIDE DEF by
  <2> QED  BY <2>1, <2>2, TextReplace
<1>9. ASSUME NEW t \in Threads, CompactReturns(t) PROVE TextInv'
  <2>1. /\ text' = [text EXCEPT ![t] = result[t]]
        /\ i' = [i EXCEPT ![t] = 1]
        /\ result' = [result EXCEPT ![t] = << >>]
        /\ pc' = [pc EXCEPT ![t] = "expand"]
        /\ UNCHANGED <<source, word, token_id_map>>
    BY <1>9 DEF CompactReturns, Goto, dictVars
  <2>2. << >> \in Text
    BY WordsAreText
  <2> QED  BY <1>1, <2>1, <2>2 DEF TextInv
<1>10. ASSUME NEW t \in Threads, MissToken(t) \/ ExpandReturns(t)
       PROVE  TextInv'
  <2>1. PICK label \in {"done", "threw"} : Goto(t, label)
    BY <1>10 DEF MissToken, ExpandReturns
  <2>2. label \in Labels
    BY <2>1 DEF Labels
  <2> QED
    BY <1>1, <1>10, <2>1, <2>2, TextGoto
       DEF MissToken, ExpandReturns, textVars, dictVars
<1>11. CASE UNCHANGED vars
  BY <1>11 DEF vars, textVars, dictVars, TextInv
<1> QED
  BY <1>2, <1>3, <1>4, <1>5, <1>6, <1>7, <1>8, <1>9, <1>10, <1>11, TextReadChar
     DEF Next, Step, Over

(* For any threads and expressions every variable holds a value of its     *)
(* type: no lookup of GetID or GetToken yields anything but a word, and no *)
(* string is built of anything but characters of the input and digits.     *)
THEOREM TypeCorrect == Spec => []TypeOK
<1>1. Init => DictionaryInv /\ TextInv
  BY DictionaryInit, TextInit
<1>2. (DictionaryInv /\ TextInv) /\ [Next]_vars => (DictionaryInv /\ TextInv)'
  BY DictionaryNext, TextNext
<1>3. DictionaryInv /\ TextInv => TypeOK
  <2> SUFFICES ASSUME DictionaryInv, TextInv PROVE TypeOK
    OBVIOUS
  <2>1. \A w \in DOMAIN token_id_map : token_id_map[w] \in Nat
    BY DEF DictionaryInv, NumbersInv
  <2>2. \A n \in DOMAIN id_token_map : n \in Nat /\ id_token_map[n] \in Seq(Alnum)
    BY TokensAreWords DEF DictionaryInv
  <2> QED  BY <2>1, <2>2 DEF DictionaryInv, TextInv, TypeOK
<1> QED  BY <1>1, <1>2, <1>3, PTL DEF Spec

-----------------------------------------------------------------------------
(* The round trip.                                                         *)

(* The renaming the dictionary stands for: an empty word is left alone.    *)
Numbered ==
  {<< << >>, << >> >>} \cup
  {<<w, IDToString[token_id_map[w]]>> : w \in DOMAIN token_id_map}

LEMMA NumberedIs ==
  ASSUME DictionaryInv, TextInv
  PROVE  /\ Numbered \subseteq Words \X Words
         /\ \A w, n : <<w, n>> \in Numbered <=>
              \/ w = << >> /\ n = << >>
              \/ w \in DOMAIN token_id_map /\ n = IDToString[token_id_map[w]]
         /\ \A w \in DOMAIN token_id_map :
              /\ w # << >> /\ w \in Words /\ token_id_map[w] \in 0..current_id
              /\ IDToString[token_id_map[w]] \in Seq(Digit) \ {<< >>}
<1>1. ASSUME NEW w \in DOMAIN token_id_map
      PROVE  /\ w # << >> /\ w \in Words /\ token_id_map[w] \in 0..current_id
             /\ IDToString[token_id_map[w]] \in Seq(Digit) \ {<< >>}
             /\ IDToString[token_id_map[w]] \in Words
  <2>1. w # << >> /\ w \in Words /\ token_id_map[w] \in 0..current_id
    BY DEF DictionaryInv, NumbersInv, TextInv, Words
  <2>2. token_id_map[w] \in Nat
    BY <2>1 DEF DictionaryInv
  <2> QED  BY <2>1, <2>2, NumeralsAreRead, WordsAreText
<1>2. \A w, n : <<w, n>> \in Numbered <=>
              \/ w = << >> /\ n = << >>
              \/ w \in DOMAIN token_id_map /\ n = IDToString[token_id_map[w]]
  BY DEF Numbered
<1>3. Numbered \subseteq Words \X Words
  <2>1. << << >>, << >> >> \in Words \X Words
    BY WordsAreText
  <2> QED  BY <1>1, <2>1 DEF Numbered
<1> QED  BY <1>1, <1>2, <1>3

LEMMA NumberedOneToOne ==
  ASSUME DictionaryInv, TextInv
  PROVE  OneToOne(Numbered)
<1>1. ASSUME NEW v \in DOMAIN token_id_map, NEW w \in DOMAIN token_id_map,
             IDToString[token_id_map[v]] = IDToString[token_id_map[w]]
      PROVE  v = w
  <2>1. token_id_map[v] \in Nat /\ token_id_map[w] \in Nat
    BY DEF DictionaryInv, NumbersInv
  <2>2. token_id_map[v] = token_id_map[w]
    <3>1. /\ StringToID(IDToString[token_id_map[v]]) = token_id_map[v]
          /\ StringToID(IDToString[token_id_map[w]]) = token_id_map[w]
      BY <2>1, NumeralsAreRead
    <3> QED  BY <1>1, <3>1
  <2>3. CASE token_id_map[v] < current_id
    <3>1. \A t \in Threads : pc[t] \in {"addID", "bump"} =>
            word[t] # v /\ word[t] # w
      BY <2>1, <2>2, <2>3 DEF DictionaryInv, AddingInv
    <3>2. id_token_map[token_id_map[v]] = v /\ id_token_map[token_id_map[w]] = w
      BY <3>1, Zenon DEF DictionaryInv, NumbersInv
    <3> QED  BY <2>2, <3>2
  <2>4. CASE ~(token_id_map[v] < current_id)
    <3>1. PICK t \in Threads : pc[t] \in {"addID", "bump"} /\ word[t] = v
      BY <2>4 DEF DictionaryInv, NumbersInv
    <3>2. PICK u \in Threads : pc[u] \in {"addID", "bump"} /\ word[u] = w
      BY <2>2, <2>4 DEF DictionaryInv, NumbersInv
    <3>3. t = u
      BY <3>1, <3>2 DEF DictionaryInv, ExclusionInv, Inside
    <3> QED  BY <3>1, <3>2, <3>3
  <2> QED  BY <2>3, <2>4
<1>2. ASSUME NEW x \in Numbered, NEW y \in Numbered
      PROVE  x[1] = y[1] <=> x[2] = y[2]
  <2>1. <<x[1], x[2]>> \in Numbered /\ <<y[1], y[2]>> \in Numbered
    <3>1. x \in Words \X Words /\ y \in Words \X Words
      BY NumberedIs
    <3>2. x = <<x[1], x[2]>> /\ y = <<y[1], y[2]>>
      BY <3>1
    <3> QED  BY <3>2
  <2>5. \A w, n : <<w, n>> \in Numbered =>
              \/ w = << >> /\ n = << >>
              \/ w \in DOMAIN token_id_map /\ n = IDToString[token_id_map[w]]
    BY NumberedIs, Zenon
  <2>2. \/ x[1] = << >> /\ x[2] = << >>
        \/ x[1] \in DOMAIN token_id_map /\ x[2] = IDToString[token_id_map[x[1]]]
    BY <2>1, <2>5, Zenon
  <2>3. \/ y[1] = << >> /\ y[2] = << >>
        \/ y[1] \in DOMAIN token_id_map /\ y[2] = IDToString[token_id_map[y[1]]]
    BY <2>1, <2>5, Zenon
  <2>4. \A w \in DOMAIN token_id_map :
          w # << >> /\ IDToString[token_id_map[w]] # << >>
    BY NumberedIs, Zenon
  <2> QED  BY <1>1, <2>2, <2>3, <2>4, Zenon
<1> QED  BY <1>2, Zenon DEF OneToOne

LEMMA NumberedGrows ==
  ASSUME DictionaryInv, [Next]_vars
  PROVE  Numbered \subseteq Numbered'
<1>1. \A w \in DOMAIN token_id_map :
        w \in DOMAIN token_id_map' /\ token_id_map'[w] = token_id_map[w]
  <2>1. CASE UNCHANGED token_id_map
    BY <2>1
  <2>2. ASSUME NEW t \in Threads, AddToken(t)
        PROVE  \A w \in DOMAIN token_id_map :
                 w \in DOMAIN token_id_map' /\ token_id_map'[w] = token_id_map[w]
    BY <2>2 DEF DictionaryInv, AddingInv, AddToken
  <2> QED
    BY <2>1, <2>2
       DEF Next, Step, Over, vars, dictVars, ReadChar, ReadLastWord, Lock,
           FindID, MissID, AddID, Bump, CompactReturns, FindToken, MissToken,
           ExpandReturns
<1> QED  BY <1>1 DEF Numbered

-----------------------------------------------------------------------------
Compacting == {"compact", "lockID", "findID", "addToken", "addID", "bump"}
Expanding == {"expand", "lockToken", "findToken"}

(* A thread at p replaces the words of x by those of G.                    *)
Converts(G, p, x, k, w, r) ==
  \/ /\ Scanned(G, x, k, w, r)
     /\ p \notin {"compact", "expand"} => AtSeparator(x, k)
  \/ p \in {"compact", "expand"} /\ Finished(G, x, k, w, r)

(* What a thread at p has of its expression s when the dictionary is G.    *)
OnTrip(G, p, s, x, k, w, r) ==
  /\ p \in Compacting => x = s /\ Converts(G, p, x, k, w, r)
  /\ p \in Expanding => /\ <<s, x>> \in ReplacedAll(G)
                        /\ Converts(Reversed(G), p, x, k, w, r)
  /\ p = "done" => <<s, x>> \in ReplacedAll(G) /\ r = s
  /\ p # "threw"

Trip(G, t) == OnTrip(G, pc[t], source[t], text[t], i[t], word[t], result[t])

TripInv == \A t \in Threads \ Strays : Trip(Numbered, t)

LEMMA ConvertsGrows ==
  ASSUME NEW G, NEW H, G \subseteq H, NEW p, NEW x, NEW k, NEW w, NEW r,
         Converts(G, p, x, k, w, r)
  PROVE  Converts(H, p, x, k, w, r)
<1>1. /\ Replaced(G) \subseteq Replaced(H)
      /\ ReplacedAll(G) \subseteq ReplacedAll(H)
  BY ReplacedGrows
<1> QED  BY <1>1, Zenon DEF Converts, Scanned, Finished

LEMMA OnTripGrows ==
  ASSUME NEW G, NEW H, G \subseteq H, NEW p, NEW s, NEW x, NEW k, NEW w, NEW r,
         OnTrip(G, p, s, x, k, w, r)
  PROVE  OnTrip(H, p, s, x, k, w, r)
<1>1. Reversed(G) \subseteq Reversed(H)
  BY Zenon DEF Reversed
<1>2. ReplacedAll(G) \subseteq ReplacedAll(H)
  BY ReplacedGrows
<1>3. Converts(G, p, x, k, w, r) => Converts(H, p, x, k, w, r)
  BY ConvertsGrows
<1>4. Converts(Reversed(G), p, x, k, w, r) => Converts(Reversed(H), p, x, k, w, r)
  BY <1>1, ConvertsGrows
<1> QED  BY <1>2, <1>3, <1>4, Zenon DEF OnTrip

Loop == {"compact", "expand"}

LEMMA ConvertsScans ==
  ASSUME NEW G, NEW p, NEW x \in Text, NEW k \in Nat, NEW w, NEW r,
         Converts(G, p, x, k, w, r), k <= Len(x) \/ w # << >>
  PROVE  Scanned(G, x, k, w, r)
<1>1. Len(x) \in Nat
  BY DEF Text
<1>2. ~Finished(G, x, k, w, r)
  BY <1>1 DEF Finished
<1> QED  BY <1>2, Zenon DEF Converts

LEMMA OnTripReads ==
  ASSUME NEW G, NEW p \in Loop, NEW s, NEW x \in Text, NEW k \in Nat,
         NEW w \in Words, NEW r, OnTrip(G, p, s, x, k, w, r),
         k <= Len(x), x[k] \in Alnum
  PROVE  OnTrip(G, p, s, x, k + 1, Append(w, x[k]), r)
<1>1. ASSUME NEW H, Converts(H, p, x, k, w, r)
      PROVE  Converts(H, p, x, k + 1, Append(w, x[k]), r)
  <2>1. Scanned(H, x, k, w, r)
    BY <1>1, ConvertsScans
  <2>2. Scanned(H, x, k + 1, Append(w, x[k]), r)
    BY <2>1, ScanReads
  <2> QED  BY <2>2, Zenon DEF Converts, Loop
<1>2. p # "done"
  BY DEF Loop
<1> QED  BY <1>1, <1>2, Zenon DEF OnTrip

LEMMA OnTripCopies ==
  ASSUME NEW G, Keeps(G), G \subseteq Words \X Words,
         NEW p \in Loop, NEW s, NEW x \in Text, NEW k \in Nat,
         NEW r \in Text, OnTrip(G, p, s, x, k, << >>, r),
         k <= Len(x), x[k] \in Others
  PROVE  OnTrip(G, p, s, x, k + 1, << >>, Append(r, x[k]))
<1>1. ASSUME NEW H, Keeps(H), Converts(H, p, x, k, << >>, r)
      PROVE  Converts(H, p, x, k + 1, << >>, Append(r, x[k]))
  <2>1. Scanned(H, x, k, << >>, r)
    BY <1>1, ConvertsScans
  <2>2. Scanned(H, x, k + 1, << >>, Append(r, x[k]))
    BY <1>1, <2>1, ScanCopies
  <2> QED  BY <2>2, Zenon DEF Converts, Loop
<1>2. Keeps(Reversed(G))
  BY ReversedPairs DEF Keeps
<1>3. p # "done"
  BY DEF Loop
<1> QED  BY <1>1, <1>2, <1>3, Zenon DEF OnTrip

LEMMA OnTripEnds ==
  ASSUME NEW G, NEW p \in Loop, NEW s, NEW x \in Text, NEW k \in Nat,
         NEW w, NEW r, OnTrip(G, p, s, x, k, w, r), w # << >>,
         AtSeparator(x, k),
         NEW q, q = IF p = "compact" THEN "lockID" ELSE "lockToken"
  PROVE  OnTrip(G, q, s, x, k, w, r)
<1>1. ASSUME NEW H, Converts(H, p, x, k, w, r) PROVE Converts(H, q, x, k, w, r)
  <2>1. Scanned(H, x, k, w, r)
    BY <1>1, ConvertsScans
  <2> QED  BY <2>1, Zenon DEF Converts
<1>2. /\ q \in Compacting <=> p \in Compacting
      /\ q \in Expanding <=> p \in Expanding
      /\ q # "done" /\ q # "threw"
  BY DEF Loop, Compacting, Expanding
<1> QED  BY <1>1, <1>2, Zenon DEF OnTrip

LEMMA OnTripWaits ==
  ASSUME NEW G, NEW p, NEW q, NEW s, NEW x, NEW k, NEW w, NEW r,
         \/ p \in Compacting \ Loop /\ q \in Compacting \ Loop
         \/ p \in Expanding \ Loop /\ q \in Expanding \ Loop,
         OnTrip(G, p, s, x, k, w, r)
  PROVE  OnTrip(G, q, s, x, k, w, r)
<1>1. ASSUME NEW H, Converts(H, p, x, k, w, r) PROVE Converts(H, q, x, k, w, r)
  BY <1>1, Zenon DEF Converts, Loop
<1>2. /\ q \in Compacting <=> p \in Compacting
      /\ q \in Expanding <=> p \in Expanding
      /\ q # "done" /\ q # "threw"
  BY DEF Loop, Compacting, Expanding
<1> QED  BY <1>1, <1>2, Zenon DEF OnTrip

EndOf(x, k) == IF k <= Len(x) THEN <<x[k]>> ELSE << >>

LEMMA ConvertsReplaces ==
  ASSUME NEW G, NEW p, p \notin Loop, NEW x \in Text, NEW k \in Nat,
         NEW w \in Words, NEW n \in Words, NEW r \in Text,
         Converts(G, p, x, k, w, r), <<w, n>> \in G, NEW q \in Loop
  PROVE  Converts(G, q, x, k + 1, << >>, r \o n \o EndOf(x, k))
<1>1. Scanned(G, x, k, w, r) /\ AtSeparator(x, k)
  BY Zenon DEF Converts, Loop
<1>2. CASE k <= Len(x)
  <2>1. x[k] \in Others /\ EndOf(x, k) = <<x[k]>>
    BY <1>1, <1>2 DEF AtSeparator, EndOf
  <2>2. Scanned(G, x, k + 1, << >>, r \o n \o <<x[k]>>)
    BY <1>1, <1>2, <2>1, ScanReplaces
  <2> QED  BY <2>1, <2>2, Zenon DEF Converts, Loop
<1>3. CASE ~(k <= Len(x))
  <2>1. EndOf(x, k) = << >>
    BY <1>3 DEF EndOf
  <2>2. Finished(G, x, k + 1, << >>, r \o n \o << >>)
    BY <1>1, <1>3, ScanReplaces
  <2> QED  BY <2>1, <2>2, Zenon DEF Converts, Loop
<1> QED  BY <1>2, <1>3

LEMMA OnTripReplaces ==
  ASSUME NEW G, G \subseteq Words \X Words, NEW p, NEW s, NEW x \in Text,
         NEW k \in Nat, NEW w \in Words, NEW n \in Words, NEW r \in Text,
         OnTrip(G, p, s, x, k, w, r)
  PROVE  /\ p \in Compacting \ Loop /\ <<w, n>> \in G =>
              OnTrip(G, "compact", s, x, k + 1, << >>, r \o n \o EndOf(x, k))
         /\ p \in Expanding \ Loop /\ <<n, w>> \in G =>
              OnTrip(G, "expand", s, x, k + 1, << >>, r \o n \o EndOf(x, k))
<1> DEFINE u == r \o n \o EndOf(x, k)
<1>1. ASSUME p \in Compacting \ Loop, <<w, n>> \in G
      PROVE  OnTrip(G, "compact", s, x, k + 1, << >>, u)
  <2>1. x = s /\ Converts(G, p, x, k, w, r) /\ p \notin Loop /\ "compact" \in Loop
    BY <1>1 DEF OnTrip, Loop
  <2>2. Converts(G, "compact", x, k + 1, << >>, u)
    BY <1>1, <2>1, ConvertsReplaces
  <2> HIDE DEF u
  <2> QED  BY <2>1, <2>2 DEF OnTrip, Compacting, Expanding
<1>2. ASSUME p \in Expanding \ Loop, <<n, w>> \in G
      PROVE  OnTrip(G, "expand", s, x, k + 1, << >>, u)
  <2>1. /\ <<s, x>> \in ReplacedAll(G) /\ Converts(Reversed(G), p, x, k, w, r)
        /\ p \notin Loop /\ "expand" \in Loop
    BY <1>2 DEF OnTrip, Loop
  <2>2. <<w, n>> \in Reversed(G)
    BY <1>2, ReversedPairs
  <2>3. Converts(Reversed(G), "expand", x, k + 1, << >>, u)
    BY <2>1, <2>2, ConvertsReplaces
  <2> HIDE DEF u
  <2> QED  BY <2>1, <2>3 DEF OnTrip, Compacting, Expanding
<1> QED  BY <1>1, <1>2

LEMMA ConvertsEnds ==
  ASSUME NEW G, Keeps(G), NEW p, NEW x \in Text, NEW k \in Nat, NEW r \in Text,
         Converts(G, p, x, k, << >>, r), k > Len(x)
  PROVE  <<x, r>> \in ReplacedAll(G)
<1>1. CASE Finished(G, x, k, << >>, r)
  BY <1>1, Zenon DEF Finished
<1>2. CASE Scanned(G, x, k, << >>, r)
  <2>1. ~(k <= Len(x))
    <3>1. Len(x) \in Nat
      BY DEF Text
    <3> QED  BY <3>1
  <2> QED  BY <1>2, <2>1, ScanEnds
<1> QED  BY <1>1, <1>2, Zenon DEF Converts

LEMMA OnTripTurns ==
  ASSUME NEW G, Keeps(G), NEW s, NEW x \in Text, NEW k \in Nat, NEW r \in Text,
         OnTrip(G, "compact", s, x, k, << >>, r), k > Len(x)
  PROVE  OnTrip(G, "expand", s, r, 1, << >>, << >>)
<1>1. x = s /\ Converts(G, "compact", x, k, << >>, r)
  BY DEF OnTrip, Compacting
<1>2. <<s, r>> \in ReplacedAll(G)
  BY <1>1, ConvertsEnds
<1>3. Scanned(Reversed(G), r, 1, << >>, << >>)
  BY ScanStarts
<1>4. Converts(Reversed(G), "expand", r, 1, << >>, << >>)
  BY <1>3, Zenon DEF Converts
<1> QED  BY <1>2, <1>4 DEF OnTrip, Compacting, Expanding

LEMMA OnTripReturns ==
  ASSUME NEW G, Keeps(G), G \subseteq Words \X Words, OneToOne(G),
         NEW s, NEW x \in Text, NEW k \in Nat, NEW r \in Text,
         OnTrip(G, "expand", s, x, k, << >>, r), k > Len(x)
  PROVE  OnTrip(G, "done", s, x, k, << >>, r)
<1>1. <<s, x>> \in ReplacedAll(G) /\ Converts(Reversed(G), "expand", x, k, << >>, r)
  BY DEF OnTrip, Expanding
<1>2. Keeps(Reversed(G))
  BY ReversedPairs DEF Keeps
<1>3. <<x, r>> \in ReplacedAll(Reversed(G))
  BY <1>1, <1>2, ConvertsEnds
<1>4. <<r, x>> \in ReplacedAll(G)
  BY <1>3, ReplacedReversed
<1>5. s = r
  <2>1. \A a, b, d, e : <<a, b>> \in ReplacedAll(G) /\ <<d, e>> \in ReplacedAll(G)
                         => (a = d <=> b = e)
    BY ReplacedAllOneToOne
  <2> QED  BY <1>1, <1>4, <2>1, Zenon
<1> QED  BY <1>1, <1>5 DEF OnTrip, Compacting, Expanding

(* The word a thread expands replaces one of its expression.               *)
LEMMA OnTripFinds ==
  ASSUME NEW G, NEW p \in Expanding \ Loop, NEW s, NEW x, NEW k,
         NEW w \in Words, NEW r, OnTrip(G, p, s, x, k, w, r)
  PROVE  \E v \in Words : <<v, w>> \in G
<1>1. <<s, x>> \in ReplacedAll(G) /\ Converts(Reversed(G), p, x, k, w, r)
  BY DEF OnTrip
<1>2. Scanned(Reversed(G), x, k, w, r) /\ AtSeparator(x, k)
  BY <1>1, Zenon DEF Converts, Loop
<1> QED  BY <1>1, <1>2, ScanFinds

(* A character that ends a word is a separator for both functions.         *)
LEMMA OnTripSeparates ==
  ASSUME NEW G, \A w, n \in Words : <<w, n>> \in G => n \in Seq(Digit),
         NEW p \in Loop, NEW s, NEW x \in Text, NEW k \in Nat \ {0}, NEW w,
         NEW r,
         OnTrip(G, p, s, x, k, w, r), k <= Len(x),
         x[k] \notin IF p = "compact" THEN Alnum ELSE Digit
  PROVE  x[k] \in Others
<1>1. k \in 1..Len(x) /\ x[k] \in Alnum \cup Others
  BY DEF Text
<1>2. CASE p = "compact"
  BY <1>1, <1>2
<1>3. CASE p = "expand"
  <2>1. <<s, x>> \in ReplacedAll(G)
    BY <1>3 DEF OnTrip, Expanding
  <2>2. OnlyDigits(x)
    BY <2>1, ReplacedOnlyDigits
  <2> QED  BY <1>1, <1>3, <2>2 DEF OnlyDigits
<1> QED  BY <1>2, <1>3 DEF Loop

(* What a step makes of its thread's trip, by the old dictionary.          *)
TripAfter(t) ==
  OnTrip(Numbered, pc'[t], source'[t], text'[t], i'[t], word'[t], result'[t])

LEMMA TripTypes ==
  ASSUME DictionaryInv, TextInv
  PROVE  /\ pc \in [Threads -> Labels] /\ word \in [Threads -> Words]
         /\ source \in [Threads -> Text] /\ text \in [Threads -> Text]
         /\ i \in [Threads -> Nat \ {0}] /\ result \in [Threads -> Text]
         /\ Numbered \subseteq Words \X Words
         /\ Keeps(Numbered) /\ OneToOne(Numbered)
         /\ \A w, n \in Words : <<w, n>> \in Numbered => n \in Seq(Digit)
<1>1. Numbered \subseteq Words \X Words
  BY NumberedIs
<1>2. Keeps(Numbered)
  BY DEF Keeps, Numbered
<1>3. OneToOne(Numbered)
  BY NumberedOneToOne
<1>4. ASSUME NEW w \in Words, NEW n \in Words, <<w, n>> \in Numbered
      PROVE  n \in Seq(Digit)
  <2>1. \/ w = << >> /\ n = << >>
        \/ w \in DOMAIN token_id_map /\ n = IDToString[token_id_map[w]]
    BY <1>4, NumberedIs
  <2>2. \A v \in DOMAIN token_id_map : IDToString[token_id_map[v]] \in Seq(Digit)
    BY NumberedIs
  <2>3. << >> \in Seq(Digit)
    OBVIOUS
  <2> QED  BY <2>1, <2>2, <2>3, Zenon
<1> QED  BY <1>1, <1>2, <1>3, <1>4 DEF DictionaryInv, TextInv, Labels, Words

LEMMA TripReadChar ==
  ASSUME DictionaryInv, TextInv, NEW t \in Threads, Trip(Numbered, t),
         ReadChar(t)
  PROVE  TripAfter(t)
<1> DEFINE c == text[t][i[t]]
           p == pc[t]
           s == source[t]
           x == text[t]
           k == i[t]
           w == word[t]
           r == result[t]
<1>1. /\ p \in Loop /\ x \in Text /\ k \in Nat \ {0} /\ w \in Words /\ r \in Text
      /\ k <= Len(x) /\ source'[t] = s /\ text'[t] = x
  BY TripTypes DEF ReadChar, Loop
<1>2. OnTrip(Numbered, p, s, x, k, w, r)
  BY DEF Trip
<1>3. CASE /\ c \in WordChars(t)
           /\ word' = [word EXCEPT ![t] = Append(@, c)]
           /\ i' = [i EXCEPT ![t] = @ + 1]
           /\ UNCHANGED <<pc, result>>
  <2>1. c \in Alnum
    BY <1>3 DEF WordChars, Alnum
  <2>2. /\ pc'[t] = p /\ i'[t] = k + 1 /\ word'[t] = Append(w, c)
        /\ result'[t] = r
    BY <1>3, TripTypes
  <2> HIDE DEF p, s, x, k, w, r
  <2>3. k \in Nat
    BY <1>1
  <2>4. OnTrip(Numbered, p, s, x, k + 1, Append(w, x[k]), r)
    BY <1>1, <1>2, <2>1, <2>3, OnTripReads DEF x, k
  <2>5. c = x[k]
    BY DEF x, k
  <2> QED  BY <1>1, <2>2, <2>4, <2>5, Zenon DEF TripAfter
<1>4. CASE /\ c \notin WordChars(t) /\ word[t] # << >>
           /\ Goto(t, IF pc[t] = "compact" THEN "lockID" ELSE "lockToken")
           /\ UNCHANGED <<word, i, result>>
  <2>1. x[k] \notin IF p = "compact" THEN Alnum ELSE Digit
    BY <1>4 DEF WordChars
  <2> DEFINE q == IF p = "compact" THEN "lockID" ELSE "lockToken"
  <2>2. /\ pc'[t] = q /\ i'[t] = k /\ word'[t] = w /\ result'[t] = r /\ w # << >>
    BY <1>4, TripTypes DEF Goto
  <2> HIDE DEF p, s, x, k, w, r
  <2>3. x[k] \in Others
    BY <1>1, <1>2, <2>1, TripTypes, OnTripSeparates
  <2>4. AtSeparator(x, k) /\ k \in Nat
    BY <1>1, <2>3 DEF AtSeparator
  <2>5. OnTrip(Numbered, q, s, x, k, w, r)
    BY <1>1, <1>2, <2>2, <2>4, OnTripEnds
  <2> HIDE DEF q
  <2> QED  BY <1>1, <2>2, <2>5, Zenon DEF TripAfter
<1>5. CASE /\ c \notin WordChars(t) /\ word[t] = << >>
           /\ result' = [result EXCEPT ![t] = Append(@, c)]
           /\ i' = [i EXCEPT ![t] = @ + 1]
           /\ UNCHANGED <<pc, word>>
  <2>1. x[k] \notin IF p = "compact" THEN Alnum ELSE Digit
    BY <1>5 DEF WordChars
  <2>2. /\ pc'[t] = p /\ i'[t] = k + 1 /\ word'[t] = << >> /\ w = << >>
        /\ result'[t] = Append(r, c)
    BY <1>5, TripTypes
  <2>3. c = x[k]
    OBVIOUS
  <2> HIDE DEF c, p, s, x, k, w, r
  <2>4. x[k] \in Others /\ k \in Nat
    BY <1>1, <1>2, <2>1, TripTypes, OnTripSeparates
  <2>5. OnTrip(Numbered, p, s, x, k + 1, << >>, Append(r, x[k]))
    BY <1>1, <1>2, <2>2, <2>4, TripTypes, OnTripCopies
  <2> QED  BY <1>1, <2>2, <2>3, <2>5, Zenon DEF TripAfter
<1> HIDE DEF p, s, x, k, w, r
<1> QED  BY <1>3, <1>4, <1>5 DEF ReadChar

(* Steps that only change a thread's label.                                *)
LEMMA TripGoto ==
  ASSUME DictionaryInv, TextInv, NEW t \in Threads, NEW label \in Labels,
         Goto(t, label), UNCHANGED <<source, textVars>>,
         OnTrip(Numbered, label, source[t], text[t], i[t], word[t], result[t])
  PROVE  TripAfter(t)
<1>1. pc'[t] = label
  BY TripTypes DEF Goto
<1> QED  BY <1>1 DEF TripAfter, textVars

LEMMA TripReadLastWord ==
  ASSUME DictionaryInv, TextInv, NEW t \in Threads, Trip(Numbered, t),
         ReadLastWord(t)
  PROVE  TripAfter(t)
<1> DEFINE q == IF pc[t] = "compact" THEN "lockID" ELSE "lockToken"
<1>1. /\ pc[t] \in Loop /\ text[t] \in Text /\ i[t] \in Nat /\ word[t] # << >>
      /\ i[t] > Len(text[t]) /\ Goto(t, q)
      /\ UNCHANGED <<source, textVars>> /\ q \in Labels
  BY TripTypes DEF ReadLastWord, Loop, Labels
<1>2. AtSeparator(text[t], i[t])
  BY <1>1 DEF AtSeparator, Text
<1>3. OnTrip(Numbered, pc[t], source[t], text[t], i[t], word[t], result[t])
  BY DEF Trip
<1> HIDE DEF q
<1>4. q = IF pc[t] = "compact" THEN "lockID" ELSE "lockToken"
  BY DEF q
<1>5. OnTrip(Numbered, q, source[t], text[t], i[t], word[t], result[t])
  BY <1>1, <1>2, <1>3, <1>4, OnTripEnds
<1> QED  BY <1>1, <1>5, TripGoto

LEMMA TripWaits ==
  ASSUME DictionaryInv, TextInv, NEW t \in Threads, Trip(Numbered, t),
         Lock(t) \/ MissID(t) \/ AddToken(t) \/ AddID(t)
  PROVE  TripAfter(t)
<1>1. PICK label \in Labels :
        /\ Goto(t, label)
        /\ \/ pc[t] \in Compacting \ Loop /\ label \in Compacting \ Loop
           \/ pc[t] \in Expanding \ Loop /\ label \in Expanding \ Loop
  <2>1. CASE Lock(t) /\ pc[t] = "lockID"
    <3>1. Goto(t, "findID")
      BY <2>1 DEF Lock
    <3> QED  BY <2>1, <3>1 DEF Compacting, Loop, Labels
  <2>2. CASE Lock(t) /\ pc[t] # "lockID"
    <3>1. pc[t] = "lockToken" /\ Goto(t, "findToken")
      BY <2>2 DEF Lock
    <3> QED  BY <3>1 DEF Expanding, Loop, Labels
  <2>3. CASE MissID(t)
    <3>1. pc[t] = "findID" /\ Goto(t, "addToken")
      BY <2>3 DEF MissID
    <3> QED  BY <3>1 DEF Compacting, Loop, Labels
  <2>4. CASE AddToken(t)
    <3>1. pc[t] = "addToken" /\ Goto(t, "addID")
      BY <2>4 DEF AddToken
    <3> QED  BY <3>1 DEF Compacting, Loop, Labels
  <2>5. CASE AddID(t)
    <3>1. pc[t] = "addID" /\ Goto(t, "bump")
      BY <2>5 DEF AddID
    <3> QED  BY <3>1 DEF Compacting, Loop, Labels
  <2> QED  BY <2>1, <2>2, <2>3, <2>4, <2>5
<1>2. UNCHANGED <<source, textVars>>
  BY DEF Lock, MissID, AddToken, AddID
<1>3. OnTrip(Numbered, pc[t], source[t], text[t], i[t], word[t], result[t])
  BY DEF Trip
<1>4. OnTrip(Numbered, label, source[t], text[t], i[t], word[t], result[t])
  BY <1>1, <1>3, OnTripWaits
<1> QED  BY <1>1, <1>2, <1>4, TripGoto

LEMMA TripReplace ==
  ASSUME DictionaryInv, TextInv, NEW t \in Threads, Trip(Numbered, t),
         NEW by \in Words, Replace(t, by)
  PROVE  /\ /\ pc[t] \in Compacting \ Loop /\ <<word[t], by>> \in Numbered
            /\ Goto(t, "compact")
            => TripAfter(t)
         /\ /\ pc[t] \in Expanding \ Loop /\ <<by, word[t]>> \in Numbered
            /\ Goto(t, "expand")
            => TripAfter(t)
<1> DEFINE p == pc[t]
           s == source[t]
           x == text[t]
           k == i[t]
           w == word[t]
           r == result[t]
           u == r \o by \o EndOf(x, k)
<1>1. x \in Text /\ k \in Nat /\ w \in Words /\ r \in Text
  BY TripTypes
<1>2. OnTrip(Numbered, p, s, x, k, w, r)
  BY DEF Trip
<1>3. /\ source'[t] = s /\ text'[t] = x /\ i'[t] = k + 1 /\ word'[t] = << >>
      /\ result'[t] = u
  <2>1. WordEnd(t) = EndOf(x, k)
    BY DEF WordEnd, EndOf
  <2>2. /\ result'[t] = r \o by \o WordEnd(t)
        /\ i'[t] = k + 1 /\ word'[t] = << >>
    BY TripTypes DEF Replace
  <2>3. source'[t] = s /\ text'[t] = x
    BY DEF Replace
  <2> QED  BY <2>1, <2>2, <2>3, Zenon
<1>4. \A label : Goto(t, label) => pc'[t] = label
  BY TripTypes DEF Goto
<1> HIDE DEF p, s, x, k, w, r
<1>5. /\ p \in Compacting \ Loop /\ <<w, by>> \in Numbered =>
              OnTrip(Numbered, "compact", s, x, k + 1, << >>, u)
      /\ p \in Expanding \ Loop /\ <<by, w>> \in Numbered =>
              OnTrip(Numbered, "expand", s, x, k + 1, << >>, u)
  BY <1>1, <1>2, TripTypes, OnTripReplaces
<1> HIDE DEF u
<1>6. ASSUME p \in Compacting \ Loop, <<w, by>> \in Numbered, Goto(t, "compact")
      PROVE  TripAfter(t)
  BY <1>3, <1>4, <1>5, <1>6, Zenon DEF TripAfter
<1>7. ASSUME p \in Expanding \ Loop, <<by, w>> \in Numbered, Goto(t, "expand")
      PROVE  TripAfter(t)
  BY <1>3, <1>4, <1>5, <1>7, Zenon DEF TripAfter
<1> QED  BY <1>6, <1>7 DEF p, w

LEMMA TripFindID ==
  ASSUME DictionaryInv, TextInv, NEW t \in Threads, Trip(Numbered, t),
         FindID(t)
  PROVE  TripAfter(t)
<1> DEFINE by == IDToString[token_id_map[word[t]]]
<1>1. /\ pc[t] \in Compacting \ Loop /\ word[t] \in DOMAIN token_id_map
      /\ Goto(t, "compact") /\ Replace(t, by)
  BY DEF FindID, IsNewToken, Compacting, Loop
<1>2. by \in Words /\ <<word[t], by>> \in Numbered
  <2>1. by \in Seq(Digit) /\ <<word[t], by>> \in Numbered
    BY <1>1, NumberedIs
  <2> QED  BY <2>1, WordsAreText
<1> HIDE DEF by
<1> QED  BY <1>1, <1>2, TripReplace

LEMMA TripBump ==
  ASSUME DictionaryInv, TextInv, NEW t \in Threads, Trip(Numbered, t), Bump(t)
  PROVE  TripAfter(t)
<1> DEFINE by == IDToString[current_id]
<1>1. /\ pc[t] = "bump" /\ pc[t] \in Compacting \ Loop
      /\ Goto(t, "compact") /\ Replace(t, by)
  BY DEF Bump, Compacting, Loop
<1>2. word[t] \in DOMAIN token_id_map /\ token_id_map[word[t]] = current_id
  BY <1>1 DEF DictionaryInv, AddingInv
<1>3. by \in Words /\ <<word[t], by>> \in Numbered
  <2>1. by = IDToString[token_id_map[word[t]]]
    BY <1>2
  <2>2. by \in Seq(Digit) /\ <<word[t], by>> \in Numbered
    BY <1>2, <2>1, NumberedIs
  <2> QED  BY <2>2, WordsAreText
<1> HIDE DEF by
<1> QED  BY <1>1, <1>3, TripReplace

(* While a thread is in GetToken the number it looks up has its token.     *)
LEMMA TripFinds ==
  ASSUME DictionaryInv, TextInv, NEW t \in Threads, Trip(Numbered, t),
         pc[t] = "findToken"
  PROVE  LET n == StringToID(word[t])
         IN  /\ n \in DOMAIN id_token_map /\ id_token_map[n] \in Words
             /\ <<id_token_map[n], word[t]>> \in Numbered
<1> DEFINE n == StringToID(word[t])
<1>1. word[t] \in Words /\ word[t] # << >>
  BY DEF DictionaryInv, TextInv, Words
<1>2. OnTrip(Numbered, pc[t], source[t], text[t], i[t], word[t], result[t])
  BY DEF Trip
<1>3. pc[t] \in Expanding \ Loop
  BY DEF Expanding, Loop
<1>4. PICK v \in Words : <<v, word[t]>> \in Numbered
  BY <1>1, <1>2, <1>3, OnTripFinds
<1>5. v \in DOMAIN token_id_map /\ word[t] = IDToString[token_id_map[v]]
  BY <1>1, <1>4, NumberedIs
<1>6. token_id_map[v] \in 0..current_id /\ current_id \in Nat
  BY <1>5 DEF DictionaryInv, NumbersInv
<1>7. n = token_id_map[v]
  <2>1. token_id_map[v] \in Nat
    BY <1>6
  <2>2. StringToID(IDToString[token_id_map[v]]) = token_id_map[v]
    BY <2>1, NumeralsAreRead
  <2> QED  BY <1>5, <2>2, Zenon
<1>8. \A u \in Threads : pc[u] \notin {"addID", "bump"}
  BY DEF DictionaryInv, ExclusionInv, Inside
<1>9. token_id_map[v] < current_id /\ id_token_map[token_id_map[v]] = v
  BY <1>5, <1>8 DEF DictionaryInv, NumbersInv
<1>10. n \in DOMAIN id_token_map /\ id_token_map[n] = v
  <2>1. n \in 0..current_id - 1
    BY <1>6, <1>7, <1>9
  <2> QED  BY <1>7, <1>9, <2>1 DEF DictionaryInv, NumbersInv
<1> HIDE DEF n
<1>11. n \in DOMAIN id_token_map /\ id_token_map[n] \in Words
       /\ <<id_token_map[n], word[t]>> \in Numbered
  BY <1>4, <1>10
<1> QED  BY <1>11 DEF n

LEMMA TripFindToken ==
  ASSUME DictionaryInv, TextInv, NEW t \in Threads, Trip(Numbered, t),
         FindToken(t)
  PROVE  TripAfter(t)
<1> DEFINE by == id_token_map[StringToID(word[t])]
<1>1. /\ pc[t] = "findToken" /\ pc[t] \in Expanding \ Loop
      /\ Goto(t, "expand") /\ Replace(t, by)
  BY DEF FindToken, Expanding, Loop
<1>2. by \in Words /\ <<by, word[t]>> \in Numbered
  BY <1>1, TripFinds
<1> HIDE DEF by
<1> QED  BY <1>1, <1>2, TripReplace

LEMMA TripReturns ==
  ASSUME DictionaryInv, TextInv, NEW t \in Threads, Trip(Numbered, t),
         CompactReturns(t) \/ ExpandReturns(t)
  PROVE  TripAfter(t)
<1> DEFINE p == pc[t]
           s == source[t]
           x == text[t]
           k == i[t]
           r == result[t]
<1>1. /\ x \in Text /\ k \in Nat /\ r \in Text /\ word[t] = << >>
      /\ k > Len(x) /\ source'[t] = s
  BY TripTypes DEF CompactReturns, ExpandReturns
<1>2. OnTrip(Numbered, p, s, x, k, << >>, r)
  BY <1>1 DEF Trip
<1>3. CASE CompactReturns(t)
  <2>1. p = "compact"
    BY <1>3 DEF CompactReturns
  <2>2. /\ pc'[t] = "expand" /\ text'[t] = r /\ i'[t] = 1 /\ word'[t] = << >>
        /\ result'[t] = << >>
    BY <1>1, <1>3, TripTypes DEF CompactReturns, Goto
  <2> HIDE DEF p, s, x, k, r
  <2>3. OnTrip(Numbered, "expand", s, r, 1, << >>, << >>)
    BY <1>1, <1>2, <2>1, TripTypes, OnTripTurns
  <2> QED  BY <1>1, <2>2, <2>3 DEF TripAfter
<1>4. CASE ExpandReturns(t)
  <2>1. p = "expand"
    BY <1>4 DEF ExpandReturns
  <2>2. /\ pc'[t] = "done" /\ text'[t] = x /\ i'[t] = k /\ word'[t] = << >>
        /\ result'[t] = r
    BY <1>1, <1>4, TripTypes DEF ExpandReturns, Goto, textVars
  <2> HIDE DEF p, s, x, k, r
  <2>3. OnTrip(Numbered, "done", s, x, k, << >>, r)
    BY <1>1, <1>2, <2>1, TripTypes, OnTripReturns
  <2> QED  BY <1>1, <2>2, <2>3 DEF TripAfter
<1> QED  BY <1>3, <1>4

(* A thread's own steps.                                                   *)
LEMMA TripStep ==
  ASSUME DictionaryInv, TextInv, NEW t \in Threads, Trip(Numbered, t), Step(t)
  PROVE  TripAfter(t)
<1>1. ~MissToken(t)
  BY TripFinds DEF MissToken
<1> QED
  BY <1>1, TripReadChar, TripReadLastWord, TripWaits, TripFindID, TripBump,
     TripReturns, TripFindToken DEF Step

(* A step of a thread changes nothing of another one's.                    *)
LEMMA TripOfOthers ==
  ASSUME DictionaryInv, TextInv, NEW u \in Threads, Step(u),
         NEW t \in Threads, t # u, Trip(Numbered, t)
  PROVE  TripAfter(t)
<1>1. /\ pc'[t] = pc[t] /\ source'[t] = source[t] /\ text'[t] = text[t]
      /\ i'[t] = i[t] /\ word'[t] = word[t] /\ result'[t] = result[t]
  <2> USE TripTypes DEF Goto, Replace, textVars
  <2>1. CASE ReadChar(u)
    BY <2>1 DEF ReadChar
  <2>2. CASE ReadLastWord(u) \/ Lock(u) \/ MissID(u)
    BY <2>2 DEF ReadLastWord, Lock, MissID
  <2>3. CASE AddToken(u) \/ AddID(u)
    BY <2>3 DEF AddToken, AddID
  <2>4. CASE FindID(u) \/ Bump(u)
    BY <2>4 DEF FindID, Bump
  <2>5. CASE CompactReturns(u) \/ ExpandReturns(u)
    BY <2>5 DEF CompactReturns, ExpandReturns
  <2>6. CASE FindToken(u) \/ MissToken(u)
    BY <2>6 DEF FindToken, MissToken
  <2> QED  BY <2>1, <2>2, <2>3, <2>4, <2>5, <2>6 DEF Step
<1> QED  BY <1>1, Zenon DEF Trip, TripAfter

LEMMA TripInit == Init => TripInv
<1> SUFFICES ASSUME Init, NEW t \in Threads \ Strays PROVE Trip(Numbered, t)
  BY DEF TripInv
<1>1. /\ pc[t] = "compact" /\ text[t] = source[t] /\ i[t] = 1
      /\ word[t] = << >> /\ result[t] = << >>
  BY DEF Init
<1>2. text[t] \in Text
  BY TextInit DEF Init, TextInv
<1>3. Scanned(Numbered, text[t], 1, << >>, << >>)
  BY <1>2, ScanStarts
<1>4. Converts(Numbered, "compact", text[t], 1, << >>, << >>)
  BY <1>3, Zenon DEF Converts
<1>5. OnTrip(Numbered, "compact", source[t], text[t], 1, << >>, << >>)
  BY <1>1, <1>4 DEF OnTrip, Compacting, Expanding
<1> QED  BY <1>1, <1>5, Zenon DEF Trip

LEMMA TripNext ==
  DictionaryInv /\ TextInv /\ TripInv /\ [Next]_vars => TripInv'
<1> SUFFICES ASSUME DictionaryInv, TextInv, TripInv, [Next]_vars,
                    NEW t \in Threads \ Strays
             PROVE  Trip(Numbered, t)'
  BY DEF TripInv
<1>1. Trip(Numbered, t)
  BY DEF TripInv
<1>2. TripAfter(t)
  <2>1. ASSUME NEW u \in Threads, Step(u) PROVE TripAfter(t)
    <3>1. CASE u = t
      BY <1>1, <2>1, <3>1, TripStep
    <3>2. CASE u # t
      BY <1>1, <2>1, <3>2, TripOfOthers
    <3> QED  BY <3>1, <3>2
  <2>2. CASE UNCHANGED vars
    BY <1>1, <2>2, Zenon DEF vars, textVars, Trip, TripAfter
  <2> QED  BY <2>1, <2>2 DEF Next, Over
<1>3. Numbered \subseteq Numbered'
  BY NumberedGrows
<1> DEFINE H == Numbered'
<1>4. OnTrip(H, pc'[t], source'[t], text'[t], i'[t], word'[t], result'[t])
  <2> HIDE DEF H
  <2>1. Numbered \subseteq H
    BY <1>3 DEF H
  <2> QED  BY <1>2, <2>1, OnTripGrows DEF TripAfter
<1> QED  BY <1>4, Zenon DEF Trip

(* For any threads, alphabet and expressions: a thread gets back the       *)
(* expression it compacted, whatever tokens others add meanwhile, and two  *)
(* compact strings are equal exactly when their expressions are.           *)
THEOREM RoundTripCorrect == Spec => []RoundTrip
<1> DEFINE Inv == DictionaryInv /\ TextInv /\ TripInv
<1>1. Init => Inv
  BY DictionaryInit, TextInit, TripInit
<1>2. Inv /\ [Next]_vars => Inv'
  BY DictionaryNext, TextNext, TripNext
<1>3. Inv => RoundTrip
  <2> SUFFICES ASSUME Inv PROVE RoundTrip
    OBVIOUS
  <2>1. ASSUME NEW t \in Threads \ Strays
        PROVE  /\ pc[t] # "threw" /\ (pc[t] = "done" => result[t] = source[t])
               /\ pc[t] \in {"expand", "lockToken", "findToken", "done"} =>
                    <<source[t], text[t]>> \in ReplacedAll(Numbered)
    BY DEF TripInv, Trip, OnTrip, Expanding
  <2>2. ASSUME NEW t \in Compacted, NEW u \in Compacted
        PROVE  text[t] = text[u] <=> source[t] = source[u]
    <3>1. /\ <<source[t], text[t]>> \in ReplacedAll(Numbered)
          /\ <<source[u], text[u]>> \in ReplacedAll(Numbered)
      BY <2>1 DEF Compacted
    <3>2. source[t] = source[u] <=> text[t] = text[u]
      <4>1. OneToOne(Numbered)
        BY NumberedOneToOne
      <4>2. \A a, b, d, e :
              /\ <<a, b>> \in ReplacedAll(Numbered)
              /\ <<d, e>> \in ReplacedAll(Numbered)
              => (a = d <=> b = e)
        <5> SUFFICES ASSUME NEW a, NEW b, NEW d, NEW e,
                            <<a, b>> \in ReplacedAll(Numbered),
                            <<d, e>> \in ReplacedAll(Numbered)
                     PROVE  a = d <=> b = e
          BY Zenon
        <5> QED  BY ONLY <4>1, <<a, b>> \in ReplacedAll(Numbered),
                    <<d, e>> \in ReplacedAll(Numbered), ReplacedAllOneToOne
      <4> QED  BY <3>1, <4>2, Zenon
    <3> QED  BY <3>2
  <2> QED  BY <2>1, <2>2 DEF RoundTrip, CompactIsInjective
<1> QED  BY <1>1, <1>2, <1>3, PTL DEF Spec
=============================================================================
