------------------------------- MODULE Mining -------------------------------
(***************************************************************************)
(* Mining a repository for training data: scripts/mine_patterns.sh runs    *)
(* cf_dump_code_blocks (src/cf_dump_code_blocks.cpp) on every source file, *)
(* several at a time with GNU parallel, where every job slot has a log of  *)
(* its own, or one after the other when there is no GNU parallel.  The     *)
(* logs are concatenated to the dataset that Trie::Build reads.  A dataset *)
(* that exists is left alone.                                              *)
(*                                                                         *)
(* The dump prints three lines for a code block: the source as a comment,  *)
(* and the expressions of both levels.  std::endl writes each out at once, *)
(* so lines of different processes may come in any order.                  *)
(***************************************************************************)
EXTENDS CodeBlocks

CONSTANTS
  Repositories,  \* a language, the trees of its files, and what the words
                 \*   of each file's name name: the file itself, by its
                 \*   index, another file or 0, none
  Unreadable,    \* stands for a file that cannot be opened
  Conditions,    \* per language, code blocks that a scan may meet
  NUM_MINER_PROCS

ASSUME MinersAssumption == NUM_MINER_PROCS \in Nat \ {0}

(* A word may name nothing.                                                *)
ASSUME RepositoriesAssumption ==
  /\ \A r \in Repositories :
       /\ r[1] \in Languages
       /\ r[2] \in Seq(TreesOf[r[1]] \cup {Unreadable})
       /\ r[3] \in Seq(Seq(0..Len(r[2]))) /\ Len(r[3]) = Len(r[2])
  /\ Unreadable \notin Trees
  /\ Conditions \in [Languages -> SUBSET Trees]
  /\ \A l \in Languages : Conditions[l] \subseteq TreesOf[l]

Slots == 1..NUM_MINER_PROCS
NoJob == [file |-> 0, blocks |-> << >>, block |-> 0, printed |-> 0]

VARIABLES
  language, files,  \* the arguments, and what they lead to
  words,
  usable,           \* whether the arguments name a directory, an output file
                    \*   and a language
  output_exists,    \* whether OUTPUT_FILE does before
  has_parallel,     \* whether GNU parallel exists
  phase,            \* "checking", "dumping", "concatenating", "done", "usage"
  next_file,        \* the next name to dump
  job,              \* what each slot is dumping: file, blocks, the block at
                    \*   hand and how many of its lines are printed
  proc_log,         \* the log of each slot
  concatenated,     \* how many logs were concatenated
  output            \* OUTPUT_FILE

arguments == <<language, files, words, usable, output_exists, has_parallel>>
vars == <<arguments, phase, next_file, job, proc_log, concatenated, output>>

Line ==
  [kind : {"comment", "ONE", "TWO"}, file : 1..Len(files), block : Nat \ {0},
   text : Seq(Tokens)]

(* The dataset there was before.                                           *)
Old == << [kind |-> "old", file |-> 0, block |-> 0, text |-> << >>] >>

-----------------------------------------------------------------------------
(* Slips: mistakes in the definitions below, for testing the properties.   *)
(* None is part of the specification.                                      *)

LogOf_Shared(s) == 1
LastLog_Over == NUM_MINER_PROCS + 1
Accepts_Existing == usable
NameList_WordsAlways == FlattenSeq(words)

-----------------------------------------------------------------------------
Init ==
  /\ \E r \in Repositories : language = r[1] /\ files = r[2] /\ words = r[3]
  /\ usable \in BOOLEAN
  /\ output_exists \in BOOLEAN
  /\ has_parallel \in BOOLEAN
  /\ phase = "checking"
  /\ next_file = 1
  /\ job = [s \in Slots |-> NoJob]
  /\ proc_log = [s \in Slots |-> << >>]
  /\ concatenated = 0
  /\ output = IF output_exists THEN Old ELSE << >>

Accepts == usable /\ ~output_exists

CheckArguments ==
  /\ phase = "checking"
  /\ phase' = IF Accepts THEN "dumping" ELSE "usage"
  /\ UNCHANGED <<arguments, next_file, job, proc_log, concatenated, output>>

(* GNU parallel takes a line of FILE_LIST for a name, the loop without it  *)
(* a word.                                                                 *)
NameList ==
  IF has_parallel THEN [f \in DOMAIN files |-> f] ELSE FlattenSeq(words)

(* proc_{%}.log                                                            *)
LogOf(s) == s

Write(s, line) ==
  IF has_parallel
    THEN /\ proc_log' = [proc_log EXCEPT ![LogOf(s)] = Append(@, line)]
         /\ UNCHANGED output
    ELSE /\ output' = Append(output, line)
         /\ UNCHANGED proc_log

(* A slot that is free takes the next file; the loop without GNU parallel  *)
(* has one.                                                                *)
Start(s) ==
  /\ phase = "dumping" /\ job[s] = NoJob
  /\ has_parallel \/ s = 1
  /\ next_file <= Len(NameList)
  /\ LET f == NameList[next_file]
     IN job' = [job EXCEPT ![s] =
          [file |-> f, block |-> 1, printed |-> 0,
           blocks |-> IF f = 0 \/ files[f] = Unreadable THEN << >>
                      ELSE CodeBlocksOf(language, files[f])]]
  /\ next_file' = next_file + 1
  /\ UNCHANGED <<arguments, phase, proc_log, concatenated, output>>

AtBlock(s) == job[s] # NoJob /\ job[s].block <= Len(job[s].blocks)
Block(s) == job[s].blocks[job[s].block]

NextBlock(j) == [j EXCEPT !.block = @ + 1, !.printed = 0]
NextLine(j) == [j EXCEPT !.printed = @ + 1]

(* LEVEL_TWO throws: the block is skipped before any line is printed.      *)
Skip(s) ==
  /\ AtBlock(s) /\ LevelTwoThrows(language, Block(s))
  /\ job' = [job EXCEPT ![s] = NextBlock(@)]
  /\ UNCHANGED <<arguments, phase, next_file, proc_log, concatenated, output>>

LineText(kind, n) ==
  CASE kind = "comment" -> << >>
    [] kind = "ONE" -> LevelOne[n]
    [] kind = "TWO" -> LevelTwo(language, n)

LineKinds == <<"comment", "ONE", "TWO">>

WriteLine(s) ==
  /\ AtBlock(s) /\ ~LevelTwoThrows(language, Block(s))
  /\ LET kind == LineKinds[job[s].printed + 1]
     IN /\ Write(s, [kind |-> kind, file |-> job[s].file,
                     block |-> job[s].block,
                     text |-> LineText(kind, Block(s))])
        /\ job' = [job EXCEPT ![s] =
             IF kind = "TWO" THEN NextBlock(@) ELSE NextLine(@)]
  /\ UNCHANGED <<arguments, phase, next_file, concatenated>>

(* The dump tool exits with EXIT_SUCCESS, whatever happened.               *)
Exit(s) ==
  /\ job[s] # NoJob /\ ~AtBlock(s)
  /\ job' = [job EXCEPT ![s] = NoJob]
  /\ UNCHANGED <<arguments, phase, next_file, proc_log, concatenated, output>>

AllDumped ==
  /\ phase = "dumping" /\ next_file > Len(NameList)
  /\ \A s \in Slots : job[s] = NoJob
  /\ phase' = IF has_parallel THEN "concatenating" ELSE "done"
  /\ UNCHANGED <<arguments, next_file, job, proc_log, concatenated, output>>

LastLog == NUM_MINER_PROCS

(* The logs in the order of the slots; a slot that had no job has none.    *)
Concatenate ==
  /\ phase = "concatenating" /\ concatenated < LastLog
  /\ concatenated' = concatenated + 1
  /\ output' = output \o (IF concatenated + 1 \in Slots
                            THEN proc_log[concatenated + 1] ELSE << >>)
  /\ UNCHANGED <<arguments, phase, next_file, job, proc_log>>

RemoveLogs ==
  /\ phase = "concatenating" /\ concatenated = LastLog
  /\ phase' = "done"
  /\ proc_log' = [s \in Slots |-> << >>]
  /\ UNCHANGED <<arguments, next_file, job, concatenated, output>>

Over == phase \in {"done", "usage"} /\ UNCHANGED vars

Next ==
  \/ \E s \in Slots : Start(s) \/ Skip(s) \/ WriteLine(s) \/ Exit(s)
  \/ CheckArguments \/ AllDumped \/ Concatenate \/ RemoveLogs \/ Over

Spec == Init /\ [][Next]_vars

-----------------------------------------------------------------------------
(* Every variable holds a value of its type.                               *)
TypeOK ==
  /\ language \in Languages
  /\ usable \in BOOLEAN
  /\ output_exists \in BOOLEAN
  /\ has_parallel \in BOOLEAN
  /\ phase \in {"checking", "dumping", "concatenating", "done", "usage"}
  /\ next_file \in 1..Len(NameList) + 1
  /\ \A s \in Slots : job[s].file \in 0..Len(files) /\ job[s].printed \in 0..2
  /\ concatenated \in 0..NUM_MINER_PROCS
  /\ proc_log \in [Slots -> Seq(Line)]
  /\ output = Old \/ output \in Seq(Line)

(* The blocks of the repository that both levels have an expression for.   *)
Minable ==
  UNION {LET blocks == CodeBlocksOf(language, files[f])
         IN {<<f, b>> : b \in {c \in DOMAIN blocks :
                                 ~LevelTwoThrows(language, blocks[c])}}
         : f \in {g \in DOMAIN files : files[g] # Unreadable}}

(* The names in FILE_LIST are words.                                       *)
NamesAreWords == \A f \in DOMAIN files : words[f] = <<f>>

(* When the script is done the dataset has every block that both levels    *)
(* have an expression for, once, as three lines in a row, however the jobs *)
(* ran; of other blocks and unreadable files it has nothing, nor, except   *)
(* in Verilog, of conditions with parse errors.  Without GNU parallel this *)
(* needs names without white space.  A dataset that there was before the   *)
(* run keeps its contents.                                                 *)
MinedOnceAndWhole ==
  /\ output_exists => output = Old
  /\ phase = "done" /\ (has_parallel \/ NamesAreWords) =>
       /\ Len(output) = 3 * Cardinality(Minable)
       /\ {<<output[k].file, output[k].block>> : k \in DOMAIN output} = Minable
       /\ \A k \in DOMAIN output :
            LET first == k - ((k - 1) % 3)
            IN /\ output[k].kind = LineKinds[((k - 1) % 3) + 1]
               /\ output[k].file = output[first].file
               /\ output[k].block = output[first].block
               /\ language # "VERILOG" =>
                    Range(output[k].text) \cap ErrorWords = {}

Texts(kind) ==
  {output[k].text : k \in {m \in DOMAIN output : output[m].kind = kind}}

BlockOfLine(line) ==
  CodeBlocksOf(language, files[line.file])[line.block]

(* Whatever a scan finds at LEVEL_ONE it also finds at LEVEL_TWO, for code *)
(* that parses: LEVEL_ONE tells apart all that LEVEL_TWO does, and no line *)
(* of one level is in the dataset without the line of the other.  ScanFile *)
(* relies on it when it leaves what is missing at LEVEL_ONE to LEVEL_TWO.  *)
(* It cannot for blocks with parse errors, which only Verilog collects: a  *)
(* ";" that the parser put in is in LEVEL_TWO alone.                       *)
FoundAtOneIsFoundAtTwo ==
  phase = "done" =>
    \A n \in Conditions[language], k \in DOMAIN output :
      /\ output[k].kind = "ONE" /\ output[k].text = LevelOne[n]
      /\ ~HasError[n] /\ ~HasError[BlockOfLine(output[k])]
      => /\ ~LevelTwoThrows(language, n)
         /\ LevelTwo(language, n) \in Texts("TWO")

(* No expression of the dataset begins another one of its level, so that   *)
(* the occurrences Trie counts for it are its own.                         *)
NoneBeginsAnother ==
  \A kind \in {"ONE", "TWO"} :
    \A e, f \in Texts(kind) : ~IsStrictPrefix(e, f)
=============================================================================
