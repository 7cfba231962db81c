# Verification of ControlFlag

ControlFlag mines the conditions of `if` statements (and Verilog `always`
blocks) of many repositories into a training dataset, builds tries of their
abstract syntax from it, and reports conditions of other programs that are
rare next to similar ones. These TLA+ modules model the way from source files
to the dataset and from the dataset to the verdicts in the log files, with the
processes and threads that share the work. TLC checks them on small instances,
and TLAPS proves the most important facts for all instances.

Paths below are relative to the repository; its C++ code is in `src/`.

## The system

| part | code | state | interacts with |
|---|---|---|---|
| file scanner program | `src/cf_file_scanner.cpp` | list of files, two atomic indexes, a log per thread | starts scanner threads, each calls `ScanFile` |
| scan of conditions | `src/train_and_scan_util.*` | two tries, a static cache with statistics per level | looks up, searches and ranks for each condition; shared by all scanner threads |
| nearest-expression search | `src/autocorrect.cpp` | atomic index and mutexed result per call | starts worker threads of its own over the paths of a trie |
| searches by candidates | `src/autocorrect.cpp` | a table of candidates per call | the two algorithms that the code has and does not select |
| edit distance | `src/autocorrect.cpp` | two rows of a table | one call per path and search |
| ranking, anomaly test | `src/result_processing.cpp` | none | decides the verdict from ranked results |
| trie | `src/trie.*` | nodes with counters, list of all paths | built once in training, read by all threads |
| expression compacter | `src/tree_abstraction.*` | singleton: two maps, a counter, a mutex | used in training and by every scanner and worker thread |
| tree abstraction | `src/tree_abstraction.h` | none | turns a syntax tree into an expression of LEVEL_ONE or LEVEL_TWO |
| collection of code blocks | `src/common_util.*` | none | finds the conditions of a parsed file |
| parser wrapper | `src/parser.h`, `src/common_util.*` | a parser per thread, a tree per call, nodes that point into it | tree-sitter (external, git submodules) |
| dump tool | `src/cf_dump_code_blocks.cpp` | none | prints three lines per condition: the dataset |
| scripts | `scripts/`, `github/` | files | run the dump tool in parallel, call the scanner, download repositories |

What is hard here. `-j n` gives sqrt(n) scanner threads, and each of their
searches sqrt(n) workers. Both loops test a shared atomic index, read it and
increment it in three steps. The compacter and the cache are shared by all of
them; training data is read-only by then, but scanning still teaches the
compacter new words. Exceptions cross threads: some are caught per file, one
reaches a handler in `main`, the rest end the process, and what was allocated
from tree-sitter on their way is lost. The tests in `tests/` are all
single-threaded.

What makes each part correct:

- search: nothing is lost or reported that was not visited, the damage of the
  race has a bound, no worker outlives the call, the call ends;
- edit distance: it is the edit distance, and zero only for equality, since a
  result of cost 0 is taken for the scanned expression itself;
- searches by candidates: what is one edit away is found although the table is
  rehashed under the loop, and what is found is in the trie and near;
- trie: counters, terminal nodes, path list and look-up agree with the lines
  read, also when one expression begins another;
- compacter: compact strings are equal exactly when the expressions are, and
  expand to them, for all threads and at all times;
- scan of conditions: what is cached was found for that expression, a verdict
  has evidence in the training set or, without races, is determined by it, a
  condition is judged at both levels in a row, and the cache saves the searches
  it is there to save;
- parser wrapper: nodes are used only while their tree lives, and what errors
  lose of trees, parsers and strings is bounded;
- mining: the dataset has each usable condition once, at both levels, in whole
  lines, however the jobs interleave; expressions do not begin one another, and
  for code that parses what is equal at LEVEL_ONE is equal at LEVEL_TWO, which
  the scan relies on when it goes from one level to the next;
- file scanner: every thread accounts for what it took, also when an exception
  elsewhere ends the process; the program ends.

## Modules

| module | models | state and actions |
|---|---|---|
| `GreedyVisit` | what both work loops promise | items visited by whom, `Visit`, `Finish`, `Fail` |
| `TrieTraversal` | `SearchNearestExpressionsUsingTrieTraversal` | `path_index`, `nearest_expressions`, `mutex`; per worker `Check`, `Grab`, `Advance` (lines 234, 235, 236), `Evaluate`, `EvaluateOutOfRange`, `Lock`, `PushBack`; the caller's `Spawn`, `SpawnFails`, `Join`, `Return` |
| `FileScan` | `main` of the scanner and `thread_scan_fn` | `file_index`, `printed_file_index`, `log`; the loop as above, plus `Announce`, `Scan`, `ScanSkips`, `ScanThrows` and the steps of the progress report; main's arguments, `ReadList`, `Train` and their failures |
| `TokenDictionary` | what the compacter's maps promise | a numbering that only grows |
| `Compacter` | `Compact`, `Expand`, `GetID`, `GetToken` | the maps, counter and mutex; the loop over characters; the steps under the mutex one at a time |
| `Trie` | `Build`, `InsertShortExpr`, `VisitAllLeafNodes`, `LookUpShortExpr` | `nodes` (by path), `queue`, `all_trie_paths` |
| `Alignments` | the reference definition of edit distance | none: the cheapest alignment of two strings |
| `CandidateSearch` | candidate generation and symmetric delete, on the trie that `Trie` built | `candidates` with the pass that found each; `Search`, `Pass`, `Return` |
| `EditDistance` | `CalculateEditDistance` | the two rows, a cell per step |
| `ExpressionScan` | `ScanFile` and `ScanExpression` from their code blocks on, `ScanExpressionForAnomaly`, `ReportPossibleCorrections`, `SortAndRankResults`, `IsPotentialAnomaly`, the cache | per scanner `LookUp`, `NodeToStringThrows`, `CacheHit`/`CacheMiss`, `Search`, `CacheInsert`, `Judge`; `hit_` and `miss_` per level |
| `SyntaxTrees` | `ParserBase`, `GetTSTree`, `ManagedTSTree`, `cf_assert` and their callers | parser, tree and pending nodes of each thread, the live trees, what was lost; a step per allocation, hand-over, throw and destructor |
| `CodeBlocks` | `CollectCodeBlocksOfInterest`, `NodeToString` at all levels | none: recursive functions on syntax trees |
| `Mining` | `mine_patterns.sh` and `cf_dump_code_blocks` | a job per slot, a log per slot, the output; `CheckArguments`, `Start`, `Skip`, `WriteLine`, `Exit`, then `Concatenate`, `RemoveLogs` |

`TrieTraversal` and `FileScan` are each shown to implement `GreedyVisit`, and
`Compacter` to implement `TokenDictionary`, by refinement mappings at the end of
the modules. `CandidateSearch` runs on the trie that the actions of `Trie`
built. `ExpressionScan` composes the rest by their results: a search visits
what `GreedyVisit` allows and brings fewer results from past the end than it
has workers (`OvershootBound`), costs are those of `EditDistance`, the training
set is what `Trie` holds, expressions are values because the compacter is
injective, and some have no expression of LEVEL_TWO because the assertions of
`CodeBlocks` say so. `MC*` modules hold the instances; `*Proofs` modules the
theorems; `TrieProofs` takes the theory of edit distances from an instance of
`EditDistanceProofs`. Definitions under "Slips" are mistakes used to test that
the properties notice them; they are no part of any specification.

Choices worth knowing:

- A read past the end of the paths or of the file list is undefined behaviour:
  the bytes may pass for a near string, for a far one, or end the process.
- Atomics are sequentially consistent in the code, so each load, store and
  increment is one step. `std::string` and `vector` accesses under a mutex are
  split so that a missing mutex would show.
- `std::thread` may fail to start. With joinable threads already in the vector
  that ends the process; with none the exception travels on.
- `-j` is an `int`; `FileScan` reads it as the code does, with the clamp at one,
  and of the options keeps those that decide what main does. `size_t` wraps at
  `SizeMax`, which matters for the initial -1 of `printed_file_index`.
- A scan of a readable file may throw in `FileScan` (`Throwing`). Which
  expressions do is in `CodeBlocks`, when they do in `ExpressionScan`, and what
  they leave behind in `SyntaxTrees`.
- `ExpressionScan` divides exactly where the code uses `float`. The percentages
  of realistic counts (below 2^24 / 100) are far from where rounding would turn
  a comparison, except when it is an exact tie, which floats of small integers
  get right.
- A pass of `CandidateSearch` comes across any part of the candidates of the
  pass before that is not empty: the loop inserts into the hash table it
  iterates over, and a rehash changes the order under the iterator.
- A syntax tree has types, operators, fields and named children, and what the
  parser makes of text that does not parse: `ERROR` nodes, single unexpected
  characters, nodes and anonymous tokens that it put in. LEVEL_TWO of PHP and
  Verilog is what `ts_node_string` prints, which shows fields, `(MISSING x)` and
  `(UNEXPECTED 'c')`; LEVEL_ONE has none of them. An expression is a sequence of
  tokens. tree-sitter puts comments and errors anywhere among the children, and
  so do the instances.
- `SyntaxTrees` does not look into trees: whether a file has parse errors,
  which blocks it has and which of them throw is any choice.
- In `Mining` every line is written by itself, since `std::endl` flushes, and
  the log of a job slot is shared by the jobs that run in it one after the other.
- Contributor ids are credited in `Trie` and read nowhere else.

## Runs

| run | instance | question |
|---|---|---|
| `trie_traversal_race` | 3 workers, 4 paths, every other one near | what the race can do; refinement of `GreedyVisit`; termination |
| `trie_traversal_skips` | 2 workers | violation: a near path is never compared |
| `file_scan` | 1 thread with 0..22 files, 2 threads with 0..4, command lines that are clamped, refused or contradict themselves | the same for files, the logs, the progress lines; termination |
| `file_scan_progress` | 1 thread | violation: the first progress line is missing |
| `compacter` | 2 threads compact and expand, 1 expands a stray string | injectivity and round trip, numbers for ever, refinement of `TokenDictionary`, exceptions release the mutex |
| `trie` | up to 3 lines, 5 nested expressions, 2 contributors; then either search by candidates for 3 targets, `max_cost` 2 | trie against the lines read, what the candidates find against the trie |
| `edit_distance` | all pairs of strings of up to 3 of 3 characters | against the cheapest alignment |
| `expression_scan` | 1 scanner with 3 conditions, of a file or as strings; 2 with 1 each, 2 workers per search | cache, statistics and verdicts against the training set; both levels of a condition in a row |
| `expression_scan_missed_one` | 1 scanner | violation: a condition missing at LEVEL_ONE is reported at LEVEL_TWO |
| `syntax_trees` | 2 threads, 2 calls each, up to 2 code blocks, in each of the three programs | no use after delete; what can be lost |
| `node_strings` | 1 thread, 1 call, 1 block | violation: strings of tree-sitter are never freed |
| `mining` | 2 files with up to 3 conditions of 20 shapes in C and C++, 6 in PHP and 7 in Verilog, some repaired or with unexpected characters, 2 slots or the serial loop, any combination of refused arguments and an old dataset | the dataset against the files; the two levels against each other |

Bounds. Three workers and four paths are the smallest instance with a chain of
overtakes (one worker holds an index two others have passed), a path that is
skipped although another is visited three times, a read two elements past the
end, and a coverage of one path in three that is more than one path. Two
scanner threads need a list longer than the race is wide to repeat it; one
thread needs more than twenty files for the three cases of the tenth (below
ten files, ten or more, and a list that is no multiple of the tenth). The
compacter's digits are binary so that the few words of the instance get
numbers of two digits, and the words include some that look like numbers. The
trie's expressions begin one another in chains of three and branch at the
root; the targets of the searches are an expression of one token, the empty
one, and one that is never in the dataset; two passes are enough for a
candidate of the second to be further away than its label.
Three characters of which one is in neither string, one in both and one in
either are all the edit distance can tell apart, and length 3 has cells that
depend on no border. The occurrences in
`expression_scan` make ties at the cut (two equally good suggestions for the
last place), a rare and a common expression, one too far away, strangers at
either level and one that LEVEL_TWO refuses. Two calls per thread in
`syntax_trees` are enough for a second call to meet what the first left: its
parser, or the parser it lost. Two slots and two files are enough for lines to
interleave and for a slot to run two jobs; the conditions of `mining` pair
every shape that the abstraction treats on its own with every other, since its
properties are about pairs of expressions; in Verilog they include a statement
with its `;`, without it and with it put in by the parser. The largest runs,
`expression_scan` and `mining`, have 1.6 million and 135 thousand states. The bounds that the code does not
have: `MaxFiles` and `MaxWorkers` in `FileScan`, `MaxLines` in `Trie`,
`MaxBlocks` in `ExpressionScan`, `MaxCalls` and `MaxBlocks` in `SyntaxTrees`,
and the size of the finite sets. Symmetry is over scanners, threads and
contributors, in runs that check no liveness.

Fairness. `FairSpec` assumes weak fairness of each thread's steps and of the
caller's: the scheduler does not starve a thread that can run. No step that
fails (a thread that cannot be started, a list that cannot be opened) is
assumed to happen. In `Compacter` weak fairness suffices for the mutex because
each thread asks for it a bounded number of times.

## What the code does that its text denies

Four runs refute a comment of the code with its behaviour:

- `autocorrect.cpp:227` "Visit every expression ...": with two workers or more
  two can take the same path and skip the next one. `CoverageBound` and
  `CompleteAlone` say what is left of it.
- `cf_file_scanner.cpp:175` "Report progress at every 10th % point": never
  after the first file, since -1 is the largest `size_t`.
- `train_and_scan_util.cpp:106` "... not reported as anomaly if they are not
  missing at LEVEL_TWO": the test at LEVEL_TWO does not look at whether the
  expression was found; if it is known but rare there it is reported.
- `tree_abstraction.h:133` "ts_node_string API mallocs memory for string that we
  need to free": `cf_assert` with a node (`exception.h:62`) evaluates the string
  whether or not it throws and frees it in neither case.

Observations which no run claims as violations:

- Scanner threads race as the workers do (`cf_file_scanner.cpp:144` to `:147`):
  with two of them a file may never be scanned. `EveryFileTakenAlone` says it is
  scanned when there is one thread, `ImplementsGreedyVisit` what is left with
  more. A progress line shows the index as loaded after the test, so that it can
  be no tenth, or past the end; `ReportsTheTenths` bounds by how much.
- When an expression of LEVEL_TWO cannot be made, the exception ends the process
  after the verdict of LEVEL_ONE was written, in whatever state the other
  scanners are. `VerdictsComeInPairs` says that no more than the last condition
  of each log is left half judged, `LogAccountsForClaims` that no more than the
  last file of each thread is missing from its log.
- `trie.h:72` "Number of occurrences of this expression" counts those of longer
  expressions too. The dump tool prints balanced expressions, for which the two
  are the same (`NoneBeginsAnother`).
- `trie.h:243` "'cost' distance away" holds for cost 1 only: at cost 2 a
  candidate may be three edits away, since a pass of cost 2 makes two edits in
  a row of what the pass of cost 1 made. `autocorrect.cpp:186` counts N + 1
  insertions, and the loop makes N, none at the end. The map of the symmetric
  delete is never filled, so that search finds nothing.
- `parser.h:80` adds an `int` to a string literal, which drops characters of
  the message instead of appending the number.
- `cf_dump_code_blocks.cpp:69` catches `std::string&`, which nothing throws.
- `main` of the scanner returns 0 after the failures it catches.
- Without GNU parallel the mining script splits file names at white space.
- Verilog blocks are collected without the test for parse errors that
  conditions pass (`common_util.cpp:88` and `:108`), and the Verilog tests that
  the build leaves out (`tests/test_dump_conditional_exprs.cpp:65`, `:81`) still
  expect conditional statements where the code collects `always` blocks. For
  blocks with errors LEVEL_ONE does not determine LEVEL_TWO: a block with a `;`
  that the parser put in has the LEVEL_ONE expression of its well-formed twin
  and another LEVEL_TWO expression, so a scan can find it at one level only.
  `FoundAtOneIsFoundAtTwo` therefore speaks of blocks without errors.

## Proofs

All theorems hold for every value of the constants under the assumptions named
in the modules (`PathsAssumption`, `ThreadsAssumption`, ...), which say what the
command line, `Trie::Build` and the modelled parts ensure. The bounds of
the model checker are among the constants, so the theorems hold without them.

- `TrieTraversalProofs`. The inductive invariant `IInv` is built in layers.
  `ControlInv` and `LockInv` tie program counters to the mutex, the joins and
  the index. `OvershootInv` counts the workers between test and increment into
  the index: that sum is below `NumPaths + NumWorkers`, which the bound on the
  index alone does not give inductively. `ClaimInv` says that what a worker
  read is no more than the index and more than all its earlier claims, so
  each increment adds a fresh pair to `claims` and `CountInv` can count them:
  there are at least `NumPaths` pairs of a worker and an existing path in the
  end, hence at least `NumPaths / NumWorkers` paths (`CoverageCorrect`), and
  all of them with one worker (`CompleteAlone`). `ResultInv` follows a claim
  through evaluation, lock and push to the result (`ResultsCorrect`).
  `RefinementCorrect` maps every step to a step of `GreedyVisit`: an increment
  visits a fresh path or one past the end, the last join finishes, and what
  ends the process fails.
- `FileScanProofs`. The same layers for the scanner's loop (`BaseCorrect`,
  `RaceCorrect`, `OvershootCorrect`), with the command line, the list and the
  failures of main around it. A thread that divides by the tenth has taken a
  file, so the tenth is not zero (`NoModuloByZeroCorrect`, part of `TypeOK`).
  With one thread the claims are the list from its start to the index
  (`EveryFileTakenCorrect`), `AccountInv` says that the log of a thread
  accounts for each of its claims, in their order, up to the one at hand
  (`LogsCorrect`, for a program that finished and for one that an exception
  ended), and `ReportsInv` relates the lines printed to the index at each step
  of the report. For any number of threads `PrintedInv` says that what is
  compared with the index is never zero, so who reports has seen an index of at
  least two (`ReportsCorrect`). `RefinementCorrect` is
  again that of `GreedyVisit`.
- `CompacterProofs`. While a thread is inside `GetID` the maps disagree:
  `NumbersInv` and `AddingInv` name the one token that is not in both and the
  step its thread is at. When the mutex is free that leaves a bijection
  (`BijectionCorrect`); no step takes a number away (`NumbersCorrect`). The
  tokens whose number is below the counter are the abstract dictionary: the
  step that moves the counter learns one, all others are stutters
  (`RefinementCorrect`), since the maps' bijection with the numbers below the
  counter counts them (`CounterCounts`).

  The round trip needs the theory of the words. Decimal notation is two
  recursive functions, of which the least number they fail for shows that they
  have the values they are defined by and are inverse (`NumeralsAreRead`).
  `Replaced` relates two texts, the second being the first with each word
  exchanged by a dictionary: the least relation that holds of empty texts and
  is closed under adding a separator, or a word and its replacement. Since a
  text splits into words and separators in one way, it is one to one when the
  dictionary is (`ReplacedAllOneToOne`). `TripInv` then says at each step of a
  thread that what it has written replaces what it has read, by the renaming
  `Numbered` that the dictionary stands for; this only grows, so what other
  threads learn meanwhile takes nothing away (`RoundTripCorrect`).
- `TrieProofs`. An insertion keeps the counter of each node equal to the number
  of lines below it and terminal nodes equal to the training set
  (`OccurrencesCorrect`, `TerminalsCorrect`), for datasets of any length; look-up
  follows (`LookUpCorrect`). For the list of paths, `QueueInv` says that no node
  of the queue begins another or begins a listed one, and that every terminal
  node is listed or below one in the queue. A visit keeps it because the
  children of a node, in whatever order, split what is below it
  (`PathsCorrect`).

  For the searches by candidates, `NearInv` says that a candidate is a string
  within the edits its label allows: a pass edits what the one before came to,
  and the edits add up by the triangle inequality (`CandidatesCorrect`, which no
  run checks).
  `FoundInv` says that the first pass comes across the target, the only
  candidate there is, and so makes every single edit of it
  (`OneEditCorrect`).
- `EditDistanceProofs`. `FewestEdits` is a minimum over all alignments; the
  first part shows that it is attained, obeys the recurrence of the table
  (`EditRecurrence`) and the triangle inequality (`EditTriangle`), and that it
  is one only when one character is inserted, deleted or replaced (`OneEdit`).
  Where an induction over strings is needed, a pair of strings of least total
  length that refutes the fact leads to a contradiction. In the table each cell lies between the difference and the maximum of
  the two prefix lengths and is zero exactly for equal prefixes; the row being
  filled holds new cells up to `i` and old ones after it. `ZeroCostCorrect` and
  `LengthsCorrect` read the last cell. `DistanceInv` says that each cell is the
  fewest edits between the two prefixes, which the recurrence keeps, so the
  last one is the edit distance of the strings (`CostCorrect`).
- `SyntaxTreesProofs`. Every live tree is held by exactly one place: the local
  of `GetTSTree`, the `ManagedTSTree` of its caller, or nobody, when it is that
  of a refused expression. Nodes exist only while the caller holds the tree they
  point into (`NodesLive`). Each call loses at most what its own failure loses
  (`LossesBounded`).
- `ExpressionScanProofs`. The hard step is `SearchIsSound`: whatever a search
  with missed paths, double visits and stray results brings, sorted in any
  order and cut, is what `ResultsFor` says of it. From there `ScannerInv`,
  `CacheIsSound` and `LogInv` hand the results from a search to the cache, to
  another scanner and to the log. A report without strays then has a result of
  cost 0, which is the expression itself, and others that are its neighbours
  (`ReportsCorrect`). A complete search is determined up to the order of equal
  ranks, and a tie at the cut does not decide the comparison, so neither does
  the order (`VerdictsCorrect`). A miss is counted for an expression that is
  then in the cache or in a search under way of that scanner, and the scanner
  never misses it again: `JudgedInv` says that what it judged is cached and what
  it searches for is not what it judged. So misses are no more than expressions
  times scanners (`StatisticsCorrect`). `PairsInv` ties the parity of a log to
  the level its scanner is at, and its last verdict to the condition at hand
  (`PairsCorrect`).
- `MiningProofs`. A function on trees is what its definition says because
  some function is (`Recursion`): heights bound how far the definition goes.
  All expressions, of either level, are texts: a label in parentheses, with
  texts after the label. Read from the left, a label ends at the first
  parenthesis and the texts after it are read one by one, so a string begins
  with at most one text (`ExpressionsAreReadOneWay`), none begins another
  (`NoneBeginsCorrect`), and the label and the texts in a text are its own.
  From equal expressions of LEVEL_ONE it follows, down the trees, that all
  LEVEL_TWO looks at is equal (`OneTellsTwo`): for all trees of C and C++, whose
  LEVEL_TWO shows types and operators only, and for those of PHP and Verilog
  that have no errors, where `ts_node_string` shows types and the fields that go
  with them. `FoundCorrect` follows.

  What the jobs print does not say where blocks begin and end. `IInv` says that
  there are sequences of blocks, `bs[s]` for each slot, such that the log of
  the slot is the three lines of each of them and the lines so far of the block
  at hand (`Mined`); that the slots' sequences have no block in common and none
  twice; and that they have a block exactly when it is not pending, that is
  when no job that is running or to come has it before it (`OnceEach`). A
  printed line adds a block to a sequence when it is the third one; starting,
  skipping and ending a job change nothing that is pending. When all is dumped
  nothing is, so the concatenation has every block once (`MinedCorrect`). This
  needs that each name is that of its file (`InOrder`), which without GNU
  parallel is the case when names have no white space.

  The assumptions say of tree-sitter that no tree is below itself, that an `if`
  statement has a condition, that the names of types and operators are no
  parentheses, that `=` is the operator of assignments only, and that in PHP and
  Verilog, without errors, nodes of one type with children of the same types
  have them in the same fields (`FieldsAssumption`); of the repository that the
  words of a file's name lead to files of it or nowhere. The grammar of Verilog
  has no fields. For PHP the assumption is about a grammar that is not in the
  repository: one that gave equally typed children different fields, as newer
  versions do for the optional parts of a `for` statement inside a closure,
  would break it, and the theorem with it.

Only model-checked: liveness (`Terminates`, `AllReturn`), which is out of the
prover's reach. The invariants that the proofs rest on are checked in the runs
or were before they were proved (that of `MiningProofs` with the sequences of
blocks computed from the logs), except `TripInv`, which speaks of a relation on
all texts.

## Not modelled

- `Trie::Print` and `PrintEditDistances`: debug output that nothing calls.
- Timers, log levels, wording; the log directory of the scanner, whose log
  files are opened without a check: when it is not writable all verdicts vanish.
- The arguments of the dump tool, which the script always gives in the same
  way; the `find` of the script, and a number of processes below 1.
- An `if` statement in which no child is its condition is not among the trees
  (`TreesAssumption`); a condition that the parser put in is one with an error.
  tree-sitter itself is external: its grammars are git submodules, and what it
  answers is an input. Of what `ts_node_string` prints, the fields of anonymous
  nodes that were put in are left out, which Verilog does not have and which
  conditions of PHP with errors, that are not collected, would need.
- The anomaly scan script (one call of the scanner) and the GitHub tools
  (sequential scripts around the network and git).

## Plan

1. Done: the core, in the order search, files, compacter, trie, edit distance,
   scan of expressions; the mining pipeline with the abstraction and collection
   it uses; ownership of syntax trees; the searches by candidates; arguments of
   the programs.
2. Done: the invariants of all modules and the three refinements.
3. Left, and out of TLAPS's reach: liveness under fairness.
