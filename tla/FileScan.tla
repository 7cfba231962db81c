------------------------------ MODULE FileScan -------------------------------
(***************************************************************************)
(* main of cf_file_scanner (src/cf_file_scanner.cpp): take the arguments,  *)
(* read the list of files to scan, train, let sqrt(num_threads) scanner    *)
(* threads share the list through an atomic index, and join them.          *)
(*                                                                         *)
(* As in TrieTraversal a worker tests the index, reads it and increments   *)
(* it in three steps.  Here a worker also reports progress through a       *)
(* second shared atomic, and a file that cannot be parsed is skipped while *)
(* any other exception ends the process, since no handler is on the        *)
(* stack of the thread.                                                    *)
(***************************************************************************)
EXTENDS Integers, Sequences, FiniteSets

CONSTANTS
  CommandLines,  \* the arguments, with the length of the list they name
  MaxFiles,      \* bound on the length of the list, for model checking
  MaxWorkers,    \* bound on sqrt_max_threads, for model checking
  Unreadable,    \* files for which GetTSTree throws
  Throwing,      \* readable files on which the scan may throw
  SizeMax        \* the largest size_t

(* static_cast<size_t>(sqrtf(n)) *)
Sqrt(n) == CHOOSE r \in 0..n : r * r <= n /\ n < (r + 1) * (r + 1)

(* Whether an option is unknown; whether -t, -e and -s name something; the *)
(* number given as -j, or its default; the lines of the list.              *)
Arguments ==
  [unknown : BOOLEAN, train_dataset : BOOLEAN,
   eval_source_file : BOOLEAN, eval_source_file_list : BOOLEAN,
   j : Int, lines : 0..MaxFiles]

ASSUME CommandLinesAssumption ==
  /\ MaxFiles \in Nat \ {0}
  /\ MaxWorkers \in Nat \ {0}
  /\ \A c \in CommandLines :
       /\ c \in Arguments
       /\ c.j > 0 => Sqrt(c.j) \in 1..MaxWorkers

ASSUME FilesAssumption ==
  /\ Unreadable \subseteq 0..MaxFiles - 1
  /\ Throwing \subseteq 0..MaxFiles - 1
  /\ Unreadable \cap Throwing = {}

ASSUME SizeAssumption == SizeMax \in Nat /\ SizeMax >= MaxFiles + MaxWorkers

Workers == 1..MaxWorkers

VARIABLES
  args,                \* the command line
  num_files,           \* eval_file_names.size(): the lines of the list file
  num_workers,         \* sqrt_max_threads
  file_index,          \* std::atomic<size_t>
  printed_file_index,  \* std::atomic<size_t>
  reports,             \* the progress lines printed, by the index shown
  log,                 \* what each worker wrote to its log, in order
  pc,                  \* where each worker is
  eval_file,           \* the index of the file each worker grabbed
  loaded,              \* an index a worker loaded to compare or store
  main,                \* where the main thread is
  spawned,             \* number of workers started, in order 1, 2, ...
  joined,              \* number of workers joined, in the same order
  claims               \* history: <<worker, index>> for every file grabbed

workerVars == <<pc, eval_file, loaded>>
mainVars == <<args, num_files, num_workers, main, spawned, joined>>
progressVars == <<printed_file_index, reports>>
vars == <<file_index, progressVars, log, workerVars, mainVars, claims>>

Files == 0..num_files - 1

(* A tenth of the files, all of them when they are less than ten.          *)
tenth_eval_file_names ==
  IF num_files < 10 THEN num_files ELSE num_files \div 10

-----------------------------------------------------------------------------
Init ==
  /\ args \in CommandLines
  /\ num_files = 0
  /\ num_workers = 1
  /\ file_index = 0
  /\ printed_file_index = (0 - 1) % (SizeMax + 1)
  /\ reports = {}
  /\ log = [w \in Workers |-> << >>]
  /\ pc = [w \in Workers |-> "idle"]
  /\ eval_file = [w \in Workers |-> 0]
  /\ loaded = [w \in Workers |-> 0]
  /\ main = "arguments"
  /\ spawned = 0
  /\ joined = 0
  /\ claims = {}

Goto(w, label) == pc' = [pc EXCEPT ![w] = label]
At(w, label) == pc[w] = label /\ main # "aborted"
Write(w, entry) == log' = [log EXCEPT ![w] = Append(@, entry)]

-----------------------------------------------------------------------------
(* Slips: mistakes in the conditions and assignments below, for testing    *)
(* the properties.  None is part of the specification.                     *)

num_threads_Unclamped == IF args.j < 0 THEN 0 ELSE args.j
MoreFiles_Inclusive == file_index <= num_files
MoreFiles_ButLast == file_index + 1 < num_files
NextIndex_Stored(w) == eval_file[w] + 1
MayJoin_Detached(w) == TRUE
LastSpawned_RunsOver(n) == n > num_workers
StoredIndex_Dropped(w) == printed_file_index
Compare_Waits(w) ==
  /\ At(w, "compare")
  /\ Goto(w, IF loaded[w] < file_index THEN "report" ELSE "loadPrinted")
  /\ UNCHANGED <<file_index, progressVars, log, eval_file, loaded, mainVars,
                 claims>>

-----------------------------------------------------------------------------
(* The conditions and values the code computes.                            *)

LastSpawned(n) == n = num_workers
MayJoin(w) == pc[w] = "done"
MoreFiles == file_index < num_files
NextIndex(w) == file_index + 1
StoredIndex(w) == loaded[w]
Outcome(w) == <<eval_file[w], "scanned">>

-----------------------------------------------------------------------------
(* The main thread.                                                        *)

(* handle_command_args: a training set and a file or a list are needed.    *)
Usable ==
  /\ ~args.unknown
  /\ args.train_dataset
  /\ args.eval_source_file \/ args.eval_source_file_list

ParseArguments ==
  /\ main = "arguments"
  /\ main' = IF Usable THEN "listing" ELSE "usage"
  /\ UNCHANGED <<file_index, progressVars, log, workerVars, args, num_files,
                 num_workers, spawned, joined, claims>>

(* A file given by -e is the whole list, and the list of -s is not read.   *)
ListLength == IF args.eval_source_file THEN 1 ELSE args.lines

ReadList ==
  /\ main = "listing"
  /\ num_files' = ListLength
  /\ main' = "training"
  /\ UNCHANGED <<file_index, progressVars, log, workerVars, args, num_workers,
                 spawned, joined, claims>>

(* The list cannot be opened.  The exception is thrown before the try      *)
(* block, so nothing catches it.                                           *)
ReadListFails ==
  /\ main = "listing"
  /\ ~args.eval_source_file
  /\ main' = "aborted"
  /\ UNCHANGED <<file_index, progressVars, log, workerVars, args, num_files,
                 num_workers, spawned, joined, claims>>

(* The number of threads is at least 1, and so is its root.                *)
num_threads_ == IF args.j < 1 THEN 1 ELSE args.j

Train ==
  /\ main = "training"
  /\ num_workers' = Sqrt(num_threads_)
  /\ main' = IF Sqrt(num_threads_) = 0 THEN "joining" ELSE "spawning"
  /\ UNCHANGED <<file_index, progressVars, log, workerVars, args, num_files,
                 spawned, joined, claims>>

(* The training data set is missing or holds no pattern.  The exception is *)
(* caught, its message printed, and main returns 0.                        *)
TrainFails ==
  /\ main = "training"
  /\ main' = "reported"
  /\ UNCHANGED <<file_index, progressVars, log, workerVars, args, num_files,
                 num_workers, spawned, joined, claims>>

Spawn ==
  /\ main = "spawning"
  /\ spawned' = spawned + 1
  /\ Goto(spawned + 1, "check")
  /\ main' = IF LastSpawned(spawned + 1) THEN "joining" ELSE "spawning"
  /\ UNCHANGED <<file_index, progressVars, log, eval_file, loaded, args,
                 num_files, num_workers, joined, claims>>

(* std::thread throws.  With a joinable thread in the vector unwinding     *)
(* ends the process; with none the exception reaches the handler.          *)
SpawnFails ==
  /\ main = "spawning"
  /\ main' = IF spawned = 0 THEN "reported" ELSE "aborted"
  /\ UNCHANGED <<file_index, progressVars, log, workerVars, args, num_files,
                 num_workers, spawned, joined, claims>>

Join ==
  /\ main = "joining"
  /\ joined < num_workers
  /\ MayJoin(joined + 1)
  /\ joined' = joined + 1
  /\ UNCHANGED <<file_index, progressVars, log, workerVars, args, num_files,
                 num_workers, main, spawned, claims>>

Return ==
  /\ main = "joining"
  /\ joined = num_workers
  /\ main' = "finished"
  /\ UNCHANGED <<file_index, progressVars, log, workerVars, args, num_files,
                 num_workers, spawned, joined, claims>>

-----------------------------------------------------------------------------
(* A worker: thread_scan_fn.                                               *)

Check(w) ==
  /\ At(w, "check")
  /\ Goto(w, IF MoreFiles THEN "grab" ELSE "done")
  /\ UNCHANGED <<file_index, progressVars, log, eval_file, loaded, mainVars,
                 claims>>

Grab(w) ==
  /\ At(w, "grab")
  /\ eval_file' = [eval_file EXCEPT ![w] = file_index]
  /\ Goto(w, "advance")
  /\ UNCHANGED <<file_index, progressVars, log, loaded, mainVars, claims>>

Advance(w) ==
  /\ At(w, "advance")
  /\ file_index' = NextIndex(w)
  /\ claims' = claims \cup {<<w, eval_file[w]>>}
  /\ Goto(w, "announce")
  /\ UNCHANGED <<progressVars, log, eval_file, loaded, mainVars>>

(* "Scanning File: ..." goes to the worker's own log.                      *)
Announce(w) ==
  /\ At(w, "announce")
  /\ eval_file[w] < num_files
  /\ Write(w, <<eval_file[w], "scanning">>)
  /\ Goto(w, "scan")
  /\ UNCHANGED <<file_index, progressVars, eval_file, loaded, mainVars, claims>>

(* The reference is past the end of eval_file_names.  Reading through it   *)
(* is undefined: some bytes are taken for a name, or the process dies.     *)
AnnounceOutOfRange(w) ==
  /\ At(w, "announce")
  /\ eval_file[w] >= num_files
  /\ \/ /\ Write(w, <<eval_file[w], "scanning">>)
        /\ Goto(w, "scan")
        /\ UNCHANGED main
     \/ /\ main' = "aborted"
        /\ UNCHANGED <<pc, log>>
  /\ UNCHANGED <<file_index, progressVars, eval_file, loaded, args,
                 num_files, num_workers, spawned, joined, claims>>

(* ScanFile.  Bytes that are no name name no file that can be read.        *)
Scan(w) ==
  /\ At(w, "scan")
  /\ eval_file[w] \in Files \ Unreadable
  /\ Write(w, Outcome(w))
  /\ Goto(w, "mod")
  /\ UNCHANGED <<file_index, progressVars, eval_file, loaded, mainVars, claims>>

ScanSkips(w) ==
  /\ At(w, "scan")
  /\ eval_file[w] \notin Files \ Unreadable
  /\ Write(w, <<eval_file[w], "skipping">>)
  /\ Goto(w, "mod")
  /\ UNCHANGED <<file_index, progressVars, eval_file, loaded, mainVars, claims>>

(* Only GetTSTree is inside a try block: any other exception leaves the    *)
(* thread function, and the process ends.                                  *)
ScanThrows(w) ==
  /\ At(w, "scan")
  /\ eval_file[w] \in Files \cap Throwing
  /\ main' = "aborted"
  /\ UNCHANGED <<file_index, progressVars, log, workerVars, args, num_files,
                 num_workers, spawned, joined, claims>>

(* The progress report loads file_index up to four times.                  *)
TestTenth(w) ==
  /\ At(w, "mod")
  /\ Goto(w, IF file_index % tenth_eval_file_names = 0 THEN "loadPrinted"
                                                       ELSE "loadIndex")
  /\ UNCHANGED <<file_index, progressVars, log, eval_file, loaded, mainVars,
                 claims>>

LoadPrinted(w) ==
  /\ At(w, "loadPrinted")
  /\ loaded' = [loaded EXCEPT ![w] = printed_file_index]
  /\ Goto(w, "compare")
  /\ UNCHANGED <<file_index, progressVars, log, eval_file, mainVars, claims>>

Compare(w) ==
  /\ At(w, "compare")
  /\ Goto(w, IF loaded[w] < file_index THEN "report" ELSE "loadIndex")
  /\ UNCHANGED <<file_index, progressVars, log, eval_file, loaded, mainVars,
                 claims>>

Report(w) ==
  /\ At(w, "report")
  /\ reports' = reports \cup {file_index}
  /\ Goto(w, "loadIndex")
  /\ UNCHANGED <<file_index, printed_file_index, log, eval_file, loaded,
                 mainVars, claims>>

LoadIndex(w) ==
  /\ At(w, "loadIndex")
  /\ loaded' = [loaded EXCEPT ![w] = file_index]
  /\ Goto(w, "storePrinted")
  /\ UNCHANGED <<file_index, progressVars, log, eval_file, mainVars, claims>>

StorePrinted(w) ==
  /\ At(w, "storePrinted")
  /\ printed_file_index' = StoredIndex(w)
  /\ Goto(w, "check")
  /\ UNCHANGED <<file_index, reports, log, eval_file, loaded, mainVars, claims>>

-----------------------------------------------------------------------------
MainStep == ParseArguments \/ ReadList \/ Train \/ Spawn \/ Join \/ Return

MainFails == ReadListFails \/ TrainFails \/ SpawnFails

WorkerStep(w) ==
  \/ Check(w) \/ Grab(w) \/ Advance(w)
  \/ Announce(w) \/ AnnounceOutOfRange(w)
  \/ Scan(w) \/ ScanSkips(w) \/ ScanThrows(w)
  \/ TestTenth(w) \/ LoadPrinted(w) \/ Compare(w) \/ Report(w)
  \/ LoadIndex(w) \/ StorePrinted(w)

(* The process has ended, one way or another.                              *)
Over ==
  /\ main \in {"finished", "usage", "reported", "aborted"}
  /\ UNCHANGED vars

Next == MainStep \/ MainFails \/ (\E w \in Workers : WorkerStep(w)) \/ Over

Spec == Init /\ [][Next]_vars

(* The operating system schedules every thread that can take a step.       *)
FairSpec ==
  /\ Spec
  /\ WF_vars(MainStep)
  /\ \A w \in Workers : WF_vars(WorkerStep(w))

-----------------------------------------------------------------------------
(* However the scanner threads interleave, the index passes the end of the *)
(* list by less than the number of threads, and with one thread no file    *)
(* name is read from past the end.                                         *)
OvershootBound ==
  /\ num_workers > 0 => file_index < num_files + num_workers
  /\ \A c \in claims : c[2] < num_files + num_workers - 1

(* A thread reaches the progress report only after it took a file, so the  *)
(* list is not empty and the tenth of it is not zero: the modulus is       *)
(* defined although nothing at line 135 excludes an empty list.            *)
NoModuloByZero ==
  (\E w \in Workers : pc[w] = "mod") => tenth_eval_file_names > 0

(* Every variable holds a value of its type; both indexes fit in a size_t, *)
(* since the race has a bound, and nothing is divided by zero.             *)
TypeOK ==
  /\ args \in Arguments
  /\ num_files \in 0..MaxFiles
  /\ num_workers \in 0..MaxWorkers
  /\ file_index \in 0..SizeMax
  /\ printed_file_index \in 0..SizeMax
  /\ reports \subseteq Nat
  /\ log \in [Workers -> Seq(Nat \X {"scanning", "scanned", "skipping"})]
  /\ pc \in [Workers ->
       {"idle", "check", "grab", "advance", "announce", "scan", "mod",
        "loadPrinted", "compare", "report", "loadIndex", "storePrinted",
        "done"}]
  /\ eval_file \in [Workers -> Nat]
  /\ loaded \in [Workers -> Nat]
  /\ main \in {"arguments", "usage", "listing", "training", "spawning",
               "joining", "finished", "reported", "aborted"}
  /\ spawned \in 0..num_workers
  /\ joined \in 0..num_workers
  /\ claims \subseteq Workers \X Nat
  /\ OvershootBound
  /\ NoModuloByZero

(* Entries come in pairs: a file is named before its scan and again, with  *)
(* how the scan ended, after it.  The files of successive pairs ascend.    *)
IsAccount(entries) ==
  /\ \A i \in DOMAIN entries : entries[i][2] = "scanning" <=> i % 2 = 1
  /\ \A i, j \in DOMAIN entries : i < j =>
       IF i % 2 = 1 /\ j = i + 1 THEN entries[i][1] = entries[j][1]
                                 ELSE entries[i][1] < entries[j][1]

Named(entries) == {entries[i][1] : i \in DOMAIN entries}

(* The files a worker took.                                                *)
TakenBy(w) == {c[2] : c \in {d \in claims : d[1] = w}}

(* The log of a worker is an account of its claims: when the scan has      *)
(* finished it names every file the worker grabbed, in the order of the    *)
(* list and each once, and next to each name stands how its scan ended.    *)
(* No thread is still writing when main goes on: it uses main's locals.    *)
(* When an exception in any thread ends the process instead, each log is   *)
(* an account of what its worker took, short of at most one file and of    *)
(* how the last scan ended.                                                *)
LogAccountsForClaims ==
  /\ main = "finished" =>
       \A w \in Workers :
         /\ IsAccount(log[w]) /\ Len(log[w]) % 2 = 0
         /\ Named(log[w]) = TakenBy(w)
  /\ main = "aborted" =>
       \A w \in Workers :
         /\ IsAccount(log[w])
         /\ Named(log[w]) \subseteq TakenBy(w)
         /\ TakenBy(w) \ Named(log[w]) \subseteq {eval_file[w]}

(* "Greedy multi-threading: scan next file if current is complete."        *)
(* (src/cf_file_scanner.cpp:143): every file of the list is taken.         *)
EveryFileTaken ==
  main = "finished" =>
    \A k \in Files : \E w \in Workers : <<w, k>> \in claims

(* With one thread (num_threads below 4) the index is no race: every file  *)
(* of the list is taken.                                                   *)
EveryFileTakenAlone == num_workers < 2 => EveryFileTaken

(* With one thread the progress lines are those of the tenths, none twice  *)
(* and none extra, except that none is printed after the first file: the   *)
(* initial -1 of printed_file_index is the largest size_t, which no index  *)
(* exceeds.  With more threads a line can be lost or show an index that is *)
(* no tenth, since the index shown is loaded after the one tested; but     *)
(* whatever is stored as printed_file_index in between, no line shows the  *)
(* first file, or an index that is past the end by num_workers or more.    *)
ReportsTheTenths ==
  /\ \A i \in reports : 2 <= i /\ i < num_files + num_workers
  /\ main = "finished" /\ num_workers = 1 =>
       reports = {i \in 2..num_files : i % tenth_eval_file_names = 0}

(* The main thread ends: no thread is waited for that does not finish,     *)
(* whatever the list holds and however the threads race.                   *)
Terminates == <>(main \in {"finished", "usage", "reported", "aborted"})

(* "Report progress at every 10th % point." (src/cf_file_scanner.cpp:175): *)
(* with one worker, a line for every multiple of the tenth.                *)
ReportsEveryTenth ==
  main = "finished" =>
    \A i \in 1..num_files : i % tenth_eval_file_names = 0 => i \in reports

-----------------------------------------------------------------------------
(* What holds all along and makes the properties above hold.               *)

Overtaking == {w \in Workers : pc[w] \in {"grab", "advance"}}

InRange == {c \in claims : c[2] < num_files}

(* The files that were taken.                                              *)
Taken == {k \in Files : \E w \in Workers : <<w, k>> \in claims}

(* Nothing is shared out before the list is known and the crew complete.   *)
ControlInv ==
  /\ num_workers >= 1
  /\ joined <= spawned
  /\ num_files <= ListLength
  /\ main \in {"arguments", "listing"} => num_files = 0
  /\ main \in {"training", "spawning", "joining", "finished"} =>
       num_files = ListLength
  /\ main \in {"arguments", "usage", "listing", "training", "reported"} =>
       spawned = 0
  /\ main = "spawning" => spawned < num_workers
  /\ main \in {"joining", "finished"} => spawned = num_workers
  /\ main = "finished" => joined = num_workers
  /\ spawned = 0 => file_index = 0 /\ reports = {} /\ claims = {}
  /\ \A w \in Workers :
       /\ (pc[w] = "idle") <=> (w > spawned)
       /\ pc[w] = "idle" => log[w] = << >>
       /\ w <= joined => (pc[w] = "done")
       /\ pc[w] = "done" => file_index >= num_files
       /\ pc[w] \notin {"idle", "check", "done"} => num_files > 0

OvershootInv ==
  file_index + Cardinality(Overtaking) <= num_files + num_workers - 1

ClaimInv ==
  /\ \A c \in claims :
       /\ c[1] <= spawned
       /\ c[2] < file_index
       /\ c[2] < num_files + num_workers - 1
  /\ \A w \in Workers :
       /\ pc[w] = "advance" =>
            /\ eval_file[w] <= file_index
            /\ \A c \in claims : c[1] = w => c[2] < eval_file[w]
       /\ pc[w] \in {"announce", "scan"} => <<w, eval_file[w]>> \in claims
       /\ pc[w] \notin {"idle", "check", "grab", "advance", "done"} =>
            file_index > 0

CountInv ==
  /\ IsFiniteSet(claims)
  /\ Cardinality(InRange) >= IF file_index < num_files THEN file_index
                                                       ELSE num_files

(* What is stored as printed_file_index was loaded from one of the two,    *)
(* and is not zero: who reports has seen a greater index.                  *)
PrintedInv ==
  /\ printed_file_index \in 1..SizeMax
  /\ loaded \in [Workers -> 0..SizeMax]
  /\ spawned = 0 => printed_file_index = SizeMax
  /\ \A w \in Workers :
       /\ pc[w] \in {"compare", "storePrinted"} => loaded[w] > 0
       /\ pc[w] = "report" => file_index >= 2
  /\ \A i \in reports : 2 <= i /\ i < num_files + num_workers

(* With one thread: the tenths reported so far.  printed_file_index is the *)
(* index before the last increment, or still the -1 it began with.         *)
Tenths(n) == {i \in 2..n : i % tenth_eval_file_names = 0}
Previous == IF file_index < 2 THEN SizeMax ELSE file_index - 1

ReportsInv ==
  num_workers = 1 /\ spawned = 1 =>
    /\ pc[1] \in {"check", "grab", "advance", "done"} =>
         /\ reports = Tenths(file_index)
         /\ printed_file_index = IF file_index = 0 THEN SizeMax
                                                   ELSE file_index
    /\ pc[1] \in {"announce", "scan", "mod", "loadPrinted", "compare",
                  "report"} => reports = Tenths(file_index - 1)
    /\ pc[1] \in {"announce", "scan", "mod", "loadPrinted"} =>
         printed_file_index = Previous
    /\ pc[1] = "compare" => loaded[1] = Previous
    /\ pc[1] = "report" => file_index >= 2
    /\ pc[1] \in {"loadPrinted", "compare", "report"} =>
         file_index % tenth_eval_file_names = 0
    /\ pc[1] \in {"loadIndex", "storePrinted"} => reports = Tenths(file_index)
    /\ pc[1] = "storePrinted" => loaded[1] = file_index

(* A log is short of one file while that file is announced, and of how its *)
(* scan ends while it is scanned.                                          *)
AccountInv ==
  \A w \in Workers :
    LET n == Len(log[w])
    IN  /\ IsAccount(log[w])
        /\ n % 2 = IF pc[w] = "scan" THEN 1 ELSE 0
        /\ pc[w] = "scan" => log[w][n][1] = eval_file[w]
        /\ Named(log[w]) = TakenBy(w) \ (IF pc[w] = "announce"
                                           THEN {eval_file[w]} ELSE {})
        /\ pc[w] = "announce" =>
             \A i \in DOMAIN log[w] : log[w][i][1] < eval_file[w]

(* The inductive invariant.                                                *)
IInv ==
  /\ TypeOK /\ ControlInv /\ OvershootInv /\ ClaimInv /\ CountInv
  /\ PrintedInv /\ ReportsInv /\ AccountInv

-----------------------------------------------------------------------------
(* The scan as a visit of the files.                                       *)

VisitsMade ==
  {c \in claims : /\ c[2] \in Files
                  /\ \/ pc[c[1]] \notin {"announce", "scan"}
                     \/ c[2] # eval_file[c[1]]}

Scanned ==
  {k \in Files : \E w \in Workers : \E i \in DOMAIN log[w] :
     log[w][i] = <<k, "scanned">>}

VisitStatus ==
  CASE main = "finished" -> "finished"
    [] main \in {"usage", "reported", "aborted"} -> "failed"
    [] OTHER -> "visiting"

Visit == INSTANCE GreedyVisit WITH
  Visitors <- Workers,
  Items <- 0..MaxFiles - 1,
  Selected <- (0..MaxFiles - 1) \ Unreadable,
  items <- 0..ListLength - 1, visited <- VisitsMade, found <- Scanned,
  status <- VisitStatus

(* The scan implements the bounded visit: no thread scans a file twice,    *)
(* the files reported as scanned are the readable ones that were taken,    *)
(* and main ends normally only when one file in MaxWorkers has been taken. *)
ImplementsGreedyVisit == Visit!Spec
=============================================================================
