-------------------------------- MODULE MCGlog --------------------------------
(***************************************************************************)
(* The logging library for TLC: instances of its modules, of which every   *)
(* behaviour runs one.  What the variables part1 .. part7 hold depends on  *)
(* the component; the rest of them stay 0.  MCLibraries runs this module.  *)
(***************************************************************************)
EXTENDS Integers, SequencesExt

VARIABLES component, part1, part2, part3, part4, part5, part6, part7

glogVars == <<part1, part2, part3, part4, part5, part6, part7>>

-----------------------------------------------------------------------------
(* Threads that log *)

MCDirs == <<"tmp", "here">>

\* One thread, and what happens to its files: rollover, no place to create them,
\* a full disk, new names.
LogFiles == INSTANCE LogMessages WITH
  MaxLogSize <- 3, kRolloverAttemptFrequency <- 3, FlushBytes <- 10, logbufsecs <- 1,
  StopIfFullDisk <- TRUE, Dirs <- MCDirs, Writable <- {"here", "a"},
  Threads <- {"t1"}, Writer <- "w", Owner <- "t1", Sinks <- {}, WaitingSink <- "ws",
  OwnSink <- "own", None <- "none", Fatal <- 1, LogBufLevel <- 0, LogToStderr <- FALSE,
  ReadersShare <- TRUE, Methods <- {"SendToLog"}, Basenames <- {"", "a", "b"},
  Extensions <- {"x"}, MaxMessages <- 4, MaxOps <- 2, MaxTime <- 2,
  world <- part1, thread <- part2, message <- part3, log <- part4, sinks <- part5,
  history <- part6

\* Two threads that log in every way, and may both log the last message.
LogThreads == INSTANCE LogMessages WITH
  MaxLogSize <- 3, kRolloverAttemptFrequency <- 2, FlushBytes <- 10, logbufsecs <- 1,
  StopIfFullDisk <- TRUE, Dirs <- MCDirs, Writable <- {"here", "a"},
  Threads <- {"t1", "t2"}, Writer <- "w", Owner <- "t1", Sinks <- {}, WaitingSink <- "ws",
  OwnSink <- "own", None <- "none", Fatal <- 1, LogBufLevel <- 0, LogToStderr <- FALSE,
  ReadersShare <- FALSE, Methods <- {"SendToLog", "SendToSink", "SendToSinkAndLog"},
  Basenames <- {}, Extensions <- {}, MaxMessages <- 3, MaxOps <- 0, MaxTime <- 1,
  world <- part1, thread <- part2, message <- part3, log <- part4, sinks <- part5,
  history <- part6

\* Two threads, a sink that waits and logs itself and one that does neither; no
\* files.
LogSinks == INSTANCE LogMessages WITH
  MaxLogSize <- 3, kRolloverAttemptFrequency <- 2, FlushBytes <- 10, logbufsecs <- 1,
  StopIfFullDisk <- TRUE, Dirs <- MCDirs, Writable <- {"here", "a"},
  Threads <- {"t1", "t2"}, Writer <- "w", Owner <- "t1", Sinks <- {"ws", "ps"},
  WaitingSink <- "ws", OwnSink <- "own", None <- "none", Fatal <- 1, LogBufLevel <- 0,
  LogToStderr <- TRUE, ReadersShare <- TRUE, Methods <- {"SendToLog"}, Basenames <- {},
  Extensions <- {}, MaxMessages <- 2, MaxOps <- 3, MaxTime <- 1,
  world <- part1, thread <- part2, message <- part3, log <- part4, sinks <- part5,
  history <- part6

\* The same where readers of the list exclude each other, with the waiting sink and
\* messages enough for its owner to log while the sink's thread does.
LogLocks == INSTANCE LogMessages WITH
  MaxLogSize <- 3, kRolloverAttemptFrequency <- 2, FlushBytes <- 10, logbufsecs <- 1,
  StopIfFullDisk <- TRUE, Dirs <- MCDirs, Writable <- {"here", "a"},
  Threads <- {"t1", "t2"}, Writer <- "w", Owner <- "t1", Sinks <- {"ws"},
  WaitingSink <- "ws", OwnSink <- "own", None <- "none", Fatal <- 1, LogBufLevel <- 0,
  LogToStderr <- TRUE, ReadersShare <- FALSE, Methods <- {"SendToLog"}, Basenames <- {},
  Extensions <- {}, MaxMessages <- 3, MaxOps <- 2, MaxTime <- 1,
  world <- part1, thread <- part2, message <- part3, log <- part4, sinks <- part5,
  history <- part6

\* A quiet program; one whose environment is set to nothing; one that copies to
\* stderr, without syslog; and two that mail.
Quiet ==
  [logtostderr |-> "unset", alsologtostderr |-> FALSE, stderrthreshold |-> 2,
   minloglevel |-> 0, logemaillevel |-> 999, alsologtoemail |-> FALSE, verbose |-> FALSE,
   mailer |-> TRUE, syslog |-> TRUE, handler |-> FALSE]
MCSettings ==
  {Quiet, [Quiet EXCEPT !.logtostderr = "", !.handler = TRUE],
   [Quiet EXCEPT !.alsologtostderr = TRUE, !.minloglevel = 1, !.syslog = FALSE],
   [Quiet EXCEPT !.stderrthreshold = 1, !.verbose = TRUE, !.handler = TRUE,
                 !.alsologtoemail = TRUE],
   [Quiet EXCEPT !.logtostderr = "0", !.logemaillevel = 1, !.alsologtoemail = TRUE]}

Destinations == INSTANCE LogDestinations WITH
  Fatal <- 2, Loggers <- {"l1", "l2"}, Settings <- MCSettings, MaxOps <- 3,
  flags <- part1, lib <- part2, dest <- part3, loggers <- part4, process <- part5,
  last <- part6

Locks == INSTANCE MutexLocks WITH
  Threads <- {"t1", "t2", "t3"}, Main <- "t1",
  Builds <- {"NO_THREADS", "NDEBUG", "CRITICAL_SECTION", "RWLOCK", "PTHREAD"},
  MaxNested <- 2, MaxLocks <- 5,
  mutex <- part1, scopes <- part2, taken <- part3

\* Texts that fit and that do not, with newlines in every place; LOG within LOG.
MessageTexts == INSTANCE MessageText WITH
  kMaxLogMessageLen <- 4, PrefixLengths <- {0, 1, 3}, Chars <- {"c", "newline"},
  Newline <- "newline", Prefix <- "p", Error <- "e", Nul <- "nul", MaxNested <- 2,
  MaxPuts <- 3, kLogBufSize <- 8, Lengths <- {0, 1, 2, 3, 5, 6, 7, 8, 9},
  buffers <- part1, available <- part2, messages <- part3, sent <- part4, raw <- part5

-----------------------------------------------------------------------------
(* When the program crashes *)

Signals == INSTANCE FailureSignals WITH
  Threads <- {"t1", "t2", "t3"}, Signals <- {"segv", "abrt"}, NoThread <- "none",
  Items <- 2, MaxSignals <- 4,
  entered <- part1, frames <- part2, process <- part3, dumped <- part4

\* Numbers at the ends of eight bits; buffers that are too small and just enough.
Text == INSTANCE SignalSafeText WITH
  Bits <- 8, Numbers <- {0, 7, -1, -100, 200, -128}, Strings <- {<<>>, <<20, 21, 22>>},
  Widths <- {0, 6}, Paddings <- {0, 3}, Sizes <- {1, 4, 7}, MaxPieces <- 4,
  formatter <- part1, string <- part2, number <- part3, use <- part4

Segment(offset, vaddr, size, exec) ==
  [offset |-> offset, vaddr |-> vaddr, size |-> size, read |-> TRUE, exec |-> exec]
Symbol(value, size, defined, name, length) ==
  [value |-> value, size |-> size, defined |-> defined, name |-> name, length |-> length]
Unnamed(type, segment) ==
  [type |-> type, opens |-> type # "ET_DYN", segments |-> <<segment>>, sections |-> <<>>,
   symtab |-> <<>>, dynsym |-> <<>>]

\* A program at fixed addresses, a stripped library whose first address is not 0,
\* a map that is no file, a heap, and an object file that is mapped as data.
MCObjects ==
  [prog |-> [type |-> "ET_EXEC", opens |-> TRUE,
             segments |-> <<Segment(0, 10, 4, FALSE), Segment(4, 14, 6, TRUE)>>,
             sections |-> <<"NULL", "DYNSYM", "STRTAB", "SYMTAB">>,
             symtab |-> <<Symbol(0, 99, TRUE, "zero", 4), Symbol(14, 99, FALSE, "undef", 5),
                          Symbol(16, 2, TRUE, "main", 4), Symbol(14, 2, TRUE, "start", 5),
                          Symbol(14, 1, TRUE, "alias", 5)>>,
             dynsym |-> <<Symbol(18, 2, TRUE, "dyn", 3), Symbol(16, 2, TRUE, "m", 1)>>],
   lib |-> [type |-> "ET_DYN", opens |-> TRUE,
            segments |-> <<Segment(0, 2, 2, FALSE), Segment(2, 4, 4, TRUE)>>,
            sections |-> <<"NULL", "STRTAB", "STRTAB", "DYNSYM">>,
            symtab |-> <<Symbol(4, 4, TRUE, "stripped", 8)>>,
            dynsym |-> <<Symbol(4, 2, TRUE, "f", 1), Symbol(6, 1, TRUE, "g", 1)>>],
   vdso |-> Unnamed("ET_DYN", Segment(0, 0, 4, TRUE)),
   heap |-> Unnamed("none", Segment(0, 0, 3, FALSE)),
   data |-> Unnamed("ET_REL", Segment(0, 0, 2, FALSE))]

Load(object, bias) == [object |-> object, bias |-> bias]
MCImages ==
  {<<Load("prog", 0), Load("heap", 20), Load("lib", 30), Load("data", 40), Load("vdso", 44)>>,
   <<Load("lib", 0), Load("data", 9), Load("lib", 20), Load("heap", 30), Load("vdso", 40)>>}
MCTexts == UNION {[1 .. n -> {0, 1}] : n \in 0 .. 6} \cup {<<1, 1, 0, 2, 0, 1, 1, 1, 0>>}

Symbols == INSTANCE Symbolizer WITH
  Texts <- MCTexts, BufferSizes <- {1, 3, 4}, Objects <- MCObjects, Images <- MCImages,
  Pcs <- 0 .. 50, OutSizes <- {3, 10}, Batch <- 2,
  reader <- part1, search <- part2

\* Stacks that end as they should, with a marker that points to itself, and astray.
MCStack(end, marker) ==
  [frames |-> <<4, 8, 20>>, callers |-> <<101, 102, 103>>, end |-> end, marker |-> marker]
MCStacks ==
  {MCStack(0, -2), MCStack(24, 24), MCStack(8, -2), MCStack(23, -2), MCStack(60, -2),
   MCStack(24, -2)}

Traces == INSTANCE StackTraces WITH
  Kinds <- {"x86", "powerpc", "x86_64", "libunwind", "generic"}, Stacks <- MCStacks,
  Depths <- {0, 2, 9}, Skips <- {0, 4}, WordSize <- 2, MaxFrame <- 14, kStackLength <- 3,
  Bogus <- 99, MaxWalks <- 2,
  platform <- part1, stack <- part2, walks <- part3, entered <- part4, done <- part5

-----------------------------------------------------------------------------
(* What controls it, and what is left on the disk *)

Rule(pattern, level) == [pattern |-> pattern, level |-> level]
AB == <<"a", "b">>
MCFlags ==
  {<<>>, <<Rule(<<"a", "*">>, 1), Rule(AB, 0)>>,
   <<Rule(AB, -9), Rule(<<"*", "b">>, 1), Rule(<<"a", "*">>, 0)>>,
   <<Rule(AB, 1), Rule(AB, 0)>>}
MCPatterns ==
  {AB, <<"a", "*">>, <<"*", "b">>, <<"?", "b">>, <<"*", "b", "*">>, <<"*">>, <<"b">>}
MCFiles == {<<"a">>, AB, <<"b">>, <<"b", "a">>, <<"a", "b", "b">>, <<>>}
MCSiteFile == [site \in {1, 2} |-> IF site = 1 THEN AB ELSE <<"a">>]

Vlog == INSTANCE VlogLevels WITH
  Flags <- MCFlags, Patterns <- MCPatterns, Files <- MCFiles, Levels <- {0, 1},
  Malformed <- -9, Sites <- {1, 2}, SiteFile <- MCSiteFile, MaxOps <- 3,
  flags <- part1, list <- part2, entries <- part3, inited <- part4, sites <- part5,
  answer <- part6, vops <- part7

\* Names of log files, and names that differ from them in one place.
NameOfLength(n) == [i \in 1 .. n |-> CASE i = 9 -> "-" [] i = 16 -> "." [] OTHER -> "0"]
MCEndings ==
  {NameOfLength(17), NameOfLength(18), <<>>, NameOfLength(4), <<".", "x">>,
   [NameOfLength(17) EXCEPT ![9] = "0"], [NameOfLength(17) EXCEPT ![3] = "x"]}
MCCharacters == {"letter", "blank", "quote", "doublequote", "backslash", "dollar"}
MCWords == UNION {[1 .. n -> MCCharacters] : n \in 0 .. 3}
MCEnvironments ==
  {<<a, b, c>> : a \in {"NULL", "t"}, b \in {"NULL", "u"}, c \in {"NULL", "v"}}

House == INSTANCE LogHousekeeping WITH
  Dirs <- {"d", "e"}, Bases <- {"p", "q"}, Endings <- MCEndings, Ages <- {1, 3},
  OverdueDays <- 2, Environments <- MCEnvironments,
  Existing <- {{}, {"u"}, {"t", "v"}, {"/tmp"}}, LogDirs <- {"", "l"}, Words <- MCWords,
  Sizes <- {2, 5}, Limits <- {1, 3}, Keeps <- {0, 1, 3, 6}, BlockSize <- 2,
  MaxAppends <- 2,
  job <- part1, dir <- part2, file <- part3

\* Files whose names cannot be converted, with and without a short name that can.
File(name, alternate, attributes) ==
  [name |-> name, alternate |-> alternate, attributes |-> attributes]
MCDirectories ==
  {<<>>, <<File(3, 0, {})>>,
   <<File(4, 1, {"DIRECTORY"}), File(2, 0, {"DEVICE", "DIRECTORY"}), File(5, 6, {})>>}

Dirents == INSTANCE DirectoryStream WITH
  Directories <- MCDirectories, Narrow <- {1, 2, 3}, Filters <- {0 .. 9, {0, 2}},
  None <- "none", MaxSearches <- 2, MaxReads <- 4,
  disk <- part1, stream <- part2, searches <- part3, live <- part4, scan <- part5,
  seen <- part6

ASSUME GlogAssumptions ==
  /\ LogFiles!LogMessagesAssumption /\ LogThreads!LogMessagesAssumption
  /\ LogSinks!LogMessagesAssumption /\ LogLocks!LogMessagesAssumption
  /\ Signals!SignalsAssumption /\ Text!TextAssumption
  /\ Symbols!SymbolizerAssumption /\ MessageTexts!TextAssumption
  /\ Traces!StackAssumption /\ Dirents!DirectoryAssumption /\ Vlog!VlogAssumption
  /\ House!HousekeepingAssumption /\ Destinations!DestinationsAssumption
  /\ Locks!MutexAssumption

-----------------------------------------------------------------------------
(* The composition *)

From3 == part3 = 0 /\ part4 = 0 /\ part5 = 0 /\ part6 = 0 /\ part7 = 0
From4 == part4 = 0 /\ part5 = 0 /\ part6 = 0 /\ part7 = 0
From5 == part5 = 0 /\ part6 = 0 /\ part7 = 0

GlogInit ==
  \/ component = "log_files" /\ LogFiles!Init /\ part7 = 0
  \/ component = "log_threads" /\ LogThreads!Init /\ part7 = 0
  \/ component = "log_sinks" /\ LogSinks!Init /\ part7 = 0
  \/ component = "log_locks" /\ LogLocks!Init /\ part7 = 0
  \/ component = "messages" /\ MessageTexts!Init /\ part6 = 0 /\ part7 = 0
  \/ component = "destinations" /\ Destinations!Init /\ part7 = 0
  \/ component = "locks" /\ Locks!Init /\ From4
  \/ component = "traces" /\ Traces!Init /\ part6 = 0 /\ part7 = 0
  \/ component = "dirents" /\ Dirents!Init /\ part7 = 0
  \/ component = "signals" /\ Signals!Init /\ From5
  \/ component = "text" /\ Text!Init /\ From5
  \/ component = "symbols" /\ Symbols!Init /\ From3
  \/ component = "vlog" /\ Vlog!Init
  \/ component = "house" /\ House!Init /\ From4

GlogNext ==
  \/ component = "log_files" /\ LogFiles!Next /\ UNCHANGED part7
  \/ component = "log_threads" /\ LogThreads!Next /\ UNCHANGED part7
  \/ component = "log_sinks" /\ LogSinks!Next /\ UNCHANGED part7
  \/ component = "log_locks" /\ LogLocks!Next /\ UNCHANGED part7
  \/ component = "messages" /\ MessageTexts!Next /\ UNCHANGED <<part6, part7>>
  \/ component = "destinations" /\ Destinations!Next /\ UNCHANGED part7
  \/ component = "locks" /\ Locks!Next /\ UNCHANGED <<part4, part5, part6, part7>>
  \/ component = "traces" /\ Traces!Next /\ UNCHANGED <<part6, part7>>
  \/ component = "dirents" /\ Dirents!Next /\ UNCHANGED part7
  \/ component = "signals" /\ Signals!Next /\ UNCHANGED <<part5, part6, part7>>
  \/ component = "text" /\ Text!Next /\ UNCHANGED <<part5, part6, part7>>
  \/ component = "symbols" /\ Symbols!Next
     /\ UNCHANGED <<part3, part4, part5, part6, part7>>
  \/ component = "vlog" /\ Vlog!Next
  \/ component = "house" /\ House!Next /\ UNCHANGED <<part4, part5, part6, part7>>

-----------------------------------------------------------------------------
(* The properties, stated where each component is modelled *)

\* logging.cc: messages are in every file they belong to, in one order, or were
\* lost for a reason; what was before a FATAL message has left the buffers; their
\* text is what was streamed, in buffers that other messages do not touch; and they
\* go where flags, loggers and levels send them, once.
LogsKept ==
  /\ component = "destinations" => Destinations!DestinationsRight
  /\ component = "messages" => MessageTexts!MessagesWhole
  /\ component = "log_files" => LogFiles!LogsKept /\ LogFiles!FilesInv
  /\ component = "log_threads" => LogThreads!LogsKept /\ LogThreads!FilesInv

\* logging.cc: each sink gets each message once while it is registered, LOG waits
\* for the sinks, and threads do not wait for each other, though a thread behind a
\* sink logs too, but in one circle where readers do not share a lock;
\* base/mutex.h: the locks exclude whom they should.
SinksServed ==
  /\ component = "locks" => Locks!LocksRight /\ Locks!MutexInv
  /\ component = "log_sinks" =>
       /\ LogSinks!SinksServed /\ LogSinks!TakenBeforeReturn /\ LogSinks!NoDeadlock
       /\ LogSinks!SinksInv /\ LogSinks!SomebodyCanGo
  /\ component = "log_locks" =>
       /\ LogLocks!SinksServed /\ LogLocks!TakenBeforeReturn /\ LogLocks!NoDeadlock
       /\ LogLocks!SinksInv /\ LogLocks!StuckOnlyInCircle
  /\ component = "log_files" => LogFiles!SinksInv
  /\ component = "log_threads" => LogThreads!SinksInv

\* signalhandler.cc, symbolize.cc, stacktrace_*.h: a crash is dumped once, in text
\* that fits its buffers, with the callers that every kind of unwinding finds and the
\* names of the functions that are loaded there.
CrashReported ==
  /\ component = "traces" => Traces!TracesRight
  /\ component = "signals" =>
       Signals!OneDump /\ Signals!SleepersEnd /\ Signals!DumpedAndFlushed
         /\ Signals!SignalsInv
  /\ component = "text" => Text!TextExact
  /\ component = "symbols" => Symbols!SymbolsRight

\* vlog_is_on.cc, logging.cc: levels of verbose logging are those last set, and
\* files that are cleaned or truncated lose only what they should, and on Windows
\* (windows/dirent.h) directories are read in full and nothing of them is leaked.
LogControlled ==
  /\ component = "dirents" => Dirents!StreamsRight
  /\ component = "vlog" => Vlog!VlogRight
  /\ component = "house" => House!HouseInOrder
=============================================================================
