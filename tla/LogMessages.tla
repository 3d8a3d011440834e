----------------------------- MODULE LogMessages -----------------------------
(***************************************************************************)
(* Threads that log: class LogMessage and class LogDestination of          *)
(* glog/src/logging.cc, with the sink of glog/src/logging_unittest.cc that *)
(* hands messages to a thread of its own, which logs too.                  *)
(*                                                                         *)
(* Messages are numbers, severities 0 .. Fatal.  A message is written to   *)
(* the files of its severity and of every lower one, and sent to the sinks *)
(* that are registered, under log_mutex; then LOG waits for the sinks.     *)
(*                                                                         *)
(* Left out: what is written to stderr, syslog and email, loggers that     *)
(* replace a file, buffers of a message (two threads that both log FATAL   *)
(* messages after a first share one), and destinations are there from the  *)
(* start instead of from their first use.                                  *)
(***************************************************************************)
EXTENDS LogFile, FiniteSets

CONSTANTS
  Threads,       \* threads of the program
  Writer,        \* the thread of the waiting sink
  Owner,         \* the thread that made it, the only one whose messages it takes
  Sinks,         \* sinks that may be registered
  WaitingSink,
  OwnSink,       \* a sink that is named by the message and not registered
  None,
  Fatal,         \* the severity that ends the program
  LogBufLevel,   \* the flag logbuflevel
  LogToStderr,   \* the flag logtostderr
  ReadersShare,  \* whether the build has locks that readers share
  Methods,       \* ways to send a message
  Basenames, Extensions,
  MaxMessages, MaxOps, MaxTime

LogMessagesAssumption ==
  /\ LogFileAssumption /\ Writer \notin Threads /\ Owner \in Threads
  /\ OwnSink \notin Sinks
  /\ None \notin Threads \cup {Writer} /\ Fatal \in Nat /\ LogToStderr \in BOOLEAN
  /\ LogBufLevel \in Int /\ ReadersShare \in BOOLEAN
  /\ Methods \subseteq {"SendToLog", "SendToSink", "SendToSinkAndLog"}
  /\ Basenames \subseteq Text /\ Extensions \subseteq Text

VARIABLES
  world,     \* the time, whether the disk is full (and ever was), the program alive
  thread,    \* of each thread, where it is, its message and position in a loop
  message,   \* all messages that were made
  log,       \* log_mutex and what it protects, and fatal_msg_exclusive
  sinks,     \* the list of sinks, who is reading it, the buffer of the waiting one
  history    \* messages in the order of log_mutex, what became of each at each
             \* file, and what each sink was sent

logVars == <<world, thread, message, log, sinks, history>>

Severities == 0 .. Fatal
AllThreads == Threads \cup {Writer}

Init ==
  /\ world = [now |-> 1, full |-> FALSE, was_full |-> FALSE, alive |-> TRUE, ops |-> 0]
  /\ thread = [t \in AllThreads |-> [pc |-> "idle", m |-> 0, at |-> 0]]
  /\ message = <<>>
  /\ log = [mutex |-> None, exclusive |-> TRUE, stop_writing |-> FALSE, crash_reason |-> 0,
            num_messages |-> [s \in Severities |-> 0],
            files |-> [s \in Severities |-> NewLogFile]]
  /\ sinks = [list |-> <<>>, readers |-> {}, buffer |-> <<>>]
  /\ history = [order |-> <<>>, outcomes |-> <<>>,
                got |-> [s \in Sinks \cup {OwnSink} |-> <<>>]]

Goto(t, pc, m, at) == thread' = [thread EXCEPT ![t] = [pc |-> pc, m |-> m, at |-> at]]
SeverityOf(m) == message[m].severity

\* The message ends the program when it has been sent.
Crashes(m) == SeverityOf(m) = Fatal /\ message[m].method # "SendToSink"

-----------------------------------------------------------------------------
(* LOG(severity): one message of a thread *)

\* LogMessage::Init.  The first FATAL message has data of its own.
Create(t, severity, method) ==
  /\ thread[t].pc = (IF t = Writer THEN "popped" ELSE "idle")
  /\ Len(message) < MaxMessages \/ t = Writer
  /\ message' = Append(message, [severity |-> severity, method |-> method,
                                 timestamp |-> world.now,
                                 first_fatal |-> severity = Fatal /\ log.exclusive])
  /\ log' = [log EXCEPT !.exclusive = @ /\ severity # Fatal]
  /\ Goto(t, "locking", Len(message) + 1, 0)
  /\ UNCHANGED <<world, sinks, history>>

\* Faulty variant: each file is left to its own lock.
MutexFreeAlways == TRUE
MutexFree == log.mutex = None

\* LogMessage::Flush takes log_mutex; a sink that is named comes first.
Lock(t) ==
  LET m == thread[t].m
      method == message[m].method
      order == Append(history.order, m)
  IN /\ thread[t].pc = "locking"
     /\ MutexFree
     /\ log' = [log EXCEPT !.mutex = t]
     /\ history' = IF method = "SendToLog" THEN [history EXCEPT !.order = order]
                   ELSE [history EXCEPT !.order = order, !.got[OwnSink] = Append(@, m)]
     /\ Goto(t, CASE method = "SendToSink" -> "unlocking"
                  [] LogToStderr -> "sending"
                  [] OTHER -> "writing", m, SeverityOf(m))
     /\ UNCHANGED <<world, message, sinks>>

Outcome(s, m, r) ==
  [severity |-> s, m |-> m, lost |-> r.lost, retried |-> r.lost = "stopped" /\ ~r.stop]

\* LogToAllLogfiles, one file at a time.
WriteFile(t) ==
  LET m == thread[t].m
      s == thread[t].at
  IN /\ thread[t].pc = "writing"
     /\ \E r \in {Write(log.files[s], world, log.stop_writing, s > LogBufLevel,
                       message[m].timestamp, m)} :
          /\ log' = [log EXCEPT !.files[s] = r.f, !.stop_writing = r.stop]
          /\ history' = [history EXCEPT !.outcomes = Append(@, Outcome(s, m, r))]
     /\ Goto(t, IF s = 0 THEN "sending" ELSE "writing", m, IF s = 0 THEN 0 ELSE s - 1)
     /\ UNCHANGED <<world, message, sinks>>

\* base/mutex.h: ReaderLock is Lock on Windows and for pthreads without
\* HAVE_RWLOCK; a pthread_rwlock is shared, by a new reader too while a writer
\* waits, as it is by default in glibc.
ReadersFree == ReadersShare \/ sinks.readers = {}

\* LogToSinks and WaitForSinks go through the list from its end, as readers of
\* sink_mutex_.
Read(t, pc) ==
  /\ ReadersFree
  /\ sinks' = [sinks EXCEPT !.readers = @ \cup {t}]
  /\ Goto(t, pc, thread[t].m, Len(sinks.list))

LogToSinks(t) ==
  /\ thread[t].pc = "sending"
  /\ Read(t, "sink")
  /\ UNCHANGED <<world, message, log, history>>

\* TestWaitingLogSink::send takes the messages of one thread only.
Send(t) ==
  LET m == thread[t].m
      at == thread[t].at
      sink == sinks.list[at]
  IN /\ thread[t].pc = "sink" /\ at > 0
     /\ Goto(t, "sink", m, at - 1)
     /\ history' = [history EXCEPT !.got[sink] = Append(@, m)]
     /\ sinks' = [sinks EXCEPT !.buffer = IF sink = WaitingSink /\ t = Owner THEN Append(@, m)
                                          ELSE @]
     /\ UNCHANGED <<world, message, log>>

SentToAll(t) ==
  LET m == thread[t].m
  IN /\ thread[t].pc = "sink" /\ thread[t].at = 0
     /\ sinks' = [sinks EXCEPT !.readers = @ \ {t}]
     /\ Goto(t, IF Crashes(m) THEN "crashing" ELSE "unlocking", m, 0)
     /\ log' = IF Crashes(m) /\ message[m].first_fatal
               THEN [log EXCEPT !.crash_reason = m] ELSE log
     /\ UNCHANGED <<world, message, history>>

\* Faulty variant: the lock is left to the caller, as for other messages.
MutexAfterKept(t, s) == t
MutexAfter(t, s) == IF LogToStderr \/ s = Fatal THEN None ELSE t

\* The rest of SendToLog for a FATAL message: every file is flushed by writing
\* nothing, and log_mutex is released though the caller holds it.
FlushAll(t) ==
  LET s == thread[t].at
  IN /\ thread[t].pc = "crashing"
     /\ IF LogToStderr
        THEN log' = [log EXCEPT !.mutex = MutexAfter(t, s)] /\ UNCHANGED history
        ELSE \E r \in {Write(log.files[s], world, log.stop_writing, TRUE, 0, 0)} :
               /\ log' = [log EXCEPT !.files[s] = r.f, !.stop_writing = r.stop,
                                     !.mutex = MutexAfter(t, s)]
               /\ history' = [history EXCEPT !.outcomes = Append(@, Outcome(s, 0, r))]
     /\ Goto(t, IF LogToStderr \/ s = Fatal THEN "waiting" ELSE "crashing", thread[t].m,
             s + 1)
     /\ UNCHANGED <<world, message, sinks>>

Unlock(t) ==
  LET m == thread[t].m
  IN /\ thread[t].pc = "unlocking"
     /\ log' = [log EXCEPT !.mutex = None, !.num_messages[SeverityOf(m)] = @ + 1]
     /\ Goto(t, "waiting", m, 0)
     /\ UNCHANGED <<world, message, sinks, history>>

WaitForSinks(t) ==
  /\ thread[t].pc = "waiting"
  /\ Read(t, "until_sent")
  /\ UNCHANGED <<world, message, log, history>>

\* TestWaitingLogSink::WaitTillSent; other sinks do not wait.
WaitTillSent(t) ==
  LET at == thread[t].at
  IN /\ thread[t].pc = "until_sent" /\ at > 0
     /\ sinks.list[at] = WaitingSink /\ t = Owner => sinks.buffer = <<>>
     /\ Goto(t, "until_sent", thread[t].m, at - 1)
     /\ UNCHANGED <<world, message, log, sinks, history>>

\* LOG returns, or Fail does not.
Return(t) ==
  LET m == thread[t].m
  IN /\ thread[t].pc = "until_sent" /\ thread[t].at = 0
     /\ sinks' = [sinks EXCEPT !.readers = @ \ {t}]
     /\ world' = [world EXCEPT !.alive = ~Crashes(m)]
     /\ Goto(t, IF Crashes(m) THEN "failed" ELSE "idle", IF Crashes(m) THEN m ELSE 0, 0)
     /\ UNCHANGED <<message, log, history>>

\* TestLogSinkWriter::Run takes a message; what it does with it is to LOG.
Pop ==
  /\ thread[Writer].pc = "idle" /\ sinks.buffer # <<>>
  /\ sinks' = [sinks EXCEPT !.buffer = Tail(@)]
  /\ Goto(Writer, "popped", 0, 0)
  /\ UNCHANGED <<world, message, log, history>>

Logging(t) ==
  \/ Lock(t) \/ WriteFile(t) \/ LogToSinks(t) \/ Send(t) \/ SentToAll(t) \/ FlushAll(t)
  \/ Unlock(t) \/ WaitForSinks(t) \/ WaitTillSent(t) \/ Return(t)

-----------------------------------------------------------------------------
(* Operations on the destinations and the world *)

Operation == world.ops < MaxOps /\ world' = [world EXCEPT !.ops = @ + 1]

SetLogDestination(severity, base_filename) ==
  /\ Operation /\ MutexFree
  /\ log' = [log EXCEPT !.files[severity] = SetBasename(@, world, base_filename)]
  /\ UNCHANGED <<thread, message, sinks, history>>

SetLogFilenameExtension(ext) ==
  /\ Operation /\ MutexFree
  /\ log' = [log EXCEPT !.files = [s \in Severities |-> SetExtension(@[s], world, ext)]]
  /\ UNCHANGED <<thread, message, sinks, history>>

FlushLogFiles(min_severity) ==
  /\ Operation /\ MutexFree
  /\ log' = [log EXCEPT !.files = [s \in Severities |->
                                     IF s < min_severity THEN @[s]
                                     ELSE FlushUnlocked(@[s], world)]]
  /\ UNCHANGED <<thread, message, sinks, history>>

\* Writers of sink_mutex_.  Faulty variant: as if a list could change unnoticed.
SinksFreeAlways == TRUE
SinksFree == sinks.readers = {}

\* A sink registers itself when it is made.
AddLogSink(t, sink) ==
  /\ Operation /\ thread[t].pc = "idle" /\ SinksFree
  /\ \A i \in DOMAIN sinks.list : sinks.list[i] # sink
  /\ sink = WaitingSink => t = Owner
  /\ sinks' = [sinks EXCEPT !.list = Append(@, sink)]
  /\ UNCHANGED <<thread, message, log, history>>

\* The last sink takes the place of the one that leaves.
RemoveLogSink(t, sink) ==
  LET n == Len(sinks.list)
  IN /\ Operation /\ thread[t].pc = "idle" /\ SinksFree
     /\ sink = WaitingSink => t = Owner
     /\ \E i \in 1 .. n :
          /\ sinks.list[i] = sink
          /\ sinks' = [sinks EXCEPT !.list =
                         SubSeq([@ EXCEPT ![i] = sinks.list[n]], 1, n - 1)]
     /\ UNCHANGED <<thread, message, log, history>>

Tick ==
  /\ world.now < MaxTime /\ world' = [world EXCEPT !.now = @ + 1]
  /\ UNCHANGED <<thread, message, log, sinks, history>>

Disk ==
  /\ world.ops < MaxOps
  /\ world' = [world EXCEPT !.full = ~@, !.was_full = TRUE, !.ops = @ + 1]
  /\ UNCHANGED <<thread, message, log, sinks, history>>

Next ==
  /\ world.alive
  /\ \/ \E t \in Threads, s \in Severities, method \in Methods : Create(t, s, method)
     \/ Create(Writer, 0, "SendToLog") \/ Pop
     \/ \E t \in AllThreads : Logging(t)
     \/ \E s \in Severities, name \in Basenames : SetLogDestination(s, name)
     \/ \E ext \in Extensions : SetLogFilenameExtension(ext)
     \/ \E s \in Severities : FlushLogFiles(s)
     \/ \E t \in Threads, sink \in Sinks :
          AddLogSink(t, sink) \/ RemoveLogSink(t, sink)
     \/ Tick \/ Disk

Spec == Init /\ [][Next]_logVars

-----------------------------------------------------------------------------
(* Properties *)

Before(order, m, n) ==
  \E i, j \in DOMAIN order : i < j /\ order[i] = m /\ order[j] = n

\* logging.cc, LogMessage::Flush: all files have the messages in one order, the
\* one in which threads got log_mutex, and each message once.
OneOrder ==
  \A s \in Severities :
    LET f == log.files[s]
    IN \A p, q \in Positions(f) :
         Earlier(p, q) => Before(history.order, MessageAt(f, p), MessageAt(f, q))

\* LogFileObject::Write: a message whose LOG is past its files is in each file of
\* its severity and below, or was lost there for a reason.
Kept ==
  \A i \in DOMAIN history.outcomes :
    LET o == history.outcomes[i]
        f == log.files[o.severity]
    IN o.m # 0 => ((o.lost = "") <=> HasMessage(f, o.m))

\* Up to outcome j: since a file of severity s could not be created, n messages
\* waited for the next attempt and none was written.
FailedBefore(out, s, j, n) ==
  LET Since(i) == {k \in i + 1 .. j : out[k].severity = s}
  IN \E i \in 1 .. j :
       /\ out[i].lost = "no_file" /\ out[i].severity = s
       /\ \A k \in Since(i) : out[k].lost \in {"waiting", "off"}
       /\ Cardinality({k \in Since(i) : out[k].lost = "waiting"}) = n

\* Up to outcome j: no write has found, since the disk was full, that its file is
\* due for a flush.
FullBefore(out, j) ==
  \E i \in 1 .. j : out[i].lost = "full" /\ \A k \in i + 1 .. j : ~out[k].retried

\* The reasons: a file could not be created for fewer messages than the
\* frequency of attempts; or the disk was full.
LostForReason ==
  LET out == history.outcomes
  IN \A j \in DOMAIN out :
       /\ out[j].lost = "waiting" =>
            \E n \in 0 .. kRolloverAttemptFrequency - 1 :
              FailedBefore(out, out[j].severity, j, n)
       /\ out[j].lost = "stopped" => FullBefore(out, j - 1)

\* Messages that were ordered before the FATAL one that ended the program have
\* left the buffers of their files.
FatalFlushed ==
  \A t \in AllThreads :
    thread[t].pc = "failed" /\ ~world.was_full /\ ~LogToStderr =>
      \A s \in Severities : \A p \in Unflushed(log.files[s]) :
        Before(history.order, thread[t].m, MessageAt(log.files[s], p))

LogsKept ==
  /\ OneOrder /\ Kept /\ LostForReason /\ FatalFlushed
  /\ \A s \in Severities : SizeBound(log.files[s])

\* logging.h, LogSink: a sink gets a message once, and what a thread reads stays
\* as it is until it has come to the start of the list.
SinksServed ==
  /\ \A sink \in DOMAIN history.got :
       LET got == history.got[sink]
       IN \A i, j \in DOMAIN got : i < j => Before(history.order, got[i], got[j])
  /\ \A t \in AllThreads :
       thread[t].pc = "sink" =>
         /\ thread[t].at <= Len(sinks.list)
         /\ \A i \in DOMAIN sinks.list :
              LET got == history.got[sinks.list[i]]
              IN i > thread[t].at <=> \E j \in DOMAIN got : got[j] = thread[t].m

\* logging.h, LogSink::WaitTillSent: what a sink has buffered for a thread is
\* taken from it before LOG exits or crashes.
TakenBeforeReturn == thread[Owner].pc \in {"idle", "failed"} => sinks.buffer = <<>>

\* Where readers do not share: the owner keeps sink_mutex_ while it waits for its
\* next message to be taken, and the thread of the sink, which is to take it, logs
\* the one before and waits for sink_mutex_, or for a thread that does with
\* log_mutex in its hands.
WaitsInCircle ==
  /\ ~ReadersShare /\ thread[Owner].pc = "until_sent" /\ thread[Owner].at > 0
  /\ sinks.list[thread[Owner].at] = WaitingSink /\ sinks.buffer # <<>>
  /\ \/ thread[Writer].pc \in {"sending", "waiting"}
     \/ /\ thread[Writer].pc = "locking"
        /\ \E t \in AllThreads : log.mutex = t /\ thread[t].pc = "sending"

\* "do all this w/o causing deadlocks": threads that are in LOG do not all wait,
\* but for that circle.
NoDeadlock ==
  world.alive /\ (\E t \in AllThreads : thread[t].pc \notin {"idle", "popped"}) =>
    \/ ENABLED (\E t \in AllThreads : Logging(t) \/ Pop \/ Create(Writer, 0, "SendToLog"))
    \/ WaitsInCircle

-----------------------------------------------------------------------------
(* The inductive invariant of the sinks                                      *)

Locked == {"writing", "sending", "sink", "crashing", "unlocking"}
Reading == {"sink", "until_sent"}
InLog == {"locking", "waiting", "until_sent"} \cup Locked

TypeOK ==
  /\ thread \in [AllThreads -> [pc : InLog \cup {"idle", "popped", "failed"},
                                m : Nat, at : Nat]]
  /\ message \in Seq([severity : Severities, method : Methods \cup {"SendToLog"},
                      timestamp : Nat, first_fatal : BOOLEAN])
  /\ world \in [now : Nat, full : BOOLEAN, was_full : BOOLEAN, alive : BOOLEAN, ops : Nat]
  /\ DOMAIN log = {"mutex", "exclusive", "stop_writing", "crash_reason", "num_messages",
                   "files"}
  /\ log.mutex \in AllThreads \cup {None} /\ log.exclusive \in BOOLEAN
  /\ sinks \in [list : Seq(Sinks), readers : SUBSET AllThreads, buffer : Seq(Nat)]
  /\ DOMAIN history = {"order", "outcomes", "got"} /\ history.order \in Seq(Nat)
  /\ history.got \in [Sinks \cup {OwnSink} -> Seq(Nat)]

\* Where a thread is says what it holds.
Holding ==
  \A t \in AllThreads :
    /\ thread[t].pc \in Locked <=> log.mutex = t
    /\ thread[t].pc \in Reading <=> t \in sinks.readers
    /\ thread[t].pc = "failed" => ~world.alive

\* Every LOG has a message of its own, which comes into the order with log_mutex
\* and is the last one there until that is released.
Numbered ==
  /\ \A i \in DOMAIN history.order : history.order[i] <= Len(message)
  /\ \A t \in AllThreads : thread[t].pc \in InLog => thread[t].m \in 1 .. Len(message)
  /\ \A t, u \in AllThreads :
       t # u /\ thread[t].pc \in InLog /\ thread[u].pc \in InLog => thread[t].m # thread[u].m
  /\ \A t \in AllThreads :
       thread[t].pc = "locking" =>
         \A i \in DOMAIN history.order : history.order[i] # thread[t].m
  /\ \A t \in AllThreads :
       thread[t].pc \in Locked =>
         history.order # <<>> /\ history.order[Len(history.order)] = thread[t].m

Got(sink, m) == \E j \in DOMAIN history.got[sink] : history.got[sink][j] = m

\* Sinks are sent what is in the order, and nothing before its turn; none is
\* registered twice.
SentInTurn ==
  /\ \A sink \in Sinks \cup {OwnSink} : \A j \in DOMAIN history.got[sink] :
       \E i \in DOMAIN history.order : history.order[i] = history.got[sink][j]
  /\ \A t \in AllThreads :
       thread[t].pc \in {"writing", "sending"} => \A sink \in Sinks : ~Got(sink, thread[t].m)
  /\ \A i, j \in DOMAIN sinks.list : sinks.list[i] = sinks.list[j] => i = j

\* What is in the buffer of the waiting sink has its owner still before that sink,
\* which is not removed meanwhile.
WaitedFor ==
  sinks.buffer # <<>> =>
    /\ thread[Owner].pc \in {"sink", "crashing", "unlocking", "waiting", "until_sent"}
    /\ \E i \in DOMAIN sinks.list :
         /\ sinks.list[i] = WaitingSink
         /\ thread[Owner].pc = "until_sent" => i <= thread[Owner].at

SinksInv == TypeOK /\ Holding /\ Numbered /\ SentInTurn /\ WaitedFor /\ SinksServed

\* What NoDeadlock says but for ENABLED: whose turn it may be in LOG, or at the
\* thread of the sink.
CanLog(t) ==
  \/ thread[t].pc \in Locked \ {"sending"}
  \/ thread[t].pc \in {"sending", "waiting"} /\ ReadersFree
  \/ thread[t].pc = "locking" /\ MutexFree
  \/ /\ thread[t].pc = "until_sent"
     /\ thread[t].at > 0 /\ sinks.list[thread[t].at] = WaitingSink /\ t = Owner =>
          sinks.buffer = <<>>
CanTake ==
  thread[Writer].pc = "popped" \/ (thread[Writer].pc = "idle" /\ sinks.buffer # <<>>)
SomebodyCanGo ==
  world.alive /\ (\E t \in AllThreads : thread[t].pc \notin {"idle", "popped"}) =>
    CanTake \/ \E t \in AllThreads : CanLog(t)
StuckOnlyInCircle == SomebodyCanGo \/ WaitsInCircle

-----------------------------------------------------------------------------
(* The inductive invariant of the files                                      *)

Reasons == {"", "off", "waiting", "no_file", "stopped", "full"}

FilesTyped ==
  /\ DOMAIN log.files = Severities /\ \A s \in Severities : FileInv(log.files[s])
  /\ log.stop_writing \in BOOLEAN
  /\ history.outcomes \in Seq([severity : Severities, m : Nat, lost : Reasons,
                               retried : BOOLEAN])
  /\ \A t \in AllThreads :
       thread[t].pc \in {"writing", "crashing"} => thread[t].at \in Severities

InOrder(m) == \E i \in DOMAIN history.order : history.order[i] = m

\* Where a thread is says what was done with its message.
Stages ==
  \A t \in AllThreads :
    /\ thread[t].pc = "unlocking" => ~Crashes(thread[t].m)
    /\ thread[t].pc = "failed" => Crashes(thread[t].m)
    /\ thread[t].pc \in {"waiting", "until_sent", "failed"} => InOrder(thread[t].m)
    /\ thread[t].pc = "writing" =>
         \A k \in DOMAIN history.outcomes :
           history.outcomes[k].m = thread[t].m => history.outcomes[k].severity > thread[t].at

\* What is in the files was written there in its turn.
Recorded ==
  /\ \A k \in DOMAIN history.outcomes :
       history.outcomes[k].m # 0 => InOrder(history.outcomes[k].m)
  /\ \A s \in Severities : \A p \in Positions(log.files[s]) :
       \E k \in DOMAIN history.outcomes :
         /\ history.outcomes[k].severity = s /\ history.outcomes[k].m # 0
         /\ history.outcomes[k].m = MessageAt(log.files[s], p)

\* rollover_attempt_ counts the messages that waited since a file could not be
\* created, and says that there was none to wait for otherwise.
AttemptsCounted ==
  \A s \in Severities :
    LET f == log.files[s]
    IN f.file = 0 /\ f.attempt # kRolloverAttemptFrequency - 1 =>
         FailedBefore(history.outcomes, s, Len(history.outcomes), f.attempt)

StoppedByFullDisk ==
  /\ log.stop_writing => FullBefore(history.outcomes, Len(history.outcomes))
  /\ world.full \/ log.stop_writing => world.was_full

\* The file of severity s was flushed for the FATAL message of t.
HasFlushed(t, s) ==
  \/ thread[t].pc = "crashing" /\ s < thread[t].at
  \/ thread[t].pc \in {"waiting", "until_sent", "failed"} /\ Crashes(thread[t].m)

FlushedInTurn ==
  ~world.was_full =>
    \A s \in Severities :
      /\ ClosedFlushed(log.files[s])
      /\ ~LogToStderr =>
           \A t \in AllThreads : HasFlushed(t, s) =>
             \A p \in Unflushed(log.files[s]) :
               Before(history.order, thread[t].m, MessageAt(log.files[s], p))

FilesInv ==
  /\ FilesTyped /\ Stages /\ Recorded /\ AttemptsCounted /\ StoppedByFullDisk
  /\ FlushedInTurn /\ LogsKept
=============================================================================
