---------------------------- MODULE LogDestinations ----------------------------
(***************************************************************************)
(* Where a message goes: LogMessage::Flush, its send methods and class     *)
(* LogDestination of glog/src/logging.cc, under the flags, the loggers     *)
(* that replace files, and the two functions that start and end logging    *)
(* (utilities.cc).                                                         *)
(*                                                                         *)
(* One thread; LogMessages is about several, and about what becomes of a   *)
(* message in a file.  Severities are 0 .. Fatal.  Colors and the words of *)
(* mails are left out.                                                     *)
(***************************************************************************)
EXTENDS Integers, Sequences

CONSTANTS
  Fatal,
  Settings,   \* values of the flags, of the environment and of the build
  Loggers,    \* objects that replace a file
  MaxOps

File == "file"

DestinationsAssumption == Fatal \in Nat \ {0} /\ File \notin Loggers /\ MaxOps \in Nat

VARIABLES
  flags,
  lib,       \* what Init, Set..., Add... and the first FATAL message have set
  dest,      \* of each severity, whether its file is turned off, and its logger
  loggers,   \* of each object in Loggers, who owns it
  process,   \* whether it runs, fails, has ended or waits for itself; stack traces
  last       \* the message just logged, and where it went, in order

destinationVars == <<flags, lib, dest, loggers, process, last>>

Severities == 0 .. Fatal
Error == Fatal - 1
NoMessage == [severity |-> -1, method |-> "none", target |-> FALSE, out |-> <<>>]

\* BoolFromEnv: an empty value is true as well (memchr finds its end).
BoolFromEnv(value, default) ==
  IF value = "unset" THEN default ELSE value \in {"", "t", "1"}

Init ==
  /\ \E s \in Settings :
       /\ flags = [s EXCEPT !.logtostderr = BoolFromEnv(@, FALSE)]
       /\ lib = [initialized |-> FALSE, warned |-> FALSE, fail_func |-> "logging_fail",
                 exit_on_dfatal |-> TRUE, fatal_msg_exclusive |-> TRUE,
                 fatal_message |-> FALSE, email_severity |-> 99999, addresses |-> FALSE,
                 sinks |-> FALSE]
  /\ dest = [s \in Severities |-> [off |-> FALSE, logger |-> File]]
  /\ loggers = [l \in Loggers |-> "caller"]
  /\ process = [state |-> "runs", traces |-> 0, ops |-> 0]
  /\ last = NoMessage

-----------------------------------------------------------------------------
(* One message *)

\* MaybeLogToLogfile, and the test in LogFileObject::Write.
Takes(s) == dest[s].logger # File \/ ~dest[s].off

\* LogToAllLogfiles.  Faulty variant: it stops at a file that is turned off.
LogToAllLogfilesUntilOff(s) ==
  LET kept == {i \in 0 .. s : \A j \in i .. s : Takes(j)}
  IN SelectSeq([i \in 1 .. s + 1 |-> <<dest[s + 1 - i].logger, s + 1 - i>>],
               LAMBDA place : place[2] \in kept)
LogToAllLogfiles(s) ==
  IF flags.logtostderr THEN << <<"stderr", s>> >>
  ELSE SelectSeq([i \in 1 .. s + 1 |-> <<dest[s + 1 - i].logger, s + 1 - i>>],
                 LAMBDA place : Takes(place[2]))

MaybeLogToStderr(s) ==
  IF s >= flags.stderrthreshold \/ flags.alsologtostderr THEN << <<"stderr", s>> >>
  ELSE <<>>

\* MaybeLogToEmail and SendEmailInternal, as far as somebody is to have the mail.
Mails(s) ==
  /\ s >= lib.email_severity \/ s >= flags.logemaillevel
  /\ lib.addresses \/ flags.alsologtoemail
MaybeLogToEmail(s) ==
  IF Mails(s) /\ flags.mailer THEN << <<"email", s>> >> ELSE <<>>

LogToSinks(s) == IF lib.sinks THEN << <<"sinks", s>> >> ELSE <<>>

\* LogMessage::SendToLog up to the end of a message that is not FATAL.
ToStderrOnly == flags.logtostderr \/ ~lib.initialized
Warning(s) ==
  IF lib.initialized \/ lib.warned THEN <<>> ELSE << <<"logged before Init", s>> >>
SendToLog(s) ==
  IF ToStderrOnly THEN Warning(s) \o << <<"stderr", s>> >> \o LogToSinks(s)
  ELSE LogToAllLogfiles(s) \o MaybeLogToStderr(s) \o MaybeLogToEmail(s) \o LogToSinks(s)

\* SendToSink, SaveOrSendToLog, WriteToStringAndLog and SendToSyslogAndLog have a
\* place of their own; only some go on to SendToLog.
OwnPlace(s, method, target) ==
  IF target /\ method # "SendToLog" THEN << <<method, s>> >> ELSE <<>>
GoesOn(method, target) ==
  /\ method # "SendToSink"
  /\ ~(method = "SaveOrSendToLog" /\ target)
  /\ ~(method = "SendToSyslogAndLog" /\ ~target)

\* While log_mutex is held the library logs on its own account: mails are announced
\* by VLOG(4), and a build without syslog says so.  Flush then waits for the lock,
\* unless the message is not logged at all.
WaitsForItself(s, method, target) ==
  \/ GoesOn(method, target) /\ ~ToStderrOnly /\ Mails(s) /\ flags.verbose
       /\ flags.minloglevel = 0
  \/ method = "SendToSyslogAndLog" /\ ~target /\ flags.minloglevel <= Error

\* LogMessage::Init: the first message that is to end the program has its own data.
FirstFatal(s) == s = Fatal /\ lib.exit_on_dfatal /\ lib.fatal_msg_exclusive

\* Init, Flush, and ~LogMessageFatal for a plain LOG(FATAL).
Log(s, method, target) ==
  LET flushed == s >= flags.minloglevel
      logs == flushed /\ GoesOn(method, target)
      crashes == logs /\ s = Fatal /\ lib.exit_on_dfatal
      stuck == flushed /\ WaitsForItself(s, method, target)
  IN /\ last' = [severity |-> s, method |-> method, target |-> target,
                 out |-> IF ~flushed \/ stuck THEN <<>>
                         ELSE OwnPlace(s, method, target)
                                \o IF logs THEN SendToLog(s) ELSE <<>>]
     /\ lib' = [lib EXCEPT !.fatal_msg_exclusive = @ /\ ~FirstFatal(s),
                           !.warned = @ \/ (logs /\ ~lib.initialized),
                           !.fatal_message = @ \/ (crashes /\ FirstFatal(s) /\ ~stuck)]
     /\ process' = [process EXCEPT !.ops = @ + 1,
                      !.state = CASE stuck -> "waits"
                                  [] crashes \/ (s = Fatal /\ method = "SendToLog") -> "fails"
                                  [] OTHER -> @]
     /\ UNCHANGED <<flags, dest, loggers>>

\* LogMessage::Fail calls what InitGoogleLogging has installed, which prints a stack
\* trace of its own and keeps the failure signal handler from doing so.  Faulty
\* variant: it does not.
HandlerDumpsAlways == flags.handler
HandlerDumps == flags.handler /\ lib.fail_func # "DumpStackTraceAndExit"

Fail ==
  /\ process.state = "fails"
  /\ process' = [process EXCEPT !.state = "aborted",
                   !.traces = @ + (IF lib.fail_func = "DumpStackTraceAndExit" THEN 1 ELSE 0)
                                + (IF HandlerDumps THEN 1 ELSE 0)]
  /\ UNCHANGED <<flags, lib, dest, loggers, last>>

\* From a handler of signals, say.
ReprintFatalMessage ==
  /\ process.state = "fails" /\ lib.fatal_message /\ last.method # "Reprint"
  /\ last' = [severity |-> Error, method |-> "Reprint", target |-> TRUE,
              out |-> (IF flags.logtostderr THEN <<>> ELSE << <<"stderr", Error>> >>)
                        \o LogToAllLogfiles(Error)]
  /\ UNCHANGED <<flags, lib, dest, loggers, process>>

-----------------------------------------------------------------------------
(* What decides where messages go *)

Operation ==
  /\ process.state = "runs" /\ process.ops < MaxOps
  /\ process' = [process EXCEPT !.ops = @ + 1] /\ last' = NoMessage

SetLogDestination(s, empty) ==
  /\ Operation /\ dest' = [dest EXCEPT ![s].off = empty]
  /\ UNCHANGED <<flags, lib, loggers>>

SetStderrLogging(s) ==
  /\ Operation /\ flags' = [flags EXCEPT !.stderrthreshold = s]
  /\ UNCHANGED <<lib, dest, loggers>>

LogToStderr ==
  /\ Operation /\ flags' = [flags EXCEPT !.stderrthreshold = 0]
  /\ dest' = [s \in Severities |-> [dest[s] EXCEPT !.off = TRUE]]
  /\ UNCHANGED <<lib, loggers>>

SetEmailLogging(s, addresses) ==
  /\ Operation /\ lib' = [lib EXCEPT !.email_severity = s, !.addresses = addresses]
  /\ UNCHANGED <<flags, dest, loggers>>

AddLogSink ==
  /\ Operation /\ lib' = [lib EXCEPT !.sinks = TRUE]
  /\ UNCHANGED <<flags, dest, loggers>>

SetExitOnDFatal(value) ==
  /\ Operation /\ lib' = [lib EXCEPT !.exit_on_dfatal = value]
  /\ UNCHANGED <<flags, dest, loggers>>

\* Nobody deletes a logger that is replaced.
Replaced(s) ==
  [l \in Loggers |-> IF l = dest[s].logger THEN "nobody" ELSE loggers[l]]

SetLogger(s, l) ==
  /\ Operation /\ loggers[l] = "caller"
  /\ loggers' = [Replaced(s) EXCEPT ![l] = "library"]
  /\ dest' = [dest EXCEPT ![s].logger = l]
  /\ UNCHANGED <<flags, lib>>

\* The file that GetLogger gave is set again.
RestoreLogger(s) ==
  /\ Operation /\ dest[s].logger # File
  /\ loggers' = Replaced(s) /\ dest' = [dest EXCEPT ![s].logger = File]
  /\ UNCHANGED <<flags, lib>>

\* A CHECK that fails is a LOG(FATAL).
InitGoogleLogging ==
  IF lib.initialized THEN Log(Fatal, "SendToLog", FALSE)
  ELSE /\ Operation
       /\ lib' = [lib EXCEPT !.initialized = TRUE, !.fail_func = "DumpStackTraceAndExit"]
       /\ UNCHANGED <<flags, dest, loggers>>

\* DeleteLogDestinations.  Faulty variant: the pointers are kept.
DestinationsKept == dest
DestinationsDeleted == [s \in Severities |-> [off |-> FALSE, logger |-> File]]

ShutdownGoogleLogging ==
  IF ~lib.initialized THEN Log(Fatal, "SendToLog", FALSE)
  ELSE /\ Operation
       /\ lib' = [lib EXCEPT !.initialized = FALSE, !.sinks = FALSE]
       /\ loggers' = [l \in Loggers |-> IF loggers[l] = "library" THEN "deleted"
                                        ELSE loggers[l]]
       /\ dest' = DestinationsDeleted
       /\ UNCHANGED flags

Logs ==
  /\ process.state = "runs" /\ process.ops < MaxOps
  /\ \E s \in Severities :
       \/ Log(s, "SendToLog", FALSE)
       \/ Log(s, "SendToSyslogAndLog", flags.syslog)
       \/ \E method \in {"SendToSink", "SendToSinkAndLog", "SaveOrSendToLog",
                         "WriteToStringAndLog"}, target \in BOOLEAN :
            Log(s, method, target)

Starts == process.state = "runs" /\ process.ops < MaxOps /\ InitGoogleLogging
Ends == process.state = "runs" /\ process.ops < MaxOps /\ ShutdownGoogleLogging

Next ==
  \/ Logs \/ Fail \/ ReprintFatalMessage \/ Starts \/ Ends \/ LogToStderr \/ AddLogSink
  \/ \E value \in BOOLEAN : SetExitOnDFatal(value)
  \/ \E s \in Severities :
       \/ SetStderrLogging(s) \/ RestoreLogger(s)
       \/ \E empty \in BOOLEAN : SetLogDestination(s, empty) \/ SetEmailLogging(s, empty)
       \/ \E l \in Loggers : SetLogger(s, l)

-----------------------------------------------------------------------------
(* Properties *)

Went == {last.out[i] : i \in DOMAIN last.out}
Logged == GoesOn(last.method, last.target) /\ last.severity >= flags.minloglevel

\* No place gets a message twice, whatever combination of flags, loggers and methods
\* sends it there: a FATAL message that is printed again included.
AtMostOnce == \A i, j \in DOMAIN last.out : last.out[i] = last.out[j] => i = j

\* A message that is logged is seen: at stderr, or with all loggers and open files of
\* its severity and every lower one, and then with none of a higher severity.
Seen ==
  last # NoMessage /\ Logged /\ process.state # "waits" =>
    \/ <<"stderr", last.severity>> \in Went
    \/ {i \in Severities : \E p \in Went : p = <<dest[i].logger, i>>}
         = {i \in 0 .. last.severity : Takes(i)}

\* logging.h, LogToStderr and logtostderr: nothing is in a file; nor is it before
\* InitGoogleLogging or after ShutdownGoogleLogging (but when it is printed again).
OnlyStderr ==
  flags.logtostderr \/ (~lib.initialized /\ last.method # "Reprint") =>
    \A p \in Went : p[1] \notin Loggers \cup {File}

\* A logger is deleted once, with the library, and has been in one place until then;
\* none that was deleted is written to.
LoggersOwned ==
  \A l \in Loggers :
    LET places == {s \in Severities : dest[s].logger = l}
    IN IF loggers[l] = "library" THEN \E s \in Severities : places = {s} ELSE places = {}

\* utilities.cc: a program that aborts prints one stack trace if anybody is there to
\* print it, with the failure signal handler or without.
OneTrace ==
  process.state = "aborted" =>
    process.traces = IF flags.handler \/ lib.fail_func # "logging_fail" THEN 1 ELSE 0

\* A LOG(FATAL) never returns, and no other message ends the program unless it is
\* FATAL and logged; the library waits for itself only where it mails or has no syslog.
Ended ==
  /\ last.severity = Fatal /\ last.method = "SendToLog" => process.state # "runs"
  /\ process.state \in {"fails", "aborted"} =>
       \/ last.severity = Fatal /\ (Logged \/ last.method = "SendToLog")
       \/ last.method = "Reprint"
  /\ process.state = "waits" => flags.verbose \/ ~flags.syslog

DestinationsRight ==
  AtMostOnce /\ Seen /\ OnlyStderr /\ LoggersOwned /\ OneTrace /\ Ended
=============================================================================
