---------------------------- MODULE FailureSignals ----------------------------
(***************************************************************************)
(* The handler of failure signals: glog/src/signalhandler.cc.              *)
(*                                                                         *)
(* Any thread may get a signal at any time, inside the handler too, except *)
(* for the signals whose handlers it is in, which are blocked.  The first  *)
(* thread that enters the handler dumps; the others sleep until it ends    *)
(* the process.                                                            *)
(***************************************************************************)
EXTENDS Integers, Sequences

CONSTANTS
  Threads, Signals,
  NoThread,
  Items,         \* what is dumped, line by line: 1 .. Items
  MaxSignals     \* signals that arrive

SignalsAssumption ==
  NoThread \notin Threads /\ Items \in Nat \ {0} /\ MaxSignals \in Nat

VARIABLES
  entered,   \* whose variable g_entered_thread_id_pointer points to
  frames,    \* of each thread, the handlers it is in, innermost last
  process,   \* signals that arrived, are pending and have the default action;
             \* whether the logs were flushed; how the process ended, if it has
  dumped     \* the lines that were written, and by which thread

signalVars == <<entered, frames, process, dumped>>

Init ==
  /\ entered = NoThread
  /\ frames = [t \in Threads |-> <<>>]
  /\ process = [arrived |-> 0, pending |-> {}, default |-> {}, flushed |-> FALSE,
                ended |-> "no"]
  /\ dumped = <<>>

Blocked(t) == {frames[t][i].signal : i \in DOMAIN frames[t]}
At(t, pc) == frames[t] # <<>> /\ frames[t][Len(frames[t])].pc = pc
Signal(t) == frames[t][Len(frames[t])].signal
Goto(t, pc) == frames' = [frames EXCEPT ![t][Len(frames[t])].pc = pc]

\* The kernel hands a signal to a thread.
Deliver(t, signal) ==
  /\ process.arrived < MaxSignals /\ signal \notin Blocked(t)
  /\ process' = [process EXCEPT !.arrived = @ + 1,
                   !.ended = IF signal \in process.default THEN "default" ELSE @]
  /\ frames' = IF signal \in process.default THEN frames
               ELSE [frames EXCEPT ![t] = Append(@, [signal |-> signal, pc |-> "enter"])]
  /\ UNCHANGED <<entered, dumped>>

\* sync_val_compare_and_swap.  Faulty variant: a thread that comes second goes on.
FirstHereAlways(t) == entered # t
FirstHere(t) == entered = NoThread

Enter(t) ==
  /\ At(t, "enter")
  /\ IF FirstHere(t) THEN entered' = t /\ Goto(t, "dump")
     ELSE UNCHANGED entered /\ Goto(t, IF entered = t THEN "again" ELSE "sleep")
  /\ UNCHANGED <<process, dumped>>

\* DumpTimeInfo, DumpStackFrameInfo, DumpSignalInfo: one line at a time.
Dump(t) ==
  LET mine == {i \in DOMAIN dumped : dumped[i].thread = t}
      next == IF mine = {} THEN 1 ELSE 1 + dumped[Len(dumped)].item
  IN /\ At(t, "dump")
     /\ dumped' = Append(dumped, [thread |-> t, item |-> next])
     /\ Goto(t, IF next = Items THEN "flush" ELSE "dump")
     /\ UNCHANGED <<entered, process>>

\* FlushLogFilesUnsafe(0)
FlushLogs(t) ==
  /\ At(t, "flush")
  /\ process' = [process EXCEPT !.flushed = TRUE]
  /\ Goto(t, "kill")
  /\ UNCHANGED <<entered, dumped>>

\* InvokeDefaultSignalHandler: the signal ends the process unless every thread
\* blocks it.  A thread that has entered again goes to sleep after that.
InvokeDefaultSignalHandler(t) ==
  LET signal == Signal(t)
      dies == \E u \in Threads : signal \notin Blocked(u)
  IN /\ At(t, "kill") \/ At(t, "again")
     /\ process' = [process EXCEPT
                      !.default = @ \cup {signal},
                      !.pending = IF dies THEN @ ELSE @ \cup {signal},
                      !.ended = IF ~dies THEN @ ELSE IF At(t, "kill") THEN "dumped" ELSE "again"]
     /\ Goto(t, IF At(t, "kill") THEN "return" ELSE "sleep")
     /\ UNCHANGED <<entered, dumped>>

\* Return from the handler; a pending signal is no longer blocked.
Return(t) ==
  /\ At(t, "return")
  /\ process' = [process EXCEPT !.ended = IF Signal(t) \in process.pending THEN "dumped" ELSE @]
  /\ frames' = [frames EXCEPT ![t] = SubSeq(@, 1, Len(@) - 1)]
  /\ UNCHANGED <<entered, dumped>>

Handler(t) ==
  Enter(t) \/ Dump(t) \/ FlushLogs(t) \/ InvokeDefaultSignalHandler(t) \/ Return(t)

Next ==
  /\ process.ended = "no"
  /\ \E t \in Threads : Handler(t) \/ \E signal \in Signals : Deliver(t, signal)

Spec == Init /\ [][Next]_signalVars

-----------------------------------------------------------------------------
(* Properties *)

\* "Our policy is to let the first thread dump stuff and let other threads
\* wait": the lines are of one thread, in order, each once.
OneDump ==
  \A i \in DOMAIN dumped : dumped[i] = [thread |-> entered, item |-> i]

\* A thread that waits is ended by the one that dumps, unless that one has been
\* interrupted by another signal and sleeps itself.
SleepersEnd ==
  process.ended = "no" /\ (\E t \in Threads : At(t, "sleep")) =>
    \/ At(entered, "sleep")
    \/ ENABLED Handler(entered)

\* A process that is ended by the handler, and not by a second signal, has
\* dumped everything and flushed its logs.
DumpedAndFlushed ==
  process.ended = "dumped" => Len(dumped) = Items /\ process.flushed

-----------------------------------------------------------------------------
(* The inductive invariant                                                   *)

Working == {"dump", "flush", "kill", "return"}
Frame == [signal : Signals, pc : Working \cup {"enter", "again", "sleep"}]
Process ==
  [arrived : Nat, pending : SUBSET Signals, default : SUBSET Signals, flushed : BOOLEAN,
   ended : {"no", "default", "dumped", "again"}]

TypeOK ==
  /\ entered \in Threads \cup {NoThread}
  /\ frames \in [Threads -> Seq(Frame)]
  /\ process \in Process
  /\ dumped \in Seq([thread : Threads, item : Nat])

\* One handler dumps, however many were interrupted by one another.
OneWorks ==
  \A t \in Threads : \A i \in DOMAIN frames[t] :
    frames[t][i].pc \in Working =>
      t = entered /\ \A j \in DOMAIN frames[t] : frames[t][j].pc \in Working => i = j

\* What has been done is as far as that handler has come.
HasDone(f) ==
  /\ f.pc = "dump" => Len(dumped) < Items
  /\ f.pc \in {"flush", "kill", "return"} => Len(dumped) = Items
  /\ f.pc \in {"kill", "return"} => process.flushed
  /\ f.pc = "return" /\ process.ended = "no" => f.signal \in process.pending
WorkDone == \A t \in Threads : \A i \in DOMAIN frames[t] : HasDone(frames[t][i])

\* Before that nothing happens, and nobody else waits for it.
NothingBefore ==
  entered = NoThread =>
    /\ dumped = <<>>
    /\ \A t \in Threads : \A i \in DOMAIN frames[t] : frames[t][i].pc = "enter"

\* The handler that dumps does not return before the process has ended.
DumperStays ==
  process.ended = "no" /\ entered # NoThread => frames[entered] # <<>>

SignalsInv ==
  /\ TypeOK /\ OneWorks /\ WorkDone /\ NothingBefore /\ DumperStays
  /\ OneDump /\ DumpedAndFlushed
=============================================================================
