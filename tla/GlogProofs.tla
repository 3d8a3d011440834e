------------------------------ MODULE GlogProofs ------------------------------
(***************************************************************************)
(* The logging library.  For any number of threads, sinks and messages:    *)
(* every sink is sent each message once while it is registered, and the    *)
(* list of sinks stays as it is while a thread goes through it; LOG does   *)
(* not return before the sink that waits has handed the message on; and    *)
(* threads in LOG do not all wait for each other if readers share the lock *)
(* of the list, and only in one circle if they do not.  For any number of  *)
(* locks, in every build: the mutex knows how often it is held, a writer   *)
(* is alone, and what can fail is only a lock that would wait for its own  *)
(* thread.                                                                 *)
(* For any kinds of signals and lines: however handlers of failure signals *)
(* interrupt each other, one of them dumps, from the first line to the     *)
(* last, and flushes the logs before it ends the process.                  *)
(***************************************************************************)
EXTENDS LogMessages, FiniteSetTheorems, WellFoundedInduction, TLAPS

CONSTANTS Main, Builds, MaxNested, MaxLocks
VARIABLES mutex, scopes, taken
Mutex == INSTANCE MutexLocks

CONSTANTS Signals, NoThread, Items, MaxSignals
VARIABLES entered, frames, process, dumped
Crash == INSTANCE FailureSignals

\* The places of a thread and their groups.
LEMMA Places ==
  /\ Locked \subseteq InLog /\ Reading \subseteq InLog
  /\ \A pc \in InLog : pc \notin {"idle", "popped", "failed"}
  /\ Locked \cap Reading = {"sink"}
  /\ {"locking", "waiting", "until_sent"} \cap Locked = {}
  /\ {"idle", "popped", "failed"} \cap InLog = {}
BY DEF Locked, Reading, InLog

\* A thread goes on, the others stay where they are.
LEMMA Moves ==
  ASSUME TypeOK, NEW t \in AllThreads, NEW pc \in InLog \cup {"idle", "popped", "failed"},
         NEW m \in Nat, NEW at \in Nat, Goto(t, pc, m, at)
  PROVE  /\ thread' \in [AllThreads -> [pc : InLog \cup {"idle", "popped", "failed"},
                                        m : Nat, at : Nat]]
         /\ thread'[t].pc = pc /\ thread'[t].m = m /\ thread'[t].at = at
         /\ \A u \in AllThreads : u # t => thread'[u] = thread[u]
BY DEF TypeOK, Goto

\* What is true of the sinks speaks only of threads, log_mutex, the sinks and what
\* they were sent.
LEMMA Quiet ==
  ASSUME SinksInv, UNCHANGED <<thread, message, sinks>>,
         DOMAIN log' = DOMAIN log, log'.mutex = log.mutex, log'.exclusive = log.exclusive,
         DOMAIN history' = DOMAIN history, history'.order = history.order,
         history'.got = history.got,
         world' \in [now : Nat, full : BOOLEAN, was_full : BOOLEAN, alive : BOOLEAN, ops : Nat],
         world.alive => world'.alive, ~world.alive => ~world'.alive
  PROVE  SinksInv'
<1> USE DEF SinksInv
<1>1. TypeOK'
  BY DEF TypeOK
<1>2. Holding'
  BY DEF Holding
<1>3. Numbered'
  BY DEF Numbered
<1>4. SentInTurn'
  BY DEF SentInTurn, Got
<1>5. WaitedFor'
  BY DEF WaitedFor
<1>6. SinksServed'
  <2>1. DOMAIN history'.got = Sinks \cup {OwnSink}
    BY DEF TypeOK
  <2>2. \A m, n : Before(history'.order, m, n) <=> Before(history.order, m, n)
    OBVIOUS
  <2> QED
    BY <2>1, <2>2 DEF SinksServed, TypeOK
<1> QED
  BY <1>1, <1>2, <1>3, <1>4, <1>5, <1>6

\* A thread goes on with what it has.
LEMMA Onward ==
  ASSUME SinksInv, LogMessagesAssumption,
         NEW t \in AllThreads, NEW pc \in InLog, NEW at \in Nat,
         thread[t].pc \in InLog \ {"locking"}, Goto(t, pc, thread[t].m, at),
         pc \in Locked <=> thread[t].pc \in Locked,
         pc \in Reading <=> thread[t].pc \in Reading,
         pc \in {"writing", "sending"} => thread[t].pc \in {"writing", "sending"},
         pc \notin {"locking", "sink"}, thread[t].pc # "sink",
         pc = "until_sent" =>
           /\ thread[t].pc = "until_sent"
           /\ t = Owner /\ sinks.buffer # <<>> =>
                \A i \in DOMAIN sinks.list :
                  i <= thread[t].at /\ sinks.list[i] = WaitingSink => i <= at,
         UNCHANGED <<message, sinks, world>>,
         DOMAIN log' = DOMAIN log, log'.mutex = log.mutex, log'.exclusive = log.exclusive,
         DOMAIN history' = DOMAIN history, history'.order = history.order,
         history'.got = history.got
  PROVE  SinksInv'
<1> USE DEF SinksInv
<1>1. thread[t].m \in Nat
  BY DEF TypeOK
<1>2. /\ thread' \in [AllThreads -> [pc : InLog \cup {"idle", "popped", "failed"},
                                     m : Nat, at : Nat]]
      /\ thread'[t].pc = pc /\ thread'[t].m = thread[t].m /\ thread'[t].at = at
      /\ \A u \in AllThreads : u # t => thread'[u] = thread[u]
  BY <1>1, Moves
<1>3. pc # "failed"
  BY Places
<1>4. TypeOK'
  BY <1>2 DEF TypeOK
<1>5. Holding'
  BY <1>2, <1>3 DEF Holding
<1>6. Numbered'
  <2>1. \A u \in AllThreads :
          /\ thread'[u].m = thread[u].m
          /\ thread'[u].pc \in InLog <=> thread[u].pc \in InLog
          /\ thread'[u].pc \in Locked <=> thread[u].pc \in Locked
          /\ thread'[u].pc = "locking" => thread[u].pc = "locking"
    BY <1>2
  <2> QED
    BY <2>1 DEF Numbered
<1>7. SentInTurn'
  BY <1>2 DEF SentInTurn, Got
<1>8. WaitedFor'
  <2> SUFFICES ASSUME sinks.buffer # <<>>
               PROVE  /\ thread'[Owner].pc \in {"sink", "crashing", "unlocking", "waiting", "until_sent"}
                      /\ \E i \in DOMAIN sinks.list :
                           /\ sinks.list[i] = WaitingSink
                           /\ thread'[Owner].pc = "until_sent" => i <= thread'[Owner].at
    BY DEF WaitedFor
  <2>1. CASE t = Owner
    BY <1>2, <2>1, Places DEF WaitedFor, InLog, Locked
  <2>2. CASE t # Owner
    <3>1. thread'[Owner] = thread[Owner]
      BY <1>2, <2>2 DEF LogMessagesAssumption, AllThreads
    <3> QED
      BY <3>1 DEF WaitedFor
  <2> QED
    BY <2>1, <2>2
<1>9. SinksServed'
  <2>1. \A u \in AllThreads : thread'[u].pc = "sink" => thread'[u] = thread[u]
    BY <1>2
  <2>2. \A m, n : Before(history'.order, m, n) <=> Before(history.order, m, n)
    OBVIOUS
  <2> QED
    BY SMTT(30), <2>1, <2>2 DEF SinksServed, TypeOK
<1> QED
  BY <1>4, <1>5, <1>6, <1>7, <1>8, <1>9

\* What was sent and the list of the sinks stay, and nobody comes to the sinks.
LEMMA ServedStays ==
  ASSUME TypeOK, SinksServed,
         history'.order = history.order, history'.got = history.got, sinks'.list = sinks.list,
         \A u \in AllThreads : thread'[u].pc = "sink" => thread'[u] = thread[u]
  PROVE  SinksServed'
<1>1. \A m, n : Before(history'.order, m, n) <=> Before(history.order, m, n)
  OBVIOUS
<1> QED
  BY <1>1 DEF SinksServed, TypeOK

LEMMA SentInTurnStays ==
  ASSUME SentInTurn,
         history'.order = history.order, history'.got = history.got, sinks'.list = sinks.list,
         \A u \in AllThreads :
           thread'[u].pc \in {"writing", "sending"} =>
             thread[u].pc \in {"writing", "sending"} /\ thread'[u].m = thread[u].m
  PROVE  SentInTurn'
BY DEF SentInTurn, Got

\* The buffer of the waiting sink and the list stay, and its owner, if another thread
\* moves.
LEMMA WaitedForStays ==
  ASSUME LogMessagesAssumption, WaitedFor, NEW t \in AllThreads, t # Owner,
         \A u \in AllThreads : u # t => thread'[u] = thread[u],
         sinks'.list = sinks.list, sinks'.buffer = sinks.buffer
  PROVE  WaitedFor'
<1>1. thread'[Owner] = thread[Owner]
  BY DEF LogMessagesAssumption, AllThreads
<1> QED
  BY <1>1 DEF WaitedFor

\* log_mutex is released.
LEMMA ReleaseStep ==
  ASSUME SinksInv, LogMessagesAssumption, NEW t \in AllThreads, NEW at \in Nat,
         thread[t].pc \in {"crashing", "unlocking"}, Goto(t, "waiting", thread[t].m, at),
         UNCHANGED <<message, sinks, world>>,
         DOMAIN log' = DOMAIN log, log'.mutex = None, log'.exclusive = log.exclusive,
         DOMAIN history' = DOMAIN history, history'.order = history.order,
         history'.got = history.got
  PROVE  SinksInv'
<1> USE DEF SinksInv
<1>1. thread[t].m \in Nat /\ "waiting" \in InLog \cup {"idle", "popped", "failed"}
  BY DEF TypeOK, InLog
<1>2. /\ thread' \in [AllThreads -> [pc : InLog \cup {"idle", "popped", "failed"},
                                     m : Nat, at : Nat]]
      /\ thread'[t].pc = "waiting" /\ thread'[t].m = thread[t].m /\ thread'[t].at = at
      /\ \A u \in AllThreads : u # t => thread'[u] = thread[u]
  BY <1>1, Moves
<1>3. /\ thread[t].pc \in Locked /\ thread[t].pc \in InLog /\ thread[t].pc \notin Reading
      /\ "waiting" \in InLog /\ "waiting" \notin Locked /\ "waiting" \notin Reading
  BY DEF Locked, InLog, Reading
<1>4. TypeOK'
  BY <1>2 DEF TypeOK
<1>5. Holding'
  <2>1. \A u \in AllThreads : u # None
    BY DEF LogMessagesAssumption, AllThreads
  <2>2. \A u \in AllThreads : u # t => thread[u].pc \notin Locked
    BY <1>3 DEF Holding
  <2> QED
    BY <1>2, <1>3, <2>1, <2>2 DEF Holding
<1>6. Numbered'
  <2>1. \A u \in AllThreads :
          /\ thread'[u].m = thread[u].m
          /\ thread'[u].pc \in InLog <=> thread[u].pc \in InLog
          /\ thread'[u].pc \in Locked => thread[u].pc \in Locked
          /\ thread'[u].pc = "locking" => thread[u].pc = "locking"
    BY <1>2, <1>3
  <2> QED
    BY <2>1 DEF Numbered
<1>7. SentInTurn'
  BY <1>2 DEF SentInTurn, Got
<1>8. WaitedFor'
  <2>1. CASE t = Owner
    BY <1>2, <2>1 DEF WaitedFor
  <2> QED
    BY <1>2, <2>1, WaitedForStays
<1>9. SinksServed'
  BY <1>2, ServedStays
<1> QED
  BY <1>4, <1>5, <1>6, <1>7, <1>8, <1>9

\* LogMessage::Init
LEMMA CreateStep ==
  ASSUME SinksInv, LogMessagesAssumption, NEW t \in AllThreads, NEW severity \in Severities,
         NEW method \in Methods \cup {"SendToLog"}, Create(t, severity, method)
  PROVE  SinksInv'
<1> USE DEF SinksInv
<1> DEFINE new == Len(message) + 1
           data == [severity |-> severity, method |-> method, timestamp |-> world.now,
                    first_fatal |-> severity = Fatal /\ log.exclusive]
<1>1. /\ thread[t].pc \in {"idle", "popped"} /\ Goto(t, "locking", new, 0)
      /\ message' = Append(message, data)
      /\ log' = [log EXCEPT !.exclusive = @ /\ severity # Fatal]
      /\ UNCHANGED <<world, sinks, history>>
  BY DEF Create
<1>2. new \in Nat /\ Len(message) \in Nat
  BY DEF TypeOK
<1>3. data \in [severity : Severities, method : Methods \cup {"SendToLog"},
                timestamp : Nat, first_fatal : BOOLEAN]
  BY DEF TypeOK
<1> HIDE DEF data
<1>4. /\ Len(message') = new
      /\ message' \in Seq([severity : Severities, method : Methods \cup {"SendToLog"},
                           timestamp : Nat, first_fatal : BOOLEAN])
  BY <1>1, <1>3 DEF TypeOK
<1>5. "locking" \in InLog /\ "locking" \notin Locked /\ "locking" \notin Reading
  BY DEF Locked, InLog, Reading
<1>6. /\ thread' \in [AllThreads -> [pc : InLog \cup {"idle", "popped", "failed"},
                                     m : Nat, at : Nat]]
      /\ thread'[t].pc = "locking" /\ thread'[t].m = new /\ thread'[t].at = 0
      /\ \A u \in AllThreads : u # t => thread'[u] = thread[u]
  BY <1>1, <1>2, <1>5, Moves
<1>7. DOMAIN log' = DOMAIN log /\ log'.mutex = log.mutex /\ log'.exclusive \in BOOLEAN
  BY <1>1 DEF TypeOK
<1>8. TypeOK'
  BY <1>1, <1>4, <1>6, <1>7 DEF TypeOK
<1>9. Holding'
  BY <1>1, <1>5, <1>6, <1>7, Places DEF Holding
<1>10. Numbered'
  <2>1. \A i \in DOMAIN history.order : history.order[i] \in Nat
    BY DEF TypeOK
  <2>2. \A i \in DOMAIN history.order : history.order[i] <= Len(message) /\ history.order[i] # new
    BY <1>2, <2>1 DEF Numbered
  <2>3. \A u \in AllThreads : u # t /\ thread[u].pc \in InLog =>
          thread[u].m \in 1 .. new /\ thread[u].m # new
    BY <1>2 DEF Numbered
  <2> HIDE DEF new
  <2>4. /\ \A i \in DOMAIN history'.order : history'.order[i] <= Len(message')
        /\ \A u \in AllThreads :
             thread'[u].pc = "locking" =>
               \A i \in DOMAIN history'.order : history'.order[i] # thread'[u].m
    BY SMTT(30), <1>1, <1>2, <1>4, <1>6, <2>1, <2>2 DEF Numbered, new
  <2>5. \A u \in AllThreads : thread'[u].pc \in InLog => thread'[u].m \in 1 .. Len(message')
    <3>1. new \in 1 .. new
      BY <1>2 DEF new
    <3> QED
      BY <1>4, <1>6, <2>3, <3>1
  <2>6. \A u, w \in AllThreads :
          u # w /\ thread'[u].pc \in InLog /\ thread'[w].pc \in InLog =>
            thread'[u].m # thread'[w].m
    BY <1>6, <2>3 DEF Numbered
  <2>7. \A u \in AllThreads :
          thread'[u].pc \in Locked =>
            history'.order # <<>> /\ history'.order[Len(history'.order)] = thread'[u].m
    BY SMTT(30), <1>1, <1>5, <1>6 DEF Numbered
  <2> QED
    BY <2>4, <2>5, <2>6, <2>7 DEF Numbered
<1>11. SentInTurn'
  BY <1>1, <1>6 DEF SentInTurn, Got
<1>12. WaitedFor'
  <2>1. CASE t = Owner
    BY <1>1, <2>1 DEF WaitedFor
  <2> QED
    BY <1>1, <1>6, <2>1, WaitedForStays
<1>13. SinksServed'
  BY <1>1, <1>6, ServedStays
<1> QED
  BY <1>8, <1>9, <1>10, <1>11, <1>12, <1>13

\* A message has the severity of a file.
LEMMA SeverityTyped ==
  ASSUME TypeOK, LogMessagesAssumption, NEW m \in 1 .. Len(message)
  PROVE  SeverityOf(m) \in Severities /\ SeverityOf(m) \in Nat
<1> DEFINE D == [severity : Severities, method : Methods \cup {"SendToLog"},
                 timestamp : Nat, first_fatal : BOOLEAN]
<1>1. message \in Seq(D)
  BY DEF TypeOK
<1>2. message[m] \in D
  <2> HIDE DEF D
  <2> QED
    BY <1>1
<1>3. message[m].severity \in Severities
  BY <1>2
<1>4. Severities \subseteq Nat
  BY DEF Severities, LogMessagesAssumption
<1> QED
  BY <1>3, <1>4 DEF SeverityOf

LEMMA TimestampTyped ==
  ASSUME TypeOK, NEW m \in 1 .. Len(message)
  PROVE  message[m].timestamp \in Nat
<1> DEFINE D == [severity : Severities, method : Methods \cup {"SendToLog"},
                 timestamp : Nat, first_fatal : BOOLEAN]
<1>1. message \in Seq(D)
  BY DEF TypeOK
<1>2. message[m] \in D
  <2> HIDE DEF D
  <2> QED
    BY <1>1
<1> QED
  BY <1>2

\* A message that is last in the order comes after all that were there.
LEMMA Appended ==
  ASSUME NEW order \in Seq(Nat), NEW m \in Nat
  PROVE  /\ Append(order, m) \in Seq(Nat) /\ Len(Append(order, m)) = Len(order) + 1
         /\ Append(order, m)[Len(order) + 1] = m
         /\ \A i \in DOMAIN order :
              i \in DOMAIN Append(order, m) /\ Append(order, m)[i] = order[i]
         /\ \A i \in DOMAIN Append(order, m) : i \in DOMAIN order \/ i = Len(order) + 1
         /\ \A a, b : Before(order, a, b) => Before(Append(order, m), a, b)
         /\ \A i \in DOMAIN order : Before(Append(order, m), order[i], m)
<1>1. /\ Append(order, m) \in Seq(Nat) /\ Len(Append(order, m)) = Len(order) + 1
      /\ Append(order, m)[Len(order) + 1] = m
      /\ \A i \in DOMAIN order :
           i \in DOMAIN Append(order, m) /\ Append(order, m)[i] = order[i]
      /\ \A i \in DOMAIN Append(order, m) : i \in DOMAIN order \/ i = Len(order) + 1
  OBVIOUS
<1>2. \A a, b : Before(order, a, b) => Before(Append(order, m), a, b)
  BY <1>1 DEF Before
<1>3. \A i \in DOMAIN order : Before(Append(order, m), order[i], m)
  <2> TAKE i \in DOMAIN order
  <2>1. i < Len(order) + 1 /\ Len(order) + 1 \in DOMAIN Append(order, m)
    BY <1>1
  <2> QED
    BY <1>1, <2>1 DEF Before
<1> QED
  BY <1>1, <1>2, <1>3

\* LogMessage::Flush takes log_mutex.
LEMMA LockStep ==
  ASSUME SinksInv, LogMessagesAssumption, NEW t \in AllThreads, Lock(t)
  PROVE  SinksInv'
<1> USE DEF SinksInv
<1> DEFINE m == thread[t].m
           n == Len(history.order)
           order == Append(history.order, m)
<1>1. PICK pc \in {"unlocking", "sending", "writing"} :
        /\ thread[t].pc = "locking" /\ log.mutex = None
        /\ log' = [log EXCEPT !.mutex = t] /\ Goto(t, pc, m, SeverityOf(m))
        /\ UNCHANGED <<world, message, sinks>>
  BY DEF Lock, MutexFree
<1>2. history' = [history EXCEPT !.order = order]
        \/ history' = [history EXCEPT !.order = order, !.got[OwnSink] = Append(@, m)]
  BY DEF Lock
<1>3. /\ m \in Nat /\ n \in Nat /\ history.order \in Seq(Nat) /\ m \in 1 .. Len(message)
      /\ SeverityOf(m) \in Nat /\ Len(message) \in Nat
  <2>1. thread[t].pc \in InLog
    BY <1>1 DEF InLog
  <2>2. m \in 1 .. Len(message)
    BY <2>1 DEF Numbered
  <2>3. Len(message) \in Nat /\ history.order \in Seq(Nat)
    BY DEF TypeOK
  <2> QED
    BY <2>2, <2>3, SeverityTyped
<1>4. /\ pc \in InLog /\ pc \in Locked /\ pc \notin Reading
      /\ "locking" \in InLog /\ "locking" \notin Locked /\ "locking" \notin Reading
  BY DEF Locked, InLog, Reading
<1>5. /\ thread' \in [AllThreads -> [pc : InLog \cup {"idle", "popped", "failed"},
                                     m : Nat, at : Nat]]
      /\ thread'[t].pc = pc /\ thread'[t].m = m /\ thread'[t].at = SeverityOf(m)
      /\ \A u \in AllThreads : u # t => thread'[u] = thread[u]
  BY <1>1, <1>3, <1>4, Moves
<1>6. \A u \in AllThreads : thread[u].pc \notin Locked
  <2>1. \A u \in AllThreads : u # None
    BY DEF LogMessagesAssumption, AllThreads
  <2> QED
    BY <1>1, <2>1 DEF Holding
<1>7. /\ order \in Seq(Nat) /\ Len(order) = n + 1 /\ order[n + 1] = m
      /\ \A i \in DOMAIN history.order : i \in DOMAIN order /\ order[i] = history.order[i]
      /\ \A i \in DOMAIN order : i \in DOMAIN history.order \/ i = n + 1
      /\ \A a, b : Before(history.order, a, b) => Before(order, a, b)
      /\ \A i \in DOMAIN history.order : Before(order, history.order[i], m)
  BY <1>3, Appended
<1>8. \A i \in DOMAIN history.order : history.order[i] # m
  BY <1>1 DEF Numbered
<1> HIDE DEF order
<1>9. /\ DOMAIN history' = DOMAIN history /\ history'.order = order
      /\ history'.got \in [Sinks \cup {OwnSink} -> Seq(Nat)]
      /\ \A sink \in Sinks : history'.got[sink] = history.got[sink]
      /\ history'.got[OwnSink] \in {history.got[OwnSink], Append(history.got[OwnSink], m)}
  <2>1. DOMAIN history = {"order", "outcomes", "got"} /\ OwnSink \notin Sinks
        /\ history.got \in [Sinks \cup {OwnSink} -> Seq(Nat)]
    BY DEF TypeOK, LogMessagesAssumption
  <2>2. CASE history' = [history EXCEPT !.order = order]
    BY <2>1, <2>2
  <2>3. CASE history' = [history EXCEPT !.order = order, !.got[OwnSink] = Append(@, m)]
    <3>1. DOMAIN history' = DOMAIN history /\ history'.order = order
          /\ history'.got = [history.got EXCEPT ![OwnSink] = Append(@, m)]
      BY <2>1, <2>3
    <3> QED
      BY <1>3, <2>1, <3>1
  <2> QED
    BY <1>2, <2>2, <2>3
<1>10. \A sink \in Sinks \cup {OwnSink} : \A j \in DOMAIN history'.got[sink] :
         \/ j \in DOMAIN history.got[sink] /\ history'.got[sink][j] = history.got[sink][j]
         \/ j = Len(history.got[sink]) + 1 /\ history'.got[sink][j] = m
  <2>1. history.got[OwnSink] \in Seq(Nat)
    BY DEF TypeOK
  <2>2. \A j \in DOMAIN Append(history.got[OwnSink], m) :
          LET app == Append(history.got[OwnSink], m)
              old == history.got[OwnSink]
          IN  \/ j \in DOMAIN old /\ app[j] = old[j]
              \/ j = Len(old) + 1 /\ app[j] = m
    BY <1>3, <2>1
  <2> QED
    BY <1>9, <2>2
<1>11. TypeOK'
  BY <1>1, <1>5, <1>7, <1>9 DEF TypeOK
<1>12. Holding'
  <2>1. log'.mutex = t
    BY <1>1 DEF TypeOK
  <2>2. \A u \in AllThreads : u # t => thread'[u].pc \notin Locked
    BY <1>5, <1>6
  <2> QED
    BY <1>1, <1>4, <1>5, <2>1, <2>2, Places DEF Holding
<1>13. Numbered'
  <2>1. \A i \in DOMAIN order : order[i] <= Len(message)
    <3> TAKE i \in DOMAIN order
    <3>1. CASE i \in DOMAIN history.order
      <4>1. history.order[i] <= Len(message) /\ order[i] = history.order[i]
        BY <1>7, <3>1 DEF Numbered
      <4> QED
        BY <4>1
    <3>2. CASE i = n + 1
      <4>1. order[i] = m /\ m <= Len(message)
        BY <1>3, <1>7, <3>2
      <4> QED
        BY <4>1
    <3> QED
      BY <1>7, <3>1, <3>2
  <2>2. \A u \in AllThreads :
          /\ thread'[u].m = thread[u].m
          /\ thread'[u].pc \in InLog <=> thread[u].pc \in InLog
          /\ thread'[u].pc = "locking" => thread[u].pc = "locking" /\ u # t
    BY <1>1, <1>4, <1>5
  <2>3. \A u \in AllThreads : thread'[u].pc \in Locked => u = t
    BY <1>5, <1>6
  <2>4. order # <<>> /\ order[Len(order)] = m
    BY <1>3, <1>7
  <2>5. \A u \in AllThreads : thread'[u].pc = "locking" =>
          \A i \in DOMAIN order : order[i] # thread'[u].m
    <3> SUFFICES ASSUME NEW u \in AllThreads, thread'[u].pc = "locking",
                        NEW i \in DOMAIN order
                 PROVE  order[i] # thread[u].m
      BY <2>2
    <3>1. thread[u].pc = "locking" /\ u # t /\ thread[u].pc \in InLog /\ thread[t].pc \in InLog
      BY <1>1, <1>4, <2>2
    <3>2. thread[u].m # m
      BY <3>1 DEF Numbered
    <3>3. \A j \in DOMAIN history.order : history.order[j] # thread[u].m
      BY <3>1 DEF Numbered
    <3> QED
      BY <1>7, <3>2, <3>3
  <2>6. \A u \in AllThreads : thread'[u].pc \in InLog => thread'[u].m \in 1 .. Len(message)
    BY <2>2 DEF Numbered
  <2>7. \A u, w \in AllThreads :
          u # w /\ thread'[u].pc \in InLog /\ thread'[w].pc \in InLog =>
            thread'[u].m # thread'[w].m
    BY <2>2 DEF Numbered
  <2> QED
    BY <1>1, <1>5, <1>9, <2>1, <2>3, <2>4, <2>5, <2>6, <2>7 DEF Numbered
<1>14. SentInTurn'
  <2>1. \A sink \in Sinks \cup {OwnSink} : \A j \in DOMAIN history'.got[sink] :
          \E i \in DOMAIN order : order[i] = history'.got[sink][j]
    <3> TAKE sink \in Sinks \cup {OwnSink}
    <3> TAKE j \in DOMAIN history'.got[sink]
    <3>1. CASE j \in DOMAIN history.got[sink] /\ history'.got[sink][j] = history.got[sink][j]
      BY <1>7, <3>1 DEF SentInTurn
    <3>2. CASE history'.got[sink][j] = m
      <4>1. n + 1 \in DOMAIN order
        BY <1>3, <1>7
      <4> QED
        BY <1>7, <3>2, <4>1
    <3> QED
      BY <1>10, <3>1, <3>2
  <2>2. \A sink \in Sinks : \A j \in DOMAIN history.got[sink] : history.got[sink][j] # m
    BY <1>8 DEF SentInTurn
  <2>3. \A u \in AllThreads : thread'[u].pc \in {"writing", "sending"} => u = t
    BY <1>5, <1>6 DEF Locked
  <2>4. \A u \in AllThreads :
          thread'[u].pc \in {"writing", "sending"} =>
            \A sink \in Sinks : \A j \in DOMAIN history'.got[sink] :
              history'.got[sink][j] # thread'[u].m
    <3>1. \A sink \in Sinks : history'.got[sink] = history.got[sink]
      BY <1>9
    <3>2. thread'[t].m = m
      BY <1>5
    <3> QED
      BY <2>2, <2>3, <3>1, <3>2
  <2>5. sinks'.list = sinks.list /\ history'.order = order
    BY <1>1, <1>9
  <2> QED
    BY <2>1, <2>4, <2>5 DEF SentInTurn, Got
<1>15. WaitedFor'
  <2>1. CASE t = Owner
    BY <1>1, <2>1 DEF WaitedFor
  <2> QED
    BY <1>1, <1>5, <2>1, WaitedForStays
<1>16. SinksServed'
  <2>1. \A u \in AllThreads : thread'[u].pc # "sink"
    BY <1>5, <1>6 DEF Locked
  <2>2. \A sink \in Sinks \cup {OwnSink} : \A i, j \in DOMAIN history'.got[sink] :
          i < j => Before(order, history'.got[sink][i], history'.got[sink][j])
    <3> SUFFICES ASSUME NEW sink \in Sinks \cup {OwnSink}, NEW i \in DOMAIN history'.got[sink],
                        NEW j \in DOMAIN history'.got[sink], i < j
                 PROVE  Before(order, history'.got[sink][i], history'.got[sink][j])
      OBVIOUS
    <3>1. history.got[sink] \in Seq(Nat) /\ history'.got[sink] \in Seq(Nat)
      <4>1. history.got \in [Sinks \cup {OwnSink} -> Seq(Nat)]
        BY DEF TypeOK
      <4>2. history'.got \in [Sinks \cup {OwnSink} -> Seq(Nat)]
        BY <1>9
      <4> QED
        BY <4>1, <4>2
    <3>2. /\ \/ i \in DOMAIN history.got[sink] /\ history'.got[sink][i] = history.got[sink][i]
             \/ i = Len(history.got[sink]) + 1
          /\ j \in DOMAIN history.got[sink] \/ j = Len(history.got[sink]) + 1
      BY <1>10
    <3>3. i \in DOMAIN history.got[sink] /\ history'.got[sink][i] = history.got[sink][i]
      <4>1. i # Len(history.got[sink]) + 1
        BY <3>1, <3>2
      <4> QED
        BY <3>2, <4>1
    <3>4. CASE j \in DOMAIN history.got[sink] /\ history'.got[sink][j] = history.got[sink][j]
      <4>1. sink \in DOMAIN history.got
        BY DEF TypeOK
      <4> QED
        BY <1>7, <3>3, <3>4, <4>1 DEF SinksServed
    <3>5. CASE history'.got[sink][j] = m
      BY <1>7, <3>3, <3>5 DEF SentInTurn
    <3> QED
      BY <1>10, <3>4, <3>5
  <2>3. DOMAIN history'.got = Sinks \cup {OwnSink}
    BY <1>9
  <2> QED
    BY <1>9, <2>1, <2>2, <2>3 DEF SinksServed
<1> QED
  BY <1>11, <1>12, <1>13, <1>14, <1>15, <1>16

\* A thread begins to go through the list of sinks.
LEMMA LogToSinksStep ==
  ASSUME SinksInv, LogMessagesAssumption, NEW t \in AllThreads,
         LogToSinks(t) \/ WaitForSinks(t)
  PROVE  SinksInv'
<1> USE DEF SinksInv
<1> DEFINE n == Len(sinks.list)
<1>1. PICK pc \in {"sink", "until_sent"} :
        /\ thread[t].pc = IF pc = "sink" THEN "sending" ELSE "waiting"
        /\ sinks' = [sinks EXCEPT !.readers = @ \cup {t}]
        /\ Goto(t, pc, thread[t].m, n)
        /\ UNCHANGED <<world, message, log, history>>
  BY DEF LogToSinks, WaitForSinks, Read
<1>2. thread[t].m \in Nat /\ n \in Nat /\ pc \in InLog \cup {"idle", "popped", "failed"}
  BY DEF TypeOK, InLog, Locked
<1>3. /\ thread' \in [AllThreads -> [pc : InLog \cup {"idle", "popped", "failed"},
                                     m : Nat, at : Nat]]
      /\ thread'[t].pc = pc /\ thread'[t].m = thread[t].m /\ thread'[t].at = n
      /\ \A u \in AllThreads : u # t => thread'[u] = thread[u]
  BY <1>1, <1>2, Moves
<1>4. /\ pc \in Locked <=> thread[t].pc \in Locked
      /\ pc \in InLog /\ thread[t].pc \in InLog
      /\ pc \in Reading /\ thread[t].pc \notin Reading
  BY <1>1 DEF Locked, InLog, Reading
<1>5. /\ sinks' \in [list : Seq(Sinks), readers : SUBSET AllThreads, buffer : Seq(Nat)]
      /\ sinks'.list = sinks.list /\ sinks'.buffer = sinks.buffer
      /\ sinks'.readers = sinks.readers \cup {t}
  BY <1>1 DEF TypeOK
<1>6. TypeOK'
  BY <1>1, <1>3, <1>5 DEF TypeOK
<1>7. Holding'
  BY <1>1, <1>3, <1>4, <1>5 DEF Holding
<1>8. Numbered'
  <2>1. \A u \in AllThreads :
          /\ thread'[u].m = thread[u].m
          /\ thread'[u].pc \in InLog <=> thread[u].pc \in InLog
          /\ thread'[u].pc \in Locked <=> thread[u].pc \in Locked
          /\ thread'[u].pc = "locking" => thread[u].pc = "locking"
    BY <1>1, <1>3, <1>4
  <2> QED
    BY <1>1, <2>1 DEF Numbered
<1>9. SentInTurn'
  <2>1. \A u \in AllThreads :
          thread'[u].pc \in {"writing", "sending"} => thread'[u] = thread[u]
    BY <1>3
  <2> QED
    BY <1>1, <1>5, <2>1, SentInTurnStays
<1>10. WaitedFor'
  <2>1. CASE t # Owner
    BY <1>3, <1>5, <2>1, WaitedForStays
  <2>2. CASE t = Owner /\ sinks.buffer # <<>>
    <3>1. thread[Owner].pc = "waiting" /\ pc = "until_sent"
      BY <1>1, <2>2 DEF WaitedFor
    <3>2. PICK i \in DOMAIN sinks.list : sinks.list[i] = WaitingSink
      BY <2>2 DEF WaitedFor
    <3>3. i <= n
      BY DEF TypeOK
    <3> QED
      BY <1>3, <1>5, <2>2, <3>1, <3>2, <3>3 DEF WaitedFor
  <2> QED
    BY <1>5, <2>1, <2>2 DEF WaitedFor
<1>11. SinksServed'
  <2>1. CASE pc = "until_sent"
    BY <1>1, <1>3, <1>5, <2>1, ServedStays
  <2>2. CASE pc = "sink"
    <3>1. thread[t].pc = "sending"
      BY <1>1, <2>2
    <3>2. DOMAIN sinks.list = 1 .. n /\ \A i \in 1 .. n : sinks.list[i] \in Sinks
      BY DEF TypeOK
    <3>3. \A i \in DOMAIN sinks.list :
            ~(i > n) /\ ~\E j \in DOMAIN history.got[sinks.list[i]] :
                           history.got[sinks.list[i]][j] = thread[t].m
      BY <1>2, <3>1, <3>2 DEF SentInTurn, Got
    <3>4. \A u \in AllThreads :
            thread'[u].pc = "sink" =>
              /\ thread'[u].at <= n
              /\ \A i \in DOMAIN sinks.list :
                   LET got == history.got[sinks.list[i]]
                   IN i > thread'[u].at <=> \E j \in DOMAIN got : got[j] = thread'[u].m
      <4> TAKE u \in AllThreads
      <4>1. CASE u = t
        <5>1. thread'[u].at = n /\ thread'[u].m = thread[t].m /\ n <= n
          BY <1>2, <1>3, <4>1
        <5> QED
          BY <3>3, <5>1
      <4>2. CASE u # t
        BY ZenonT(40), <1>3, <4>2 DEF SinksServed
      <4> QED
        BY <4>1, <4>2
    <3>5. \A a, b : Before(history'.order, a, b) <=> Before(history.order, a, b)
      BY <1>1
    <3> QED
      BY <1>1, <1>5, <3>4, <3>5 DEF SinksServed
  <2> QED
    BY <2>1, <2>2
<1> QED
  BY <1>6, <1>7, <1>8, <1>9, <1>10, <1>11

\* A sink gets the message of the thread that is before it.
LEMMA SendStep ==
  ASSUME SinksInv, LogMessagesAssumption, NEW t \in AllThreads, Send(t)
  PROVE  SinksInv'
<1> USE DEF SinksInv
<1> DEFINE m == thread[t].m
           at == thread[t].at
           sink == sinks.list[at]
           n == Len(history.order)
           old == history.got[sink]
<1> DEFINE pushed == IF sink = WaitingSink /\ t = Owner THEN Append(sinks.buffer, m)
                     ELSE sinks.buffer
<1>1. thread[t].pc = "sink" /\ at > 0 /\ Goto(t, "sink", m, at - 1)
  BY DEF Send
<1>h. history' = [history EXCEPT !.got[sink] = Append(@, m)]
  BY DEF Send
<1>s. sinks' = [sinks EXCEPT !.buffer = pushed]
  BY DEF Send
<1>u. UNCHANGED <<world, message, log>>
  BY DEF Send
<1> HIDE DEF pushed
<1>2. /\ m \in Nat /\ at \in Nat /\ at - 1 \in Nat /\ history.order \in Seq(Nat) /\ n \in Nat
      /\ sinks.list \in Seq(Sinks) /\ history.got \in [Sinks \cup {OwnSink} -> Seq(Nat)]
      /\ sinks.buffer \in Seq(Nat)
  BY <1>1 DEF TypeOK
<1>3. at \in DOMAIN sinks.list /\ sink \in Sinks /\ old \in Seq(Nat)
  <2>1. at <= Len(sinks.list)
    BY <1>1 DEF SinksServed
  <2>2. at \in DOMAIN sinks.list
    BY <1>1, <1>2, <2>1
  <2>3. sink \in Sinks
    BY <1>2, <2>2
  <2> QED
    BY <1>2, <2>2, <2>3
<1>4. "sink" \in InLog /\ "sink" \in Locked /\ "sink" \in Reading
  BY DEF Locked, InLog, Reading
<1>5. /\ thread' \in [AllThreads -> [pc : InLog \cup {"idle", "popped", "failed"},
                                     m : Nat, at : Nat]]
      /\ thread'[t].pc = "sink" /\ thread'[t].m = m /\ thread'[t].at = at - 1
      /\ \A u \in AllThreads : u # t => thread'[u] = thread[u]
  BY <1>1, <1>2, <1>4, Moves
<1>6. \A u \in AllThreads : u # t => thread[u].pc \notin Locked
  BY <1>1, <1>4 DEF Holding
<1>7. /\ DOMAIN history' = DOMAIN history /\ history'.order = history.order
      /\ history'.got = [history.got EXCEPT ![sink] = Append(old, m)]
  BY <1>h DEF TypeOK
<1>8. /\ history'.got \in [Sinks \cup {OwnSink} -> Seq(Nat)]
      /\ history'.got[sink] = Append(old, m)
      /\ \A s \in Sinks \cup {OwnSink} : s # sink => history'.got[s] = history.got[s]
  <2>1. Append(old, m) \in Seq(Nat)
    BY <1>2, <1>3
  <2> HIDE DEF sink, old
  <2> QED
    BY <1>2, <1>3, <1>7, <2>1
<1>9. /\ \A j \in DOMAIN old : j \in DOMAIN Append(old, m) /\ Append(old, m)[j] = old[j]
      /\ \A j \in DOMAIN Append(old, m) : j \in DOMAIN old \/ j = Len(old) + 1
      /\ Len(old) + 1 \in DOMAIN Append(old, m) /\ Append(old, m)[Len(old) + 1] = m
      /\ DOMAIN old = 1 .. Len(old) /\ Len(old) \in Nat
  <2> HIDE DEF old, m
  <2>1. DOMAIN old = 1 .. Len(old) /\ Len(old) \in Nat
    BY <1>3
  <2>2. Len(Append(old, m)) = Len(old) + 1 /\ Append(old, m)[Len(old) + 1] = m
        /\ DOMAIN Append(old, m) = 1 .. Len(old) + 1
    BY <1>2, <1>3
  <2>3. \A j \in 1 .. Len(old) : Append(old, m)[j] = old[j]
    BY <1>2, <1>3
  <2> QED
    BY <2>1, <2>2, <2>3
<1>10. history.order # <<>> /\ n \in DOMAIN history.order /\ history.order[n] = m
  <2>1. history.order # <<>> /\ history.order[n] = m
    BY <1>1, <1>4 DEF Numbered
  <2> QED
    BY <1>2, <2>1
<1>11. \A j \in DOMAIN old : old[j] # m
  <2>1. ~(at > at)
    BY <1>2
  <2> QED
    BY <1>1, <1>3, <2>1 DEF SinksServed
<1>12. /\ sinks' \in [list : Seq(Sinks), readers : SUBSET AllThreads, buffer : Seq(Nat)]
       /\ sinks'.list = sinks.list /\ sinks'.readers = sinks.readers
       /\ sinks'.buffer # sinks.buffer => sink = WaitingSink /\ t = Owner
  <2>1. Append(sinks.buffer, m) \in Seq(Nat)
    BY <1>2
  <2>2. pushed \in Seq(Nat) /\ (pushed # sinks.buffer => sink = WaitingSink /\ t = Owner)
    BY <1>2, <2>1 DEF pushed
  <2> QED
    BY <1>s, <2>2 DEF TypeOK
<1> HIDE DEF sink, old
<1>13. TypeOK'
  <2>1. /\ history'.order \in Seq(Nat) /\ DOMAIN history' = {"order", "outcomes", "got"}
        /\ history'.got \in [Sinks \cup {OwnSink} -> Seq(Nat)]
    BY <1>2, <1>7, <1>8 DEF TypeOK
  <2> QED
    BY <1>u, <1>5, <1>12, <2>1 DEF TypeOK
<1>14. Holding'
  BY <1>1, <1>u, <1>4, <1>5, <1>12 DEF Holding
<1>15. Numbered'
  <2>1. \A u \in AllThreads : thread'[u].m = thread[u].m /\ thread'[u].pc = thread[u].pc
    BY <1>1, <1>5
  <2> QED
    BY <1>u, <1>7, <2>1 DEF Numbered
<1>16. SentInTurn'
  <2>1. \A s \in Sinks \cup {OwnSink} : \A j \in DOMAIN history'.got[s] :
          \E i \in DOMAIN history.order : history.order[i] = history'.got[s][j]
    <3> TAKE s \in Sinks \cup {OwnSink}
    <3> TAKE j \in DOMAIN history'.got[s]
    <3>1. CASE s # sink
      <4>1. history'.got[s] = history.got[s]
        BY <1>8, <3>1
      <4> QED
        BY <4>1 DEF SentInTurn
    <3>2. CASE s = sink /\ j \in DOMAIN old
      <4>1. history'.got[s][j] = old[j]
        BY <1>8, <1>9, <3>2
      <4> QED
        BY <3>2, <4>1 DEF SentInTurn, old
    <3>3. CASE s = sink /\ j \notin DOMAIN old
      <4>1. history'.got[s][j] = m
        BY <1>8, <1>9, <3>3
      <4> QED
        BY <1>10, <4>1
    <3> QED
      BY <3>1, <3>2, <3>3
  <2>2. \A u \in AllThreads : thread'[u].pc \notin {"writing", "sending"}
    <3>1. "writing" \in Locked /\ "sending" \in Locked
      BY DEF Locked
    <3> QED
      BY <1>5, <1>6, <3>1
  <2>3. sinks'.list = sinks.list /\ history'.order = history.order
    BY <1>7, <1>12
  <2> QED
    BY <2>1, <2>2, <2>3 DEF SentInTurn
<1>17. WaitedFor'
  <2>1. CASE t # Owner
    BY <1>5, <1>12, <2>1, WaitedForStays
  <2>2. CASE t = Owner /\ sink = WaitingSink
    BY <1>3, <1>5, <1>12, <2>2 DEF WaitedFor, sink
  <2>3. CASE t = Owner /\ sink # WaitingSink
    BY <1>5, <1>12, <2>3 DEF WaitedFor
  <2> QED
    BY <2>1, <2>2, <2>3
<1>18. SinksServed'
  <2>1. \A s \in Sinks \cup {OwnSink} : \A i, j \in DOMAIN history'.got[s] :
          i < j => Before(history.order, history'.got[s][i], history'.got[s][j])
    <3> SUFFICES ASSUME NEW s \in Sinks \cup {OwnSink}, NEW i \in DOMAIN history'.got[s],
                        NEW j \in DOMAIN history'.got[s], i < j
                 PROVE  Before(history.order, history'.got[s][i], history'.got[s][j])
      OBVIOUS
    <3>1. DOMAIN history.got = Sinks \cup {OwnSink}
      BY <1>2
    <3>2. CASE s # sink \/ j \in DOMAIN old
      <4>1. CASE s # sink
        BY <1>8, <3>1, <4>1 DEF SinksServed
      <4>2. CASE s = sink /\ j \in DOMAIN old
        <5>1. i \in DOMAIN old
          <6>1. i \in DOMAIN Append(old, m)
            BY <1>8, <4>2
          <6>2. j \in 1 .. Len(old) /\ Len(old) \in Nat
            BY <1>9, <4>2
          <6> QED
            BY <1>9, <6>1, <6>2
        <5>2. history'.got[s][i] = old[i] /\ history'.got[s][j] = old[j]
          BY <1>8, <1>9, <4>2, <5>1
        <5> QED
          BY <3>1, <4>2, <5>1, <5>2 DEF SinksServed, old
      <4> QED
        BY <3>2, <4>1, <4>2
    <3>3. CASE s = sink /\ j \notin DOMAIN old
      <4>1. i \in DOMAIN Append(old, m) /\ j = Len(old) + 1
        BY <1>8, <1>9, <3>3
      <4>2. i \in DOMAIN old
        BY <1>3, <1>9, <4>1
      <4>3. history'.got[s][i] = old[i] /\ history'.got[s][j] = m
        BY <1>8, <1>9, <3>3, <4>1, <4>2
      <4>4. PICK i2 \in DOMAIN history.order : history.order[i2] = old[i]
        BY <3>1, <3>3, <4>2 DEF SentInTurn, old
      <4>5. old[i] # m
        BY <1>11, <4>2 DEF old
      <4>6. i2 # n
        BY <1>10, <4>4, <4>5
      <4>7. i2 < n
        BY <1>2, <4>6
      <4> QED
        BY <1>10, <4>3, <4>4, <4>7 DEF Before
    <3> QED
      BY <3>2, <3>3
  <2>2. \A i \in DOMAIN sinks.list :
          i > at - 1 <=> \E j \in DOMAIN history'.got[sinks.list[i]] :
                           history'.got[sinks.list[i]][j] = m
    <3> TAKE i \in DOMAIN sinks.list
    <3>1. sinks.list[i] \in Sinks /\ i \in Nat
      BY <1>2
    <3>2. CASE i = at
      <4>1. sinks.list[i] = sink
        BY <3>2 DEF sink
      <4>2. i > at - 1
        BY <1>2, <3>2
      <4> QED
        BY <1>8, <1>9, <4>1, <4>2
    <3>3. CASE i # at
      <4>1. sinks.list[i] # sink
        BY <1>3, <3>3 DEF SentInTurn, sink
      <4>2. history'.got[sinks.list[i]] = history.got[sinks.list[i]]
        BY <1>8, <3>1, <4>1
      <4>3. i > at - 1 <=> i > at
        BY SMTT(30), <1>2, <3>1, <3>3
      <4>4. i > at <=> \E j \in DOMAIN history.got[sinks.list[i]] :
                         history.got[sinks.list[i]][j] = m
        BY <1>1 DEF SinksServed
      <4> QED
        BY <4>2, <4>3, <4>4
    <3> QED
      BY <3>2, <3>3
  <2>3. at - 1 <= Len(sinks.list)
    <3>1. at <= Len(sinks.list) /\ Len(sinks.list) \in Nat
      BY <1>2, <1>3
    <3> QED
      BY <1>2, <3>1
  <2>4. \A u \in AllThreads : thread'[u].pc = "sink" => u = t
    BY <1>4, <1>5, <1>6
  <2>5. DOMAIN history'.got = Sinks \cup {OwnSink}
    BY <1>8
  <2>6. \A u \in AllThreads :
          thread'[u].pc = "sink" =>
            /\ thread'[u].at <= Len(sinks.list)
            /\ \A i \in DOMAIN sinks.list :
                 LET got == history'.got[sinks.list[i]]
                 IN i > thread'[u].at <=> \E j \in DOMAIN got : got[j] = thread'[u].m
    <3> SUFFICES ASSUME NEW u \in AllThreads, u = t
                 PROVE  /\ thread'[u].at <= Len(sinks.list)
                        /\ \A i \in DOMAIN sinks.list :
                             LET got == history'.got[sinks.list[i]]
                             IN i > thread'[u].at <=> \E j \in DOMAIN got : got[j] = thread'[u].m
      BY <2>4
    <3>1. thread'[u].at = at - 1 /\ thread'[u].m = m
      BY <1>5
    <3> HIDE DEF m, at
    <3> QED
      BY <2>2, <2>3, <3>1
  <2>7. sinks'.list = sinks.list /\ history'.order = history.order
    BY <1>7, <1>12
  <2>8. \A a, b : Before(history'.order, a, b) <=> Before(history.order, a, b)
    BY <2>7
  <2> QED
    BY <2>1, <2>5, <2>6, <2>7, <2>8 DEF SinksServed
<1> QED
  BY <1>13, <1>14, <1>15, <1>16, <1>17, <1>18

\* A thread has come to the start of the list of sinks.
LEMMA SentToAllStep ==
  ASSUME SinksInv, LogMessagesAssumption, NEW t \in AllThreads, SentToAll(t)
  PROVE  SinksInv'
<1> USE DEF SinksInv
<1> DEFINE m == thread[t].m
<1>1. PICK pc \in {"crashing", "unlocking"} :
        thread[t].pc = "sink" /\ Goto(t, pc, m, 0)
  BY DEF SentToAll
<1>2. sinks' = [sinks EXCEPT !.readers = @ \ {t}] /\ UNCHANGED <<world, message, history>>
  BY DEF SentToAll
<1>3. DOMAIN log' = DOMAIN log /\ log'.mutex = log.mutex /\ log'.exclusive = log.exclusive
  BY DEF SentToAll, TypeOK
<1>4. m \in Nat /\ 0 \in Nat /\ pc \in InLog \cup {"idle", "popped", "failed"}
  BY DEF TypeOK, InLog, Locked
<1>5. /\ thread' \in [AllThreads -> [pc : InLog \cup {"idle", "popped", "failed"},
                                     m : Nat, at : Nat]]
      /\ thread'[t].pc = pc /\ thread'[t].m = m /\ thread'[t].at = 0
      /\ \A u \in AllThreads : u # t => thread'[u] = thread[u]
  BY <1>1, <1>4, Moves
<1>6. /\ pc \in Locked /\ pc \in InLog /\ pc \notin Reading
      /\ "sink" \in Locked /\ "sink" \in InLog /\ "sink" \in Reading
  BY DEF Locked, InLog, Reading
<1>7. /\ sinks' \in [list : Seq(Sinks), readers : SUBSET AllThreads, buffer : Seq(Nat)]
      /\ sinks'.list = sinks.list /\ sinks'.buffer = sinks.buffer
      /\ sinks'.readers = sinks.readers \ {t}
  BY <1>2 DEF TypeOK
<1>8. TypeOK'
  BY <1>2, <1>3, <1>5, <1>7 DEF TypeOK
<1>9. Holding'
  <2>1. /\ thread'[t].pc \in Locked <=> log'.mutex = t
        /\ thread'[t].pc \in Reading <=> t \in sinks'.readers
        /\ thread'[t].pc # "failed"
    BY <1>1, <1>3, <1>5, <1>6, <1>7 DEF Holding
  <2>2. \A u \in AllThreads : u # t =>
          /\ thread'[u].pc \in Locked <=> log'.mutex = u
          /\ thread'[u].pc \in Reading <=> u \in sinks'.readers
          /\ thread'[u].pc = "failed" => ~world.alive
    BY <1>3, <1>5, <1>7 DEF Holding
  <2> QED
    BY <1>2, <2>1, <2>2 DEF Holding
<1>10. Numbered'
  <2>1. \A u \in AllThreads :
          /\ thread'[u].m = thread[u].m
          /\ thread'[u].pc \in InLog <=> thread[u].pc \in InLog
          /\ thread'[u].pc \in Locked <=> thread[u].pc \in Locked
          /\ thread'[u].pc = "locking" => thread[u].pc = "locking"
    BY <1>1, <1>5, <1>6
  <2> QED
    BY <1>2, <2>1 DEF Numbered
<1>11. SentInTurn'
  <2>1. \A u \in AllThreads :
          thread'[u].pc \in {"writing", "sending"} => thread'[u] = thread[u]
    BY <1>5
  <2> QED
    BY <1>2, <1>7, <2>1, SentInTurnStays
<1>12. WaitedFor'
  <2>1. CASE t # Owner
    BY <1>5, <1>7, <2>1, WaitedForStays
  <2>2. CASE t = Owner
    BY <1>5, <1>7, <2>2 DEF WaitedFor
  <2> QED
    BY <2>1, <2>2
<1>13. SinksServed'
  BY <1>2, <1>5, <1>7, ServedStays
<1> QED
  BY <1>8, <1>9, <1>10, <1>11, <1>12, <1>13

\* LOG returns, or the program ends in it.
LEMMA ReturnStep ==
  ASSUME SinksInv, LogMessagesAssumption, world.alive, NEW t \in AllThreads, Return(t)
  PROVE  SinksInv'
<1> USE DEF SinksInv
<1>1. PICK pc \in {"failed", "idle"}, m \in {thread[t].m, 0} :
        /\ thread[t].pc = "until_sent" /\ thread[t].at = 0 /\ Goto(t, pc, m, 0)
        /\ pc = "failed" <=> Crashes(thread[t].m)
  BY DEF Return
<1>2. /\ sinks' = [sinks EXCEPT !.readers = @ \ {t}]
      /\ world' = [world EXCEPT !.alive = ~Crashes(thread[t].m)]
      /\ UNCHANGED <<message, log, history>>
  BY DEF Return
<1>3. m \in Nat /\ 0 \in Nat /\ pc \in InLog \cup {"idle", "popped", "failed"}
  BY DEF TypeOK
<1>4. /\ thread' \in [AllThreads -> [pc : InLog \cup {"idle", "popped", "failed"},
                                     m : Nat, at : Nat]]
      /\ thread'[t].pc = pc /\ thread'[t].m = m /\ thread'[t].at = 0
      /\ \A u \in AllThreads : u # t => thread'[u] = thread[u]
  BY <1>1, <1>3, Moves
<1>5. /\ pc \notin Locked /\ pc \notin InLog /\ pc \notin Reading
      /\ "until_sent" \notin Locked /\ "until_sent" \in Reading
  BY DEF Locked, InLog, Reading
<1>6. /\ sinks' \in [list : Seq(Sinks), readers : SUBSET AllThreads, buffer : Seq(Nat)]
      /\ sinks'.list = sinks.list /\ sinks'.buffer = sinks.buffer
      /\ sinks'.readers = sinks.readers \ {t}
  BY <1>2 DEF TypeOK
<1>7. /\ world' \in [now : Nat, full : BOOLEAN, was_full : BOOLEAN, alive : BOOLEAN, ops : Nat]
      /\ pc = "failed" => ~world'.alive
  BY <1>1, <1>2 DEF TypeOK
<1>8. TypeOK'
  BY <1>2, <1>4, <1>6, <1>7 DEF TypeOK
<1>9. Holding'
  <2>1. \A u \in AllThreads : thread[u].pc # "failed"
    BY DEF Holding
  <2>2. \A u \in AllThreads : thread'[u].pc = "failed" => u = t
    BY <1>4, <2>1
  <2> QED
    BY <1>1, <1>2, <1>4, <1>5, <1>6, <1>7, <2>2 DEF Holding
<1>10. Numbered'
  <2>1. \A u \in AllThreads :
          /\ thread'[u].pc \in InLog => thread'[u] = thread[u]
          /\ thread'[u].pc \in Locked => thread'[u] = thread[u]
          /\ thread'[u].pc = "locking" => thread'[u] = thread[u]
    BY <1>4, <1>5
  <2> QED
    BY <1>2, <2>1 DEF Numbered
<1>11. SentInTurn'
  <2>1. \A u \in AllThreads :
          thread'[u].pc \in {"writing", "sending"} => thread'[u] = thread[u]
    BY <1>4
  <2> QED
    BY <1>2, <1>6, <2>1, SentInTurnStays
<1>12. WaitedFor'
  <2>1. CASE t # Owner
    BY <1>4, <1>6, <2>1, WaitedForStays
  <2>2. CASE t = Owner
    <3>1. sinks.buffer = <<>>
      <4> SUFFICES ASSUME sinks.buffer # <<>> PROVE FALSE
        OBVIOUS
      <4>1. PICK i \in DOMAIN sinks.list : i <= thread[t].at
        BY <1>1, <2>2 DEF WaitedFor
      <4>2. i \in Nat \ {0}
        BY SMTT(30) DEF TypeOK
      <4> QED
        BY <1>1, <4>1, <4>2
    <3> QED
      BY <1>6, <3>1 DEF WaitedFor
  <2> QED
    BY <2>1, <2>2
<1>13. SinksServed'
  BY <1>2, <1>4, <1>6, ServedStays
<1> QED
  BY <1>8, <1>9, <1>10, <1>11, <1>12, <1>13

\* The thread of the waiting sink takes a message.
LEMMA PopStep ==
  ASSUME SinksInv, LogMessagesAssumption, Pop
  PROVE  SinksInv'
<1> USE DEF SinksInv
<1>1. /\ thread[Writer].pc = "idle" /\ Goto(Writer, "popped", 0, 0)
      /\ sinks.buffer # <<>> /\ sinks' = [sinks EXCEPT !.buffer = Tail(@)]
      /\ UNCHANGED <<world, message, log, history>>
  BY DEF Pop
<1>2. Writer \in AllThreads /\ Owner \in AllThreads /\ Writer # Owner
  BY DEF LogMessagesAssumption, AllThreads
<1>3. /\ thread' \in [AllThreads -> [pc : InLog \cup {"idle", "popped", "failed"},
                                     m : Nat, at : Nat]]
      /\ thread'[Writer].pc = "popped"
      /\ \A u \in AllThreads : u # Writer => thread'[u] = thread[u]
  BY <1>1, <1>2, Moves
<1>4. \A pc \in {"idle", "popped"} :
        pc \notin Locked /\ pc \notin InLog /\ pc \notin Reading
  BY DEF Locked, InLog, Reading
<1>5. /\ sinks' \in [list : Seq(Sinks), readers : SUBSET AllThreads, buffer : Seq(Nat)]
      /\ sinks'.list = sinks.list /\ sinks'.readers = sinks.readers
  <2>1. sinks.buffer \in Seq(Nat)
    BY DEF TypeOK
  <2>2. Tail(sinks.buffer) \in Seq(Nat)
    BY <1>1, <2>1
  <2> QED
    BY <1>1, <2>2 DEF TypeOK
<1>6. TypeOK'
  BY <1>1, <1>3, <1>5 DEF TypeOK
<1>7. Holding'
  <2>1. /\ thread'[Writer].pc \in Locked <=> thread[Writer].pc \in Locked
        /\ thread'[Writer].pc \in Reading <=> thread[Writer].pc \in Reading
        /\ thread'[Writer].pc # "failed"
    BY <1>1, <1>3, <1>4
  <2>2. \A u \in AllThreads :
          /\ thread'[u].pc \in Locked <=> thread[u].pc \in Locked
          /\ thread'[u].pc \in Reading <=> thread[u].pc \in Reading
          /\ thread'[u].pc = "failed" => thread[u].pc = "failed"
    BY <1>3, <2>1
  <2> QED
    BY <1>1, <1>5, <2>2 DEF Holding
<1>8. Numbered'
  <2>1. \A u \in AllThreads :
          /\ thread'[u].pc \in InLog => thread'[u] = thread[u]
          /\ thread'[u].pc \in Locked => thread'[u] = thread[u]
          /\ thread'[u].pc = "locking" => thread'[u] = thread[u]
    BY <1>3, <1>4
  <2> QED
    BY <1>1, <2>1 DEF Numbered
<1>9. SentInTurn'
  <2>1. \A u \in AllThreads :
          thread'[u].pc \in {"writing", "sending"} => thread'[u] = thread[u]
    BY <1>3
  <2> QED
    BY <1>1, <1>5, <2>1, SentInTurnStays
<1>10. WaitedFor'
  <2>1. thread'[Owner] = thread[Owner]
    BY <1>2, <1>3
  <2> QED
    BY <1>1, <1>5, <2>1 DEF WaitedFor
<1>11. SinksServed'
  BY <1>1, <1>3, <1>5, ServedStays
<1> QED
  BY <1>6, <1>7, <1>8, <1>9, <1>10, <1>11

\* The counter of operations, the clock and the disk leave the program alive.
Worlds == [now : Nat, full : BOOLEAN, was_full : BOOLEAN, alive : BOOLEAN, ops : Nat]

LEMMA Counted ==
  ASSUME TypeOK, Operation
  PROVE  world' \in Worlds /\ world'.alive = world.alive
<1> DEFINE n == world.ops + 1
<1>1. world \in Worlds
  BY DEF TypeOK, Worlds
<1>2. n \in Nat
  BY <1>1 DEF Worlds
<1>3. world' = [world EXCEPT !.ops = n]
  BY DEF Operation
<1> HIDE DEF n
<1> QED
  BY <1>1, <1>2, <1>3 DEF Worlds

LEMMA Elapsed ==
  ASSUME TypeOK, Tick \/ Disk
  PROVE  world' \in Worlds /\ world'.alive = world.alive
<1> DEFINE n == world.ops + 1
           now == world.now + 1
<1>1. world \in Worlds
  BY DEF TypeOK, Worlds
<1>2. n \in Nat /\ now \in Nat
  BY <1>1 DEF Worlds
<1>3. \/ world' = [world EXCEPT !.now = now]
      \/ world' = [world EXCEPT !.full = ~@, !.was_full = TRUE, !.ops = n]
  BY DEF Tick, Disk
<1> HIDE DEF n, now
<1> QED
  BY <1>1, <1>2, <1>3 DEF Worlds

\* A sink is registered.
LEMMA AddStep ==
  ASSUME SinksInv, LogMessagesAssumption, NEW t \in Threads, NEW sink \in Sinks,
         AddLogSink(t, sink)
  PROVE  SinksInv'
<1> USE DEF SinksInv
<1> DEFINE n == Len(sinks.list)
           list == Append(sinks.list, sink)
<1>1. /\ world' = [world EXCEPT !.ops = @ + 1] /\ sinks.readers = {}
      /\ \A i \in DOMAIN sinks.list : sinks.list[i] # sink
      /\ sinks' = [sinks EXCEPT !.list = list]
      /\ UNCHANGED <<thread, message, log, history>>
  BY DEF AddLogSink, Operation, SinksFree
<1>2. sinks.list \in Seq(Sinks) /\ n \in Nat
  BY DEF TypeOK
<1>3. /\ list \in Seq(Sinks) /\ DOMAIN list = 1 .. n + 1 /\ list[n + 1] = sink
      /\ DOMAIN sinks.list = 1 .. n /\ \A i \in 1 .. n : list[i] = sinks.list[i]
  BY <1>2
<1> HIDE DEF list
<1>4. /\ sinks' \in [list : Seq(Sinks), readers : SUBSET AllThreads, buffer : Seq(Nat)]
      /\ sinks'.list = list /\ sinks'.buffer = sinks.buffer
      /\ sinks'.readers = sinks.readers
  BY <1>1, <1>3 DEF TypeOK
<1>5. /\ world' \in [now : Nat, full : BOOLEAN, was_full : BOOLEAN, alive : BOOLEAN, ops : Nat]
      /\ world'.alive = world.alive
  BY Counted DEF AddLogSink, Worlds
<1>6. \A u \in AllThreads : thread[u].pc \notin Reading
  BY <1>1 DEF Holding
<1>7. TypeOK'
  BY <1>1, <1>4, <1>5 DEF TypeOK
<1>8. Holding' /\ Numbered'
  BY <1>1, <1>4, <1>5 DEF Holding, Numbered
<1>9. SentInTurn'
  <2>1. \A i, j \in DOMAIN list : list[i] = list[j] => i = j
    <3> TAKE i, j \in DOMAIN list
    <3>1. (i \in 1 .. n \/ i = n + 1) /\ (j \in 1 .. n \/ j = n + 1)
      BY <1>2, <1>3
    <3> QED
      BY <1>1, <1>3, <3>1 DEF SentInTurn
  <2> QED
    BY <1>1, <1>4, <2>1 DEF SentInTurn, Got
<1>10. WaitedFor'
  <2>1. \A i \in DOMAIN sinks.list : i \in DOMAIN list /\ list[i] = sinks.list[i]
    BY <1>2, <1>3
  <2> QED
    BY <1>1, <1>4, <2>1 DEF WaitedFor
<1>11. SinksServed'
  <2>1. \A u \in AllThreads : thread[u].pc # "sink"
    BY <1>6 DEF Reading
  <2>2. \A a, b : Before(history'.order, a, b) <=> Before(history.order, a, b)
    BY <1>1
  <2> QED
    BY <1>1, <2>1, <2>2 DEF SinksServed
<1> QED
  BY <1>7, <1>8, <1>9, <1>10, <1>11

\* A sink is removed: the last one comes to its place.
LEMMA RemoveStep ==
  ASSUME SinksInv, LogMessagesAssumption, NEW t \in Threads, NEW sink \in Sinks,
         RemoveLogSink(t, sink)
  PROVE  SinksInv'
<1> USE DEF SinksInv
<1> DEFINE n == Len(sinks.list)
<1>1. PICK k \in 1 .. n :
        /\ sinks.list[k] = sink
        /\ sinks' = [sinks EXCEPT !.list =
                       SubSeq([sinks.list EXCEPT ![k] = sinks.list[n]], 1, n - 1)]
  BY DEF RemoveLogSink
<1> DEFINE moved == [sinks.list EXCEPT ![k] = sinks.list[n]]
           list == SubSeq(moved, 1, n - 1)
<1>2. /\ world' = [world EXCEPT !.ops = @ + 1] /\ sinks.readers = {}
      /\ thread[t].pc = "idle" /\ (sink = WaitingSink => t = Owner)
      /\ UNCHANGED <<thread, message, log, history>>
  BY DEF RemoveLogSink, Operation, SinksFree
<1>3. sinks.list \in Seq(Sinks) /\ n \in Nat \ {0} /\ DOMAIN sinks.list = 1 .. n
      /\ n \in 1 .. n /\ sinks.list[n] \in Sinks
  BY SMTT(30), <1>1 DEF TypeOK
<1>4. /\ moved \in Seq(Sinks) /\ Len(moved) = n
      /\ \A i \in 1 .. n : moved[i] = IF i = k THEN sinks.list[n] ELSE sinks.list[i]
  BY <1>1, <1>3
<1> HIDE DEF moved
<1>5. /\ list \in Seq(Sinks) /\ DOMAIN list = 1 .. n - 1
      /\ \A i \in 1 .. n - 1 : list[i] = moved[i]
  BY <1>3, <1>4
<1> HIDE DEF list
<1>6. /\ sinks' \in [list : Seq(Sinks), readers : SUBSET AllThreads, buffer : Seq(Nat)]
      /\ sinks'.list = list /\ sinks'.buffer = sinks.buffer
      /\ sinks'.readers = sinks.readers
  <2>1. sinks' = [sinks EXCEPT !.list = list]
    BY <1>1 DEF list, moved
  <2> QED
    BY <1>5, <2>1 DEF TypeOK
<1>7. /\ world' \in [now : Nat, full : BOOLEAN, was_full : BOOLEAN, alive : BOOLEAN, ops : Nat]
      /\ world'.alive = world.alive
  BY Counted DEF RemoveLogSink, Worlds
<1>8. \A u \in AllThreads : thread[u].pc \notin Reading
  BY <1>2 DEF Holding
<1>9. TypeOK'
  BY <1>2, <1>6, <1>7 DEF TypeOK
<1>10. Holding' /\ Numbered'
  BY <1>2, <1>6, <1>7 DEF Holding, Numbered
<1>11. SentInTurn'
  <2>1. \A i, j \in DOMAIN list : list[i] = list[j] => i = j
    <3> TAKE i, j \in DOMAIN list
    <3>1. i \in 1 .. n /\ j \in 1 .. n /\ i # n /\ j # n
      BY <1>3, <1>5
    <3>2. /\ list[i] = IF i = k THEN sinks.list[n] ELSE sinks.list[i]
          /\ list[j] = IF j = k THEN sinks.list[n] ELSE sinks.list[j]
      BY <1>4, <1>5, <3>1
    <3> QED
      BY <1>3, <3>1, <3>2 DEF SentInTurn
  <2> QED
    BY <1>2, <1>6, <2>1 DEF SentInTurn, Got
<1>12. WaitedFor'
  <2> SUFFICES ASSUME sinks.buffer # <<>>
               PROVE  \E i \in DOMAIN list : list[i] = WaitingSink
    <3>1. \A u \in AllThreads : thread[u].pc # "until_sent"
      BY <1>8 DEF Reading
    <3>2. Owner \in AllThreads
      BY DEF LogMessagesAssumption, AllThreads
    <3> QED
      BY <1>2, <1>6, <3>1, <3>2 DEF WaitedFor
  <2>1. PICK i \in DOMAIN sinks.list : sinks.list[i] = WaitingSink
    BY DEF WaitedFor
  <2>2. i # k
    <3>1. t # Owner
      BY <1>2 DEF WaitedFor
    <3> QED
      BY <1>1, <1>2, <2>1, <3>1
  <2>3. CASE i # n
    <3>1. i \in 1 .. n - 1
      BY <1>3, <2>3
    <3> QED
      BY <1>3, <1>4, <1>5, <2>1, <2>2, <3>1
  <2>4. CASE i = n
    <3>1. k \in 1 .. n - 1
      BY <1>1, <1>3, <2>2, <2>4
    <3> QED
      BY <1>3, <1>4, <1>5, <2>1, <2>4, <3>1
  <2> QED
    BY <2>3, <2>4
<1>13. SinksServed'
  <2>1. \A u \in AllThreads : thread[u].pc # "sink"
    BY <1>8 DEF Reading
  <2>2. \A a, b : Before(history'.order, a, b) <=> Before(history.order, a, b)
    BY <1>2
  <2> QED
    BY <1>2, <2>1, <2>2 DEF SinksServed
<1> QED
  BY <1>9, <1>10, <1>11, <1>12, <1>13

-----------------------------------------------------------------------------
\* The invariant holds when nobody has logged.
LEMMA SinksInit ==
  ASSUME LogMessagesAssumption, Init
  PROVE  SinksInv
<1>1. /\ \A t \in AllThreads : thread[t] = [pc |-> "idle", m |-> 0, at |-> 0]
      /\ thread = [t \in AllThreads |-> [pc |-> "idle", m |-> 0, at |-> 0]]
  BY DEF Init
<1>2. \A t \in AllThreads : thread[t].pc = "idle" /\ thread[t].pc \notin InLog
                             /\ thread[t].pc \notin Locked /\ thread[t].pc \notin Reading
  BY <1>1, Places
<1>3. message = <<>> /\ sinks = [list |-> <<>>, readers |-> {}, buffer |-> <<>>]
  BY DEF Init
<1>4. log.mutex = None /\ log.exclusive = TRUE
      /\ DOMAIN log = {"mutex", "exclusive", "stop_writing", "crash_reason", "num_messages",
                       "files"}
  BY DEF Init
<1>5. /\ DOMAIN history = {"order", "outcomes", "got"} /\ history.order = <<>>
      /\ history.got = [s \in Sinks \cup {OwnSink} |-> <<>>]
  BY DEF Init
<1>6. TypeOK
  <2>1. thread \in [AllThreads -> [pc : InLog \cup {"idle", "popped", "failed"},
                                   m : Nat, at : Nat]]
    BY <1>1
  <2>2. world \in [now : Nat, full : BOOLEAN, was_full : BOOLEAN, alive : BOOLEAN, ops : Nat]
    BY DEF Init
  <2>3. message \in Seq([severity : Severities, method : Methods \cup {"SendToLog"},
                         timestamp : Nat, first_fatal : BOOLEAN])
    BY <1>3
  <2>4. sinks \in [list : Seq(Sinks), readers : SUBSET AllThreads, buffer : Seq(Nat)]
    BY <1>3
  <2>5. history.order \in Seq(Nat) /\ history.got \in [Sinks \cup {OwnSink} -> Seq(Nat)]
    <3>1. \A S : <<>> \in Seq(S)
      OBVIOUS
    <3> QED
      BY <1>5, <3>1
  <2> QED
    BY <1>4, <1>5, <2>1, <2>2, <2>3, <2>4, <2>5 DEF TypeOK
<1>7. Holding
  <2>1. \A t \in AllThreads : t # None
    BY DEF LogMessagesAssumption, AllThreads
  <2> QED
    BY <1>2, <1>3, <1>4, <2>1 DEF Holding
<1>8. Numbered
  BY <1>2, <1>5 DEF Numbered
<1>9. SentInTurn
  BY <1>2, <1>3, <1>5 DEF SentInTurn, Got
<1>10. WaitedFor
  BY <1>3 DEF WaitedFor
<1>11. SinksServed
  BY <1>2, <1>3, <1>5 DEF SinksServed
<1> QED
  BY <1>6, <1>7, <1>8, <1>9, <1>10, <1>11 DEF SinksInv

\* What a thread in LOG does.
LEMMA LoggingStep ==
  ASSUME SinksInv, LogMessagesAssumption, world.alive, NEW t \in AllThreads, Logging(t)
  PROVE  SinksInv'
<1>1. CASE Lock(t)
  BY <1>1, LockStep
<1>2. CASE WriteFile(t)
  <2>1. thread[t].pc = "writing" /\ UNCHANGED <<world, message, sinks>>
    BY <1>2 DEF WriteFile
  <2>2. /\ DOMAIN log' = DOMAIN log /\ log'.mutex = log.mutex
        /\ log'.exclusive = log.exclusive
        /\ DOMAIN history' = DOMAIN history /\ history'.order = history.order
        /\ history'.got = history.got
    BY <1>2 DEF WriteFile, SinksInv, TypeOK
  <2>3. PICK pc \in {"writing", "sending"}, at \in Nat : Goto(t, pc, thread[t].m, at)
    <3>1. thread[t].at \in Nat
      BY DEF SinksInv, TypeOK
    <3>2. CASE thread[t].at = 0
      BY <1>2, <3>2 DEF WriteFile
    <3>3. CASE thread[t].at # 0
      <4>1. thread[t].at - 1 \in Nat
        BY <3>1, <3>3
      <4>2. Goto(t, "writing", thread[t].m, thread[t].at - 1)
        BY <1>2, <3>3 DEF WriteFile
      <4> QED
        BY <4>1, <4>2
    <3> QED
      BY <3>2, <3>3
  <2>4. /\ pc \in InLog /\ "writing" \in InLog \ {"locking"} /\ pc \in Locked
        /\ "writing" \in Locked /\ pc \notin Reading /\ "writing" \notin Reading
    BY DEF Locked, InLog, Reading
  <2> QED
    BY <2>1, <2>2, <2>3, <2>4, Onward
<1>3. CASE LogToSinks(t) \/ WaitForSinks(t)
  BY <1>3, LogToSinksStep
<1>4. CASE Send(t)
  BY <1>4, SendStep
<1>5. CASE SentToAll(t)
  BY <1>5, SentToAllStep
<1>6. CASE FlushAll(t)
  <2>1. thread[t].pc = "crashing" /\ UNCHANGED <<world, message, sinks>>
    BY <1>6 DEF FlushAll
  <2>2. /\ DOMAIN log' = DOMAIN log /\ log'.mutex = MutexAfter(t, thread[t].at)
        /\ log'.exclusive = log.exclusive
        /\ DOMAIN history' = DOMAIN history /\ history'.order = history.order
        /\ history'.got = history.got
    <3>1. DOMAIN log = {"mutex", "exclusive", "stop_writing", "crash_reason",
                        "num_messages", "files"}
          /\ DOMAIN history = {"order", "outcomes", "got"}
      BY DEF SinksInv, TypeOK
    <3> HIDE DEF MutexAfter
    <3> QED
      BY <1>6, <3>1 DEF FlushAll
  <2>3. thread[t].at + 1 \in Nat
    BY DEF SinksInv, TypeOK
  <2>4. CASE LogToStderr \/ thread[t].at = Fatal
    <3>1. Goto(t, "waiting", thread[t].m, thread[t].at + 1) /\ log'.mutex = None
      BY <1>6, <2>2, <2>4 DEF FlushAll, MutexAfter
    <3> QED
      BY <2>1, <2>2, <2>3, <3>1, ReleaseStep
  <2>5. CASE ~LogToStderr /\ thread[t].at # Fatal
    <3>1. Goto(t, "crashing", thread[t].m, thread[t].at + 1) /\ log'.mutex = t
      BY <1>6, <2>2, <2>5 DEF FlushAll, MutexAfter
    <3>2. "crashing" \in InLog \ {"locking"} /\ "crashing" \in Locked
          /\ "crashing" \notin Reading
      BY DEF Locked, InLog, Reading
    <3>3. log.mutex = t
      BY <2>1, <3>2 DEF SinksInv, Holding
    <3> QED
      BY <2>1, <2>2, <2>3, <3>1, <3>2, <3>3, Onward
  <2> QED
    BY <2>4, <2>5
<1>7. CASE Unlock(t)
  <2>1. /\ thread[t].pc = "unlocking" /\ UNCHANGED <<world, message, sinks, history>>
        /\ Goto(t, "waiting", thread[t].m, 0)
    BY <1>7 DEF Unlock
  <2>2. DOMAIN log' = DOMAIN log /\ log'.mutex = None /\ log'.exclusive = log.exclusive
    <3>1. DOMAIN log = {"mutex", "exclusive", "stop_writing", "crash_reason",
                        "num_messages", "files"}
      BY DEF SinksInv, TypeOK
    <3> QED
      BY <1>7, <3>1 DEF Unlock
  <2> QED
    BY <2>1, <2>2, ReleaseStep
<1>8. CASE WaitTillSent(t)
  <2>1. /\ thread[t].pc = "until_sent" /\ UNCHANGED <<message, log, sinks, history, world>>
        /\ thread[t].at > 0
        /\ sinks.list[thread[t].at] = WaitingSink /\ t = Owner => sinks.buffer = <<>>
        /\ Goto(t, "until_sent", thread[t].m, thread[t].at - 1)
    BY <1>8 DEF WaitTillSent
  <2>2. thread[t].at \in Nat /\ thread[t].at - 1 \in Nat
    BY <2>1 DEF SinksInv, TypeOK
  <2>3. "until_sent" \in InLog \ {"locking"} /\ "until_sent" \notin Locked
        /\ "until_sent" \in Reading
    BY DEF Locked, InLog, Reading
  <2>4. t = Owner /\ sinks.buffer # <<>> =>
          \A i \in DOMAIN sinks.list :
            i <= thread[t].at /\ sinks.list[i] = WaitingSink => i <= thread[t].at - 1
    <3> SUFFICES ASSUME t = Owner, sinks.buffer # <<>>, NEW i \in DOMAIN sinks.list,
                        i <= thread[t].at, sinks.list[i] = WaitingSink
                 PROVE  i <= thread[t].at - 1
      OBVIOUS
    <3>1. i \in Nat
      BY SMTT(30) DEF SinksInv, TypeOK
    <3>2. i # thread[t].at
      BY <2>1
    <3> QED
      BY <2>2, <3>1, <3>2
  <2> QED
    BY <2>1, <2>2, <2>3, <2>4, Onward
<1>9. CASE Return(t)
  BY <1>9, ReturnStep
<1> QED
  BY <1>1, <1>2, <1>3, <1>4, <1>5, <1>6, <1>7, <1>8, <1>9 DEF Logging

\* Every step keeps the invariant.
LEMMA SinksStep ==
  ASSUME LogMessagesAssumption, SinksInv, [Next]_logVars
  PROVE  SinksInv'
<1>0. TypeOK /\ 0 \in Severities /\ Owner \in AllThreads /\ Writer \in AllThreads
      /\ Threads \subseteq AllThreads
  BY DEF SinksInv, LogMessagesAssumption, AllThreads, Severities
<1>1. CASE UNCHANGED logVars
  BY <1>0, <1>1, Quiet DEF logVars, TypeOK
<1>2. ASSUME world.alive, NEW t \in Threads, NEW s \in Severities, NEW method \in Methods,
             Create(t, s, method)
      PROVE  SinksInv'
  BY <1>0, <1>2, CreateStep
<1>3. CASE Create(Writer, 0, "SendToLog")
  BY <1>0, <1>3, CreateStep
<1>4. CASE Pop
  BY <1>4, PopStep
<1>5. ASSUME world.alive, NEW t \in AllThreads, Logging(t)
      PROVE  SinksInv'
  BY <1>5, LoggingStep
<1>6. ASSUME Operation, DOMAIN log' = DOMAIN log, log'.mutex = log.mutex,
             log'.exclusive = log.exclusive, UNCHANGED <<thread, message, sinks, history>>
      PROVE  SinksInv'
  <2>1. world' \in Worlds /\ world'.alive = world.alive
    BY <1>0, <1>6, Counted
  <2> QED
    BY <1>6, <2>1, Quiet DEF Worlds
<1>7. DOMAIN log = {"mutex", "exclusive", "stop_writing", "crash_reason", "num_messages",
                    "files"}
  BY <1>0 DEF TypeOK
<1>8. ASSUME NEW s \in Severities, NEW name \in Basenames, SetLogDestination(s, name)
      PROVE  SinksInv'
  BY <1>6, <1>7, <1>8 DEF SetLogDestination
<1>9. ASSUME NEW ext \in Extensions, SetLogFilenameExtension(ext)
      PROVE  SinksInv'
  BY <1>6, <1>7, <1>9 DEF SetLogFilenameExtension
<1>10. ASSUME NEW s \in Severities, FlushLogFiles(s)
       PROVE  SinksInv'
  BY <1>6, <1>7, <1>10 DEF FlushLogFiles
<1>11. ASSUME NEW t \in Threads, NEW sink \in Sinks,
              AddLogSink(t, sink) \/ RemoveLogSink(t, sink)
       PROVE  SinksInv'
  BY <1>11, AddStep, RemoveStep
<1>12. CASE Tick \/ Disk
  <2>1. world' \in Worlds /\ world'.alive = world.alive
    BY <1>0, <1>12, Elapsed
  <2>2. UNCHANGED <<thread, message, log, sinks, history>>
    BY <1>12 DEF Tick, Disk
  <2> QED
    BY <2>1, <2>2, Quiet DEF Worlds
<1> QED
  BY <1>1, <1>2, <1>3, <1>4, <1>5, <1>8, <1>9, <1>10, <1>11, <1>12 DEF Next

\* logging.cc, class LogDestination: what threads hold, how messages are ordered, what
\* the sinks were sent and what waits for its owner, in every state.
THEOREM SinksInvariant ==
  ASSUME LogMessagesAssumption
  PROVE  Spec => []SinksInv
<1>1. Init => SinksInv
  BY SinksInit
<1>2. SinksInv /\ [Next]_logVars => SinksInv'
  BY SinksStep
<1> QED
  BY <1>1, <1>2, PTL DEF Spec

\* logging.h, LogSink: a sink gets a message once, and what a thread reads stays as it
\* is until it has come to the start of the list.
THEOREM EachSinkServed ==
  ASSUME LogMessagesAssumption
  PROVE  Spec => []SinksServed
<1>1. SinksInv => SinksServed
  BY DEF SinksInv
<1> QED
  BY <1>1, SinksInvariant, PTL

\* logging.h, LogSink::WaitTillSent: LOG returns, or ends the program, when the sink has
\* handed on what it has buffered for the thread.
THEOREM WaitsForSink ==
  ASSUME LogMessagesAssumption
  PROVE  Spec => []TakenBeforeReturn
<1>1. SinksInv => TakenBeforeReturn
  BY DEF SinksInv, WaitedFor, TakenBeforeReturn
<1> QED
  BY <1>1, SinksInvariant, PTL

\* What a thread does in LOG waits for log_mutex, for sink_mutex_, or for the sink.
LEMMA Waits ==
  ASSUME NEW u \in AllThreads, thread[u].pc \in InLog, ~CanLog(u)
  PROVE  \/ thread[u].pc = "locking" /\ log.mutex # None
         \/ thread[u].pc \in {"sending", "waiting"} /\ ~ReadersShare /\ sinks.readers # {}
         \/ /\ thread[u].pc = "until_sent" /\ thread[u].at > 0 /\ u = Owner
            /\ sinks.list[thread[u].at] = WaitingSink /\ sinks.buffer # <<>>
BY DEF CanLog, InLog, Locked, MutexFree, ReadersFree

\* Where nobody in LOG can go, the owner waits for the sink: one that holds log_mutex
\* waits for a reader of the list, and one that reads it can go or is the owner.
LEMMA OwnerWaits ==
  ASSUME LogMessagesAssumption, SinksInv, NEW t \in AllThreads, thread[t].pc \in InLog,
         \A u \in AllThreads : ~CanLog(u)
  PROVE  /\ thread[Owner].pc = "until_sent" /\ thread[Owner].at > 0
         /\ sinks.list[thread[Owner].at] = WaitingSink /\ sinks.buffer # <<>>
<1>1. ASSUME NEW u \in AllThreads, u \in sinks.readers
      PROVE  thread[u].pc = "until_sent"
  <2>1. thread[u].pc \in Reading
    BY <1>1 DEF SinksInv, Holding
  <2> QED
    BY <2>1 DEF CanLog, Reading, Locked
<1>2. CASE sinks.readers # {}
  <2>1. PICK u \in AllThreads : u \in sinks.readers
    BY <1>2 DEF SinksInv, TypeOK
  <2>2. thread[u].pc = "until_sent"
    BY <1>1, <2>1
  <2> QED
    BY <2>2, Waits, Places DEF Reading
<1>3. CASE sinks.readers = {}
  <2>1. \A u \in AllThreads : thread[u].pc \notin Locked
    BY <1>3, Waits DEF Locked, InLog
  <2>2. log.mutex = None
    BY <2>1 DEF SinksInv, TypeOK, Holding
  <2> QED
    BY <1>3, <2>2, Waits
<1> QED
  BY <1>2, <1>3

\* One that holds log_mutex can go on, or waits for a reader of the list; if nobody
\* does, one that wants it can; and what the owner waits for is taken by the thread of
\* the sink, unless that waits for a lock which the owner keeps from it.
LEMMA CanGo ==
  ASSUME LogMessagesAssumption, SinksInv
  PROVE  StuckOnlyInCircle
<1> SUFFICES ASSUME world.alive, NEW t \in AllThreads, thread[t].pc \notin {"idle", "popped"},
                    ~CanTake, \A u \in AllThreads : ~CanLog(u)
             PROVE  WaitsInCircle
  BY DEF StuckOnlyInCircle, SomebodyCanGo
<1>1. Writer \in AllThreads /\ Owner \in AllThreads /\ Writer # Owner
  BY DEF LogMessagesAssumption, AllThreads
<1>2. \A u \in AllThreads :
        /\ thread[u].pc \in InLog \cup {"idle", "popped", "failed"}
        /\ thread[u].pc # "failed"
  BY DEF SinksInv, TypeOK, Holding
<1>3. /\ thread[Owner].pc = "until_sent" /\ thread[Owner].at > 0
      /\ sinks.list[thread[Owner].at] = WaitingSink /\ sinks.buffer # <<>>
  BY <1>2, OwnerWaits
<1>4. thread[Writer].pc \in InLog
  BY <1>1, <1>2, <1>3 DEF CanTake
<1>5. CASE thread[Writer].pc \in {"sending", "waiting"}
  BY <1>1, <1>3, <1>4, <1>5, Waits DEF WaitsInCircle
<1>6. CASE thread[Writer].pc = "locking" /\ log.mutex # None
  <2>1. PICK u \in AllThreads : log.mutex = u
    BY <1>6 DEF SinksInv, TypeOK
  <2>2. thread[u].pc \in Locked
    BY <2>1 DEF SinksInv, Holding
  <2>3. thread[u].pc = "sending" /\ ~ReadersShare
    BY <2>2, Waits, Places DEF Locked
  <2> QED
    BY <1>3, <1>6, <2>1, <2>3 DEF WaitsInCircle
<1> QED
  BY <1>1, <1>4, <1>5, <1>6, Waits

\* "do all this w/o causing deadlocks" (logging.h, LogSink): of the threads that are in
\* LOG and the thread of the sink, one is not waiting for another, or readers of
\* sink_mutex_ do not share it (base/mutex.h) and its owner and the thread of the sink
\* wait in the one circle that is left then.
THEOREM NobodyStuck ==
  ASSUME LogMessagesAssumption
  PROVE  Spec => []StuckOnlyInCircle
<1>1. SinksInv => StuckOnlyInCircle
  BY CanGo
<1> QED
  BY <1>1, SinksInvariant, PTL

\* Where readers share sink_mutex_, one can always go: there is no circle.
THEOREM NobodyStuckSharing ==
  ASSUME LogMessagesAssumption, ReadersShare
  PROVE  Spec => []SomebodyCanGo
<1>1. StuckOnlyInCircle => SomebodyCanGo
  BY DEF StuckOnlyInCircle, WaitsInCircle
<1> QED
  BY <1>1, NobodyStuck, PTL

-----------------------------------------------------------------------------
(* Log files: what an operation on a file object does to the messages in them *)

SameText(f, g) ==
  /\ Positions(g) = Positions(f)
  /\ \A p \in Positions(f) : MessageAt(g, p) = MessageAt(f, p)
  /\ Unflushed(g) \subseteq Unflushed(f)

\* One message more, after all others.
Added(f, g, q, m) ==
  /\ Positions(g) = Positions(f) \cup {q} /\ q \notin Positions(f)
  /\ MessageAt(g, q) = m /\ ~Earlier(q, q)
  /\ \A p \in Positions(f) :
       MessageAt(g, p) = MessageAt(f, p) /\ Earlier(p, q) /\ ~Earlier(q, p)
  /\ Unflushed(g) \subseteq Unflushed(f) \cup {q}

LEMMA SameHas ==
  ASSUME NEW f, NEW g, SameText(f, g), NEW m
  PROVE  HasMessage(g, m) <=> HasMessage(f, m)
BY DEF SameText, HasMessage

LEMMA PositionIs ==
  ASSUME NEW f, NEW p
  PROVE  p \in Positions(f) <=>
           \E i \in DOMAIN f.files : \E j \in 2 .. Len(f.files[i].data) : p = <<i, j>>
BY DEF Positions

LEMMA Limits ==
  ASSUME LogFileAssumption
  PROVE  /\ MaxLogSize \in Nat /\ MaxLogSize >= 2 /\ logbufsecs \in Nat
         /\ kRolloverAttemptFrequency \in Nat \ {0}
         /\ kRolloverAttemptFrequency - 1 \in Nat
         /\ kRolloverAttemptFrequency - 1 < kRolloverAttemptFrequency
<1>1. /\ MaxLogSize \in Nat \ {0, 1} /\ logbufsecs \in Nat
      /\ kRolloverAttemptFrequency \in Nat \ {0}
  BY Zenon DEF LogFileAssumption
<1> QED
  BY <1>1

LEMMA Entries ==
  ASSUME NEW S, NEW s \in Seq(S)
  PROVE  /\ Len(s) \in Nat /\ DOMAIN s = 1 .. Len(s)
         /\ \A i \in DOMAIN s : s[i] \in S
OBVIOUS

LEMMA Replaced ==
  ASSUME NEW S, NEW s \in Seq(S), NEW n \in DOMAIN s, NEW x \in S
  PROVE  LET r == [s EXCEPT ![n] = x]
         IN /\ r \in Seq(S) /\ Len(r) = Len(s) /\ DOMAIN r = DOMAIN s /\ r[n] = x
            /\ \A i \in DOMAIN s : i # n => r[i] = s[i]
OBVIOUS

LEMMA FileTyped ==
  ASSUME NEW f, FileInv(f)
  PROVE  /\ f.files \in Seq(OneFile) /\ Len(f.files) \in Nat
         /\ DOMAIN f.files = 1 .. Len(f.files)
         /\ f.file \in Nat /\ f.length \in Nat /\ f.attempt \in Nat
         /\ f.file # 0 => f.file \in DOMAIN f.files
         /\ \A i \in DOMAIN f.files :
              /\ f.files[i] \in OneFile /\ i \in Nat \ {0}
              /\ f.files[i].data \in Seq(Nat) /\ f.files[i].flushed \in Nat
              /\ Len(f.files[i].data) \in Nat \ {0}
<1>1. f.files \in Seq(OneFile) /\ f.file \in Nat /\ f.length \in Nat /\ f.attempt \in Nat
  BY DEF FileInv, FileObject
<1>2. /\ Len(f.files) \in Nat /\ DOMAIN f.files = 1 .. Len(f.files)
      /\ \A i \in DOMAIN f.files : f.files[i] \in OneFile
  BY <1>1, Entries
<1>3. ASSUME NEW i \in DOMAIN f.files
      PROVE  /\ f.files[i].data \in Seq(Nat) /\ f.files[i].flushed \in Nat
             /\ Len(f.files[i].data) \in Nat \ {0}
  <2>1. f.files[i].data \in Seq(Nat) /\ f.files[i].flushed \in Nat
    BY <1>2 DEF OneFile
  <2>2. f.files[i].data # <<>>
    BY DEF FileInv
  <2> QED
    BY <2>1, <2>2
<1>4. f.file # 0 => f.file \in DOMAIN f.files
  <2>1. f.file # 0 => f.file = Len(f.files)
    BY DEF FileInv
  <2> QED
    BY <1>1, <1>2, <2>1
<1> QED
  BY <1>1, <1>2, <1>3, <1>4

\* fflush and fclose change nothing but what has left the buffer of the open file.
LEMMA FlushedIs ==
  ASSUME NEW f, FileInv(f), NEW env
  PROVE  LET fs == Flushed(f, env)
         IN /\ fs \in Seq(OneFile) /\ Len(fs) = Len(f.files) /\ DOMAIN fs = DOMAIN f.files
            /\ \A i \in DOMAIN f.files : fs[i].data = f.files[i].data
            /\ \A i \in DOMAIN f.files : \/ fs[i].flushed = f.files[i].flushed
                                         \/ fs[i].flushed = Len(f.files[i].data)
            /\ f.file # 0 /\ ~env.full =>
                 fs[f.file].flushed = Len(f.files[f.file].data)
<1> DEFINE n == f.file
           g == f.files[n]
           fs == Flushed(f, env)
<1>1. /\ f.files \in Seq(OneFile) /\ n \in Nat
      /\ n # 0 => n \in DOMAIN f.files /\ g \in OneFile
  BY FileTyped
<1>2. CASE n = 0 \/ env.full
  <2>1. fs = f.files
    BY <1>2 DEF Flushed
  <2> QED
    BY <1>1, <1>2, <2>1
<1>3. CASE n # 0 /\ ~env.full
  <2> DEFINE h == [g EXCEPT !.flushed = Len(g.data)]
  <2>1. n \in DOMAIN f.files /\ g \in OneFile
    BY <1>1, <1>3
  <2>2. h \in OneFile /\ h.data = g.data /\ h.flushed = Len(g.data)
    BY SMTT(30), <2>1 DEF OneFile
  <2>3. fs = [f.files EXCEPT ![n] = h]
    BY <1>3 DEF Flushed
  <2> HIDE DEF h, n
  <2>4. /\ fs \in Seq(OneFile) /\ Len(fs) = Len(f.files) /\ DOMAIN fs = DOMAIN f.files
        /\ fs[n] = h /\ \A i \in DOMAIN f.files : i # n => fs[i] = f.files[i]
    BY <1>1, <2>1, <2>2, <2>3, Replaced
  <2>5. \A i \in DOMAIN f.files : fs[i].data = f.files[i].data
    BY <2>2, <2>4 DEF g
  <2>6. \A i \in DOMAIN f.files : \/ fs[i].flushed = f.files[i].flushed
                                  \/ fs[i].flushed = Len(f.files[i].data)
    BY <2>2, <2>4 DEF g
  <2>7. fs[n].flushed = Len(g.data)
    BY <2>2, <2>4 DEF g
  <2> QED
    BY <1>3, <2>4, <2>5, <2>6, <2>7 DEF n
<1> QED
  BY <1>1, <1>2, <1>3

\* So they keep the messages, and what was flushed stays flushed.
LEMMA FlushedKeeps ==
  ASSUME NEW f, FileInv(f), NEW env, NEW g, g.files = Flushed(f, env)
  PROVE  /\ SameText(f, g)
         /\ ~env.full => \A p \in Unflushed(g) : p[1] # f.file
<1>1. /\ DOMAIN g.files = DOMAIN f.files
      /\ \A i \in DOMAIN f.files : g.files[i].data = f.files[i].data
      /\ \A i \in DOMAIN f.files : \/ g.files[i].flushed = f.files[i].flushed
                                   \/ g.files[i].flushed = Len(f.files[i].data)
      /\ f.file # 0 /\ ~env.full =>
           g.files[f.file].flushed = Len(f.files[f.file].data)
  BY FlushedIs
<1>2. ASSUME NEW p
      PROVE  p \in Positions(g) <=> p \in Positions(f)
  BY <1>1, PositionIs
<1>3. ASSUME NEW p \in Positions(f)
      PROVE  /\ p[1] \in DOMAIN f.files /\ p[2] \in Nat
             /\ p[2] <= Len(f.files[p[1]].data) /\ MessageAt(g, p) = MessageAt(f, p)
  <2>1. PICK i \in DOMAIN f.files : \E j \in 2 .. Len(f.files[i].data) : p = <<i, j>>
    BY PositionIs
  <2>2. Len(f.files[i].data) \in Nat
    BY FileTyped
  <2> QED
    BY <1>1, <2>1, <2>2 DEF MessageAt
<1>4. ASSUME NEW p \in Unflushed(g)
      PROVE  p \in Unflushed(f) /\ (~env.full => p[1] # f.file)
  <2>1. p \in Positions(f) /\ p[2] > g.files[p[1]].flushed
    BY <1>2, <1>4 DEF Unflushed
  <2>2. Len(f.files[p[1]].data) \in Nat /\ f.file \in Nat /\ \A i \in DOMAIN f.files : i # 0
    BY <1>3, <2>1, FileTyped
  <2> QED
    BY <1>1, <1>3, <2>1, <2>2 DEF Unflushed
<1> QED
  BY <1>2, <1>3, <1>4 DEF SameText


\* What an operation that closes or flushes the file leaves of it.
Keeps(f, g, env) ==
  /\ FileInv(g) /\ SameText(f, g)
  /\ ~env.full /\ ClosedFlushed(f) => ClosedFlushed(g)
  /\ g.file = 0 => \/ g.attempt = kRolloverAttemptFrequency - 1
                   \/ f.file = 0 /\ g.attempt = f.attempt

LEMMA KeepsItself ==
  ASSUME NEW f, FileInv(f), NEW env
  PROVE  Keeps(f, f, env)
BY DEF Keeps, SameText

\* Any such operation that writes out the buffer with the names and counters of g.
LEMMA BufferWritten ==
  ASSUME NEW f, FileInv(f), NEW env, NEW g \in FileObject, g.files = Flushed(f, env),
         g.attempt < kRolloverAttemptFrequency,
         \/ /\ g.file = 0
            /\ \/ g.attempt = kRolloverAttemptFrequency - 1
               \/ f.file = 0 /\ g.attempt = f.attempt
         \/ g.file = f.file /\ g.name = f.name /\ g.length = f.length /\ g.attempt = f.attempt
  PROVE  Keeps(f, g, env) /\ (~env.full /\ ClosedFlushed(f) => Unflushed(g) = {})
<1>1. /\ Len(g.files) = Len(f.files) /\ DOMAIN g.files = DOMAIN f.files
      /\ \A i \in DOMAIN f.files : g.files[i].data = f.files[i].data
  BY FlushedIs
<1>2. SameText(f, g) /\ (~env.full => \A p \in Unflushed(g) : p[1] # f.file)
  BY FlushedKeeps
<1>3. SizeBound(g) /\ \A i \in DOMAIN g.files : g.files[i].data # <<>>
  BY <1>1 DEF SizeBound, FileInv
<1>4. g.file # 0 => /\ g.file = Len(g.files) /\ g.name # ""
                    /\ Len(g.files[g.file].data) <= g.length
  BY <1>1, FileTyped DEF FileInv
<1>5. FileInv(g)
  BY <1>3, <1>4 DEF FileInv
<1>6. ~env.full /\ ClosedFlushed(f) => Unflushed(g) = {}
  BY <1>2 DEF ClosedFlushed, SameText
<1>7. Unflushed(g) = {} => ClosedFlushed(g)
  BY DEF ClosedFlushed
<1>8. g.file = 0 => \/ g.attempt = kRolloverAttemptFrequency - 1
                    \/ f.file = 0 /\ g.attempt = f.attempt
  OBVIOUS
<1> QED
  BY <1>2, <1>5, <1>6, <1>7, <1>8 DEF Keeps

Environment(env) == env.full \in BOOLEAN /\ env.now \in Nat

LEMMA FlushUnlockedKeeps ==
  ASSUME LogFileAssumption, NEW f, FileInv(f), NEW env, Environment(env)
  PROVE  LET g == FlushUnlocked(f, env)
         IN /\ Keeps(f, g, env) /\ g.file = f.file
            /\ ~env.full /\ ClosedFlushed(f) => Unflushed(g) = {}
<1> DEFINE g == FlushUnlocked(f, env)
<1>1. f \in FileObject /\ f.attempt < kRolloverAttemptFrequency
  BY DEF FileInv
<1>2. Flushed(f, env) \in Seq(OneFile)
  BY FlushedIs
<1>3. env.now + logbufsecs \in Nat
  BY Limits DEF Environment
<1>4. /\ g \in FileObject /\ g.files = Flushed(f, env) /\ g.file = f.file /\ g.name = f.name
      /\ g.length = f.length /\ g.attempt = f.attempt
  BY <1>1, <1>2, <1>3 DEF FlushUnlocked, FileObject
<1> HIDE DEF g
<1>5. Keeps(f, g, env) /\ (~env.full /\ ClosedFlushed(f) => Unflushed(g) = {})
  BY <1>1, <1>4, BufferWritten
<1> QED
  BY <1>4, <1>5 DEF g

\* Closing the file for new names or for its length.
LEMMA CloseKeeps ==
  ASSUME LogFileAssumption, NEW f, FileInv(f), NEW env, Environment(env),
         NEW g \in FileObject, g.files = Flushed(f, env), g.file = 0,
         g.attempt = kRolloverAttemptFrequency - 1
  PROVE  Keeps(f, g, env)
<1>1. g.attempt < kRolloverAttemptFrequency
  BY Limits
<1> QED
  BY <1>1, BufferWritten

LEMMA RenamedKeeps ==
  ASSUME LogFileAssumption, NEW f, FileInv(f), NEW env, Environment(env)
  PROVE  LET g == Renamed(f, env)
         IN Keeps(f, g, env) /\ g.file = 0
<1> DEFINE g == Renamed(f, env)
<1>1. f \in FileObject /\ f.file \in Nat
  BY FileTyped DEF FileInv
<1>2. CASE f.file = 0
  BY <1>2, KeepsItself DEF Renamed
<1>3. CASE f.file # 0
  <2>1. Flushed(f, env) \in Seq(OneFile)
    BY FlushedIs
  <2>2. kRolloverAttemptFrequency - 1 \in Nat
    BY Limits
  <2>3. /\ g \in FileObject /\ g.files = Flushed(f, env) /\ g.file = 0
        /\ g.attempt = kRolloverAttemptFrequency - 1
    BY <1>1, <1>3, <2>1, <2>2 DEF Renamed, Close, FileObject
  <2> HIDE DEF g
  <2> QED
    BY <2>3, CloseKeeps DEF g
<1> QED
  BY <1>2, <1>3

\* A name, an extension or the choice of a name by the user says nothing of the file,
\* unless it is open.
LEMMA NamesKeep ==
  ASSUME NEW f, NEW env, NEW g, Keeps(f, g, env), NEW h \in FileObject,
         h.files = g.files, h.file = g.file, h.length = g.length, h.attempt = g.attempt,
         h.file # 0 => h.name = g.name
  PROVE  Keeps(f, h, env)
<1>1. FileInv(h)
  BY DEF Keeps, FileInv, SizeBound
<1>2. Positions(h) = Positions(g) /\ Unflushed(h) = Unflushed(g)
  BY DEF Positions, Unflushed
<1>3. \A p : MessageAt(h, p) = MessageAt(g, p)
  BY DEF MessageAt
<1>4. SameText(f, h)
  BY <1>2, <1>3 DEF Keeps, SameText
<1>5. ClosedFlushed(g) => ClosedFlushed(h)
  BY <1>2 DEF ClosedFlushed
<1> QED
  BY <1>1, <1>4, <1>5 DEF Keeps

LEMMA SetBasenameKeeps ==
  ASSUME LogFileAssumption, NEW f, FileInv(f), NEW env, Environment(env),
         NEW name \in Text
  PROVE  Keeps(f, SetBasename(f, env, name), env)
<1> DEFINE r == Renamed(f, env)
           h == SetBasename(f, env, name)
<1>1. f \in FileObject /\ Keeps(f, f, env)
  BY KeepsItself DEF FileInv
<1>2. Keeps(f, r, env) /\ r.file = 0 /\ r \in FileObject
  BY RenamedKeeps DEF Keeps, FileInv
<1> HIDE DEF r
<1>3. CASE f.name = name
  <2>1. h = [f EXCEPT !.selected = TRUE]
    BY <1>3 DEF SetBasename
  <2>2. /\ h \in FileObject /\ h.files = f.files /\ h.file = f.file /\ h.name = f.name
        /\ h.length = f.length /\ h.attempt = f.attempt
    BY <1>1, <2>1 DEF FileObject
  <2> HIDE DEF h
  <2> QED
    BY <1>1, <2>2, NamesKeep DEF h
<1>4. CASE f.name # name
  <2>1. h = [[r EXCEPT !.name = name] EXCEPT !.selected = TRUE]
    BY <1>4 DEF SetBasename, r
  <2>2. /\ h \in FileObject /\ h.files = r.files /\ h.file = r.file
        /\ h.length = r.length /\ h.attempt = r.attempt
    BY <1>2, <2>1 DEF FileObject
  <2> HIDE DEF h
  <2> QED
    BY <1>2, <2>2, NamesKeep DEF h
<1> QED
  BY <1>3, <1>4

LEMMA SetExtensionKeeps ==
  ASSUME LogFileAssumption, NEW f, FileInv(f), NEW env, Environment(env),
         NEW ext \in Text
  PROVE  Keeps(f, SetExtension(f, env, ext), env)
<1> DEFINE r == Renamed(f, env)
           h == [r EXCEPT !.ext = ext]
<1>1. CASE f.ext = ext
  BY <1>1, KeepsItself DEF SetExtension
<1>2. CASE f.ext # ext
  <2>1. Keeps(f, r, env) /\ r.file = 0 /\ r \in FileObject
    BY RenamedKeeps DEF Keeps, FileInv
  <2> HIDE DEF r
  <2>2. /\ h \in FileObject /\ h.files = r.files /\ h.file = r.file
        /\ h.length = r.length /\ h.attempt = r.attempt
    BY <2>1 DEF FileObject
  <2>3. SetExtension(f, env, ext) = h
    BY <1>2 DEF SetExtension, r
  <2> HIDE DEF h
  <2> QED
    BY <2>1, <2>2, <2>3, NamesKeep
<1> QED
  BY <1>1, <1>2


LEMMA RolledOverKeeps ==
  ASSUME LogFileAssumption, NEW f, FileInv(f), NEW env, Environment(env)
  PROVE  LET g == RolledOver(f, env)
         IN Keeps(f, g, env) /\ g.length < MaxLogSize
<1> DEFINE g == RolledOver(f, env)
<1>1. f \in FileObject /\ f.length \in Nat
  BY FileTyped DEF FileInv
<1>2. CASE f.length < MaxLogSize
  BY <1>2, KeepsItself DEF RolledOver
<1>3. CASE ~(f.length < MaxLogSize)
  <2>1. Flushed(f, env) \in Seq(OneFile)
    BY FlushedIs
  <2>2. kRolloverAttemptFrequency - 1 \in Nat /\ 0 < MaxLogSize
    BY Limits
  <2> DEFINE h == [f EXCEPT !.files = Flushed(f, env), !.file = 0]
  <2>3. h \in FileObject /\ h.files = Flushed(f, env) /\ h.file = 0
    BY <1>1, <2>1 DEF FileObject
  <2>4. g = [h EXCEPT !.length = 0, !.since_flush = 0,
                      !.attempt = kRolloverAttemptFrequency - 1]
    BY <1>3 DEF RolledOver, Close
  <2> HIDE DEF h
  <2>5. /\ g \in FileObject /\ g.files = Flushed(f, env) /\ g.file = 0 /\ g.length = 0
        /\ g.attempt = kRolloverAttemptFrequency - 1
    BY <2>2, <2>3, <2>4 DEF FileObject
  <2> HIDE DEF g
  <2> QED
    BY <2>2, <2>5, CloseKeeps DEF g
<1> QED
  BY <1>2, <1>3

LEMMA LeastNumber ==
  ASSUME NEW T, T \subseteq Nat, T # {}
  PROVE  \E x \in T : \A y \in T : x <= y
<1>1. \E x \in T : \A y \in T : ~ (<<y, x>> \in OpToRel(<, Nat))
  BY WFMin, NatLessThanWellFounded
<1>2. \A x, y \in T : <<y, x>> \in OpToRel(<, Nat) <=> y < x
  BY DEF OpToRel
<1>3. \E x \in T : \A y \in T : ~ (y < x)
  BY <1>1, <1>2, Zenon
<1> QED
  BY <1>3

\* Some name is tried.
LEMMA TriedIs ==
  ASSUME LogFileAssumption, NEW f \in FileObject, NEW time
  PROVE  Tried(f, time)[Len(Tried(f, time))] \in Text
<1> DEFINE names == IF f.selected THEN <<f.name>> ELSE Dirs
           good == {i \in DOMAIN names : CanCreate(f, names[i], time)}
           n == IF good = {} THEN Len(names)
                ELSE CHOOSE i \in good : \A j \in good : i <= j
           N == Len(names)
<1>1. names \in Seq(Text) /\ names # <<>>
  <2>1. f.name \in Text
    BY DEF FileObject
  <2>2. Dirs \in Seq(Text) /\ Dirs # <<>>
    BY Zenon DEF LogFileAssumption
  <2>3. <<f.name>> \in Seq(Text) /\ <<f.name>> # <<>>
    BY <2>1
  <2> QED
    BY <2>2, <2>3
<1>2. Tried(f, time) = SubSeq(names, 1, n)
  BY DEF Tried
<1> HIDE DEF names
<1>3. N \in Nat \ {0} /\ DOMAIN names = 1 .. N /\ \A i \in 1 .. N : names[i] \in Text
  BY <1>1
<1>4. n \in 1 .. N
  <2>1. CASE good = {}
    BY <1>3, <2>1
  <2>2. CASE good # {}
    <3>1. good \subseteq 1 .. N
      BY <1>3
    <3> HIDE DEF good
    <3>2. \E i \in good : \A j \in good : i <= j
      <4>1. good \subseteq Nat
        BY <1>3, <3>1
      <4> QED
        BY <2>2, <4>1, LeastNumber
    <3> QED
      BY <1>3, <2>2, <3>1, <3>2
  <2> QED
    BY <2>1, <2>2
<1> HIDE DEF n
<1>5. Len(SubSeq(names, 1, n)) = n /\ SubSeq(names, 1, n)[n] = names[n]
  BY <1>1, <1>3, <1>4
<1> QED
  BY <1>2, <1>3, <1>4, <1>5

\* A file that is created is open, has nothing but a header, and the next attempt is
\* far; the same if none can be created.
LEMMA CreatedIs ==
  ASSUME LogFileAssumption, NEW f, FileInv(f), f.file = 0, f.length < MaxLogSize,
         NEW time \in Nat
  PROVE  LET a == [f EXCEPT !.attempt = @ + 1]
             c == Created(a, time)
         IN /\ FileInv(c) /\ SameText(f, c) /\ c.attempt = 0
            /\ ClosedFlushed(f) => ClosedFlushed(c)
            /\ c.file # 0 => /\ Len(c.files[c.file].data) < MaxLogSize
                             /\ ClosedFlushed(f) => Unflushed(c) = {}
<1> DEFINE a == [f EXCEPT !.attempt = @ + 1]
           c == Created(a, time)
           tried == Tried(a, time)
           name == tried[Len(tried)]
           n == Len(f.files)
           new == [id |-> <<name, f.ext, time>>, data |-> <<0>>, flushed |-> 0]
<1>1. /\ f \in FileObject /\ f.length \in Nat /\ f.attempt \in Nat /\ n \in Nat
      /\ f.files \in Seq(OneFile) /\ DOMAIN f.files = 1 .. n
  BY FileTyped DEF FileInv
<1>2. /\ a \in FileObject /\ a.files = f.files /\ a.length = f.length /\ a.ext = f.ext
      /\ a.file = f.file
  BY <1>1 DEF FileObject
<1>3. name \in Text
  BY <1>2, TriedIs
<1>4. 0 \in Nat /\ 0 < kRolloverAttemptFrequency /\ MaxLogSize >= 2 /\ MaxLogSize \in Nat
  BY Limits
<1>5. SizeBound(f) /\ \A i \in DOMAIN f.files : f.files[i].data # <<>>
  BY DEF FileInv
<1> HIDE DEF a, name
<1>6. CASE CanCreate(a, name, time)
  <2>1. c = [a EXCEPT !.name = name, !.attempt = 0, !.file = Len(a.files) + 1,
                      !.files = Append(@, [id |-> <<name, a.ext, time>>, data |-> <<0>>,
                                           flushed |-> 0]),
                      !.length = @ + 1, !.since_flush = @ + 1]
    BY <1>6 DEF Created, name
  <2>2. name # ""
    BY <1>6, Zenon DEF CanCreate, LogFileAssumption
  <2>3. new \in OneFile
    BY <1>1, <1>3 DEF OneFile, FileObject
  <2>4. /\ new.data = <<0>> /\ new.flushed = 0 /\ Len(new.data) = 1 /\ new.data # <<>>
    OBVIOUS
  <2> HIDE DEF new
  <2>5. c = [a EXCEPT !.name = name, !.attempt = 0, !.file = n + 1,
                      !.files = Append(f.files, new),
                      !.length = f.length + 1, !.since_flush = @ + 1]
    BY <1>2, <2>1 DEF new
  <2>6. Append(f.files, new) \in Seq(OneFile)
    BY <1>1, <2>3
  <2> HIDE DEF n
  <2>7. /\ c \in FileObject /\ c.attempt = 0 /\ c.file = n + 1 /\ c.name = name
        /\ c.files = Append(f.files, new) /\ c.length = f.length + 1
    <3> DEFINE b == [a EXCEPT !.name = name, !.attempt = 0, !.file = n + 1]
    <3>1. /\ b \in FileObject /\ b.attempt = 0 /\ b.file = n + 1 /\ b.name = name
          /\ b.since_flush \in Nat
      <4>1. n + 1 \in Nat /\ 0 \in Nat
        BY <1>1
      <4> QED
        BY <1>2, <1>3, <4>1 DEF FileObject
    <3>2. c = [b EXCEPT !.files = Append(f.files, new), !.length = f.length + 1,
                        !.since_flush = @ + 1]
      BY <2>5
    <3> HIDE DEF b, c
    <3>3. f.length + 1 \in Nat /\ b.since_flush + 1 \in Nat
      BY <1>1, <3>1
    <3> QED
      BY <2>6, <3>1, <3>2, <3>3 DEF FileObject
  <2> HIDE DEF c
  <2>8. /\ Len(c.files) = n + 1 /\ DOMAIN c.files = 1 .. n + 1 /\ c.files[n + 1] = new
        /\ \A i \in 1 .. n : c.files[i] = f.files[i]
    BY <1>1, <2>3, <2>7 DEF n
  <2>9. Len(c.files[n + 1].data) = 1 /\ c.files[n + 1].data # <<>>
    BY <1>1, <2>4, <2>8
  <2>10. FileInv(c)
    <3>1. SizeBound(c)
      <4> SUFFICES ASSUME NEW i \in 1 .. n + 1
                   PROVE  Len(c.files[i].data) <= MaxLogSize
        BY <2>8 DEF SizeBound
      <4>1. CASE i = n + 1
        <5>1. Len(c.files[i].data) = 1
          BY <2>9, <4>1
        <5> QED
          BY <1>4, <5>1
      <4>2. CASE i # n + 1
        <5>1. i \in 1 .. n
          BY <1>1, <4>2
        <5> QED
          BY <1>1, <1>5, <2>8, <5>1 DEF SizeBound
      <4> QED
        BY <4>1, <4>2
    <3>2. \A i \in DOMAIN c.files : c.files[i].data # <<>>
      <4> SUFFICES ASSUME NEW i \in 1 .. n + 1
                   PROVE  c.files[i].data # <<>>
        BY <2>8
      <4>1. CASE i = n + 1
        BY <2>9, <4>1
      <4>2. CASE i # n + 1
        <5>1. i \in 1 .. n
          BY <1>1, <4>2
        <5> QED
          BY <1>1, <1>5, <2>8, <5>1
      <4> QED
        BY <4>1, <4>2
    <3>3. c.file = Len(c.files) /\ c.name # "" /\ Len(c.files[c.file].data) <= c.length
      <4>1. 1 <= f.length + 1
        BY <1>1
      <4> QED
        BY <2>2, <2>7, <2>8, <2>9, <4>1
    <3> QED
      BY <1>4, <2>7, <3>1, <3>2, <3>3 DEF FileInv
  <2>11. ASSUME NEW p
         PROVE  p \in Positions(c) <=> p \in Positions(f)
    <3>1. p \in Positions(c) <=>
            \E i \in 1 .. n + 1 : \E j \in 2 .. Len(c.files[i].data) : p = <<i, j>>
      BY <2>8, PositionIs
    <3>2. p \in Positions(f) <=>
            \E i \in 1 .. n : \E j \in 2 .. Len(f.files[i].data) : p = <<i, j>>
      BY <1>1, PositionIs
    <3>3. 2 .. Len(c.files[n + 1].data) = {}
      BY <2>9
    <3>4. \A i \in 1 .. n + 1 : i # n + 1 => i \in 1 .. n
      BY <1>1
    <3>5. \A i \in 1 .. n : i \in 1 .. n + 1
      BY <1>1
    <3> QED
      BY <2>8, <3>1, <3>2, <3>3, <3>4, <3>5, Zenon
  <2>12. ASSUME NEW p \in Positions(f)
         PROVE  c.files[p[1]] = f.files[p[1]] /\ p[1] \in 1 .. n
    BY <1>1, <2>8, PositionIs
  <2>13. SameText(f, c)
    BY <2>11, <2>12 DEF SameText, Unflushed, MessageAt
  <2>14. ClosedFlushed(f) => Unflushed(c) = {}
    BY <1>1, <2>11, <2>12, <2>13 DEF ClosedFlushed, SameText, Unflushed
  <2>15. c.file # 0 /\ Len(c.files[c.file].data) < MaxLogSize
    <3>1. n + 1 # 0 /\ 1 < MaxLogSize
      BY <1>1, <1>4
    <3> QED
      BY <2>7, <2>9, <3>1
  <2> QED
    BY <2>7, <2>10, <2>13, <2>14, <2>15 DEF ClosedFlushed, c, a
<1>7. CASE ~CanCreate(a, name, time)
  <2>1. c = [a EXCEPT !.name = name, !.attempt = 0]
    BY <1>7 DEF Created, name
  <2>2. /\ c \in FileObject /\ c.files = f.files /\ c.file = 0 /\ c.attempt = 0
        /\ c.length = f.length
    BY <1>2, <1>3, <1>4, <2>1 DEF FileObject
  <2> HIDE DEF c
  <2>3. FileInv(c)
    BY <1>4, <1>5, <2>2 DEF FileInv, SizeBound
  <2>4. SameText(f, c) /\ Unflushed(c) = Unflushed(f)
    BY <2>2 DEF SameText, Positions, Unflushed, MessageAt
  <2> QED
    BY <2>2, <2>3, <2>4 DEF ClosedFlushed, c, a
<1> QED
  BY <1>6, <1>7


LEMMA AppendIs ==
  ASSUME NEW S, NEW s \in Seq(S), NEW x \in S
  PROVE  LET r == Append(s, x)
             n == Len(s) + 1
         IN /\ r \in Seq(S) /\ Len(r) = n /\ r[n] = x /\ r # <<>>
            /\ \A i \in 1 .. Len(s) : r[i] = s[i]
OBVIOUS

\* A message is put after all others.
LEMMA PutIs ==
  ASSUME LogFileAssumption, NEW f, FileInv(f), f.file # 0,
         Len(f.files[f.file].data) < MaxLogSize, NEW m \in Nat
  PROVE  LET g == Put(f, m)
         IN /\ FileInv(g) /\ g.file = f.file
            /\ ClosedFlushed(f) => ClosedFlushed(g)
            /\ m = 0 => g = f
            /\ m # 0 => \E q : Added(f, g, q, m)
<1> DEFINE n == f.file
           old == f.files[n]
           L == Len(old.data)
           data == Append(old.data, m)
           new == [old EXCEPT !.data = data]
           files == [f.files EXCEPT ![n] = new]
           g == Put(f, m)
           q == <<n, L + 1>>
<1>1. /\ f \in FileObject /\ f.files \in Seq(OneFile) /\ DOMAIN f.files = 1 .. Len(f.files)
      /\ n \in Nat \ {0} /\ n \in DOMAIN f.files /\ old \in OneFile
      /\ L \in Nat \ {0} /\ old.data \in Seq(Nat) /\ f.length \in Nat
      /\ \A i \in DOMAIN f.files : i \in Nat \ {0} /\ Len(f.files[i].data) \in Nat \ {0}
  BY FileTyped DEF FileInv
<1>2. CASE m = 0
  BY <1>2 DEF Put
<1>3. CASE m # 0
  <2>1. /\ data \in Seq(Nat) /\ Len(data) = L + 1 /\ data[L + 1] = m /\ data # <<>>
        /\ \A j \in 1 .. L : data[j] = old.data[j]
    <3>1. old.data \in Seq(Nat)
      BY <1>1
    <3> HIDE DEF old
    <3> QED
      BY SMTT(30), <3>1, AppendIs
  <2>2. new \in OneFile /\ new.data = data /\ new.flushed = old.flushed
    BY <1>1, <2>1 DEF OneFile
  <2>3. g = [f EXCEPT !.files = files, !.length = @ + 1, !.since_flush = @ + 1]
    BY <1>3 DEF Put
  <2> HIDE DEF new, data
  <2>4. /\ files \in Seq(OneFile) /\ Len(files) = Len(f.files) /\ DOMAIN files = DOMAIN f.files
        /\ files[n] = new /\ \A i \in DOMAIN f.files : i # n => files[i] = f.files[i]
    BY <1>1, <2>2, Replaced
  <2> HIDE DEF files
  <2>5. /\ g \in FileObject /\ g.files = files /\ g.file = n /\ g.length = f.length + 1
        /\ g.name = f.name /\ g.attempt = f.attempt
    <3>1. f.since_flush \in Nat /\ f.since_flush + 1 \in Nat /\ f.length + 1 \in Nat
      BY <1>1 DEF FileObject
    <3> QED
      BY <1>1, <2>3, <2>4, <3>1 DEF FileObject
  <2> HIDE DEF g
  <2>6. /\ g.files[n].data = data /\ Len(g.files[n].data) = L + 1
        /\ g.files[n].flushed = old.flushed
    BY <2>1, <2>2, <2>4, <2>5
  <2>7. \A i \in DOMAIN f.files : i # n => g.files[i] = f.files[i]
    BY <2>4, <2>5
  <2> HIDE DEF n, L, q
  <2>8. FileInv(g)
    <3>1. SizeBound(g)
      <4> SUFFICES ASSUME NEW i \in DOMAIN f.files
                   PROVE  Len(g.files[i].data) <= MaxLogSize
        BY <2>4, <2>5 DEF SizeBound
      <4>1. CASE i = n
        <5>1. L < MaxLogSize
          BY DEF L, n
        <5>2. L + 1 <= MaxLogSize
          BY <1>1, <5>1, Limits
        <5>3. Len(g.files[i].data) = L + 1
          BY <2>6, <4>1
        <5> QED
          BY <5>2, <5>3
      <4>2. CASE i # n
        BY <2>7, <4>2 DEF FileInv, SizeBound
      <4> QED
        BY <4>1, <4>2
    <3>2. \A i \in DOMAIN g.files : g.files[i].data # <<>>
      BY <2>1, <2>4, <2>5, <2>6, <2>7 DEF FileInv
    <3>3. n = Len(f.files) /\ f.name # "" /\ L <= f.length
      BY DEF FileInv, n, L
    <3>4. Len(g.files[n].data) <= g.length
      <4>1. L \in Nat /\ f.length \in Nat
        BY <1>1
      <4>2. \A a, b \in Nat : a <= b => a + 1 <= b + 1
        OBVIOUS
      <4>3. L + 1 <= f.length + 1
        BY <3>3, <4>1, <4>2, Zenon
      <4> QED
        BY <2>5, <2>6, <4>3
    <3> QED
      BY <2>4, <2>5, <3>1, <3>2, <3>3, <3>4 DEF FileInv
  <2>9. ASSUME NEW p
        PROVE  p \in Positions(g) <=> p \in Positions(f) \/ p = q
    <3>1. p \in Positions(g) <=>
            \E i \in DOMAIN f.files : \E j \in 2 .. Len(g.files[i].data) : p = <<i, j>>
      BY <2>4, <2>5, PositionIs
    <3>2. p \in Positions(f) <=>
            \E i \in DOMAIN f.files : \E j \in 2 .. Len(f.files[i].data) : p = <<i, j>>
      BY PositionIs
    <3>3. \A j : j \in 2 .. Len(g.files[n].data) <=> j \in 2 .. L \/ j = L + 1
      BY SMTT(30), <1>1, <2>6
    <3>4. L = Len(f.files[n].data)
      BY DEF L
    <3> QED
      BY <1>1, <2>7, <3>1, <3>2, <3>3, <3>4, Zenon DEF q
  <2>10. ASSUME NEW p \in Positions(f)
         PROVE  /\ p[1] \in DOMAIN f.files /\ p[2] \in 2 .. Len(f.files[p[1]].data)
                /\ p # q
                /\ MessageAt(g, p) = MessageAt(f, p) /\ Earlier(p, q) /\ ~Earlier(q, p)
                /\ g.files[p[1]].flushed = f.files[p[1]].flushed
    <3>1. PICK i \in DOMAIN f.files : \E j \in 2 .. Len(f.files[i].data) : p = <<i, j>>
      BY PositionIs
    <3>2. PICK j \in 2 .. Len(f.files[i].data) : p = <<i, j>>
      BY <3>1
    <3>3. i \in Nat /\ i <= n /\ j \in Nat /\ (i = n => j \in 1 .. L)
      <4>1. n = Len(f.files)
        BY DEF FileInv, n
      <4> QED
        BY <1>1, <3>2, <4>1 DEF L
    <3>4. p # q /\ Earlier(p, q) /\ ~Earlier(q, p)
      BY <1>1, <3>2, <3>3 DEF Earlier, q
    <3>5. MessageAt(g, p) = MessageAt(f, p) /\ g.files[i].flushed = f.files[i].flushed
      <4>1. CASE i = n
        <5>1. data[j] = old.data[j] /\ old = f.files[i]
          BY <2>1, <3>3, <4>1 DEF n
        <5> HIDE DEF old
        <5>2. MessageAt(g, p) = data[j] /\ MessageAt(f, p) = old.data[j]
          BY <2>6, <3>2, <4>1, <5>1 DEF MessageAt
        <5> QED
          BY <2>6, <4>1, <5>1, <5>2
      <4>2. CASE i # n
        BY <2>7, <3>2, <4>2 DEF MessageAt
      <4> QED
        BY <4>1, <4>2
    <3> QED
      BY <3>1, <3>2, <3>4, <3>5
  <2>11. MessageAt(g, q) = m /\ ~Earlier(q, q)
    <3>1. MessageAt(g, q) = data[L + 1]
      BY <2>6 DEF MessageAt, q
    <3>2. ~Earlier(q, q)
      BY <1>1 DEF Earlier, q
    <3> QED
      BY <2>1, <3>1, <3>2
  <2>12. Unflushed(g) \subseteq Unflushed(f) \cup {q}
    BY <2>9, <2>10 DEF Unflushed
  <2>13. Positions(g) = Positions(f) \cup {q} /\ q \notin Positions(f)
    BY <2>9, <2>10
  <2>14. Added(f, g, q, m)
    BY <2>10, <2>11, <2>12, <2>13 DEF Added
  <2>15. ClosedFlushed(f) => ClosedFlushed(g)
    BY <2>5, <2>12 DEF ClosedFlushed, q, n
  <2> QED
    BY <1>3, <2>5, <2>8, <2>14, <2>15 DEF g, n
<1> QED
  BY <1>2, <1>3


\* What r, the result of a write of message m to file f, says and leaves there.
WroteTo(f, env, stop, force, m, r) ==
  /\ FileInv(r.f) /\ r.stop \in BOOLEAN /\ r.lost \in Reasons
  /\ r.lost # "" \/ m = 0 => SameText(f, r.f)
  /\ r.lost = "" /\ m # 0 => \E q : Added(f, r.f, q, m)
  /\ ~env.full /\ ClosedFlushed(f) => ClosedFlushed(r.f)
  /\ force /\ ~env.full /\ ~stop /\ ClosedFlushed(f) => Unflushed(r.f) = {}
  /\ r.stop => r.lost = "full" \/ stop
  /\ r.lost = "full" => env.full
  /\ r.lost = "stopped" => stop

LEMMA ResultIs ==
  ASSUME NEW f, NEW stop, NEW lost
  PROVE  LET r == Result(f, stop, lost)
         IN r.f = f /\ r.stop = stop /\ r.lost = lost
BY DEF Result

LEMMA SameAfterAdded ==
  ASSUME NEW f, NEW g, NEW h, NEW q, NEW m, Added(f, g, q, m), SameText(g, h)
  PROVE  Added(f, h, q, m)
BY DEF Added, SameText

\* What is done to a file before the write does not count as long as it keeps the text.
LEMMA WrittenAfter ==
  ASSUME NEW f, NEW e, NEW env, NEW stop, NEW force, NEW m, NEW r, SameText(f, e),
         ~env.full /\ ClosedFlushed(f) => ClosedFlushed(e),
         WroteTo(e, env, stop, force, m, r)
  PROVE  WroteTo(f, env, stop, force, m, r)
<1>1. SameText(e, r.f) => SameText(f, r.f)
  BY DEF SameText
<1>2. ASSUME NEW q, Added(e, r.f, q, m)
      PROVE  Added(f, r.f, q, m)
  BY <1>2 DEF SameText, Added
<1> QED
  BY <1>1, <1>2 DEF WroteTo

\* Nothing is left in the buffers if no file is open.
LEMMA NothingOpen ==
  ASSUME NEW f, FileInv(f), f.file = 0, ClosedFlushed(f)
  PROVE  Unflushed(f) = {}
<1> SUFFICES ASSUME NEW p \in Unflushed(f)
             PROVE  FALSE
  OBVIOUS
<1>1. p \in Positions(f) /\ p[1] = 0
  BY DEF ClosedFlushed, Unflushed
<1>2. p[1] \in DOMAIN f.files
  BY <1>1, PositionIs
<1> QED
  BY <1>1, <1>2, FileTyped

\* A write that comes to nothing, with the reason.
LEMMA NothingWritten ==
  ASSUME NEW f, NEW g, FileInv(g), g.file = 0, SameText(f, g), NEW env, NEW stop \in BOOLEAN,
         ~env.full /\ ClosedFlushed(f) => ClosedFlushed(g),
         NEW force, NEW m, NEW lost \in {"off", "waiting", "no_file"}
  PROVE  WroteTo(f, env, stop, force, m, Result(g, stop, lost))
<1> DEFINE r == Result(g, stop, lost)
<1>1. r.f = g /\ r.stop = stop /\ r.lost = lost
  BY ResultIs
<1>2. lost \in Reasons /\ lost \notin {"", "full", "stopped"}
  BY DEF Reasons
<1>3. ~env.full /\ ClosedFlushed(f) => Unflushed(g) = {}
  BY NothingOpen
<1> HIDE DEF r
<1> QED
  BY <1>1, <1>2, <1>3 DEF WroteTo, r

\* To an open file with room in it.
LEMMA OutputIs ==
  ASSUME LogFileAssumption, NEW f, FileInv(f), f.file # 0,
         Len(f.files[f.file].data) < MaxLogSize, NEW m \in Nat,
         NEW env, Environment(env), NEW stop \in BOOLEAN, NEW force \in BOOLEAN
  PROVE  LET r == Output(f, env, stop, force, m)
         IN WroteTo(f, env, stop, force, m, r) /\ r.f.file # 0
            /\ r.lost \in {"", "stopped", "full"}
<1> DEFINE r == Output(f, env, stop, force, m)
<1>1. SameText(f, f)
  BY DEF SameText
<1>2. "stopped" \in Reasons /\ "full" \in Reasons /\ "" \in Reasons
  BY DEF Reasons
<1>3. CASE stop
  <2>1. r = Result(f, env.now < f.next_flush_time, "stopped")
    BY <1>3 DEF Output
  <2>2. r.f = f /\ r.stop \in BOOLEAN /\ r.lost = "stopped"
    BY <2>1 DEF Result
  <2> HIDE DEF r
  <2> QED
    BY <1>1, <1>2, <1>3, <2>2 DEF WroteTo, r
<1>4. CASE ~stop /\ (StopIfFullDisk /\ env.full /\ m # 0)
  <2>1. r = Result(f, TRUE, "full")
    BY <1>4 DEF Output
  <2>2. r.f = f /\ r.stop = TRUE /\ r.lost = "full"
    BY <2>1 DEF Result
  <2> HIDE DEF r
  <2> QED
    BY <1>1, <1>2, <1>4, <2>2 DEF WroteTo, r
<1>5. CASE ~stop /\ ~(StopIfFullDisk /\ env.full /\ m # 0)
  <2> DEFINE g == Put(f, m)
             due == FlushDue(force, g, env)
             h == IF due THEN FlushUnlocked(g, env) ELSE g
  <2>1. /\ FileInv(g) /\ g.file = f.file /\ (ClosedFlushed(f) => ClosedFlushed(g))
        /\ m = 0 => g = f
        /\ m # 0 => \E q : Added(f, g, q, m)
    BY PutIs
  <2>2. r = Result(h, FALSE, "")
    BY <1>5 DEF Output
  <2>3. force => due
    BY DEF FlushDue
  <2> HIDE DEF g, due
  <2>4. /\ FileInv(h) /\ SameText(g, h) /\ h.file = g.file
        /\ ~env.full /\ ClosedFlushed(g) => ClosedFlushed(h)
        /\ force /\ ~env.full /\ ClosedFlushed(g) => Unflushed(h) = {}
    <3>1. CASE due
      BY <2>1, <3>1, FlushUnlockedKeeps DEF Keeps
    <3>2. CASE ~due
      <4>1. h = g /\ SameText(g, g)
        BY <3>2 DEF SameText
      <4> HIDE DEF h
      <4> QED
        BY <2>1, <2>3, <3>2, <4>1
    <3> QED
      BY <3>1, <3>2
  <2> HIDE DEF h, r
  <2>5. r.f = h /\ r.stop = FALSE /\ r.lost = ""
    BY <2>2 DEF Result
  <2>6. m # 0 => \E q : Added(f, h, q, m)
    BY <2>1, <2>4, SameAfterAdded
  <2>7. WroteTo(f, env, stop, force, m, r)
    BY <1>2, <2>1, <2>4, <2>5, <2>6 DEF WroteTo
  <2> QED
    BY <2>1, <2>4, <2>5, <2>7 DEF r
<1> QED
  BY <1>3, <1>4, <1>5

\* Every way a write can go.  As long as no file is open the counter of attempts says
\* how many messages have waited for one.
LEMMA WriteIs ==
  ASSUME LogFileAssumption, NEW f, FileInv(f), NEW m \in Nat, NEW time \in Nat,
         NEW env, Environment(env), NEW stop \in BOOLEAN, NEW force \in BOOLEAN
  PROVE  LET r == Write(f, env, stop, force, time, m)
         IN /\ WroteTo(f, env, stop, force, m, r)
            /\ r.lost = "waiting" =>
                 /\ f.file = 0 /\ f.attempt # kRolloverAttemptFrequency - 1
                 /\ r.f.attempt = f.attempt + 1
            /\ r.f.file = 0 => \/ r.lost = "waiting"
                               \/ r.lost = "no_file" /\ r.f.attempt = 0
                               \/ r.lost = "off" /\ r.f = f
<1> DEFINE e == RolledOver(f, env)
           a == [e EXCEPT !.attempt = @ + 1]
           c == Created(a, time)
           r == Write(f, env, stop, force, time, m)
<1>1. Keeps(f, e, env) /\ e.length < MaxLogSize
  BY RolledOverKeeps
<1>2. /\ FileInv(e) /\ SameText(f, e) /\ (~env.full /\ ClosedFlushed(f) => ClosedFlushed(e))
      /\ e.file = 0 => \/ e.attempt = kRolloverAttemptFrequency - 1
                       \/ f.file = 0 /\ e.attempt = f.attempt
  BY <1>1 DEF Keeps
<1>3. CASE Off(f)
  <2>1. r = Result(f, stop, "off")
    BY <1>3 DEF Write
  <2>2. f.file = 0 /\ SameText(f, f)
    BY <1>3 DEF Off, FileInv, SameText
  <2>3. WroteTo(f, env, stop, force, m, r)
    BY <2>1, <2>2, NothingWritten
  <2>4. r.f = f /\ r.lost = "off"
    BY <2>1, ResultIs
  <2> QED
    BY <2>3, <2>4
<1>4. CASE ~Off(f) /\ e.file # 0
  <2>1. r = Output(e, env, stop, force, m)
    BY <1>4 DEF Write
  <2>2. Len(e.files[e.file].data) < MaxLogSize
    <3>1. Len(e.files[e.file].data) <= e.length
      BY <1>2, <1>4 DEF FileInv
    <3>2. Len(e.files[e.file].data) \in Nat /\ e.length \in Nat
      BY <1>2, <1>4, FileTyped
    <3> HIDE DEF e
    <3> QED
      BY <1>1, <3>1, <3>2, Limits
  <2> HIDE DEF e
  <2>3. /\ WroteTo(e, env, stop, force, m, r) /\ r.f.file # 0
        /\ r.lost \in {"", "stopped", "full"}
    <3> DEFINE o == Output(e, env, stop, force, m)
    <3>1. WroteTo(e, env, stop, force, m, o) /\ o.f.file # 0
          /\ o.lost \in {"", "stopped", "full"}
      BY ZenonT(40), <1>2, <1>4, <2>2, OutputIs
    <3> HIDE DEF o, r
    <3>2. r = o
      BY <2>1 DEF o, r
    <3> QED
      BY <3>1, <3>2
  <2> HIDE DEF r
  <2>4. WroteTo(f, env, stop, force, m, r)
    BY <1>2, <2>3, WrittenAfter
  <2> QED
    BY <2>3, <2>4 DEF r
<1>5. CASE ~Off(f) /\ e.file = 0 /\ a.attempt # kRolloverAttemptFrequency
  <2>1. r = Result(a, stop, "waiting")
    BY <1>5 DEF Write
  <2>2. e \in FileObject /\ e.attempt \in Nat /\ e.attempt < kRolloverAttemptFrequency
    BY <1>2, FileTyped DEF FileInv
  <2> HIDE DEF e
  <2>3. /\ a \in FileObject /\ a.attempt = e.attempt + 1 /\ a.file = 0 /\ a.files = e.files
    BY <1>5, <2>2 DEF FileObject
  <2> HIDE DEF a
  <2>4. a.attempt < kRolloverAttemptFrequency /\ e.attempt # kRolloverAttemptFrequency - 1
    BY <1>5, <2>2, <2>3, Limits
  <2>5. FileInv(a)
    BY <1>2, <2>3, <2>4 DEF FileInv, SizeBound
  <2>6. SameText(f, a) /\ (ClosedFlushed(e) => ClosedFlushed(a))
    <3>1. Positions(a) = Positions(e) /\ Unflushed(a) = Unflushed(e)
      BY <2>3 DEF Positions, Unflushed
    <3>2. \A p : MessageAt(a, p) = MessageAt(e, p)
      BY <2>3 DEF MessageAt
    <3> QED
      BY <1>2, <1>5, <2>3, <3>1, <3>2 DEF SameText, ClosedFlushed
  <2>7. WroteTo(f, env, stop, force, m, r)
    BY <1>2, <2>1, <2>3, <2>5, <2>6, NothingWritten
  <2>8. r.f = a /\ r.lost = "waiting"
    BY <2>1, ResultIs
  <2> HIDE DEF r
  <2>9. f.file = 0 /\ e.attempt = f.attempt
    BY <1>2, <1>5, <2>4
  <2> QED
    BY <2>3, <2>4, <2>7, <2>8, <2>9 DEF r
<1>6. CASE ~Off(f) /\ e.file = 0 /\ a.attempt = kRolloverAttemptFrequency
  <2>1. r = IF c.file = 0 THEN Result(c, stop, "no_file")
            ELSE Output(c, env, stop, force, m)
    BY <1>6 DEF Write
  <2> HIDE DEF e
  <2>2. /\ FileInv(c) /\ SameText(e, c) /\ c.attempt = 0
        /\ ClosedFlushed(e) => ClosedFlushed(c)
        /\ c.file # 0 => Len(c.files[c.file].data) < MaxLogSize
    BY <1>1, <1>2, <1>6, CreatedIs
  <2> HIDE DEF a, c
  <2>3. SameText(f, c) /\ (~env.full /\ ClosedFlushed(f) => ClosedFlushed(c))
    BY <1>2, <2>2 DEF SameText
  <2>4. CASE c.file = 0
    <3>1. r = Result(c, stop, "no_file")
      BY <2>1, <2>4
    <3>2. WroteTo(f, env, stop, force, m, r)
      BY <2>2, <2>3, <2>4, <3>1, NothingWritten
    <3>3. r.f = c /\ r.lost = "no_file"
      BY <3>1, ResultIs
    <3> QED
      BY <2>2, <3>2, <3>3
  <2>5. CASE c.file # 0
    <3>1. r = Output(c, env, stop, force, m)
      BY <2>1, <2>5
    <3> HIDE DEF r
    <3>2. /\ WroteTo(c, env, stop, force, m, r) /\ r.f.file # 0
          /\ r.lost \in {"", "stopped", "full"}
      <4> DEFINE o == Output(c, env, stop, force, m)
      <4>1. WroteTo(c, env, stop, force, m, o) /\ o.f.file # 0
            /\ o.lost \in {"", "stopped", "full"}
        BY ZenonT(40), <2>2, <2>5, OutputIs
      <4> HIDE DEF o
      <4>2. r = o
        BY <3>1 DEF o
      <4> QED
        BY <4>1, <4>2
    <3>3. WroteTo(f, env, stop, force, m, r)
      BY <2>3, <3>2, WrittenAfter
    <3> QED
      BY <3>2, <3>3 DEF r
  <2> QED
    BY <2>4, <2>5
<1> QED
  BY <1>3, <1>4, <1>5, <1>6


-----------------------------------------------------------------------------
(* What became of messages: the outcomes are appended to *)

\* All but the last outcome stay, up to the one that is in question.
Extends(e, out, j) == \A i \in 1 .. j : e[i] = out[i]

LEMMA FailedStays ==
  ASSUME NEW e, NEW out, NEW j \in Nat, Extends(e, out, j), NEW s, NEW n,
         FailedBefore(out, s, j, n)
  PROVE  /\ FailedBefore(e, s, j, n)
         /\ e[j + 1].severity # s \/ e[j + 1].lost = "off" => FailedBefore(e, s, j + 1, n)
<1> DEFINE Since(o, i, k) == {x \in i + 1 .. k : o[x].severity = s}
           Waited(o, i, k) == {x \in Since(o, i, k) : o[x].lost = "waiting"}
<1>1. PICK i \in 1 .. j :
        /\ out[i].lost = "no_file" /\ out[i].severity = s
        /\ \A k \in Since(out, i, j) : out[k].lost \in {"waiting", "off"}
        /\ Cardinality(Waited(out, i, j)) = n
  BY DEF FailedBefore
<1>2. \A k \in i + 1 .. j : e[k] = out[k]
  BY DEF Extends
<1>3. e[i] = out[i]
  BY DEF Extends
<1>4. Since(e, i, j) = Since(out, i, j) /\ Waited(e, i, j) = Waited(out, i, j)
  BY <1>2
<1>5. FailedBefore(e, s, j, n)
  BY <1>1, <1>2, <1>3, <1>4 DEF FailedBefore
<1>6. ASSUME e[j + 1].severity # s \/ e[j + 1].lost = "off"
      PROVE  FailedBefore(e, s, j + 1, n)
  <2>1. \A k : k \in i + 1 .. j + 1 <=> k \in i + 1 .. j \/ k = j + 1
    OBVIOUS
  <2>2. \A k \in Since(e, i, j + 1) : e[k].lost \in {"waiting", "off"}
    BY <1>1, <1>2, <1>6, <2>1
  <2>3. Waited(e, i, j + 1) = Waited(e, i, j)
    BY <1>6, <2>1
  <2>4. i \in 1 .. j + 1
    OBVIOUS
  <2> QED
    BY <1>1, <1>3, <1>4, <2>2, <2>3, <2>4 DEF FailedBefore
<1> QED
  BY <1>5, <1>6

\* One message more has waited.
LEMMA FailedWaits ==
  ASSUME NEW e, NEW out, NEW j \in Nat, Extends(e, out, j), NEW s, NEW n \in Nat,
         FailedBefore(out, s, j, n), e[j + 1].severity = s, e[j + 1].lost = "waiting"
  PROVE  FailedBefore(e, s, j + 1, n + 1)
<1> DEFINE Since(i, k) == {x \in i + 1 .. k : e[x].severity = s}
           Waited(i, k) == {x \in Since(i, k) : e[x].lost = "waiting"}
<1>1. FailedBefore(e, s, j, n)
  BY FailedStays
<1>2. PICK i \in 1 .. j :
        /\ e[i].lost = "no_file" /\ e[i].severity = s
        /\ \A k \in Since(i, j) : e[k].lost \in {"waiting", "off"}
        /\ Cardinality(Waited(i, j)) = n
  BY <1>1 DEF FailedBefore
<1>3. \A k : k \in i + 1 .. j + 1 <=> k \in i + 1 .. j \/ k = j + 1
  OBVIOUS
<1>4. \A k \in Since(i, j + 1) : e[k].lost \in {"waiting", "off"}
  BY <1>2, <1>3
<1>5. Waited(i, j + 1) = Waited(i, j) \cup {j + 1} /\ j + 1 \notin Waited(i, j)
  BY <1>3
<1>6. IsFiniteSet(Waited(i, j))
  <2>1. IsFiniteSet(i + 1 .. j)
    BY FS_Interval
  <2>2. Waited(i, j) \subseteq i + 1 .. j
    OBVIOUS
  <2> HIDE DEF Waited
  <2> QED
    BY <2>1, <2>2, FS_Subset
<1>7. Cardinality(Waited(i, j + 1)) = n + 1
  <2> HIDE DEF Waited
  <2> QED
    BY <1>2, <1>5, <1>6, FS_AddElement
<1>8. i \in 1 .. j + 1
  OBVIOUS
<1> QED
  BY <1>2, <1>4, <1>7, <1>8 DEF FailedBefore

\* None has waited for the attempt that is just made.
LEMMA FailedNow ==
  ASSUME NEW e, NEW j \in Nat, NEW s, e[j + 1].severity = s, e[j + 1].lost = "no_file"
  PROVE  FailedBefore(e, s, j + 1, 0)
<1> DEFINE i == j + 1
           Since == {x \in i + 1 .. j + 1 : e[x].severity = s}
<1>1. i \in 1 .. j + 1 /\ i + 1 .. j + 1 = {}
  OBVIOUS
<1>2. Cardinality({x \in Since : e[x].lost = "waiting"}) = 0 /\ Since = {}
  BY <1>1, FS_EmptySet
<1> QED
  BY <1>1, <1>2 DEF FailedBefore

LEMMA FullStays ==
  ASSUME NEW e, NEW out, NEW j \in Nat, Extends(e, out, j), FullBefore(out, j)
  PROVE  FullBefore(e, j) /\ (~e[j + 1].retried => FullBefore(e, j + 1))
<1>1. PICK i \in 1 .. j : out[i].lost = "full" /\ \A k \in i + 1 .. j : ~out[k].retried
  BY DEF FullBefore
<1>2. e[i] = out[i] /\ \A k \in i + 1 .. j : e[k] = out[k]
  BY DEF Extends
<1>3. \A k : k \in i + 1 .. j + 1 <=> k \in i + 1 .. j \/ k = j + 1
  OBVIOUS
<1>4. i \in 1 .. j + 1
  OBVIOUS
<1> QED
  BY <1>1, <1>2, <1>3, <1>4 DEF FullBefore

LEMMA FullNow ==
  ASSUME NEW e, NEW j \in Nat, e[j + 1].lost = "full"
  PROVE  FullBefore(e, j + 1)
<1>1. j + 1 \in 1 .. j + 1 /\ \A k \in (j + 1) + 1 .. j + 1 : FALSE
  OBVIOUS
<1> QED
  BY <1>1 DEF FullBefore


-----------------------------------------------------------------------------
(* The invariant of the files *)

LEMMA LastInOrder ==
  ASSUME NEW order \in Seq(Nat), NEW m, order # <<>>, order[Len(order)] = m,
         NEW i \in DOMAIN order, order[i] # m
  PROVE  Before(order, order[i], m)
<1>1. /\ Len(order) \in DOMAIN order /\ i \in 1 .. Len(order) /\ Len(order) \in Nat
      /\ i # Len(order)
  OBVIOUS
<1>2. i < Len(order)
  BY <1>1
<1> QED
  BY <1>1, <1>2 DEF Before

LEMMA OutcomesTyped ==
  ASSUME FilesTyped
  PROVE  LET out == history.outcomes
         IN /\ Len(out) \in Nat /\ DOMAIN out = 1 .. Len(out)
            /\ \A k \in DOMAIN out :
                 /\ out[k].severity \in Severities /\ out[k].m \in Nat
                 /\ out[k].lost \in Reasons /\ out[k].retried \in BOOLEAN
<1> DEFINE O == [severity : Severities, m : Nat, lost : Reasons, retried : BOOLEAN]
           out == history.outcomes
<1>1. out \in Seq(O)
  BY DEF FilesTyped
<1> HIDE DEF out, O
<1>2. Len(out) \in Nat /\ DOMAIN out = 1 .. Len(out) /\ \A k \in DOMAIN out : out[k] \in O
  BY <1>1, Entries
<1>3. \A k \in DOMAIN out :
        /\ out[k].severity \in Severities /\ out[k].m \in Nat
        /\ out[k].lost \in Reasons /\ out[k].retried \in BOOLEAN
  BY <1>2 DEF O
<1> QED
  BY <1>2, <1>3 DEF out

\* Steps that leave the files alone.
LEMMA FilesQuiet ==
  ASSUME FilesInv,
         log'.files = log.files, log'.stop_writing = log.stop_writing,
         history'.outcomes = history.outcomes,
         \A a, b : Before(history.order, a, b) => Before(history'.order, a, b),
         \A m : InOrder(m) => InOrder(m)',
         (world.was_full => world'.was_full), (world'.full => world'.was_full),
         Stages',
         \A t \in AllThreads :
           thread'[t].pc \in {"writing", "crashing"} => thread'[t].at \in Severities,
         ~LogToStderr =>
           \A t \in AllThreads : \A s \in Severities :
             HasFlushed(t, s)' => HasFlushed(t, s) /\ thread'[t].m = thread[t].m
  PROVE  FilesInv'
<1> USE DEF FilesInv, LogsKept
<1>1. FilesTyped'
  BY DEF FilesTyped
<1>2. Recorded'
  BY DEF Recorded
<1>3. AttemptsCounted'
  BY DEF AttemptsCounted
<1>4. StoppedByFullDisk'
  BY DEF StoppedByFullDisk
<1>5. OneOrder' /\ Kept' /\ LostForReason' /\ \A s \in Severities : SizeBound(log'.files[s])
  <2>1. OneOrder'
    BY DEF OneOrder
  <2>2. Kept'
    BY DEF Kept
  <2>3. LostForReason'
    BY DEF LostForReason
  <2> QED
    BY <2>1, <2>2, <2>3
<1>6. FlushedInTurn'
  <2> SUFFICES ASSUME ~world'.was_full, NEW s \in Severities
               PROVE  /\ ClosedFlushed(log'.files[s])
                      /\ ~LogToStderr =>
                           \A t \in AllThreads : HasFlushed(t, s)' =>
                             \A p \in Unflushed(log'.files[s]) :
                               Before(history'.order, thread'[t].m,
                                      MessageAt(log'.files[s], p))
    BY DEF FlushedInTurn
  <2>1. ~world.was_full
    OBVIOUS
  <2> QED
    BY <2>1 DEF FlushedInTurn
<1>7. FatalFlushed'
  <2>1. \A t \in AllThreads : \A s \in Severities :
          thread'[t].pc = "failed" => HasFlushed(t, s)'
    BY DEF Stages, HasFlushed
  <2> QED
    BY <1>6, <2>1 DEF FlushedInTurn, FatalFlushed
<1> QED
  BY <1>1, <1>2, <1>3, <1>4, <1>5, <1>6, <1>7

\* Steps that may close or flush files, and do no more.
LEMMA FilesKept ==
  ASSUME FilesInv,
         DOMAIN log'.files = Severities, log'.stop_writing = log.stop_writing,
         \A s \in Severities : Keeps(log.files[s], log'.files[s], world),
         world'.full = world.full, world'.was_full = world.was_full,
         UNCHANGED <<thread, message, history>>
  PROVE  FilesInv'
<1> USE DEF FilesInv, LogsKept
<1>1. \A s \in Severities :
        /\ FileInv(log'.files[s]) /\ SameText(log.files[s], log'.files[s])
        /\ ~world.full /\ ClosedFlushed(log.files[s]) => ClosedFlushed(log'.files[s])
  BY DEF Keeps
<1>2. \A s \in Severities :
        /\ Positions(log'.files[s]) = Positions(log.files[s])
        /\ \A p \in Positions(log.files[s]) :
             MessageAt(log'.files[s], p) = MessageAt(log.files[s], p)
        /\ Unflushed(log'.files[s]) \subseteq Unflushed(log.files[s])
        /\ Unflushed(log'.files[s]) \subseteq Positions(log.files[s])
  BY <1>1 DEF SameText, Unflushed
<1>3. FilesTyped'
  BY <1>1 DEF FilesTyped
<1>4. Stages'
  BY DEF Stages, InOrder, Crashes, SeverityOf
<1>5. Recorded'
  BY <1>2 DEF Recorded, InOrder
<1>6. AttemptsCounted'
  BY DEF AttemptsCounted, Keeps
<1>7. StoppedByFullDisk'
  BY DEF StoppedByFullDisk
<1>8. OneOrder'
  BY <1>2 DEF OneOrder
<1>9. Kept'
  <2>1. \A i \in DOMAIN history.outcomes : history.outcomes[i].severity \in Severities
    BY OutcomesTyped
  <2>2. \A t \in Severities : \A m :
          HasMessage(log'.files[t], m) <=> HasMessage(log.files[t], m)
    BY <1>1, SameHas
  <2> QED
    BY <2>1, <2>2 DEF Kept
<1>10. LostForReason'
  BY DEF LostForReason
<1>11. FlushedInTurn'
  <2> SUFFICES ASSUME ~world.was_full, NEW s \in Severities
               PROVE  /\ ClosedFlushed(log'.files[s])
                      /\ ~LogToStderr =>
                           \A t \in AllThreads : HasFlushed(t, s) =>
                             \A p \in Unflushed(log'.files[s]) :
                               Before(history.order, thread[t].m,
                                      MessageAt(log'.files[s], p))
    BY DEF FlushedInTurn, HasFlushed, Crashes, SeverityOf
  <2>1. ~world.full
    BY DEF StoppedByFullDisk
  <2> QED
    BY <1>1, <1>2, <2>1 DEF FlushedInTurn
<1>12. FatalFlushed'
  <2>1. \A t \in AllThreads : \A s \in Severities :
          thread'[t].pc = "failed" => HasFlushed(t, s)'
    BY <1>4 DEF Stages, HasFlushed
  <2> QED
    BY <1>11, <2>1 DEF FlushedInTurn, FatalFlushed
<1>13. \A s \in Severities : SizeBound(log'.files[s])
  BY <1>1 DEF FileInv
<1> QED
  BY <1>3, <1>4, <1>5, <1>6, <1>7, <1>8, <1>9, <1>10, <1>11, <1>12, <1>13


\* A write of m to the file of severity s, for a message that has not come there, is the
\* last in the order, or is none.
Writes(s, m, force, r) ==
  LET f == log.files[s]
  IN /\ WroteTo(f, world, log.stop_writing, force, m, r)
     /\ r.lost = "waiting" => /\ f.file = 0 /\ f.attempt # kRolloverAttemptFrequency - 1
                              /\ r.f.attempt = f.attempt + 1
     /\ r.f.file = 0 => \/ r.lost = "waiting"
                        \/ r.lost = "no_file" /\ r.f.attempt = 0
                        \/ r.lost = "off" /\ r.f = f
     /\ log'.files = [log.files EXCEPT ![s] = r.f] /\ log'.stop_writing = r.stop
     /\ history'.outcomes = Append(history.outcomes, Outcome(s, m, r))
     /\ history'.order = history.order /\ UNCHANGED world
     /\ m # 0 => /\ history.order # <<>> /\ history.order[Len(history.order)] = m
                 /\ \A k \in DOMAIN history.outcomes :
                      history.outcomes[k].m = m => history.outcomes[k].severity # s

LEMMA OutcomeAdded ==
  ASSUME FilesTyped, NEW s \in Severities, NEW m \in Nat, NEW force, NEW r,
         Writes(s, m, force, r)
  PROVE  LET out == history.outcomes
             e == history'.outcomes
             L == Len(out)
         IN /\ e \in Seq([severity : Severities, m : Nat, lost : Reasons, retried : BOOLEAN])
            /\ L \in Nat /\ DOMAIN out = 1 .. L
            /\ Len(e) = L + 1 /\ DOMAIN e = 1 .. L + 1 /\ Extends(e, out, L)
            /\ \A k \in DOMAIN e : k \in DOMAIN out \/ k = L + 1
            /\ e[L + 1].severity = s /\ e[L + 1].m = m /\ e[L + 1].lost = r.lost
            /\ e[L + 1].retried => r.lost = "stopped" /\ ~r.stop
<1> DEFINE O == [severity : Severities, m : Nat, lost : Reasons, retried : BOOLEAN]
           out == history.outcomes
           e == history'.outcomes
           L == Len(out)
           o == Outcome(s, m, r)
<1>1. /\ o \in O /\ o.severity = s /\ o.m = m /\ o.lost = r.lost
      /\ o.retried => r.lost = "stopped" /\ ~r.stop
  BY DEF Outcome, Writes, WroteTo
<1>2. out \in Seq(O)
  BY DEF FilesTyped
<1>3. e = Append(out, o)
  BY DEF Writes
<1> HIDE DEF o, O, out, e
<1>4. /\ e \in Seq(O) /\ Len(e) = L + 1 /\ e[L + 1] = o
      /\ \A i \in 1 .. L : e[i] = out[i]
  BY <1>1, <1>2, <1>3, AppendIs
<1>5. L \in Nat /\ DOMAIN out = 1 .. L /\ DOMAIN e = 1 .. L + 1
  BY <1>2, <1>4, Entries
<1> HIDE DEF L
<1>6. \A k \in DOMAIN e : k \in DOMAIN out \/ k = L + 1
  BY <1>5
<1> QED
  BY <1>1, <1>4, <1>5, <1>6 DEF L, O, out, e, Extends

\* What it leaves in the files.
LEMMA FilesWritten ==
  ASSUME FilesTyped, StoppedByFullDisk, FlushedInTurn, world.full \in BOOLEAN,
         NEW s \in Severities, NEW m \in Nat, NEW force \in BOOLEAN, NEW r,
         Writes(s, m, force, r)
  PROVE  LET f == log.files[s]
             g == log'.files[s]
         IN /\ DOMAIN log'.files = Severities /\ g = r.f
            /\ \A u \in Severities \ {s} : log'.files[u] = log.files[u]
            /\ \A u \in Severities : FileInv(log'.files[u]) /\ SizeBound(log'.files[u])
            /\ r.lost # "" \/ m = 0 => SameText(f, g)
            /\ r.lost = "" /\ m # 0 => \E q : Added(f, g, q, m)
            /\ ~world.was_full =>
                 /\ \A u \in Severities : ClosedFlushed(log'.files[u])
                 /\ force => Unflushed(g) = {}
<1> DEFINE f == log.files[s]
           g == log'.files[s]
<1>1. DOMAIN log.files = Severities /\ \A u \in Severities : FileInv(log.files[u])
  BY DEF FilesTyped
<1>2. /\ DOMAIN log'.files = Severities /\ g = r.f
      /\ \A u \in Severities \ {s} : log'.files[u] = log.files[u]
  BY <1>1 DEF Writes
<1>3. /\ FileInv(g) /\ (r.lost # "" \/ m = 0 => SameText(f, g))
      /\ r.lost = "" /\ m # 0 => \E q : Added(f, g, q, m)
      /\ ~world.full /\ ClosedFlushed(f) => ClosedFlushed(g)
      /\ force /\ ~world.full /\ ~log.stop_writing /\ ClosedFlushed(f) => Unflushed(g) = {}
  <2> HIDE DEF f, g
  <2>1. WroteTo(f, world, log.stop_writing, force, m, r) /\ g = r.f
    BY <1>2 DEF Writes, f
  <2> QED
    BY <2>1 DEF WroteTo
<1>4. \A u \in Severities : FileInv(log'.files[u])
  BY <1>1, <1>2, <1>3
<1>5. \A u \in Severities : SizeBound(log'.files[u])
  BY <1>4 DEF FileInv
<1>6. ASSUME ~world.was_full
      PROVE  /\ \A u \in Severities : ClosedFlushed(log'.files[u])
             /\ force => Unflushed(g) = {}
  <2>1. ~world.full /\ ~log.stop_writing
    BY <1>6 DEF StoppedByFullDisk
  <2>2. \A u \in Severities : ClosedFlushed(log.files[u])
    BY <1>6 DEF FlushedInTurn
  <2> QED
    BY <1>2, <1>3, <2>1, <2>2
<1> QED
  BY <1>2, <1>3, <1>4, <1>5, <1>6

\* The files have what was written to them, in the order.
LEMMA MessagesWritten ==
  ASSUME SinksInv, FilesInv,
         NEW s \in Severities, NEW m \in Nat, NEW force \in BOOLEAN, NEW r,
         Writes(s, m, force, r)
  PROVE  Recorded' /\ OneOrder' /\ Kept'
<1> DEFINE f == log.files[s]
           g == log'.files[s]
           out == history.outcomes
           e == history'.outcomes
           L == Len(out)
           order == history.order
           new == r.lost = "" /\ m # 0
<1>1. world.full \in BOOLEAN /\ order \in Seq(Nat)
  BY DEF SinksInv, TypeOK
<1>2. /\ \A u \in Severities \ {s} : log'.files[u] = log.files[u]
      /\ ~new => SameText(f, g)
      /\ new => \E q : Added(f, g, q, m)
  <2>1. FilesTyped /\ StoppedByFullDisk /\ FlushedInTurn
    BY DEF FilesInv
  <2> QED
    BY ZenonT(40), <1>1, <2>1, FilesWritten
<1>3. /\ L \in Nat /\ DOMAIN out = 1 .. L /\ DOMAIN e = 1 .. L + 1
      /\ \A k \in DOMAIN out : k \in DOMAIN e /\ e[k] = out[k]
      /\ \A k \in DOMAIN e : k \in DOMAIN out \/ k = L + 1
      /\ L + 1 \in DOMAIN e /\ e[L + 1].severity = s /\ e[L + 1].m = m
      /\ e[L + 1].lost = r.lost
  <2>1. /\ L \in Nat /\ DOMAIN out = 1 .. L /\ DOMAIN e = 1 .. L + 1 /\ Extends(e, out, L)
        /\ \A k \in DOMAIN e : k \in DOMAIN out \/ k = L + 1
        /\ e[L + 1].severity = s /\ e[L + 1].m = m /\ e[L + 1].lost = r.lost
    BY OutcomeAdded DEF FilesInv
  <2> HIDE DEF out, e, L
  <2>2. \A k \in DOMAIN out : k \in DOMAIN e /\ e[k] = out[k]
    BY <2>1 DEF Extends
  <2>3. L + 1 \in DOMAIN e
    BY <2>1
  <2> QED
    BY <2>1, <2>2, <2>3
<1>4. /\ \A k \in DOMAIN out : out[k].severity \in Severities
      /\ m # 0 => \A k \in DOMAIN out : out[k].m = m => out[k].severity # s
      /\ m # 0 => order # <<>> /\ order[Len(order)] = m
      /\ history'.order = order
  BY OutcomesTyped DEF FilesInv, Writes
<1>5. m # 0 => InOrder(m)
  <2>1. order # <<>> => Len(order) \in DOMAIN order
    BY <1>1
  <2> QED
    BY <1>4, <2>1 DEF InOrder
<1>6. \A p \in Positions(f) : \E k \in DOMAIN out :
        out[k].severity = s /\ out[k].m # 0 /\ out[k].m = MessageAt(f, p)
  BY DEF FilesInv, Recorded
<1>7. \A k \in DOMAIN out : out[k].m # 0 => InOrder(out[k].m)
  BY DEF FilesInv, Recorded
<1> HIDE DEF f, out, e, L, order, new
<1>8. \A p \in Positions(f) : m # 0 => MessageAt(f, p) # m /\ Before(order, MessageAt(f, p), m)
  <2> SUFFICES ASSUME NEW p \in Positions(f), m # 0
               PROVE  MessageAt(f, p) # m /\ Before(order, MessageAt(f, p), m)
    OBVIOUS
  <2>1. PICK k \in DOMAIN out :
          out[k].severity = s /\ out[k].m # 0 /\ out[k].m = MessageAt(f, p)
    BY <1>6
  <2>2. InOrder(MessageAt(f, p)) /\ MessageAt(f, p) # m
    BY <1>4, <1>7, <2>1
  <2>3. PICK i \in DOMAIN order : order[i] = MessageAt(f, p)
    BY <2>2 DEF InOrder, order
  <2> QED
    BY <1>1, <1>4, <2>2, <2>3, LastInOrder
<1>9. Recorded'
  <2>1. \A k \in DOMAIN e : e[k].m # 0 => \E i \in DOMAIN history'.order :
                                            history'.order[i] = e[k].m
    <3>1. \A x : InOrder(x) => \E i \in DOMAIN history'.order : history'.order[i] = x
      BY <1>4 DEF InOrder, order
    <3>2. ASSUME NEW k \in DOMAIN e, e[k].m # 0
          PROVE  InOrder(e[k].m)
      BY <1>3, <1>5, <1>7, <3>2
    <3> QED
      BY <3>1, <3>2
  <2>2. ASSUME NEW u \in Severities, NEW p \in Positions(log'.files[u])
        PROVE  \E k \in DOMAIN e : /\ e[k].severity = u /\ e[k].m # 0
                                   /\ e[k].m = MessageAt(log'.files[u], p)
    <3>1. CASE u # s
      <4>1. log'.files[u] = log.files[u]
        BY <1>2, <3>1
      <4>2. \E k \in DOMAIN out : /\ out[k].severity = u /\ out[k].m # 0
                                  /\ out[k].m = MessageAt(log'.files[u], p)
        BY <2>2, <4>1 DEF FilesInv, Recorded, out
      <4> QED
        BY <1>3, <4>2
    <3>2. CASE u = s /\ p \in Positions(f) /\ MessageAt(g, p) = MessageAt(f, p)
      BY <1>3, <1>6, <3>2
    <3>3. CASE u = s /\ new /\ MessageAt(g, p) = m
      BY <1>3, <3>3 DEF new
    <3>4. u = s => \/ p \in Positions(f) /\ MessageAt(g, p) = MessageAt(f, p)
                   \/ new /\ MessageAt(g, p) = m
      BY <1>2 DEF SameText, Added
    <3> QED
      BY <3>1, <3>2, <3>3, <3>4
  <2> QED
    BY <2>1, <2>2 DEF Recorded, InOrder, e
<1>10. OneOrder'
  <2> SUFFICES ASSUME NEW u \in Severities,
                      NEW p \in Positions(log'.files[u]), NEW q \in Positions(log'.files[u]),
                      Earlier(p, q)
               PROVE  Before(order, MessageAt(log'.files[u], p), MessageAt(log'.files[u], q))
    BY <1>4 DEF OneOrder
  <2>0. \A v \in Severities : \A x, y \in Positions(log.files[v]) :
          Earlier(x, y) =>
            Before(order, MessageAt(log.files[v], x), MessageAt(log.files[v], y))
    BY DEF FilesInv, LogsKept, OneOrder, order
  <2>1. CASE u # s
    <3>1. log'.files[u] = log.files[u]
      BY <1>2, <2>1
    <3> QED
      BY <2>0, <3>1
  <2>2. CASE u = s /\ ~new
    <3>1. SameText(f, g)
      BY <1>2, <2>2
    <3> QED
      BY <2>0, <2>2, <3>1 DEF SameText, f
  <2>3. CASE u = s /\ new
    <3>1. PICK x : Added(f, g, x, m)
      BY <1>2, <2>3
    <3>2. CASE q = x
      <4>1. p \in Positions(f) /\ MessageAt(g, p) = MessageAt(f, p) /\ MessageAt(g, q) = m
        BY <2>3, <3>1, <3>2 DEF Added
      <4> QED
        BY <1>8, <2>3, <4>1 DEF new
    <3>3. CASE q # x
      <4>1. /\ p \in Positions(f) /\ MessageAt(g, p) = MessageAt(f, p)
            /\ q \in Positions(f) /\ MessageAt(g, q) = MessageAt(f, q)
        BY <2>3, <3>1, <3>3 DEF Added
      <4> QED
        BY <2>0, <2>3, <4>1 DEF f
    <3> QED
      BY <3>2, <3>3
  <2> QED
    BY <2>1, <2>2, <2>3
<1>11. Kept'
  <2>0. \A k \in DOMAIN out :
          out[k].m # 0 => ((out[k].lost = "") <=> HasMessage(log.files[out[k].severity], out[k].m))
    BY DEF FilesInv, LogsKept, Kept, out
  <2>1. ASSUME NEW x, x # m
        PROVE  HasMessage(g, x) <=> HasMessage(f, x)
    BY <1>2, <2>1 DEF SameText, Added, HasMessage
  <2>2. m # 0 => (HasMessage(g, m) <=> new)
    BY <1>2, <1>8 DEF SameText, Added, HasMessage
  <2>3. ASSUME NEW k \in DOMAIN e, e[k].m # 0
        PROVE  (e[k].lost = "") <=> HasMessage(log'.files[e[k].severity], e[k].m)
    <3>1. CASE k = L + 1
      BY <1>3, <2>2, <2>3, <3>1 DEF new
    <3>2. CASE k \in DOMAIN out /\ out[k].severity # s
      <4>1. log'.files[e[k].severity] = log.files[out[k].severity] /\ e[k] = out[k]
        BY <1>2, <1>3, <1>4, <3>2
      <4> QED
        BY <2>0, <2>3, <3>2, <4>1
    <3>3. CASE k \in DOMAIN out /\ out[k].severity = s
      <4>1. e[k] = out[k] /\ out[k].m # m
        BY <1>3, <1>4, <2>3, <3>3
      <4> QED
        BY <2>0, <2>1, <2>3, <3>3, <4>1 DEF f
    <3> QED
      BY <1>3, <3>1, <3>2, <3>3
  <2> QED
    BY <2>3 DEF Kept, e
<1> QED
  BY <1>9, <1>10, <1>11


\* The reasons for which messages were lost.
LEMMA ReasonsWritten ==
  ASSUME LogFileAssumption, SinksInv, FilesInv,
         NEW s \in Severities, NEW m \in Nat, NEW force \in BOOLEAN, NEW r,
         Writes(s, m, force, r)
  PROVE  AttemptsCounted' /\ StoppedByFullDisk' /\ LostForReason'
<1> DEFINE f == log.files[s]
           g == log'.files[s]
           out == history.outcomes
           e == history'.outcomes
           L == Len(out)
           freq == kRolloverAttemptFrequency
<1>1. world.full \in BOOLEAN /\ world' = world
  BY DEF SinksInv, TypeOK, Writes
<1>2. /\ L \in Nat /\ DOMAIN out = 1 .. L /\ Len(e) = L + 1 /\ Extends(e, out, L)
      /\ \A k \in DOMAIN e : k \in DOMAIN out \/ k = L + 1
      /\ e[L + 1].severity = s /\ e[L + 1].lost = r.lost
      /\ e[L + 1].retried => r.lost = "stopped" /\ ~r.stop
  BY OutcomeAdded DEF FilesInv
<1>3. /\ g = r.f /\ \A u \in Severities \ {s} : log'.files[u] = log.files[u]
      /\ FileInv(g)
  <2>1. FilesTyped /\ StoppedByFullDisk /\ FlushedInTurn
    BY DEF FilesInv
  <2> QED
    BY ZenonT(40), <1>1, <2>1, FilesWritten
<1>4. /\ r.lost = "waiting" => /\ f.file = 0 /\ f.attempt # freq - 1
                               /\ g.attempt = f.attempt + 1
      /\ g.file = 0 => \/ r.lost = "waiting"
                       \/ r.lost = "no_file" /\ g.attempt = 0
                       \/ r.lost = "off" /\ g = f
  <2>1. \A x : x = r.f =>
          /\ r.lost = "waiting" => /\ f.file = 0 /\ f.attempt # freq - 1
                                   /\ x.attempt = f.attempt + 1
          /\ x.file = 0 => \/ r.lost = "waiting"
                           \/ r.lost = "no_file" /\ x.attempt = 0
                           \/ r.lost = "off" /\ x = f
    BY DEF Writes
  <2> HIDE DEF f, g, freq
  <2> QED
    BY <1>3, <2>1
<1>5. /\ log'.stop_writing = r.stop
      /\ r.stop => r.lost = "full" \/ log.stop_writing
      /\ r.lost = "full" => world.full
      /\ r.lost = "stopped" => log.stop_writing
  BY DEF Writes, WroteTo
<1>6. /\ \A u \in Severities :
           log.files[u].file = 0 /\ log.files[u].attempt # freq - 1 =>
             FailedBefore(out, u, L, log.files[u].attempt)
      /\ log.stop_writing => FullBefore(out, L)
      /\ world.full \/ log.stop_writing => world.was_full
  BY DEF FilesInv, AttemptsCounted, StoppedByFullDisk
<1>7. f.attempt \in Nat /\ g.attempt \in Nat /\ g.attempt < freq /\ freq \in Nat
  <2>1. FileInv(f)
    BY DEF FilesInv, FilesTyped
  <2>2. g.attempt < freq
    BY <1>3 DEF FileInv
  <2> HIDE DEF f, g, freq
  <2> QED
    BY <1>3, <2>1, <2>2, FileTyped, Limits DEF freq
<1>8. \A j \in DOMAIN out :
        /\ out[j].lost = "waiting" =>
             \E n \in 0 .. freq - 1 : FailedBefore(out, out[j].severity, j, n)
        /\ out[j].lost = "stopped" => FullBefore(out, j - 1)
  BY DEF FilesInv, LogsKept, LostForReason
<1> HIDE DEF f, g, out, e, L
<1>9. r.lost = "waiting" => FailedBefore(e, s, L + 1, g.attempt)
  BY <1>2, <1>4, <1>6, <1>7, FailedWaits DEF f
<1>10. AttemptsCounted'
  <2>1. ASSUME NEW u \in Severities, log'.files[u].file = 0,
               log'.files[u].attempt # freq - 1
        PROVE  FailedBefore(e, u, L + 1, log'.files[u].attempt)
    <3>1. CASE u # s
      <4>1. FailedBefore(out, u, L, log'.files[u].attempt)
        BY <1>3, <1>6, <2>1, <3>1
      <4> QED
        BY <1>2, <3>1, <4>1, FailedStays
    <3>2. CASE u = s /\ r.lost = "waiting"
      BY <1>9, <3>2 DEF g
    <3>3. CASE u = s /\ r.lost = "no_file" /\ g.attempt = 0
      BY <1>2, <3>3, FailedNow DEF g
    <3>4. CASE u = s /\ r.lost = "off" /\ g = f
      <4>1. FailedBefore(out, u, L, log'.files[u].attempt)
        BY <1>6, <2>1, <3>4 DEF f, g
      <4> QED
        BY <1>2, <3>4, <4>1, FailedStays
    <3> QED
      BY <1>4, <2>1, <3>1, <3>2, <3>3, <3>4 DEF g
  <2> QED
    BY <1>2, <2>1 DEF AttemptsCounted, e
<1>11. StoppedByFullDisk'
  <2>1. r.stop => FullBefore(e, L + 1)
    <3>1. CASE r.lost = "full"
      BY <1>2, <3>1, FullNow
    <3>2. CASE log.stop_writing /\ r.stop
      <4>1. FullBefore(out, L) /\ ~e[L + 1].retried
        BY <1>2, <1>6, <3>2
      <4> QED
        BY <1>2, <4>1, FullStays
    <3> QED
      BY <1>5, <3>1, <3>2
  <2>2. world.full \/ r.stop => world.was_full
    BY <1>5, <1>6
  <2> QED
    BY <1>1, <1>2, <1>5, <2>1, <2>2 DEF StoppedByFullDisk, e
<1>12. LostForReason'
  <2>1. ASSUME NEW j \in DOMAIN out
        PROVE  /\ e[j] = out[j] /\ j \in Nat /\ j - 1 \in Nat
               /\ Extends(e, out, j) /\ Extends(e, out, j - 1)
    BY <1>2 DEF Extends
  <2>2. ASSUME NEW j \in DOMAIN e
        PROVE  /\ e[j].lost = "waiting" =>
                    \E n \in 0 .. freq - 1 : FailedBefore(e, e[j].severity, j, n)
               /\ e[j].lost = "stopped" => FullBefore(e, j - 1)
    <3>1. CASE j = L + 1
      <4>1. r.lost = "waiting" => \E n \in 0 .. freq - 1 : FailedBefore(e, s, j, n)
        BY <1>7, <1>9, <3>1
      <4>2. r.lost = "stopped" => FullBefore(e, L)
        BY <1>2, <1>5, <1>6, FullStays
      <4>3. j - 1 = L
        BY <1>2, <3>1
      <4> QED
        BY <1>2, <3>1, <4>1, <4>2, <4>3
    <3>2. CASE j \in DOMAIN out
      <4>1. e[j].lost = "waiting" =>
              \E n \in 0 .. freq - 1 : FailedBefore(e, e[j].severity, j, n)
        <5>1. ASSUME e[j].lost = "waiting"
              PROVE  \E n \in 0 .. freq - 1 : FailedBefore(out, e[j].severity, j, n)
          BY <1>8, <2>1, <3>2, <5>1
        <5> QED
          BY <2>1, <3>2, <5>1, FailedStays
      <4>2. e[j].lost = "stopped" => FullBefore(e, j - 1)
        BY <1>8, <2>1, <3>2, FullStays
      <4> QED
        BY <4>1, <4>2
    <3> QED
      BY <1>2, <3>1, <3>2
  <2> QED
    BY <2>2 DEF LostForReason, e
<1> QED
  BY <1>10, <1>11, <1>12


LEMMA WriteDone ==
  ASSUME LogFileAssumption, SinksInv, FilesInv, NEW s \in Severities, NEW m \in Nat,
         NEW time \in Nat, NEW force \in BOOLEAN, NEW r,
         r = Write(log.files[s], world, log.stop_writing, force, time, m),
         log'.files = [log.files EXCEPT ![s] = r.f], log'.stop_writing = r.stop,
         history'.outcomes = Append(history.outcomes, Outcome(s, m, r)),
         history'.order = history.order, UNCHANGED world,
         m # 0 => /\ history.order # <<>> /\ history.order[Len(history.order)] = m
                  /\ \A k \in DOMAIN history.outcomes :
                       history.outcomes[k].m = m => history.outcomes[k].severity # s
  PROVE  Writes(s, m, force, r)
<1> DEFINE f == log.files[s]
<1>1. FileInv(f) /\ log.stop_writing \in BOOLEAN
  BY DEF FilesInv, FilesTyped
<1>2. Environment(world)
  BY DEF SinksInv, TypeOK, Environment
<1> HIDE DEF f
<1>3. /\ WroteTo(f, world, log.stop_writing, force, m, r)
      /\ r.lost = "waiting" => /\ f.file = 0 /\ f.attempt # kRolloverAttemptFrequency - 1
                               /\ r.f.attempt = f.attempt + 1
      /\ r.f.file = 0 => \/ r.lost = "waiting"
                         \/ r.lost = "no_file" /\ r.f.attempt = 0
                         \/ r.lost = "off" /\ r.f = f
  <2>1. r = Write(f, world, log.stop_writing, force, time, m)
    BY DEF f
  <2> QED
    BY <1>1, <1>2, <2>1, WriteIs
<1> QED
  BY <1>3 DEF Writes, f

LEMMA FatalIs ==
  ASSUME Stages', FlushedInTurn'
  PROVE  FatalFlushed'
<1>1. \A t \in AllThreads : \A s \in Severities :
        thread'[t].pc = "failed" => HasFlushed(t, s)'
  BY DEF Stages, HasFlushed
<1> QED
  BY <1>1 DEF FlushedInTurn, FatalFlushed

\* Who holds log_mutex is alone among files and sinks, and has the last message.
LEMMA Alone ==
  ASSUME SinksInv, NEW t \in AllThreads, thread[t].pc \in Locked
  PROVE  /\ \A u \in AllThreads \ {t} : thread[u].pc \notin Locked
         /\ thread[t].m \in Nat \ {0} /\ thread[t].m \in 1 .. Len(message)
         /\ history.order # <<>> /\ history.order[Len(history.order)] = thread[t].m
         /\ InOrder(thread[t].m)
<1>1. \A u \in AllThreads \ {t} : thread[u].pc \notin Locked
  BY DEF SinksInv, Holding
<1>2. history.order # <<>> /\ history.order[Len(history.order)] = thread[t].m
      /\ history.order \in Seq(Nat)
  BY DEF SinksInv, Numbered, TypeOK
<1>3. thread[t].m \in 1 .. Len(message)
  BY DEF SinksInv, Numbered, InLog
<1>4. Len(message) \in Nat
  BY DEF SinksInv, TypeOK
<1>5. Len(history.order) \in DOMAIN history.order
  BY <1>2
<1> QED
  BY <1>1, <1>2, <1>3, <1>4, <1>5 DEF InOrder

\* What is written for the message of t comes after all that was flushed for others.
LEMMA FlushedBefore ==
  ASSUME SinksInv, FilesInv, world.alive, NEW t \in AllThreads, thread[t].pc \in Locked,
         NEW u \in AllThreads \ {t}, NEW s \in Severities, HasFlushed(u, s)
  PROVE  Before(history.order, thread[u].m, thread[t].m)
<1>1. thread[u].pc \notin Locked /\ history.order # <<>>
      /\ history.order[Len(history.order)] = thread[t].m
  BY Alone
<1>2. thread[u].pc \in {"waiting", "until_sent"}
  BY <1>1 DEF HasFlushed, SinksInv, Holding, Locked
<1>3. thread[u].m # thread[t].m
  BY <1>2 DEF SinksInv, Numbered, InLog
<1>4. PICK i \in DOMAIN history.order : history.order[i] = thread[u].m
  BY <1>2 DEF FilesInv, Stages, InOrder
<1>5. history.order \in Seq(Nat)
  BY DEF SinksInv, TypeOK
<1> QED
  BY <1>1, <1>3, <1>4, <1>5, LastInOrder

LEMMA WriteFileStep ==
  ASSUME LogMessagesAssumption, SinksInv, FilesInv, world.alive,
         NEW t \in AllThreads, WriteFile(t)
  PROVE  FilesInv'
<1> DEFINE m == thread[t].m
           s == thread[t].at
           force == s > LogBufLevel
           time == message[m].timestamp
           e == history'.outcomes
           L == Len(history.outcomes)
<1>1. PICK r : /\ r = Write(log.files[s], world, log.stop_writing, force, time, m)
               /\ log' = [log EXCEPT !.files[s] = r.f, !.stop_writing = r.stop]
               /\ history' = [history EXCEPT !.outcomes = Append(@, Outcome(s, m, r))]
  BY DEF WriteFile
<1>2. /\ thread[t].pc = "writing" /\ UNCHANGED <<world, message, sinks>>
      /\ Goto(t, IF s = 0 THEN "sending" ELSE "writing", m, IF s = 0 THEN 0 ELSE s - 1)
  BY DEF WriteFile
<1>3. thread[t].pc \in Locked
  BY <1>2 DEF Locked
<1>4. /\ m \in Nat \ {0} /\ m \in 1 .. Len(message) /\ history.order # <<>>
      /\ history.order[Len(history.order)] = m
      /\ \A u \in AllThreads \ {t} : thread[u].pc \notin Locked
  BY <1>3, Alone
<1>5. time \in Nat
  BY <1>4, TimestampTyped DEF SinksInv
<1>6. s \in Severities /\ s \in Nat /\ force \in BOOLEAN
  BY <1>2 DEF FilesInv, FilesTyped, LogMessagesAssumption, Severities
<1>7. \A k \in DOMAIN history.outcomes :
        history.outcomes[k].m = m => history.outcomes[k].severity > s
  BY <1>2 DEF FilesInv, Stages
<1>8. \A k \in DOMAIN history.outcomes : history.outcomes[k].severity \in Nat
  BY OutcomesTyped DEF FilesInv, Severities
<1>9. /\ log'.files = [log.files EXCEPT ![s] = r.f] /\ log'.stop_writing = r.stop
      /\ e = Append(history.outcomes, Outcome(s, m, r))
      /\ history'.order = history.order
  BY <1>1 DEF SinksInv, TypeOK
<1>10. Writes(s, m, force, r)
  <2>1. \A k \in DOMAIN history.outcomes :
          history.outcomes[k].m = m => history.outcomes[k].severity # s
    BY <1>6, <1>7, <1>8
  <2> HIDE DEF m, s, force, time, e
  <2> QED
    BY SMTT(30), <1>1, <1>2, <1>4, <1>5, <1>6, <1>9, <2>1, WriteDone DEF LogMessagesAssumption, e
<1>11. /\ \A u \in AllThreads \ {t} : thread'[u] = thread[u]
       /\ thread'[t] = [pc |-> IF s = 0 THEN "sending" ELSE "writing", m |-> m,
                        at |-> IF s = 0 THEN 0 ELSE s - 1]
  BY <1>2 DEF Goto, SinksInv, TypeOK
<1> HIDE DEF force, time
<1>12. Recorded' /\ OneOrder' /\ Kept'
  BY <1>6, <1>4, <1>10, MessagesWritten
<1>13. AttemptsCounted' /\ StoppedByFullDisk' /\ LostForReason'
  BY <1>6, <1>4, <1>10, ReasonsWritten DEF LogMessagesAssumption
<1>14. /\ DOMAIN log'.files = Severities
       /\ \A u \in Severities \ {s} : log'.files[u] = log.files[u]
       /\ \A u \in Severities : FileInv(log'.files[u]) /\ SizeBound(log'.files[u])
       /\ r.lost # "" \/ m = 0 => SameText(log.files[s], log'.files[s])
       /\ r.lost = "" /\ m # 0 => \E q : Added(log.files[s], log'.files[s], q, m)
       /\ ~world.was_full => \A u \in Severities : ClosedFlushed(log'.files[u])
  <2>1. world.full \in BOOLEAN
    BY DEF SinksInv, TypeOK
  <2>2. FilesTyped /\ StoppedByFullDisk /\ FlushedInTurn /\ m \in Nat
    BY <1>4 DEF FilesInv
  <2> HIDE DEF s, m
  <2> QED
    BY <1>6, <1>10, <2>1, <2>2, FilesWritten
<1>15. /\ e \in Seq([severity : Severities, m : Nat, lost : Reasons, retried : BOOLEAN])
       /\ Extends(e, history.outcomes, L) /\ DOMAIN history.outcomes = 1 .. L
       /\ \A k \in DOMAIN e : k \in DOMAIN history.outcomes \/ k = L + 1
       /\ e[L + 1].severity = s
  <2> HIDE DEF s, m
  <2> QED
    BY <1>4, <1>6, <1>10, OutcomeAdded DEF FilesInv
<1> HIDE DEF s, m, e, L
<1>16. FilesTyped'
  <2>1. log'.stop_writing \in BOOLEAN
    BY <1>10 DEF Writes, WroteTo
  <2>2. ASSUME NEW u \in AllThreads, thread'[u].pc \in {"writing", "crashing"}
        PROVE  thread'[u].at \in Severities
    <3>1. CASE u # t
      BY <1>4, <1>11, <2>2, <3>1 DEF Locked
    <3>2. CASE u = t
      <4>1. s # 0 /\ thread'[t].at = s - 1
        BY <1>11, <2>2, <3>2
      <4> QED
        BY <1>6, <3>2, <4>1 DEF Severities, LogMessagesAssumption
    <3> QED
      BY <3>1, <3>2
  <2> QED
    BY <1>14, <1>15, <2>1, <2>2 DEF FilesTyped, e
<1>17. Stages'
  <2>1. \A x : InOrder(x)' <=> InOrder(x)
    BY <1>9 DEF InOrder
  <2>2. \A x : Crashes(x)' <=> Crashes(x)
    BY <1>2 DEF Crashes, SeverityOf
  <2>3. ASSUME NEW u \in AllThreads \ {t}
        PROVE  /\ thread'[u].pc \notin {"writing", "unlocking", "failed"}
               /\ thread'[u].pc \in {"waiting", "until_sent", "failed"} =>
                    InOrder(thread'[u].m)
    <3>1. thread[u].pc # "failed"
      BY DEF SinksInv, Holding
    <3> QED
      BY <1>4, <1>11, <3>1 DEF Locked, FilesInv, Stages
  <2>4. thread'[t].pc \in {"sending", "writing"}
    BY <1>11
  <2>5. thread'[t].pc = "writing" =>
          \A k \in DOMAIN e : e[k].m = thread'[t].m => e[k].severity > thread'[t].at
    <3> SUFFICES ASSUME thread'[t].pc = "writing", NEW k \in DOMAIN e, e[k].m = m
                 PROVE  e[k].severity > s - 1
      BY <1>11
    <3>1. CASE k \in DOMAIN history.outcomes
      <4>1. e[k] = history.outcomes[k]
        BY <1>15, <3>1 DEF Extends
      <4> QED
        BY <1>6, <1>7, <1>8, <3>1, <4>1
    <3>2. CASE k = L + 1
      BY <1>6, <1>15, <3>2
    <3> QED
      BY <1>15, <3>1, <3>2
  <2> QED
    BY <2>1, <2>2, <2>3, <2>4, <2>5 DEF Stages, e
<1>18. FlushedInTurn'
  <2>1. ASSUME ~world.was_full, ~LogToStderr, NEW x \in Severities, NEW u \in AllThreads,
               HasFlushed(u, x)', NEW p \in Unflushed(log'.files[x])
        PROVE  Before(history.order, thread'[u].m, MessageAt(log'.files[x], p))
    <3>1. u # t
      BY <1>11, <2>1 DEF HasFlushed
    <3>2. thread'[u] = thread[u] /\ HasFlushed(u, x)
      BY <1>2, <1>11, <2>1, <3>1 DEF HasFlushed, Crashes, SeverityOf
    <3>3. \A q \in Unflushed(log.files[x]) :
            Before(history.order, thread[u].m, MessageAt(log.files[x], q))
      BY <2>1, <3>2 DEF FilesInv, FlushedInTurn
    <3>4. Before(history.order, thread[u].m, m)
      BY <1>3, <3>1, <3>2, FlushedBefore DEF m
    <3>5. CASE x # s
      BY <1>14, <2>1, <3>2, <3>3, <3>5
    <3>6. CASE x = s
      <4>1. \/ /\ p \in Unflushed(log.files[x])
               /\ MessageAt(log'.files[x], p) = MessageAt(log.files[x], p)
            \/ MessageAt(log'.files[x], p) = m
        BY <1>14, <2>1, <3>6 DEF SameText, Added, Unflushed
      <4> QED
        BY <3>2, <3>3, <3>4, <4>1
    <3> QED
      BY <3>5, <3>6
  <2> QED
    BY <1>2, <1>9, <1>14, <2>1 DEF FlushedInTurn
<1> QED
  BY <1>12, <1>13, <1>14, <1>16, <1>17, <1>18, FatalIs DEF FilesInv, LogsKept


\* A FATAL message: each file is flushed in turn.
LEMMA FlushAllStep ==
  ASSUME LogMessagesAssumption, SinksInv, FilesInv, world.alive, ~LogToStderr,
         NEW t \in AllThreads, FlushAll(t)
  PROVE  FilesInv'
<1> DEFINE s == thread[t].at
           e == history'.outcomes
           L == Len(history.outcomes)
           pc == IF s = Fatal THEN "waiting" ELSE "crashing"
<1>1. PICK r : /\ r = Write(log.files[s], world, log.stop_writing, TRUE, 0, 0)
               /\ log' = [log EXCEPT !.files[s] = r.f, !.stop_writing = r.stop,
                                     !.mutex = MutexAfter(t, s)]
               /\ history' = [history EXCEPT !.outcomes = Append(@, Outcome(s, 0, r))]
  BY DEF FlushAll
<1>2. /\ thread[t].pc = "crashing" /\ UNCHANGED <<world, message, sinks>>
      /\ Goto(t, pc, thread[t].m, s + 1)
  BY DEF FlushAll
<1>3. thread[t].pc \in Locked
  BY <1>2 DEF Locked
<1>4. InOrder(thread[t].m) /\ \A u \in AllThreads \ {t} : thread[u].pc \notin Locked
  BY <1>3, Alone
<1>5. s \in Severities /\ s \in Nat /\ Fatal \in Nat /\ Severities = 0 .. Fatal
  BY <1>2 DEF FilesInv, FilesTyped, LogMessagesAssumption, Severities
<1>6. /\ log'.files = [log.files EXCEPT ![s] = r.f] /\ log'.stop_writing = r.stop
      /\ e = Append(history.outcomes, Outcome(s, 0, r))
      /\ history'.order = history.order
  <2>1. DOMAIN log = {"mutex", "exclusive", "stop_writing", "crash_reason",
                      "num_messages", "files"}
        /\ DOMAIN history = {"order", "outcomes", "got"}
    BY DEF SinksInv, TypeOK
  <2> HIDE DEF s
  <2> QED
    BY <1>1, <2>1
<1>7. Writes(s, 0, TRUE, r)
  <2> HIDE DEF s, e
  <2> QED
    BY <1>1, <1>2, <1>5, <1>6, WriteDone DEF LogMessagesAssumption, e
<1>8. /\ \A u \in AllThreads \ {t} : thread'[u] = thread[u]
      /\ thread'[t] = [pc |-> pc, m |-> thread[t].m, at |-> s + 1]
  BY <1>2 DEF Goto, SinksInv, TypeOK
<1>9. Recorded' /\ OneOrder' /\ Kept'
  BY <1>5, <1>7, MessagesWritten
<1>10. AttemptsCounted' /\ StoppedByFullDisk' /\ LostForReason'
  BY <1>5, <1>7, ReasonsWritten DEF LogMessagesAssumption
<1>11. /\ DOMAIN log'.files = Severities
       /\ \A u \in Severities \ {s} : log'.files[u] = log.files[u]
       /\ \A u \in Severities : FileInv(log'.files[u]) /\ SizeBound(log'.files[u])
       /\ ~world.was_full => /\ \A u \in Severities : ClosedFlushed(log'.files[u])
                             /\ Unflushed(log'.files[s]) = {}
  <2>1. world.full \in BOOLEAN
    BY DEF SinksInv, TypeOK
  <2>2. FilesTyped /\ StoppedByFullDisk /\ FlushedInTurn
    BY DEF FilesInv
  <2> HIDE DEF s
  <2> QED
    BY <1>5, <1>7, <2>1, <2>2, FilesWritten
<1>12. e \in Seq([severity : Severities, m : Nat, lost : Reasons, retried : BOOLEAN])
  <2> HIDE DEF s
  <2> QED
    BY <1>5, <1>7, OutcomeAdded DEF FilesInv
<1> HIDE DEF s, e
<1>13. FilesTyped'
  <2>1. log'.stop_writing \in BOOLEAN
    BY <1>7 DEF Writes, WroteTo
  <2>2. ASSUME NEW u \in AllThreads, thread'[u].pc \in {"writing", "crashing"}
        PROVE  thread'[u].at \in Severities
    <3>1. CASE u # t
      BY <1>4, <1>8, <2>2, <3>1 DEF Locked
    <3>2. CASE u = t
      <4>1. s # Fatal /\ thread'[t].at = s + 1
        BY <1>8, <2>2, <3>2
      <4> QED
        BY <1>5, <3>2, <4>1
    <3> QED
      BY <3>1, <3>2
  <2> QED
    BY <1>11, <1>12, <2>1, <2>2 DEF FilesTyped, e
<1>14. Stages'
  <2>1. \A x : InOrder(x)' <=> InOrder(x)
    BY <1>6 DEF InOrder
  <2>2. ASSUME NEW u \in AllThreads
        PROVE  /\ thread'[u].pc \notin {"writing", "unlocking", "failed"}
               /\ thread'[u].pc \in {"waiting", "until_sent", "failed"} =>
                    InOrder(thread'[u].m)
    <3>1. CASE u = t
      BY <1>4, <1>8, <3>1
    <3>2. CASE u # t
      <4>1. thread[u].pc # "failed"
        BY DEF SinksInv, Holding
      <4> QED
        BY <1>4, <1>8, <3>2, <4>1 DEF Locked, FilesInv, Stages
    <3> QED
      BY <3>1, <3>2
  <2> QED
    BY <2>1, <2>2 DEF Stages
<1>15. FlushedInTurn'
  <2>1. ASSUME ~world.was_full, NEW x \in Severities, NEW u \in AllThreads,
               HasFlushed(u, x)', NEW p \in Unflushed(log'.files[x])
        PROVE  Before(history.order, thread'[u].m, MessageAt(log'.files[x], p))
    <3>1. x # s
      BY <1>11, <2>1
    <3>2. thread'[u].m = thread[u].m
      BY <1>8
    <3>3. HasFlushed(u, x)
      <4>1. CASE u # t
        BY <1>2, <1>8, <2>1, <4>1 DEF HasFlushed, Crashes, SeverityOf
      <4>2. CASE u = t
        <5>1. x \in 0 .. Fatal /\ x # s /\ (s = Fatal \/ x < s + 1)
          BY <1>5, <1>8, <2>1, <3>1, <4>2 DEF HasFlushed
        <5>2. x < s
          BY <1>5, <5>1
        <5> QED
          BY <1>2, <4>2, <5>2 DEF HasFlushed, s
      <4> QED
        BY <4>1, <4>2
    <3> QED
      BY <1>11, <2>1, <3>1, <3>2, <3>3 DEF FilesInv, FlushedInTurn
  <2> QED
    BY <1>2, <1>6, <1>11, <2>1 DEF FlushedInTurn
<1> QED
  BY <1>9, <1>10, <1>11, <1>13, <1>14, <1>15, FatalIs DEF FilesInv, LogsKept

\* A thread goes on without writing to a file.
LEMMA FilesMove ==
  ASSUME SinksInv, FilesInv, world.alive, NEW t \in AllThreads, NEW pc, NEW m, NEW at,
         Goto(t, pc, m, at),
         log'.files = log.files, log'.stop_writing = log.stop_writing,
         history'.outcomes = history.outcomes, history'.order = history.order,
         message' = message, world'.full = world.full, world'.was_full = world.was_full,
         pc # "writing", pc = "crashing" => at = 0 /\ 0 \in Severities,
         pc = "unlocking" => ~Crashes(m), pc = "failed" => Crashes(m),
         pc \in {"waiting", "until_sent", "failed"} =>
           /\ InOrder(m)
           /\ ~LogToStderr /\ Crashes(m) =>
                thread[t].pc \in {"waiting", "until_sent"} /\ m = thread[t].m
  PROVE  FilesInv'
<1>1. /\ \A u \in AllThreads \ {t} : thread'[u] = thread[u]
      /\ thread'[t] = [pc |-> pc, m |-> m, at |-> at]
  BY DEF Goto, SinksInv, TypeOK
<1>2. \A x : (InOrder(x)' <=> InOrder(x)) /\ (Crashes(x)' <=> Crashes(x))
  BY DEF InOrder, Crashes, SeverityOf
<1>3. Stages'
  <2>1. ASSUME NEW u \in AllThreads
        PROVE  /\ thread'[u].pc = "unlocking" => ~Crashes(thread'[u].m)
               /\ thread'[u].pc = "failed" => Crashes(thread'[u].m)
               /\ thread'[u].pc \in {"waiting", "until_sent", "failed"} =>
                    InOrder(thread'[u].m)
               /\ thread'[u].pc = "writing" =>
                    \A k \in DOMAIN history.outcomes :
                      history.outcomes[k].m = thread'[u].m =>
                        history.outcomes[k].severity > thread'[u].at
    <3>1. CASE u = t
      BY <1>1, <3>1
    <3>2. CASE u # t
      BY <1>1, <3>2 DEF FilesInv, Stages
    <3> QED
      BY <3>1, <3>2
  <2> QED
    BY <1>2, <2>1 DEF Stages
<1>4. \A u \in AllThreads :
        thread'[u].pc \in {"writing", "crashing"} => thread'[u].at \in Severities
  BY <1>1 DEF FilesInv, FilesTyped
<1>5. ASSUME ~LogToStderr, NEW u \in AllThreads, NEW s \in Severities, HasFlushed(u, s)'
      PROVE  HasFlushed(u, s) /\ thread'[u].m = thread[u].m
  <2>1. CASE u # t
    BY <1>1, <1>2, <1>5, <2>1 DEF HasFlushed
  <2>2. CASE u = t
    <3>1. pc = "crashing" => ~(s < at)
      BY DEF Severities
    <3>2. pc \in {"waiting", "until_sent", "failed"} /\ Crashes(m)
      BY <1>1, <1>2, <1>5, <2>2, <3>1 DEF HasFlushed
    <3> QED
      BY <1>1, <1>5, <2>2, <3>2 DEF HasFlushed
  <2> QED
    BY <2>1, <2>2
<1>6. (world'.full => world'.was_full) /\ (world.was_full => world'.was_full)
  BY DEF FilesInv, StoppedByFullDisk
<1>7. /\ \A a, b : Before(history.order, a, b) => Before(history'.order, a, b)
      /\ \A x : InOrder(x) => InOrder(x)'
  BY <1>2
<1> QED
  BY <1>3, <1>4, <1>5, <1>6, <1>7, FilesQuiet


\* A message comes into the order: it is in no file yet.
LEMMA LockFilesStep ==
  ASSUME LogMessagesAssumption, SinksInv, FilesInv, world.alive, NEW t \in AllThreads, Lock(t)
  PROVE  FilesInv'
<1> DEFINE m == thread[t].m
           order == history.order
           pc == CASE message[m].method = "SendToSink" -> "unlocking"
                   [] LogToStderr -> "sending"
                   [] OTHER -> "writing"
           at == SeverityOf(m)
<1>1. /\ thread[t].pc = "locking" /\ Goto(t, pc, m, at)
      /\ UNCHANGED <<world, message, sinks>>
  BY DEF Lock
<1>2. /\ history'.order = Append(order, m) /\ history'.outcomes = history.outcomes
      /\ log'.files = log.files /\ log'.stop_writing = log.stop_writing
  BY DEF Lock, SinksInv, TypeOK
<1>3. /\ m \in 1 .. Len(message) /\ m \in Nat \ {0}
      /\ \A i \in DOMAIN order : order[i] # m
      /\ \A u \in AllThreads \ {t} : thread[u].pc \in InLog => thread[u].m # m
  <2>1. thread[t].pc \in InLog
    BY <1>1 DEF InLog
  <2>2. m \in 1 .. Len(message) /\ Len(message) \in Nat
    BY <2>1 DEF SinksInv, Numbered, TypeOK
  <2>3. \A i \in DOMAIN order : order[i] # m
    BY <1>1 DEF SinksInv, Numbered
  <2>4. \A u \in AllThreads \ {t} : thread[u].pc \in InLog => thread[u].m # m
    BY <2>1 DEF SinksInv, Numbered
  <2>5. m \in Nat \ {0}
    BY <2>2
  <2> QED
    BY <2>2, <2>3, <2>4, <2>5
<1>4. at \in Severities
  BY <1>3, SeverityTyped DEF SinksInv
<1>5. order \in Seq(Nat)
  BY DEF SinksInv, TypeOK
<1>6. /\ \A a, b : Before(order, a, b) => Before(history'.order, a, b)
      /\ \A x : InOrder(x) => InOrder(x)'
  <2> HIDE DEF m, order
  <2>1. /\ \A a, b : Before(order, a, b) => Before(Append(order, m), a, b)
        /\ \A i \in DOMAIN order :
             i \in DOMAIN Append(order, m) /\ Append(order, m)[i] = order[i]
    BY <1>3, <1>5, Appended
  <2>2. ASSUME NEW x, InOrder(x)
        PROVE  InOrder(x)'
    <3>1. PICK i \in DOMAIN order : order[i] = x
      BY <2>2 DEF InOrder, order
    <3>2. i \in DOMAIN history'.order /\ history'.order[i] = x
      BY <1>2, <2>1, <3>1
    <3> QED
      BY <3>2 DEF InOrder
  <2> QED
    BY <1>2, <2>1, <2>2
<1>7. /\ \A u \in AllThreads \ {t} : thread'[u] = thread[u]
      /\ thread'[t] = [pc |-> pc, m |-> m, at |-> at]
  BY <1>1 DEF Goto, SinksInv, TypeOK
<1>8. \A x : Crashes(x)' <=> Crashes(x)
  BY <1>1 DEF Crashes, SeverityOf
<1>9. pc = "unlocking" => ~Crashes(m)
  BY DEF Crashes
<1>10. pc \in {"unlocking", "sending", "writing"}
  OBVIOUS
<1>11. \A k \in DOMAIN history.outcomes : history.outcomes[k].m # m
  BY <1>3 DEF FilesInv, Recorded, InOrder
<1> HIDE DEF pc, m, at, order
<1>12. Stages'
  <2>1. ASSUME NEW u \in AllThreads
        PROVE  /\ thread'[u].pc = "unlocking" => ~Crashes(thread'[u].m)
               /\ thread'[u].pc = "failed" => Crashes(thread'[u].m)
               /\ thread'[u].pc \in {"waiting", "until_sent", "failed"} =>
                    InOrder(thread'[u].m)
               /\ thread'[u].pc = "writing" =>
                    \A k \in DOMAIN history.outcomes :
                      history.outcomes[k].m = thread'[u].m =>
                        history.outcomes[k].severity > thread'[u].at
    <3>1. CASE u = t
      BY <1>7, <1>9, <1>10, <1>11, <3>1
    <3>2. CASE u # t
      BY <1>7, <3>2 DEF FilesInv, Stages
    <3> QED
      BY <3>1, <3>2
  <2> QED
    BY <1>2, <1>6, <1>8, <2>1 DEF Stages
<1>13. \A u \in AllThreads :
         thread'[u].pc \in {"writing", "crashing"} => thread'[u].at \in Severities
  BY <1>4, <1>7 DEF FilesInv, FilesTyped
<1>14. \A u \in AllThreads : \A s \in Severities :
         HasFlushed(u, s)' => HasFlushed(u, s) /\ thread'[u].m = thread[u].m
  <2> SUFFICES ASSUME NEW u \in AllThreads, NEW s \in Severities, HasFlushed(u, s)'
               PROVE  HasFlushed(u, s) /\ thread'[u].m = thread[u].m
    OBVIOUS
  <2>1. u # t
    BY <1>7, <1>10 DEF HasFlushed
  <2> QED
    BY <1>7, <1>8, <2>1 DEF HasFlushed
<1>15. (world'.full => world'.was_full) /\ (world.was_full => world'.was_full)
  BY <1>1 DEF FilesInv, StoppedByFullDisk
<1> QED
  BY <1>2, <1>6, <1>12, <1>13, <1>14, <1>15, FilesQuiet DEF order

\* A message is made: the others keep their severity.
LEMMA CreateFilesStep ==
  ASSUME LogMessagesAssumption, SinksInv, FilesInv, world.alive, NEW t \in AllThreads,
         NEW severity \in Severities, NEW method, Create(t, severity, method)
  PROVE  FilesInv'
<1> DEFINE M == message'
           n == Len(message)
<1>1. /\ Goto(t, "locking", n + 1, 0) /\ UNCHANGED <<world, sinks, history>>
      /\ log'.files = log.files /\ log'.stop_writing = log.stop_writing
  BY DEF Create, SinksInv, TypeOK
<1>2. \A k \in 1 .. n : M[k] = message[k]
  <2> DEFINE D == [severity : Severities, method : Methods \cup {"SendToLog"},
                   timestamp : Nat, first_fatal : BOOLEAN]
             d == [severity |-> severity, method |-> method, timestamp |-> world.now,
                   first_fatal |-> severity = Fatal /\ log.exclusive]
  <2>1. message \in Seq(D)
    BY DEF SinksInv, TypeOK
  <2>2. M = Append(message, d)
    BY DEF Create
  <2> HIDE DEF D, d, M
  <2> QED
    BY <2>1, <2>2
<1>3. /\ \A u \in AllThreads \ {t} : thread'[u] = thread[u]
      /\ thread'[t] = [pc |-> "locking", m |-> n + 1, at |-> 0]
  BY <1>1 DEF Goto, SinksInv, TypeOK
<1>4. \A x \in 1 .. n : Crashes(x)' <=> Crashes(x)
  BY <1>2 DEF Crashes, SeverityOf
<1>5. \A x : InOrder(x)' <=> InOrder(x)
  BY <1>1 DEF InOrder
<1>6. \A u \in AllThreads :
        thread[u].pc \notin {"idle", "popped"} => thread[u].pc # "failed" /\ thread[u].m \in 1 .. n
  BY DEF SinksInv, TypeOK, Holding, Numbered
<1> HIDE DEF M, n
<1>7. Stages'
  <2>1. ASSUME NEW u \in AllThreads
        PROVE  /\ thread'[u].pc \notin {"failed", "unlocking"}
                    \/ /\ thread[u].pc = "unlocking" /\ thread'[u] = thread[u]
                       /\ thread[u].m \in 1 .. n /\ ~Crashes(thread[u].m)
               /\ thread'[u].pc \in {"waiting", "until_sent", "failed"} =>
                    InOrder(thread'[u].m)
               /\ thread'[u].pc = "writing" =>
                    \A k \in DOMAIN history.outcomes :
                      history.outcomes[k].m = thread'[u].m =>
                        history.outcomes[k].severity > thread'[u].at
    <3>1. CASE u = t
      BY <1>3, <3>1
    <3>2. CASE u # t
      <4>1. thread[u].pc # "failed"
        BY <1>6
      <4> QED
        BY <1>3, <1>6, <3>2, <4>1 DEF FilesInv, Stages
    <3> QED
      BY <3>1, <3>2
  <2> QED
    BY <1>1, <1>4, <1>5, <2>1 DEF Stages
<1>8. \A u \in AllThreads :
        thread'[u].pc \in {"writing", "crashing"} => thread'[u].at \in Severities
  BY <1>3 DEF FilesInv, FilesTyped
<1>9. \A u \in AllThreads : \A s \in Severities :
        HasFlushed(u, s)' => HasFlushed(u, s) /\ thread'[u].m = thread[u].m
  <2> SUFFICES ASSUME NEW u \in AllThreads, NEW s \in Severities, HasFlushed(u, s)'
               PROVE  HasFlushed(u, s) /\ thread'[u].m = thread[u].m
    OBVIOUS
  <2>1. u # t
    BY <1>3 DEF HasFlushed
  <2>2. thread'[u] = thread[u] /\ (thread[u].pc \notin {"idle", "popped"} => thread[u].m \in 1 .. n)
    BY <1>3, <1>6, <2>1
  <2> QED
    BY <1>4, <2>2 DEF HasFlushed
<1>10. (world'.full => world'.was_full) /\ (world.was_full => world'.was_full)
  BY <1>1 DEF FilesInv, StoppedByFullDisk
<1>11. /\ \A a, b : Before(history.order, a, b) => Before(history'.order, a, b)
       /\ \A x : InOrder(x) => InOrder(x)'
  BY <1>1, <1>5
<1> QED
  BY <1>1, <1>7, <1>8, <1>9, <1>10, <1>11, FilesQuiet


\* What a thread in LOG does to the files.
LEMMA LoggingFilesStep ==
  ASSUME LogMessagesAssumption, SinksInv, FilesInv, world.alive, NEW t \in AllThreads,
         Logging(t)
  PROVE  FilesInv'
<1> DEFINE m == thread[t].m
<1>1. 0 \in Severities
  BY DEF LogMessagesAssumption, Severities
<1>2. DOMAIN log = {"mutex", "exclusive", "stop_writing", "crash_reason", "num_messages",
                    "files"}
      /\ DOMAIN history = {"order", "outcomes", "got"}
      /\ DOMAIN world = {"now", "full", "was_full", "alive", "ops"}
  BY DEF SinksInv, TypeOK
<1>3. CASE Lock(t)
  BY <1>3, LockFilesStep
<1>4. CASE WriteFile(t)
  BY <1>4, WriteFileStep
<1>5. CASE LogToSinks(t)
  <2>1. Goto(t, "sink", m, Len(sinks.list)) /\ UNCHANGED <<world, message, log, history>>
    BY <1>5 DEF LogToSinks, Read
  <2> QED
    BY <2>1, FilesMove
<1>6. CASE Send(t)
  <2>1. /\ Goto(t, "sink", m, thread[t].at - 1) /\ UNCHANGED <<world, message, log>>
        /\ history'.order = history.order /\ history'.outcomes = history.outcomes
    BY <1>2, <1>6 DEF Send
  <2> QED
    BY <2>1, FilesMove
<1>7. CASE SentToAll(t)
  <2> DEFINE pc == IF Crashes(m) THEN "crashing" ELSE "unlocking"
  <2>1. /\ Goto(t, pc, m, 0) /\ UNCHANGED <<world, message, history>>
        /\ log'.files = log.files /\ log'.stop_writing = log.stop_writing
    BY <1>2, <1>7 DEF SentToAll
  <2>2. pc \in {"crashing", "unlocking"} /\ (pc = "unlocking" => ~Crashes(m))
    OBVIOUS
  <2> HIDE DEF pc
  <2> QED
    BY <1>1, <2>1, <2>2, FilesMove
<1>8. CASE FlushAll(t) /\ ~LogToStderr
  BY <1>8, FlushAllStep
<1>9. CASE FlushAll(t) /\ LogToStderr
  <2>1. /\ Goto(t, "waiting", m, thread[t].at + 1) /\ UNCHANGED <<world, message, history>>
        /\ log'.files = log.files /\ log'.stop_writing = log.stop_writing
    BY <1>2, <1>9 DEF FlushAll
  <2>2. InOrder(m)
    <3>1. thread[t].pc \in Locked
      BY <1>9 DEF FlushAll, Locked
    <3> QED
      BY <3>1, Alone
  <2> QED
    BY <1>9, <2>1, <2>2, FilesMove
<1>10. CASE Unlock(t)
  <2>1. /\ Goto(t, "waiting", m, 0) /\ UNCHANGED <<world, message, history>>
        /\ log'.files = log.files /\ log'.stop_writing = log.stop_writing
        /\ thread[t].pc = "unlocking"
    BY <1>2, <1>10 DEF Unlock
  <2>2. InOrder(m)
    <3>1. thread[t].pc \in Locked
      BY <2>1 DEF Locked
    <3> QED
      BY <3>1, Alone
  <2>3. ~Crashes(m)
    BY <2>1 DEF FilesInv, Stages
  <2> QED
    BY <2>1, <2>2, <2>3, FilesMove
<1>11. CASE WaitForSinks(t)
  <2>1. /\ Goto(t, "until_sent", m, Len(sinks.list)) /\ thread[t].pc = "waiting"
        /\ UNCHANGED <<world, message, log, history>>
    BY <1>11 DEF WaitForSinks, Read
  <2>2. InOrder(m)
    BY <2>1 DEF FilesInv, Stages
  <2> QED
    BY <2>1, <2>2, FilesMove
<1>12. CASE WaitTillSent(t)
  <2>1. /\ Goto(t, "until_sent", m, thread[t].at - 1) /\ thread[t].pc = "until_sent"
        /\ UNCHANGED <<world, message, log, history>>
    BY <1>12 DEF WaitTillSent
  <2>2. InOrder(m)
    BY <2>1 DEF FilesInv, Stages
  <2> QED
    BY <2>1, <2>2, FilesMove
<1>13. CASE Return(t)
  <2>1. /\ Goto(t, IF Crashes(m) THEN "failed" ELSE "idle", IF Crashes(m) THEN m ELSE 0, 0)
        /\ thread[t].pc = "until_sent" /\ UNCHANGED <<message, log, history>>
        /\ world'.full = world.full /\ world'.was_full = world.was_full
    BY <1>2, <1>13 DEF Return
  <2>2. InOrder(m)
    BY <2>1 DEF FilesInv, Stages
  <2>3. CASE Crashes(m)
    <3>1. Goto(t, "failed", m, 0)
      BY <2>1, <2>3
    <3> QED
      BY <2>1, <2>2, <2>3, <3>1, FilesMove
  <2>4. CASE ~Crashes(m)
    <3>1. Goto(t, "idle", 0, 0)
      BY <2>1, <2>4
    <3> QED
      BY <2>1, <3>1, FilesMove
  <2> QED
    BY <2>3, <2>4
<1> QED
  BY <1>3, <1>4, <1>5, <1>6, <1>7, <1>8, <1>9, <1>10, <1>11, <1>12, <1>13 DEF Logging

\* The operations on the destinations.
LEMMA DestinationsStep ==
  ASSUME LogMessagesAssumption, SinksInv, FilesInv,
         \/ \E s \in Severities, name \in Basenames : SetLogDestination(s, name)
         \/ \E ext \in Extensions : SetLogFilenameExtension(ext)
         \/ \E s \in Severities : FlushLogFiles(s)
  PROVE  FilesInv'
<1>1. /\ DOMAIN log = {"mutex", "exclusive", "stop_writing", "crash_reason", "num_messages",
                       "files"}
      /\ DOMAIN world = {"now", "full", "was_full", "alive", "ops"}
      /\ Environment(world)
  BY DEF SinksInv, TypeOK, Environment
<1>2. DOMAIN log.files = Severities /\ \A s \in Severities : FileInv(log.files[s])
  BY DEF FilesInv, FilesTyped
<1>3. LogFileAssumption /\ Basenames \subseteq Text /\ Extensions \subseteq Text
  BY DEF LogMessagesAssumption
<1>4. Operation => world'.full = world.full /\ world'.was_full = world.was_full
  BY <1>1 DEF Operation
<1>5. ASSUME NEW s \in Severities, NEW name \in Basenames, SetLogDestination(s, name)
      PROVE  FilesInv'
  <2>1. /\ log' = [log EXCEPT !.files[s] = SetBasename(log.files[s], world, name)]
        /\ Operation /\ UNCHANGED <<thread, message, history>>
    BY <1>5 DEF SetLogDestination
  <2>2. /\ log'.files = [log.files EXCEPT ![s] = SetBasename(log.files[s], world, name)]
        /\ log'.stop_writing = log.stop_writing
    BY <1>1, <2>1
  <2>3. Keeps(log.files[s], SetBasename(log.files[s], world, name), world)
    BY <1>1, <1>2, <1>3, SetBasenameKeeps
  <2>4. \A u \in Severities : Keeps(log.files[u], log.files[u], world)
    BY <1>2, KeepsItself
  <2>5. /\ DOMAIN log'.files = Severities
        /\ \A u \in Severities : Keeps(log.files[u], log'.files[u], world)
    BY <1>2, <2>2, <2>3, <2>4
  <2> QED
    BY <1>4, <2>1, <2>2, <2>5, FilesKept
<1>6. ASSUME NEW ext \in Extensions, SetLogFilenameExtension(ext)
      PROVE  FilesInv'
  <2>1. /\ log' = [log EXCEPT !.files = [u \in Severities |->
                                           SetExtension(log.files[u], world, ext)]]
        /\ Operation /\ UNCHANGED <<thread, message, history>>
    BY <1>6 DEF SetLogFilenameExtension
  <2>2. /\ log'.files = [u \in Severities |-> SetExtension(log.files[u], world, ext)]
        /\ log'.stop_writing = log.stop_writing
    BY <1>1, <2>1
  <2>3. \A u \in Severities :
          Keeps(log.files[u], SetExtension(log.files[u], world, ext), world)
    BY <1>1, <1>2, <1>3, SetExtensionKeeps
  <2>4. /\ DOMAIN log'.files = Severities
        /\ \A u \in Severities : Keeps(log.files[u], log'.files[u], world)
    BY <2>2, <2>3
  <2> QED
    BY <1>4, <2>1, <2>2, <2>4, FilesKept
<1>7. ASSUME NEW s \in Severities, FlushLogFiles(s)
      PROVE  FilesInv'
  <2>1. /\ log' = [log EXCEPT !.files = [u \in Severities |->
                                           IF u < s THEN log.files[u]
                                           ELSE FlushUnlocked(log.files[u], world)]]
        /\ Operation /\ UNCHANGED <<thread, message, history>>
    BY <1>7 DEF FlushLogFiles
  <2>2. /\ log'.files = [u \in Severities |-> IF u < s THEN log.files[u]
                                              ELSE FlushUnlocked(log.files[u], world)]
        /\ log'.stop_writing = log.stop_writing
    BY <1>1, <2>1
  <2>3. \A u \in Severities :
          /\ Keeps(log.files[u], FlushUnlocked(log.files[u], world), world)
          /\ Keeps(log.files[u], log.files[u], world)
    BY <1>1, <1>2, <1>3, KeepsItself, FlushUnlockedKeeps
  <2>4. /\ DOMAIN log'.files = Severities
        /\ \A u \in Severities : Keeps(log.files[u], log'.files[u], world)
    BY <2>2, <2>3
  <2> QED
    BY <1>4, <2>1, <2>2, <2>4, FilesKept
<1> QED
  BY <1>5, <1>6, <1>7

\* No thread moves, and the files stay as they are.
LEMMA FilesStay ==
  ASSUME FilesInv, UNCHANGED <<thread, message, log, history>>,
         (world.was_full => world'.was_full), (world'.full => world'.was_full)
  PROVE  FilesInv'
<1>1. \A x : (InOrder(x) => InOrder(x)') /\ (Crashes(x)' <=> Crashes(x))
  BY DEF InOrder, Crashes, SeverityOf
<1>2. Stages'
  BY DEF FilesInv, Stages, InOrder, Crashes, SeverityOf
<1>3. \A t \in AllThreads : \A s \in Severities :
        HasFlushed(t, s)' => HasFlushed(t, s) /\ thread'[t].m = thread[t].m
  BY DEF HasFlushed, Crashes, SeverityOf
<1>4. \A t \in AllThreads :
        thread'[t].pc \in {"writing", "crashing"} => thread'[t].at \in Severities
  BY DEF FilesInv, FilesTyped
<1> QED
  BY <1>1, <1>2, <1>3, <1>4, FilesQuiet

LEMMA FilesStep ==
  ASSUME LogMessagesAssumption, SinksInv, FilesInv, [Next]_logVars
  PROVE  FilesInv'
<1>1. 0 \in Severities /\ Owner \in AllThreads /\ Writer \in AllThreads
      /\ Threads \subseteq AllThreads
  BY DEF LogMessagesAssumption, AllThreads, Severities
<1>2. DOMAIN world = {"now", "full", "was_full", "alive", "ops"}
  BY DEF SinksInv, TypeOK
<1>3. world.full => world.was_full
  BY DEF FilesInv, StoppedByFullDisk
<1>4. CASE UNCHANGED logVars
  BY <1>3, <1>4, FilesStay DEF logVars
<1>5. ASSUME world.alive, NEW t \in Threads, NEW s \in Severities, NEW method \in Methods,
             Create(t, s, method)
      PROVE  FilesInv'
  BY <1>1, <1>5, CreateFilesStep
<1>6. CASE world.alive /\ Create(Writer, 0, "SendToLog")
  BY <1>1, <1>6, CreateFilesStep
<1>7. CASE world.alive /\ Pop
  <2>1. Goto(Writer, "popped", 0, 0) /\ UNCHANGED <<world, message, log, history>>
    BY <1>7 DEF Pop
  <2> QED
    BY <1>1, <1>7, <2>1, FilesMove
<1>8. ASSUME world.alive, NEW t \in AllThreads, Logging(t)
      PROVE  FilesInv'
  BY <1>8, LoggingFilesStep
<1>9. ASSUME \/ \E s \in Severities, name \in Basenames : SetLogDestination(s, name)
             \/ \E ext \in Extensions : SetLogFilenameExtension(ext)
             \/ \E s \in Severities : FlushLogFiles(s)
      PROVE  FilesInv'
  BY <1>9, DestinationsStep
<1>10. ASSUME NEW t \in Threads, NEW sink \in Sinks,
              AddLogSink(t, sink) \/ RemoveLogSink(t, sink)
       PROVE  FilesInv'
  <2>1. world'.full = world.full /\ world'.was_full = world.was_full
        /\ UNCHANGED <<thread, message, log, history>>
    BY <1>2, <1>10 DEF AddLogSink, RemoveLogSink, Operation
  <2> QED
    BY <1>3, <2>1, FilesStay
<1>11. CASE Tick \/ Disk
  <2>1. /\ \/ world'.full = world.full /\ world'.was_full = world.was_full
           \/ world'.was_full = TRUE
        /\ UNCHANGED <<thread, message, log, history>>
    BY <1>2, <1>11 DEF Tick, Disk
  <2> QED
    BY <1>3, <2>1, FilesStay
<1> QED
  BY <1>4, <1>5, <1>6, <1>7, <1>8, <1>9, <1>10, <1>11 DEF Next

LEMMA FilesInit ==
  ASSUME LogMessagesAssumption, Init
  PROVE  FilesInv
<1>1. /\ \A t \in AllThreads : thread[t] = [pc |-> "idle", m |-> 0, at |-> 0]
      /\ history.outcomes = <<>> /\ log.stop_writing = FALSE
      /\ world.full = FALSE /\ world.was_full = FALSE
      /\ log.files = [s \in Severities |-> NewLogFile]
  BY DEF Init
<1>2. FileInv(NewLogFile) /\ NewLogFile.files = <<>>
      /\ NewLogFile.attempt = kRolloverAttemptFrequency - 1
  <2>1. /\ kRolloverAttemptFrequency - 1 \in Nat
        /\ kRolloverAttemptFrequency - 1 < kRolloverAttemptFrequency
    BY Limits DEF LogMessagesAssumption
  <2> DEFINE a == kRolloverAttemptFrequency - 1
             f == [selected |-> FALSE, name |-> "", ext |-> "", file |-> 0,
                   files |-> <<>>, length |-> 0, since_flush |-> 0, attempt |-> a,
                   next_flush_time |-> 0]
  <2>2. f = NewLogFile
    BY DEF NewLogFile
  <2>3. a \in Nat /\ a < kRolloverAttemptFrequency
    BY <2>1
  <2> HIDE DEF a
  <2>4. f \in FileObject
    <3>1. <<>> \in Seq(OneFile)
      OBVIOUS
    <3>2. "" \in Text
      BY DEF Text
    <3>3. FALSE \in BOOLEAN /\ 0 \in Nat
      OBVIOUS
    <3> HIDE DEF OneFile
    <3> QED
      BY <2>3, <3>1, <3>2, <3>3 DEF FileObject
  <2>5. f.files = <<>> /\ f.attempt = a /\ f.file = 0
    OBVIOUS
  <2> HIDE DEF f
  <2>6. DOMAIN f.files = {}
    BY <2>5
  <2> QED
    BY <2>2, <2>3, <2>4, <2>5, <2>6 DEF FileInv, SizeBound, a
<1>3. Positions(NewLogFile) = {} /\ Unflushed(NewLogFile) = {}
  BY <1>2 DEF Positions, Unflushed
<1>4. FilesTyped
  <2>1. \A S : <<>> \in Seq(S)
    OBVIOUS
  <2>2. DOMAIN log.files = Severities /\ \A s \in Severities : FileInv(log.files[s])
    BY <1>1, <1>2
  <2>3. \A t \in AllThreads : thread[t].pc \notin {"writing", "crashing"}
    BY <1>1
  <2> QED
    BY <1>1, <2>1, <2>2, <2>3 DEF FilesTyped
<1>5. Stages
  BY <1>1 DEF Stages
<1>6. Recorded
  BY <1>1, <1>3 DEF Recorded
<1>7. AttemptsCounted
  BY <1>1, <1>2 DEF AttemptsCounted
<1>8. StoppedByFullDisk
  BY <1>1 DEF StoppedByFullDisk
<1>9. FlushedInTurn
  BY <1>1, <1>3 DEF FlushedInTurn, ClosedFlushed
<1>10. LogsKept
  <2>1. OneOrder /\ Kept /\ LostForReason
    BY <1>1, <1>3 DEF OneOrder, Kept, LostForReason
  <2>2. FatalFlushed
    BY <1>1 DEF FatalFlushed
  <2>3. \A s \in Severities : SizeBound(log.files[s])
    BY <1>1, <1>2 DEF FileInv
  <2> QED
    BY <2>1, <2>2, <2>3 DEF LogsKept
<1> QED
  BY <1>4, <1>5, <1>6, <1>7, <1>8, <1>9, <1>10 DEF FilesInv

\* logging.cc, class LogFileObject: the files and their buffers, what was recorded of each
\* message, and what the counter of attempts and stop_writing stand for, in every state.
THEOREM FilesInvariant ==
  ASSUME LogMessagesAssumption
  PROVE  Spec => [](SinksInv /\ FilesInv)
<1>1. Init => SinksInv /\ FilesInv
  BY SinksInit, FilesInit
<1>2. SinksInv /\ FilesInv /\ [Next]_logVars => (SinksInv /\ FilesInv)'
  BY SinksStep, FilesStep
<1> QED
  BY <1>1, <1>2, PTL DEF Spec

\* logging.cc, LogMessage::Flush: every file has its messages in the order of log_mutex, each
\* once and none without a reason lost, the last ones before a FATAL message flushed, and no
\* file is longer than the limit.
THEOREM MessagesKept ==
  ASSUME LogMessagesAssumption
  PROVE  Spec => []LogsKept
<1>1. FilesInv => LogsKept
  BY DEF FilesInv
<1> QED
  BY <1>1, FilesInvariant, PTL

-----------------------------------------------------------------------------
(* Locks: MutexLocks *)

\* The operators on finite sets are the same in the instance.
LEMMA SameCounts ==
  /\ \A S : Mutex!IsFiniteSet(S) <=> IsFiniteSet(S)
  /\ \A S : Mutex!Cardinality(S) = Cardinality(S)
<1>1. \A S : Mutex!IsFiniteSet(S) <=> IsFiniteSet(S)
  BY DEF Mutex!IsFiniteSet, IsFiniteSet
<1>2. \A S : Mutex!Cardinality(S) = Cardinality(S)
  BY DEF Mutex!Cardinality, Cardinality
<1> QED
  BY <1>1, <1>2

\* A lock object comes into the innermost scope.
LEMMA ScopeBegins ==
  ASSUME Mutex!TypeOK, MaxNested \in Nat \ {0}, NEW t \in Threads, Len(scopes[t]) < MaxNested,
         NEW lock \in Mutex!Lock, scopes' = [scopes EXCEPT ![t] = Append(@, lock)]
  PROVE  /\ scopes' \in [Threads -> Seq(Mutex!Lock)]
         /\ \A u \in Threads : Len(scopes'[u]) <= MaxNested
         /\ \A u \in Threads : \A i \in DOMAIN scopes'[u] :
              scopes'[u][i] = lock \/ (i \in DOMAIN scopes[u] /\ scopes'[u][i] = scopes[u][i])
         /\ \A mode :
              /\ <<t, Len(scopes[t]) + 1>> \notin Mutex!Holders(mode)
              /\ Mutex!Holders(mode)' =
                   IF lock.counted /\ lock.mode = mode
                     THEN Mutex!Holders(mode) \cup {<<t, Len(scopes[t]) + 1>>} ELSE Mutex!Holders(mode)
<1> DEFINE n == Len(scopes[t])
           stack == Append(scopes[t], lock)
<1>1. scopes[t] \in Seq(Mutex!Lock) /\ n \in Nat /\ DOMAIN scopes[t] = 1 .. n
  BY DEF Mutex!TypeOK
<1>2. /\ stack \in Seq(Mutex!Lock) /\ Len(stack) = n + 1 /\ DOMAIN stack = 1 .. n + 1
      /\ \A i \in 1 .. n : stack[i] = scopes[t][i]
      /\ stack[n + 1] = lock
  BY <1>1
<1> HIDE DEF stack
<1>3. /\ scopes' \in [Threads -> Seq(Mutex!Lock)] /\ scopes'[t] = stack
      /\ \A u \in Threads : u # t => scopes'[u] = scopes[u]
  BY <1>2 DEF Mutex!TypeOK, stack
<1>4. \A u \in Threads : Len(scopes'[u]) <= MaxNested
  BY <1>1, <1>2, <1>3 DEF Mutex!TypeOK
<1>5. \A u \in Threads : \A i \in DOMAIN scopes'[u] :
        scopes'[u][i] = lock \/ (i \in DOMAIN scopes[u] /\ scopes'[u][i] = scopes[u][i])
  BY <1>1, <1>2, <1>3
<1>6. ASSUME NEW mode
      PROVE  /\ <<t, n + 1>> \notin Mutex!Holders(mode)
             /\ Mutex!Holders(mode)' =
                  IF lock.counted /\ lock.mode = mode
                    THEN Mutex!Holders(mode) \cup {<<t, n + 1>>} ELSE Mutex!Holders(mode)
  <2>1. <<t, n + 1>> \notin Mutex!Holders(mode)
    BY <1>1 DEF Mutex!Holders
  <2>2. ASSUME NEW u \in Threads, NEW i \in 1 .. MaxNested
        PROVE  <<u, i>> \in Mutex!Holders(mode)' <=>
                 \/ <<u, i>> \in Mutex!Holders(mode)
                 \/ u = t /\ i = n + 1 /\ lock.counted /\ lock.mode = mode
    BY <1>1, <1>2, <1>3 DEF Mutex!Holders
  <2>3. <<t, n + 1>> \in Threads \X (1 .. MaxNested)
    BY <1>1
  <2>4. /\ Mutex!Holders(mode) \subseteq Threads \X (1 .. MaxNested)
        /\ Mutex!Holders(mode)' \subseteq Threads \X (1 .. MaxNested)
    BY DEF Mutex!Holders
  <2>5. ASSUME NEW p \in Threads \X (1 .. MaxNested)
        PROVE  p \in Mutex!Holders(mode)' <=>
                 p \in Mutex!Holders(mode) \/ (p = <<t, n + 1>> /\ lock.counted /\ lock.mode = mode)
    <3>1. PICK u \in Threads, i \in 1 .. MaxNested : p = <<u, i>>
      OBVIOUS
    <3>2. <<u, i>> = <<t, n + 1>> <=> u = t /\ i = n + 1
      OBVIOUS
    <3> QED
      BY <2>2, <3>1, <3>2
  <2> HIDE DEF n
  <2> QED
    BY <2>1, <2>3, <2>4, <2>5
<1> QED
  BY <1>3, <1>4, <1>5, <1>6

\* The innermost scope ends.
LEMMA ScopeEnds ==
  ASSUME Mutex!TypeOK, MaxNested \in Nat \ {0}, NEW t \in Threads, scopes[t] # <<>>,
         scopes' = [scopes EXCEPT ![t] = SubSeq(@, 1, Len(@) - 1)]
  PROVE  LET n == Len(scopes[t])
             top == scopes[t][n]
         IN  /\ top \in Mutex!Lock /\ n \in DOMAIN scopes[t] /\ n \in 1 .. MaxNested
             /\ scopes' \in [Threads -> Seq(Mutex!Lock)]
             /\ \A u \in Threads : Len(scopes'[u]) <= MaxNested
             /\ \A u \in Threads : \A i \in DOMAIN scopes'[u] :
                  i \in DOMAIN scopes[u] /\ scopes'[u][i] = scopes[u][i]
             /\ \A mode : /\ Mutex!Holders(mode)' = Mutex!Holders(mode) \ {<<t, n>>}
                          /\ <<t, n>> \in Mutex!Holders(mode) <=> top.counted /\ top.mode = mode
<1> DEFINE n == Len(scopes[t])
           top == scopes[t][n]
           rest == SubSeq(scopes[t], 1, n - 1)
<1>1. scopes[t] \in Seq(Mutex!Lock) /\ n \in Nat \ {0} /\ DOMAIN scopes[t] = 1 .. n /\ n <= MaxNested
  BY DEF Mutex!TypeOK
<1>2. top \in Mutex!Lock /\ n \in DOMAIN scopes[t] /\ n \in 1 .. MaxNested
  BY <1>1
<1>3. /\ rest \in Seq(Mutex!Lock) /\ Len(rest) = n - 1 /\ DOMAIN rest = 1 .. n - 1
      /\ \A i \in 1 .. n - 1 : rest[i] = scopes[t][i]
  BY <1>1
<1> HIDE DEF rest
<1>4. /\ scopes' \in [Threads -> Seq(Mutex!Lock)] /\ scopes'[t] = rest
      /\ \A u \in Threads : u # t => scopes'[u] = scopes[u]
  BY <1>3 DEF Mutex!TypeOK, rest
<1>5. \A u \in Threads : Len(scopes'[u]) <= MaxNested
  BY <1>1, <1>3, <1>4 DEF Mutex!TypeOK
<1>6. \A u \in Threads : \A i \in DOMAIN scopes'[u] :
        i \in DOMAIN scopes[u] /\ scopes'[u][i] = scopes[u][i]
  BY <1>1, <1>3, <1>4
<1>7. ASSUME NEW mode
      PROVE  /\ Mutex!Holders(mode)' = Mutex!Holders(mode) \ {<<t, n>>}
             /\ <<t, n>> \in Mutex!Holders(mode) <=> top.counted /\ top.mode = mode
  <2>1. <<t, n>> \in Mutex!Holders(mode) <=> top.counted /\ top.mode = mode
    BY <1>2 DEF Mutex!Holders
  <2>2. ASSUME NEW u \in Threads, NEW i \in 1 .. MaxNested
        PROVE  <<u, i>> \in Mutex!Holders(mode)' <=> <<u, i>> \in Mutex!Holders(mode) /\ ~(u = t /\ i = n)
    <3>1. u # t => scopes'[u] = scopes[u]
      BY <1>4
    <3>2. /\ i \in 1 .. n - 1 <=> i \in 1 .. n /\ i # n
          /\ i \in DOMAIN rest <=> i \in DOMAIN scopes[t] /\ i # n
          /\ i \in DOMAIN rest => rest[i] = scopes[t][i]
      BY <1>1, <1>3
    <3> HIDE DEF n
    <3> QED
      BY <1>4, <3>1, <3>2 DEF Mutex!Holders
  <2> QED
    BY <2>1, <2>2 DEF Mutex!Holders
<1> QED
  BY <1>2, <1>4, <1>5, <1>6, <1>7

-----------------------------------------------------------------------------
(* Locks: the steps *)

\* A thread that holds the mutex is one of its holders, and the other way round.
LEMMA HoldsIsHolder ==
  ASSUME Mutex!TypeOK, MaxNested \in Nat \ {0}, NEW t \in Threads
  PROVE  Mutex!Holds(t) <=> \E p \in Mutex!Holders("writer") \cup Mutex!Holders("reader") : p[1] = t
<1>1. \A i \in DOMAIN scopes[t] : scopes[t][i] \in Mutex!Lock /\ i \in 1 .. MaxNested
  BY DEF Mutex!TypeOK
<1>2. ASSUME NEW i \in DOMAIN scopes[t], scopes[t][i].counted
      PROVE  \E p \in Mutex!Holders("writer") \cup Mutex!Holders("reader") : p[1] = t
  <2>1. scopes[t][i].mode \in {"reader", "writer"}
    BY <1>1 DEF Mutex!Lock
  <2>2. <<t, i>> \in Mutex!Holders(scopes[t][i].mode)
    BY <1>1, <1>2 DEF Mutex!Holders
  <2> QED
    BY <2>1, <2>2
<1>3. ASSUME NEW p \in Mutex!Holders("writer") \cup Mutex!Holders("reader"), p[1] = t PROVE Mutex!Holds(t)
  BY <1>3 DEF Mutex!Holders, Mutex!Holds
<1> QED
  BY <1>2, <1>3 DEF Mutex!Holds

\* What the counter says of the holders.
LEMMA CountSays ==
  ASSUME Mutex!MutexInv, ~mutex.failed, Mutex!Counts
  PROVE  /\ mutex.count \in Int
         /\ mutex.count = 0 <=> Mutex!Holders("writer") = {} /\ Mutex!Holders("reader") = {}
         /\ mutex.count > 0 <=> Mutex!Holders("writer") = {} /\ Mutex!Holders("reader") # {}
         /\ mutex.count < 0 <=> Mutex!Holders("writer") # {}
         /\ Mutex!Holders("writer") = {} => mutex.count = Cardinality(Mutex!Holders("reader"))
         /\ Mutex!Holders("writer") # {} => mutex.count = -Cardinality(Mutex!Holders("writer"))
<1> DEFINE W == Mutex!Holders("writer")
           R == Mutex!Holders("reader")
<1>1. mutex.count = IF W # {} THEN -Cardinality(W) ELSE Cardinality(R)
  BY SameCounts DEF Mutex!MutexInv, Mutex!LocksRight, Mutex!HeldRight
<1>2. IsFiniteSet(W) /\ IsFiniteSet(R)
  BY SameCounts DEF Mutex!MutexInv, Mutex!FiniteHolders
<1> HIDE DEF W, R
<1>3. /\ Cardinality(W) \in Nat /\ (Cardinality(W) = 0 <=> W = {})
      /\ Cardinality(R) \in Nat /\ (Cardinality(R) = 0 <=> R = {})
  BY SameCounts, <1>2, FS_CardinalityType, FS_EmptySet
<1>4. CASE W = {}
  BY <1>1, <1>3, <1>4 DEF W, R
<1>5. CASE W # {}
  BY <1>1, <1>3, <1>5 DEF W, R
<1> QED
  BY <1>4, <1>5

\* Where locks are shared a reader and a writer do not hold it together.
LEMMA NeverBoth ==
  ASSUME Mutex!MutexInv
  PROVE  Mutex!Holders("writer") = {} \/ Mutex!Holders("reader") = {}
<1> SUFFICES ASSUME NEW p \in Mutex!Holders("writer"), NEW q \in Mutex!Holders("reader") PROVE FALSE
  OBVIOUS
<1>1. p # q
  BY DEF Mutex!Holders
<1>2. mutex.build = "CRITICAL_SECTION"
  BY <1>1 DEF Mutex!MutexInv, Mutex!LocksRight, Mutex!WriterAlone
<1>3. q[1] \in Threads /\ q[2] \in DOMAIN scopes[q[1]] /\ scopes[q[1]][q[2]].mode = "reader"
  BY DEF Mutex!Holders
<1> QED
  BY <1>2, <1>3 DEF Mutex!MutexInv, Mutex!ModesRight, Mutex!Mode

\* A reader counts up, a writer down.
LEMMA CountMoves ==
  ASSUME mutex \in [build : Builds, is_safe : BOOLEAN, count : Int, failed : BOOLEAN],
         ~mutex.failed, NEW t, NEW mode \in {"reader", "writer"}, Mutex!Enter(t, mode)
  PROVE  /\ mutex' \in [build : Builds, is_safe : BOOLEAN, count : Int, failed : BOOLEAN]
         /\ mutex'.build = mutex.build
         /\ mutex'.is_safe <=> mutex.is_safe
         /\ ~mutex'.failed
         /\ Mutex!Counts /\ mode = "reader" => mutex'.count = mutex.count + 1
         /\ Mutex!Counts /\ mode = "writer" => mutex'.count = mutex.count - 1
<1>1. CASE ~Mutex!Counts
  BY <1>1 DEF Mutex!Enter
<1>2. CASE Mutex!Counts /\ mode = "reader"
  BY <1>2 DEF Mutex!Enter
<1>3. CASE Mutex!Counts /\ mode = "writer"
  BY <1>3 DEF Mutex!Enter
<1> QED
  BY <1>1, <1>2, <1>3

\* A lock is taken, or the operation does nothing.
LEMMA LockEnterStep ==
  ASSUME Mutex!MutexInv, Mutex!MutexAssumption, NEW t \in Threads, NEW mode \in {"reader", "writer"},
         mode = Mutex!Mode(mode), Mutex!Asks(t), ~Mutex!Counts \/ Mutex!FreeFor(t, mode), Mutex!Enter(t, mode)
  PROVE  Mutex!MutexInv'
<1> USE DEF Mutex!MutexInv
<1> DEFINE lock == [mode |-> mode, counted |-> Mutex!Counts]
           new == <<t, Len(scopes[t]) + 1>>
<1>1. /\ ~mutex.failed /\ Len(scopes[t]) < MaxNested /\ MaxNested \in Nat \ {0}
      /\ scopes' = [scopes EXCEPT ![t] = Append(@, lock)]
  BY DEF Mutex!Asks, Mutex!Runs, Mutex!Enter, Mutex!MutexAssumption
<1>2. /\ lock \in Mutex!Lock /\ lock.mode = mode
      /\ lock.counted <=> Mutex!Counts
  BY DEF Mutex!Lock, Mutex!Counts, Mutex!TypeOK
<1>3. /\ mutex' \in [build : Builds, is_safe : BOOLEAN, count : Int, failed : BOOLEAN]
      /\ mutex'.build = mutex.build
      /\ mutex'.is_safe <=> mutex.is_safe
      /\ ~mutex'.failed
      /\ Mutex!Counts /\ mode = "reader" => mutex'.count = mutex.count + 1
      /\ Mutex!Counts /\ mode = "writer" => mutex'.count = mutex.count - 1
  BY <1>1, CountMoves DEF Mutex!Enter, Mutex!TypeOK
<1>4. Mutex!Counts' <=> Mutex!Counts
  BY <1>3 DEF Mutex!Counts
<1> HIDE DEF lock
<1>5. /\ scopes' \in [Threads -> Seq(Mutex!Lock)]
      /\ \A u \in Threads : Len(scopes'[u]) <= MaxNested
      /\ \A u \in Threads : \A i \in DOMAIN scopes'[u] :
           scopes'[u][i] = lock \/ (i \in DOMAIN scopes[u] /\ scopes'[u][i] = scopes[u][i])
  BY <1>1, <1>2, ScopeBegins
<1>6. \A m : /\ new \notin Mutex!Holders(m)
             /\ Mutex!Holders(m)' = IF lock.counted /\ lock.mode = m THEN Mutex!Holders(m) \cup {new}
                                    ELSE Mutex!Holders(m)
  BY <1>1, <1>2, ScopeBegins
<1> HIDE DEF new
<1>7. Mutex!TypeOK'
  <2>1. taken' \in Nat
    BY DEF Mutex!Asks, Mutex!TypeOK
  <2> QED
    BY <1>3, <1>5, <2>1 DEF Mutex!TypeOK
<1>8. Mutex!CountedAlike'
  BY <1>2, <1>4, <1>5 DEF Mutex!CountedAlike
<1>9. Mutex!ModesRight'
  BY <1>2, <1>3, <1>5 DEF Mutex!ModesRight, Mutex!Mode
<1>10. Mutex!FailsByNesting'
  BY <1>3 DEF Mutex!FailsByNesting
<1>11. CASE ~Mutex!Counts
  <2>1. Mutex!Holders("writer")' = Mutex!Holders("writer") /\ Mutex!Holders("reader")' = Mutex!Holders("reader")
    BY <1>2, <1>6, <1>11
  <2> QED
    BY <1>3, <1>4, <1>7, <1>8, <1>9, <1>10, <1>11, <2>1
       DEF Mutex!LocksRight, Mutex!HeldRight, Mutex!WriterAlone, Mutex!FiniteHolders
<1>12. CASE Mutex!Counts /\ mode = "reader"
  <2>1. Mutex!Holders("writer")' = Mutex!Holders("writer") /\ Mutex!Holders("reader")' = Mutex!Holders("reader") \cup {new}
    BY <1>2, <1>6, <1>12
  <2>2. Mutex!Holders("writer") = {} /\ mutex.count = Cardinality(Mutex!Holders("reader"))
    <3>1. mutex.build # "CRITICAL_SECTION"
      BY <1>12 DEF Mutex!Mode
    <3>2. mutex.count >= 0
      BY <1>1, <1>12, <3>1, CountSays DEF Mutex!FreeFor
    <3> QED
      BY <1>1, <1>12, <3>2, CountSays
  <2>3. /\ IsFiniteSet(Mutex!Holders("reader")')
        /\ Cardinality(Mutex!Holders("reader")') = Cardinality(Mutex!Holders("reader")) + 1
    BY SameCounts, <1>6, <2>1, FS_AddElement DEF Mutex!FiniteHolders
  <2>4. mutex'.count = Cardinality(Mutex!Holders("reader")')
    BY <1>3, <1>12, <2>2, <2>3
  <2> QED
    BY SameCounts, <1>7, <1>8, <1>9, <1>10, <2>1, <2>2, <2>3, <2>4
       DEF Mutex!LocksRight, Mutex!HeldRight, Mutex!WriterAlone, Mutex!FiniteHolders
<1>13. CASE Mutex!Counts /\ mode = "writer"
  <2>1. Mutex!Holders("writer")' = Mutex!Holders("writer") \cup {new} /\ Mutex!Holders("reader")' = Mutex!Holders("reader")
    BY <1>2, <1>6, <1>13
  <2>2. \/ Mutex!Holders("writer") = {} /\ Mutex!Holders("reader") = {} /\ mutex.count = 0
        \/ mutex.build = "CRITICAL_SECTION" /\ Mutex!Holds(t)
    BY <1>1, <1>13, CountSays DEF Mutex!FreeFor
  <2>3. /\ Mutex!Holders("reader") = {} /\ mutex.count = -Cardinality(Mutex!Holders("writer"))
        /\ \A p \in Mutex!Holders("writer") : p[1] = t /\ mutex.build = "CRITICAL_SECTION"
    <3>1. CASE Mutex!Holders("writer") = {} /\ Mutex!Holders("reader") = {} /\ mutex.count = 0
      <4>1. Cardinality({}) = 0
        BY SameCounts, FS_EmptySet
      <4> QED
        BY <3>1, <4>1
    <3>2. CASE mutex.build = "CRITICAL_SECTION" /\ Mutex!Holds(t)
      <4>1. Mutex!Holders("reader") = {}
        BY <3>2 DEF Mutex!Holders, Mutex!ModesRight, Mutex!Mode
      <4>2. PICK p \in Mutex!Holders("writer") : p[1] = t
        BY <1>1, <3>2, <4>1, HoldsIsHolder
      <4>3. mutex.count = -Cardinality(Mutex!Holders("writer"))
        BY <1>1, <1>13, <4>2, CountSays
      <4>4. \A q \in Mutex!Holders("writer") : q[1] = t
        BY <4>2 DEF Mutex!LocksRight, Mutex!WriterAlone
      <4> QED
        BY <3>2, <4>1, <4>3, <4>4
    <3> QED
      BY <2>2, <3>1, <3>2
  <2>4. /\ IsFiniteSet(Mutex!Holders("writer")')
        /\ Cardinality(Mutex!Holders("writer")') = Cardinality(Mutex!Holders("writer")) + 1
        /\ Cardinality(Mutex!Holders("writer")) \in Nat
    BY SameCounts, <1>6, <2>1, FS_AddElement, FS_CardinalityType DEF Mutex!FiniteHolders
  <2>5. mutex'.count = -Cardinality(Mutex!Holders("writer")')
    <3>1. mutex'.count = mutex.count - 1
      BY <1>3, <1>13
    <3> QED
      BY <2>3, <2>4, <3>1
  <2>6. Mutex!WriterAlone'
    <3>1. new[1] = t
      BY DEF new
    <3> QED
      BY <1>3, <2>1, <2>3, <3>1 DEF Mutex!WriterAlone
  <2>7. Mutex!HeldRight'
    BY SameCounts, <2>1, <2>5 DEF Mutex!HeldRight
  <2> QED
    BY SameCounts, <1>7, <1>8, <1>9, <1>10, <2>1, <2>4, <2>6, <2>7
       DEF Mutex!LocksRight, Mutex!FiniteHolders
<1> QED
  BY <1>11, <1>12, <1>13

\* An assertion, or pthread_rwlock, stops a thread that would wait for itself.
LEMMA FailStep ==
  ASSUME Mutex!MutexInv, Mutex!MutexAssumption, NEW t \in Threads, NEW mode \in {"reader", "writer"},
         Mutex!LockFails(t, mode)
  PROVE  Mutex!MutexInv'
<1> USE DEF Mutex!MutexInv
<1>1. /\ ~mutex.failed /\ Mutex!Counts /\ ~Mutex!FreeFor(t, Mutex!Mode(mode)) /\ MaxNested \in Nat \ {0}
      /\ mutex' = [mutex EXCEPT !.failed = TRUE] /\ UNCHANGED scopes
  BY DEF Mutex!LockFails, Mutex!Asks, Mutex!Runs, Mutex!MutexAssumption
<1>2. taken' \in Nat
  BY DEF Mutex!LockFails, Mutex!Asks, Mutex!TypeOK
<1>3. /\ mutex' \in [build : Builds, is_safe : BOOLEAN, count : Int, failed : BOOLEAN]
      /\ mutex'.build = mutex.build /\ mutex'.is_safe = mutex.is_safe
      /\ mutex'.count = mutex.count /\ mutex'.failed
  BY <1>1 DEF Mutex!TypeOK
<1>4. Mutex!TypeOK' /\ Mutex!CountedAlike' /\ Mutex!ModesRight'
  BY <1>1, <1>2, <1>3
     DEF Mutex!TypeOK, Mutex!CountedAlike, Mutex!ModesRight, Mutex!Mode, Mutex!Counts
<1>5. Mutex!Holders("writer")' = Mutex!Holders("writer") /\ Mutex!Holders("reader")' = Mutex!Holders("reader")
  BY <1>1 DEF Mutex!Holders
<1>6. Mutex!FiniteHolders' /\ Mutex!HeldRight' /\ Mutex!WriterAlone'
  BY SameCounts, <1>3, <1>5
     DEF Mutex!FiniteHolders, Mutex!LocksRight, Mutex!HeldRight, Mutex!WriterAlone
<1>7. Mutex!FailsByNesting'
  <2>1. mutex.count # 0
    BY <1>1 DEF Mutex!FreeFor
  <2>2. PICK p \in Mutex!Holders("writer") \cup Mutex!Holders("reader") : TRUE
    BY <1>1, <2>1, CountSays
  <2>3. p[1] \in Threads
    BY DEF Mutex!Holders
  <2>4. Mutex!Holds(p[1])
    BY <1>1, <2>3, HoldsIsHolder
  <2>5. Mutex!Holds(p[1])'
    BY <1>1, <2>4 DEF Mutex!Holds
  <2> QED
    BY <1>3, <2>1, <2>3, <2>5 DEF Mutex!FailsByNesting
<1> QED
  BY <1>4, <1>6, <1>7 DEF Mutex!LocksRight

\* A scope ends with the operation that its lock began with, and that fits.
LEMMA EndStep ==
  ASSUME Mutex!MutexInv, Mutex!MutexAssumption, NEW t \in Threads, Mutex!EndOfScope(t)
  PROVE  Mutex!MutexInv'
<1> USE DEF Mutex!MutexInv
<1> DEFINE n == Len(scopes[t])
           top == scopes[t][n]
           old == <<t, n>>
           fits == IF top.mode = "reader" THEN mutex.count > 0 ELSE mutex.count < 0
<1>1. /\ ~mutex.failed /\ scopes[t] # <<>> /\ MaxNested \in Nat \ {0}
      /\ scopes' = [scopes EXCEPT ![t] = SubSeq(@, 1, Len(@) - 1)]
      /\ UNCHANGED taken
  BY DEF Mutex!EndOfScope, Mutex!MutexAssumption
<1>2. /\ top \in Mutex!Lock /\ n \in DOMAIN scopes[t]
      /\ scopes' \in [Threads -> Seq(Mutex!Lock)]
      /\ \A u \in Threads : Len(scopes'[u]) <= MaxNested
      /\ \A u \in Threads : \A i \in DOMAIN scopes'[u] :
           i \in DOMAIN scopes[u] /\ scopes'[u][i] = scopes[u][i]
  BY <1>1, ScopeEnds
<1>3. /\ Mutex!Holders("reader")' = Mutex!Holders("reader") \ {old}
      /\ old \in Mutex!Holders("reader") <=> top.counted /\ top.mode = "reader"
      /\ Mutex!Holders("writer")' = Mutex!Holders("writer") \ {old}
      /\ old \in Mutex!Holders("writer") <=> top.counted /\ top.mode = "writer"
  BY <1>1, ScopeEnds
<1>4. /\ top.counted <=> Mutex!Counts
      /\ top.mode = "reader" \/ top.mode = "writer"
  BY <1>2 DEF Mutex!CountedAlike, Mutex!Lock
<1>5. mutex' = IF ~Mutex!Counts THEN mutex
               ELSE IF ~fits THEN [mutex EXCEPT !.failed = TRUE]
               ELSE [mutex EXCEPT !.count = IF top.mode = "reader" THEN @ - 1 ELSE @ + 1]
  BY DEF Mutex!EndOfScope
<1>6. Mutex!Counts => fits
  <2> SUFFICES ASSUME Mutex!Counts PROVE fits
    OBVIOUS
  <2>1. CASE top.mode = "reader"
    <3>1. Mutex!Holders("reader") # {} /\ Mutex!Holders("writer") = {}
      BY <1>3, <1>4, <2>1, NeverBoth
    <3> QED
      BY <1>1, <2>1, <3>1, CountSays
  <2>2. CASE top.mode = "writer"
    <3>1. Mutex!Holders("writer") # {}
      BY <1>3, <1>4, <2>2
    <3> QED
      BY <1>1, <2>2, <3>1, CountSays
  <2> QED
    BY <1>4, <2>1, <2>2
<1> HIDE DEF top, old, fits
<1>7. /\ mutex' \in [build : Builds, is_safe : BOOLEAN, count : Int, failed : BOOLEAN]
      /\ mutex'.build = mutex.build
      /\ mutex'.is_safe <=> mutex.is_safe
      /\ ~mutex'.failed
      /\ Mutex!Counts /\ top.mode = "reader" => mutex'.count = mutex.count - 1
      /\ Mutex!Counts /\ top.mode = "writer" => mutex'.count = mutex.count + 1
  <2>1. mutex \in [build : Builds, is_safe : BOOLEAN, count : Int, failed : BOOLEAN]
    BY DEF Mutex!TypeOK
  <2>2. CASE ~Mutex!Counts
    BY <1>1, <1>5, <2>1, <2>2
  <2>3. CASE Mutex!Counts /\ top.mode = "reader"
    BY <1>1, <1>5, <1>6, <2>1, <2>3
  <2>4. CASE Mutex!Counts /\ top.mode = "writer"
    BY <1>1, <1>5, <1>6, <2>1, <2>4
  <2> QED
    BY <1>4, <2>2, <2>3, <2>4
<1>8. Mutex!Counts' <=> Mutex!Counts
  BY <1>7 DEF Mutex!Counts
<1>9. Mutex!TypeOK' /\ Mutex!FailsByNesting'
  BY <1>1, <1>2, <1>7 DEF Mutex!TypeOK, Mutex!FailsByNesting
<1>10. Mutex!CountedAlike'
  BY <1>2, <1>8 DEF Mutex!CountedAlike
<1>11. Mutex!ModesRight'
  BY <1>2, <1>7 DEF Mutex!ModesRight, Mutex!Mode
<1>12. Mutex!FiniteHolders'
  BY SameCounts, <1>3, FS_RemoveElement DEF Mutex!FiniteHolders
<1>13. Mutex!WriterAlone'
  BY <1>3, <1>7 DEF Mutex!LocksRight, Mutex!WriterAlone
<1>14. Mutex!HeldRight'
  <2> SUFFICES ASSUME Mutex!Counts
               PROVE  mutex'.count = IF Mutex!Holders("writer")' # {} THEN -Cardinality(Mutex!Holders("writer")')
                                     ELSE Cardinality(Mutex!Holders("reader")')
    BY SameCounts, <1>7, <1>8 DEF Mutex!HeldRight
  <2>1. CASE top.mode = "reader"
    <3>1. /\ old \in Mutex!Holders("reader") /\ Mutex!Holders("writer") = {} /\ Mutex!Holders("writer")' = {}
      BY <1>3, <1>4, <2>1, NeverBoth
    <3>2. mutex.count = Cardinality(Mutex!Holders("reader"))
      BY <1>1, <3>1, CountSays
    <3>3. /\ Cardinality(Mutex!Holders("reader")) \in Nat
          /\ Cardinality(Mutex!Holders("reader")') = Cardinality(Mutex!Holders("reader")) - 1
      BY SameCounts, <1>3, <3>1, FS_RemoveElement, FS_CardinalityType DEF Mutex!FiniteHolders
    <3> QED
      BY <1>7, <2>1, <3>1, <3>2, <3>3
  <2>2. CASE top.mode = "writer"
    <3>1. old \in Mutex!Holders("writer") /\ Mutex!Holders("reader") = {} /\ Mutex!Holders("reader")' = {}
      BY <1>3, <1>4, <2>2, NeverBoth
    <3>2. mutex.count = -Cardinality(Mutex!Holders("writer"))
      BY <1>1, <3>1, CountSays
    <3>3. /\ Cardinality(Mutex!Holders("writer")) \in Nat
          /\ Cardinality(Mutex!Holders("writer")') = Cardinality(Mutex!Holders("writer")) - 1
      BY SameCounts, <1>3, <3>1, FS_RemoveElement, FS_CardinalityType DEF Mutex!FiniteHolders
    <3>4. Cardinality({}) = 0
      BY SameCounts, FS_EmptySet
    <3>5. CASE Mutex!Holders("writer")' = {}
      <4>1. Cardinality(Mutex!Holders("writer")) = 1
        BY <3>3, <3>4, <3>5
      <4>2. mutex'.count = 0
        BY <1>7, <2>2, <3>2, <4>1
      <4>3. Cardinality(Mutex!Holders("reader")') = 0
        BY <3>1, <3>4
      <4> QED
        BY <3>5, <4>2, <4>3
    <3>6. CASE Mutex!Holders("writer")' # {}
      BY <1>7, <2>2, <3>2, <3>3, <3>6
    <3> QED
      BY <3>5, <3>6
  <2> QED
    BY <1>4, <2>1, <2>2
<1> QED
  BY <1>9, <1>10, <1>11, <1>12, <1>13, <1>14 DEF Mutex!LocksRight

\* The constructor finds no scope that has not ended.
LEMMA ConstructStep ==
  ASSUME Mutex!MutexInv, Mutex!Construct
  PROVE  Mutex!MutexInv'
<1> USE DEF Mutex!MutexInv
<1>1. /\ mutex' = [mutex EXCEPT !.is_safe = TRUE, !.count = 0] /\ UNCHANGED <<scopes, taken>>
      /\ ~mutex.failed
  BY DEF Mutex!Construct
<1>2. \A t \in Threads : DOMAIN scopes[t] = {}
  <2>1. \A t \in Threads : scopes[t] = <<>>
    BY DEF Mutex!Construct
  <2>2. DOMAIN <<>> = {}
    OBVIOUS
  <2> QED
    BY <2>1, <2>2
<1>3. /\ mutex' \in [build : Builds, is_safe : BOOLEAN, count : Int, failed : BOOLEAN]
      /\ mutex'.count = 0 /\ ~mutex'.failed
  <2>1. mutex \in [build : Builds, is_safe : BOOLEAN, count : Int, failed : BOOLEAN]
    BY DEF Mutex!TypeOK
  <2>2. mutex' = [build |-> mutex.build, is_safe |-> TRUE, count |-> 0, failed |-> mutex.failed]
    BY <1>1, <2>1
  <2>3. mutex.build \in Builds /\ mutex.failed \in BOOLEAN /\ 0 \in Int
    BY <2>1
  <2>4. mutex'.count = 0 /\ (mutex'.failed <=> mutex.failed)
    BY <2>2
  <2>5. mutex' \in [build : Builds, is_safe : BOOLEAN, count : Int, failed : BOOLEAN]
    BY <2>2, <2>3
  <2> QED
    BY <1>1, <2>4, <2>5
<1>4. Mutex!Holders("writer")' = {} /\ Mutex!Holders("reader")' = {}
  BY <1>1, <1>2 DEF Mutex!Holders
<1>5. IsFiniteSet({}) /\ Cardinality({}) = 0
  BY SameCounts, FS_EmptySet
<1>6. Mutex!TypeOK' /\ Mutex!CountedAlike' /\ Mutex!ModesRight'
  BY <1>1, <1>2, <1>3 DEF Mutex!TypeOK, Mutex!CountedAlike, Mutex!ModesRight
<1>7. Mutex!FiniteHolders' /\ Mutex!LocksRight'
  BY SameCounts, <1>3, <1>4, <1>5
     DEF Mutex!FiniteHolders, Mutex!LocksRight, Mutex!HeldRight, Mutex!WriterAlone,
      Mutex!FailsByNesting
<1> QED
  BY <1>6, <1>7

\* TryLock does not get the mutex, or nothing happens.
LEMMA Unchanged ==
  ASSUME Mutex!MutexInv, UNCHANGED <<mutex, scopes>>, taken' \in Nat
  PROVE  Mutex!MutexInv'
<1> USE DEF Mutex!MutexInv
<1>1. \A mode : Mutex!Holders(mode)' = Mutex!Holders(mode)
  BY DEF Mutex!Holders
<1>2. Mutex!Holders("writer")' = Mutex!Holders("writer") /\ Mutex!Holders("reader")' = Mutex!Holders("reader")
  BY <1>1
<1>3. (Mutex!Counts' <=> Mutex!Counts) /\ \A t \in Threads : (Mutex!Holds(t)' <=> Mutex!Holds(t))
  BY DEF Mutex!Counts, Mutex!Holds
<1>4. Mutex!TypeOK'
  BY DEF Mutex!TypeOK
<1>5. Mutex!CountedAlike' /\ Mutex!ModesRight'
  BY <1>3 DEF Mutex!CountedAlike, Mutex!ModesRight, Mutex!Mode
<1>6. Mutex!FiniteHolders' /\ Mutex!WriterAlone'
  BY SameCounts, <1>2 DEF Mutex!FiniteHolders, Mutex!LocksRight, Mutex!WriterAlone
<1>7. Mutex!HeldRight'
  BY SameCounts, <1>2, <1>3 DEF Mutex!LocksRight, Mutex!HeldRight
<1>8. Mutex!FailsByNesting'
  BY <1>3 DEF Mutex!LocksRight, Mutex!FailsByNesting
<1> QED
  BY <1>4, <1>5, <1>6, <1>7, <1>8 DEF Mutex!LocksRight

-----------------------------------------------------------------------------
(* Locks: the theorems *)

\* The inductive invariant of a mutex and its lock objects, in every build, with any
\* number of threads that lock within locks.
THEOREM MutexInvariant ==
  ASSUME Mutex!MutexAssumption
  PROVE  Mutex!Spec => []Mutex!MutexInv
<1>1. Mutex!Init => Mutex!MutexInv
  <2> SUFFICES ASSUME Mutex!Init PROVE Mutex!MutexInv
    OBVIOUS
  <2>1. PICK b \in Builds :
          mutex = [build |-> b, is_safe |-> FALSE, count |-> 0, failed |-> FALSE]
    BY DEF Mutex!Init
  <2>2. scopes = [t \in Threads |-> <<>>] /\ taken = 0
    BY DEF Mutex!Init
  <2>3. \A t \in Threads : scopes[t] = <<>>
    BY <2>2
  <2>4. DOMAIN <<>> = {} /\ Len(<<>>) = 0
    OBVIOUS
  <2>5. Mutex!Holders("writer") = {} /\ Mutex!Holders("reader") = {}
    BY <2>3, <2>4 DEF Mutex!Holders
  <2>6. IsFiniteSet({}) /\ Cardinality({}) = 0
    BY SameCounts, FS_EmptySet
  <2>7. Mutex!CountedAlike /\ Mutex!ModesRight
    BY <2>3, <2>4 DEF Mutex!CountedAlike, Mutex!ModesRight
  <2>8. Mutex!TypeOK
    BY <2>1, <2>2, <2>3, <2>4 DEF Mutex!TypeOK, Mutex!MutexAssumption
  <2>9. Mutex!FiniteHolders /\ Mutex!LocksRight
    BY SameCounts, <2>1, <2>5, <2>6
       DEF Mutex!FiniteHolders, Mutex!LocksRight, Mutex!HeldRight, Mutex!WriterAlone,
        Mutex!FailsByNesting
  <2> QED
    BY <2>7, <2>8, <2>9 DEF Mutex!MutexInv
<1>2. Mutex!MutexInv /\ [Mutex!Next]_(Mutex!mutexVars) => Mutex!MutexInv'
  <2> SUFFICES ASSUME Mutex!MutexInv, [Mutex!Next]_(Mutex!mutexVars) PROVE Mutex!MutexInv'
    OBVIOUS
  <2>1. CASE UNCHANGED Mutex!mutexVars
    <3>1. UNCHANGED <<mutex, scopes>> /\ taken' \in Nat
      BY <2>1 DEF Mutex!mutexVars, Mutex!MutexInv, Mutex!TypeOK
    <3> QED
      BY <3>1, Unchanged
  <2>2. CASE Mutex!Construct
    BY <2>2, ConstructStep
  <2>3. ASSUME NEW t \in Threads, Mutex!TryLock(t) PROVE Mutex!MutexInv'
    <3>1. CASE Mutex!Counts /\ ~Mutex!FreeFor(t, "writer")
      <4>1. UNCHANGED <<mutex, scopes>> /\ taken' = taken + 1
        BY <2>3, <3>1 DEF Mutex!TryLock, Mutex!Asks
      <4>2. taken' \in Nat
        BY <4>1 DEF Mutex!MutexInv, Mutex!TypeOK
      <4> QED
        BY <4>1, <4>2, Unchanged
    <3>2. CASE ~(Mutex!Counts /\ ~Mutex!FreeFor(t, "writer"))
      BY <2>3, <3>2, LockEnterStep DEF Mutex!TryLock, Mutex!Mode
    <3> QED
      BY <3>1, <3>2
  <2>4. ASSUME NEW t \in Threads, Mutex!EndOfScope(t) PROVE Mutex!MutexInv'
    BY <2>4, EndStep
  <2>5. ASSUME NEW t \in Threads, NEW mode \in {"reader", "writer"}, Mutex!LockObject(t, mode)
        PROVE  Mutex!MutexInv'
    <3>1. Mutex!Mode(mode) \in {"reader", "writer"} /\ Mutex!Mode(mode) = Mutex!Mode(Mutex!Mode(mode))
      BY DEF Mutex!Mode
    <3> QED
      BY <2>5, <3>1, LockEnterStep DEF Mutex!LockObject
  <2>6. ASSUME NEW t \in Threads, NEW mode \in {"reader", "writer"}, Mutex!LockFails(t, mode)
        PROVE  Mutex!MutexInv'
    BY <2>6, FailStep
  <2> QED
    BY <2>1, <2>2, <2>3, <2>4, <2>5, <2>6 DEF Mutex!Next
<1> QED
  BY <1>1, <1>2, PTL DEF Mutex!Spec

\* The counter is right, a writer is alone, and nothing is released that was not taken
\* (Lock, ReaderLock, TryLock and Unlock, and the constructor between them).
THEOREM LocksAreRight ==
  ASSUME Mutex!MutexAssumption
  PROVE  Mutex!Spec => []Mutex!LocksRight
BY MutexInvariant, PTL DEF Mutex!MutexInv

\* Where threads wait for locks, no two of them hold the mutex, unless both read.
THEOREM MutualExclusion ==
  ASSUME Mutex!MutexAssumption
  PROVE  Mutex!Spec => [](\A t, u \in Threads :
                      t # u /\ Mutex!Holds(t) /\ Mutex!Holds(u) =>
                        \A p \in Mutex!Holders("writer") : p[1] \notin {t, u})
<1>1. Mutex!MutexInv => \A t, u \in Threads :
                    t # u /\ Mutex!Holds(t) /\ Mutex!Holds(u) =>
                      \A p \in Mutex!Holders("writer") : p[1] \notin {t, u}
  <2> SUFFICES ASSUME Mutex!MutexInv, NEW t \in Threads, NEW u \in Threads, t # u, Mutex!Holds(t), Mutex!Holds(u),
                      NEW p \in Mutex!Holders("writer"), p[1] \in {t, u}
               PROVE  FALSE
    OBVIOUS
  <2>1. MaxNested \in Nat \ {0} /\ Mutex!TypeOK
    BY DEF Mutex!MutexAssumption, Mutex!MutexInv
  <2>2. PICK q \in Mutex!Holders("writer") \cup Mutex!Holders("reader") : q[1] = t
    BY <2>1, HoldsIsHolder
  <2>3. PICK r \in Mutex!Holders("writer") \cup Mutex!Holders("reader") : r[1] = u
    BY <2>1, HoldsIsHolder
  <2> QED
    BY <2>2, <2>3 DEF Mutex!MutexInv, Mutex!LocksRight, Mutex!WriterAlone
<1> QED
  BY <1>1, MutexInvariant, PTL

-----------------------------------------------------------------------------
(* Crash reports: FailureSignals *)

\* The innermost handler of a thread is one of those it is in.
LEMMA Innermost ==
  ASSUME Crash!TypeOK, NEW t \in Threads, frames[t] # <<>>
  PROVE  /\ Len(frames[t]) \in DOMAIN frames[t]
         /\ frames[t][Len(frames[t])] \in Crash!Frame
         /\ frames[t] \in Seq(Crash!Frame)
BY DEF Crash!TypeOK

\* A step of a handler changes where its thread is in it, and nothing else of the
\* handlers that the threads are in.
LEMMA GotoFrames ==
  ASSUME Crash!TypeOK, NEW t \in Threads, frames[t] # <<>>,
         NEW pc \in Crash!Working \cup {"enter", "again", "sleep"}, Crash!Goto(t, pc)
  PROVE  /\ frames' \in [Threads -> Seq(Crash!Frame)]
         /\ \A u \in Threads :
              /\ u # t => frames'[u] = frames[u]
              /\ DOMAIN frames'[u] = DOMAIN frames[u]
              /\ \A i \in DOMAIN frames[u] :
                   /\ frames'[u][i].signal = frames[u][i].signal
                   /\ frames'[u][i].pc =
                        IF u = t /\ i = Len(frames[t]) THEN pc ELSE frames[u][i].pc
         /\ \A u \in Threads : frames'[u] = <<>> <=> frames[u] = <<>>
<1> DEFINE n == Len(frames[t])
           stack == [frames[t] EXCEPT ![n].pc = pc]
<1>1. n \in DOMAIN frames[t] /\ frames[t][n] \in Crash!Frame /\ frames[t] \in Seq(Crash!Frame)
  BY Innermost
<1>2. frames' = [frames EXCEPT ![t] = stack]
  BY DEF Crash!Goto
<1>3. [frames[t][n] EXCEPT !.pc = pc] \in Crash!Frame
  BY <1>1 DEF Crash!Frame
<1>4. stack \in Seq(Crash!Frame)
  BY <1>1, <1>3
<1>5. /\ DOMAIN stack = DOMAIN frames[t]
      /\ \A i \in DOMAIN frames[t] :
           /\ stack[i].signal = frames[t][i].signal
           /\ stack[i].pc = IF i = n THEN pc ELSE frames[t][i].pc
  <2>1. \A i \in DOMAIN frames[t] : frames[t][i] \in Crash!Frame
    BY <1>1
  <2> QED
    BY <1>1, <2>1 DEF Crash!Frame
<1> HIDE DEF stack
<1>6. /\ frames' \in [Threads -> Seq(Crash!Frame)] /\ frames'[t] = stack
      /\ \A u \in Threads : u # t => frames'[u] = frames[u]
  BY <1>2, <1>4 DEF Crash!TypeOK
<1>7. \A u \in Threads : DOMAIN frames'[u] = DOMAIN frames[u]
  BY <1>5, <1>6
<1>8. \A u \in Threads : frames'[u] = <<>> <=> frames[u] = <<>>
  <2>1. \A u \in Threads : frames[u] \in Seq(Crash!Frame) /\ frames'[u] \in Seq(Crash!Frame)
    BY <1>6 DEF Crash!TypeOK
  <2>2. \A s \in Seq(Crash!Frame) : s = <<>> <=> DOMAIN s = {}
    OBVIOUS
  <2> QED
    BY <1>7, <2>1, <2>2
<1> QED
  BY <1>5, <1>6, <1>7, <1>8

\* Nothing begins to work: still at most one handler does.
LEMMA OnlyWorker ==
  ASSUME Crash!OneWorks, entered' = entered,
         \A u \in Threads : \A i \in DOMAIN frames'[u] :
           frames'[u][i].pc \in Crash!Working =>
             i \in DOMAIN frames[u] /\ frames[u][i].pc \in Crash!Working
  PROVE  Crash!OneWorks'
BY Zenon DEF Crash!OneWorks, Crash!Working

\* A handler that is begun is put behind those that the thread is in.
LEMMA AppendFrame ==
  ASSUME NEW s \in Seq(Crash!Frame), NEW top \in Crash!Frame
  PROVE  /\ Append(s, top) \in Seq(Crash!Frame) /\ Append(s, top) # <<>>
         /\ \A i \in DOMAIN Append(s, top) :
              Append(s, top)[i] = top \/ (i \in DOMAIN s /\ Append(s, top)[i] = s[i])
<1>1. Append(s, top) \in Seq(Crash!Frame) /\ Len(Append(s, top)) = Len(s) + 1
  OBVIOUS
<1>2. Append(s, top) # <<>>
  <2>1. Len(s) + 1 # 0 /\ Len(<<>>) = 0
    OBVIOUS
  <2> QED
    BY <1>1, <2>1
<1> QED
  BY <1>1, <1>2

\* The state of the process when a signal arrives.
LEMMA SignalArrives ==
  ASSUME process \in Crash!Process, NEW e \in {"no", "default"},
         process' = [process EXCEPT !.arrived = @ + 1, !.ended = e]
  PROVE  /\ process' \in Crash!Process
         /\ process'.flushed = process.flushed
         /\ process'.pending = process.pending
         /\ process'.ended = e
<1>1. process.arrived + 1 \in Nat
  BY DEF Crash!Process
<1>2. process' = [arrived |-> process.arrived + 1, pending |-> process.pending,
                  default |-> process.default, flushed |-> process.flushed, ended |-> e]
  BY DEF Crash!Process
<1> QED
  BY <1>1, <1>2 DEF Crash!Process

-----------------------------------------------------------------------------
(* Crash reports: the steps *)

\* A signal that arrives puts a handler on top of what its thread is doing, which
\* has not begun to work.
LEMMA DeliverStep ==
  ASSUME Crash!SignalsInv, process.ended = "no", NEW t \in Threads, NEW signal \in Signals,
         Crash!Deliver(t, signal)
  PROVE  Crash!SignalsInv'
<1> USE DEF Crash!SignalsInv
<1>1. UNCHANGED <<entered, dumped>> /\ process \in Crash!Process
  BY DEF Crash!Deliver, Crash!TypeOK
<1>3. CASE signal \in process.default
  <2>1. frames' = frames /\ process' = [process EXCEPT !.arrived = @ + 1, !.ended = "default"]
    BY <1>3 DEF Crash!Deliver
  <2>2. /\ process' \in Crash!Process
        /\ process'.flushed = process.flushed /\ process'.pending = process.pending
        /\ process'.ended = "default"
    BY <1>1, <2>1, SignalArrives
  <2>3. Crash!OneWorks' /\ Crash!WorkDone'
    BY <1>1, <2>1, <2>2 DEF Crash!OneWorks, Crash!WorkDone, Crash!HasDone
  <2> QED
    BY <1>1, <2>1, <2>2, <2>3
       DEF Crash!TypeOK, Crash!NothingBefore, Crash!DumperStays, Crash!OneDump,
           Crash!DumpedAndFlushed
<1>4. CASE signal \notin process.default
  <2> DEFINE top == [signal |-> signal, pc |-> "enter"]
             stack == Append(frames[t], top)
  <2>1. frames' = [frames EXCEPT ![t] = stack]
    BY <1>4 DEF Crash!Deliver
  <2>2. process' = [process EXCEPT !.arrived = @ + 1, !.ended = "no"]
    BY <1>4 DEF Crash!Deliver
  <2>3. /\ process' \in Crash!Process
        /\ process'.flushed = process.flushed /\ process'.pending = process.pending
        /\ process'.ended = "no"
    BY <1>1, <2>2, SignalArrives
  <2>4. top \in Crash!Frame /\ frames[t] \in Seq(Crash!Frame)
    BY DEF Crash!TypeOK, Crash!Frame
  <2>5. /\ stack \in Seq(Crash!Frame) /\ stack # <<>>
        /\ \A i \in DOMAIN stack :
             stack[i].pc = "enter" \/ (i \in DOMAIN frames[t] /\ stack[i] = frames[t][i])
    <3>1. top.pc = "enter"
      OBVIOUS
    <3> HIDE DEF top
    <3> QED
      BY <2>4, <3>1, AppendFrame
  <2> HIDE DEF stack
  <2>6. /\ frames' \in [Threads -> Seq(Crash!Frame)] /\ frames'[t] = stack
        /\ \A u \in Threads : u # t => frames'[u] = frames[u]
    BY <2>1, <2>5 DEF Crash!TypeOK
  <2>7. \A u \in Threads : \A i \in DOMAIN frames'[u] :
          frames'[u][i].pc = "enter" \/ (i \in DOMAIN frames[u] /\ frames'[u][i] = frames[u][i])
    BY <2>5, <2>6
  <2>8. \A u \in Threads : frames[u] # <<>> => frames'[u] # <<>>
    BY <2>5, <2>6
  <2>9. Crash!OneWorks' /\ Crash!WorkDone'
    <3>1. "enter" \notin Crash!Working
      BY DEF Crash!Working
    <3>2. \A u \in Threads : \A i \in DOMAIN frames'[u] :
            frames'[u][i].pc \in Crash!Working =>
              i \in DOMAIN frames[u] /\ frames[u][i].pc \in Crash!Working
      BY <2>7, <3>1
    <3>4. Crash!OneWorks'
      BY <1>1, <3>2, OnlyWorker
    <3>3. Crash!WorkDone'
      BY <1>1, <2>3, <2>7 DEF Crash!WorkDone, Crash!HasDone
    <3> QED
      BY <3>3, <3>4
  <2>10. Crash!NothingBefore'
    BY <1>1, <2>7 DEF Crash!NothingBefore
  <2>11. Crash!TypeOK' /\ Crash!DumperStays' /\ Crash!OneDump' /\ Crash!DumpedAndFlushed'
    BY <1>1, <2>3, <2>6, <2>8
       DEF Crash!TypeOK, Crash!DumperStays, Crash!OneDump, Crash!DumpedAndFlushed
  <2> QED
    BY <2>9, <2>10, <2>11
<1> QED
  BY <1>3, <1>4

\* The handler that works is the innermost one of the thread that has entered.
LEMMA TheWorker ==
  ASSUME Crash!SignalsInv, NEW t \in Threads, NEW pc \in Crash!Working, Crash!At(t, pc)
  PROVE  /\ t = entered /\ frames[t] # <<>>
         /\ Crash!HasDone(frames[t][Len(frames[t])]) /\ frames[t][Len(frames[t])].pc = pc
         /\ \A u \in Threads : \A i \in DOMAIN frames[u] :
              frames[u][i].pc \in Crash!Working => u = t /\ i = Len(frames[t])
BY Innermost DEF Crash!SignalsInv, Crash!At, Crash!OneWorks, Crash!WorkDone

\* It is then alone, wherever it goes.
LEMMA WorkerGoes ==
  ASSUME Crash!SignalsInv, entered' = entered, NEW t \in Threads, NEW from \in Crash!Working, Crash!At(t, from),
         NEW pc \in Crash!Working \cup {"enter", "again", "sleep"}, Crash!Goto(t, pc)
  PROVE  /\ Crash!OneWorks'
         /\ \A u \in Threads : \A i \in DOMAIN frames'[u] :
              \/ frames'[u][i].pc \notin Crash!Working
              \/ /\ frames'[u][i].pc = pc
                 /\ frames'[u][i].signal = frames[t][Len(frames[t])].signal
<1> DEFINE n == Len(frames[t])
<1>1. /\ frames[t] # <<>> /\ frames[t][n].pc \in Crash!Working
      /\ \A u \in Threads : \A i \in DOMAIN frames[u] :
           frames[u][i].pc \in Crash!Working => u = t /\ i = n
  BY TheWorker
<1>2. \A u \in Threads : \A i \in DOMAIN frames'[u] :
        /\ i \in DOMAIN frames[u]
        /\ frames'[u][i].signal = frames[u][i].signal
        /\ frames'[u][i].pc = IF u = t /\ i = n THEN pc ELSE frames[u][i].pc
  BY <1>1, GotoFrames DEF Crash!SignalsInv
<1> HIDE DEF n
<1>3. \A u \in Threads : \A i \in DOMAIN frames'[u] :
        frames'[u][i].pc \in Crash!Working =>
          i \in DOMAIN frames[u] /\ frames[u][i].pc \in Crash!Working
  BY <1>1, <1>2
<1>4. Crash!OneWorks'
  BY <1>3, OnlyWorker DEF Crash!SignalsInv
<1> QED
  BY <1>1, <1>2, <1>3, <1>4 DEF n

\* The compare-and-swap: the first thread works, the others wait, and so does the
\* first when it is interrupted.
LEMMA SignalEnterStep ==
  ASSUME Crash!SignalsInv, NoThread \notin Threads, Items \in Nat \ {0}, process.ended = "no",
         NEW t \in Threads, Crash!Enter(t)
  PROVE  Crash!SignalsInv'
<1> USE DEF Crash!SignalsInv
<1>1. UNCHANGED <<process, dumped>> /\ frames[t] # <<>>
  BY DEF Crash!Enter, Crash!At
<1>2. CASE entered = NoThread
  <2> DEFINE n == Len(frames[t])
  <2>1. entered' = t /\ Crash!Goto(t, "dump") /\ "dump" \in Crash!Working
    BY <1>2 DEF Crash!Enter, Crash!FirstHere, Crash!Working
  <2>2. dumped = <<>>
    BY <1>2 DEF Crash!NothingBefore
  <2>3. \A u \in Threads : \A i \in DOMAIN frames[u] : frames[u][i].pc = "enter"
    BY <1>2 DEF Crash!NothingBefore
  <2>4. /\ frames' \in [Threads -> Seq(Crash!Frame)]
        /\ \A u \in Threads :
             /\ frames'[u] = <<>> <=> frames[u] = <<>>
             /\ DOMAIN frames'[u] = DOMAIN frames[u]
             /\ \A i \in DOMAIN frames[u] :
                  frames'[u][i].pc = IF u = t /\ i = n THEN "dump" ELSE frames[u][i].pc
    BY <1>1, <2>1, GotoFrames
  <2> HIDE DEF n
  <2>5. \A u \in Threads : \A i \in DOMAIN frames'[u] :
          frames'[u][i].pc = IF u = t /\ i = n THEN "dump" ELSE "enter"
    BY <2>3, <2>4
  <2>6. Crash!OneWorks'
    <3>1. \A u \in Threads : \A i \in DOMAIN frames'[u] :
            frames'[u][i].pc \in Crash!Working => u = entered' /\ i = n
      BY <2>1, <2>5 DEF Crash!Working
    <3> QED
      BY <3>1 DEF Crash!OneWorks
  <2>7. dumped' = <<>> /\ DOMAIN dumped' = {}
    BY <1>1, <2>2
  <2>8. Crash!WorkDone'
    <3>1. 0 < Items /\ Len(<<>>) = 0
      OBVIOUS
    <3>2. Len(dumped') < Items
      BY <2>7, <3>1
    <3> QED
      BY <2>5, <3>2 DEF Crash!WorkDone, Crash!HasDone
  <2>9. Crash!TypeOK'
    BY <1>1, <2>1, <2>4 DEF Crash!TypeOK
  <2>10. Crash!NothingBefore' /\ Crash!DumperStays' /\ Crash!DumpedAndFlushed'
    BY <1>1, <2>1, <2>4 DEF Crash!NothingBefore, Crash!DumperStays, Crash!DumpedAndFlushed
  <2>11. Crash!OneDump'
    BY <2>7 DEF Crash!OneDump
  <2> QED
    BY <2>6, <2>8, <2>9, <2>10, <2>11
<1>3. CASE entered # NoThread
  <2>1. PICK pc \in {"again", "sleep"} : entered' = entered /\ Crash!Goto(t, pc)
    BY <1>3 DEF Crash!Enter, Crash!FirstHere
  <2>2. /\ frames' \in [Threads -> Seq(Crash!Frame)]
        /\ \A u \in Threads : frames'[u] = <<>> <=> frames[u] = <<>>
        /\ \A u \in Threads : \A i \in DOMAIN frames'[u] :
             /\ i \in DOMAIN frames[u]
             /\ frames'[u][i].signal = frames[u][i].signal
             /\ frames'[u][i].pc = frames[u][i].pc \/ frames'[u][i].pc \in {"again", "sleep"}
    <3>1. pc \in Crash!Working \cup {"enter", "again", "sleep"}
      OBVIOUS
    <3> QED
      BY <1>1, <2>1, <3>1, GotoFrames
  <2>3. Crash!OneWorks'
    <3>1. "again" \notin Crash!Working /\ "sleep" \notin Crash!Working
      BY DEF Crash!Working
    <3>2. \A u \in Threads : \A i \in DOMAIN frames'[u] :
            frames'[u][i].pc \in Crash!Working =>
              i \in DOMAIN frames[u] /\ frames[u][i].pc \in Crash!Working
      BY <2>2, <3>1
    <3> QED
      BY <2>1, <3>2, OnlyWorker
  <2>4. Crash!WorkDone'
    BY SMTT(30), <1>1, <2>2 DEF Crash!WorkDone, Crash!HasDone
  <2>5. Crash!TypeOK'
    BY <1>1, <2>1, <2>2 DEF Crash!TypeOK
  <2>6. Crash!NothingBefore' /\ Crash!DumperStays' /\ Crash!OneDump' /\ Crash!DumpedAndFlushed'
    BY <1>1, <1>3, <2>1, <2>2
       DEF Crash!TypeOK, Crash!NothingBefore, Crash!DumperStays, Crash!OneDump,
           Crash!DumpedAndFlushed
  <2> QED
    BY <2>3, <2>4, <2>5, <2>6
<1> QED
  BY <1>2, <1>3

\* The line that is dumped is the next one.
LEMMA NextLine ==
  ASSUME Crash!TypeOK, Crash!OneDump, entered \in Threads
  PROVE  LET mine == {i \in DOMAIN dumped : dumped[i].thread = entered}
         IN  Len(dumped) + 1 = IF mine = {} THEN 1 ELSE 1 + dumped[Len(dumped)].item
<1> DEFINE mine == {i \in DOMAIN dumped : dumped[i].thread = entered}
           n == Len(dumped)
<1>1. /\ n \in Nat /\ DOMAIN dumped = 1 .. n
      /\ \A i \in 1 .. n : dumped[i].thread = entered /\ dumped[i].item = i
  BY DEF Crash!TypeOK, Crash!OneDump
<1>2. CASE n = 0
  <2>1. mine = {}
    BY <1>1, <1>2
  <2> QED
    BY <1>2, <2>1
<1>3. CASE n # 0
  <2>1. n \in 1 .. n
    BY <1>1, <1>3
  <2>2. mine # {} /\ dumped[n].item = n
    BY <1>1, <2>1
  <2> QED
    BY <1>1, <2>2
<1> QED
  BY <1>2, <1>3

\* A line is dumped by the handler that works.
LEMMA DumpStep ==
  ASSUME Crash!SignalsInv, NoThread \notin Threads, Items \in Nat \ {0}, NEW t \in Threads, Crash!Dump(t)
  PROVE  Crash!SignalsInv'
<1> USE DEF Crash!SignalsInv
<1> DEFINE n == Len(dumped)
           line == [thread |-> t, item |-> n + 1]
<1>1. t = entered /\ frames[t] # <<>> /\ n < Items /\ n \in Nat
  <2>1. Crash!At(t, "dump")
    BY DEF Crash!Dump
  <2>2. t = entered /\ frames[t] # <<>> /\ Crash!HasDone(frames[t][Len(frames[t])])
    BY <2>1, TheWorker DEF Crash!Working
  <2> QED
    BY <2>1, <2>2 DEF Crash!At, Crash!HasDone, Crash!TypeOK
<1>2. PICK pc \in {"flush", "dump"} :
        /\ UNCHANGED <<entered, process>>
        /\ dumped' = Append(dumped, line)
        /\ pc = IF n + 1 = Items THEN "flush" ELSE "dump"
        /\ Crash!Goto(t, pc)
  BY <1>1, NextLine DEF Crash!Dump
<1>3. /\ dumped' \in Seq([thread : Threads, item : Nat])
      /\ Len(dumped') = n + 1
      /\ \A i \in DOMAIN dumped' : dumped'[i] = line \/ (i \in DOMAIN dumped /\ dumped'[i] = dumped[i])
      /\ dumped'[n + 1] = line
  <2>1. line \in [thread : Threads, item : Nat] /\ dumped \in Seq([thread : Threads, item : Nat])
    BY <1>1 DEF Crash!TypeOK
  <2> HIDE DEF line
  <2> QED
    BY <1>2, <2>1
<1>4. /\ frames' \in [Threads -> Seq(Crash!Frame)]
      /\ \A u \in Threads : frames'[u] = <<>> <=> frames[u] = <<>>
  BY <1>1, <1>2, GotoFrames DEF Crash!Working
<1>5. /\ Crash!OneWorks'
      /\ \A u \in Threads : \A i \in DOMAIN frames'[u] :
           frames'[u][i].pc \notin Crash!Working \/ frames'[u][i].pc = pc
  BY <1>2, WorkerGoes DEF Crash!Dump, Crash!Working
<1>6. Crash!WorkDone'
  <2>1. IF pc = "dump" THEN Len(dumped') < Items ELSE Len(dumped') = Items
    BY <1>1, <1>2, <1>3
  <2> QED
    BY <1>2, <1>5, <2>1 DEF Crash!WorkDone, Crash!HasDone, Crash!Working
<1>7. Crash!OneDump'
  BY <1>1, <1>2, <1>3 DEF Crash!OneDump, Crash!TypeOK
<1>8. Crash!DumpedAndFlushed'
  BY <1>1, <1>2 DEF Crash!DumpedAndFlushed
<1> QED
  BY <1>1, <1>2, <1>3, <1>4, <1>5, <1>6, <1>7, <1>8
     DEF Crash!TypeOK, Crash!NothingBefore, Crash!DumperStays

\* The logs are flushed by the handler that has dumped everything.
LEMMA FlushStep ==
  ASSUME Crash!SignalsInv, NoThread \notin Threads, process.ended = "no",
         NEW t \in Threads, Crash!FlushLogs(t)
  PROVE  Crash!SignalsInv'
<1> USE DEF Crash!SignalsInv
<1>1. /\ Crash!At(t, "flush") /\ Crash!Goto(t, "kill") /\ UNCHANGED <<entered, dumped>>
      /\ process' = [process EXCEPT !.flushed = TRUE]
  BY DEF Crash!FlushLogs
<1>2. t = entered /\ frames[t] # <<>> /\ Len(dumped) = Items
  BY <1>1, TheWorker DEF Crash!HasDone, Crash!Working
<1>3. /\ process' \in Crash!Process /\ process'.flushed /\ process'.ended = "no"
  BY <1>1 DEF Crash!TypeOK, Crash!Process
<1>4. /\ frames' \in [Threads -> Seq(Crash!Frame)]
      /\ \A u \in Threads : frames'[u] = <<>> <=> frames[u] = <<>>
  BY <1>1, <1>2, GotoFrames DEF Crash!Working
<1>5. /\ Crash!OneWorks'
      /\ \A u \in Threads : \A i \in DOMAIN frames'[u] :
           frames'[u][i].pc \notin Crash!Working \/ frames'[u][i].pc = "kill"
  BY <1>1, WorkerGoes DEF Crash!Working
<1>6. Crash!WorkDone'
  BY <1>1, <1>2, <1>3, <1>5 DEF Crash!WorkDone, Crash!HasDone, Crash!Working
<1>7. Crash!TypeOK'
  BY <1>1, <1>3, <1>4 DEF Crash!TypeOK
<1>8. Crash!NothingBefore' /\ Crash!DumperStays' /\ Crash!OneDump' /\ Crash!DumpedAndFlushed'
  BY <1>1, <1>2, <1>3, <1>4
     DEF Crash!NothingBefore, Crash!DumperStays, Crash!OneDump, Crash!DumpedAndFlushed
<1> QED
  BY <1>5, <1>6, <1>7, <1>8

\* The signal is sent again, with its default action: by the handler that has
\* flushed the logs, or by one that interrupted it.
LEMMA KillStep ==
  ASSUME Crash!SignalsInv, NoThread \notin Threads, process.ended = "no",
         NEW t \in Threads, Crash!InvokeDefaultSignalHandler(t)
  PROVE  Crash!SignalsInv'
<1> USE DEF Crash!SignalsInv
<1> DEFINE n == Len(frames[t])
           signal == frames[t][n].signal
<1>1. PICK pending \in SUBSET Signals, ended \in {"no", "dumped", "again"} :
        /\ process' = [process EXCEPT !.default = @ \cup {signal},
                                       !.pending = pending, !.ended = ended]
        /\ process.pending \subseteq pending
        /\ ended = "no" => signal \in pending
        /\ ended = "dumped" => Crash!At(t, "kill")
        /\ signal \in Signals /\ frames[t] # <<>>
  <2>1. frames[t] # <<>>
    BY DEF Crash!InvokeDefaultSignalHandler, Crash!At
  <2>2. signal \in Signals /\ process.pending \subseteq Signals
    BY <2>1, Innermost DEF Crash!Frame, Crash!TypeOK, Crash!Process
  <2> DEFINE dies == \E u \in Threads : signal \notin Crash!Blocked(u)
             how == IF Crash!At(t, "kill") THEN "dumped" ELSE "again"
  <2>3. process' = [process EXCEPT
                      !.default = @ \cup {signal},
                      !.pending = IF dies THEN @ ELSE @ \cup {signal},
                      !.ended = IF ~dies THEN @ ELSE how]
    BY DEF Crash!InvokeDefaultSignalHandler, Crash!Signal
  <2> HIDE DEF dies
  <2>4. CASE dies
    BY <2>1, <2>2, <2>3, <2>4
  <2>5. CASE ~dies
    <3> DEFINE pending == process.pending \cup {signal}
    <3>1. process' = [process EXCEPT !.default = @ \cup {signal},
                                     !.pending = pending, !.ended = "no"]
      BY <2>3, <2>5
    <3>2. pending \in SUBSET Signals /\ process.pending \subseteq pending /\ signal \in pending
      BY <2>2
    <3> HIDE DEF pending, signal
    <3> QED
      BY <2>1, <2>2, <3>1, <3>2
  <2> QED
    BY <2>4, <2>5
<1> HIDE DEF signal
<1>2. UNCHANGED <<entered, dumped>>
  BY DEF Crash!InvokeDefaultSignalHandler
<1>3. /\ process' \in Crash!Process /\ process'.flushed = process.flushed
      /\ process'.ended = ended /\ process'.pending = pending
  BY <1>1 DEF Crash!TypeOK, Crash!Process
<1>4. CASE Crash!At(t, "kill")
  <2>1. Crash!Goto(t, "return")
    BY <1>4 DEF Crash!InvokeDefaultSignalHandler
  <2>2. t = entered /\ Len(dumped) = Items /\ process.flushed
    BY <1>4, TheWorker DEF Crash!HasDone, Crash!Working
  <2>3. /\ frames' \in [Threads -> Seq(Crash!Frame)]
        /\ \A u \in Threads : frames'[u] = <<>> <=> frames[u] = <<>>
    BY <1>1, <2>1, GotoFrames DEF Crash!Working
  <2>4. /\ Crash!OneWorks'
        /\ \A u \in Threads : \A i \in DOMAIN frames'[u] :
             \/ frames'[u][i].pc \notin Crash!Working
             \/ frames'[u][i].pc = "return" /\ frames'[u][i].signal = signal
    BY <1>2, <1>4, <2>1, WorkerGoes DEF Crash!Working, signal
  <2>5. Crash!WorkDone'
    BY <1>1, <1>2, <1>3, <2>2, <2>4 DEF Crash!WorkDone, Crash!HasDone, Crash!Working
  <2>6. Crash!TypeOK'
    BY <1>2, <1>3, <2>3 DEF Crash!TypeOK
  <2>7. Crash!NothingBefore' /\ Crash!DumperStays' /\ Crash!OneDump' /\ Crash!DumpedAndFlushed'
    BY <1>2, <1>3, <2>2, <2>3
       DEF Crash!NothingBefore, Crash!DumperStays, Crash!OneDump, Crash!DumpedAndFlushed
  <2> QED
    BY <2>4, <2>5, <2>6, <2>7
<1>5. CASE ~Crash!At(t, "kill")
  <2>1. Crash!Goto(t, "sleep") /\ Crash!At(t, "again")
    BY <1>5 DEF Crash!InvokeDefaultSignalHandler
  <2>2. entered # NoThread
    BY <2>1, Innermost DEF Crash!At, Crash!NothingBefore
  <2>3. /\ frames' \in [Threads -> Seq(Crash!Frame)]
        /\ \A u \in Threads : frames'[u] = <<>> <=> frames[u] = <<>>
        /\ \A u \in Threads : \A i \in DOMAIN frames'[u] :
             /\ i \in DOMAIN frames[u]
             /\ frames'[u][i].signal = frames[u][i].signal
             /\ frames'[u][i].pc = frames[u][i].pc \/ frames'[u][i].pc = "sleep"
    BY <1>1, <2>1, GotoFrames
  <2>4. Crash!OneWorks'
    <3>1. "sleep" \notin Crash!Working
      BY DEF Crash!Working
    <3>2. \A u \in Threads : \A i \in DOMAIN frames'[u] :
            frames'[u][i].pc \in Crash!Working =>
              i \in DOMAIN frames[u] /\ frames[u][i].pc \in Crash!Working
      BY <2>3, <3>1
    <3> QED
      BY <1>2, <3>2, OnlyWorker
  <2>5. Crash!WorkDone'
    <3>1. ASSUME NEW u \in Threads, NEW i \in DOMAIN frames'[u] PROVE Crash!HasDone(frames[u][i])'
      <4>1. CASE frames'[u][i].pc = "sleep"
        BY <4>1 DEF Crash!HasDone
      <4>2. CASE frames'[u][i].pc = frames[u][i].pc
        <5>1. Crash!HasDone(frames[u][i])
          BY <2>3 DEF Crash!WorkDone
        <5>2. frames'[u][i].signal = frames[u][i].signal
          BY <2>3
        <5> QED
          BY <1>1, <1>2, <1>3, <4>2, <5>1, <5>2 DEF Crash!HasDone
      <4> QED
        BY <2>3, <4>1, <4>2
    <3> QED
      BY <3>1 DEF Crash!WorkDone
  <2>6. Crash!TypeOK'
    BY <1>2, <1>3, <2>3 DEF Crash!TypeOK
  <2>7. Crash!NothingBefore' /\ Crash!DumperStays' /\ Crash!OneDump' /\ Crash!DumpedAndFlushed'
    BY <1>1, <1>2, <1>3, <1>5, <2>2, <2>3
       DEF Crash!TypeOK, Crash!NothingBefore, Crash!DumperStays, Crash!OneDump,
           Crash!DumpedAndFlushed
  <2> QED
    BY <2>4, <2>5, <2>6, <2>7
<1> QED
  BY <1>4, <1>5

\* The handler that has dumped returns only to be ended by its signal, which was
\* pending.
LEMMA SignalReturnStep ==
  ASSUME Crash!SignalsInv, NoThread \notin Threads, process.ended = "no",
         NEW t \in Threads, Crash!Return(t)
  PROVE  Crash!SignalsInv'
<1> USE DEF Crash!SignalsInv
<1> DEFINE n == Len(frames[t])
           rest == SubSeq(frames[t], 1, n - 1)
<1>1. /\ Crash!At(t, "return") /\ UNCHANGED <<entered, dumped>>
      /\ process' = [process EXCEPT !.ended = IF Crash!Signal(t) \in process.pending
                                                THEN "dumped" ELSE @]
      /\ frames' = [frames EXCEPT ![t] = rest]
  BY DEF Crash!Return
<1>2. /\ t = entered /\ frames[t] # <<>> /\ Len(dumped) = Items /\ process.flushed
      /\ Crash!Signal(t) \in process.pending
  BY <1>1, TheWorker DEF Crash!HasDone, Crash!Working, Crash!Signal
<1>3. process' \in Crash!Process /\ process'.flushed /\ process'.ended = "dumped"
  BY <1>1, <1>2 DEF Crash!TypeOK, Crash!Process
<1>4. /\ rest \in Seq(Crash!Frame)
      /\ \A i \in DOMAIN rest : i \in DOMAIN frames[t] /\ rest[i] = frames[t][i]
  BY <1>2, Innermost
<1> HIDE DEF rest
<1>5. /\ frames' \in [Threads -> Seq(Crash!Frame)]
      /\ \A u \in Threads : \A i \in DOMAIN frames'[u] :
           i \in DOMAIN frames[u] /\ frames'[u][i] = frames[u][i]
  BY <1>1, <1>4 DEF Crash!TypeOK
<1>6. Crash!OneWorks'
  BY <1>1, <1>5, OnlyWorker
<1>7. Crash!WorkDone'
  BY <1>1, <1>3, <1>5 DEF Crash!WorkDone, Crash!HasDone
<1>8. Crash!TypeOK'
  BY <1>1, <1>3, <1>5 DEF Crash!TypeOK
<1>9. Crash!NothingBefore' /\ Crash!DumperStays' /\ Crash!OneDump' /\ Crash!DumpedAndFlushed'
  BY <1>1, <1>2, <1>3
     DEF Crash!NothingBefore, Crash!DumperStays, Crash!OneDump, Crash!DumpedAndFlushed
<1> QED
  BY <1>6, <1>7, <1>8, <1>9

-----------------------------------------------------------------------------
(* Crash reports: the theorems *)

\* The inductive invariant: however threads are interrupted, one handler works at a
\* time, always the same, and what was dumped and flushed is as far as it has come.
THEOREM SignalsInvariant ==
  ASSUME Crash!SignalsAssumption
  PROVE  Crash!Spec => []Crash!SignalsInv
<1>1. NoThread \notin Threads /\ Items \in Nat \ {0}
  BY DEF Crash!SignalsAssumption
<1>2. Crash!Init => Crash!SignalsInv
  <2> SUFFICES ASSUME Crash!Init PROVE Crash!SignalsInv
    OBVIOUS
  <2>1. \A t \in Threads : frames[t] = <<>> /\ DOMAIN frames[t] = {}
    <3>1. \A t \in Threads : frames[t] = <<>>
      BY DEF Crash!Init
    <3>2. DOMAIN <<>> = {}
      OBVIOUS
    <3> QED
      BY <3>1, <3>2
  <2>2. frames \in [Threads -> Seq(Crash!Frame)] /\ dumped \in Seq([thread : Threads, item : Nat])
    BY DEF Crash!Init
  <2>3. process \in Crash!Process
    BY DEF Crash!Init, Crash!Process
  <2>4. dumped = <<>> /\ DOMAIN dumped = {} /\ entered = NoThread /\ process.ended = "no"
    BY DEF Crash!Init
  <2> QED
    BY <2>1, <2>2, <2>3, <2>4
       DEF Crash!SignalsInv, Crash!TypeOK, Crash!OneWorks, Crash!WorkDone, Crash!NothingBefore,
      Crash!DumperStays, Crash!OneDump, Crash!DumpedAndFlushed
<1>3. Crash!SignalsInv /\ [Crash!Next]_(Crash!signalVars) => Crash!SignalsInv'
  <2> SUFFICES ASSUME Crash!SignalsInv, [Crash!Next]_(Crash!signalVars) PROVE Crash!SignalsInv'
    OBVIOUS
  <2>1. CASE UNCHANGED Crash!signalVars
    BY <2>1
       DEF Crash!signalVars, Crash!SignalsInv, Crash!TypeOK, Crash!OneWorks, Crash!WorkDone,
        Crash!HasDone, Crash!NothingBefore,
      Crash!DumperStays, Crash!OneDump, Crash!DumpedAndFlushed
  <2>2. CASE Crash!Next
    <3>1. PICK t \in Threads : Crash!Handler(t) \/ \E signal \in Signals : Crash!Deliver(t, signal)
      BY <2>2 DEF Crash!Next
    <3>2. process.ended = "no"
      BY <2>2 DEF Crash!Next
    <3> QED
      BY <1>1, <3>1, <3>2, DeliverStep, SignalEnterStep, DumpStep, FlushStep, KillStep,
          SignalReturnStep
         DEF Crash!Handler
  <2> QED
    BY <2>1, <2>2
<1> QED
  BY <1>2, <1>3, PTL DEF Crash!Spec

\* The lines that are dumped are of one thread, in order, each once (DumpTimeInfo to
\* DumpSignalInfo, behind sync_val_compare_and_swap).
THEOREM DumpsOnce ==
  ASSUME Crash!SignalsAssumption
  PROVE  Crash!Spec => []Crash!OneDump
BY SignalsInvariant, PTL DEF Crash!SignalsInv

\* A process that the handler ends has dumped every line and flushed its logs.
THEOREM DumpsAndFlushes ==
  ASSUME Crash!SignalsAssumption
  PROVE  Crash!Spec => []Crash!DumpedAndFlushed
BY SignalsInvariant, PTL DEF Crash!SignalsInv

\* A thread that sleeps behind another one, or behind itself, has somebody to wait
\* for: the thread that dumps is in its handler until the process ends.
THEOREM SomebodyDumps ==
  ASSUME Crash!SignalsAssumption
  PROVE  Crash!Spec => [](process.ended = "no" /\ (\E t \in Threads : Crash!At(t, "sleep")) =>
                      entered \in Threads /\ \E pc \in Crash!Working \cup {"enter", "again", "sleep"} :
                                               Crash!At(entered, pc))
<1>1. Crash!SignalsInv => (process.ended = "no" /\ (\E t \in Threads : Crash!At(t, "sleep")) =>
                       entered \in Threads /\ \E pc \in Crash!Working \cup {"enter", "again", "sleep"} :
                                                Crash!At(entered, pc))
  <2> SUFFICES ASSUME Crash!SignalsInv, process.ended = "no", NEW t \in Threads, Crash!At(t, "sleep")
               PROVE  /\ entered \in Threads
                      /\ \E pc \in Crash!Working \cup {"enter", "again", "sleep"} : Crash!At(entered, pc)
    OBVIOUS
  <2> USE DEF Crash!SignalsInv
  <2>1. entered \in Threads
    BY Innermost DEF Crash!At, Crash!NothingBefore, Crash!TypeOK
  <2>2. frames[entered] # <<>>
    <3>1. CASE entered = NoThread
      BY <3>1, Innermost DEF Crash!At, Crash!NothingBefore
    <3> QED
      BY <3>1 DEF Crash!DumperStays
  <2> QED
    BY <2>1, <2>2, Innermost DEF Crash!At, Crash!Frame
<1> QED
  BY <1>1, SignalsInvariant, PTL
=============================================================================
