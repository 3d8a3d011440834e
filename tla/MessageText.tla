----------------------------- MODULE MessageText -----------------------------
(***************************************************************************)
(* The text of messages in buffers of fixed size: that of LOG, which is    *)
(* streamed into the buffer of its thread, or into one of its own while    *)
(* another LOG of the thread is being written, and is ended there for a    *)
(* moment by LogMessage::Flush; and that of RAW_LOG (raw_logging.cc),      *)
(* which is put together without memory or locks.                          *)
(***************************************************************************)
EXTENDS Integers, SequencesExt

CONSTANTS
  kMaxLogMessageLen,  \* of a message; its buffer has one character more
  PrefixLengths,      \* lengths of prefixes, 0 for none
  Chars,              \* that are streamed; Newline is one
  Newline,
  Prefix, Error, Nul, \* characters of a prefix and of RAW_LOG's own text; the end
  MaxNested,          \* bound: LOGs within each other
  MaxPuts,            \* bound: characters of a message
  kLogBufSize,        \* of RAW_LOG
  Lengths             \* of what RAW_LOG prints: of prefixes, texts and its own error

TextAssumption ==
  /\ kMaxLogMessageLen \in Nat /\ kMaxLogMessageLen >= 2
  /\ Newline \in Chars /\ kLogBufSize > 0

VARIABLES
  buffers,    \* the buffers: 0 is that of the thread
  available,  \* thread_data_available
  messages,   \* the LogMessages that are alive, inner last
  sent,       \* what the last Flush gave to files and to sinks
  raw         \* a RAW_LOG
vars == <<buffers, available, messages, sent, raw>>

Empty == [i \in 0 .. kMaxLogMessageLen |-> Nul]
NotSent == [file |-> <<>>, sink |-> <<>>, put |-> <<>>, prefix |-> 0, some |-> FALSE]
NoRaw == [text |-> <<>>, at |-> 0, size |-> kLogBufSize, step |-> "none", prefix |-> 0,
          length |-> 0, no_chop |-> TRUE]

Init ==
  /\ buffers = [b \in 0 .. MaxNested - 1 |-> Empty]
  /\ available = TRUE /\ messages = <<>> /\ sent = NotSent /\ raw = NoRaw

-----------------------------------------------------------------------------
(* LOG *)

\* LogStreamBuf leaves room for a newline and the end.
Capacity == kMaxLogMessageLen - 2

\* Faulty variant: the buffer of the thread, whoever uses it.
BufferShared == 0
\* LogMessage::Init: which buffer the message gets.
Buffer == IF available THEN 0 ELSE Len(messages)

Kept(n) == IF n < Capacity THEN n ELSE Capacity
Create(prefix) ==
  /\ Len(messages) < MaxNested /\ raw = NoRaw
  /\ messages' = Append(messages, [buffer |-> Buffer, allocated |-> ~available, put |-> <<>>,
                                   prefix |-> Kept(prefix), pcount |-> Kept(prefix)])
  /\ available' = FALSE
  /\ buffers' = [buffers EXCEPT ![Buffer] =
                   [i \in DOMAIN @ |-> IF i < Kept(prefix) THEN Prefix ELSE @[i]]]
  /\ sent' = NotSent /\ UNCHANGED raw

Top == messages[Len(messages)]
WithTop(message) == [messages EXCEPT ![Len(messages)] = message]

\* overflow: what does not fit is dropped without an error.
Put(ch) ==
  /\ messages # <<>> /\ Len(Top.put) < MaxPuts
  /\ LET fits == Top.pcount < Capacity
     IN  /\ messages' = WithTop([Top EXCEPT !.put = Append(@, ch),
                                            !.pcount = IF fits THEN @ + 1 ELSE @])
         /\ buffers' = IF fits THEN [buffers EXCEPT ![Top.buffer][Top.pcount] = ch]
                       ELSE buffers
  /\ sent' = NotSent /\ UNCHANGED <<available, raw>>

\* Flush.  Before an empty text are the high bits of preserved_errno_: no newline.
AppendNewline == Top.pcount = 0 \/ buffers[Top.buffer][Top.pcount - 1] # Newline
NumCharsToLog == IF AppendNewline THEN Top.pcount + 1 ELSE Top.pcount
Ended ==
  LET n == NumCharsToLog
  IN  [i \in 0 .. kMaxLogMessageLen |->
         IF i = n THEN Nul ELSE IF i = n - 1 THEN Newline ELSE buffers[Top.buffer][i]]
Text(buffer, from, to) == [i \in 1 .. to - from |-> buffer[from + i - 1]]

\* ~LogMessage: files get the whole line, sinks, strings and vectors what is between
\* the prefix and the newline.  The newline is taken back, the end is not.
Destroy ==
  /\ messages # <<>>
  /\ LET n == NumCharsToLog
     IN  sent' = [file |-> Text(Ended, 0, n), sink |-> Text(Ended, Top.prefix, n - 1),
                  put |-> Top.put, prefix |-> Top.prefix, some |-> TRUE]
  /\ buffers' = [buffers EXCEPT ![Top.buffer] =
                   IF Top.allocated THEN Empty
                   ELSE IF AppendNewline
                   THEN [Ended EXCEPT ![Top.pcount] = buffers[Top.buffer][Top.pcount]]
                   ELSE Ended]
  /\ available' = (IF Top.allocated THEN available ELSE TRUE)
  /\ messages' = Front(messages)
  /\ UNCHANGED raw

-----------------------------------------------------------------------------
(* RAW_LOG *)

\* vsnprintf of s at *buf, and what DoRawLog makes of what it returns.
Printed(s) ==
  IF raw.size = 0 THEN raw.text
  ELSE SubSeq(raw.text, 1, raw.at) \o
       SubSeq(s, 1, IF Len(s) < raw.size THEN Len(s) ELSE raw.size - 1)
NoOverflow(s) == Len(s) <= raw.size
DoRawLog(s, step) ==
  raw' = [raw EXCEPT !.text = Printed(s), !.step = step, !.no_chop = NoOverflow(s),
                     !.at = IF NoOverflow(s) THEN @ + Len(s) ELSE @,
                     !.size = IF NoOverflow(s) THEN @ - Len(s) ELSE @]
Repeat(ch, n) == [i \in 1 .. n |-> ch]

RawPrefix(prefix, length) ==
  /\ raw.step \in {"none", "done"} /\ messages = <<>>
  /\ raw' = [NoRaw EXCEPT
       !.prefix = prefix, !.length = length, !.step = "text",
       !.text = SubSeq(Repeat(Prefix, prefix), 1,
                       IF prefix < kLogBufSize THEN prefix ELSE kLogBufSize - 1),
       !.at = IF prefix <= kLogBufSize THEN prefix ELSE 0,
       !.size = IF prefix <= kLogBufSize THEN @ - prefix ELSE @]
  /\ sent' = NotSent /\ UNCHANGED <<buffers, available, messages>>
RawText ==
  /\ raw.step = "text" /\ DoRawLog(Repeat("m", raw.length), "end")
  /\ UNCHANGED <<buffers, available, messages, sent>>

\* "The Message was too long!" goes over its start.
ErrorLength == 3
RawEnd ==
  /\ raw.step = "end"
  /\ DoRawLog(IF raw.no_chop THEN <<Newline>>
              ELSE Append(Repeat(Error, ErrorLength - 1), Newline), "done")
  /\ UNCHANGED <<buffers, available, messages, sent>>

Next ==
  \/ \E prefix \in PrefixLengths : Create(prefix)
  \/ \E ch \in Chars : Put(ch)
  \/ Destroy
  \/ \E prefix, length \in Lengths : RawPrefix(prefix, length)
  \/ RawText \/ RawEnd

-----------------------------------------------------------------------------
(* Properties *)

\* logging.cc:1638, logging.h:1121: a message is in the files as it was streamed, as
\* far as it fits, and ends in one newline more only if it has none; sinks get
\* the same without prefix and newline; a LOG within it does not touch it.
Wanted ==
  LET room == Capacity - sent.prefix
      kept == SubSeq(sent.put, 1, IF Len(sent.put) < room THEN Len(sent.put) ELSE room)
  IN  IF kept # <<>> /\ Last(kept) = Newline THEN kept ELSE Append(kept, Newline)
TextWhole ==
  sent.some =>
    /\ sent.file = Repeat(Prefix, sent.prefix) \o Wanted
    /\ sent.sink = Front(Wanted)

\* logging.cc:1505: two messages that are alive have two buffers.
BuffersApart ==
  /\ \A i, j \in DOMAIN messages : i # j => messages[i].buffer # messages[j].buffer
  /\ available <=> messages = <<>>

\* raw_logging.cc:76-130: what is written to stderr ends within the buffer; it is
\* the whole line if that and its end fit; one character short of the end is lost
\* without notice, and of a longer text only the prefix and an error are left.
RawWhole ==
  LET line == raw.prefix + raw.length + 1
  IN  raw.step = "done" =>
        /\ Len(raw.text) < kLogBufSize
        /\ line < kLogBufSize =>
             raw.text = Repeat(Prefix, raw.prefix) \o Append(Repeat("m", raw.length), Newline)
        /\ raw.prefix + raw.length > kLogBufSize /\ raw.prefix + ErrorLength < kLogBufSize =>
             raw.text = Repeat(Prefix, raw.prefix)
                        \o Append(Repeat(Error, ErrorLength - 1), Newline)
        /\ line \in {kLogBufSize, kLogBufSize + 1} =>
             Newline \notin ToSet(raw.text) /\ Len(raw.text) = kLogBufSize - 1

MessagesWhole == TextWhole /\ BuffersApart /\ RawWhole
=============================================================================
