------------------------------- MODULE LogFile -------------------------------
(***************************************************************************)
(* The log file of one severity: class LogFileObject of                    *)
(* glog/src/logging.cc.                                                    *)
(*                                                                         *)
(* A file object is a record.  files holds what has become of every file   *)
(* that it created, oldest first: the name, the messages that were written *)
(* (numbers; the first is the header of the file, 0) and how many of them  *)
(* have left the buffer of the C library; file is the index of the open    *)
(* one, 0 if there is none.  All messages count as one unit of length.     *)
(* env is what the world says: the time, and whether the disk is full.     *)
(*                                                                         *)
(* Left out: files without a time in their names, the fork of the process, *)
(* symbolic links, advice to the kernel about its cache, and the limits of *)
(* one gigabyte in MaxLogSize.                                             *)
(***************************************************************************)
EXTENDS Integers, Sequences

CONSTANTS
  MaxLogSize,                 \* length at which a new file is begun
  kRolloverAttemptFrequency,  \* messages from one attempt to create to the next
  FlushBytes,                 \* unflushed length that forces a flush
  logbufsecs,                 \* age at which one does
  StopIfFullDisk,             \* the flag stop_logging_if_full_disk
  Dirs,                       \* default places for files, in order
  Writable                    \* the names under which files can be created

\* Names and extensions.  (That the empty one is a string is nothing provers know.)
Text == STRING \cup {""}

LogFileAssumption ==
  /\ MaxLogSize \in Nat \ {0, 1} /\ kRolloverAttemptFrequency \in Nat \ {0}
  /\ FlushBytes \in Nat \ {0} /\ logbufsecs \in Nat /\ StopIfFullDisk \in BOOLEAN
  /\ Dirs \in Seq(Text) /\ Dirs # <<>>
  /\ Writable \subseteq Text /\ "" \notin Writable

\* LogFileObject::LogFileObject, without a base name.
NewLogFile ==
  [selected |-> FALSE, name |-> "", ext |-> "", file |-> 0, files |-> <<>>, length |-> 0,
   since_flush |-> 0, attempt |-> kRolloverAttemptFrequency - 1, next_flush_time |-> 0]

\* What the C library does on fflush and fclose.
Flushed(f, env) ==
  IF f.file = 0 \/ env.full THEN f.files
  ELSE [f.files EXCEPT ![f.file].flushed = Len(f.files[f.file].data)]

Close(f, env) == [f EXCEPT !.files = Flushed(f, env), !.file = 0]

FlushUnlocked(f, env) ==
  [f EXCEPT !.files = Flushed(f, env),
            !.since_flush = IF f.file = 0 THEN @ ELSE 0,
            !.next_flush_time = env.now + logbufsecs]

\* Changing names closes the file.
Renamed(f, env) ==
  IF f.file = 0 THEN f
  ELSE [Close(f, env) EXCEPT !.attempt = kRolloverAttemptFrequency - 1]

SetBasename(f, env, basename) ==
  [IF f.name = basename THEN f ELSE [Renamed(f, env) EXCEPT !.name = basename]
     EXCEPT !.selected = TRUE]

SetExtension(f, env, ext) ==
  IF f.ext = ext THEN f ELSE [Renamed(f, env) EXCEPT !.ext = ext]

-----------------------------------------------------------------------------
(* LogFileObject::Write *)

\* It is turned off by an empty base name.
Off(f) == f.selected /\ f.name = ""

\* Faulty variants: the file may grow beyond the limit; the next attempt to
\* create a file waits though none has failed.
RolledOverLate(f, env) ==
  IF f.length <= MaxLogSize THEN f
  ELSE [Close(f, env) EXCEPT !.length = 0, !.since_flush = 0,
                             !.attempt = kRolloverAttemptFrequency - 1]
RolledOverWaiting(f, env) ==
  IF f.length < MaxLogSize THEN f
  ELSE [Close(f, env) EXCEPT !.length = 0, !.since_flush = 0]
RolledOver(f, env) ==
  IF f.length < MaxLogSize THEN f
  ELSE [Close(f, env) EXCEPT !.length = 0, !.since_flush = 0,
                             !.attempt = kRolloverAttemptFrequency - 1]

\* A file is new (O_EXCL), or there is none.
CanCreate(f, name, time) ==
  /\ name \in Writable
  /\ \A i \in DOMAIN f.files : f.files[i].id # <<name, f.ext, time>>

\* The names that are tried, up to the first that succeeds.
Tried(f, time) ==
  LET names == IF f.selected THEN <<f.name>> ELSE Dirs
      good == {i \in DOMAIN names : CanCreate(f, names[i], time)}
  IN SubSeq(names, 1, IF good = {} THEN Len(names)
                      ELSE CHOOSE i \in good : \A j \in good : i <= j)

\* CreateLogfile under one of them, and the header.
Created(f, time) ==
  LET tried == Tried(f, time)
      name == tried[Len(tried)]
  IN IF CanCreate(f, name, time)
     THEN [f EXCEPT !.name = name, !.attempt = 0, !.file = Len(f.files) + 1,
                    !.files = Append(@, [id |-> <<name, f.ext, time>>, data |-> <<0>>,
                                         flushed |-> 0]),
                    !.length = @ + 1, !.since_flush = @ + 1]
     ELSE [f EXCEPT !.name = name, !.attempt = 0]

Put(f, m) ==
  IF m = 0 THEN f            \* an empty message, written only for the flush
  ELSE [f EXCEPT !.files[f.file].data = Append(@, m), !.length = @ + 1,
                 !.since_flush = @ + 1]

\* Faulty variant: only a full buffer or time flushes.
FlushDueUnforced(force_flush, f, env) ==
  f.since_flush >= FlushBytes \/ env.now >= f.next_flush_time
FlushDue(force_flush, f, env) ==
  force_flush \/ f.since_flush >= FlushBytes \/ env.now >= f.next_flush_time

\* The file object, stop_writing and why the message was lost, if it was.
Result(f, stop, lost) == [f |-> f, stop |-> stop, lost |-> lost]

Output(f, env, stop_writing, force_flush, m) ==
  IF stop_writing
    THEN Result(f, env.now < f.next_flush_time, "stopped")
  ELSE IF StopIfFullDisk /\ env.full /\ m # 0
    THEN Result(f, TRUE, "full")
  ELSE LET g == Put(f, m)
       IN Result(IF FlushDue(force_flush, g, env) THEN FlushUnlocked(g, env) ELSE g,
                 FALSE, "")

Write(f, env, stop_writing, force_flush, time, m) ==
  LET r == RolledOver(f, env)
      a == [r EXCEPT !.attempt = @ + 1]
      c == Created(a, time)
  IN IF Off(f) THEN Result(f, stop_writing, "off")
     ELSE IF r.file # 0 THEN Output(r, env, stop_writing, force_flush, m)
     ELSE IF a.attempt # kRolloverAttemptFrequency THEN Result(a, stop_writing, "waiting")
     ELSE IF c.file = 0 THEN Result(c, stop_writing, "no_file")
     ELSE Output(c, env, stop_writing, force_flush, m)

-----------------------------------------------------------------------------
(* What a reader of the files sees *)

\* Where messages are: the file, and the position in it after the header.
Positions(f) ==
  UNION {{i} \X (2 .. Len(f.files[i].data)) : i \in DOMAIN f.files}
MessageAt(f, p) == f.files[p[1]].data[p[2]]
HasMessage(f, m) == \E p \in Positions(f) : MessageAt(f, p) = m
Earlier(p, q) == p[1] < q[1] \/ (p[1] = q[1] /\ p[2] < q[2])

\* Those that have not left the buffer of the C library.
Unflushed(f) == {p \in Positions(f) : p[2] > f.files[p[1]].flushed}

\* No file is longer than the limit.
SizeBound(f) == \A i \in DOMAIN f.files : Len(f.files[i].data) <= MaxLogSize

-----------------------------------------------------------------------------
(* The inductive invariant of a file object *)

OneFile == [id : Text \X Text \X Nat, data : Seq(Nat), flushed : Nat]
FileObject ==
  [selected : BOOLEAN, name : Text, ext : Text, file : Nat, files : Seq(OneFile),
   length : Nat, since_flush : Nat, attempt : Nat, next_flush_time : Nat]

\* The open file is the last one, is not longer than file_length_ says, and was
\* created under a name.
FileInv(f) ==
  /\ f \in FileObject /\ SizeBound(f)
  /\ \A i \in DOMAIN f.files : f.files[i].data # <<>>
  /\ f.attempt < kRolloverAttemptFrequency
  /\ f.file # 0 => /\ f.file = Len(f.files) /\ f.name # ""
                   /\ Len(f.files[f.file].data) <= f.length

\* Files that were closed have left the buffer.
ClosedFlushed(f) == \A p \in Unflushed(f) : p[1] = f.file
=============================================================================
