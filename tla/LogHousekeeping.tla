---------------------------- MODULE LogHousekeeping ----------------------------
(***************************************************************************)
(* What keeps the places of log files in order: class LogCleaner,          *)
(* TruncateLogFile, the directories for files and the words that are       *)
(* handed to a shell, all of glog/src/logging.cc.                          *)
(*                                                                         *)
(* A name is a directory, a base (as sequences of characters) and what     *)
(* follows them.  The contents of a file are numbers, the n-th byte that   *)
(* was ever written to it is n.                                            *)
(***************************************************************************)
EXTENDS Integers, SequencesExt

CONSTANTS
  Dirs, Bases,        \* directories, and bases of names of files
  Endings,            \* what may follow a base: sequences of characters
  Ages, OverdueDays,  \* days since a file was modified, and the limit
  Environments,       \* what TEST_TMPDIR, TMPDIR and TMP may be
  Existing,           \* sets of directories that exist
  LogDirs,            \* values of the flag log_dir, "" if it is not set
  Words,              \* words for the shell
  Sizes, Limits, Keeps, BlockSize, MaxAppends

HousekeepingAssumption ==
  /\ OverdueDays \in Nat \ {0} /\ BlockSize \in Nat \ {0} /\ MaxAppends \in Nat
  /\ Sizes \subseteq Nat /\ Limits \subseteq Nat /\ Keeps \subseteq Nat

VARIABLES
  job,   \* what is done
  dir,   \* the files of a directory, for the cleaner
  file   \* a file that is truncated, and where the copying is

houseVars == <<job, dir, file>>

-----------------------------------------------------------------------------
(* LogCleaner: dir is a set of [in, base, ending, age] *)

\* IsLogFromCurrentProject: what follows the name must go on like
\* YYYYMMDD-HHMMSS.pid, digits (0) and marks at their places.
\* Faulty variant: anything may follow.
RightAtAlways(i, c) == TRUE
RightAt(i, c) == c = (CASE i = 9 -> "-" [] i = 16 -> "." [] OTHER -> "0")

IsLogFromCurrentProject(f, in, base) ==
  /\ f.in = in /\ f.base = base
  /\ \A i \in DOMAIN f.ending : RightAt(i, f.ending[i])

IsLogLastModifiedOver(f) == f.age > OverdueDays

\* Run: in the directory of a base that was selected, or in all default ones; but
\* the base has the directory of the open file in it.
RunLogCleaner ==
  /\ job.kind = "clean" /\ ~job.done
  /\ dir' = {f \in dir :
               ~(/\ f.in \in (IF job.selected THEN {job.in} ELSE Dirs)
                 /\ IsLogFromCurrentProject(f, job.in, job.base)
                 /\ IsLogLastModifiedOver(f))}
  /\ job' = [job EXCEPT !.done = TRUE]
  /\ UNCHANGED file

-----------------------------------------------------------------------------
(* GetLoggingDirectories, GetTempDirectories, GetExistingTempDirectories *)

\* The candidates up to the first that exists; NULL is a variable that is not set.
NULL == "NULL"
GetTempDirectories(environment, exist) ==
  LET set == SelectSeq(environment \o <<"/tmp">>, LAMBDA d : d # NULL)
      good == {i \in DOMAIN set : set[i] \in exist}
  IN IF good = {} THEN set ELSE SubSeq(set, 1, CHOOSE i \in good : \A j \in good : i <= j)

GetLoggingDirectories(log_dir, environment, exist) ==
  IF log_dir # "" THEN <<log_dir>>
  ELSE Append(GetTempDirectories(environment, exist), "./")

GetExistingTempDirectories(environment, exist) ==
  SelectSeq(GetTempDirectories(environment, exist), LAMBDA d : d \in exist)

-----------------------------------------------------------------------------
(* ShellEscape.  The characters that a shell reads are named. *)

Single == "quote"
Double == "doublequote"
Backslash == "backslash"
Dollar == "dollar"
Backtick == "backtick"
Blank == "blank"
Letter == "letter"        \* stands for all of kDontNeedShellEscapeChars

\* Faulty variant: the backslash itself is not escaped.
EscapedInQuotesFew == {Dollar, Double, Backtick}
EscapedInQuotes == {Backslash, Dollar, Double, Backtick}

EscapedChar(c) == IF c \in EscapedInQuotes THEN <<Backslash, c>> ELSE <<c>>

ShellEscape(src) ==
  IF src # <<>> /\ \A i \in DOMAIN src : src[i] = Letter THEN src
  ELSE IF \A i \in DOMAIN src : src[i] # Single THEN <<Single>> \o src \o <<Single>>
  ELSE <<Double>> \o FlattenSeq([i \in DOMAIN src |-> EscapedChar(src[i])]) \o <<Double>>

-----------------------------------------------------------------------------
(* TruncateLogFile: [content, appended, open, read_offset, write_offset, block] *)

ContentOf(n) == [i \in 1 .. n |-> i]

\* Only a file that is larger than both is truncated.
NeedsTruncation == Len(file.content) > job.limit /\ Len(file.content) > job.keep

OpenFile ==
  /\ job.kind = "truncate" /\ file.pc = "open"
  /\ file' = [file EXCEPT !.pc = IF NeedsTruncation THEN "read" ELSE "closed",
                          !.read_offset = Len(file.content) - job.keep]
  /\ UNCHANGED <<job, dir>>

\* pread of one block; it ends at the end of the file.
ReadBlock ==
  LET size == Len(file.content)
      end == file.read_offset + BlockSize
      block == SubSeq(file.content, file.read_offset + 1, IF end < size THEN end ELSE size)
  IN /\ file.pc = "read"
     /\ file' = [file EXCEPT !.block = block,
                             !.pc = IF block = <<>> THEN "cut" ELSE "write"]
     /\ UNCHANGED <<job, dir>>

Overwritten(content, offset, block) ==
  [i \in 1 .. Len(content) |->
     IF i \in offset + 1 .. offset + Len(block) THEN block[i - offset] ELSE content[i]]

\* pwrite of n bytes of it; the offsets go on by what was read and written.
\* Faulty variant: both go on by what was read.
NextWriteTogether(n) == file.write_offset + Len(file.block)
NextWrite(n) == file.write_offset + n

WriteBlock(n) ==
  /\ file.pc = "write" /\ n \in 1 .. Len(file.block)
  /\ file' = [file EXCEPT
                !.content = Overwritten(@, file.write_offset, SubSeq(file.block, 1, n)),
                !.read_offset = @ + Len(file.block), !.write_offset = NextWrite(n), !.pc = "read",
                !.whole = @ /\ n = Len(file.block)]
  /\ UNCHANGED <<job, dir>>

\* A pwrite that fails ends the loop.
WriteFails ==
  /\ file.pc = "write" /\ file' = [file EXCEPT !.pc = "cut", !.whole = FALSE]
  /\ UNCHANGED <<job, dir>>

\* ftruncate to what was written.
Cut ==
  /\ file.pc = "cut"
  /\ file' = [file EXCEPT !.content = SubSeq(@, 1, file.write_offset), !.pc = "closed",
                          !.lost = @ \cup {file.content[i] :
                                      i \in file.read_offset + 1 .. Len(file.content)}]
  /\ UNCHANGED <<job, dir>>

\* Another writer appends to the file meanwhile.
OthersAppend ==
  /\ job.kind = "truncate" /\ file.pc \in {"read", "write", "cut"}
  /\ file.written < job.size + MaxAppends
  /\ file' = [file EXCEPT !.content = Append(@, file.written + 1), !.written = @ + 1]
  /\ UNCHANGED <<job, dir>>

-----------------------------------------------------------------------------
Files == [in : Dirs, base : Bases, ending : Endings, age : Ages]

NoFile == [pc |-> "closed", content |-> <<>>]
NewFile(n) ==
  [pc |-> "open", content |-> ContentOf(n), written |-> n, whole |-> TRUE, lost |-> {},
   read_offset |-> 0, write_offset |-> 0, block |-> <<>>]

Init ==
  \/ /\ job \in [kind : {"clean"}, selected : BOOLEAN, in : Dirs, base : Bases, done : {FALSE}]
     /\ dir = Files /\ file = NoFile
  \/ /\ job \in [kind : {"truncate"}, size : Sizes, limit : Limits, keep : Keeps]
     /\ dir = {} /\ file = NewFile(job.size)
  \/ /\ job \in [kind : {"dirs"}, log_dir : LogDirs, env : Environments, exist : Existing]
     /\ dir = {} /\ file = NoFile
  \/ /\ job \in [kind : {"escape"}, word : Words]
     /\ dir = {} /\ file = NoFile

Next ==
  \/ RunLogCleaner
  \/ OpenFile \/ ReadBlock \/ WriteFails \/ Cut \/ OthersAppend
  \/ \E n \in 1 .. BlockSize : WriteBlock(n)

-----------------------------------------------------------------------------
(* Properties *)

\* How the names of log files end: YYYYMMDD-HHMMSS.pid, with a digit of pid at
\* least.
Digits(n) == [i \in 1 .. n |-> "0"]
NameEnd(pid) == Digits(8) \o <<"-">> \o Digits(6) \o <<".">> \o Digits(pid)

\* LogCleaner: in the directory of its log, all old files of this program go;
\* nothing goes that is young, or whose name does not begin as one of them.
CleanedRight ==
  job.kind = "clean" /\ job.done =>
    \A f \in Files :
      /\ f \notin dir =>
           /\ f.age > OverdueDays /\ f.in = job.in /\ f.base = job.base
           /\ \E pid \in 1 .. Len(f.ending) + 1 : IsPrefix(f.ending, NameEnd(pid))
      /\ f.in = job.in /\ f.base = job.base /\ f.age > OverdueDays
           /\ (\E pid \in 1 .. Len(f.ending) : f.ending = NameEnd(pid))
         => f \notin dir

\* "Copy the last keep bytes of the file to the beginning": what is left is in
\* order, the end of what was there; only writes that fail or are short, and
\* what others wrote behind the last read, are missing.
TruncatedRight ==
  job.kind = "truncate" /\ file.pc = "closed" =>
    LET c == file.content
    IN /\ \A i, j \in DOMAIN c : i < j => c[i] < c[j]
       /\ (job.size <= job.limit \/ job.size <= job.keep) => c = ContentOf(job.size)
       /\ job.size > job.limit /\ job.size > job.keep =>
            /\ \A i \in DOMAIN c : c[i] > job.size - job.keep
            /\ file.whole =>
                 {c[i] : i \in DOMAIN c} = (job.size - job.keep + 1 .. file.written) \ file.lost

\* The first default directory for logs is one that exists if any does that is
\* tried, and all that exist are listed.
DirectoriesRight ==
  job.kind = "dirs" =>
    LET temp == GetTempDirectories(job.env, job.exist)
        existing == GetExistingTempDirectories(job.env, job.exist)
    IN /\ Len(existing) <= 1
       /\ existing # <<>> => existing[1] = temp[Len(temp)]
       /\ \A i \in DOMAIN job.env : job.env[i] \in job.exist => existing # <<>>
       /\ GetLoggingDirectories(job.log_dir, job.env, job.exist) # <<>>

\* How a shell reads a word, character by character: the quotes it is in, whether
\* the last one was a backslash, the text so far, and whether it is one word.
ReadChar(r, c) ==
  LET Take == [r EXCEPT !.escaped = FALSE, !.text = Append(@, c)]
  IN IF r.escaped
     THEN IF r.in = Double /\ c \notin {Backslash, Dollar, Double, Backtick}
          THEN [r EXCEPT !.escaped = FALSE, !.text = @ \o <<Backslash, c>>]
          ELSE Take
     ELSE IF c = r.in THEN [r EXCEPT !.in = ""]
     ELSE IF r.in = Single THEN Take
     ELSE IF c = Backslash THEN [r EXCEPT !.escaped = TRUE]
     ELSE IF r.in = "" /\ c \in {Single, Double} THEN [r EXCEPT !.in = c]
     ELSE IF c \in {Dollar, Backtick} \/ (r.in = "" /\ c = Blank) THEN [r EXCEPT !.word = FALSE]
     ELSE Take

Unquoted(w) ==
  FoldLeft(ReadChar, [in |-> "", escaped |-> FALSE, text |-> <<>>, word |-> TRUE], w)

\* What a shell makes of an escaped word is the word.
EscapedRight ==
  job.kind = "escape" =>
    LET r == Unquoted(ShellEscape(job.word))
    IN r.word /\ r.in = "" /\ ~r.escaped /\ r.text = job.word /\ ShellEscape(job.word) # <<>>

HouseInOrder == CleanedRight /\ TruncatedRight /\ DirectoriesRight /\ EscapedRight
=============================================================================
