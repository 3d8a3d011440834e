--------------------------- MODULE DirectoryStream ---------------------------
(***************************************************************************)
(* The directory streams that glog brings to Windows (windows/dirent.h):   *)
(* opendir, readdir, rewinddir and closedir over a search handle of the    *)
(* system, and scandir over them.                                          *)
(*                                                                         *)
(* A name is a number; 0 stands for "?".  Any call of the system that may  *)
(* fail does so when the reader of the program expects it least: each      *)
(* operation is given the call that fails, or None.                        *)
(***************************************************************************)
EXTENDS Integers, SequencesExt

CONSTANTS
  Directories,  \* contents a directory may have: sequences of files
  Narrow,       \* names that can be converted to a multi-byte string
  Filters,      \* what a filter of scandir lets pass: sets of names
  None,         \* no call fails
  MaxSearches,  \* bound: search handles that a behaviour opens
  MaxReads      \* bound: entries that are read from a stream

DirectoryAssumption ==
  /\ \A directory \in Directories : \A file \in ToSet(directory) :
       DOMAIN file = {"name", "alternate", "attributes"}
  /\ MaxSearches \in Nat /\ MaxReads \in Nat

VARIABLES
  disk,      \* what the directory contains now
  stream,    \* the DIR or _WDIR the program has; handle 0 is INVALID_HANDLE_VALUE
  searches,  \* the handles the system gave: what each lists, and how far it is
  live,      \* memory that is allocated
  scan,      \* the scandir that runs
  seen       \* what readdir returned since the stream was opened or rewound
vars == <<disk, stream, searches, live, scan, seen>>

NotScanning ==
  [pc |-> "idle", files |-> <<>>, allocated |-> 0, tmp |-> FALSE, result |-> 0,
   filter |-> {}]
NoStream == [open |-> FALSE, wide |-> FALSE, handle |-> 0, cached |-> FALSE, data |-> 0]
NothingSeen == [entries |-> <<>>, ended |-> FALSE, failed |-> FALSE]

Init ==
  /\ disk \in Directories
  /\ stream = NoStream /\ searches = <<>> /\ live = {} /\ scan = NotScanning
  /\ seen = NothingSeen

\* Others create and remove files; a handle lists what was there when it was opened.
Change ==
  /\ disk' \in Directories /\ disk' # disk
  /\ UNCHANGED <<stream, searches, live, scan, seen>>

-----------------------------------------------------------------------------
(* The search handle *)

\* dirent_first: a handle, and its first entry waiting in memory.
FirstEntry(dir, error) ==
  IF error = None THEN [dir EXCEPT !.handle = Len(searches) + 1, !.cached = TRUE, !.data = 1]
  ELSE [dir EXCEPT !.handle = 0, !.cached = FALSE]
Found(handles, error) ==
  IF error = None THEN Append(handles, [files |-> disk, open |-> TRUE]) ELSE handles

\* A search of nothing finds nothing: the system reports that as an error.
FindErrors ==
  (IF disk = <<>> THEN {} ELSE {None}) \cup {"ACCESS_DENIED", "DIRECTORY", "PATH_NOT_FOUND"}

\* Faulty variant: the handle is forgotten.
ReleasedNot(handle) == searches
\* FindClose.
Released(handle) ==
  IF handle = 0 THEN searches ELSE [searches EXCEPT ![handle].open = FALSE]

\* dirent_next: the stream after it, the entry or 0, and whether the handle goes.
FilesOf(dir) == searches[dir.handle].files
Waiting(dir) == [dir |-> [dir EXCEPT !.cached = FALSE], entry |-> dir.data, close |-> FALSE]
NextEntry(dir, fails) ==
  IF dir.cached THEN Waiting(dir)
  ELSE IF dir.handle = 0 THEN [dir |-> dir, entry |-> 0, close |-> FALSE]
  ELSE IF dir.data < Len(FilesOf(dir)) /\ ~fails
    THEN [dir |-> [dir EXCEPT !.data = @ + 1], entry |-> dir.data + 1, close |-> FALSE]
  ELSE [dir |-> [dir EXCEPT !.handle = 0], entry |-> 0, close |-> TRUE]

-----------------------------------------------------------------------------
(* Entries *)

TypeOf(attributes) ==
  CASE "DEVICE" \in attributes -> "DT_CHR"
    [] "DEVICE" \notin attributes /\ "DIRECTORY" \in attributes -> "DT_DIR"
    [] OTHER -> "DT_REG"

\* _wreaddir_r
WideEntry(file) == [name |-> file.name, type |-> TypeOf(file.attributes)]

\* readdir_r: the short name of a file whose name cannot be converted, if it has one.
NarrowEntry(file) ==
  IF file.name \in Narrow THEN WideEntry(file)
  ELSE IF file.alternate \in Narrow
    THEN [name |-> file.alternate, type |-> TypeOf(file.attributes)]
  ELSE [name |-> 0, type |-> "DT_UNKNOWN"]

EntryOf(dir, file) == IF dir.wide THEN WideEntry(file) ELSE NarrowEntry(file)

-----------------------------------------------------------------------------
(* Streams *)

OpenCalls ==
  {"name", "malloc DIR", "mbstowcs", "malloc _WDIR", "malloc patt", "GetFullPathName"}
WideCalls == OpenCalls \ {"malloc DIR", "mbstowcs"}

\* Pieces of memory.
Memory(kinds) == {<<kind, 0>> : kind \in kinds}
Entry(i) == <<"dirent", i>>
EntriesOf(n) == {Entry(i) : i \in 1 .. n}
TmpEntry == Entry(0)

\* _wclosedir
WideFreed(memory) == memory \ Memory({"_WDIR", "patt"})

\* _wopendir: what is allocated when it returns; nothing if that is NULL.
WideMemory(error) ==
  IF error = None THEN Memory({"_WDIR", "patt"})
  ELSE IF error \in {"name", "malloc _WDIR"} THEN {}
  ELSE WideFreed(Memory({"_WDIR"} \cup IF error = "malloc patt" THEN {} ELSE {"patt"}))

\* opendir
OpenMemory(wide, error) ==
  IF wide THEN WideMemory(error)
  ELSE IF error \in {"name", "malloc DIR", "mbstowcs"} \/ WideMemory(error) = {} THEN {}
  ELSE Memory({"DIR"}) \cup WideMemory(error)

NewStream(wide) == [NoStream EXCEPT !.open = TRUE, !.wide = wide]

\* The stream that opendir returns, as the program or scandir sees it.
Opened(wide, error) ==
  /\ stream' = (IF error = None THEN FirstEntry(NewStream(wide), None) ELSE NoStream)
  /\ searches' = Found(searches, error)
  /\ live' = live \cup OpenMemory(wide, error)
OpenErrors(wide) == (IF wide THEN WideCalls ELSE OpenCalls) \cup FindErrors

Open(wide, error) ==
  /\ ~stream.open /\ scan.pc = "idle" /\ live = {} /\ Len(searches) < MaxSearches
  /\ error \in OpenErrors(wide)
  /\ Opened(wide, error)
  /\ seen' = NothingSeen
  /\ UNCHANGED <<disk, scan>>

\* readdir.  It cannot tell an error of FindNextFile from the end.
Read(fails) ==
  /\ stream.open /\ scan.pc = "idle" /\ Len(seen.entries) < MaxReads
  /\ \E next \in {NextEntry(stream, fails)} :
       /\ stream' = next.dir
       /\ searches' = (IF next.close THEN Released(stream.handle) ELSE searches)
       /\ seen' = IF next.entry = 0
                  THEN [seen EXCEPT !.ended = TRUE,
                                    !.failed = @ \/ (fails /\ next.close)]
                  ELSE [seen EXCEPT !.entries =
                          Append(@, EntryOf(stream, FilesOf(stream)[next.entry]))]
  /\ UNCHANGED <<disk, live, scan>>

\* rewinddir: it may be that nothing can be opened, which looks like the end.
Rewind(error) ==
  /\ stream.open /\ scan.pc = "idle" /\ Len(searches) < MaxSearches
  /\ error \in FindErrors
  /\ searches' = Found(Released(stream.handle), error)
  /\ stream' = FirstEntry(stream, error)
  /\ seen' = [NothingSeen EXCEPT !.failed = (error # None)]
  /\ UNCHANGED <<disk, live, scan>>

\* closedir
Closed ==
  /\ searches' = Released(stream.handle)
  /\ stream' = NoStream

Close ==
  /\ stream.open /\ scan.pc = "idle"
  /\ Closed
  /\ live' = WideFreed(live) \ Memory({"DIR"})
  /\ seen' = NothingSeen
  /\ UNCHANGED <<disk, scan>>

-----------------------------------------------------------------------------
(* scandir *)

\* Before it returns, scandir frees the entry it has not used, all of the result when
\* it is an error, and the stream.
Kept(result, memory) ==
  IF result >= 0 THEN memory \ {TmpEntry}
  ELSE memory \ ({TmpEntry} \cup Memory({"table"}) \cup EntriesOf(Len(scan.files)))
Finish(result, memory) ==
  /\ scan' = [scan EXCEPT !.pc = "done", !.result = result, !.tmp = FALSE,
                          !.files = IF result < 0 THEN <<>>
                                    ELSE SortSeq(@, LAMBDA a, b : a.name < b.name)]
  /\ live' = WideFreed(Kept(result, memory)) \ Memory({"DIR"})

Scan(filter, error) ==
  /\ ~stream.open /\ scan.pc = "idle" /\ live = {} /\ Len(searches) < MaxSearches
  /\ error \in OpenErrors(FALSE)
  /\ Opened(FALSE, error)
  /\ scan' = [NotScanning EXCEPT !.pc = (IF error = None THEN "grow" ELSE "done"),
                                 !.result = (IF error = None THEN 0 ELSE -1),
                                 !.filter = filter]
  /\ seen' = NothingSeen
  /\ UNCHANGED disk

\* The table of pointers doubles when it is full.
ScanGrow(fails) ==
  /\ scan.pc = "grow" /\ UNCHANGED <<disk, seen>>
  /\ \/ /\ Len(scan.files) < scan.allocated
        /\ scan' = [scan EXCEPT !.pc = "allocate"]
        /\ UNCHANGED <<stream, searches, live>>
     \/ /\ Len(scan.files) >= scan.allocated /\ ~fails
        /\ scan' = [scan EXCEPT !.pc = "allocate",
                                !.allocated = IF @ < 1 THEN 1 ELSE 2 * Len(scan.files)]
        /\ live' = live \cup Memory({"table"})
        /\ UNCHANGED <<stream, searches>>
     \/ /\ Len(scan.files) >= scan.allocated /\ fails
        /\ Finish(-1, live) /\ Closed

ScanAllocate(fails) ==
  /\ scan.pc = "allocate" /\ UNCHANGED <<disk, seen>>
  /\ \/ /\ scan.tmp \/ ~fails
        /\ scan' = [scan EXCEPT !.pc = "read", !.tmp = TRUE]
        /\ live' = live \cup {TmpEntry}
        /\ UNCHANGED <<stream, searches>>
     \/ /\ ~scan.tmp /\ fails
        /\ Finish(-1, live) /\ Closed

\* An entry that passes the filter keeps its memory; the next one needs new memory.
Stored(entry) ==
  /\ scan' = [scan EXCEPT !.pc = "grow", !.tmp = FALSE, !.files = Append(@, entry)]
  /\ live' = (live \ {TmpEntry}) \cup {Entry(Len(scan.files) + 1)}
ScanRead(fails) ==
  /\ scan.pc = "read" /\ UNCHANGED disk
  /\ \E next \in {NextEntry(stream, fails)} :
       \/ /\ next.entry # 0
          /\ \E entry \in {NarrowEntry(FilesOf(stream)[next.entry])} :
               /\ seen' = [seen EXCEPT !.entries = Append(@, entry)]
               /\ IF entry.name \in scan.filter THEN Stored(entry)
                  ELSE scan' = [scan EXCEPT !.pc = "grow"] /\ UNCHANGED live
          /\ stream' = next.dir /\ UNCHANGED searches
       \/ /\ next.entry = 0
          /\ seen' = [seen EXCEPT !.ended = TRUE, !.failed = fails /\ next.close]
          /\ Finish(Len(scan.files), live)
          /\ stream' = NoStream
          /\ searches' = Released(stream.handle)

\* The caller frees what it was given.
ScanFree ==
  /\ scan.pc = "done"
  /\ live' = live \ (Memory({"table"}) \cup EntriesOf(Len(scan.files)))
  /\ scan' = NotScanning /\ seen' = NothingSeen
  /\ UNCHANGED <<disk, stream, searches>>

Next ==
  \/ Change
  \/ \E wide \in BOOLEAN, error \in OpenCalls \cup FindErrors : Open(wide, error)
  \/ \E fails \in BOOLEAN : Read(fails)
  \/ \E error \in FindErrors : Rewind(error)
  \/ Close
  \/ \E filter \in Filters, error \in OpenCalls \cup FindErrors : Scan(filter, error)
  \/ \E fails \in BOOLEAN : ScanGrow(fails) \/ ScanAllocate(fails) \/ ScanRead(fails)
  \/ ScanFree

-----------------------------------------------------------------------------
(* Properties *)

LastSearch == searches[Len(searches)].files
Converted(files, wide) ==
  [i \in 1 .. Len(files) |-> IF wide THEN WideEntry(files[i]) ELSE NarrowEntry(files[i])]

\* dirent.h:333-870: readdir returns the entries that were there when the stream
\* was opened or rewound, each once and in order, whatever was read before, and
\* the end only after the last of them or an error.
ReadsInOrder ==
  stream.open /\ searches # <<>> =>
    \E all \in {Converted(LastSearch, stream.wide)} :
      /\ IsPrefix(seen.entries, all)
      /\ seen.ended => seen.failed \/ seen.entries = all

\* dirent.h:333-1022: whichever call fails, what was allocated is freed, and a
\* handle is open exactly while a stream holds it and has entries to read.
NothingLeaks ==
  /\ \A i \in 1 .. Len(searches) :
       searches[i].open <=> stream.open /\ stream.handle = i
  /\ ~stream.open /\ scan.pc = "idle" => live = {}
  /\ scan.pc = "done" =>
       /\ ~stream.open
       /\ live = IF scan.result < 0 THEN {}
                 ELSE Memory({"table"}) \cup EntriesOf(scan.result)

\* dirent.h:872-1022: scandir gives the entries that pass the filter, sorted, in a
\* table that has room for them.
ScansExactly ==
  /\ scan.pc \in {"allocate", "read"} => Len(scan.files) < scan.allocated
  /\ scan.pc = "done" /\ scan.result >= 0 =>
       /\ scan.result = Len(scan.files)
       /\ \A i \in 1 .. Len(scan.files) - 1 : scan.files[i].name <= scan.files[i + 1].name
       /\ \A entry \in ToSet(seen.entries) :
            entry.name \in scan.filter =>
              Cardinality({i \in DOMAIN scan.files : scan.files[i] = entry}) =
              Cardinality({i \in DOMAIN seen.entries : seen.entries[i] = entry})
       /\ \A i \in DOMAIN scan.files :
            scan.files[i] \in ToSet(seen.entries) /\ scan.files[i].name \in scan.filter
       /\ ~seen.failed => seen.entries = Converted(LastSearch, FALSE)

StreamsRight == ReadsInOrder /\ NothingLeaks /\ ScansExactly
=============================================================================
