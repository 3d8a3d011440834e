------------------------------ MODULE Symbolizer ------------------------------
(***************************************************************************)
(* From an address to the name of a function, without the C library:       *)
(* glog/src/symbolize.cc.  LineReader reads /proc/self/maps by lines;      *)
(* SymbolizeAndDemangle goes through the lines to the map of the address   *)
(* and looks into the symbol tables of its file.                           *)
(*                                                                         *)
(* A text is a sequence of characters, 0 is the line feed.  An object has  *)
(* segments (with the offset in the file, 0 for the one with the ELF       *)
(* header), the types of its sections and two tables of symbols.           *)
(*                                                                         *)
(* Left out: malformed lines of the maps, files that are cut while they    *)
(* are read, callbacks, and demangling.                                    *)
(***************************************************************************)
EXTENDS Integers, SequencesExt

CONSTANTS
  Texts, BufferSizes,   \* what is read by lines, into what
  Objects,              \* objects by name
  Images,               \* sequences of [object, bias, anonymous]: what is loaded where
  Pcs,                  \* addresses
  OutSizes,             \* sizes of the buffer for the name
  Batch                 \* headers or symbols that are read at once

SymbolizerAssumption ==
  /\ Batch \in Nat \ {0} /\ BufferSizes \subseteq Nat \ {0} /\ OutSizes \subseteq Nat
  /\ \A t \in Texts : \A i \in DOMAIN t : t[i] \in Nat

LF == 0
SYMTAB == "SYMTAB"
DYNSYM == "DYNSYM"

VARIABLES
  reader,   \* a LineReader, the lines it returned and where ReadFromOffset is
  search    \* a search for a symbol

symbolVars == <<reader, search>>

-----------------------------------------------------------------------------
(* LineReader *)

\* buf_ up to eod_; bol_ and eol_ are places in it.
NewReader(text, buf_len) ==
  [text |-> text, buf_len |-> buf_len, offset |-> 0, buf |-> <<>>, bol |-> 1, eol |-> 0,
   got |-> 0, pc |-> "call", lines |-> <<>>, error |-> FALSE]

LineFeeds(r) == {i \in r.bol .. Len(r.buf) : r.buf[i] = LF}

\* A line is there: it ends where the first line feed is.
TakeLine(r) ==
  IF LineFeeds(r) = {} THEN [r EXCEPT !.pc = "ended"]
  ELSE LET eol == CHOOSE i \in LineFeeds(r) : \A j \in LineFeeds(r) : i <= j
       IN [r EXCEPT !.eol = eol, !.pc = "call",
                    !.lines = Append(@, SubSeq(r.buf, r.bol, eol - 1))]

\* ReadLine: with no whole line in the buffer, what is left moves to its start and
\* the buffer is filled.
ReadLine ==
  LET next == [reader EXCEPT !.bol = reader.eol + 1]
      rest == SubSeq(reader.buf, next.bol, Len(reader.buf))
  IN /\ reader.pc = "call"
     /\ reader' = IF reader.buf # <<>> /\ LineFeeds(next) # {} THEN TakeLine(next)
                  ELSE [next EXCEPT !.buf = rest, !.bol = 1, !.got = 0, !.pc = "read"]
     /\ UNCHANGED search

Wanted == reader.buf_len - Len(reader.buf)
Left == Len(reader.text) - reader.offset

\* Faulty variant: a read that is short ends the reading.
ReadAgainNever(r) == FALSE
ReadAgain(r) == r.buf_len > Len(r.buf)

\* pread in ReadFromOffset returns n bytes, at most what is there.  After an
\* interruption it is called again, so that it is as if there was none.
Pread(n) ==
  LET r == [reader EXCEPT !.offset = @ + n, !.got = @ + n,
              !.buf = @ \o SubSeq(reader.text, reader.offset + 1, reader.offset + n)]
  IN /\ reader.pc = "read" /\ n <= Wanted /\ n <= Left
     /\ n = 0 => Wanted = 0 \/ Left = 0
     /\ reader' = IF n > 0 /\ ReadAgain(r) THEN r
                  ELSE IF r.got = 0 THEN [r EXCEPT !.pc = "ended"]
                  ELSE TakeLine(r)
     /\ UNCHANGED search

PreadFails ==
  /\ reader.pc = "read"
  /\ reader' = [reader EXCEPT !.pc = "ended", !.error = TRUE]
  /\ UNCHANGED search

-----------------------------------------------------------------------------
(* Maps and tables *)

\* The lines of /proc/self/maps for an image; an anonymous map has no ELF header.
MapsOf(loaded) ==
  LET o == Objects[loaded.object]
  IN [i \in DOMAIN o.segments |->
        LET s == o.segments[i]
        IN [start |-> loaded.bias + s.vaddr, end |-> loaded.bias + s.vaddr + s.size,
            read |-> s.read, exec |-> s.exec, object |-> loaded.object,
            type |-> IF s.offset = 0 THEN o.type ELSE "none"]]
Maps(image) == FlattenSeq([i \in DOMAIN image |-> MapsOf(image[i])])

\* The address of the segment with file offset 0 in the program headers; the ELF
\* header's own, if there is none.  Faulty variant: it is taken to be 0.
HeaderVaddrZero(o) == 0
HeaderVaddr(o) ==
  LET first == {i \in DOMAIN o.segments : o.segments[i].offset = 0}
  IN IF first = {} THEN 0 ELSE o.segments[CHOOSE i \in first : \A j \in first : i <= j].vaddr

\* base_address after one more line of the maps.
BaseAfter(base, map) ==
  IF ~map.read THEN base
  ELSE CASE map.type = "ET_EXEC" -> 0
         [] map.type = "ET_DYN" -> map.start - HeaderVaddr(Objects[map.object])
         [] OTHER -> base

\* The first index from 1 that has a property, in batches.
FirstInBatches(n, Good(_)) ==
  LET from[i \in Nat] ==
        LET read == i + 1 .. (IF i + Batch < n THEN i + Batch ELSE n)
            good == {j \in read : Good(j)}
        IN IF i >= n THEN 0
           ELSE IF good # {} THEN CHOOSE j \in good : \A k \in good : j <= k
           ELSE from[i + Batch]
  IN from[0]

GetSectionHeaderByType(o, type) ==
  FirstInBatches(Len(o.sections), LAMBDA j : o.sections[j] = type)

\* Faulty variant: the end of a function belongs to it.
CoversEnd(start, size, pc) == start <= pc /\ pc <= start + size
Covers(start, size, pc) == start <= pc /\ pc < start + size

NoName == [ok |-> FALSE, name |-> ""]

\* A name that does not fit, with its 0, is no name.
FindSymbol(symbols, base, pc, out_size) ==
  LET i == FirstInBatches(Len(symbols), LAMBDA j :
             /\ symbols[j].value # 0 /\ symbols[j].defined
             /\ Covers(symbols[j].value + base, symbols[j].size, pc))
  IN IF i = 0 \/ symbols[i].length >= out_size THEN NoName
     ELSE [ok |-> TRUE, name |-> symbols[i].name]

\* Both tables, if there are sections of their types.
GetSymbolFromObjectFile(o, base, pc, out_size) ==
  LET Table(type, symbols) ==
        IF GetSectionHeaderByType(o, type) = 0 THEN NoName
        ELSE FindSymbol(symbols, base, pc, out_size)
  IN IF Table(SYMTAB, o.symtab).ok THEN Table(SYMTAB, o.symtab) ELSE Table(DYNSYM, o.dynsym)

-----------------------------------------------------------------------------
(* SymbolizeAndDemangle, one line of the maps at a time *)

NewSearch(image, pc, out_size) ==
  [image |-> image, pc |-> pc, out_size |-> out_size, line |-> 1, base |-> 0,
   state |-> "maps", result |-> "", name |-> "", offset |-> 0]

Found(s, result, name, offset) ==
  [s EXCEPT !.state = "done", !.result = result, !.name = name, !.offset = offset]

NextLine ==
  LET maps == Maps(search.image)
      map == maps[search.line]
      s == [search EXCEPT !.line = @ + 1, !.base = BaseAfter(@, map)]
      inside == map.start <= search.pc /\ search.pc < map.end
  IN /\ search.state = "maps" /\ search.line <= Len(maps)
     /\ search' = IF ~inside \/ ~map.read \/ ~map.exec THEN s
                  ELSE IF Objects[map.object].opens THEN [s EXCEPT !.state = "look"]
                  ELSE Found(s, "offset", map.object, s.pc - s.base)
     /\ UNCHANGED reader

\* "(" alone is in the buffer, so nothing is returned.
NoLineLeft ==
  /\ search.state = "maps" /\ search.line > Len(Maps(search.image))
  /\ search' = Found(search, "nothing", "", 0)
  /\ UNCHANGED reader

LookUp ==
  LET object == Maps(search.image)[search.line - 1].object
      r == GetSymbolFromObjectFile(Objects[object], search.base, search.pc, search.out_size)
  IN /\ search.state = "look"
     /\ search' = Found(search, IF r.ok THEN "symbol" ELSE "nothing", r.name, 0)
     /\ UNCHANGED reader

NoSearch == [state |-> "done", result |-> "none"]
NoReader == [pc |-> "ended", text |-> <<>>, lines |-> <<>>, error |-> TRUE, buf_len |-> 1]

Init ==
  \/ /\ \E t \in Texts, n \in BufferSizes : reader = NewReader(t, n)
     /\ search = NoSearch
  \/ /\ \E image \in Images, pc \in Pcs, n \in OutSizes : search = NewSearch(image, pc, n)
     /\ reader = NoReader

Next ==
  \/ ReadLine \/ PreadFails
  \/ \E n \in 0 .. Len(reader.text) : Pread(n)
  \/ NextLine \/ NoLineLeft \/ LookUp

-----------------------------------------------------------------------------
(* Properties *)

\* The lines of a text that end in a line feed.
LinesOf(text) ==
  LET ends == SetToSortSeq({i \in DOMAIN text : text[i] = LF}, <)
  IN [k \in DOMAIN ends |-> SubSeq(text, (IF k = 1 THEN 0 ELSE ends[k - 1]) + 1, ends[k] - 1)]

\* LineReader: "Read '\n'-terminated line from file": the lines come back as they
\* are, in order; without an error it ends only at the last one or before one
\* that, with its line feed, does not fit into the buffer.
LinesRight ==
  LET all == LinesOf(reader.text)
      n == Len(reader.lines)
  IN /\ IsPrefix(reader.lines, all)
     /\ reader.pc = "ended" /\ ~reader.error /\ n < Len(all) => Len(all[n + 1]) >= reader.buf_len

\* The function at an address of an object: the first of the regular table, else of
\* the dynamic one.
At(symbols, address) ==
  SelectSeq(symbols, LAMBDA s :
    s.value # 0 /\ s.defined /\ address \in s.value .. s.value + s.size - 1)
Truth(o, address) ==
  At(IF \E i \in DOMAIN o.sections : o.sections[i] = SYMTAB THEN o.symtab ELSE <<>>, address)
    \o At(IF \E i \in DOMAIN o.sections : o.sections[i] = DYNSYM THEN o.dynsym ELSE <<>>, address)

\* symbolize.cc: a name that is returned is that of the function that is loaded
\* there, and it is returned if the file can be read and the name fits; the offset
\* that is returned without it is the address in the file.
SymbolRight ==
  search.state = "done" /\ search.result # "none" =>
    \A i \in DOMAIN search.image :
      LET loaded == search.image[i]
          o == Objects[loaded.object]
          address == search.pc - loaded.bias
          truth == Truth(o, address)
          fits == SelectSeq(truth, LAMBDA s : s.length < search.out_size)
      IN (\E k \in DOMAIN o.segments :
            /\ o.segments[k].read /\ o.segments[k].exec
            /\ address \in o.segments[k].vaddr .. o.segments[k].vaddr + o.segments[k].size - 1) =>
           IF ~o.opens
           THEN search.result = "offset" /\ search.name = loaded.object /\ search.offset = address
           ELSE /\ search.result = "symbol" => \E k \in DOMAIN fits : fits[k].name = search.name
                /\ truth # <<>> /\ truth[1].length < search.out_size =>
                     search.result = "symbol" /\ search.name = truth[1].name

SymbolsRight == LinesRight /\ SymbolRight
=============================================================================
