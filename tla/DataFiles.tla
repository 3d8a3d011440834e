----------------------------- MODULE DataFiles ------------------------------
(***************************************************************************)
(* data_util.cc and generate_dummy_data.cc: random databases with what the *)
(* protocol should find in them, the CSV files that they, or databases of  *)
(* a user, are written to, and what server and client read from those.     *)
(* Text is a sequence of the codes of its characters.                      *)
(***************************************************************************)
EXTENDS Integers, Sequences, FiniteSets, SequencesExt

CONSTANTS
  RandomIds,     \* identifiers that are drawn: alphanumeric text
  Ids,           \* identifiers of a user: any text
  Sizes,         \* bound: sizes of databases and of their intersection
  Bounds,        \* bound: values of max_associated_value
  Drawn(_),      \* bound: associated values that are drawn below the argument
  Operators,     \* bound: pairs of operator_1 and operator_2
  Values,        \* bound: associated values of a user
  MaxInt         \* the largest int64

DataAssumption ==
  /\ MaxInt \in Nat \ {0} /\ Sizes \cup Bounds \subseteq Nat
  /\ Values \subseteq 0 .. MaxInt
  /\ RandomIds \cup Ids \subseteq Seq(0 .. 127)

VARIABLES
  phase,
  server,      \* identifiers of the server
  client,      \* rows <<identifier, value 1, value 2>> of the client
  query,       \* how the databases were generated, and their results
  files,       \* the text of the two files
  read         \* what the programs read from them

vars == <<phase, server, client, query, files, read>>

Newline == 10
Space == 32
Quote == 34
Comma == 44
Success(data) == [ok |-> TRUE, data |-> data]
Failed == [ok |-> FALSE, data |-> <<>>]

-----------------------------------------------------------------------------
(* CSV *)

\* Faulty variant: quotes are not doubled.
EscapeForCsvPlain(text) == <<Quote>> \o text \o <<Quote>>
EscapeForCsv(text) ==
  <<Quote>>
    \o FlattenSeq([i \in DOMAIN text |-> IF text[i] = Quote THEN <<Quote, Quote>>
                                         ELSE <<text[i]>>])
    \o <<Quote>>

\* The first position from p on at which line has the character, else its end.
Find(line, p, char) ==
  LET at == {i \in p .. Len(line) : line[i] = char}
  IN IF at = {} THEN Len(line) + 1 ELSE CHOOSE i \in at : \A j \in at : i <= j

SkipSpaces(line, p) ==
  LET at == {i \in p .. Len(line) : line[i] # Space}
  IN IF at = {} THEN Len(line) + 1 ELSE CHOOSE i \in at : \A j \in at : i <= j

\* A quoted value that starts at p, and the position after its closing quote.
Quoted(line, p) ==
  LET from[i \in p .. Len(line) + 2] ==
        IF i > Len(line) THEN [text |-> <<>>, next |-> Len(line) + 1]
        ELSE IF line[i] # Quote
             THEN [from[i + 1] EXCEPT !.text = <<line[i]>> \o @]
        ELSE IF i < Len(line) /\ line[i + 1] = Quote
             THEN [from[i + 2] EXCEPT !.text = <<Quote>> \o @]
        ELSE [text |-> <<>>, next |-> i + 1]
  IN from[p]

TrimRight(text) ==
  LET kept == {i \in DOMAIN text : text[i] # Space}
  IN SubSeq(text, 1, IF kept = {} THEN 0 ELSE CHOOSE i \in kept : \A j \in kept : j <= i)

\* SplitCsvLine.
SplitCsvLine(line) ==
  LET columns[p \in 1 .. Len(line) + 2] ==
        IF p > Len(line) THEN <<>>
        ELSE LET start == SkipSpaces(line, p)
                 quoted == start <= Len(line) /\ line[start] = Quote
                 end == Find(line, IF quoted THEN Quoted(line, start + 1).next
                                   ELSE start, Comma)
                 text == IF quoted THEN Quoted(line, start + 1).text
                         ELSE TrimRight(SubSeq(line, start, end - 1))
             IN (IF end = Len(line) THEN <<text, <<>>>> ELSE <<text>>) \o columns[end + 1]
  IN columns[1]

\* getline: the lines of a file, the last with or without a newline.
Lines(file) ==
  LET lines[p \in 1 .. Len(file) + 2] ==
        IF p > Len(file) THEN <<>>
        ELSE LET end == Find(file, p, Newline)
             IN <<SubSeq(file, p, end - 1)>> \o lines[end + 1]
  IN lines[1]

\* A number in decimal digits, and SimpleAtoi with the test for negative ones.
Decimal(n) ==
  LET digits[x \in Nat] == IF x < 10 THEN <<48 + x>>
                           ELSE Append(digits[x \div 10], 48 + (x % 10))
  IN digits[n]
SimpleAtoi(text) ==
  IF text # <<>> /\ \A i \in DOMAIN text : text[i] \in 48 .. 57
  THEN LET n == FoldLeft(LAMBDA x, char : IF x > MaxInt THEN x ELSE x * 10 + char - 48,
                         0, text)
       IN IF n <= MaxInt THEN n ELSE -1
  ELSE -1

-----------------------------------------------------------------------------
(* Files *)

ServerFile == FlattenSeq([i \in DOMAIN server |-> EscapeForCsv(server[i]) \o <<Newline>>])
ClientFile ==
  FlattenSeq([i \in DOMAIN client |->
    EscapeForCsv(client[i][1]) \o <<Comma>> \o Decimal(client[i][2])
      \o <<Comma>> \o Decimal(client[i][3]) \o <<Newline>>])

\* The same rows in a file of a user, without quotes and with spaces.
PlainRow(columns) ==
  FlattenSeq([i \in DOMAIN columns |->
    (IF i = 1 THEN <<>> ELSE <<Comma, Space>>) \o columns[i] \o <<Space>>])
    \o <<Newline>>

\* ReadServerDatasetFromFile and ReadClientDatasetFromFile.
ReadServer(file) ==
  LET rows == [i \in DOMAIN Lines(file) |-> SplitCsvLine(Lines(file)[i])]
  IN IF \E i \in DOMAIN rows : Len(rows[i]) # 1 THEN Failed
     ELSE Success([i \in DOMAIN rows |-> rows[i][1]])
ReadClient(file) ==
  LET rows == [i \in DOMAIN Lines(file) |-> SplitCsvLine(Lines(file)[i])]
  IN IF \E i \in DOMAIN rows :
          \/ Len(rows[i]) # 3
          \/ \E j \in {2, 3} : SimpleAtoi(rows[i][j]) < 0
     THEN Failed
     ELSE Success([i \in DOMAIN rows |->
            <<rows[i][1], SimpleAtoi(rows[i][2]), SimpleAtoi(rows[i][3])>>])

-----------------------------------------------------------------------------
(* Random databases *)

\* An int64 after signed overflow: what a build that wraps has.
Wrapped(n) == ((n + MaxInt + 1) % (2 * (MaxInt + 1))) - (MaxInt + 1)

Refused(sizes, max) ==
  \/ sizes.both > sizes.server \/ sizes.both > sizes.client
  \/ max > 0 /\ sizes.both > MaxInt \div max

\* After the shuffles: databases that have at least that many in common.
Count(seq, id) == Cardinality({i \in DOMAIN seq : seq[i] = id})
HaveInCommon(ids1, ids2, both) ==
  LET shared == [id \in RandomIds |->
                   IF Count(ids1, id) < Count(ids2, id) THEN Count(ids1, id)
                   ELSE Count(ids2, id)]
  IN FoldSet(LAMBDA id, n : shared[id] + n, 0, RandomIds) >= both

Shared(s, c) == {i \in DOMAIN c : c[i][1] \in Range(s)}

\* The result of operator op for column k: squares for 1, else values.  Faulty
\* variant: every row of the client counts.
AggregateAll(s, c, op, k) ==
  FoldLeft(LAMBDA sum, i : Wrapped(sum + (IF op = 1 THEN c[i][k] * c[i][k] ELSE c[i][k])),
           0, [i \in DOMAIN c |-> i])
Aggregate(s, c, op, k) ==
  FoldLeft(LAMBDA sum, i :
             IF i \in Shared(s, c)
             THEN Wrapped(sum + (IF op = 1 THEN c[i][k] * c[i][k] ELSE c[i][k]))
             ELSE sum,
           0, [i \in DOMAIN c |-> i])

-----------------------------------------------------------------------------

NoQuery == [both |-> 0, max |-> 0, operators |-> <<0, 0>>, results |-> <<>>]

Init ==
  /\ phase = "start" /\ server = <<>> /\ client = <<>>
  /\ query = NoQuery /\ files = <<<<>>, <<>>>> /\ read = <<>>

\* GenerateRandomDatabases.  A bound of 0 ends the program when a value is to be
\* drawn.
Generate(sizes, max, operators) ==
  /\ phase = "start"
  /\ IF Refused(sizes, max) \/ (max = 0 /\ sizes.client > 0)
     THEN phase' = "failed" /\ UNCHANGED <<server, client, query>>
     ELSE \E ids1 \in [1 .. sizes.server -> RandomIds],
             ids2 \in [1 .. sizes.client -> RandomIds],
             column1 \in [1 .. sizes.client -> Drawn(max)],
             column2 \in [1 .. sizes.client -> Drawn(max)] :
            LET rows == [i \in 1 .. sizes.client |-> <<ids2[i], column1[i], column2[i]>>]
            IN /\ HaveInCommon(ids1, ids2, sizes.both)
               /\ phase' = "made" /\ server' = ids1 /\ client' = rows
               /\ query' = [both |-> sizes.both, max |-> max, operators |-> operators,
                            results |-> <<Aggregate(ids1, rows, operators[1], 2),
                                          Aggregate(ids1, rows, operators[2], 3)>>]
  /\ UNCHANGED <<files, read>>

\* Databases of a user.
Own(ids, rows) ==
  /\ phase = "start" /\ phase' = "made"
  /\ server' = ids /\ client' = rows
  /\ UNCHANGED <<query, files, read>>

\* The server's file, then the client's; or either cannot be written and the
\* program ends.
Write ==
  /\ phase = "made" /\ phase' = "written"
  /\ files' = <<ServerFile, ClientFile>>
  /\ UNCHANGED <<server, client, query, read>>
WriteFails ==
  /\ phase = "made" /\ phase' = "failed"
  /\ files' \in {<<<<>>, <<>>>>, <<ServerFile, <<>>>>}
  /\ UNCHANGED <<server, client, query, read>>

\* Files that a user has made of the same rows.
Type ==
  /\ phase = "made" /\ query = NoQuery /\ phase' = "typed"
  /\ files' = <<FlattenSeq([i \in DOMAIN server |-> PlainRow(<<server[i]>>)]),
                FlattenSeq([i \in DOMAIN client |->
                  PlainRow(<<client[i][1], Decimal(client[i][2]), Decimal(client[i][3])>>)])>>
  /\ UNCHANGED <<server, client, query, read>>

\* Server and client start.
Read ==
  /\ phase \in {"written", "typed"} /\ read = <<>>
  /\ read' = <<ReadServer(files[1]), ReadClient(files[2])>>
  /\ UNCHANGED <<phase, server, client, query, files>>

Next ==
  \/ \E n1, n2, both \in Sizes, max \in Bounds, operators \in Operators :
       Generate([server |-> n1, client |-> n2, both |-> both], max, operators)
  \/ \E n \in Sizes \cap {0, 1, 2} :
       \E ids \in [1 .. n -> Ids] : \E id \in Ids, v1, v2 \in Values :
         Own(ids, [i \in 1 .. n |-> IF i = 1 THEN <<id, v1, v2>> ELSE <<ids[1], v2, v1>>])
  \/ Write \/ WriteFails \/ Type \/ Read

Spec == Init /\ [][Next]_vars

-----------------------------------------------------------------------------

OneLine(id) == \A i \in DOMAIN id : id[i] # Newline
Plain(id) ==
  /\ id # <<>> /\ id[1] # Space /\ id[Len(id)] # Space
  /\ \A i \in DOMAIN id : id[i] \notin {Newline, Quote, Comma}

\* The programs read exactly what was written, whatever quotes, commas and
\* spaces an identifier has, as long as it has no newline; and what a user has
\* typed, if nothing in it needs quotes.
ReadsWhatWasWritten ==
  LET ids == Range(server) \cup {row[1] : row \in Range(client)}
  IN read # <<>> =>
       \/ read = <<Success(server), Success(client)>>
       \/ phase = "written" /\ \E id \in ids : ~OneLine(id)
       \/ phase = "typed" /\ \E id \in ids : ~Plain(id)

\* What generate_dummy_data announces is what an exact protocol finds in the
\* two files: the sums of the values of shared identifiers, for as long as the
\* identifiers drawn are distinct and the squares, which the check of the
\* arguments does not look at, stay in range; and then as many identifiers are
\* shared as the flag says, or more.
AnnouncesResults ==
  (query.results # <<>> /\ read # <<>>) =>
    LET rows == read[2].data
        shared == {i \in DOMAIN rows : rows[i][1] \in Range(read[1].data)}
        true_result(op, k) ==
          FoldSet(LAMBDA i, sum : sum + (IF op = 1 THEN rows[i][k] * rows[i][k]
                                         ELSE rows[i][k]), 0, shared)
    IN \A k \in {1, 2} :
         LET result == true_result(query.operators[k], k + 1)
         IN /\ query.results[k] = Wrapped(result)
            /\ Cardinality(shared) >= query.both
            /\ Cardinality(shared) = query.both /\ query.operators[k] # 1 =>
                 query.results[k] = result
=============================================================================
