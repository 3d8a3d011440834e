----------------------------- MODULE MCLibraries -----------------------------
(***************************************************************************)
(* The libraries under the protocol, and the one for logs, for TLC: one    *)
(* run of all of them, of which every behaviour is one of a single         *)
(* component, chosen at the start.  The variables of the others stay 0.    *)
(* (The curve is extended and not instantiated: its property is stated,    *)
(* and proved, of it alone.)                                               *)
(***************************************************************************)
EXTENDS CurveCiphers, MCGlog, TLC

VARIABLES
  plain, steps,                                       \* of whichever component runs
  chunk, length, call, input, s, bytes,               \* transcription
  keys, two_k_ary, c, rand,                           \* Paillier
  reg, number,                                        \* 256 bits
  phase, server, client, query, files, read           \* files

transcriptionVars == <<chunk, length, call, input, s, bytes>>
paillierVars == <<keys, two_k_ary, c, rand>>
wordVars == <<reg, number>>
fileVars == <<phase, server, client, query, files, read>>
libraryVars == <<component, plain, steps, transcriptionVars, paillierVars, vars,
                 wordVars, fileVars, glogVars>>

-----------------------------------------------------------------------------
(* Instances *)

\* Two sizes of the exponent s and primes of two sizes; random numbers and
\* messages at the ends of their ranges.
MCKeyPairs == {[p |-> 5, q |-> 7, s |-> 2, x |-> 3],
               [p |-> 11, q |-> 7, s |-> 1, x |-> 2]}
MCRandoms(n) == {0, 1, n - 1}
MCMessages(n) == {0, n \div 2 + 1, n - 1}
MCBelow(n) == {0, n \div 2, n - 1}

\* y ^ 2 = x ^ 3 + x + 6 modulo 11 has 13 points; one oracle finds a point at
\* once, one after some numbers that have none.  Keys that are too small, too
\* large and right.
MCGenerator == <<2, 7>>
MCIds == {"ada", "eve"}
MCOracleAtOnce ==
  [id |-> ("ada" :> 2) @@ ("eve" :> 4), number |-> [x \in 0 .. 10 |-> (3 * x + 4) % 11]]
MCOracles ==
  {MCOracleAtOnce,
   [id |-> ("ada" :> 4) @@ ("eve" :> 5), number |-> [x \in 0 .. 10 |-> x]]}
MCCipherKeys(p) == IF p = 1 THEN {3, 13} ELSE {0, 7}

\* Negative numbers fill the high word.
MCNumbers == {-1, -5, 6}

\* a, b and c; and identifiers of quotes (34), commas (44), spaces (32) and a
\* newline (10) in places where each matters.
MCRandomIds == {<<97>>, <<98>>, <<99>>}
MCText == {<<>>, <<97>>, <<34>>, <<34, 44>>, <<32, 97, 44>>,
           <<97, 10, 34>>, <<44, 34, 34, 98>>, <<97, 32, 98>>}
MCDrawn(m) == {m \div 2, m - 1}
MCOperators == {<<2, 1>>}

Transcription == INSTANCE Transcription WITH
  IntBits <- 4, ByteBits <- 3, MaxInts <- 2, message <- plain

Paillier == INSTANCE Paillier WITH
  KeyPairs <- MCKeyPairs, ByteBits <- 2, Randoms <- MCRandoms, Messages <- MCMessages,
  Multipliers <- {0, 2, 3}, MaxOps <- 2, message <- plain, ops <- steps

Words == INSTANCE Int256 WITH
  H <- 3, Words <- {0, 1, 37, 63}, Numbers <- MCNumbers, Bases <- {2}, MaxOps <- 1,
  ops <- steps

Files == INSTANCE DataFiles WITH
  RandomIds <- MCRandomIds, Ids <- MCText, Sizes <- {0, 1, 2}, Bounds <- {0, 6, 16},
  Drawn <- MCDrawn, Operators <- MCOperators, Values <- {0, 12}, MaxInt <- 31

\* The oracle needs up to ten hashes of one bit, and numbers of two bytes for them.
MCOracleInputs == {<<>>, <<0>>, <<1>>, <<1, 0>>}
MCHashes == {<<0, 4>>, <<4, 1, 3, 2>>, <<4>>}

Oracle == INSTANCE RandomNumbers WITH
  ByteBits <- 3, HashBits <- 1, Bounds <- {1, 2, 3, 5, 6, 13, 300, 60000},
  Inputs <- MCOracleInputs, Hashes <- MCHashes, Rands <- MCBelow, FairBits <- 8,
  job <- part1, loop <- part2, result <- part3

Montgomery == INSTANCE MontNumbers WITH
  Moduli <- {9, 13}, R <- 16, Numbers <- {0, 1, 3, 11}, Exponents <- {0, 1, 3},
  KeepBits <- 3, MaxOps <- 2,
  modulus_ <- part1, bn_ <- part2, stands <- part3, ops <- part4

Results == INSTANCE StatusOr WITH
  Libraries <- {"util", "rlwe"}, Objects <- {"x", "y"}, Kinds <- {"value", "pointer", "unique"},
  Codes <- {"kOk", "kInternal", "kUnknown"}, Messages <- {<<>>, <<"note">>},
  Values <- {1}, MaxOps <- 4,
  kind <- part1, debug <- part2, object <- part3, meant <- part4, process <- part5,
  ops <- part6

ASSUME Assumptions ==
  /\ Transcription!TypeSizes /\ Paillier!PaillierAssumption /\ CurveAssumption
  /\ Oracle!NumbersAssumption /\ Montgomery!MontAssumption /\ Results!StatusOrAssumption
  /\ Words!WordsAssumption /\ Files!DataAssumption

-----------------------------------------------------------------------------
(* The composition *)

NoTranscription ==
  chunk = 0 /\ length = 0 /\ call = 0 /\ input = 0 /\ s = 0 /\ bytes = 0
NoPaillier == keys = 0 /\ two_k_ary = 0 /\ c = 0 /\ rand = 0
NoCurve == Init /\ oracle = MCOracleAtOnce
NoWords == reg = 0 /\ number = 0
NoGlog == From3 /\ part1 = 0 /\ part2 = 0
NoFiles == phase = 0 /\ server = 0 /\ client = 0 /\ query = 0 /\ files = 0 /\ read = 0

LibraryInit ==
  \/ /\ component = "transcription" /\ Transcription!Init /\ steps = 0
     /\ NoPaillier /\ NoCurve /\ NoWords /\ NoFiles /\ NoGlog
  \/ /\ component = "paillier" /\ Paillier!Init
     /\ NoTranscription /\ NoCurve /\ NoWords /\ NoFiles /\ NoGlog
  \/ /\ component = "curve" /\ Init /\ plain = 0 /\ steps = 0
     /\ NoTranscription /\ NoPaillier /\ NoWords /\ NoFiles /\ NoGlog
  \/ /\ component = "words" /\ Words!Init /\ plain = 0
     /\ NoTranscription /\ NoPaillier /\ NoCurve /\ NoFiles /\ NoGlog
  \/ /\ component = "files" /\ Files!Init /\ plain = 0 /\ steps = 0
     /\ NoTranscription /\ NoPaillier /\ NoCurve /\ NoWords /\ NoGlog
  \/ /\ plain = 0 /\ steps = 0
     /\ NoTranscription /\ NoPaillier /\ NoCurve /\ NoWords /\ NoFiles
     /\ \/ component = "numbers" /\ Oracle!Init /\ From4
        \/ component = "montgomery" /\ Montgomery!Init /\ From5
        \/ component = "results" /\ Results!Init /\ part7 = 0
  \/ /\ GlogInit /\ plain = 0 /\ steps = 0
     /\ NoTranscription /\ NoPaillier /\ NoCurve /\ NoWords /\ NoFiles

LibraryNext ==
  /\ UNCHANGED component
  /\ \/ /\ component = "transcription" /\ Transcription!Next
        /\ UNCHANGED <<steps, paillierVars, vars, wordVars, fileVars, glogVars>>
     \/ /\ component = "paillier" /\ Paillier!Next
        /\ UNCHANGED <<transcriptionVars, vars, wordVars, fileVars, glogVars>>
     \/ /\ component = "curve" /\ Next
        /\ UNCHANGED <<plain, steps, transcriptionVars, paillierVars, wordVars, fileVars,
                       glogVars>>
     \/ /\ component = "words" /\ Words!Next
        /\ UNCHANGED <<plain, transcriptionVars, paillierVars, vars, fileVars, glogVars>>
     \/ /\ component = "files" /\ Files!Next
        /\ UNCHANGED <<plain, steps, transcriptionVars, paillierVars, vars, wordVars,
                       glogVars>>
     \/ /\ \/ component = "numbers" /\ Oracle!Next
              /\ UNCHANGED <<part4, part5, part6, part7>>
           \/ component = "montgomery" /\ Montgomery!Next
              /\ UNCHANGED <<part5, part6, part7>>
           \/ component = "results" /\ Results!Next /\ UNCHANGED part7
        /\ UNCHANGED <<plain, steps, transcriptionVars, paillierVars, vars, wordVars,
                       fileVars>>
     \/ /\ GlogNext
        /\ UNCHANGED <<plain, steps, transcriptionVars, paillierVars, vars, wordVars,
                       fileVars>>

LibrarySpec == LibraryInit /\ [][LibraryNext]_libraryVars

-----------------------------------------------------------------------------
(* The properties of the component that was chosen, stated where it is     *)
(* modelled.                                                               *)

\* transcription.h: numbers come back from bytes of any size as they were, in
\* no more bytes than their bits need.
RoundTrip ==
  component = "transcription" =>
    /\ Transcription!TypeOK /\ Transcription!BitsMoved
    /\ Transcription!RoundTrip /\ Transcription!Compact

\* paillier.cc: whatever way a ciphertext was made and changed, it decrypts to
\* what it stands for, and a random number that is returned makes it again.
PaillierExact ==
  component = "paillier" => Paillier!DecryptsExactly /\ Paillier!RandReproduces

\* int256.h, int256.cc: two words are one number, through every operator, and
\* it is printed as that number; context.cc, mont_mul.cc: the random oracle and
\* random numbers are in range, fair and of separate hashes, and products are exact;
\* statusor.h: a result is the value or the error that it was made of, wherever it is
\* passed.
ValuesExact ==
  /\ component = "words" => Words!TypeOK /\ Words!WordsExact /\ Words!PrintsExactly
  /\ component = "numbers" => Oracle!NumbersRight
  /\ component = "montgomery" => Montgomery!MontExact
  /\ component = "results" => Results!ResultsInv

\* data_util.cc: the programs read what was written, and the results that are
\* announced with it are those of the files.
FilesExact == component = "files" => Files!ReadsWhatWasWritten /\ Files!AnnouncesResults
=============================================================================
