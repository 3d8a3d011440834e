--------------------------- MODULE Transcription ----------------------------
(***************************************************************************)
(* A call of TranscribeBits pass by pass, and the call that undoes it, for *)
(* every message and pair of sizes within the bounds: how the library      *)
(* turns numbers below a modulus into bytes and back.                      *)
(***************************************************************************)
EXTENDS TranscribeBits

CONSTANTS
  IntBits,      \* bits of the type that holds numbers
  ByteBits,     \* bits of the type that holds bytes: 8
  MaxInts       \* bound: integers in a message

TypeSizes ==
  /\ IntBits \in Nat \ {0} /\ ByteBits \in Nat \ {0} /\ MaxInts \in Nat

VARIABLES
  chunk,     \* bits used of every number: log_modulus
  message,   \* the numbers that are serialized
  length,    \* input_bit_length of the call
  call,      \* the call in progress
  input,     \* its argument
  s,         \* its local variables
  bytes      \* what the first call returned

vars == <<chunk, message, length, call, input, s, bytes>>

Calls == {"serialize", "deserialize", "done", "refused"}

\* Bit j, from 0, of a sequence of integers of k bits.
BitAt(seq, k, j) == ShiftRight(seq[j \div k + 1], j % k) % 2

TypeOK ==
  /\ chunk \in 1 .. IntBits
  /\ message \in Seq(0 .. TwoTo[IntBits] - 1)
  /\ length \in 0 .. MaxInts * IntBits
  /\ call \in Calls
  /\ s.p <= Max({1, Len(s.output)}) /\ s.need >= 0
  /\ s.left >= 0 \/ s.remaining <= 0
  /\ \A k \in DOMAIN s.output :
       s.output[k] \in 0 .. TwoTo[IF call = "serialize" THEN ByteBits
                                ELSE IntBits] - 1

\* Numbers below 2 ^ chunk; the caller passes the bits they have in all, or
\* fewer when the message is one it does not use to its end.
Init ==
  /\ chunk \in 1 .. IntBits
  /\ \E n \in 0 .. MaxInts : message \in [1 .. n -> 0 .. TwoTo[chunk] - 1]
  /\ length \in 0 .. Len(message) * chunk
  /\ input = message /\ bytes = <<>>
  /\ call = IF Refused(message, length, chunk, ByteBits, IntBits, ByteBits)
            THEN "refused" ELSE "serialize"
  /\ s = TranscribeStart(length, chunk, ByteBits)

\* A pass of the loop of either call.
Serialize ==
  /\ call = "serialize" /\ ~TranscribeDone(s, length, chunk)
  /\ s' = TranscribeStep(s, input, length, chunk, ByteBits, IntBits, ByteBits)
  /\ UNCHANGED <<chunk, message, length, call, input, bytes>>

Deserialize ==
  /\ call = "deserialize" /\ ~TranscribeDone(s, length, ByteBits)
  /\ s' = TranscribeStep(s, input, length, ByteBits, chunk, ByteBits, IntBits)
  /\ UNCHANGED <<chunk, message, length, call, input, bytes>>

\* The bytes are handed to the call in the other direction.
Return ==
  /\ call = "serialize" /\ TranscribeDone(s, length, chunk)
  /\ bytes' = s.output /\ input' = s.output
  /\ IF Refused(s.output, length, ByteBits, chunk, ByteBits, IntBits)
     THEN call' = "refused" /\ UNCHANGED s
     ELSE call' = "deserialize" /\ s' = TranscribeStart(length, ByteBits, chunk)
  /\ UNCHANGED <<chunk, message, length>>

Finish ==
  /\ call = "deserialize" /\ TranscribeDone(s, length, ByteBits)
  /\ call' = "done"
  /\ UNCHANGED <<chunk, message, length, input, s, bytes>>

Next == Serialize \/ Deserialize \/ Return \/ Finish

Spec == Init /\ [][Next]_vars

-----------------------------------------------------------------------------

\* The bits that the loop has moved so far are, in their order, the first
\* bits of the input, however the sizes divide each other, and the rest of
\* the output is still zero.
BitsMoved ==
  LET from == IF call = "serialize" THEN chunk ELSE ByteBits
      to == IF call = "serialize" THEN ByteBits ELSE chunk
      moved == (s.p - 1) * to + s.size - s.need
  IN call \in {"serialize", "deserialize"} =>
       /\ moved <= length
       /\ TranscribeDone(s, length, from) => moved = length
       /\ \A j \in 0 .. Len(s.output) * to - 1 :
            BitAt(s.output, to, j) = IF j < moved THEN BitAt(input, from, j) ELSE 0

\* Deserializing what was serialized gives the numbers back: all of them when
\* all their bits were sent, otherwise the first length bits of them and
\* zeros in place of the rest of the last one.
RoundTrip ==
  call = "done" =>
    /\ Len(s.output) = CeilDiv(length, chunk)
    /\ \A j \in 0 .. Len(s.output) * chunk - 1 :
         BitAt(s.output, chunk, j) =
           IF j < length THEN BitAt(message, chunk, j) ELSE 0

\* The bytes of a message are never more than its bits need, and the only
\* call that is refused is one that sends none of the bits of a message.
Compact ==
  /\ call \in {"deserialize", "done"} => Len(bytes) = CeilDiv(length, ByteBits)
  /\ call = "refused" => length = 0 /\ message # <<>>
=============================================================================
