--------------------------- MODULE TranscribeBits ---------------------------
(***************************************************************************)
(* transcription.h as an algorithm: a sequence of integers of inBits bits  *)
(* is cut anew into integers of outBits bits, lowest bits first.  The      *)
(* loop is a step on a record; Transcription runs it as a state machine,   *)
(* the modules of the numbers and keys use its result.                     *)
(***************************************************************************)
EXTENDS Integers, Sequences, FiniteSetsExt

\* 2 ^ n
TwoTo[n \in Nat] == IF n = 0 THEN 1 ELSE 2 * TwoTo[n - 1]

\* x << k and x >> k in an unsigned type of w bits.
ShiftLeft(x, k, w) == (x * TwoTo[k]) % TwoTo[w]
ShiftRight(x, k) == x \div TwoTo[k]

\* BitLength and CountLeadingZeros: digits of x in base two.
BitLength(x) == CHOOSE k \in 0 .. x : x < TwoTo[k] /\ (k = 0 \/ TwoTo[k - 1] <= x)

CeilDiv(a, b) == (a + b - 1) \div b
Least(a, b) == Min({a, b})

\* The checks before the loop: what the call is refused for.
Refused(input, length, inBits, outBits, inType, outType) ==
  \/ inBits > inType \/ outBits > outType
  \/ length < 0
  \/ length = 0 /\ input # <<>>
  \/ Len(input) < CeilDiv(length, inBits)

\* Faulty variant: the last, partial integer of the output is forgotten.
TranscribeStartShort(length, inBits, outBits) ==
  [i |-> 1, left |-> Least(inBits, length), remaining |-> length,
   p |-> 1, size |-> Least(length, outBits), need |-> Least(length, outBits),
   output |-> [k \in 1 .. length \div outBits |-> 0]]

\* State at the head of the for loop: p points at the output integer being
\* filled, which holds size bits of which need are missing; the integer
\* at i has left bits that were not used yet.
TranscribeStart(length, inBits, outBits) ==
  [i |-> 1, left |-> Least(inBits, length), remaining |-> length,
   p |-> 1, size |-> Least(length, outBits), need |-> Least(length, outBits),
   output |-> [k \in 1 .. CeilDiv(length, outBits) |-> 0]]

\* The loops end when every input chunk was read.
TranscribeDone(s, length, inBits) == s.i > CeilDiv(length, inBits)

\* Faulty variant: the next output integer is begun before the last one is
\* full, whenever an input integer ends.
NextOutputEarly(s, outBits) ==
  IF s.need = 0 \/ s.left = s.size
  THEN [s EXCEPT !.p = @ + 1, !.size = Least(s.remaining, outBits),
                 !.need = Least(s.remaining, outBits)]
  ELSE s

\* No bit is needed in the output: on to its next integer.
NextOutput(s, outBits) ==
  IF s.need = 0
  THEN [s EXCEPT !.p = @ + 1, !.size = Least(s.remaining, outBits),
                 !.need = Least(s.remaining, outBits)]
  ELSE s

\* Faulty variant: the input is put at the top of its type as if every
\* integer had all its bits.
LoadedFull(x, s, inBits, inType) == ShiftLeft(x, inType - inBits, inType)

\* The integer at i with the bits it contributes at the top of its type.
Loaded(x, s, inBits, inType) ==
  ShiftLeft(x, inType - Least(inBits, s.remaining), inType)

\* The bits that one pass of the while loop moves.
Moved(x, s, n, inBits, inType, outType) ==
  ShiftRight(ShiftLeft(Loaded(x, s, inBits, inType), s.left - n, inType),
             inType - n) % TwoTo[outType]

\* One pass of the while loop, with the step to the next input integer when
\* it was the last for this one.
TranscribeStep(s0, input, length, inBits, outBits, inType, outType) ==
  LET s == NextOutput(s0, outBits)
      n == Least(s.left, s.need)
      bits == Moved(input[s.i], s, n, inBits, inType, outType)
      t == [s EXCEPT !.output[s.p] =
                       @ + ShiftLeft(bits, s.size - s.need, outType),
                     !.left = @ - n, !.need = @ - n]
  IN IF t.left > 0 THEN t
     ELSE [t EXCEPT !.i = @ + 1, !.remaining = @ - inBits,
                    !.left = Least(inBits, s.remaining - inBits)]

\* The result of a call that is not refused.
Transcribed(input, length, inBits, outBits, inType, outType) ==
  LET Run[k \in Nat] ==
        IF k = 0 THEN TranscribeStart(length, inBits, outBits)
        ELSE LET s == Run[k - 1]
             IN IF TranscribeDone(s, length, inBits) THEN s
                ELSE TranscribeStep(s, input, length, inBits, outBits,
                                    inType, outType)
  IN Run[CeilDiv(length, inBits) + CeilDiv(length, outBits)].output
=============================================================================
