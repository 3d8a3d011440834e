----------------------------- MODULE SampleError -----------------------------
(***************************************************************************)
(* sample_error.h: one coefficient of the centered binomial distribution,  *)
(* drawn in chunks of Wide, then of Narrow random bits and a masked rest,  *)
(* and the bit counters of bits_util.h.  (The code's chunks have 64 and 8  *)
(* bits.)                                                                  *)
(***************************************************************************)
EXTENDS Integers, FiniteSets, Bitwise, FiniteSetsExt

CONSTANTS
  Wide, Narrow,  \* bits of the chunks, powers of two
  WordBits,      \* bits of ModularInt::Int
  Modulus,
  MaxVariance    \* kMaxVariance, if it is not too large for the modulus

SampleAssumption ==
  /\ Wide \in Nat \ {0} /\ Narrow \in Nat \ {0} /\ Narrow < Wide
  \* Create leaves two bits of the word.
  /\ Modulus \in 1 .. 2 ^ (WordBits - 2)
  /\ MaxVariance \in Nat /\ 2 * MaxVariance <= Modulus

VARIABLES
  variance,
  k,            \* pairs of bits still to be drawn
  coefficient,
  bits,         \* size of the chunk whose second half is to come, or 0
  plus, minus,  \* history: ones in the first and second halves
  pairs,        \* history: pairs drawn
  done

vars == <<variance, k, coefficient, bits, plus, minus, pairs, done>>

-----------------------------------------------------------------------------

Least(S) == CHOOSE x \in S : \A y \in S : x <= y

\* Words of w bits with ones in every second run of j bits: 0x55, 0x33, 0x0F.
Runs(j, w) == SumSet({2 ^ i : i \in {i \in 0 .. w - 1 : (i \div j) % 2 = 0}})

\* CountOnesInByte and CountOnes64: neighbouring runs of 1, 2, 4... bits are
\* added until one number is left.
CountOnes(x, w) ==
  LET count[j \in Nat] ==
        IF j = 0 THEN x
        ELSE LET s == 2 ^ (j - 1)
                 y == count[j - 1]
             IN ((y & Runs(s, w)) + (shiftR(y, s) & Runs(s, w))) % 2 ^ w
      levels == CHOOSE n \in 0 .. w : 2 ^ n = w
  IN count[levels]

Counted == [w \in {Narrow, Wide} |-> [x \in 0 .. 2 ^ w - 1 |-> CountOnes(x, w)]]

\* What they count.
Ones == [x \in 0 .. 2 ^ Wide - 1 |->
           Cardinality({i \in 0 .. Wide - 1 : (x \div 2 ^ i) % 2 = 1})]

\* The chunk for n pairs: its bits, how many of them the mask leaves, and the
\* pairs that it counts for.  Faulty variant: the rest is not masked.
Size(n) == IF n >= Wide THEN Wide ELSE Narrow
ChunkUnmasked(n) == [size |-> Size(n), mask |-> Size(n), pairs |-> Least({n, Size(n)})]
Chunk(n) == [size |-> Size(n), mask |-> Least({n, Size(n)}), pairs |-> Least({n, Size(n)})]

\* Faulty variant: the modulus itself is left.
ReducedLate(x) == IF x > Modulus THEN x - Modulus ELSE x
Reduced(x) == IF x >= Modulus THEN x - Modulus ELSE x

-----------------------------------------------------------------------------

Init ==
  /\ variance \in 0 .. MaxVariance
  /\ k = 2 * variance /\ coefficient = Modulus
  /\ bits = 0 /\ plus = 0 /\ minus = 0 /\ pairs = 0 /\ done = FALSE

\* The first random number of a chunk is added...
FirstHalf ==
  /\ k > 0 /\ bits = 0
  /\ LET counted == Counted
         ones == Ones
     IN  \E r \in 0 .. 2 ^ Chunk(k).size - 1 :
           /\ coefficient' = (coefficient + counted[Chunk(k).size][r % 2 ^ Chunk(k).mask])
                             % 2 ^ WordBits
           /\ plus' = plus + ones[r % 2 ^ Chunk(k).pairs]
  /\ bits' = Chunk(k).size
  /\ UNCHANGED <<variance, k, minus, pairs, done>>

\* ...and the second one subtracted.
SecondHalf ==
  /\ bits # 0
  /\ LET counted == Counted
         ones == Ones
     IN  \E r \in 0 .. 2 ^ bits - 1 :
           /\ coefficient' = (coefficient - counted[bits][r % 2 ^ Chunk(k).mask])
                             % 2 ^ WordBits
           /\ minus' = minus + ones[r % 2 ^ Chunk(k).pairs]
  /\ pairs' = pairs + Chunk(k).pairs
  /\ k' = IF k >= Narrow THEN k - bits ELSE 0
  /\ bits' = 0
  /\ UNCHANGED <<variance, plus, done>>

\* The sum, which is around the modulus, is reduced and imported.
Import ==
  /\ k = 0 /\ ~done
  /\ coefficient' = Reduced(coefficient)
  /\ done' = TRUE
  /\ UNCHANGED <<variance, k, bits, plus, minus, pairs>>

Next == FirstHalf \/ SecondHalf \/ Import

Spec == Init /\ [][Next]_vars

-----------------------------------------------------------------------------

TypeOK ==
  /\ variance \in 0 .. MaxVariance /\ k \in 0 .. 2 * variance
  /\ coefficient \in 0 .. 2 ^ WordBits - 1 /\ (done => coefficient < Modulus)
  /\ bits \in {0, Narrow, Wide} /\ done \in BOOLEAN
  /\ plus \in Nat /\ minus \in Nat /\ pairs \in 0 .. 2 * variance

\* The sample is the difference of two numbers of ones among exactly
\* 2 * variance bits each, as a residue, negative ones included.
Binomial ==
  done => /\ pairs = 2 * variance /\ plus <= pairs /\ minus <= pairs
          /\ coefficient = (plus - minus) % Modulus

\* The word never wraps around on the way.
NoWrap == ~done => coefficient = Modulus + plus - minus
=============================================================================
