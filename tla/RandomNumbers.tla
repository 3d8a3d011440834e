---------------------------- MODULE RandomNumbers ----------------------------
(***************************************************************************)
(* How crypto/context.cc makes numbers below a bound of bits of another    *)
(* kind: the random oracle from as many hashes as the bound needs, the     *)
(* pseudorandom function and random numbers by trying again.               *)
(*                                                                         *)
(* Bytes have ByteBits bits, SHA-256 gives HashBits and SHA-512 twice as   *)
(* many.                                                                   *)
(***************************************************************************)
EXTENDS BigNumbers, FiniteSetsExt

CONSTANTS
  ByteBits, HashBits,
  Bounds,     \* of the numbers: max_value
  Inputs,     \* byte strings to hash
  Hashes,     \* what a hash may give, in turn: quarters of its range
  Rands(_),   \* what BN_rand_range may give below n
  FairBits    \* bound: the longest hashes whose outcomes are all counted

NumbersAssumption ==
  /\ ByteBits \in Nat \ {0, 1} /\ HashBits \in Nat \ {0}
  /\ Bounds \subseteq Nat \ {0}

VARIABLES
  job,     \* the function that runs, and its arguments
  loop,    \* its loop
  result   \* what it returned, or NoResult
vars == <<job, loop, result>>

NoResult == -1
NoLoop == [i |-> 1, output |-> 0, inputs |-> <<>>, data |-> 0]

BitLength(n) == LeastOf({b \in 0 .. 30 : n < 2 ^ b})
HashLength(type) == IF type = "SHA512" THEN 2 * HashBits ELSE HashBits

-----------------------------------------------------------------------------
(* RandomOracle *)

\* Faulty variant: as many bits as one hash has, whatever the bound.
OutputLengthOfHash(max_value, type) == HashLength(type)
OutputLength(max_value, type) == BitLength(max_value) + HashLength(type)
IterCount(max_value, type) ==
  (OutputLength(max_value, type) + HashLength(type) - 1) \div HashLength(type)
Excess(max_value, type) ==
  IterCount(max_value, type) * HashLength(type) - OutputLength(max_value, type)

\* 130048 = 254 * 512: more hashes than that are refused.
MaxOutput == (2 ^ ByteBits - 2) * 2 * HashBits
Accepted(max_value, type) == IterCount(max_value, type) * HashLength(type) < MaxOutput

\* The number of the hash stands before what is hashed.
HashInput(i, x) == ToBytes(i, ByteBits) \o x

\* hash_output.Rshift(excess_bit_count).Mod(max_value)
Reduced(hash_output, max_value, type) ==
  (hash_output \div 2 ^ Excess(max_value, type)) % max_value

OracleJob(type, x, hash, max_value) ==
  [kind |-> "oracle", type |-> type, x |-> x, hash |-> hash, max_value |-> max_value,
   start |-> 0]

\* Hash i of the oracle's: a part of the range of the hash.
Part(hash, i, type) == ((2 ^ HashLength(type) - 1) * hash[(i % Len(hash)) + 1]) \div 4
HashOf(i) == Part(job.hash, i, job.type)

RandomOracle ==
  /\ job.kind = "oracle" /\ result = NoResult
  /\ UNCHANGED job
  /\ IF loop.i <= IterCount(job.max_value, job.type)
     THEN /\ loop' = [loop EXCEPT
               !.i = @ + 1,
               !.output = @ * 2 ^ HashLength(job.type) + HashOf(loop.i),
               !.inputs = Append(@, HashInput(loop.i, job.x))]
          /\ UNCHANGED result
     ELSE /\ result' = Reduced(loop.output, job.max_value, job.type)
          /\ UNCHANGED loop

-----------------------------------------------------------------------------
(* PRF and random numbers *)

\* HMAC is a function of what it is given: here, of numbers below 2 ^ HashLength.
Hmac(hash, data) == Part(hash, data, "SHA512")
PrfJob(x, hash, max_value) ==
  [kind |-> "prf", type |-> "SHA512", x |-> <<x>>, hash |-> hash, max_value |-> max_value,
   start |-> 0]

\* The last bits of the hash, if they are a number below the bound; otherwise the
\* hash is hashed, for ever if HMAC runs in a circle.
PRF ==
  /\ job.kind = "prf" /\ result = NoResult
  /\ UNCHANGED job
  /\ LET hash == Hmac(job.hash, loop.data)
         reduced == hash % (2 ^ BitLength(job.max_value))
     IN  IF reduced < job.max_value THEN result' = reduced /\ UNCHANGED loop
         ELSE loop' = [loop EXCEPT !.data = hash] /\ UNCHANGED result

BetweenJob(start, end) ==
  [kind |-> "between", type |-> "none", x |-> <<>>, hash |-> <<>>, max_value |-> end,
   start |-> start]
GenerateRandBetween ==
  /\ job.kind = "between" /\ result = NoResult
  /\ \E r \in Rands(job.max_value - job.start) : result' = r + job.start
  /\ UNCHANGED <<job, loop>>

\* Gcd(num) > One()
CommonDivisor(a, b) == \E d \in 2 .. b : a % d = 0 /\ b % d = 0
PrimeJob(num) == [BetweenJob(0, num) EXCEPT !.kind = "coprime"]
RelativelyPrimeRandomLessThan ==
  /\ job.kind = "coprime" /\ result = NoResult
  /\ \E r \in Rands(job.max_value) :
       IF CommonDivisor(r, job.max_value) THEN UNCHANGED result ELSE result' = r
  /\ UNCHANGED <<job, loop>>

Init ==
  /\ \/ \E type \in {"SHA256", "SHA512"}, x \in Inputs, hash \in Hashes, n \in Bounds :
          Accepted(n, type) /\ job = OracleJob(type, x, hash, n)
     \/ \E x \in {0, 1}, hash \in Hashes, n \in Bounds :
          BitLength(n) <= 2 * HashBits /\ job = PrfJob(x, hash, n)
     \/ \E start, end \in Bounds : start < end /\ job = BetweenJob(start, end)
     \/ \E num \in Bounds : job = PrimeJob(num)
  /\ loop = [NoLoop EXCEPT !.data = IF job.kind = "prf" THEN job.x[1] ELSE 0]
  /\ result = NoResult

Next == RandomOracle \/ PRF \/ GenerateRandBetween \/ RelativelyPrimeRandomLessThan

-----------------------------------------------------------------------------
(* Properties *)

\* context.h:146: what is returned is in the range that was asked for, and prime
\* to the number that was given.
InRange ==
  result # NoResult =>
    /\ result \in job.start .. job.max_value - 1
    /\ job.kind = "coprime" /\ job.max_value > 1 =>
         \A d \in 2 .. job.max_value : job.max_value % d = 0 => result % d # 0

\* context.cc:103: no two hashes of the oracle are of the same bytes, also those of
\* other inputs: their numbers tell them apart.  For SHA-512 the limit sees to it;
\* for SHA-256 it admits numbers of more than a byte.
OracleInputs == {HashInput(i, x) : i \in 1 .. IterCount(job.max_value, job.type), x \in Inputs}
InputsDistinct ==
  /\ job.kind = "oracle" /\ result # NoResult =>
       Len(loop.inputs) = IterCount(job.max_value, job.type)
  /\ job.kind = "oracle" /\ IterCount(job.max_value, job.type) < 2 ^ ByteBits =>
       Cardinality(OracleInputs) = IterCount(job.max_value, job.type) * Cardinality(Inputs)
  /\ job.kind = "oracle" /\ job.type = "SHA512" =>
       IterCount(job.max_value, job.type) < 2 ^ ByteBits

\* context.cc:90: if hashes are as good as random, so are the numbers: each is hit
\* equally often but for one part in 2 ^ HashLength.
Fair ==
  LET bits == IterCount(job.max_value, job.type) * HashLength(job.type)
      hits(v) == Cardinality({h \in 0 .. 2 ^ bits - 1 :
                                Reduced(h, job.max_value, job.type) = v})
      one == 2 ^ Excess(job.max_value, job.type)
  IN  job.kind = "oracle" /\ bits <= FairBits /\ loop = NoLoop =>
        \A v \in 0 .. job.max_value - 1 :
          /\ hits(v) >= one * 2 ^ HashLength(job.type)
          /\ hits(v) \in {hits(0), hits(0) - one}

NumbersRight == InRange /\ InputsDistinct /\ Fair
=============================================================================
