---------------------------- MODULE MontgomeryInt ---------------------------
(***************************************************************************)
(* Integers modulo an odd m in Montgomery form, as montgomery.h computes   *)
(* them in words of W bits, and vectors of them under the batch            *)
(* operations.  Every integer carries the residue it stands for, computed  *)
(* beside it in ordinary arithmetic.                                       *)
(***************************************************************************)
EXTENDS TranscribeBits

CONSTANTS
  W,             \* bitsize_int: 8 to 128
  ByteBits,      \* bits of a byte: 8
  LongBits,      \* bits that Rand64 returns: 64
  MaxNumCoeffs,  \* kMaxNumCoeffs
  Exponents,     \* bound: exponents of ModExp
  MaxLen         \* bound: length of the vectors

WordAssumption ==
  /\ W \in Nat /\ W > 3
  /\ ByteBits \in Nat \ {0} /\ LongBits \in Nat \ {0} /\ ByteBits <= LongBits
  /\ MaxNumCoeffs \in Nat /\ MaxLen \in Nat /\ Exponents \subseteq 0 .. TwoTo[W] - 1

VARIABLES
  params,   \* MontgomeryIntParams, or NoParams before Create
  v,        \* two vectors of integers in Montgomery form (their n_)
  value,    \* history: the residues these stand for
  error     \* whether the last batch or serialization call was refused

vars == <<params, v, value, error>>

R == TwoTo[W]
Word == 0 .. R - 1
Vectors == {1, 2}
NoParams == [modulus |-> 0]

-----------------------------------------------------------------------------
(* MontgomeryIntParams *)

\* Create: less than a quarter of the word, and odd.
Accepted(m) == ShiftRight(m, W - 2) = 0 /\ m % 2 = 1

\* Faulty variant: the second inverse is not kept even.
HalvedOdd(m, s) ==
  IF s[1] % 2 = 1 THEN <<(s[1] + m) \div 2, s[2] \div 2>>
  ELSE <<s[1] \div 2, s[2] \div 2>>

\* x * R - y * m halved, for an s = <<x, y>>.
Halved(m, s) ==
  IF s[1] % 2 = 1 THEN <<(s[1] + m) \div 2, (s[2] + R) \div 2>>
  ELSE <<s[1] \div 2, s[2] \div 2>>

\* <<x, y>> with x * R - y * m = 1, in W halvings of R.
Halvings(m) ==
  LET Half[i \in 0 .. W] == IF i = 0 THEN <<1, 0>> ELSE Halved(m, Half[i - 1])
  IN  Half
Inverses(m) == <<Halvings(m)[W][1] % R, Halvings(m)[W][2] % R>>

\* The quotient that a multiplication by c is reduced with.
Barrett(c, m) == ((c * R) \div m) % R

Params(m) ==
  [modulus |-> m,
   log_modulus |-> BitLength(m),
   r_mod_modulus |-> R % m,
   r_mod_modulus_barrett |-> Barrett(R % m, m),
   inv_r |-> Inverses(m)[1],
   inv_modulus |-> Inverses(m)[2],
   inv_r_barrett |-> Barrett(Inverses(m)[1], m),
   barrett_numerator |-> R \div m]

\* Reduction of any word x.
BarrettReduce(p, x) ==
  LET out == (x - (((p.barrett_numerator * x) \div R) % R) * p.modulus) % R
  IN IF out >= p.modulus THEN out - p.modulus ELSE out

-----------------------------------------------------------------------------
(* MontgomeryInt *)

\* n * c modulo the modulus, for a c whose quotient is precomputed:
\* MulConstantInPlace, and ImportInt and ExportInt with constants of theirs.
Times(p, n, c, barrett) ==
  LET out == (n * c - (((barrett * n) \div R) % R) * p.modulus) % R
  IN IF out >= p.modulus THEN out - p.modulus ELSE out

ImportInt(p, n) == Times(p, n, p.r_mod_modulus, p.r_mod_modulus_barrett)
ImportOne(p) == p.r_mod_modulus
ExportInt(p, n) == Times(p, n, p.inv_r, p.inv_r_barrett)

Add(p, a, b) == BarrettReduce(p, (a + b) % R)

\* Faulty variant: the modulus is added after the subtraction wraps.
SubWraps(p, a, b) == BarrettReduce(p, (a - b) % R)
Sub(p, a, b) == BarrettReduce(p, (a + p.modulus - b) % R)

\* Faulty variant: negation without the modulus, in the word.
NegateWord(p, a) == (R - a) % R
Negate(p, a) == p.modulus - a

Mul(p, a, b) ==
  LET u == (((a * b) % R) * p.inv_modulus) % R
      t == ((a * b + p.modulus * u) \div R) % R
  IN IF t >= p.modulus THEN t - p.modulus ELSE t

\* GetConstant and MulConstantInPlace.
GetConstant(p, a) == <<ExportInt(p, a), Barrett(ExportInt(p, a), p.modulus)>>
MulConstant(p, a, c) == Times(p, a, c[1], c[2])

\* Faulty variant: the base is squared before it is used.
ModExpSquaresFirst(p, a, e) ==
  LET Step[k \in 0 .. W] ==
        IF k = 0 THEN [result |-> ImportOne(p), base |-> Mul(p, a, a)]
        ELSE LET s == Step[k - 1]
             IN [result |-> IF ShiftRight(e, k - 1) % 2 = 1
                            THEN Mul(p, s.result, s.base) ELSE s.result,
                 base |-> Mul(p, s.base, s.base)]
  IN Step[BitLength(e)].result

\* Square and multiply, lowest bit of the exponent first.
ModExp(p, a, e) ==
  LET Step[k \in 0 .. W] ==
        IF k = 0 THEN [result |-> ImportOne(p), base |-> a]
        ELSE LET s == Step[k - 1]
             IN [result |-> IF ShiftRight(e, k - 1) % 2 = 1
                            THEN Mul(p, s.result, s.base) ELSE s.result,
                 base |-> Mul(p, s.base, s.base)]
  IN Step[BitLength(e)].result

MultiplicativeInverse(p, a) == ModExp(p, a, (p.modulus - 2) % R)

\* Faulty variant: the last byte is added with all its bits.
RandomIntUnmasked(log, draws) ==
  LET Step[k \in 0 .. W] ==
        IF k = 0 THEN [rand |-> 0, required |-> log]
        ELSE LET s == Step[k - 1]
                 bits == IF s.required <= ByteBits THEN s.required
                         ELSE Least(s.required, Least(W, LongBits))
             IN IF s.required = 0 THEN s
                ELSE [rand |-> ((s.rand * TwoTo[bits]) + draws[k]) % R,
                      required |-> s.required - bits]
  IN Step[W].rand

\* GenerateRandomInt from the results of the calls on the generator: long
\* words while more than a byte is needed, then one byte.
RandomInt(log, draws) ==
  LET Step[k \in 0 .. W] ==
        IF k = 0 THEN [rand |-> 0, required |-> log]
        ELSE LET s == Step[k - 1]
                 bits == IF s.required <= ByteBits THEN s.required
                         ELSE Least(s.required, Least(W, LongBits))
             IN IF s.required = 0 THEN s
                ELSE [rand |-> ((s.rand * TwoTo[bits]) + (draws[k] % TwoTo[bits])) % R,
                      required |-> s.required - bits]
  IN Step[W].rand

\* What these calls may return, before any number is drawn again.
Draws(log) ==
  LET long == Least(W, LongBits)
      n == IF log <= ByteBits THEN 1 ELSE CeilDiv(log, long)
      lastIsByte == log - (n - 1) * long <= ByteBits
  IN {d \in [1 .. n -> 0 .. TwoTo[LongBits] - 1] :
        lastIsByte => d[n] < TwoTo[ByteBits]}

\* SerializeVector and DeserializeVector, for vectors they do not refuse.
SerializeVector(p, a) ==
  Transcribed(a, Len(a) * p.log_modulus, p.log_modulus, ByteBits, W, ByteBits)

\* Faulty variant: every number the bytes have room for is returned.
DeserializeVectorAll(p, n, bytes) ==
  Transcribed(bytes, Len(bytes) * ByteBits, ByteBits, p.log_modulus, ByteBits, W)

DeserializeVector(p, n, bytes) ==
  Transcribed(bytes, n * p.log_modulus, ByteBits, p.log_modulus, ByteBits, W)

-----------------------------------------------------------------------------

TypeOK ==
  /\ params = NoParams \/ Accepted(params.modulus)
  /\ \A a \in Vectors : v[a] \in Seq(Word) /\ Len(v[a]) <= MaxLen
  /\ \A a \in Vectors : Len(value[a]) = Len(v[a])
  /\ error \in BOOLEAN

Init ==
  /\ params = NoParams
  /\ v = [a \in Vectors |-> <<>>] /\ value = v
  /\ error = FALSE

Create(m) ==
  /\ params = NoParams
  /\ IF Accepted(m) THEN params' = Params(m) /\ UNCHANGED error
     ELSE error' = TRUE /\ UNCHANGED params
  /\ UNCHANGED <<v, value>>

Created == params # NoParams
m_ == params.modulus

\* The vector a becomes a new one, computed without an error.
Becomes(a, vec, residues) ==
  /\ v' = [v EXCEPT ![a] = vec]
  /\ value' = [value EXCEPT ![a] = residues]
  /\ error' = FALSE
  /\ UNCHANGED params

Fails == error' = TRUE /\ UNCHANGED <<params, v, value>>

\* ImportInt of any word, ImportOne and ImportZero at the end of a vector.
Import(a, x) ==
  /\ Created /\ Len(v[a]) < MaxLen
  /\ Becomes(a, Append(v[a], ImportInt(params, x)), Append(value[a], x % m_))

ImportConstants(a) ==
  /\ Created /\ Len(v[a]) + 2 <= MaxLen
  /\ Becomes(a, v[a] \o <<0, ImportOne(params)>>, value[a] \o <<0, 1 % m_>>)

\* ImportRandom: draws are thrown away until one is below the modulus, which
\* is used as it is, in Montgomery form.
ImportRandom(a) ==
  /\ Created /\ Len(v[a]) < MaxLen
  /\ \E draws \in Draws(params.log_modulus) :
       LET n == RandomInt(params.log_modulus, draws)
       IN /\ n < m_
          /\ Becomes(a, Append(v[a], n),
                     Append(value[a], (n * params.inv_r) % m_))

\* The operations on two vectors; a and b may be the same object.
Componentwise(a, b, Op(_, _, _), Ref(_, _)) ==
  IF Len(v[a]) # Len(v[b]) THEN Fails
  ELSE Becomes(a, [i \in DOMAIN v[a] |-> Op(params, v[a][i], v[b][i])],
               [i \in DOMAIN v[a] |-> Ref(value[a][i], value[b][i]) % m_])

\* The operations on a vector and a number, an entry of a vector.
WithScalar(a, x, r, Op(_, _, _), Ref(_, _)) ==
  Becomes(a, [i \in DOMAIN v[a] |-> Op(params, v[a][i], x)],
          [i \in DOMAIN v[a] |-> Ref(value[a][i], r) % m_])

\* Multiplication by what GetConstant returned for an entry of b.
Constants(p, a, b) == MulConstant(p, a, GetConstant(p, b))

Plus(x, y) == x + y
Minus(x, y) == x - y
Product(x, y) == x * y

BatchAdd(a, b) ==
  /\ Created
  /\ \/ Componentwise(a, b, Add, Plus)
     \/ \E i \in DOMAIN v[b] : WithScalar(a, v[b][i], value[b][i], Add, Plus)

BatchSub(a, b) ==
  /\ Created
  /\ \/ Componentwise(a, b, Sub, Minus)
     \/ \E i \in DOMAIN v[b] : WithScalar(a, v[b][i], value[b][i], Sub, Minus)

BatchMul(a, b) ==
  /\ Created
  /\ \/ Componentwise(a, b, Mul, Product)
     \/ \E i \in DOMAIN v[b] : WithScalar(a, v[b][i], value[b][i], Mul, Product)

BatchMulConstant(a, b) ==
  /\ Created
  /\ \/ Componentwise(a, b, Constants, Product)
     \/ \E i \in DOMAIN v[b] :
          WithScalar(a, v[b][i], value[b][i], Constants, Product)

\* NegateInPlace of every entry, as the polynomials do it.
NegateAll(a) ==
  /\ Created /\ v[a] # <<>>
  /\ Becomes(a, [i \in DOMAIN v[a] |-> Negate(params, v[a][i])],
             [i \in DOMAIN v[a] |-> (0 - value[a][i]) % m_])

\* x to the power e, modulo m.
PowerMod(x, e, m) ==
  LET Pow[k \in Nat] == IF k = 0 THEN 1 % m ELSE (Pow[k - 1] * x) % m
  IN Pow[e]

\* ModExp of an entry, the exponent an ordinary integer.
Power(a, e) ==
  /\ Created /\ v[a] # <<>>
  /\ Becomes(a, [v[a] EXCEPT ![1] = ModExp(params, @, e)],
             [value[a] EXCEPT ![1] = PowerMod(@, e, m_)])

\* A vector is serialized and its first n entries are read back into b.
Send(a, b, n) ==
  /\ Created
  /\ IF Len(v[a]) > MaxNumCoeffs \/ v[a] = <<>> \/ n > MaxNumCoeffs \/ n = 0
     THEN Fails
     ELSE Becomes(b, DeserializeVector(params, n, SerializeVector(params, v[a])),
                  SubSeq(value[a], 1, n))

Next ==
  \/ \E m \in Word \ {0} : Create(m)
  \/ \E a \in Vectors :
       \/ \E x \in Word : Import(a, x)
       \/ \E e \in Exponents : Power(a, e)
       \/ ImportConstants(a) \/ ImportRandom(a) \/ NegateAll(a)
       \/ \E b \in Vectors :
            \/ BatchAdd(a, b) \/ BatchSub(a, b)
            \/ BatchMul(a, b) \/ BatchMulConstant(a, b)
            \/ \E n \in 0 .. Len(v[a]) : Send(a, b, n)

Spec == Init /\ [][Next]_vars

-----------------------------------------------------------------------------

\* The residue that an entry n stands for.
Residue(m, n) == (n * Params(m).inv_r) % m

\* A vector of numbers up to the modulus, which the residues belong to.
Stands(vec, residues, m) ==
  /\ vec \in Seq(0 .. m) /\ residues \in Seq(0 .. m - 1)
  /\ Len(residues) = Len(vec) /\ Len(vec) <= MaxLen
  /\ \A i \in 1 .. Len(vec) : residues[i] = Residue(m, vec[i])

\* The inductive invariant: parameters are those of a modulus that Create
\* accepts, there are no entries before, and what entries stand for.
IntegersInv ==
  /\ Created => m_ \in Word \ {0} /\ Accepted(m_) /\ params = Params(m_)
  /\ DOMAIN v = Vectors /\ DOMAIN value = Vectors /\ error \in BOOLEAN
  /\ \A a \in Vectors : Stands(v[a], value[a], m_) /\ (~ Created => v[a] = <<>>)

\* Create computes inv_r and inv_modulus so that the first cancels R and the
\* second the lowest word of a product; both fit a word.
InversesExact ==
  Created => /\ R * params.inv_r - m_ * params.inv_modulus = 1
             /\ params.inv_r < m_ \/ m_ = 1

\* Whatever the operations so far, exporting an entry gives the residue that
\* ordinary arithmetic gives: no sum, product or quotient overflows a word
\* although a negated zero is kept as the modulus itself.
Represents ==
  Created => \A a \in Vectors : \A i \in DOMAIN v[a] :
               ExportInt(params, v[a][i]) = value[a][i]

\* The form is unique but for zero, which negation turns into the modulus:
\* operator== decides equality of residues for all numbers but these two.
UniqueButZero ==
  Created => \A a, b \in Vectors : \A i \in DOMAIN v[a], j \in DOMAIN v[b] :
    LET x == v[a][i]
        y == v[b][j]
    IN /\ x <= m_
       /\ value[a][i] = value[b][j] <=> (x = y \/ {x, y} = {0, m_})

\* All of it: words go through every operation of montgomery.h as the residues
\* that they stand for do, only zero has two words, and the inverses that Create
\* computes are inverses.
IntegersExact == Represents /\ UniqueButZero /\ InversesExact /\ IntegersInv

\* When the modulus is prime, as every modulus the library is used with, the
\* power that MultiplicativeInverse computes is the inverse of any entry that
\* does not stand for zero.
InverseIsInverse ==
  Created /\ (\A d \in 2 .. m_ - 1 : m_ % d # 0) /\ m_ > 1 =>
    \A a \in Vectors : \A i \in DOMAIN v[a] :
      value[a][i] # 0 =>
        Mul(params, v[a][i], MultiplicativeInverse(params, v[a][i]))
          = ImportOne(params)

\* Rejection sampling is unbiased: every number below the modulus comes from
\* as many results of the generator as any other.
Unbiased ==
  LET Drawn(x) == {d \in Draws(params.log_modulus) :
                     RandomInt(params.log_modulus, d) = x}
  IN Created => /\ Drawn(0) # {}
                /\ \A x \in 1 .. m_ - 1 :
                     Cardinality(Drawn(x)) = Cardinality(Drawn(0))
=============================================================================
