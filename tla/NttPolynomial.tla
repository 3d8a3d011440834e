---------------------------- MODULE NttPolynomial ---------------------------
(***************************************************************************)
(* polynomial.h and ntt_parameters.h: polynomials modulo x^n + 1 over a    *)
(* prime field, kept as the values that the number-theoretic transform     *)
(* gives them, beside the coefficients that the tests'                     *)
(* CoefficientPolynomial computes by the definition of each operation.     *)
(*                                                                         *)
(* A coefficient is its residue: that the words of montgomery.h represent  *)
(* residues under every operation is what MontgomeryInt is about.          *)
(***************************************************************************)
EXTENDS TranscribeBits, CoefficientRing

CONSTANTS
  Rings,        \* pairs <<log_n, modulus>> that parameters are asked for
  MaxLogN,      \* kMaxLogNumCoeffs
  WordBits,     \* bits of the type of a coefficient
  ByteBits,     \* bits of a byte: 8
  Inputs(_, _), \* bound: coefficients, by n and modulus, that enter
  Scalars(_),   \* bound: numbers that polynomials are multiplied by
  MaxOps        \* bound: operations after the parameters are set up

RingAssumption ==
  /\ \A r \in Rings : r[1] \in Int /\ r[2] \in Nat
  /\ MaxLogN \in Nat /\ MaxOps \in Nat

VARIABLES
  ring,     \* the parameters: log_n, modulus, tables; or NoRing
  ntt,      \* coeffs_ of two Polynomials
  coeffs,   \* coeffs_ of two CoefficientPolynomials, the same polynomials
  ops       \* operations so far

vars == <<ring, ntt, coeffs, ops>>

NoRing == [log_n |-> 0]
Polys == {1, 2}

-----------------------------------------------------------------------------
(* NttParameters *)

\* base to the power e, modulo q.
Power(base, e, q) ==
  LET P[k \in Nat] == IF k = 0 THEN 1 ELSE (P[k - 1] * base) % q IN P[e]

\* PrimitiveNthRootOfUnity, with n = 2 ^ log: the first t whose power does not
\* already have half the order.
PrimitiveRoot(log, q) ==
  LET Candidate(t) == Power(t, (q - 1) \div 2 ^ log, q)
  IN Candidate(Min({t \in 2 .. q - 1 :
                      Power(Candidate(t), 2 ^ (log - 1), q) # 1}))

\* Bitrev: the log rightmost bits of i reversed.
Bitrev(i, log) ==
  LET Out[k \in 0 .. log] ==
        IF k = 0 THEN 0 ELSE 2 * Out[k - 1] + (ShiftRight(i, k - 1) % 2)
  IN Out[log]

Indices(log) == 0 .. 2 ^ log - 1

\* BitrevHelper swaps every pair once, so that it permutes.
Reversed(row, log) == [i \in Indices(log) |-> row[Bitrev(i, log)]]

Psis(log, q) ==
  LET psi == PrimitiveRoot(log + 1, q) IN [i \in Indices(log) |-> Power(psi, i, q)]

PsisBitrev(log, q) == Reversed(Psis(log, q), log)

\* Faulty variant: the entries after the first keep their sign.
PsisInvBitrevSign(log, q) ==
  LET n == 2 ^ log
      psis == Psis(log, q)
      row == [i \in Indices(log) |-> IF i = 0 THEN psis[0] ELSE psis[n - i]]
      rev == Reversed(row, log)
  IN [i \in Indices(log) |-> (rev[i] * (q - row[1])) % q]

\* NttPsisInvBitrev: the row reversed but for its first entry, then permuted,
\* then multiplied by the inverse of psi, up to the sign that psi^n = -1 left.
PsisInvBitrev(log, q) ==
  LET n == 2 ^ log
      psis == Psis(log, q)
      row == [i \in Indices(log) |-> IF i = 0 THEN psis[0] ELSE psis[n - i]]
      rev == Reversed(row, log)
  IN [i \in Indices(log) |->
        (rev[i] * (IF i = 0 THEN q - row[1] ELSE row[1])) % q]

\* Faulty variant: a primitive root of order n is taken to be enough.
RefusedRingHalf(log, q) ==
  \/ log <= 0 \/ log > MaxLogN
  \/ log >= WordBits - 1
  \/ q % 2 ^ log # 1

\* InitializeNttParameters, and what it refuses.
RefusedRing(log, q) ==
  \/ log <= 0 \/ log > MaxLogN
  \/ log >= WordBits - 1
  \/ q % 2 ^ (log + 1) # 1

InitializeNttParameters(log, q) ==
  [log_n |-> log,
   modulus |-> q,
   n_inv |-> Power(2 ^ log % q, q - 2, q),
   psis_bitrev |-> PsisBitrev(log, q),
   psis_inv_bitrev |-> PsisInvBitrev(log, q),
   bitrevs |-> [i \in Indices(log) |-> Bitrev(i, log)]]

-----------------------------------------------------------------------------
(* Polynomial *)

\* The index in its table of the root for the block of x at the level with
\* half-blocks of 2 ^ i: the tables are read one entry a block, level after
\* level, from index 1 down the levels and from index 0 up.
DownIndex(x, i, log) == 2 ^ (log - 1 - i) + ShiftRight(x, i + 1)
UpIndex(x, i, log) == 2 ^ log - 2 ^ (log - i) + ShiftRight(x, i + 1)

IsLow(x, i) == ShiftRight(x, i) % 2 = 0

\* Faulty variant: every block of a level uses the root of its first one.
CooleyTukeyOneRoot(r, f, i) ==
  LET half == 2 ^ i
      psi(x) == r.psis_bitrev[2 ^ (r.log_n - 1 - i)]
  IN [x \in DOMAIN f |->
        IF IsLow(x, i) THEN (f[x] + psi(x) * f[x + half]) % r.modulus
        ELSE (f[x - half] - psi(x) * f[x]) % r.modulus]

\* One level of the Cooley-Tukey and of the Gentleman-Sande butterfly.
CooleyTukey(r, f, i) ==
  LET half == 2 ^ i
      psi(x) == r.psis_bitrev[DownIndex(x, i, r.log_n)]
  IN [x \in DOMAIN f |->
        IF IsLow(x, i) THEN (f[x] + psi(x) * f[x + half]) % r.modulus
        ELSE (f[x - half] - psi(x) * f[x]) % r.modulus]

GentlemanSande(r, f, i) ==
  LET half == 2 ^ i
      psi(x) == r.psis_inv_bitrev[UpIndex(x, i, r.log_n)]
  IN [x \in DOMAIN f |->
        IF IsLow(x, i) THEN (f[x] + f[x + half]) % r.modulus
        ELSE ((f[x - half] - f[x]) * psi(x)) % r.modulus]

ConvertToNtt(r, f) ==
  LET Level[k \in 0 .. r.log_n] ==
        IF k = 0 THEN f ELSE CooleyTukey(r, Level[k - 1], r.log_n - k)
  IN Level[r.log_n]

InverseNtt(r, f) ==
  LET Level[k \in 0 .. r.log_n] ==
        IF k = 0 THEN f ELSE GentlemanSande(r, Level[k - 1], k - 1)
  IN [x \in DOMAIN f |-> (Level[r.log_n][x] * r.n_inv) % r.modulus]

\* Substitute: entry i, in bitreversed place, is the value at the power-th
\* power of the root it was for.
Substitute(r, f, power) ==
  LET At(i) == ((power - 1) \div 2 + i * power) % Cardinality(DOMAIN f)
  IN [x \in DOMAIN f |-> f[r.bitrevs[At(r.bitrevs[x])]]]

\* Serialize and Deserialize of a polynomial's coefficients.
Serialized(r, f) ==
  LET k == BitLength(r.modulus)
  IN Transcribed([i \in 1 .. 2 ^ r.log_n |-> f[i - 1]], 2 ^ r.log_n * k, k,
                 ByteBits, WordBits, ByteBits)

Deserialized(r, n, bytes) ==
  LET k == BitLength(r.modulus)
      out == Transcribed(bytes, n * k, ByteBits, k, ByteBits, WordBits)
  IN [i \in 0 .. n - 1 |-> out[i + 1]]

-----------------------------------------------------------------------------

q_ == ring.modulus
n_ == 2 ^ ring.log_n
Ready == ring # NoRing /\ ops < MaxOps
Coefficients == [0 .. n_ - 1 -> 0 .. q_ - 1]

TypeOK ==
  /\ ring = NoRing \/ ~RefusedRing(ring.log_n, ring.modulus)
  /\ ring # NoRing => \A a \in Polys : ntt[a] \in Coefficients
                                       /\ coeffs[a] \in Coefficients
  /\ ops \in 0 .. MaxOps

Init ==
  /\ ring = NoRing
  /\ ntt = [a \in Polys |-> <<>>] /\ coeffs = ntt
  /\ ops = 0

\* The parameters are set up, and two polynomials, the second as zero.
Create(rg) ==
  /\ ring = NoRing
  /\ ~RefusedRing(rg[1], rg[2])
  /\ ring' = InitializeNttParameters(rg[1], rg[2])
  /\ \E f \in Inputs(2 ^ rg[1], rg[2]) :
       LET zero == [i \in Indices(rg[1]) |-> 0]
       IN /\ ntt' = <<ConvertToNtt(ring', f), zero>>
          /\ coeffs' = <<f, zero>>
  /\ UNCHANGED ops

Becomes(a, values, f) ==
  /\ ntt' = [ntt EXCEPT ![a] = values]
  /\ coeffs' = [coeffs EXCEPT ![a] = f]
  /\ ops' = ops + 1
  /\ UNCHANGED ring

\* ConvertToNtt of a vector of coefficients.
Convert(a) ==
  /\ Ready
  /\ \E f \in Inputs(n_, q_) : Becomes(a, ConvertToNtt(ring, f), f)

\* SamplePolynomialFromPrng: the values themselves are drawn.
Sample(a) ==
  /\ Ready
  /\ \E f \in Inputs(n_, q_) : Becomes(a, f, InverseNtt(ring, f))

\* A step that applies an operation to the entries and, on the other side,
\* the operation of CoefficientPolynomial to the coefficients.
Operate(a, values, f) == Ready /\ Becomes(a, values, f)

\* Faulty variant: the reduction is left to the next multiplication.
AddLazy(a, b) ==
  Operate(a, [x \in DOMAIN ntt[a] |-> ntt[a][x] + ntt[b][x]],
          RingAdd(coeffs[a], coeffs[b], q_))

Add(a, b) == Operate(a, RingAdd(ntt[a], ntt[b], q_), RingAdd(coeffs[a], coeffs[b], q_))
Sub(a, b) == Operate(a, RingSub(ntt[a], ntt[b], q_), RingSub(coeffs[a], coeffs[b], q_))

Mul(a, b) ==
  Operate(a, Entrywise(LAMBDA x, y : x * y, ntt[a], ntt[b], q_),
          CoefficientMul(coeffs[a], coeffs[b], q_))

ScalarMul(a, c) == Operate(a, RingScale(ntt[a], c, q_), RingScale(coeffs[a], c, q_))
Negate(a) == Operate(a, RingScale(ntt[a], -1, q_), RingScale(coeffs[a], -1, q_))

\* Substitute, refused unless the power is odd and below 2n.
SubstitutePower(a, power) ==
  /\ power % 2 = 1 /\ power < 2 * n_
  /\ Operate(a, Substitute(ring, ntt[a], power),
             CoefficientSubstitute(coeffs[a], power, q_))

\* Multiplication by a monomial: its transform on the one side, the shift of
\* the coefficients on the other.
Shift(a, power) ==
  LET one == [i \in 0 .. n_ - 1 |-> IF i = 0 THEN 1 ELSE 0]
  IN /\ power < 2 * n_
     /\ Operate(a,
          Entrywise(LAMBDA x, y : x * y, ntt[a],
            ConvertToNtt(ring, MonomialMultiplication(one, power, q_)), q_),
          MonomialMultiplication(coeffs[a], power, q_))

\* Sent to another party and read back.
Send(a, b) ==
  /\ Ready
  /\ Becomes(b, Deserialized(ring, n_, Serialized(ring, ntt[a])), coeffs[a])

Next ==
  \/ \E rg \in Rings : Create(rg)
  \/ \E a \in Polys :
       \/ Convert(a) \/ Sample(a) \/ Negate(a)
       \/ ring # NoRing /\ \E c \in Scalars(q_) : ScalarMul(a, c)
       \/ ring # NoRing /\ \E p \in 0 .. 2 * n_ :
            SubstitutePower(a, p) \/ Shift(a, p)
       \/ \E b \in Polys : Add(a, b) \/ Sub(a, b) \/ Mul(a, b) \/ Send(a, b)

Spec == Init /\ [][Next]_vars

-----------------------------------------------------------------------------

\* Entry i of a polynomial is, in bitreversed order, its value at the odd
\* power 2i + 1 of psi: whatever operations it went through, they did to the
\* values what the test polynomial did to the coefficients.
ValuesAtRoots ==
  ring # NoRing =>
    LET psi == ring.psis_bitrev[ring.bitrevs[1]]
        power == [e \in 0 .. 2 * n_ - 1 |-> Power(psi, e, q_)]
        value(f, i) ==
          [k \in DOMAIN f |-> f[k] * power[((2 * i + 1) * k) % (2 * n_)]]
    IN \A a \in Polys : \A i \in 0 .. n_ - 1 :
         ntt[a][ring.bitrevs[i]]
           = SumOver(value(coeffs[a], i), 0 .. n_ - 1) % q_

\* The inverse transform returns the coefficients.
InverseReturns ==
  ring # NoRing => \A a \in Polys : InverseNtt(ring, ntt[a]) = coeffs[a]

\* Parameters are made only for rings where the transform exists: psi has the
\* order 2n exactly, and n an inverse.
RootIsPrimitive ==
  ring # NoRing =>
    LET psi == ring.psis_bitrev[ring.bitrevs[1]]
    IN /\ Power(psi, n_, q_) = q_ - 1
       /\ (n_ * ring.n_inv) % q_ = 1
       /\ \A i \in 1 .. n_ - 1 : Power(psi, i, q_) \notin {1, q_ - 1}
=============================================================================
