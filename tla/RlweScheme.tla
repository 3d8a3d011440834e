----------------------------- MODULE RlweScheme -----------------------------
(***************************************************************************)
(* symmetric_encryption.h and error_params.h as operators: keys and        *)
(* ciphertexts are records, polynomials are coefficients (NttPolynomial is *)
(* about their other form), and the estimate error_ is a whole number, the *)
(* code's double with every summand rounded down.                          *)
(***************************************************************************)
EXTENDS CoefficientRing, TranscribeBits, SequencesExt

CONSTANTS
  N,          \* number of coefficients, a power of two
  LogT,       \* log_t: plaintexts are modulo 2 ^ LogT + 1
  Variance,   \* of the distribution of keys and errors
  WordBits,   \* bits of ModularInt::Int
  MaxError    \* bound: larger estimates, of which nothing is claimed

SchemeAssumption ==
  /\ N \in Nat \ {0} /\ LogT \in Nat \ {0} /\ Variance \in Nat
  /\ WordBits \in Nat \ {0} /\ MaxError \in Nat

T == TwoTo[LogT] + 1
Zero == [i \in 0 .. N - 1 |-> 0]
LogModulus(q) == BitLength(q)

\* The residue of x modulo q that is nearest to zero.
Centered(x, q) == IF x > q \div 2 THEN x - q ELSE x

-----------------------------------------------------------------------------
(* ErrorParams *)

\* The largest k with k * k <= x, bit by bit.
RootOf(x) ==
  LET Root[b \in 0 .. 16] ==
        IF b = 0 THEN 0
        ELSE LET r == Root[b - 1]
                 k == r + 2 ^ (16 - b)
             IN IF k <= 46340 /\ k * k <= x THEN k ELSE r
  IN Root[16]

B_plaintext == RootOf(3 * N * T * T)
\* Faulty variant: the size of the message only.
B_encryptionMessage == RootOf(3 * N * T * T)
B_encryption == RootOf(3 * N * T * T) + RootOf(36 * N * T * T * Variance)
B_scale == RootOf(3 * N * T * T) + RootOf((64 * N * N * T * T) \div 3)

B_relinearize(log, q) ==
  LET sizes == T * CeilDiv(LogModulus(q), log) * N * 2 ^ log
  IN (RootOf((64 * 1024 * Variance) \div 3) * sizes) \div 32

-----------------------------------------------------------------------------
(* SymmetricRlweKey *)

\* Sample: the sampled coefficients, small and of either sign, modulo q.  t is
\* what PlaintextModulus stands for.
Key(s, q) == [s |-> RingScale(s, 1, q), q |-> q, t |-> T]

KeySubstitute(key, power) ==
  [key EXCEPT !.s = CoefficientSubstitute(@, power, key.q), !.t = T]

\* Add and Sub of keys for the same plaintexts and modulus.
KeyAdd(k1, k2) == [k1 EXCEPT !.s = RingAdd(@, k2.s, k1.q)]
KeySub(k1, k2) == [k1 EXCEPT !.s = RingSub(@, k2.s, k1.q)]

\* Faulty variant: negative coefficients are left as they are modulo p.
KeySwitchModulusUnsigned(key, q) ==
  [s |-> RingScale(key.s, 1, q), q |-> q, t |-> T]

\* SwitchModulus of a key: coefficients above p / 2 are negative.  The
\* subtraction is one of words.
KeySwitchModulus(key, q) ==
  LET p == key.q
      moved(x) == IF x > p \div 2 THEN (x - (p % q)) % TwoTo[WordBits] ELSE x
  IN [s |-> [i \in DOMAIN key.s |-> moved(key.s[i]) % q],
      q |-> q, t |-> T]

\* SwitchModulus of keys and of ciphertexts is refused unless p = q (mod t).
SwitchRefused(p, q) == p % T # q % T

-----------------------------------------------------------------------------
(* SymmetricRlweCiphertext *)

Ciphertext(c, q, power_of_s, error) ==
  [c |-> c, q |-> q, power_of_s |-> power_of_s, error |-> error]
EmptyCiphertext(q) == Ciphertext(<<>>, q, 1, 0)

Capped(error) == Least(error, MaxError)

\* internal::Encrypt: the component c0 for the randomness a and the error e.
EncryptC0(key, m, a, e) ==
  RingAdd(RingAdd(CoefficientMul(a, key.s, key.q), RingScale(e, key.t, key.q), key.q),
          m, key.q)

\* Faulty variant: a itself is sent.
EncryptUnsigned(key, m, a, e) ==
  Ciphertext(<<EncryptC0(key, m, a, e), a>>, key.q, 1, B_encryption)

Encrypt(key, m, a, e) ==
  Ciphertext(<<EncryptC0(key, m, a, e), RingScale(a, -1, key.q)>>, key.q, 1,
             B_encryption)

\* RemoveError: numbers above q / 2 are negative.
RemoveError(f, q) ==
  [i \in DOMAIN f |-> (IF f[i] > q \div 2 THEN f[i] - (q % T) ELSE f[i]) % T]

\* The dot product of the components with the powers of the key.
ErrorAndMessage(key, ct) ==
  LET power[i \in Nat] == IF i <= 1 THEN key.s
                          ELSE CoefficientMul(power[i - 1], key.s, key.q)
      term(i) == IF i = 1 THEN ct.c[1]
                 ELSE CoefficientMul(ct.c[i], power[i - 1], key.q)
  IN FoldLeftDomain(LAMBDA acc, i : RingAdd(acc, term(i), key.q), Zero, ct.c)

Decrypt(key, ct) == RemoveError(ErrorAndMessage(key, ct), key.q)

\* AddInPlace and SubInPlace, for equal powers of s: the shorter ciphertext is
\* filled up with zeros.
Combine(Op(_, _, _), ct1, ct2) ==
  LET at(ct, i) == IF i <= Len(ct.c) THEN ct.c[i] ELSE Zero
  IN [ct1 EXCEPT
        !.c = [i \in 1 .. (IF Len(ct1.c) < Len(ct2.c) THEN Len(ct2.c) ELSE Len(ct1.c))
                 |-> Op(at(ct1, i), at(ct2, i), ct1.q)],
        !.error = Capped(@ + ct2.error)]

\* operator* of two ciphertexts that are not empty.
CiphertextMul(ct1, ct2) ==
  LET n == Len(ct1.c) + Len(ct2.c) - 1
      pairs(k) == {i \in 1 .. Len(ct1.c) : k - i + 1 \in 1 .. Len(ct2.c)}
      product(k) ==
        FoldFunction(LAMBDA f, acc : RingAdd(f, acc, ct1.q), Zero,
          [i \in pairs(k) |-> CoefficientMul(ct1.c[i], ct2.c[k - i + 1], ct1.q)])
  IN Ciphertext([k \in 1 .. n |-> product(k)], ct1.q, ct1.power_of_s,
                Capped(ct1.error * ct2.error))

Componentwise(Op(_), ct) == [i \in DOMAIN ct.c |-> Op(ct.c[i])]

\* AbsorbInPlace of a polynomial and of a number below q.
Absorb(ct, m) ==
  [ct EXCEPT !.c = Componentwise(LAMBDA f : CoefficientMul(f, m, ct.q), ct),
             !.error = Capped(@ * B_plaintext)]
AbsorbScalar(ct, x) ==
  [ct EXCEPT !.c = Componentwise(LAMBDA f : RingScale(f, x, ct.q), ct),
             !.error = Capped(@ * x)]

\* The power of s after a substitution.  Faulty variant: it is not reduced.
ComposedUnreduced(power_of_s, power) == power_of_s * power
Composed(power_of_s, power) == (power_of_s * power) % (2 * N)

CiphertextSubstitute(ct, power) ==
  [ct EXCEPT
     !.c = Componentwise(LAMBDA f : CoefficientSubstitute(f, power, ct.q), ct),
     !.power_of_s = Composed(@, power)]

\* A coefficient scaled from p to q, before it is adjusted.
Scaled(x, p, q) == (x * q) \div p

\* Faulty variant: the coefficient is not adjusted to be the same modulo t.
SwitchCoefficientScales(x, p, q) == Scaled(x, p, q) % q

\* A coefficient modulo p brought to q: scaled, then moved up or down to be
\* what it was modulo t.
SwitchCoefficient(x, p, q) ==
  LET up == ((x % T) - (Scaled(x, p, q) % T)) % T
      down == T - up
  IN (IF up > down THEN Scaled(x, p, q) + up ELSE Scaled(x, p, q) - down) % q

\* SwitchModulus of a ciphertext that is not refused.
SwitchModulus(ct, q) ==
  [ct EXCEPT
     !.c = Componentwise(LAMBDA f : [i \in DOMAIN f |-> SwitchCoefficient(f[i], ct.q, q)],
                         ct),
     !.q = q,
     !.error = Capped((LogModulus(q) * @) \div LogModulus(ct.q) + B_scale)]
=============================================================================
