----------------------------- MODULE BigNumbers -----------------------------
(***************************************************************************)
(* What the ciphers ask of crypto/big_num.h and of what is built on it:    *)
(* modular powers and inverses (OpenSSL's), fixed bases, the Chinese       *)
(* remainder theorem.  Numbers are below the square root of 2 ^ 31, which  *)
(* is where TLC's integers end.                                            *)
(***************************************************************************)
EXTENDS Integers, Sequences, SequencesExt

LeastOf(S) == CHOOSE x \in S : \A y \in S : x <= y

\* BigNum::Exp.
Power(b, n) ==
  LET power[k \in Nat] == IF k = 0 THEN 1 ELSE b * power[k - 1] IN power[n]

\* BigNum::ModExp.
ModExp(b, e, m) ==
  LET power[k \in Nat] ==
        IF k = 0 THEN 1 % m
        ELSE LET half == power[k \div 2]
                 square == (half * half) % m
             IN IF k % 2 = 1 THEN (square * (b % m)) % m ELSE square
  IN power[e]

\* BigNum::ModInverse, of a number that has an inverse.
ModInverse(x, m) == CHOOSE y \in 0 .. m - 1 : ((x % m) * y) % m = 1 % m

IsCoprime(x, n) == \A d \in 2 .. n : n % d = 0 => x % d # 0

Prime(n) == n > 1 /\ \A d \in 2 .. n - 1 : n % d # 0
IsSafePrime(p) == Prime(p) /\ Prime((p - 1) \div 2)

\* ModNegate: m itself for a multiple of m that is not zero.
ModNegate(x, m) == IF x = 0 THEN 0 ELSE m - (x % m)

\* The bytes, of k bits each, of a number, the highest first; none of zero.
ToBytes(x, k) ==
  LET bytes[y \in Nat] == IF y = 0 THEN <<>>
                          ELSE Append(bytes[y \div Power(2, k)], y % Power(2, k))
  IN bytes[x]

\* TwoKAryFixedBaseExpImpl::ModExp: k squarings and a product from the cache
\* for every byte of the exponent.
TwoKAryModExp(b, e, m, k) ==
  LET bytes == ToBytes(e, k)
      z[i \in 0 .. Len(bytes)] ==
        IF i = 0 THEN 1 % m
        ELSE (ModExp(z[i - 1], Power(2, k), m) * ModExp(b, bytes[i], m)) % m
  IN z[Len(bytes)]

\* TwoModulusCrt: the number below m1 * m2 that is s1 and s2 modulo m1 and m2.
TwoModulusCrt(s1, s2, m1, m2) ==
  (s1 * (m2 * ModInverse(m2, m1)) + s2 * (m1 * ModInverse(m1, m2))) % (m1 * m2)
=============================================================================
