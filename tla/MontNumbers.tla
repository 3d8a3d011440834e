----------------------------- MODULE MontNumbers -----------------------------
(***************************************************************************)
(* Numbers in Montgomery form, x * R modulo m, that are multiplied without *)
(* division (crypto/mont_mul.cc).  Products that are changed in place,     *)
(* copies of them, and bytes that are read back are the state.             *)
(***************************************************************************)
EXTENDS BigNumbers

CONSTANTS
  Moduli,     \* odd numbers
  R,          \* the radix: a power of 2 above every modulus
  Numbers,    \* that are converted
  Exponents,  \* of PowTo2To
  KeepBits,   \* of a byte
  MaxOps      \* bound: operations

MontAssumption ==
  \A m \in Moduli : m % 2 = 1 /\ m < R

VARIABLES
  modulus_,  \* of the context
  bn_,       \* the numbers a and b, in Montgomery form
  stands,    \* what they stand for
  ops
vars == <<modulus_, bn_, stands, ops>>

\* BN_to_montgomery, BN_mod_mul_montgomery and BN_from_montgomery.
ToMontgomery(x) == (x * R) % modulus_
FromMontgomery(y) == (y * ModInverse(R % modulus_, modulus_)) % modulus_
MulMontgomery(y, z) == FromMontgomery((y * z) % modulus_)

\* CreateMontBigNum, of a number below the modulus.
Init ==
  /\ modulus_ \in Moduli
  /\ \E x, y \in {n \in Numbers : n < modulus_} :
       /\ bn_ = <<ToMontgomery(x), ToMontgomery(y)>>
       /\ stands = <<x, y>>
  /\ ops = 0

Becomes(n, y, x) ==
  /\ ops < MaxOps /\ ops' = ops + 1
  /\ bn_' = [bn_ EXCEPT ![n] = y]
  /\ stands' = [stands EXCEPT ![n] = x % modulus_]
  /\ UNCHANGED modulus_

MulInPlace(n, other) ==
  Becomes(n, MulMontgomery(bn_[n], bn_[other]), stands[n] * stands[other])
\* The copy that Mul changes is not the number it was called on.
Mul(n, other) ==
  /\ n # other
  /\ Becomes(other, MulMontgomery(bn_[n], bn_[other]), stands[n] * stands[other])

\* Faulty variant: a square that stays a square.
SquaresOnce(y, exponent) == MulMontgomery(y, y)
\* PowTo2To: as many squares.
Squares(y, exponent) ==
  LET square[i \in 0 .. exponent] ==
        IF i = 0 THEN y ELSE MulMontgomery(square[i - 1], square[i - 1])
  IN  square[exponent]
PowTo2To(n, exponent) ==
  Becomes(n, Squares(bn_[n], exponent), ModExp(stands[n], 2 ^ exponent, modulus_))

\* ToBytes, and CreateMontBigNum of the bytes: still in Montgomery form.
FromBytes(bytes) == FoldLeft(LAMBDA x, byte : x * 2 ^ KeepBits + byte, 0, bytes)
SendBytes(n) == Becomes(n, FromBytes(ToBytes(bn_[n], KeepBits)), stands[n])

Next ==
  \/ \E n, other \in {1, 2} : MulInPlace(n, other) \/ Mul(n, other)
  \/ \E n \in {1, 2}, exponent \in Exponents : PowTo2To(n, exponent)
  \/ \E n \in {1, 2} : SendBytes(n)

-----------------------------------------------------------------------------
(* Properties *)

\* mont_mul.cc:65-124: whatever was multiplied, squared or sent, a number is what
\* ToBigNum says it is, and two are equal when those are.
MontExact ==
  /\ \A n \in {1, 2} : FromMontgomery(bn_[n]) = stands[n] /\ bn_[n] \in 0 .. modulus_ - 1
  /\ bn_[1] = bn_[2] <=> stands[1] = stands[2]
=============================================================================
