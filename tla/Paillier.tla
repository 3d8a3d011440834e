------------------------------ MODULE Paillier ------------------------------
(***************************************************************************)
(* crypto/paillier.cc: the Damgard-Jurik cryptosystem.  Two ciphertexts    *)
(* under one pair of keys, encrypted in each of the ways there are and     *)
(* changed by the homomorphic operations; message is what each stands for, *)
(* and rand what an encryption has returned as its random number.          *)
(***************************************************************************)
EXTENDS BigNumbers

CONSTANTS
  KeyPairs,      \* records of safe primes p, q, of s and of x, which is drawn
                 \* for the generator of the public key
  ByteBits,      \* bits of a byte of an exponent: 8
  Randoms(_),    \* bound: numbers below the argument that are drawn
  Messages(_),   \* bound: messages below n ^ s
  Multipliers,   \* bound: multipliers and shifts
  MaxOps         \* bound: operations

\* The factorials up to s have inverses: ModInverse ends the process otherwise.
PaillierAssumption ==
  /\ \A k \in KeyPairs :
       /\ k.p \in Nat /\ k.q \in Nat /\ IsSafePrime(k.p) /\ IsSafePrime(k.q) /\ k.p # k.q
       /\ k.s \in Nat \ {0} /\ k.s < k.p /\ k.s < k.q
       /\ k.x \in Nat /\ IsCoprime(k.x, k.p * k.q)
       /\ Randoms(k.p * k.q) \subseteq Nat
       /\ Randoms(k.p) \subseteq Nat /\ Randoms(k.q) \subseteq Nat
       /\ Messages(Power(k.p * k.q, k.s)) \subseteq 0 .. Power(k.p * k.q, k.s) - 1
  /\ Multipliers \subseteq Nat /\ ByteBits \in Nat \ {0} /\ MaxOps \in Nat

VARIABLES
  keys,         \* what the objects for both keys hold
  two_k_ary,    \* the flag two_k_ary_exp
  c, message,   \* the ciphertexts and what they stand for
  rand,         \* the random number returned with a ciphertext, or 0
  ops

vars == <<keys, two_k_ary, c, message, rand, ops>>

Regs == {1, 2}

-----------------------------------------------------------------------------
(* Precomputed values *)

\* GetGeneratorForSafePrime: the least from 2 on of full order.
GetGeneratorForSafePrime(p) ==
  LeastOf({g \in 2 .. p - 1 : /\ ModExp(g, 2, p) # 1
                              /\ ModExp(g, (p - 1) \div 2, p) # 1})

\* Of the powers of p: a generator that is none for p ^ 2 is moved by p.
GetGeneratorOfPrimePowers(p) ==
  LET g == GetGeneratorForSafePrime(p)
  IN IF ModExp(g, p - 1, p * p) = 1 THEN g + p ELSE g

GetPowers(num, s) == [i \in 0 .. s + 1 |-> Power(num, i)]

\* num ^ i / i! modulo the modulus.
GetPrecomp(num, modulus, s) ==
  LET precomp[i \in 0 .. s] ==
        IF i = 0 THEN 1
        ELSE (precomp[i - 1] * ((ModInverse(i, modulus) * num) % modulus)) % modulus
  IN precomp

\* Entry <<k, j>> is num ^ (k - 1) / k! modulo p ^ j.
GetDecryptPrecomp(precomp, powers, s) ==
  [kj \in (2 .. s) \X (2 .. s) |->
     ((ModInverse(kj[1], powers[s]) * precomp[kj[1] - 1]) % powers[s]) % powers[kj[2]]]

\* (1 + num) ^ m by the binomial expansion.  Faulty variant: the falling
\* products are reduced by one power too many.
ComputeByBinomialExpansionShort(precomp, powers, s, m) ==
  LET reduced == m % powers[s]
      tmp[j \in 0 .. s] == IF j = 0 THEN 1
                           ELSE (tmp[j - 1] * (reduced - j + 1)) % powers[s - j]
      c_[j \in 0 .. s] == IF j = 0 \/ reduced < j THEN 1
                          ELSE c_[j - 1] + ((tmp[j] * precomp[j]) % powers[s + 1])
  IN c_[LeastOf({s, reduced})]

ComputeByBinomialExpansion(precomp, powers, s, m) ==
  LET reduced == m % powers[s]
      tmp[j \in 0 .. s] == IF j = 0 THEN 1
                           ELSE (tmp[j - 1] * (reduced - j + 1)) % powers[s - j + 1]
      c_[j \in 0 .. s] == IF j = 0 THEN 1
                          ELSE c_[j - 1] + ((tmp[j] * precomp[j]) % powers[s + 1])
  IN c_[LeastOf({s, reduced})]

\* PrimeCrypto: half of a private key.
PrimeCrypto(p, other, s) ==
  LET powers == GetPowers(p, s)
      precomp == GetPrecomp(p * other, powers[s + 1], s)
      g == GetGeneratorOfPrimePowers(p)
  IN [p |-> p, s |-> s, powers |-> powers, precomp |-> precomp,
      lambda_inv |-> ModInverse(p - 1, powers[s]),
      other_prime_inv |-> ModInverse(other, powers[s]),
      decrypt_precomp |-> GetDecryptPrecomp(precomp, powers, s),
      g_p |-> g,
      fbe |-> ModExp(g, Power(p * other, s), powers[s + 1])]

PublicPaillier(n, s, x) ==
  LET powers == GetPowers(n, s)
  IN [n |-> n, s |-> s, powers |-> powers, modulus |-> powers[s + 1],
      g_n |-> ModExp(n - ModExp(x, 2, n), powers[s], powers[s + 1]),
      precomp |-> GetPrecomp(n, powers[s + 1], s)]

Keys(k) == [public |-> PublicPaillier(k.p * k.q, k.s, k.x),
            p |-> PrimeCrypto(k.p, k.q, k.s), q |-> PrimeCrypto(k.q, k.p, k.s)]

-----------------------------------------------------------------------------
(* Encryption and decryption *)

FixedBaseExp(base, e, m) ==
  IF two_k_ary THEN TwoKAryModExp(base, e, m, ByteBits) ELSE ModExp(base, e, m)

\* PrimeCrypto::EncryptWithRand.
PrimeEncrypt(k, m, r) ==
  LET modulus == k.powers[k.s + 1]
  IN ((ComputeByBinomialExpansion(k.precomp, k.powers, k.s, m) % modulus)
       * FixedBaseExp(k.fbe, r, modulus)) % modulus

\* The random number to report for the prime.  Faulty variant: that of the
\* encryption, to the power n ^ s.
ReportedPower(k, r) == FixedBaseExp(k.fbe, r, k.powers[k.s + 1])
Reported(k, r) == FixedBaseExp(k.g_p, r, k.powers[k.s + 1])

\* PrimeCrypto::Decrypt, with LFunc.
PrimeDecrypt(k, ciphertext) ==
  LET u == ModExp(ciphertext, k.p - 1, k.powers[k.s + 1])
      l_u == (((u - 1) \div k.p) * k.other_prime_inv) % k.powers[k.s]
      \* After round j: m_lambda.
      round[j \in 0 .. k.s] ==
        IF j = 0 THEN 0
        ELSE LET m_lambda == round[j - 1]
                 t2[i \in 1 .. j] == IF i = 1 THEN m_lambda
                                     ELSE (t2[i - 1] * (m_lambda - i + 1)) % k.powers[j]
                 t1[i \in 1 .. j] == IF i = 1 THEN l_u % k.powers[j]
                                     ELSE t1[i - 1] - t2[i] * k.decrypt_precomp[<<i, j>>]
             IN t1[j]
  IN ((round[k.s] % k.powers[k.s]) * k.lambda_inv) % k.powers[k.s]

PrivateEncrypt(m, r_p, r_q) ==
  TwoModulusCrt(PrimeEncrypt(keys.p, m, r_p), PrimeEncrypt(keys.q, m, r_q),
                keys.p.powers[keys.p.s + 1], keys.q.powers[keys.q.s + 1])

Decrypt(ciphertext) ==
  TwoModulusCrt(PrimeDecrypt(keys.p, ciphertext), PrimeDecrypt(keys.q, ciphertext),
                keys.p.powers[keys.p.s], keys.q.powers[keys.q.s])

\* PublicPaillier::EncryptUsingGeneratorAndRand and EncryptWithRand.
PublicEncrypt(m, r) ==
  LET k == keys.public
  IN ((ComputeByBinomialExpansion(k.precomp, k.powers, k.s, m) % k.modulus)
       * FixedBaseExp(k.g_n, r, k.modulus)) % k.modulus

PublicEncryptWithRand(m, r) ==
  LET k == keys.public
  IN ((ComputeByBinomialExpansion(k.precomp, k.powers, k.s, m) % k.modulus)
       * ModExp(r, k.powers[k.s], k.modulus)) % k.modulus

-----------------------------------------------------------------------------

n_ == keys.public.n
Space == keys.public.powers[keys.public.s]

Init ==
  /\ \E k \in KeyPairs : keys = Keys(k)
  /\ two_k_ary \in BOOLEAN
  /\ c = [r \in Regs |-> 1] /\ message = [r \in Regs |-> 0]
  /\ rand = [r \in Regs |-> 0] /\ ops = 0

Stores(r, ciphertext, m, random) ==
  /\ ops < MaxOps /\ ops' = ops + 1
  /\ c' = [c EXCEPT ![r] = ciphertext]
  /\ message' = [message EXCEPT ![r] = m]
  /\ rand' = [rand EXCEPT ![r] = random]
  /\ UNCHANGED <<keys, two_k_ary>>

\* PublicPaillier::Encrypt; r_ may be 0.
EncryptPublic(r, m, r_) == Stores(r, PublicEncrypt(m, r_), m, 0)

\* PublicPaillier::EncryptAndGetRand, and EncryptWithRand of its number.
EncryptPublicAndGetRand(r, m, r_) ==
  /\ IsCoprime(r_, n_)
  /\ Stores(r, PublicEncryptWithRand(m, r_), m, r_)

\* PrivatePaillier::Encrypt and PrivatePaillierWithRand::EncryptAndGetRand.
EncryptPrivate(r, m, r_p, r_q) ==
  Stores(r, PrivateEncrypt(m, r_p, r_q), m,
         TwoModulusCrt(Reported(keys.p, r_p) % keys.p.p, Reported(keys.q, r_q) % keys.q.p,
                       keys.p.p, keys.q.p))

Add(r1, r2) ==
  Stores(r1, (c[r1] * c[r2]) % keys.public.modulus, (message[r1] + message[r2]) % Space, 0)

\* Multiply, and LeftShift, which multiplies by a power of two.
Multiply(r, m) ==
  Stores(r, ModExp(c[r], m, keys.public.modulus), (message[r] * m) % Space, 0)

Next ==
  \E r \in Regs :
    \/ \E m \in Messages(Space) :
         \/ \E x \in Randoms(n_) : EncryptPublic(r, m, x) \/ EncryptPublicAndGetRand(r, m, x)
         \/ \E r_p \in Randoms(keys.p.p) \ {0}, r_q \in Randoms(keys.q.p) \ {0} :
              EncryptPrivate(r, m, r_p, r_q)
    \/ \E r2 \in Regs : Add(r, r2)
    \/ \E m \in Multipliers : Multiply(r, m) \/ Multiply(r, Power(2, m))

Spec == Init /\ [][Next]_vars

-----------------------------------------------------------------------------

\* Every ciphertext that the operations can make has an inverse, so that the
\* division of LFunc is exact (Div checks this), and decrypts to exactly what
\* it stands for.
DecryptsExactly ==
  \A r \in Regs :
    /\ c[r] \in 1 .. keys.public.modulus - 1 /\ IsCoprime(c[r], n_)
    /\ Decrypt(c[r]) = message[r]

\* The number returned with a ciphertext, whichever key made it, is one that
\* the public key makes the same ciphertext with.
RandReproduces ==
  \A r \in Regs : rand[r] # 0 =>
    IsCoprime(rand[r], n_) /\ PublicEncryptWithRand(message[r], rand[r]) = c[r]
=============================================================================
