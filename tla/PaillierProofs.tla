--------------------------- MODULE PaillierProofs ---------------------------
(***************************************************************************)
(* Paillier's cryptosystem.  For every pair of safe primes above s and any *)
(* sequence of operations: a ciphertext decrypts to what was done with its *)
(* message, and the random number that is returned with it makes it again. *)
(***************************************************************************)
EXTENDS NumberProofs

CONSTANTS KeyPairs, ByteBits, Multipliers, RandomsBelow(_), MessagesBelow(_), MaxOps
VARIABLES keys, two_k_ary, ciphertexts, message, rand, ops
Cipher == INSTANCE Paillier WITH
  Randoms <- RandomsBelow, Messages <- MessagesBelow, c <- ciphertexts

-----------------------------------------------------------------------------
(* The operators on numbers *)

\* The operators on numbers are the same in the instance.
LEMMA CipherNumbers ==
  /\ \A b, n : Cipher!Power(b, n) = Power(b, n)
  /\ \A b, e, m : Cipher!ModExp(b, e, m) = ModExp(b, e, m)
  /\ \A x, m : Cipher!ModInverse(x, m) = ModInverse(x, m)
  /\ \A x, n : Cipher!IsCoprime(x, n) = IsCoprime(x, n)
  /\ \A p : Cipher!IsSafePrime(p) = IsSafePrime(p)
  /\ \A T : Cipher!LeastOf(T) = LeastOf(T)
  /\ \A b, e, m, k : Cipher!TwoKAryModExp(b, e, m, k) = TwoKAryModExp(b, e, m, k)
  /\ \A s, t, m, n : Cipher!TwoModulusCrt(s, t, m, n) = TwoModulusCrt(s, t, m, n)
<1>1. \A b, n : Cipher!Power(b, n) = Power(b, n)
  BY DEF Cipher!Power, Power
<1>2. \A b, e, m : Cipher!ModExp(b, e, m) = ModExp(b, e, m)
  BY DEF Cipher!ModExp, ModExp
<1>3. \A x, m : Cipher!ModInverse(x, m) = ModInverse(x, m)
  BY DEF Cipher!ModInverse, ModInverse
<1>4. \A x, n : Cipher!IsCoprime(x, n) = IsCoprime(x, n)
  BY DEF Cipher!IsCoprime, IsCoprime
<1>5. \A p : Cipher!IsSafePrime(p) = IsSafePrime(p)
  BY DEF Cipher!IsSafePrime, IsSafePrime, Cipher!Prime, Prime
<1>6. \A T : Cipher!LeastOf(T) = LeastOf(T)
  BY DEF Cipher!LeastOf, LeastOf
<1>7. \A b, e, m, k : Cipher!TwoKAryModExp(b, e, m, k) = TwoKAryModExp(b, e, m, k)
  BY DEF Cipher!TwoKAryModExp, TwoKAryModExp, Cipher!ToBytes, ToBytes, Cipher!ModExp, ModExp,
         Cipher!Power, Power
<1>8. \A s, t, m, n : Cipher!TwoModulusCrt(s, t, m, n) = TwoModulusCrt(s, t, m, n)
  BY DEF Cipher!TwoModulusCrt, TwoModulusCrt, Cipher!ModInverse, ModInverse
<1> QED
  BY <1>1, <1>2, <1>3, <1>4, <1>5, <1>6, <1>7, <1>8

-----------------------------------------------------------------------------
(* The precomputed values *)

\* pre[j] is num ^ j / j! modulo the modulus.
Quotients(pre, num, modulus, s) ==
  /\ pre \in [0 .. s -> Int] /\ pre[0] = 1
  /\ \A j \in 1 .. s : Same(j * pre[j], num * pre[j - 1], modulus)

\* GetPrecomp computes num ^ j / j!, where the factors of j! are units.
LEMMA GetPrecompIs ==
  ASSUME NEW modulus \in Nat \ {0}, NEW s \in Nat, NEW num \in Int,
         \A i \in 1 .. s : Unit(i, modulus)
  PROVE  /\ Quotients(Cipher!GetPrecomp(num, modulus, s), num, modulus, s)
         /\ \A j \in 1 .. s : \E i \in Int :
              Same(Cipher!GetPrecomp(num, modulus, s)[j],
                   Cipher!GetPrecomp(num, modulus, s)[j - 1] * (i * num), modulus)
<1> DEFINE body(i, y) == (y * ((Cipher!ModInverse(i, modulus) * num) % modulus)) % modulus
           Is(f) == f = [i \in 0 .. s |-> IF i = 0 THEN 1 ELSE body(i, f[i - 1])]
           F == CHOOSE f : Is(f)
           next == [i \in 1 .. s |-> [y \in Int |-> body(i, y)]]
<1>1. Cipher!GetPrecomp(num, modulus, s) = F
  BY DEF Cipher!GetPrecomp
<1>2. ASSUME NEW i \in 1 .. s, NEW y \in Int
      PROVE  /\ body(i, y) \in Int /\ ModInverse(i, modulus) \in Int
             /\ Same(body(i, y), y * (ModInverse(i, modulus) * num), modulus)
             /\ Same(i * body(i, y), num * y, modulus)
  <2> DEFINE v == ModInverse(i, modulus)
             n == v * num
             r == n % modulus
             z == y * r
             iv == i * v
  <2>1. v \in Int /\ Same(iv, 1, modulus) /\ i \in Int /\ modulus \in Int /\ 1 \in Int
    <3>1. v \in 0 .. modulus - 1 /\ Same(i * v, 1, modulus)
      BY ModInverseUnit
    <3> HIDE DEF v
    <3> QED
      BY <3>1
  <2>2. body(i, y) = z % modulus
    BY CipherNumbers
  <2> HIDE DEF body, v
  <2>3. n \in Int /\ iv \in Int
    BY <2>1
  <2> HIDE DEF n
  <2>4. r \in Int /\ Same(r, n, modulus)
    BY <2>3, SameMod
  <2> HIDE DEF r
  <2>5. z \in Int /\ y * n \in Int
    BY <2>3, <2>4
  <2>6. Same(z, y * n, modulus)
    <3>1. Same(y, y, modulus)
      BY <2>1, SameIs
    <3> QED
      BY <2>1, <2>3, <2>4, <3>1, SameProduct
  <2> HIDE DEF z
  <2>7. body(i, y) \in Int /\ Same(body(i, y), z, modulus)
    BY <2>2, <2>5, SameMod
  <2>8. Same(body(i, y), y * n, modulus)
    BY <2>1, <2>5, <2>6, <2>7, SameIs
  <2>9. Same(i * body(i, y), i * (y * n), modulus)
    <3>1. Same(i, i, modulus)
      BY <2>1, SameIs
    <3> QED
      BY <2>1, <2>5, <2>7, <2>8, <3>1, SameProduct
  <2> DEFINE ny == num * y
  <2>10. i * (y * n) = iv * ny /\ 1 * ny = ny /\ ny \in Int
    <3>1. i * (y * (v * num)) = (i * v) * (num * y)
      BY <2>1
    <3>2. ny \in Int /\ 1 * (num * y) = num * y
      OBVIOUS
    <3> QED
      BY <3>1, <3>2 DEF n
  <2> HIDE DEF iv, ny
  <2>11. Same(iv * ny, 1 * ny, modulus)
    <3>1. Same(ny, ny, modulus)
      BY <2>1, <2>10, SameIs
    <3> QED
      BY <2>1, <2>3, <2>10, <3>1, SameProduct
  <2>12. Same(i * body(i, y), ny, modulus)
    <3> DEFINE ib == i * body(i, y)
               yn == i * (y * n)
    <3>1. ib \in Int /\ yn \in Int
      BY <2>1, <2>5, <2>7
    <3> HIDE DEF ib, yn
    <3>2. Same(yn, ny, modulus)
      BY <2>10, <2>11 DEF yn
    <3>3. Same(ib, yn, modulus)
      BY <2>9 DEF ib, yn
    <3>4. Same(ib, ny, modulus)
      BY <2>1, <2>10, <3>1, <3>2, <3>3, SameIs
    <3> QED
      BY <3>4 DEF ib
  <2> QED
    BY <2>1, <2>7, <2>8, <2>12 DEF n, v, ny
<1> HIDE DEF body
<1>3. PICK g : Stepped(g, Int, 1, s, next)
  <2>1. Steps(Int, 1, s, next)
    BY <1>2 DEF Steps
  <2> HIDE DEF next
  <2> QED
    BY <2>1, BoundedRecursion
<1>4. /\ g \in [0 .. s -> Int] /\ g[0] = 1
      /\ \A j \in 1 .. s : g[j] = body(j, g[j - 1]) /\ g[j - 1] \in Int
  BY <1>3 DEF Stepped
<1>5. Is(g)
  <2>1. \A i \in 0 .. s : i # 0 => i \in 1 .. s
    OBVIOUS
  <2> QED
    BY <1>4, <2>1
<1>6. Is(F)
  <2> HIDE DEF Is
  <2> QED
    BY <1>5
<1> HIDE DEF F, next
<1>7. F = g
  <2> DEFINE T == {i \in 0 .. s : F[i] = g[i]}
  <2>0. /\ F = [i \in 0 .. s |-> F[i]] /\ g = [i \in 0 .. s |-> g[i]] /\ F[0] = 1
        /\ \A j \in 1 .. s : F[j] = body(j, F[j - 1])
    <3>1. 0 \in 0 .. s /\ \A j \in 1 .. s : j \in 0 .. s /\ j # 0
      OBVIOUS
    <3> QED
      BY <1>4, <1>6, <3>1
  <2> HIDE DEF Is
  <2>1. 0 \in T
    BY <1>4, <2>0
  <2>2. ASSUME NEW j \in 0 .. s - 1, j \in T
        PROVE  j + 1 \in T
    <3>1. j + 1 \in 1 .. s /\ j + 1 \in 0 .. s /\ (j + 1) - 1 = j
      OBVIOUS
    <3>2. F[j + 1] = body(j + 1, F[(j + 1) - 1]) /\ g[j + 1] = body(j + 1, g[(j + 1) - 1])
      BY <1>4, <2>0, <3>1
    <3> QED
      BY <2>2, <3>1, <3>2
  <2>3. 0 .. s \subseteq T
    <3> HIDE DEF T
    <3> QED
      BY <2>1, <2>2, BoundedInduction
  <2>4. \A i \in 0 .. s : F[i] = g[i]
    BY <2>3
  <2> QED
    BY <2>0, <2>4
<1> HIDE DEF Is
<1>8. Quotients(g, num, modulus, s)
  <2>1. \A j \in 1 .. s : Same(j * g[j], num * g[j - 1], modulus)
    BY <1>2, <1>4
  <2> QED
    BY <1>4, <2>1 DEF Quotients
<1>9. ASSUME NEW j \in 1 .. s
      PROVE  \E i \in Int : Same(g[j], g[j - 1] * (i * num), modulus)
  <2>1. Same(g[j], g[j - 1] * (ModInverse(j, modulus) * num), modulus) /\ ModInverse(j, modulus) \in Int
    BY <1>2, <1>4
  <2> QED
    BY <2>1
<1> QED
  BY <1>1, <1>7, <1>8, <1>9

\* Entry j has the j-th power of a factor of the number.
LEMMA PrecompDivisible ==
  ASSUME NEW b \in Nat \ {0}, NEW o \in Int, NEW s \in Nat, NEW pre,
         Quotients(pre, b * o, Power(b, s + 1), s),
         \A j \in 1 .. s : \E i \in Int : Same(pre[j], pre[j - 1] * (i * (b * o)), Power(b, s + 1))
  PROVE  \A j \in 0 .. s : Same(pre[j], 0, Power(b, j))
<1> DEFINE T == {j \in 0 .. s : Same(pre[j], 0, Power(b, j))}
<1>0. \A j \in 0 .. s : pre[j] \in Int
  BY DEF Quotients
<1>a. pre[0] = 1
  BY DEF Quotients
<1>1. 0 \in T
  <2>1. 1 = 0 + 1 * Power(b, 0) /\ 1 \in Int
    BY PowerIs
  <2>2. Same(1, 0, Power(b, 0))
    BY <2>1 DEF Same
  <2> QED
    BY <1>a, <2>2
<1>2. ASSUME NEW j \in 0 .. s - 1, j \in T
      PROVE  j + 1 \in T
  <2> DEFINE x == pre[j]
             y == pre[j + 1]
             m == Power(b, j)
             d == s - j
             t == Power(b, d)
  <2>1. /\ j + 1 \in 1 .. s /\ (j + 1) - 1 = j /\ d \in Nat /\ (j + 1) + d = s + 1
        /\ j \in Nat /\ j + 1 \in Nat /\ j \in 0 .. s /\ j + 1 \in 0 .. s
    OBVIOUS
  <2>2. PICK i \in Int : Same(y, x * (i * (b * o)), Power(b, s + 1))
    BY <2>1
  <2>3. /\ x \in Int /\ y \in Int /\ m \in Int /\ t \in Int /\ b * m \in Int
        /\ Power(b, j + 1) = b * m /\ Power(b, s + 1) = (b * m) * t
    <3>1. Power(b, (j + 1) + d) = Power(b, j + 1) * t
      <4> HIDE DEF d
      <4> QED
        BY <2>1, PowerIs
    <3>2. m \in Int /\ Power(b, j + 1) = b * m /\ t \in Int
      <4>1. b \in Int
        OBVIOUS
      <4> HIDE DEF d
      <4>2. m \in Int /\ Power(b, j + 1) = b * m
        BY <2>1, <4>1, PowerIs
      <4>3. t \in Int
        BY <2>1, <4>1, PowerIs
      <4> QED
        BY <4>2, <4>3
    <3>3. x \in Int /\ y \in Int
      BY <1>0, <2>1
    <3> HIDE DEF m, t, x, y, d
    <3>4. b * m \in Int
      BY <3>2
    <3> QED
      BY <2>1, <3>1, <3>2, <3>3, <3>4
  <2>4. PICK k \in Int : x = 0 + k * m
    BY <1>2 DEF Same
  <2> HIDE DEF x, y, m, t, d
  <2> DEFINE z == x * (i * (b * o))
             h == (k * i) * o
  <2>5. z \in Int /\ h \in Int /\ z = 0 + h * (b * m)
    <3>1. x = k * m
      BY <2>3, <2>4
    <3>2. (k * m) * (i * (b * o)) = ((k * i) * o) * (b * m)
      BY <2>3
    <3>3. z \in Int /\ h \in Int
      BY <2>3
    <3>4. h * (b * m) \in Int
      BY <2>3, <3>3
    <3> QED
      BY <3>1, <3>2, <3>3, <3>4
  <2> HIDE DEF z, h
  <2>6. Same(z, 0, b * m)
    BY <2>5 DEF Same
  <2>7. Same(y, z, b * m)
    <3>1. Same(y, z, (b * m) * t)
      BY <2>2, <2>3 DEF z
    <3> QED
      BY <2>3, <2>5, <3>1, SameDivisor
  <2>8. Same(y, 0, b * m)
    <3>1. 0 \in Int
      OBVIOUS
    <3> QED
      BY <2>3, <2>5, <2>6, <2>7, <3>1, SameIs
  <2> QED
    BY <2>1, <2>3, <2>8 DEF y
<1>3. 0 .. s \subseteq T
  <2> HIDE DEF T
  <2> QED
    BY <1>1, <1>2, BoundedInduction
<1> QED
  BY <1>3

-----------------------------------------------------------------------------
(* The binomial expansion *)

\* The exponent may be reduced: (1 + n) ^ (b ^ s) is 1 modulo b ^ (s + 1).
LEMMA PowerReduced ==
  ASSUME NEW b \in Nat \ {0}, NEW o \in Int, NEW s \in Nat
  PROVE  \A m \in Nat : \A k \in Nat :
           Same(Power(1 + b * o, m + k * Power(b, s)), Power(1 + b * o, m), Power(b, s + 1))
<1> TAKE m \in Nat
<1> TAKE k \in Nat
<1> DEFINE a == 1 + b * o
           N == Power(b, s)
           M == Power(b, s + 1)
           y == Power(a, N)
           z == Power(y, k)
           x == Power(a, m)
<1>1. N \in Nat \ {0} /\ M \in Nat \ {0} /\ M \in Int /\ a \in Int /\ 1 \in Int
  <2>1. N \in Nat \ {0} /\ M \in Nat \ {0}
    BY PowerPositive
  <2> HIDE DEF N, M
  <2> QED
    BY <2>1
<1>2. Same(a, 1, b)
  <2>1. a = 1 + o * b
    OBVIOUS
  <2> QED
    BY <2>1 DEF Same
<1>3. y \in Int /\ x \in Int
  <2> HIDE DEF a, N
  <2> QED
    BY <1>1, PowerIs
<1>4. z \in Int /\ Power(a, m + k * N) = x * z
  <2> HIDE DEF a, N
  <2>1. k * N \in Nat /\ N * k = k * N
    BY <1>1
  <2>2. Power(a, m + k * N) = x * Power(a, k * N)
    BY <1>1, <2>1, PowerIs
  <2>3. z = Power(a, N * k)
    BY <1>1, PowerOfPower
  <2>4. z \in Int
    BY <1>3, PowerIs
  <2> QED
    BY <2>1, <2>2, <2>3, <2>4
<1>5. Same(y, 1, M)
  <2> HIDE DEF a
  <2>1. Same(Power(a, N), Power(1, N), M)
    BY <1>1, <1>2, PowersLift
  <2> HIDE DEF N
  <2>2. Power(1, N) = 1
    BY <1>1, PowerOfOne
  <2> QED
    BY <2>1, <2>2
<1> HIDE DEF a, N, M, y, x
<1>6. Same(z, 1, M)
  <2>1. Same(Power(y, k), Power(1, k), M)
    BY <1>1, <1>3, <1>5, SamePower
  <2>2. Power(1, k) = 1
    BY PowerOfOne
  <2> QED
    BY <2>1, <2>2
<1> HIDE DEF z
<1>7. Same(x * z, x * 1, M)
  <2>1. Same(x, x, M)
    BY <1>1, <1>3, SameIs
  <2> QED
    BY <1>1, <1>3, <1>4, <1>6, <2>1, SameProduct
<1>8. x * 1 = x
  BY <1>3
<1> QED
  BY <1>4, <1>7, <1>8 DEF a, N, M, x

\* What GetPrecomp returns for the powers of b and a multiple of b.
PrecompOf(pre, b, o, s) ==
  /\ Quotients(pre, b * o, Power(b, s + 1), s)
  /\ \A j \in 0 .. s : Same(pre[j], 0, Power(b, j))

\* The precomputed values, and no more of them.
Padded(pre, s) == [j \in Nat |-> IF j \in 0 .. s THEN pre[j] ELSE 0]

\* The expansion of (1 + n) ^ m with these ends after s steps, modulo p ^ (s + 1).
LEMMA ExpansionOf ==
  ASSUME NEW b \in Nat \ {0}, NEW o \in Int, NEW s \in Nat, NEW pre, PrecompOf(pre, b, o, s)
  PROVE  /\ Padded(pre, s) \in [Nat -> Int] /\ Padded(pre, s)[0] = 1
         /\ \A j \in 0 .. s : Padded(pre, s)[j] = pre[j]
         /\ \A m \in Nat : Same(Partial(Expansion(Padded(pre, s), m), s), Power(1 + b * o, m),
                              Power(b, s + 1))
<1> DEFINE n == b * o
           M == Power(b, s + 1)
           terms == Padded(pre, s)
<1>3. M \in Int /\ n \in Int
  <2>1. s + 1 \in Nat /\ b \in Int
    OBVIOUS
  <2> QED
    BY <2>1, PowerIs
<1>7. \A j \in 0 .. s : pre[j] \in Int
  BY DEF PrecompOf, Quotients
<1> HIDE DEF n
<1>10. terms \in [Nat -> Int] /\ terms[0] = 1 /\ \A j \in 0 .. s : terms[j] = pre[j]
  <2>1. pre[0] = 1
    BY DEF PrecompOf, Quotients
  <2>2. 0 \in 0 .. s /\ \A j \in 0 .. s : j \in Nat
    BY <1>3
  <2> QED
    BY <1>7, <2>1, <2>2 DEF Padded
<1> HIDE DEF terms
<1>11. Binomial(terms, n, s, M)
  <2>1. ASSUME NEW j \in Nat, j < s
        PROVE  Same((j + 1) * terms[j + 1], n * terms[j], M)
    <3>1. j + 1 \in 1 .. s /\ j + 1 \in 0 .. s /\ j \in 0 .. s /\ (j + 1) - 1 = j
      BY <1>3, <2>1
    <3>2. Same((j + 1) * pre[j + 1], n * pre[j], M)
      BY <3>1 DEF PrecompOf, Quotients, n
    <3> QED
      BY <1>10, <3>1, <3>2
  <2> QED
    BY <1>10, <2>1 DEF Binomial
<1>15. \A m \in Nat : Same(Partial(Expansion(terms, m), s), Power(1 + n, m), M)
  <2>1. ASSUME NEW i \in Nat
        PROVE  Same(n * (Falling(i, s) * terms[s]), 0, M)
    <3> DEFINE f == Falling(i, s)
               p == terms[s]
               w == Power(b, s)
    <3>1. f \in Int /\ w \in Int /\ M = b * w
      <4>1. b \in Int /\ i \in Int
        OBVIOUS
      <4> QED
        BY <1>3, <4>1, FallingIs, PowerIs
    <3>2. Same(p, 0, w)
      <4>1. s \in 0 .. s
        BY <1>3
      <4> QED
        BY <1>10, <4>1 DEF PrecompOf
    <3>3. PICK l \in Int : p = 0 + l * w
      BY <3>2 DEF Same
    <3> HIDE DEF f, p, w
    <3>4. p = l * w
      BY <3>1, <3>3
    <3>5. (b * o) * (f * (l * w)) = 0 + ((o * f) * l) * (b * w) /\ (o * f) * l \in Int
      <4>1. (b * o) * (f * (l * w)) = ((o * f) * l) * (b * w)
        BY <3>1
      <4>2. ((o * f) * l) * (b * w) \in Int /\ (o * f) * l \in Int
        BY <3>1
      <4> QED
        BY <4>1, <4>2
    <3> QED
      BY <3>1, <3>4, <3>5 DEF Same, n, f, p
  <2>2. Nat \subseteq Nat /\ (\A i \in Nat : i + 1 \in Nat => i \in Nat)
    OBVIOUS
  <2> DEFINE N == Nat
  <2>3. /\ N \subseteq Nat /\ (\A i \in Nat : i + 1 \in N => i \in N)
        /\ \A i \in Nat : i + 1 \in N => Same(n * (Falling(i, s) * terms[s]), 0, M)
    BY <2>1, <2>2
  <2> HIDE DEF N, M
  <2>4. \A i \in N : Same(Partial(Expansion(terms, i), s), Power(1 + n, i), M)
    BY <1>3, <1>11, <2>3, ExpansionPower
  <2> QED
    BY <2>4 DEF N
<1> QED
  BY <1>10, <1>15 DEF terms, n

\* ComputeByBinomialExpansion computes (1 + n) ^ m, though it reduces as it goes.
LEMMA ComputeIs ==
  ASSUME NEW b \in Nat \ {0}, NEW o \in Int, NEW s \in Nat, NEW pre,
         PrecompOf(pre, b, o, s), NEW m \in Nat
  PROVE  LET value == Cipher!ComputeByBinomialExpansion(pre, Cipher!GetPowers(b, s), s, m)
         IN value \in Int /\ Same(value, Power(1 + b * o, m), Power(b, s + 1))
<1> DEFINE n == b * o
           M == Power(b, s + 1)
           red == m % Power(b, s)
           powers == Cipher!GetPowers(b, s)
           IsT(f) == f = [j \in 0 .. s |-> IF j = 0 THEN 1
                                           ELSE (f[j - 1] * (red - j + 1)) % powers[s - j + 1]]
           tmp == CHOOSE f : IsT(f)
           IsC(f) == f = [j \in 0 .. s |-> IF j = 0 THEN 1
                                           ELSE f[j - 1] + ((tmp[j] * pre[j]) % powers[s + 1])]
           c_ == CHOOSE f : IsC(f)
           last == LeastOf({s, red})
           value == Cipher!ComputeByBinomialExpansion(pre, powers, s, m)
<1>1. \A j \in 0 .. s + 1 : powers[j] = Power(b, j) /\ Power(b, j) \in Nat \ {0}
  <2>1. \A j \in 0 .. s + 1 : j \in Nat
    OBVIOUS
  <2>2. \A j \in 0 .. s + 1 : powers[j] = Power(b, j)
    BY CipherNumbers DEF Cipher!GetPowers
  <2> QED
    BY <2>1, <2>2, PowerPositive
<1>2. value = c_[last]
  <2>1. powers[s] = Power(b, s)
    BY <1>1
  <2>2. value = (CHOOSE f : f = [j \in 0 .. s |-> IF j = 0 THEN 1
                   ELSE f[j - 1] + (((CHOOSE g : g = [i \in 0 .. s |-> IF i = 0 THEN 1
                                        ELSE (g[i - 1] * ((m % powers[s]) - i + 1)) % powers[s - i + 1]])[j]
                                      * pre[j]) % powers[s + 1])])[Cipher!LeastOf({s, m % powers[s]})]
    BY DEF Cipher!ComputeByBinomialExpansion
  <2> HIDE DEF powers
  <2> QED
    BY <2>1, <2>2, CipherNumbers
<1> HIDE DEF value
<1>3. red \in Nat /\ M \in Nat \ {0} /\ M \in Int /\ n \in Int /\ s \in Nat /\ s + 1 \in 0 .. s + 1
  <2>1. Power(b, s) \in Nat \ {0} /\ M \in Nat \ {0} /\ m \in Int
    BY PowerPositive
  <2>2. red \in 0 .. Power(b, s) - 1
    BY <2>1, DivisionOf
  <2> HIDE DEF M, red
  <2> QED
    BY <2>1, <2>2
<1> HIDE DEF powers, red, n
<1> DEFINE stepT(j, y) == (y * (red - j + 1)) % powers[s - j + 1]
<1>4. /\ tmp[0] = 1 /\ \A j \in 1 .. s : tmp[j] = stepT(j, tmp[j - 1])
  <2> DEFINE next == [j \in 1 .. s |-> [y \in Int |-> stepT(j, y)]]
  <2>1. ASSUME NEW j \in 1 .. s, NEW y \in Int
        PROVE  stepT(j, y) \in Int
    <3> DEFINE z == y * (red - j + 1)
               w == powers[s - j + 1]
    <3>1. s - j + 1 \in 0 .. s + 1 /\ z \in Int
      BY <1>3
    <3>2. w \in Nat \ {0}
      BY <1>1, <3>1
    <3> HIDE DEF z, w
    <3>3. z % w \in Int
      BY <3>1, <3>2, SameMod
    <3> QED
      BY <3>3 DEF z, w
  <2>2. Steps(Int, 1, s, next)
    <3> HIDE DEF stepT
    <3> QED
      BY <1>3, <2>1 DEF Steps
  <2>3. PICK f : Stepped(f, Int, 1, s, next)
    <3> HIDE DEF next
    <3> QED
      BY <2>2, BoundedRecursion
  <2>4. /\ f \in [0 .. s -> Int] /\ f[0] = 1
        /\ \A j \in 1 .. s : f[j] = stepT(j, f[j - 1])
    <3> HIDE DEF stepT
    <3> QED
      BY <2>3 DEF Stepped
  <2>5. IsT(f)
    <3>1. \A j \in 0 .. s : j # 0 => j \in 1 .. s
      OBVIOUS
    <3> QED
      BY <2>4, <3>1
  <2>6. IsT(tmp)
    <3> HIDE DEF IsT
    <3> QED
      BY <2>5
  <2> HIDE DEF tmp
  <2>7. 0 \in 0 .. s /\ \A j \in 1 .. s : j \in 0 .. s /\ j # 0
    BY <1>3
  <2> QED
    BY <2>6, <2>7
<1> HIDE DEF tmp
\* the falling products
<1> DEFINE U == {j \in 0 .. s : tmp[j] \in Int /\ Same(tmp[j], Falling(red, j), Power(b, (s - j) + 1))}
<1>5. 0 .. s \subseteq U
  <2>1. 0 \in U
    <3>1. tmp[0] = 1 /\ Falling(red, 0) = 1 /\ 1 \in Int
      BY <1>3, <1>4, FallingIs
    <3>2. s - 0 = s
      BY <1>3
    <3>3. Same(1, 1, M)
      BY <1>3, SameIs
    <3> QED
      BY <1>3, <3>1, <3>2, <3>3
  <2>2. ASSUME NEW j \in 0 .. s - 1, j \in U
        PROVE  j + 1 \in U
    <3> DEFINE x == tmp[j]
               y == tmp[j + 1]
               f == Falling(red, j)
               d == s - j
               w == Power(b, d)
               e == red - j
    <3>1. /\ j + 1 \in 1 .. s /\ (j + 1) - 1 = j /\ d \in Nat /\ s - (j + 1) + 1 = d
          /\ (s - (j + 1)) + 1 = d /\ red - (j + 1) + 1 = e /\ e \in Int /\ d \in 0 .. s + 1
          /\ j \in Nat /\ j + 1 \in 0 .. s
      BY <1>3
    <3> HIDE DEF d, e
    <3>2. y = (x * e) % w
      <4>1. y = stepT(j + 1, x)
        BY <1>4, <3>1
      <4>2. powers[d] = w
        BY <1>1, <3>1
      <4> QED
        BY <3>1, <4>1, <4>2
    <3>3. x \in Int /\ Same(x, f, w * b) /\ w \in Nat \ {0} /\ w \in Int /\ f \in Int
      <4>1. x \in Int /\ Same(x, f, Power(b, d + 1))
        BY <2>2 DEF d
      <4>2. w \in Nat \ {0}
        BY <3>1, PowerPositive
      <4>3. Power(b, d + 1) = b * w
        BY <3>1, PowerIs
      <4>4. f \in Int
        BY <1>3, <3>1, FallingIs
      <4> HIDE DEF w
      <4>5. b * w = w * b
        BY <4>2
      <4> QED
        BY <4>1, <4>2, <4>3, <4>4, <4>5
    <3>4. Falling(red, j + 1) = f * e
      BY <1>3, <3>1, FallingIs DEF e
    <3> HIDE DEF x, y, f, w
    <3>5. Same(x, f, w)
      BY <3>3, SameDivisor
    <3>6. x * e \in Int /\ f * e \in Int
      BY <3>1, <3>3
    <3>7. Same(x * e, f * e, w)
      <4>1. Same(e, e, w)
        BY <3>1, <3>3, SameIs
      <4> QED
        BY <3>1, <3>3, <3>5, <4>1, SameProduct
    <3>8. y \in Int /\ Same(y, x * e, w)
      BY <3>2, <3>3, <3>6, SameMod
    <3>9. Same(y, f * e, w)
      BY <3>3, <3>6, <3>7, <3>8, SameIs
    <3> QED
      BY <3>1, <3>4, <3>8, <3>9 DEF y, w
  <2> HIDE DEF U
  <2> QED
    BY <1>3, <2>1, <2>2, BoundedInduction
<1>6. \A j \in 0 .. s : tmp[j] \in Int /\ Same(tmp[j], Falling(red, j), Power(b, (s - j) + 1))
  BY <1>5
<1> HIDE DEF U, stepT, IsT
<1>7. \A j \in 0 .. s : pre[j] \in Int
  BY DEF PrecompOf, Quotients
\* the terms
<1>8. ASSUME NEW j \in 0 .. s
      PROVE  LET term == (tmp[j] * pre[j]) % powers[s + 1]
             IN term \in Int /\ Same(term, Falling(red, j) * pre[j], M)
  <2> DEFINE x == tmp[j]
             f == Falling(red, j)
             p == pre[j]
             v == Power(b, (s - j) + 1)
             w == Power(b, j)
             term == (x * p) % M
  <2>1. j \in Nat /\ (s - j) + 1 \in Nat /\ ((s - j) + 1) + j = s + 1
    BY <1>3
  <2>2. v \in Int /\ w \in Int /\ M = v * w
    <3>1. Power(b, ((s - j) + 1) + j) = v * w
      BY <2>1, PowerIs
    <3> QED
      BY <2>1, <3>1, PowerIs
  <2>3. x \in Int /\ f \in Int /\ p \in Int
    <3>1. red \in Int /\ x \in Int /\ p \in Int
      BY <1>3, <1>6, <1>7
    <3>2. f \in Int
      BY <2>1, <3>1, FallingIs
    <3> QED
      BY <3>1, <3>2
  <2>4. PICK k \in Int : x = f + k * v
    BY <1>6 DEF Same
  <2>5. PICK l \in Int : p = 0 + l * w
    BY DEF PrecompOf, Same
  <2>6. powers[s + 1] = M
    BY <1>1, <1>3
  <2> HIDE DEF x, f, p, v, w
  <2>7. Same(x * p, f * p, M)
    <3>1. x * p = f * p + (k * v) * p
      BY <2>2, <2>3, <2>4
    <3>2. p = l * w
      BY <2>2, <2>5
    <3>3. (k * v) * (l * w) = (k * l) * (v * w) /\ k * l \in Int
      BY <2>2
    <3>4. x * p = f * p + (k * l) * M
      BY <2>2, <3>1, <3>2, <3>3
    <3> QED
      BY <3>3, <3>4 DEF Same
  <2>8. x * p \in Int /\ f * p \in Int
    BY <2>3
  <2> HIDE DEF M
  <2>9. term \in Int /\ Same(term, x * p, M)
    BY <1>3, <2>8, SameMod
  <2> HIDE DEF term
  <2>10. Same(term, f * p, M)
    BY <1>3, <2>7, <2>8, <2>9, SameIs
  <2> QED
    BY <2>6, <2>9, <2>10 DEF term, x, p, f
<1> DEFINE term(j) == (tmp[j] * pre[j]) % powers[s + 1]
           stepC(j, y) == y + term(j)
<1>9. c_[0] = 1 /\ \A j \in 1 .. s : c_[j] = stepC(j, c_[j - 1])
  <2> DEFINE next == [j \in 1 .. s |-> [y \in Int |-> stepC(j, y)]]
  <2>1. ASSUME NEW j \in 1 .. s, NEW y \in Int
        PROVE  stepC(j, y) \in Int
    <3>1. j \in 0 .. s
      OBVIOUS
    <3>2. term(j) \in Int
      BY <1>8, <3>1
    <3> HIDE DEF term
    <3> QED
      BY <3>2
  <2>2. Steps(Int, 1, s, next)
    <3> HIDE DEF stepC
    <3> QED
      BY <1>3, <2>1 DEF Steps
  <2>3. PICK f : Stepped(f, Int, 1, s, next)
    <3> HIDE DEF next
    <3> QED
      BY <2>2, BoundedRecursion
  <2>4. /\ f \in [0 .. s -> Int] /\ f[0] = 1
        /\ \A j \in 1 .. s : f[j] = stepC(j, f[j - 1])
    <3> HIDE DEF stepC
    <3> QED
      BY <2>3 DEF Stepped
  <2>5. IsC(f)
    <3>1. \A j \in 0 .. s : j # 0 => j \in 1 .. s
      OBVIOUS
    <3> QED
      BY <2>4, <3>1
  <2>6. IsC(c_)
    <3> HIDE DEF IsC
    <3> QED
      BY <2>5
  <2> HIDE DEF c_
  <2>7. 0 \in 0 .. s /\ \A j \in 1 .. s : j \in 0 .. s /\ j # 0
    BY <1>3
  <2> QED
    BY <2>6, <2>7
<1> HIDE DEF c_, IsC
\* the sum
<1> DEFINE terms == Padded(pre, s)
           E(j) == Partial(Expansion(terms, red), j)
           V == {j \in 0 .. s : c_[j] \in Int /\ Same(c_[j], E(j), M)}
<1>10. /\ terms \in [Nat -> Int] /\ terms[0] = 1 /\ \A j \in 0 .. s : terms[j] = pre[j]
       /\ Same(Partial(Expansion(terms, red), s), Power(1 + n, red), M)
  BY <1>3, ExpansionOf DEF n
<1> HIDE DEF terms
<1>12. /\ E(0) = 1
       /\ \A j \in Nat : E(j) \in Int /\ E(j + 1) = E(j) + Falling(red, j + 1) * terms[j + 1]
  <2>1. red \in Int
    BY <1>3
  <2> QED
    BY <1>10, <2>1, ExpansionIs
<1>13. 0 .. s \subseteq V
  <2>1. 0 \in V
    <3>1. Same(1, 1, M) /\ 1 \in Int
      BY <1>3, SameIs
    <3> HIDE DEF E
    <3> QED
      BY <1>3, <1>9, <1>12, <3>1
  <2>2. ASSUME NEW j \in 0 .. s - 1, j \in V
        PROVE  j + 1 \in V
    <3> DEFINE x == c_[j]
               y == E(j)
               t == term(j + 1)
               g == Falling(red, j + 1) * pre[j + 1]
    <3>1. j + 1 \in 1 .. s /\ j + 1 \in 0 .. s /\ (j + 1) - 1 = j /\ j \in Nat /\ j + 1 \in Nat
      BY <1>3
    <3>2. x \in Int /\ y \in Int /\ Same(x, y, M)
      BY <1>12, <2>2, <3>1
    <3>3. t \in Int /\ Same(t, g, M)
      BY <1>8, <3>1
    <3>4. g \in Int
      <4>1. red \in Int /\ pre[j + 1] \in Int
        BY <1>3, <1>7, <3>1
      <4>2. Falling(red, j + 1) \in Int
        BY <3>1, <4>1, FallingIs
      <4> QED
        BY <4>1, <4>2
    <3>5. c_[j + 1] = x + t
      BY <1>9, <3>1
    <3>6. E(j + 1) = y + g
      <4> HIDE DEF E
      <4> QED
        BY <1>10, <1>12, <3>1
    <3> HIDE DEF x, y, t, g
    <3>7. Same(x + t, y + g, M) /\ x + t \in Int
      BY <1>3, <3>2, <3>3, <3>4, SameSum
    <3> QED
      BY <3>1, <3>5, <3>6, <3>7
  <2> HIDE DEF V
  <2> QED
    BY <1>3, <2>1, <2>2, BoundedInduction
<1>14. \A j \in 0 .. s : c_[j] \in Int /\ Same(c_[j], E(j), M)
  BY <1>13
<1> HIDE DEF V, term, stepC
<1>15. Same(E(s), Power(1 + n, red), M)
  BY <1>10
<1>16. last \in 0 .. s /\ E(last) = E(s)
  <2>1. last \in {s, red} /\ last <= s /\ last <= red
    <3>1. {s, red} \subseteq Nat /\ {s, red} # {}
      BY <1>3
    <3> QED
      BY <3>1, LeastOfIs
  <2> HIDE DEF last
  <2>2. last \in 0 .. s
    BY <1>3, <2>1
  <2>3. CASE last = s
    BY <2>2, <2>3
  <2>4. CASE last = red
    <3>1. s - red \in Nat /\ red + (s - red) = s
      BY <1>3, <2>1, <2>4
    <3>2. E(red + (s - red)) = E(red)
      BY <1>3, <1>10, <3>1, ExpansionShort
    <3> QED
      BY <2>2, <2>4, <3>1, <3>2
  <2> QED
    BY <2>1, <2>3, <2>4
<1> HIDE DEF last
<1>17. Same(Power(1 + n, red), Power(1 + n, m), M) /\ Power(1 + n, red) \in Int /\ Power(1 + n, m) \in Int
  <2> DEFINE N == Power(b, s)
             k == m \div N
  <2>1. N \in Nat \ {0} /\ m \in Int /\ b \in Int /\ 1 + n \in Int
    <3>1. N \in Nat \ {0}
      BY PowerPositive
    <3> QED
      BY <1>3, <3>1
  <2>2. m = N * k + red /\ k \in Int
    <3> HIDE DEF N
    <3> QED
      BY <2>1, DivisionOf DEF red, N
  <2> HIDE DEF N, k
  <2>3. k \in Nat
    <3>1. red < N
      <4>1. m % N \in 0 .. N - 1
        BY <2>1, DivisionOf
      <4> QED
        BY <2>1, <4>1 DEF red, N
    <3>2. k < 0 => N * k <= 0 - N
      BY <2>1, <2>2
    <3> QED
      BY <1>3, <2>1, <2>2, <3>1, <3>2
  <2>4. red + k * N = m
    BY <1>3, <2>1, <2>2
  <2>5. Same(Power(1 + n, red + k * N), Power(1 + n, red), M)
    BY <1>3, <2>3, PowerReduced DEF n, N
  <2>6. Power(1 + n, red) \in Int /\ Power(1 + n, m) \in Int
    <3> DEFINE a == 1 + n
    <3> HIDE DEF a
    <3>1. a \in Int
      BY <2>1 DEF a
    <3>2. Power(a, red) \in Int /\ Power(a, m) \in Int
      BY <1>3, <3>1, PowerIs
    <3> QED
      BY <3>2 DEF a
  <2> HIDE DEF M
  <2> QED
    BY <1>3, <2>4, <2>5, <2>6, SameIs
<1>18. value \in Int /\ Same(value, Power(1 + n, m), M)
  <2> DEFINE x == E(s)
             y == Power(1 + n, red)
             z == Power(1 + n, m)
  <2>1. value \in Int /\ Same(value, x, M) /\ x \in Int /\ Same(x, y, M) /\ Same(y, z, M)
        /\ y \in Int /\ z \in Int
    BY <1>2, <1>3, <1>12, <1>14, <1>15, <1>16, <1>17
  <2> HIDE DEF x, y, z, M
  <2>2. Same(value, y, M)
    BY <1>3, <2>1, SameIs
  <2> QED
    BY <1>3, <2>1, <2>2, SameIs DEF z
<1> QED
  BY <1>18 DEF value, powers, n

-----------------------------------------------------------------------------
(* Decryption modulo a power of a prime *)

LateSteps(S, first, N, next) ==
  first \in S /\ N \in Nat \ {0} /\ next \in [2 .. N -> [S -> S]]

LateStepped(f, S, first, N, next) ==
  /\ f \in [1 .. N -> S] /\ f[1] = first
  /\ \A j \in 2 .. N : f[j - 1] \in S /\ f[j] = next[j][f[j - 1]]

\* A recursion from 1 up to N has a solution, ...
LEMMA RecursionFromOne ==
  ASSUME NEW S, NEW first, NEW N, NEW next, LateSteps(S, first, N, next)
  PROVE  \E f : LateStepped(f, S, first, N, next)
<1>0. first \in S /\ N \in Nat \ {0} /\ next \in [2 .. N -> [S -> S]]
  BY DEF LateSteps
<1> DEFINE K == N - 1
           late == [j \in 1 .. K |-> next[j + 1]]
<1>1. K \in Nat /\ N = K + 1
  BY <1>0
<1>2. late \in [1 .. K -> [S -> S]]
  <2>1. \A j \in 1 .. K : j + 1 \in 2 .. N
    BY <1>0
  <2> QED
    BY <1>0, <2>1
<1>3. \A j \in 2 .. N : j - 1 \in 1 .. K /\ late[j - 1] = next[j] /\ j - 1 \in 1 .. N
  <2> TAKE j \in 2 .. N
  <2>1. j - 1 \in 1 .. K /\ (j - 1) + 1 = j /\ j - 1 \in 1 .. N
    BY <1>0
  <2> QED
    BY <2>1
<1> HIDE DEF late
<1>4. Steps(S, first, K, late)
  BY <1>0, <1>1, <1>2 DEF Steps
<1>5. PICK g : Stepped(g, S, first, K, late)
  BY <1>4, BoundedRecursion
<1>6. g \in [0 .. K -> S] /\ g[0] = first /\ \A j \in 1 .. K : g[j] = late[j][g[j - 1]]
  BY <1>5 DEF Stepped
<1> DEFINE f == [j \in 1 .. N |-> g[j - 1]]
<1>7. f \in [1 .. N -> S] /\ f[1] = first
  <2>1. 1 \in 1 .. N /\ 1 - 1 = 0 /\ \A j \in 1 .. N : j - 1 \in 0 .. K
    BY <1>0
  <2> QED
    BY <1>6, <2>1
<1>8. ASSUME NEW j \in 2 .. N
      PROVE  f[j - 1] \in S /\ f[j] = next[j][f[j - 1]]
  <2>1. j \in 1 .. N /\ j - 1 \in 1 .. K /\ j - 1 \in 1 .. N /\ late[j - 1] = next[j]
    BY <1>3
  <2>2. g[j - 1] = late[j - 1][g[(j - 1) - 1]]
    BY <1>6, <2>1
  <2> QED
    BY <1>7, <2>1, <2>2
<1> HIDE DEF f, K
<1> QED
  BY <1>7, <1>8 DEF LateStepped

\* ... and induction from 1 holds.
LEMMA InductionFromOne ==
  ASSUME NEW N \in Nat \ {0}, NEW T, 1 \in T, \A j \in 1 .. N - 1 : j \in T => j + 1 \in T
  PROVE  1 .. N \subseteq T
<1> DEFINE S == {j \in Nat : j + 1 \in T}
           K == N - 1
<1>1. 0 \in S
  OBVIOUS
<1>2. ASSUME NEW j \in 0 .. K - 1, j \in S
      PROVE  j + 1 \in S
  <2>1. j + 1 \in 1 .. N - 1 /\ j + 1 \in T /\ j + 1 \in Nat
    BY <1>2
  <2> QED
    BY <2>1
<1>3. 0 .. K \subseteq S
  <2>1. K \in Nat
    OBVIOUS
  <2> HIDE DEF S, K
  <2> QED
    BY <1>1, <1>2, <2>1, BoundedInduction
<1> SUFFICES ASSUME NEW j \in 1 .. N
             PROVE  j \in T
  OBVIOUS
<1>4. j - 1 \in 0 .. K /\ (j - 1) + 1 = j
  OBVIOUS
<1> HIDE DEF K
<1> QED
  BY <1>3, <1>4

\* d[i] is n ^ (i - 1) / i! modulo p ^ s.
DecryptPrecompOf(d, pre, p, q, s) ==
  /\ d \in [Nat -> Int] /\ d[1] = 1
  /\ \A i \in 1 .. s : /\ Same((p * q) * d[i], pre[i], Power(p, s + 1))
                       /\ Same(d[i], 0, Power(p, i - 1))

\* A power is a multiple of a lower one.
LEMMA PowerSplit ==
  ASSUME NEW b \in Int, NEW i \in Nat, NEW j \in Nat, i <= j
  PROVE  \E t \in Int : Power(b, j) = Power(b, i) * t /\ Power(b, i) \in Int
<1> DEFINE k == j - i
<1>1. k \in Nat /\ i + k = j
  OBVIOUS
<1> HIDE DEF k
<1>2. Power(b, i + k) = Power(b, i) * Power(b, k)
  BY <1>1, PowerIs
<1>3. Power(b, i) \in Int /\ Power(b, k) \in Int
  BY <1>1, PowerIs
<1> QED
  BY <1>1, <1>2, <1>3

\* Modulo a lower power.
LEMMA SameLower ==
  ASSUME NEW b \in Int, NEW i \in Nat, NEW j \in Nat, i <= j,
         NEW x \in Int, NEW y \in Int, Same(x, y, Power(b, j))
  PROVE  Same(x, y, Power(b, i))
<1>1. PICK t \in Int : Power(b, j) = Power(b, i) * t /\ Power(b, i) \in Int
  BY PowerSplit
<1>2. Same(x, y, Power(b, i) * t)
  BY <1>1
<1> QED
  BY <1>1, <1>2, SameDivisor

\* Everything below s is prime to a prime above s, and to its powers.
LEMMA SmallUnits ==
  ASSUME NEW p \in Nat, Prime(p), NEW s \in Nat, s < p
  PROVE  \A i \in 1 .. s : \A j \in Nat : Unit(i, Power(p, j + 1)) /\ Unit(i, p)
<1> TAKE i \in 1 .. s
<1>1. i % p = i /\ i # 0 /\ i \in Int /\ p \in Nat \ {0}
  <2>1. p \in Nat \ {0} /\ i \in Nat /\ i < p /\ i # 0 /\ i \in Int
    BY DEF Prime
  <2> QED
    BY <2>1, SmallResidue
<1>2. Unit(i, p)
  BY <1>1, UnitPrime
<1> QED
  BY <1>1, <1>2, UnitLift

\* GetDecryptPrecomp computes n ^ (i - 1) / i!.
LEMMA GetDecryptPrecompIs ==
  ASSUME NEW p \in Nat, Prime(p), NEW q \in Int, NEW s \in Nat \ {0}, s < p, NEW pre,
         PrecompOf(pre, p, q, s)
  PROVE  \E d : /\ DecryptPrecompOf(d, pre, p, q, s)
                /\ \A i, j \in 2 .. s :
                     LET entry == Cipher!GetDecryptPrecomp(pre, Cipher!GetPowers(p, s), s)[<<i, j>>]
                     IN entry \in Int /\ Same(entry, d[i], Power(p, j))
<1> DEFINE powers == Cipher!GetPowers(p, s)
           value(i) == (ModInverse(i, powers[s]) * pre[i - 1]) % powers[s]
           d == [i \in Nat |-> IF i \in 2 .. s THEN value(i) ELSE 1]
           entries == Cipher!GetDecryptPrecomp(pre, powers, s)
           n == p * q
           M == Power(p, s)
<1>1. /\ \A j \in 0 .. s + 1 : powers[j] = Power(p, j) /\ Power(p, j) \in Nat \ {0}
      /\ p \in Nat \ {0} /\ p \in Int /\ s \in 0 .. s + 1 /\ s + 1 \in 0 .. s + 1
  <2>0. p \in Nat \ {0} /\ p \in Int /\ s \in 0 .. s + 1 /\ s + 1 \in 0 .. s + 1
    BY DEF Prime
  <2>1. \A j \in 0 .. s + 1 : j \in Nat
    OBVIOUS
  <2>2. \A j \in 0 .. s + 1 : powers[j] = Power(p, j)
    BY CipherNumbers DEF Cipher!GetPowers
  <2> QED
    BY <2>0, <2>1, <2>2, PowerPositive
<1>2. powers[s] = M /\ M \in Nat \ {0} /\ M \in Int /\ Power(p, s + 1) = p * M
  <2>1. powers[s] = M /\ M \in Nat \ {0}
    BY <1>1
  <2>2. Power(p, s + 1) = p * M
    BY <1>1, PowerIs
  <2> HIDE DEF M
  <2> QED
    BY <2>1, <2>2
<1>3. ASSUME NEW i \in 2 .. s, NEW j \in 2 .. s
      PROVE  entries[<<i, j>>] = value(i) % Power(p, j)
  <2>1. <<i, j>> \in (2 .. s) \X (2 .. s) /\ j \in 0 .. s + 1
    OBVIOUS
  <2>2. powers[j] = Power(p, j)
    BY <1>1, <2>1
  <2> HIDE DEF powers
  <2> QED
    BY <2>1, <2>2, CipherNumbers DEF Cipher!GetDecryptPrecomp
<1> HIDE DEF powers, entries
<1>4. ASSUME NEW i \in 2 .. s
      PROVE  /\ value(i) \in Int
             /\ Same(n * value(i), pre[i], Power(p, s + 1))
             /\ Same(value(i), 0, Power(p, i - 1))
  <2> DEFINE x == pre[i - 1]
             y == pre[i]
             inv == ModInverse(i, M)
             z == inv * x
             v == value(i)
  <2>1. i \in 1 .. s /\ i \in Nat /\ i - 1 \in 0 .. s /\ i \in 0 .. s /\ i - 1 \in Nat /\ i - 1 <= s
    OBVIOUS
  <2>2. x \in Int /\ y \in Int /\ n \in Int /\ Same(i * y, n * x, Power(p, s + 1))
        /\ Same(x, 0, Power(p, i - 1))
    <3>1. pre \in [0 .. s -> Int] /\ Same(i * pre[i], (p * q) * pre[i - 1], Power(p, s + 1))
      BY <2>1 DEF PrecompOf, Quotients
    <3>2. Same(pre[i - 1], 0, Power(p, i - 1))
      BY <2>1 DEF PrecompOf
    <3>3. n \in Int
      BY <1>1
    <3> HIDE DEF n
    <3>4. x \in Int /\ y \in Int
      BY <2>1, <3>1
    <3> QED
      BY <3>1, <3>2, <3>3, <3>4 DEF n
  <2>3. Unit(i, M) /\ Unit(i, Power(p, s + 1))
    <3>1. s - 1 \in Nat /\ (s - 1) + 1 = s /\ s \in Nat
      OBVIOUS
    <3>2. \A j \in Nat : Unit(i, Power(p, j + 1))
      BY <2>1, SmallUnits
    <3> QED
      BY <3>1, <3>2
  <2> HIDE DEF M, n, x, y
  <2>4. inv \in Int /\ Same(i * inv, 1, M)
    <3>1. inv \in 0 .. M - 1 /\ Same(i * inv, 1, M)
      BY <1>2, <2>1, <2>3, ModInverseUnit
    <3> HIDE DEF inv
    <3> QED
      BY <1>2, <3>1
  <2>5. v = z % M
    BY <1>2 DEF x
  <2> HIDE DEF inv, v
  <2>6. z \in Int
    BY <2>2, <2>4
  <2> HIDE DEF z
  <2>7. v \in Int /\ Same(v, z, M)
    BY <1>2, <2>5, <2>6, SameMod
  <2> DEFINE ii == i * inv
             iv == i * v
             iz == i * z
  <2>8. ii \in Int /\ iv \in Int /\ iz \in Int /\ iz = ii * x /\ 1 * x = x
    BY <2>1, <2>2, <2>4, <2>6, <2>7 DEF z
  <2>9. Same(iv, x, M)
    <3>1. Same(iv, iz, M)
      <4>1. Same(i, i, M)
        BY <1>2, <2>1, SameIs
      <4> QED
        BY <1>2, <2>1, <2>6, <2>7, <4>1, SameProduct
    <3>2. Same(ii * x, 1 * x, M)
      <4>1. Same(x, x, M) /\ Same(ii, 1, M) /\ 1 \in Int
        BY <1>2, <2>2, <2>4, SameIs
      <4> HIDE DEF ii
      <4> QED
        BY <1>2, <2>2, <2>8, <4>1, SameProduct
    <3> HIDE DEF ii, iv, iz
    <3>3. Same(iz, x, M)
      BY <2>8, <3>2
    <3> QED
      BY <1>2, <2>2, <2>8, <3>1, <3>3, SameIs
  <2> DEFINE nv == n * v
             nx == n * x
             iy == i * y
             inv_ == i * nv
  <2>10. nv \in Int /\ nx \in Int /\ iy \in Int /\ inv_ \in Int /\ inv_ = n * iv
         /\ n * iv = p * (q * iv) /\ nx = p * (q * x) /\ q * iv \in Int /\ q * x \in Int
    <3>1. nv \in Int /\ nx \in Int /\ iy \in Int /\ q * x \in Int
      BY <2>1, <2>2, <2>7
    <3>2. inv_ = n * iv
      BY <2>1, <2>2, <2>7
    <3>3. inv_ \in Int
      <4> HIDE DEF nv
      <4> QED
        BY <2>1, <3>1
    <3> HIDE DEF iv
    <3>4. n * iv = p * (q * iv) /\ nx = p * (q * x) /\ q * iv \in Int
      BY <2>2, <2>8 DEF n
    <3> QED
      BY <3>1, <3>2, <3>3, <3>4
  <2> HIDE DEF ii, iv, iz
  <2>11. Same(inv_, nx, p * M)
    <3>1. Same(q * iv, q * x, M)
      <4>1. Same(q, q, M)
        BY <1>2, SameIs
      <4> QED
        BY <1>2, <2>2, <2>8, <2>9, <4>1, SameProduct
    <3>2. Same(p * (q * iv), p * (q * x), p * M)
      <4> DEFINE a == q * iv
                 b == q * x
      <4>1. a \in Int /\ b \in Int /\ Same(a, b, M)
        BY <2>10, <3>1
      <4> HIDE DEF a, b
      <4>2. Same(p * a, p * b, p * M)
        BY <1>1, <1>2, <4>1, SameScaled
      <4> QED
        BY <4>2 DEF a, b
    <3> HIDE DEF inv_, nx
    <3> QED
      BY <2>10, <3>2
  <2> HIDE DEF nx, iy
  <2>12. Same(i * nv, i * y, p * M)
    <3>1. Same(iy, nx, p * M)
      BY <1>2, <2>2 DEF iy, nx
    <3>2. p * M \in Int
      BY <1>1, <1>2
    <3> DEFINE pM == p * M
    <3> HIDE DEF pM, inv_
    <3>3. Same(nx, iy, pM)
      BY <2>10, <3>1, <3>2, SameIs DEF pM
    <3>4. Same(inv_, iy, pM)
      BY <2>10, <2>11, <3>2, <3>3, SameIs DEF pM
    <3> QED
      BY <3>4 DEF pM, inv_, iy
  <2>13. Same(nv, y, p * M)
    <3> HIDE DEF nv
    <3>1. p * M \in Int /\ Unit(i, p * M) /\ i \in Int
      BY <1>1, <1>2, <2>1, <2>3
    <3> QED
      BY <2>2, <2>10, <2>12, <3>1, UnitCancels
  <2>14. Same(v, 0, Power(p, i - 1))
    <3> DEFINE w == Power(p, i - 1)
    <3>1. Same(v, z, w)
      <4>1. s \in Nat
        OBVIOUS
      <4> QED
        BY <1>1, <2>1, <2>6, <2>7, <4>1, SameLower DEF M
    <3>2. w \in Int
      BY <1>1, <2>1, PowerIs
    <3>3. Same(x, 0, w)
      BY <2>2
    <3> HIDE DEF w
    <3>4. Same(inv * x, inv * 0, w) /\ inv * 0 = 0
      <4>1. Same(inv, inv, w) /\ 0 \in Int
        BY <2>4, <3>2, SameIs
      <4>2. inv * 0 = 0
        BY <2>4
      <4> QED
        BY <2>2, <2>4, <3>2, <3>3, <4>1, <4>2, SameProduct
    <3>5. Same(z, 0, w) /\ 0 \in Int
      BY <3>4 DEF z
    <3>6. Same(v, 0, w)
      BY <2>6, <2>7, <3>1, <3>2, <3>5, SameIs
    <3> QED
      BY <3>6 DEF w
  <2> QED
    BY <1>2, <2>7, <2>13, <2>14 DEF v, y
<1>5. d \in [Nat -> Int] /\ d[1] = 1 /\ \A i \in 2 .. s : d[i] = value(i)
  <2> HIDE DEF value
  <2>1. \A i \in 2 .. s : i \in Nat
    OBVIOUS
  <2> QED
    BY <1>4, <2>1
<1> HIDE DEF d
<1>6. DecryptPrecompOf(d, pre, p, q, s)
  <2>1. Same(n * d[1], pre[1], Power(p, s + 1)) /\ Same(d[1], 0, Power(p, 1 - 1))
    <3>1. 1 \in 1 .. s /\ 1 - 1 = 0 /\ 1 \in 0 .. s
      OBVIOUS
    <3>2. pre[0] = 1 /\ Same(1 * pre[1], n * pre[0], Power(p, s + 1)) /\ pre[1] \in Int
      BY <3>1 DEF PrecompOf, Quotients
    <3>3. n \in Int /\ n * 1 = n /\ 1 * pre[1] = pre[1]
      BY <3>2
    <3>4. Same(pre[1], n, Power(p, s + 1)) /\ Power(p, s + 1) \in Int
      <4> HIDE DEF n
      <4>1. p * M \in Int
        BY <1>1, <1>2
      <4> QED
        BY <1>2, <3>2, <3>3, <4>1
    <3> HIDE DEF n
    <3>5. Same(n, pre[1], Power(p, s + 1))
      BY <3>2, <3>3, <3>4, SameIs
    <3>6. Power(p, 0) = 1 /\ 1 = 0 + 1 * 1
      BY <1>1, PowerIs
    <3>7. Same(1, 0, 1)
      BY <3>6 DEF Same
    <3> QED
      BY <1>5, <3>1, <3>3, <3>5, <3>6, <3>7
  <2>2. \A i \in 1 .. s : i = 1 \/ i \in 2 .. s
    OBVIOUS
  <2> HIDE DEF value
  <2> QED
    BY <1>4, <1>5, <2>1, <2>2 DEF DecryptPrecompOf
<1>7. ASSUME NEW i \in 2 .. s, NEW j \in 2 .. s
      PROVE  entries[<<i, j>>] \in Int /\ Same(entries[<<i, j>>], d[i], Power(p, j))
  <2>1. Power(p, j) \in Nat \ {0}
    <3>1. j \in 0 .. s + 1
      OBVIOUS
    <3> QED
      BY <1>1, <3>1
  <2>2. entries[<<i, j>>] = d[i] % Power(p, j) /\ d[i] \in Int
    <3> HIDE DEF value
    <3> QED
      BY <1>3, <1>4, <1>5
  <2> QED
    BY <2>1, <2>2, SameMod
<1> QED
  BY <1>6, <1>7 DEF entries, powers

-----------------------------------------------------------------------------
(* The loop of Decrypt *)

\* The terms of the logarithm of (1 + n) ^ m, divided by n.
Logs(d, m) == [i \in Nat |-> IF i = 0 THEN 0 ELSE Falling(m, i) * d[i]]

\* The partial sums of the logarithm.
LEMMA LogsIs ==
  ASSUME NEW d \in [Nat -> Int], d[1] = 1, NEW m \in Int
  PROVE  /\ Partial(Logs(d, m), 0) = 0 /\ Partial(Logs(d, m), 1) = m
         /\ \A j \in Nat : /\ Partial(Logs(d, m), j) \in Int
                           /\ Partial(Logs(d, m), j + 1)
                                = Partial(Logs(d, m), j) + Falling(m, j + 1) * d[j + 1]
<1> DEFINE w == Logs(d, m)
<1>1. ASSUME NEW i \in Nat
      PROVE  Falling(m, i) * d[i] \in Int
  <2>1. Falling(m, i) \in Int /\ d[i] \in Int
    BY FallingIs
  <2> QED
    BY <2>1
<1>2. w \in [Nat -> Int] /\ w[0] = 0 /\ \A j \in Nat : w[j + 1] = Falling(m, j + 1) * d[j + 1]
  <2>1. \A j \in Nat : j + 1 \in Nat /\ j + 1 # 0
    OBVIOUS
  <2>2. 0 \in Nat /\ 0 \in Int
    OBVIOUS
  <2> QED
    BY <1>1, <2>1, <2>2 DEF Logs
<1> HIDE DEF w
<1>3. /\ Partial(w, 0) = w[0]
      /\ \A j \in Nat : Partial(w, j) \in Int /\ Partial(w, j + 1) = Partial(w, j) + w[j + 1]
  BY <1>2, PartialIs
<1>4. Partial(w, 1) = m
  <2>1. 0 + 1 = 1 /\ 0 \in Nat
    OBVIOUS
  <2>2. Falling(m, 0 + 1) = Falling(m, 0) * (m - 0) /\ Falling(m, 0) = 1
    BY <2>1, FallingIs
  <2>3. Falling(m, 1) = m
    BY <2>1, <2>2
  <2>4. w[0 + 1] = Falling(m, 0 + 1) * d[0 + 1]
    BY <1>2, <2>1
  <2>5. w[1] = m * 1
    BY <2>1, <2>3, <2>4
  <2>6. Partial(w, 0 + 1) = Partial(w, 0) + w[0 + 1]
    BY <1>3, <2>1
  <2> QED
    BY <1>2, <1>3, <2>1, <2>5, <2>6
<1> QED
  BY <1>2, <1>3, <1>4 DEF w

\* Modulo b ^ j only the first j terms count.
LEMMA LogsStable ==
  ASSUME NEW b \in Int, NEW s \in Nat, NEW d \in [Nat -> Int], d[1] = 1, NEW m \in Int,
         \A i \in 1 .. s : Same(d[i], 0, Power(b, i - 1)), NEW j \in 1 .. s
  PROVE  Same(Partial(Logs(d, m), s), Partial(Logs(d, m), j), Power(b, j))
<1> DEFINE G(i) == Partial(Logs(d, m), i)
           N == s - j
           M == Power(b, j)
           T == {k \in 0 .. N : Same(G(j + k), G(j), M)}
<1>1. N \in Nat /\ j + N = s /\ j \in Nat /\ M \in Int
  BY PowerIs
<1>2. \A i \in Nat : G(i) \in Int /\ G(i + 1) = G(i) + Falling(m, i + 1) * d[i + 1]
  BY LogsIs
<1> HIDE DEF N, M, G
<1>3. 0 \in T
  <2>1. j + 0 = j /\ 0 \in 0 .. N
    BY <1>1
  <2>2. Same(G(j), G(j), M)
    BY <1>1, <1>2, SameIs
  <2> QED
    BY <2>1, <2>2
<1>4. ASSUME NEW k \in 0 .. N - 1, k \in T
      PROVE  k + 1 \in T
  <2> DEFINE i == j + k
             f == Falling(m, i + 1)
             e == d[i + 1]
  <2>1. /\ i \in Nat /\ i + 1 \in 1 .. s /\ (i + 1) - 1 = i /\ j <= i /\ k + 1 \in 0 .. N
        /\ j + (k + 1) = i + 1 /\ i + 1 \in Nat
    BY <1>1 DEF N
  <2>2. Same(e, 0, Power(b, i))
    BY <2>1
  <2>3. f \in Int /\ e \in Int /\ f * e \in Int
    <3>1. f \in Int /\ e \in Int
      <4> HIDE DEF i
      <4> QED
        BY <2>1, FallingIs
    <3> HIDE DEF f, e
    <3> QED
      BY <3>1
  <2> HIDE DEF i, f, e
  <2>4. Same(e, 0, M)
    <3>1. 0 \in Int /\ j \in Nat /\ i \in Nat /\ j <= i
      BY <1>1, <2>1
    <3>2. Same(e, 0, Power(b, j))
      BY <2>2, <2>3, <3>1, SameLower
    <3> QED
      BY <3>2 DEF M
  <2>5. Same(f * e, 0, M)
    <3>1. Same(f, f, M) /\ f * 0 = 0 /\ 0 \in Int
      BY <1>1, <2>3, SameIs
    <3>2. Same(f * e, f * 0, M)
      BY <1>1, <2>3, <2>4, <3>1, SameProduct
    <3> QED
      BY <3>1, <3>2
  <2>6. Same(G(i), G(j), M) /\ G(i) \in Int /\ G(j) \in Int /\ G(i + 1) = G(i) + f * e
    BY <1>1, <1>2, <1>4, <2>1 DEF i, f, e
  <2> DEFINE fe == f * e
  <2> HIDE DEF fe
  <2>7. Same(G(i) + fe, G(j) + 0, M) /\ G(j) + 0 = G(j)
    <3>1. 0 \in Int /\ fe \in Int /\ Same(fe, 0, M)
      BY <2>3, <2>5 DEF fe
    <3> DEFINE x == G(i)
               y == G(j)
    <3>2. x \in Int /\ y \in Int /\ Same(x, y, M)
      BY <2>6
    <3> HIDE DEF x, y
    <3>3. Same(x + fe, y + 0, M) /\ y + 0 = y
      BY <1>1, <3>1, <3>2, SameSum
    <3> QED
      BY <3>3 DEF x, y
  <2> QED
    BY <2>1, <2>6, <2>7 DEF fe
<1>5. 0 .. N \subseteq T
  <2> HIDE DEF T
  <2> QED
    BY <1>1, <1>3, <1>4, BoundedInduction
<1>6. Same(G(j + N), G(j), M)
  BY <1>1, <1>5
<1> QED
  BY <1>1, <1>6 DEF G, M

\* n times the sum is (1 + n) ^ m - 1.
LEMMA LogsAll ==
  ASSUME NEW p \in Nat \ {0}, NEW q \in Int, NEW s \in Nat, NEW pre, NEW d,
         PrecompOf(pre, p, q, s), DecryptPrecompOf(d, pre, p, q, s), NEW m \in Nat
  PROVE  Same((p * q) * Partial(Logs(d, m), s), Power(1 + p * q, m) - 1, Power(p, s + 1))
<1> DEFINE n == p * q
           G(i) == Partial(Logs(d, m), i)
           M == Power(p, s + 1)
           terms == Padded(pre, s)
           X(j) == Partial(Expansion(terms, m), j)
           T == {k \in 0 .. s : Same(n * G(k) + 1, X(k), M)}
<1>1. n \in Int /\ M \in Int /\ m \in Int /\ s \in 0 .. s
  <2>1. p \in Int /\ s + 1 \in Nat
    OBVIOUS
  <2> QED
    BY <2>1, PowerIs
<1>2. /\ terms \in [Nat -> Int] /\ terms[0] = 1 /\ \A j \in 0 .. s : terms[j] = pre[j]
      /\ Same(X(s), Power(1 + n, m), M)
  BY ExpansionOf
<1> HIDE DEF terms
<1>3. /\ X(0) = 1
      /\ \A j \in Nat : X(j) \in Int /\ X(j + 1) = X(j) + Falling(m, j + 1) * terms[j + 1]
  BY <1>1, <1>2, ExpansionIs
<1>4. /\ d \in [Nat -> Int] /\ d[1] = 1
      /\ \A i \in 1 .. s : Same(n * d[i], pre[i], M)
  BY DEF DecryptPrecompOf
<1>5. /\ G(0) = 0
      /\ \A j \in Nat : G(j) \in Int /\ G(j + 1) = G(j) + Falling(m, j + 1) * d[j + 1]
  BY <1>1, <1>4, LogsIs
<1> HIDE DEF n, M, G, X
<1>6. 0 \in T
  <2>1. n * G(0) + 1 = 1 /\ 1 \in Int /\ 0 \in 0 .. s
    BY <1>1, <1>5
  <2>2. Same(1, 1, M)
    BY <1>1, <2>1, SameIs
  <2> QED
    BY <1>3, <2>1, <2>2
<1>7. ASSUME NEW k \in 0 .. s - 1, k \in T
      PROVE  k + 1 \in T
  <2> DEFINE f == Falling(m, k + 1)
             e == d[k + 1]
             y == pre[k + 1]
             ne == n * e
             ng == n * G(k)
  <2>1. k \in Nat /\ k + 1 \in 1 .. s /\ k + 1 \in Nat /\ k + 1 \in 0 .. s
    OBVIOUS
  <2>2. f \in Int /\ e \in Int /\ y \in Int /\ Same(ne, y, M) /\ terms[k + 1] = y
    <3>1. f \in Int
      BY <1>1, <2>1, FallingIs
    <3>2. e \in Int /\ Same(ne, y, M) /\ terms[k + 1] = y /\ terms[k + 1] \in Int
      BY <1>2, <1>4, <2>1
    <3> QED
      BY <3>1, <3>2
  <2>3. G(k + 1) = G(k) + f * e /\ X(k + 1) = X(k) + f * y /\ G(k) \in Int /\ X(k) \in Int
    BY <1>3, <1>5, <2>1, <2>2
  <2>4. Same(ng + 1, X(k), M)
    BY <1>7
  <2> HIDE DEF f, e, y
  <2>5. ne \in Int /\ ng \in Int /\ ng + 1 \in Int
    BY <1>1, <2>2, <2>3
  <2>6. n * G(k + 1) + 1 = (ng + 1) + f * ne
    <3>1. n * (G(k) + f * e) = n * G(k) + f * (n * e)
      BY <1>1, <2>2, <2>3
    <3>2. f * (n * e) \in Int
      BY <1>1, <2>2
    <3> QED
      BY <2>3, <2>5, <3>1, <3>2
  <2> HIDE DEF ne, ng
  <2> DEFINE fn == f * ne
             fy == f * y
             n1 == ng + 1
  <2>7. fn \in Int /\ fy \in Int /\ Same(fn, fy, M)
    <3>1. Same(f, f, M)
      BY <1>1, <2>2, SameIs
    <3> QED
      BY <1>1, <2>2, <2>5, <3>1, SameProduct
  <2>8. n1 \in Int /\ Same(n1, X(k), M)
    BY <2>4, <2>5
  <2> HIDE DEF fn, fy, n1
  <2>9. Same(n1 + fn, X(k) + fy, M)
    BY <1>1, <2>3, <2>7, <2>8, SameSum
  <2> QED
    BY <2>1, <2>3, <2>6, <2>9 DEF fn, fy, n1
<1>8. 0 .. s \subseteq T
  <2> HIDE DEF T
  <2> QED
    BY <1>6, <1>7, BoundedInduction
<1>9. Same(n * G(s) + 1, X(s), M)
  BY <1>1, <1>8
<1> DEFINE g == n * G(s)
           w == Power(1 + n, m)
<1>10. g \in Int /\ w \in Int /\ X(s) \in Int
  <2>1. G(s) \in Int /\ X(s) \in Int /\ 1 + n \in Int
    BY <1>1, <1>3, <1>5
  <2>2. w \in Int
    BY <2>1, PowerIs
  <2> QED
    BY <1>1, <2>1, <2>2
<1>11. Same(X(s), w, M)
  BY <1>2 DEF X
<1> HIDE DEF g, w
<1>12. Same(g + 1, w, M) /\ g + 1 \in Int
  <2>1. Same(g + 1, X(s), M) /\ g + 1 \in Int
    BY <1>9, <1>10 DEF g
  <2> QED
    BY <1>1, <1>10, <1>11, <2>1, SameIs
<1>13. Same((g + 1) - 1, w - 1, M) /\ (g + 1) - 1 = g
  <2>1. Same(1, 1, M) /\ 1 \in Int
    BY <1>1, SameIs
  <2> QED
    BY <1>1, <1>10, <1>12, <2>1, SameSum
<1> QED
  BY <1>13 DEF g, w, G, n, M

-----------------------------------------------------------------------------
(* One round, and all of them *)

\* A round of PrimeCrypto::Decrypt.
Round(l, lambda, j, w, entries) ==
  LET t2[i \in 1 .. j] == IF i = 1 THEN lambda ELSE (t2[i - 1] * (lambda - i + 1)) % w
      t1[i \in 1 .. j] == IF i = 1 THEN l % w ELSE t1[i - 1] - t2[i] * entries[<<i, j>>]
  IN t1[j]

\* What a round starts from: m modulo p ^ (j - 1), and the logarithm modulo p ^ s.
RoundInput(l, lambda, j, p, s, d, entries, m) ==
  /\ l \in Int /\ Same(l, Partial(Logs(d, m), s), Power(p, s))
  /\ lambda \in Int /\ Same(lambda, m, Power(p, j - 1))
  /\ d \in [Nat -> Int] /\ d[1] = 1
  /\ \A i \in 1 .. s : Same(d[i], 0, Power(p, i - 1))
  /\ \A i \in 2 .. j : entries[<<i, j>>] \in Int /\ Same(entries[<<i, j>>], d[i], Power(p, j))

\* A round finds m modulo p ^ j where the round before found it modulo p ^ (j - 1).
LEMMA RoundIs ==
  ASSUME NEW p \in Nat \ {0}, NEW s \in Nat, NEW j \in 1 .. s, NEW m \in Int, NEW l, NEW lambda,
         NEW d, NEW entries, RoundInput(l, lambda, j, p, s, d, entries, m)
  PROVE  LET next == Round(l, lambda, j, Power(p, j), entries)
         IN next \in Int /\ Same(next, m, Power(p, j))
<1> DEFINE w == Power(p, j)
           step2(i, y) == (y * (lambda - i + 1)) % w
           Is2(f) == f = [i \in 1 .. j |-> IF i = 1 THEN lambda
                                           ELSE (f[i - 1] * (lambda - i + 1)) % w]
           t2 == CHOOSE f : Is2(f)
           Is1(f) == f = [i \in 1 .. j |-> IF i = 1 THEN l % w
                                           ELSE f[i - 1] - t2[i] * entries[<<i, j>>]]
           t1 == CHOOSE f : Is1(f)
           G(i) == Partial(Logs(d, m), i)
<1>1. /\ j \in Nat \ {0} /\ j \in Nat /\ j - 1 \in Nat /\ j <= s /\ (j - 1) + 1 = j
      /\ w \in Nat \ {0} /\ w \in Int /\ Power(p, j - 1) \in Int /\ p \in Int
  <2>1. j \in Nat \ {0} /\ j \in Nat /\ j - 1 \in Nat /\ j <= s /\ (j - 1) + 1 = j /\ p \in Int
    OBVIOUS
  <2>2. w \in Nat \ {0} /\ Power(p, j - 1) \in Nat \ {0}
    BY <2>1, PowerPositive
  <2> HIDE DEF w
  <2> QED
    BY <2>1, <2>2
<1>2. /\ l \in Int /\ Same(l, G(s), Power(p, s)) /\ lambda \in Int
      /\ Same(lambda, m, Power(p, j - 1)) /\ d \in [Nat -> Int] /\ d[1] = 1
      /\ \A i \in 1 .. s : Same(d[i], 0, Power(p, i - 1))
      /\ \A i \in 2 .. j : entries[<<i, j>>] \in Int /\ Same(entries[<<i, j>>], d[i], w)
  BY DEF RoundInput
<1>3. Round(l, lambda, j, w, entries) = t1[j]
  BY DEF Round
<1> HIDE DEF w
<1>4. t2[1] = lambda /\ \A i \in 2 .. j : t2[i] = step2(i, t2[i - 1])
  <2> DEFINE next == [i \in 2 .. j |-> [y \in Int |-> step2(i, y)]]
  <2>1. ASSUME NEW i \in 2 .. j, NEW y \in Int
        PROVE  step2(i, y) \in Int
    <3>1. y * (lambda - i + 1) \in Int
      BY <1>2
    <3> QED
      BY <1>1, <3>1, SameMod
  <2>2. LateSteps(Int, lambda, j, next)
    <3> HIDE DEF step2
    <3> QED
      BY <1>1, <1>2, <2>1 DEF LateSteps
  <2>3. PICK f : LateStepped(f, Int, lambda, j, next)
    <3> HIDE DEF next
    <3> QED
      BY <2>2, RecursionFromOne
  <2>4. f \in [1 .. j -> Int] /\ f[1] = lambda
    BY <2>3 DEF LateStepped
  <2>5. \A i \in 2 .. j : f[i] = step2(i, f[i - 1])
    <3> HIDE DEF step2
    <3> QED
      BY <2>3 DEF LateStepped
  <2>6. Is2(f)
    <3>1. \A i \in 1 .. j : i # 1 => i \in 2 .. j
      BY <1>1
    <3> QED
      BY <2>4, <2>5, <3>1
  <2>7. Is2(t2)
    <3> HIDE DEF Is2
    <3> QED
      BY <2>6
  <2> HIDE DEF t2
  <2>8. 1 \in 1 .. j /\ \A i \in 2 .. j : i \in 1 .. j /\ i # 1
    BY <1>1
  <2> QED
    BY <2>7, <2>8
<1> HIDE DEF t2, Is2
<1> DEFINE U == {i \in 1 .. j : t2[i] \in Int /\ Same(t2[i], Falling(lambda, i), w)}
<1>5. 1 .. j \subseteq U
  <2>1. 1 \in U
    <3>1. 1 \in 1 .. j /\ 0 + 1 = 1 /\ 0 \in Nat
      BY <1>1
    <3>2. Falling(lambda, 0 + 1) = Falling(lambda, 0) * (lambda - 0) /\ Falling(lambda, 0) = 1
      BY <1>2, <3>1, FallingIs
    <3>3. Falling(lambda, 1) = lambda
      BY <1>2, <3>1, <3>2
    <3> QED
      BY <1>1, <1>2, <1>4, <3>1, <3>3, SameIs
  <2>2. ASSUME NEW i \in 1 .. j - 1, i \in U
        PROVE  i + 1 \in U
    <3> DEFINE x == t2[i]
               f == Falling(lambda, i)
               e == lambda - i
               y == t2[i + 1]
    <3>1. /\ i \in Nat /\ i + 1 \in 2 .. j /\ i + 1 \in 1 .. j /\ (i + 1) - 1 = i
          /\ lambda - (i + 1) + 1 = e /\ e \in Int
      BY <1>1, <1>2
    <3>2. x \in Int /\ Same(x, f, w) /\ f \in Int /\ Falling(lambda, i + 1) = f * e
      <4>1. f \in Int /\ Falling(lambda, i + 1) = f * e
        BY <1>2, <3>1, FallingIs
      <4> QED
        BY <2>2, <4>1
    <3>3. y = (x * e) % w
      <4>1. y = step2(i + 1, t2[(i + 1) - 1])
        BY <1>4, <3>1
      <4> QED
        BY <3>1, <4>1
    <3> HIDE DEF x, f, e, y
    <3> DEFINE xe == x * e
               fe == f * e
    <3>4. xe \in Int /\ fe \in Int /\ Same(xe, fe, w)
      <4>1. Same(e, e, w)
        BY <1>1, <3>1, SameIs
      <4> QED
        BY <1>1, <3>1, <3>2, <4>1, SameProduct
    <3> HIDE DEF xe
    <3>5. y \in Int /\ Same(y, xe, w)
      BY <1>1, <3>3, <3>4, SameMod DEF xe
    <3> HIDE DEF fe
    <3>6. Same(y, fe, w)
      BY <1>1, <3>4, <3>5, SameIs
    <3> QED
      BY <3>1, <3>2, <3>5, <3>6 DEF y, fe
  <2> HIDE DEF U
  <2> QED
    BY <1>1, <2>1, <2>2, InductionFromOne
<1>6. \A i \in 1 .. j : t2[i] \in Int /\ Same(t2[i], Falling(lambda, i), w)
  BY <1>5
<1> HIDE DEF U, step2
<1>7. /\ G(1) = m
      /\ \A i \in Nat : G(i) \in Int /\ G(i + 1) = G(i) + Falling(m, i + 1) * d[i + 1]
  BY <1>2, LogsIs
\* what a step subtracts
<1>8. ASSUME NEW i \in 2 .. j
      PROVE  LET x == t2[i] * entries[<<i, j>>]
                 y == Falling(m, i) * d[i]
             IN x \in Int /\ y \in Int /\ Same(x, y, w)
  <2> DEFINE a == t2[i]
             b == Falling(lambda, i)
             g == Falling(m, i)
             e == entries[<<i, j>>]
             h == d[i]
             v == Power(p, j - 1)
  <2>1. i \in 1 .. j /\ i \in Nat /\ i \in 1 .. s /\ i - 1 \in Nat /\ 1 <= i - 1
    BY <1>1
  <2>2. a \in Int /\ Same(a, b, w) /\ b \in Int /\ g \in Int /\ e \in Int /\ h \in Int
        /\ Same(e, h, w) /\ v \in Int /\ w = p * v
    <3>1. b \in Int /\ g \in Int
      BY <1>2, <2>1, FallingIs
    <3>2. a \in Int /\ Same(a, b, w)
      BY <1>6, <2>1
    <3>3. e \in Int /\ h \in Int /\ Same(e, h, w)
      BY <1>2, <2>1
    <3>4. Power(p, (j - 1) + 1) = p * v /\ v \in Int
      BY <1>1, PowerIs
    <3> QED
      BY <1>1, <3>1, <3>2, <3>3, <3>4 DEF w
  <2>3. Same(b, g, v)
    <3>1. Same(lambda, m, v)
      BY <1>2
    <3> HIDE DEF v
    <3> QED
      BY <1>2, <2>1, <2>2, <3>1, SameFalling
  <2>4. Same(h, 0, p)
    <3>1. Same(h, 0, Power(p, i - 1)) /\ 0 \in Int /\ h \in Int
      BY <1>2, <2>1, <2>2
    <3>2. Same(h, 0, Power(p, 1))
      BY <1>1, <2>1, <3>1, SameLower
    <3> QED
      BY <1>1, <3>2, PowerOne
  <2> HIDE DEF a, b, g, e, h, v
  <2> DEFINE ae == a * e
             bh == b * h
             gh == g * h
  <2>5. ae \in Int /\ bh \in Int /\ gh \in Int
    BY <2>2
  <2>6. Same(ae, bh, w)
    BY <1>1, <2>2, SameProduct
  <2>7. Same(bh, gh, w)
    <3>1. PICK x \in Int : b = g + x * v
      BY <2>3 DEF Same
    <3>2. PICK y \in Int : h = 0 + y * p
      BY <2>4 DEF Same
    <3>3. h = y * p
      BY <1>1, <3>2
    <3>4. b * h = g * h + (x * v) * h
      BY <2>2, <3>1
    <3>5. (x * v) * (y * p) = (x * y) * (p * v) /\ x * y \in Int
      BY <1>1, <2>2
    <3>6. b * h = g * h + (x * y) * w
      BY <2>2, <3>3, <3>4, <3>5
    <3> QED
      BY <3>5, <3>6 DEF Same
  <2> HIDE DEF ae, bh, gh
  <2>8. Same(ae, gh, w)
    BY <1>1, <2>5, <2>6, <2>7, SameIs
  <2> QED
    BY <2>5, <2>8 DEF ae, gh, a, e, g, h
<1> DEFINE less(i) == t2[i] * entries[<<i, j>>]
           step1(i, y) == y - less(i)
<1>9. t1[1] = l % w /\ \A i \in 2 .. j : t1[i] = step1(i, t1[i - 1])
  <2> DEFINE next == [i \in 2 .. j |-> [y \in Int |-> step1(i, y)]]
             first == l % w
  <2>0. first \in Int
    BY <1>1, <1>2, SameMod
  <2>1. ASSUME NEW i \in 2 .. j, NEW y \in Int
        PROVE  step1(i, y) \in Int
    <3>1. less(i) \in Int
      BY <1>8
    <3> HIDE DEF less
    <3> QED
      BY <3>1
  <2>2. LateSteps(Int, first, j, next)
    <3> HIDE DEF step1, first
    <3> QED
      BY <1>1, <2>0, <2>1 DEF LateSteps
  <2>3. PICK f : LateStepped(f, Int, first, j, next)
    <3> HIDE DEF next, first
    <3> QED
      BY <2>2, RecursionFromOne
  <2>4. f \in [1 .. j -> Int] /\ f[1] = first
    BY <2>3 DEF LateStepped
  <2>5. \A i \in 2 .. j : f[i] = step1(i, f[i - 1])
    <3> HIDE DEF step1
    <3> QED
      BY <2>3 DEF LateStepped
  <2>6. Is1(f)
    <3>1. \A i \in 1 .. j : i # 1 => i \in 2 .. j
      BY <1>1
    <3> QED
      BY <2>4, <2>5, <3>1
  <2>7. Is1(t1)
    <3> HIDE DEF Is1
    <3> QED
      BY <2>6
  <2> HIDE DEF t1
  <2>8. 1 \in 1 .. j /\ \A i \in 2 .. j : i \in 1 .. j /\ i # 1
    BY <1>1
  <2> QED
    BY <2>7, <2>8
<1> HIDE DEF t1, Is1
<1> DEFINE V == {i \in 1 .. j : t1[i] \in Int /\ Same(t1[i] + (G(i) - m), G(s), w)}
<1>10. G(s) \in Int
  BY <1>7
<1>11. 1 .. j \subseteq V
  <2>1. 1 \in V
    <3> DEFINE x == t1[1]
               g == G(s)
    <3>1. 1 \in 1 .. j /\ G(1) - m = 0 /\ g \in Int
      BY <1>1, <1>7, <1>10
    <3>2. x = l % w
      BY <1>9
    <3> HIDE DEF x
    <3>3. x \in Int /\ Same(x, l, w)
      BY <1>1, <1>2, <3>2, SameMod
    <3>4. Same(l, g, w)
      <4>1. Same(l, g, Power(p, s)) /\ l \in Int
        BY <1>2
      <4> HIDE DEF g
      <4> QED
        BY <1>1, <3>1, <4>1, SameLower DEF w
    <3>5. Same(x, g, w) /\ x + 0 = x
      <4> HIDE DEF g
      <4> QED
        BY <1>1, <1>2, <3>1, <3>3, <3>4, SameIs
    <3> QED
      BY <3>1, <3>3, <3>5 DEF x
  <2>2. ASSUME NEW i \in 1 .. j - 1, i \in V
        PROVE  i + 1 \in V
    <3> DEFINE x == t1[i]
               y == t1[i + 1]
               u == less(i + 1)
               z == Falling(m, i + 1) * d[i + 1]
               g == G(s)
               gi == G(i)
               e == x + (gi - m)
    <3>1. i \in Nat /\ i + 1 \in 2 .. j /\ i + 1 \in 1 .. j /\ (i + 1) - 1 = i
      BY <1>1
    <3>2. u \in Int /\ z \in Int /\ Same(u, z, w)
      BY <1>8, <3>1
    <3>3. x \in Int /\ gi \in Int /\ G(i + 1) = gi + z
      BY <1>7, <2>2, <3>1
    <3>4. y = x - u
      <4>1. y = step1(i + 1, t1[(i + 1) - 1])
        BY <1>9, <3>1
      <4> HIDE DEF less
      <4> QED
        BY <3>1, <4>1
    <3>5. Same(e, g, w) /\ g \in Int
      BY <1>10, <2>2
    <3> HIDE DEF x, y, u, z, g, gi
    <3>6. e \in Int /\ y \in Int /\ y + ((gi + z) - m) = e + (z - u) /\ z - u \in Int
      BY <3>2, <3>3, <3>4
    <3> HIDE DEF e
    <3> DEFINE zu == z - u
    <3>7. Same(zu, 0, w) /\ 0 \in Int
      <4>1. Same(z, u, w) /\ Same(u, u, w) /\ u - u = 0
        BY <1>1, <3>2, SameIs
      <4>2. Same(z - u, u - u, w)
        BY <1>1, <3>2, <4>1, SameSum
      <4> QED
        BY <4>1, <4>2
    <3>8. zu \in Int
      BY <3>6
    <3> HIDE DEF zu
    <3>9. Same(e + zu, g + 0, w) /\ g + 0 = g
      BY <1>1, <3>5, <3>6, <3>7, <3>8, SameSum
    <3> QED
      BY <3>1, <3>3, <3>6, <3>9 DEF y, zu, g
  <2> HIDE DEF V
  <2> QED
    BY <1>1, <2>1, <2>2, InductionFromOne
<1>12. t1[j] \in Int /\ Same(t1[j] + (G(j) - m), G(s), w)
  <2>1. j \in 1 .. j
    BY <1>1
  <2> QED
    BY <1>11, <2>1
<1>13. Same(G(s), G(j), w) /\ G(j) \in Int
  <2>1. Same(G(s), G(j), w)
    BY <1>1, <1>2, LogsStable DEF w
  <2> QED
    BY <1>1, <1>7, <2>1
<1> DEFINE x == t1[j]
           gj == G(j)
           gs == G(s)
           e == x + (gj - m)
<1>14. x \in Int /\ gj \in Int /\ gs \in Int /\ Same(e, gs, w) /\ Same(gs, gj, w)
  BY <1>10, <1>12, <1>13
<1> HIDE DEF x, gj, gs
<1>15. e \in Int /\ gj - m \in Int /\ e - (gj - m) = x /\ gj - (gj - m) = m
  BY <1>14
<1> HIDE DEF e
<1>16. Same(e, gj, w)
  BY <1>1, <1>14, <1>15, SameIs
<1> DEFINE o == gj - m
<1>17. o \in Int /\ e - o = x /\ gj - o = m
  BY <1>15
<1> HIDE DEF o
<1>18. Same(e - o, gj - o, w)
  <2>1. Same(o, o, w)
    BY <1>1, <1>17, SameIs
  <2> QED
    BY <1>1, <1>14, <1>15, <1>16, <1>17, <2>1, SameSum
<1>19. x \in Int /\ Same(x, m, w)
  BY <1>14, <1>17, <1>18
<1> QED
  BY <1>3, <1>19 DEF x, w

-----------------------------------------------------------------------------
(* Decryption with half a private key *)

Params(p, q, s) ==
  /\ p \in Nat /\ q \in Nat /\ IsSafePrime(p) /\ IsSafePrime(q) /\ p # q
  /\ s \in Nat \ {0} /\ s < p /\ s < q

\* What follows for the parameters of a half.
LEMMA ParamsAre ==
  ASSUME NEW p, NEW q, NEW s, Params(p, q, s)
  PROVE  /\ Params(q, p, s)
         /\ p \in Nat \ {0} /\ p \in Nat /\ p \in Int /\ q \in Nat \ {0} /\ q \in Nat /\ q \in Int
         /\ p - 1 \in Nat \ {0} /\ p > 1
         /\ Prime(p) /\ Prime(q) /\ s \in Nat \ {0} /\ s \in Nat /\ s \in Int /\ s - 1 \in Nat
         /\ (s - 1) + 1 = s /\ s <= s + 1
         /\ Unit(p, q) /\ Unit(q, p) /\ p * q \in Nat \ {0} /\ p * q \in Int /\ p * q = q * p
         /\ \A j \in Nat : Power(p, j) \in Nat \ {0} /\ Power(p, j) \in Int
         /\ Power(p, s + 1) = p * Power(p, s)
<1>1. /\ p \in Nat /\ q \in Nat /\ IsSafePrime(p) /\ IsSafePrime(q) /\ p # q
      /\ s \in Nat \ {0} /\ s < p /\ s < q
  BY DEF Params
<1>2. Prime(p) /\ Prime(q)
  BY <1>1 DEF IsSafePrime
<1>3. p > 1 /\ q > 1
  BY <1>2 DEF Prime
<1>4. p \in Nat \ {0} /\ p \in Int /\ q \in Nat \ {0} /\ q \in Int /\ p - 1 \in Nat \ {0}
      /\ s \in Nat /\ s \in Int /\ s - 1 \in Nat /\ (s - 1) + 1 = s /\ s <= s + 1
  BY <1>1, <1>3
<1>5. Unit(p, q) /\ Unit(q, p)
  BY <1>1, <1>2, PrimesUnits
<1>6. p * q \in Nat \ {0} /\ p * q \in Int /\ p * q = q * p
  BY <1>4
<1>7. \A j \in Nat : Power(p, j) \in Nat \ {0}
  BY <1>4, PowerPositive
<1>8. \A j \in Nat : Power(p, j) \in Int
  BY <1>7
<1>9. Power(p, s + 1) = p * Power(p, s)
  BY <1>4, PowerIs
<1>10. Params(q, p, s)
  BY <1>1 DEF Params
<1> QED
  BY <1>1, <1>2, <1>3, <1>4, <1>5, <1>6, <1>7, <1>8, <1>9, <1>10

HalfKey(k, p, q, s) ==
  /\ k.p = p /\ k.s = s /\ k.powers = Cipher!GetPowers(p, s)
  /\ PrecompOf(k.precomp, p, q, s)
  /\ k.decrypt_precomp = Cipher!GetDecryptPrecomp(k.precomp, k.powers, s)
  /\ k.lambda_inv \in Int /\ Same((p - 1) * k.lambda_inv, 1, Power(p, s))
  /\ k.other_prime_inv \in Int /\ Same(q * k.other_prime_inv, 1, Power(p, s))
  /\ k.g_p \in Nat /\ Unit(k.g_p, p)
  /\ k.fbe = Power(k.g_p, Power(p * q, s)) % Power(p, s + 1)

\* LFunc: the logarithm modulo p ^ s.
LEMMA LFuncIs ==
  ASSUME NEW p, NEW q, NEW s, Params(p, q, s), NEW inverse \in Int,
         Same(q * inverse, 1, Power(p, s)), NEW u \in Int, NEW g \in Int,
         Same((p * q) * g, u - 1, Power(p, s + 1))
  PROVE  LET l == (((u - 1) \div p) * inverse) % Power(p, s)
         IN l \in Int /\ Same(l, g, Power(p, s))
<1> DEFINE M == Power(p, s)
           v == u - 1
           qg == q * g
           n == p * qg
<1>1. /\ p \in Nat \ {0} /\ p \in Int /\ q \in Int /\ s \in Nat
      /\ M \in Nat \ {0} /\ M \in Int /\ Power(p, s + 1) = p * M
  BY ParamsAre
<1>2. v \in Int /\ qg \in Int /\ n \in Int /\ n = (p * q) * g
  <2>1. v \in Int /\ qg \in Int /\ n = (p * q) * g
    BY <1>1
  <2> HIDE DEF qg
  <2> QED
    BY <1>1, <2>1
<1> HIDE DEF M, v
<1>3. Same(n, v, p * M) /\ p * M \in Int
  BY <1>1, <1>2 DEF v
<1>4. PICK k \in Int : v = n + k * (p * M)
  <2> HIDE DEF n
  <2>1. Same(v, n, p * M)
    <3> DEFINE w == p * M
    <3> HIDE DEF w
    <3>1. Same(n, v, w) /\ w \in Int
      BY <1>3 DEF w
    <3> QED
      BY <1>2, <3>1, SameIs DEF w
  <2> QED
    BY <2>1 DEF Same
<1> DEFINE y == qg + k * M
<1>5. y \in Int /\ v = p * y + 0
  <2> HIDE DEF qg
  <2>1. k * (p * M) = p * (k * M) /\ k * M \in Int
    BY <1>1
  <2>2. p * (qg + k * M) = p * qg + p * (k * M)
    BY <1>1, <1>2, <2>1
  <2>3. p * y \in Int /\ y \in Int
    BY <1>1, <1>2, <2>1
  <2> QED
    BY <1>4, <2>1, <2>2, <2>3
<1>6. v \div p = y
  <2>1. 0 \in 0 .. p - 1
    BY <1>1
  <2> HIDE DEF y
  <2> QED
    BY <1>1, <1>5, <2>1, DivisionIs
<1>7. Same(y, qg, M)
  BY DEF Same
<1> HIDE DEF y
<1> DEFINE z == y * inverse
           l == z % M
           qi == q * inverse
<1>8. z \in Int /\ qi \in Int /\ qg * inverse = qi * g /\ 1 * g = g /\ qg * inverse \in Int
  <2>1. z \in Int /\ qi \in Int
    BY <1>1, <1>5
  <2>2. (q * g) * inverse = (q * inverse) * g /\ (q * g) * inverse \in Int
    BY <1>1
  <2> QED
    BY <2>1, <2>2
<1>9. Same(z, qg * inverse, M)
  <2> HIDE DEF qg
  <2>1. Same(inverse, inverse, M)
    BY <1>1, SameIs
  <2> QED
    BY <1>1, <1>2, <1>5, <1>7, <2>1, SameProduct
<1>10. Same(qi * g, 1 * g, M)
  <2>1. Same(g, g, M) /\ Same(qi, 1, M) /\ 1 \in Int
    BY <1>1, SameIs DEF M
  <2> HIDE DEF qi
  <2> QED
    BY <1>1, <1>8, <2>1, SameProduct
<1> HIDE DEF z, qi
<1>11. l \in Int /\ Same(l, z, M)
  BY <1>1, <1>8, SameMod
<1> HIDE DEF l
<1> DEFINE w == qg * inverse
<1>12. w \in Int /\ Same(z, w, M) /\ Same(w, g, M)
  BY <1>8, <1>9, <1>10
<1> HIDE DEF w
<1>13. Same(l, g, M)
  <2>1. Same(l, w, M)
    BY <1>1, <1>8, <1>11, <1>12, SameIs
  <2> QED
    BY <1>1, <1>11, <1>12, <2>1, SameIs
<1> QED
  BY <1>6, <1>11, <1>13 DEF l, z, v, M

\* The loop: the exponent modulo p ^ s.
RoundsInput(l, p, s, d, entries, m, powers) ==
  \A j \in 1 .. s :
    /\ powers[j] = Power(p, j)
    /\ \A lambda \in Int :
         Same(lambda, m, Power(p, j - 1)) => RoundInput(l, lambda, j, p, s, d, entries, m)

\* Its result.
Rounds(l, s, entries, powers) ==
  LET round[j \in 0 .. s] ==
        IF j = 0 THEN 0 ELSE Round(l, round[j - 1], j, powers[j], entries)
  IN round[s]

\* All rounds find m modulo p ^ s.
LEMMA RoundsAre ==
  ASSUME NEW p \in Nat \ {0}, NEW s \in Nat, NEW l, NEW d, NEW entries, NEW m \in Int,
         NEW powers, RoundsInput(l, p, s, d, entries, m, powers)
  PROVE  /\ Rounds(l, s, entries, powers) \in Int
         /\ Same(Rounds(l, s, entries, powers), m, Power(p, s))
<1> DEFINE body(j, y) == Round(l, y, j, powers[j], entries)
           good(y, j) == y \in Int /\ Same(y, m, Power(p, j))
           Is(f) == f = [j \in 0 .. s |-> IF j = 0 THEN 0 ELSE body(j, f[j - 1])]
           F == CHOOSE f : Is(f)
<1>1. good(0, 0)
  <2>1. Power(p, 0) = 1
    BY PowerIs
  <2>2. 0 = m + (0 - m) * 1 /\ 0 - m \in Int
    OBVIOUS
  <2>3. Same(0, m, 1)
    BY <2>2 DEF Same
  <2> QED
    BY <2>1, <2>3
<1>2. ASSUME NEW j \in 1 .. s, NEW y, good(y, j - 1)
      PROVE  good(body(j, y), j)
  <2>1. RoundInput(l, y, j, p, s, d, entries, m)
    BY <1>2 DEF RoundsInput
  <2>2. powers[j] = Power(p, j)
    BY DEF RoundsInput
  <2> QED
    BY <2>1, <2>2, RoundIs
<1> HIDE DEF body
<1> DEFINE total == [j \in 1 .. s |-> [y \in Int |-> IF good(y, j - 1) THEN body(j, y) ELSE 0]]
<1>3. Steps(Int, 0, s, total)
  <2>1. \A j \in 1 .. s : \A y \in Int : (IF good(y, j - 1) THEN body(j, y) ELSE 0) \in Int
    BY <1>2
  <2> HIDE DEF good
  <2> QED
    BY <2>1 DEF Steps
<1>4. PICK g : Stepped(g, Int, 0, s, total)
  <2> HIDE DEF total
  <2> QED
    BY <1>3, BoundedRecursion
<1>5. /\ g \in [0 .. s -> Int] /\ g[0] = 0
      /\ \A j \in 1 .. s : g[j] = IF good(g[j - 1], j - 1) THEN body(j, g[j - 1]) ELSE 0
  <2> HIDE DEF good
  <2> QED
    BY <1>4 DEF Stepped
<1> DEFINE T == {j \in 0 .. s : good(g[j], j)}
<1>6. 0 .. s \subseteq T
  <2>1. 0 \in T
    BY <1>1, <1>5
  <2>2. ASSUME NEW j \in 0 .. s - 1, j \in T
        PROVE  j + 1 \in T
    <3>1. j + 1 \in 1 .. s /\ j + 1 \in 0 .. s /\ (j + 1) - 1 = j
      OBVIOUS
    <3>2. good(g[j], j)
      BY <2>2
    <3> HIDE DEF good
    <3>3. g[j + 1] = body(j + 1, g[j])
      BY <1>5, <3>1, <3>2
    <3>4. good(body(j + 1, g[j]), j + 1)
      BY <1>2, <3>1, <3>2
    <3> QED
      BY <3>1, <3>3, <3>4
  <2> HIDE DEF T
  <2> QED
    BY <2>1, <2>2, BoundedInduction
<1>7. \A j \in 0 .. s : good(g[j], j)
  BY <1>6
<1> HIDE DEF T, total
<1>8. Is(g)
  <2>1. \A j \in 0 .. s : j # 0 => j \in 1 .. s /\ j - 1 \in 0 .. s
    OBVIOUS
  <2>2. \A j \in 1 .. s : g[j] = body(j, g[j - 1])
    <3> TAKE j \in 1 .. s
    <3>1. j - 1 \in 0 .. s
      OBVIOUS
    <3>2. good(g[j - 1], j - 1)
      BY <1>7, <3>1
    <3> HIDE DEF good
    <3> QED
      BY <1>5, <3>2
  <2> HIDE DEF good
  <2> QED
    BY <1>5, <2>1, <2>2
<1>9. Is(F)
  <2> HIDE DEF Is
  <2> QED
    BY <1>8
<1> HIDE DEF F
<1> DEFINE V == {j \in 0 .. s : good(F[j], j)}
<1>10. 0 .. s \subseteq V
  <2>0. F[0] = 0 /\ \A j \in 1 .. s : F[j] = body(j, F[j - 1])
    <3>1. 0 \in 0 .. s /\ \A j \in 1 .. s : j \in 0 .. s /\ j # 0
      OBVIOUS
    <3> QED
      BY <1>9, <3>1
  <2>1. 0 \in V
    BY <1>1, <2>0
  <2>2. ASSUME NEW j \in 0 .. s - 1, j \in V
        PROVE  j + 1 \in V
    <3>1. j + 1 \in 1 .. s /\ j + 1 \in 0 .. s /\ (j + 1) - 1 = j
      OBVIOUS
    <3>2. good(F[j], j)
      BY <2>2
    <3> HIDE DEF good
    <3>3. F[j + 1] = body(j + 1, F[j])
      BY <2>0, <3>1
    <3>4. good(body(j + 1, F[j]), j + 1)
      BY <1>2, <3>1, <3>2
    <3> QED
      BY <3>1, <3>3, <3>4
  <2> HIDE DEF V
  <2> QED
    BY <2>1, <2>2, BoundedInduction
<1>11. good(F[s], s)
  <2>1. s \in 0 .. s
    OBVIOUS
  <2> QED
    BY <1>10, <2>1
<1> QED
  BY <1>11 DEF F, body, Rounds

\* What a ciphertext satisfies: modulo p ^ (s + 1) its (p - 1)-th power has no
\* random factor left.
Equation(text, m, p, q, s) ==
  Same(Power(text, p - 1), Power(1 + p * q, m * (p - 1)), Power(p, s + 1))

\* Half of a private key decrypts what satisfies the equation of an encryption.
LEMMA PrimeDecryptIs ==
  ASSUME NEW p, NEW q, NEW s, Params(p, q, s), NEW k, HalfKey(k, p, q, s),
         NEW text \in Int, NEW m \in Nat, Equation(text, m, p, q, s)
  PROVE  Cipher!PrimeDecrypt(k, text) = m % Power(p, s)
<1> DEFINE M == Power(p, s)
           N == Power(p, s + 1)
           u == Cipher!ModExp(text, k.p - 1, k.powers[k.s + 1])
           l == (((u - 1) \div k.p) * k.other_prime_inv) % k.powers[k.s]
           e == m * (p - 1)
           last == Rounds(l, k.s, k.decrypt_precomp, k.powers)
<1>1. /\ p \in Nat \ {0} /\ p \in Nat /\ p \in Int /\ q \in Int /\ Prime(p) /\ s \in Nat \ {0}
      /\ s \in Nat /\ p - 1 \in Nat /\ p - 1 \in Int /\ s \in 0 .. s + 1 /\ s + 1 \in 0 .. s + 1
      /\ M \in Nat \ {0} /\ M \in Int /\ N \in Nat \ {0} /\ N \in Int /\ s < p
      /\ p * q \in Int /\ 1 + p * q \in Int /\ s + 1 \in Nat
      /\ \A j \in Nat : Power(p, j) \in Nat \ {0} /\ Power(p, j) \in Int
  <2>1. /\ p \in Nat \ {0} /\ p \in Nat /\ p \in Int /\ q \in Int /\ Prime(p) /\ s \in Nat \ {0}
        /\ s \in Nat /\ p - 1 \in Nat \ {0} /\ p * q \in Int
        /\ \A j \in Nat : Power(p, j) \in Nat \ {0} /\ Power(p, j) \in Int
    BY ParamsAre
  <2>2. s < p
    BY DEF Params
  <2>3. s \in 0 .. s + 1 /\ s + 1 \in 0 .. s + 1 /\ s + 1 \in Nat /\ p - 1 \in Int /\ p - 1 \in Nat
        /\ 1 + p * q \in Int
    BY <2>1
  <2> QED
    BY <2>1, <2>2, <2>3
<1>2. /\ k.p = p /\ k.s = s /\ k.powers = Cipher!GetPowers(p, s) /\ PrecompOf(k.precomp, p, q, s)
      /\ k.decrypt_precomp = Cipher!GetDecryptPrecomp(k.precomp, Cipher!GetPowers(p, s), s)
      /\ k.lambda_inv \in Int /\ Same((p - 1) * k.lambda_inv, 1, M)
      /\ k.other_prime_inv \in Int /\ Same(q * k.other_prime_inv, 1, M)
  BY DEF HalfKey
<1>3. \A j \in 0 .. s + 1 : k.powers[j] = Power(p, j)
  BY <1>2, CipherNumbers DEF Cipher!GetPowers
<1>4. e \in Nat /\ e \in Int
  BY <1>1
<1> HIDE DEF M, N, e
\* the logarithm
<1>5. u \in Int /\ Same(u, Power(1 + p * q, e), N)
  <2> DEFINE x == Power(text, p - 1)
             y == Power(1 + p * q, e)
  <2>1. x \in Int
    BY <1>1, PowerIs
  <2>2. y \in Int
    <3> DEFINE a == 1 + p * q
    <3> HIDE DEF a
    <3>1. a \in Int
      BY <1>1 DEF a
    <3>2. Power(a, e) \in Int
      BY <1>4, <3>1, PowerIs
    <3> QED
      BY <3>2 DEF a
  <2>3. Same(x, y, N)
    BY DEF Equation, N, e
  <2>4. u = x % N
    <3>1. u = ModExp(text, p - 1, N)
      BY <1>1, <1>2, <1>3, CipherNumbers DEF N
    <3> QED
      BY <1>1, <3>1, ModExpPower
  <2> HIDE DEF x, y, u
  <2>5. u \in Int /\ Same(u, x, N)
    BY <1>1, <2>1, <2>4, SameMod
  <2>6. Same(u, y, N)
    BY <1>1, <2>1, <2>2, <2>3, <2>5, SameIs
  <2> QED
    BY <2>5, <2>6 DEF y
<1> HIDE DEF u
<1>6. PICK d : /\ DecryptPrecompOf(d, k.precomp, p, q, s)
               /\ \A i, j \in 2 .. s :
                    LET entry == k.decrypt_precomp[<<i, j>>]
                    IN entry \in Int /\ Same(entry, d[i], Power(p, j))
  BY <1>1, <1>2, GetDecryptPrecompIs
<1> DEFINE g == Partial(Logs(d, e), s)
<1>7. /\ d \in [Nat -> Int] /\ d[1] = 1 /\ \A i \in 1 .. s : Same(d[i], 0, Power(p, i - 1))
  BY <1>6 DEF DecryptPrecompOf
<1>8. g \in Int
  BY <1>1, <1>4, <1>7, LogsIs
<1>9. l \in Int /\ Same(l, g, M)
  <2> DEFINE w == Power(1 + p * q, e)
             ng == (p * q) * g
             u1 == u - 1
  <2>1. Same(ng, w - 1, N)
    BY <1>1, <1>2, <1>4, <1>6, LogsAll DEF N
  <2>2. w \in Int /\ w - 1 \in Int
    <3> DEFINE a == 1 + p * q
    <3> HIDE DEF a
    <3>1. a \in Int
      BY <1>1 DEF a
    <3>2. Power(a, e) \in Int
      BY <1>4, <3>1, PowerIs
    <3>3. w \in Int
      BY <3>2 DEF a
    <3> HIDE DEF w
    <3> QED
      BY <3>3
  <2>3. ng \in Int /\ u1 \in Int
    <3> DEFINE n == p * q
    <3>1. n \in Int
      BY <1>1
    <3> HIDE DEF n, g
    <3>2. n * g \in Int
      BY <1>8, <3>1
    <3> QED
      BY <1>5, <3>2 DEF n
  <2>4. Same(u, w, N)
    BY <1>5
  <2> DEFINE w1 == w - 1
  <2>5. Same(u1, w1, N)
    <3>1. Same(1, 1, N) /\ 1 \in Int
      BY <1>1, SameIs
    <3> HIDE DEF w
    <3> QED
      BY <1>1, <1>5, <2>2, <2>4, <3>1, SameSum
  <2>6. Same(ng, w1, N) /\ w1 \in Int
    BY <2>1, <2>2
  <2> HIDE DEF w1, ng, u1
  <2>7. Same(ng, u1, N)
    <3>1. Same(w1, u1, N)
      BY <1>1, <2>3, <2>5, <2>6, SameIs
    <3> QED
      BY <1>1, <2>3, <2>6, <3>1, SameIs
  <2>8. Same((p * q) * g, u - 1, Power(p, s + 1))
    BY <2>7 DEF ng, u1, N
  <2>9. l = (((u - 1) \div p) * k.other_prime_inv) % M
    BY <1>1, <1>2, <1>3 DEF M
  <2> HIDE DEF g, l
  <2>10. /\ (((u - 1) \div p) * k.other_prime_inv) % M \in Int
         /\ Same((((u - 1) \div p) * k.other_prime_inv) % M, g, M)
    BY <1>2, <1>5, <1>8, <2>8, LFuncIs DEF M
  <2> QED
    BY <2>9, <2>10
<1> HIDE DEF l
\* the loop
<1>10. last \in Int /\ Same(last, e, M)
  <2>1. ASSUME NEW j \in 1 .. s, NEW lambda \in Int, Same(lambda, e, Power(p, j - 1))
        PROVE  RoundInput(l, lambda, j, p, s, d, k.decrypt_precomp, e)
    <3>1. ASSUME NEW i \in 2 .. j
          PROVE  /\ k.decrypt_precomp[<<i, j>>] \in Int
                 /\ Same(k.decrypt_precomp[<<i, j>>], d[i], Power(p, j))
      <4>1. i \in 2 .. s /\ j \in 2 .. s
        BY <1>1
      <4> QED
        BY <1>6, <4>1
    <3> QED
      BY <1>7, <1>9, <2>1, <3>1 DEF RoundInput, M
  <2>2. \A j \in 1 .. s : k.powers[j] = Power(p, j)
    <3>1. \A j \in 1 .. s : j \in 0 .. s + 1
      BY <1>1
    <3> QED
      BY <1>3, <3>1
  <2>3. RoundsInput(l, p, s, d, k.decrypt_precomp, e, k.powers)
    BY <2>1, <2>2 DEF RoundsInput
  <2> QED
    BY <1>1, <1>2, <1>4, <2>3, RoundsAre DEF M
<1>11. Cipher!PrimeDecrypt(k, text) = ((last % M) * k.lambda_inv) % M
  <2>1. k.powers[k.s] = M
    BY <1>1, <1>2, <1>3 DEF M
  <2>2. Cipher!PrimeDecrypt(k, text) = ((last % k.powers[k.s]) * k.lambda_inv) % k.powers[k.s]
    BY DEF Cipher!PrimeDecrypt, Rounds, Round, l, u
  <2> HIDE DEF last
  <2> QED
    BY <2>1, <2>2
<1> HIDE DEF last
<1>12. Same((last % M) * k.lambda_inv, m, M) /\ (last % M) * k.lambda_inv \in Int
  <2> DEFINE r == last % M
             v == k.lambda_inv
             pv == (p - 1) * v
  <2>1. r \in Int /\ Same(r, last, M)
    BY <1>1, <1>10, SameMod
  <2>2. v \in Int /\ Same(pv, 1, M)
    BY <1>2
  <2> HIDE DEF r, v
  <2>3. pv \in Int /\ e * v = m * pv /\ m * 1 = m /\ r * v \in Int /\ e * v \in Int
    <3>1. (m * (p - 1)) * v = m * ((p - 1) * v) /\ pv \in Int
      BY <1>1, <2>2
    <3> QED
      BY <1>4, <2>1, <2>2, <3>1 DEF e
  <2>4. Same(r, e, M)
    BY <1>1, <1>4, <1>10, <2>1, SameIs
  <2>5. Same(r * v, e * v, M)
    <3>1. Same(v, v, M)
      BY <1>1, <2>2, SameIs
    <3> QED
      BY <1>1, <1>4, <2>1, <2>2, <2>4, <3>1, SameProduct
  <2> HIDE DEF pv
  <2>6. Same(m * pv, m * 1, M)
    <3>1. Same(m, m, M) /\ m \in Int /\ 1 \in Int
      BY <1>1, SameIs
    <3> QED
      BY <1>1, <2>2, <2>3, <3>1, SameProduct
  <2>7. Same(r * v, m, M)
    <3> DEFINE x == r * v
               y == e * v
    <3>1. x \in Int /\ y \in Int /\ m \in Int /\ Same(x, y, M) /\ Same(y, m, M)
      BY <2>3, <2>5, <2>6
    <3> HIDE DEF x, y
    <3>2. Same(x, m, M)
      BY <1>1, <3>1, SameIs
    <3> QED
      BY <3>2 DEF x
  <2> QED
    BY <2>3, <2>7 DEF r, v
<1> QED
  <2> DEFINE x == (last % M) * k.lambda_inv
  <2>1. x \in Int /\ Same(x, m, M) /\ m \in Int
    BY <1>12
  <2> HIDE DEF x
  <2>2. x % M = m % M
    BY <1>1, <2>1, SameResidue
  <2> QED
    BY <1>11, <2>2 DEF x, M

-----------------------------------------------------------------------------
(* The keys *)

\* The generator of the half is a unit.
LEMMA GeneratorIs ==
  ASSUME NEW p, NEW q, NEW s, Params(p, q, s)
  PROVE  /\ Cipher!GetGeneratorOfPrimePowers(p) \in Nat
         /\ Unit(Cipher!GetGeneratorOfPrimePowers(p), p)
<1> DEFINE full == {g \in 2 .. p - 1 : ModExp(g, 2, p) # 1 /\ ModExp(g, (p - 1) \div 2, p) # 1}
           g == LeastOf(full)
           g_p == Cipher!GetGeneratorOfPrimePowers(p)
<1>1. p \in Nat \ {0} /\ p \in Nat /\ p \in Int /\ Prime(p) /\ IsSafePrime(p)
  BY ParamsAre DEF Params
<1>2. full \subseteq Nat /\ full # {}
  <2>1. \E x \in 2 .. p - 1 : x \in full
    BY <1>1, GeneratorExists
  <2>2. 2 .. p - 1 \subseteq Nat
    BY <1>1
  <2> QED
    BY <2>1, <2>2
<1>3. g \in 2 .. p - 1
  <2>1. g \in full
    BY <1>2, LeastOfIs
  <2> QED
    BY <2>1
<1>4. Cipher!GetGeneratorForSafePrime(p) = g
  BY CipherNumbers DEF Cipher!GetGeneratorForSafePrime
<1> HIDE DEF full, g
<1>5. g \in Nat /\ g < p /\ g # 0 /\ g \in Int
  BY <1>1, <1>3
<1>6. Unit(g, p)
  <2>1. g % p = g
    BY <1>1, <1>5, SmallResidue
  <2> QED
    BY <1>1, <1>5, <2>1, UnitPrime
<1>7. Unit(g + p, p) /\ g + p \in Nat
  <2>1. g + p \in Int /\ g + p \in Nat /\ g = (g + p) + (0 - 1) * p /\ g + p = g + 1 * p
    BY <1>1, <1>5
  <2>2. Same(g, g + p, p)
    <3>1. 0 - 1 \in Int
      OBVIOUS
    <3> QED
      BY <2>1, <3>1 DEF Same
  <2> QED
    BY <1>1, <1>5, <1>6, <2>1, <2>2, UnitSame
<1>8. g_p = g \/ g_p = g + p
  BY <1>4 DEF Cipher!GetGeneratorOfPrimePowers
<1> QED
  BY <1>5, <1>6, <1>7, <1>8

\* The precomputed values are what the expansion needs.
LEMMA PrecompIs ==
  ASSUME NEW b \in Nat \ {0}, NEW o \in Int, NEW s \in Nat,
         \A i \in 1 .. s : Unit(i, Power(b, s + 1))
  PROVE  PrecompOf(Cipher!GetPrecomp(b * o, Power(b, s + 1), s), b, o, s)
<1> DEFINE n == b * o
           M == Power(b, s + 1)
           pre == Cipher!GetPrecomp(n, M, s)
<1>1. n \in Int /\ M \in Nat \ {0}
  <2>1. s + 1 \in Nat
    OBVIOUS
  <2>2. M \in Nat \ {0}
    BY <2>1, PowerPositive
  <2> HIDE DEF M
  <2> QED
    BY <2>2
<1>2. /\ Quotients(pre, n, M, s)
      /\ \A j \in 1 .. s : \E i \in Int : Same(pre[j], pre[j - 1] * (i * n), M)
  <2>1. \A i \in 1 .. s : Unit(i, M)
    OBVIOUS
  <2> HIDE DEF n, M
  <2> QED
    BY <1>1, <2>1, GetPrecompIs
<1> HIDE DEF pre
<1>3. \A j \in 0 .. s : Same(pre[j], 0, Power(b, j))
  BY <1>2, PrecompDivisible
<1>4. PrecompOf(pre, b, o, s)
  BY <1>2, <1>3 DEF PrecompOf
<1> QED
  BY <1>4 DEF pre

\* The constructor of PrimeCrypto makes half of a private key, ...
LEMMA HalfKeyIs ==
  ASSUME NEW p, NEW q, NEW s, Params(p, q, s)
  PROVE  HalfKey(Cipher!PrimeCrypto(p, q, s), p, q, s)
<1> DEFINE k == Cipher!PrimeCrypto(p, q, s)
           M == Power(p, s)
           powers == Cipher!GetPowers(p, s)
<1>1. /\ p \in Nat \ {0} /\ p \in Nat /\ p \in Int /\ q \in Int /\ Prime(p) /\ s \in Nat
      /\ s - 1 \in Nat /\ (s - 1) + 1 = s /\ Unit(q, p) /\ p - 1 \in Nat \ {0}
      /\ M \in Nat \ {0} /\ s \in 0 .. s + 1 /\ s + 1 \in 0 .. s + 1 /\ s < p
  <2>1. /\ p \in Nat \ {0} /\ p \in Nat /\ p \in Int /\ q \in Int /\ Prime(p) /\ s \in Nat
        /\ s - 1 \in Nat /\ (s - 1) + 1 = s /\ Unit(q, p) /\ p - 1 \in Nat \ {0}
        /\ M \in Nat \ {0}
    BY ParamsAre
  <2>2. s \in 0 .. s + 1 /\ s + 1 \in 0 .. s + 1
    BY <2>1
  <2>3. s < p
    BY DEF Params
  <2> QED
    BY <2>1, <2>2, <2>3
<1>2. powers[s] = M /\ powers[s + 1] = Power(p, s + 1)
  BY <1>1, CipherNumbers DEF Cipher!GetPowers
<1> HIDE DEF powers, M
<1>3. /\ k.p = p /\ k.s = s /\ k.powers = powers
      /\ k.precomp = Cipher!GetPrecomp(p * q, Power(p, s + 1), s)
      /\ k.decrypt_precomp = Cipher!GetDecryptPrecomp(k.precomp, k.powers, s)
      /\ k.lambda_inv = ModInverse(p - 1, M) /\ k.other_prime_inv = ModInverse(q, M)
      /\ k.g_p = Cipher!GetGeneratorOfPrimePowers(p)
      /\ k.fbe = ModExp(k.g_p, Power(p * q, s), Power(p, s + 1))
  BY <1>2, CipherNumbers DEF Cipher!PrimeCrypto, powers
<1> HIDE DEF k
<1>4. PrecompOf(k.precomp, p, q, s)
  <2>1. \A i \in 1 .. s : Unit(i, Power(p, s + 1))
    BY <1>1, SmallUnits
  <2> QED
    BY <1>1, <1>3, <2>1, PrecompIs
<1>5. k.lambda_inv \in Int /\ Same((p - 1) * k.lambda_inv, 1, M)
  <2> DEFINE e == p - 1
  <2>1. e \in Nat /\ e < p /\ e # 0 /\ e \in Int
    BY <1>1
  <2> HIDE DEF e
  <2>2. e % p = e
    BY <1>1, <2>1, SmallResidue
  <2>3. Unit(e, p)
    BY <1>1, <2>1, <2>2, UnitPrime
  <2>4. Unit(e, M)
    BY <1>1, <2>1, <2>3, UnitLift DEF M
  <2>5. ModInverse(e, M) \in 0 .. M - 1 /\ Same(e * ModInverse(e, M), 1, M)
    BY <1>1, <2>1, <2>4, ModInverseUnit
  <2> QED
    BY <1>1, <1>3, <2>5 DEF e
<1>6. k.other_prime_inv \in Int /\ Same(q * k.other_prime_inv, 1, M)
  <2>1. Unit(q, M)
    BY <1>1, UnitLift DEF M
  <2>2. ModInverse(q, M) \in 0 .. M - 1 /\ Same(q * ModInverse(q, M), 1, M)
    BY <1>1, <2>1, ModInverseUnit
  <2> QED
    BY <1>1, <1>3, <2>2
<1>7. k.g_p \in Nat /\ Unit(k.g_p, p)
  BY <1>3, GeneratorIs
<1>8. k.fbe = Power(k.g_p, Power(p * q, s)) % Power(p, s + 1)
  <2>1. Power(p, s + 1) \in Nat \ {0} /\ Power(p * q, s) \in Nat
    <3>1. p * q \in Nat \ {0} /\ s + 1 \in Nat
      BY <1>1, ParamsAre
    <3> DEFINE n == p * q
    <3> HIDE DEF n
    <3>2. n \in Nat \ {0}
      BY <3>1 DEF n
    <3>3. Power(n, s) \in Nat \ {0} /\ Power(p, s + 1) \in Nat \ {0}
      BY <1>1, <3>1, <3>2, PowerPositive
    <3> QED
      BY <3>3 DEF n
  <2>2. k.g_p \in Int
    BY <1>7
  <2> QED
    BY <1>3, <2>1, <2>2, ModExpPower
<1> QED
  BY <1>3, <1>4, <1>5, <1>6, <1>7, <1>8 DEF HalfKey, k, powers, M

\* What the public key holds.
OpenKey(k, p, q, s) ==
  /\ k.n = p * q /\ k.s = s /\ k.powers = Cipher!GetPowers(p * q, s)
  /\ k.modulus = Power(p * q, s + 1) /\ k.powers[s] = Power(p * q, s)
  /\ PrecompOf(k.precomp, p * q, 1, s)
  /\ \E y \in Nat : /\ Unit(y, p) /\ Unit(y, q)
                    /\ k.g_n = Power(y, Power(p * q, s)) % Power(p * q, s + 1)

\* The modulus of the public key is the product of those of the halves.
LEMMA ModuliAre ==
  ASSUME NEW p, NEW q, NEW s, Params(p, q, s)
  PROVE  \A j \in Nat : /\ Power(p * q, j) = Power(p, j) * Power(q, j)
                        /\ Power(p * q, j) \in Nat \ {0} /\ Power(p * q, j) \in Int
                        /\ Power(p, j) \in Nat \ {0} /\ Power(p, j) \in Int
                        /\ Power(q, j) \in Nat \ {0} /\ Power(q, j) \in Int
                        /\ Unit(Power(p, j), Power(q, j)) /\ Unit(Power(q, j), Power(p, j))
<1>1. Params(q, p, s) /\ p \in Nat \ {0} /\ q \in Nat \ {0} /\ p \in Int /\ q \in Int
      /\ Unit(p, q) /\ Unit(q, p) /\ p * q \in Nat \ {0}
  BY ParamsAre
<1> TAKE j \in Nat
<1>2. Power(p * q, j) = Power(p, j) * Power(q, j)
  BY <1>1, PowerOfProduct
<1>3. Power(p * q, j) \in Nat \ {0}
  <2> DEFINE n == p * q
  <2>1. n \in Nat \ {0}
    BY <1>1
  <2> HIDE DEF n
  <2>2. Power(n, j) \in Nat \ {0}
    BY <2>1, PowerPositive
  <2> QED
    BY <2>2 DEF n
<1>4. Power(p, j) \in Nat \ {0} /\ Power(q, j) \in Nat \ {0}
  BY <1>1, PowerPositive
<1>5. Unit(Power(p, j), Power(q, j)) /\ Unit(Power(q, j), Power(p, j))
  <2>1. CASE j = 0
    <3>1. Power(p, 0) = 1 /\ Power(q, 0) = 1 /\ 1 * 0 = 1 + (0 - 1) * 1 /\ 0 - 1 \in Int /\ 0 \in Int
      BY <1>1, PowerIs
    <3>2. Same(1 * 0, 1, 1)
      BY <3>1 DEF Same
    <3>3. Unit(1, 1)
      BY <3>1, <3>2 DEF Unit
    <3> QED
      BY <2>1, <3>1, <3>3
  <2>2. CASE j # 0
    <3>1. j - 1 \in Nat /\ (j - 1) + 1 = j
      BY <2>2
    <3>2. \A i \in Nat : Unit(Power(p, j), Power(q, i + 1)) /\ Unit(Power(q, j), Power(p, i + 1))
      BY <1>1, UnitsOfPowers
    <3> QED
      BY <3>1, <3>2
  <2> QED
    BY <2>1, <2>2
<1> QED
  BY <1>2, <1>3, <1>4, <1>5

\* ... and that of PublicPaillier a public key.
LEMMA OpenKeyIs ==
  ASSUME NEW p, NEW q, NEW s, Params(p, q, s), NEW x \in Nat, IsCoprime(x, p * q)
  PROVE  OpenKey(Cipher!PublicPaillier(p * q, s, x), p, q, s)
<1> DEFINE n == p * q
           k == Cipher!PublicPaillier(n, s, x)
           powers == Cipher!GetPowers(n, s)
           M == Power(n, s + 1)
           sq == ModExp(x, 2, n)
           y == n - sq
<1>1. /\ p \in Nat \ {0} /\ q \in Nat \ {0} /\ p \in Int /\ q \in Int /\ p \in Nat /\ q \in Nat
      /\ Prime(p) /\ Prime(q) /\ s \in Nat /\ n \in Nat \ {0} /\ n \in Int /\ s + 1 \in Nat
      /\ s \in 0 .. s + 1 /\ s + 1 \in 0 .. s + 1 /\ s < p /\ s < q
  <2>1. /\ p \in Nat \ {0} /\ q \in Nat \ {0} /\ p \in Int /\ q \in Int /\ p \in Nat /\ q \in Nat
        /\ Prime(p) /\ Prime(q) /\ s \in Nat /\ n \in Nat \ {0} /\ n \in Int
    BY ParamsAre
  <2>2. s \in 0 .. s + 1 /\ s + 1 \in 0 .. s + 1 /\ s + 1 \in Nat
    BY <2>1
  <2>3. s < p /\ s < q
    BY DEF Params
  <2> QED
    BY <2>1, <2>2, <2>3
<1>2. Unit(x, p) /\ Unit(x, q)
  BY <1>1, CoprimeIs
<1>3. M \in Nat \ {0} /\ Power(n, s) \in Nat \ {0}
  BY <1>1, ModuliAre
<1>4. \A i \in 1 .. s : Unit(i, M)
  <2> TAKE i \in 1 .. s
  <2>1. Unit(i, p) /\ Unit(i, q) /\ i \in Int
    <3>1. 0 \in Nat /\ i \in Int
      OBVIOUS
    <3> QED
      BY <1>1, <3>1, SmallUnits
  <2>2. Unit(i, n)
    BY <1>1, <2>1, UnitsJoin
  <2> HIDE DEF n
  <2> QED
    BY <1>1, <2>1, <2>2, UnitLift
<1> HIDE DEF n
<1>5. powers[s] = Power(n, s) /\ powers[s + 1] = M
  BY <1>1, CipherNumbers DEF Cipher!GetPowers
<1> HIDE DEF powers, M
<1>6. /\ k.n = n /\ k.s = s /\ k.powers = powers /\ k.modulus = M
      /\ k.precomp = Cipher!GetPrecomp(n, M, s) /\ k.g_n = ModExp(y, Power(n, s), M)
  BY <1>5, CipherNumbers DEF Cipher!PublicPaillier, powers
<1> HIDE DEF k
<1>7. PrecompOf(k.precomp, n, 1, s)
  <2>1. 1 \in Int /\ n * 1 = n
    BY <1>1
  <2>2. PrecompOf(Cipher!GetPrecomp(n * 1, Power(n, s + 1), s), n, 1, s)
    BY <1>1, <1>4, <2>1, PrecompIs DEF M
  <2> QED
    BY <1>6, <2>1, <2>2 DEF M
<1>8. y \in Nat /\ Unit(y, p) /\ Unit(y, q)
  <2> DEFINE z == Power(x, 2)
  <2>1. sq \in 0 .. n - 1 /\ z \in Int /\ sq = z % n
    <3>1. x \in Int /\ 2 \in Nat
      OBVIOUS
    <3>2. z \in Int /\ sq = z % n
      BY <1>1, <3>1, ModExpPower, PowerIs
    <3> HIDE DEF z, sq
    <3>3. z % n \in 0 .. n - 1
      BY <1>1, <3>2, SameMod
    <3> QED
      BY <3>2, <3>3
  <2>2. Unit(z, p) /\ Unit(z, q)
    <3>1. x \in Int /\ 2 \in Nat
      OBVIOUS
    <3> QED
      BY <1>1, <1>2, <3>1, UnitPower
  <2> HIDE DEF sq, z
  <2>3. Same(sq, z, n) /\ sq \in Int /\ y \in Nat /\ y \in Int
    <3>1. Same(sq, z, n)
      BY <1>1, <2>1, SameMod
    <3> QED
      BY <1>1, <2>1, <3>1
  <2>4. ASSUME NEW t \in Int, Unit(z, t), Same(sq, z, t), NEW o \in Int, n = t * o
        PROVE  Unit(y, t)
    <3>1. PICK v \in Int : Same(z * v, 1, t)
      BY <2>4 DEF Unit
    <3>2. PICK h \in Int : z * v = 1 + h * t
      BY <3>1 DEF Same
    <3>3. PICK i \in Int : sq = z + i * t
      BY <2>4 DEF Same
    <3> DEFINE w == 0 - v
               r == (h + i * v) - o * v
    <3>4. w \in Int /\ r \in Int
      BY <2>4
    <3>5. y * w = 1 + r * t
      <4>1. y = t * o - (z + i * t)
        BY <2>4, <3>3
      <4>2. (t * o - (z + i * t)) * (0 - v) = z * v + (i * v - o * v) * t
        BY <2>1, <2>4
      <4>3. (1 + h * t) + (i * v - o * v) * t = 1 + r * t
        BY <2>4
      <4> QED
        BY <3>2, <4>1, <4>2, <4>3
    <3> HIDE DEF w, r
    <3>6. Same(y * w, 1, t)
      BY <3>4, <3>5 DEF Same
    <3> QED
      BY <3>4, <3>6 DEF Unit
  <2>5. Same(sq, z, p) /\ Same(sq, z, q) /\ n = p * q /\ n = q * p
    <3>1. n = p * q /\ n = q * p
      BY <1>1 DEF n
    <3>2. Same(sq, z, p * q) /\ Same(sq, z, q * p)
      BY <2>3, <3>1
    <3> QED
      BY <1>1, <2>1, <2>3, <3>1, <3>2, SameDivisor
  <2> QED
    BY <1>1, <2>2, <2>3, <2>4, <2>5
<1> HIDE DEF y
<1>9. k.g_n = Power(y, Power(n, s)) % M
  <2>1. y \in Int /\ Power(n, s) \in Nat
    BY <1>3, <1>8
  <2> QED
    BY <1>3, <1>6, <2>1, ModExpPower DEF M
<1> QED
  BY <1>5, <1>6, <1>7, <1>8, <1>9 DEF OpenKey, k, powers, M, n

-----------------------------------------------------------------------------
(* What a ciphertext satisfies *)

\* The equation holds for what is congruent, ...
LEMMA EquationOfSame ==
  ASSUME NEW p, NEW q, NEW s, Params(p, q, s), NEW a \in Int, NEW b \in Int, NEW m \in Nat,
         Same(a, b, Power(p, s + 1)), Equation(b, m, p, q, s)
  PROVE  Equation(a, m, p, q, s)
<1> DEFINE M == Power(p, s + 1)
           base == 1 + p * q
           x == Power(a, p - 1)
           y == Power(b, p - 1)
           z == Power(base, m * (p - 1))
<1>1. p - 1 \in Nat /\ M \in Int /\ base \in Int /\ m * (p - 1) \in Nat
  <2>1. p - 1 \in Nat \ {0} /\ p * q \in Int /\ s \in Nat /\ \A j \in Nat : Power(p, j) \in Int
    BY ParamsAre
  <2>2. s + 1 \in Nat /\ base \in Int /\ p - 1 \in Nat /\ m * (p - 1) \in Nat
    BY <2>1
  <2> QED
    BY <2>1, <2>2
<1> HIDE DEF base, M
<1>2. x \in Int /\ y \in Int /\ z \in Int
  BY <1>1, PowerIs
<1>3. Same(x, y, M) /\ Same(y, z, M)
  BY <1>1, SamePower DEF M, Equation, base
<1> HIDE DEF x, y, z
<1>4. Same(x, z, M)
  BY <1>1, <1>2, <1>3, SameIs
<1> QED
  BY <1>4 DEF Equation, x, z, base, M

\* ... for a product and the sum of the messages, ...
LEMMA EquationOfProduct ==
  ASSUME NEW p, NEW q, NEW s, Params(p, q, s), NEW a \in Int, NEW b \in Int,
         NEW m \in Nat, NEW l \in Nat, Equation(a, m, p, q, s), Equation(b, l, p, q, s)
  PROVE  Equation(a * b, m + l, p, q, s)
<1> DEFINE M == Power(p, s + 1)
           base == 1 + p * q
           e == p - 1
           x == Power(a, e)
           y == Power(b, e)
           v == Power(base, m * e)
           w == Power(base, l * e)
<1>1. e \in Nat /\ M \in Int /\ base \in Int /\ m * e \in Nat /\ l * e \in Nat
      /\ (m + l) * e = m * e + l * e
  <2>1. e \in Nat \ {0} /\ p * q \in Int /\ s \in Nat /\ \A j \in Nat : Power(p, j) \in Int
    BY ParamsAre
  <2> HIDE DEF e
  <2>2. s + 1 \in Nat /\ base \in Int /\ e \in Nat /\ m * e \in Nat /\ l * e \in Nat
        /\ (m + l) * e = m * e + l * e
    BY <2>1
  <2> QED
    BY <2>1, <2>2
<1>2. Same(x, v, M) /\ Same(y, w, M)
  BY DEF Equation
<1> HIDE DEF base, M, e
<1>3. x \in Int /\ y \in Int /\ v \in Int /\ w \in Int
  BY <1>1, PowerIs
<1>4. Power(a * b, e) = x * y
  BY <1>1, PowerOfProduct
<1>5. Power(base, (m + l) * e) = v * w
  BY <1>1, PowerIs
<1> HIDE DEF x, y, v, w
<1>6. Same(x * y, v * w, M)
  BY <1>1, <1>2, <1>3, SameProduct
<1> QED
  BY <1>4, <1>5, <1>6 DEF Equation, base, M, e

\* ... and for a power and a multiple of the message.
LEMMA EquationOfPower ==
  ASSUME NEW p, NEW q, NEW s, Params(p, q, s), NEW a \in Int, NEW m \in Nat,
         Equation(a, m, p, q, s), NEW f \in Nat
  PROVE  Equation(Power(a, f), m * f, p, q, s)
<1> DEFINE M == Power(p, s + 1)
           base == 1 + p * q
           e == p - 1
           x == Power(a, e)
           v == Power(base, m * e)
<1>1. e \in Nat /\ M \in Int /\ base \in Int /\ m * e \in Nat /\ f * e = e * f
      /\ (m * f) * e = (m * e) * f /\ (m * f) * e \in Nat
  <2>1. e \in Nat \ {0} /\ p * q \in Int /\ s \in Nat /\ \A j \in Nat : Power(p, j) \in Int
    BY ParamsAre
  <2> HIDE DEF e
  <2>2. s + 1 \in Nat /\ base \in Int /\ e \in Nat /\ m * e \in Nat /\ f * e = e * f
        /\ (m * f) * e = (m * e) * f /\ m * f \in Nat
    BY <2>1
  <2> DEFINE g == m * f
  <2>3. g \in Nat
    BY <2>2
  <2> HIDE DEF g
  <2>4. g * e \in Nat
    BY <2>2, <2>3
  <2> QED
    BY <2>1, <2>2, <2>4 DEF g
<1>2. Same(x, v, M)
  BY DEF Equation
<1> HIDE DEF base, M, e
<1>3. x \in Int /\ v \in Int
  BY <1>1, PowerIs
<1>4. Power(Power(a, f), e) = Power(x, f)
  <2>1. Power(Power(a, f), e) = Power(a, f * e)
    BY <1>1, PowerOfPower
  <2>2. Power(Power(a, e), f) = Power(a, e * f)
    BY <1>1, PowerOfPower
  <2> QED
    BY <1>1, <2>1, <2>2
<1>5. Power(base, (m * f) * e) = Power(v, f)
  <2> DEFINE g == m * e
  <2>1. g \in Nat /\ (m * f) * e = g * f
    BY <1>1
  <2> HIDE DEF g
  <2>2. Power(Power(base, g), f) = Power(base, g * f)
    BY <1>1, <2>1, PowerOfPower
  <2> QED
    BY <2>1, <2>2 DEF g
<1> HIDE DEF x, v
<1>6. Same(Power(x, f), Power(v, f), M)
  BY <1>1, <1>2, <1>3, SamePower
<1> QED
  BY <1>4, <1>5, <1>6 DEF Equation, base, M, e

\* The message counts modulo n ^ s only.
LEMMA EquationReduced ==
  ASSUME NEW p, NEW q, NEW s, Params(p, q, s), NEW a \in Int, NEW m \in Nat,
         Equation(a, m, p, q, s)
  PROVE  m % Power(p * q, s) \in Nat /\ Equation(a, m % Power(p * q, s), p, q, s)
<1> DEFINE M == Power(p, s + 1)
           base == 1 + p * q
           e == p - 1
           N == Power(p * q, s)
           P_ == Power(p, s)
           Q_ == Power(q, s)
           r == m % N
           d == m \div N
           k == (d * e) * Q_
           x == Power(a, e)
<1>1. e \in Nat /\ M \in Int /\ base \in Int /\ N \in Nat \ {0} /\ N = P_ * Q_
      /\ P_ \in Nat /\ Q_ \in Nat /\ p \in Nat \ {0} /\ q \in Int /\ s \in Nat
  <2>1. /\ e \in Nat \ {0} /\ p * q \in Int /\ s \in Nat /\ \A j \in Nat : Power(p, j) \in Int
        /\ p \in Nat \ {0} /\ q \in Int
    BY ParamsAre
  <2>2. s + 1 \in Nat /\ base \in Int /\ e \in Nat
    BY <2>1
  <2>3. N \in Nat \ {0} /\ N = P_ * Q_ /\ P_ \in Nat \ {0} /\ Q_ \in Nat \ {0}
    BY <2>1, ModuliAre
  <2> HIDE DEF N, P_, Q_, e
  <2>4. P_ \in Nat /\ Q_ \in Nat
    BY <2>3
  <2> QED
    BY <2>1, <2>2, <2>3, <2>4
<1>2. Same(x, Power(base, m * e), M)
  BY DEF Equation
<1> HIDE DEF base, M, e, N, P_, Q_
<1>3. r \in Nat /\ d \in Nat /\ m = N * d + r
  <2>1. m \in Int
    OBVIOUS
  <2>2. m = N * d + r /\ r \in 0 .. N - 1 /\ d \in Int
    BY <1>1, <2>1, DivisionOf
  <2> HIDE DEF r, d
  <2>3. r \in Nat /\ r < N
    BY <1>1, <2>2
  <2>4. d < 0 => N * d <= 0 - N
    BY <1>1, <2>2
  <2>5. d \in Nat
    BY <1>1, <2>2, <2>3, <2>4
  <2> QED
    BY <2>2, <2>3, <2>5
<1> HIDE DEF r, d
<1>4. k \in Nat /\ r * e \in Nat /\ m * e = r * e + k * P_ /\ m * e \in Nat
  <2>1. d * e \in Nat /\ r * e \in Nat /\ m * e \in Nat
    BY <1>1, <1>3
  <2>2. (d * e) * Q_ \in Nat
    <3> DEFINE f == d * e
    <3>1. f \in Nat
      BY <2>1
    <3> HIDE DEF f
    <3>2. f * Q_ \in Nat
      BY <1>1, <3>1
    <3> QED
      BY <3>2 DEF f
  <2>3. ((P_ * Q_) * d + r) * e = r * e + ((d * e) * Q_) * P_
    BY <1>1, <1>3
  <2> QED
    BY <1>1, <1>3, <2>1, <2>2, <2>3
<1> HIDE DEF k
<1> DEFINE y == Power(base, m * e)
           z == Power(base, r * e)
<1>5. x \in Int /\ y \in Int /\ z \in Int
  BY <1>1, <1>4, PowerIs
<1>6. Same(y, z, M)
  <2> DEFINE f == r * e
             g == m * e
  <2>1. f \in Nat /\ k \in Nat /\ g = f + k * P_
    BY <1>4
  <2> HIDE DEF f, g
  <2>2. Same(Power(base, f + k * P_), Power(base, f), M)
    BY <1>1, <2>1, PowerReduced DEF base, M, P_
  <2> QED
    BY <2>1, <2>2 DEF f, g
<1>7. Same(x, y, M)
  BY <1>2
<1> HIDE DEF x, y, z
<1>8. Same(x, z, M)
  BY <1>1, <1>5, <1>6, <1>7, SameIs
<1> QED
  BY <1>3, <1>8 DEF Equation, x, z, base, M, e, r, N

\* The part that carries the message.
LEMMA EquationOfMessage ==
  ASSUME NEW p, NEW q, NEW s, Params(p, q, s), NEW m \in Nat
  PROVE  Power(1 + p * q, m) \in Int /\ Equation(Power(1 + p * q, m), m, p, q, s)
<1> DEFINE M == Power(p, s + 1)
           base == 1 + p * q
           e == p - 1
<1>1. e \in Nat /\ M \in Int /\ base \in Int /\ m * e \in Nat
  <2>1. e \in Nat \ {0} /\ p * q \in Int /\ s \in Nat /\ \A j \in Nat : Power(p, j) \in Int
    BY ParamsAre
  <2>2. s + 1 \in Nat /\ base \in Int /\ e \in Nat /\ m * e \in Nat
    BY <2>1
  <2> QED
    BY <2>1, <2>2
<1> HIDE DEF base, M, e
<1>2. Power(base, m) \in Int /\ Power(base, m * e) \in Int
  BY <1>1, PowerIs
<1>3. Power(Power(base, m), e) = Power(base, m * e)
  BY <1>1, PowerOfPower
<1>4. Same(Power(base, m * e), Power(base, m * e), M)
  BY <1>1, <1>2, SameIs
<1> QED
  BY <1>2, <1>3, <1>4 DEF Equation, base, M, e

\* A random factor, which is an (n ^ s)-th power.
LEMMA EquationOfRandom ==
  ASSUME NEW p, NEW q, NEW s, Params(p, q, s), NEW r \in Nat, Unit(r, p)
  PROVE  /\ Power(r, Power(p * q, s)) \in Int
         /\ Equation(Power(r, Power(p * q, s)), 0, p, q, s)
<1> DEFINE M == Power(p, s + 1)
           base == 1 + p * q
           e == p - 1
           N == Power(p * q, s)
           P_ == Power(p, s)
           Q_ == Power(q, s)
           f == e * P_
           x == Power(r, N)
           y == Power(r, f)
<1>1. /\ e \in Nat /\ M \in Int /\ base \in Int /\ N \in Nat /\ N = P_ * Q_ /\ s \in Nat
      /\ P_ \in Nat /\ Q_ \in Nat /\ p \in Nat /\ Prime(p) /\ r \in Int /\ 0 * e = 0
  <2>1. /\ e \in Nat \ {0} /\ p * q \in Int /\ s \in Nat /\ \A j \in Nat : Power(p, j) \in Int
        /\ p \in Nat /\ Prime(p)
    BY ParamsAre
  <2>2. s + 1 \in Nat /\ base \in Int /\ e \in Nat /\ r \in Int /\ 0 * e = 0
    BY <2>1
  <2>3. N \in Nat \ {0} /\ N = P_ * Q_ /\ P_ \in Nat \ {0} /\ Q_ \in Nat \ {0}
    BY <2>1, ModuliAre
  <2> HIDE DEF N, P_, Q_, e
  <2>4. P_ \in Nat /\ Q_ \in Nat /\ N \in Nat
    BY <2>3
  <2> QED
    BY <2>1, <2>2, <2>3, <2>4
<1>2. Same(y, 1, M)
  BY <1>1, Euler
<1> HIDE DEF base, M, e, N, P_, Q_
<1>3. f \in Nat /\ N * e = f * Q_ /\ N * e \in Nat
  <2>1. f \in Nat /\ (P_ * Q_) * e = (e * P_) * Q_ /\ N * e \in Nat
    BY <1>1
  <2> QED
    BY <1>1, <2>1
<1> HIDE DEF f
<1>4. x \in Int /\ y \in Int
  BY <1>1, <1>3, PowerIs
<1>5. Power(x, e) = Power(y, Q_)
  <2>1. Power(x, e) = Power(r, N * e)
    BY <1>1, PowerOfPower
  <2>2. Power(y, Q_) = Power(r, f * Q_)
    BY <1>1, <1>3, PowerOfPower
  <2> QED
    BY <1>3, <2>1, <2>2
<1>6. Same(Power(y, Q_), 1, M)
  <2> HIDE DEF y
  <2>1. Same(Power(y, Q_), Power(1, Q_), M)
    <3>1. 1 \in Int
      OBVIOUS
    <3> QED
      BY <1>1, <1>2, <1>4, <3>1, SamePower
  <2>2. Power(1, Q_) = 1
    BY <1>1, PowerOfOne
  <2> QED
    BY <2>1, <2>2
<1>7. Power(base, 0 * e) = 1
  BY <1>1, PowerIs
<1> QED
  BY <1>4, <1>5, <1>6, <1>7 DEF Equation, x, base, M, e, N

\* An encryption: a message part and a power of a random factor.
LEMMA EquationOfEncryption ==
  ASSUME NEW p, NEW q, NEW s, Params(p, q, s), NEW m \in Nat, NEW r \in Nat, Unit(r, p),
         NEW e \in Nat, NEW text \in Int,
         Same(text, Power(1 + p * q, m) * Power(Power(r, Power(p * q, s)), e), Power(p, s + 1))
  PROVE  Equation(text, m, p, q, s)
<1> DEFINE x == Power(1 + p * q, m)
           y == Power(r, Power(p * q, s))
           z == Power(y, e)
<1>1. x \in Int /\ Equation(x, m, p, q, s)
  BY EquationOfMessage
<1>2. y \in Int /\ Equation(y, 0, p, q, s)
  BY EquationOfRandom
<1> HIDE DEF x, y
<1>3. z \in Int /\ Equation(z, 0 * e, p, q, s)
  <2>1. z \in Int
    BY <1>2, PowerIs
  <2>2. 0 \in Nat
    OBVIOUS
  <2> QED
    BY <1>2, <2>1, <2>2, EquationOfPower
<1>4. 0 * e = 0 /\ m + 0 = m /\ 0 \in Nat
  OBVIOUS
<1> HIDE DEF z
<1>5. Equation(x * z, m + 0, p, q, s)
  BY <1>1, <1>3, <1>4, EquationOfProduct
<1>6. x * z \in Int
  BY <1>1, <1>3
<1>7. Same(text, x * z, Power(p, s + 1))
  BY DEF x, y, z
<1> QED
  BY <1>4, <1>5, <1>6, <1>7, EquationOfSame

-----------------------------------------------------------------------------
(* Encryption *)

\* FixedBaseExp computes powers, with and without two_k_ary_exp.
LEMMA FixedBaseExpIs ==
  ASSUME NEW m \in Nat \ {0}, NEW b \in Int, NEW e \in Nat, ByteBits \in Nat \ {0}
  PROVE  Cipher!FixedBaseExp(b, e, m) = Power(b, e) % m
<1>1. ModExp(b, e, m) = Power(b, e) % m
  BY ModExpPower
<1>2. TwoKAryModExp(b, e, m, ByteBits) = Power(b, e) % m
  BY TwoKAryIs
<1> QED
  BY <1>1, <1>2, CipherNumbers DEF Cipher!FixedBaseExp

\* The two factors of a ciphertext are multiplied and reduced.
LEMMA MixIs ==
  ASSUME NEW m \in Nat \ {0}, NEW v \in Int, NEW x \in Int, Same(v, x, m),
         NEW w \in Int, NEW y \in Int, Same(w, y, m)
  PROVE  /\ ((v % m) * w) % m \in 0 .. m - 1 /\ ((v % m) * w) % m \in Int
         /\ Same(((v % m) * w) % m, x * y, m)
<1> DEFINE r == v % m
           rw == r * w
           xy == x * y
<1>1. m \in Int
  OBVIOUS
<1>2. r \in Int /\ Same(r, v, m)
  BY SameMod
<1> HIDE DEF r
<1>3. Same(r, x, m)
  BY <1>1, <1>2, SameIs
<1>4. rw \in Int /\ xy \in Int /\ Same(rw, xy, m)
  BY <1>1, <1>2, <1>3, SameProduct
<1> HIDE DEF rw, xy
<1>5. Same(rw % m, rw, m) /\ rw % m \in 0 .. m - 1 /\ rw % m \in Int
  BY <1>4, SameMod
<1> DEFINE z == rw % m
<1> HIDE DEF z
<1>6. Same(z, xy, m)
  <2>1. z \in Int /\ Same(z, rw, m)
    BY <1>5 DEF z
  <2> QED
    BY <1>1, <1>4, <2>1, SameIs
<1> QED
  BY <1>5, <1>6 DEF z, rw, r, xy

\* What every encryption is, modulo the modulus.
Encryption(text, m, base, e, n, s, modulus) ==
  /\ text \in Int
  /\ Same(text, Power(1 + n, m) * Power(Power(base, Power(n, s)), e), modulus)

\* PrimeCrypto::EncryptWithRand makes an encryption modulo p ^ (s + 1).
LEMMA PrimeEncryptIs ==
  ASSUME NEW p, NEW q, NEW s, Params(p, q, s), NEW k, HalfKey(k, p, q, s),
         ByteBits \in Nat \ {0}, NEW m \in Nat, NEW r \in Nat
  PROVE  Encryption(Cipher!PrimeEncrypt(k, m, r), m, k.g_p, r, p * q, s, Power(p, s + 1))
<1> DEFINE M == Power(p, s + 1)
           n == p * q
           v == Cipher!ComputeByBinomialExpansion(k.precomp, Cipher!GetPowers(p, s), s, m)
           x == Power(1 + n, m)
           N == Power(n, s)
           z == Power(k.g_p, N)
           y == Power(z, r)
           w == Cipher!FixedBaseExp(k.fbe, r, M)
<1>1. /\ p \in Nat \ {0} /\ q \in Int /\ s \in Nat /\ M \in Nat \ {0} /\ M \in Int /\ n \in Int
      /\ N \in Nat /\ s + 1 \in 0 .. s + 1
  <2>1. /\ p \in Nat \ {0} /\ q \in Int /\ s \in Nat /\ n \in Int
        /\ \A j \in Nat : Power(p, j) \in Nat \ {0} /\ Power(p, j) \in Int
    BY ParamsAre
  <2>2. s + 1 \in Nat /\ s + 1 \in 0 .. s + 1
    BY <2>1
  <2>3. N \in Nat \ {0}
    BY <2>1, ModuliAre
  <2> HIDE DEF N
  <2> QED
    BY <2>1, <2>2, <2>3
<1>2. /\ k.s = s /\ k.powers = Cipher!GetPowers(p, s) /\ PrecompOf(k.precomp, p, q, s)
      /\ k.g_p \in Nat /\ k.g_p \in Int /\ k.fbe = z % M
  BY DEF HalfKey
<1>3. k.powers[s + 1] = M
  BY <1>1, <1>2, CipherNumbers DEF Cipher!GetPowers
<1>4. v \in Int /\ Same(v, x, M)
  BY <1>1, <1>2, ComputeIs
<1>5. x \in Int /\ z \in Int
  <2> DEFINE a == 1 + n
             g == k.g_p
  <2>1. a \in Int /\ g \in Int /\ N \in Nat
    BY <1>1, <1>2
  <2> HIDE DEF a, g, N
  <2>2. Power(a, m) \in Int /\ Power(g, N) \in Int
    BY <2>1, PowerIs
  <2> QED
    BY <2>2 DEF a, g
<1>6. Cipher!PrimeEncrypt(k, m, r) = ((v % M) * w) % M
  BY <1>2, <1>3 DEF Cipher!PrimeEncrypt
<1> HIDE DEF v, M, x, z
<1>7. k.fbe \in Int /\ Same(k.fbe, z, M)
  BY <1>1, <1>2, <1>5, SameMod
<1>8. w \in Int /\ y \in Int /\ Same(w, y, M)
  <2> DEFINE t == Power(k.fbe, r)
  <2>1. t \in Int /\ y \in Int /\ Same(t, y, M)
    BY <1>1, <1>5, <1>7, SamePower, PowerIs
  <2>2. w = t % M
    BY <1>1, <1>7, FixedBaseExpIs
  <2> HIDE DEF t, w, y
  <2>3. w \in Int /\ Same(w, t, M)
    BY <1>1, <2>1, <2>2, SameMod
  <2> QED
    BY <1>1, <2>1, <2>3, SameIs
<1> HIDE DEF w, y
<1>9. ((v % M) * w) % M \in Int /\ Same(((v % M) * w) % M, x * y, M)
  BY <1>1, <1>4, <1>5, <1>8, MixIs
<1> QED
  BY <1>6, <1>9 DEF Encryption, M, x, y, z

\* Both ways of PublicPaillier make one modulo n ^ (s + 1).
LEMMA PublicEncryptIs ==
  ASSUME NEW p, NEW q, NEW s, Params(p, q, s), OpenKey(keys.public, p, q, s),
         ByteBits \in Nat \ {0}, NEW m \in Nat, NEW r \in Nat
  PROVE  /\ \E base \in Nat : /\ Unit(base, p) /\ Unit(base, q)
                              /\ Encryption(Cipher!PublicEncrypt(m, r), m, base, r, p * q, s,
                                            Power(p * q, s + 1))
         /\ Cipher!PublicEncrypt(m, r) \in 0 .. Power(p * q, s + 1) - 1
         /\ Encryption(Cipher!PublicEncryptWithRand(m, r), m, r, 1, p * q, s, Power(p * q, s + 1))
         /\ Cipher!PublicEncryptWithRand(m, r) \in 0 .. Power(p * q, s + 1) - 1
<1> DEFINE n == p * q
           M == Power(n, s + 1)
           k == keys.public
           v == Cipher!ComputeByBinomialExpansion(k.precomp, Cipher!GetPowers(n, s), s, m)
           x == Power(1 + n, m)
           N == Power(n, s)
           w == Cipher!FixedBaseExp(k.g_n, r, M)
           t == Cipher!ModExp(r, N, M)
<1>1. n \in Nat \ {0} /\ n \in Int /\ s \in Nat /\ M \in Nat \ {0} /\ M \in Int /\ N \in Nat
      /\ 1 + n \in Int
  <2>1. n \in Nat \ {0} /\ n \in Int /\ s \in Nat
    BY ParamsAre
  <2>2. s + 1 \in Nat /\ 1 + n \in Int
    BY <2>1
  <2>3. N \in Nat \ {0} /\ M \in Nat \ {0} /\ M \in Int
    BY <2>1, <2>2, ModuliAre
  <2> HIDE DEF N
  <2> QED
    BY <2>1, <2>2, <2>3
<1>2. /\ k.s = s /\ k.powers = Cipher!GetPowers(n, s) /\ k.modulus = M /\ k.powers[s] = N
      /\ PrecompOf(k.precomp, n, 1, s)
  BY DEF OpenKey
<1>3. PICK base \in Nat : Unit(base, p) /\ Unit(base, q) /\ k.g_n = Power(base, N) % M
  BY DEF OpenKey
<1> HIDE DEF n
<1>4. v \in Int /\ Same(v, x, M)
  <2>1. 1 \in Int /\ n * 1 = n
    BY <1>1
  <2>2. v \in Int /\ Same(v, Power(1 + n * 1, m), M)
    BY <1>1, <1>2, <2>1, ComputeIs
  <2> QED
    BY <2>1, <2>2
<1>5. Cipher!PublicEncrypt(m, r) = ((v % M) * w) % M
  BY <1>2 DEF Cipher!PublicEncrypt
<1>6. Cipher!PublicEncryptWithRand(m, r) = ((v % M) * t) % M
  BY <1>2 DEF Cipher!PublicEncryptWithRand
<1> DEFINE z == Power(base, N)
           y == Power(z, r)
           u == Power(r, N)
<1>7. x \in Int /\ z \in Int /\ u \in Int
  <2>1. base \in Int /\ r \in Int
    OBVIOUS
  <2> DEFINE a == 1 + n
  <2>2. a \in Int
    BY <1>1
  <2> HIDE DEF a, N
  <2> QED
    BY <1>1, <2>1, <2>2, PowerIs
<1>8. t \in Int /\ Same(t, u, M)
  <2>1. t = u % M
    <3>1. r \in Int
      OBVIOUS
    <3> QED
      BY <1>1, <3>1, ModExpPower, CipherNumbers
  <2> HIDE DEF t, u, M
  <2> QED
    BY <1>1, <1>7, <2>1, SameMod
<1> HIDE DEF v, M, x, z, t, u, N
<1>9. k.g_n \in Int /\ Same(k.g_n, z, M)
  <2>1. k.g_n = z % M
    BY <1>3 DEF z
  <2> QED
    BY <1>1, <1>7, <2>1, SameMod
<1>10. w \in Int /\ y \in Int /\ Same(w, y, M)
  <2> DEFINE h == Power(k.g_n, r)
  <2>1. h \in Int /\ y \in Int /\ Same(h, y, M)
    BY <1>1, <1>7, <1>9, SamePower, PowerIs
  <2>2. w = h % M
    BY <1>1, <1>9, FixedBaseExpIs
  <2> HIDE DEF h, w, y
  <2>3. w \in Int /\ Same(w, h, M)
    BY <1>1, <2>1, <2>2, SameMod
  <2> QED
    BY <1>1, <2>1, <2>3, SameIs
<1> HIDE DEF w, y
<1>11. /\ ((v % M) * w) % M \in 0 .. M - 1 /\ ((v % M) * w) % M \in Int
       /\ Same(((v % M) * w) % M, x * y, M)
  BY <1>1, <1>4, <1>7, <1>10, MixIs
<1>12. /\ ((v % M) * t) % M \in 0 .. M - 1 /\ ((v % M) * t) % M \in Int
       /\ Same(((v % M) * t) % M, x * u, M)
  BY <1>1, <1>4, <1>7, <1>8, MixIs
<1>13. Power(u, 1) = u
  BY <1>7, PowerOne
<1>14. Encryption(Cipher!PublicEncrypt(m, r), m, base, r, n, s, M)
  BY <1>5, <1>11 DEF Encryption, x, y, z, N
<1>15. Encryption(Cipher!PublicEncryptWithRand(m, r), m, r, 1, n, s, M)
  BY <1>6, <1>12, <1>13 DEF Encryption, x, u, N
<1> QED
  BY <1>3, <1>5, <1>6, <1>11, <1>12, <1>14, <1>15 DEF n, M

-----------------------------------------------------------------------------
(* Both halves *)

\* Two numbers below a product are the same when they agree modulo each factor.
LEMMA EqualByHalves ==
  ASSUME NEW p, NEW q, NEW s, Params(p, q, s), NEW j \in Nat,
         NEW a \in 0 .. Power(p * q, j) - 1, NEW b \in 0 .. Power(p * q, j) - 1,
         Same(a, b, Power(p, j)), Same(a, b, Power(q, j))
  PROVE  a = b
<1> DEFINE x == Power(p, j)
           y == Power(q, j)
           z == Power(p * q, j)
<1>1. z = x * y /\ z \in Nat \ {0} /\ x \in Int /\ y \in Int /\ Unit(x, y)
  BY ModuliAre
<1> HIDE DEF x, y, z
<1>2. a \in 0 .. z - 1 /\ b \in 0 .. z - 1 /\ a \in Int /\ b \in Int
  <2>1. a \in 0 .. z - 1 /\ b \in 0 .. z - 1
    BY DEF z
  <2> QED
    BY <1>1, <2>1
<1>3. Same(a, b, x * y)
  BY <1>1, <1>2, SameJoin DEF x, y
<1> QED
  BY <1>1, <1>2, <1>3, SameSmall

\* What is an encryption modulo n ^ (s + 1) is one for both halves.
LEMMA EncryptionOfHalf ==
  ASSUME NEW p, NEW q, NEW s, Params(p, q, s), NEW text, NEW m \in Nat, NEW base \in Nat,
         NEW e \in Nat, Encryption(text, m, base, e, p * q, s, Power(p * q, s + 1))
  PROVE  /\ Encryption(text, m, base, e, p * q, s, Power(p, s + 1))
         /\ Encryption(text, m, base, e, p * q, s, Power(q, s + 1))
<1> DEFINE n == p * q
           x == Power(p, s + 1)
           y == Power(q, s + 1)
           z == Power(n, s + 1)
           N == Power(n, s)
           v == Power(1 + n, m)
           w == Power(Power(base, N), e)
           vw == v * w
<1>1. z = x * y /\ z = y * x /\ x \in Int /\ y \in Int /\ N \in Nat /\ n \in Int
  <2>1. s \in Nat /\ s + 1 \in Nat /\ n \in Int
    <3>1. s \in Nat /\ n \in Int
      BY ParamsAre
    <3> QED
      BY <3>1
  <2>2. z = x * y /\ x \in Int /\ y \in Int /\ N \in Nat \ {0}
    BY <2>1, ModuliAre
  <2> HIDE DEF x, y, z, N, n
  <2>3. x * y = y * x
    BY <2>2
  <2> QED
    BY <2>1, <2>2, <2>3
<1>2. vw \in Int
  <2> DEFINE a == 1 + n
             u == Power(base, N)
  <2>1. a \in Int /\ base \in Int
    BY <1>1
  <2> HIDE DEF a, n, N
  <2>2. Power(a, m) \in Int /\ u \in Int
    BY <1>1, <2>1, PowerIs
  <2> HIDE DEF u
  <2>3. Power(u, e) \in Int
    BY <2>2, PowerIs
  <2>4. v \in Int /\ w \in Int
    BY <2>2, <2>3 DEF a, u
  <2> HIDE DEF v, w
  <2> QED
    BY <2>4
<1>3. text \in Int /\ Same(text, vw, z)
  BY DEF Encryption
<1> HIDE DEF vw, x, y, z
<1>4. Same(text, vw, x * y) /\ Same(text, vw, y * x)
  BY <1>1, <1>3
<1>5. Same(text, vw, x) /\ Same(text, vw, y)
  BY <1>1, <1>2, <1>3, <1>4, SameDivisor
<1> QED
  BY <1>3, <1>5 DEF Encryption, vw, x, y

\* An encryption satisfies the equation: Euler's theorem removes the random factor.
LEMMA EquationOfHalf ==
  ASSUME NEW p, NEW q, NEW s, Params(p, q, s), NEW text, NEW m \in Nat, NEW base \in Nat,
         Unit(base, p), NEW e \in Nat, Encryption(text, m, base, e, p * q, s, Power(p, s + 1))
  PROVE  Equation(text, m, p, q, s)
<1>1. /\ text \in Int
      /\ Same(text, Power(1 + p * q, m) * Power(Power(base, Power(p * q, s)), e), Power(p, s + 1))
  BY DEF Encryption
<1> QED
  BY <1>1, EquationOfEncryption

\* What the objects for both keys hold.
KeysOf(p, q, s) ==
  /\ OpenKey(keys.public, p, q, s)
  /\ HalfKey(keys.p, p, q, s) /\ HalfKey(keys.q, q, p, s)

\* What half of a private key holds.
LEMMA PowersHeld ==
  ASSUME NEW p, NEW q, NEW s, Params(p, q, s), NEW k, HalfKey(k, p, q, s)
  PROVE  /\ k.p = p /\ k.s = s /\ k.powers[k.s] = Power(p, s) /\ k.powers[k.s + 1] = Power(p, s + 1)
         /\ k.g_p \in Nat /\ k.g_p \in Int /\ Unit(k.g_p, p)
<1>1. s \in 0 .. s + 1 /\ s + 1 \in 0 .. s + 1
  <2>1. s \in Nat
    BY ParamsAre
  <2> QED
    BY <2>1
<1>2. k.p = p /\ k.s = s /\ k.powers = Cipher!GetPowers(p, s) /\ k.g_p \in Nat /\ Unit(k.g_p, p)
  BY DEF HalfKey
<1> QED
  BY <1>1, <1>2, CipherNumbers DEF Cipher!GetPowers

\* PrivatePaillier::Encrypt makes an encryption for both halves.
LEMMA PrivateEncryptIs ==
  ASSUME NEW p, NEW q, NEW s, Params(p, q, s), KeysOf(p, q, s),
         ByteBits \in Nat \ {0}, NEW m \in Nat, NEW r_p \in Nat, NEW r_q \in Nat
  PROVE  LET text == Cipher!PrivateEncrypt(m, r_p, r_q)
         IN /\ text \in 0 .. Power(p * q, s + 1) - 1
            /\ Encryption(text, m, keys.p.g_p, r_p, p * q, s, Power(p, s + 1))
            /\ Encryption(text, m, keys.q.g_p, r_q, p * q, s, Power(q, s + 1))
<1> DEFINE n == p * q
           x == Power(p, s + 1)
           y == Power(q, s + 1)
           a == Cipher!PrimeEncrypt(keys.p, m, r_p)
           b == Cipher!PrimeEncrypt(keys.q, m, r_q)
           text == Cipher!PrivateEncrypt(m, r_p, r_q)
           fp == Power(1 + n, m) * Power(Power(keys.p.g_p, Power(n, s)), r_p)
           fq == Power(1 + n, m) * Power(Power(keys.q.g_p, Power(n, s)), r_q)
<1>1. Params(q, p, s) /\ HalfKey(keys.p, p, q, s) /\ HalfKey(keys.q, q, p, s) /\ q * p = n
      /\ n \in Int /\ s \in Nat /\ s + 1 \in Nat
  <2>1. Params(q, p, s) /\ q * p = n /\ s \in Nat /\ n \in Int
    BY ParamsAre
  <2>2. s + 1 \in Nat
    BY <2>1
  <2> QED
    BY <2>1, <2>2 DEF KeysOf
<1>2. a \in Int /\ Same(a, fp, x)
  <2>1. Encryption(a, m, keys.p.g_p, r_p, p * q, s, x)
    BY <1>1, PrimeEncryptIs
  <2> QED
    BY <2>1 DEF Encryption
<1>3. b \in Int /\ Same(b, fq, y)
  <2>1. Encryption(b, m, keys.q.g_p, r_q, q * p, s, y)
    BY <1>1, PrimeEncryptIs
  <2>2. Encryption(b, m, keys.q.g_p, r_q, n, s, y)
    BY <1>1, <2>1
  <2> QED
    BY <2>2 DEF Encryption
<1>4. /\ Power(n, s + 1) = x * y /\ x \in Nat \ {0} /\ y \in Nat \ {0} /\ x \in Int /\ y \in Int
      /\ Unit(x, y) /\ Unit(y, x) /\ Power(n, s) \in Nat
  <2>1. Power(n, s) \in Nat \ {0}
    BY <1>1, ModuliAre
  <2>2. /\ Power(n, s + 1) = x * y /\ x \in Nat \ {0} /\ y \in Nat \ {0} /\ x \in Int /\ y \in Int
        /\ Unit(x, y) /\ Unit(y, x)
    BY <1>1, ModuliAre
  <2> DEFINE N == Power(n, s)
  <2> HIDE DEF N
  <2>3. N \in Nat
    BY <2>1 DEF N
  <2> QED
    BY <2>2, <2>3 DEF N
<1>5. text = TwoModulusCrt(a, b, x, y)
  <2>1. keys.p.powers[keys.p.s + 1] = x /\ keys.q.powers[keys.q.s + 1] = y
    BY <1>1, PowersHeld
  <2> QED
    BY <2>1, CipherNumbers DEF Cipher!PrivateEncrypt
<1>6. fp \in Int /\ fq \in Int
  <2> DEFINE g == 1 + n
             u == keys.p.g_p
             w == keys.q.g_p
             N == Power(n, s)
  <2>1. g \in Int /\ u \in Int /\ w \in Int /\ N \in Nat
    <3>1. u \in Int /\ w \in Int
      BY <1>1, PowersHeld
    <3> QED
      BY <1>1, <1>4, <3>1
  <2> HIDE DEF n, g, u, w, N
  <2>2. Power(g, m) \in Int /\ Power(u, N) \in Int /\ Power(w, N) \in Int
    BY <2>1, PowerIs
  <2> DEFINE uN == Power(u, N)
             wN == Power(w, N)
             gm == Power(g, m)
  <2>3. uN \in Int /\ wN \in Int /\ gm \in Int
    BY <2>2
  <2> HIDE DEF uN, wN, gm
  <2>4. Power(uN, r_p) \in Int /\ Power(wN, r_q) \in Int
    BY <2>3, PowerIs
  <2> DEFINE c_ == Power(uN, r_p)
             d_ == Power(wN, r_q)
  <2>5. c_ \in Int /\ d_ \in Int
    BY <2>4
  <2> HIDE DEF c_, d_
  <2>6. gm * c_ \in Int /\ gm * d_ \in Int
    BY <2>3, <2>5
  <2> QED
    BY <2>6 DEF c_, d_, gm, uN, wN, g, u, w, N
<1> HIDE DEF a, b, x, y, text, fp, fq
<1>7. /\ TwoModulusCrt(a, b, x, y) \in 0 .. x * y - 1
      /\ Same(TwoModulusCrt(a, b, x, y), a, x) /\ Same(TwoModulusCrt(a, b, x, y), b, y)
  BY <1>2, <1>3, <1>4, TwoModulusCrtIs
<1>8. text \in 0 .. x * y - 1 /\ Same(text, a, x) /\ Same(text, b, y)
  BY <1>5, <1>7
<1>9. text \in Int
  <2> DEFINE z == x * y
  <2>1. z \in Int /\ text \in 0 .. z - 1
    BY <1>4, <1>8
  <2> HIDE DEF z
  <2> QED
    BY <2>1
<1>10. Same(text, fp, x) /\ Same(text, fq, y)
  BY <1>2, <1>3, <1>4, <1>6, <1>8, <1>9, SameIs
<1>11. Encryption(text, m, keys.p.g_p, r_p, n, s, x) /\ Encryption(text, m, keys.q.g_p, r_q, n, s, y)
  BY <1>9, <1>10 DEF Encryption, fp, fq
<1> QED
  BY <1>4, <1>8, <1>11 DEF text, x, y

\* What is stored for a message.
Ciphertext(text, m, p, q, s) ==
  /\ text \in 0 .. Power(p * q, s + 1) - 1 /\ m \in 0 .. Power(p * q, s) - 1
  /\ Equation(text, m, p, q, s) /\ Equation(text, m, q, p, s)

\* What satisfies the equation is a unit.
LEMMA CiphertextUnit ==
  ASSUME NEW p, NEW q, NEW s, Params(p, q, s), NEW text \in Int, NEW m \in Nat,
         Equation(text, m, p, q, s)
  PROVE  Unit(text, p)
<1> DEFINE base == 1 + p * q
           e == p - 1
           M == Power(p, s + 1)
           x == Power(text, e)
           y == Power(base, m * e)
<1>1. /\ p \in Int /\ q \in Int /\ e \in Nat \ {0} /\ e \in Nat /\ s \in Nat /\ M \in Int
      /\ base \in Int /\ m * e \in Nat /\ M = p * Power(p, s) /\ Power(p, s) \in Int
  <2>1. /\ p \in Int /\ q \in Int /\ e \in Nat \ {0} /\ s \in Nat /\ p * q \in Int
        /\ M = p * Power(p, s) /\ \A j \in Nat : Power(p, j) \in Int
    BY ParamsAre
  <2>2. s + 1 \in Nat /\ base \in Int /\ e \in Nat /\ m * e \in Nat
    BY <2>1
  <2> QED
    BY <2>1, <2>2
<1>2. Unit(base, p)
  <2>1. base * 1 = 1 + q * p /\ 1 \in Int
    BY <1>1
  <2>2. Same(base * 1, 1, p)
    BY <1>1, <2>1 DEF Same
  <2> QED
    BY <2>1, <2>2 DEF Unit
<1>3. Same(x, y, M)
  BY DEF Equation
<1> HIDE DEF base, M, e
<1>4. x \in Int /\ y \in Int /\ Unit(y, p)
  BY <1>1, <1>2, UnitPower, PowerIs
<1>5. Power(text, e) = text * Power(text, e - 1) /\ Power(text, e - 1) \in Int
  BY <1>1, PowerOne
<1> HIDE DEF y
<1>6. Same(y, x, p)
  <2> HIDE DEF x
  <2>1. Same(x, y, p * Power(p, s))
    BY <1>1, <1>3
  <2>2. Same(x, y, p)
    BY <1>1, <1>4, <2>1, SameDivisor
  <2> QED
    BY <1>1, <1>4, <2>2, SameIs
<1>7. Unit(x, p)
  <2> HIDE DEF x
  <2> QED
    BY <1>1, <1>4, <1>6, UnitSame
<1>8. Unit(text * Power(text, e - 1), p)
  BY <1>5, <1>7
<1> QED
  BY <1>1, <1>5, <1>8, UnitFactor

\* PrivatePaillier::Decrypt finds the message of a ciphertext.
LEMMA DecryptIs ==
  ASSUME NEW p, NEW q, NEW s, Params(p, q, s), KeysOf(p, q, s), NEW text, NEW m,
         Ciphertext(text, m, p, q, s)
  PROVE  /\ text \in 1 .. Power(p * q, s + 1) - 1 /\ IsCoprime(text, p * q)
         /\ Cipher!Decrypt(text) = m
<1> DEFINE n == p * q
           x == Power(p, s)
           y == Power(q, s)
           z == Power(n, s)
           M == Power(n, s + 1)
           value == Cipher!Decrypt(text)
<1>1. /\ Params(q, p, s) /\ HalfKey(keys.p, p, q, s) /\ HalfKey(keys.q, q, p, s) /\ s \in Nat
      /\ p \in Nat /\ q \in Nat /\ Prime(p) /\ Prime(q) /\ p > 1 /\ q * p = n /\ p \in Nat \ {0}
  <2>1. /\ Params(q, p, s) /\ s \in Nat /\ p \in Nat /\ q \in Nat /\ Prime(p) /\ Prime(q)
        /\ p > 1 /\ q * p = n /\ p \in Nat \ {0}
    BY ParamsAre
  <2> QED
    BY <2>1 DEF KeysOf
<1>2. /\ z = x * y /\ x \in Nat \ {0} /\ y \in Nat \ {0} /\ x \in Int /\ y \in Int
      /\ z \in Nat \ {0} /\ Unit(x, y) /\ Unit(y, x) /\ M \in Nat \ {0}
  <2>1. s + 1 \in Nat
    BY <1>1
  <2>2. M \in Nat \ {0}
    BY <2>1, ModuliAre
  <2> QED
    BY <1>1, <2>2, ModuliAre
<1>3. /\ text \in 0 .. M - 1 /\ m \in 0 .. z - 1
      /\ Equation(text, m, p, q, s) /\ Equation(text, m, q, p, s)
  BY DEF Ciphertext
<1>4. Cipher!Decrypt(text)
        = TwoModulusCrt(Cipher!PrimeDecrypt(keys.p, text), Cipher!PrimeDecrypt(keys.q, text), x, y)
  <2>1. keys.p.powers[keys.p.s] = x /\ keys.q.powers[keys.q.s] = y
    BY <1>1, PowersHeld
  <2> QED
    BY <2>1, CipherNumbers DEF Cipher!Decrypt
<1> HIDE DEF value, M, z
<1>5. text \in Int /\ m \in Nat /\ m \in Int
  BY <1>2, <1>3
<1>6. Cipher!PrimeDecrypt(keys.p, text) = m % x
  BY <1>1, <1>3, <1>5, PrimeDecryptIs
<1>7. Cipher!PrimeDecrypt(keys.q, text) = m % y
  BY <1>1, <1>3, <1>5, PrimeDecryptIs
<1> DEFINE a == m % x
           b == m % y
<1>8. a \in Int /\ Same(a, m, x) /\ b \in Int /\ Same(b, m, y)
  <2> HIDE DEF x, y
  <2> QED
    BY <1>2, <1>5, SameMod
<1>9. value = TwoModulusCrt(a, b, x, y)
  BY <1>4, <1>6, <1>7 DEF value
<1> HIDE DEF a, b
<1>10. value \in 0 .. z - 1 /\ Same(value, a, x) /\ Same(value, b, y)
  <2> HIDE DEF x, y
  <2>1. /\ TwoModulusCrt(a, b, x, y) \in 0 .. x * y - 1
        /\ Same(TwoModulusCrt(a, b, x, y), a, x) /\ Same(TwoModulusCrt(a, b, x, y), b, y)
    BY <1>2, <1>8, TwoModulusCrtIs
  <2> QED
    BY <1>2, <1>9, <2>1
<1>11. value \in Int
  BY <1>2, <1>10
<1>12. Same(value, m, x) /\ Same(value, m, y)
  <2> HIDE DEF x, y
  <2> QED
    BY <1>2, <1>5, <1>8, <1>10, <1>11, SameIs
<1>13. value = m
  BY <1>1, <1>3, <1>10, <1>12, EqualByHalves DEF z
<1>14. Unit(text, p) /\ Unit(text, q)
  <2>1. Unit(text, p)
    BY <1>3, <1>5, CiphertextUnit
  <2>2. Unit(text, q)
    BY <1>1, <1>3, <1>5, CiphertextUnit
  <2> QED
    BY <2>1, <2>2
<1>15. IsCoprime(text, n)
  BY <1>1, <1>5, <1>14, CoprimeIs
<1>16. text # 0
  <2> SUFFICES ASSUME text = 0
               PROVE  FALSE
    OBVIOUS
  <2>1. PICK i \in Int : Same(0 * i, 1, p)
    BY <1>14 DEF Unit
  <2>2. Same(0, 1, p) /\ 0 \in Int /\ 1 \in Int
    <3>1. 0 * i = 0
      OBVIOUS
    <3> QED
      BY <2>1, <3>1
  <2>3. 0 % p = 1 % p
    BY <1>1, <2>2, SameResidue
  <2>4. 0 % p = 0 /\ 1 % p = 1
    BY <1>1, SmallResidue
  <2> QED
    BY <2>3, <2>4
<1>17. text \in 1 .. M - 1
  BY <1>2, <1>3, <1>16
<1> QED
  BY <1>13, <1>15, <1>17 DEF value, M

-----------------------------------------------------------------------------
(* The random number that is returned *)

\* The keys of the initial states.
LEMMA KeysAre ==
  ASSUME Cipher!PaillierAssumption, NEW k \in KeyPairs, keys = Cipher!Keys(k)
  PROVE  Params(k.p, k.q, k.s) /\ KeysOf(k.p, k.q, k.s)
<1>1. /\ Params(k.p, k.q, k.s) /\ k.x \in Nat /\ IsCoprime(k.x, k.p * k.q)
  BY CipherNumbers DEF Cipher!PaillierAssumption, Params
<1>2. OpenKey(keys.public, k.p, k.q, k.s)
  <2>1. OpenKey(Cipher!PublicPaillier(k.p * k.q, k.s, k.x), k.p, k.q, k.s)
    BY <1>1, OpenKeyIs
  <2> QED
    BY <2>1 DEF Cipher!Keys
<1>3. HalfKey(keys.p, k.p, k.q, k.s)
  <2>1. HalfKey(Cipher!PrimeCrypto(k.p, k.q, k.s), k.p, k.q, k.s)
    BY <1>1, HalfKeyIs
  <2> QED
    BY <2>1 DEF Cipher!Keys
<1>4. HalfKey(keys.q, k.q, k.p, k.s)
  <2>1. Params(k.q, k.p, k.s)
    BY <1>1, ParamsAre
  <2>2. HalfKey(Cipher!PrimeCrypto(k.q, k.p, k.s), k.q, k.p, k.s)
    BY <2>1, HalfKeyIs
  <2> QED
    BY <2>2 DEF Cipher!Keys
<1> QED
  BY <1>1, <1>2, <1>3, <1>4 DEF KeysOf

\* The random number reported for a prime is a power of its generator.
LEMMA ReportedIs ==
  ASSUME NEW p, NEW q, NEW s, Params(p, q, s), NEW k, HalfKey(k, p, q, s),
         ByteBits \in Nat \ {0}, NEW r \in Nat
  PROVE  /\ Cipher!Reported(k, r) % k.p \in Int
         /\ Same(Cipher!Reported(k, r) % k.p, Power(k.g_p, r), p)
<1> DEFINE M == Power(p, s + 1)
           y == Power(k.g_p, r)
           x == Cipher!Reported(k, r)
<1>1. /\ p \in Nat \ {0} /\ p \in Int /\ M \in Nat \ {0} /\ M \in Int
      /\ M = p * Power(p, s) /\ Power(p, s) \in Int
  <2>1. /\ p \in Nat \ {0} /\ p \in Int /\ s \in Nat /\ M = p * Power(p, s)
        /\ \A j \in Nat : Power(p, j) \in Nat \ {0} /\ Power(p, j) \in Int
    BY ParamsAre
  <2>2. s + 1 \in Nat
    BY <2>1
  <2> QED
    BY <2>1, <2>2
<1>2. k.p = p /\ k.s = s /\ k.powers[k.s + 1] = M /\ k.g_p \in Int
  BY PowersHeld
<1>3. y \in Int
  BY <1>2, PowerIs
<1>4. x = y % M
  <2>1. x = Cipher!FixedBaseExp(k.g_p, r, M)
    BY <1>2 DEF Cipher!Reported
  <2> QED
    BY <1>1, <1>2, <2>1, FixedBaseExpIs
<1> HIDE DEF M, x, y
<1>5. x \in Int /\ Same(x, y, M)
  BY <1>1, <1>3, <1>4, SameMod
<1>6. Same(x, y, p)
  <2>1. Same(x, y, p * Power(p, s))
    BY <1>1, <1>5
  <2> QED
    BY <1>1, <1>3, <1>5, <2>1, SameDivisor
<1>7. x % p \in Int /\ Same(x % p, x, p)
  BY <1>1, <1>5, SameMod
<1> DEFINE z == x % p
<1> HIDE DEF z
<1>8. z \in Int /\ Same(z, x, p)
  BY <1>7 DEF z
<1>9. Same(z, y, p)
  BY <1>1, <1>3, <1>5, <1>6, <1>8, SameIs
<1> QED
  BY <1>2, <1>8, <1>9 DEF z, x, y

\* Random factors that agree modulo p give the same ciphertexts modulo p ^ (s + 1).
LEMMA RandomAgrees ==
  ASSUME NEW p, NEW q, NEW s, Params(p, q, s), NEW r \in Int, NEW g \in Int, NEW e \in Nat,
         Same(r, Power(g, e), p)
  PROVE  /\ Same(Power(r, Power(p * q, s)), Power(Power(g, Power(p * q, s)), e), Power(p, s + 1))
         /\ Power(r, Power(p * q, s)) \in Int /\ Power(Power(g, Power(p * q, s)), e) \in Int
<1> DEFINE M == Power(p, s + 1)
           N == Power(p * q, s)
           P_ == Power(p, s)
           Q_ == Power(q, s)
           h == Power(g, e)
           x == Power(r, P_)
           y == Power(h, P_)
<1>1. /\ p \in Nat \ {0} /\ s \in Nat /\ M \in Int /\ N \in Nat /\ N = P_ * Q_
      /\ P_ \in Nat /\ Q_ \in Nat
  <2>1. p \in Nat \ {0} /\ s \in Nat /\ \A j \in Nat : Power(p, j) \in Int
    BY ParamsAre
  <2>2. s + 1 \in Nat
    BY <2>1
  <2>3. N \in Nat \ {0} /\ N = P_ * Q_ /\ P_ \in Nat \ {0} /\ Q_ \in Nat \ {0}
    BY <2>1, ModuliAre
  <2> HIDE DEF N, P_, Q_
  <2>4. N \in Nat /\ P_ \in Nat /\ Q_ \in Nat
    BY <2>3
  <2> QED
    BY <2>1, <2>2, <2>3, <2>4
<1>2. h \in Int /\ Same(r, h, p)
  BY PowerIs
<1> HIDE DEF h
<1>3. Same(x, y, M)
  BY <1>1, <1>2, PowersLift
<1> HIDE DEF M, N, P_, Q_
<1>4. x \in Int /\ y \in Int
  BY <1>1, <1>2, PowerIs
<1> HIDE DEF x, y
<1>5. Power(x, Q_) = Power(r, N) /\ Power(y, Q_) = Power(h, N)
  <2>1. Power(Power(r, P_), Q_) = Power(r, P_ * Q_)
    BY <1>1, PowerOfPower
  <2>2. Power(Power(h, P_), Q_) = Power(h, P_ * Q_)
    BY <1>1, <1>2, PowerOfPower
  <2> QED
    BY <1>1, <2>1, <2>2 DEF x, y
<1>6. Power(h, N) = Power(Power(g, N), e)
  <2>1. Power(h, N) = Power(g, e * N)
    BY <1>1, PowerOfPower DEF h
  <2>2. Power(Power(g, N), e) = Power(g, N * e)
    BY <1>1, PowerOfPower
  <2>3. e * N = N * e
    BY <1>1
  <2> QED
    BY <2>1, <2>2, <2>3
<1>7. Same(Power(x, Q_), Power(y, Q_), M) /\ Power(x, Q_) \in Int /\ Power(y, Q_) \in Int
  BY <1>1, <1>3, <1>4, SamePower, PowerIs
<1> QED
  BY <1>5, <1>6, <1>7 DEF M, N

\* Two encryptions of a message by random factors that agree.
LEMMA EncryptionsAgree ==
  ASSUME NEW p, NEW q, NEW s, Params(p, q, s), NEW a, NEW b, NEW m \in Nat,
         NEW r \in Nat, NEW g \in Int, NEW e \in Nat, Same(r, Power(g, e), p),
         Encryption(a, m, r, 1, p * q, s, Power(p, s + 1)),
         Encryption(b, m, g, e, p * q, s, Power(p, s + 1))
  PROVE  a \in Int /\ b \in Int /\ Same(a, b, Power(p, s + 1))
<1> DEFINE n == p * q
           M == Power(p, s + 1)
           v == Power(1 + n, m)
           u == Power(r, Power(n, s))
           w == Power(Power(g, Power(n, s)), e)
           vu == v * u
           vw == v * w
<1>1. n \in Int /\ M \in Int
  <2>1. n \in Int /\ s \in Nat /\ \A j \in Nat : Power(p, j) \in Int
    BY ParamsAre
  <2>2. s + 1 \in Nat
    BY <2>1
  <2> QED
    BY <2>1, <2>2
<1>2. Same(u, w, M) /\ u \in Int /\ w \in Int
  <2>1. r \in Int
    OBVIOUS
  <2> QED
    BY <2>1, RandomAgrees
<1>3. v \in Int
  <2> DEFINE o == 1 + n
  <2>1. o \in Int
    BY <1>1
  <2> HIDE DEF o, n
  <2>2. Power(o, m) \in Int
    BY <2>1, PowerIs
  <2> QED
    BY <2>2 DEF o
<1>4. Power(u, 1) = u
  BY <1>2, PowerOne
<1>5. a \in Int /\ b \in Int /\ Same(a, vu, M) /\ Same(b, vw, M)
  BY <1>4 DEF Encryption
<1> HIDE DEF M, v, u, w
<1>6. vu \in Int /\ vw \in Int /\ Same(vu, vw, M)
  <2>1. Same(v, v, M)
    BY <1>1, <1>3, SameIs
  <2> QED
    BY <1>1, <1>2, <1>3, <2>1, SameProduct
<1> HIDE DEF vu, vw
<1>7. Same(a, vw, M)
  BY <1>1, <1>5, <1>6, SameIs
<1>8. Same(vw, b, M)
  BY <1>1, <1>5, <1>6, SameIs
<1>9. Same(a, b, M)
  BY <1>1, <1>5, <1>6, <1>7, <1>8, SameIs
<1> QED
  BY <1>5, <1>9 DEF M

\* The random number that is returned makes the same ciphertext with the public key.
LEMMA RandIs ==
  ASSUME NEW p, NEW q, NEW s, Params(p, q, s), KeysOf(p, q, s),
         ByteBits \in Nat \ {0}, NEW m \in Nat, NEW r_p \in Nat, NEW r_q \in Nat, NEW r,
         r = TwoModulusCrt(Cipher!Reported(keys.p, r_p) % keys.p.p,
                           Cipher!Reported(keys.q, r_q) % keys.q.p, p, q)
  PROVE  /\ r \in Nat /\ IsCoprime(r, p * q)
         /\ Cipher!PublicEncryptWithRand(m, r) = Cipher!PrivateEncrypt(m, r_p, r_q)
<1> DEFINE n == p * q
           a == Cipher!Reported(keys.p, r_p) % keys.p.p
           b == Cipher!Reported(keys.q, r_q) % keys.q.p
           g == keys.p.g_p
           h == keys.q.g_p
           x == Power(g, r_p)
           y == Power(h, r_q)
           public == Cipher!PublicEncryptWithRand(m, r)
           private == Cipher!PrivateEncrypt(m, r_p, r_q)
<1>1. /\ Params(q, p, s) /\ HalfKey(keys.p, p, q, s) /\ HalfKey(keys.q, q, p, s) /\ s \in Nat
      /\ OpenKey(keys.public, p, q, s) /\ s + 1 \in Nat
      /\ p \in Nat \ {0} /\ q \in Nat \ {0} /\ p \in Int /\ q \in Int /\ p \in Nat /\ q \in Nat
      /\ Prime(p) /\ Prime(q) /\ Unit(p, q) /\ Unit(q, p) /\ q * p = n /\ n \in Nat \ {0}
  <2>1. /\ Params(q, p, s) /\ s \in Nat /\ n \in Nat \ {0}
        /\ p \in Nat \ {0} /\ q \in Nat \ {0} /\ p \in Int /\ q \in Int /\ p \in Nat /\ q \in Nat
        /\ Prime(p) /\ Prime(q) /\ Unit(p, q) /\ Unit(q, p) /\ q * p = n
    BY ParamsAre
  <2>2. s + 1 \in Nat
    BY <2>1
  <2> QED
    BY <2>1, <2>2 DEF KeysOf
<1>2. g \in Int /\ h \in Int /\ g \in Nat /\ h \in Nat /\ Unit(g, p) /\ Unit(h, q)
  BY <1>1, PowersHeld
<1>3. a \in Int /\ Same(a, x, p)
  BY <1>1, ReportedIs
<1>4. b \in Int /\ Same(b, y, q)
  BY <1>1, ReportedIs
<1>5. x \in Int /\ y \in Int /\ Unit(x, p) /\ Unit(y, q)
  BY <1>1, <1>2, PowerIs, UnitPower
<1>6. r = TwoModulusCrt(a, b, p, q)
  OBVIOUS
<1> HIDE DEF a, b, x, y, public, private
<1>7. /\ TwoModulusCrt(a, b, p, q) \in 0 .. p * q - 1
      /\ Same(TwoModulusCrt(a, b, p, q), a, p) /\ Same(TwoModulusCrt(a, b, p, q), b, q)
  BY <1>1, <1>3, <1>4, TwoModulusCrtIs
<1>8. r \in 0 .. n - 1 /\ Same(r, a, p) /\ Same(r, b, q)
  BY <1>6, <1>7
<1>9. r \in Nat /\ r \in Int
  <2> HIDE DEF n
  <2> QED
    BY <1>1, <1>8
<1>10. Same(r, x, p) /\ Same(r, y, q)
  BY <1>1, <1>3, <1>4, <1>5, <1>8, <1>9, SameIs
<1>11. Unit(r, p) /\ Unit(r, q)
  <2>1. Same(x, r, p) /\ Same(y, r, q)
    BY <1>1, <1>5, <1>9, <1>10, SameIs
  <2> QED
    BY <1>1, <1>5, <1>9, <2>1, UnitSame
<1>12. IsCoprime(r, n)
  BY <1>1, <1>9, <1>11, CoprimeIs
<1>13. /\ public \in 0 .. Power(n, s + 1) - 1
       /\ Encryption(public, m, r, 1, n, s, Power(n, s + 1))
  BY <1>1, <1>9, PublicEncryptIs DEF public
<1>14. /\ private \in 0 .. Power(n, s + 1) - 1
       /\ Encryption(private, m, g, r_p, n, s, Power(p, s + 1))
       /\ Encryption(private, m, h, r_q, n, s, Power(q, s + 1))
  BY PrivateEncryptIs DEF private
<1>15. /\ Encryption(public, m, r, 1, n, s, Power(p, s + 1))
       /\ Encryption(public, m, r, 1, n, s, Power(q, s + 1))
  <2>1. 1 \in Nat
    OBVIOUS
  <2> QED
    BY <1>9, <1>13, <2>1, EncryptionOfHalf
<1>16. Same(public, private, Power(p, s + 1))
  BY <1>2, <1>9, <1>10, <1>14, <1>15, EncryptionsAgree DEF x
<1>17. Same(public, private, Power(q, s + 1))
  <2>1. /\ Encryption(public, m, r, 1, q * p, s, Power(q, s + 1))
        /\ Encryption(private, m, h, r_q, q * p, s, Power(q, s + 1))
    BY <1>1, <1>14, <1>15
  <2> QED
    BY <1>1, <1>2, <1>9, <1>10, <2>1, EncryptionsAgree DEF y
<1>18. public = private
  BY <1>1, <1>13, <1>14, <1>16, <1>17, EqualByHalves
<1> QED
  BY <1>9, <1>12, <1>18 DEF public, private

-----------------------------------------------------------------------------
(* The steps *)

Registered(p, q, s) ==
  /\ ciphertexts \in [Cipher!Regs -> Int] /\ message \in [Cipher!Regs -> Nat]
  /\ rand \in [Cipher!Regs -> Nat]
  /\ \A r \in Cipher!Regs : Ciphertext(ciphertexts[r], message[r], p, q, s)

\* The invariant: ciphertexts satisfy the equations for their messages, and a random
\* number reproduces the ciphertext it was returned with.
PaillierInv ==
  \E k \in KeyPairs :
    keys = Cipher!Keys(k) /\ Registered(k.p, k.q, k.s) /\ Cipher!RandReproduces

\* A ciphertext that was encrypted.
LEMMA EncryptionStands ==
  ASSUME NEW p, NEW q, NEW s, Params(p, q, s), NEW text, NEW m \in 0 .. Power(p * q, s) - 1,
         NEW g \in Nat, NEW h \in Nat, Unit(g, p), Unit(h, q), NEW e \in Nat, NEW f \in Nat,
         text \in 0 .. Power(p * q, s + 1) - 1,
         Encryption(text, m, g, e, p * q, s, Power(p, s + 1)),
         Encryption(text, m, h, f, p * q, s, Power(q, s + 1))
  PROVE  Ciphertext(text, m, p, q, s)
<1>1. Params(q, p, s) /\ p * q = q * p /\ s \in Nat
  BY ParamsAre
<1>2. m \in Nat
  <2>1. Power(p * q, s) \in Nat \ {0}
    BY <1>1, ModuliAre
  <2> DEFINE z == Power(p * q, s)
  <2> HIDE DEF z
  <2>2. z \in Nat /\ m \in 0 .. z - 1
    BY <2>1 DEF z
  <2> QED
    BY <2>2
<1>3. Equation(text, m, p, q, s)
  BY <1>2, EquationOfHalf
<1>4. Equation(text, m, q, p, s)
  <2>1. Encryption(text, m, h, f, q * p, s, Power(q, s + 1))
    BY <1>1
  <2> QED
    BY <1>1, <1>2, <2>1, EquationOfHalf
<1> QED
  BY <1>3, <1>4 DEF Ciphertext

\* A ciphertext that was computed from others.
LEMMA ComputedStands ==
  ASSUME NEW p, NEW q, NEW s, Params(p, q, s), NEW a \in Int, NEW m \in Nat,
         Equation(a, m, p, q, s), Equation(a, m, q, p, s)
  PROVE  Ciphertext(a % Power(p * q, s + 1), m % Power(p * q, s), p, q, s)
<1> DEFINE n == p * q
           x == Power(p, s + 1)
           y == Power(q, s + 1)
           M == Power(n, s + 1)
           z == Power(n, s)
           text == a % M
           l == m % z
<1>1. /\ Params(q, p, s) /\ q * p = n /\ s \in Nat /\ s + 1 \in Nat
      /\ M = x * y /\ x \in Int /\ y \in Int /\ M \in Nat \ {0} /\ z \in Nat \ {0} /\ y * x = x * y
  <2>1. Params(q, p, s) /\ q * p = n /\ s \in Nat
    BY ParamsAre
  <2>2. s + 1 \in Nat
    BY <2>1
  <2>3. M = x * y /\ x \in Int /\ y \in Int /\ M \in Nat \ {0} /\ z \in Nat \ {0}
    BY <2>1, <2>2, ModuliAre
  <2> HIDE DEF x, y
  <2>4. y * x = x * y
    BY <2>3
  <2> QED
    BY <2>1, <2>2, <2>3, <2>4
<1>2. l \in Nat /\ Equation(a, l, p, q, s)
  BY EquationReduced
<1>3. Equation(a, l, q, p, s)
  <2>1. Equation(a, m % Power(q * p, s), q, p, s)
    BY <1>1, EquationReduced
  <2> QED
    BY <1>1, <2>1
<1> HIDE DEF M, x, y, z
<1>4. text \in 0 .. M - 1 /\ text \in Int /\ Same(text, a, M) /\ l \in 0 .. z - 1
  <2>1. m \in Int
    OBVIOUS
  <2> QED
    BY <1>1, <2>1, SameMod
<1> HIDE DEF text, l
<1>5. Same(text, a, x) /\ Same(text, a, y)
  <2>1. Same(text, a, x * y) /\ Same(text, a, y * x)
    BY <1>1, <1>4
  <2> QED
    BY <1>1, <1>4, <2>1, SameDivisor
<1>6. Equation(text, l, p, q, s)
  BY <1>2, <1>4, <1>5, EquationOfSame DEF x
<1>7. Equation(text, l, q, p, s)
  BY <1>1, <1>2, <1>3, <1>4, <1>5, EquationOfSame DEF y
<1> QED
  BY <1>4, <1>6, <1>7 DEF Ciphertext, text, l, M, z

\* Storing a ciphertext keeps the invariant.
LEMMA StoresKeeps ==
  ASSUME NEW k \in KeyPairs, keys = Cipher!Keys(k), Registered(k.p, k.q, k.s),
         Cipher!RandReproduces, NEW r \in Cipher!Regs, NEW text \in Int, NEW m \in Nat,
         NEW random \in Nat, Cipher!Stores(r, text, m, random),
         Ciphertext(text, m, k.p, k.q, k.s),
         random # 0 => /\ IsCoprime(random, Cipher!n_)
                       /\ Cipher!PublicEncryptWithRand(m, random) = text
  PROVE  PaillierInv'
<1>1. /\ keys' = keys
      /\ ciphertexts' = [ciphertexts EXCEPT ![r] = text] /\ message' = [message EXCEPT ![r] = m]
      /\ rand' = [rand EXCEPT ![r] = random]
  BY DEF Cipher!Stores
<1>2. /\ ciphertexts \in [Cipher!Regs -> Int] /\ message \in [Cipher!Regs -> Nat]
      /\ rand \in [Cipher!Regs -> Nat]
      /\ \A i \in Cipher!Regs : Ciphertext(ciphertexts[i], message[i], k.p, k.q, k.s)
  BY DEF Registered
<1>3. /\ ciphertexts' \in [Cipher!Regs -> Int] /\ message' \in [Cipher!Regs -> Nat]
      /\ rand' \in [Cipher!Regs -> Nat]
      /\ \A i \in Cipher!Regs :
           IF i = r THEN ciphertexts'[i] = text /\ message'[i] = m /\ rand'[i] = random
           ELSE /\ ciphertexts'[i] = ciphertexts[i] /\ message'[i] = message[i]
                /\ rand'[i] = rand[i]
  BY <1>1, <1>2
<1>4. Registered(k.p, k.q, k.s)'
  <2>1. \A i \in Cipher!Regs : Ciphertext(ciphertexts'[i], message'[i], k.p, k.q, k.s)
    BY <1>2, <1>3
  <2> QED
    BY <1>3, <2>1 DEF Registered, Cipher!Regs
<1>5. Cipher!RandReproduces'
  <2>1. \A i \in Cipher!Regs : rand'[i] # 0 =>
          /\ IsCoprime(rand'[i], keys.public.n)
          /\ Cipher!PublicEncryptWithRand(message'[i], rand'[i]) = ciphertexts'[i]
    <3>1. \A i \in Cipher!Regs : rand[i] # 0 =>
            /\ IsCoprime(rand[i], keys.public.n)
            /\ Cipher!PublicEncryptWithRand(message[i], rand[i]) = ciphertexts[i]
      BY CipherNumbers DEF Cipher!RandReproduces, Cipher!n_
    <3>2. random # 0 => /\ IsCoprime(random, keys.public.n)
                        /\ Cipher!PublicEncryptWithRand(m, random) = text
      BY DEF Cipher!n_
    <3> TAKE i \in Cipher!Regs
    <3>3. CASE i = r
      BY <1>3, <3>2, <3>3
    <3>4. CASE i # r
      BY <1>3, <3>1, <3>4
    <3> QED
      BY <3>3, <3>4
  <2> QED
    BY <1>1, <2>1, CipherNumbers
       DEF Cipher!RandReproduces, Cipher!n_, Cipher!PublicEncryptWithRand, Cipher!Regs
<1>6. keys' = Cipher!Keys(k)
  BY <1>1
<1> QED
  BY <1>4, <1>5, <1>6 DEF PaillierInv

\* The invariant holds initially, with 1 as the ciphertext of 0.
LEMMA PaillierStarts ==
  ASSUME Cipher!PaillierAssumption, Cipher!Init
  PROVE  PaillierInv
<1>1. PICK k \in KeyPairs : keys = Cipher!Keys(k)
  BY DEF Cipher!Init
<1> DEFINE p == k.p
           q == k.q
           s == k.s
           M == Power(p * q, s + 1)
           z == Power(p * q, s)
<1>2. Params(p, q, s)
  BY <1>1, KeysAre
<1> HIDE DEF p, q, s
<1>3. /\ ciphertexts = [r \in Cipher!Regs |-> 1] /\ message = [r \in Cipher!Regs |-> 0]
      /\ rand = [r \in Cipher!Regs |-> 0]
  BY DEF Cipher!Init
<1>4. Ciphertext(1, 0, p, q, s)
  <2>1. Params(q, p, s) /\ s \in Nat /\ s + 1 \in Nat /\ p \in Nat /\ q \in Nat /\ p > 1 /\ q > 1
        /\ p * q = q * p
    <3>1. Params(q, p, s) /\ s \in Nat /\ p \in Nat /\ p > 1 /\ p * q = q * p
      BY <1>2, ParamsAre
    <3>2. q \in Nat /\ q > 1
      BY <3>1, ParamsAre
    <3>3. s + 1 \in Nat
      BY <3>1
    <3> QED
      BY <3>1, <3>2, <3>3
  <2> DEFINE n == p * q
  <2>2. n \in Nat /\ n > 1 /\ 1 + n \in Int /\ n = q * p
    <3>1. n \in Nat /\ n = q * p
      BY <2>1
    <3>2. n > 1
      BY <2>1
    <3> HIDE DEF n
    <3> QED
      BY <3>1, <3>2
  <2>3. M \in Nat \ {0} /\ z \in Nat \ {0}
    BY <1>2, <2>1, ModuliAre
  <2>4. M = n * z
    <3> HIDE DEF n
    <3>1. n \in Int
      BY <2>2
    <3>2. Power(n, s + 1) = n * Power(n, s)
      BY <2>1, <3>1, PowerIs
    <3> QED
      BY <3>2 DEF n
  <2>5. 1 \in 0 .. M - 1 /\ 0 \in 0 .. z - 1
    <3> HIDE DEF M, z, n
    <3>1. n * z > 1
      <4>1. n * z >= n
        BY <2>2, <2>3
      <4>2. n * z \in Int
        BY <2>2, <2>3
      <4> QED
        BY <2>2, <4>1, <4>2
    <3> QED
      BY <2>3, <2>4, <3>1
  <2>6. Equation(1, 0, p, q, s) /\ Equation(1, 0, q, p, s)
    <3>1. 0 \in Nat
      OBVIOUS
    <3>2. Equation(Power(1 + p * q, 0), 0, p, q, s)
      BY <1>2, <3>1, EquationOfMessage
    <3>3. Equation(Power(1 + q * p, 0), 0, q, p, s)
      BY <2>1, <3>1, EquationOfMessage
    <3>4. Power(1 + n, 0) = 1
      <4> DEFINE o == 1 + n
      <4>1. o \in Int
        BY <2>2
      <4> HIDE DEF o
      <4>2. Power(o, 0) = 1
        BY <4>1, PowerIs
      <4> QED
        BY <4>2 DEF o
    <3> QED
      BY <2>2, <3>2, <3>3, <3>4
  <2> QED
    BY <2>5, <2>6 DEF Ciphertext
<1>5. Registered(p, q, s)
  BY <1>3, <1>4 DEF Registered
<1>6. Cipher!RandReproduces
  BY <1>3 DEF Cipher!RandReproduces
<1> QED
  BY <1>1, <1>5, <1>6 DEF PaillierInv, p, q, s

\* The state that a step is from.
Held(k) ==
  /\ k \in KeyPairs /\ keys = Cipher!Keys(k) /\ Params(k.p, k.q, k.s) /\ KeysOf(k.p, k.q, k.s)
  /\ Registered(k.p, k.q, k.s) /\ Cipher!RandReproduces /\ ByteBits \in Nat \ {0}

\* The numbers of the state that a step is from.
LEMMA NumbersHeld ==
  ASSUME NEW k, Held(k)
  PROVE  /\ keys.public.modulus = Power(k.p * k.q, k.s + 1)
         /\ Cipher!Space = Power(k.p * k.q, k.s) /\ Cipher!n_ = k.p * k.q
         /\ keys.p.p = k.p /\ keys.q.p = k.q
         /\ Power(k.p * k.q, k.s) \in Nat \ {0} /\ Power(k.p * k.q, k.s + 1) \in Nat \ {0}
         /\ \A m \in 0 .. Power(k.p * k.q, k.s) - 1 : m \in Nat
         /\ \A text \in 0 .. Power(k.p * k.q, k.s + 1) - 1 : text \in Int
<1>1. /\ Params(k.p, k.q, k.s) /\ OpenKey(keys.public, k.p, k.q, k.s)
      /\ HalfKey(keys.p, k.p, k.q, k.s) /\ HalfKey(keys.q, k.q, k.p, k.s)
  BY DEF Held, KeysOf
<1>2. k.s \in Nat /\ k.s + 1 \in Nat
  <2>1. k.s \in Nat
    BY <1>1, ParamsAre
  <2> QED
    BY <2>1
<1>3. /\ keys.public.modulus = Power(k.p * k.q, k.s + 1) /\ keys.public.s = k.s
      /\ keys.public.powers[k.s] = Power(k.p * k.q, k.s) /\ keys.public.n = k.p * k.q
      /\ keys.p.p = k.p /\ keys.q.p = k.q
  BY <1>1 DEF OpenKey, HalfKey
<1>4. Power(k.p * k.q, k.s) \in Nat \ {0} /\ Power(k.p * k.q, k.s + 1) \in Nat \ {0}
  BY <1>1, <1>2, ModuliAre
<1>5. /\ \A m \in 0 .. Power(k.p * k.q, k.s) - 1 : m \in Nat
      /\ \A text \in 0 .. Power(k.p * k.q, k.s + 1) - 1 : text \in Int
  <2> DEFINE z == Power(k.p * k.q, k.s)
             M == Power(k.p * k.q, k.s + 1)
  <2>1. z \in Nat /\ M \in Nat
    BY <1>4
  <2> HIDE DEF z, M
  <2>2. (\A m \in 0 .. z - 1 : m \in Nat) /\ (\A text \in 0 .. M - 1 : text \in Int)
    BY <2>1
  <2> QED
    BY <2>2 DEF z, M
<1> QED
  BY <1>3, <1>4, <1>5 DEF Cipher!Space, Cipher!n_

\* Storing a ciphertext keeps the invariant of that state.
LEMMA HeldKeeps ==
  ASSUME NEW k, Held(k), NEW r \in Cipher!Regs, NEW text, NEW m, NEW random \in Nat,
         Cipher!Stores(r, text, m, random), Ciphertext(text, m, k.p, k.q, k.s),
         random # 0 => /\ IsCoprime(random, Cipher!n_)
                       /\ Cipher!PublicEncryptWithRand(m, random) = text
  PROVE  PaillierInv'
<1>1. text \in Int /\ m \in Nat
  BY NumbersHeld DEF Ciphertext
<1>2. k \in KeyPairs /\ keys = Cipher!Keys(k) /\ Registered(k.p, k.q, k.s) /\ Cipher!RandReproduces
  BY DEF Held
<1> QED
  BY <1>1, <1>2, StoresKeeps

\* Each of the operations keeps it.
LEMMA EncryptPublicKeeps ==
  ASSUME NEW k, Held(k), NEW r \in Cipher!Regs, NEW m \in 0 .. Power(k.p * k.q, k.s) - 1,
         NEW x \in Nat, Cipher!EncryptPublic(r, m, x)
  PROVE  PaillierInv'
<1> DEFINE p == k.p
           q == k.q
           s == k.s
           text == Cipher!PublicEncrypt(m, x)
<1>1. Params(p, q, s) /\ OpenKey(keys.public, p, q, s) /\ ByteBits \in Nat \ {0} /\ m \in Nat
  BY NumbersHeld DEF Held, KeysOf
<1> HIDE DEF p, q, s, text
<1>2. PICK base \in Nat : /\ Unit(base, p) /\ Unit(base, q)
                          /\ Encryption(text, m, base, x, p * q, s, Power(p * q, s + 1))
  BY <1>1, PublicEncryptIs DEF text
<1>3. text \in 0 .. Power(p * q, s + 1) - 1
  BY <1>1, PublicEncryptIs DEF text
<1>4. Ciphertext(text, m, p, q, s)
  <2>1. m \in 0 .. Power(p * q, s) - 1
    BY DEF p, q, s
  <2>2. /\ Encryption(text, m, base, x, p * q, s, Power(p, s + 1))
        /\ Encryption(text, m, base, x, p * q, s, Power(q, s + 1))
    BY <1>1, <1>2, EncryptionOfHalf
  <2> QED
    BY <1>1, <1>2, <1>3, <2>1, <2>2, EncryptionStands
<1>5. Cipher!Stores(r, text, m, 0) /\ 0 \in Nat
  BY DEF Cipher!EncryptPublic, text
<1> QED
  BY <1>4, <1>5, HeldKeeps DEF p, q, s

\* The number drawn is the one that is returned.
LEMMA EncryptPublicAndGetRandKeeps ==
  ASSUME NEW k, Held(k), NEW r \in Cipher!Regs, NEW m \in 0 .. Power(k.p * k.q, k.s) - 1,
         NEW x \in Nat, Cipher!EncryptPublicAndGetRand(r, m, x)
  PROVE  PaillierInv'
<1> DEFINE p == k.p
           q == k.q
           s == k.s
           text == Cipher!PublicEncryptWithRand(m, x)
<1>1. /\ Params(p, q, s) /\ OpenKey(keys.public, p, q, s) /\ ByteBits \in Nat \ {0} /\ m \in Nat
      /\ Cipher!n_ = p * q
  BY NumbersHeld DEF Held, KeysOf
<1>2. IsCoprime(x, p * q) /\ Cipher!Stores(r, text, m, x)
  BY <1>1, CipherNumbers DEF Cipher!EncryptPublicAndGetRand
<1> HIDE DEF p, q, s, text
<1>3. Unit(x, p) /\ Unit(x, q)
  <2>1. p \in Nat /\ q \in Nat /\ Prime(p) /\ Prime(q) /\ x \in Int
    BY <1>1, ParamsAre
  <2> QED
    BY <1>2, <2>1, CoprimeIs
<1>4. /\ Encryption(text, m, x, 1, p * q, s, Power(p * q, s + 1))
      /\ text \in 0 .. Power(p * q, s + 1) - 1
  BY <1>1, PublicEncryptIs DEF text
<1>5. Ciphertext(text, m, p, q, s)
  <2>1. m \in 0 .. Power(p * q, s) - 1 /\ 1 \in Nat
    BY DEF p, q, s
  <2>2. /\ Encryption(text, m, x, 1, p * q, s, Power(p, s + 1))
        /\ Encryption(text, m, x, 1, p * q, s, Power(q, s + 1))
    BY <1>1, <1>4, <2>1, EncryptionOfHalf
  <2> QED
    BY <1>1, <1>3, <1>4, <2>1, <2>2, EncryptionStands
<1>6. IsCoprime(x, Cipher!n_) /\ Cipher!PublicEncryptWithRand(m, x) = text
  BY <1>1, <1>2 DEF text
<1> QED
  BY <1>2, <1>5, <1>6, HeldKeeps DEF p, q, s

\* The number returned is composed of those of the halves.
LEMMA EncryptPrivateKeeps ==
  ASSUME NEW k, Held(k), NEW r \in Cipher!Regs, NEW m \in 0 .. Power(k.p * k.q, k.s) - 1,
         NEW r_p \in Nat, NEW r_q \in Nat, Cipher!EncryptPrivate(r, m, r_p, r_q)
  PROVE  PaillierInv'
<1> DEFINE p == k.p
           q == k.q
           s == k.s
           text == Cipher!PrivateEncrypt(m, r_p, r_q)
           random == TwoModulusCrt(Cipher!Reported(keys.p, r_p) % keys.p.p,
                                   Cipher!Reported(keys.q, r_q) % keys.q.p, p, q)
<1>1. /\ Params(p, q, s) /\ KeysOf(p, q, s) /\ ByteBits \in Nat \ {0} /\ m \in Nat
      /\ Cipher!n_ = p * q /\ keys.p.p = p /\ keys.q.p = q
      /\ HalfKey(keys.p, p, q, s) /\ HalfKey(keys.q, q, p, s)
  BY NumbersHeld DEF Held, KeysOf
<1>2. Cipher!Stores(r, text, m, random)
  BY <1>1, CipherNumbers DEF Cipher!EncryptPrivate
<1> HIDE DEF p, q, s, text
<1>3. /\ random \in Nat /\ IsCoprime(random, p * q)
      /\ Cipher!PublicEncryptWithRand(m, random) = text
  BY <1>1, RandIs DEF text
<1> HIDE DEF random
<1>4. /\ text \in 0 .. Power(p * q, s + 1) - 1
      /\ Encryption(text, m, keys.p.g_p, r_p, p * q, s, Power(p, s + 1))
      /\ Encryption(text, m, keys.q.g_p, r_q, p * q, s, Power(q, s + 1))
  BY <1>1, PrivateEncryptIs DEF text
<1>5. Ciphertext(text, m, p, q, s)
  <2>1. m \in 0 .. Power(p * q, s) - 1
    BY DEF p, q, s
  <2>2. keys.p.g_p \in Nat /\ Unit(keys.p.g_p, p)
    BY <1>1, PowersHeld
  <2>3. keys.q.g_p \in Nat /\ Unit(keys.q.g_p, q)
    <3>1. Params(q, p, s)
      BY <1>1, ParamsAre
    <3> QED
      BY <1>1, <3>1, PowersHeld
  <2> QED
    BY <1>1, <1>4, <2>1, <2>2, <2>3, EncryptionStands
<1> QED
  BY <1>1, <1>2, <1>3, <1>5, HeldKeeps DEF p, q, s

\* A product of ciphertexts stands for the sum.
LEMMA AddKeeps ==
  ASSUME NEW k, Held(k), NEW r \in Cipher!Regs, NEW r2 \in Cipher!Regs, Cipher!Add(r, r2)
  PROVE  PaillierInv'
<1> DEFINE p == k.p
           q == k.q
           s == k.s
           a == ciphertexts[r]
           b == ciphertexts[r2]
           m == message[r]
           l == message[r2]
           ab == a * b
           ml == m + l
<1>1. Params(p, q, s) /\ Params(q, p, s) /\ Registered(p, q, s)
  BY ParamsAre DEF Held
<1>2. keys.public.modulus = Power(p * q, s + 1) /\ Cipher!Space = Power(p * q, s)
  BY NumbersHeld
<1>3. Cipher!Stores(r, ab % Power(p * q, s + 1), ml % Power(p * q, s), 0)
  BY <1>2 DEF Cipher!Add
<1> HIDE DEF p, q, s
<1>4. a \in Int /\ b \in Int /\ m \in Nat /\ l \in Nat
  BY <1>1 DEF Registered
<1>5. /\ Equation(a, m, p, q, s) /\ Equation(a, m, q, p, s)
      /\ Equation(b, l, p, q, s) /\ Equation(b, l, q, p, s)
  BY <1>1 DEF Registered, Ciphertext
<1> HIDE DEF a, b, m, l
<1>6. ab \in Int /\ ml \in Nat
  BY <1>4
<1>7. Equation(ab, ml, p, q, s) /\ Equation(ab, ml, q, p, s)
  BY <1>1, <1>4, <1>5, EquationOfProduct
<1> HIDE DEF ab, ml
<1>8. Ciphertext(ab % Power(p * q, s + 1), ml % Power(p * q, s), p, q, s)
  BY <1>1, <1>6, <1>7, ComputedStands
<1> QED
  BY <1>3, <1>8, HeldKeeps DEF p, q, s

\* A power of a ciphertext stands for a multiple.
LEMMA MultiplyKeeps ==
  ASSUME NEW k, Held(k), NEW r \in Cipher!Regs, NEW e \in Nat, Cipher!Multiply(r, e)
  PROVE  PaillierInv'
<1> DEFINE p == k.p
           q == k.q
           s == k.s
           a == ciphertexts[r]
           m == message[r]
           ae == Power(a, e)
           me == m * e
           M == Power(p * q, s + 1)
<1>1. Params(p, q, s) /\ Params(q, p, s) /\ Registered(p, q, s)
  BY ParamsAre DEF Held
<1>2. keys.public.modulus = M /\ Cipher!Space = Power(p * q, s) /\ M \in Nat \ {0}
  BY NumbersHeld
<1> HIDE DEF p, q, s
<1>3. a \in Int /\ m \in Nat
  BY <1>1 DEF Registered
<1>4. Equation(a, m, p, q, s) /\ Equation(a, m, q, p, s)
  BY <1>1 DEF Registered, Ciphertext
<1>5. Cipher!Stores(r, ae % M, me % Power(p * q, s), 0)
  <2>1. ModExp(a, e, M) = ae % M
    <3> HIDE DEF a, M
    <3> QED
      BY <1>2, <1>3, ModExpPower
  <2> QED
    BY <1>2, <2>1, CipherNumbers DEF Cipher!Multiply
<1> HIDE DEF a, m
<1>6. ae \in Int /\ me \in Nat
  BY <1>3, PowerIs
<1>7. Equation(ae, me, p, q, s) /\ Equation(ae, me, q, p, s)
  BY <1>1, <1>3, <1>4, EquationOfPower
<1> HIDE DEF ae, me
<1>8. Ciphertext(ae % Power(p * q, s + 1), me % Power(p * q, s), p, q, s)
  BY <1>1, <1>6, <1>7, ComputedStands
<1> QED
  BY <1>5, <1>8, HeldKeeps DEF p, q, s, M

\* Every step keeps the invariant.
LEMMA PaillierContinues ==
  ASSUME Cipher!PaillierAssumption, PaillierInv, [Cipher!Next]_(Cipher!vars)
  PROVE  PaillierInv'
<1>1. PICK k \in KeyPairs :
        keys = Cipher!Keys(k) /\ Registered(k.p, k.q, k.s) /\ Cipher!RandReproduces
  BY DEF PaillierInv
<1>2. ByteBits \in Nat \ {0} /\ Multipliers \subseteq Nat
  BY DEF Cipher!PaillierAssumption
<1>3. Held(k)
  <2>1. Params(k.p, k.q, k.s) /\ KeysOf(k.p, k.q, k.s)
    BY <1>1, KeysAre
  <2> QED
    BY <1>1, <1>2, <2>1 DEF Held
<1>4. /\ Cipher!Space = Power(k.p * k.q, k.s) /\ Cipher!n_ = k.p * k.q
      /\ keys.p.p = k.p /\ keys.q.p = k.q
  BY <1>3, NumbersHeld
<1>5. /\ RandomsBelow(Cipher!n_) \subseteq Nat /\ RandomsBelow(keys.p.p) \subseteq Nat
      /\ RandomsBelow(keys.q.p) \subseteq Nat
      /\ MessagesBelow(Cipher!Space) \subseteq 0 .. Power(k.p * k.q, k.s) - 1
  BY <1>4, CipherNumbers DEF Cipher!PaillierAssumption
<1>6. ASSUME NEW r \in Cipher!Regs, NEW m \in MessagesBelow(Cipher!Space),
             NEW x \in RandomsBelow(Cipher!n_),
             Cipher!EncryptPublic(r, m, x) \/ Cipher!EncryptPublicAndGetRand(r, m, x)
      PROVE  PaillierInv'
  <2>1. m \in 0 .. Power(k.p * k.q, k.s) - 1 /\ x \in Nat
    BY <1>5
  <2> QED
    BY <1>3, <1>6, <2>1, EncryptPublicKeeps, EncryptPublicAndGetRandKeeps
<1>7. ASSUME NEW r \in Cipher!Regs, NEW m \in MessagesBelow(Cipher!Space),
             NEW r_p \in RandomsBelow(keys.p.p) \ {0}, NEW r_q \in RandomsBelow(keys.q.p) \ {0},
             Cipher!EncryptPrivate(r, m, r_p, r_q)
      PROVE  PaillierInv'
  <2>1. m \in 0 .. Power(k.p * k.q, k.s) - 1 /\ r_p \in Nat /\ r_q \in Nat
    BY <1>5
  <2> QED
    BY <1>3, <1>7, <2>1, EncryptPrivateKeeps
<1>8. ASSUME NEW r \in Cipher!Regs, NEW r2 \in Cipher!Regs, Cipher!Add(r, r2)
      PROVE  PaillierInv'
  BY <1>3, <1>8, AddKeeps
<1>9. ASSUME NEW r \in Cipher!Regs, NEW m \in Multipliers,
             Cipher!Multiply(r, m) \/ Cipher!Multiply(r, Cipher!Power(2, m))
      PROVE  PaillierInv'
  <2>1. m \in Nat /\ Power(2, m) \in Nat
    <3>1. m \in Nat /\ 2 \in Nat \ {0}
      BY <1>2
    <3>2. Power(2, m) \in Nat \ {0}
      BY <3>1, PowerPositive
    <3> QED
      BY <3>1, <3>2
  <2>2. Cipher!Multiply(r, m) \/ Cipher!Multiply(r, Power(2, m))
    BY <1>9, CipherNumbers
  <2> QED
    BY <1>3, <2>1, <2>2, MultiplyKeeps
<1>10. ASSUME UNCHANGED Cipher!vars
       PROVE  PaillierInv'
  BY <1>1, <1>10
     DEF PaillierInv, Registered, Cipher!vars, Cipher!RandReproduces, Cipher!Regs, Cipher!n_,
         Cipher!PublicEncryptWithRand
<1>11. CASE Cipher!Next
  BY <1>6, <1>7, <1>8, <1>9, <1>11 DEF Cipher!Next
<1> QED
  BY <1>10, <1>11

\* For all safe primes p and q above s and every sequence of operations of
\* crypto/paillier.cc: every ciphertext satisfies the equation of its message for
\* both primes, and a random number that was returned makes its ciphertext again.
THEOREM PaillierInvariant ==
  ASSUME Cipher!PaillierAssumption
  PROVE  Cipher!Spec => []PaillierInv
<1>1. Cipher!Init => PaillierInv
  BY PaillierStarts
<1>2. PaillierInv /\ [Cipher!Next]_(Cipher!vars) => PaillierInv'
  BY PaillierContinues
<1> QED
  BY <1>1, <1>2, PTL DEF Cipher!Spec

\* For all safe primes p and q above s: of whatever the ways to encrypt, Add, Multiply
\* and LeftShift (crypto/paillier.cc) make, PrivatePaillier::Decrypt finds exactly the
\* sum or multiple of the messages, with and without two_k_ary_exp, and PublicPaillier
\* makes a ciphertext again from the random number that was returned with it.
THEOREM PaillierAlwaysExact ==
  ASSUME Cipher!PaillierAssumption
  PROVE  Cipher!Spec => [](Cipher!DecryptsExactly /\ Cipher!RandReproduces)
<1>1. ASSUME PaillierInv
      PROVE  Cipher!DecryptsExactly /\ Cipher!RandReproduces
  <2>1. PICK k \in KeyPairs :
          keys = Cipher!Keys(k) /\ Registered(k.p, k.q, k.s) /\ Cipher!RandReproduces
    BY <1>1 DEF PaillierInv
  <2>2. Params(k.p, k.q, k.s) /\ KeysOf(k.p, k.q, k.s)
    BY <2>1, KeysAre
  <2>3. keys.public.modulus = Power(k.p * k.q, k.s + 1) /\ Cipher!n_ = k.p * k.q
    <3>1. Held(k)
      BY <2>1, <2>2 DEF Held, Cipher!PaillierAssumption
    <3> QED
      BY <3>1, NumbersHeld
  <2>4. ASSUME NEW r \in Cipher!Regs
        PROVE  /\ ciphertexts[r] \in 1 .. Power(k.p * k.q, k.s + 1) - 1
               /\ IsCoprime(ciphertexts[r], k.p * k.q)
               /\ Cipher!Decrypt(ciphertexts[r]) = message[r]
    <3>1. Ciphertext(ciphertexts[r], message[r], k.p, k.q, k.s)
      BY <2>1 DEF Registered
    <3> QED
      BY <2>2, <3>1, DecryptIs
  <2>5. Cipher!DecryptsExactly
    BY <2>3, <2>4, CipherNumbers DEF Cipher!DecryptsExactly
  <2> QED
    BY <2>1, <2>5
<1> QED
  BY <1>1, PaillierInvariant, PTL
=============================================================================
