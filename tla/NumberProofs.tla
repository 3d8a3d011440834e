---------------------------- MODULE NumberProofs ----------------------------
(***************************************************************************)
(* What the ciphers need of numbers, from nothing but the numbers of TLA+: *)
(* induction over sets of numbers and recursive functions, residues, powers, *)
(* inverses modulo primes and other numbers, the binomial expansion,       *)
(* Fermat's theorem, generators of safe primes; and that the operators of  *)
(* BigNumbers compute what they are for.                                   *)
(***************************************************************************)
EXTENDS BigNumbers, WellFoundedInduction, TLAPS

-----------------------------------------------------------------------------
(* Induction and recursion *)

\* A set of numbers that has a least one, if any, ...
LEMMA LeastNumber ==
  ASSUME NEW T, T \subseteq Nat, T # {}
  PROVE  \E x \in T : \A y \in T : x <= y
<1>1. \E x \in T : \A y \in T : ~ (<<y, x>> \in OpToRel(<, Nat))
  BY WFMin, NatLessThanWellFounded
<1>2. \A x, y \in T : <<y, x>> \in OpToRel(<, Nat) <=> y < x
  BY DEF OpToRel
<1>3. \E x \in T : \A y \in T : ~ (y < x)
  BY <1>1, <1>2, Zenon
<1> QED
  BY <1>3

\* ... and induction: a set with 0 and the successors of its members has them all.
LEMMA Induction ==
  ASSUME NEW S, 0 \in S, \A n \in Nat : n \in S => n + 1 \in S
  PROVE  Nat \subseteq S
<1> DEFINE T == Nat \ S
<1> SUFFICES ASSUME T # {} PROVE FALSE
  OBVIOUS
<1>1. PICK x \in T : \A y \in T : x <= y
  BY LeastNumber
<1>2. x - 1 \in Nat /\ x = (x - 1) + 1
  OBVIOUS
<1>3. x - 1 \in S
  BY <1>1, <1>2
<1> QED
  BY <1>2, <1>3

\* What a recursive definition needs to be one.
Recursive(f, first, next) ==
  f[0] = first /\ \A n \in Nat \ {0} : f[n] = next[n][f[n - 1]]

LEMMA Recursion ==
  ASSUME NEW S, NEW first \in S, NEW next \in [Nat -> [S -> S]]
  PROVE  \E f \in [Nat -> S] : Recursive(f, first, next)
<1> DEFINE Is(f, n) == /\ f \in [0 .. n -> S] /\ f[0] = first
                       /\ \A i \in 1 .. n : f[i] = next[i][f[i - 1]]
           E == {n \in Nat : \E f : Is(f, n)}
<1>1. 0 \in E
  <2>1. Is([i \in 0 .. 0 |-> first], 0)
    OBVIOUS
  <2> QED
    BY <2>1
<1>2. ASSUME NEW n \in Nat, n \in E
      PROVE  n + 1 \in E
  <2>1. PICK f : Is(f, n)
    BY <1>2
  <2> DEFINE g == [i \in 0 .. n + 1 |-> IF i = n + 1 THEN next[n + 1][f[n]] ELSE f[i]]
  <2>2. f[n] \in S /\ \A i \in 0 .. n : f[i] \in S
    BY <2>1
  <2>3. g \in [0 .. n + 1 -> S]
    BY <2>2
  <2>4. g[0] = first /\ g[n + 1] = next[n + 1][g[n]]
    BY <2>1
  <2>5. \A i \in 1 .. n : g[i] = next[i][g[i - 1]]
    BY <2>1
  <2> HIDE DEF g
  <2>6. Is(g, n + 1)
    <3>1. (n + 1) - 1 = n /\ \A i \in 1 .. n + 1 : i \in 1 .. n \/ i = n + 1
      OBVIOUS
    <3>2. \A i \in 1 .. n + 1 : g[i] = next[i][g[i - 1]]
      BY <2>4, <2>5, <3>1
    <3> QED
      BY <2>3, <2>4, <3>2
  <2>7. \E h : Is(h, n + 1)
    BY <2>6
  <2> QED
    BY <2>7
<1>3. Nat \subseteq E
  <2> HIDE DEF E
  <2> QED
    BY <1>1, <1>2, Induction
<1> DEFINE F(n) == CHOOSE f : Is(f, n)
<1>4. ASSUME NEW n \in Nat
      PROVE  Is(F(n), n)
  <2>1. \E f : Is(f, n)
    BY <1>3
  <2> QED
    BY <2>1
<1> HIDE DEF F
<1>5. ASSUME NEW n \in Nat
      PROVE  F(n + 1)[n] = F(n)[n]
  <2> DEFINE Alike == {i \in Nat : i <= n => F(n + 1)[i] = F(n)[i]}
  <2>1. Is(F(n), n) /\ Is(F(n + 1), n + 1)
    BY <1>4
  <2>2. 0 \in Alike
    BY <2>1
  <2>3. ASSUME NEW i \in Nat, i \in Alike
        PROVE  i + 1 \in Alike
    <3> SUFFICES ASSUME i + 1 <= n PROVE F(n + 1)[i + 1] = F(n)[i + 1]
      OBVIOUS
    <3>1. i + 1 \in 1 .. n /\ i + 1 \in 1 .. n + 1 /\ (i + 1) - 1 = i
      OBVIOUS
    <3>2. F(n + 1)[i + 1] = next[i + 1][F(n + 1)[i]] /\ F(n)[i + 1] = next[i + 1][F(n)[i]]
      BY <2>1, <3>1
    <3> QED
      BY <2>3, <3>2
  <2>4. Nat \subseteq Alike
    <3> HIDE DEF Alike
    <3> QED
      BY <2>2, <2>3, Induction
  <2> QED
    BY <2>4
<1> DEFINE f == [n \in Nat |-> F(n)[n]]
<1>6. f \in [Nat -> S]
  BY <1>4
<1>7. f[0] = first
  BY <1>4
<1>8. ASSUME NEW n \in Nat \ {0}
      PROVE  f[n] = next[n][f[n - 1]]
  <2>1. n - 1 \in Nat /\ n \in 1 .. n /\ (n - 1) + 1 = n
    OBVIOUS
  <2>2. F(n)[n] = next[n][F(n)[n - 1]]
    BY <1>4, <2>1
  <2>3. F(n)[n - 1] = F(n - 1)[n - 1]
    BY <1>5, <2>1
  <2> QED
    BY <2>1, <2>2, <2>3
<1> HIDE DEF f
<1> QED
  BY <1>6, <1>7, <1>8 DEF Recursive

-----------------------------------------------------------------------------
(* Residues *)

LEMMA DivisionOf ==
  ASSUME NEW a \in Int, NEW m \in Nat \ {0}
  PROVE  a = m * (a \div m) + (a % m) /\ a % m \in 0 .. m - 1 /\ a \div m \in Int
OBVIOUS

LEMMA DivisionIs ==
  ASSUME NEW m \in Nat \ {0}, NEW q \in Int, NEW r \in 0 .. m - 1
  PROVE  (m * q + r) % m = r /\ (m * q + r) \div m = q
OBVIOUS

LEMMA SmallResidue ==
  /\ \A m \in Nat \ {0}, x \in Nat : x < m => x % m = x
  /\ \A y \in Int : y % 2 \in {0, 1}
OBVIOUS

Same(a, b, m) == \E k \in Int : a = b + k * m

\* The same residue.
LEMMA SameResidue ==
  ASSUME NEW a \in Int, NEW b \in Int, NEW m \in Nat \ {0}
  PROVE  Same(a, b, m) <=> a % m = b % m
<1> DEFINE p == a \div m
           q == b \div m
           r == a % m
           s == b % m
<1>1. /\ a = m * p + r /\ r \in 0 .. m - 1 /\ p \in Int
      /\ b = m * q + s /\ s \in 0 .. m - 1 /\ q \in Int
  BY DivisionOf
<1> HIDE DEF p, q, r, s
<1>2. ASSUME r = s
      PROVE  Same(a, b, m)
  <2>1. a = b + (p - q) * m /\ p - q \in Int
    BY <1>1, <1>2
  <2> QED
    BY <2>1 DEF Same
<1>3. ASSUME Same(a, b, m)
      PROVE  r = s
  <2>1. PICK k \in Int : a = b + k * m
    BY <1>3 DEF Same
  <2>2. a = m * (q + k) + s /\ q + k \in Int
    BY <1>1, <2>1
  <2>3. (m * (q + k) + s) % m = s
    BY <1>1, <2>2, DivisionIs
  <2> QED
    BY <2>2, <2>3 DEF r
<1> QED
  BY <1>2, <1>3 DEF r, s

\* Products and sums of residues.
LEMMA ResidueOfProduct ==
  ASSUME NEW a \in Int, NEW b \in Int, NEW m \in Nat \ {0}
  PROVE  /\ ((a % m) * b) % m = (a * b) % m /\ (a * (b % m)) % m = (a * b) % m
         /\ ((a % m) * (b % m)) % m = (a * b) % m
<1>1. ASSUME NEW x \in Int, NEW y \in Int
      PROVE  ((x % m) * y) % m = (x * y) % m
  <2> DEFINE q == x \div m
             r == x % m
  <2>1. x = m * q + r /\ q \in Int /\ r \in Int
    BY DivisionOf
  <2> HIDE DEF q, r
  <2> DEFINE xy == x * y
             ry == r * y
             k == q * y
  <2>2. xy = ry + k * m /\ xy \in Int /\ ry \in Int /\ k \in Int
    BY <2>1
  <2> HIDE DEF xy, ry, k
  <2>3. xy % m = ry % m
    <3>1. Same(xy, ry, m)
      BY <2>2 DEF Same
    <3> QED
      BY <2>2, <3>1, SameResidue
  <2> QED
    BY <2>3 DEF r, xy, ry
<1>2. ((a % m) * b) % m = (a * b) % m
  BY <1>1
<1>3. ((b % m) * a) % m = (b * a) % m
  BY <1>1
<1>4. a % m \in Int /\ b % m \in Int
  BY DivisionOf
<1>5. ((a % m) * (b % m)) % m = (a * (b % m)) % m
  BY <1>1, <1>4
<1>6. (b % m) * a = a * (b % m) /\ b * a = a * b
  BY <1>4
<1> QED
  BY <1>2, <1>3, <1>5, <1>6

LEMMA ResidueOfSum ==
  ASSUME NEW a \in Int, NEW b \in Int, NEW m \in Nat \ {0}
  PROVE  ((a % m) + (b % m)) % m = (a + b) % m /\ ((a % m) - (b % m)) % m = (a - b) % m
<1> DEFINE p == a \div m
           q == b \div m
           r == a % m
           s == b % m
<1>1. a = m * p + r /\ b = m * q + s /\ p \in Int /\ q \in Int /\ r \in Int /\ s \in Int
  BY DivisionOf
<1> HIDE DEF p, q, r, s
<1>2. a + b = (r + s) + (p + q) * m /\ a - b = (r - s) + (p - q) * m
  BY <1>1
<1>3. (a + b) % m = (r + s) % m
  <2>1. a + b \in Int /\ r + s \in Int /\ p + q \in Int
    BY <1>1
  <2>2. Same(a + b, r + s, m)
    BY <1>2, <2>1 DEF Same
  <2> QED
    BY <2>1, <2>2, SameResidue
<1>4. (a - b) % m = (r - s) % m
  <2>1. a - b \in Int /\ r - s \in Int /\ p - q \in Int
    BY <1>1
  <2>2. Same(a - b, r - s, m)
    BY <1>2, <2>1 DEF Same
  <2> QED
    BY <2>1, <2>2, SameResidue
<1> QED
  BY <1>3, <1>4 DEF r, s

-----------------------------------------------------------------------------
(* Powers and multiples: n times an operation that has a neutral element *)

Monoid(S, op, e) ==
  /\ op \in [S -> [S -> S]] /\ e \in S
  /\ \A x \in S : op[x][e] = x /\ op[e][x] = x
  /\ \A x, y, z \in S : op[op[x][y]][z] = op[x][op[y][z]]

\* f[n] is the operation, n times.
Times(f, S, op, e, a) ==
  /\ Monoid(S, op, e) /\ a \in S
  /\ f \in [Nat -> S] /\ f[0] = e
  /\ \A n \in Nat : f[n + 1] = op[f[n]][a]

LEMMA TimesExist ==
  ASSUME NEW S, NEW op, NEW e, Monoid(S, op, e), NEW a \in S
  PROVE  \E f : Times(f, S, op, e, a)
<1> DEFINE next == [n \in Nat |-> [x \in S |-> op[x][a]]]
<1>1. next \in [Nat -> [S -> S]] /\ e \in S
  BY DEF Monoid
<1>2. PICK f \in [Nat -> S] : Recursive(f, e, next)
  <2> HIDE DEF next
  <2> QED
    BY <1>1, Recursion
<1>3. f[0] = e
  BY <1>2 DEF Recursive
<1>4. ASSUME NEW n \in Nat
      PROVE  f[n + 1] = op[f[n]][a]
  <2>1. n + 1 \in Nat \ {0} /\ (n + 1) - 1 = n
    OBVIOUS
  <2>2. f[n + 1] = next[n + 1][f[n]]
    BY <1>2, <2>1 DEF Recursive
  <2>3. f[n] \in S
    BY <1>2
  <2> QED
    BY <2>1, <2>2, <2>3
<1> QED
  BY <1>2, <1>3, <1>4 DEF Times

LEMMA TimesSum ==
  ASSUME NEW S, NEW op, NEW e, NEW a, NEW f, Times(f, S, op, e, a)
  PROVE  \A i, j \in Nat : f[i + j] = op[f[i]][f[j]]
<1> TAKE i \in Nat
<1> DEFINE T == {n \in Nat : f[i + n] = op[f[i]][f[n]]}
<1>1. 0 \in T
  <2>1. i + 0 = i /\ f[i] \in S /\ f[0] = e
    BY DEF Times
  <2> QED
    BY <2>1 DEF Monoid, Times
<1>2. ASSUME NEW n \in Nat, n \in T
      PROVE  n + 1 \in T
  <2>1. i + (n + 1) = (i + n) + 1 /\ i + n \in Nat
    OBVIOUS
  <2>2. f[i + (n + 1)] = op[f[i + n]][a] /\ f[n + 1] = op[f[n]][a]
    BY <2>1 DEF Times
  <2>3. f[i] \in S /\ f[n] \in S
    BY DEF Times
  <2>4. op[op[f[i]][f[n]]][a] = op[f[i]][op[f[n]][a]]
    <3>1. a \in S /\ \A x, y, z \in S : op[op[x][y]][z] = op[x][op[y][z]]
      BY DEF Monoid, Times
    <3> QED
      BY <2>3, <3>1
  <2> QED
    BY <1>2, <2>2, <2>4
<1>3. Nat \subseteq T
  <2> HIDE DEF T
  <2> QED
    BY <1>1, <1>2, Induction
<1> QED
  BY <1>3

\* Halving the number gives the same: that is how both are computed.
Halves(f, S, op, e, a) ==
  /\ f[0] = e
  /\ \A i \in Nat \ {0} : f[i \div 2] \in S =>
       LET double == op[f[i \div 2]][f[i \div 2]]
       IN f[i] = IF i % 2 = 1 THEN op[double][a] ELSE double

LEMMA TimesHalve ==
  ASSUME NEW S, NEW op, NEW e, NEW a, NEW f, Times(f, S, op, e, a)
  PROVE  Halves(f, S, op, e, a)
<1> SUFFICES ASSUME NEW i \in Nat \ {0}
             PROVE  f[i] = IF i % 2 = 1 THEN op[op[f[i \div 2]][f[i \div 2]]][a]
                           ELSE op[f[i \div 2]][f[i \div 2]]
  BY DEF Halves, Times
<1> DEFINE h == i \div 2
<1>1. h \in Nat /\ (i % 2 = 1 => i = (h + h) + 1) /\ (i % 2 # 1 => i = h + h)
  OBVIOUS
<1> HIDE DEF h
<1>2. f[h + h] = op[f[h]][f[h]] /\ h + h \in Nat
  <2>1. \A j, k \in Nat : f[j + k] = op[f[j]][f[k]]
    BY TimesSum
  <2>2. h \in Nat /\ h + h \in Nat
    BY <1>1
  <2>3. f[h + h] = op[f[h]][f[h]]
    BY <2>1, <2>2, Zenon
  <2> QED
    BY <2>2, <2>3
<1>3. f[(h + h) + 1] = op[f[h + h]][a]
  BY <1>2 DEF Times
<1>4. f[i] = IF i % 2 = 1 THEN op[op[f[h]][f[h]]][a] ELSE op[f[h]][f[h]]
  BY <1>1, <1>2, <1>3
<1> QED
  BY <1>4 DEF h

LEMMA HalvesUnique ==
  ASSUME NEW S, NEW op, NEW e, NEW a, NEW f, NEW g,
         Halves(f, S, op, e, a), Times(g, S, op, e, a)
  PROVE  \A n \in Nat : f[n] = g[n]
<1> DEFINE T == {k \in Nat : \A i \in 0 .. k : f[i] = g[i]}
<1>0. Halves(g, S, op, e, a) /\ g \in [Nat -> S]
  BY TimesHalve DEF Times
<1>1. 0 \in T
  BY <1>0 DEF Halves
<1>2. ASSUME NEW k \in Nat, k \in T
      PROVE  k + 1 \in T
  <2> DEFINE i == k + 1
             h == i \div 2
  <2>1. h \in 0 .. k /\ i \in Nat \ {0}
    OBVIOUS
  <2>2. f[h] = g[h] /\ g[h] \in S
    BY <1>0, <1>2, <2>1
  <2>3. f[i] = g[i]
    <3>1. f[i] = IF i % 2 = 1 THEN op[op[f[h]][f[h]]][a] ELSE op[f[h]][f[h]]
      BY <2>1, <2>2 DEF Halves
    <3>2. g[i] = IF i % 2 = 1 THEN op[op[g[h]][g[h]]][a] ELSE op[g[h]][g[h]]
      BY <1>0, <2>1, <2>2 DEF Halves
    <3> QED
      BY <2>2, <3>1, <3>2
  <2>4. \A j \in 0 .. k + 1 : j \in 0 .. k \/ j = k + 1
    OBVIOUS
  <2> QED
    BY <1>2, <2>3, <2>4
<1>3. Nat \subseteq T
  <2> HIDE DEF T
  <2> QED
    BY <1>1, <1>2, Induction
<1> QED
  BY <1>3

-----------------------------------------------------------------------------
(* BigNum: inverses and powers modulo a prime *)

\* A number that is no multiple of a prime has one inverse below it.
LEMMA InverseExists ==
  ASSUME NEW m \in Nat, Prime(m), NEW x \in Int, x % m # 0
  PROVE  \E y \in 0 .. m - 1 : ((x % m) * y) % m = 1
<1> DEFINE r == x % m
           D == {t \in 1 .. m - 1 : \E u \in Nat : (r * u) % m = t}
<1>1. m \in Nat \ {0} /\ m > 1 /\ r \in 1 .. m - 1
  <2>1. m \in Nat \ {0} /\ m > 1
    BY DEF Prime
  <2> QED
    BY <2>1, DivisionOf
<1> HIDE DEF r
<1>2. r \in D
  <2>1. (r * 1) % m = r
    <3>1. r * 1 = r /\ r \in Nat /\ r < m
      BY <1>1
    <3> QED
      BY <1>1, <3>1, SmallResidue
  <2> QED
    BY <1>1, <2>1
<1>3. PICK d \in D : \A t \in D : d <= t
  <2>1. D \subseteq Nat
    OBVIOUS
  <2> HIDE DEF D
  <2> QED
    BY <1>2, <2>1, LeastNumber
<1>4. PICK u \in Nat : (r * u) % m = d
  BY <1>3
<1>5. d = 1
  <2> SUFFICES ASSUME d # 1 PROVE FALSE
    OBVIOUS
  <2> DEFINE q == m \div d
             s == m % d
  <2>1. d \in 2 .. m - 1 /\ d \in Nat \ {0}
    BY <1>3
  <2>2. m = d * q + s /\ s \in 0 .. d - 1 /\ q \in Int
    BY <1>1, <2>1, DivisionOf
  <2>3. s # 0
    BY <2>1 DEF Prime
  <2>4. q \in Nat
    BY <1>1, <2>1
  <2> HIDE DEF q, s
  <2> DEFINE ru == r * u
             n == q + 1
  <2>5. ru \in Int /\ n \in Nat /\ r * (n * u) = n * ru /\ n * u \in Nat
    BY <1>1, <2>4
  <2>6. n * d = (d - s) + 1 * m
    BY <2>1, <2>2, <2>4
  <2> HIDE DEF n, ru
  <2>7. (n * ru) % m = (n * d) % m
    <3>1. (n * (ru % m)) % m = (n * ru) % m
      <4>1. n \in Int /\ ru \in Int
        BY <2>5
      <4> QED
        BY <1>1, <4>1, ResidueOfProduct
    <3>2. ru % m = d
      BY <1>4 DEF ru
    <3> QED
      BY <3>1, <3>2
  <2>8. (n * d) % m = (d - s) % m
    <3>1. d - s \in Int /\ n * d \in Int
      BY <2>1, <2>2, <2>5
    <3>2. Same(n * d, d - s, m)
      <4>1. 1 \in Int
        OBVIOUS
      <4> QED
        BY <2>6, <4>1 DEF Same
    <3> QED
      BY <1>1, <3>1, <3>2, SameResidue
  <2>9. (d - s) % m = d - s /\ d - s \in 1 .. m - 1
    <3>1. d - s \in Nat /\ d - s < m /\ d - s \in 1 .. m - 1
      BY <2>1, <2>2, <2>3
    <3> QED
      BY <1>1, <3>1, SmallResidue
  <2>10. d - s \in D
    BY <2>5, <2>7, <2>8, <2>9
  <2>11. d - s < d
    BY <2>1, <2>2, <2>3
  <2> QED
    BY <1>3, <2>1, <2>2, <2>10, <2>11
<1>6. u % m \in 0 .. m - 1 /\ (r * (u % m)) % m = 1
  <2>1. u \in Int /\ r \in Int /\ u % m \in 0 .. m - 1
    <3>1. u \in Int /\ r \in Int
      BY <1>1
    <3> QED
      BY <1>1, <3>1, DivisionOf
  <2>2. (r * (u % m)) % m = (r * u) % m
    BY <1>1, <2>1, ResidueOfProduct
  <2> QED
    BY <1>4, <1>5, <2>1, <2>2
<1> QED
  BY <1>6 DEF r

LEMMA ModInverseIs ==
  ASSUME NEW m \in Nat, Prime(m), NEW x \in Int, x % m # 0
  PROVE  /\ ModInverse(x, m) \in 1 .. m - 1
         /\ (x * ModInverse(x, m)) % m = 1
<1> DEFINE y == ModInverse(x, m)
<1>1. m \in Nat \ {0} /\ m > 1 /\ 1 % m = 1
  <2>1. m \in Nat \ {0} /\ m > 1
    BY DEF Prime
  <2> QED
    BY <2>1, SmallResidue
<1>2. y \in 0 .. m - 1 /\ ((x % m) * y) % m = 1
  BY <1>1, InverseExists DEF ModInverse
<1> HIDE DEF y
<1>3. (x * y) % m = 1
  <2>1. y \in Int
    BY <1>2
  <2>2. ((x % m) * y) % m = (x * y) % m
    BY <1>1, <2>1, ResidueOfProduct
  <2> QED
    BY <1>2, <2>2
<1>4. y # 0
  <2>1. 0 % m = 0 /\ x * 0 = 0
    BY <1>1, SmallResidue
  <2> QED
    BY <1>3, <2>1
<1> QED
  BY <1>2, <1>3, <1>4 DEF y

\* A product is a multiple of a prime only if one of the factors is.
LEMMA Euclid ==
  ASSUME NEW m \in Nat, Prime(m), NEW x \in Int, NEW y \in Int, (x * y) % m = 0
  PROVE  x % m = 0 \/ y % m = 0
<1> SUFFICES ASSUME x % m # 0 PROVE y % m = 0
  OBVIOUS
<1> DEFINE z == ModInverse(x, m)
           xy == x * y
           zx == z * x
<1>1. m \in Nat \ {0}
  BY DEF Prime
<1>2. z \in Int /\ (x * z) % m = 1
  BY ModInverseIs
<1> HIDE DEF z
<1>3. xy \in Int /\ zx \in Int /\ z * xy = zx * y /\ zx = x * z
  BY <1>2
<1>4. xy % m = 0
  OBVIOUS
<1>5. zx % m = 1
  BY <1>2, <1>3
<1> HIDE DEF xy, zx
<1>6. (z * xy) % m = (z * 0) % m /\ (zx * y) % m = (1 * y) % m
  <2>1. (z * (xy % m)) % m = (z * xy) % m /\ ((zx % m) * y) % m = (zx * y) % m
    <3>1. (z * (xy % m)) % m = (z * xy) % m
      BY <1>1, <1>2, <1>3, ResidueOfProduct
    <3>2. ((zx % m) * y) % m = (zx * y) % m
      BY <1>1, <1>3, ResidueOfProduct
    <3> QED
      BY <3>1, <3>2
  <2> QED
    BY <1>4, <1>5, <2>1
<1>7. z * 0 = 0 /\ 1 * y = y /\ 0 % m = 0
  BY <1>1, <1>2, SmallResidue
<1> QED
  BY <1>3, <1>6, <1>7

\* Products modulo m, and ModExp, which squares and multiplies.
Products(m) == [x \in 0 .. m - 1 |-> [y \in 0 .. m - 1 |-> (x * y) % m]]

LEMMA ProductsMonoid ==
  ASSUME NEW m \in Nat \ {0}
  PROVE  Monoid(0 .. m - 1, Products(m), 1 % m)
<1> DEFINE S == 0 .. m - 1
           op == Products(m)
<1>1. \A x \in Int : x % m \in S
  BY DivisionOf
<1>2. ASSUME NEW x \in S, NEW y \in S
      PROVE  op[x][y] = (x * y) % m /\ op[x][y] \in S /\ x * y \in Int
  <2>1. x * y \in Int
    OBVIOUS
  <2> QED
    BY <1>1, <2>1 DEF Products
<1>3. op \in [S -> [S -> S]]
  BY <1>2 DEF Products
<1>4. 1 % m \in S
  BY <1>1
<1>5. ASSUME NEW x \in S
      PROVE  op[x][1 % m] = x /\ op[1 % m][x] = x
  <2>1. (x * (1 % m)) % m = (x * 1) % m /\ ((1 % m) * x) % m = (1 * x) % m
    BY ResidueOfProduct
  <2>2. x * 1 = x /\ 1 * x = x /\ x \in Nat /\ x < m
    OBVIOUS
  <2>3. x % m = x
    BY <2>2, SmallResidue
  <2> QED
    BY <1>2, <1>4, <2>1, <2>2, <2>3
<1>6. ASSUME NEW x \in S, NEW y \in S, NEW z \in S
      PROVE  op[op[x][y]][z] = op[x][op[y][z]]
  <2> DEFINE xy == x * y
             yz == y * z
  <2>1. xy \in Int /\ yz \in Int /\ xy * z = x * yz
    OBVIOUS
  <2>2. op[x][y] = xy % m /\ op[y][z] = yz % m /\ xy % m \in S /\ yz % m \in S
    BY <1>2
  <2> HIDE DEF xy, yz, S
  <2>3. op[op[x][y]][z] = ((xy % m) * z) % m /\ op[x][op[y][z]] = (x * (yz % m)) % m
    BY <1>2, <2>2
  <2>4. x \in Int /\ z \in Int
    BY DEF S
  <2>5. ((xy % m) * z) % m = (xy * z) % m /\ (x * (yz % m)) % m = (x * yz) % m
    BY <2>1, <2>4, ResidueOfProduct
  <2> QED
    BY <2>1, <2>3, <2>5
<1> HIDE DEF S, op
<1>7. Monoid(S, op, 1 % m)
  BY <1>3, <1>4, <1>5, <1>6 DEF Monoid
<1> QED
  BY <1>7 DEF S, op

LEMMA ModExpIs ==
  ASSUME NEW m \in Nat \ {0}, NEW b \in Int
  PROVE  /\ ModExp(b, 0, m) = 1 % m
         /\ \A e \in Nat : /\ ModExp(b, e, m) \in 0 .. m - 1
                           /\ ModExp(b, e + 1, m) = (ModExp(b, e, m) * b) % m
<1> DEFINE S == 0 .. m - 1
           op == Products(m)
           one == 1 % m
           a == b % m
           Is(f) == f = [k \in Nat |->
                          IF k = 0 THEN 1 % m
                          ELSE LET half == f[k \div 2]
                                   square == (half * half) % m
                               IN IF k % 2 = 1 THEN (square * (b % m)) % m ELSE square]
           F == CHOOSE f : Is(f)
<1>1. Monoid(S, op, one) /\ a \in S
  BY ProductsMonoid, DivisionOf
<1>2. ASSUME NEW x \in S, NEW y \in S
      PROVE  op[x][y] = (x * y) % m /\ op[x][y] \in S
  <2>1. op[x][y] = (x * y) % m
    BY DEF Products
  <2>2. op[x][y] \in S
    <3> HIDE DEF S, op
    <3> QED
      BY <1>1 DEF Monoid
  <2> QED
    BY <2>1, <2>2
<1>3. PICK g : Times(g, S, op, one, a)
  <2> HIDE DEF S, op, one, a
  <2> QED
    BY <1>1, TimesExist
<1>4. Halves(g, S, op, one, a) /\ g \in [Nat -> S]
  <2> HIDE DEF S, op, one, a
  <2> QED
    BY <1>3, TimesHalve DEF Times
<1>5. Is(g)
  <2>1. ASSUME NEW k \in Nat \ {0}
        PROVE  g[k] = LET half == g[k \div 2]
                          square == (half * half) % m
                      IN IF k % 2 = 1 THEN (square * (b % m)) % m ELSE square
    <3> DEFINE h == g[k \div 2]
    <3>1. k \div 2 \in Nat
      OBVIOUS
    <3>2. h \in S
      BY <1>4, <3>1
    <3> HIDE DEF S, op, h, one
    <3>3. g[k] = IF k % 2 = 1 THEN op[op[h][h]][a] ELSE op[h][h]
      BY <1>4, <3>2 DEF Halves, h
    <3>4. op[h][h] = (h * h) % m /\ op[h][h] \in S
      BY <1>2, <3>2
    <3>5. op[op[h][h]][a] = (((h * h) % m) * (b % m)) % m
      BY <1>1, <1>2, <3>4
    <3> QED
      BY <3>3, <3>4, <3>5 DEF h
  <2>2. g[0] = 1 % m
    BY <1>4 DEF Halves
  <2>3. g = [k \in Nat |-> g[k]]
    BY <1>4
  <2> HIDE DEF S
  <2> QED
    BY <2>1, <2>2, <2>3
<1>6. Is(F)
  <2> HIDE DEF Is
  <2> QED
    BY <1>5
<1>7. \A e : ModExp(b, e, m) = F[e]
  BY DEF ModExp
<1> HIDE DEF F
<1>8. Halves(F, S, op, one, a)
  <2>1. F[0] = one
    BY <1>6
  <2>2. ASSUME NEW i \in Nat \ {0}, F[i \div 2] \in S
        PROVE  F[i] = IF i % 2 = 1 THEN op[op[F[i \div 2]][F[i \div 2]]][a]
                      ELSE op[F[i \div 2]][F[i \div 2]]
    <3> DEFINE h == F[i \div 2]
    <3>1. F[i] = LET half == F[i \div 2]
                     square == (half * half) % m
                 IN IF i % 2 = 1 THEN (square * (b % m)) % m ELSE square
      BY <1>6
    <3>2. F[i] = IF i % 2 = 1 THEN (((h * h) % m) * a) % m ELSE (h * h) % m
      BY <3>1, Zenon
    <3>3. h \in S
      BY <2>2
    <3> HIDE DEF S, op, h, a
    <3>4. op[h][h] = (h * h) % m /\ op[h][h] \in S
      BY <1>2, <3>3
    <3>5. op[op[h][h]][a] = (((h * h) % m) * a) % m
      BY <1>1, <1>2, <3>4
    <3>6. F[i] = IF i % 2 = 1 THEN op[op[h][h]][a] ELSE op[h][h]
      BY <3>2, <3>4, <3>5
    <3> QED
      BY <3>6 DEF h
  <2> QED
    BY <2>1, <2>2 DEF Halves
<1>9. \A e \in Nat : F[e] = g[e]
  <2> HIDE DEF S, op, one, a
  <2> QED
    BY <1>3, <1>8, HalvesUnique
<1>10. ASSUME NEW e \in Nat
       PROVE  F[e] \in S /\ F[e + 1] = (F[e] * b) % m
  <2>1. e + 1 \in Nat /\ g[e] \in S /\ g[e] \in Int
    <3>1. e + 1 \in Nat /\ \A x \in S : x \in Int
      OBVIOUS
    <3> HIDE DEF S
    <3> QED
      BY <1>4, <3>1
  <2>2. g[e + 1] = op[g[e]][a]
    BY <1>3 DEF Times
  <2>3. op[g[e]][a] = (g[e] * a) % m
    BY <1>1, <1>2, <2>1
  <2>4. (g[e] * (b % m)) % m = (g[e] * b) % m
    BY <2>1, ResidueOfProduct
  <2> QED
    BY <1>9, <2>1, <2>2, <2>3, <2>4
<1>11. F[0] = 1 % m
  BY <1>8 DEF Halves
<1> QED
  BY <1>7, <1>10, <1>11

-----------------------------------------------------------------------------
(* Congruences *)

\* To be congruent is an equivalence; ...
LEMMA SameIs ==
  ASSUME NEW m \in Int
  PROVE  /\ \A a \in Int : Same(a, a, m)
         /\ \A a, b \in Int : Same(a, b, m) => Same(b, a, m)
         /\ \A a, b, c \in Int : Same(a, b, m) /\ Same(b, c, m) => Same(a, c, m)
<1>1. ASSUME NEW a \in Int
      PROVE  Same(a, a, m)
  <2>1. a = a + 0 * m
    OBVIOUS
  <2> QED
    BY <2>1 DEF Same
<1>2. ASSUME NEW a \in Int, NEW b \in Int, Same(a, b, m)
      PROVE  Same(b, a, m)
  <2>1. PICK k \in Int : a = b + k * m
    BY <1>2 DEF Same
  <2>2. b = a + (0 - k) * m /\ 0 - k \in Int
    BY <2>1
  <2> QED
    BY <2>2 DEF Same
<1>3. ASSUME NEW a \in Int, NEW b \in Int, NEW c \in Int, Same(a, b, m), Same(b, c, m)
      PROVE  Same(a, c, m)
  <2>1. PICK k \in Int : a = b + k * m
    BY <1>3 DEF Same
  <2>2. PICK l \in Int : b = c + l * m
    BY <1>3 DEF Same
  <2>3. a = c + (k + l) * m /\ k + l \in Int
    BY <2>1, <2>2
  <2> QED
    BY <2>3 DEF Same
<1> QED
  BY <1>1, <1>2, <1>3

\* ... sums and differences, ...
LEMMA SameSum ==
  ASSUME NEW m \in Int, NEW a \in Int, NEW b \in Int, NEW c \in Int, NEW d \in Int,
         Same(a, b, m), Same(c, d, m)
  PROVE  Same(a + c, b + d, m) /\ Same(a - c, b - d, m)
<1>1. PICK k \in Int : a = b + k * m
  BY DEF Same
<1>2. PICK l \in Int : c = d + l * m
  BY DEF Same
<1>3. a + c = (b + d) + (k + l) * m /\ a - c = (b - d) + (k - l) * m /\ k + l \in Int /\ k - l \in Int
  BY <1>1, <1>2
<1> QED
  BY <1>3 DEF Same

\* ... products, ...
LEMMA SameProduct ==
  ASSUME NEW m \in Int, NEW a \in Int, NEW b \in Int, NEW c \in Int, NEW d \in Int,
         Same(a, b, m), Same(c, d, m)
  PROVE  Same(a * c, b * d, m)
<1>1. PICK k \in Int : a = b + k * m
  BY DEF Same
<1>2. PICK l \in Int : c = d + l * m
  BY DEF Same
<1> DEFINE h == k * d + l * b + k * (l * m)
<1>3. a * c = b * d + h * m /\ h \in Int
  <2>1. a * c = (b + k * m) * (d + l * m)
    BY <1>1, <1>2
  <2>2. (b + k * m) * (d + l * m) = b * d + (k * d + l * b + k * (l * m)) * m
    BY <1>1, <1>2
  <2> QED
    BY <2>1, <2>2
<1> QED
  BY <1>3 DEF Same

\* Modulo a divisor; and a common factor of numbers and modulus.
LEMMA SameDivisor ==
  ASSUME NEW m \in Int, NEW n \in Int, NEW a \in Int, NEW b \in Int, Same(a, b, m * n)
  PROVE  Same(a, b, m)
<1>1. PICK k \in Int : a = b + k * (m * n)
  BY DEF Same
<1>2. a = b + (k * n) * m /\ k * n \in Int
  BY <1>1
<1> QED
  BY <1>2 DEF Same

\* ... multiples with the modulus, ...
LEMMA SameScaled ==
  ASSUME NEW m \in Int, NEW a \in Int, NEW b \in Int, NEW c \in Int, Same(a, b, m)
  PROVE  Same(c * a, c * b, c * m)
<1>1. PICK k \in Int : a = b + k * m
  BY DEF Same
<1>2. c * a = c * b + k * (c * m)
  BY <1>1
<1> QED
  BY <1>2 DEF Same

\* ... and quotients with it are congruent again; ...
LEMMA SameUnscaled ==
  ASSUME NEW m \in Int, NEW a \in Int, NEW b \in Int, NEW c \in Nat \ {0},
         Same(c * a, c * b, c * m)
  PROVE  Same(a, b, m)
<1>1. PICK k \in Int : c * a = c * b + k * (c * m)
  BY DEF Same
<1> DEFINE d == a - (b + k * m)
<1>2. d \in Int /\ c * d = 0
  BY <1>1
<1>3. d = 0
  <2> HIDE DEF d
  <2>1. d > 0 => c * d > 0
    BY <1>2
  <2>2. d < 0 => c * d < 0
    BY <1>2
  <2> QED
    BY <1>2, <2>1, <2>2
<1>4. a = b + k * m
  BY <1>3
<1> QED
  BY <1>4 DEF Same

\* ... and so is a number to its residue.
LEMMA SameMod ==
  ASSUME NEW m \in Nat \ {0}, NEW a \in Int
  PROVE  Same(a % m, a, m) /\ Same(a, a % m, m) /\ a % m \in 0 .. m - 1 /\ a % m \in Int
<1>1. a % m \in 0 .. m - 1 /\ a % m \in Int
  BY DivisionOf
<1>2. (a % m) % m = a % m
  BY <1>1, SmallResidue
<1> QED
  BY <1>1, <1>2, SameResidue

\* Of two numbers below the modulus.
LEMMA SameSmall ==
  ASSUME NEW m \in Nat \ {0}, NEW a \in 0 .. m - 1, NEW b \in 0 .. m - 1, Same(a, b, m)
  PROVE  a = b
<1>1. a % m = b % m
  BY SameResidue
<1> QED
  BY <1>1, SmallResidue

\* Numbers that have an inverse.
Unit(x, m) == \E y \in Int : Same(x * y, 1, m)

\* A product of units is one, ...
LEMMA UnitProduct ==
  ASSUME NEW m \in Int, NEW x \in Int, NEW y \in Int, Unit(x, m), Unit(y, m)
  PROVE  Unit(x * y, m)
<1>1. PICK u \in Int : Same(x * u, 1, m)
  BY DEF Unit
<1>2. PICK v \in Int : Same(y * v, 1, m)
  BY DEF Unit
<1>3. Same((x * u) * (y * v), 1 * 1, m)
  <2>1. x * u \in Int /\ y * v \in Int
    OBVIOUS
  <2> QED
    BY <1>1, <1>2, <2>1, SameProduct
<1>4. (x * u) * (y * v) = (x * y) * (u * v) /\ 1 * 1 = 1 /\ u * v \in Int
  OBVIOUS
<1>5. Same((x * y) * (u * v), 1, m)
  BY <1>3, <1>4
<1> QED
  BY <1>4, <1>5 DEF Unit

\* ... a unit cancels in a congruence, ...
LEMMA UnitCancels ==
  ASSUME NEW m \in Int, NEW x \in Int, Unit(x, m), NEW a \in Int, NEW b \in Int,
         Same(x * a, x * b, m)
  PROVE  Same(a, b, m)
<1>1. PICK u \in Int : Same(x * u, 1, m)
  BY DEF Unit
<1> DEFINE xa == x * a
           xb == x * b
           xu == x * u
<1>2. /\ xa \in Int /\ xb \in Int /\ xu \in Int
      /\ u * xa = xu * a /\ u * xb = xu * b /\ 1 * a = a /\ 1 * b = b
  OBVIOUS
<1>3. Same(xa, xb, m) /\ Same(xu, 1, m)
  BY <1>1
<1> HIDE DEF xa, xb, xu
<1>4. Same(u * xa, u * xb, m)
  <2>1. Same(u, u, m)
    BY SameIs
  <2> QED
    BY <1>2, <1>3, <2>1, SameProduct
<1>5. Same(xu * a, 1 * a, m) /\ Same(xu * b, 1 * b, m)
  <2>1. Same(a, a, m) /\ Same(b, b, m)
    BY SameIs
  <2> QED
    BY <1>2, <1>3, <2>1, SameProduct
<1>6. Same(u * xa, a, m) /\ Same(u * xb, b, m) /\ u * xa \in Int /\ u * xb \in Int
  BY <1>2, <1>5
<1>7. Same(a, u * xa, m)
  BY <1>6, SameIs
<1>8. Same(a, u * xb, m)
  BY <1>4, <1>6, <1>7, SameIs
<1> QED
  BY <1>6, <1>8, SameIs

\* ... what is congruent to a unit is one, ...
LEMMA UnitSame ==
  ASSUME NEW m \in Int, NEW x \in Int, NEW y \in Int, Same(x, y, m), Unit(x, m)
  PROVE  Unit(y, m)
<1>1. PICK u \in Int : Same(x * u, 1, m)
  BY DEF Unit
<1>2. Same(y * u, x * u, m)
  <2>1. Same(y, x, m) /\ Same(u, u, m)
    BY SameIs
  <2> QED
    BY <2>1, SameProduct
<1>3. Same(y * u, 1, m)
  <2>1. x * u \in Int /\ y * u \in Int
    OBVIOUS
  <2> QED
    BY <1>1, <1>2, <2>1, SameIs
<1> QED
  BY <1>3 DEF Unit

\* ... and so is a factor of one.
LEMMA UnitFactor ==
  ASSUME NEW m \in Int, NEW x \in Int, NEW y \in Int, Unit(x * y, m)
  PROVE  Unit(x, m)
<1>1. PICK u \in Int : Same((x * y) * u, 1, m)
  BY DEF Unit
<1>2. (x * y) * u = x * (y * u) /\ y * u \in Int
  OBVIOUS
<1> QED
  BY <1>1, <1>2 DEF Unit

-----------------------------------------------------------------------------
(* Powers *)

IntProducts == [x \in Int |-> [y \in Int |-> x * y]]

\* The integers are a monoid under products.
LEMMA IntMonoid == Monoid(Int, IntProducts, 1)
<1>1. IntProducts \in [Int -> [Int -> Int]] /\ 1 \in Int
  BY DEF IntProducts
<1>2. \A x \in Int : IntProducts[x][1] = x /\ IntProducts[1][x] = x
  BY DEF IntProducts
<1>3. ASSUME NEW x \in Int, NEW y \in Int, NEW z \in Int
      PROVE  IntProducts[IntProducts[x][y]][z] = IntProducts[x][IntProducts[y][z]]
  <2>1. x * y \in Int /\ y * z \in Int /\ (x * y) * z = x * (y * z)
    OBVIOUS
  <2> QED
    BY <2>1 DEF IntProducts
<1> QED
  BY <1>1, <1>2, <1>3 DEF Monoid

\* What Power computes, for the empty product, the next one, and a sum, ...
LEMMA PowerIs ==
  ASSUME NEW b \in Int
  PROVE  /\ Power(b, 0) = 1
         /\ \A n \in Nat : Power(b, n) \in Int /\ Power(b, n + 1) = b * Power(b, n)
         /\ \A i, j \in Nat : Power(b, i + j) = Power(b, i) * Power(b, j)
<1> DEFINE Is(f) == f = [k \in Nat |-> IF k = 0 THEN 1 ELSE b * f[k - 1]]
           F == CHOOSE f : Is(f)
<1>1. PICK g : Times(g, Int, IntProducts, 1, b)
  BY IntMonoid, TimesExist
<1>2. /\ g \in [Nat -> Int] /\ g[0] = 1
      /\ \A n \in Nat : g[n + 1] = g[n] * b
  BY <1>1 DEF Times, IntProducts
<1>3. Is(g)
  <2>1. ASSUME NEW k \in Nat \ {0}
        PROVE  g[k] = b * g[k - 1]
    <3>1. k - 1 \in Nat /\ (k - 1) + 1 = k
      OBVIOUS
    <3>2. g[k] = g[k - 1] * b /\ g[k - 1] \in Int
      BY <1>2, <3>1
    <3> QED
      BY <3>2
  <2> QED
    BY <1>2, <2>1
<1>4. Is(F)
  <2> HIDE DEF Is
  <2> QED
    BY <1>3
<1>5. \A n \in Nat : F[n] = g[n]
  <2> DEFINE T == {n \in Nat : F[n] = g[n]}
  <2>1. 0 \in T
    BY <1>3, <1>4
  <2>2. ASSUME NEW n \in Nat, n \in T
        PROVE  n + 1 \in T
    <3>1. n + 1 \in Nat /\ n + 1 # 0 /\ (n + 1) - 1 = n
      OBVIOUS
    <3>2. F[n + 1] = b * F[n] /\ g[n + 1] = b * g[n]
      BY <1>3, <1>4, <3>1
    <3> QED
      BY <2>2, <3>1, <3>2
  <2>3. Nat \subseteq T
    <3> HIDE DEF T
    <3> QED
      BY <2>1, <2>2, Induction
  <2> QED
    BY <2>3
<1>6. \A n : Power(b, n) = F[n]
  BY DEF Power
<1> HIDE DEF F
<1>7. \A i, j \in Nat : g[i + j] = g[i] * g[j]
  <2>1. \A i, j \in Nat : g[i + j] = IntProducts[g[i]][g[j]]
    <3> DEFINE S == Int
               one == 1
    <3>1. Times(g, S, IntProducts, one, b)
      BY <1>1
    <3> HIDE DEF Is, S, one
    <3> QED
      BY <3>1, TimesSum
  <2> QED
    BY <1>2, <2>1 DEF IntProducts
<1>8. ASSUME NEW n \in Nat
      PROVE  g[n] \in Int /\ g[n + 1] = b * g[n]
  <2>1. g[n] \in Int /\ g[n + 1] = g[n] * b
    BY <1>2
  <2> QED
    BY <2>1
<1>9. \A n \in Nat : Power(b, n) = g[n]
  <2> HIDE DEF Is
  <2> QED
    BY <1>5, <1>6
<1>10. \A i, j \in Nat : i + j \in Nat
  OBVIOUS
<1> HIDE DEF Is
<1> QED
  BY <1>2, <1>7, <1>8, <1>9, <1>10

\* ... for one and for what comes before, ...
LEMMA PowerOne ==
  ASSUME NEW b \in Int
  PROVE  Power(b, 1) = b /\ \A n \in Nat \ {0} : Power(b, n) = b * Power(b, n - 1) /\ Power(b, n - 1) \in Int
<1>1. Power(b, 0 + 1) = b * Power(b, 0) /\ 0 + 1 = 1 /\ b * 1 = b
  BY PowerIs
<1>2. ASSUME NEW n \in Nat \ {0}
      PROVE  Power(b, n) = b * Power(b, n - 1) /\ Power(b, n - 1) \in Int
  <2>1. n - 1 \in Nat /\ (n - 1) + 1 = n
    OBVIOUS
  <2>2. Power(b, (n - 1) + 1) = b * Power(b, n - 1) /\ Power(b, n - 1) \in Int
    BY <2>1, PowerIs
  <2> QED
    BY <2>1, <2>2
<1> QED
  BY <1>1, <1>2, PowerIs

\* ... of a product, ...
LEMMA PowerOfProduct ==
  ASSUME NEW a \in Int, NEW b \in Int
  PROVE  \A n \in Nat : Power(a * b, n) = Power(a, n) * Power(b, n)
<1> DEFINE ab == a * b
           T == {n \in Nat : Power(ab, n) = Power(a, n) * Power(b, n)}
<1>0. ab \in Int
  OBVIOUS
<1>1. 0 \in T
  BY <1>0, PowerIs
<1>2. ASSUME NEW n \in Nat, n \in T
      PROVE  n + 1 \in T
  <2> DEFINE x == Power(a, n)
             y == Power(b, n)
  <2>1. x \in Int /\ y \in Int /\ Power(a, n + 1) = a * x /\ Power(b, n + 1) = b * y
    BY PowerIs
  <2>2. Power(ab, n + 1) = ab * Power(ab, n)
    BY <1>0, PowerIs
  <2>3. Power(ab, n) = x * y
    BY <1>2
  <2> HIDE DEF x, y
  <2>4. ab * (x * y) = (a * x) * (b * y)
    BY <2>1
  <2> HIDE DEF ab
  <2> QED
    BY <2>1, <2>2, <2>3, <2>4
<1>3. Nat \subseteq T
  <2> HIDE DEF T
  <2> QED
    BY <1>1, <1>2, Induction
<1> QED
  BY <1>3

\* ... of a power, ...
LEMMA PowerOfPower ==
  ASSUME NEW b \in Int, NEW i \in Nat
  PROVE  \A j \in Nat : Power(Power(b, i), j) = Power(b, i * j)
<1> DEFINE c == Power(b, i)
           T == {j \in Nat : Power(c, j) = Power(b, i * j)}
<1>0. c \in Int
  BY PowerIs
<1>1. 0 \in T
  <2>1. i * 0 = 0
    OBVIOUS
  <2> HIDE DEF c
  <2> QED
    BY <1>0, <2>1, PowerIs
<1>2. ASSUME NEW j \in Nat, j \in T
      PROVE  j + 1 \in T
  <2>1. i * (j + 1) = i + i * j /\ i * j \in Nat
    OBVIOUS
  <2>2. Power(b, i * (j + 1)) = c * Power(b, i * j)
    BY <2>1, PowerIs
  <2> HIDE DEF c
  <2>3. Power(c, j + 1) = c * Power(c, j)
    BY <1>0, PowerIs
  <2> QED
    BY <1>2, <2>2, <2>3
<1>3. Nat \subseteq T
  <2> HIDE DEF T
  <2> QED
    BY <1>1, <1>2, Induction
<1> QED
  BY <1>3

\* ... of a positive number, ...
LEMMA PowerPositive ==
  ASSUME NEW b \in Nat \ {0}
  PROVE  \A n \in Nat : Power(b, n) \in Nat \ {0}
<1> DEFINE T == {n \in Nat : Power(b, n) \in Nat \ {0}}
<1>1. 0 \in T
  BY PowerIs
<1>2. ASSUME NEW n \in Nat, n \in T
      PROVE  n + 1 \in T
  <2> DEFINE x == Power(b, n)
  <2>1. Power(b, n + 1) = b * x /\ x \in Nat \ {0}
    BY <1>2, PowerIs
  <2> HIDE DEF x
  <2>2. b * x \in Nat \ {0}
    BY <2>1
  <2> QED
    BY <2>1, <2>2
<1>3. Nat \subseteq T
  <2> HIDE DEF T
  <2> QED
    BY <1>1, <1>2, Induction
<1> QED
  BY <1>3

\* ... and of one.
LEMMA PowerOfOne ==
  \A n \in Nat : Power(1, n) = 1
<1> DEFINE T == {n \in Nat : Power(1, n) = 1}
<1>1. 0 \in T
  BY PowerIs
<1>2. ASSUME NEW n \in Nat, n \in T
      PROVE  n + 1 \in T
  BY <1>2, PowerIs
<1>3. Nat \subseteq T
  <2> HIDE DEF T
  <2> QED
    BY <1>1, <1>2, Induction
<1> QED
  BY <1>3

\* Powers of congruent numbers are congruent, ...
LEMMA SamePower ==
  ASSUME NEW m \in Int, NEW a \in Int, NEW b \in Int, Same(a, b, m)
  PROVE  \A n \in Nat : Same(Power(a, n), Power(b, n), m)
<1> DEFINE T == {n \in Nat : Same(Power(a, n), Power(b, n), m)}
<1>1. 0 \in T
  BY PowerIs, SameIs
<1>2. ASSUME NEW n \in Nat, n \in T
      PROVE  n + 1 \in T
  <2> DEFINE x == Power(a, n)
             y == Power(b, n)
  <2>1. /\ x \in Int /\ y \in Int /\ Same(x, y, m)
        /\ Power(a, n + 1) = a * x /\ Power(b, n + 1) = b * y
    BY <1>2, PowerIs
  <2> HIDE DEF x, y
  <2>2. Same(a * x, b * y, m)
    BY <2>1, SameProduct
  <2> QED
    BY <2>1, <2>2
<1>3. Nat \subseteq T
  <2> HIDE DEF T
  <2> QED
    BY <1>1, <1>2, Induction
<1> QED
  BY <1>3

\* ... and those of a unit are units.
LEMMA UnitPower ==
  ASSUME NEW m \in Int, NEW x \in Int, Unit(x, m)
  PROVE  \A n \in Nat : Unit(Power(x, n), m)
<1> DEFINE T == {n \in Nat : Unit(Power(x, n), m)}
<1>1. 0 \in T
  <2>1. Same(1 * 1, 1, m)
    BY SameIs
  <2> QED
    BY <2>1, PowerIs DEF Unit
<1>2. ASSUME NEW n \in Nat, n \in T
      PROVE  n + 1 \in T
  <2> DEFINE y == Power(x, n)
  <2>1. y \in Int /\ Unit(y, m) /\ Power(x, n + 1) = x * y
    BY <1>2, PowerIs
  <2> HIDE DEF y
  <2> QED
    BY <2>1, UnitProduct
<1>3. Nat \subseteq T
  <2> HIDE DEF T
  <2> QED
    BY <1>1, <1>2, Induction
<1> QED
  BY <1>3

\* BigNum::ModExp is the power, reduced.
LEMMA ModExpPower ==
  ASSUME NEW m \in Nat \ {0}, NEW b \in Int
  PROVE  \A e \in Nat : ModExp(b, e, m) = Power(b, e) % m
<1> DEFINE T == {e \in Nat : ModExp(b, e, m) = Power(b, e) % m}
<1>1. 0 \in T
  BY ModExpIs, PowerIs
<1>2. ASSUME NEW e \in Nat, e \in T
      PROVE  e + 1 \in T
  <2> DEFINE x == Power(b, e)
             y == ModExp(b, e, m)
  <2>1. x \in Int /\ Power(b, e + 1) = b * x /\ y = x % m
    BY <1>2, PowerIs
  <2>2. ModExp(b, e + 1, m) = (y * b) % m
    BY ModExpIs
  <2> HIDE DEF x, y
  <2>3. ((x % m) * b) % m = (x * b) % m
    BY <2>1, ResidueOfProduct, ZenonT(30)
  <2>4. x * b = b * x
    BY <2>1
  <2> QED
    BY <2>1, <2>2, <2>3, <2>4
<1>3. Nat \subseteq T
  <2> HIDE DEF T
  <2> QED
    BY <1>1, <1>2, Induction
<1> QED
  BY <1>3

-----------------------------------------------------------------------------
(* Powers modulo powers of a prime *)

\* Of a power of a sum, what is left modulo the square of the second number.
LEMMA PowerOfSum ==
  ASSUME NEW b \in Int, NEW x \in Int
  PROVE  \A n \in Nat : Same(Power(b + x, n + 1), Power(b, n + 1) + (n + 1) * (x * Power(b, n)), x * x)
<1> DEFINE c == b + x
           xx == x * x
           T == {n \in Nat : Same(Power(c, n + 1), Power(b, n + 1) + (n + 1) * (x * Power(b, n)), xx)}
<1>0. c \in Int /\ xx \in Int
  OBVIOUS
<1>1. 0 \in T
  <2>1. Power(c, 0 + 1) = c /\ Power(b, 0 + 1) = b /\ Power(b, 0) = 1
    BY <1>0, PowerIs, PowerOne
  <2>2. b + (0 + 1) * (x * 1) = c
    OBVIOUS
  <2> HIDE DEF c
  <2>3. Power(b, 0 + 1) + (0 + 1) * (x * Power(b, 0)) = c
    BY <2>1, <2>2
  <2>4. Same(c, c, xx)
    BY <1>0, SameIs
  <2> QED
    BY <2>1, <2>3, <2>4
<1>2. ASSUME NEW n \in Nat, n \in T
      PROVE  n + 1 \in T
  <2> DEFINE y == Power(b, n)
             z == Power(c, n + 1)
             w == b * y + (n + 1) * (x * y)
  <2>1. /\ y \in Int /\ z \in Int /\ Power(b, n + 1) = b * y
        /\ Power(b, (n + 1) + 1) = b * (b * y) /\ Power(c, (n + 1) + 1) = c * z
    <3>1. n + 1 \in Nat
      OBVIOUS
    <3> HIDE DEF c
    <3>2. Power(b, n) \in Int /\ Power(b, n + 1) = b * Power(b, n)
      BY PowerIs
    <3>3. Power(b, (n + 1) + 1) = b * Power(b, n + 1)
      BY <3>1, PowerIs
    <3>4. Power(c, n + 1) \in Int /\ Power(c, (n + 1) + 1) = c * Power(c, n + 1)
      BY <1>0, <3>1, PowerIs
    <3> QED
      BY <3>2, <3>3, <3>4
  <2>2. Same(z, w, xx)
    BY <1>2, <2>1
  <2> HIDE DEF y, z, xx
  <2>3. w \in Int
    BY <2>1
  <2>4. Same(c * z, c * w, xx)
    <3> HIDE DEF w, c
    <3>1. Same(c, c, xx)
      BY <1>0, SameIs
    <3> QED
      BY <1>0, <2>1, <2>2, <2>3, <3>1, SameProduct
  <2> DEFINE v == b * (b * y) + ((n + 1) + 1) * (x * (b * y))
             k == (n + 1) * y
  <2>5. c * w = v + k * (x * x) /\ v \in Int /\ k \in Int
    BY <2>1
  <2>6. Same(c * w, v, xx)
    BY <2>5 DEF Same, xx
  <2>7. Same(c * z, v, xx)
    <3>1. c * z \in Int /\ c * w \in Int
      BY <1>0, <2>1, <2>3
    <3> QED
      BY <1>0, <2>4, <2>5, <2>6, <3>1, SameIs
  <2>8. (n + 1) + 1 \in Nat /\ n + 1 \in Nat
    OBVIOUS
  <2> QED
    BY <2>1, <2>7, <2>8
<1>3. Nat \subseteq T
  <2> HIDE DEF T
  <2> QED
    BY <1>1, <1>2, Induction
<1> QED
  BY <1>3

\* The p-th powers are the same modulo one factor p more.
LEMMA PowerLifts ==
  ASSUME NEW p \in Nat \ {0}, NEW r \in Int, NEW a \in Int, NEW b \in Int, Same(a, b, p * r)
  PROVE  Same(Power(a, p), Power(b, p), p * (p * r))
<1> DEFINE q == p * r
<1>1. PICK k \in Int : a = b + k * q
  BY DEF Same
<1> DEFINE x == k * q
           n == p - 1
           y == Power(b, n)
<1>2. n \in Nat /\ n + 1 = p /\ q \in Int /\ x \in Int /\ y \in Int /\ a = b + x
  <2>1. n \in Nat /\ n + 1 = p /\ q \in Int /\ x \in Int /\ a = b + x
    BY <1>1
  <2> HIDE DEF n, q, x
  <2> QED
    BY <2>1, PowerIs
<1>3. Same(Power(a, p), Power(b, p) + p * (x * y), x * x)
  <2> HIDE DEF n, q, x
  <2>1. Same(Power(b + x, n + 1), Power(b, n + 1) + (n + 1) * (x * y), x * x)
    BY <1>2, PowerOfSum
  <2> QED
    BY <1>2, <2>1
<1>4. PICK t \in Int : Power(a, p) = (Power(b, p) + p * (x * y)) + t * (x * x)
  <2> HIDE DEF x
  <2> QED
    BY <1>3 DEF Same
<1>5. Power(b, p) \in Int
  BY PowerIs
<1> DEFINE h == k * y + ((t * k) * k) * r
<1>6. h \in Int /\ p * (x * y) + t * (x * x) = h * (p * q)
  <2> HIDE DEF y, n
  <2>1. h \in Int
    BY <1>2
  <2>2. p * (x * y) = (k * y) * (p * q)
    BY <1>2
  <2>3. x * x = (k * k) * (q * q) /\ q * q = r * (p * q)
    BY <1>2
  <2>4. t * (x * x) = (((t * k) * k) * r) * (p * q)
    <3> DEFINE qq == q * q
               pq == p * q
    <3>1. qq \in Int /\ pq \in Int /\ qq = r * pq /\ x * x = (k * k) * qq
      BY <1>2, <2>3
    <3> HIDE DEF qq, pq, q, x
    <3>2. t * ((k * k) * (r * pq)) = (((t * k) * k) * r) * pq
      BY <3>1
    <3> QED
      BY <3>1, <3>2 DEF pq
  <2> DEFINE pq == p * q
             u == k * y
             v == ((t * k) * k) * r
  <2>5. pq \in Int /\ u \in Int /\ v \in Int /\ p * (x * y) = u * pq /\ t * (x * x) = v * pq /\ h = u + v
    BY <1>2, <2>2, <2>4
  <2> HIDE DEF pq, u, v, h, x
  <2>6. h * pq = u * pq + v * pq
    BY <2>5
  <2> QED
    BY <2>1, <2>5, <2>6 DEF pq
<1>7. Power(a, p) = Power(b, p) + h * (p * q)
  <2> DEFINE U == Power(a, p)
             V == Power(b, p)
             C == p * (x * y)
             D == t * (x * x)
             H == h * (p * q)
  <2>1. V \in Int /\ C \in Int /\ D \in Int /\ U = (V + C) + D /\ C + D = H
    BY <1>2, <1>4, <1>5, <1>6
  <2> HIDE DEF U, V, C, D, H
  <2>2. U = V + H
    BY <2>1
  <2> QED
    BY <2>2 DEF U, V, H
<1> HIDE DEF h, q
<1>8. Same(Power(a, p), Power(b, p), p * q)
  BY <1>6, <1>7 DEF Same
<1> QED
  BY <1>8 DEF q

\* Numbers congruent modulo p have p ^ j-th powers congruent modulo p ^ (j + 1).
LEMMA PowersLift ==
  ASSUME NEW p \in Nat \ {0}, NEW a \in Int, NEW b \in Int, Same(a, b, p)
  PROVE  \A j \in Nat : Same(Power(a, Power(p, j)), Power(b, Power(p, j)), Power(p, j + 1))
<1> DEFINE T == {j \in Nat : Same(Power(a, Power(p, j)), Power(b, Power(p, j)), Power(p, j + 1))}
<1>0. \A j \in Nat : Power(p, j) \in Nat \ {0}
  BY PowerPositive
<1>1. 0 \in T
  BY PowerIs, PowerOne
<1>2. ASSUME NEW j \in Nat, j \in T
      PROVE  j + 1 \in T
  <2> DEFINE r == Power(p, j)
             x == Power(a, r)
             y == Power(b, r)
  <2>1. /\ r \in Nat /\ Power(p, j + 1) = p * r /\ Power(p, (j + 1) + 1) = p * (p * r)
        /\ x \in Int /\ y \in Int
    <3>1. r \in Nat
      BY <1>0
    <3>2. j + 1 \in Nat
      OBVIOUS
    <3>3. Power(p, j + 1) = p * r /\ Power(p, (j + 1) + 1) = p * (p * r)
      <4>1. p \in Int
        OBVIOUS
      <4>2. Power(p, j + 1) = p * Power(p, j)
        BY <4>1, PowerIs
      <4>3. Power(p, (j + 1) + 1) = p * Power(p, j + 1)
        BY <3>2, <4>1, PowerIs
      <4> QED
        BY <4>2, <4>3
    <3> HIDE DEF r
    <3> QED
      BY <3>1, <3>3, PowerIs
  <2>2. Same(x, y, p * r)
    BY <1>2, <2>1
  <2>3. Power(x, p) = Power(a, p * r) /\ Power(y, p) = Power(b, p * r)
    <3> HIDE DEF r
    <3>1. Power(x, p) = Power(a, r * p) /\ Power(y, p) = Power(b, r * p)
      BY <2>1, PowerOfPower
    <3>2. r * p = p * r
      BY <2>1
    <3> QED
      BY <3>1, <3>2
  <2> HIDE DEF r, x, y
  <2>4. Same(Power(x, p), Power(y, p), p * (p * r))
    BY <2>1, <2>2, PowerLifts
  <2> QED
    BY <2>1, <2>3, <2>4
<1>3. Nat \subseteq T
  <2> HIDE DEF T
  <2> QED
    BY <1>1, <1>2, Induction
<1> QED
  BY <1>3

-----------------------------------------------------------------------------
(* Falling products m (m - 1) ... (m - j + 1), and sums of multiples of them *)

Falling(m, j) ==
  LET fall[i \in Nat] == IF i = 0 THEN 1 ELSE fall[i - 1] * (m - (i - 1)) IN fall[j]

\* A falling product from its end, ...
LEMMA FallingIs ==
  ASSUME NEW m \in Int
  PROVE  /\ Falling(m, 0) = 1
         /\ \A j \in Nat : Falling(m, j) \in Int /\ Falling(m, j + 1) = Falling(m, j) * (m - j)
<1> DEFINE Is(f) == f = [i \in Nat |-> IF i = 0 THEN 1 ELSE f[i - 1] * (m - (i - 1))]
           F == CHOOSE f : Is(f)
           next == [i \in Nat |-> [x \in Int |-> x * (m - (i - 1))]]
<1>1. PICK g \in [Nat -> Int] : Recursive(g, 1, next)
  <2>1. next \in [Nat -> [Int -> Int]] /\ 1 \in Int
    OBVIOUS
  <2> HIDE DEF next
  <2> QED
    BY <2>1, Recursion
<1>2. Is(g)
  <2>1. g[0] = 1
    BY <1>1 DEF Recursive
  <2>2. ASSUME NEW i \in Nat \ {0}
        PROVE  g[i] = g[i - 1] * (m - (i - 1))
    <3>1. i - 1 \in Nat
      OBVIOUS
    <3>2. g[i] = next[i][g[i - 1]] /\ g[i - 1] \in Int
      BY <1>1, <3>1 DEF Recursive
    <3> QED
      BY <3>2
  <2> QED
    BY <1>1, <2>1, <2>2
<1>3. Is(F)
  <2> HIDE DEF Is
  <2> QED
    BY <1>2
<1>4. \A j : Falling(m, j) = F[j]
  BY DEF Falling
<1> HIDE DEF F
<1>5. F[0] = 1
  BY <1>3
<1>6. ASSUME NEW j \in Nat
      PROVE  F[j + 1] = F[j] * (m - j)
  <2>1. j + 1 \in Nat /\ j + 1 # 0 /\ (j + 1) - 1 = j
    OBVIOUS
  <2>2. F[j + 1] = F[(j + 1) - 1] * (m - ((j + 1) - 1))
    BY <1>3, <2>1
  <2> QED
    BY <2>1, <2>2
<1> DEFINE T == {j \in Nat : F[j] \in Int}
<1>7. Nat \subseteq T
  <2>1. 0 \in T
    BY <1>5
  <2>2. ASSUME NEW j \in Nat, j \in T
        PROVE  j + 1 \in T
    <3>1. F[j + 1] = F[j] * (m - j) /\ F[j] \in Int
      BY <1>6, <2>2
    <3> QED
      BY <3>1
  <2> HIDE DEF T
  <2> QED
    BY <2>1, <2>2, Induction
<1> HIDE DEF Is
<1> QED
  BY <1>4, <1>5, <1>6, <1>7

\* ... and from its start.
LEMMA FallingNext ==
  ASSUME NEW m \in Int
  PROVE  \A j \in Nat : Falling(m + 1, j + 1) = (m + 1) * Falling(m, j)
<1> DEFINE l == m + 1
           T == {j \in Nat : Falling(l, j + 1) = l * Falling(m, j)}
<1>0. l \in Int
  OBVIOUS
<1>1. 0 \in T
  <2>1. Falling(l, 0 + 1) = 1 * (l - 0) /\ Falling(m, 0) = 1
    <3>1. Falling(l, 0 + 1) = Falling(l, 0) * (l - 0) /\ Falling(l, 0) = 1
      BY <1>0, FallingIs
    <3> QED
      BY <3>1, FallingIs
  <2> QED
    BY <1>0, <2>1
<1>2. ASSUME NEW j \in Nat, j \in T
      PROVE  j + 1 \in T
  <2> DEFINE x == Falling(m, j)
  <2>1. /\ x \in Int /\ Falling(m, j + 1) = x * (m - j)
        /\ Falling(l, (j + 1) + 1) = Falling(l, j + 1) * (l - (j + 1))
    <3>1. j + 1 \in Nat
      OBVIOUS
    <3> QED
      BY <1>0, <3>1, FallingIs
  <2>2. Falling(l, j + 1) = l * x
    BY <1>2
  <2> HIDE DEF x
  <2>3. (l * x) * (l - (j + 1)) = l * (x * (m - j))
    <3>1. l - (j + 1) = m - j /\ m - j \in Int
      OBVIOUS
    <3> HIDE DEF l
    <3> QED
      BY <1>0, <2>1, <3>1
  <2> QED
    BY <2>1, <2>2, <2>3
<1>3. Nat \subseteq T
  <2> HIDE DEF T
  <2> QED
    BY <1>1, <1>2, Induction
<1> QED
  BY <1>3

\* A falling product that has passed 0 is 0.
LEMMA FallingEnds ==
  ASSUME NEW m \in Nat
  PROVE  \A j \in Nat : Falling(m, (m + 1) + j) = 0
<1> DEFINE T == {j \in Nat : Falling(m, (m + 1) + j) = 0}
<1>1. 0 \in T
  <2>1. Falling(m, m + 1) = Falling(m, m) * (m - m) /\ Falling(m, m) \in Int
    BY FallingIs
  <2>2. Falling(m, m) * (m - m) = 0 /\ (m + 1) + 0 = m + 1
    BY <2>1
  <2> QED
    BY <2>1, <2>2
<1>2. ASSUME NEW j \in Nat, j \in T
      PROVE  j + 1 \in T
  <2> DEFINE i == (m + 1) + j
  <2>1. i \in Nat /\ (m + 1) + (j + 1) = i + 1 /\ m - i \in Int
    OBVIOUS
  <2>2. Falling(m, i) = 0
    BY <1>2
  <2> HIDE DEF i
  <2>3. Falling(m, i + 1) = Falling(m, i) * (m - i)
    BY <2>1, FallingIs
  <2> QED
    BY <2>1, <2>2, <2>3
<1>3. Nat \subseteq T
  <2> HIDE DEF T
  <2> QED
    BY <1>1, <1>2, Induction
<1> QED
  BY <1>3

\* Falling products of congruent numbers are congruent.
LEMMA SameFalling ==
  ASSUME NEW m \in Int, NEW a \in Int, NEW b \in Int, Same(a, b, m)
  PROVE  \A j \in Nat : Same(Falling(a, j), Falling(b, j), m)
<1> DEFINE T == {j \in Nat : Same(Falling(a, j), Falling(b, j), m)}
<1>1. 0 \in T
  BY FallingIs, SameIs
<1>2. ASSUME NEW j \in Nat, j \in T
      PROVE  j + 1 \in T
  <2> DEFINE x == Falling(a, j)
             y == Falling(b, j)
             c == a - j
             d == b - j
  <2>1. /\ x \in Int /\ y \in Int /\ Same(x, y, m) /\ c \in Int /\ d \in Int
        /\ Falling(a, j + 1) = x * c /\ Falling(b, j + 1) = y * d
    BY <1>2, FallingIs
  <2>2. Same(c, d, m)
    <3>1. Same(j, j, m)
      BY SameIs
    <3> QED
      BY <3>1, SameSum
  <2> HIDE DEF x, y, c, d
  <2>3. Same(x * c, y * d, m)
    BY <2>1, <2>2, SameProduct
  <2> QED
    BY <2>1, <2>3
<1>3. Nat \subseteq T
  <2> HIDE DEF T
  <2> QED
    BY <1>1, <1>2, Induction
<1> QED
  BY <1>3

\* w[0] + ... + w[j].
Partial(w, j) ==
  LET sum[i \in Nat] == IF i = 0 THEN w[0] ELSE sum[i - 1] + w[i] IN sum[j]

\* A partial sum, and the next.
LEMMA PartialIs ==
  ASSUME NEW w \in [Nat -> Int]
  PROVE  /\ Partial(w, 0) = w[0]
         /\ \A j \in Nat : Partial(w, j) \in Int /\ Partial(w, j + 1) = Partial(w, j) + w[j + 1]
<1> DEFINE Is(f) == f = [i \in Nat |-> IF i = 0 THEN w[0] ELSE f[i - 1] + w[i]]
           F == CHOOSE f : Is(f)
           next == [i \in Nat |-> [x \in Int |-> x + w[i]]]
<1>1. PICK g \in [Nat -> Int] : Recursive(g, w[0], next)
  <2>1. next \in [Nat -> [Int -> Int]] /\ w[0] \in Int
    OBVIOUS
  <2> HIDE DEF next
  <2> QED
    BY <2>1, Recursion
<1>2. Is(g)
  <2>1. g[0] = w[0]
    BY <1>1 DEF Recursive
  <2>2. ASSUME NEW i \in Nat \ {0}
        PROVE  g[i] = g[i - 1] + w[i]
    <3>1. i - 1 \in Nat
      OBVIOUS
    <3>2. g[i] = next[i][g[i - 1]] /\ g[i - 1] \in Int
      BY <1>1, <3>1 DEF Recursive
    <3> QED
      BY <3>2
  <2> QED
    BY <1>1, <2>1, <2>2
<1>3. Is(F)
  <2> HIDE DEF Is
  <2> QED
    BY <1>2
<1>4. \A j : Partial(w, j) = F[j]
  BY DEF Partial
<1> HIDE DEF F
<1>5. F[0] = w[0]
  BY <1>3
<1>6. ASSUME NEW j \in Nat
      PROVE  F[j + 1] = F[j] + w[j + 1]
  <2>1. j + 1 \in Nat /\ j + 1 # 0 /\ (j + 1) - 1 = j
    OBVIOUS
  <2>2. F[j + 1] = F[(j + 1) - 1] + w[j + 1]
    BY <1>3, <2>1
  <2> QED
    BY <2>1, <2>2
<1> DEFINE T == {j \in Nat : F[j] \in Int}
<1>7. Nat \subseteq T
  <2>1. 0 \in T
    BY <1>5
  <2>2. ASSUME NEW j \in Nat, j \in T
        PROVE  j + 1 \in T
    <3>1. F[j + 1] = F[j] + w[j + 1] /\ F[j] \in Int /\ w[j + 1] \in Int
      BY <1>6, <2>2
    <3> QED
      BY <3>1
  <2> HIDE DEF T
  <2> QED
    BY <2>1, <2>2, Induction
<1> HIDE DEF Is
<1> QED
  BY <1>4, <1>5, <1>6, <1>7

\* The binomial expansion of a power of 1 + x: m (m - 1) ... (m - j + 1) times
\* Q[j], which stands for x ^ j / j!.
Expansion(Q, m) == [j \in Nat |-> Falling(m, j) * Q[j]]

Binomial(Q, x, J, M) ==
  /\ Q \in [Nat -> Int] /\ Q[0] = 1
  /\ \A j \in Nat : j < J => Same((j + 1) * Q[j + 1], x * Q[j], M)

\* The partial sums of an expansion.
LEMMA ExpansionIs ==
  ASSUME NEW Q \in [Nat -> Int], Q[0] = 1, NEW m \in Int
  PROVE  /\ Expansion(Q, m) \in [Nat -> Int]
         /\ Partial(Expansion(Q, m), 0) = 1
         /\ \A j \in Nat : /\ Partial(Expansion(Q, m), j) \in Int
                           /\ Partial(Expansion(Q, m), j + 1)
                                = Partial(Expansion(Q, m), j) + Falling(m, j + 1) * Q[j + 1]
<1> DEFINE w == Expansion(Q, m)
<1>1. ASSUME NEW j \in Nat
      PROVE  w[j] = Falling(m, j) * Q[j] /\ w[j] \in Int
  <2>1. Falling(m, j) \in Int /\ Q[j] \in Int
    BY FallingIs
  <2>2. Falling(m, j) * Q[j] \in Int
    BY <2>1
  <2> QED
    BY <2>2 DEF Expansion
<1>2. w \in [Nat -> Int]
  BY <1>1 DEF Expansion
<1>3. w[0] = 1
  <2>1. w[0] = Falling(m, 0) * Q[0] /\ Falling(m, 0) = 1
    BY <1>1, FallingIs
  <2> QED
    BY <2>1
<1> HIDE DEF w
<1>4. \A j \in Nat : w[j + 1] = Falling(m, j + 1) * Q[j + 1]
  BY <1>1
<1> QED
  BY <1>2, <1>3, <1>4, PartialIs DEF w

\* The expansion for m + 1 is that for m times 1 + x, but for what is cut off.
LEMMA ExpansionNext ==
  ASSUME NEW Q, NEW x \in Int, NEW J \in Nat, NEW M \in Int, Binomial(Q, x, J, M), NEW m \in Int
  PROVE  \A j \in Nat : j <= J =>
           Same(Partial(Expansion(Q, m + 1), j),
                (1 + x) * Partial(Expansion(Q, m), j) - x * (Falling(m, j) * Q[j]), M)
<1> DEFINE D(j) == Partial(Expansion(Q, m + 1), j)
           E(j) == Partial(Expansion(Q, m), j)
           T == {j \in Nat : j <= J => Same(D(j), (1 + x) * E(j) - x * (Falling(m, j) * Q[j]), M)}
<1>0. Q \in [Nat -> Int] /\ Q[0] = 1 /\ m + 1 \in Int
  BY DEF Binomial
<1>a. /\ D(0) = 1 /\ E(0) = 1
      /\ \A j \in Nat : /\ D(j) \in Int /\ D(j + 1) = D(j) + Falling(m + 1, j + 1) * Q[j + 1]
                        /\ E(j) \in Int /\ E(j + 1) = E(j) + Falling(m, j + 1) * Q[j + 1]
  BY <1>0, ExpansionIs
<1>1. 0 \in T
  <2>1. D(0) = (1 + x) * E(0) - x * (Falling(m, 0) * Q[0])
    BY <1>0, <1>a, FallingIs
  <2>2. Same(D(0), D(0), M)
    BY <1>a, SameIs
  <2> QED
    BY <2>1, <2>2
<1> HIDE DEF D, E
<1>2. ASSUME NEW j \in Nat, j \in T
      PROVE  j + 1 \in T
  <2> SUFFICES ASSUME j + 1 <= J
               PROVE  Same(D(j + 1), (1 + x) * E(j + 1) - x * (Falling(m, j + 1) * Q[j + 1]), M)
    OBVIOUS
  <2> DEFINE d == D(j)
             e == E(j)
             f == Falling(m, j)
             p == Q[j]
             q == Q[j + 1]
  <2>1. /\ d \in Int /\ e \in Int /\ f \in Int /\ p \in Int /\ q \in Int
        /\ Falling(m, j + 1) = f * (m - j) /\ Falling(m + 1, j + 1) = (m + 1) * f
    <3>1. j + 1 \in Nat
      OBVIOUS
    <3>2. f \in Int /\ Falling(m, j + 1) = f * (m - j)
      BY FallingIs
    <3>3. Falling(m + 1, j + 1) = (m + 1) * f
      BY FallingNext
    <3>4. d \in Int /\ e \in Int /\ p \in Int /\ q \in Int
      BY <1>0, <1>a, <3>1
    <3> QED
      BY <3>2, <3>3, <3>4
  <2>2. D(j + 1) = d + ((m + 1) * f) * q /\ E(j + 1) = e + (f * (m - j)) * q
    BY <1>a, <2>1
  <2>3. Same(d, (1 + x) * e - x * (f * p), M)
    BY <1>2
  <2>4. Same((j + 1) * q, x * p, M)
    BY DEF Binomial
  <2> HIDE DEF d, e, f, p, q
  <2>5. Same(f * ((j + 1) * q), f * (x * p), M)
    <3>1. (j + 1) * q \in Int /\ x * p \in Int /\ Same(f, f, M)
      BY <2>1, SameIs
    <3> QED
      BY <2>1, <2>4, <3>1, SameProduct
  <2> DEFINE U == (1 + x) * e - x * (f * p)
             V == f * ((j + 1) * q)
             C == f * (x * p)
             G == (f * (m - j)) * q
  <2>6. U \in Int /\ V \in Int /\ C \in Int /\ G \in Int
    BY <2>1
  <2>7. ((m + 1) * f) * q = G + V
    BY <2>1
  <2>8. (U + C) + G = (1 + x) * (e + G) - x * G
    BY <2>1
  <2> HIDE DEF U, V, C, G
  <2>9. Same((d + V) + G, (U + C) + G, M)
    <3>1. Same(d + V, U + C, M) /\ d + V \in Int /\ U + C \in Int
      BY <2>1, <2>3, <2>5, <2>6, SameSum DEF U, V, C
    <3>2. Same(G, G, M)
      BY <2>6, SameIs
    <3> QED
      BY <2>6, <3>1, <3>2, SameSum
  <2>10. D(j + 1) = (d + V) + G
    BY <2>1, <2>2, <2>6, <2>7
  <2>11. E(j + 1) = e + G /\ Falling(m, j + 1) * Q[j + 1] = G
    BY <2>1, <2>2 DEF G, q
  <2> QED
    BY <2>8, <2>9, <2>10, <2>11
<1>3. Nat \subseteq T
  <2> HIDE DEF T
  <2> QED
    BY <1>1, <1>2, Induction
<1> QED
  BY <1>3 DEF D, E

\* The sum ends where the falling products do, ...
LEMMA ExpansionShort ==
  ASSUME NEW Q \in [Nat -> Int], Q[0] = 1, NEW m \in Nat
  PROVE  \A k \in Nat : Partial(Expansion(Q, m), m + k) = Partial(Expansion(Q, m), m)
<1> DEFINE E(j) == Partial(Expansion(Q, m), j)
           T == {k \in Nat : E(m + k) = E(m)}
<1>1. 0 \in T
  OBVIOUS
<1>2. ASSUME NEW k \in Nat, k \in T
      PROVE  k + 1 \in T
  <2> DEFINE j == m + k
  <2>1. j \in Nat /\ m + (k + 1) = j + 1 /\ j + 1 = (m + 1) + k /\ Q[j + 1] \in Int
    OBVIOUS
  <2>2. Falling(m, (m + 1) + k) = 0
    BY FallingEnds
  <2>3. E(j + 1) = E(j) + Falling(m, j + 1) * Q[j + 1] /\ E(j) \in Int
    <3>1. m \in Int
      OBVIOUS
    <3> HIDE DEF j
    <3> QED
      BY <2>1, <3>1, ExpansionIs
  <2>4. E(j) = E(m)
    BY <1>2
  <2> HIDE DEF j, E
  <2> QED
    BY <2>1, <2>2, <2>3, <2>4
<1>3. Nat \subseteq T
  <2> HIDE DEF T
  <2> QED
    BY <1>1, <1>2, Induction
<1> QED
  BY <1>3

\* ... and is the power, for every m that leaves nothing after the term J.
LEMMA ExpansionPower ==
  ASSUME NEW Q, NEW x \in Int, NEW J \in Nat, NEW M \in Int, Binomial(Q, x, J, M),
         NEW N, N \subseteq Nat, \A m \in Nat : m + 1 \in N => m \in N,
         \A m \in Nat : m + 1 \in N => Same(x * (Falling(m, J) * Q[J]), 0, M)
  PROVE  \A m \in N : Same(Partial(Expansion(Q, m), J), Power(1 + x, m), M)
<1> DEFINE E(m) == Partial(Expansion(Q, m), J)
           b == 1 + x
           T == {m \in Nat : m \in N => Same(E(m), Power(b, m), M)}
<1>0. Q \in [Nat -> Int] /\ Q[0] = 1 /\ b \in Int
  BY DEF Binomial
<1>a. \A m \in Int : E(m) \in Int
  BY <1>0, ExpansionIs
<1>1. 0 \in T
  <2>1. J \in Nat /\ 0 + J = J
    OBVIOUS
  <2>2. E(0) = Partial(Expansion(Q, 0), 0)
    BY <1>0, <2>1, ExpansionShort
  <2>3. E(0) = 1
    BY <1>0, <2>2, ExpansionIs
  <2>4. Power(b, 0) = 1 /\ Same(1, 1, M)
    BY <1>0, PowerIs, SameIs
  <2> QED
    BY <2>3, <2>4
<1> HIDE DEF E
<1>2. ASSUME NEW m \in Nat, m \in T
      PROVE  m + 1 \in T
  <2> SUFFICES ASSUME m + 1 \in N PROVE Same(E(m + 1), Power(b, m + 1), M)
    OBVIOUS
  <2> DEFINE e == E(m)
             g == x * (Falling(m, J) * Q[J])
             y == Power(b, m)
  <2>1. e \in Int /\ g \in Int /\ y \in Int /\ Power(b, m + 1) = b * y /\ E(m + 1) \in Int
    <3>1. Falling(m, J) \in Int /\ Q[J] \in Int
      BY <1>0, FallingIs
    <3>2. e \in Int /\ y \in Int /\ Power(b, m + 1) = b * y /\ E(m + 1) \in Int
      <4>1. m \in Int /\ m + 1 \in Int
        OBVIOUS
      <4> HIDE DEF b
      <4>2. y \in Int /\ Power(b, m + 1) = b * y
        BY <1>0, PowerIs
      <4> QED
        BY <1>a, <4>1, <4>2
    <3>3. g \in Int
      BY <3>1
    <3> QED
      BY <3>2, <3>3
  <2>2. Same(E(m + 1), b * e - g, M)
    BY ExpansionNext DEF E
  <2>3. Same(g, 0, M) /\ Same(e, y, M)
    BY <1>2
  <2> HIDE DEF e, g, y, b
  <2>4. Same(b, b, M)
    BY <1>0, SameIs
  <2>5. Same(b * e, b * y, M) /\ b * e \in Int /\ b * y \in Int
    BY <1>0, <2>1, <2>3, <2>4, SameProduct
  <2>6. Same(b * e - g, b * y - 0, M)
    <3>1. 0 \in Int
      OBVIOUS
    <3> QED
      BY <2>1, <2>3, <2>5, <3>1, SameSum
  <2>7. b * y - 0 = b * y /\ b * e - g \in Int
    BY <2>1, <2>5
  <2>8. Same(E(m + 1), b * y, M)
    BY <2>1, <2>2, <2>5, <2>6, <2>7, SameIs
  <2> QED
    BY <2>1, <2>8
<1>3. Nat \subseteq T
  <2> HIDE DEF T
  <2> QED
    BY <1>1, <1>2, Induction
<1> QED
  BY <1>3 DEF E

-----------------------------------------------------------------------------
(* Numbers that have inverses *)

\* What a prime does not divide is a unit modulo it, ...
LEMMA UnitPrime ==
  ASSUME NEW p \in Nat, Prime(p), NEW x \in Int, x % p # 0
  PROVE  Unit(x, p)
<1>1. PICK y \in 0 .. p - 1 : ((x % p) * y) % p = 1
  BY InverseExists
<1>2. p \in Nat \ {0} /\ 1 < p /\ y \in Int
  BY DEF Prime
<1>3. ((x % p) * y) % p = (x * y) % p
  BY <1>2, ResidueOfProduct
<1>4. 1 % p = 1
  BY <1>2, SmallResidue
<1>5. x * y \in Int /\ 1 \in Int /\ (x * y) % p = 1 % p
  BY <1>1, <1>2, <1>3, <1>4
<1>6. Same(x * y, 1, p)
  BY <1>2, <1>5, SameResidue
<1> QED
  BY <1>2, <1>6 DEF Unit

\* ... modulo its powers, ...
LEMMA UnitLift ==
  ASSUME NEW m \in Nat \ {0}, NEW x \in Int, Unit(x, m)
  PROVE  \A j \in Nat : Unit(x, Power(m, j + 1))
<1> TAKE j \in Nat
<1>1. PICK y \in Int : Same(x * y, 1, m)
  BY DEF Unit
<1> DEFINE z == x * y
           N == Power(m, j)
<1>2. z \in Int /\ N \in Nat \ {0} /\ 1 \in Int
  BY PowerPositive
<1>3. Same(Power(z, N), Power(1, N), Power(m, j + 1))
  <2> HIDE DEF z
  <2> QED
    BY <1>1, <1>2, PowersLift DEF z
<1> HIDE DEF N
<1>4. Power(1, N) = 1
  BY <1>2, PowerOfOne
<1> DEFINE w == Power(z, N - 1)
<1>5. Power(z, N) = z * w /\ w \in Int
  <2> HIDE DEF z
  <2> QED
    BY <1>2, PowerOne
<1> HIDE DEF w
<1>6. z * w = x * (y * w) /\ y * w \in Int
  BY <1>5
<1>7. Same(x * (y * w), 1, Power(m, j + 1))
  BY <1>3, <1>4, <1>5, <1>6
<1> QED
  BY <1>6, <1>7 DEF Unit

\* ... a unit modulo both factors is one modulo their product, ...
LEMMA UnitsJoin ==
  ASSUME NEW m \in Int, NEW n \in Int, NEW x \in Int, Unit(x, m), Unit(x, n)
  PROVE  Unit(x, m * n)
<1>1. PICK u \in Int : Same(x * u, 1, m)
  BY DEF Unit
<1>2. PICK v \in Int : Same(x * v, 1, n)
  BY DEF Unit
<1>3. PICK k \in Int : x * u = 1 + k * m
  BY <1>1 DEF Same
<1>4. PICK l \in Int : x * v = 1 + l * n
  BY <1>2 DEF Same
<1> DEFINE y == (u + v) - x * (u * v)
           h == 0 - k * l
<1>5. y \in Int /\ h \in Int
  OBVIOUS
<1>6. x * y = 1 + h * (m * n)
  <2> DEFINE a == k * m
             b == l * n
  <2>1. a \in Int /\ b \in Int
    OBVIOUS
  <2>2. x * y = (x * u + x * v) - (x * u) * (x * v)
    OBVIOUS
  <2>3. h * (m * n) = 0 - a * b
    OBVIOUS
  <2> HIDE DEF a, b, y, h
  <2>4. x * y = ((1 + a) + (1 + b)) - (1 + a) * (1 + b)
    BY <1>3, <1>4, <2>2 DEF a, b
  <2> QED
    BY <2>1, <2>3, <2>4
<1> HIDE DEF y, h
<1>7. Same(x * y, 1, m * n)
  BY <1>5, <1>6 DEF Same
<1> QED
  BY <1>5, <1>7 DEF Unit

\* ... and the other way round.
LEMMA UnitDivisor ==
  ASSUME NEW m \in Int, NEW n \in Int, NEW x \in Int, Unit(x, m * n)
  PROVE  Unit(x, m)
<1>1. PICK y \in Int : Same(x * y, 1, m * n)
  BY DEF Unit
<1>2. x * y \in Int /\ 1 \in Int
  OBVIOUS
<1>3. Same(x * y, 1, m)
  BY <1>1, <1>2, SameDivisor
<1> QED
  BY <1>3 DEF Unit

\* ModInverse finds the inverse of a unit, whatever the modulus.
LEMMA ModInverseUnit ==
  ASSUME NEW m \in Nat \ {0}, NEW x \in Int, Unit(x, m)
  PROVE  ModInverse(x, m) \in 0 .. m - 1 /\ Same(x * ModInverse(x, m), 1, m)
<1> DEFINE y == ModInverse(x, m)
<1>1. PICK u \in Int : Same(x * u, 1, m)
  BY DEF Unit
<1>2. u % m \in 0 .. m - 1 /\ u % m \in Int /\ x % m \in Int
  BY SameMod
<1>3. ((x % m) * (u % m)) % m = 1 % m
  <2>1. ((x % m) * (u % m)) % m = (x * u) % m
    BY ResidueOfProduct
  <2>2. x * u \in Int /\ 1 \in Int
    OBVIOUS
  <2>3. (x * u) % m = 1 % m
    BY <1>1, <2>2, SameResidue
  <2> QED
    BY <2>1, <2>3
<1>4. y \in 0 .. m - 1 /\ ((x % m) * y) % m = 1 % m
  BY <1>2, <1>3 DEF ModInverse
<1> HIDE DEF y
<1>5. y \in Int /\ x * y \in Int /\ 1 \in Int
  BY <1>4
<1>6. ((x % m) * y) % m = (x * y) % m
  BY <1>5, ResidueOfProduct
<1>7. Same(x * y, 1, m)
  BY <1>4, <1>5, <1>6, SameResidue
<1> QED
  BY <1>4, <1>7 DEF y

-----------------------------------------------------------------------------
(* Two moduli without a common factor *)

\* Numbers congruent modulo both are congruent modulo the product.
LEMMA SameJoin ==
  ASSUME NEW m \in Int, NEW n \in Int, Unit(m, n), NEW a \in Int, NEW b \in Int,
         Same(a, b, m), Same(a, b, n)
  PROVE  Same(a, b, m * n)
<1>1. PICK k \in Int : a = b + k * m
  BY DEF Same
<1>2. PICK l \in Int : a = b + l * n
  BY DEF Same
<1>3. Same(m * k, m * 0, n)
  <2>1. m * k = m * 0 + l * n
    BY <1>1, <1>2
  <2> QED
    BY <2>1 DEF Same
<1>4. Same(k, 0, n)
  <2>1. 0 \in Int
    OBVIOUS
  <2> QED
    BY <1>3, <2>1, UnitCancels
<1>5. PICK j \in Int : k = 0 + j * n
  BY <1>4 DEF Same
<1>6. a = b + j * (m * n)
  <2>1. k * m = j * (m * n)
    BY <1>5
  <2> QED
    BY <1>1, <2>1
<1> QED
  BY <1>6 DEF Same

\* A combination of two numbers, by coefficients 1 and 0.
LEMMA SameCombination ==
  ASSUME NEW k \in Int, NEW a \in Int, NEW b \in Int, NEW c \in Int, NEW d \in Int,
         Same(c, 1, k), Same(d, 0, k)
  PROVE  Same(a * c + b * d, a, k)
<1>1. Same(a, a, k) /\ Same(b, b, k)
  BY SameIs
<1>2. 0 \in Int /\ 1 \in Int /\ a * 1 = a /\ b * 0 = 0 /\ a + 0 = a /\ a * c \in Int /\ b * d \in Int
  OBVIOUS
<1>3. Same(a * c, a * 1, k) /\ Same(b * d, b * 0, k)
  BY <1>1, <1>2, SameProduct
<1>4. Same(a * c, a, k) /\ Same(b * d, 0, k)
  BY <1>2, <1>3
<1>5. Same(a * c + b * d, a + 0, k)
  BY <1>2, <1>4, SameSum
<1> QED
  BY <1>2, <1>5

\* TwoModulusCrt (crypto/two_modulus_crt.cc) finds the number below the product that has
\* both residues, if the moduli have no common factor.
THEOREM TwoModulusCrtIs ==
  ASSUME NEW m \in Nat \ {0}, NEW n \in Nat \ {0}, Unit(m, n), Unit(n, m),
         NEW s \in Int, NEW t \in Int
  PROVE  /\ TwoModulusCrt(s, t, m, n) \in 0 .. m * n - 1
         /\ Same(TwoModulusCrt(s, t, m, n), s, m)
         /\ Same(TwoModulusCrt(s, t, m, n), t, n)
<1> DEFINE i == ModInverse(n, m)
           j == ModInverse(m, n)
           ni == n * i
           mj == m * j
           w == s * ni + t * mj
           r == TwoModulusCrt(s, t, m, n)
           mn == m * n
<1>1. i \in Int /\ j \in Int /\ Same(ni, 1, m) /\ Same(mj, 1, n)
  <2>1. i \in 0 .. m - 1 /\ j \in 0 .. n - 1 /\ Same(ni, 1, m) /\ Same(mj, 1, n)
    BY ModInverseUnit
  <2> HIDE DEF i, j, ni, mj
  <2> QED
    BY <2>1
<1>2. r = w % mn
  BY DEF TwoModulusCrt
<1> HIDE DEF i, j, r
<1>3. Same(ni, 0, n) /\ Same(mj, 0, m) /\ ni \in Int /\ mj \in Int
  <2>1. ni = 0 + i * n /\ mj = 0 + j * m
    BY <1>1
  <2>2. ni \in Int /\ mj \in Int
    BY <1>1
  <2> HIDE DEF ni, mj
  <2> QED
    BY <1>1, <2>1, <2>2 DEF Same
<1> HIDE DEF ni, mj
<1>4. w \in Int /\ mn \in Nat \ {0} /\ mn = n * m
  BY <1>3
<1> HIDE DEF mn
<1>5. r \in 0 .. mn - 1 /\ r \in Int /\ Same(r, w, mn)
  <2> HIDE DEF w
  <2> QED
    BY <1>2, <1>4, SameMod
<1>6. Same(r, w, m) /\ Same(r, w, n)
  <2> HIDE DEF w
  <2>1. Same(r, w, m * n) /\ Same(r, w, n * m)
    BY <1>4, <1>5 DEF mn
  <2>2. m \in Int /\ n \in Int
    OBVIOUS
  <2> QED
    BY <1>4, <1>5, <2>1, <2>2, SameDivisor
<1> DEFINE sn == s * ni
           tm == t * mj
<1>7. sn \in Int /\ tm \in Int /\ m \in Int /\ n \in Int /\ w = sn + tm /\ w = tm + sn
  <2>1. sn \in Int /\ tm \in Int /\ w = sn + tm
    BY <1>3
  <2> HIDE DEF sn, tm
  <2> QED
    BY <2>1
<1>8. Same(w, s, m)
  <2> HIDE DEF w
  <2>1. Same(sn + tm, s, m)
    BY <1>1, <1>3, <1>7, SameCombination
  <2> QED
    BY <1>7, <2>1
<1>9. Same(tm + sn, t, n)
  <2> HIDE DEF w
  <2> QED
    BY <1>1, <1>3, <1>7, SameCombination
<1>10. w = tm + sn
  BY <1>7
<1> HIDE DEF w
<1>11. Same(w, t, n)
  BY <1>9, <1>10
<1>12. Same(r, s, m) /\ Same(r, t, n)
  BY <1>4, <1>5, <1>6, <1>8, <1>11, SameIs
<1> QED
  BY <1>5, <1>12 DEF r, mn

\* Two primes are units to each other, ...
LEMMA PrimesUnits ==
  ASSUME NEW p \in Nat, NEW q \in Nat, Prime(p), Prime(q), p # q
  PROVE  Unit(p, q)
<1>1. p > 1 /\ q > 1 /\ q \in Nat \ {0}
  BY DEF Prime
<1>2. p % q # 0
  <2>1. CASE p < q
    BY <1>1, <2>1, SmallResidue
  <2>2. CASE q < p
    <3>1. q \in 2 .. p - 1
      BY <1>1, <2>2
    <3> QED
      BY <3>1 DEF Prime
  <2> QED
    BY <2>1, <2>2
<1> QED
  BY <1>2, UnitPrime

\* ... and so are their powers.
LEMMA UnitsOfPowers ==
  ASSUME NEW m \in Nat \ {0}, NEW n \in Nat \ {0}, Unit(m, n)
  PROVE  \A i, j \in Nat : Unit(Power(m, i), Power(n, j + 1))
<1> TAKE i, j \in Nat
<1>1. Unit(m, Power(n, j + 1))
  BY UnitLift
<1>2. Power(n, j + 1) \in Int
  BY PowerIs
<1> QED
  BY <1>1, <1>2, UnitPower

\* Of a product of two primes.
LEMMA CoprimeIs ==
  ASSUME NEW p \in Nat, NEW q \in Nat, Prime(p), Prime(q), NEW x \in Int
  PROVE  IsCoprime(x, p * q) <=> Unit(x, p) /\ Unit(x, q)
<1> DEFINE n == p * q
<1>1. p \in 2 .. n /\ q \in 2 .. n /\ n \in Nat \ {0} /\ n % p = 0 /\ n % q = 0
  <2>1. p > 1 /\ q > 1
    BY DEF Prime
  <2>2. n >= p /\ n >= q /\ n \in Nat
    BY <2>1
  <2>3. n = p * q + 0 /\ n = q * p + 0 /\ 0 \in 0 .. p - 1 /\ 0 \in 0 .. q - 1
    BY <2>1
  <2> HIDE DEF n
  <2>4. n % p = 0
    BY <2>1, <2>3, DivisionIs
  <2>5. n % q = 0
    BY <2>1, <2>3, DivisionIs
  <2> QED
    BY <2>1, <2>2, <2>4, <2>5
<1>2. ASSUME IsCoprime(x, n)
      PROVE  Unit(x, p) /\ Unit(x, q)
  <2>1. x % p # 0 /\ x % q # 0
    <3> HIDE DEF n
    <3> QED
      BY <1>1, <1>2 DEF IsCoprime
  <2> QED
    BY <2>1, UnitPrime
<1>3. ASSUME Unit(x, p), Unit(x, q)
      PROVE  IsCoprime(x, n)
  <2>1. Unit(x, n)
    BY <1>3, UnitsJoin
  <2> HIDE DEF n
  <2>2. PICK y \in Int : Same(x * y, 1, n)
    BY <2>1 DEF Unit
  <2>3. SUFFICES ASSUME NEW d \in 2 .. n, n % d = 0, x % d = 0
                 PROVE  FALSE
    BY DEF IsCoprime
  <2>4. d \in Nat \ {0} /\ d > 1 /\ x * y \in Int /\ 1 \in Int
    OBVIOUS
  <2>5. n = d * (n \div d) /\ n \div d \in Int
    BY <1>1, <2>3, <2>4, DivisionOf
  <2> DEFINE e == n \div d
  <2>6. Same(x * y, 1, d)
    <3> HIDE DEF e
    <3>1. Same(x * y, 1, d * e)
      BY <2>2, <2>5 DEF e
    <3> QED
      BY <2>4, <2>5, <3>1, SameDivisor DEF e
  <2>7. (x * y) % d = 1
    <3>1. 1 % d = 1
      BY <2>4, SmallResidue
    <3> QED
      BY <2>4, <2>6, <3>1, SameResidue
  <2>8. (x * y) % d = 0
    <3>1. ((x % d) * y) % d = (x * y) % d
      BY <2>4, ResidueOfProduct
    <3>2. 0 * y = 0 /\ 0 % d = 0
      BY <2>4, SmallResidue
    <3> QED
      BY <2>3, <3>1, <3>2
  <2> QED
    BY <2>7, <2>8
<1> QED
  BY <1>2, <1>3

-----------------------------------------------------------------------------
(* Fermat's theorem, by the binomial expansion *)

\* The p-th power of a successor.
LEMMA PowerOfNext ==
  ASSUME NEW p \in Nat, Prime(p), NEW x \in Int
  PROVE  Same(Power(1 + x, p), 1 + Power(x, p), p)
<1> DEFINE J == p - 1
           inv == [j \in Nat |-> IF Unit(j, p) THEN CHOOSE y \in Int : Same(j * y, 1, p) ELSE 0]
           next == [j \in Nat |-> [y \in Int |-> (x * y) * inv[j]]]
<1>1. p \in Nat \ {0} /\ p > 1 /\ J \in Nat /\ J + 1 = p
  BY DEF Prime
<1>2. \A j \in Nat : inv[j] \in Int
  <2> SUFFICES ASSUME NEW j \in Nat
               PROVE  inv[j] \in Int
    OBVIOUS
  <2> DEFINE i == CHOOSE y \in Int : Same(j * y, 1, p)
  <2>1. Unit(j, p) => i \in Int
    BY DEF Unit
  <2>2. inv[j] = IF Unit(j, p) THEN i ELSE 0
    OBVIOUS
  <2> HIDE DEF inv, i
  <2> QED
    BY <2>1, <2>2
<1>3. ASSUME NEW j \in Nat, j < J
      PROVE  Same((j + 1) * inv[j + 1], 1, p)
  <2>1. j + 1 \in Nat /\ (j + 1) < p /\ j + 1 # 0 /\ j + 1 \in Int
    BY <1>1, <1>3
  <2>2. (j + 1) % p # 0
    BY <1>1, <2>1, SmallResidue
  <2>3. Unit(j + 1, p)
    BY <2>1, <2>2, UnitPrime
  <2>4. \E y \in Int : Same((j + 1) * y, 1, p)
    BY <2>3 DEF Unit
  <2>5. inv[j + 1] = CHOOSE y \in Int : Same((j + 1) * y, 1, p)
    BY <2>1, <2>3
  <2> HIDE DEF inv
  <2> QED
    BY <2>4, <2>5
<1>4. PICK Q \in [Nat -> Int] : Recursive(Q, 1, next)
  <2>1. next \in [Nat -> [Int -> Int]] /\ 1 \in Int
    <3> HIDE DEF inv
    <3>1. \A j \in Nat, y \in Int : (x * y) * inv[j] \in Int
      BY <1>2
    <3>2. \A j \in Nat : [y \in Int |-> (x * y) * inv[j]] \in [Int -> Int]
      BY <3>1
    <3> QED
      BY <3>2
  <2> HIDE DEF next
  <2> QED
    BY <2>1, Recursion
<1>5. Q[0] = 1 /\ \A j \in Nat : Q[j + 1] = (x * Q[j]) * inv[j + 1]
  <2>1. Q[0] = 1
    BY <1>4 DEF Recursive
  <2>2. ASSUME NEW j \in Nat
        PROVE  Q[j + 1] = (x * Q[j]) * inv[j + 1]
    <3>1. j + 1 \in Nat \ {0} /\ (j + 1) - 1 = j
      OBVIOUS
    <3>2. Q[j + 1] = next[j + 1][Q[j]] /\ Q[j] \in Int
      BY <1>4, <3>1 DEF Recursive
    <3> HIDE DEF inv
    <3> QED
      BY <3>1, <3>2
  <2> QED
    BY <2>1, <2>2
<1> HIDE DEF inv, next
<1>6. Binomial(Q, x, J, p)
  <2>1. ASSUME NEW j \in Nat, j < J
        PROVE  Same((j + 1) * Q[j + 1], x * Q[j], p)
    <3> DEFINE y == x * Q[j]
               i == inv[j + 1]
               ji == (j + 1) * i
    <3>1. y \in Int /\ i \in Int /\ j + 1 \in Int /\ ji \in Int /\ Same(ji, 1, p) /\ Q[j + 1] = y * i
      <4>1. y \in Int /\ i \in Int /\ Same(ji, 1, p) /\ Q[j + 1] = y * i
        BY <1>2, <1>3, <1>5, <2>1
      <4> HIDE DEF y, i
      <4> QED
        BY <4>1
    <3> HIDE DEF y, i
    <3>2. (j + 1) * (y * i) = y * ji /\ y * 1 = y
      BY <3>1
    <3>3. Same(y, y, p) /\ 1 \in Int /\ p \in Int
      BY <3>1, SameIs
    <3> HIDE DEF ji
    <3>4. Same(y * ji, y * 1, p)
      BY <3>1, <3>3, SameProduct
    <3> QED
      BY <3>1, <3>2, <3>4 DEF y
  <2> QED
    BY <1>4, <1>5, <2>1 DEF Binomial
<1> DEFINE E(m) == Partial(Expansion(Q, m), J)
           b == 1 + x
           F(j) == Falling(j, j) * Q[j]
           N == 0 .. J
\* the expansions below p are the powers
<1>7. Same(E(J), Power(b, J), p)
  <2>1. N \subseteq Nat /\ (\A m \in Nat : m + 1 \in N => m \in N) /\ J \in N /\ p \in Int
    BY <1>1
  <2>2. ASSUME NEW m \in Nat, m + 1 \in N
        PROVE  Same(x * (Falling(m, J) * Q[J]), 0, p)
    <3>1. (J - (m + 1)) \in Nat /\ (m + 1) + (J - (m + 1)) = J
      BY <1>1, <2>2
    <3>2. Falling(m, J) = 0
      BY <3>1, FallingEnds
    <3>3. Q[J] \in Int
      BY <1>1
    <3>4. x * (0 * Q[J]) = 0
      BY <3>3
    <3>5. Same(0, 0, p)
      BY SameIs
    <3> QED
      BY <3>2, <3>4, <3>5
  <2> HIDE DEF N, J
  <2>3. \A m \in N : Same(Partial(Expansion(Q, m), J), Power(1 + x, m), p)
    BY <1>1, <1>6, <2>1, <2>2, ExpansionPower
  <2> QED
    BY <2>1, <2>3
\* the last term
<1>8. \A j \in Nat : j <= J => Same(F(j), Power(x, j), p)
  <2> DEFINE T == {j \in Nat : j <= J => Same(F(j), Power(x, j), p)}
  <2>1. 0 \in T
    <3>1. F(0) = 1 /\ Power(x, 0) = 1
      BY <1>5, FallingIs, PowerIs
    <3>2. Same(1, 1, p)
      BY SameIs
    <3> QED
      BY <3>1, <3>2
  <2>2. ASSUME NEW j \in Nat, j \in T
        PROVE  j + 1 \in T
    <3> SUFFICES ASSUME j + 1 <= J PROVE Same(F(j + 1), Power(x, j + 1), p)
      OBVIOUS
    <3> DEFINE f == Falling(j, j)
               y == Q[j]
               z == Q[j + 1]
               w == Power(x, j)
    <3>1. /\ f \in Int /\ y \in Int /\ z \in Int /\ w \in Int /\ p \in Int
          /\ Falling(j + 1, j + 1) = (j + 1) * f /\ Power(x, j + 1) = x * w
      <4>1. j + 1 \in Nat /\ j \in Int
        OBVIOUS
      <4>2. f \in Int /\ Falling(j + 1, j + 1) = (j + 1) * f
        BY <4>1, FallingIs, FallingNext
      <4>3. w \in Int /\ Power(x, j + 1) = x * w
        BY PowerIs
      <4> QED
        BY <4>1, <4>2, <4>3
    <3>2. Same(f * y, w, p) /\ Same((j + 1) * z, x * y, p)
      BY <1>1, <1>6, <2>2 DEF Binomial
    <3> HIDE DEF f, y, z, w
    <3>3. Same(f * ((j + 1) * z), f * (x * y), p)
      <4>1. Same(f, f, p) /\ (j + 1) * z \in Int /\ x * y \in Int
        BY <3>1, SameIs
      <4> QED
        BY <3>1, <3>2, <4>1, SameProduct
    <3>4. Same(x * (f * y), x * w, p)
      <4>1. Same(x, x, p) /\ f * y \in Int
        BY <3>1, SameIs
      <4> QED
        BY <3>1, <3>2, <4>1, SameProduct
    <3>5. /\ ((j + 1) * f) * z = f * ((j + 1) * z) /\ f * (x * y) = x * (f * y)
          /\ f * ((j + 1) * z) \in Int /\ x * (f * y) \in Int /\ x * w \in Int
      BY <3>1
    <3>6. Same(((j + 1) * f) * z, x * w, p)
      BY <3>1, <3>3, <3>4, <3>5, SameIs
    <3> QED
      BY <3>1, <3>6 DEF z
  <2>3. Nat \subseteq T
    <3> HIDE DEF T
    <3> QED
      BY <2>1, <2>2, Induction
  <2> QED
    BY <2>3
\* and the expansion of the p-th power, of which only the first term is left
<1>9. \A j \in Nat : Same(Partial(Expansion(Q, p), j), 1, p)
  <2> DEFINE D(j) == Partial(Expansion(Q, p), j)
             T == {j \in Nat : Same(D(j), 1, p)}
  <2>0. p \in Int /\ J \in Int
    BY <1>1
  <2>1. 0 \in T
    <3>1. D(0) = 1
      BY <1>5, <2>0, ExpansionIs
    <3>2. Same(1, 1, p)
      BY SameIs
    <3> QED
      BY <3>1, <3>2
  <2>2. ASSUME NEW j \in Nat, j \in T
        PROVE  j + 1 \in T
    <3> DEFINE d == D(j)
               g == Falling(J, j) * Q[j + 1]
    <3>1. d \in Int /\ D(j + 1) = d + Falling(p, j + 1) * Q[j + 1]
      BY <1>5, <2>0, ExpansionIs
    <3>2. Falling(p, j + 1) = p * Falling(J, j) /\ Falling(J, j) \in Int /\ Q[j + 1] \in Int
      <4>0. Q[j + 1] \in Int
        OBVIOUS
      <4> HIDE DEF J
      <4>1. Falling(J, j) \in Int
        BY <2>0, FallingIs
      <4>2. Falling(J + 1, j + 1) = (J + 1) * Falling(J, j)
        BY <2>0, FallingNext
      <4> QED
        BY <1>1, <4>0, <4>1, <4>2
    <3>3. g \in Int /\ Falling(p, j + 1) * Q[j + 1] = g * p
      BY <2>0, <3>2
    <3> HIDE DEF d, g
    <3>4. Same(D(j + 1), d, p)
      BY <3>1, <3>3 DEF Same
    <3>5. Same(d, 1, p)
      BY <2>2 DEF d
    <3>6. D(j + 1) \in Int
      <4>1. j + 1 \in Nat
        OBVIOUS
      <4> QED
        BY <1>5, <2>0, <4>1, ExpansionIs
    <3> HIDE DEF D
    <3>7. Same(D(j + 1), 1, p)
      <4>1. 1 \in Int
        OBVIOUS
      <4> QED
        BY <2>0, <3>1, <3>4, <3>5, <3>6, <4>1, SameIs
    <3> QED
      BY <3>7
  <2>3. Nat \subseteq T
    <3> HIDE DEF T
    <3> QED
      BY <2>1, <2>2, Induction
  <2> QED
    BY <2>3
<1> DEFINE e == E(J)
           f == F(J)
           y == Power(b, J)
           w == Power(x, J)
<1>10. Same(E(p), b * e - x * f, p)
  <2>1. J \in Int /\ p \in Int /\ J <= J
    BY <1>1
  <2> HIDE DEF J
  <2>2. Same(Partial(Expansion(Q, J + 1), J),
             (1 + x) * Partial(Expansion(Q, J), J) - x * (Falling(J, J) * Q[J]), p)
    BY <1>1, <1>6, <2>1, ExpansionNext
  <2> QED
    BY <1>1, <2>2
<1>11. /\ e \in Int /\ f \in Int /\ y \in Int /\ w \in Int /\ E(p) \in Int /\ p \in Int /\ b \in Int
       /\ Power(b, p) = b * y /\ Power(x, p) = x * w
  <2>1. J \in Int /\ p \in Int /\ b \in Int
    BY <1>1
  <2> HIDE DEF J
  <2>2. e \in Int /\ E(p) \in Int
    BY <1>1, <1>5, <2>1, ExpansionIs
  <2>3. f \in Int
    <3>1. Falling(J, J) \in Int /\ Q[J] \in Int
      BY <1>1, <2>1, FallingIs
    <3> QED
      BY <3>1
  <2> HIDE DEF b, E, F
  <2>4. y \in Int /\ w \in Int /\ Power(b, J + 1) = b * y /\ Power(x, J + 1) = x * w
    BY <1>1, <2>1, PowerIs
  <2> QED
    BY <1>1, <2>1, <2>2, <2>3, <2>4
<1>12. Same(e, y, p) /\ Same(f, w, p) /\ Same(E(p), 1, p)
  BY <1>1, <1>7, <1>8, <1>9
<1> HIDE DEF e, f, y, w, E, F, b, J
<1>13. Same(b * e - x * f, b * y - x * w, p)
  <2>1. Same(b, b, p) /\ Same(x, x, p)
    BY <1>11, SameIs
  <2>2. Same(b * e, b * y, p) /\ Same(x * f, x * w, p)
    BY <1>11, <1>12, <2>1, SameProduct
  <2>3. b * e \in Int /\ b * y \in Int /\ x * f \in Int /\ x * w \in Int
    BY <1>11
  <2> QED
    BY <1>11, <2>2, <2>3, SameSum
<1> DEFINE u == b * y
           v == x * w
           t == b * e - x * f
<1>14. u \in Int /\ v \in Int /\ t \in Int /\ u - v \in Int /\ (u - v) + v = u /\ 1 \in Int /\ 1 + v \in Int
  BY <1>11
<1> HIDE DEF t, u, v
<1>15. Same(1, u - v, p)
  <2>1. Same(1, E(p), p)
    BY <1>11, <1>12, <1>14, SameIs
  <2>2. Same(1, t, p)
    BY <1>10, <1>11, <1>14, <2>1, SameIs DEF t
  <2> QED
    BY <1>11, <1>13, <1>14, <2>2, SameIs DEF t, u, v
<1>16. Same(u, 1 + v, p)
  <2>1. Same(u - v, 1, p) /\ Same(v, v, p)
    BY <1>11, <1>14, <1>15, SameIs
  <2>2. Same((u - v) + v, 1 + v, p)
    BY <1>11, <1>14, <2>1, SameSum
  <2> QED
    BY <1>14, <2>2
<1> QED
  BY <1>11, <1>16 DEF u, v, b

\* Fermat's theorem, ...
LEMMA Fermat ==
  ASSUME NEW p \in Nat, Prime(p)
  PROVE  \A a \in Nat : Same(Power(a, p), a, p)
<1> DEFINE T == {a \in Nat : Same(Power(a, p), a, p)}
<1>0. p \in Nat \ {0} /\ p \in Int /\ 1 \in Int
  BY DEF Prime
<1>1. 0 \in T
  <2>1. Power(0, p) = 0 * Power(0, p - 1) /\ Power(0, p - 1) \in Int
    BY <1>0, PowerOne
  <2>2. Power(0, p) = 0
    BY <2>1
  <2>3. Same(0, 0, p)
    BY <1>0, SameIs
  <2> QED
    BY <2>2, <2>3
<1>2. ASSUME NEW a \in Nat, a \in T
      PROVE  a + 1 \in T
  <2> DEFINE y == Power(a, p)
  <2>1. Same(Power(1 + a, p), 1 + y, p)
    BY PowerOfNext
  <2>2. y \in Int /\ Power(1 + a, p) \in Int
    <3>1. a \in Int /\ 1 + a \in Int
      OBVIOUS
    <3> QED
      BY <1>0, <3>1, PowerIs
  <2>3. Same(y, a, p) /\ Same(1, 1, p)
    BY <1>0, <1>2, SameIs
  <2> HIDE DEF y
  <2>4. Same(1 + y, 1 + a, p)
    BY <1>0, <2>2, <2>3, SameSum
  <2>5. 1 + y \in Int /\ 1 + a \in Int /\ 1 + a = a + 1
    BY <2>2
  <2>6. Same(Power(1 + a, p), 1 + a, p)
    BY <1>0, <2>1, <2>2, <2>4, <2>5, SameIs
  <2> QED
    BY <2>5, <2>6
<1>3. Nat \subseteq T
  <2> HIDE DEF T
  <2> QED
    BY <1>1, <1>2, Induction
<1> QED
  BY <1>3

\* ... and for a unit.
LEMMA FermatUnit ==
  ASSUME NEW p \in Nat, Prime(p), NEW a \in Int, Unit(a, p)
  PROVE  Same(Power(a, p - 1), 1, p)
<1> DEFINE b == a % p
           y == Power(b, p - 1)
<1>0. p \in Nat \ {0} /\ p - 1 \in Nat /\ 1 \in Int /\ p \in Int
  BY DEF Prime
<1>1. b \in Nat /\ b \in Int /\ Same(a, b, p)
  BY <1>0, SameMod
<1> HIDE DEF b
<1>2. Unit(b, p)
  BY <1>1, UnitSame
<1>3. Power(b, p) = b * y /\ y \in Int
  BY <1>0, <1>1, PowerOne
<1> HIDE DEF y
<1>4. Same(b * y, b * 1, p)
  <2>1. Same(Power(b, p), b, p)
    BY <1>1, Fermat
  <2>2. b * 1 = b
    BY <1>1
  <2> QED
    BY <1>3, <2>1, <2>2
<1>5. Same(y, 1, p)
  BY <1>0, <1>1, <1>2, <1>3, <1>4, UnitCancels
<1>6. Same(Power(a, p - 1), y, p) /\ Power(a, p - 1) \in Int
  BY <1>0, <1>1, SamePower, PowerIs DEF y
<1> QED
  BY <1>0, <1>3, <1>5, <1>6, SameIs

\* Euler's theorem, modulo the powers of a prime.
LEMMA Euler ==
  ASSUME NEW p \in Nat, Prime(p), NEW a \in Int, Unit(a, p)
  PROVE  \A j \in Nat : Same(Power(a, (p - 1) * Power(p, j)), 1, Power(p, j + 1))
<1> TAKE j \in Nat
<1> DEFINE N == Power(p, j)
           b == Power(a, p - 1)
<1>1. p \in Nat \ {0} /\ p - 1 \in Nat /\ 1 \in Int
  BY DEF Prime
<1>2. N \in Nat /\ b \in Int /\ Same(b, 1, p)
  BY <1>1, PowerPositive, PowerIs, FermatUnit
<1> HIDE DEF b
<1>3. Same(Power(b, N), Power(1, N), Power(p, j + 1))
  BY <1>1, <1>2, PowersLift
<1> HIDE DEF N
<1>4. Power(1, N) = 1
  BY <1>2, PowerOfOne
<1>5. Power(b, N) = Power(a, (p - 1) * N)
  BY <1>1, <1>2, PowerOfPower DEF b
<1> QED
  BY <1>3, <1>4, <1>5 DEF N

-----------------------------------------------------------------------------
(* The generator of a safe prime *)

\* LeastOf finds the least number.
LEMMA LeastOfIs ==
  ASSUME NEW T, T \subseteq Nat, T # {}
  PROVE  LeastOf(T) \in T /\ \A y \in T : LeastOf(T) <= y
<1>1. \E x \in T : \A y \in T : x <= y
  BY LeastNumber
<1> QED
  BY <1>1 DEF LeastOf

\* Safe primes are odd, and of those above 5 the half is odd as well.
LEMMA SafePrimeIs ==
  ASSUME NEW p \in Nat, IsSafePrime(p)
  PROVE  \E h \in Nat : /\ p = 2 * h + 1 /\ (p - 1) \div 2 = h /\ Prime(h) /\ Prime(p)
                        /\ h = 2 \/ \E t \in Nat : h = 2 * t + 1 /\ t > 0
<1> DEFINE h == (p - 1) \div 2
<1>1. Prime(p) /\ Prime(h)
  BY DEF IsSafePrime
<1>2. p > 1 /\ h > 1 /\ h \in Nat
  BY <1>1 DEF Prime
<1>3. p >= 5
  BY <1>2
<1>4. p % 2 # 0
  BY <1>1, <1>3 DEF Prime
<1>5. p = 2 * h + 1
  BY <1>3, <1>4
<1>6. h = 2 \/ h % 2 # 0
  <2> HIDE DEF h
  <2>1. h # 2 => 2 \in 2 .. h - 1
    BY <1>2
  <2> QED
    BY <1>1, <2>1 DEF Prime
<1>7. h # 2 => \E t \in Nat : h = 2 * t + 1 /\ t > 0
  <2> HIDE DEF h
  <2> DEFINE t == h \div 2
  <2> SUFFICES ASSUME h # 2 PROVE h = 2 * t + 1 /\ t > 0 /\ t \in Nat
    OBVIOUS
  <2> QED
    BY <1>2, <1>6
<1> QED
  BY <1>1, <1>2, <1>5, <1>7

\* GetGeneratorForSafePrime (crypto/paillier.cc) finds a number, whatever the safe prime:
\* not all have order 1, 2 or (p - 1) / 2.
THEOREM GeneratorExists ==
  ASSUME NEW p \in Nat, IsSafePrime(p)
  PROVE  \E g \in 2 .. p - 1 : /\ ModExp(g, 2, p) # 1
                               /\ ModExp(g, (p - 1) \div 2, p) # 1
<1>1. PICK h \in Nat : /\ p = 2 * h + 1 /\ (p - 1) \div 2 = h /\ Prime(h) /\ Prime(p)
                       /\ h = 2 \/ \E t \in Nat : h = 2 * t + 1 /\ t > 0
  BY SafePrimeIs
<1>2. p \in Nat \ {0} /\ h > 1 /\ p \in Int /\ 1 % p = 1
  <2>1. p \in Nat \ {0} /\ h > 1 /\ p > 1
    BY <1>1 DEF Prime
  <2> QED
    BY <2>1, SmallResidue
<1>3. \A g \in Int : Power(g, 2) = g * g /\ g * g \in Int
  <2> TAKE g \in Int
  <2>1. Power(g, 2) = g * Power(g, 2 - 1) /\ 2 - 1 = 1 /\ Power(g, 1) = g
    BY PowerOne
  <2> QED
    BY <2>1
<1>4. \A g \in Int, e \in Nat : ModExp(g, e, p) = 1 => Same(Power(g, e), 1, p)
  <2> TAKE g \in Int, e \in Nat
  <2>1. ModExp(g, e, p) = Power(g, e) % p /\ Power(g, e) \in Int /\ 1 \in Int
    <3>1. ModExp(g, e, p) = Power(g, e) % p
      BY <1>2, ModExpPower
    <3>2. Power(g, e) \in Int
      BY PowerIs
    <3> QED
      BY <3>1, <3>2
  <2> QED
    BY <1>2, <2>1, SameResidue
<1>5. CASE h = 2
  <2>1. p = 5 /\ 2 \in 2 .. p - 1 /\ 2 * 2 = 4 /\ 4 % 5 = 4
    BY <1>1, <1>5
  <2>2. ModExp(2, 2, 5) = Power(2, 2) % 5
    BY ModExpPower
  <2>3. ModExp(2, 2, p) = 4
    BY <1>3, <2>1, <2>2
  <2> QED
    BY <1>1, <1>5, <2>1, <2>3
<1>6. ASSUME NEW t \in Nat, h = 2 * t + 1, t > 0
      PROVE  \E g \in 2 .. p - 1 : ModExp(g, 2, p) # 1 /\ ModExp(g, h, p) # 1
  <2> DEFINE g == p - 4
             f == 0 - 4
             e == 0 - 1
  <2>1. p >= 7 /\ g \in 2 .. p - 1 /\ g \in Int /\ f \in Int /\ e \in Int
    BY <1>1, <1>6
  <2>2. Same(g, f, p)
    <3>1. g = f + 1 * p
      BY <1>2
    <3> QED
      BY <3>1 DEF Same
  <2>3. ModExp(g, 2, p) # 1
    <3> SUFFICES ASSUME ModExp(g, 2, p) = 1 PROVE FALSE
      OBVIOUS
    <3>1. Same(g * g, 1, p)
      <4> HIDE DEF g
      <4>1. 2 \in Nat
        OBVIOUS
      <4> QED
        BY <1>3, <1>4, <2>1, <4>1
    <3>2. PICK k \in Int : g * g = 1 + k * p
      BY <3>1 DEF Same
    <3>3. 15 = (k - (p - 8)) * p
      BY <1>2, <3>2
    <3> DEFINE l == k - (p - 8)
    <3>4. l \in Int /\ 15 = l * p
      BY <1>2, <3>3
    <3> HIDE DEF l
    <3>5. l > 0 /\ l < 3
      <4>1. l <= 0 => l * p <= 0
        BY <1>2, <3>4
      <4>2. l >= 3 => l * p >= 21
        BY <2>1, <3>4
      <4> QED
        BY <3>4, <4>1, <4>2
    <3>6. l = 1 \/ l = 2
      BY <3>4, <3>5
    <3>7. p = 15
      BY <1>2, <3>4, <3>6
    <3>8. 3 \in 2 .. p - 1 /\ p % 3 = 0
      BY <3>7
    <3> QED
      BY <1>1, <3>8 DEF Prime
  <2>4. ModExp(g, h, p) # 1
    <3> SUFFICES ASSUME ModExp(g, h, p) = 1 PROVE FALSE
      OBVIOUS
    <3>1. Same(Power(g, h), 1, p) /\ Power(g, h) \in Int
      <4> HIDE DEF g
      <4> QED
        BY <1>4, <2>1, PowerIs
    <3>2. Same(Power(g, h), Power(f, h), p)
      <4> HIDE DEF g, f
      <4> QED
        BY <1>2, <2>1, <2>2, SamePower
    <3>3. Power(f, h) = Power(e, h) * Power(4, h)
      <4>1. f = e * 4
        OBVIOUS
      <4> HIDE DEF f, e
      <4>2. 4 \in Int
        OBVIOUS
      <4>3. Power(e * 4, h) = Power(e, h) * Power(4, h)
        BY <2>1, <4>2, PowerOfProduct
      <4> QED
        BY <4>1, <4>3
    <3>4. Power(e, h) = e
      <4> DEFINE u == 2 * t
      <4>1. u \in Nat /\ h = u + 1 /\ e * e = 1 /\ e * 1 = e
        BY <1>6
      <4> HIDE DEF e
      <4>2. Power(Power(e, 2), t) = Power(e, u)
        BY <2>1, PowerOfPower
      <4>3. Power(e, 2) = 1
        BY <1>3, <2>1, <4>1
      <4>4. Power(1, t) = 1
        BY PowerOfOne
      <4> HIDE DEF u
      <4>5. Power(e, u + 1) = e * Power(e, u)
        BY <2>1, <4>1, PowerIs
      <4> QED
        BY <4>1, <4>2, <4>3, <4>4, <4>5
    <3>5. Same(Power(4, h), 1, p) /\ Power(4, h) \in Int
      <4>1. 2 \in Int /\ 2 % p = 2 /\ 2 * 2 = 4
        BY <1>2, <2>1, SmallResidue
      <4>2. Unit(2, p)
        BY <1>1, <4>1, UnitPrime
      <4>3. Same(Power(2, p - 1), 1, p)
        BY <1>1, <4>1, <4>2, FermatUnit
      <4>4. p - 1 = 2 * h
        BY <1>1
      <4>5. Power(Power(2, 2), h) = Power(2, 2 * h)
        BY PowerOfPower
      <4>6. Power(2, 2) = 4
        BY <1>3, <4>1
      <4>7. 4 \in Int
        OBVIOUS
      <4> QED
        BY <4>3, <4>4, <4>5, <4>6, <4>7, PowerIs
    <3> DEFINE y == Power(4, h)
               z == Power(g, h)
               w == Power(f, h)
    <3> HIDE DEF g, f
    <3>6. w = e * y /\ y \in Int /\ z \in Int /\ w \in Int /\ Same(z, 1, p) /\ Same(z, w, p) /\ Same(y, 1, p)
      <4>1. w \in Int
        BY <2>1, PowerIs
      <4> QED
        BY <3>1, <3>2, <3>3, <3>4, <3>5, <4>1
    <3> HIDE DEF y, z, w, e
    <3>7. Same(e * y, e * 1, p)
      <4>1. Same(e, e, p) /\ 1 \in Int
        BY <1>2, <2>1, SameIs
      <4> QED
        BY <1>2, <2>1, <3>6, <4>1, SameProduct
    <3>8. e * 1 = e /\ 1 \in Int
      BY <2>1
    <3>9. Same(w, e, p)
      BY <3>6, <3>7, <3>8
    <3>10. Same(z, e, p)
      BY <1>2, <2>1, <3>6, <3>9, SameIs
    <3>11. Same(1, z, p)
      BY <1>2, <3>6, <3>8, SameIs
    <3>12. Same(1, e, p)
      BY <1>2, <2>1, <3>6, <3>8, <3>10, <3>11, SameIs
    <3>13. PICK k \in Int : 1 = e + k * p
      BY <3>12 DEF Same
    <3>14. k * p = 2
      BY <1>2, <3>13 DEF e
    <3>15. k <= 0 => k * p <= 0
      BY <1>2
    <3>16. k >= 1 => k * p >= 7
      BY <2>1
    <3> QED
      BY <3>14, <3>15, <3>16
  <2> QED
    BY <2>1, <2>3, <2>4
<1> QED
  BY <1>1, <1>5, <1>6

-----------------------------------------------------------------------------
(* Recursive functions of a prefix of the numbers *)

Steps(S, first, N, next) == first \in S /\ N \in Nat /\ next \in [1 .. N -> [S -> S]]
Stepped(f, S, first, N, next) ==
  /\ f \in [0 .. N -> S] /\ f[0] = first
  /\ \A j \in 1 .. N : f[j - 1] \in S /\ f[j] = next[j][f[j - 1]]

\* A recursion up to N has a solution, ...
LEMMA BoundedRecursion ==
  ASSUME NEW S, NEW first, NEW N, NEW next, Steps(S, first, N, next)
  PROVE  \E f : Stepped(f, S, first, N, next)
<1>0. first \in S /\ N \in Nat /\ next \in [1 .. N -> [S -> S]]
  BY DEF Steps
<1> DEFINE id == [x \in S |-> x]
           all == [j \in Nat |-> IF j \in 1 .. N THEN next[j] ELSE id]
<1>1. all \in [Nat -> [S -> S]]
  BY <1>0
<1>2. \A j \in 1 .. N : all[j] = next[j]
  OBVIOUS
<1> HIDE DEF all
<1>3. PICK g \in [Nat -> S] : Recursive(g, first, all)
  BY <1>0, <1>1, Recursion
<1> DEFINE f == [j \in 0 .. N |-> g[j]]
<1>4. f \in [0 .. N -> S] /\ f[0] = first
  BY <1>0, <1>3 DEF Recursive
<1>5. ASSUME NEW j \in 1 .. N
      PROVE  f[j - 1] \in S /\ f[j] = next[j][f[j - 1]]
  <2>1. j \in Nat \ {0} /\ j - 1 \in 0 .. N /\ j \in 0 .. N
    BY <1>0
  <2>2. g[j] = all[j][g[j - 1]]
    BY <1>3, <2>1 DEF Recursive
  <2> QED
    BY <1>2, <1>3, <2>1, <2>2
<1> HIDE DEF f
<1> QED
  BY <1>4, <1>5 DEF Stepped

\* ... and induction up to N holds.
LEMMA BoundedInduction ==
  ASSUME NEW N \in Nat, NEW T, 0 \in T, \A j \in 0 .. N - 1 : j \in T => j + 1 \in T
  PROVE  0 .. N \subseteq T
<1> DEFINE S == {j \in Nat : j <= N => j \in T}
<1>1. 0 \in S
  OBVIOUS
<1>2. ASSUME NEW j \in Nat, j \in S
      PROVE  j + 1 \in S
  <2> SUFFICES ASSUME j + 1 <= N PROVE j + 1 \in T
    OBVIOUS
  <2>1. j \in 0 .. N - 1 /\ j <= N
    OBVIOUS
  <2> QED
    BY <1>2, <2>1
<1>3. Nat \subseteq S
  <2> HIDE DEF S
  <2> QED
    BY <1>1, <1>2, Induction
<1> QED
  BY <1>3

-----------------------------------------------------------------------------
(* Fixed-base exponentiation *)

\* The recursion of ToBytes has a solution, ...
LEMMA BytesExist ==
  ASSUME NEW K \in Nat, K > 1
  PROVE  \E f \in [Nat -> Seq(Nat)] :
           f = [y \in Nat |-> IF y = 0 THEN <<>> ELSE Append(f[y \div K], y % K)]
<1> DEFINE S == [Nat -> Seq(Nat)]
           none == [y \in Nat |-> <<>>]
           next == [n \in Nat |->
                     [f \in S |-> [y \in Nat |-> IF y = 0 THEN <<>> ELSE Append(f[y \div K], y % K)]]]
<1>1. \A y \in Nat : y \div K \in Nat /\ y % K \in Nat /\ (y # 0 => y \div K < y)
  <2> TAKE y \in Nat
  <2> DEFINE q == y \div K
             r == y % K
  <2>1. K \in Nat \ {0} /\ y \in Int
    OBVIOUS
  <2>2. y = K * q + r /\ r \in 0 .. K - 1 /\ q \in Int
    BY <2>1, DivisionOf
  <2> HIDE DEF q, r
  <2>3. q < 0 => K * q <= 0 - K
    BY <2>1, <2>2
  <2>4. q >= 0
    BY <2>2, <2>3
  <2>5. q >= 1 => K * q >= 2 * q
    BY <2>1, <2>2
  <2>6. y # 0 => q < y
    BY <2>2, <2>4, <2>5
  <2> QED
    BY <2>2, <2>4, <2>6 DEF q, r
<1>2. next \in [Nat -> [S -> S]] /\ none \in S
  <2>1. ASSUME NEW f \in S, NEW y \in Nat
        PROVE  (IF y = 0 THEN <<>> ELSE Append(f[y \div K], y % K)) \in Seq(Nat)
    <3> DEFINE q == y \div K
               r == y % K
               fq == f[q]
    <3>1. fq \in Seq(Nat) /\ r \in Nat
      BY <1>1
    <3> HIDE DEF q, r, fq
    <3>2. Append(fq, r) \in Seq(Nat) /\ <<>> \in Seq(Nat)
      BY <3>1
    <3> QED
      BY <3>2 DEF q, r, fq
  <2>2. ASSUME NEW f \in S
        PROVE  [y \in Nat |-> IF y = 0 THEN <<>> ELSE Append(f[y \div K], y % K)] \in S
    BY <2>1, Zenon
  <2>3. none \in S
    OBVIOUS
  <2> HIDE DEF S
  <2> QED
    BY <2>2, <2>3
<1>3. PICK G \in [Nat -> S] : Recursive(G, none, next)
  <2> HIDE DEF S, none, next
  <2> QED
    BY <1>2, Recursion
<1>4. /\ \A y \in Nat : G[0][y] = <<>>
      /\ \A n, y \in Nat : G[n + 1][y] = IF y = 0 THEN <<>> ELSE Append(G[n][y \div K], y % K)
  <2>1. \A y \in Nat : G[0][y] = <<>>
    BY <1>3 DEF Recursive
  <2>2. ASSUME NEW n \in Nat, NEW y \in Nat
        PROVE  G[n + 1][y] = IF y = 0 THEN <<>> ELSE Append(G[n][y \div K], y % K)
    <3>1. n + 1 \in Nat \ {0} /\ (n + 1) - 1 = n
      OBVIOUS
    <3>2. G[n + 1] = next[n + 1][G[n]] /\ G[n] \in S
      BY <1>3, <3>1 DEF Recursive
    <3> QED
      BY <3>1, <3>2
  <2> QED
    BY <2>1, <2>2
<1> HIDE DEF S, none, next
<1>5. \A n \in Nat : \A y \in 0 .. n : G[n + 1][y] = G[n][y]
  <2> DEFINE T == {n \in Nat : \A y \in 0 .. n : G[n + 1][y] = G[n][y]}
  <2>1. 0 \in T
    <3>1. 0 \in Nat /\ \A y \in 0 .. 0 : y = 0
      OBVIOUS
    <3>2. G[0 + 1][0] = <<>> /\ G[0][0] = <<>>
      BY <1>4, <3>1
    <3> QED
      BY <3>1, <3>2
  <2>2. ASSUME NEW n \in Nat, n \in T
        PROVE  n + 1 \in T
    <3> SUFFICES ASSUME NEW y \in 0 .. n + 1
                 PROVE  G[(n + 1) + 1][y] = G[n + 1][y]
      OBVIOUS
    <3>1. n + 1 \in Nat /\ y \in Nat
      OBVIOUS
    <3>2. /\ G[(n + 1) + 1][y] = IF y = 0 THEN <<>> ELSE Append(G[n + 1][y \div K], y % K)
          /\ G[n + 1][y] = IF y = 0 THEN <<>> ELSE Append(G[n][y \div K], y % K)
      BY <1>4, <3>1
    <3>3. CASE y = 0
      BY <3>2, <3>3
    <3>4. CASE y # 0
      <4>1. y \div K \in 0 .. n
        BY <1>1, <3>1, <3>4
      <4>2. G[n + 1][y \div K] = G[n][y \div K]
        BY <2>2, <4>1
      <4> QED
        BY <3>2, <3>4, <4>2
    <3> QED
      BY <3>3, <3>4
  <2>3. Nat \subseteq T
    <3> HIDE DEF T
    <3> QED
      BY <2>1, <2>2, Induction
  <2> QED
    BY <2>3
<1>6. ASSUME NEW y \in Nat
      PROVE  \A n \in Nat : G[y + n][y] = G[y][y]
  <2> DEFINE T == {n \in Nat : G[y + n][y] = G[y][y]}
  <2>1. 0 \in T
    OBVIOUS
  <2>2. ASSUME NEW n \in Nat, n \in T
        PROVE  n + 1 \in T
    <3>1. y + n \in Nat /\ y \in 0 .. y + n /\ y + (n + 1) = (y + n) + 1
      OBVIOUS
    <3> QED
      BY <1>5, <2>2, <3>1
  <2>3. Nat \subseteq T
    <3> HIDE DEF T
    <3> QED
      BY <2>1, <2>2, Induction
  <2> QED
    BY <2>3
<1> DEFINE f == [y \in Nat |-> G[y][y]]
<1>7. f \in [Nat -> Seq(Nat)]
  BY <1>3 DEF S
<1>8. ASSUME NEW y \in Nat
      PROVE  f[y] = IF y = 0 THEN <<>> ELSE Append(f[y \div K], y % K)
  <2>1. CASE y = 0
    BY <1>4, <2>1
  <2>2. CASE y # 0
    <3> DEFINE q == y \div K
               n == (y - 1) - q
    <3>1. q \in Nat /\ n \in Nat /\ q + n = y - 1 /\ y - 1 \in Nat /\ (y - 1) + 1 = y
      BY <1>1, <2>2
    <3> HIDE DEF n
    <3>2. G[y][y] = Append(G[y - 1][q], y % K)
      BY <1>4, <2>2, <3>1
    <3>3. G[y - 1][q] = G[q][q]
      <4>1. G[q + n][q] = G[q][q]
        BY <1>6, <3>1
      <4> QED
        BY <3>1, <4>1
    <3>4. f[q] = G[q][q] /\ f[y] = G[y][y]
      BY <3>1
    <3> QED
      BY <2>2, <3>2, <3>3, <3>4
  <2> QED
    BY <2>1, <2>2
<1> HIDE DEF f
<1>9. f = [y \in Nat |-> IF y = 0 THEN <<>> ELSE Append(f[y \div K], y % K)]
  BY <1>7, <1>8
<1> QED
  BY <1>7, <1>9

\* What the first i bytes stand for.
LeadingBytes(v, bytes, e, K) ==
  /\ bytes \in Seq(Nat) /\ v \in [0 .. Len(bytes) -> Nat]
  /\ v[0] = 0 /\ v[Len(bytes)] = e
  /\ \A i \in 1 .. Len(bytes) : v[i] = v[i - 1] * K + bytes[i]

\* ... and its bytes stand for the exponent.
LEMMA ToBytesIs ==
  ASSUME NEW k \in Nat, Power(2, k) \in Nat, Power(2, k) > 1
  PROVE  \A e \in Nat : \E v : LeadingBytes(v, ToBytes(e, k), e, Power(2, k))
<1> DEFINE K == Power(2, k)
           Is(f) == f = [y \in Nat |-> IF y = 0 THEN <<>> ELSE Append(f[y \div K], y % K)]
           F == CHOOSE f : Is(f)
<1>1. \A e : ToBytes(e, k) = F[e]
  BY DEF ToBytes
<1>0. K \in Nat /\ K > 1
  OBVIOUS
<1> HIDE DEF K
<1>2. Is(F)
  <2>1. \E f : Is(f)
    BY <1>0, BytesExist
  <2> HIDE DEF Is
  <2> QED
    BY <2>1
<1> HIDE DEF F
<1>3. F[0] = <<>> /\ \A y \in Nat : y # 0 => F[y] = Append(F[y \div K], y % K)
  BY <1>2
<1> HIDE DEF Is
<1> DEFINE T == {n \in Nat : \A e \in 0 .. n : \E v : LeadingBytes(v, F[e], e, K)}
<1>4. 0 \in T
  <2>1. LeadingBytes([i \in 0 .. 0 |-> 0], F[0], 0, K)
    BY <1>3 DEF LeadingBytes
  <2>2. \E v : LeadingBytes(v, F[0], 0, K)
    BY <2>1
  <2> QED
    BY <2>2
<1>5. ASSUME NEW n \in Nat, n \in T
      PROVE  n + 1 \in T
  <2> DEFINE e == n + 1
             q == e \div K
             r == e % K
  <2>1. e = K * q + r /\ r \in Nat /\ q \in 0 .. n /\ q \in Int /\ e # 0 /\ e \in Nat
    <3>1. K \in Nat \ {0} /\ e \in Int /\ e # 0 /\ e \in Nat
      BY <1>0
    <3>2. e = K * q + r /\ r \in 0 .. K - 1 /\ q \in Int
      BY <3>1, DivisionOf
    <3> HIDE DEF q, r
    <3>3. q < 0 => K * q <= 0 - K
      BY <3>1, <3>2
    <3>4. q >= 0
      BY <1>0, <3>1, <3>2, <3>3
    <3>5. q >= 1 => K * q >= 2 * q
      BY <1>0, <3>2
    <3> QED
      BY <3>1, <3>2, <3>4, <3>5
  <2>2. F[e] = Append(F[q], r)
    BY <1>3, <2>1
  <2>3. PICK u : LeadingBytes(u, F[q], q, K)
    BY <1>5, <2>1
  <2> HIDE DEF e, q, r
  <2> DEFINE bs == F[q]
             L == Len(bs)
             v == [i \in 0 .. L + 1 |-> IF i = L + 1 THEN e ELSE u[i]]
  <2>4. /\ bs \in Seq(Nat) /\ L \in Nat /\ u \in [0 .. L -> Nat]
        /\ u[0] = 0 /\ u[L] = q /\ \A i \in 1 .. L : u[i] = u[i - 1] * K + bs[i]
    BY <2>3 DEF LeadingBytes
  <2>5. /\ F[e] \in Seq(Nat) /\ Len(F[e]) = L + 1 /\ F[e][L + 1] = r
        /\ \A i \in 1 .. L : F[e][i] = bs[i]
    BY <2>1, <2>2, <2>4
  <2> HIDE DEF bs, L
  <2>6. v \in [0 .. L + 1 -> Nat] /\ v[0] = 0 /\ v[L + 1] = e
    BY <2>1, <2>4
  <2>7. ASSUME NEW i \in 1 .. L + 1
        PROVE  v[i] = v[i - 1] * K + F[e][i]
    <3>1. CASE i = L + 1
      <4>1. v[i - 1] = q /\ v[i] = e /\ F[e][i] = r
        BY <2>4, <2>5, <3>1
      <4> QED
        BY <1>0, <2>1, <4>1
    <3>2. CASE i # L + 1
      <4>1. i \in 1 .. L /\ i - 1 \in 0 .. L /\ i \in 0 .. L
        BY <2>4, <3>2
      <4>2. i # L + 1 /\ i - 1 # L + 1 /\ i \in 0 .. L + 1 /\ i - 1 \in 0 .. L + 1
        BY <2>4, <4>1
      <4>3. v[i - 1] = u[i - 1] /\ v[i] = u[i]
        BY <4>2
      <4>4. F[e][i] = bs[i]
        BY <2>5, <4>1
      <4> QED
        BY <2>4, <4>1, <4>3, <4>4
    <3> QED
      BY <3>1, <3>2
  <2> HIDE DEF v
  <2>8. LeadingBytes(v, F[e], e, K)
    BY <2>5, <2>6, <2>7 DEF LeadingBytes
  <2>9. \E w : LeadingBytes(w, F[e], e, K)
    BY <2>8
  <2>10. ASSUME NEW d \in 0 .. e
         PROVE  \E w : LeadingBytes(w, F[d], d, K)
    <3>1. d = e \/ d \in 0 .. n
      BY DEF e
    <3> QED
      BY <1>5, <2>9, <3>1
  <2> QED
    BY <2>1, <2>10 DEF e
<1>6. Nat \subseteq T
  <2> HIDE DEF T
  <2> QED
    BY <1>4, <1>5, Induction
<1>7. \A e \in Nat : \E v : LeadingBytes(v, F[e], e, K)
  BY <1>6
<1> QED
  BY <1>1, <1>7 DEF K

\* TwoKAryFixedBaseExpImpl (crypto/fixed_base_exp.cc) computes what ModExp does, with
\* bytes of any number of bits.
THEOREM TwoKAryIs ==
  ASSUME NEW m \in Nat \ {0}, NEW b \in Int, NEW e \in Nat, NEW k \in Nat \ {0}
  PROVE  TwoKAryModExp(b, e, m, k) = Power(b, e) % m
<1> DEFINE K == Power(2, k)
           bs == ToBytes(e, k)
           L == Len(bs)
           Is(z) == z = [i \in 0 .. L |->
                          IF i = 0 THEN 1 % m
                          ELSE (ModExp(z[i - 1], K, m) * ModExp(b, bs[i], m)) % m]
           Z == CHOOSE z : Is(z)
<1>1. TwoKAryModExp(b, e, m, k) = Z[L]
  BY DEF TwoKAryModExp
<1>2. K \in Nat /\ K > 1
  <2>1. K = 2 * Power(2, k - 1)
    BY PowerOne
  <2>2. k - 1 \in Nat /\ 2 \in Nat \ {0}
    OBVIOUS
  <2>3. Power(2, k - 1) \in Nat \ {0}
    BY <2>2, PowerPositive
  <2> QED
    BY <2>1, <2>3
<1>3. PICK v : LeadingBytes(v, bs, e, K)
  BY <1>2, ToBytesIs
<1> HIDE DEF bs, K
<1>4. /\ bs \in Seq(Nat) /\ L \in Nat /\ v \in [0 .. L -> Nat] /\ v[0] = 0 /\ v[L] = e
      /\ \A i \in 1 .. L : bs[i] \in Nat /\ v[i] = v[i - 1] * K + bs[i]
  BY <1>3 DEF LeadingBytes
<1> HIDE DEF L
<1> DEFINE g == [i \in 0 .. L |-> Power(b, v[i]) % m]
<1>5. ASSUME NEW i \in 1 .. L
      PROVE  g[i] = (ModExp(g[i - 1], K, m) * ModExp(b, bs[i], m)) % m
  <2> DEFINE x == Power(b, v[i - 1])
             y == x % m
             a == Power(y, K)
             d == Power(b, bs[i])
             h == Power(x, K)
  <2>1. i - 1 \in 0 .. L /\ i \in 0 .. L /\ v[i - 1] \in Nat /\ bs[i] \in Nat
    BY <1>4
  <2>2. x \in Int /\ d \in Int
    BY <2>1, PowerIs
  <2>3. y \in Int /\ Same(y, x, m)
    <3> HIDE DEF x
    <3> QED
      BY <2>2, SameMod
  <2>4. g[i - 1] = y /\ g[i] = Power(b, v[i]) % m
    BY <2>1
  <2>5. Power(b, v[i]) = h * d
    <3>1. v[i - 1] * K \in Nat
      BY <1>2, <2>1
    <3>2. Power(b, v[i - 1] * K + bs[i]) = Power(b, v[i - 1] * K) * d
      BY <2>1, <3>1, PowerIs
    <3>3. h = Power(b, v[i - 1] * K)
      BY <1>2, <2>1, PowerOfPower
    <3> QED
      BY <1>4, <3>2, <3>3
  <2> HIDE DEF x, y
  <2>6. a \in Int /\ h \in Int /\ Same(a, h, m)
    <3>1. m \in Int
      OBVIOUS
    <3> QED
      BY <1>2, <2>2, <2>3, <3>1, PowerIs, SamePower
  <2>7. ModExp(y, K, m) = a % m /\ ModExp(b, bs[i], m) = d % m
    BY <1>2, <2>1, <2>3, ModExpPower
  <2> HIDE DEF a, d, h
  <2>8. ((a % m) * (d % m)) % m = (a * d) % m
    BY <2>2, <2>6, ResidueOfProduct
  <2>9. a * d \in Int /\ h * d \in Int /\ Same(a * d, h * d, m)
    <3>1. Same(d, d, m) /\ m \in Int
      BY <2>2, SameIs
    <3>2. Same(a * d, h * d, m)
      BY <2>2, <2>6, <3>1, SameProduct
    <3> QED
      BY <2>2, <2>6, <3>2
  <2>10. (a * d) % m = (h * d) % m
    BY <2>9, SameResidue
  <2> HIDE DEF g
  <2> QED
    BY <2>4, <2>5, <2>7, <2>8, <2>10
<1>6. g[0] = 1 % m
  BY <1>4, PowerIs
<1>7. Is(g)
  <2> HIDE DEF g
  <2>1. g = [i \in 0 .. L |-> g[i]]
    BY DEF g
  <2>2. \A i \in 0 .. L : i # 0 => i \in 1 .. L
    BY <1>4
  <2> QED
    BY <1>5, <1>6, <2>1, <2>2
<1>8. Is(Z)
  <2> HIDE DEF Is, g
  <2> QED
    BY <1>7
<1> HIDE DEF Z
<1> DEFINE T == {i \in 0 .. L : Z[i] = g[i]}
<1>9. 0 .. L \subseteq T
  <2>0. /\ Z[0] = 1 % m
        /\ \A i \in 1 .. L : Z[i] = (ModExp(Z[i - 1], K, m) * ModExp(b, bs[i], m)) % m
    <3>1. 0 \in 0 .. L /\ \A i \in 1 .. L : i \in 0 .. L /\ i # 0
      BY <1>4
    <3> HIDE DEF g
    <3> QED
      BY <1>8, <3>1
  <2> HIDE DEF g, Is
  <2>1. 0 \in T
    BY <1>4, <1>6, <2>0
  <2>2. ASSUME NEW j \in 0 .. L - 1, j \in T
        PROVE  j + 1 \in T
    <3>1. j + 1 \in 1 .. L /\ j + 1 \in 0 .. L /\ (j + 1) - 1 = j
      BY <1>4
    <3>2. Z[j + 1] = (ModExp(Z[j], K, m) * ModExp(b, bs[j + 1], m)) % m
      BY <2>0, <3>1
    <3>3. g[j + 1] = (ModExp(g[j], K, m) * ModExp(b, bs[j + 1], m)) % m
      BY <1>5, <3>1
    <3>4. Z[j] = g[j]
      BY <2>2
    <3> QED
      BY <3>1, <3>2, <3>3, <3>4
  <2> HIDE DEF T
  <2> QED
    BY <1>4, <2>1, <2>2, BoundedInduction
<1>10. Z[L] = g[L]
  <2>1. L \in 0 .. L
    BY <1>4
  <2> QED
    BY <1>9, <2>1
<1> QED
  BY <1>1, <1>4, <1>10
=============================================================================
