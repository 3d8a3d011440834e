----------------------------- MODULE LatticeProofs -----------------------------
(***************************************************************************)
(* First transcription.h: for integers and bytes of any width, what        *)
(* TranscribeBits writes is read back bit for bit.  Then montgomery.h, for *)
(* words of any size and every modulus that Create accepts: the two        *)
(* inverses are what a multiplication needs, no word overflows in any of   *)
(* the operations, and the words stand for the residues that ordinary      *)
(* arithmetic gives.  Both rest on the same lemmas about recursion, powers *)
(* of two, quotients and remainders.                                       *)
(***************************************************************************)
EXTENDS MontgomeryInt, FiniteSetTheorems, WellFoundedInduction, TLAPS

-----------------------------------------------------------------------------
(* Induction and recursion *)

\* A set of numbers that has a least one, if any, ...
LEMMA LeastNumber ==
  ASSUME NEW T, T \subseteq Nat, T # {}
  PROVE  \E x \in T : \A y \in T : x <= y
<1>1. \E x \in T : \A y \in T : ~ (<<y, x>> \in OpToRel(<, Nat))
  BY WFMin, NatLessThanWellFounded
<1>2. \A x, y \in T : <<y, x>> \in OpToRel(<, Nat) <=> y < x
  BY DEF OpToRel
<1>3. \E x \in T : \A y \in T : ~ (y < x)
  BY <1>1, <1>2, Zenon
<1> QED
  BY <1>3

\* ... and induction: a set with 0 and the successors of its members has them all.
LEMMA Induction ==
  ASSUME NEW S, 0 \in S, \A n \in Nat : n \in S => n + 1 \in S
  PROVE  Nat \subseteq S
<1> DEFINE T == Nat \ S
<1> SUFFICES ASSUME T # {} PROVE FALSE
  OBVIOUS
<1>1. PICK x \in T : \A y \in T : x <= y
  BY LeastNumber
<1>2. x - 1 \in Nat /\ x = (x - 1) + 1
  OBVIOUS
<1>3. x - 1 \in S
  BY <1>1, <1>2
<1> QED
  BY <1>2, <1>3

\* What a recursive definition needs to be one.
Recursive(f, first, next) ==
  f[0] = first /\ \A n \in Nat \ {0} : f[n] = next[n][f[n - 1]]

LEMMA Recursion ==
  ASSUME NEW S, NEW first \in S, NEW next \in [Nat -> [S -> S]]
  PROVE  \E f \in [Nat -> S] : Recursive(f, first, next)
<1> DEFINE Is(f, n) == /\ f \in [0 .. n -> S] /\ f[0] = first
                       /\ \A i \in 1 .. n : f[i] = next[i][f[i - 1]]
           E == {n \in Nat : \E f : Is(f, n)}
<1>1. 0 \in E
  <2>1. Is([i \in 0 .. 0 |-> first], 0)
    OBVIOUS
  <2> QED
    BY <2>1
<1>2. ASSUME NEW n \in Nat, n \in E
      PROVE  n + 1 \in E
  <2>1. PICK f : Is(f, n)
    BY <1>2
  <2> DEFINE g == [i \in 0 .. n + 1 |-> IF i = n + 1 THEN next[n + 1][f[n]] ELSE f[i]]
  <2>2. f[n] \in S /\ \A i \in 0 .. n : f[i] \in S
    BY <2>1
  <2>3. g \in [0 .. n + 1 -> S]
    BY <2>2
  <2>4. g[0] = first /\ g[n + 1] = next[n + 1][g[n]]
    BY <2>1
  <2>5. \A i \in 1 .. n : g[i] = next[i][g[i - 1]]
    BY <2>1
  <2> HIDE DEF g
  <2>6. Is(g, n + 1)
    <3>1. (n + 1) - 1 = n /\ \A i \in 1 .. n + 1 : i \in 1 .. n \/ i = n + 1
      OBVIOUS
    <3>2. \A i \in 1 .. n + 1 : g[i] = next[i][g[i - 1]]
      BY <2>4, <2>5, <3>1
    <3> QED
      BY <2>3, <2>4, <3>2
  <2>7. \E h : Is(h, n + 1)
    BY <2>6
  <2> QED
    BY <2>7
<1>3. Nat \subseteq E
  <2> HIDE DEF E
  <2> QED
    BY <1>1, <1>2, Induction
<1> DEFINE F(n) == CHOOSE f : Is(f, n)
<1>4. ASSUME NEW n \in Nat
      PROVE  Is(F(n), n)
  <2>1. \E f : Is(f, n)
    BY <1>3
  <2> QED
    BY <2>1
<1> HIDE DEF F
<1>5. ASSUME NEW n \in Nat
      PROVE  F(n + 1)[n] = F(n)[n]
  <2> DEFINE A == {i \in Nat : i <= n => F(n + 1)[i] = F(n)[i]}
  <2>1. Is(F(n), n) /\ Is(F(n + 1), n + 1)
    BY <1>4
  <2>2. 0 \in A
    BY <2>1
  <2>3. ASSUME NEW i \in Nat, i \in A
        PROVE  i + 1 \in A
    <3> SUFFICES ASSUME i + 1 <= n PROVE F(n + 1)[i + 1] = F(n)[i + 1]
      OBVIOUS
    <3>1. i + 1 \in 1 .. n /\ i + 1 \in 1 .. n + 1 /\ (i + 1) - 1 = i
      OBVIOUS
    <3>2. F(n + 1)[i + 1] = next[i + 1][F(n + 1)[i]] /\ F(n)[i + 1] = next[i + 1][F(n)[i]]
      BY <2>1, <3>1
    <3> QED
      BY <2>3, <3>2
  <2>4. Nat \subseteq A
    <3> HIDE DEF A
    <3> QED
      BY <2>2, <2>3, Induction
  <2> QED
    BY <2>4
<1> DEFINE f == [n \in Nat |-> F(n)[n]]
<1>6. f \in [Nat -> S]
  BY <1>4
<1>7. f[0] = first
  BY <1>4
<1>8. ASSUME NEW n \in Nat \ {0}
      PROVE  f[n] = next[n][f[n - 1]]
  <2>1. n - 1 \in Nat /\ n \in 1 .. n /\ (n - 1) + 1 = n
    OBVIOUS
  <2>2. F(n)[n] = next[n][F(n)[n - 1]]
    BY <1>4, <2>1
  <2>3. F(n)[n - 1] = F(n - 1)[n - 1]
    BY <1>5, <2>1
  <2> QED
    BY <2>1, <2>2, <2>3
<1> HIDE DEF f
<1> QED
  BY <1>6, <1>7, <1>8 DEF Recursive

\* Powers of two.
LEMMA PowersOfTwo ==
  /\ TwoTo \in [Nat -> Nat \ {0}]
  /\ TwoTo[0] = 1 /\ \A n \in Nat : TwoTo[n + 1] = 2 * TwoTo[n]
<1> DEFINE S == Nat \ {0}
           next == [n \in Nat |-> [x \in S |-> 2 * x]]
           Is(f) == f = [n \in Nat |-> IF n = 0 THEN 1 ELSE 2 * f[n - 1]]
<1>1. next \in [Nat -> [S -> S]] /\ 1 \in S
  OBVIOUS
<1>2. PICK f \in [Nat -> S] : Recursive(f, 1, next)
  <2> HIDE DEF S, next
  <2> QED
    BY <1>1, Recursion
<1>3. Is(f)
  <2>1. ASSUME NEW n \in Nat
        PROVE  f[n] = IF n = 0 THEN 1 ELSE 2 * f[n - 1]
    <3>1. f[n] = IF n = 0 THEN 1 ELSE next[n][f[n - 1]]
      BY <1>2 DEF Recursive
    <3>2. n # 0 => f[n - 1] \in S
      <4>1. n # 0 => n - 1 \in Nat
        OBVIOUS
      <4> QED
        BY <4>1
    <3> QED
      BY <3>1, <3>2
  <2>2. f = [n \in Nat |-> f[n]]
    BY <1>2
  <2> QED
    BY <2>1, <2>2
<1>4. TwoTo = CHOOSE g : Is(g)
  BY DEF TwoTo
<1>5. Is(TwoTo)
  <2> HIDE DEF Is
  <2> QED
    BY <1>3, <1>4
<1>6. /\ TwoTo[0] = 1
      /\ \A n \in Nat : n # 0 => TwoTo[n] = 2 * TwoTo[n - 1]
  <2>1. \A n \in Nat : TwoTo[n] = IF n = 0 THEN 1 ELSE 2 * TwoTo[n - 1]
    BY <1>5
  <2> QED
    BY <2>1
<1>7. \A n \in Nat : TwoTo[n + 1] = 2 * TwoTo[n]
  <2> TAKE n \in Nat
  <2>1. n + 1 \in Nat /\ n + 1 # 0 /\ (n + 1) - 1 = n
    OBVIOUS
  <2> QED
    BY <1>6, <2>1
<1>8. \A n \in Nat : TwoTo[n] \in Nat \ {0}
  <2> DEFINE A == {n \in Nat : TwoTo[n] \in Nat \ {0}}
  <2>1. 0 \in A
    BY <1>6
  <2>2. \A n \in Nat : n \in A => n + 1 \in A
    BY <1>7
  <2>3. Nat \subseteq A
    <3> HIDE DEF A
    <3> QED
      BY <2>1, <2>2, Induction
  <2> QED
    BY <2>3
<1>9. TwoTo = [n \in Nat |-> TwoTo[n]]
  BY <1>5
<1> QED
  BY <1>6, <1>7, <1>8, <1>9

LEMMA TwoToSum ==
  ASSUME NEW a \in Nat, NEW b \in Nat
  PROVE  TwoTo[a + b] = TwoTo[a] * TwoTo[b]
<1> DEFINE A == {n \in Nat : TwoTo[a + n] = TwoTo[a] * TwoTo[n]}
<1>1. 0 \in A
  BY PowersOfTwo
<1>2. ASSUME NEW n \in Nat, n \in A
      PROVE  n + 1 \in A
  <2>1. a + (n + 1) = (a + n) + 1 /\ a + n \in Nat
    OBVIOUS
  <2>2. TwoTo[a + (n + 1)] = 2 * TwoTo[a + n]
    BY <2>1, PowersOfTwo
  <2>3. TwoTo[a + n] = TwoTo[a] * TwoTo[n] /\ TwoTo[n + 1] = 2 * TwoTo[n]
    BY <1>2, PowersOfTwo
  <2>4. TwoTo[a] \in Nat /\ TwoTo[n] \in Nat
    BY PowersOfTwo
  <2>5. 2 * (TwoTo[a] * TwoTo[n]) = TwoTo[a] * (2 * TwoTo[n])
    BY <2>4
  <2> QED
    BY <2>2, <2>3, <2>5
<1>3. Nat \subseteq A
  <2> HIDE DEF A
  <2> QED
    BY <1>1, <1>2, Induction
<1> QED
  BY <1>3

LEMMA TwoToGrows ==
  ASSUME NEW a \in Nat, NEW b \in Nat, a <= b
  PROVE  TwoTo[a] <= TwoTo[b]
<1>1. b - a \in Nat /\ a + (b - a) = b
  OBVIOUS
<1>2. TwoTo[b] = TwoTo[a] * TwoTo[b - a]
  BY <1>1, TwoToSum
<1>3. TwoTo[a] \in Nat \ {0} /\ TwoTo[b - a] \in Nat \ {0}
  BY <1>1, PowersOfTwo
<1>4. \A x, y \in Nat \ {0} : x <= x * y
  OBVIOUS
<1> QED
  BY <1>2, <1>3, <1>4

LEMMA BelowTwoTo ==
  ASSUME NEW x \in Nat
  PROVE  x < TwoTo[x]
<1> DEFINE A == {n \in Nat : n < TwoTo[n]}
<1>1. 0 \in A
  BY PowersOfTwo
<1>2. ASSUME NEW n \in Nat, n \in A
      PROVE  n + 1 \in A
  <2>1. TwoTo[n + 1] = 2 * TwoTo[n] /\ TwoTo[n] \in Nat /\ n < TwoTo[n]
    BY <1>2, PowersOfTwo
  <2> QED
    BY <2>1
<1>3. Nat \subseteq A
  <2> HIDE DEF A
  <2> QED
    BY <1>1, <1>2, Induction
<1> QED
  BY <1>3

LEMMA BitLengthIs ==
  ASSUME NEW x \in Nat
  PROVE  /\ BitLength(x) \in 0 .. x /\ x < TwoTo[BitLength(x)]
         /\ \A k \in Nat : x < TwoTo[k] => BitLength(x) <= k
<1> DEFINE Fits(k) == x < TwoTo[k] /\ (k = 0 \/ TwoTo[k - 1] <= x)
           T == {k \in Nat : x < TwoTo[k]}
           b == BitLength(x)
<1>1. PICK k \in T : \A j \in T : k <= j
  <2>1. x \in T
    BY BelowTwoTo
  <2> HIDE DEF T
  <2>2. T \subseteq Nat
    BY DEF T
  <2> QED
    BY <2>1, <2>2, LeastNumber
<1>2. k \in 0 .. x /\ Fits(k)
  <2>1. k <= x
    BY <1>1, BelowTwoTo
  <2>2. k # 0 => k - 1 \in Nat /\ ~(k - 1 \in T)
    BY <1>1
  <2>3. k # 0 => TwoTo[k - 1] \in Nat /\ ~(x < TwoTo[k - 1])
    BY <2>2, PowersOfTwo
  <2> QED
    BY <2>1, <2>3
<1>3. b = CHOOSE j \in 0 .. x : Fits(j)
  BY DEF BitLength
<1>4. b \in 0 .. x /\ Fits(b)
  <2> HIDE DEF b, Fits
  <2> QED
    BY <1>2, <1>3
<1>5. ASSUME NEW j \in Nat, x < TwoTo[j]
      PROVE  b <= j
  <2> HIDE DEF b
  <2> SUFFICES ASSUME b > j PROVE FALSE
    BY <1>4
  <2>1. b - 1 \in Nat /\ j <= b - 1 /\ TwoTo[b - 1] <= x
    BY <1>4
  <2>2. TwoTo[j] <= TwoTo[b - 1] /\ TwoTo[j] \in Nat /\ TwoTo[b - 1] \in Nat
    BY <2>1, TwoToGrows, PowersOfTwo
  <2> QED
    BY <1>5, <2>1, <2>2
<1> HIDE DEF b
<1> QED
  BY <1>4, <1>5 DEF b

-----------------------------------------------------------------------------
(* Residues *)

LEMMA DivisionOf ==
  ASSUME NEW a \in Int, NEW m \in Nat \ {0}
  PROVE  a = m * (a \div m) + (a % m) /\ a % m \in 0 .. m - 1 /\ a \div m \in Int
OBVIOUS

LEMMA DivisionIs ==
  ASSUME NEW m \in Nat \ {0}, NEW q \in Int, NEW r \in 0 .. m - 1
  PROVE  (m * q + r) % m = r /\ (m * q + r) \div m = q
OBVIOUS

LEMMA SmallResidue ==
  /\ \A m \in Nat \ {0}, x \in Nat : x < m => x % m = x
  /\ \A y \in Int : y % 2 \in {0, 1}
OBVIOUS

Same(a, b, m) == \E k \in Int : a = b + k * m

\* The same residue.
LEMMA SameResidue ==
  ASSUME NEW a \in Int, NEW b \in Int, NEW m \in Nat \ {0}
  PROVE  Same(a, b, m) <=> a % m = b % m
<1> DEFINE p == a \div m
           q == b \div m
           r == a % m
           s == b % m
<1>1. /\ a = m * p + r /\ r \in 0 .. m - 1 /\ p \in Int
      /\ b = m * q + s /\ s \in 0 .. m - 1 /\ q \in Int
  BY DivisionOf
<1> HIDE DEF p, q, r, s
<1>2. ASSUME r = s
      PROVE  Same(a, b, m)
  <2>1. a = b + (p - q) * m /\ p - q \in Int
    BY <1>1, <1>2
  <2> QED
    BY <2>1 DEF Same
<1>3. ASSUME Same(a, b, m)
      PROVE  r = s
  <2>1. PICK k \in Int : a = b + k * m
    BY <1>3 DEF Same
  <2>2. a = m * (q + k) + s /\ q + k \in Int
    BY <1>1, <2>1
  <2>3. (m * (q + k) + s) % m = s
    BY <1>1, <2>2, DivisionIs
  <2> QED
    BY <2>2, <2>3 DEF r
<1> QED
  BY <1>2, <1>3 DEF r, s

\* Products and sums of residues.
LEMMA ResidueOfProduct ==
  ASSUME NEW a \in Int, NEW b \in Int, NEW m \in Nat \ {0}
  PROVE  /\ ((a % m) * b) % m = (a * b) % m /\ (a * (b % m)) % m = (a * b) % m
         /\ ((a % m) * (b % m)) % m = (a * b) % m
<1>1. ASSUME NEW x \in Int, NEW y \in Int
      PROVE  ((x % m) * y) % m = (x * y) % m
  <2> DEFINE q == x \div m
             r == x % m
  <2>1. x = m * q + r /\ q \in Int /\ r \in Int
    BY DivisionOf
  <2> HIDE DEF q, r
  <2> DEFINE xy == x * y
             ry == r * y
             k == q * y
  <2>2. xy = ry + k * m /\ xy \in Int /\ ry \in Int /\ k \in Int
    BY <2>1
  <2> HIDE DEF xy, ry, k
  <2>3. xy % m = ry % m
    <3>1. Same(xy, ry, m)
      BY <2>2 DEF Same
    <3> QED
      BY <2>2, <3>1, SameResidue
  <2> QED
    BY <2>3 DEF r, xy, ry
<1>2. ((a % m) * b) % m = (a * b) % m
  BY <1>1
<1>3. ((b % m) * a) % m = (b * a) % m
  BY <1>1
<1>4. a % m \in Int /\ b % m \in Int
  BY DivisionOf
<1>5. ((a % m) * (b % m)) % m = (a * (b % m)) % m
  BY <1>1, <1>4
<1>6. (b % m) * a = a * (b % m) /\ b * a = a * b
  BY <1>4
<1> QED
  BY <1>2, <1>3, <1>5, <1>6

LEMMA ResidueOfSum ==
  ASSUME NEW a \in Int, NEW b \in Int, NEW m \in Nat \ {0}
  PROVE  ((a % m) + (b % m)) % m = (a + b) % m /\ ((a % m) - (b % m)) % m = (a - b) % m
<1> DEFINE p == a \div m
           q == b \div m
           r == a % m
           s == b % m
<1>1. a = m * p + r /\ b = m * q + s /\ p \in Int /\ q \in Int /\ r \in Int /\ s \in Int
  BY DivisionOf
<1> HIDE DEF p, q, r, s
<1>2. a + b = (r + s) + (p + q) * m /\ a - b = (r - s) + (p - q) * m
  BY <1>1
<1>3. (a + b) % m = (r + s) % m
  <2>1. a + b \in Int /\ r + s \in Int /\ p + q \in Int
    BY <1>1
  <2>2. Same(a + b, r + s, m)
    BY <1>2, <2>1 DEF Same
  <2> QED
    BY <2>1, <2>2, SameResidue
<1>4. (a - b) % m = (r - s) % m
  <2>1. a - b \in Int /\ r - s \in Int /\ p - q \in Int
    BY <1>1
  <2>2. Same(a - b, r - s, m)
    BY <1>2, <2>1 DEF Same
  <2> QED
    BY <2>1, <2>2, SameResidue
<1> QED
  BY <1>3, <1>4 DEF r, s

LEMMA LeastIs ==
  \A a, b \in Int : Least(a, b) = IF a <= b THEN a ELSE b
<1> TAKE a \in Int, b \in Int
<1> DEFINE l == IF a <= b THEN a ELSE b
           Is(x) == \A y \in {a, b} : x <= y
<1>1. l \in {a, b} /\ Is(l)
  OBVIOUS
<1>2. \A x \in {a, b} : Is(x) => x = l
  OBVIOUS
<1>3. Least(a, b) = CHOOSE x \in {a, b} : Is(x)
  BY DEF Least, Min
<1> HIDE DEF l, Is
<1>4. Least(a, b) \in {a, b} /\ Is(Least(a, b))
  BY <1>1, <1>3
<1>5. Least(a, b) = l
  BY <1>2, <1>4
<1> QED
  BY <1>5 DEF l

LEMMA CeilDivIs ==
  ASSUME NEW a \in Nat, NEW b \in Nat \ {0}
  PROVE  /\ CeilDiv(a, b) \in Nat
         /\ \A k \in Nat : k < CeilDiv(a, b) <=> k * b < a
<1> DEFINE c == (a + b - 1) \div b
           r == (a + b - 1) % b
           x == a + b - 1
<1>1. x = b * c + r /\ r \in 0 .. b - 1 /\ c \in Int
  <2>1. x \in Int
    OBVIOUS
  <2> HIDE DEF x
  <2>2. x = b * (x \div b) + (x % b) /\ x % b \in 0 .. b - 1 /\ x \div b \in Int
    BY <2>1, DivisionOf
  <2> QED
    BY <2>2 DEF x
<1>2. CeilDiv(a, b) = c
  BY DEF CeilDiv
<1> HIDE DEF c, r
<1>3. a + b - 1 = b * c + r
  BY <1>1
<1>4. c >= 0
  <2> SUFFICES ASSUME c <= -1 PROVE FALSE
    BY <1>1
  <2>1. b * c <= b * (-1) /\ b * (-1) = - b
    BY <1>1
  <2> QED
    BY <1>1, <1>3, <2>1
<1>5. ASSUME NEW k \in Nat
      PROVE  k < c <=> k * b < a
  <2>1. ASSUME k < c
        PROVE  k * b < a
    <3>1. (k + 1) * b <= c * b /\ (k + 1) * b = k * b + b /\ c * b = b * c
      BY <1>1, <2>1
    <3> QED
      BY <1>1, <1>3, <3>1
  <2>2. ASSUME c <= k
        PROVE  a <= k * b
    <3>1. c * b <= k * b /\ c * b = b * c
      BY <1>1, <2>2
    <3> QED
      BY <1>1, <1>3, <3>1
  <2> QED
    BY <1>1, <2>1, <2>2
<1> QED
  BY <1>1, <1>2, <1>4, <1>5

-----------------------------------------------------------------------------
(* Digits in base two *)

Digit(x, k) == ShiftRight(x, k) % 2

\* The digits of e below the one at k, and with it.
LEMMA NextDigit ==
  ASSUME NEW e \in Nat, NEW k \in Nat
  PROVE  e % TwoTo[k + 1] = (e % TwoTo[k]) + TwoTo[k] * (ShiftRight(e, k) % 2)
<1> DEFINE t == TwoTo[k]
           q == e \div t
           r == e % t
           h == q \div 2
           d == q % 2
<1>1. t \in Nat \ {0} /\ TwoTo[k + 1] = 2 * t
  BY PowersOfTwo
<1> HIDE DEF t
<1>2. e = t * q + r /\ r \in 0 .. t - 1 /\ q \in Int
  <2>1. e \in Int
    OBVIOUS
  <2>2. e = t * (e \div t) + (e % t)
    BY <1>1, <2>1, DivisionOf
  <2>3. e % t \in 0 .. t - 1 /\ e \div t \in Int
    BY <1>1, <2>1, DivisionOf
  <2> QED
    BY <2>2, <2>3
<1> HIDE DEF q, r
<1>3. q = 2 * h + d /\ d \in {0, 1} /\ h \in Int
  BY <1>2
<1> HIDE DEF h, d
<1> DEFINE u == 2 * t
           rest == r + t * d
<1>4. e = u * h + rest /\ rest \in 0 .. u - 1 /\ u \in Nat \ {0}
  <2>1. t * (2 * h + d) = u * h + t * d
    BY <1>1, <1>3
  <2>2. t * d \in {0, t}
    BY <1>1, <1>3
  <2>3. u * h \in Int
    BY <1>1, <1>3
  <2> QED
    BY <1>1, <1>2, <1>3, <2>1, <2>2, <2>3
<1>5. (u * h + rest) % u = rest
  <2> HIDE DEF u, rest
  <2> QED
    BY <1>3, <1>4, DivisionIs
<1> QED
  BY <1>1, <1>4, <1>5 DEF ShiftRight, t, q, r, d

\* Multiplication by a power of two before a division by one.
LEMMA ShiftedRemainder ==
  ASSUME NEW x \in Nat, NEW a \in Nat, NEW w \in Nat
  PROVE  /\ (x * TwoTo[a]) % TwoTo[a + w] = (x % TwoTo[w]) * TwoTo[a]
         /\ (x * TwoTo[a]) \div TwoTo[a + w] = x \div TwoTo[w]
<1> DEFINE t == TwoTo[a]
           u == TwoTo[w]
           tu == t * u
           q == x \div u
           r == x % u
           rest == r * t
<1>1. t \in Nat \ {0} /\ u \in Nat \ {0} /\ TwoTo[a + w] = tu
  BY PowersOfTwo, TwoToSum
<1> HIDE DEF t, u
<1>2. x = u * q + r /\ r \in 0 .. u - 1 /\ q \in Int
  BY <1>1, DivisionOf
<1> HIDE DEF q, r
<1>3. x * t = tu * q + rest
  BY <1>1, <1>2
<1>4. tu \in Nat \ {0} /\ rest \in 0 .. tu - 1
  <2>1. r * t <= (u - 1) * t /\ (u - 1) * t = tu - t /\ r * t >= 0 /\ tu > 0
    BY <1>1, <1>2
  <2> QED
    BY <1>1, <1>2, <2>1
<1> HIDE DEF tu, rest
<1>5. (tu * q + rest) % tu = rest /\ (tu * q + rest) \div tu = q
  BY <1>2, <1>4, DivisionIs
<1> QED
  BY <1>1, <1>3, <1>5 DEF q, r, t, u, rest

LEMMA RemainderAgain ==
  ASSUME NEW x \in Nat, NEW piece \in Nat, NEW w \in Nat, piece <= w
  PROVE  (x % TwoTo[w]) % TwoTo[piece] = x % TwoTo[piece]
<1> DEFINE t == TwoTo[piece]
           u == TwoTo[w - piece]
           tu == t * u
           q == x \div tu
           r == x % tu
<1>1. t \in Nat \ {0} /\ u \in Nat \ {0} /\ TwoTo[w] = tu
  <2>1. w - piece \in Nat /\ piece + (w - piece) = w
    OBVIOUS
  <2> QED
    BY <2>1, PowersOfTwo, TwoToSum
<1> HIDE DEF t, u
<1>2. tu \in Nat \ {0}
  BY <1>1
<1>3. x = tu * q + r /\ r \in 0 .. tu - 1 /\ q \in Int
  <2> HIDE DEF tu
  <2> QED
    BY <1>2, DivisionOf
<1> HIDE DEF q, r
<1> DEFINE k == u * q
<1>4. x = r + k * t /\ k \in Int /\ r \in Int
  BY <1>1, <1>2, <1>3
<1> HIDE DEF k, tu
<1>5. Same(x, r, t)
  BY <1>4 DEF Same
<1>6. x % t = r % t
  BY <1>1, <1>4, <1>5, SameResidue
<1> QED
  BY <1>1, <1>6 DEF r, t

LEMMA DivisionAgain ==
  ASSUME NEW x \in Nat, NEW a \in Nat, NEW b \in Nat
  PROVE  ShiftRight(ShiftRight(x, a), b) = ShiftRight(x, a + b) /\ ShiftRight(x, a) \in Nat
<1> DEFINE t == TwoTo[a]
           u == TwoTo[b]
           tu == t * u
           q == x \div t
           r == x % t
           p == q \div u
           s == q % u
           rest == t * s + r
<1>1. t \in Nat \ {0} /\ u \in Nat \ {0} /\ TwoTo[a + b] = tu
  BY PowersOfTwo, TwoToSum
<1> HIDE DEF t, u
<1>2. x = t * q + r /\ r \in 0 .. t - 1 /\ q \in Nat
  <2>1. x = t * q + r /\ r \in 0 .. t - 1 /\ q \in Int
    BY SMTT(30), <1>1, DivisionOf
  <2>2. q >= 0
    BY <1>1
  <2> QED
    BY <2>1, <2>2
<1> HIDE DEF q, r
<1>3. q = u * p + s /\ s \in 0 .. u - 1 /\ p \in Int
  BY SMTT(30), <1>1, <1>2, DivisionOf
<1> HIDE DEF p, s
<1>4. x = tu * p + rest
  <2>1. t * (u * p + s) = tu * p + t * s
    BY <1>1, <1>3
  <2>2. t * s \in Int /\ tu * p \in Int
    BY <1>1, <1>3
  <2> QED
    BY <1>2, <1>3, <2>1, <2>2
<1>5. tu \in Nat \ {0} /\ rest \in 0 .. tu - 1
  <2>1. t * s <= t * (u - 1) /\ t * (u - 1) = tu - t /\ t * s >= 0 /\ tu > 0
    BY <1>1, <1>3
  <2>2. t * s \in Int /\ tu \in Int
    BY <1>1, <1>3
  <2> QED
    BY <1>1, <1>2, <2>1, <2>2
<1> HIDE DEF tu, rest
<1>6. (tu * p + rest) \div tu = p
  BY <1>3, <1>5, DivisionIs
<1> QED
  BY <1>1, <1>2, <1>4, <1>6 DEF ShiftRight, p, q, t, u

LEMMA HigherDigits ==
  ASSUME NEW x \in Nat, NEW y \in Nat, NEW n \in Nat, NEW k \in Nat, k < n
  PROVE  Digit(x + y * TwoTo[n], k) = Digit(x, k)
<1> DEFINE t == TwoTo[k]
           u == TwoTo[n - k - 1]
           q == x \div t
           r == x % t
           h == y * u
           z == x + y * TwoTo[n]
           q2 == q + h * 2
<1>1. t \in Nat \ {0} /\ u \in Nat \ {0} /\ TwoTo[n] = (2 * t) * u
  <2>1. n - k - 1 \in Nat /\ (k + 1) + (n - k - 1) = n /\ k + 1 \in Nat
    OBVIOUS
  <2>2. TwoTo[k + 1] = 2 * t
    BY PowersOfTwo
  <2>3. TwoTo[n] = TwoTo[k + 1] * u
    BY <2>1, TwoToSum
  <2> QED
    BY <2>1, <2>2, <2>3, PowersOfTwo
<1> HIDE DEF t, u
<1>2. x = t * q + r /\ r \in 0 .. t - 1 /\ q \in Int
  BY <1>1, DivisionOf
<1> HIDE DEF q, r
<1>3. h \in Int /\ y * TwoTo[n] = t * (h * 2)
  BY <1>1
<1> HIDE DEF h
<1>4. q2 \in Int /\ z = t * q2 + r
  BY <1>1, <1>2, <1>3
<1> HIDE DEF z
<1>5. z \div t = q2
  <2> HIDE DEF q2
  <2>1. (t * q2 + r) \div t = q2
    BY <1>1, <1>2, <1>4, DivisionIs
  <2> QED
    BY <1>4, <2>1
<1>6. q2 % 2 = q % 2
  <2>1. q2 = q + h * 2
    OBVIOUS
  <2> HIDE DEF q2
  <2>2. Same(q2, q, 2)
    BY <1>3, <2>1 DEF Same
  <2>3. \A m \in Nat \ {0} : Same(q2, q, m) <=> q2 % m = q % m
    BY <1>2, <1>4, SameResidue
  <2>4. 2 \in Nat \ {0}
    OBVIOUS
  <2> QED
    BY <2>2, <2>3, <2>4
<1> HIDE DEF q2
<1> QED
  BY <1>5, <1>6 DEF Digit, ShiftRight, t, q, z

\* The n digits of x from the one at c on, as a number.
LEMMA DigitsOfPart ==
  ASSUME NEW x \in Nat, NEW c \in Nat, NEW n \in Nat
  PROVE  LET part == (x % TwoTo[c + n]) \div TwoTo[c]
         IN  /\ part \in Nat /\ part < TwoTo[n]
             /\ \A k \in Nat : k < n => Digit(part, k) = Digit(x, c + k)
<1> DEFINE u == TwoTo[c + n]
           t == TwoTo[c]
           q == x \div u
           z == x % u
           part == z \div t
<1>1. /\ u \in Nat \ {0} /\ t \in Nat \ {0} /\ TwoTo[n] \in Nat \ {0} /\ u = t * TwoTo[n]
      /\ c + n \in Nat
  <2>1. c + n \in Nat
    OBVIOUS
  <2>2. \A k \in Nat : TwoTo[k] \in Nat \ {0}
    BY PowersOfTwo
  <2> QED
    BY <2>1, <2>2, TwoToSum
<1>2. x = z + q * u /\ z \in Nat /\ z < u /\ q \in Nat
  <2> HIDE DEF u
  <2>1. x = u * q + z /\ z \in 0 .. u - 1 /\ q \in Int
    <3>1. x \in Int /\ u \in Nat \ {0}
      BY <1>1
    <3>2. x = u * (x \div u) + (x % u) /\ x % u \in 0 .. u - 1 /\ x \div u \in Int
      BY <3>1, DivisionOf
    <3> QED
      BY <3>2
  <2>2. q >= 0
    BY <1>1
  <2>3. u * q = q * u
    BY <1>1, <2>1
  <2> HIDE DEF q, z
  <2> QED
    BY <1>1, <2>1, <2>2, <2>3
<1> HIDE DEF z, q
<1>3. part = ShiftRight(z, c)
  BY DEF ShiftRight
<1>4. part \in Nat
  BY <1>2, <1>3, DivisionAgain
<1>5. part < TwoTo[n]
  <2> DEFINE piece == TwoTo[n]
  <2> SUFFICES ASSUME part >= piece PROVE FALSE
    BY <1>1, <1>4
  <2> HIDE DEF piece, t, u
  <2>1. z = t * part + (z % t) /\ z % t \in 0 .. t - 1
    <3>1. z \in Int /\ t \in Nat \ {0}
      BY <1>1, <1>2
    <3>2. z = t * (z \div t) + (z % t) /\ z % t \in 0 .. t - 1
      BY <3>1, DivisionOf
    <3> QED
      BY <3>2
  <2> HIDE DEF part
  <2>2. t * part >= t * piece /\ u = t * piece
    BY <1>1, <1>4 DEF piece
  <2>3. t * part \in Int /\ t * piece \in Int
    BY <1>1, <1>4 DEF piece
  <2> QED
    BY <1>1, <1>2, <2>1, <2>2, <2>3
<1>6. ASSUME NEW k \in Nat, k < n
      PROVE  Digit(part, k) = Digit(x, c + k)
  <2>1. Digit(part, k) = Digit(z, c + k)
    BY <1>2, <1>3, DivisionAgain DEF Digit
  <2>2. c + k \in Nat /\ c + k < c + n
    BY <1>6
  <2>3. Digit(z + q * TwoTo[c + n], c + k) = Digit(z, c + k)
    BY <1>1, <1>2, <2>2, HigherDigits
  <2> QED
    BY <1>2, <2>1, <2>3
<1> QED
  BY <1>4, <1>5, <1>6 DEF z

\* A number of n digits put on top of one of f digits.
LEMMA DigitsJoined ==
  ASSUME NEW f \in Nat, NEW n \in Nat, NEW x \in Nat, x < TwoTo[f], NEW y \in Nat, y < TwoTo[n]
  PROVE  LET z == x + y * TwoTo[f]
         IN  /\ z \in Nat /\ z < TwoTo[f + n] /\ y * TwoTo[f] < TwoTo[f + n]
             /\ \A k \in Nat : k < f => Digit(z, k) = Digit(x, k)
             /\ \A k \in Nat : Digit(z, f + k) = Digit(y, k)
<1> DEFINE t == TwoTo[f]
           u == TwoTo[n]
           yt == y * t
           z == x + yt
<1>1. t \in Nat \ {0} /\ u \in Nat \ {0} /\ TwoTo[f + n] = t * u
  BY PowersOfTwo, TwoToSum
<1>2. yt \in Nat /\ yt <= t * u - t
  <2> HIDE DEF t, u
  <2>1. y <= u - 1
    BY <1>1 DEF u
  <2>2. y * t <= (u - 1) * t /\ (u - 1) * t = t * u - t
    BY <1>1, <2>1
  <2> QED
    BY <1>1, <2>2
<1>3. z \in Nat /\ z < t * u /\ yt < t * u
  <2>1. t * u \in Int /\ x < t
    BY <1>1
  <2> HIDE DEF t, u, yt
  <2> QED
    BY <1>1, <1>2, <2>1
<1>4. ASSUME NEW k \in Nat, k < f
      PROVE  Digit(z, k) = Digit(x, k)
  BY <1>4, HigherDigits
<1>5. ASSUME NEW k \in Nat
      PROVE  Digit(z, f + k) = Digit(y, k)
  <2>1. z = t * y + x /\ x \in 0 .. t - 1
    <3> HIDE DEF t
    <3>1. y * t = t * y
      BY <1>1
    <3> QED
      BY <1>1, <3>1 DEF t
  <2>2. z \div t = y
    <3> HIDE DEF t, z
    <3>1. (t * y + x) \div t = y
      BY <1>1, <2>1, DivisionIs
    <3> QED
      BY <2>1, <3>1
  <2> HIDE DEF z
  <2>3. ShiftRight(z, f) = y
    BY <2>2 DEF ShiftRight
  <2>4. ShiftRight(ShiftRight(z, f), k) = ShiftRight(z, f + k)
    BY <1>3, DivisionAgain
  <2> QED
    BY <2>3, <2>4 DEF Digit
<1> HIDE DEF yt
<1> QED
  BY <1>1, <1>3, <1>4, <1>5 DEF yt

LEMMA SameDigits ==
  ASSUME NEW n \in Nat, NEW x \in Nat, x < TwoTo[n], NEW y \in Nat, y < TwoTo[n],
         \A k \in Nat : k < n => Digit(x, k) = Digit(y, k)
  PROVE  x = y
<1> DEFINE A == {k \in Nat : k <= n => x % TwoTo[k] = y % TwoTo[k]}
<1>1. 0 \in A
  <2>1. x % 1 = 0 /\ y % 1 = 0
    OBVIOUS
  <2> QED
    BY <2>1, PowersOfTwo
<1>2. ASSUME NEW k \in Nat, k \in A
      PROVE  k + 1 \in A
  <2> SUFFICES ASSUME k + 1 <= n PROVE x % TwoTo[k + 1] = y % TwoTo[k + 1]
    OBVIOUS
  <2>1. x % TwoTo[k] = y % TwoTo[k] /\ Digit(x, k) = Digit(y, k)
    BY <1>2
  <2>2. x % TwoTo[k + 1] = (x % TwoTo[k]) + TwoTo[k] * Digit(x, k)
    BY NextDigit DEF Digit
  <2>3. y % TwoTo[k + 1] = (y % TwoTo[k]) + TwoTo[k] * Digit(y, k)
    BY NextDigit DEF Digit
  <2> QED
    BY <2>1, <2>2, <2>3
<1>3. Nat \subseteq A
  <2> HIDE DEF A
  <2> QED
    BY <1>1, <1>2, Induction
<1>4. x % TwoTo[n] = y % TwoTo[n]
  BY <1>3
<1>5. TwoTo[n] \in Nat \ {0}
  BY PowersOfTwo
<1>6. x % TwoTo[n] = x /\ y % TwoTo[n] = y
  BY <1>5, SmallResidue
<1> QED
  BY <1>4, <1>6

-----------------------------------------------------------------------------
(* The loop *)

\* A call that is not refused and has something to do.
Call(input, length, inBits, outBits, inType, outType) ==
  /\ length \in Nat \ {0} /\ inBits \in Nat \ {0} /\ outBits \in Nat \ {0}
  /\ inType \in Nat /\ outType \in Nat
  /\ input \in Seq(Nat)
  /\ ~ Refused(input, length, inBits, outBits, inType, outType)

\* Number of bits that were read, and at which output integer the loop is once
\* a full one is left behind.
Position(s, length, inBits) ==
  IF TranscribeDone(s, length, inBits) THEN length
  ELSE (s.i - 1) * inBits + Least(inBits, s.remaining) - s.left
Reached(s) == s.p + (IF s.need = 0 THEN 1 ELSE 0)

Shape(s, length, inBits, outBits) ==
  /\ s \in [i : 1 .. CeilDiv(length, inBits) + 1, left : Int, remaining : Int,
            p : 1 .. CeilDiv(length, outBits), size : Nat, need : Nat,
            output : [1 .. CeilDiv(length, outBits) -> Nat]]
  /\ s.remaining = length - (s.i - 1) * inBits
  /\ s.i <= CeilDiv(length, inBits) => s.left \in 1 .. Least(inBits, s.remaining)
  /\ s.size <= outBits /\ s.need <= s.size
  /\ s.size = outBits \/ s.size >= length - (s.p - 1) * outBits
  /\ Position(s, length, inBits) = (s.p - 1) * outBits + s.size - s.need

\* The digits of the output below a position are those of the input.
Copied(s, input, position, length, inBits, outBits) ==
  \A q \in 1 .. CeilDiv(length, outBits), k \in 0 .. outBits - 1,
     j \in 1 .. CeilDiv(length, inBits), h \in 0 .. inBits - 1 :
    (q - 1) * outBits + k = (j - 1) * inBits + h /\ (q - 1) * outBits + k < position
      => Digit(s.output[q], k) = Digit(input[j], h)

Fitting(s, length, outBits) ==
  /\ \A q \in 1 .. CeilDiv(length, outBits) :
       /\ s.output[q] < TwoTo[outBits]
       /\ q > s.p => s.output[q] = 0
  /\ s.output[s.p] < TwoTo[s.size - s.need]

LoopInv(s, input, length, inBits, outBits) ==
  /\ Shape(s, length, inBits, outBits)
  /\ Copied(s, input, Position(s, length, inBits), length, inBits, outBits)
  /\ Fitting(s, length, outBits)

\* Which of the integers of b bits a position is in.
LEMMA SameChunk ==
  ASSUME NEW b \in Nat \ {0}, NEW p \in Nat, NEW q \in Nat, NEW f \in 0 .. b - 1,
         NEW k \in 0 .. b - 1, (q - 1) * b + k = (p - 1) * b + f
  PROVE  q = p /\ k = f
<1> DEFINE d == q - p
<1>1. d * b = f - k
  <2>1. d * b = (q - 1) * b - (p - 1) * b /\ (q - 1) * b \in Int /\ (p - 1) * b \in Int
    OBVIOUS
  <2> QED
    BY <2>1
<1>2. d = 0
  <2>1. ASSUME d >= 1 PROVE FALSE
    <3>1. d * b >= b
      BY <2>1
    <3> QED
      BY <1>1, <3>1
  <2>2. ASSUME d <= -1 PROVE FALSE
    <3>1. d * b <= (-1) * b /\ (-1) * b = - b
      BY <2>2
    <3> QED
      BY <1>1, <3>1
  <2> QED
    BY <2>1, <2>2
<1>3. d * b = 0
  BY <1>2
<1> QED
  BY <1>1, <1>2, <1>3

\* One pass of the while loop moves n bits, from the lowest not yet used.
Movable(x, s, n, b, inType, outType, w) ==
  /\ x \in Nat /\ n \in Nat /\ b \in Nat \ {0} /\ inType \in Nat /\ outType \in Nat
  /\ w \in 1 .. b /\ b <= inType /\ n <= outType
  /\ Least(b, s.remaining) = w /\ s.left \in 1 .. w /\ n <= s.left

LEMMA MovedIs ==
  ASSUME NEW x, NEW s, NEW n, NEW b, NEW inType, NEW outType, NEW w,
         Movable(x, s, n, b, inType, outType, w)
  PROVE  Moved(x, s, n, b, inType, outType)
           = (x % TwoTo[w - s.left + n]) \div TwoTo[w - s.left]
<1> DEFINE c == w - s.left
           T == inType
           part == (x % TwoTo[c + n]) \div TwoTo[c]
           y == x % TwoTo[w]
           z == x % TwoTo[c + n]
<1> USE DEF Movable
<1>1. /\ w \in Nat /\ c \in Nat /\ T - w \in Nat /\ s.left - n \in Nat /\ c + n \in Nat
      /\ T - n \in Nat /\ T - c - n \in Nat
  OBVIOUS
<1>2. \A k \in Nat : TwoTo[k] \in Nat \ {0}
  BY PowersOfTwo
<1>3. \A piece \in Nat, k \in Nat : piece % TwoTo[k] \in Nat
  <2> TAKE piece \in Nat, k \in Nat
  <2> DEFINE t == TwoTo[k]
  <2>1. t \in Nat \ {0}
    BY <1>2
  <2> HIDE DEF t
  <2>2. piece % t \in Nat
    BY <2>1
  <2> QED
    BY <2>2 DEF t
<1>4. Loaded(x, s, b, T) = y * TwoTo[T - w]
  <2>1. (x * TwoTo[T - w]) % TwoTo[(T - w) + w] = y * TwoTo[T - w]
    BY <1>1, ShiftedRemainder
  <2>2. (T - w) + w = T
    OBVIOUS
  <2>3. Loaded(x, s, b, T) = (x * TwoTo[T - w]) % TwoTo[T]
    BY DEF Loaded, ShiftLeft
  <2> QED
    BY <2>1, <2>2, <2>3
<1>5. ShiftLeft(Loaded(x, s, b, T), s.left - n, T) = z * TwoTo[T - c - n]
  <2>1. (y * TwoTo[T - w]) * TwoTo[s.left - n] = y * TwoTo[T - c - n]
    <3>1. (T - w) + (s.left - n) = T - c - n
      BY <1>1
    <3>2. TwoTo[T - c - n] = TwoTo[T - w] * TwoTo[s.left - n]
      BY ZenonT(40), <1>1, <3>1, TwoToSum
    <3> DEFINE e == TwoTo[T - w]
               g == TwoTo[s.left - n]
    <3>3. y \in Nat /\ e \in Nat /\ g \in Nat
      BY <1>1, <1>2, <1>3
    <3> HIDE DEF y, e, g
    <3>4. (y * e) * g = y * (e * g)
      BY <3>3
    <3> QED
      BY <3>2, <3>4 DEF e, g
  <2>2. y \in Nat
    BY <1>1, <1>3
  <2>3. (T - c - n) + (c + n) = T
    BY <1>1
  <2>4. (y * TwoTo[T - c - n]) % TwoTo[T] = (y % TwoTo[c + n]) * TwoTo[T - c - n]
    <3> HIDE DEF y, c
    <3>1. (y * TwoTo[T - c - n]) % TwoTo[(T - c - n) + (c + n)]
            = (y % TwoTo[c + n]) * TwoTo[T - c - n]
      BY <1>1, <2>2, ShiftedRemainder
    <3> QED
      BY <2>3, <3>1
  <2>5. y % TwoTo[c + n] = z
    <3>1. c + n <= w
      BY <1>1
    <3> HIDE DEF c
    <3> QED
      BY <1>1, <3>1, RemainderAgain
  <2> QED
    BY <1>4, <2>1, <2>4, <2>5 DEF ShiftLeft
<1>6. ShiftRight(z * TwoTo[T - c - n], T - n) = part
  <2>1. (T - c - n) + c = T - n /\ z \in Nat
    <3>1. c \in Int /\ T \in Int
      BY <1>1
    <3> HIDE DEF c
    <3>2. (T - c - n) + c = T - n
      BY <3>1
    <3> QED
      BY <1>1, <1>3, <3>2
  <2> HIDE DEF z, c
  <2>2. (z * TwoTo[T - c - n]) \div TwoTo[(T - c - n) + c] = z \div TwoTo[c]
    BY <1>1, <2>1, ShiftedRemainder
  <2> QED
    BY <2>1, <2>2 DEF ShiftRight, z
<1>7. part % TwoTo[outType] = part
  <2> HIDE DEF c
  <2>1. part \in Nat /\ part < TwoTo[n]
    BY <1>1, DigitsOfPart
  <2>2. TwoTo[n] <= TwoTo[outType] /\ TwoTo[outType] \in Nat \ {0} /\ TwoTo[n] \in Nat
    BY <1>2, TwoToGrows
  <2> HIDE DEF part
  <2> QED
    BY <2>1, <2>2, SmallResidue
<1> HIDE DEF part
<1>8. Moved(x, s, n, b, inType, outType) = part
  BY <1>5, <1>6, <1>7 DEF Moved
<1> QED
  BY <1>8 DEF part

\* The facts about a call and the state of its loop that every step uses.
LEMMA InCall ==
  ASSUME NEW input, NEW L, NEW I, NEW O, NEW iT, NEW oT, Call(input, L, I, O, iT, oT)
  PROVE  /\ L \in Nat \ {0} /\ I \in Nat \ {0} /\ O \in Nat \ {0} /\ iT \in Nat /\ oT \in Nat
         /\ I <= iT /\ O <= oT
         /\ CeilDiv(L, I) \in Nat /\ CeilDiv(L, O) \in Nat
         /\ \A k \in Nat : k < CeilDiv(L, I) <=> k * I < L
         /\ \A k \in Nat : k < CeilDiv(L, O) <=> k * O < L
         /\ \A k \in 1 .. CeilDiv(L, I) : input[k] \in Nat
<1>1. /\ L \in Nat \ {0} /\ I \in Nat \ {0} /\ O \in Nat \ {0} /\ iT \in Nat /\ oT \in Nat
      /\ I <= iT /\ O <= oT /\ input \in Seq(Nat) /\ ~(Len(input) < CeilDiv(L, I))
  BY DEF Call, Refused
<1>2. CeilDiv(L, I) \in Nat /\ CeilDiv(L, O) \in Nat
  BY <1>1, CeilDivIs
<1>3. \A k \in Nat : k < CeilDiv(L, I) <=> k * I < L
  BY <1>1, CeilDivIs
<1>4. \A k \in Nat : k < CeilDiv(L, O) <=> k * O < L
  BY <1>1, CeilDivIs
<1>5. \A k \in 1 .. CeilDiv(L, I) : input[k] \in Nat
  BY <1>1, <1>2
<1> QED
  BY <1>1, <1>2, <1>3, <1>4, <1>5

LEMMA InShape ==
  ASSUME NEW input, NEW L, NEW I, NEW O, NEW iT, NEW oT, Call(input, L, I, O, iT, oT),
         NEW s, Shape(s, L, I, O), ~ TranscribeDone(s, L, I)
  PROVE  LET P == (s.p - 1) * O
             A == (s.i - 1) * I
             w == Least(I, s.remaining)
         IN  /\ s \in [i : 1 .. CeilDiv(L, I) + 1, left : Int, remaining : Int,
                       p : 1 .. CeilDiv(L, O), size : Nat, need : Nat,
                       output : [1 .. CeilDiv(L, O) -> Nat]]
             /\ A \in Nat /\ P \in Nat /\ A < L /\ P < L
             /\ s.i \in 1 .. CeilDiv(L, I) /\ s.p \in 1 .. CeilDiv(L, O)
             /\ s.remaining = L - A /\ s.remaining \in 1 .. L
             /\ w = (IF I <= s.remaining THEN I ELSE s.remaining)
             /\ w \in 1 .. I /\ w <= s.remaining /\ s.left \in 1 .. w
             /\ s.size \in 0 .. O /\ s.need \in 0 .. s.size /\ (s.size = O \/ s.size >= L - P)
             /\ Position(s, L, I) = P + s.size - s.need
             /\ Position(s, L, I) = A + w - s.left
<1> DEFINE nin == CeilDiv(L, I)
           nout == CeilDiv(L, O)
           P == (s.p - 1) * O
           A == (s.i - 1) * I
           w == Least(I, s.remaining)
<1>1. /\ L \in Nat \ {0} /\ I \in Nat \ {0} /\ O \in Nat \ {0} /\ nin \in Nat /\ nout \in Nat
      /\ \A k \in Nat : k < nin <=> k * I < L
      /\ \A k \in Nat : k < nout <=> k * O < L
  BY InCall
<1>2. /\ s \in [i : 1 .. nin + 1, left : Int, remaining : Int, p : 1 .. nout, size : Nat, need : Nat,
                output : [1 .. nout -> Nat]]
      /\ s.remaining = L - A /\ (s.i <= nin => s.left \in 1 .. w)
      /\ s.size <= O /\ s.need <= s.size /\ (s.size = O \/ s.size >= L - P)
      /\ Position(s, L, I) = P + s.size - s.need
  BY DEF Shape
<1>3. ~(s.i > nin)
  BY DEF TranscribeDone
<1>4. Position(s, L, I) = A + w - s.left
  BY DEF Position
<1> HIDE DEF nin, nout
<1>5. s.i \in 1 .. nin /\ s.p \in 1 .. nout
  BY <1>1, <1>2, <1>3
<1>6. A \in Nat /\ A < L
  <2>1. s.i - 1 \in Nat /\ s.i - 1 < nin
    BY <1>1, <1>5
  <2>2. \A k \in Nat : k * I \in Nat
    BY <1>1
  <2> QED
    BY <1>1, <2>1, <2>2
<1>7. P \in Nat /\ P < L
  <2>1. s.p - 1 \in Nat /\ s.p - 1 < nout
    BY <1>1, <1>5
  <2>2. \A k \in Nat : k * O \in Nat
    BY <1>1
  <2> QED
    BY <1>1, <2>1, <2>2
<1> HIDE DEF A, P
<1>8. s.remaining \in 1 .. L
  BY <1>1, <1>2, <1>6
<1>9. w = (IF I <= s.remaining THEN I ELSE s.remaining)
  BY <1>1, <1>8, LeastIs
<1> HIDE DEF w
<1>10. w \in 1 .. I /\ w <= s.remaining
  BY <1>1, <1>8, <1>9
<1>11. s.left \in 1 .. w
  BY <1>1, <1>2, <1>5
<1>12. s.size \in 0 .. O /\ s.need \in 0 .. s.size
  BY <1>1, <1>2
<1> QED
  BY <1>2, <1>4, <1>5, <1>6, <1>7, <1>8, <1>9, <1>10, <1>11, <1>12 DEF nin, nout, w, A, P

\* Before the first pass.
LEMMA AtStart ==
  ASSUME NEW input, NEW L, NEW I, NEW O, NEW iT, NEW oT, Call(input, L, I, O, iT, oT)
  PROVE  /\ LoopInv(TranscribeStart(L, I, O), input, L, I, O)
         /\ TranscribeStart(L, I, O).i + Reached(TranscribeStart(L, I, O)) = 2
<1> DEFINE s == TranscribeStart(L, I, O)
           nin == CeilDiv(L, I)
           nout == CeilDiv(L, O)
<1>1. /\ L \in Nat \ {0} /\ I \in Nat \ {0} /\ O \in Nat \ {0} /\ nin \in Nat /\ nout \in Nat
      /\ \A k \in Nat : k < nin <=> k * I < L
      /\ \A k \in Nat : k < nout <=> k * O < L
  BY InCall
<1>2. nin >= 1 /\ nout >= 1
  <2>1. 0 * I < L /\ 0 * O < L
    BY <1>1
  <2> HIDE DEF nin, nout
  <2>2. 0 < nin /\ 0 < nout
    BY <1>1, <2>1
  <2> QED
    BY <1>1, <2>2
<1>3. /\ Least(I, L) \in 1 .. L /\ Least(L, O) \in 1 .. L /\ Least(L, O) <= O /\ Least(L, I) = Least(I, L)
      /\ Least(L, O) = O \/ Least(L, O) = L
  BY <1>1, LeastIs
<1>4. /\ s.i = 1 /\ s.left = Least(I, L) /\ s.remaining = L /\ s.p = 1 /\ s.size = Least(L, O)
      /\ s.need = Least(L, O) /\ s.output = [k \in 1 .. nout |-> 0]
      /\ s = [i |-> 1, left |-> Least(I, L), remaining |-> L, p |-> 1, size |-> Least(L, O),
              need |-> Least(L, O), output |-> [k \in 1 .. nout |-> 0]]
  BY DEF TranscribeStart
<1> HIDE DEF s, nin, nout
<1>5. s \in [i : 1 .. nin + 1, left : Int, remaining : Int, p : 1 .. nout, size : Nat, need : Nat,
             output : [1 .. nout -> Nat]]
  <2>1. Least(I, L) \in Int /\ Least(L, O) \in Nat
    BY <1>1, <1>3
  <2> QED
    BY <1>1, <1>2, <1>4, <2>1
<1>6. (s.i - 1) * I = 0 /\ (s.p - 1) * O = 0
  BY <1>1, <1>4
<1>7. Position(s, L, I) = 0
  <2>1. ~ TranscribeDone(s, L, I)
    BY <1>1, <1>2, <1>4 DEF TranscribeDone, nin
  <2> QED
    BY <1>1, <1>3, <1>4, <1>6, <2>1 DEF Position
<1>8. Shape(s, L, I, O)
  <2>1. s.remaining = L - (s.i - 1) * I /\ s.left \in 1 .. Least(I, s.remaining)
    BY <1>1, <1>3, <1>4, <1>6
  <2>2. s.size <= O /\ s.need <= s.size /\ (s.size = O \/ s.size >= L - (s.p - 1) * O)
    BY <1>1, <1>3, <1>4, <1>6
  <2>3. Position(s, L, I) = (s.p - 1) * O + s.size - s.need
    BY <1>1, <1>3, <1>4, <1>6, <1>7
  <2> QED
    BY <1>5, <2>1, <2>2, <2>3 DEF Shape, nin, nout
<1>9. Copied(s, input, 0, L, I, O)
  <2>1. ASSUME NEW q \in 1 .. nout, NEW k \in 0 .. O - 1
        PROVE  ~((q - 1) * O + k < 0)
    <3>1. (q - 1) * O >= 0 /\ (q - 1) * O \in Int
      BY <1>1
    <3> QED
      BY <1>1, <3>1
  <2> QED
    BY <2>1 DEF Copied, nout
<1>10. Fitting(s, L, O)
  <2>1. TwoTo[O] > 0 /\ TwoTo[0] = 1
    BY <1>1, PowersOfTwo
  <2>2. s.size - s.need = 0 /\ \A q \in 1 .. nout : s.output[q] = 0
    BY <1>3, <1>4
  <2>3. s.p \in 1 .. nout
    BY <1>2, <1>4, <1>1
  <2> QED
    BY <2>1, <2>2, <2>3 DEF Fitting, nout
<1>11. s.i + Reached(s) = 2
  BY <1>3, <1>4 DEF Reached
<1> QED
  BY <1>7, <1>8, <1>9, <1>10, <1>11 DEF LoopInv, s

\* On to the next integer of the output.
LEMMA NextKeeps ==
  ASSUME NEW input, NEW L, NEW I, NEW O, NEW iT, NEW oT, Call(input, L, I, O, iT, oT),
         NEW s, LoopInv(s, input, L, I, O), ~ TranscribeDone(s, L, I)
  PROVE  LET t == NextOutput(s, O)
         IN  /\ LoopInv(t, input, L, I, O) /\ t.need # 0
             /\ t.i = s.i /\ t.left = s.left /\ t.remaining = s.remaining
             /\ Reached(t) = Reached(s)
<1> DEFINE nin == CeilDiv(L, I)
           nout == CeilDiv(L, O)
           t == NextOutput(s, O)
           P == (s.p - 1) * O
           A == (s.i - 1) * I
<1>1. /\ L \in Nat \ {0} /\ I \in Nat \ {0} /\ O \in Nat \ {0} /\ nin \in Nat /\ nout \in Nat
      /\ \A k \in Nat : k < nin <=> k * I < L
      /\ \A k \in Nat : k < nout <=> k * O < L
  BY InCall
<1>2. Shape(s, L, I, O) /\ Copied(s, input, Position(s, L, I), L, I, O) /\ Fitting(s, L, O)
  BY DEF LoopInv
<1>3. /\ s \in [i : 1 .. nin + 1, left : Int, remaining : Int, p : 1 .. nout, size : Nat, need : Nat,
                output : [1 .. nout -> Nat]]
      /\ A \in Nat /\ P \in Nat /\ A < L /\ s.i \in 1 .. nin /\ s.p \in 1 .. nout
      /\ s.remaining = L - A /\ s.remaining \in 1 .. L
      /\ Least(I, s.remaining) \in 1 .. I /\ Least(I, s.remaining) <= s.remaining
      /\ s.left \in 1 .. Least(I, s.remaining)
      /\ s.size \in 0 .. O /\ s.need \in 0 .. s.size /\ (s.size = O \/ s.size >= L - P)
      /\ Position(s, L, I) = P + s.size - s.need
      /\ Position(s, L, I) = A + Least(I, s.remaining) - s.left
  BY SMTT(30), <1>2, InShape
<1>4. CASE s.need # 0
  <2>1. t = s
    BY <1>4 DEF NextOutput
  <2> QED
    BY <1>4, <2>1
<1>5. CASE s.need = 0
  <2> DEFINE m == Least(s.remaining, O)
  <2>1. t = [s EXCEPT !.p = @ + 1, !.size = m, !.need = m]
    BY <1>5 DEF NextOutput
  <2> DEFINE w == Least(I, s.remaining)
             rem == s.remaining
             left == s.left
             size == s.size
             p == s.p
  <2>2. /\ A \in Int /\ P \in Int /\ L \in Int /\ O \in Int /\ O >= 1 /\ p \in Int
        /\ rem \in Int /\ rem = L - A /\ rem >= 1 /\ w \in Int /\ w <= rem
        /\ left \in Int /\ left >= 1 /\ left <= w /\ size \in Int /\ size <= O
        /\ (size = O \/ size >= L - P)
    BY <1>1, <1>3
  <2>3. P + size = A + w - left
    <3>1. P + s.size - 0 = A + w - left
      BY <1>3, <1>5
    <3> HIDE DEF A, P, w, left
    <3> QED
      BY <2>2, <3>1
  <2>4. p * O = P + O
    <3> HIDE DEF p
    <3>1. (p - 1) * O = p * O - O /\ p * O \in Int
      BY <2>2
    <3>2. P = (p - 1) * O
      BY DEF p
    <3> HIDE DEF P
    <3> QED
      BY <2>2, <3>1, <3>2
  <2> HIDE DEF A, P, w, rem, left, size, p
  <2>5. P + size < L /\ size = O
    BY <2>2, <2>3
  <2>6. rem >= L - (P + O)
    BY <2>2, <2>3, <2>5
  <2>7. p * O < L
    BY <2>2, <2>4, <2>5
  <2>8. s.p + 1 \in 1 .. nout /\ s.p + 1 > s.p
    <3> HIDE DEF nout
    <3>1. nout \in Int /\ p >= 1 /\ p < nout
      <4>1. p \in Nat /\ p >= 1 /\ nout \in Int
        <5>1. p \in 1 .. nout
          BY <1>3 DEF p
        <5> QED
          BY <1>1, <2>2, <5>1
      <4> QED
        BY <1>1, <2>7, <4>1
    <3>2. p + 1 \in 1 .. nout /\ p + 1 > p
      BY <2>2, <3>1
    <3> QED
      BY <3>2 DEF p
  <2>9. m \in 1 .. O /\ m <= rem /\ (m = O \/ m = rem)
    <3>1. m = IF rem <= O THEN rem ELSE O
      BY <2>2, LeastIs DEF rem
    <3> HIDE DEF m
    <3> QED
      BY <2>2, <3>1
  <2> HIDE DEF m
  <2>10. /\ t.i = s.i /\ t.left = s.left /\ t.remaining = s.remaining /\ t.p = s.p + 1
         /\ t.size = m /\ t.need = m /\ t.output = s.output
         /\ t \in [i : 1 .. nin + 1, left : Int, remaining : Int, p : 1 .. nout, size : Nat, need : Nat,
                   output : [1 .. nout -> Nat]]
    <3>1. m \in Nat
      BY <1>1, <2>9
    <3> HIDE DEF nin, nout, t
    <3> QED
      BY <1>3, <2>1, <2>8, <3>1
  <2> HIDE DEF t
  <2>11. Position(t, L, I) = Position(s, L, I) /\ (TranscribeDone(t, L, I) <=> TranscribeDone(s, L, I))
    BY <2>10 DEF Position, TranscribeDone
  <2>12. (t.p - 1) * O = P + O
    <3>1. t.p = p + 1
      BY <2>10 DEF p
    <3> QED
      BY <2>2, <2>4, <3>1
  <2>13. Shape(t, L, I, O)
    <3>1. t.remaining = L - (t.i - 1) * I
      BY <1>3, <2>10 DEF A
    <3>2. t.i <= nin => t.left \in 1 .. Least(I, t.remaining)
      BY <1>3, <2>10
    <3>3. t.size <= O /\ t.need <= t.size
      BY <1>1, <2>9, <2>10
    <3>4. t.size = O \/ t.size >= L - (t.p - 1) * O
      BY <2>6, <2>9, <2>10, <2>12
    <3>5. Position(t, L, I) = (t.p - 1) * O + t.size - t.need
      <4>1. Position(s, L, I) = P + O
        <5>1. Position(s, L, I) = P + size - 0
          BY <1>3, <1>5 DEF size
        <5> QED
          BY <2>2, <2>5, <5>1
      <4>2. (P + O) + m - m = P + O
        <5>1. m \in Int
          BY <2>9
        <5>2. P + O \in Int
          BY <2>2
        <5> QED
          BY <5>1, <5>2
      <4> QED
        BY <2>10, <2>11, <2>12, <4>1, <4>2
    <3> QED
      BY <2>10, <3>1, <3>2, <3>3, <3>4, <3>5 DEF Shape, nin, nout
  <2>14. Copied(t, input, Position(t, L, I), L, I, O)
    BY <1>2, <2>10, <2>11 DEF Copied
  <2>15. Fitting(t, L, O)
    <3>1. \A q \in 1 .. nout : t.output[q] < TwoTo[O] /\ (q > t.p => t.output[q] = 0)
      BY SMTT(30), <1>1, <1>2, <1>3, <2>10 DEF Fitting, nout
    <3>2. t.output[t.p] = 0
      <4>1. s.output[s.p + 1] = 0
        BY <1>2, <2>8 DEF Fitting, nout
      <4> QED
        BY <2>10, <4>1
    <3>3. t.size - t.need = 0 /\ TwoTo[0] = 1
      BY <2>9, <2>10, PowersOfTwo
    <3> QED
      BY <3>1, <3>2, <3>3 DEF Fitting, nout
  <2>16. Reached(t) = Reached(s) /\ t.need # 0
    BY SMTT(30), <1>3, <1>5, <2>9, <2>10 DEF Reached
  <2> QED
    BY <2>10, <2>13, <2>14, <2>15, <2>16 DEF LoopInv, t
<1> QED
  BY <1>4, <1>5

\* One pass moves the next bits to where they belong, and no others.
LEMMA StepKeeps ==
  ASSUME NEW input, NEW L, NEW I, NEW O, NEW iT, NEW oT, Call(input, L, I, O, iT, oT),
         NEW s0, LoopInv(s0, input, L, I, O), ~ TranscribeDone(s0, L, I)
  PROVE  LET t == TranscribeStep(s0, input, L, I, O, iT, oT)
         IN  LoopInv(t, input, L, I, O) /\ t.i + Reached(t) >= s0.i + Reached(s0) + 1
<1> DEFINE nin == CeilDiv(L, I)
           nout == CeilDiv(L, O)
           s == NextOutput(s0, O)
           i == s.i
           p == s.p
           P == (p - 1) * O
           A == (i - 1) * I
           rem == s.remaining
           w == Least(I, rem)
           left == s.left
           size == s.size
           need == s.need
           c == w - left
           f == size - need
           n == Least(left, need)
           x == input[i]
           bits == Moved(x, s, n, I, iT, oT)
           pos == Position(s, L, I)
           z == s.output[p] + bits * TwoTo[f]
           u == [s EXCEPT !.output[p] = @ + ShiftLeft(bits, f, oT), !.left = @ - n, !.need = @ - n]
           t == IF u.left > 0 THEN u
                ELSE [u EXCEPT !.i = @ + 1, !.remaining = @ - I, !.left = Least(I, rem - I)]
<1>1. /\ L \in Nat \ {0} /\ I \in Nat \ {0} /\ O \in Nat \ {0} /\ iT \in Nat /\ oT \in Nat
      /\ I <= iT /\ O <= oT /\ nin \in Nat /\ nout \in Nat
      /\ \A k \in Nat : k < nin <=> k * I < L
      /\ \A k \in 1 .. nin : input[k] \in Nat
  BY InCall
<1>2. /\ LoopInv(s, input, L, I, O) /\ need # 0 /\ i = s0.i /\ Reached(s) = Reached(s0)
      /\ ~ TranscribeDone(s, L, I)
  BY NextKeeps DEF TranscribeDone
<1>3. TranscribeStep(s0, input, L, I, O, iT, oT) = t
  BY DEF TranscribeStep
<1> HIDE DEF s
<1>4. Shape(s, L, I, O) /\ Copied(s, input, pos, L, I, O) /\ Fitting(s, L, O)
  BY <1>2 DEF LoopInv
<1>5. /\ s \in [i : 1 .. nin + 1, left : Int, remaining : Int, p : 1 .. nout, size : Nat, need : Nat,
                output : [1 .. nout -> Nat]]
      /\ A \in Nat /\ P \in Nat /\ A < L /\ i \in 1 .. nin /\ p \in 1 .. nout
      /\ rem = L - A /\ rem \in 1 .. L
      /\ w = (IF I <= rem THEN I ELSE rem)
      /\ w \in 1 .. I /\ w <= rem /\ left \in 1 .. w
      /\ size \in 0 .. O /\ need \in 0 .. size /\ (size = O \/ size >= L - P)
      /\ pos = P + size - need /\ pos = A + w - left
  BY SMTT(30), <1>2, <1>4, InShape
<1>6. s.output \in [1 .. nout -> Nat] /\ s.output[p] \in Nat /\ x \in Nat
  <2>1. s.output \in [1 .. nout -> Nat]
    BY <1>5
  <2> QED
    BY <1>1, <1>5, <2>1
<1> DEFINE Arithmetic ==
             /\ L \in Int /\ I \in Int /\ O \in Int /\ oT \in Int /\ O <= oT /\ I <= iT /\ iT \in Int
             /\ I >= 1 /\ O >= 1 /\ nin \in Int /\ nout \in Int
             /\ i \in Int /\ 1 <= i /\ i <= nin /\ p \in Int /\ 1 <= p /\ p <= nout
             /\ A \in Int /\ P \in Int /\ A >= 0 /\ P >= 0 /\ A < L /\ rem = L - A /\ rem \in Int
             /\ w \in Int /\ w = (IF I <= rem THEN I ELSE rem)
             /\ left \in Int /\ 1 <= left /\ left <= w /\ size \in Int /\ size <= O
             /\ need \in Int /\ need <= size /\ need >= 1 /\ pos \in Int
             /\ pos = P + f /\ pos = A + c
<1>7. Arithmetic
  <2>1. need \in Nat /\ need <= size /\ size \in Nat /\ left \in Int /\ w \in Int
    BY <1>1, <1>5
  <2>2. P \in Int /\ A \in Int /\ pos = P + size - need /\ pos = A + w - left
    BY <1>5
  <2>3. pos = P + f /\ pos = A + c /\ pos \in Int
    <3> HIDE DEF P, A, w, left, size, need, pos
    <3> QED
      BY <2>1, <2>2
  <2>4. i \in 1 .. nin /\ p \in 1 .. nout /\ left \in 1 .. w /\ size \in 0 .. O /\ rem \in 1 .. L
    BY <1>5
  <2>5. A >= 0 /\ P >= 0 /\ A < L /\ rem = L - A /\ w = (IF I <= rem THEN I ELSE rem)
    BY <1>5
  <2> HIDE DEF nin, nout, i, p, P, A, rem, w, left, size, need, c, f, pos
  <2> QED
    BY <1>1, <1>2, <2>1, <2>2, <2>3, <2>4, <2>5
<1>8. /\ n \in Nat /\ 1 <= n /\ n <= left /\ n <= need /\ (n = left \/ n = need)
      /\ f \in Nat /\ c \in Nat /\ f + n <= size /\ c + n <= w /\ w <= I /\ n <= oT /\ w - left + n = c + n
  <2> HIDE DEF nin, nout, i, p, P, A, rem, w, left, size, need, pos
  <2>1. n = IF left <= need THEN left ELSE need
    BY <1>7, LeastIs
  <2> HIDE DEF n
  <2> QED
    BY <1>7, <2>1
<1>9. /\ bits \in Nat /\ bits < TwoTo[n]
      /\ \A k \in Nat : k < n => Digit(bits, k) = Digit(x, c + k)
  <2>1. bits = (x % TwoTo[c + n]) \div TwoTo[c]
    <3>1. /\ w \in 1 .. I /\ s.left \in 1 .. w /\ I \in Nat \ {0} /\ n <= s.left
          /\ Least(I, s.remaining) = w
      BY <1>1, <1>5, <1>8
    <3>2. x \in Nat /\ n \in Nat /\ iT \in Nat /\ oT \in Nat /\ I <= iT /\ n <= oT
      BY <1>1, <1>6, <1>8
    <3> HIDE DEF w, x, n
    <3>3. Movable(x, s, n, I, iT, oT, w)
      BY <3>1, <3>2 DEF Movable
    <3>4. Moved(x, s, n, I, iT, oT) = (x % TwoTo[w - s.left + n]) \div TwoTo[w - s.left]
      BY <3>3, MovedIs
    <3> QED
      BY <3>4
  <2>2. x \in Nat /\ c \in Nat /\ n \in Nat
    BY <1>6, <1>8
  <2> HIDE DEF bits, c, n, x
  <2> DEFINE part == (x % TwoTo[c + n]) \div TwoTo[c]
  <2>3. /\ part \in Nat /\ part < TwoTo[n]
        /\ \A k \in Nat : k < n => Digit(part, k) = Digit(x, c + k)
    BY ZenonT(40), <2>2, DigitsOfPart
  <2>4. bits = part
    BY <2>1
  <2> HIDE DEF part
  <2> QED
    BY <2>3, <2>4
<1>10. s.output[p] < TwoTo[f]
  BY <1>4 DEF Fitting
<1>11. /\ z \in Nat /\ z < TwoTo[f + n] /\ bits * TwoTo[f] < TwoTo[f + n]
       /\ \A k \in Nat : k < f => Digit(z, k) = Digit(s.output[p], k)
       /\ \A k \in Nat : Digit(z, f + k) = Digit(bits, k)
  <2> DEFINE y == s.output[p]
  <2>1. y \in Nat /\ y < TwoTo[f] /\ f \in Nat /\ n \in Nat /\ bits \in Nat /\ bits < TwoTo[n]
    BY <1>6, <1>8, <1>9, <1>10
  <2> HIDE DEF bits, f, n, y
  <2> DEFINE yz == y + bits * TwoTo[f]
  <2>2. /\ yz \in Nat /\ yz < TwoTo[f + n] /\ bits * TwoTo[f] < TwoTo[f + n]
        /\ \A k \in Nat : k < f => Digit(yz, k) = Digit(y, k)
        /\ \A k \in Nat : Digit(yz, f + k) = Digit(bits, k)
    BY SMTT(30), <2>1, DigitsJoined
  <2>3. z = yz
    BY DEF y
  <2> HIDE DEF yz, z
  <2> QED
    BY <2>2, <2>3 DEF y
<1>12. ShiftLeft(bits, f, oT) = bits * TwoTo[f] /\ z < TwoTo[O]
  <2> DEFINE piece == bits * TwoTo[f]
  <2> HIDE DEF bits, f, n, i, p, P, A, rem, w, left, size, need, pos, nin, nout
  <2>1. f + n \in Nat /\ f + n <= O /\ f + n <= oT /\ O \in Nat /\ oT \in Nat
    BY <1>1, <1>7, <1>8
  <2>2. TwoTo[f + n] <= TwoTo[oT] /\ TwoTo[f + n] <= TwoTo[O]
    BY <2>1, TwoToGrows
  <2>3. \A k \in Nat : TwoTo[k] \in Nat \ {0}
    BY PowersOfTwo
  <2>4. piece \in Nat
    <3>1. \A a, b \in Nat : a * b \in Nat
      OBVIOUS
    <3> QED
      BY <1>8, <1>9, <2>3, <3>1
  <2> HIDE DEF piece
  <2>5. piece < TwoTo[oT]
    BY <1>11, <2>1, <2>2, <2>3, <2>4 DEF piece
  <2>6. piece % TwoTo[oT] = piece
    BY <2>1, <2>3, <2>4, <2>5, SmallResidue
  <2>7. z < TwoTo[O]
    <3> HIDE DEF z
    <3> QED
      BY <1>11, <2>1, <2>2, <2>3
  <2> QED
    BY <2>6, <2>7 DEF ShiftLeft, piece
<1> HIDE DEF bits
<1>13. /\ t.p = p /\ t.size = size /\ t.need = need - n /\ t.output = [s.output EXCEPT ![p] = z]
       /\ left - n > 0 => t.i = i /\ t.left = left - n /\ t.remaining = rem
       /\ ~(left - n > 0) => t.i = i + 1 /\ t.left = Least(I, rem - I) /\ t.remaining = rem - I
       /\ t = [i |-> t.i, left |-> t.left, remaining |-> t.remaining, p |-> t.p, size |-> t.size,
               need |-> t.need, output |-> t.output]
  <2> DEFINE o == [s.output EXCEPT ![p] = z]
             sh == ShiftLeft(bits, f, oT)
  <2>1. o = [s.output EXCEPT ![p] = @ + sh]
    BY <1>12
  <2> HIDE DEF o, n, sh
  <2>2. u = [i |-> i, left |-> left - n, remaining |-> rem, p |-> p, size |-> size,
             need |-> need - n, output |-> o]
    <3>1. u = [s EXCEPT !.output = o, !.left = left - n, !.need = need - n]
      BY <2>1 DEF sh
    <3> DEFINE y == s.output
    <3>2. s = [i |-> i, left |-> left, remaining |-> rem, p |-> p, size |-> size,
               need |-> need, output |-> y]
      BY <1>5
    <3> HIDE DEF u, i, p, rem, left, size, need, y
    <3> DEFINE Filled(l, e, piece) == [i |-> i, left |-> l, remaining |-> rem, p |-> p, size |-> size,
                                   need |-> e, output |-> piece]
    <3>3. [Filled(left, need, y) EXCEPT !.output = o] = Filled(left, need, o)
      OBVIOUS
    <3>4. [Filled(left, need, o) EXCEPT !.left = left - n] = Filled(left - n, need, o)
      <4> DEFINE l == left - n
      <4> HIDE DEF l
      <4>1. [Filled(left, need, o) EXCEPT !.left = l] = Filled(l, need, o)
        OBVIOUS
      <4> QED
        BY <4>1 DEF l
    <3>5. [Filled(left - n, need, o) EXCEPT !.need = need - n] = Filled(left - n, need - n, o)
      <4> DEFINE l == left - n
                 e == need - n
      <4> HIDE DEF l, e
      <4>1. [Filled(l, need, o) EXCEPT !.need = e] = Filled(l, e, o)
        OBVIOUS
      <4> QED
        BY <4>1 DEF l, e
    <3> HIDE DEF Filled
    <3>6. s = Filled(left, need, y)
      BY <3>2 DEF Filled
    <3> QED
      BY <3>1, <3>3, <3>4, <3>5, <3>6 DEF Filled
  <2>3. /\ u.i = i /\ u.left = left - n /\ u.remaining = rem /\ u.p = p /\ u.size = size
        /\ u.need = need - n /\ u.output = o
    BY <2>2
  <2> HIDE DEF u, i, p, rem, left, size, need
  <2>4. CASE left - n > 0
    <3>1. t = u
      BY <2>3, <2>4
    <3> QED
      BY <2>2, <2>3, <2>4, <3>1 DEF o
  <2>5. CASE ~(left - n > 0)
    <3>1. t = [u EXCEPT !.i = @ + 1, !.remaining = @ - I, !.left = Least(I, rem - I)]
      BY <2>3, <2>5
    <3> HIDE DEF t
    <3>2. t = [i |-> i + 1, left |-> Least(I, rem - I), remaining |-> rem - I, p |-> p, size |-> size,
               need |-> need - n, output |-> o]
      BY <2>2, <3>1
    <3> QED
      BY <2>5, <3>2 DEF o
  <2> QED
    BY <2>4, <2>5
<1> HIDE DEF t, u, z
<1>14. i < nin <=> A + I < L
  <2>1. i * I = A + I
    <3> HIDE DEF nin, nout, p, P, rem, w, left, size, need, pos, c, f, i
    <3>1. (i - 1) * I = i * I - I /\ i * I \in Int
      BY <1>7
    <3>2. A = i * I - I
      BY <3>1
    <3> HIDE DEF A
    <3> QED
      BY <1>7, <3>1, <3>2
  <2>2. i \in Nat
    <3> HIDE DEF nin, nout, p, P, rem, w, left, size, need, pos, c, f, i, A
    <3> QED
      BY <1>7
  <2> HIDE DEF A, i
  <2> QED
    BY <1>1, <2>1, <2>2
<1>15. i * I = A + I
  <2> HIDE DEF nin, nout, p, P, rem, w, left, size, need, pos, c, f, i
  <2>1. (i - 1) * I = i * I - I /\ i * I \in Int
    BY <1>7
  <2>2. A = i * I - I
    BY <2>1
  <2> HIDE DEF A
  <2> QED
    BY <1>7, <2>1, <2>2
<1> HIDE DEF nin, nout, i, p, P, A, rem, w, left, size, need, pos, f, c, n
<1>16. /\ t.i \in 1 .. nin + 1 /\ t.left \in Int /\ t.remaining \in Int /\ t.remaining = L - (t.i - 1) * I
       /\ t.i <= nin => t.left \in 1 .. Least(I, t.remaining)
       /\ Position(t, L, I) = pos + n
  <2>1. CASE left - n > 0
    <3>1. t.i = i /\ t.left = left - n /\ t.remaining = rem
      BY <1>13, <2>1
    <3>2. (t.i - 1) * I = A
      BY <3>1 DEF A, i
    <3>3. Least(I, t.remaining) = w
      BY <3>1 DEF w
    <3>4. Position(t, L, I) = A + w - (left - n)
      <4>1. ~(t.i > nin)
        BY <1>7, <3>1
      <4> QED
        BY <3>1, <3>2, <3>3, <4>1 DEF Position, TranscribeDone, nin
    <3> QED
      BY <1>7, <1>8, <2>1, <3>1, <3>2, <3>3, <3>4 DEF c
  <2>2. CASE ~(left - n > 0)
    <3>1. t.i = i + 1 /\ t.left = Least(I, rem - I) /\ t.remaining = rem - I
      BY <1>13, <2>2
    <3>2. (t.i - 1) * I = A + I
      <4>1. t.i - 1 = i
        BY <1>7, <3>1
      <4> QED
        BY <1>15, <4>1
    <3>3. n = left /\ c + n = w
      BY <1>7, <1>8, <2>2 DEF c
    <3>4. t.left = IF I <= rem - I THEN I ELSE rem - I
      BY <1>7, <3>1, LeastIs
    <3>5. CASE i < nin
      <4>1. rem - I >= 1 /\ w = I
        BY <1>7, <1>14, <3>5
      <4>2. ~(t.i > nin)
        BY <1>7, <3>1, <3>5
      <4>3. Position(t, L, I) = A + I + t.left - t.left
        BY <3>1, <3>2, <4>2 DEF Position, TranscribeDone, nin
      <4>4. t.left \in Int /\ t.left >= 1
        BY <1>7, <3>4, <4>1
      <4>5. Position(t, L, I) = pos + n
        BY <1>7, <1>8, <3>3, <4>1, <4>3, <4>4
      <4> QED
        BY <1>7, <3>1, <3>2, <3>5, <4>4, <4>5
    <3>6. CASE ~(i < nin)
      <4>1. w = rem
        BY <1>7, <1>14, <3>6
      <4>2. t.i > nin
        BY <1>7, <3>1, <3>6
      <4>3. Position(t, L, I) = L
        BY <4>2 DEF Position, TranscribeDone, nin
      <4>4. t.left \in Int
        BY <1>7, <3>4
      <4>5. Position(t, L, I) = pos + n
        BY <1>7, <1>8, <3>3, <4>1, <4>3
      <4> QED
        BY <1>7, <3>1, <3>2, <4>2, <4>4, <4>5, <3>6
    <3> QED
      BY <3>5, <3>6
  <2> QED
    BY <2>1, <2>2
<1>17. Shape(t, L, I, O)
  <2>1. t.output \in [1 .. nout -> Nat]
    BY <1>6, <1>11, <1>13
  <2>2. t.p \in 1 .. nout /\ t.size \in Nat /\ t.need \in Nat /\ t.size <= O /\ t.need <= t.size
    <3>1. p \in 1 .. nout
      BY <1>5
    <3> QED
      BY <1>7, <1>8, <1>13, <3>1
  <2>3. (t.p - 1) * O = P
    BY <1>13 DEF P, p
  <2>4. t.size = O \/ t.size >= L - (t.p - 1) * O
    BY <1>5, <1>13, <2>3
  <2>5. Position(t, L, I) = (t.p - 1) * O + t.size - t.need
    <3>1. pos + n = P + size - (need - n)
      BY <1>7, <1>8 DEF f
    <3> QED
      BY <1>13, <1>16, <2>3, <3>1
  <2>6. t \in [i : 1 .. nin + 1, left : Int, remaining : Int, p : 1 .. nout, size : Nat, need : Nat,
               output : [1 .. nout -> Nat]]
    BY <1>13, <1>16, <2>1, <2>2
  <2> QED
    BY <1>16, <2>2, <2>4, <2>5, <2>6 DEF Shape, nin, nout
<1>18. Fitting(t, L, O)
  <2>1. ASSUME NEW q \in 1 .. nout
        PROVE  t.output[q] < TwoTo[O] /\ (q > t.p => t.output[q] = 0)
    <3>1. s.output[q] < TwoTo[O] /\ (q > p => s.output[q] = 0)
      BY <1>4 DEF Fitting, nout, p
    <3>2. t.output[q] = IF q = p THEN z ELSE s.output[q]
      BY <1>6, <1>13
    <3>3. q > p => q # p
      BY <1>7
    <3> QED
      BY <1>12, <1>13, <3>1, <3>2, <3>3
  <2>2. t.output[t.p] = z
    <3>1. p \in 1 .. nout
      BY <1>5
    <3> QED
      BY <1>6, <1>13, <3>1
  <2>3. t.size - t.need = f + n
    BY <1>7, <1>8, <1>13 DEF f
  <2> QED
    BY <1>11, <2>1, <2>2, <2>3 DEF Fitting, nout
<1>19. Copied(t, input, pos + n, L, I, O)
  <2> SUFFICES ASSUME NEW q \in 1 .. nout, NEW k \in 0 .. O - 1,
                      NEW j \in 1 .. nin, NEW h \in 0 .. I - 1,
                      (q - 1) * O + k = (j - 1) * I + h, (q - 1) * O + k < pos + n
               PROVE  Digit(t.output[q], k) = Digit(input[j], h)
    BY DEF Copied, nin, nout
  <2> DEFINE Q == (q - 1) * O
             J == (j - 1) * I
  <2>1. t.output[q] = IF q = p THEN z ELSE s.output[q]
    BY <1>6, <1>13
  <2>2. Q \in Int /\ J \in Int /\ k \in Nat /\ h \in Nat /\ k < O /\ h < I /\ q \in Nat /\ j \in Nat
    BY <1>1
  <2>3. ASSUME Q + k < pos
        PROVE  Digit(s.output[q], k) = Digit(input[j], h)
    BY <1>4, <2>3 DEF Copied, nin, nout
  <2>4. ASSUME ~(Q + k < pos)
        PROVE  q = p /\ j = i /\ k >= f /\ h = c + (k - f)
    <3> DEFINE g == Q + k - pos
    <3>1. Q + k = pos + g /\ g \in Int /\ 0 <= g /\ g < n
      <4> HIDE DEF Q
      <4> QED
        BY <1>7, <1>8, <2>2, <2>4 DEF Q
    <3> HIDE DEF g
    <3>2. f + g \in 0 .. O - 1 /\ c + g \in 0 .. I - 1
      BY <1>7, <1>8, <3>1
    <3>3. Q + k = P + (f + g) /\ J + h = A + (c + g)
      <4>1. Q + k = J + h
        OBVIOUS
      <4> HIDE DEF Q, J
      <4> QED
        BY <1>7, <1>8, <2>2, <3>1, <4>1
    <3>4. q = p /\ k = f + g
      <4>1. (q - 1) * O + k = (p - 1) * O + (f + g)
        BY <3>3 DEF P
      <4>2. p \in Nat
        BY <1>7
      <4> QED
        BY <1>1, <2>2, <3>2, <4>1, <4>2, SameChunk
    <3>5. j = i /\ h = c + g
      <4>1. (j - 1) * I + h = (i - 1) * I + (c + g)
        BY <3>3 DEF A
      <4>2. i \in Nat
        BY <1>7
      <4> QED
        BY <1>1, <2>2, <3>2, <4>1, <4>2, SameChunk
    <3> QED
      BY <1>8, <3>1, <3>4, <3>5
  <2>5. CASE Q + k < pos /\ q # p
    BY <2>1, <2>3, <2>5
  <2>6. CASE Q + k < pos /\ q = p
    <3>1. k < f
      <4>1. P + k < P + f
        BY <1>7, <2>6 DEF P
      <4> QED
        BY <1>7, <1>8, <2>2, <4>1
    <3>2. Digit(z, k) = Digit(s.output[p], k)
      BY <1>11, <2>2, <3>1
    <3> QED
      BY <2>1, <2>3, <2>6, <3>2
  <2>7. CASE ~(Q + k < pos)
    <3>1. q = p /\ j = i /\ k >= f /\ h = c + (k - f)
      BY <2>4, <2>7
    <3>2. k - f \in Nat /\ f + (k - f) = k
      BY <1>8, <2>2, <3>1
    <3>3. k - f < n
      <4>1. P + k < pos + n
        BY <3>1 DEF P
      <4> QED
        BY <1>7, <1>8, <2>2, <4>1
    <3>4. Digit(z, k) = Digit(bits, k - f)
      BY <1>11, <3>2
    <3>5. Digit(bits, k - f) = Digit(x, h)
      BY <1>9, <3>1, <3>2, <3>3
    <3> QED
      BY <2>1, <3>1, <3>4, <3>5
  <2> QED
    BY <2>5, <2>6, <2>7
<1>20. t.i + Reached(t) >= i + Reached(s) + 1
  <2>1. Reached(s) = p
    BY <1>2, <1>7 DEF Reached, p, need
  <2>2. Reached(t) = p + (IF need - n = 0 THEN 1 ELSE 0)
    BY <1>13 DEF Reached
  <2>3. left - n > 0 => need - n = 0
    BY <1>7, <1>8
  <2>4. t.i = IF left - n > 0 THEN i ELSE i + 1
    BY <1>13
  <2> QED
    BY <1>7, <2>1, <2>2, <2>3, <2>4
<1> QED
  BY <1>2, <1>3, <1>16, <1>17, <1>18, <1>19, <1>20 DEF LoopInv


\* The passes that Transcribed makes are enough, and stop at the end.
LEMMA AfterPasses ==
  ASSUME NEW input, NEW L, NEW I, NEW O, NEW iT, NEW oT, Call(input, L, I, O, iT, oT)
  PROVE  \E s : /\ LoopInv(s, input, L, I, O) /\ TranscribeDone(s, L, I)
                /\ Transcribed(input, L, I, O, iT, oT) = s.output
<1> DEFINE nin == CeilDiv(L, I)
           nout == CeilDiv(L, O)
           State == [i : 1 .. nin + 1, left : Int, remaining : Int, p : 1 .. nout, size : Nat,
                     need : Nat, output : [1 .. nout -> Nat]]
           S == {s \in State : LoopInv(s, input, L, I, O)}
           Pass(s) == IF TranscribeDone(s, L, I) THEN s
                      ELSE TranscribeStep(s, input, L, I, O, iT, oT)
           first == TranscribeStart(L, I, O)
           next == [k \in Nat |-> [s \in S |-> Pass(s)]]
           Is(f) == f = [k \in Nat |-> IF k = 0 THEN first ELSE Pass(f[k - 1])]
           Run == CHOOSE f : Is(f)
           far(s) == s.i + Reached(s)
<1>1. ASSUME NEW s, LoopInv(s, input, L, I, O)
      PROVE  s \in S
  BY <1>1 DEF LoopInv, Shape
<1>2. first \in S /\ far(first) = 2
  BY <1>1, AtStart
<1>3. ASSUME NEW s \in S
      PROVE  Pass(s) \in S /\ (~ TranscribeDone(s, L, I) => far(Pass(s)) >= far(s) + 1)
  <2>1. CASE TranscribeDone(s, L, I)
    BY <2>1
  <2>2. CASE ~ TranscribeDone(s, L, I)
    <3>1. Pass(s) = TranscribeStep(s, input, L, I, O, iT, oT)
      BY <2>2
    <3>2. LoopInv(s, input, L, I, O)
      OBVIOUS
    <3>3. LoopInv(Pass(s), input, L, I, O) /\ far(Pass(s)) >= far(s) + 1
      BY <2>2, <3>1, <3>2, StepKeeps
    <3> HIDE DEF S, Pass
    <3> QED
      BY <1>1, <3>3
  <2> QED
    BY <2>1, <2>2
<1>4. ASSUME NEW s \in S
      PROVE  far(s) \in Int /\ (far(s) >= 2 + nin + nout => TranscribeDone(s, L, I))
  <2>1. s.i \in 1 .. nin + 1 /\ s.p \in 1 .. nout /\ nin \in Nat /\ nout \in Nat
    BY InCall
  <2> HIDE DEF nin, nout
  <2>2. Reached(s) \in Int /\ Reached(s) <= nout + 1
    BY <2>1 DEF Reached
  <2>3. s.i > nin => TranscribeDone(s, L, I)
    BY DEF TranscribeDone, nin
  <2> QED
    BY SMTT(30), <2>1, <2>2, <2>3
<1> HIDE DEF S, Pass, first
<1>5. next \in [Nat -> [S -> S]]
  BY <1>3
<1>6. PICK g \in [Nat -> S] : Recursive(g, first, next)
  <2> HIDE DEF next
  <2> QED
    BY <1>2, <1>5, Recursion
<1>7. Is(g)
  <2>1. ASSUME NEW k \in Nat
        PROVE  g[k] = IF k = 0 THEN first ELSE Pass(g[k - 1])
    <3>1. CASE k = 0
      BY <1>6, <3>1 DEF Recursive
    <3>2. CASE k # 0
      <4>1. k - 1 \in Nat /\ g[k - 1] \in S /\ g[k] = next[k][g[k - 1]]
        BY <1>6, <3>2 DEF Recursive
      <4> QED
        BY <3>2, <4>1
    <3> QED
      BY <3>1, <3>2
  <2> HIDE DEF Pass
  <2> QED
    BY <2>1
<1>8. Is(Run)
  <2> HIDE DEF Is
  <2> QED
    BY <1>7
<1>9. Transcribed(input, L, I, O, iT, oT) = Run[nin + nout].output
  BY Zenon DEF Transcribed, Run, Is, Pass, first, nin, nout
<1> HIDE DEF Run
<1>10. \A k \in Nat : Run[k] = IF k = 0 THEN first ELSE Pass(Run[k - 1])
  <2> HIDE DEF Pass
  <2> QED
    BY <1>8
<1> DEFINE T == {k \in Nat : /\ Run[k] \in S
                             /\ TranscribeDone(Run[k], L, I) \/ far(Run[k]) >= 2 + k}
<1>11. 0 \in T
  BY <1>2, <1>10
<1>12. ASSUME NEW k \in Nat, k \in T
       PROVE  k + 1 \in T
  <2> DEFINE s == Run[k]
  <2>1. Run[k + 1] = Pass(s)
    <3>1. k + 1 \in Nat /\ k + 1 # 0 /\ (k + 1) - 1 = k
      OBVIOUS
    <3> HIDE DEF Pass
    <3> QED
      BY <1>10, <3>1
  <2>2. s \in S /\ (TranscribeDone(s, L, I) \/ far(s) >= 2 + k)
    BY <1>12
  <2> HIDE DEF s
  <2>3. Pass(s) \in S /\ far(Pass(s)) \in Int /\ far(s) \in Int
    BY <1>3, <1>4, <2>2
  <2>4. TranscribeDone(s, L, I) => Pass(s) = s
    BY DEF Pass
  <2>5. TranscribeDone(Pass(s), L, I) \/ far(Pass(s)) >= 2 + (k + 1)
    <3> HIDE DEF Pass, far
    <3> QED
      BY <1>3, <2>2, <2>3, <2>4
  <2> HIDE DEF Pass, far
  <2> QED
    BY <2>1, <2>3, <2>5
<1>13. nin + nout \in T
  <2>1. Nat \subseteq T
    <3> HIDE DEF T
    <3> QED
      BY <1>11, <1>12, Induction
  <2>2. nin \in Nat /\ nout \in Nat
    BY InCall
  <2> HIDE DEF T, nin, nout
  <2> QED
    BY <2>1, <2>2
<1> DEFINE s == Run[nin + nout]
<1>14. s \in S /\ TranscribeDone(s, L, I)
  <2>1. s \in S /\ (TranscribeDone(s, L, I) \/ far(s) >= 2 + (nin + nout))
    BY <1>13
  <2>2. nin \in Nat /\ nout \in Nat
    BY InCall
  <2> HIDE DEF s, nin, nout, far
  <2>3. 2 + (nin + nout) = 2 + nin + nout
    BY <2>2
  <2> QED
    BY <1>4, <2>1, <2>3
<1>15. LoopInv(s, input, L, I, O)
  BY <1>14 DEF S
<1> HIDE DEF s
<1> QED
  BY <1>9, <1>14, <1>15 DEF s


-----------------------------------------------------------------------------
(* What a call returns *)

\* Every integer of out fits its width, the digits of out are those of the
\* input in their order, and the last integer has no other.
BitsKept(out, input, length, inBits, outBits) ==
  LET last == CeilDiv(length, outBits)
  IN  /\ out \in [1 .. last -> 0 .. TwoTo[outBits] - 1]
      /\ out[last] < TwoTo[length - (last - 1) * outBits]
      /\ \A q \in 1 .. last, k \in 0 .. outBits - 1,
            j \in 1 .. CeilDiv(length, inBits), h \in 0 .. inBits - 1 :
           (q - 1) * outBits + k = (j - 1) * inBits + h /\ (q - 1) * outBits + k < length
             => Digit(out[q], k) = Digit(input[j], h)

\* What the loop has at its end: no bits are missing.
LEMMA BitsAtEnd ==
  ASSUME NEW input, NEW L, NEW I, NEW O, NEW iT, NEW oT, Call(input, L, I, O, iT, oT),
         NEW s, LoopInv(s, input, L, I, O), TranscribeDone(s, L, I)
  PROVE  BitsKept(s.output, input, L, I, O)
<1> DEFINE out == s.output
           last == CeilDiv(L, O)
<1>1. LoopInv(s, input, L, I, O) /\ out = s.output
  OBVIOUS
<1>2. Position(s, L, I) = L
  BY <1>1 DEF Position
<1>3. /\ s.output \in [1 .. last -> Nat] /\ s.p \in 1 .. last /\ s.size \in Nat /\ s.need \in Nat
      /\ s.size <= O /\ s.need <= s.size /\ L = (s.p - 1) * O + s.size - s.need
  BY <1>1, <1>2 DEF LoopInv, Shape
<1>4. /\ L \in Nat \ {0} /\ O \in Nat \ {0} /\ last \in Nat
      /\ \A k \in Nat : k < last <=> k * O < L
  BY InCall
<1>5. Fitting(s, L, O) /\ Copied(s, input, L, L, I, O)
  BY <1>1, <1>2 DEF LoopInv
<1>6. out \in [1 .. last -> 0 .. TwoTo[O] - 1]
  <2> DEFINE t == TwoTo[O]
  <2>1. t \in Nat
    BY <1>4, PowersOfTwo
  <2>2. \A q \in 1 .. last : s.output[q] \in Nat /\ s.output[q] < t
    BY <1>3, <1>5 DEF Fitting
  <2> HIDE DEF t, last
  <2>3. \A q \in 1 .. last : s.output[q] \in 0 .. t - 1
    BY <2>1, <2>2
  <2> QED
    BY <1>1, <1>3, <2>3 DEF t
<1>7. s.p = last /\ s.size - s.need = L - (last - 1) * O
  <2> DEFINE p == s.p
             P == (p - 1) * O
             f == s.size - s.need
  <2>1. p \in Nat /\ p >= 1 /\ p <= last
    <3>1. p \in 1 .. last /\ last \in Nat
      BY <1>3, <1>4
    <3> HIDE DEF p, last
    <3> QED
      BY <3>1
  <2>2. f \in Int /\ f <= O
    <3>1. s.size \in Nat /\ s.need \in Nat /\ s.size <= O /\ O \in Nat
      BY <1>3, <1>4
    <3> QED
      BY <3>1
  <2>3. p * O = P + O /\ P \in Int
    <3> HIDE DEF p
    <3> QED
      BY <1>4, <2>1
  <2>4. L = P + f
    <3>1. P \in Int
      BY <2>3
    <3> HIDE DEF P
    <3> QED
      BY <1>3, <3>1 DEF P
  <2> HIDE DEF p, P, f, last
  <2>5. ~(p * O < L)
    BY <1>4, <2>2, <2>3, <2>4
  <2>6. p = last
    BY <1>4, <2>1, <2>5
  <2>7. f = L - P
    BY <2>2, <2>3, <2>4, <1>4
  <2> QED
    BY <2>6, <2>7 DEF p, f, P
<1>8. out[last] < TwoTo[L - (last - 1) * O]
  BY <1>1, <1>5, <1>7 DEF Fitting
<1>9. \A q \in 1 .. last, k \in 0 .. O - 1, j \in 1 .. CeilDiv(L, I), h \in 0 .. I - 1 :
        (q - 1) * O + k = (j - 1) * I + h /\ (q - 1) * O + k < L
          => Digit(out[q], k) = Digit(input[j], h)
  <2> HIDE DEF out
  <2> QED
    BY <1>1, <1>5 DEF Copied
<1> QED
  BY <1>6, <1>8, <1>9 DEF BitsKept, out

\* Every integer of the output fits its width, the digits of the output are the
\* digits of the input in their order, and the last integer has nothing but
\* the digits that are left for it: TranscribeBits of transcription.h keeps every
\* bit that it is asked for and adds none, at any widths and for any types
\* that hold them.
THEOREM TranscribedBits ==
  ASSUME NEW input, NEW L, NEW I, NEW O, NEW iT, NEW oT, Call(input, L, I, O, iT, oT)
  PROVE  BitsKept(Transcribed(input, L, I, O, iT, oT), input, L, I, O)
BY AfterPasses, BitsAtEnd

\* Whole integers of b bits.
LEMMA WholeChunks ==
  ASSUME NEW n \in Nat, NEW b \in Nat \ {0}
  PROVE  CeilDiv(n * b, b) = n /\ n * b \in Nat
<1> DEFINE c == CeilDiv(n * b, b)
<1>1. n * b \in Nat
  OBVIOUS
<1>2. c \in Nat /\ \A k \in Nat : k < c <=> k * b < n * b
  BY <1>1, CeilDivIs
<1>3. \A k \in Nat : k < n <=> k * b < n * b
  <2> TAKE k \in Nat
  <2>1. k < n => (n - k) * b > 0
    OBVIOUS
  <2>2. ~(k < n) => (k - n) * b >= 0
    OBVIOUS
  <2>3. (n - k) * b = n * b - k * b /\ (k - n) * b = k * b - n * b /\ k * b \in Int /\ n * b \in Int
    OBVIOUS
  <2> QED
    BY <2>1, <2>2, <2>3
<1> HIDE DEF c
<1>4. ~(c < n) /\ ~(n < c)
  BY <1>2, <1>3
<1> QED
  BY <1>1, <1>2, <1>4 DEF c

\* Above the digits of a number there are none.
LEMMA NoMoreDigits ==
  ASSUME NEW n \in Nat, NEW x \in Nat, x < TwoTo[n], NEW k \in Nat, n <= k
  PROVE  Digit(x, k) = 0
<1> DEFINE t == TwoTo[k]
<1>1. t \in Nat \ {0} /\ TwoTo[n] \in Nat /\ TwoTo[n] <= t
  BY PowersOfTwo, TwoToGrows
<1> HIDE DEF t
<1>2. x = t * 0 + x /\ x \in 0 .. t - 1
  BY <1>1
<1>3. (t * 0 + x) \div t = 0
  BY <1>1, <1>2, DivisionIs
<1>4. x \div t = 0
  BY <1>2, <1>3
<1>5. 0 % 2 = 0
  OBVIOUS
<1> QED
  BY <1>4, <1>5 DEF Digit, ShiftRight, t

\* The position of a bit as an integer of b bits and a digit of it.
LEMMA BitOf ==
  ASSUME NEW b \in Nat \ {0}, NEW l \in Nat, NEW x \in Nat, x < l
  PROVE  \E q \in 1 .. CeilDiv(l, b), h \in 0 .. b - 1 : (q - 1) * b + h = x
<1> DEFINE j == x \div b
           h == x % b
           c == CeilDiv(l, b)
<1>1. x = b * j + h /\ h \in 0 .. b - 1 /\ j \in Int
  <2>1. x \in Int
    OBVIOUS
  <2> QED
    BY <2>1, DivisionOf
<1>2. c \in Nat /\ \A k \in Nat : k < c <=> k * b < l
  BY CeilDivIs
<1> HIDE DEF j, h, c
<1>3. j >= 0
  <2> SUFFICES ASSUME j <= -1 PROVE FALSE
    BY <1>1
  <2>1. b * j <= b * (-1) /\ b * (-1) = - b
    BY <1>1
  <2> QED
    BY <1>1, <2>1
<1>4. j * b = b * j /\ j * b \in Int
  BY <1>1
<1>5. j < c
  <2>1. j * b < l
    BY <1>1, <1>4
  <2> QED
    BY <1>1, <1>2, <1>3, <2>1
<1> DEFINE q == j + 1
<1>6. q \in 1 .. c /\ q - 1 = j
  BY <1>1, <1>2, <1>3, <1>5
<1>7. (q - 1) * b + h = x
  BY <1>1, <1>4, <1>6
<1> HIDE DEF q
<1> QED
  BY <1>1, <1>6, <1>7 DEF c

\* The first length bits of a in integers of k bits, and zeros.
FirstBits(out, a, length, k) ==
  /\ out \in [1 .. CeilDiv(length, k) -> 0 .. TwoTo[k] - 1]
  /\ \A q \in 1 .. CeilDiv(length, k), j \in 0 .. k - 1 :
       Digit(out[q], j) = IF (q - 1) * k + j < length THEN Digit(a[q], j) ELSE 0

\* What was written can be read: a call for L bits or fewer of them is not refused.
LEMMA ReadableAgain ==
  ASSUME NEW a, NEW L, NEW M, NEW log, NEW b, NEW aT, NEW bT,
         Call(a, L, log, b, aT, bT), M \in 1 .. L, NEW bytes, BitsKept(bytes, a, L, log, b)
  PROVE  Call(bytes, M, b, log, bT, aT)
<1> DEFINE cL == CeilDiv(L, b)
           cM == CeilDiv(M, b)
<1>1. /\ L \in Nat \ {0} /\ log \in Nat \ {0} /\ b \in Nat \ {0} /\ aT \in Nat /\ bT \in Nat
      /\ log <= aT /\ b <= bT
  BY InCall
<1>2. M \in Nat \ {0} /\ M <= L
  BY <1>1
<1>3. bytes \in [1 .. cL -> 0 .. TwoTo[b] - 1]
  BY DEF BitsKept
<1>4. /\ cL \in Nat /\ (\A k \in Nat : k < cL <=> k * b < L)
      /\ cM \in Nat /\ (\A k \in Nat : k < cM <=> k * b < M)
  BY <1>1, <1>2, CeilDivIs
<1> HIDE DEF cL, cM
<1>5. cM <= cL
  <2> SUFFICES ASSUME cL < cM PROVE FALSE
    BY <1>4
  <2>1. cL * b < M /\ ~(cL * b < L) /\ cL * b \in Int
    BY <1>1, <1>4
  <2> QED
    BY <1>1, <1>2, <2>1
<1>6. bytes \in Seq(Nat) /\ Len(bytes) = cL
  <2>1. \A q \in 1 .. cL : bytes[q] \in Nat
    <3>1. TwoTo[b] \in Nat
      BY <1>1, PowersOfTwo
    <3> QED
      BY <1>3, <3>1
  <2> QED
    BY <1>3, <1>4, <2>1
<1>7. ~ Refused(bytes, M, b, log, bT, aT)
  BY <1>1, <1>2, <1>4, <1>5, <1>6 DEF Refused, cM
<1> QED
  BY <1>1, <1>2, <1>6, <1>7 DEF Call

\* The bits that are read are those that were written.
LEMMA BitsThereAndBack ==
  ASSUME NEW a, NEW L, NEW M, NEW log, NEW b, NEW aT, NEW bT,
         Call(a, L, log, b, aT, bT), M \in 1 .. L, NEW bytes, BitsKept(bytes, a, L, log, b),
         NEW out, BitsKept(out, bytes, M, b, log)
  PROVE  FirstBits(out, a, M, log)
<1> DEFINE cL == CeilDiv(L, b)
           cM == CeilDiv(M, b)
           n == CeilDiv(M, log)
           N == CeilDiv(L, log)
           t == TwoTo[log]
<1>1. /\ L \in Nat \ {0} /\ log \in Nat \ {0} /\ b \in Nat \ {0} /\ aT \in Nat /\ bT \in Nat
      /\ log <= aT /\ b <= bT
  BY InCall
<1>2. M \in Nat \ {0} /\ M <= L
  BY <1>1
<1>3. /\ bytes \in [1 .. cL -> 0 .. TwoTo[b] - 1]
      /\ \A q \in 1 .. cL, k \in 0 .. b - 1, j \in 1 .. N, h \in 0 .. log - 1 :
           (q - 1) * b + k = (j - 1) * log + h /\ (q - 1) * b + k < L
             => Digit(bytes[q], k) = Digit(a[j], h)
  BY DEF BitsKept
<1>4. /\ cL \in Nat /\ (\A k \in Nat : k < cL <=> k * b < L)
      /\ cM \in Nat /\ (\A k \in Nat : k < cM <=> k * b < M)
      /\ N \in Nat /\ (\A k \in Nat : k < N <=> k * log < L)
      /\ n \in Nat /\ (\A k \in Nat : k < n <=> k * log < M)
  BY <1>1, <1>2, CeilDivIs
<1> HIDE DEF cL, cM, n, N
<1>5. cM <= cL
  <2> SUFFICES ASSUME cL < cM PROVE FALSE
    BY <1>4
  <2>1. cL * b < M /\ ~(cL * b < L) /\ cL * b \in Int
    BY <1>1, <1>4
  <2> QED
    BY <1>1, <1>2, <2>1
<1>6. n <= N
  <2> SUFFICES ASSUME N < n PROVE FALSE
    BY <1>4
  <2>1. N * log < M /\ ~(N * log < L) /\ N * log \in Int
    BY <1>1, <1>4
  <2> QED
    BY <1>1, <1>2, <2>1
<1>8. /\ out \in [1 .. n -> 0 .. t - 1] /\ out[n] < TwoTo[M - (n - 1) * log]
      /\ \A q \in 1 .. n, k \in 0 .. log - 1, j \in 1 .. cM, h \in 0 .. b - 1 :
           (q - 1) * log + k = (j - 1) * b + h /\ (q - 1) * log + k < M
             => Digit(out[q], k) = Digit(bytes[j], h)
  BY DEF BitsKept, cM, n
<1>9. ASSUME NEW q \in 1 .. n, NEW k \in 0 .. log - 1
      PROVE  Digit(out[q], k) = IF (q - 1) * log + k < M THEN Digit(a[q], k) ELSE 0
  <2> DEFINE y == (q - 1) * log
             x == y + k
  <2>1. y \in Nat /\ k \in Nat /\ x \in Nat
    <3>1. q - 1 \in Nat /\ k \in Nat
      BY <1>1, <1>4
    <3>2. \A i \in Nat : i * log \in Nat
      BY <1>1
    <3> QED
      BY <3>1, <3>2
  <2>2. CASE x < M
    <3> HIDE DEF x
    <3>1. PICK c \in 1 .. cM, h \in 0 .. b - 1 : (c - 1) * b + h = x
      <4>1. b \in Nat \ {0} /\ M \in Nat /\ x \in Nat /\ x < M
        BY <1>1, <1>2, <2>1, <2>2
      <4>2. \E c \in 1 .. CeilDiv(M, b), h \in 0 .. b - 1 : (c - 1) * b + h = x
        BY <4>1, BitOf
      <4> QED
        BY <4>2 DEF cM
    <3>2. c \in 1 .. cL /\ q \in 1 .. N /\ x < L
      BY <1>1, <1>2, <1>4, <1>5, <1>6, <2>1, <2>2
    <3>3. Digit(out[q], k) = Digit(bytes[c], h)
      <4>1. (q - 1) * log + k = (c - 1) * b + h /\ (q - 1) * log + k < M
        BY <2>2, <3>1 DEF x
      <4> QED
        BY <1>8, <3>1, <4>1, Zenon
    <3>4. Digit(bytes[c], h) = Digit(a[q], k)
      <4>1. (c - 1) * b + h = (q - 1) * log + k /\ (c - 1) * b + h < L
        BY <3>1, <3>2 DEF x
      <4> QED
        BY <1>3, <3>1, <3>2, <4>1, Zenon
    <3> QED
      BY <2>2, <3>3, <3>4 DEF x
  <2>3. CASE ~(x < M)
    <3> DEFINE f == M - (n - 1) * log
    <3>1. q = n
      <4>1. y + log = q * log /\ q \in Nat
        <5>1. q \in Nat
          BY <1>4
        <5>2. (q - 1) * log = q * log - log /\ q * log \in Int
          BY <1>1, <5>1
        <5> QED
          BY <1>1, <5>1, <5>2
      <4> DEFINE qb == q * log
      <4> HIDE DEF y, qb
      <4>2. ~(qb < M)
        BY <1>1, <1>2, <2>1, <2>3, <4>1 DEF qb
      <4>3. ~(q < n)
        BY <1>4, <4>1, <4>2 DEF qb
      <4> QED
        BY <1>4, <4>3
    <3>2. f = M - y /\ f <= k
      <4>1. f = M - y
        BY <3>1
      <4> HIDE DEF f, y
      <4> QED
        BY <1>1, <1>2, <2>1, <2>3, <4>1
    <3>3. f >= 0
      <4>1. n - 1 \in Nat /\ n - 1 < n
        BY <1>4
      <4>2. (n - 1) * log < M
        BY <1>4, <4>1
      <4>3. y < M
        BY <3>1, <4>2
      <4> HIDE DEF f, y
      <4> QED
        BY <1>2, <2>1, <3>2, <4>3
    <3>4. out[q] \in Nat
      <4>1. t \in Nat
        BY <1>1, PowersOfTwo
      <4> HIDE DEF t
      <4> QED
        BY <1>8, <4>1
    <3>5. f \in Nat
      <4> HIDE DEF f, y
      <4> QED
        BY <1>2, <2>1, <3>2, <3>3
    <3>6. out[q] < TwoTo[f]
      BY <1>8, <3>1
    <3> HIDE DEF f
    <3>7. Digit(out[q], k) = 0
      BY <2>1, <3>2, <3>4, <3>5, <3>6, NoMoreDigits
    <3> QED
      BY <2>3, <3>7
  <2> QED
    BY <2>2, <2>3
<1> QED
  BY <1>8, <1>9 DEF FirstBits, n

\* L bits are written, and M of them or all are read back, into integers as
\* wide as those that were written: the bits that were read are those of the
\* numbers, and what is left of the last one is zero.
THEOREM BitsReturn ==
  ASSUME NEW a, NEW L, NEW M, NEW log, NEW b, NEW aT, NEW bT,
         Call(a, L, log, b, aT, bT), M \in 1 .. L
  PROVE  LET bytes == Transcribed(a, L, log, b, aT, bT)
             out == Transcribed(bytes, M, b, log, bT, aT)
         IN  Call(bytes, M, b, log, bT, aT) /\ FirstBits(out, a, M, log)
BY TranscribedBits, ReadableAgain, BitsThereAndBack

\* Reading back the first n of the integers that were written, whatever number
\* was written: what SerializeVector writes with b bits per byte of type bT is
\* what DeserializeVector reads, without a bit lost or moved.
THEOREM ReadsBack ==
  ASSUME NEW a, NEW log \in Nat \ {0}, a \in Seq(0 .. TwoTo[log] - 1),
         NEW b \in Nat \ {0}, NEW aT \in Nat, NEW bT \in Nat, log <= aT, b <= bT,
         NEW n \in 1 .. Len(a)
  PROVE  LET bytes == Transcribed(a, Len(a) * log, log, b, aT, bT)
         IN  /\ Call(a, Len(a) * log, log, b, aT, bT)
             /\ Call(bytes, n * log, b, log, bT, aT)
             /\ Transcribed(bytes, n * log, b, log, bT, aT) = SubSeq(a, 1, n)
<1> DEFINE N == Len(a)
           L == N * log
           M == n * log
           bytes == Transcribed(a, L, log, b, aT, bT)
           out == Transcribed(bytes, M, b, log, bT, aT)
           t == TwoTo[log]
<1>1. /\ N \in Nat /\ n \in Nat /\ 1 <= n /\ n <= N /\ a \in [1 .. N -> 0 .. t - 1] /\ t \in Nat
  <2>1. t \in Nat
    BY PowersOfTwo
  <2> HIDE DEF t
  <2>2. a \in Seq(0 .. t - 1)
    BY DEF t
  <2>3. N \in Nat /\ a \in [1 .. N -> 0 .. t - 1]
    <3> DEFINE S == 0 .. t - 1
    <3>1. a \in Seq(S)
      BY <2>2
    <3> HIDE DEF S
    <3>2. N \in Nat /\ a \in [1 .. N -> S]
      BY <3>1
    <3> QED
      BY <3>2 DEF S
  <2> HIDE DEF N
  <2> QED
    BY <2>1, <2>3 DEF N
<1>2. CeilDiv(L, log) = N /\ CeilDiv(M, log) = n
  BY <1>1, WholeChunks
<1>3. L \in Nat \ {0} /\ M \in 1 .. L
  <2> HIDE DEF N
  <2>1. L >= 1 * log /\ M >= 1 * log /\ L \in Nat /\ M \in Nat /\ 1 * log = log
    BY <1>1
  <2>2. L - M = (N - n) * log /\ (N - n) * log >= 0
    BY <1>1
  <2> HIDE DEF L, M
  <2> QED
    BY <2>1, <2>2
<1>4. a \in Seq(Nat)
  <2>1. \A i \in 1 .. N : a[i] \in Nat
    BY <1>1
  <2> QED
    BY <1>1, <2>1
<1> HIDE DEF L, t
<1>5. Call(a, L, log, b, aT, bT)
  BY <1>1, <1>2, <1>3, <1>4 DEF Call, Refused
<1> HIDE DEF N
<1>6. /\ Call(bytes, M, b, log, bT, aT)
      /\ out \in [1 .. n -> 0 .. t - 1]
      /\ \A q \in 1 .. n, k \in 0 .. log - 1 :
           Digit(out[q], k) = IF (q - 1) * log + k < M THEN Digit(a[q], k) ELSE 0
  <2> HIDE DEF M
  <2>1. Call(bytes, M, b, log, bT, aT) /\ FirstBits(out, a, M, log)
    BY <1>3, <1>5, BitsReturn
  <2> HIDE DEF out, bytes
  <2> QED
    BY <1>2, <2>1 DEF FirstBits, t
<1> HIDE DEF out, bytes
<1>7. ASSUME NEW q \in 1 .. n
      PROVE  out[q] = a[q]
  <2>1. ASSUME NEW k \in Nat, k < log
        PROVE  Digit(out[q], k) = Digit(a[q], k)
    <3>1. (q - 1) * log + k < M
      <4> DEFINE y == (q - 1) * log
                 ql == q * log
      <4>1. (n - q) * log >= 0 /\ (n - q) * log = M - ql /\ ql = y + log /\ ql \in Int /\ y \in Int
        BY <1>1
      <4>2. M \in Int
        BY <1>1
      <4> HIDE DEF y, ql, M
      <4>3. y + k < M
        BY <2>1, <4>1, <4>2
      <4> QED
        BY <4>3 DEF y
    <3>2. k \in 0 .. log - 1
      BY <2>1
    <3> HIDE DEF M
    <3> QED
      BY <1>6, <3>1, <3>2
  <2>2. out[q] \in Nat /\ out[q] < t /\ a[q] \in Nat /\ a[q] < t
    <3>1. out[q] \in 0 .. t - 1 /\ a[q] \in 0 .. t - 1
      BY <1>1, <1>6
    <3> QED
      BY <1>1, <3>1
  <2> QED
    BY <2>1, <2>2, SameDigits DEF t
<1>8. out = SubSeq(a, 1, n)
  <2>1. SubSeq(a, 1, n) = [q \in 1 .. n |-> a[q]]
    BY <1>1, <1>4 DEF N
  <2>2. out = [q \in 1 .. n |-> out[q]]
    BY <1>6
  <2> QED
    BY <1>7, <2>1, <2>2
<1> QED
  BY <1>5, <1>6, <1>8 DEF L, bytes, out, N

-----------------------------------------------------------------------------
(* Integers modulo m                                                        *)

\* Below: not reduced more than once.
LEMMA ReducedOnce ==
  ASSUME NEW m \in Nat \ {0}, NEW x \in 0 .. 2 * m - 1
  PROVE  (IF x >= m THEN x - m ELSE x) = x % m
<1>1. CASE x >= m
  <2>1. x = m * 1 + (x - m) /\ x - m \in 0 .. m - 1
    BY <1>1
  <2>2. (m * 1 + (x - m)) % m = x - m
    BY <2>1, DivisionIs
  <2> QED
    BY <1>1, <2>1, <2>2
<1>2. CASE ~(x >= m)
  BY <1>2
<1> QED
  BY <1>1, <1>2

LEMMA BarrettQuotient ==
  ASSUME NEW r \in Nat, NEW m \in Nat \ {0}, NEW c \in 0 .. m - 1, NEW n \in 0 .. r - 1,
         NEW b \in Int, b = (c * r) \div m, NEW q \in Int, q = (b * n) \div r
  PROVE  b \in 0 .. r - 1 /\ q \in 0 .. r - 1 /\ n * c - q * m \in 0 .. 2 * m - 1
<1>0. r \in Nat \ {0} /\ c * r \in Nat
  OBVIOUS
<1>1. PICK s \in 0 .. m - 1 : c * r = m * b + s
  <2> DEFINE cr == c * r
  <2>1. cr \in Int /\ b = cr \div m
    OBVIOUS
  <2> HIDE DEF cr
  <2>2. cr = m * b + (cr % m) /\ cr % m \in 0 .. m - 1
    BY <2>1, DivisionOf
  <2> QED
    BY <2>2 DEF cr
<1>2. PICK t \in 0 .. r - 1 : b * n = r * q + t
  <2> DEFINE bn == b * n
  <2>1. bn \in Int /\ q = bn \div r
    OBVIOUS
  <2> HIDE DEF bn
  <2>2. bn = r * q + (bn % r) /\ bn % r \in 0 .. r - 1
    BY <1>0, <2>1, DivisionOf
  <2> QED
    BY <2>2 DEF bn
<1>3. b \in 0 .. r - 1
  <2>1. b >= 0
    <3> SUFFICES ASSUME b <= -1 PROVE FALSE
      OBVIOUS
    <3>1. m * b <= m * (-1)
      OBVIOUS
    <3> QED
      BY <1>0, <1>1, <3>1
  <2>2. b < r
    <3> SUFFICES ASSUME b >= r PROVE FALSE
      OBVIOUS
    <3>1. m * b >= m * r
      OBVIOUS
    <3>2. c * r <= (m - 1) * r
      OBVIOUS
    <3>3. (m - 1) * r = m * r - r
      OBVIOUS
    <3> QED
      BY <1>0, <1>1, <3>1, <3>2, <3>3
  <2> QED
    BY <2>1, <2>2
<1>4. q \in 0 .. r - 1
  <2>1. q >= 0
    <3> SUFFICES ASSUME q <= -1 PROVE FALSE
      OBVIOUS
    <3>1. r * q <= r * (-1) /\ b * n >= 0
      BY <1>3
    <3> QED
      BY <1>0, <1>2, <3>1
  <2>2. q < r
    <3> SUFFICES ASSUME q >= r PROVE FALSE
      OBVIOUS
    <3>1. r * q >= r * r
      OBVIOUS
    <3>2. b * n <= (r - 1) * n /\ (r - 1) * n <= (r - 1) * r /\ (r - 1) * r = r * r - r
      BY <1>3
    <3> QED
      BY <1>0, <1>2, <3>1, <3>2
  <2> QED
    BY <2>1, <2>2
<1>5. r * (n * c - q * m) = n * s + m * t
  <2>1. r * (n * c - q * m) = n * (c * r) - m * (r * q)
    OBVIOUS
  <2>2. n * (c * r) = m * (b * n) + n * s
    BY <1>1
  <2>3. m * (b * n) = m * (r * q) + m * t
    <3> DEFINE bn == b * n
               rq == r * q
    <3>1. bn = rq + t /\ rq \in Int
      BY <1>2
    <3> HIDE DEF bn, rq
    <3>2. m * bn = m * rq + m * t
      BY <3>1
    <3> QED
      BY <3>2 DEF bn, rq
  <2>4. n * (c * r) \in Int /\ m * (b * n) \in Int /\ m * (r * q) \in Int /\ n * s \in Int /\ m * t \in Int
    OBVIOUS
  <2> QED
    BY <2>1, <2>2, <2>3, <2>4
<1> DEFINE d == n * c - q * m
<1>6. d \in Int
  OBVIOUS
<1>7. n * s <= r * m - r /\ n * s >= 0 /\ m * t <= r * m - m /\ m * t >= 0
  <2>1. n * s <= n * (m - 1) /\ n * (m - 1) <= r * (m - 1) /\ r * (m - 1) = r * m - r
    OBVIOUS
  <2>2. m * t <= m * (r - 1) /\ m * (r - 1) = r * m - m
    OBVIOUS
  <2>3. n * s >= 0 /\ m * t >= 0
    OBVIOUS
  <2> QED
    BY <2>1, <2>2, <2>3
<1>8. r * d >= 0 /\ r * d < 2 * (r * m)
  <2> DEFINE ns == n * s
             mt == m * t
             rm == r * m
             rd == r * d
  <2>1. ns \in Int /\ mt \in Int /\ rm \in Int /\ rd = ns + mt
    BY <1>5
  <2>2. ns <= rm - r /\ ns >= 0 /\ mt <= rm - m /\ mt >= 0
    BY <1>7
  <2> HIDE DEF ns, mt, rm, rd
  <2>3. rd >= 0 /\ rd < 2 * rm
    BY <1>0, <2>1, <2>2
  <2> QED
    BY <2>3 DEF rd, rm
<1> HIDE DEF d
<1>9. d >= 0
  <2> SUFFICES ASSUME d <= -1 PROVE FALSE
    BY <1>6
  <2>1. r * d <= r * (-1) /\ r * (-1) < 0
    BY <1>0, <1>6
  <2> QED
    BY <1>6, <1>8, <2>1
<1>10. d < 2 * m
  <2> SUFFICES ASSUME d >= 2 * m PROVE FALSE
    BY <1>6
  <2>1. r * d >= r * (2 * m) /\ r * (2 * m) = 2 * (r * m)
    BY <1>6
  <2> QED
    BY <1>6, <1>8, <2>1
<1> QED
  BY <1>3, <1>4, <1>6, <1>9, <1>10 DEF d

-----------------------------------------------------------------------------
(* MontgomeryIntParams *)

\* A modulus is odd and less than a quarter of R.
LEMMA SmallModulus ==
  ASSUME WordAssumption, NEW m \in Word \ {0}, Accepted(m)
  PROVE  /\ m \in Nat \ {0} /\ m % 2 = 1 /\ R \in Nat \ {0} /\ 4 * m < R
         /\ R = 2 * TwoTo[W - 1] /\ R = TwoTo[W] /\ W \in Nat \ {0}
<1>1. W \in Nat /\ W > 3 /\ W - 1 \in Nat /\ W - 2 \in Nat
      /\ (W - 1) + 1 = W /\ (W - 2) + 1 = W - 1
  BY DEF WordAssumption
<1>2. R \in Nat \ {0} /\ R = 2 * TwoTo[W - 1] /\ TwoTo[W - 1] = 2 * TwoTo[W - 2]
      /\ TwoTo[W - 2] \in Nat \ {0} /\ TwoTo[W - 1] \in Nat \ {0}
  BY <1>1, PowersOfTwo DEF R
<1>3. m \in Nat \ {0} /\ m \div TwoTo[W - 2] = 0 /\ m % 2 = 1
  BY <1>2 DEF Accepted, ShiftRight, Word
<1>4. m < TwoTo[W - 2]
  <2> DEFINE t == TwoTo[W - 2]
  <2>1. t \in Nat \ {0} /\ m \div t = 0
    BY <1>2, <1>3
  <2> HIDE DEF t
  <2>2. m = t * (m \div t) + (m % t) /\ m % t \in 0 .. t - 1
    BY <1>3, <2>1, DivisionOf
  <2>3. m < t
    BY <1>3, <2>1, <2>2
  <2> QED
    BY <2>3 DEF t
<1> QED
  BY <1>1, <1>2, <1>3, <1>4 DEF R

\* The recursion of the halvings is one.
LEMMA HalvingsAre ==
  ASSUME WordAssumption, NEW m \in Nat
  PROVE  Halvings(m) = [i \in 0 .. W |-> IF i = 0 THEN <<1, 0>>
                                        ELSE Halved(m, Halvings(m)[i - 1])]
<1> DEFINE S == Nat \X Nat
           next == [n \in Nat |-> [s \in S |-> Halved(m, s)]]
           Is(f) == f = [i \in 0 .. W |-> IF i = 0 THEN <<1, 0>> ELSE Halved(m, f[i - 1])]
<1>1. next \in [Nat -> [S -> S]] /\ <<1, 0>> \in S
  <2>1. R \in Nat
    BY PowersOfTwo DEF WordAssumption, R
  <2>2. ASSUME NEW s \in S
        PROVE  Halved(m, s) \in S
    <3>1. s[1] \in Nat /\ s[2] \in Nat
      OBVIOUS
    <3>2. \A x \in Nat : x \div 2 \in Nat
      OBVIOUS
    <3> QED
      BY <2>1, <3>1, <3>2 DEF Halved
  <2> QED
    BY <2>2
<1>2. PICK g \in [Nat -> S] : Recursive(g, <<1, 0>>, next)
  <2> DEFINE first == <<1, 0>>
  <2>1. first \in S
    BY <1>1
  <2> HIDE DEF S, next, first
  <2>2. \E g \in [Nat -> S] : Recursive(g, first, next)
    BY <1>1, <2>1, Recursion
  <2> QED
    BY <2>2 DEF first
<1> DEFINE f == [i \in 0 .. W |-> g[i]]
<1>3. Is(f)
  <2>1. W \in Nat
    BY DEF WordAssumption
  <2>2. ASSUME NEW i \in 0 .. W
        PROVE  f[i] = IF i = 0 THEN <<1, 0>> ELSE Halved(m, f[i - 1])
    <3>1. f[i] = IF i = 0 THEN <<1, 0>> ELSE next[i][g[i - 1]]
      BY <1>2, <2>1 DEF Recursive
    <3>2. i # 0 => i - 1 \in Nat /\ i - 1 \in 0 .. W
      BY <2>1
    <3>3. i # 0 => g[i - 1] \in S /\ f[i - 1] = g[i - 1]
      BY <3>2
    <3>4. \A s \in S : next[i][s] = Halved(m, s)
      BY <2>1
    <3> HIDE DEF f, S, next
    <3> QED
      BY <3>1, <3>3, <3>4
  <2> QED
    BY <2>2
<1>4. Halvings(m) = CHOOSE h : Is(h)
  BY DEF Halvings
<1>5. Is(Halvings(m))
  <2> HIDE DEF Is, f
  <2> QED
    BY <1>3, <1>4
<1> QED
  BY <1>5

\* One halving of an even x * R - y * m.
LEMMA HalvedOnce ==
  ASSUME NEW m \in Nat \ {0}, m % 2 = 1, NEW b \in Nat, R = 2 * b, m < R,
         NEW x \in 0 .. m, NEW y \in 0 .. R - 1, NEW k \in Int, R * x - m * y = 2 * k
  PROVE  /\ Halved(m, <<x, y>>)[1] \in 0 .. m /\ Halved(m, <<x, y>>)[2] \in 0 .. R - 1
         /\ R * Halved(m, <<x, y>>)[1] - m * Halved(m, <<x, y>>)[2] = k
         /\ m > 1 /\ x < m => Halved(m, <<x, y>>)[1] < m
<1>1. PICK a \in Int : m = 2 * a + 1
  OBVIOUS
<1>2. PICK c \in Int, d \in {0, 1} : x = 2 * c + d /\ c = x \div 2 /\ d = x % 2
  OBVIOUS
<1>3. PICK e \in Int : y = 2 * e
  <2> DEFINE ay == a * y
             bx == b * x
  <2>1. m * y = 2 * ay + y /\ R * x = 2 * bx /\ ay \in Int /\ bx \in Int
    BY <1>1
  <2> HIDE DEF ay, bx
  <2>2. y = 2 * (bx - k - ay) /\ bx - k - ay \in Int
    BY <2>1
  <2> QED
    BY <2>2
<1>4. CASE d = 0
  <2>1. Halved(m, <<x, y>>) = <<c, e>>
    BY <1>2, <1>3, <1>4 DEF Halved
  <2>2. c \in 0 .. m /\ e \in 0 .. R - 1 /\ (x < m => c < m)
    BY <1>2, <1>3, <1>4
  <2>3. R * c - m * e = k
    <3>1. R * x = 2 * (R * c) /\ m * y = 2 * (m * e)
      BY <1>2, <1>3, <1>4
    <3> QED
      BY <3>1
  <2>4. Halved(m, <<x, y>>)[1] = c /\ Halved(m, <<x, y>>)[2] = e
    BY <2>1
  <2> QED
    BY <2>2, <2>3, <2>4
<1>5. CASE d = 1
  <2> DEFINE p == c + a + 1
             q == e + b
  <2>1. Halved(m, <<x, y>>) = <<p, q>>
    <3>1. x + m = 2 * p /\ y + R = 2 * q
      BY <1>1, <1>2, <1>3, <1>5
    <3>2. (2 * p) \div 2 = p /\ (2 * q) \div 2 = q
      OBVIOUS
    <3> HIDE DEF p, q
    <3> QED
      BY <1>2, <1>5, <3>1, <3>2 DEF Halved
  <2>2. p \in 0 .. m /\ q \in 0 .. R - 1 /\ (x < m => p < m)
    BY <1>1, <1>2, <1>3, <1>5
  <2>3. R * p - m * q = k
    <3> DEFINE Rx == R * x
               my == m * y
               Rm == R * m
    <3>1. 2 * (R * p) = Rx + Rm /\ 2 * (m * q) = my + Rm
      <4>1. 2 * p = x + m /\ 2 * q = y + R /\ p \in Int /\ q \in Int
        BY <1>1, <1>2, <1>3, <1>5
      <4>2. 2 * (R * p) = R * (2 * p) /\ 2 * (m * q) = m * (2 * q)
        OBVIOUS
      <4>3. R * (x + m) = Rx + Rm /\ m * (y + R) = my + Rm
        OBVIOUS
      <4> QED
        BY <4>1, <4>2, <4>3
    <3> HIDE DEF Rx, my, Rm
    <3>2. Rx - my = 2 * k /\ Rx \in Int /\ my \in Int /\ Rm \in Int
      BY DEF Rx, my, Rm
    <3>3. R * p \in Int /\ m * q \in Int
      OBVIOUS
    <3> QED
      BY <3>1, <3>2, <3>3
  <2> QED
    BY <2>1, <2>2, <2>3
<1> QED
  BY <1>2, <1>4, <1>5

\* Inverses: after i halvings, what is left of R.
LEMMA InversesAre ==
  ASSUME WordAssumption, NEW m \in Word \ {0}, Accepted(m)
  PROVE  /\ Inverses(m)[1] \in 0 .. m /\ Inverses(m)[2] \in 0 .. R - 1
         /\ R * Inverses(m)[1] - m * Inverses(m)[2] = 1
         /\ m > 1 => Inverses(m)[1] < m
<1> DEFINE H == Halvings(m)
           Left(i) == TwoTo[W - i]
           Good(i) == /\ H[i] = <<H[i][1], H[i][2]>>
                      /\ H[i][1] \in 0 .. m /\ H[i][2] \in 0 .. R - 1
                      /\ R * H[i][1] - m * H[i][2] = Left(i)
                      /\ m > 1 => H[i][1] < m
           A == {i \in Nat : i <= W => Good(i)}
<1>1. /\ m \in Nat \ {0} /\ m % 2 = 1 /\ R \in Nat \ {0} /\ 4 * m < R
      /\ R = 2 * TwoTo[W - 1] /\ R = TwoTo[W] /\ W \in Nat \ {0} /\ TwoTo[W - 1] \in Nat
  <2>1. W \in Nat \ {0} => TwoTo[W - 1] \in Nat
    BY PowersOfTwo
  <2> QED
    BY SmallModulus, <2>1
<1>2. H[0] = <<1, 0>> /\ \A i \in 1 .. W : H[i] = Halved(m, H[i - 1])
  BY SMTT(30), <1>1, HalvingsAre
<1> HIDE DEF H
<1>3. 0 \in A
  <2>1. H[0][1] = 1 /\ H[0][2] = 0 /\ H[0] = <<H[0][1], H[0][2]>>
    BY <1>2
  <2>2. Left(0) = R
    BY <1>1
  <2> QED
    BY <1>1, <2>1, <2>2
<1>4. ASSUME NEW i \in Nat, i \in A
      PROVE  i + 1 \in A
  <2> SUFFICES ASSUME i + 1 <= W
               PROVE  Good(i + 1)
    OBVIOUS
  <2> DEFINE x == H[i][1]
             y == H[i][2]
             k == Left(i + 1)
  <2>1. H[i + 1] = Halved(m, H[i])
    <3>1. i + 1 \in 1 .. W /\ (i + 1) - 1 = i
      BY <1>1
    <3> QED
      BY <1>2, <3>1
  <2>2. /\ H[i] = <<x, y>> /\ x \in 0 .. m /\ y \in 0 .. R - 1
        /\ R * x - m * y = Left(i) /\ (m > 1 => x < m)
    BY <1>1, <1>4
  <2>3. Left(i) = 2 * k /\ k \in Int
    <3>1. W - (i + 1) \in Nat /\ (W - (i + 1)) + 1 = W - i
      BY <1>1
    <3> QED
      BY <3>1, PowersOfTwo
  <2>4. H[i + 1] = <<H[i + 1][1], H[i + 1][2]>>
    BY <2>1 DEF Halved
  <2>5. R * x - m * y = 2 * k /\ m < R
    BY <1>1, <2>2, <2>3
  <2> HIDE DEF x, y, k, Left
  <2>6. /\ Halved(m, <<x, y>>)[1] \in 0 .. m /\ Halved(m, <<x, y>>)[2] \in 0 .. R - 1
        /\ R * Halved(m, <<x, y>>)[1] - m * Halved(m, <<x, y>>)[2] = k
        /\ m > 1 /\ x < m => Halved(m, <<x, y>>)[1] < m
    BY <1>1, <2>2, <2>3, <2>5, HalvedOnce
  <2> QED
    BY <2>1, <2>2, <2>4, <2>6 DEF k
<1>5. Nat \subseteq A
  <2> HIDE DEF A
  <2> QED
    BY <1>3, <1>4, Induction
<1>6. Good(W)
  BY <1>1, <1>5
<1>7. Left(W) = 1
  BY <1>1, PowersOfTwo
<1>8. Inverses(m) = <<H[W][1], H[W][2]>>
  <2>1. H[W][1] % R = H[W][1] /\ H[W][2] % R = H[W][2]
    <3>1. H[W][1] \in 0 .. R - 1 /\ H[W][2] \in 0 .. R - 1
      BY <1>1, <1>6
    <3> QED
      BY SMTT(30), <1>1, <3>1
  <2> QED
    BY <2>1 DEF Inverses, H
<1>9. Inverses(m)[1] = H[W][1] /\ Inverses(m)[2] = H[W][2]
  BY <1>8
<1> QED
  BY <1>6, <1>7, <1>9

\* What Create keeps, for an accepted modulus.
LEMMA ParamsAre ==
  ASSUME WordAssumption, NEW m \in Word \ {0}, Accepted(m)
  PROVE  LET p == Params(m)
         IN  /\ p.modulus = m
             /\ p.r_mod_modulus = R % m /\ p.r_mod_modulus \in 0 .. m - 1
             /\ p.r_mod_modulus_barrett = Barrett(R % m, m)
             /\ p.inv_r \in 0 .. m /\ p.inv_modulus \in 0 .. R - 1
             /\ R * p.inv_r - m * p.inv_modulus = 1
             /\ p.inv_r < m \/ (m = 1 /\ p.inv_r = 1)
             /\ p.inv_r_barrett = Barrett(p.inv_r, m)
             /\ p.barrett_numerator = R \div m
<1> DEFINE p == Params(m)
<1>1. /\ p.modulus = m /\ p.r_mod_modulus = R % m
      /\ p.r_mod_modulus_barrett = Barrett(R % m, m)
      /\ p.inv_r = Inverses(m)[1] /\ p.inv_modulus = Inverses(m)[2]
      /\ p.inv_r_barrett = Barrett(Inverses(m)[1], m) /\ p.barrett_numerator = R \div m
  BY DEF Params
<1>2. m \in Nat \ {0} /\ R \in Nat \ {0} /\ 4 * m < R
  BY SmallModulus
<1>3. R % m \in 0 .. m - 1
  <2>1. R \in Int
    BY <1>2
  <2> QED
    BY <1>2, <2>1
<1>4. /\ Inverses(m)[1] \in 0 .. m /\ Inverses(m)[2] \in 0 .. R - 1
      /\ R * Inverses(m)[1] - m * Inverses(m)[2] = 1
      /\ m > 1 => Inverses(m)[1] < m
  BY InversesAre
<1>5. Inverses(m)[1] < m \/ (m = 1 /\ Inverses(m)[1] = 1)
  <2> SUFFICES ASSUME m = 1, Inverses(m)[1] = 0 PROVE FALSE
    BY <1>2, <1>4
  <2>1. R * 0 - 1 * Inverses(m)[2] = 1
    BY <1>4
  <2> QED
    BY <1>2, <1>4, <2>1
<1> HIDE DEF p
<1> QED
  BY <1>1, <1>3, <1>4, <1>5 DEF p

\* A product with a constant whose quotient is precomputed.
LEMMA TimesExact ==
  ASSUME WordAssumption, NEW m \in Word \ {0}, Accepted(m),
         NEW n \in Word, NEW c \in 0 .. m - 1
  PROVE  Times(Params(m), n, c, Barrett(c, m)) = (n * c) % m
<1> DEFINE b == (c * R) \div m
           q == (b * n) \div R
           d == n * c - q * m
<1>1. m \in Nat \ {0} /\ R \in Nat \ {0} /\ 4 * m < R /\ n \in 0 .. R - 1
  BY SmallModulus DEF Word
<1>2. b \in Int /\ q \in Int
  <2>1. c * R \in Int
    BY <1>1
  <2>2. b \in Int
    BY <1>1, <2>1
  <2> HIDE DEF b
  <2>3. b * n \in Int
    BY <1>1, <2>2
  <2> QED
    BY <1>1, <2>2, <2>3
<1>3. b \in 0 .. R - 1 /\ q \in 0 .. R - 1 /\ d \in 0 .. 2 * m - 1
  <2> HIDE DEF b, q
  <2>1. b = (c * R) \div m /\ q = (b * n) \div R
    BY DEF b, q
  <2> QED
    BY <1>1, <1>2, <2>1, BarrettQuotient
<1>4. Barrett(c, m) = b
  <2> HIDE DEF b
  <2>1. Barrett(c, m) = b % R
    BY DEF Barrett, b
  <2> QED
    BY <1>1, <1>3, <2>1
<1>5. Times(Params(m), n, c, b) = IF d >= m THEN d - m ELSE d
  <2>1. q % R = q /\ d % R = d
    <3> HIDE DEF b, q, d
    <3> QED
      BY <1>1, <1>3
  <2>2. Params(m).modulus = m
    BY DEF Params
  <2> HIDE DEF b
  <2>3. Times(Params(m), n, c, b)
          = LET out == (n * c - (q % R) * m) % R IN IF out >= m THEN out - m ELSE out
    BY <2>2 DEF Times
  <2> HIDE DEF q
  <2> QED
    BY <2>1, <2>3
<1>6. d % m = (n * c) % m
  <2> DEFINE nc == n * c
  <2>1. nc \in Int /\ d \in Int /\ d = nc + (- q) * m /\ - q \in Int
    BY <1>1, <1>2
  <2> HIDE DEF nc, d, q
  <2>2. Same(d, nc, m)
    BY <2>1 DEF Same
  <2>3. d % m = nc % m
    BY <1>1, <2>1, <2>2, SameResidue
  <2> QED
    BY <2>3 DEF nc
<1> HIDE DEF d, b
<1> QED
  BY <1>1, <1>3, <1>4, <1>5, <1>6, ReducedOnce

\* Any word is reduced.
LEMMA BarrettReduced ==
  ASSUME WordAssumption, NEW m \in Word \ {0}, Accepted(m), NEW x \in Word
  PROVE  BarrettReduce(Params(m), x) = x % m
<1> DEFINE N == R \div m
           s == R % m
           Nx == N * x
           q == Nx \div R
           t == Nx % R
           d == x - q * m
<1>1. m \in Nat \ {0} /\ R \in Nat \ {0} /\ 4 * m < R /\ x \in 0 .. R - 1
  BY SmallModulus DEF Word
<1>2. R = m * N + s /\ s \in 0 .. m - 1 /\ N \in Int
  <2> DEFINE r == R
  <2>1. r \in Int /\ m \in Nat \ {0}
    BY <1>1
  <2> HIDE DEF r
  <2>2. r = m * (r \div m) + (r % m) /\ r % m \in 0 .. m - 1 /\ r \div m \in Int
    BY <2>1, DivisionOf
  <2> QED
    BY <2>2 DEF r
<1>3. Nx = R * q + t /\ t \in 0 .. R - 1 /\ q \in Int /\ Nx \in Int
  <2> HIDE DEF N
  <2>1. Nx \in Int
    BY <1>1, <1>2
  <2> HIDE DEF Nx
  <2> QED
    BY <1>1, <2>1, DivisionOf
<1>4. Params(m).modulus = m /\ Params(m).barrett_numerator = N
  BY DEF Params
<1> HIDE DEF N, s
<1>5. R * d = s * x + m * t
  <2> DEFINE Rq == R * q
  <2>1. R * d = R * x - m * Rq /\ Rq \in Int
    <3> HIDE DEF q, t, Nx
    <3>1. d = x - q * m
      OBVIOUS
    <3> HIDE DEF d
    <3>2. R * (x - q * m) = R * x - m * (R * q) /\ R * q \in Int
      BY <1>1, <1>3
    <3> QED
      BY <3>1, <3>2
  <2>2. Rq = Nx - t
    BY <1>3, <2>1
  <2>3. m * Nx = (m * N) * x
    BY <1>1, <1>2
  <2>4. (m * N) * x = R * x - s * x
    <3> DEFINE mN == m * N
    <3>1. mN = R - s /\ mN \in Int
      BY <1>1, <1>2
    <3> HIDE DEF mN
    <3>2. mN * x = R * x - s * x
      BY <1>1, <1>2, <3>1
    <3> QED
      BY <3>2 DEF mN
  <2> HIDE DEF Nx, Rq
  <2>5. m * Rq = m * Nx - m * t
    BY <1>1, <1>3, <2>1, <2>2
  <2>6. R * x \in Int /\ s * x \in Int /\ m * t \in Int /\ m * Nx \in Int /\ m * Rq \in Int
    BY <1>1, <1>2, <1>3, <2>1
  <2> QED
    BY <2>1, <2>3, <2>4, <2>5, <2>6
<1>6. d \in Int
  <2> HIDE DEF q, t, Nx
  <2> QED
    BY <1>1, <1>3
<1>7. R * d >= 0 /\ R * d < 2 * (R * m)
  <2> DEFINE sx == s * x
             mt == m * t
             Rm == R * m
             Rd == R * d
  <2>1. sx >= 0 /\ sx <= Rm /\ sx \in Int
    <3>1. s * x <= m * x /\ m * x <= m * R /\ m * R = Rm /\ s * x >= 0
      BY <1>1, <1>2
    <3> QED
      BY <1>1, <1>2, <3>1
  <2>2. mt >= 0 /\ mt < Rm /\ mt \in Int /\ Rm \in Int
    <3> HIDE DEF t, q, Nx
    <3>1. m * t <= m * (R - 1) /\ m * (R - 1) = Rm - m /\ m * t >= 0
      BY <1>1, <1>3
    <3> QED
      BY <1>1, <1>3, <3>1
  <2>3. Rd = sx + mt
    BY <1>5
  <2> HIDE DEF sx, mt, Rm, Rd
  <2>4. Rd >= 0 /\ Rd < 2 * Rm
    BY <2>1, <2>2, <2>3
  <2> QED
    BY <2>4 DEF Rm, Rd
<1>8. d \in 0 .. 2 * m - 1
  <2> HIDE DEF d
  <2>1. d >= 0
    <3> SUFFICES ASSUME d <= -1 PROVE FALSE
      BY <1>6
    <3>1. R * d <= R * (-1) /\ R * (-1) < 0
      BY <1>1, <1>6
    <3> QED
      BY <1>1, <1>6, <1>7, <3>1
  <2>2. d < 2 * m
    <3> SUFFICES ASSUME d >= 2 * m PROVE FALSE
      BY <1>1, <1>6
    <3>1. R * d >= R * (2 * m) /\ R * (2 * m) = 2 * (R * m)
      BY <1>1, <1>6
    <3> QED
      BY <1>1, <1>6, <1>7, <3>1
  <2> QED
    BY <1>1, <1>6, <2>1, <2>2
<1>9. q \in 0 .. R - 1
  <2> HIDE DEF q, t, Nx
  <2>1. q >= 0
    <3> SUFFICES ASSUME q <= -1 PROVE FALSE
      BY <1>3
    <3>1. R * q <= R * (-1) /\ R * (-1) = - R
      BY <1>1, <1>3
    <3>2. Nx >= 0
      <4>1. N >= 0
        <5> SUFFICES ASSUME N <= -1 PROVE FALSE
          BY <1>2
        <5>1. m * N <= m * (-1) /\ m * (-1) = - m
          BY <1>1, <1>2
        <5> QED
          BY <1>1, <1>2, <5>1
      <4> QED
        BY <1>1, <1>2, <4>1 DEF Nx
    <3> QED
      BY <1>1, <1>3, <3>1, <3>2
  <2>2. q <= q * m
    BY <1>1, <1>3, <2>1
  <2>3. q * m <= x /\ q * m \in Int
    <3> DEFINE qm == q * m
    <3>1. qm \in Int /\ d = x - qm
      BY <1>1, <1>3
    <3> HIDE DEF qm, d
    <3>2. qm <= x
      BY <1>1, <1>8, <3>1
    <3> QED
      BY <3>1, <3>2 DEF qm
  <2> QED
    BY <1>1, <1>3, <2>1, <2>2, <2>3
<1>10. BarrettReduce(Params(m), x) = IF d >= m THEN d - m ELSE d
  <2>1. q % R = q /\ d % R = d
    <3> HIDE DEF q, d
    <3> QED
      BY <1>1, <1>8, <1>9
  <2>2. BarrettReduce(Params(m), x)
          = LET out == (x - (q % R) * m) % R IN IF out >= m THEN out - m ELSE out
    BY <1>4 DEF BarrettReduce
  <2> HIDE DEF q
  <2> QED
    BY <2>1, <2>2
<1>11. d % m = x % m
  <2>1. d = x + (- q) * m /\ - q \in Int
    <3>1. q \in Int /\ d = x - q * m
      BY <1>1, <1>3
    <3> HIDE DEF d, q
    <3>2. (- q) * m = - (q * m) /\ - q \in Int
      BY <1>1, <3>1
    <3> QED
      BY <1>1, <3>1, <3>2
  <2> HIDE DEF d, q
  <2>2. Same(d, x, m)
    BY <2>1 DEF Same
  <2> QED
    BY <1>1, <1>6, <2>2, SameResidue
<1> HIDE DEF d
<1> QED
  BY <1>1, <1>8, <1>10, <1>11, ReducedOnce

\* Leaving the form multiplies by the inverse of R; for m = 1 only the
\* entries in use are below what one subtraction reduces.
LEMMA ExportIs ==
  ASSUME WordAssumption, NEW m \in Word \ {0}, Accepted(m), NEW n \in 0 .. m
  PROVE  ExportInt(Params(m), n) = (n * Params(m).inv_r) % m
<1> DEFINE p == Params(m)
           i == p.inv_r
<1>1. m \in Nat \ {0} /\ R \in Nat \ {0} /\ 4 * m < R
  BY SmallModulus
<1>2. /\ p.modulus = m /\ i \in 0 .. m /\ p.inv_r_barrett = Barrett(i, m)
      /\ i < m \/ (m = 1 /\ i = 1)
  BY ParamsAre
<1>3. n \in Word
  BY <1>1 DEF Word
<1> HIDE DEF p
<1>4. ExportInt(p, n) = Times(p, n, i, Barrett(i, m))
  BY <1>2 DEF ExportInt
<1>5. CASE i < m
  <2>1. i \in 0 .. m - 1
    BY <1>1, <1>2, <1>5
  <2> HIDE DEF i
  <2>2. Times(p, n, i, Barrett(i, m)) = (n * i) % m
    BY <1>3, <2>1, TimesExact DEF p
  <2> QED
    BY <1>4, <2>2 DEF p, i
<1>6. CASE m = 1 /\ i = 1
  <2>1. Barrett(1, 1) = 0
    <3>1. (1 * R) \div 1 = R /\ R % R = 0
      BY <1>1
    <3> QED
      BY <3>1 DEF Barrett
  <2>2. Times(p, n, 1, 0) = 0
    <3> DEFINE out == (n * 1 - (((0 * n) \div R) % R) * 1) % R
    <3>1. out = n
      <4>1. (0 * n) \div R = 0 /\ 0 % R = 0
        <5>1. 0 * n = 0 /\ 0 \div R = 0 /\ 0 % R = 0
          BY <1>1
        <5> QED
          BY <5>1
      <4>2. n * 1 - 0 * 1 = n /\ n % R = n
        BY <1>1
      <4> QED
        BY <4>1, <4>2
    <3>2. Times(p, n, 1, 0) = IF out >= 1 THEN out - 1 ELSE out
      BY <1>2, <1>6 DEF Times
    <3> HIDE DEF out
    <3> QED
      BY <1>6, <3>1, <3>2
  <2>3. (n * i) % m = 0
    BY <1>6
  <2> QED
    BY <1>4, <1>6, <2>1, <2>2, <2>3 DEF p
<1> QED
  BY <1>2, <1>5, <1>6

\* The product of two entries, divided by R.
LEMMA MulIs ==
  ASSUME WordAssumption, NEW m \in Word \ {0}, Accepted(m), NEW a \in 0 .. m, NEW b \in 0 .. m
  PROVE  Mul(Params(m), a, b) = ((a * b) * Params(m).inv_r) % m
<1> DEFINE p == Params(m)
           i == p.inv_r
           k == p.inv_modulus
           z == a * b
           x == z % R
           u == (x * k) % R
           s == z + m * u
           t == s \div R
<1>1. m \in Nat \ {0} /\ R \in Nat \ {0} /\ 4 * m < R
  BY SmallModulus
<1>2. p.modulus = m /\ i \in 0 .. m /\ k \in 0 .. R - 1 /\ R * i - m * k = 1
  BY ParamsAre
<1> HIDE DEF p
<1>3. z \in Nat /\ 4 * z <= R * m
  <2>1. a * b <= m * b /\ m * b <= m * m /\ 4 * (m * m) = (4 * m) * m /\ (4 * m) * m <= R * m
    BY <1>1
  <2> QED
    BY <1>1, <2>1
<1> HIDE DEF i, k, z
<1>4. x \in 0 .. R - 1
  BY <1>1, <1>3
<1>5. u \in 0 .. R - 1
  <2> HIDE DEF x
  <2>1. x * k \in Int
    BY <1>1, <1>2, <1>4
  <2> QED
    BY <1>1, <2>1
<1>6. Same(s, 0, R)
  <2>1. PICK e \in Int : z = R * e + x
    <3>1. z = R * (z \div R) + (z % R) /\ z \div R \in Int
      BY <1>1, <1>3, DivisionOf
    <3> QED
      BY <3>1
  <2> HIDE DEF x
  <2> DEFINE xk == x * k
  <2>2. xk \in Int
    BY <1>1, <1>2, <1>4
  <2>3. PICK f \in Int : xk = R * f + u
    <3> HIDE DEF xk
    <3>1. xk = R * (xk \div R) + (xk % R) /\ xk \div R \in Int
      BY <1>1, <2>2, DivisionOf
    <3> QED
      BY <3>1 DEF xk
  <2>4. m * xk = x * (R * i) - x
    <3> DEFINE mk == m * k
               Ri == R * i
    <3>1. m * xk = x * mk /\ mk = Ri - 1 /\ mk \in Int /\ Ri \in Int
      BY <1>1, <1>2, <1>4
    <3> HIDE DEF mk, Ri
    <3>2. x * mk = x * Ri - x
      BY <1>4, <3>1
    <3> QED
      BY <3>1, <3>2 DEF Ri
  <2>5. s = R * (e + x * i - m * f)
    <3>1. m * xk = m * (R * f) + m * u
      <4> DEFINE Rf == R * f
      <4>1. xk = Rf + u /\ Rf \in Int
        BY <1>1, <2>3
      <4> HIDE DEF xk, u, Rf
      <4>2. m * xk = m * Rf + m * u
        BY <1>1, <1>5, <4>1
      <4> QED
        BY <4>2 DEF Rf
    <3> HIDE DEF xk, u
    <3>2. m * u = x * (R * i) - x - m * (R * f)
      <4>1. m * u \in Int /\ x * (R * i) \in Int /\ m * (R * f) \in Int /\ m * xk \in Int
        BY <1>1, <1>2, <1>4, <1>5, <2>2, <2>3
      <4> QED
        BY <2>4, <3>1, <1>4, <4>1
    <3>3. R * (e + x * i - m * f) = R * e + x * (R * i) - m * (R * f)
      BY <1>1, <1>2, <1>4, <2>1, <2>3
    <3>4. R * e \in Int /\ x * (R * i) \in Int /\ m * (R * f) \in Int
      BY <1>1, <1>2, <1>4, <2>1, <2>3
    <3> QED
      BY <1>4, <2>1, <3>2, <3>3, <3>4
  <2> HIDE DEF xk, u, s
  <2>6. e + x * i - m * f \in Int
    BY <1>1, <1>2, <1>4, <2>1, <2>3
  <2>7. s = 0 + (e + x * i - m * f) * R
    BY <1>1, <2>5, <2>6
  <2> QED
    BY <2>6, <2>7 DEF Same
<1> HIDE DEF u, x
<1>7. s \in Nat /\ s < R * (2 * m)
  <2> DEFINE mu == m * u
             Rm == R * m
  <2>1. mu >= 0 /\ mu <= Rm /\ mu \in Int /\ Rm \in Int
    <3>1. m * u <= m * R /\ m * u >= 0
      BY <1>1, <1>5
    <3> QED
      BY <1>1, <1>5, <3>1
  <2>2. s = z + mu /\ R * (2 * m) = 2 * Rm /\ 4 * z <= Rm /\ Rm > 0
    BY <1>1, <1>3
  <2> HIDE DEF mu, Rm
  <2> QED
    BY <1>3, <2>1, <2>2
<1>8. s = R * t /\ t \in Int
  <2> HIDE DEF s
  <2>1. PICK g \in Int : s = 0 + g * R
    BY <1>6 DEF Same
  <2>2. s = R * g + 0
    BY <1>1, <2>1
  <2>3. (R * g + 0) \div R = g
    <3>1. 0 \in 0 .. R - 1
      BY <1>1
    <3> DEFINE r == R
    <3>2. r \in Nat \ {0} /\ 0 \in 0 .. r - 1
      BY <1>1, <3>1
    <3> HIDE DEF r
    <3>3. (r * g + 0) \div r = g
      BY <2>1, <3>2, DivisionIs
    <3> QED
      BY <3>3 DEF r
  <2> QED
    BY <1>1, <2>2, <2>3
<1> DEFINE Rt == R * t
<1>9. t \in 0 .. 2 * m - 1
  <2> HIDE DEF t, s
  <2>1. t >= 0
    <3> SUFFICES ASSUME t <= -1 PROVE FALSE
      BY <1>8
    <3>1. R * t <= R * (-1) /\ R * (-1) < 0
      BY <1>1, <1>8
    <3> QED
      BY <1>1, <1>7, <1>8, <3>1
  <2>2. t < 2 * m
    <3> SUFFICES ASSUME t >= 2 * m PROVE FALSE
      BY <1>1, <1>8
    <3>1. R * t >= R * (2 * m)
      BY <1>1, <1>8
    <3> QED
      BY <1>1, <1>7, <1>8, <3>1
  <2> QED
    BY <1>1, <1>8, <2>1, <2>2
<1>10. Mul(p, a, b) = IF t >= m THEN t - m ELSE t
  <2>1. t % R = t
    <3> HIDE DEF t
    <3> QED
      BY <1>1, <1>9
  <2>2. Mul(p, a, b) = LET tt == t % R IN IF tt >= m THEN tt - m ELSE tt
    BY <1>2 DEF Mul, z, x, u, k
  <2> HIDE DEF t
  <2> QED
    BY <2>1, <2>2
<1>11. t % m = (z * i) % m
  <2> DEFINE zi == z * i
             j == u * i - k * t
  <2> HIDE DEF t
  <2>1. zi \in Int /\ j \in Int
    BY <1>1, <1>2, <1>3, <1>5, <1>8
  <2>2. i * (R * t) = i * s /\ i * (R * t) = (R * i) * t
    BY <1>1, <1>2, <1>8
  <2>3. (R * i) * t = t + m * (k * t)
    <3> DEFINE Ri == R * i
               mk == m * k
    <3>1. Ri = 1 + mk /\ Ri \in Int /\ mk \in Int
      BY <1>1, <1>2
    <3>2. m * (k * t) = mk * t
      BY <1>1, <1>2, <1>8
    <3> HIDE DEF Ri, mk
    <3>3. Ri * t = t + mk * t
      BY <1>8, <3>1
    <3> QED
      BY <3>2, <3>3 DEF Ri
  <2>4. i * s = zi + m * (u * i)
    BY <1>1, <1>2, <1>3, <1>5
  <2>5. m * j = m * (u * i) - m * (k * t)
    BY <1>1, <1>2, <1>5, <1>8
  <2> DEFINE mui == m * (u * i)
             mkt == m * (k * t)
  <2>6. t + mkt = zi + mui /\ m * j = mui - mkt /\ mui \in Int /\ mkt \in Int
    BY <1>1, <1>2, <1>5, <1>8, <2>2, <2>3, <2>4, <2>5
  <2> HIDE DEF zi, j, mui, mkt, s
  <2>7. t = zi + j * m
    <3>1. m * j = j * m
      BY <1>1, <2>1
    <3> QED
      BY <1>8, <2>1, <2>6, <3>1
  <2>8. Same(t, zi, m)
    BY <2>1, <2>7 DEF Same
  <2>9. t % m = zi % m
    BY <1>1, <1>8, <2>1, <2>8, SameResidue
  <2> QED
    BY <2>9 DEF zi
<1> HIDE DEF t
<1>12. Mul(p, a, b) = t % m
  BY <1>1, <1>9, <1>10, ReducedOnce
<1> QED
  BY <1>11, <1>12 DEF p, i, z

-----------------------------------------------------------------------------
(* The residue a word stands for *)

\* It is below m, the same for words that are equal modulo m, and R times it
\* is the word.
LEMMA ResidueIs ==
  ASSUME WordAssumption, NEW m \in Word \ {0}, Accepted(m), NEW n \in Int
  PROVE  /\ Residue(m, n) \in 0 .. m - 1 /\ Residue(m, n % m) = Residue(m, n)
         /\ (R * Residue(m, n)) % m = n % m
<1> DEFINE i == Params(m).inv_r
           k == Params(m).inv_modulus
<1>1. m \in Nat \ {0} /\ R \in Nat \ {0} /\ i \in Int /\ k \in Int /\ R * i - m * k = 1
  BY SmallModulus, ParamsAre
<1> HIDE DEF i, k
<1>2. Residue(m, n) = (n * i) % m /\ Residue(m, n % m) = ((n % m) * i) % m
  BY DEF Residue, i
<1>3. Residue(m, n) \in 0 .. m - 1
  <2> DEFINE ni == n * i
  <2>1. ni \in Int
    BY <1>1
  <2> HIDE DEF ni
  <2>2. ni % m \in 0 .. m - 1
    BY <1>1, <2>1, DivisionOf
  <2> QED
    BY <1>2, <2>2 DEF ni
<1>4. ((n % m) * i) % m = (n * i) % m
  BY <1>1, ResidueOfProduct
<1>5. (R * Residue(m, n)) % m = n % m
  <2> DEFINE ni == n * i
             nk == n * k
             Rni == R * ni
  <2>1. Rni = n + nk * m /\ ni \in Int /\ nk \in Int /\ Rni \in Int
    <3> DEFINE Ri == R * i
               mk == m * k
    <3>1. Ri = 1 + mk /\ Ri \in Int /\ mk \in Int
      BY <1>1
    <3>2. R * ni = n * Ri /\ nk * m = n * mk
      BY <1>1
    <3> HIDE DEF Ri, mk
    <3>3. n * Ri = n + n * mk
      BY <3>1
    <3> QED
      BY <1>1, <3>2, <3>3
  <2> HIDE DEF Rni
  <2>2. Rni % m = n % m
    <3> HIDE DEF ni, nk
    <3>1. Same(Rni, n, m)
      BY <2>1 DEF Same
    <3> QED
      BY <1>1, <2>1, <3>1, SameResidue
  <2> HIDE DEF ni
  <2>3. (R * (ni % m)) % m = (R * ni) % m
    <3> DEFINE r == R
    <3>1. r \in Int
      BY <1>1
    <3> HIDE DEF r
    <3>2. (r * (ni % m)) % m = (r * ni) % m
      BY <1>1, <2>1, <3>1, ResidueOfProduct
    <3> QED
      BY <3>2 DEF r
  <2> QED
    BY <1>2, <2>2, <2>3 DEF Rni, ni
<1> QED
  BY <1>2, <1>3, <1>4, <1>5

\* Two numbers that stand for the same residue.
LEMMA ResidueUnique ==
  ASSUME WordAssumption, NEW m \in Word \ {0}, Accepted(m),
         NEW x \in 0 .. m, NEW y \in 0 .. m
  PROVE  Residue(m, x) = Residue(m, y) <=> (x = y \/ {x, y} = {0, m})
<1>1. m \in Nat \ {0}
  BY SmallModulus
<1>2. \A z \in 0 .. m : z % m = IF z = m THEN 0 ELSE z
  BY <1>1
<1>3. ASSUME Residue(m, x) = Residue(m, y)
      PROVE  x % m = y % m
  BY <1>1, <1>3, ResidueIs
<1>4. ASSUME x % m = y % m
      PROVE  Residue(m, x) = Residue(m, y)
  <2>1. Residue(m, x % m) = Residue(m, x) /\ Residue(m, y % m) = Residue(m, y)
    BY <1>1, ResidueIs
  <2> QED
    BY <1>4, <2>1
<1>5. x % m = y % m <=> (x = y \/ (x = 0 /\ y = m) \/ (x = m /\ y = 0))
  BY <1>1, <1>2
<1>6. {x, y} = {0, m} /\ x # y <=> (x = 0 /\ y = m) \/ (x = m /\ y = 0)
  BY <1>1
<1> QED
  BY <1>3, <1>4, <1>5, <1>6

\* Words taken into the form.
LEMMA ImportExact ==
  ASSUME WordAssumption, NEW m \in Word \ {0}, Accepted(m)
  PROVE  /\ \A n \in Word : /\ ImportInt(Params(m), n) \in 0 .. m - 1
                            /\ Residue(m, ImportInt(Params(m), n)) = n % m
         /\ ImportOne(Params(m)) \in 0 .. m - 1
         /\ Residue(m, ImportOne(Params(m))) = 1 % m
         /\ Residue(m, 0) = 0
<1> DEFINE p == Params(m)
           i == p.inv_r
           k == p.inv_modulus
           c == R % m
<1>1. /\ m \in Nat \ {0} /\ R \in Nat \ {0} /\ i \in Int /\ k \in Int /\ R * i - m * k = 1
      /\ c \in 0 .. m - 1 /\ p.r_mod_modulus = c /\ p.r_mod_modulus_barrett = Barrett(c, m)
  BY SmallModulus, ParamsAre
<1>2. ASSUME NEW n \in Int
      PROVE  Residue(m, (n * c) % m) = n % m
  <2> DEFINE nc == n * c
             nR == n * R
  <2>1. nc \in Int /\ nR \in Int
    BY <1>1
  <2>2. nc % m = nR % m
    <3> DEFINE r == R
    <3>1. r \in Int
      BY <1>1
    <3> HIDE DEF r
    <3>2. (n * (r % m)) % m = (n * r) % m
      BY <1>1, <3>1, ResidueOfProduct
    <3> QED
      BY <3>2 DEF r
  <2> HIDE DEF nc, nR
  <2>3. Residue(m, nc % m) = Residue(m, nR)
    BY <2>1, <2>2, ResidueIs
  <2>4. Residue(m, nR) = (nR * i) % m
    BY DEF Residue
  <2>5. nR * i = n + (n * k) * m
    <3> DEFINE Ri == R * i
               mk == m * k
    <3>1. Ri = 1 + mk /\ Ri \in Int /\ mk \in Int
      BY <1>1
    <3>2. nR * i = n * Ri /\ (n * k) * m = n * mk
      <4> HIDE DEF i, k
      <4> QED
        BY <1>1 DEF nR
    <3> HIDE DEF Ri, mk
    <3>3. n * Ri = n + n * mk
      BY <3>1
    <3> QED
      BY <3>2, <3>3
  <2> DEFINE nk == n * k
             nRi == nR * i
  <2>6. nk \in Int /\ nRi \in Int /\ nRi = n + nk * m
    BY <1>1, <2>1, <2>5
  <2> HIDE DEF nk, nRi
  <2>7. nRi % m = n % m
    <3>1. Same(nRi, n, m)
      BY <2>6 DEF Same
    <3> QED
      BY <1>1, <2>6, <3>1, SameResidue
  <2> QED
    BY <2>3, <2>4, <2>7 DEF nc, nRi
<1> HIDE DEF p, i, k, c
<1>3. ASSUME NEW n \in Word
      PROVE  ImportInt(p, n) \in 0 .. m - 1 /\ Residue(m, ImportInt(p, n)) = n % m
  <2>1. n \in Int
    BY <1>1 DEF Word
  <2>2. ImportInt(p, n) = Times(p, n, c, Barrett(c, m))
    BY <1>1 DEF ImportInt
  <2>3. Times(p, n, c, Barrett(c, m)) = (n * c) % m
    BY <1>1, TimesExact DEF p
  <2>4. (n * c) % m \in 0 .. m - 1
    <3> DEFINE nc == n * c
    <3>1. nc \in Int
      BY <1>1, <2>1
    <3> HIDE DEF nc
    <3>2. nc % m \in 0 .. m - 1
      BY <1>1, <3>1, DivisionOf
    <3> QED
      BY <3>2 DEF nc
  <2> QED
    BY <1>2, <2>1, <2>2, <2>3, <2>4
<1>4. Residue(m, c) = 1 % m
  <2>1. (1 * c) % m = c
    BY <1>1
  <2> QED
    BY <1>2, <2>1
<1>5. Residue(m, 0) = 0
  <2>1. 0 * i = 0 /\ 0 % m = 0
    BY <1>1
  <2> QED
    BY <2>1 DEF Residue, p, i
<1> QED
  BY <1>1, <1>3, <1>4, <1>5 DEF ImportOne, p

\* Sums and differences: neither overflows, though an entry may be m itself.
LEMMA AddExact ==
  ASSUME WordAssumption, NEW m \in Word \ {0}, Accepted(m), NEW a \in 0 .. m, NEW b \in 0 .. m
  PROVE  /\ Add(Params(m), a, b) \in 0 .. m
         /\ Residue(m, Add(Params(m), a, b)) = (Residue(m, a) + Residue(m, b)) % m
         /\ Sub(Params(m), a, b) \in 0 .. m
         /\ Residue(m, Sub(Params(m), a, b)) = (Residue(m, a) - Residue(m, b)) % m
         /\ Negate(Params(m), a) \in 0 .. m
         /\ Residue(m, Negate(Params(m), a)) = (0 - Residue(m, a)) % m
<1> DEFINE p == Params(m)
           i == p.inv_r
           ai == a * i
           bi == b * i
<1>1. m \in Nat \ {0} /\ R \in Nat \ {0} /\ 4 * m < R /\ i \in Int /\ p.modulus = m
  BY SmallModulus, ParamsAre
<1> HIDE DEF p, i
<1>2. ai \in Int /\ bi \in Int
  BY <1>1
<1>3. Residue(m, a) = ai % m /\ Residue(m, b) = bi % m
  BY DEF Residue, i, p
<1>4. ASSUME NEW x \in 0 .. R - 1
      PROVE  /\ BarrettReduce(p, x) \in 0 .. m
             /\ Residue(m, BarrettReduce(p, x)) = (x * i) % m
  <2>1. BarrettReduce(p, x) = x % m
    BY <1>1, BarrettReduced DEF p, Word
  <2>2. x % m \in 0 .. m - 1
    BY <1>1, DivisionOf
  <2>3. Residue(m, x % m) = Residue(m, x)
    BY <1>1, ResidueIs
  <2> QED
    BY <1>1, <2>1, <2>2, <2>3 DEF Residue, i, p
<1>5. a + b \in 0 .. R - 1 /\ (a + b) % R = a + b
  BY <1>1
<1>6. a + m - b \in 0 .. R - 1 /\ (a + m - b) % R = a + m - b
  BY <1>1
<1>7. Add(p, a, b) \in 0 .. m /\ Residue(m, Add(p, a, b)) = (Residue(m, a) + Residue(m, b)) % m
  <2>1. Add(p, a, b) = BarrettReduce(p, a + b)
    BY <1>5 DEF Add
  <2>2. (a + b) * i = ai + bi
    BY <1>1
  <2> HIDE DEF ai, bi
  <2>3. ((ai % m) + (bi % m)) % m = (ai + bi) % m
    BY <1>1, <1>2, ResidueOfSum
  <2> QED
    BY <1>3, <1>4, <1>5, <2>1, <2>2, <2>3
<1>8. Sub(p, a, b) \in 0 .. m /\ Residue(m, Sub(p, a, b)) = (Residue(m, a) - Residue(m, b)) % m
  <2>1. Sub(p, a, b) = BarrettReduce(p, a + m - b)
    BY <1>1, <1>6 DEF Sub
  <2>2. (a + m - b) * i = (ai - bi) + i * m
    BY <1>1
  <2> DEFINE d == (a + m - b) * i
  <2> HIDE DEF ai, bi
  <2>3. ((ai % m) - (bi % m)) % m = (ai - bi) % m
    BY ZenonT(40), <1>1, <1>2, ResidueOfSum
  <2>4. d \in Int /\ d = (ai - bi) + i * m /\ ai - bi \in Int
    BY <1>1, <1>2, <2>2
  <2>5. d % m = (ai - bi) % m
    <3> HIDE DEF d
    <3>1. Same(d, ai - bi, m)
      BY <1>1, <2>4 DEF Same
    <3> QED
      BY <1>1, <2>4, <3>1, SameResidue
  <2> QED
    BY <1>3, <1>4, <1>6, <2>1, <2>3, <2>5
<1>9. Negate(p, a) \in 0 .. m /\ Residue(m, Negate(p, a)) = (0 - Residue(m, a)) % m
  <2>1. Negate(p, a) = m - a
    BY <1>1 DEF Negate
  <2>2. Residue(m, m - a) = ((m - a) * i) % m
    BY DEF Residue, i, p
  <2>3. (m - a) * i = (0 - ai) + i * m
    BY <1>1
  <2> DEFINE d == (m - a) * i
  <2>4. d \in Int /\ d = (0 - ai) + i * m
    BY <1>1, <2>3
  <2> HIDE DEF ai, bi
  <2>5. (0 - (ai % m)) % m = (0 - ai) % m
    <3>1. 0 % m = 0
      BY <1>1
    <3> DEFINE zero == 0
    <3>2. zero \in Int /\ zero % m = zero
      BY <3>1
    <3> HIDE DEF zero
    <3>3. ((zero % m) - (ai % m)) % m = (zero - ai) % m
      BY <1>1, <1>2, <3>2, ResidueOfSum
    <3>4. (zero - (ai % m)) % m = (zero - ai) % m
      BY <3>2, <3>3
    <3> QED
      BY <3>4 DEF zero
  <2>6. d % m = (0 - ai) % m
    <3> HIDE DEF d
    <3>1. Same(d, 0 - ai, m)
      BY <1>1, <2>4 DEF Same
    <3> QED
      BY <1>1, <1>2, <2>4, <3>1, SameResidue
  <2> QED
    BY <1>1, <1>3, <2>1, <2>2, <2>5, <2>6
<1> QED
  BY <1>7, <1>8, <1>9 DEF p

\* Products, with an entry or with the constant that GetConstant makes of it.
LEMMA ProductExact ==
  ASSUME WordAssumption, NEW m \in Word \ {0}, Accepted(m), NEW a \in 0 .. m, NEW b \in 0 .. m
  PROVE  /\ Mul(Params(m), a, b) \in 0 .. m
         /\ Residue(m, Mul(Params(m), a, b)) = (Residue(m, a) * Residue(m, b)) % m
         /\ Constants(Params(m), a, b) \in 0 .. m
         /\ Residue(m, Constants(Params(m), a, b)) = (Residue(m, a) * Residue(m, b)) % m
<1> DEFINE p == Params(m)
           i == p.inv_r
           ai == a * i
           bi == b * i
           ab == (a * b) * i
           c == Residue(m, b)
           ac == a * c
<1>1. m \in Nat \ {0} /\ R \in Nat \ {0} /\ 4 * m < R /\ i \in Int /\ p.modulus = m
  BY SmallModulus, ParamsAre
<1> HIDE DEF p, i
<1>2. ai \in Int /\ bi \in Int /\ ab \in Int
  BY <1>1
<1>3. Residue(m, a) = ai % m /\ c = bi % m
  BY DEF Residue, i, p
<1>4. c \in 0 .. m - 1
  BY <1>1, ResidueIs
<1>5. ((ai % m) * (bi % m)) % m = (ai * bi) % m /\ (ai * (bi % m)) % m = (ai * bi) % m
  <2> HIDE DEF ai, bi
  <2> QED
    BY ZenonT(40), <1>1, <1>2, ResidueOfProduct
<1>6. ASSUME NEW x \in Int
      PROVE  x % m \in 0 .. m /\ Residue(m, x % m) = (x * i) % m
  <2>1. x % m \in 0 .. m - 1
    BY <1>1, DivisionOf
  <2>2. Residue(m, x % m) = Residue(m, x)
    BY ResidueIs
  <2> QED
    BY <1>1, <2>1, <2>2 DEF Residue, i, p
<1>7. /\ Mul(p, a, b) \in 0 .. m
      /\ Residue(m, Mul(p, a, b)) = (Residue(m, a) * c) % m
  <2>1. Mul(p, a, b) = ab % m
    BY MulIs DEF p, i
  <2>2. ab * i = ai * bi
    BY <1>1
  <2> HIDE DEF ab, ai, bi, c
  <2>3. ab % m \in 0 .. m /\ Residue(m, ab % m) = (ab * i) % m
    BY <1>2, <1>6
  <2> QED
    BY <1>3, <1>5, <2>1, <2>2, <2>3
<1>8. /\ Constants(p, a, b) \in 0 .. m
      /\ Residue(m, Constants(p, a, b)) = (Residue(m, a) * c) % m
  <2>1. ExportInt(p, b) = c
    BY ExportIs DEF Residue, p
  <2> HIDE DEF c
  <2>2. Constants(p, a, b) = Times(p, a, c, Barrett(c, m))
    BY <1>1, <2>1 DEF Constants, MulConstant, GetConstant
  <2>3. a \in Word
    BY <1>1 DEF Word
  <2>4. Times(p, a, c, Barrett(c, m)) = ac % m
    BY <1>4, <2>3, TimesExact DEF p
  <2>5. ac * i = ai * c
    BY <1>1, <1>4
  <2>6. ac \in Int
    BY <1>1, <1>4
  <2> HIDE DEF ac, ai, bi
  <2>7. ac % m \in 0 .. m /\ Residue(m, ac % m) = (ac * i) % m
    BY <2>6, <1>6
  <2> QED
    BY <1>3, <1>5, <2>2, <2>4, <2>5, <2>7
<1> QED
  BY <1>7, <1>8 DEF p

-----------------------------------------------------------------------------
(* Powers *)

LEMMA PowerModIs ==
  ASSUME NEW x \in Int, NEW m \in Nat \ {0}
  PROVE  /\ PowerMod(x, 0, m) = 1 % m
         /\ \A e \in Nat : /\ PowerMod(x, e, m) \in 0 .. m - 1
                           /\ PowerMod(x, e + 1, m) = (PowerMod(x, e, m) * x) % m
<1> DEFINE S == 0 .. m - 1
           next == [n \in Nat |-> [s \in S |-> (s * x) % m]]
           Is(f) == f = [k \in Nat |-> IF k = 0 THEN 1 % m ELSE (f[k - 1] * x) % m]
           first == 1 % m
           P == CHOOSE f : Is(f)
<1>1. first \in S /\ next \in [Nat -> [S -> S]]
  <2>1. \A y \in Int : y % m \in S
    BY DivisionOf
  <2>2. ASSUME NEW s \in S
        PROVE  (s * x) % m \in S
    <3> DEFINE y == s * x
    <3>1. y \in Int
      OBVIOUS
    <3> HIDE DEF y, S
    <3>2. y % m \in S
      BY <2>1, <3>1
    <3> QED
      BY <3>2 DEF y
  <2> HIDE DEF S
  <2> QED
    BY <2>1, <2>2
<1>2. PICK g \in [Nat -> S] : Recursive(g, first, next)
  <2> HIDE DEF S, next, first
  <2> QED
    BY <1>1, Recursion
<1>3. Is(g)
  <2>1. ASSUME NEW n \in Nat
        PROVE  g[n] = IF n = 0 THEN 1 % m ELSE (g[n - 1] * x) % m
    <3>1. n # 0 => n - 1 \in Nat /\ g[n - 1] \in S
      OBVIOUS
    <3>2. g[n] = IF n = 0 THEN first ELSE next[n][g[n - 1]]
      BY <1>2 DEF Recursive
    <3>3. \A s \in S : next[n][s] = (s * x) % m
      OBVIOUS
    <3> HIDE DEF S, next
    <3> QED
      BY <3>1, <3>2, <3>3
  <2>2. g = [n \in Nat |-> g[n]]
    OBVIOUS
  <2> QED
    BY <2>1, <2>2
<1>4. Is(P)
  <2> HIDE DEF Is
  <2> QED
    BY <1>3
<1>5. \A e : PowerMod(x, e, m) = P[e]
  BY DEF PowerMod
<1> HIDE DEF P
<1>6. P[0] = 1 % m /\ \A e \in Nat : e # 0 => P[e] = (P[e - 1] * x) % m
  <2>1. \A e \in Nat : P[e] = IF e = 0 THEN 1 % m ELSE (P[e - 1] * x) % m
    BY <1>4
  <2> QED
    BY <2>1
<1>7. \A e \in Nat : P[e + 1] = (P[e] * x) % m
  <2> TAKE e \in Nat
  <2>1. e + 1 \in Nat /\ e + 1 # 0 /\ (e + 1) - 1 = e
    OBVIOUS
  <2> QED
    BY <1>6, <2>1
<1>8. \A e \in Nat : P[e] \in S
  <2> DEFINE A == {e \in Nat : P[e] \in S}
  <2>1. 0 \in A
    BY <1>1, <1>6
  <2>2. ASSUME NEW e \in Nat, e \in A
        PROVE  e + 1 \in A
    <3>1. P[e] * x \in Int
      BY <2>2
    <3>2. (P[e] * x) % m \in S
      BY <3>1, DivisionOf
    <3> QED
      BY <1>7, <3>2
  <2>3. Nat \subseteq A
    <3> HIDE DEF A
    <3> QED
      BY <2>1, <2>2, Induction
  <2> QED
    BY <2>3
<1> QED
  BY <1>5, <1>6, <1>7, <1>8

LEMMA PowerOfSum ==
  ASSUME NEW x \in Int, NEW m \in Nat \ {0}, NEW d \in Nat, NEW e \in Nat
  PROVE  PowerMod(x, d + e, m) = (PowerMod(x, d, m) * PowerMod(x, e, m)) % m
<1> DEFINE P(n) == PowerMod(x, n, m)
           A == {n \in Nat : P(d + n) = (P(d) * P(n)) % m}
<1>1. P(0) = 1 % m /\ \A n \in Nat : P(n) \in 0 .. m - 1 /\ P(n + 1) = (P(n) * x) % m
  BY PowerModIs
<1> HIDE DEF P
<1>2. 0 \in A
  <2>1. (P(d) * (1 % m)) % m = (P(d) * 1) % m
    BY <1>1, ResidueOfProduct
  <2>2. (P(d) * 1) % m = P(d) /\ d + 0 = d
    <3> DEFINE c == P(d)
    <3>1. c \in 0 .. m - 1
      BY <1>1
    <3> HIDE DEF c
    <3>2. (c * 1) % m = c
      BY <3>1
    <3> QED
      BY <3>2 DEF c
  <2> QED
    BY <1>1, <2>1, <2>2
<1>3. ASSUME NEW n \in Nat, n \in A
      PROVE  n + 1 \in A
  <2> DEFINE a == P(d)
             b == P(n)
             ab == a * b
             bx == b * x
  <2>1. d + (n + 1) = (d + n) + 1 /\ d + n \in Nat
    OBVIOUS
  <2>2. P(d + (n + 1)) = (P(d + n) * x) % m /\ P(n + 1) = bx % m
    BY <1>1, <2>1
  <2>3. P(d + n) = ab % m
    BY <1>3
  <2>4. a \in Int /\ b \in Int
    BY <1>1
  <2>5. ab \in Int /\ bx \in Int /\ ab * x = a * bx
    BY <2>4
  <2> HIDE DEF a, b, ab, bx
  <2>6. ((ab % m) * x) % m = (ab * x) % m /\ (a * (bx % m)) % m = (a * bx) % m
    BY <2>4, <2>5, ResidueOfProduct
  <2>7. P(d + (n + 1)) = (a * P(n + 1)) % m
    BY <2>2, <2>3, <2>5, <2>6
  <2> QED
    BY <2>7 DEF a
<1>4. Nat \subseteq A
  <2> HIDE DEF A
  <2> QED
    BY <1>2, <1>3, Induction
<1> QED
  BY <1>4 DEF P

\* Square and multiply computes the power.
LEMMA ModExpExact ==
  ASSUME WordAssumption, NEW m \in Word \ {0}, Accepted(m),
         NEW a \in 0 .. m, NEW e \in 0 .. TwoTo[W] - 1
  PROVE  /\ ModExp(Params(m), a, e) \in 0 .. m
         /\ Residue(m, ModExp(Params(m), a, e)) = PowerMod(Residue(m, a), e, m)
<1> DEFINE p == Params(m)
           x == Residue(m, a)
           P(n) == PowerMod(x, n, m)
           S == [result : 0 .. m, base : 0 .. m]
           One(k, s) == [result |-> IF ShiftRight(e, k - 1) % 2 = 1
                                    THEN Mul(p, s.result, s.base) ELSE s.result,
                         base |-> Mul(p, s.base, s.base)]
           next == [k \in Nat |-> [s \in S |-> One(k, s)]]
           first == [result |-> ImportOne(p), base |-> a]
           Is(f) == f = [k \in 0 .. W |-> IF k = 0 THEN first ELSE One(k, f[k - 1])]
           Step == CHOOSE f : Is(f)
           l == BitLength(e)
<1>1. m \in Nat \ {0} /\ W \in Nat /\ e \in Nat
  <2>1. e \in Int /\ e >= 0
    BY SmallModulus, PowersOfTwo
  <2> QED
    BY <2>1, SmallModulus
<1>2. \A y, z \in 0 .. m : /\ Mul(p, y, z) \in 0 .. m
                           /\ Residue(m, Mul(p, y, z)) = (Residue(m, y) * Residue(m, z)) % m
  BY ProductExact
<1>3. ImportOne(p) \in 0 .. m /\ Residue(m, ImportOne(p)) = 1 % m
  <2>1. \A y \in 0 .. m - 1 : y \in 0 .. m
    BY <1>1
  <2> QED
    BY ImportExact, <2>1
<1>4. x \in 0 .. m - 1 /\ x \in Int
  <2>1. x \in 0 .. m - 1
    BY <1>1, ResidueIs
  <2> HIDE DEF x
  <2> QED
    BY <1>1, <2>1
<1> HIDE DEF p, x
<1>5. first \in S /\ next \in [Nat -> [S -> S]]
  <2>1. ASSUME NEW k \in Nat, NEW s \in S
        PROVE  One(k, s) \in S
    BY <1>2
  <2> HIDE DEF One
  <2> QED
    BY <1>3, <2>1
<1> HIDE DEF One
<1>6. PICK g \in [Nat -> S] : Recursive(g, first, next)
  <2> HIDE DEF S, next, first
  <2> QED
    BY <1>5, Recursion
<1>7. Is([k \in 0 .. W |-> g[k]])
  <2> DEFINE f == [k \in 0 .. W |-> g[k]]
  <2>1. ASSUME NEW k \in 0 .. W
        PROVE  f[k] = IF k = 0 THEN first ELSE One(k, f[k - 1])
    <3>1. k \in Nat /\ (k # 0 => k - 1 \in Nat /\ k - 1 \in 0 .. W)
      BY <1>1
    <3>2. g[k] = IF k = 0 THEN first ELSE next[k][g[k - 1]]
      BY <1>6, <3>1 DEF Recursive
    <3>3. k # 0 => g[k - 1] \in S /\ f[k - 1] = g[k - 1]
      BY <3>1
    <3>4. \A s \in S : next[k][s] = One(k, s)
      BY <3>1
    <3>5. f[k] = g[k]
      OBVIOUS
    <3> HIDE DEF f, S, next, first
    <3> QED
      BY <3>2, <3>3, <3>4, <3>5
  <2> QED
    BY <2>1
<1>8. Is(Step)
  <2> HIDE DEF Is
  <2> QED
    BY <1>7
<1>9. ModExp(p, a, e) = Step[l].result
  BY DEF ModExp, One
<1> HIDE DEF Step
<1>10. Step[0] = first /\ \A k \in 0 .. W : k # 0 => Step[k] = One(k, Step[k - 1])
  <2>1. \A k \in 0 .. W : Step[k] = IF k = 0 THEN first ELSE One(k, Step[k - 1])
    <3> HIDE DEF first
    <3> QED
      BY <1>8
  <2>2. 0 \in 0 .. W
    BY <1>1
  <2> HIDE DEF first
  <2> QED
    BY <2>1, <2>2
<1> HIDE DEF Is
<1> DEFINE Good(k) == /\ Step[k].result \in 0 .. m /\ Step[k].base \in 0 .. m
                      /\ Residue(m, Step[k].result) = P(e % TwoTo[k])
                      /\ Residue(m, Step[k].base) = P(TwoTo[k])
           A == {k \in Nat : k <= W => Good(k)}
<1>11. P(0) = 1 % m /\ \A n \in Nat : P(n) \in 0 .. m - 1 /\ P(n + 1) = (P(n) * x) % m
  BY <1>1, <1>4, PowerModIs
<1>12. \A c, d \in Nat : P(c + d) = (P(c) * P(d)) % m
  BY <1>1, <1>4, PowerOfSum
<1> HIDE DEF P
<1>13. 0 \in A
  <2>1. TwoTo[0] = 1 /\ e % 1 = 0
    BY <1>1, PowersOfTwo
  <2>2. P(1) = x
    <3>1. P(0 + 1) = ((1 % m) * x) % m /\ 0 + 1 = 1
      BY <1>11
    <3>2. ((1 % m) * x) % m = (1 * x) % m
      BY <1>1, <1>4, ResidueOfProduct
    <3>3. 1 * x = x /\ x \in Nat /\ x < m
      BY <1>1, <1>4
    <3>4. x % m = x
      BY <1>1, <3>3, SmallResidue
    <3> QED
      BY <3>1, <3>2, <3>3, <3>4
  <2>3. Step[0].result = ImportOne(p) /\ Step[0].base = a
    BY <1>10
  <2> QED
    BY <1>1, <1>3, <1>11, <2>1, <2>2, <2>3 DEF x
<1>14. ASSUME NEW k \in Nat, k \in A
       PROVE  k + 1 \in A
  <2> SUFFICES ASSUME k + 1 <= W PROVE Good(k + 1)
    OBVIOUS
  <2> DEFINE s == Step[k]
             bit == ShiftRight(e, k) % 2
             t == TwoTo[k]
  <2>1. Good(k)
    BY <1>1, <1>14
  <2>2. k + 1 \in 0 .. W /\ k + 1 # 0 /\ (k + 1) - 1 = k
    BY <1>1
  <2>3. Step[k + 1] = One(k + 1, s)
    BY <1>10, <2>2
  <2>4. /\ Step[k + 1].base = Mul(p, s.base, s.base)
        /\ Step[k + 1].result = IF bit = 1 THEN Mul(p, s.result, s.base) ELSE s.result
    BY <2>2, <2>3 DEF One
  <2>5. t \in Nat \ {0} /\ TwoTo[k + 1] = 2 * t /\ TwoTo[k + 1] = t + t
    <3>1. t \in Nat \ {0} /\ TwoTo[k + 1] = 2 * t
      BY PowersOfTwo
    <3> HIDE DEF t
    <3> QED
      BY <3>1
  <2>6. Residue(m, Step[k + 1].base) = P(TwoTo[k + 1]) /\ Step[k + 1].base \in 0 .. m
    <3>1. P(t + t) = (P(t) * P(t)) % m
      BY <1>12, <2>5
    <3> QED
      BY ZenonT(40), <1>2, <2>1, <2>4, <2>5, <3>1
  <2>7. e % TwoTo[k + 1] = (e % t) + t * bit
    BY <1>1, NextDigit
  <2>8. bit \in {0, 1} /\ e % t \in Nat
    <3>1. ShiftRight(e, k) \in Int
      <4> HIDE DEF t
      <4>1. \A y \in Int : y \div t \in Int
        BY <2>5
      <4> QED
        BY <1>1, <4>1 DEF ShiftRight, t
    <3> HIDE DEF t
    <3>2. e % t \in Nat
      BY <1>1, <2>5
    <3>3. bit \in {0, 1}
      BY <3>1, SmallResidue
    <3> QED
      BY <3>2, <3>3
  <2> HIDE DEF bit, t
  <2>9. CASE bit = 1
    <3>1. e % TwoTo[k + 1] = (e % t) + t
      BY <2>5, <2>7, <2>8, <2>9
    <3>2. P((e % t) + t) = (P(e % t) * P(t)) % m
      BY <1>12, <2>5, <2>8
    <3>3. Step[k + 1].result = Mul(p, s.result, s.base)
      BY <2>4, <2>9
    <3>4. /\ Mul(p, s.result, s.base) \in 0 .. m
          /\ Residue(m, Mul(p, s.result, s.base)) = (Residue(m, s.result) * Residue(m, s.base)) % m
      BY <1>2, <2>1
    <3> QED
      BY <2>1, <2>6, <3>1, <3>2, <3>3, <3>4 DEF t
  <2>10. CASE bit = 0
    <3>1. e % TwoTo[k + 1] = e % t
      BY <2>5, <2>7, <2>8, <2>10
    <3>2. Step[k + 1].result = s.result
      BY <2>4, <2>10
    <3> QED
      BY <2>1, <2>6, <3>1, <3>2 DEF t
  <2> QED
    BY <2>8, <2>9, <2>10
<1>15. Nat \subseteq A
  <2> HIDE DEF A
  <2> QED
    BY <1>13, <1>14, Induction
<1>16. l \in Nat /\ l <= W /\ e < TwoTo[l]
  <2>1. e < TwoTo[W]
    <3>1. TwoTo[W] \in Nat
      BY <1>1, PowersOfTwo
    <3> QED
      BY <3>1
  <2> QED
    BY SMTT(30), <1>1, <2>1, BitLengthIs
<1> HIDE DEF l
<1>17. Good(l)
  BY <1>15, <1>16
<1>18. e % TwoTo[l] = e
  <2>1. TwoTo[l] \in Nat \ {0}
    BY <1>16, PowersOfTwo
  <2> QED
    BY <1>1, <1>16, <2>1, SmallResidue
<1> QED
  BY <1>9, <1>17, <1>18 DEF p, P, x

-----------------------------------------------------------------------------
(* Random integers *)

\* Only results that the generator gave are used, and the sum fits a word.
LEMMA RandomIntIsWord ==
  ASSUME WordAssumption, NEW log \in 1 .. W, NEW draws \in Draws(log)
  PROVE  RandomInt(log, draws) \in Word
<1> DEFINE long == Least(W, LongBits)
           n == IF log <= ByteBits THEN 1 ELSE CeilDiv(log, long)
           S == [rand : Word, required : 0 .. log]
           Bits(s) == IF s.required <= ByteBits THEN s.required
                      ELSE Least(s.required, long)
           One(k, s) == IF s.required = 0 THEN s
                        ELSE [rand |-> ((s.rand * TwoTo[Bits(s)]) + (draws[k] % TwoTo[Bits(s)])) % R,
                              required |-> s.required - Bits(s)]
           Good(k, s) == s \in S /\ (s.required = 0 \/ s.required = log - k * long)
           next == [k \in Nat |-> [s \in S |-> IF One(k, s) \in S THEN One(k, s) ELSE s]]
           first == [rand |-> 0, required |-> log]
           Is(f) == f = [k \in 0 .. W |-> IF k = 0 THEN first ELSE One(k, f[k - 1])]
           Step == CHOOSE f : Is(f)
<1>1. /\ W \in Nat \ {0} /\ ByteBits \in Nat /\ LongBits \in Nat \ {0} /\ ByteBits <= LongBits
      /\ R \in Nat \ {0} /\ log \in Nat \ {0} /\ log <= W
  <2>1. W \in Nat => TwoTo[W] \in Nat \ {0}
    BY PowersOfTwo
  <2> QED
    BY <2>1 DEF WordAssumption, R
<1>2. /\ long = IF W <= LongBits THEN W ELSE LongBits
      /\ long \in Nat \ {0}
  BY <1>1, LeastIs
<1>3. draws \in [1 .. n -> 0 .. TwoTo[LongBits] - 1]
  BY DEF Draws
<1>4. n \in Nat /\ \A k \in Nat : k * long < log => k < n
  <2> HIDE DEF long
  <2>1. CASE log <= ByteBits
    <3>1. log <= long
      BY <1>1, <1>2, <2>1
    <3>2. ASSUME NEW k \in Nat, k # 0
          PROVE  ~(k * long < log)
      <4>1. long <= k * long
        BY <1>2, <3>2
      <4> QED
        BY <1>1, <1>2, <3>1, <4>1
    <3> QED
      BY <2>1, <3>2
  <2>2. CASE ~(log <= ByteBits)
    BY <1>1, <1>2, <2>2, CeilDivIs
  <2> QED
    BY <2>1, <2>2
<1>5. ASSUME NEW k \in 0 .. W - 1, NEW s, Good(k, s)
      PROVE  Good(k + 1, One(k + 1, s))
  <2>1. CASE s.required = 0
    BY <1>5, <2>1
  <2>2. CASE s.required # 0
    <3> DEFINE q == s.required
               b == Bits(s)
               kl == k * long
    <3>1. q \in 1 .. log /\ q = log - kl /\ kl \in Nat /\ s.rand \in Word
      BY <1>1, <1>2, <1>5, <2>2
    <3>2. (k + 1) * long = kl + long
      BY <1>1, <1>2
    <3> HIDE DEF long, kl
    <3>3. b = IF q <= long THEN q ELSE long
      BY <1>1, <1>2, <3>1, LeastIs
    <3>4. b \in Nat /\ q - b \in 0 .. log /\ (q - b = 0 \/ q - b = log - (k + 1) * long)
      BY <1>1, <1>2, <3>1, <3>2, <3>3
    <3>5. k + 1 \in 1 .. n
      BY <1>1, <1>4, <3>1 DEF kl
    <3>6. draws[k + 1] \in Nat
      <4>1. TwoTo[LongBits] \in Nat
        BY <1>1, PowersOfTwo
      <4> HIDE DEF n
      <4> QED
        BY <1>3, <3>5, <4>1
    <3> DEFINE sum == (s.rand * TwoTo[b]) + (draws[k + 1] % TwoTo[b])
    <3>7. sum \in Nat
      <4> DEFINE t == TwoTo[b]
      <4>1. t \in Nat \ {0}
        BY <3>4, PowersOfTwo
      <4> HIDE DEF t, b
      <4>2. s.rand \in Nat
        BY <1>1, <3>1 DEF Word
      <4>3. s.rand * t \in Nat /\ draws[k + 1] % t \in Nat
        BY <3>6, <4>1, <4>2
      <4> QED
        BY <4>3 DEF t
    <3>8. sum % R \in Word
      <4> HIDE DEF sum
      <4> QED
        BY <1>1, <3>7 DEF Word
    <3>9. One(k + 1, s) = [rand |-> sum % R, required |-> q - b]
      BY <2>2
    <3> HIDE DEF sum, b, One
    <3> QED
      BY <3>4, <3>8, <3>9
  <2> QED
    BY <2>1, <2>2
<1>6. first \in S /\ Good(0, first)
  <2>1. 0 * long = 0
    BY <1>2
  <2> HIDE DEF long
  <2> QED
    BY <1>1, <2>1 DEF Word
<1> HIDE DEF One, long, n
<1>7. next \in [Nat -> [S -> S]]
  <2> HIDE DEF S
  <2> QED
    OBVIOUS
<1>8. PICK g \in [Nat -> S] : Recursive(g, first, next)
  <2> HIDE DEF S, next, first
  <2> QED
    BY <1>6, <1>7, Recursion
<1> HIDE DEF first
<1>9. \A k \in Nat : k <= W => Good(k, g[k]) /\ (k # 0 => g[k] = One(k, g[k - 1]))
  <2> DEFINE A == {k \in Nat : k <= W => Good(k, g[k]) /\ (k # 0 => g[k] = One(k, g[k - 1]))}
  <2>1. 0 \in A
    BY <1>6, <1>8 DEF Recursive
  <2>2. ASSUME NEW k \in Nat, k \in A
        PROVE  k + 1 \in A
    <3> SUFFICES ASSUME k + 1 <= W
                 PROVE  Good(k + 1, g[k + 1]) /\ g[k + 1] = One(k + 1, g[k])
      OBVIOUS
    <3>1. k \in 0 .. W - 1 /\ Good(k, g[k]) /\ k + 1 \in Nat \ {0} /\ (k + 1) - 1 = k
      BY <1>1, <2>2
    <3>2. g[k + 1] = next[k + 1][g[k]]
      BY <1>8, <3>1 DEF Recursive
    <3>3. Good(k + 1, One(k + 1, g[k]))
      BY <1>5, <3>1
    <3>4. g[k + 1] = One(k + 1, g[k])
      <4>1. g[k] \in S /\ One(k + 1, g[k]) \in S
        BY <3>1, <3>3
      <4> HIDE DEF S
      <4> QED
        BY <3>1, <3>2, <4>1
    <3> QED
      BY <3>3, <3>4
  <2>3. Nat \subseteq A
    <3> HIDE DEF A
    <3> QED
      BY <2>1, <2>2, Induction
  <2> QED
    BY <2>3
<1>10. Is([k \in 0 .. W |-> g[k]])
  <2> DEFINE f == [k \in 0 .. W |-> g[k]]
  <2>1. ASSUME NEW k \in 0 .. W
        PROVE  f[k] = IF k = 0 THEN first ELSE One(k, f[k - 1])
    <3>1. k \in Nat /\ k <= W /\ (k # 0 => k - 1 \in 0 .. W)
      BY <1>1
    <3>2. g[0] = first /\ (k # 0 => g[k] = One(k, g[k - 1]))
      BY <1>8, <1>9, <3>1 DEF Recursive
    <3>3. f[k] = g[k] /\ (k # 0 => f[k - 1] = g[k - 1])
      BY <3>1
    <3> HIDE DEF f
    <3> QED
      BY <3>2, <3>3
  <2> QED
    BY <2>1
<1>11. Is(Step)
  <2> HIDE DEF Is
  <2> QED
    BY <1>10
<1>12. RandomInt(log, draws) = Step[W].rand
  BY DEF RandomInt, One, long, first
<1> HIDE DEF Step
<1>13. Step[0] = first /\ \A k \in 0 .. W : k # 0 => Step[k] = One(k, Step[k - 1])
  <2>1. \A k \in 0 .. W : Step[k] = IF k = 0 THEN first ELSE One(k, Step[k - 1])
    BY <1>11
  <2>2. 0 \in 0 .. W
    BY <1>1
  <2> QED
    BY <2>1, <2>2
<1>14. \A k \in Nat : k <= W => Good(k, Step[k])
  <2> HIDE DEF Good
  <2> DEFINE A == {k \in Nat : k <= W => Good(k, Step[k])}
  <2>1. 0 \in A
    BY <1>6, <1>13
  <2>2. ASSUME NEW k \in Nat, k \in A
        PROVE  k + 1 \in A
    <3> SUFFICES ASSUME k + 1 <= W PROVE Good(k + 1, Step[k + 1])
      OBVIOUS
    <3>1. k \in 0 .. W - 1 /\ Good(k, Step[k]) /\ k + 1 \in 0 .. W /\ k + 1 # 0 /\ (k + 1) - 1 = k
      BY <1>1, <2>2
    <3>2. Step[k + 1] = One(k + 1, Step[k])
      BY <1>13, <3>1
    <3> QED
      BY <1>5, <3>1, <3>2
  <2>3. Nat \subseteq A
    <3> HIDE DEF A
    <3> QED
      BY <2>1, <2>2, Induction
  <2> QED
    BY <2>3
<1>15. Good(W, Step[W])
  BY <1>1, <1>14
<1> QED
  BY <1>12, <1>15


-----------------------------------------------------------------------------
(* Every state of the specification *)

\* The entries of vectors that stand for residues.
LEMMA EntriesOf ==
  ASSUME NEW m \in Nat, NEW vec, NEW residues, Stands(vec, residues, m)
  PROVE  /\ DOMAIN vec = 1 .. Len(vec) /\ Len(vec) \in 0 .. MaxLen /\ Len(vec) \in Nat
         /\ \A i \in 1 .. Len(vec) : vec[i] \in 0 .. m /\ residues[i] = Residue(m, vec[i])
<1> DEFINE S == 0 .. m
<1>1. vec \in Seq(S) /\ Len(vec) <= MaxLen
  BY DEF Stands
<1> HIDE DEF S
<1>2. DOMAIN vec = 1 .. Len(vec) /\ Len(vec) \in Nat /\ \A i \in 1 .. Len(vec) : vec[i] \in S
  BY <1>1
<1>3. \A i \in 1 .. Len(vec) : residues[i] = Residue(m, vec[i])
  BY DEF Stands
<1>4. Len(vec) \in 0 .. MaxLen
  BY <1>1, <1>2
<1> QED
  BY <1>2, <1>3, <1>4 DEF S

\* Vectors computed entry by entry.
LEMMA EntryByEntry ==
  ASSUME WordAssumption, NEW m \in Word \ {0}, Accepted(m),
         NEW n \in 0 .. MaxLen, NEW vec, NEW residues,
         vec = [i \in 1 .. n |-> vec[i]], residues = [i \in 1 .. n |-> residues[i]],
         \A i \in 1 .. n : vec[i] \in 0 .. m /\ residues[i] = Residue(m, vec[i])
  PROVE  Stands(vec, residues, m)
<1> DEFINE S == 0 .. m
           T == 0 .. m - 1
<1>1. n \in Nat /\ n <= MaxLen
  BY DEF WordAssumption
<1>2. \A i \in 1 .. n : vec[i] \in S /\ residues[i] \in T
  <2> TAKE i \in 1 .. n
  <2>1. vec[i] \in Int
    BY SmallModulus
  <2> QED
    BY <2>1, ResidueIs
<1> HIDE DEF S, T
<1>3. vec \in [1 .. n -> S] /\ residues \in [1 .. n -> T]
  BY <1>2
<1>4. vec \in Seq(S) /\ residues \in Seq(T) /\ Len(vec) = n /\ Len(residues) = n
  BY <1>1, <1>3
<1> QED
  BY <1>1, <1>4 DEF Stands, S, T

\* One more entry.
LEMMA OneMore ==
  ASSUME WordAssumption, NEW m \in Word \ {0}, Accepted(m),
         NEW vec, NEW residues, Stands(vec, residues, m), Len(vec) < MaxLen,
         NEW x \in 0 .. m
  PROVE  Stands(Append(vec, x), Append(residues, Residue(m, x)), m)
<1> DEFINE S == 0 .. m
           T == 0 .. m - 1
           r == Residue(m, x)
<1>1. vec \in Seq(S) /\ residues \in Seq(T) /\ Len(residues) = Len(vec)
  BY DEF Stands
<1>2. x \in S /\ r \in T
  <2>1. x \in Int
    BY SmallModulus
  <2> QED
    BY <2>1, ResidueIs
<1>3. \A i \in 1 .. Len(vec) : residues[i] = Residue(m, vec[i])
  BY DEF Stands
<1>4. MaxLen \in Nat
  BY DEF WordAssumption
<1> HIDE DEF S, T, r
<1>5. Append(vec, x) \in Seq(S) /\ Append(residues, r) \in Seq(T)
  BY <1>1, <1>2
<1>6. Len(Append(vec, x)) = Len(vec) + 1 /\ Len(Append(residues, r)) = Len(vec) + 1
  BY <1>1, <1>2
<1>7. Len(vec) \in Nat
  BY <1>1
<1>8. ASSUME NEW i \in 1 .. Len(vec) + 1
      PROVE  Append(residues, r)[i] = Residue(m, Append(vec, x)[i])
  <2>1. CASE i = Len(vec) + 1
    <3>1. Append(vec, x)[i] = x /\ Append(residues, r)[i] = r
      BY <1>1, <1>2, <2>1
    <3> QED
      BY <3>1 DEF r
  <2>2. CASE i # Len(vec) + 1
    <3>1. i \in 1 .. Len(vec)
      BY <1>7, <2>2
    <3>2. Append(vec, x)[i] = vec[i] /\ Append(residues, r)[i] = residues[i]
      BY <1>1, <1>2, <3>1
    <3> QED
      BY <1>3, <3>1, <3>2
  <2> QED
    BY <2>1, <2>2
<1>9. Len(vec) + 1 <= MaxLen
  BY <1>4, <1>7
<1> QED
  BY <1>5, <1>6, <1>8, <1>9 DEF Stands, S, T, r

\* What holds once Create succeeded.
LEMMA InUse ==
  ASSUME WordAssumption, IntegersInv, Created
  PROVE  /\ m_ \in Word \ {0} /\ Accepted(m_) /\ params = Params(m_) /\ m_ \in Nat \ {0}
         /\ \A a \in Vectors : /\ Stands(v[a], value[a], m_)
                               /\ DOMAIN v[a] = 1 .. Len(v[a]) /\ Len(v[a]) \in 0 .. MaxLen
                               /\ Len(v[a]) \in Nat
                               /\ \A i \in 1 .. Len(v[a]) : v[a][i] \in 0 .. m_
                                    /\ value[a][i] = Residue(m_, v[a][i])
<1>1. m_ \in Word \ {0} /\ Accepted(m_) /\ params = Params(m_)
  BY DEF IntegersInv
<1>2. m_ \in Nat \ {0}
  BY <1>1, SmallModulus
<1>3. \A a \in Vectors : Stands(v[a], value[a], m_)
  BY DEF IntegersInv
<1> HIDE DEF m_
<1>4. \A a \in Vectors : /\ DOMAIN v[a] = 1 .. Len(v[a]) /\ Len(v[a]) \in 0 .. MaxLen
                         /\ Len(v[a]) \in Nat
                         /\ \A i \in 1 .. Len(v[a]) : v[a][i] \in 0 .. m_
                              /\ value[a][i] = Residue(m_, v[a][i])
  BY <1>2, <1>3, EntriesOf
<1> QED
  BY <1>1, <1>2, <1>3, <1>4

\* A new vector in the place of another.
LEMMA NewVector ==
  ASSUME WordAssumption, IntegersInv, Created, NEW a \in Vectors, NEW vec, NEW residues,
         Becomes(a, vec, residues), Stands(vec, residues, m_)
  PROVE  IntegersInv'
<1>1. /\ v' = [v EXCEPT ![a] = vec] /\ value' = [value EXCEPT ![a] = residues]
      /\ error' = FALSE /\ params' = params
  BY DEF Becomes
<1>2. m_' = m_ /\ Created'
  BY <1>1 DEF m_, Created
<1>3. DOMAIN v = Vectors /\ DOMAIN value = Vectors
  BY DEF IntegersInv
<1>4. \A b \in Vectors : /\ v'[b] = IF b = a THEN vec ELSE v[b]
                         /\ value'[b] = IF b = a THEN residues ELSE value[b]
  BY <1>1, <1>3
<1>5. \A b \in Vectors : Stands(v'[b], value'[b], m_)
  BY <1>4 DEF IntegersInv
<1>6. m_ \in Word \ {0} /\ Accepted(m_) /\ params' = Params(m_)
  BY <1>1 DEF IntegersInv
<1>7. DOMAIN v' = Vectors /\ DOMAIN value' = Vectors
  BY <1>1, <1>3
<1> QED
  BY <1>1, <1>2, <1>5, <1>6, <1>7 DEF IntegersInv

\* A refused call leaves what there is.
LEMMA Refusal ==
  ASSUME IntegersInv, Fails
  PROVE  IntegersInv'
BY DEF IntegersInv, Fails, m_, Created


\* A vector computed entry by entry from the one it replaces.
LEMMA Computed ==
  ASSUME WordAssumption, IntegersInv, Created, NEW a \in Vectors, NEW vec, NEW residues,
         vec = [i \in DOMAIN v[a] |-> vec[i]], residues = [i \in DOMAIN v[a] |-> residues[i]],
         \A i \in 1 .. Len(v[a]) : vec[i] \in 0 .. m_ /\ residues[i] = Residue(m_, vec[i]),
         Becomes(a, vec, residues)
  PROVE  IntegersInv'
<1>1. m_ \in Word \ {0} /\ Accepted(m_)
  BY InUse
<1>2. DOMAIN v[a] = 1 .. Len(v[a]) /\ Len(v[a]) \in 0 .. MaxLen
  BY InUse
<1> HIDE DEF m_
<1>3. Stands(vec, residues, m_)
  <2> DEFINE n == Len(v[a])
  <2>1. vec = [i \in 1 .. n |-> vec[i]] /\ residues = [i \in 1 .. n |-> residues[i]]
    BY <1>2
  <2>2. n \in 0 .. MaxLen /\ \A i \in 1 .. n : vec[i] \in 0 .. m_ /\ residues[i] = Residue(m_, vec[i])
    BY <1>2
  <2> HIDE DEF n
  <2> QED
    BY <1>1, <2>1, <2>2, EntryByEntry
<1> QED
  BY <1>3, NewVector

\* The batch operations keep the invariant, on another vector or a number.
LEMMA BatchAddKeeps ==
  ASSUME WordAssumption, IntegersInv, NEW a \in Vectors, NEW b \in Vectors, BatchAdd(a, b)
  PROVE  IntegersInv'
<1>1. Created
  BY DEF BatchAdd
<1> DEFINE m == m_
           p == Params(m)
<1>2. /\ m \in Word \ {0} /\ Accepted(m) /\ params = p
      /\ \A c \in Vectors : /\ DOMAIN v[c] = 1 .. Len(v[c])
                            /\ \A i \in 1 .. Len(v[c]) : v[c][i] \in 0 .. m
                                 /\ value[c][i] = Residue(m, v[c][i])
  BY <1>1, InUse
<1> HIDE DEF m
<1>3. \A x, y \in 0 .. m : /\ Add(p, x, y) \in 0 .. m
                           /\ Residue(m, Add(p, x, y)) = (Residue(m, x) + Residue(m, y)) % m
  BY <1>2, AddExact
<1> HIDE DEF p
<1>4. CASE Componentwise(a, b, Add, Plus)
  <2>1. CASE Len(v[a]) # Len(v[b])
    <3>1. Fails
      BY <1>4, <2>1 DEF Componentwise
    <3> QED
      BY <3>1, Refusal
  <2>2. CASE Len(v[a]) = Len(v[b])
    <3> DEFINE vec == [i \in DOMAIN v[a] |-> Add(p, v[a][i], v[b][i])]
               residues == [i \in DOMAIN v[a] |-> (value[a][i] + value[b][i]) % m]
    <3>1. Becomes(a, vec, residues)
      BY <1>2, <1>4, <2>2 DEF Componentwise, Plus, m
    <3>2. \A i \in 1 .. Len(v[a]) : vec[i] \in 0 .. m /\ residues[i] = Residue(m, vec[i])
      BY <1>2, <1>3, <2>2
    <3>3. vec = [i \in DOMAIN v[a] |-> vec[i]] /\ residues = [i \in DOMAIN v[a] |-> residues[i]]
      OBVIOUS
    <3> HIDE DEF vec, residues
    <3> QED
      BY <1>1, <3>1, <3>2, <3>3, Computed DEF m
  <2> QED
    BY <2>1, <2>2
<1>5. ASSUME NEW j \in DOMAIN v[b], WithScalar(a, v[b][j], value[b][j], Add, Plus)
      PROVE  IntegersInv'
  <2> DEFINE x == v[b][j]
             r == value[b][j]
             vec == [i \in DOMAIN v[a] |-> Add(p, v[a][i], x)]
             residues == [i \in DOMAIN v[a] |-> (value[a][i] + r) % m]
  <2>1. Becomes(a, vec, residues)
    BY <1>2, <1>5 DEF WithScalar, Plus, m
  <2>2. x \in 0 .. m /\ r = Residue(m, x)
    BY <1>2
  <2> HIDE DEF x, r
  <2>3. \A i \in 1 .. Len(v[a]) : vec[i] \in 0 .. m /\ residues[i] = Residue(m, vec[i])
    BY ZenonT(40), <1>2, <1>3, <2>2
  <2>4. vec = [i \in DOMAIN v[a] |-> vec[i]] /\ residues = [i \in DOMAIN v[a] |-> residues[i]]
    OBVIOUS
  <2> HIDE DEF vec, residues
  <2> QED
    BY <1>1, <2>1, <2>3, <2>4, Computed DEF m
<1> QED
  BY <1>4, <1>5 DEF BatchAdd

\* The difference.
LEMMA BatchSubKeeps ==
  ASSUME WordAssumption, IntegersInv, NEW a \in Vectors, NEW b \in Vectors, BatchSub(a, b)
  PROVE  IntegersInv'
<1>1. Created
  BY DEF BatchSub
<1> DEFINE m == m_
           p == Params(m)
<1>2. /\ m \in Word \ {0} /\ Accepted(m) /\ params = p
      /\ \A c \in Vectors : /\ DOMAIN v[c] = 1 .. Len(v[c])
                            /\ \A i \in 1 .. Len(v[c]) : v[c][i] \in 0 .. m
                                 /\ value[c][i] = Residue(m, v[c][i])
  BY <1>1, InUse
<1> HIDE DEF m
<1>3. \A x, y \in 0 .. m : /\ Sub(p, x, y) \in 0 .. m
                           /\ Residue(m, Sub(p, x, y)) = (Residue(m, x) - Residue(m, y)) % m
  BY <1>2, AddExact
<1> HIDE DEF p
<1>4. CASE Componentwise(a, b, Sub, Minus)
  <2>1. CASE Len(v[a]) # Len(v[b])
    <3>1. Fails
      BY <1>4, <2>1 DEF Componentwise
    <3> QED
      BY <3>1, Refusal
  <2>2. CASE Len(v[a]) = Len(v[b])
    <3> DEFINE vec == [i \in DOMAIN v[a] |-> Sub(p, v[a][i], v[b][i])]
               residues == [i \in DOMAIN v[a] |-> (value[a][i] - value[b][i]) % m]
    <3>1. Becomes(a, vec, residues)
      BY <1>2, <1>4, <2>2 DEF Componentwise, Minus, m
    <3>2. \A i \in 1 .. Len(v[a]) : vec[i] \in 0 .. m /\ residues[i] = Residue(m, vec[i])
      BY <1>2, <1>3, <2>2
    <3>3. vec = [i \in DOMAIN v[a] |-> vec[i]] /\ residues = [i \in DOMAIN v[a] |-> residues[i]]
      OBVIOUS
    <3> HIDE DEF vec, residues
    <3> QED
      BY <1>1, <3>1, <3>2, <3>3, Computed DEF m
  <2> QED
    BY <2>1, <2>2
<1>5. ASSUME NEW j \in DOMAIN v[b], WithScalar(a, v[b][j], value[b][j], Sub, Minus)
      PROVE  IntegersInv'
  <2> DEFINE x == v[b][j]
             r == value[b][j]
             vec == [i \in DOMAIN v[a] |-> Sub(p, v[a][i], x)]
             residues == [i \in DOMAIN v[a] |-> (value[a][i] - r) % m]
  <2>1. Becomes(a, vec, residues)
    BY <1>2, <1>5 DEF WithScalar, Minus, m
  <2>2. x \in 0 .. m /\ r = Residue(m, x)
    BY <1>2
  <2> HIDE DEF x, r
  <2>3. \A i \in 1 .. Len(v[a]) : vec[i] \in 0 .. m /\ residues[i] = Residue(m, vec[i])
    BY <1>2, <1>3, <2>2
  <2>4. vec = [i \in DOMAIN v[a] |-> vec[i]] /\ residues = [i \in DOMAIN v[a] |-> residues[i]]
    OBVIOUS
  <2> HIDE DEF vec, residues
  <2> QED
    BY <1>1, <2>1, <2>3, <2>4, Computed DEF m
<1> QED
  BY <1>4, <1>5 DEF BatchSub

\* The product.
LEMMA BatchMulKeeps ==
  ASSUME WordAssumption, IntegersInv, NEW a \in Vectors, NEW b \in Vectors, BatchMul(a, b)
  PROVE  IntegersInv'
<1>1. Created
  BY DEF BatchMul
<1> DEFINE m == m_
           p == Params(m)
<1>2. /\ m \in Word \ {0} /\ Accepted(m) /\ params = p
      /\ \A c \in Vectors : /\ DOMAIN v[c] = 1 .. Len(v[c])
                            /\ \A i \in 1 .. Len(v[c]) : v[c][i] \in 0 .. m
                                 /\ value[c][i] = Residue(m, v[c][i])
  BY <1>1, InUse
<1> HIDE DEF m
<1>3. \A x, y \in 0 .. m : /\ Mul(p, x, y) \in 0 .. m
                           /\ Residue(m, Mul(p, x, y)) = (Residue(m, x) * Residue(m, y)) % m
  BY <1>2, ProductExact
<1> HIDE DEF p
<1>4. CASE Componentwise(a, b, Mul, Product)
  <2>1. CASE Len(v[a]) # Len(v[b])
    <3>1. Fails
      BY <1>4, <2>1 DEF Componentwise
    <3> QED
      BY <3>1, Refusal
  <2>2. CASE Len(v[a]) = Len(v[b])
    <3> DEFINE vec == [i \in DOMAIN v[a] |-> Mul(p, v[a][i], v[b][i])]
               residues == [i \in DOMAIN v[a] |-> (value[a][i] * value[b][i]) % m]
    <3>1. Becomes(a, vec, residues)
      BY <1>2, <1>4, <2>2 DEF Componentwise, Product, m
    <3>2. \A i \in 1 .. Len(v[a]) : vec[i] \in 0 .. m /\ residues[i] = Residue(m, vec[i])
      BY <1>2, <1>3, <2>2
    <3>3. vec = [i \in DOMAIN v[a] |-> vec[i]] /\ residues = [i \in DOMAIN v[a] |-> residues[i]]
      OBVIOUS
    <3> HIDE DEF vec, residues
    <3> QED
      BY <1>1, <3>1, <3>2, <3>3, Computed DEF m
  <2> QED
    BY <2>1, <2>2
<1>5. ASSUME NEW j \in DOMAIN v[b], WithScalar(a, v[b][j], value[b][j], Mul, Product)
      PROVE  IntegersInv'
  <2> DEFINE x == v[b][j]
             r == value[b][j]
             vec == [i \in DOMAIN v[a] |-> Mul(p, v[a][i], x)]
             residues == [i \in DOMAIN v[a] |-> (value[a][i] * r) % m]
  <2>1. Becomes(a, vec, residues)
    BY <1>2, <1>5 DEF WithScalar, Product, m
  <2>2. x \in 0 .. m /\ r = Residue(m, x)
    BY <1>2
  <2> HIDE DEF x, r
  <2>3. \A i \in 1 .. Len(v[a]) : vec[i] \in 0 .. m /\ residues[i] = Residue(m, vec[i])
    BY <1>2, <1>3, <2>2
  <2>4. vec = [i \in DOMAIN v[a] |-> vec[i]] /\ residues = [i \in DOMAIN v[a] |-> residues[i]]
    OBVIOUS
  <2> HIDE DEF vec, residues
  <2> QED
    BY <1>1, <2>1, <2>3, <2>4, Computed DEF m
<1> QED
  BY <1>4, <1>5 DEF BatchMul

\* The product with precomputed constants.
LEMMA BatchMulConstantKeeps ==
  ASSUME WordAssumption, IntegersInv, NEW a \in Vectors, NEW b \in Vectors, BatchMulConstant(a, b)
  PROVE  IntegersInv'
<1>1. Created
  BY DEF BatchMulConstant
<1> DEFINE m == m_
           p == Params(m)
<1>2. /\ m \in Word \ {0} /\ Accepted(m) /\ params = p
      /\ \A c \in Vectors : /\ DOMAIN v[c] = 1 .. Len(v[c])
                            /\ \A i \in 1 .. Len(v[c]) : v[c][i] \in 0 .. m
                                 /\ value[c][i] = Residue(m, v[c][i])
  BY <1>1, InUse
<1> HIDE DEF m
<1>3. \A x, y \in 0 .. m : /\ Constants(p, x, y) \in 0 .. m
                           /\ Residue(m, Constants(p, x, y)) = (Residue(m, x) * Residue(m, y)) % m
  BY <1>2, ProductExact
<1> HIDE DEF p
<1>4. CASE Componentwise(a, b, Constants, Product)
  <2>1. CASE Len(v[a]) # Len(v[b])
    <3>1. Fails
      BY <1>4, <2>1 DEF Componentwise
    <3> QED
      BY <3>1, Refusal
  <2>2. CASE Len(v[a]) = Len(v[b])
    <3> DEFINE vec == [i \in DOMAIN v[a] |-> Constants(p, v[a][i], v[b][i])]
               residues == [i \in DOMAIN v[a] |-> (value[a][i] * value[b][i]) % m]
    <3>1. Becomes(a, vec, residues)
      BY <1>2, <1>4, <2>2 DEF Componentwise, Product, m
    <3>2. \A i \in 1 .. Len(v[a]) : vec[i] \in 0 .. m /\ residues[i] = Residue(m, vec[i])
      BY <1>2, <1>3, <2>2
    <3>3. vec = [i \in DOMAIN v[a] |-> vec[i]] /\ residues = [i \in DOMAIN v[a] |-> residues[i]]
      OBVIOUS
    <3> HIDE DEF vec, residues
    <3> QED
      BY <1>1, <3>1, <3>2, <3>3, Computed DEF m
  <2> QED
    BY <2>1, <2>2
<1>5. ASSUME NEW j \in DOMAIN v[b], WithScalar(a, v[b][j], value[b][j], Constants, Product)
      PROVE  IntegersInv'
  <2> DEFINE x == v[b][j]
             r == value[b][j]
             vec == [i \in DOMAIN v[a] |-> Constants(p, v[a][i], x)]
             residues == [i \in DOMAIN v[a] |-> (value[a][i] * r) % m]
  <2>1. Becomes(a, vec, residues)
    BY <1>2, <1>5 DEF WithScalar, Product, m
  <2>2. x \in 0 .. m /\ r = Residue(m, x)
    BY <1>2
  <2> HIDE DEF x, r
  <2>3. \A i \in 1 .. Len(v[a]) : vec[i] \in 0 .. m /\ residues[i] = Residue(m, vec[i])
    BY <1>2, <1>3, <2>2
  <2>4. vec = [i \in DOMAIN v[a] |-> vec[i]] /\ residues = [i \in DOMAIN v[a] |-> residues[i]]
    OBVIOUS
  <2> HIDE DEF vec, residues
  <2> QED
    BY <1>1, <2>1, <2>3, <2>4, Computed DEF m
<1> QED
  BY <1>4, <1>5 DEF BatchMulConstant


\* NegateInPlace of all entries.
LEMMA NegateAllKeeps ==
  ASSUME WordAssumption, IntegersInv, NEW a \in Vectors, NegateAll(a)
  PROVE  IntegersInv'
<1>1. Created
  BY DEF NegateAll
<1> DEFINE m == m_
           p == Params(m)
<1>2. /\ m \in Word \ {0} /\ Accepted(m) /\ params = p
      /\ \A c \in Vectors : /\ DOMAIN v[c] = 1 .. Len(v[c])
                            /\ \A i \in 1 .. Len(v[c]) : v[c][i] \in 0 .. m
                                 /\ value[c][i] = Residue(m, v[c][i])
  BY <1>1, InUse
<1> HIDE DEF m
<1>3. \A x \in 0 .. m : /\ Negate(p, x) \in 0 .. m
                        /\ Residue(m, Negate(p, x)) = (0 - Residue(m, x)) % m
  BY <1>2, AddExact
<1> HIDE DEF p
<1> DEFINE vec == [i \in DOMAIN v[a] |-> Negate(p, v[a][i])]
           residues == [i \in DOMAIN v[a] |-> (0 - value[a][i]) % m]
<1>4. Becomes(a, vec, residues)
  BY <1>2 DEF NegateAll, m
<1>5. \A i \in 1 .. Len(v[a]) : vec[i] \in 0 .. m /\ residues[i] = Residue(m, vec[i])
  BY <1>2, <1>3
<1>6. vec = [i \in DOMAIN v[a] |-> vec[i]] /\ residues = [i \in DOMAIN v[a] |-> residues[i]]
  OBVIOUS
<1> HIDE DEF vec, residues
<1> QED
  BY <1>1, <1>4, <1>5, <1>6, Computed DEF m

\* ModExp of the first entry.
LEMMA PowerKeeps ==
  ASSUME WordAssumption, IntegersInv, NEW a \in Vectors, NEW e \in Exponents, Power(a, e)
  PROVE  IntegersInv'
<1>1. Created
  BY DEF Power
<1> DEFINE m == m_
           p == Params(m)
           x == v[a][1]
           vec == [v[a] EXCEPT ![1] = ModExp(p, x, e)]
           residues == [value[a] EXCEPT ![1] = PowerMod(value[a][1], e, m)]
<1>2. /\ m \in Word \ {0} /\ Accepted(m) /\ params = p /\ Stands(v[a], value[a], m)
      /\ DOMAIN v[a] = 1 .. Len(v[a]) /\ Len(v[a]) \in Nat
      /\ \A i \in 1 .. Len(v[a]) : v[a][i] \in 0 .. m /\ value[a][i] = Residue(m, v[a][i])
  BY <1>1, InUse
<1>3. DOMAIN value[a] = DOMAIN v[a]
  <2> DEFINE S == 0 .. m - 1
  <2>1. value[a] \in Seq(S) /\ Len(value[a]) = Len(v[a])
    BY <1>2 DEF Stands
  <2> HIDE DEF S
  <2>2. DOMAIN value[a] = 1 .. Len(value[a])
    BY <2>1
  <2> QED
    BY <1>2, <2>1, <2>2
<1>4. 1 \in 1 .. Len(v[a])
  <2>1. v[a] # <<>>
    BY DEF Power
  <2>2. v[a] \in Seq(0 .. m)
    BY <1>2 DEF Stands
  <2> HIDE DEF m
  <2> QED
    BY <1>2, <2>1, <2>2
<1>5. e \in 0 .. TwoTo[W] - 1
  BY DEF WordAssumption
<1>6. Becomes(a, vec, residues)
  BY <1>2 DEF Power, m, x
<1> HIDE DEF m
<1>7. x \in 0 .. m /\ value[a][1] = Residue(m, x)
  BY <1>2, <1>4
<1>8. ModExp(p, x, e) \in 0 .. m /\ Residue(m, ModExp(p, x, e)) = PowerMod(Residue(m, x), e, m)
  <2> HIDE DEF x
  <2> QED
    BY <1>2, <1>5, <1>7, ModExpExact
<1> HIDE DEF p
<1>9. \A i \in 1 .. Len(v[a]) : vec[i] \in 0 .. m /\ residues[i] = Residue(m, vec[i])
  <2> TAKE i \in 1 .. Len(v[a])
  <2>1. CASE i = 1
    <3>1. vec[1] = ModExp(p, x, e) /\ residues[1] = PowerMod(value[a][1], e, m)
      BY <1>2, <1>3, <1>4
    <3> HIDE DEF vec, residues, x
    <3> QED
      BY <1>7, <1>8, <2>1, <3>1
  <2>2. CASE i # 1
    <3>1. vec[i] = v[a][i] /\ residues[i] = value[a][i]
      BY <1>2, <1>3, <2>2
    <3> HIDE DEF vec, residues
    <3> QED
      BY <1>2, <3>1
  <2> QED
    BY <2>1, <2>2
<1>10. vec = [i \in DOMAIN v[a] |-> vec[i]] /\ residues = [i \in DOMAIN v[a] |-> residues[i]]
  BY <1>3
<1> HIDE DEF vec, residues
<1> QED
  BY <1>1, <1>6, <1>9, <1>10, Computed DEF m

\* The words that are taken into a vector.
LEMMA ImportKeeps ==
  ASSUME WordAssumption, IntegersInv, NEW a \in Vectors, NEW x \in Word, Import(a, x)
  PROVE  IntegersInv'
<1>1. Created /\ Len(v[a]) < MaxLen
  BY DEF Import
<1> DEFINE m == m_
           n == ImportInt(Params(m), x)
<1>2. m \in Word \ {0} /\ Accepted(m) /\ params = Params(m) /\ Stands(v[a], value[a], m)
  BY <1>1, InUse
<1>3. Becomes(a, Append(v[a], n), Append(value[a], x % m))
  BY <1>2 DEF Import, m
<1> HIDE DEF m
<1>4. n \in 0 .. m /\ Residue(m, n) = x % m
  <2>1. n \in 0 .. m - 1 /\ Residue(m, n) = x % m /\ m \in Nat
    BY <1>2, ImportExact, SmallModulus
  <2> HIDE DEF n
  <2> QED
    BY <2>1
<1> HIDE DEF n
<1>5. Stands(Append(v[a], n), Append(value[a], x % m), m)
  BY <1>1, <1>2, <1>4, OneMore
<1> QED
  BY <1>1, <1>3, <1>5, NewVector DEF m

\* Zero and one.
LEMMA ImportConstantsKeeps ==
  ASSUME WordAssumption, IntegersInv, NEW a \in Vectors, ImportConstants(a)
  PROVE  IntegersInv'
<1>1. Created /\ Len(v[a]) + 2 <= MaxLen
  BY DEF ImportConstants
<1> DEFINE m == m_
           n == ImportOne(Params(m))
           r == 1 % m
           vec == Append(Append(v[a], 0), n)
           residues == Append(Append(value[a], 0), r)
<1>2. /\ m \in Word \ {0} /\ Accepted(m) /\ params = Params(m) /\ Stands(v[a], value[a], m)
      /\ Len(v[a]) \in Nat
  BY <1>1, InUse
<1>3. Becomes(a, v[a] \o <<0, n>>, value[a] \o <<0, r>>)
  BY <1>2 DEF ImportConstants, m
<1> HIDE DEF m
<1>4. n \in 0 .. m /\ Residue(m, n) = r /\ 0 \in 0 .. m /\ Residue(m, 0) = 0
  <2>1. n \in 0 .. m - 1 /\ Residue(m, n) = r /\ Residue(m, 0) = 0 /\ m \in Nat
    BY <1>2, ImportExact, SmallModulus
  <2> HIDE DEF n, r
  <2> QED
    BY <2>1
<1> HIDE DEF n, r
<1>5. MaxLen \in Nat
  BY DEF WordAssumption
<1>6. v[a] \in Seq(0 .. m) /\ value[a] \in Seq(0 .. m - 1)
  BY <1>2 DEF Stands
<1>7. Stands(Append(v[a], 0), Append(value[a], 0), m)
  <2>1. Len(v[a]) < MaxLen
    BY <1>1, <1>2, <1>5
  <2>2. Stands(Append(v[a], 0), Append(value[a], Residue(m, 0)), m)
    BY <1>2, <1>4, <2>1, OneMore
  <2> QED
    BY <1>4, <2>2
<1>8. Stands(vec, residues, m)
  <2>1. Len(Append(v[a], 0)) < MaxLen
    <3> DEFINE S == 0 .. m
    <3>1. v[a] \in Seq(S) /\ 0 \in S
      BY <1>4, <1>6
    <3> HIDE DEF S
    <3>2. Len(Append(v[a], 0)) = Len(v[a]) + 1
      BY <3>1
    <3> QED
      BY <1>1, <1>2, <1>5, <3>2
  <2> QED
    BY <1>2, <1>4, <1>7, <2>1, OneMore
<1>9. ASSUME NEW S, NEW s \in Seq(S), NEW x, NEW y
      PROVE  s \o <<x, y>> = Append(Append(s, x), y)
  BY <1>9
<1>10. v[a] \o <<0, n>> = vec /\ value[a] \o <<0, r>> = residues
  BY SMTT(30), <1>6, <1>9
<1> HIDE DEF vec, residues
<1> QED
  BY <1>1, <1>3, <1>8, <1>10, NewVector DEF m

\* The length of a modulus is at most that of a word.
LEMMA ModulusLength ==
  ASSUME WordAssumption, NEW m \in Word \ {0}, Accepted(m)
  PROVE  /\ Params(m).log_modulus = BitLength(m) /\ BitLength(m) \in 1 .. W
         /\ m < TwoTo[BitLength(m)]
<1> DEFINE b == BitLength(m)
<1>1. m \in Nat \ {0} /\ W \in Nat \ {0} /\ 4 * m < R /\ R = TwoTo[W] /\ R \in Nat
  BY SmallModulus
<1>2. b \in 0 .. m /\ m < TwoTo[b] /\ (\A k \in Nat : m < TwoTo[k] => b <= k)
  BY <1>1, BitLengthIs
<1>3. m < TwoTo[W]
  BY <1>1
<1>4. TwoTo[0] = 1
  BY PowersOfTwo
<1> HIDE DEF b
<1>5. b # 0
  <2> SUFFICES ASSUME b = 0 PROVE FALSE
    OBVIOUS
  <2>1. m < 1
    BY <1>2, <1>4
  <2> QED
    BY <1>1, <2>1
<1>6. b \in 1 .. W
  BY <1>1, <1>2, <1>3, <1>5
<1> QED
  BY <1>2, <1>6 DEF b, Params

\* A number that was drawn is used as it is.
LEMMA ImportRandomKeeps ==
  ASSUME WordAssumption, IntegersInv, NEW a \in Vectors, ImportRandom(a)
  PROVE  IntegersInv'
<1>1. Created /\ Len(v[a]) < MaxLen
  BY DEF ImportRandom
<1> DEFINE m == m_
           log == BitLength(m)
<1>2. m \in Word \ {0} /\ Accepted(m) /\ params = Params(m) /\ Stands(v[a], value[a], m)
  BY <1>1, InUse
<1>3. params.log_modulus = log /\ log \in 1 .. W
  BY <1>2, ModulusLength
<1>4. PICK draws \in Draws(log) :
        LET n == RandomInt(log, draws)
        IN  n < m /\ Becomes(a, Append(v[a], n), Append(value[a], (n * params.inv_r) % m))
  BY <1>3 DEF ImportRandom, m
<1> DEFINE n == RandomInt(log, draws)
<1>5. n \in Word
  BY <1>3, RandomIntIsWord
<1>6. (n * params.inv_r) % m = Residue(m, n)
  BY <1>2 DEF Residue
<1>7. n < m /\ Becomes(a, Append(v[a], n), Append(value[a], Residue(m, n)))
  BY <1>4, <1>6
<1> HIDE DEF m, n
<1>8. n \in 0 .. m
  <2>1. R \in Nat /\ m \in Nat
    BY <1>2, SmallModulus
  <2> QED
    BY <1>5, <1>7, <2>1 DEF Word
<1>9. Stands(Append(v[a], n), Append(value[a], Residue(m, n)), m)
  BY <1>1, <1>2, <1>8, OneMore
<1> QED
  BY <1>1, <1>7, <1>9, NewVector DEF m

\* A vector that is serialized and read back, whole or in part.
LEMMA SendKeeps ==
  ASSUME WordAssumption, IntegersInv, NEW a \in Vectors, NEW b \in Vectors,
         NEW n \in 0 .. Len(v[a]), Send(a, b, n)
  PROVE  IntegersInv'
<1>1. Created
  BY DEF Send
<1> DEFINE m == m_
           log == BitLength(m)
           vec == DeserializeVector(params, n, SerializeVector(params, v[a]))
           residues == SubSeq(value[a], 1, n)
<1>2. /\ m \in Word \ {0} /\ Accepted(m) /\ params = Params(m) /\ Stands(v[a], value[a], m)
      /\ Len(v[a]) \in Nat /\ Len(v[a]) \in 0 .. MaxLen
      /\ \A i \in 1 .. Len(v[a]) : v[a][i] \in 0 .. m /\ value[a][i] = Residue(m, v[a][i])
  BY <1>1, InUse
<1>3. params.log_modulus = log /\ log \in 1 .. W /\ m < TwoTo[log]
  BY <1>2, ModulusLength
<1> DEFINE Refuses == Len(v[a]) > MaxNumCoeffs \/ v[a] = <<>> \/ n > MaxNumCoeffs \/ n = 0
<1>4. CASE Refuses
  <2>1. Fails
    BY <1>4 DEF Send
  <2> QED
    BY <2>1, Refusal
<1>5. CASE ~Refuses
  <2>1. Becomes(b, vec, residues) /\ n \in 1 .. Len(v[a])
    BY <1>2, <1>5 DEF Send
  <2> HIDE DEF m
  <2>2. /\ ByteBits \in Nat \ {0} /\ W \in Nat /\ MaxLen \in Nat /\ log \in Nat \ {0} /\ log <= W
        /\ m \in Nat \ {0} /\ TwoTo[log] \in Nat
    <3>1. ByteBits \in Nat \ {0} /\ W \in Nat /\ MaxLen \in Nat
      BY DEF WordAssumption
    <3>2. log \in Nat \ {0} /\ log <= W
      BY <1>3, <3>1
    <3> QED
      BY <1>2, <3>1, <3>2, SmallModulus, PowersOfTwo
  <2> HIDE DEF log
  <2>3. v[a] \in Seq(0 .. m) /\ value[a] \in Seq(0 .. m - 1) /\ Len(value[a]) = Len(v[a])
    BY <1>2 DEF Stands
  <2>4. v[a] \in Seq(0 .. TwoTo[log] - 1)
    <3> DEFINE S == 0 .. m
               T == 0 .. TwoTo[log] - 1
    <3>1. \A x \in S : x \in T
      BY <1>3, <2>2
    <3>2. v[a] \in Seq(S)
      BY <2>3
    <3> HIDE DEF S, T
    <3>3. v[a] \in Seq(T)
      BY <3>1, <3>2
    <3> QED
      BY <3>3 DEF T
  <2>5. vec = SubSeq(v[a], 1, n)
    <3> DEFINE y == v[a]
    <3>1. vec = Transcribed(Transcribed(y, Len(y) * log, log, ByteBits, W, ByteBits),
                            n * log, ByteBits, log, ByteBits, W)
      BY <1>3 DEF DeserializeVector, SerializeVector
    <3>2. y \in Seq(0 .. TwoTo[log] - 1) /\ n \in 1 .. Len(y)
      BY <2>1, <2>4
    <3>3. ByteBits \in Nat /\ ByteBits <= ByteBits
      BY <2>2
    <3> HIDE DEF y, vec
    <3>4. Transcribed(Transcribed(y, Len(y) * log, log, ByteBits, W, ByteBits),
                      n * log, ByteBits, log, ByteBits, W) = SubSeq(y, 1, n)
      BY SMTT(30), <2>2, <3>2, <3>3, ReadsBack
    <3> QED
      BY <3>1, <3>4 DEF y
  <2> HIDE DEF vec
  <2>6. vec = [i \in 1 .. n |-> v[a][i]] /\ residues = [i \in 1 .. n |-> value[a][i]]
    <3> DEFINE S == 0 .. m
               T == 0 .. m - 1
    <3>1. v[a] \in Seq(S) /\ value[a] \in Seq(T) /\ Len(value[a]) = Len(v[a]) /\ Len(v[a]) \in Nat
      BY <1>2, <2>3
    <3> HIDE DEF S, T
    <3>2. SubSeq(v[a], 1, n) = [i \in 1 .. n |-> v[a][i]]
          /\ SubSeq(value[a], 1, n) = [i \in 1 .. n |-> value[a][i]]
      BY <2>1, <3>1
    <3> QED
      BY <2>5, <3>2
  <2> HIDE DEF residues
  <2>7. \A i \in 1 .. n : i \in 1 .. Len(v[a]) /\ vec[i] = v[a][i] /\ residues[i] = value[a][i]
    BY <1>2, <2>1, <2>6
  <2>8. n \in 0 .. MaxLen
    BY <1>2, <2>1, <2>2
  <2>9. vec = [i \in 1 .. n |-> vec[i]] /\ residues = [i \in 1 .. n |-> residues[i]]
    BY <2>6
  <2>10. \A i \in 1 .. n : vec[i] \in 0 .. m /\ residues[i] = Residue(m, vec[i])
    BY <1>2, <2>7
  <2>11. Stands(vec, residues, m)
    BY <1>2, <2>8, <2>9, <2>10, EntryByEntry
  <2> QED
    BY <1>1, <2>1, <2>11, NewVector DEF m
<1> QED
  BY <1>4, <1>5


\* Create of montgomery.h.
LEMMA CreateKeeps ==
  ASSUME WordAssumption, IntegersInv, NEW m \in Word \ {0}, Create(m)
  PROVE  IntegersInv'
<1>1. params = NoParams /\ v' = v /\ value' = value
  BY DEF Create
<1>2. CASE Accepted(m)
  <2>1. params' = Params(m) /\ error' = error
    BY <1>2 DEF Create
  <2>2. m_' = m
    BY <2>1 DEF m_, Params
  <2>3. \A a \in Vectors : v[a] = <<>> /\ value[a] = <<>>
    <3> TAKE a \in Vectors
    <3> DEFINE S == 0 .. m_ - 1
    <3>1. v[a] = <<>> /\ Stands(v[a], value[a], m_)
      BY <1>1 DEF IntegersInv, Created
    <3>2. value[a] \in Seq(S) /\ Len(value[a]) = Len(v[a])
      BY <3>1 DEF Stands
    <3> HIDE DEF S
    <3>3. Len(value[a]) = 0
      BY <3>1, <3>2
    <3> QED
      BY <3>1, <3>2, <3>3
  <2>4. Stands(<<>>, <<>>, m)
    <3>1. Len(<<>>) = 0 /\ (\A S : <<>> \in Seq(S)) /\ MaxLen \in Nat
      BY DEF WordAssumption
    <3>2. 1 .. Len(<<>>) = {}
      BY <3>1
    <3> QED
      BY <3>1, <3>2 DEF Stands
  <2>5. \A a \in Vectors : Stands(v'[a], value'[a], m) /\ v'[a] = <<>>
    BY <1>1, <2>3, <2>4
  <2>6. DOMAIN v' = Vectors /\ DOMAIN value' = Vectors /\ error' \in BOOLEAN
    BY <1>1, <2>1 DEF IntegersInv
  <2> QED
    BY <1>2, <2>1, <2>2, <2>5, <2>6 DEF IntegersInv
<1>3. CASE ~ Accepted(m)
  <2>1. Fails
    BY <1>1, <1>3 DEF Create, Fails
  <2> QED
    BY <2>1, Refusal
<1> QED
  BY <1>2, <1>3

\* Whatever the operations of montgomery.h so far, also through bytes and back:
\* the parameters are right, and every entry is at most the modulus and stands
\* for the residue that ordinary arithmetic gives.
THEOREM IntegersInvariant ==
  ASSUME WordAssumption
  PROVE  Spec => []IntegersInv
<1>1. Init => IntegersInv
  <2> SUFFICES ASSUME Init PROVE IntegersInv
    OBVIOUS
  <2>1. /\ params = NoParams /\ v = [a \in Vectors |-> <<>>]
        /\ value = [a \in Vectors |-> <<>>] /\ error = FALSE
    BY DEF Init
  <2>2. Stands(<<>>, <<>>, m_)
    <3>1. Len(<<>>) = 0 /\ (\A S : <<>> \in Seq(S)) /\ MaxLen \in Nat
      BY DEF WordAssumption
    <3>2. 1 .. Len(<<>>) = {}
      BY <3>1
    <3> QED
      BY <3>1, <3>2 DEF Stands
  <2> QED
    BY <2>1, <2>2 DEF IntegersInv, Created
<1>2. IntegersInv /\ [Next]_vars => IntegersInv'
  <2> SUFFICES ASSUME IntegersInv, [Next]_vars PROVE IntegersInv'
    OBVIOUS
  <2>1. ASSUME NEW m \in Word \ {0}, Create(m) PROVE IntegersInv'
    BY <2>1, CreateKeeps
  <2>2. ASSUME NEW a \in Vectors, NEW x \in Word, Import(a, x) PROVE IntegersInv'
    BY <2>2, ImportKeeps
  <2>3. ASSUME NEW a \in Vectors, NEW e \in Exponents, Power(a, e) PROVE IntegersInv'
    BY <2>3, PowerKeeps
  <2>4. ASSUME NEW a \in Vectors, ImportConstants(a) PROVE IntegersInv'
    BY <2>4, ImportConstantsKeeps
  <2>5. ASSUME NEW a \in Vectors, ImportRandom(a) PROVE IntegersInv'
    BY <2>5, ImportRandomKeeps
  <2>6. ASSUME NEW a \in Vectors, NegateAll(a) PROVE IntegersInv'
    BY <2>6, NegateAllKeeps
  <2>7. ASSUME NEW a \in Vectors, NEW b \in Vectors, BatchAdd(a, b) PROVE IntegersInv'
    BY <2>7, BatchAddKeeps
  <2>8. ASSUME NEW a \in Vectors, NEW b \in Vectors, BatchSub(a, b) PROVE IntegersInv'
    BY <2>8, BatchSubKeeps
  <2>9. ASSUME NEW a \in Vectors, NEW b \in Vectors, BatchMul(a, b) PROVE IntegersInv'
    BY <2>9, BatchMulKeeps
  <2>10. ASSUME NEW a \in Vectors, NEW b \in Vectors, BatchMulConstant(a, b)
         PROVE  IntegersInv'
    BY <2>10, BatchMulConstantKeeps
  <2>11. ASSUME NEW a \in Vectors, NEW b \in Vectors, NEW n \in 0 .. Len(v[a]), Send(a, b, n)
         PROVE  IntegersInv'
    BY <2>11, SendKeeps
  <2>12. CASE UNCHANGED vars
    BY <2>12 DEF vars, IntegersInv, m_, Created
  <2> QED
    BY <2>1, <2>2, <2>3, <2>4, <2>5, <2>6, <2>7, <2>8, <2>9, <2>10, <2>11, <2>12 DEF Next
<1> QED
  BY <1>1, <1>2, PTL DEF Spec

\* The types of the run, from the invariant.
THEOREM IntegersTyped ==
  ASSUME WordAssumption
  PROVE  Spec => []TypeOK
<1>1. IntegersInv => TypeOK
  <2> SUFFICES ASSUME IntegersInv PROVE TypeOK
    OBVIOUS
  <2>1. params = NoParams \/ Accepted(params.modulus)
    BY DEF IntegersInv, Created, m_
  <2>2. ASSUME NEW a \in Vectors
        PROVE  v[a] \in Seq(Word) /\ Len(v[a]) <= MaxLen /\ Len(value[a]) = Len(v[a])
    <3> DEFINE S == 0 .. m_
               T == Word
    <3>1. v[a] \in Seq(S) /\ Len(v[a]) <= MaxLen /\ Len(value[a]) = Len(v[a])
      BY DEF IntegersInv, Stands
    <3>2. \A x \in S : x \in T
      <4>1. CASE Created
        <5>1. m_ \in Nat /\ R \in Nat /\ m_ < R
          BY <4>1, SmallModulus DEF IntegersInv
        <5> QED
          BY <5>1 DEF Word
      <4>2. CASE ~ Created
        <5>1. m_ = 0
          BY <4>2 DEF Created, m_, NoParams
        <5>2. R \in Nat \ {0}
          BY PowersOfTwo DEF R, WordAssumption
        <5> QED
          BY <5>1, <5>2 DEF Word
      <4> QED
        BY <4>1, <4>2
    <3> HIDE DEF S, T
    <3>3. v[a] \in Seq(T)
      BY <3>1, <3>2
    <3> QED
      BY <3>1, <3>3 DEF T
  <2>3. error \in BOOLEAN
    BY DEF IntegersInv
  <2> QED
    BY <2>1, <2>2, <2>3 DEF TypeOK
<1> QED
  BY <1>1, IntegersInvariant, PTL

\* Create of montgomery.h finds the two inverses, by W halvings that never leave
\* a word.
THEOREM InversesAlways ==
  ASSUME WordAssumption
  PROVE  Spec => []InversesExact
<1>1. IntegersInv => InversesExact
  <2> SUFFICES ASSUME IntegersInv, Created PROVE InversesExact
    BY DEF InversesExact
  <2>1. m_ \in Word \ {0} /\ Accepted(m_) /\ params = Params(m_) /\ m_ \in Nat \ {0}
    BY InUse
  <2> DEFINE i == params.inv_r
             k == params.inv_modulus
  <2>2. R * i - m_ * k = 1 /\ (i < m_ \/ m_ = 1)
    BY <2>1, ParamsAre
  <2> QED
    BY <2>2 DEF InversesExact
<1> QED
  BY <1>1, IntegersInvariant, PTL

\* ExportInt of every entry gives the residue of ordinary arithmetic: no sum,
\* product, quotient or power of montgomery.h overflows a word.
THEOREM RepresentsAlways ==
  ASSUME WordAssumption
  PROVE  Spec => []Represents
<1>1. IntegersInv => Represents
  <2> SUFFICES ASSUME IntegersInv, Created,
                      NEW a \in Vectors, NEW i \in DOMAIN v[a]
               PROVE  ExportInt(params, v[a][i]) = value[a][i]
    BY DEF Represents
  <2> DEFINE m == m_
             x == v[a][i]
  <2>1. m \in Word \ {0} /\ Accepted(m) /\ params = Params(m)
    BY InUse
  <2>2. x \in 0 .. m /\ value[a][i] = Residue(m, x)
    BY InUse
  <2> HIDE DEF m, x
  <2>3. ExportInt(Params(m), x) = Residue(m, x)
    BY <2>1, <2>2, ExportIs DEF Residue
  <2> QED
    BY <2>1, <2>2, <2>3 DEF x
<1> QED
  BY <1>1, IntegersInvariant, PTL

\* operator== of montgomery.h compares the words: it is equality of residues for
\* all but the two words that stand for zero.
THEOREM UniqueAlways ==
  ASSUME WordAssumption
  PROVE  Spec => []UniqueButZero
<1>1. IntegersInv => UniqueButZero
  <2> SUFFICES ASSUME IntegersInv, Created,
                      NEW a \in Vectors, NEW b \in Vectors,
                      NEW i \in DOMAIN v[a], NEW j \in DOMAIN v[b]
               PROVE  LET x == v[a][i]
                          y == v[b][j]
                      IN  /\ x <= m_
                          /\ value[a][i] = value[b][j] <=> (x = y \/ {x, y} = {0, m_})
    BY DEF UniqueButZero
  <2> DEFINE m == m_
             x == v[a][i]
             y == v[b][j]
  <2>1. m \in Word \ {0} /\ Accepted(m) /\ m \in Nat
    BY InUse
  <2>2. /\ x \in 0 .. m /\ value[a][i] = Residue(m, x)
        /\ y \in 0 .. m /\ value[b][j] = Residue(m, y)
    BY InUse
  <2> HIDE DEF m, x, y
  <2>3. Residue(m, x) = Residue(m, y) <=> (x = y \/ {x, y} = {0, m})
    BY <2>1, <2>2, ResidueUnique
  <2>4. x <= m
    BY <2>1, <2>2
  <2> QED
    BY <2>2, <2>3, <2>4 DEF m, x, y
<1> QED
  BY <1>1, IntegersInvariant, PTL

\* All that the run `lattice' checks of montgomery.h and montgomery.cc, for every
\* width of the word, number of integers and sequence of operations.
THEOREM ExactAlways ==
  ASSUME WordAssumption
  PROVE  Spec => []IntegersExact
<1>1. IntegersExact <=> (Represents /\ UniqueButZero /\ InversesExact /\ IntegersInv)
  BY DEF IntegersExact
<1> QED
  BY <1>1, RepresentsAlways, UniqueAlways, InversesAlways, IntegersInvariant, PTL

-----------------------------------------------------------------------------
(* Relinearization keys: relinearization_key.cc, galois_key.h *)

CONSTANTS
  N, LogT, Variance, WordBits, MaxError, Modulus, LogDecomposition, Kinds, Clients, First,
  Key0(_), Draw(_, _), DrawError(_), Seeds, SharedSeed, Batches, MaxDrawn, MaxOps
VARIABLES made, wire, relin, drawn, batches, expanded, ct, message, under, ops
Server == INSTANCE Relinearization

\* Position x of n rows of length d, put one after the other.
RowAt(j, i, d) == (j - 1) * d + i
Rows(n, d, S) == [1 .. n -> [1 .. d -> S]]

LEMMA TwoJoined ==
  ASSUME NEW S, NEW a \in Seq(S), NEW b \in Seq(S)
  PROVE  /\ a \o b \in Seq(S) /\ Len(a \o b) = Len(a) + Len(b)
         /\ \A i \in 1 .. Len(a) : (a \o b)[i] = a[i]
         /\ \A i \in 1 .. Len(b) : (a \o b)[Len(a) + i] = b[i]
OBVIOUS

\* FlattenSeq of rows of one length puts each entry where Position looks for it.
LEMMA RowsJoined ==
  ASSUME NEW n \in Nat, NEW d \in Nat, NEW S, NEW rows \in Rows(n, d, S)
  PROVE  /\ Len(Server!FlattenSeq(rows)) = n * d
         /\ \A j \in 1 .. n, i \in 1 .. d :
              Server!FlattenSeq(rows)[RowAt(j, i, d)] = rows[j][i]
<1> DEFINE Is(f) == f = [k \in 1 .. Len(rows) |->
                           IF k = 1 THEN rows[k] ELSE f[k - 1] \o rows[k]]
           Q == Seq(S)
           next == [k \in Nat |-> [q \in Q |-> IF k \in 1 .. n THEN q \o rows[k] ELSE q]]
<1>0. rows \in [1 .. n -> [1 .. d -> S]]
  BY DEF Rows
<1>1. Len(rows) = n /\ \A j \in 1 .. n : rows[j] \in Q /\ Len(rows[j]) = d
  BY <1>0
<1>2. CASE n = 0
  <2>1. Server!FlattenSeq(rows) = rows /\ n * d = 0
    BY <1>1, <1>2 DEF Server!FlattenSeq
  <2> QED
    BY <1>1, <1>2, <2>1
<1>3. CASE n # 0
  <2> DEFINE F == CHOOSE f : Is(f)
  <2>1. <<>> \in Q /\ next \in [Nat -> [Q -> Q]]
    <3>1. <<>> \in Q
      OBVIOUS
    <3>2. \A q \in Q, k \in 1 .. n : q \o rows[k] \in Q
      BY <1>1
    <3> HIDE DEF Q
    <3> QED
      BY <3>1, <3>2
  <2>2. PICK g \in [Nat -> Q] : Recursive(g, <<>>, next)
    <3> HIDE DEF Q, next
    <3> QED
      BY <2>1, Recursion
  <2>3. Is([k \in 1 .. n |-> g[k]])
    <3> DEFINE f == [k \in 1 .. n |-> g[k]]
    <3>1. ASSUME NEW k \in 1 .. n
          PROVE  g[k] = IF k = 1 THEN rows[k] ELSE f[k - 1] \o rows[k]
      <4>1. k \in Nat \ {0} /\ k - 1 \in Nat
        OBVIOUS
      <4>2. g[k] = next[k][g[k - 1]] /\ g[k - 1] \in Q /\ g[0] = <<>>
        BY <2>2, <4>1 DEF Recursive
      <4>3. g[k] = g[k - 1] \o rows[k]
        <5> HIDE DEF Q
        <5> QED
          BY <4>1, <4>2
      <4>4. k = 1 => g[k - 1] = <<>> /\ <<>> \o rows[k] = rows[k]
        BY <1>1, <4>2
      <4>5. k # 1 => k - 1 \in 1 .. n
        OBVIOUS
      <4> QED
        BY <4>3, <4>4, <4>5
    <3> QED
      BY <1>1, <3>1
  <2>4. Is(F)
    <3> HIDE DEF Is
    <3> QED
      BY <2>3
  <2>5. Server!FlattenSeq(rows) = F[n]
    BY <1>1, <1>3 DEF Server!FlattenSeq
  <2> HIDE DEF F
  <2>6. \A k \in 1 .. n : F[k] = IF k = 1 THEN rows[k] ELSE F[k - 1] \o rows[k]
    BY <1>1, <2>4
  <2> DEFINE Joined(k) == /\ F[k] \in Q /\ Len(F[k]) = k * d
                          /\ \A j \in 1 .. k, i \in 1 .. d : F[k][RowAt(j, i, d)] = rows[j][i]
             A == {k \in Nat : k + 1 <= n => Joined(k + 1)}
  <2>7. 0 \in A
    <3>1. F[1] = rows[1] /\ 1 * d = d
      BY <1>3, <2>6
    <3>2. \A j \in 1 .. 1, i \in 1 .. d : RowAt(j, i, d) = i /\ j = 1
      BY DEF RowAt
    <3>3. 1 \in 1 .. n /\ 1 .. (0 + 1) = 1 .. 1 /\ 0 + 1 = 1
      BY <1>3
    <3>4. F[1] \in Q /\ Len(F[1]) = 1 * d
      BY <1>1, <3>1, <3>3
    <3>5. \A j \in 1 .. 1, i \in 1 .. d : F[1][RowAt(j, i, d)] = rows[j][i]
      BY <3>1, <3>2
    <3> QED
      BY <3>3, <3>4, <3>5
  <2>8. ASSUME NEW k \in Nat, k \in A
        PROVE  k + 1 \in A
    <3> SUFFICES ASSUME (k + 1) + 1 <= n
                 PROVE  Joined((k + 1) + 1)
      OBVIOUS
    <3> DEFINE c == k + 1
               l == c * d
               a == F[c]
               b == rows[c + 1]
    <3>1. c \in 1 .. n /\ c + 1 \in 1 .. n /\ c + 1 # 1 /\ (c + 1) - 1 = c /\ c \in Nat
      OBVIOUS
    <3>2. F[c + 1] = a \o b
      BY <2>6, <3>1
    <3>3. /\ a \in Q /\ Len(a) = l /\ b \in Q /\ Len(b) = d
          /\ \A j \in 1 .. c, i \in 1 .. d : a[RowAt(j, i, d)] = rows[j][i]
      <4>1. c <= n /\ k \in Nat /\ (k + 1 <= n => Joined(k + 1))
        BY <2>8, <3>1
      <4>2. Joined(c)
        BY <4>1
      <4> QED
        BY <1>1, <3>1, <4>2
    <3>4. (c + 1) * d = l + d /\ l \in Nat
      BY <3>1
    <3> HIDE DEF c, l, Q, a, b
    <3>j. /\ a \o b \in Q /\ Len(a \o b) = l + d
          /\ \A i \in 1 .. l : (a \o b)[i] = a[i]
          /\ \A i \in 1 .. d : (a \o b)[l + i] = b[i]
      <4>1. a \in Seq(S) /\ b \in Seq(S)
        BY <3>3 DEF Q
      <4> DEFINE ab == a \o b
      <4>2. /\ ab \in Seq(S) /\ Len(ab) = Len(a) + Len(b)
            /\ \A i \in 1 .. Len(a) : ab[i] = a[i]
            /\ \A i \in 1 .. Len(b) : ab[Len(a) + i] = b[i]
        BY <4>1, TwoJoined
      <4> HIDE DEF ab
      <4>3. /\ ab \in Seq(S) /\ Len(ab) = l + d
            /\ \A i \in 1 .. l : ab[i] = a[i]
            /\ \A i \in 1 .. d : ab[l + i] = b[i]
        BY <3>3, <4>2
      <4> QED
        BY <4>3 DEF ab, Q
    <3>5. F[c + 1] \in Q /\ Len(F[c + 1]) = (c + 1) * d
      BY <3>2, <3>4, <3>j
    <3>6. ASSUME NEW j \in 1 .. c + 1, NEW i \in 1 .. d
          PROVE  F[c + 1][RowAt(j, i, d)] = rows[j][i]
      <4>1. CASE j = c + 1
        <5>1. RowAt(j, i, d) = l + i
          BY <3>1, <4>1 DEF RowAt, l
        <5>2. (a \o b)[l + i] = b[i]
          BY <3>j
        <5> QED
          BY <3>2, <4>1, <5>1, <5>2 DEF b
      <4>2. CASE j # c + 1
        <5>1. j \in 1 .. c
          BY <3>1, <4>2
        <5>2. RowAt(j, i, d) \in 1 .. l
          <6> DEFINE e == c - j
          <6>1. e \in Nat /\ j - 1 \in Nat /\ c = (j - 1) + e + 1
            BY <3>1, <5>1
          <6> HIDE DEF e
          <6>2. /\ ((j - 1) + e + 1) * d = (j - 1) * d + e * d + d
                /\ (j - 1) * d \in Nat /\ e * d \in Nat
            BY <6>1
          <6>3. l = (j - 1) * d + e * d + d
            BY <6>1, <6>2 DEF l
          <6> DEFINE x == (j - 1) * d
                     y == e * d
          <6>4. x \in Nat /\ y \in Nat /\ l = x + y + d /\ RowAt(j, i, d) = x + i
            BY <6>2, <6>3 DEF RowAt
          <6> HIDE DEF x, y
          <6> QED
            BY <6>4
        <5>3. (a \o b)[RowAt(j, i, d)] = a[RowAt(j, i, d)]
          BY <3>j, <5>2
        <5> QED
          BY <3>2, <3>3, <5>1, <5>3
      <4> QED
        BY <4>1, <4>2
    <3> QED
      BY <3>5, <3>6 DEF c
  <2>9. Nat \subseteq A
    <3> HIDE DEF A
    <3> QED
      BY <2>7, <2>8, Induction
  <2>10. Joined(n)
    <3>1. n - 1 \in Nat /\ (n - 1) + 1 = n
      BY <1>3
    <3>2. n - 1 \in A
      BY <2>9, <3>1
    <3> HIDE DEF Joined
    <3> QED
      BY <3>1, <3>2
  <2> QED
    BY <2>5, <2>10
<1> QED
  BY <1>2, <1>3

\* A sum of numbers over a finite set is one.
LEMMA SumIsInt ==
  ASSUME NEW S, IsFiniteSet(S), NEW f, \A x \in S : f[x] \in Int
  PROVE  Server!SumOver(f, S) \in Int
<1> DEFINE P == SUBSET S
           ch(p) == CHOOSE x \in p : TRUE
           U == [P -> Int]
           more(g) == [p \in P |-> IF p = {} THEN 0 ELSE f[ch(p)] + g[p \ {ch(p)}]]
           next == [k \in Nat |-> [g \in U |-> more(g)]]
           first == [p \in P |-> 0]
           Is(h) == h = [p \in P |-> IF p = {} THEN 0 ELSE f[ch(p)] + h[p \ {ch(p)}]]
<1>1. \A p \in P : p # {} => ch(p) \in p /\ f[ch(p)] \in Int /\ p \ {ch(p)} \in P
  OBVIOUS
<1> HIDE DEF ch
<1>2. first \in U /\ next \in [Nat -> [U -> U]]
  <2>1. ASSUME NEW g \in U
        PROVE  more(g) \in U
    <3>1. ASSUME NEW p \in P
          PROVE  (IF p = {} THEN 0 ELSE f[ch(p)] + g[p \ {ch(p)}]) \in Int
      <4>1. CASE p = {}
        BY <4>1
      <4>2. CASE p # {}
        <5>1. f[ch(p)] \in Int /\ p \ {ch(p)} \in P
          BY <1>1, <4>2
        <5>2. g[p \ {ch(p)}] \in Int
          BY <5>1
        <5> QED
          BY <4>2, <5>1, <5>2
      <4> QED
        BY <4>1, <4>2
    <3> HIDE DEF P
    <3> QED
      BY <3>1
  <2>2. first \in U
    OBVIOUS
  <2> HIDE DEF more, U, P, first
  <2> QED
    BY <2>1, <2>2
<1>3. PICK F \in [Nat -> U] : Recursive(F, first, next)
  <2> HIDE DEF U, next, first
  <2> QED
    BY <1>2, Recursion
<1>4. \A p \in P : Cardinality(p) \in Nat /\ (Cardinality(p) = 0 <=> p = {})
                  /\ (p # {} => Cardinality(p \ {ch(p)}) = Cardinality(p) - 1)
  <2> TAKE p \in P
  <2>1. IsFiniteSet(p)
    BY FS_Subset
  <2>2. Cardinality(p) \in Nat /\ (Cardinality(p) = 0 <=> p = {})
    BY <2>1, FS_CardinalityType, FS_EmptySet
  <2>3. p # {} => Cardinality(p \ {ch(p)}) = Cardinality(p) - 1
    BY <1>1, <2>1, FS_RemoveElement
  <2> QED
    BY <2>2, <2>3
<1>5. Is([p \in P |-> F[Cardinality(p)][p]])
  <2> DEFINE h == [p \in P |-> F[Cardinality(p)][p]]
  <2>1. ASSUME NEW p \in P
        PROVE  F[Cardinality(p)][p] = IF p = {} THEN 0 ELSE f[ch(p)] + h[p \ {ch(p)}]
    <3> DEFINE n == Cardinality(p)
    <3>1. CASE p = {}
      <4>1. n = 0 /\ F[0] = first
        BY <1>3, <1>4, <3>1 DEF Recursive
      <4> QED
        BY <3>1, <4>1
    <3>2. CASE p # {}
      <4> DEFINE r == p \ {ch(p)}
      <4>1. r \in P /\ n \in Nat \ {0} /\ Cardinality(r) = n - 1 /\ n - 1 \in Nat
        <5> HIDE DEF P
        <5>1. n \in Nat /\ n # 0 /\ r \in P /\ Cardinality(r) = n - 1
          BY <1>1, <1>4, <3>2
        <5> HIDE DEF n
        <5>2. n \in Nat \ {0} /\ n - 1 \in Nat
          BY <5>1
        <5> QED
          BY <5>1, <5>2
      <4>2. F[n] = next[n][F[n - 1]] /\ F[n - 1] \in U
        BY <1>3, <4>1 DEF Recursive
      <4>3. F[n] = more(F[n - 1])
        <5> HIDE DEF more, U, n
        <5> QED
          BY <4>1, <4>2
      <4>4. F[n][p] = f[ch(p)] + F[n - 1][r]
        BY <3>2, <4>3
      <4>5. h[r] = F[n - 1][r]
        BY <4>1
      <4> HIDE DEF h
      <4> QED
        BY <3>2, <4>4, <4>5
    <3> QED
      BY <3>1, <3>2
  <2>2. h = [p \in P |-> IF p = {} THEN 0 ELSE f[ch(p)] + h[p \ {ch(p)}]]
    <3> HIDE DEF P
    <3> QED
      BY <2>1
  <2> QED
    BY <2>2
<1> DEFINE G == CHOOSE h : Is(h)
<1>6. Is(G)
  <2> HIDE DEF Is
  <2> QED
    BY <1>5
<1>7. Server!SumOver(f, S) = G[S]
  BY DEF Server!SumOver, Server!FoldFunctionOnSet, Server!MapThenFoldSet, ch
<1> HIDE DEF G
<1>8. \A p \in P : G[p] = IF p = {} THEN 0 ELSE f[ch(p)] + G[p \ {ch(p)}]
  <2> HIDE DEF P
  <2> QED
    BY <1>6
<1> DEFINE A == {n \in Nat : \A p \in P : Cardinality(p) = n => G[p] \in Int}
<1>9. 0 \in A
  <2> HIDE DEF P
  <2>1. \A p \in P : Cardinality(p) = 0 => G[p] = 0
    BY <1>4, <1>8
  <2> QED
    BY <2>1
<1>10. ASSUME NEW n \in Nat, n \in A
       PROVE  n + 1 \in A
  <2> SUFFICES ASSUME NEW p \in P, Cardinality(p) = n + 1
               PROVE  G[p] \in Int
    OBVIOUS
  <2>1. p # {} /\ p \ {ch(p)} \in P /\ f[ch(p)] \in Int /\ Cardinality(p \ {ch(p)}) = n
    <3> HIDE DEF P
    <3>1. n + 1 # 0 /\ (n + 1) - 1 = n
      OBVIOUS
    <3>2. p # {}
      BY <1>4, <3>1
    <3>3. p \ {ch(p)} \in P /\ f[ch(p)] \in Int /\ Cardinality(p \ {ch(p)}) = (n + 1) - 1
      BY <1>1, <1>4, <3>2
    <3> QED
      BY <3>1, <3>2, <3>3
  <2>2. G[p \ {ch(p)}] \in Int
    BY <1>10, <2>1
  <2>3. G[p] = f[ch(p)] + G[p \ {ch(p)}]
    <3> HIDE DEF P
    <3> QED
      BY <1>8, <2>1
  <2> QED
    BY <2>1, <2>2, <2>3
<1>11. Nat \subseteq A
  <2> HIDE DEF A
  <2> QED
    BY <1>9, <1>10, Induction
<1>12. S \in P /\ Cardinality(S) \in Nat
  BY FS_CardinalityType
<1> QED
  BY <1>7, <1>11, <1>12

\* An odd number reaches every residue modulo a power of two.
LEMMA OddReaches ==
  ASSUME NEW p \in Nat, p % 2 = 1, NEW k \in Nat, NEW l \in Nat, k < TwoTo[l]
  PROVE  \E i \in 0 .. TwoTo[l] - 1 : (i * p) % TwoTo[l] = k
<1> DEFINE A == {n \in Nat : \E i \in Nat : Same(i * p, k, TwoTo[n])}
           h == p \div 2
<1>1. 0 \in A
  <2>1. TwoTo[0] = 1 /\ 0 * p = 0 /\ 0 = k + (0 - k) * 1
    BY PowersOfTwo
  <2>2. Same(0 * p, k, TwoTo[0])
    BY <2>1 DEF Same
  <2> QED
    BY <2>2
<1>2. p = 2 * h + 1 /\ h \in Int
  BY DivisionOf
<1> HIDE DEF h
<1>3. ASSUME NEW n \in Nat, n \in A
      PROVE  n + 1 \in A
  <2> DEFINE t == TwoTo[n]
  <2>1. t \in Nat /\ TwoTo[n + 1] = 2 * t
    BY PowersOfTwo
  <2>2. PICK i \in Nat : Same(i * p, k, t)
    BY <1>3
  <2>3. PICK u \in Int : i * p = k + u * t
    BY <2>2 DEF Same
  <2> HIDE DEF t
  <2> DEFINE y == u \div 2
  <2>4. y \in Int /\ (u = 2 * y \/ u = 2 * y + 1)
    OBVIOUS
  <2> HIDE DEF y
  <2>5. CASE u = 2 * y
    <3>1. u * t = y * (2 * t) /\ y \in Int
      BY <2>1, <2>4, <2>5
    <3>2. Same(i * p, k, 2 * t)
      BY <2>3, <3>1 DEF Same
    <3>3. Same(i * p, k, TwoTo[n + 1])
      BY <2>1, <3>2
    <3>4. \E x \in Nat : Same(x * p, k, TwoTo[n + 1])
      BY <3>3, Zenon
    <3>5. n + 1 \in Nat
      OBVIOUS
    <3> QED
      BY <3>4, <3>5, Zenon
  <2>6. CASE u = 2 * y + 1
    <3> DEFINE j == i + t
               w == y + h + 1
    <3>1. t * p = (2 * h + 1) * t /\ (i + t) * p = i * p + t * p
      BY <1>2, <2>1
    <3>2. u * t = (2 * y + 1) * t
      BY <2>6
    <3>3. (2 * y + 1) * t + (2 * h + 1) * t = (y + h + 1) * (2 * t)
      BY <1>2, <2>1, <2>4
    <3>4. j * p = k + w * (2 * t)
      <4>1. i * p \in Int /\ t * p \in Int /\ u * t \in Int
        BY <2>1, <2>3
      <4> QED
        BY <2>3, <3>1, <3>2, <3>3, <4>1
    <3>5. j \in Nat /\ w \in Int
      BY <1>2, <2>1, <2>4
    <3>6. Same(j * p, k, 2 * t)
      BY <3>4, <3>5 DEF Same
    <3> HIDE DEF j
    <3>7. Same(j * p, k, TwoTo[n + 1])
      BY <2>1, <3>6
    <3>8. \E x \in Nat : Same(x * p, k, TwoTo[n + 1])
      BY <3>5, <3>7, Zenon
    <3>9. n + 1 \in Nat
      OBVIOUS
    <3> QED
      BY <3>8, <3>9, Zenon
  <2> QED
    BY <2>4, <2>5, <2>6
<1>4. Nat \subseteq A
  <2> HIDE DEF A
  <2> QED
    BY <1>1, <1>3, Induction
<1> DEFINE m == TwoTo[l]
<1>5. m \in Nat \ {0} /\ k < m
  BY PowersOfTwo
<1>6. PICK i \in Nat : Same(i * p, k, m)
  BY <1>4
<1> HIDE DEF m
<1>7. (i * p) % m = k
  <2>1. i * p \in Int /\ k \in Int
    OBVIOUS
  <2>2. (i * p) % m = k % m
    BY <1>5, <1>6, <2>1, SameResidue
  <2> QED
    BY <1>5, <2>2, SmallResidue
<1>8. ((i % m) * p) % m = k
  <2>0. i \in Int /\ p \in Int /\ m \in Nat \ {0}
    BY <1>5
  <2>1. ((i % m) * p) % m = (i * p) % m
    BY <2>0, ResidueOfProduct
  <2> QED
    BY <1>7, <2>1
<1>9. i % m \in 0 .. m - 1
  BY <1>5, DivisionOf
<1> QED
  BY <1>8, <1>9 DEF m

\* Polynomials of N coefficients, and those that are reduced.
Polynomials == [0 .. N - 1 -> Int]
Reduced(q) == [0 .. N - 1 -> 0 .. q - 1]

LEMMA ReducedIsPolynomial ==
  ASSUME NEW q \in Nat
  PROVE  Reduced(q) \subseteq Polynomials
BY DEF Reduced, Polynomials

LEMMA UpToN ==
  ASSUME N \in Nat
  PROVE  IsFiniteSet(0 .. N - 1) /\ Cardinality(0 .. N - 1) = N
<1>1. 0 \in Int /\ N - 1 \in Int /\ (IF 0 > N - 1 THEN 0 ELSE (N - 1) - 0 + 1) = N
  OBVIOUS
<1>2. /\ IsFiniteSet(0 .. N - 1)
      /\ Cardinality(0 .. N - 1) = IF 0 > N - 1 THEN 0 ELSE (N - 1) - 0 + 1
  BY <1>1, FS_Interval
<1> QED
  BY <1>1, <1>2

LEMMA ProductIsReduced ==
  ASSUME N \in Nat, NEW q \in Nat \ {0}, NEW f \in Polynomials, NEW g \in Polynomials
  PROVE  Server!CoefficientMul(f, g, q) \in Reduced(q)
<1> DEFINE n == Server!Degree(f)
           D == 0 .. N - 1
           term(k) == [i \in D |-> IF i <= k THEN f[i] * g[k - i] ELSE 0 - f[i] * g[n + k - i]]
<1>1. IsFiniteSet(D) /\ Cardinality(D) = N
  BY UpToN
<1>2. DOMAIN f = D /\ n = N
  BY <1>1 DEF Polynomials, Server!Degree, Server!Cardinality, Cardinality
<1>3. Server!CoefficientMul(f, g, q) = [k \in D |-> Server!SumOver(term(k), D) % q]
  BY <1>2 DEF Server!CoefficientMul
<1>4. ASSUME NEW k \in D
      PROVE  Server!SumOver(term(k), D) \in Int
  <2>1. ASSUME NEW i \in D
        PROVE  term(k)[i] \in Int
    <3>1. f[i] \in Int
      BY DEF Polynomials
    <3>2. CASE i <= k
      <4>1. k - i \in D
        BY <3>2
      <4>2. g[k - i] \in Int
        BY <4>1 DEF Polynomials
      <4> QED
        BY <3>1, <3>2, <4>2
    <3>3. CASE ~(i <= k)
      <4>1. n + k - i \in D
        BY <1>2, <3>3
      <4>2. g[n + k - i] \in Int
        BY <4>1 DEF Polynomials
      <4> HIDE DEF n
      <4> QED
        BY <3>1, <3>3, <4>2
    <3> QED
      BY <3>2, <3>3
  <2> HIDE DEF term, D
  <2> QED
    BY <1>1, <2>1, SumIsInt
<1>5. ASSUME NEW k \in D
      PROVE  Server!SumOver(term(k), D) % q \in 0 .. q - 1
  <2> DEFINE x == Server!SumOver(term(k), D)
  <2>1. x \in Int
    BY <1>4
  <2> HIDE DEF x
  <2>2. x % q \in 0 .. q - 1
    BY <2>1, DivisionOf
  <2> QED
    BY <2>2 DEF x
<1> HIDE DEF term, D
<1> QED
  BY <1>3, <1>5 DEF Reduced, D

LEMMA SubstitutedIsReduced ==
  ASSUME N \in Nat, \E l \in 0 .. N : N = TwoTo[l], NEW q \in Nat \ {0},
         NEW f \in Polynomials, NEW p \in Nat, p % 2 = 1
  PROVE  Server!CoefficientSubstitute(f, p, q) \in Reduced(q)
<1> DEFINE n == Server!Degree(f)
           D == 0 .. N - 1
           from(k) == CHOOSE i \in D : (i * p) % n = k
           sign(i) == IF ((i * p) \div n) % 2 = 0 THEN 1 ELSE -1
<1>1. IsFiniteSet(D) /\ Cardinality(D) = N
  BY UpToN
<1>2. DOMAIN f = D /\ n = N
  BY <1>1 DEF Polynomials, Server!Degree, Server!Cardinality, Cardinality
<1>3. Server!CoefficientSubstitute(f, p, q) = [k \in D |-> (f[from(k)] * sign(from(k))) % q]
  BY <1>2 DEF Server!CoefficientSubstitute
<1>4. ASSUME NEW k \in D
      PROVE  from(k) \in D
  <2>1. PICK l \in 0 .. N : N = TwoTo[l]
    OBVIOUS
  <2>2. k \in Nat /\ l \in Nat /\ k < TwoTo[l]
    BY <2>1
  <2>3. \E i \in 0 .. TwoTo[l] - 1 : (i * p) % TwoTo[l] = k
    BY <2>2, OddReaches
  <2>4. \E i \in D : (i * p) % n = k
    BY <1>2, <2>1, <2>3, Zenon
  <2> HIDE DEF n
  <2> QED
    BY <2>4
<1> HIDE DEF from
<1>5. ASSUME NEW k \in D
      PROVE  (f[from(k)] * sign(from(k))) % q \in 0 .. q - 1
  <2> DEFINE x == f[from(k)] * sign(from(k))
  <2>1. f[from(k)] \in Int
    BY <1>4 DEF Polynomials
  <2>2. sign(from(k)) \in Int
    OBVIOUS
  <2> HIDE DEF sign
  <2>3. x \in Int
    BY <2>1, <2>2
  <2> HIDE DEF x
  <2>4. x % q \in 0 .. q - 1
    BY <2>3, DivisionOf
  <2> QED
    BY <2>4 DEF x
<1> HIDE DEF sign, D
<1> QED
  BY <1>3, <1>5 DEF Reduced, D

LEMMA SameTwo == Server!TwoTo = TwoTo
BY DEF Server!TwoTo, TwoTo

\* The rows before one do not reach into it.
LEMMA RowIsThere ==
  ASSUME NEW n \in Nat, NEW d \in Nat, NEW j \in 1 .. n, NEW i \in 1 .. d
  PROVE  RowAt(j, i, d) \in 1 .. n * d
<1> DEFINE e == n - j
<1>1. e \in Nat /\ j - 1 \in Nat /\ n = (j - 1) + e + 1
  OBVIOUS
<1> HIDE DEF e
<1>2. /\ ((j - 1) + e + 1) * d = (j - 1) * d + e * d + d
      /\ (j - 1) * d \in Nat /\ e * d \in Nat
  BY <1>1
<1>3. n * d = (j - 1) * d + e * d + d
  BY <1>1, <1>2
<1> DEFINE l == n * d
           x == (j - 1) * d
           y == e * d
<1>4. x \in Nat /\ y \in Nat /\ l = x + y + d /\ RowAt(j, i, d) = x + i
  BY <1>2, <1>3 DEF RowAt
<1> HIDE DEF l, x, y
<1>5. RowAt(j, i, d) \in 1 .. l
  BY <1>4
<1> QED
  BY <1>5 DEF l

LEMMA DimensionIs ==
  ASSUME Server!RelinearizationAssumption
  PROVE  Server!Dimension \in Nat
<1>1. Modulus \in Nat
  BY DEF Server!RelinearizationAssumption
<1>2. Server!LogModulus(Modulus) = BitLength(Modulus) /\ BitLength(Modulus) \in Nat
  <2>1. BitLength(Modulus) \in 0 .. Modulus
    BY <1>1, BitLengthIs
  <2> QED
    BY <1>1, <2>1 DEF Server!LogModulus, Server!BitLength, BitLength, Server!TwoTo, TwoTo
<1>3. LogDecomposition \in Nat \ {0}
  BY <1>2 DEF Server!RelinearizationAssumption
<1>4. CeilDiv(BitLength(Modulus), LogDecomposition) \in Nat
  BY <1>2, <1>3, CeilDivIs
<1> QED
  BY <1>2, <1>4 DEF Server!Dimension, Server!CeilDiv, CeilDiv

\* Serialize and Deserialize: whoever has the seed has the key.
LEMMA KeyComesBack ==
  ASSUME NEW key, NEW seed, NEW k, k.num_parts \in Nat \ {0}, Server!Dimension \in Nat
  PROVE  LET rk == Server!KeyCreate(key, seed, k)
         IN Server!KeyDeserialize(Server!KeySerialize(rk, seed)) = rk
<1> DEFINE n == k.num_parts - 1
           d == Server!Dimension
           rk == Server!KeyCreate(key, seed, k)
           m == Server!KeySerialize(rk, seed)
           f(j) == Server!KeyPower(key.s, k.power_of_s, j)
           part(j) == Server!PartCreate(key, f(j), seed, j)
           t(j, i) == part(j).top[i]
           rows == [j \in 1 .. n |-> [i \in 1 .. d |-> t(j, i)]]
           S == {t(x[1], x[2]) : x \in (1 .. n) \X (1 .. d)}
<1>1. rk = [num_parts |-> k.num_parts, power_of_s |-> k.power_of_s,
            parts |-> [j \in 1 .. n |-> part(j)]]
  BY DEF Server!KeyCreate
<1>2. \A j : part(j) = [top |-> [i \in 1 .. d |-> t(j, i)],
                        bottom |-> [i \in 1 .. d |-> Draw(seed, RowAt(j, i, d))]]
  <2> HIDE DEF f
  <2> QED
    BY DEF Server!PartCreate, Server!Position, RowAt
<1> HIDE DEF part, rk
<1>3. rows = [j \in DOMAIN rk.parts |-> rk.parts[j].top]
  <2>1. DOMAIN rk.parts = 1 .. n /\ \A j \in 1 .. n : rk.parts[j] = part(j)
    BY <1>1
  <2>2. \A j : part(j).top = [i \in 1 .. d |-> t(j, i)]
    BY <1>2
  <2> HIDE DEF t
  <2> QED
    BY <2>1, <2>2
<1>4. /\ m.c = Server!FlattenSeq(rows) /\ m.prng_seed = seed
      /\ m.num_parts = k.num_parts /\ m.power_of_s = k.power_of_s
  BY <1>1, <1>3 DEF Server!KeySerialize
<1>5. \A j \in 1 .. n, i \in 1 .. d : m.c[RowAt(j, i, d)] = t(j, i)
  <2>1. \A j \in 1 .. n, i \in 1 .. d : t(j, i) \in S
    <3> TAKE j \in 1 .. n, i \in 1 .. d
    <3>1. <<j, i>> \in (1 .. n) \X (1 .. d)
      OBVIOUS
    <3> HIDE DEF t
    <3> QED
      BY <3>1
  <2> HIDE DEF t, S
  <2>2. rows \in Rows(n, d, S)
    BY <2>1 DEF Rows
  <2>3. n \in Nat /\ d \in Nat
    OBVIOUS
  <2>4. \A j \in 1 .. n, i \in 1 .. d :
          Server!FlattenSeq(rows)[RowAt(j, i, d)] = rows[j][i]
    <3> HIDE DEF rows, n, d
    <3> QED
      BY <2>2, <2>3, RowsJoined
  <2> QED
    BY <1>4, <2>4
<1>6. Server!KeyDeserialize(m) =
        [num_parts |-> m.num_parts, power_of_s |-> m.power_of_s,
         parts |-> [j \in 1 .. m.num_parts - 1 |->
           [top |-> [i \in 1 .. d |-> m.c[RowAt(j, i, d)]],
            bottom |-> [i \in 1 .. d |-> Draw(m.prng_seed, RowAt(j, i, d))]]]]
  BY DEF Server!KeyDeserialize, Server!Position, RowAt
<1> HIDE DEF m, t, d
<1>7. \A j \in 1 .. n : [i \in 1 .. d |-> m.c[RowAt(j, i, d)]] = [i \in 1 .. d |-> t(j, i)]
  BY <1>5
<1>8. \A j \in 1 .. n :
        [top |-> [i \in 1 .. d |-> m.c[RowAt(j, i, d)]],
         bottom |-> [i \in 1 .. d |-> Draw(m.prng_seed, RowAt(j, i, d))]] = part(j)
  BY <1>2, <1>4, <1>7
<1>9. Server!KeyDeserialize(m) = rk
  BY <1>1, <1>4, <1>6, <1>8
<1> QED
  BY <1>9 DEF m, rk, d

\* A key that has been made is one.
LEMMA KeyIsThere ==
  ASSUME NEW key, NEW seed, NEW k, k.num_parts # 0
  PROVE  Server!KeyCreate(key, seed, k) # Server!NoKey
<1>1. Server!KeyCreate(key, seed, k).num_parts = k.num_parts /\ Server!NoKey.num_parts = 0
  BY DEF Server!KeyCreate, Server!NoKey
<1> QED
  BY <1>1

\* A key that was sent is the one that was made, and so is the key that the server has.
LEMMA KeysCarried ==
  ASSUME Server!RelinearizationAssumption
  PROVE  Server!Spec => []Server!KeysMatch
<1> DEFINE K(k, seed) == Server!KeyCreate(Server!SecretKey(First), seed, k)
           keys == <<made, wire, relin>>
           Made == /\ DOMAIN made = Kinds /\ DOMAIN relin = Kinds
                   /\ \A k \in Kinds : made[k] # Server!NoKey =>
                        \E seed \in Seeds : made[k] = K(k, seed)
                   /\ \A km \in wire : km[1] \in Kinds /\ \E seed \in Seeds :
                        /\ made[km[1]] = K(km[1], seed)
                        /\ km[2] = Server!KeySerialize(made[km[1]], seed)
           Inv == Made /\ \A k \in Kinds : relin[k] # Server!NoKey => relin[k] = made[k]
<1>0. /\ Server!KeysMatch <=> Inv
      /\ \A k \in Kinds : k.num_parts \in Nat \ {0}
      /\ Server!Dimension \in Nat
  BY DimensionIs DEF Server!KeysMatch, Server!KeysMade, Server!RelinearizationAssumption
<1>k. \A k \in Kinds, seed \in Seeds :
        /\ K(k, seed) # Server!NoKey
        /\ Server!KeyDeserialize(Server!KeySerialize(K(k, seed), seed)) = K(k, seed)
  <2> TAKE k \in Kinds, seed \in Seeds
  <2> DEFINE key == Server!SecretKey(First)
  <2>1. k.num_parts \in Nat \ {0} /\ k.num_parts # 0
    BY <1>0
  <2> HIDE DEF key
  <2>2. Server!KeyDeserialize(Server!KeySerialize(Server!KeyCreate(key, seed, k), seed))
          = Server!KeyCreate(key, seed, k)
    BY <1>0, <2>1, KeyComesBack
  <2>3. Server!KeyCreate(key, seed, k) # Server!NoKey
    BY <2>1, KeyIsThere
  <2> QED
    BY <2>2, <2>3 DEF key
<1> HIDE DEF K
<1>1. Server!Init => Inv
  BY DEF Server!Init
<1>2. Inv /\ UNCHANGED keys => Inv'
  OBVIOUS
<1>3. ASSUME Inv, NEW k \in Kinds, NEW seed \in Seeds, Server!CreateKey(k, seed)
      PROVE  Inv'
  <2>1. /\ made[k] = Server!NoKey /\ made' = [made EXCEPT ![k] = K(k, seed)]
        /\ wire' = wire \cup {<<k, Server!KeySerialize(K(k, seed), seed)>>} /\ relin' = relin
    BY <1>3 DEF Server!CreateKey, K
  <2>2. made'[k] = K(k, seed) /\ \A x \in Kinds : x # k => made'[x] = made[x]
    BY <1>3, <2>1
  <2>3. DOMAIN made' = Kinds
    BY <1>3, <2>1
  <2>4. \A km \in wire : km[1] # k
    BY <1>3, <1>k, <2>1
  <2>5. ASSUME NEW km \in wire'
        PROVE  km[1] \in Kinds /\ \E x \in Seeds :
                 made'[km[1]] = K(km[1], x) /\ km[2] = Server!KeySerialize(made'[km[1]], x)
    <3>1. CASE km \in wire
      BY <1>3, <2>2, <2>4, <3>1
    <3>2. CASE km = <<k, Server!KeySerialize(K(k, seed), seed)>>
      BY <2>2, <3>2
    <3> QED
      BY <2>1, <3>1, <3>2
  <2>6. \A x \in Kinds : made'[x] # Server!NoKey => \E y \in Seeds : made'[x] = K(x, y)
    BY <1>3, <2>2
  <2>7. \A x \in Kinds : relin'[x] # Server!NoKey => relin'[x] = made'[x]
    BY <1>3, <2>1, <2>2
  <2> QED
    BY <1>3, <2>1, <2>3, <2>5, <2>6, <2>7
<1>4. ASSUME Inv, NEW km \in wire, Server!ReceiveKey(km[1], km[2])
      PROVE  Inv'
  <2>1. /\ made' = made /\ wire' \subseteq wire
        /\ relin' = relin \/ relin' = [relin EXCEPT ![km[1]] = Server!KeyDeserialize(km[2])]
    BY <1>4 DEF Server!ReceiveKey
  <2>2. PICK seed \in Seeds : /\ made[km[1]] = K(km[1], seed)
                              /\ km[2] = Server!KeySerialize(made[km[1]], seed)
    BY <1>4
  <2>3. km[1] \in Kinds
    BY <1>4
  <2>4. Server!KeyDeserialize(km[2]) = made[km[1]]
    BY <1>k, <2>2, <2>3
  <2>5. /\ DOMAIN relin' = Kinds
        /\ \A x \in Kinds : relin'[x] # Server!NoKey => relin'[x] = made[x]
    BY <1>4, <2>1, <2>4
  <2> QED
    BY <1>4, <2>1, <2>5
<1>5. ASSUME Inv, Server!Next
      PROVE  Inv'
  <2>1. CASE \E k \in Kinds, seed \in Seeds : Server!CreateKey(k, seed)
    BY <1>3, <1>5, <2>1
  <2>2. CASE \E km \in wire : Server!ReceiveKey(km[1], km[2])
    BY <1>4, <1>5, <2>2
  <2>3. CASE UNCHANGED keys
    BY <1>2, <1>5, <2>3
  <2> HIDE DEF Inv
  <2> QED
    BY <1>5, <2>1, <2>2, <2>3
       DEF Server!Next, Server!EncryptWithPrng, Server!ExpandFromPrng, Server!ExpandTogether,
           Server!Mul, Server!Substitute, Server!Relinearize, Server!Stores, Server!keyVars
<1>6. Inv /\ UNCHANGED Server!vars => Inv'
  BY <1>2 DEF Server!vars
<1> HIDE DEF Inv
<1> QED
  BY <1>0, <1>1, <1>5, <1>6, PTL DEF Server!Spec

\* What an entry of a column is once the rest of it is taken away: an error.
LEMMA ErrorIsLeft ==
  ASSUME NEW q \in Nat \ {0}, NEW a \in Int, NEW m \in 0 .. q - 1, NEW w \in 0 .. q - 1
  PROVE  ((((((((a % q) + ((m * (-1)) % q)) % q) + w) % q) + m) % q) - w) % q = a % q
<1>0. m % q = m /\ w % q = w /\ m * (-1) = 0 - m
  BY SmallResidue
<1> DEFINE x1 == ((a % q) + ((0 - m) % q)) % q
           x2 == (x1 + w) % q
           x3 == (x2 + m) % q
<1>1. x1 = (a + (0 - m)) % q
  <2>1. 0 - m \in Int
    OBVIOUS
  <2> QED
    BY <2>1, ResidueOfSum
<1> HIDE DEF x1
<1>2. x2 = (a + (0 - m) + w) % q
  <2>1. a + (0 - m) \in Int /\ w \in Int
    OBVIOUS
  <2>2. (((a + (0 - m)) % q) + (w % q)) % q = (a + (0 - m) + w) % q
    BY <2>1, ResidueOfSum
  <2> QED
    BY <1>0, <1>1, <2>2
<1> HIDE DEF x2
<1>3. x3 = (a + w) % q
  <2>1. a + (0 - m) + w \in Int /\ m \in Int /\ a + (0 - m) + w + m = a + w
    OBVIOUS
  <2>2. (((a + (0 - m) + w) % q) + (m % q)) % q = (a + (0 - m) + w + m) % q
    BY <2>1, ResidueOfSum
  <2> QED
    BY <1>0, <1>2, <2>1, <2>2
<1> HIDE DEF x3
<1>4. (x3 - w) % q = a % q
  <2>1. a + w \in Int /\ w \in Int /\ a + w - w = a
    OBVIOUS
  <2> DEFINE z == a + w
  <2>2. z \in Int /\ w \in Int /\ z - w = a
    BY <2>1
  <2> HIDE DEF z
  <2>3. ((z % q) - (w % q)) % q = (z - w) % q
    BY <2>2, ResidueOfSum
  <2>4. x3 = z % q
    BY <1>3 DEF z
  <2> QED
    BY <1>0, <2>2, <2>3, <2>4
<1> QED
  BY <1>0, <1>4 DEF x1, x2, x3

LEMMA ScaledIsReduced ==
  ASSUME NEW q \in Nat \ {0}, NEW f \in Polynomials, NEW c \in Int
  PROVE  /\ Server!RingScale(f, c, q) \in Reduced(q)
         /\ \A x \in 0 .. N - 1 : Server!RingScale(f, c, q)[x] = (f[x] * c) % q
<1>1. DOMAIN f = 0 .. N - 1 /\ \A x \in 0 .. N - 1 : f[x] \in Int
  BY DEF Polynomials
<1>2. ASSUME NEW x \in 0 .. N - 1
      PROVE  (f[x] * c) % q \in 0 .. q - 1
  <2> DEFINE y == f[x] * c
  <2>1. y \in Int
    BY <1>1
  <2> HIDE DEF y
  <2>2. y % q \in 0 .. q - 1
    BY <2>1, DivisionOf
  <2> QED
    BY <2>2 DEF y
<1> QED
  BY <1>1, <1>2 DEF Server!RingScale, Reduced

LEMMA SumIs ==
  ASSUME NEW q, NEW f, NEW g, DOMAIN f = 0 .. N - 1
  PROVE  /\ DOMAIN Server!RingAdd(f, g, q) = 0 .. N - 1
         /\ \A x \in 0 .. N - 1 : Server!RingAdd(f, g, q)[x] = (f[x] + g[x]) % q
         /\ DOMAIN Server!RingSub(f, g, q) = 0 .. N - 1
         /\ \A x \in 0 .. N - 1 : Server!RingSub(f, g, q)[x] = (f[x] - g[x]) % q
BY DEF Server!RingAdd, Server!RingSub, Server!Entrywise

LEMMA PowerIsReduced ==
  ASSUME N \in Nat, \E l \in 0 .. N : N = TwoTo[l], Modulus \in Nat \ {0},
         NEW s \in Polynomials, NEW p \in Nat, p % 2 = 1, NEW n \in Nat
  PROVE  Server!KeyPower(s, p, n) \in Reduced(Modulus)
<1> DEFINE U == Reduced(Modulus)
           base == Server!CoefficientSubstitute(s, p, Modulus)
           times(g) == Server!CoefficientMul(g, base, Modulus)
           next == [i \in Nat |-> [g \in U |-> IF i <= 1 THEN base ELSE times(g)]]
           Is(f) == f = [i \in Nat |-> IF i <= 1 THEN base ELSE times(f[i - 1])]
<1>1. base \in U
  BY SubstitutedIsReduced
<1> HIDE DEF base
<1>2. \A g \in U : times(g) \in U
  <2> TAKE g \in U
  <2>1. g \in Polynomials /\ base \in Polynomials
    BY <1>1, ReducedIsPolynomial
  <2> QED
    BY <2>1, ProductIsReduced
<1> HIDE DEF times, U
<1>3. next \in [Nat -> [U -> U]]
  BY <1>1, <1>2
<1>4. PICK F \in [Nat -> U] : Recursive(F, base, next)
  <2> HIDE DEF next
  <2> QED
    BY <1>1, <1>3, Recursion
<1>5. Is(F)
  <2>1. ASSUME NEW i \in Nat
        PROVE  F[i] = IF i <= 1 THEN base ELSE times(F[i - 1])
    <3>1. CASE i = 0
      BY <1>4, <3>1 DEF Recursive
    <3>2. CASE i # 0
      <4>1. i \in Nat \ {0} /\ i - 1 \in Nat
        BY <3>2
      <4>2. F[i] = next[i][F[i - 1]] /\ F[i - 1] \in U
        BY <1>4, <4>1 DEF Recursive
      <4> QED
        BY <4>1, <4>2
    <3> QED
      BY <3>1, <3>2
  <2> QED
    BY <2>1
<1> DEFINE G == CHOOSE f : Is(f)
<1>6. Is(G)
  <2> HIDE DEF Is
  <2> QED
    BY <1>5
<1>7. Server!KeyPower(s, p, n) = G[n]
  BY DEF Server!KeyPower, base, times
<1> HIDE DEF G
<1>8. \A i \in Nat : G[i] = IF i <= 1 THEN base ELSE times(G[i - 1])
  BY <1>6
<1> DEFINE A == {i \in Nat : G[i] \in U}
<1>9. 0 \in A
  BY <1>1, <1>8
<1>10. ASSUME NEW i \in Nat, i \in A
       PROVE  i + 1 \in A
  <2>1. G[i + 1] = IF i + 1 <= 1 THEN base ELSE times(G[i])
    BY <1>8
  <2> QED
    BY <1>1, <1>2, <1>10, <2>1
<1>11. Nat \subseteq A
  <2> HIDE DEF A
  <2> QED
    BY <1>9, <1>10, Induction
<1> QED
  BY <1>7, <1>11 DEF U

\* The residue nearest to zero.
Nearest(x, q) == IF x > q \div 2 THEN x - q ELSE x
LEMMA NearestIs ==
  ASSUME NEW c \in Int, NEW q \in Nat, 2 * c < q, -2 * c < q
  PROVE  Nearest(c % q, q) = c
<1> DEFINE x == c % q
           h == q \div 2
<1>1. h \in Nat /\ 2 * h <= q /\ q <= 2 * h + 1
  BY DivisionOf
<1>2. c >= 0 => x = c
  BY SmallResidue
<1>3. c < 0 => x = c + q
  <2> SUFFICES ASSUME c < 0 PROVE x = c + q
    OBVIOUS
  <2>1. q * (-1) + (c + q) = c /\ c + q \in 0 .. q - 1 /\ -1 \in Int /\ q \in Nat \ {0}
    OBVIOUS
  <2> QED
    BY <2>1, DivisionIs
<1> HIDE DEF x, h
<1>4. (IF x > h THEN x - q ELSE x) = c
  BY <1>1, <1>2, <1>3
<1> QED
  BY <1>4 DEF x, h, Nearest

\* The column of a part that Create makes.
LEMMA ColumnIs ==
  ASSUME Server!SchemeAssumption, Server!RelinearizationAssumption,
         Server!DrawsAssumption, NEW k \in Kinds, NEW seed \in Seeds,
         NEW j \in 1 .. k.num_parts - 1, NEW i \in 1 .. Server!Dimension,
         NEW x \in 0 .. N - 1
  PROVE  LET p == Server!KeyCreate(Server!SecretKey(First), seed, k).parts[j]
             s == Server!SecretKey(First).s
             f == Server!KeyPower(s, k.power_of_s, j)
             power == TwoTo[LogDecomposition * (i - 1)] % Modulus
             scaled == Server!RingScale(f, power, Modulus)
             product == Server!CoefficientMul(p.bottom[i], s, Modulus)
             encrypted == Server!RingAdd(p.top[i], product, Modulus)
             left == Server!RingSub(encrypted, scaled, Modulus)
             e == DrawError(RowAt(j, i, Server!Dimension))
         IN left[x] = (e[x] * Server!T) % Modulus /\ DOMAIN left = 0 .. N - 1
<1> DEFINE q == Modulus
           d == Server!Dimension
           key == Server!SecretKey(First)
           s == key.s
           f == Server!KeyPower(s, k.power_of_s, j)
           r == Draw(seed, RowAt(j, i, d))
           e == DrawError(RowAt(j, i, d))
           c == TwoTo[LogDecomposition * (i - 1)] % q
           E == Server!RingScale(e, Server!T, q)
           M == Server!CoefficientMul(r, s, q)
           O == Server!RingScale(M, -1, q)
           P == Server!RingScale(f, c, q)
           top == Server!RingAdd(Server!RingAdd(E, O, q), P, q)
           encrypted == Server!RingAdd(top, M, q)
           left == Server!RingSub(encrypted, P, q)
           rk == Server!KeyCreate(key, seed, k)
<1>0. /\ q \in Nat \ {0} /\ N \in Nat /\ d \in Nat /\ k.num_parts \in Nat \ {0} /\ j \in Nat
      /\ \E l \in 0 .. N : N = TwoTo[l]
      /\ k.power_of_s \in Nat /\ k.power_of_s % 2 = 1
  BY DimensionIs, SameTwo
     DEF Server!SchemeAssumption, Server!RelinearizationAssumption, Server!DrawsAssumption
<1>1. RowAt(j, i, d) \in 1 .. (k.num_parts - 1) * d
  <2> DEFINE n == k.num_parts - 1
  <2>1. n \in Nat /\ j \in 1 .. n /\ i \in 1 .. d /\ d \in Nat
    BY <1>0
  <2> HIDE DEF n, d
  <2> QED
    BY <2>1, RowIsThere DEF n
<1>2. r \in Polynomials /\ e \in Polynomials
  <2>1. /\ r \in [0 .. N - 1 -> 0 .. q - 1]
        /\ e \in [0 .. N - 1 -> -2 * Variance .. 2 * Variance]
    BY <1>1 DEF Server!DrawsAssumption
  <2> HIDE DEF r, e
  <2> QED
    BY <2>1 DEF Polynomials
<1>3. s \in Polynomials /\ Server!T \in Int /\ key.t = Server!T
  <2>1. Key0(First) \in Polynomials
    <3>1. Key0(First) \in [0 .. N - 1 -> -2 * Variance .. 2 * Variance]
      BY DEF Server!DrawsAssumption
    <3> QED
      BY <3>1 DEF Polynomials
  <2>2. s = Server!RingScale(Key0(First), 1, q) /\ key.t = Server!T
    BY DEF Server!SecretKey, Server!Key
  <2>3. s \in Reduced(q)
    BY <1>0, <2>1, <2>2, ScaledIsReduced
  <2>4. Server!T \in Int
    <3>1. LogT \in Nat /\ TwoTo[LogT] \in Nat
      BY PowersOfTwo DEF Server!DrawsAssumption
    <3> QED
      BY <3>1, SameTwo DEF Server!T
  <2> QED
    BY <1>0, <2>2, <2>3, <2>4, ReducedIsPolynomial
<1>4. M \in Reduced(q) /\ M \in Polynomials
  BY <1>0, <1>2, <1>3, ProductIsReduced, ReducedIsPolynomial
<1>5. f \in Polynomials /\ c \in Int
  <2>1. f \in Reduced(q)
    BY <1>0, <1>3, PowerIsReduced
  <2>2. c \in Int
    <3>1. LogDecomposition \in Nat /\ i - 1 \in Nat
      BY DEF Server!RelinearizationAssumption
    <3>2. LogDecomposition * (i - 1) \in Nat
      BY <3>1
    <3> DEFINE y == TwoTo[LogDecomposition * (i - 1)]
    <3>3. y \in Int
      BY <3>2, PowersOfTwo
    <3> HIDE DEF y
    <3>4. y % q \in Int
      BY <1>0, <3>3
    <3> QED
      BY <3>4 DEF y
  <2> QED
    BY <1>0, <2>1, <2>2, ReducedIsPolynomial
<1>6. rk.parts[j].top[i] = top /\ rk.parts[j].bottom[i] = r
  <2>1. rk.parts[j] = Server!PartCreate(key, f, seed, j)
    BY DEF Server!KeyCreate
  <2>2. key.t = Server!T
    BY <1>3
  <2> HIDE DEF f, key, rk
  <2>3. /\ Server!PartCreate(key, f, seed, j).top[i] = top
        /\ Server!PartCreate(key, f, seed, j).bottom[i] = r
    BY <2>2, SameTwo DEF Server!PartCreate, Server!Position, RowAt, Server!PowersOfT
  <2> QED
    BY <2>1, <2>3
<1> DEFINE ex == e[x] * Server!T
<1>7. ex \in Int /\ E[x] = ex % q /\ DOMAIN E = 0 .. N - 1
  <2>1. e[x] \in Int
    BY <1>2 DEF Polynomials
  <2>2. E \in Reduced(q) /\ E[x] = (e[x] * Server!T) % q
    BY <1>0, <1>2, <1>3, ScaledIsReduced
  <2> HIDE DEF E, e
  <2> QED
    BY <1>3, <2>1, <2>2 DEF Reduced
<1>8. M[x] \in 0 .. q - 1 /\ O[x] = (M[x] * (-1)) % q
  <2> HIDE DEF M
  <2>1. M[x] \in 0 .. q - 1 /\ -1 \in Int
    BY <1>4 DEF Reduced
  <2>2. O[x] = (M[x] * (-1)) % q
    BY <1>0, <1>4, <2>1, ScaledIsReduced
  <2> QED
    BY <2>1, <2>2
<1>9. P[x] \in 0 .. q - 1
  <2>1. P \in Reduced(q)
    BY <1>0, <1>5, ScaledIsReduced
  <2> HIDE DEF P
  <2> QED
    BY <2>1 DEF Reduced
<1> HIDE DEF E, M, O, P, ex
<1>10. /\ DOMAIN left = 0 .. N - 1
       /\ left[x] = (((((((E[x] + O[x]) % q) + P[x]) % q) + M[x]) % q) - P[x]) % q
  <2> DEFINE a == Server!RingAdd(E, O, q)
  <2>1. DOMAIN a = 0 .. N - 1 /\ a[x] = (E[x] + O[x]) % q
    BY <1>7, SumIs
  <2> HIDE DEF a
  <2>2. /\ DOMAIN Server!RingAdd(a, P, q) = 0 .. N - 1
        /\ Server!RingAdd(a, P, q)[x] = (a[x] + P[x]) % q
    BY <2>1, SumIs, ZenonT(60)
  <2>3. top = Server!RingAdd(a, P, q)
    BY DEF a
  <2> HIDE DEF top
  <2>4. DOMAIN encrypted = 0 .. N - 1 /\ encrypted[x] = (top[x] + M[x]) % q
    BY <2>2, <2>3, SumIs, ZenonT(60)
  <2> HIDE DEF encrypted
  <2>5. DOMAIN left = 0 .. N - 1 /\ left[x] = (encrypted[x] - P[x]) % q
    BY <2>4, SumIs
  <2> HIDE DEF left
  <2> QED
    BY <2>1, <2>2, <2>3, <2>4, <2>5
<1>11. left[x] = ex % q
  <2> DEFINE m == M[x]
             w == P[x]
  <2>1. m \in 0 .. q - 1 /\ w \in 0 .. q - 1
    BY <1>8, <1>9
  <2>2. left[x] = ((((((((ex % q) + ((m * (-1)) % q)) % q) + w) % q) + m) % q) - w) % q
    BY <1>7, <1>8, <1>10
  <2> HIDE DEF left, m, w, q
  <2>3. ((((((((ex % q) + ((m * (-1)) % q)) % q) + w) % q) + m) % q) - w) % q = ex % q
    BY <1>0, <1>7, <2>1, ErrorIsLeft
  <2> QED
    BY <2>2, <2>3
<1> DEFINE p == rk.parts[j]
           there == Server!RingAdd(p.top[i], Server!CoefficientMul(p.bottom[i], s, q), q)
<1>12. there = encrypted
  <2> HIDE DEF top, rk
  <2> QED
    BY <1>6 DEF M
<1> HIDE DEF encrypted, there
<1>13. /\ Server!RingSub(there, P, q)[x] = ex % q
       /\ DOMAIN Server!RingSub(there, P, q) = 0 .. N - 1
  BY <1>10, <1>11, <1>12
<1> QED
  BY <1>13 DEF there, P, ex

\* relinearization_key.cc and galois_key.h, Part::Create, Serialize and Deserialize: for
\* keys of any number of parts and columns, the server's half that is drawn again from
\* the seed belongs to the half that was sent, and column i of part j encrypts the power
\* i - 1 of the base times the power j of the secret key, but for t times a small error.
THEOREM KeysMatchAlways ==
  ASSUME Server!SchemeAssumption, Server!RelinearizationAssumption, Server!DrawsAssumption
  PROVE  Server!Spec => [](Server!KeysMatch /\ Server!ColumnsEncrypt)
<1>1. ASSUME Server!KeysMatch
      PROVE  Server!ColumnsEncrypt
  <2> SUFFICES ASSUME NEW k \in Kinds, relin[k] # Server!NoKey,
                      NEW j \in DOMAIN relin[k].parts, NEW i \in 1 .. Server!Dimension
               PROVE  LET p == relin[k].parts[j]
                          s == Server!SecretKey(First).s
                          encrypted == Server!RingAdd(p.top[i],
                            Server!CoefficientMul(p.bottom[i], s, Modulus), Modulus)
                          left == Server!RingSub(encrypted,
                            Server!RingScale(Server!KeyPower(s, k.power_of_s, j),
                              Server!TwoTo[LogDecomposition * (i - 1)] % Modulus, Modulus),
                            Modulus)
                      IN \A x \in DOMAIN left :
                           LET e == Server!Centered(left[x], Modulus)
                           IN e % Server!T = 0 /\ -2 * Variance * Server!T <= e
                                /\ e <= 2 * Variance * Server!T
    BY DEF Server!ColumnsEncrypt
  <2>1. PICK seed \in Seeds :
          relin[k] = Server!KeyCreate(Server!SecretKey(First), seed, k)
    <3>1. relin[k] = made[k] /\ made[k] # Server!NoKey
      BY <1>1 DEF Server!KeysMatch
    <3>2. \E seed \in Seeds : made[k] = Server!KeyCreate(Server!SecretKey(First), seed, k)
      BY <1>1, <3>1 DEF Server!KeysMatch, Server!KeysMade
    <3> QED
      BY <3>1, <3>2
  <2> DEFINE p == relin[k].parts[j]
             s == Server!SecretKey(First).s
             product == Server!CoefficientMul(p.bottom[i], s, Modulus)
             encrypted == Server!RingAdd(p.top[i], product, Modulus)
             scaled == Server!RingScale(Server!KeyPower(s, k.power_of_s, j),
                         TwoTo[LogDecomposition * (i - 1)] % Modulus, Modulus)
             left == Server!RingSub(encrypted, scaled, Modulus)
             drawnError == DrawError(RowAt(j, i, Server!Dimension))
             t == Server!T
  <2>2. j \in 1 .. k.num_parts - 1
    BY <2>1 DEF Server!KeyCreate
  <2>3. \A x \in 0 .. N - 1 :
          left[x] = (drawnError[x] * t) % Modulus /\ DOMAIN left = 0 .. N - 1
    BY <2>1, <2>2, ColumnIs
  <2>4. /\ drawnError \in [0 .. N - 1 -> -2 * Variance .. 2 * Variance]
        /\ Variance \in Nat /\ Modulus \in Nat \ {0} /\ t \in Nat \ {0}
        /\ 4 * Variance * t < Modulus
    <3>1. RowAt(j, i, Server!Dimension) \in 1 .. (k.num_parts - 1) * Server!Dimension
      <4> DEFINE n == k.num_parts - 1
                 d == Server!Dimension
      <4>1. n \in Nat /\ j \in 1 .. n /\ i \in 1 .. d /\ d \in Nat
        BY <2>2, DimensionIs DEF Server!RelinearizationAssumption
      <4> HIDE DEF n, d
      <4> QED
        BY <4>1, RowIsThere DEF n, d
    <3>2. t \in Nat \ {0}
      <4>1. LogT \in Nat /\ TwoTo[LogT] \in Nat
        BY PowersOfTwo DEF Server!DrawsAssumption
      <4> QED
        BY <4>1, SameTwo DEF Server!T
    <3> QED
      BY <3>1, <3>2, SameTwo DEF Server!RelinearizationAssumption, Server!DrawsAssumption
  <2> HIDE DEF left, t, drawnError
  <2>5. ASSUME NEW x \in DOMAIN left
        PROVE  LET e == Server!Centered(left[x], Modulus)
               IN e % t = 0 /\ -2 * Variance * t <= e /\ e <= 2 * Variance * t
    <3>1. x \in 0 .. N - 1 /\ left[x] = (drawnError[x] * t) % Modulus
      <4>1. N \in Nat \ {0} /\ 0 \in 0 .. N - 1
        BY DEF Server!SchemeAssumption
      <4> QED
        BY <2>3, <4>1
    <3> DEFINE c == drawnError[x]
               ct1 == c * t
    <3>2. c \in Int /\ -2 * Variance <= c /\ c <= 2 * Variance
      BY <2>4, <3>1
    <3> HIDE DEF c
    <3>3. /\ ct1 \in Int /\ (-2 * Variance) * t <= ct1 /\ ct1 <= (2 * Variance) * t
          /\ (-2 * Variance) * t = -2 * Variance * t /\ (2 * Variance) * t = 2 * Variance * t
          /\ 4 * Variance * t = 2 * (2 * Variance * t)
          /\ -2 * Variance * t = 0 - 2 * Variance * t
      <4>1. ct1 \in Int
        BY <2>4, <3>2
      <4>2. (-2 * Variance) * t <= c * t /\ c * t <= (2 * Variance) * t
        BY <2>4, <3>2
      <4> QED
        BY <2>4, <4>1, <4>2
    <3>4. ct1 % t = 0
      <4>1. ct1 = t * c + 0 /\ 0 \in 0 .. t - 1
        BY <2>4, <3>2
      <4> QED
        BY <2>4, <3>2, <4>1, DivisionIs
    <3> HIDE DEF ct1
    <3> DEFINE b == 2 * Variance * t
    <3>5. b \in Int /\ 2 * b < Modulus /\ 0 - b <= ct1 /\ ct1 <= b
      BY <2>4, <3>3
    <3> HIDE DEF b
    <3>6. 2 * ct1 < Modulus /\ -2 * ct1 < Modulus
      BY <2>4, <3>3, <3>5
    <3>7. Nearest(ct1 % Modulus, Modulus) = ct1
      BY <2>4, <3>3, <3>6, NearestIs
    <3>8. Server!Centered(left[x], Modulus) = ct1
      BY <3>1, <3>7 DEF Nearest, Server!Centered, ct1, c
    <3> QED
      BY <3>3, <3>4, <3>8
  <2> QED
    BY <2>5, SameTwo DEF left, t
<1> QED
  BY <1>1, KeysCarried, PTL

-----------------------------------------------------------------------------
(* Keys for several moduli: symmetric_encryption.h *)

CONSTANTS Moduli, Keys, Errors, Uniform(_), Messages, Scalars(_)
VARIABLES key, raised
Encryption == INSTANCE RlweEncryption

\* What KeySwitchModulus does with a coefficient before it reduces it.
Brought(x, p, q, w) == IF x > p \div 2 THEN (x - (p % q)) % w ELSE x

\* A coefficient that is small next to both moduli is brought from one to the other.
LEMMA CoefficientSwitched ==
  ASSUME NEW c \in Int, NEW p \in Nat, NEW q \in Nat \ {0}, NEW w \in Nat,
         2 * c < p, -2 * c < p, q < p, p < w
  PROVE  Brought(c % p, p, q, w) % q = c % q
<1> USE DEF Brought
<1> DEFINE x == c % p
           h == p \div 2
           r == p % q
<1>1. /\ x \in 0 .. p - 1
      /\ h \in Nat /\ 2 * h <= p /\ p <= 2 * h + 1
  BY DivisionOf
<1>2. c >= 0 => x = c
  BY SmallResidue
<1>3. c < 0 => x = c + p
  <2> SUFFICES ASSUME c < 0 PROVE x = c + p
    OBVIOUS
  <2>1. p * (-1) + (c + p) = c /\ c + p \in 0 .. p - 1 /\ -1 \in Int /\ p \in Nat \ {0}
    OBVIOUS
  <2> QED
    BY <2>1, DivisionIs
<1>4. r \in Nat /\ r <= h /\ \E k \in Int : p = r + k * q
  <2> DEFINE k == p \div q
  <2>1. p = q * k + r /\ r \in 0 .. q - 1 /\ k \in Int
    BY DivisionOf
  <2> HIDE DEF k, r, h
  <2>2. k >= 1
    <3> SUFFICES ASSUME k <= 0 PROVE FALSE
      BY <2>1
    <3>1. q * k <= 0
      BY <2>1
    <3> QED
      BY <2>1, <3>1
  <2>3. q * k >= q
    BY <2>1, <2>2
  <2>4. 2 * r <= p
    BY <2>1, <2>3
  <2>5. k * q = q * k
    BY <2>1
  <2> QED
    BY <1>1, <2>1, <2>4, <2>5
<1> HIDE DEF h, r
<1>5. CASE c >= 0
  <2>1. ~(x > h)
    BY <1>1, <1>2, <1>5
  <2> QED
    BY <1>2, <1>5, <2>1 DEF h
<1>6. CASE c < 0
  <2>1. x > h /\ x - r \in Nat /\ x - r < w
    BY <1>1, <1>3, <1>4, <1>6
  <2>2. (x - r) % w = x - r
    BY <2>1, SmallResidue
  <2>3. Same(x - r, c, q)
    <3>1. PICK k \in Int : p = r + k * q
      BY <1>4
    <3>2. k * q \in Int
      BY <3>1
    <3>3. x - r = c + k * q
      BY <1>3, <1>4, <1>6, <3>1, <3>2
    <3> QED
      BY <3>3 DEF Same
  <2>4. (x - r) % q = c % q
    <3>1. \A a, b \in Int : Same(a, b, q) => a % q = b % q
      BY SameResidue
    <3>2. x - r \in Int
      BY <2>1
    <3> QED
      BY <2>3, <3>1, <3>2, Zenon
  <2> QED
    BY <2>1, <2>2, <2>4 DEF h, r
<1> QED
  BY <1>5, <1>6

LEMMA SameTwoTo == Encryption!TwoTo = TwoTo
BY DEF Encryption!TwoTo, TwoTo

\* The key of a polynomial for a smaller modulus is the key of it.
LEMMA KeySwitched ==
  ASSUME Encryption!KeysAssumption, NEW f \in Keys, NEW p \in Moduli, NEW q \in Moduli,
         Moduli \subseteq Nat \ {0}, p > q
  PROVE  Encryption!KeySwitchModulus(Encryption!Key(f, p), q) = Encryption!Key(f, q)
<1> DEFINE w == TwoTo[WordBits]
           s == Encryption!Key(f, p).s
           moved(x) == IF x > p \div 2 THEN (x - (p % q)) % w ELSE x
<1>1. /\ f \in [0 .. N - 1 -> -2 * Variance .. 2 * Variance] /\ Variance \in Nat
      /\ p \in Nat \ {0} /\ q \in Nat \ {0} /\ q < p /\ 4 * Variance < p /\ p < w /\ w \in Nat
  BY SameTwoTo, PowersOfTwo DEF Encryption!KeysAssumption
<1>2. s = [i \in 0 .. N - 1 |-> (f[i] * 1) % p] /\ Encryption!Key(f, p).q = p
  BY <1>1 DEF Encryption!Key, Encryption!RingScale
<1>3. Encryption!Key(f, q) =
        [s |-> [i \in 0 .. N - 1 |-> (f[i] * 1) % q], q |-> q, t |-> Encryption!T]
  BY <1>1 DEF Encryption!Key, Encryption!RingScale
<1>4. Encryption!KeySwitchModulus(Encryption!Key(f, p), q) =
        [s |-> [i \in DOMAIN s |-> moved(s[i]) % q], q |-> q, t |-> Encryption!T]
  BY <1>2, SameTwoTo DEF Encryption!KeySwitchModulus
<1> HIDE DEF w, s
<1>5. ASSUME NEW i \in 0 .. N - 1
      PROVE  moved(s[i]) % q = (f[i] * 1) % q
  <2>1. f[i] \in Int /\ f[i] * 1 = f[i] /\ 2 * f[i] < p /\ -2 * f[i] < p
    BY <1>1, <1>5
  <2>2. s[i] = f[i] % p
    BY <1>2, <1>5, <2>1
  <2>3. moved(s[i]) % q = f[i] % q
    <3> DEFINE c == f[i]
               y == s[i]
    <3>1. c \in Int /\ 2 * c < p /\ -2 * c < p /\ y = c % p
      BY <2>1, <2>2
    <3> HIDE DEF c, y
    <3>2. q \in Nat \ {0} /\ q < p /\ p \in Nat /\ p < w /\ w \in Nat
      BY <1>1
    <3>3. Brought(c % p, p, q, w) % q = c % q
      BY <3>1, <3>2, CoefficientSwitched, ZenonT(60)
    <3>4. Brought(y, p, q, w) % q = c % q
      BY <3>1, <3>3
    <3> QED
      BY <3>4 DEF c, y, Brought
  <2> HIDE DEF moved
  <2> QED
    BY <2>1, <2>3
<1>6. [i \in DOMAIN s |-> moved(s[i]) % q] = [i \in 0 .. N - 1 |-> (f[i] * 1) % q]
  <2> HIDE DEF moved
  <2> QED
    BY <1>2, <1>5
<1> QED
  BY <1>3, <1>4, <1>6

\* There is a key of its own for every modulus.
LEMMA KeyIsNone ==
  ASSUME NEW f, NEW q \in Nat \ {0}
  PROVE  Encryption!Key(f, q) # Encryption!NoKey
BY DEF Encryption!Key, Encryption!NoKey

\* A coefficient that is small and not negative stays as it is, whatever the moduli.
LEMMA CoefficientKept ==
  ASSUME NEW c \in Nat, NEW p \in Nat, NEW q \in Nat, NEW w \in Nat, 2 * c < p, 2 * c < q
  PROVE  Brought(c, p, q, w) % q = c
<1>1. p \div 2 \in Nat /\ p <= 2 * (p \div 2) + 1
  BY DivisionOf
<1>2. ~(c > p \div 2)
  BY <1>1
<1>3. Brought(c, p, q, w) = c
  BY <1>2 DEF Brought
<1> QED
  BY <1>3, SmallResidue

\* The key of a modulus, as it is after a switch from any other: what it is of the
\* polynomial that was sampled.
LEMMA KeyOfSwitched ==
  ASSUME Encryption!KeysAssumption, NEW f \in Keys, NEW p \in Moduli, NEW q \in Moduli,
         Moduli \subseteq Nat \ {0}, p # q, Encryption!KeyOf(f, p),
         DOMAIN key = Moduli, key' = [key EXCEPT ![q] = Encryption!KeySwitchModulus(key[p], q)],
         p < q \/ p \in raised.keys => q \in raised'.keys
  PROVE  Encryption!KeyOf(f, q)'
<1> DEFINE w == TwoTo[WordBits]
           k == Encryption!KeySwitchModulus(key[p], q)
           moved(x) == IF x > p \div 2 THEN (x - (p % q)) % w ELSE x
<1>1. /\ f \in [0 .. N - 1 -> -2 * Variance .. 2 * Variance] /\ Variance \in Nat
      /\ p \in Nat \ {0} /\ q \in Nat \ {0} /\ 4 * Variance < p /\ 4 * Variance < q /\ w \in Nat
  BY SameTwoTo, PowersOfTwo DEF Encryption!KeysAssumption
<1>2. /\ key[p].q = p /\ DOMAIN key[p].s = 0 .. N - 1
      /\ \A i \in 0 .. N - 1 : f[i] >= 0 => key[p].s[i] = f[i]
  BY DEF Encryption!KeyOf
<1>3. key'[q] = k
  OBVIOUS
<1>4. k = [s |-> [i \in 0 .. N - 1 |-> moved(key[p].s[i]) % q], q |-> q, t |-> Encryption!T]
  BY <1>2, SameTwoTo DEF Encryption!KeySwitchModulus
<1>5. ASSUME q \notin raised'.keys
      PROVE  k = Encryption!Key(f, q)
  <2>1. p > q /\ p \notin raised.keys
    BY <1>1, <1>5
  <2>2. key[p] = Encryption!Key(f, p)
    BY <2>1 DEF Encryption!KeyOf
  <2> QED
    BY <2>1, <2>2, KeySwitched
<1>6. ASSUME NEW i \in 0 .. N - 1, f[i] >= 0
      PROVE  moved(key[p].s[i]) % q = f[i]
  <2> DEFINE c == f[i]
  <2>1. key[p].s[i] = c
    BY <1>2, <1>6
  <2>2. c \in Nat /\ 2 * c < p /\ 2 * c < q
    BY <1>1, <1>6
  <2> HIDE DEF c, w
  <2>3. Brought(c, p, q, w) % q = c
    BY <1>1, <2>2, CoefficientKept
  <2> QED
    BY <2>1, <2>3 DEF Brought, c
<1> HIDE DEF moved, k
<1>7. k.q = q /\ k.s = [i \in 0 .. N - 1 |-> moved(key[p].s[i]) % q]
  BY <1>4
<1>8. DOMAIN k.s = 0 .. N - 1 /\ \A i \in 0 .. N - 1 : f[i] >= 0 => k.s[i] = f[i]
  BY <1>6, <1>7
<1> QED
  BY <1>3, <1>5, <1>7, <1>8 DEF Encryption!KeyOf

\* The key that was sampled is of its polynomial.
LEMMA KeyOfSampled ==
  ASSUME Encryption!KeysAssumption, NEW f \in Keys, NEW q \in Moduli,
         Moduli \subseteq Nat \ {0}
  PROVE  LET k == Encryption!Key(f, q)
         IN /\ k.q = q /\ DOMAIN k.s = 0 .. N - 1
            /\ \A i \in 0 .. N - 1 : f[i] >= 0 => k.s[i] = f[i]
<1> DEFINE k == Encryption!Key(f, q)
<1>1. /\ f \in [0 .. N - 1 -> -2 * Variance .. 2 * Variance] /\ Variance \in Nat
      /\ q \in Nat \ {0} /\ 4 * Variance < q
  BY DEF Encryption!KeysAssumption
<1>2. k.q = q /\ k.s = [i \in 0 .. N - 1 |-> (f[i] * 1) % q]
  BY <1>1 DEF Encryption!Key, Encryption!RingScale
<1> HIDE DEF k
<1>3. ASSUME NEW i \in 0 .. N - 1, f[i] >= 0
      PROVE  k.s[i] = f[i]
  <2>1. f[i] \in Nat /\ f[i] * 1 = f[i] /\ f[i] < q
    BY <1>1, <1>3
  <2>2. f[i] % q = f[i]
    BY <1>1, <2>1, SmallResidue
  <2> QED
    BY <1>2, <1>3, <2>1, <2>2
<1> QED
  BY <1>2, <1>3 DEF k

LEMMA KeysSwitchedAlways ==
  ASSUME Encryption!EncryptionAssumption, Encryption!KeysAssumption
  PROVE  Encryption!Spec => []Encryption!KeysSwitched
<1> USE DEF Encryption!HasKey
<1>0. Modulus \in Moduli /\ Moduli \subseteq Nat \ {0}
  BY DEF Encryption!EncryptionAssumption
<1>1. Encryption!Init => Encryption!KeysSwitched
  BY DEF Encryption!Init, Encryption!KeysSwitched
<1>2. ASSUME Encryption!KeysSwitched, UNCHANGED key, raised'.keys = raised.keys
      PROVE  Encryption!KeysSwitched'
  <2>1. \A f, q : Encryption!KeyOf(f, q) => Encryption!KeyOf(f, q)'
    BY <1>2 DEF Encryption!KeyOf
  <2> QED
    BY <1>2, <2>1 DEF Encryption!KeysSwitched
<1>3. ASSUME Encryption!KeysSwitched, NEW f \in Keys, Encryption!SampleKey(f)
      PROVE  Encryption!KeysSwitched'
  <2>1. /\ DOMAIN key = Moduli /\ \A q \in Moduli : key[q] = Encryption!NoKey
        /\ key' = [key EXCEPT ![Modulus] = Encryption!Key(f, Modulus)]
        /\ raised' = raised /\ Modulus \notin raised.keys
    BY <1>3 DEF Encryption!KeysSwitched, Encryption!SampleKey
  <2>2. key'[Modulus] = Encryption!Key(f, Modulus) /\ key'[Modulus] # Encryption!NoKey
    BY <1>0, <2>1, KeyIsNone
  <2>3. \A q \in Moduli : q # Modulus => key'[q] = Encryption!NoKey
    BY <2>1
  <2>4. DOMAIN key' = Moduli /\ Modulus \notin raised'.keys
    BY <2>1
  <2>5. Encryption!KeyOf(f, Modulus)'
    BY <1>0, <2>2, KeyOfSampled DEF Encryption!KeyOf
  <2> QED
    BY <2>2, <2>3, <2>4, <2>5 DEF Encryption!KeysSwitched
<1>4. ASSUME Encryption!KeysSwitched, NEW p \in Moduli, NEW q \in Moduli,
             Encryption!SwitchKey(p, q)
      PROVE  Encryption!KeysSwitched'
  <2>1. /\ DOMAIN key = Moduli /\ key[Modulus] # Encryption!NoKey
        /\ key[p] # Encryption!NoKey /\ key[q] = Encryption!NoKey /\ p # q /\ q # Modulus
        /\ key' = [key EXCEPT ![q] = Encryption!KeySwitchModulus(key[p], q)]
        /\ Modulus \notin raised.keys
    BY <1>4 DEF Encryption!KeysSwitched, Encryption!SwitchKey, Encryption!Operates
  <2>2. PICK f \in Keys :
          \A x \in Moduli : key[x] # Encryption!NoKey => Encryption!KeyOf(f, x)
    BY <1>4, <2>1 DEF Encryption!KeysSwitched
  <2>3. /\ \A x : x # q => (x \in raised'.keys <=> x \in raised.keys)
        /\ p < q \/ p \in raised.keys => q \in raised'.keys
    <3>1. CASE p < q \/ p \in raised.keys
      <4>1. raised' = [raised EXCEPT !.keys = @ \cup {q}]
        BY <1>4, <3>1 DEF Encryption!SwitchKey
      <4> QED
        BY <4>1
    <3>2. CASE ~(p < q \/ p \in raised.keys)
      BY <1>4, <3>2 DEF Encryption!SwitchKey
    <3> QED
      BY <3>1, <3>2
  <2>4. Encryption!KeyOf(f, q)'
    BY <1>0, <2>1, <2>2, <2>3, KeyOfSwitched
  <2>5. ASSUME NEW x \in Moduli, x # q, Encryption!KeyOf(f, x)
        PROVE  Encryption!KeyOf(f, x)'
    <3>1. key'[x] = key[x] /\ (x \in raised'.keys <=> x \in raised.keys)
      BY <2>1, <2>3, <2>5
    <3> QED
      BY <2>5, <3>1 DEF Encryption!KeyOf
  <2>6. /\ DOMAIN key' = Moduli /\ Modulus \notin raised'.keys
        /\ \A x \in Moduli : x # q => key'[x] = key[x]
    BY <1>0, <2>1, <2>3
  <2>7. \A x \in Moduli : key'[x] # Encryption!NoKey => Encryption!KeyOf(f, x)'
    BY <2>2, <2>4, <2>5, <2>6
  <2>8. key'[Modulus] # Encryption!NoKey
    BY <1>0, <2>1, <2>6
  <2> QED
    BY <2>6, <2>7, <2>8 DEF Encryption!KeysSwitched
<1>5. ASSUME Encryption!KeysSwitched, Encryption!Next
      PROVE  Encryption!KeysSwitched'
  <2>1. CASE \E f \in Keys : Encryption!SampleKey(f)
    BY <1>3, <1>5, <2>1
  <2>2. CASE \E p, q \in Moduli : Encryption!SwitchKey(p, q)
    BY <1>4, <1>5, <2>2
  <2>3. CASE UNCHANGED <<key, raised>>
    BY <1>2, <1>5, <2>3
  <2>4. CASE \E r \in Encryption!Regs, q \in Moduli : Encryption!SwitchCiphertext(r, q)
    <3>1. PICK r \in Encryption!Regs, q \in Moduli : Encryption!SwitchCiphertext(r, q)
      BY <2>4
    <3>2. key' = key /\ raised' = [raised EXCEPT !.ciphertext = @ \/ ct[r].q < q]
      BY <3>1 DEF Encryption!SwitchCiphertext, Encryption!Stores
    <3>3. raised'.keys = raised.keys
      BY <3>2
    <3> QED
      BY <1>2, <1>5, <3>2, <3>3
  <2>5. ASSUME NEW r \in Encryption!Regs, NEW q \in Moduli, NEW m \in Messages,
               Encryption!EncryptMessage(r, q, m)
        PROVE  UNCHANGED <<key, raised>>
    BY <2>5 DEF Encryption!EncryptMessage, Encryption!Receives, Encryption!Stores
  <2>6. ASSUME NEW r \in Encryption!Regs,
               \/ \E m \in Messages : Encryption!AbsorbMessage(r, m)
               \/ \E x \in Scalars(ct[r].q) : Encryption!AbsorbNumber(r, x)
               \/ \E power \in Encryption!Powers : Encryption!Substitute(r, power)
        PROVE  UNCHANGED <<key, raised>>
    BY <2>6 DEF Encryption!AbsorbMessage, Encryption!AbsorbNumber, Encryption!Substitute,
                Encryption!Receives, Encryption!Stores
  <2>7. ASSUME NEW r \in Encryption!Regs, NEW power, Encryption!AbsorbMonomial(r, power)
        PROVE  UNCHANGED <<key, raised>>
    BY <2>7 DEF Encryption!AbsorbMonomial, Encryption!Receives, Encryption!Stores
  <2>8. ASSUME NEW r \in Encryption!Regs, NEW r2 \in Encryption!Regs,
               \/ Encryption!Add(r, r2) \/ Encryption!Sub(r, r2)
               \/ Encryption!Mul(r, r2) \/ Encryption!Send(r, r2)
        PROVE  UNCHANGED <<key, raised>>
    BY <2>8 DEF Encryption!Add, Encryption!Sub, Encryption!Mul, Encryption!Send,
                Encryption!Receives, Encryption!Stores
  <2> QED
    BY <1>5, <2>1, <2>2, <2>3, <2>4, <2>5, <2>6, <2>7, <2>8 DEF Encryption!Next
<1>6. Encryption!KeysSwitched /\ UNCHANGED Encryption!vars => Encryption!KeysSwitched'
  BY <1>2 DEF Encryption!vars
<1> QED
  BY <1>1, <1>5, <1>6, PTL DEF Encryption!Spec

\* symmetric_encryption.h, SwitchModulus of keys: however it got there, a key for another
\* modulus has the coefficients of the one that was sampled, with their signs; of one
\* that was switched to a larger modulus on the way, this holds of those that are not
\* negative, whatever the subtraction of words makes of the others.
THEOREM KeysAgreeAlways ==
  ASSUME Encryption!EncryptionAssumption, Encryption!KeysAssumption
  PROVE  Encryption!Spec => []Encryption!KeysAgree
<1>1. Encryption!KeysSwitched => Encryption!KeysAgree
  <2> SUFFICES ASSUME Encryption!KeysSwitched, NEW q \in Moduli, Encryption!HasKey(q)
               PROVE  \A i \in 0 .. N - 1 :
                        LET c == Encryption!Centered(key[Modulus].s[i], Modulus)
                        IN q \notin raised.keys \/ c >= 0 =>
                             Encryption!Centered(key[q].s[i], q) = c
    BY DEF Encryption!KeysAgree
  <2>0. Modulus \in Moduli /\ Modulus \notin raised.keys /\ Encryption!HasKey(Modulus)
    BY DEF Encryption!KeysSwitched, Encryption!EncryptionAssumption
  <2>1. PICK f \in Keys :
          \A x \in Moduli : Encryption!HasKey(x) => Encryption!KeyOf(f, x)
    BY DEF Encryption!KeysSwitched
  <2>2. ASSUME NEW x \in Moduli, Encryption!HasKey(x), NEW i \in 0 .. N - 1,
               x \notin raised.keys \/ f[i] >= 0
        PROVE  Encryption!Centered(key[x].s[i], x) = f[i]
    <3>1. /\ f \in [0 .. N - 1 -> -2 * Variance .. 2 * Variance] /\ Variance \in Nat
          /\ x \in Nat /\ 4 * Variance < x
      BY DEF Encryption!KeysAssumption, Encryption!EncryptionAssumption
    <3>2. f[i] \in Int /\ f[i] * 1 = f[i] /\ 2 * f[i] < x /\ -2 * f[i] < x
      BY <3>1
    <3>3. key[x].s[i] = f[i] % x
      <4>1. CASE x \notin raised.keys
        <5>1. key[x] = Encryption!Key(f, x)
          BY <2>1, <2>2, <4>1 DEF Encryption!KeyOf
        <5>2. Encryption!Key(f, x).s = [j \in 0 .. N - 1 |-> (f[j] * 1) % x]
          BY <3>1 DEF Encryption!Key, Encryption!RingScale
        <5> QED
          BY <3>2, <5>1, <5>2
      <4>2. CASE f[i] >= 0
        <5>1. key[x].s[i] = f[i]
          BY <2>1, <2>2, <4>2 DEF Encryption!KeyOf
        <5>2. f[i] \in Nat /\ f[i] < x
          BY <3>1, <3>2, <4>2
        <5> QED
          BY <3>1, <5>1, <5>2, SmallResidue
      <4> QED
        BY <2>2, <4>1, <4>2
    <3> DEFINE c == f[i]
               y == key[x].s[i]
    <3>4. c \in Int /\ 2 * c < x /\ -2 * c < x /\ y = c % x
      BY <3>2, <3>3
    <3> HIDE DEF c, y
    <3>5. Nearest(y, x) = c
      BY <3>1, <3>4, NearestIs, Zenon
    <3> QED
      BY <3>5 DEF Encryption!Centered, Nearest, c, y
  <2>3. \A i \in 0 .. N - 1 : Encryption!Centered(key[Modulus].s[i], Modulus) = f[i]
    BY <2>0, <2>2
  <2> QED
    BY <2>2, <2>3
<1> QED
  BY <1>1, KeysSwitchedAlways, PTL

-----------------------------------------------------------------------------
(* The state machine of transcription.h *)

CONSTANTS IntBits, MaxInts
VARIABLES chunk, length, call, input, s, bytes
Serial == INSTANCE Transcription

\* The integer of b bits that a bit is in, and which digit of it.
Chunk(x, b) == x \div b + 1
Within(x, b) == x % b

\* Transcription runs the loop that was reasoned about.
LEMMA SameLoop ==
  ASSUME NEW a, NEW L, NEW I, NEW O, NEW iT, NEW oT, NEW r
  PROVE  /\ Serial!TwoTo = TwoTo
         /\ Serial!CeilDiv(L, I) = CeilDiv(L, I)
         /\ Serial!Refused(a, L, I, O, iT, oT) <=> Refused(a, L, I, O, iT, oT)
         /\ Serial!TranscribeStart(L, I, O) = TranscribeStart(L, I, O)
         /\ Serial!TranscribeDone(r, L, I) <=> TranscribeDone(r, L, I)
         /\ Serial!TranscribeStep(r, a, L, I, O, iT, oT) = TranscribeStep(r, a, L, I, O, iT, oT)
         /\ \A j : Serial!BitAt(a, I, j) = Digit(a[Chunk(j, I)], Within(j, I))
<1>1. Serial!TwoTo = TwoTo
  BY DEF Serial!TwoTo, TwoTo
<1>2. \A x, y : Serial!Least(x, y) = Least(x, y)
  BY DEF Serial!Least, Least, Serial!Min, Min
<1>3. \A x, y : Serial!CeilDiv(x, y) = CeilDiv(x, y)
  BY DEF Serial!CeilDiv, CeilDiv
<1>4. \A x, k : Serial!ShiftRight(x, k) = ShiftRight(x, k)
  BY <1>1 DEF Serial!ShiftRight, ShiftRight
<1>5. \A x, k, w : Serial!ShiftLeft(x, k, w) = ShiftLeft(x, k, w)
  BY <1>1 DEF Serial!ShiftLeft, ShiftLeft
<1>6. Serial!TranscribeStart(L, I, O) = TranscribeStart(L, I, O)
  BY <1>2, <1>3 DEF Serial!TranscribeStart, TranscribeStart
<1>7. \A q : Serial!NextOutput(q, O) = NextOutput(q, O)
  BY <1>2 DEF Serial!NextOutput, NextOutput
<1>8. \A x, q, n : Serial!Moved(x, q, n, I, iT, oT) = Moved(x, q, n, I, iT, oT)
  BY <1>1, <1>2, <1>4, <1>5 DEF Serial!Moved, Moved, Serial!Loaded, Loaded
<1>9. Serial!TranscribeStep(r, a, L, I, O, iT, oT) = TranscribeStep(r, a, L, I, O, iT, oT)
  <2> DEFINE q == NextOutput(r, O)
             n == Least(q.left, q.need)
             moved == Moved(a[q.i], q, n, I, iT, oT)
  <2>1. Serial!NextOutput(r, O) = q /\ Serial!Least(q.left, q.need) = n
        /\ Serial!Moved(a[q.i], q, n, I, iT, oT) = moved
    BY <1>2, <1>7, <1>8
  <2>2. /\ Serial!ShiftLeft(moved, q.size - q.need, oT) = ShiftLeft(moved, q.size - q.need, oT)
        /\ Serial!Least(I, q.remaining - I) = Least(I, q.remaining - I)
    BY <1>2, <1>5
  <2> QED
    BY <2>1, <2>2, Zenon DEF Serial!TranscribeStep, TranscribeStep
<1> QED
  BY <1>1, <1>3, <1>4, <1>6, <1>9
     DEF Serial!Refused, Refused, Serial!TranscribeDone, TranscribeDone, Serial!BitAt,
         Digit, Chunk, Within

LEMMA WhereBitIs ==
  ASSUME NEW b \in Nat \ {0}, NEW l \in Nat, NEW x \in Nat, x < l
  PROVE  /\ Chunk(x, b) \in 1 .. CeilDiv(l, b) /\ Within(x, b) \in 0 .. b - 1
         /\ (Chunk(x, b) - 1) * b + Within(x, b) = x
<1>1. PICK q \in 1 .. CeilDiv(l, b), h \in 0 .. b - 1 : (q - 1) * b + h = x
  BY BitOf
<1>2. CeilDiv(l, b) \in Nat
  BY CeilDivIs
<1>3. q - 1 \in Int /\ (q - 1) * b = b * (q - 1) /\ b * (q - 1) \in Int
  BY <1>1, <1>2
<1>4. (b * (q - 1) + h) % b = h /\ (b * (q - 1) + h) \div b = q - 1
  <2> DEFINE d == q - 1
  <2>1. d \in Int /\ h \in 0 .. b - 1
    BY <1>3
  <2> HIDE DEF d
  <2>2. (b * d + h) % b = h /\ (b * d + h) \div b = d
    BY <2>1, DivisionIs
  <2> QED
    BY <2>2 DEF d
<1>5. x % b = h /\ x \div b = q - 1
  BY <1>1, <1>3, <1>4
<1>6. Chunk(x, b) = q /\ Within(x, b) = h
  BY <1>1, <1>2, <1>5 DEF Chunk, Within
<1> QED
  BY <1>1, <1>6

\* The bits that are moved, wherever the loop is.
LEMMA MovedSoFar ==
  ASSUME NEW a, NEW L, NEW I, NEW O, NEW iT, NEW oT, Call(a, L, I, O, iT, oT),
         NEW r, LoopInv(r, a, L, I, O)
  PROVE  LET moved == (r.p - 1) * O + r.size - r.need
         IN  /\ moved = Position(r, L, I) /\ moved \in 0 .. L
             /\ TranscribeDone(r, L, I) => moved = L
             /\ Len(r.output) = CeilDiv(L, O)
             /\ \A j \in 0 .. Len(r.output) * O - 1 :
                  Digit(r.output[Chunk(j, O)], Within(j, O)) =
                    IF j < moved THEN Digit(a[Chunk(j, I)], Within(j, I)) ELSE 0
<1> DEFINE moved == (r.p - 1) * O + r.size - r.need
           n == CeilDiv(L, O)
<1>1. /\ L \in Nat \ {0} /\ I \in Nat \ {0} /\ O \in Nat \ {0} /\ n \in Nat
      /\ CeilDiv(L, I) \in Nat
  BY InCall
<1>2. /\ r.output \in [1 .. n -> Nat] /\ r.p \in 1 .. n /\ r.size \in Nat /\ r.need \in Nat
      /\ r.size <= O /\ r.need <= r.size /\ moved = Position(r, L, I)
  BY DEF LoopInv, Shape
<1>3. TranscribeDone(r, L, I) => moved = L
  BY <1>2 DEF Position
<1>4. moved \in 0 .. L
  <2>1. CASE TranscribeDone(r, L, I)
    BY <1>1, <1>3, <2>1
  <2>2. CASE ~ TranscribeDone(r, L, I)
    <3> DEFINE A == (r.i - 1) * I
               w == Least(I, r.remaining)
    <3>1. /\ A \in Nat /\ A < L /\ r.remaining = L - A /\ w \in 1 .. I /\ w <= r.remaining
          /\ r.left \in 1 .. w /\ Position(r, L, I) = A + w - r.left
      BY <2>2, InShape DEF LoopInv
    <3> HIDE DEF A, w, moved
    <3>2. A + w - r.left \in 0 .. L
      BY <1>1, <3>1
    <3> QED
      BY <1>2, <3>1, <3>2
  <2> QED
    BY <2>1, <2>2
<1>5. Len(r.output) = n
  BY <1>1, <1>2
<1>6. ASSUME NEW j \in 0 .. n * O - 1
      PROVE  Digit(r.output[Chunk(j, O)], Within(j, O)) =
               IF j < moved THEN Digit(a[Chunk(j, I)], Within(j, I)) ELSE 0
  <2> DEFINE q == Chunk(j, O)
             k == Within(j, O)
  <2>1. n * O \in Nat /\ CeilDiv(n * O, O) = n
    BY <1>1, WholeChunks
  <2>2. j \in Nat /\ j < n * O
    BY <2>1
  <2>3. q \in 1 .. n /\ k \in 0 .. O - 1 /\ (q - 1) * O + k = j
    <3> DEFINE l == n * O
    <3>1. l \in Nat /\ CeilDiv(l, O) = n /\ j \in Nat /\ j < l
      BY <2>1, <2>2
    <3> HIDE DEF l
    <3> QED
      BY <1>1, <3>1, WhereBitIs
  <2> HIDE DEF q, k
  <2>4. CASE j < moved
    <3> DEFINE c == Chunk(j, I)
               h == Within(j, I)
    <3>1. j < L
      BY <1>1, <1>4, <2>2, <2>4
    <3>2. c \in 1 .. CeilDiv(L, I) /\ h \in 0 .. I - 1 /\ (c - 1) * I + h = j
      BY <1>1, <2>2, <3>1, WhereBitIs
    <3> HIDE DEF c, h
    <3>3. (q - 1) * O + k = (c - 1) * I + h /\ (q - 1) * O + k < Position(r, L, I)
      BY <1>2, <2>3, <2>4, <3>2
    <3>4. Copied(r, a, Position(r, L, I), L, I, O)
      BY DEF LoopInv
    <3>5. Digit(r.output[q], k) = Digit(a[c], h)
      BY <2>3, <3>2, <3>3, <3>4, Zenon DEF Copied, n
    <3> QED
      BY <2>4, <3>5 DEF q, k, c, h
  <2>5. CASE ~(j < moved)
    <3>1. /\ \A x \in 1 .. n : x > r.p => r.output[x] = 0
          /\ r.output[r.p] < TwoTo[r.size - r.need]
      BY DEF LoopInv, Fitting
    <3>2. CASE q > r.p
      <4>1. r.output[q] = 0 /\ 0 < TwoTo[0] /\ k \in Nat
        BY <1>1, <2>3, <3>1, <3>2, PowersOfTwo
      <4>2. Digit(0, k) = 0
        BY <4>1, NoMoreDigits
      <4> QED
        BY <2>5, <4>1, <4>2 DEF q, k
    <3>3. CASE q = r.p
      <4> DEFINE f == r.size - r.need
                 B == (q - 1) * O
      <4>1. f \in Nat /\ B \in Int /\ moved = B + f /\ j = B + k /\ k \in Nat
        <5>1. q \in Nat /\ \A x \in Nat : (x - 1) * O \in Int
          BY <1>1, <2>3
        <5>2. B \in Int /\ moved = B + r.size - r.need /\ j = B + k
          BY <2>3, <3>3, <5>1
        <5> HIDE DEF B, moved
        <5>3. f \in Nat /\ r.need \in Int /\ r.size \in Int /\ k \in Nat
          BY <1>1, <1>2, <2>3
        <5> QED
          BY <5>2, <5>3
      <4> HIDE DEF f, B, moved
      <4>2. f <= k
        BY <1>4, <2>2, <2>5, <4>1
      <4>3. r.output[q] \in Nat /\ r.output[q] < TwoTo[f]
        BY <1>2, <2>3, <3>1, <3>3 DEF f
      <4>4. Digit(r.output[q], k) = 0
        BY <4>1, <4>2, <4>3, NoMoreDigits
      <4> QED
        BY <2>5, <4>4 DEF q, k
    <3>4. CASE q < r.p
      <4> DEFINE d == r.p - q
      <4>1. d \in Nat /\ d >= 1 /\ q - 1 \in Nat /\ r.p - 1 = (q - 1) + d
        <5>1. q \in 1 .. n /\ n \in Nat /\ r.p \in 1 .. n
          BY <1>1, <1>2, <2>3
        <5> QED
          BY <3>4, <5>1
      <4> HIDE DEF d
      <4>2. (r.p - 1) * O = (q - 1) * O + d * O /\ d * O >= O /\ (q - 1) * O \in Nat /\ d * O \in Nat
        BY <1>1, <4>1
      <4> DEFINE B == (q - 1) * O
                 D == d * O
                 P == (r.p - 1) * O
      <4>3. P = B + D /\ D >= O /\ B \in Nat /\ D \in Nat /\ moved = P + r.size - r.need /\ j = B + k
        BY <2>3, <4>2
      <4> HIDE DEF B, D, P, moved
      <4>4. j < moved
        <5>1. r.need \in Nat /\ r.size \in Int /\ r.need <= r.size /\ k \in Nat /\ k < O /\ O \in Nat
          BY <1>1, <1>2, <2>3
        <5> QED
          BY <4>3, <5>1
      <4> QED
        BY <2>5, <4>4
    <3> QED
      BY <1>1, <1>2, <2>3, <3>2, <3>3, <3>4
  <2> QED
    BY <2>4, <2>5
<1> QED
  BY <1>2, <1>3, <1>4, <1>5, <1>6

\* Where a pair of calls is: a call that has bits to move is in its loop, and what the
\* first one has returned are the bits of the message.
SerialInv ==
  /\ chunk \in 1 .. IntBits /\ message \in Seq(0 .. TwoTo[chunk] - 1)
  /\ Len(message) <= MaxInts /\ length \in 0 .. Len(message) * chunk
  /\ call \in Serial!Calls
  /\ call = "refused" => length = 0 /\ message # <<>> /\ s = TranscribeStart(0, chunk, ByteBits)
  /\ call = "serialize" =>
       /\ input = message
       /\ IF length = 0 THEN message = <<>> /\ s = TranscribeStart(0, chunk, ByteBits)
          ELSE LoopInv(s, message, length, chunk, ByteBits)
  /\ call \in {"deserialize", "done"} =>
       /\ input = bytes
       /\ IF length = 0 THEN bytes = <<>> /\ s = TranscribeStart(0, ByteBits, chunk)
          ELSE /\ BitsKept(bytes, message, length, chunk, ByteBits)
               /\ LoopInv(s, bytes, length, ByteBits, chunk)
  /\ call = "done" => TranscribeDone(s, length, ByteBits)

\* A call for no bits of nothing.
LEMMA EmptyCall ==
  ASSUME NEW I \in Nat \ {0}, NEW O \in Nat \ {0}
  PROVE  /\ CeilDiv(0, I) = 0
         /\ TranscribeDone(TranscribeStart(0, I, O), 0, I)
         /\ TranscribeStart(0, I, O).output = <<>> /\ TranscribeStart(0, I, O).p = 1
         /\ TranscribeStart(0, I, O).size = 0 /\ TranscribeStart(0, I, O).need = 0
         /\ TranscribeStart(0, I, O).left = 0
<1>1. \A b \in Nat \ {0} : CeilDiv(0, b) = 0
  <2> TAKE b \in Nat \ {0}
  <2>1. CeilDiv(0, b) \in Nat /\ \A k \in Nat : k < CeilDiv(0, b) <=> k * b < 0
    BY CeilDivIs
  <2>2. ~(0 < CeilDiv(0, b))
    BY <2>1
  <2> QED
    BY <2>1, <2>2
<1>2. Least(0, O) = 0 /\ Least(I, 0) = 0
  BY LeastIs
<1>3. TranscribeStart(0, I, O) =
        [i |-> 1, left |-> 0, remaining |-> 0, p |-> 1, size |-> 0, need |-> 0,
         output |-> [k \in 1 .. 0 |-> 0]]
  BY <1>1, <1>2 DEF TranscribeStart
<1>4. [k \in 1 .. 0 |-> 0] = <<>>
  OBVIOUS
<1> QED
  BY <1>1, <1>3, <1>4 DEF TranscribeDone

LEMMA NumbersInMessage ==
  ASSUME NEW n \in Nat, NEW q \in Seq(0 .. TwoTo[n] - 1)
  PROVE  q \in Seq(Nat)
<1> DEFINE S == 0 .. TwoTo[n] - 1
<1>1. TwoTo[n] \in Nat
  BY PowersOfTwo
<1>2. \A x \in S : x \in Nat
  BY <1>1
<1>3. q \in Seq(S)
  OBVIOUS
<1> HIDE DEF S
<1>4. Len(q) \in Nat /\ q \in [1 .. Len(q) -> S]
  BY <1>3
<1>5. q \in [1 .. Len(q) -> Nat]
  BY <1>2, <1>4
<1> QED
  BY <1>4, <1>5

\* What is asked for, if it is something, is not refused.
LEMMA MessageCall ==
  ASSUME Serial!TypeSizes, SerialInv, length # 0
  PROVE  Call(message, length, chunk, ByteBits, IntBits, ByteBits)
<1>1. /\ chunk \in Nat \ {0} /\ chunk <= IntBits /\ IntBits \in Nat \ {0} /\ ByteBits \in Nat \ {0}
      /\ Len(message) \in Nat
  BY DEF SerialInv, Serial!TypeSizes
<1>2. Len(message) * chunk \in Nat
  BY <1>1
<1>3. length \in Nat \ {0} /\ length <= Len(message) * chunk
  BY <1>2 DEF SerialInv
<1>4. message \in Seq(Nat)
  BY <1>1, NumbersInMessage DEF SerialInv
<1>5. ~(Len(message) < CeilDiv(length, chunk))
  BY <1>1, <1>2, <1>3, CeilDivIs
<1> QED
  BY <1>1, <1>3, <1>4, <1>5 DEF Call, Refused

LEMMA BytesCall ==
  ASSUME Serial!TypeSizes, SerialInv, length # 0, call \in {"deserialize", "done"}
  PROVE  Call(bytes, length, ByteBits, chunk, ByteBits, IntBits)
<1>1. Call(message, length, chunk, ByteBits, IntBits, ByteBits)
  BY MessageCall
<1>2. length \in 1 .. length
  BY <1>1 DEF Call
<1> QED
  BY <1>1, <1>2, ReadableAgain DEF SerialInv

LEMMA SerialInvariant ==
  ASSUME Serial!TypeSizes
  PROVE  Serial!Spec => []SerialInv
<1> USE SameLoop
<1>1. ASSUME Serial!Init
      PROVE  SerialInv
  <2>1. /\ chunk \in 1 .. IntBits /\ length \in 0 .. Len(message) * chunk
        /\ input = message /\ bytes = <<>> /\ s = TranscribeStart(length, chunk, ByteBits)
        /\ call = IF Refused(message, length, chunk, ByteBits, IntBits, ByteBits)
                  THEN "refused" ELSE "serialize"
    BY <1>1 DEF Serial!Init
  <2>2. PICK n \in 0 .. MaxInts : message \in [1 .. n -> 0 .. TwoTo[chunk] - 1]
    BY <1>1 DEF Serial!Init
  <2>3. /\ message \in Seq(0 .. TwoTo[chunk] - 1) /\ Len(message) = n /\ n \in Nat /\ n <= MaxInts
        /\ chunk \in Nat \ {0} /\ ByteBits \in Nat \ {0} /\ IntBits \in Nat /\ chunk <= IntBits
    <3> DEFINE S == 0 .. TwoTo[chunk] - 1
    <3>1. message \in [1 .. n -> S] /\ n \in Nat /\ n <= MaxInts
      BY <2>2 DEF Serial!TypeSizes
    <3> HIDE DEF S
    <3>2. message \in Seq(S) /\ Len(message) = n
      BY <3>1
    <3> QED
      BY <2>1, <3>1, <3>2 DEF S, Serial!TypeSizes
  <2>4. n * chunk \in Nat /\ (n = 0 => n * chunk = 0)
    BY <2>3
  <2>5. CASE length = 0
    <3>1. CeilDiv(0, chunk) = 0
      BY <2>3, EmptyCall
    <3>2. Refused(message, 0, chunk, ByteBits, IntBits, ByteBits) <=> message # <<>>
      BY <2>3, <3>1 DEF Refused
    <3> QED
      BY <2>1, <2>3, <2>4, <2>5, <3>2 DEF SerialInv, Serial!Calls
  <2>6. CASE length # 0
    <3>1. message \in Seq(Nat)
      BY <2>3, NumbersInMessage
    <3>2. length \in Nat \ {0} /\ length <= n * chunk
      BY <2>1, <2>3, <2>4, <2>6
    <3>3. ~(n < CeilDiv(length, chunk))
      BY <2>3, <2>4, <3>2, CeilDivIs
    <3>4. Call(message, length, chunk, ByteBits, IntBits, ByteBits)
      BY <2>3, <3>1, <3>2, <3>3 DEF Call, Refused
    <3>5. LoopInv(s, message, length, chunk, ByteBits)
      BY <2>1, <3>4, AtStart
    <3> QED
      BY <2>1, <2>3, <2>6, <3>4, <3>5 DEF SerialInv, Serial!Calls, Call
  <2> QED
    BY <2>5, <2>6
<1>2. ASSUME SerialInv, Serial!Serialize
      PROVE  SerialInv'
  <2>1. /\ call = "serialize" /\ ~TranscribeDone(s, length, chunk)
        /\ s' = TranscribeStep(s, input, length, chunk, ByteBits, IntBits, ByteBits)
        /\ UNCHANGED <<chunk, message, length, call, input, bytes>>
    BY <1>2 DEF Serial!Serialize
  <2>2. length # 0
    BY <1>2, <2>1, EmptyCall DEF SerialInv, Serial!TypeSizes
  <2>3. LoopInv(s', message, length, chunk, ByteBits)
    <3>1. Call(message, length, chunk, ByteBits, IntBits, ByteBits)
      BY <1>2, <2>2, MessageCall
    <3>2. LoopInv(s, message, length, chunk, ByteBits) /\ input = message
      BY <1>2, <2>1, <2>2 DEF SerialInv
    <3> QED
      BY <2>1, <3>1, <3>2, StepKeeps
  <2> QED
    BY <1>2, <2>1, <2>2, <2>3 DEF SerialInv
<1>3. ASSUME SerialInv, Serial!Deserialize
      PROVE  SerialInv'
  <2>1. /\ call = "deserialize" /\ ~TranscribeDone(s, length, ByteBits)
        /\ s' = TranscribeStep(s, input, length, ByteBits, chunk, ByteBits, IntBits)
        /\ UNCHANGED <<chunk, message, length, call, input, bytes>>
    BY <1>3 DEF Serial!Deserialize
  <2>2. length # 0
    BY <1>3, <2>1, EmptyCall DEF SerialInv, Serial!TypeSizes
  <2>3. LoopInv(s', bytes, length, ByteBits, chunk)
    <3>1. Call(bytes, length, ByteBits, chunk, ByteBits, IntBits)
      BY <1>3, <2>1, <2>2, BytesCall
    <3>2. LoopInv(s, bytes, length, ByteBits, chunk) /\ input = bytes
      BY <1>3, <2>1, <2>2 DEF SerialInv
    <3> QED
      BY <2>1, <3>1, <3>2, StepKeeps
  <2> QED
    BY <1>3, <2>1, <2>2, <2>3 DEF SerialInv
<1>4. ASSUME SerialInv, Serial!Return
      PROVE  SerialInv'
  <2>1. /\ call = "serialize" /\ TranscribeDone(s, length, chunk)
        /\ bytes' = s.output /\ input' = s.output
        /\ IF Refused(s.output, length, ByteBits, chunk, ByteBits, IntBits)
           THEN call' = "refused" /\ UNCHANGED s
           ELSE call' = "deserialize" /\ s' = TranscribeStart(length, ByteBits, chunk)
        /\ UNCHANGED <<chunk, message, length>>
    BY <1>4 DEF Serial!Return
  <2>2. CASE length = 0
    <3>1. /\ chunk \in Nat \ {0} /\ ByteBits \in Nat \ {0} /\ chunk <= IntBits
          /\ s = TranscribeStart(0, chunk, ByteBits)
      BY <1>4, <2>1, <2>2 DEF SerialInv, Serial!TypeSizes
    <3>2. s.output = <<>> /\ CeilDiv(0, ByteBits) = 0
      BY <3>1, EmptyCall
    <3>3. ~ Refused(<<>>, 0, ByteBits, chunk, ByteBits, IntBits)
      BY <3>1, <3>2 DEF Refused, Serial!TypeSizes
    <3> QED
      BY <1>4, <2>1, <2>2, <3>2, <3>3 DEF SerialInv, Serial!Calls
  <2>3. CASE length # 0
    <3>1. Call(message, length, chunk, ByteBits, IntBits, ByteBits)
      BY <1>4, <2>3, MessageCall
    <3>2. LoopInv(s, message, length, chunk, ByteBits)
      BY <1>4, <2>1, <2>3 DEF SerialInv
    <3>3. BitsKept(s.output, message, length, chunk, ByteBits)
      BY <2>1, <3>1, <3>2, BitsAtEnd
    <3>4. length \in 1 .. length
      BY <3>1 DEF Call
    <3>5. Call(s.output, length, ByteBits, chunk, ByteBits, IntBits)
      BY <3>1, <3>3, <3>4, ReadableAgain
    <3>6. call' = "deserialize" /\ s' = TranscribeStart(length, ByteBits, chunk)
      BY <2>1, <3>5 DEF Call
    <3>7. LoopInv(s', s.output, length, ByteBits, chunk)
      BY <3>5, <3>6, AtStart
    <3> QED
      BY <1>4, <2>1, <2>3, <3>3, <3>6, <3>7 DEF SerialInv, Serial!Calls
  <2> QED
    BY <2>2, <2>3
<1>5. ASSUME SerialInv, Serial!Finish
      PROVE  SerialInv'
  BY <1>5 DEF SerialInv, Serial!Finish, Serial!Calls
<1>6. SerialInv /\ UNCHANGED Serial!vars => SerialInv'
  BY DEF SerialInv, Serial!vars
<1>7. SerialInv /\ [Serial!Next]_Serial!vars => SerialInv'
  BY <1>2, <1>3, <1>4, <1>5, <1>6 DEF Serial!Next
<1> QED
  BY <1>1, <1>7, PTL DEF Serial!Spec

\* What holds of the variables of the loop wherever it is.
LEMMA LoopTyped ==
  ASSUME NEW a, NEW L, NEW I, NEW O, NEW iT, NEW oT, Call(a, L, I, O, iT, oT),
         NEW r, LoopInv(r, a, L, I, O)
  PROVE  /\ r.p \in 1 .. Len(r.output) /\ r.need >= 0 /\ (r.left >= 0 \/ r.remaining <= 0)
         /\ \A k \in DOMAIN r.output : r.output[k] \in 0 .. TwoTo[O] - 1
<1> DEFINE n == CeilDiv(L, O)
           m == CeilDiv(L, I)
<1>1. /\ L \in Nat \ {0} /\ I \in Nat \ {0} /\ O \in Nat \ {0} /\ n \in Nat /\ m \in Nat
      /\ \A k \in Nat : k < m <=> k * I < L
  BY InCall
<1>2. /\ r.output \in [1 .. n -> Nat] /\ r.p \in 1 .. n /\ r.need \in Nat /\ r.i \in 1 .. m + 1
      /\ r.remaining = L - (r.i - 1) * I
      /\ r.i <= m => r.left \in 1 .. Least(I, r.remaining)
  BY DEF LoopInv, Shape
<1>3. \A q \in 1 .. n : r.output[q] < TwoTo[O]
  BY DEF LoopInv, Fitting
<1> HIDE DEF n, m
<1>4. \A k \in DOMAIN r.output : r.output[k] \in 0 .. TwoTo[O] - 1
  <2> DEFINE t == TwoTo[O]
  <2>1. t \in Nat /\ \A q \in 1 .. n : r.output[q] \in Nat /\ r.output[q] < t
    BY <1>1, <1>2, <1>3, PowersOfTwo
  <2> HIDE DEF t
  <2>2. \A q \in 1 .. n : r.output[q] \in 0 .. t - 1
    BY <2>1
  <2> QED
    BY <1>2, <2>2 DEF t
<1>5. CASE r.i <= m
  <2>1. r.left >= 0
    BY <1>2, <1>5
  <2> QED
    BY <1>1, <1>2, <1>4, <2>1
<1>6. CASE ~(r.i <= m)
  <2>1. r.i = m + 1
    <3>1. r.i \in 1 .. m + 1 /\ m \in Nat
      BY <1>1, <1>2
    <3> QED
      BY <1>6, <3>1
  <2>2. r.remaining = L - m * I /\ ~(m * I < L) /\ m * I \in Int
    BY <1>1, <1>2, <2>1
  <2>3. r.remaining <= 0
    BY <1>1, <2>2
  <2> QED
    BY <1>1, <1>2, <1>4, <2>3
<1> QED
  BY <1>5, <1>6

\* transcription.h: what a pair of calls has done, at every pass of either loop: no bit is
\* lost or moved, no more bytes are used than the bits need, and the numbers that are
\* read back are those that were written.
THEOREM RoundTripAlways ==
  ASSUME Serial!TypeSizes
  PROVE  Serial!Spec => [](/\ Serial!TypeOK /\ Serial!BitsMoved
                           /\ Serial!RoundTrip /\ Serial!Compact)
<1> USE SameLoop
<1> DEFINE writing == call \in {"serialize", "refused"}
           from == IF writing THEN chunk ELSE ByteBits
           to == IF writing THEN ByteBits ELSE chunk
           fromT == IF writing THEN IntBits ELSE ByteBits
           toT == IF writing THEN ByteBits ELSE IntBits
<1>1. ASSUME SerialInv
      PROVE  /\ chunk \in Nat \ {0} /\ chunk <= IntBits /\ IntBits \in Nat \ {0}
             /\ ByteBits \in Nat \ {0} /\ MaxInts \in Nat /\ length \in Nat
             /\ call \in {"serialize", "deserialize", "done", "refused"}
             /\ call # "refused" /\ length # 0 =>
                  Call(input, length, from, to, fromT, toT) /\ LoopInv(s, input, length, from, to)
             /\ length = 0 => s = TranscribeStart(0, from, to)
  <2>1. /\ chunk \in Nat \ {0} /\ chunk <= IntBits /\ IntBits \in Nat \ {0}
        /\ ByteBits \in Nat \ {0} /\ MaxInts \in Nat /\ Len(message) \in Nat
    BY <1>1 DEF SerialInv, Serial!TypeSizes
  <2>2. Len(message) * chunk \in Nat
    BY <2>1
  <2>3. length \in Nat
    BY <1>1, <2>2 DEF SerialInv
  <2>4. call \in {"serialize", "deserialize", "done", "refused"}
    BY <1>1 DEF SerialInv, Serial!Calls
  <2>5. CASE writing
    BY <1>1, <2>1, <2>3, <2>4, <2>5, MessageCall DEF SerialInv
  <2>6. CASE call \in {"deserialize", "done"}
    BY <1>1, <2>1, <2>3, <2>4, <2>6, BytesCall DEF SerialInv
  <2> QED
    BY <2>4, <2>5, <2>6
<1> HIDE DEF from, to, fromT, toT
<1>2. ASSUME SerialInv
      PROVE  Serial!TypeOK
  <2>1. message \in Seq(0 .. TwoTo[IntBits] - 1)
    <3> DEFINE S == 0 .. TwoTo[chunk] - 1
               U == 0 .. TwoTo[IntBits] - 1
    <3>1. TwoTo[chunk] \in Nat /\ TwoTo[IntBits] \in Nat /\ TwoTo[chunk] <= TwoTo[IntBits]
      BY <1>1, <1>2, PowersOfTwo, TwoToGrows
    <3>2. (\A x \in S : x \in U) /\ message \in Seq(S)
      BY <1>2, <3>1 DEF SerialInv
    <3> HIDE DEF S, U
    <3>3. Len(message) \in Nat /\ message \in [1 .. Len(message) -> S]
      BY <3>2
    <3>4. message \in [1 .. Len(message) -> U]
      BY <3>2, <3>3
    <3>5. message \in Seq(U)
      BY <3>3, <3>4
    <3> QED
      BY <3>5 DEF U
  <2>2. length \in 0 .. MaxInts * IntBits
    <3>1. Len(message) \in Nat /\ Len(message) <= MaxInts /\ length <= Len(message) * chunk
      BY <1>2, <1>1 DEF SerialInv
    <3> DEFINE d == MaxInts - Len(message)
               e == IntBits - chunk
               n == Len(message)
    <3>2. d \in Nat /\ e \in Nat /\ n \in Nat /\ MaxInts = n + d /\ IntBits = chunk + e
      BY <1>1, <1>2, <3>1
    <3> HIDE DEF d, e, n
    <3>3. /\ (n + d) * (chunk + e) = n * chunk + n * e + d * (chunk + e)
          /\ n * e \in Nat /\ d * (chunk + e) \in Nat /\ n * chunk \in Nat
      BY <1>1, <1>2, <3>2
    <3>4. n * chunk <= MaxInts * IntBits /\ MaxInts * IntBits \in Nat
      BY <3>2, <3>3
    <3> QED
      BY <1>1, <1>2, <3>1, <3>3, <3>4 DEF n
  <2>3. \A n \in Nat : Serial!Max({1, n}) >= n /\ Serial!Max({1, n}) >= 1
    <3> TAKE n \in Nat
    <3> DEFINE Is(x) == \A y \in {1, n} : x >= y
               x0 == IF n >= 1 THEN n ELSE 1
    <3>1. x0 \in {1, n} /\ Is(x0)
      OBVIOUS
    <3>2. Serial!Max({1, n}) = CHOOSE x \in {1, n} : Is(x)
      BY DEF Serial!Max
    <3> HIDE DEF Is, x0
    <3>3. Is(Serial!Max({1, n}))
      BY <3>1, <3>2
    <3> QED
      BY <3>3 DEF Is
  <2>4. CASE length = 0 \/ call = "refused"
    <3>1. length = 0 /\ s = TranscribeStart(0, from, to) /\ from \in Nat \ {0} /\ to \in Nat \ {0}
      BY <1>1, <1>2, <2>4 DEF SerialInv, from, to
    <3>2. s.output = <<>> /\ s.p = 1 /\ s.need = 0 /\ s.left = 0
      BY <3>1, EmptyCall
    <3>3. Len(s.output) = 0 /\ DOMAIN s.output = {}
      BY <3>2
    <3> QED
      BY <1>1, <1>2, <2>1, <2>2, <2>3, <3>2, <3>3 DEF Serial!TypeOK, SerialInv
  <2>5. CASE length # 0 /\ call # "refused"
    <3>1. Call(input, length, from, to, fromT, toT) /\ LoopInv(s, input, length, from, to)
      BY <1>1, <1>2, <2>5
    <3>2. /\ s.p \in 1 .. Len(s.output) /\ s.need >= 0 /\ (s.left >= 0 \/ s.remaining <= 0)
          /\ \A k \in DOMAIN s.output : s.output[k] \in 0 .. TwoTo[to] - 1
      BY <3>1, LoopTyped
    <3>3. to = (IF call = "serialize" THEN ByteBits ELSE chunk) /\ TwoTo[chunk] <= TwoTo[IntBits]
      BY <1>1, <1>2, <2>5, TwoToGrows DEF to
    <3>4. Len(s.output) \in Nat
      <4>1. Len(s.output) = CeilDiv(length, to)
        BY <3>1, MovedSoFar
      <4> QED
        BY <3>1, <4>1, InCall
    <3>5. s.p <= Serial!Max({1, Len(s.output)})
      <4> DEFINE n == Len(s.output)
                 x == Serial!Max({1, n})
      <4>1. n \in Nat /\ x >= n /\ x >= 1
        BY <2>3, <3>4
      <4>2. x \in {1, n}
        <5>1. \E y \in {1, n} : \A z \in {1, n} : y >= z
          BY <4>1
        <5> QED
          BY <5>1 DEF Serial!Max
      <4>3. s.p \in 1 .. n
        BY <3>2
      <4> HIDE DEF x, n
      <4>4. s.p <= x
        BY <4>1, <4>2, <4>3
      <4> QED
        BY <4>4 DEF x, n
    <3>6. \A k \in DOMAIN s.output :
            s.output[k] \in 0 .. TwoTo[IF call = "serialize" THEN ByteBits ELSE IntBits] - 1
      <4>1. TwoTo[chunk] \in Nat /\ TwoTo[IntBits] \in Nat /\ TwoTo[ByteBits] \in Nat
        BY <1>1, <1>2, PowersOfTwo
      <4> QED
        BY <3>2, <3>3, <4>1
    <3> QED
      BY <1>1, <1>2, <2>1, <2>2, <3>2, <3>5, <3>6 DEF Serial!TypeOK, SerialInv
  <2> QED
    BY <2>4, <2>5
<1>3. ASSUME SerialInv
      PROVE  Serial!BitsMoved
  <2> SUFFICES ASSUME call \in {"serialize", "deserialize"}
               PROVE  LET moved == (s.p - 1) * to + s.size - s.need
                      IN  /\ moved <= length
                          /\ Serial!TranscribeDone(s, length, from) => moved = length
                          /\ \A j \in 0 .. Len(s.output) * to - 1 :
                               Serial!BitAt(s.output, to, j) =
                                 IF j < moved THEN Serial!BitAt(input, from, j) ELSE 0
    BY DEF Serial!BitsMoved, from, to
  <2>1. CASE length = 0
    <3>1. s = TranscribeStart(0, from, to) /\ from \in Nat \ {0} /\ to \in Nat \ {0}
      BY <1>1, <1>3, <2>1 DEF from, to
    <3>2. s.output = <<>> /\ s.p = 1 /\ s.need = 0 /\ s.size = 0
      BY <3>1, EmptyCall
    <3>3. (s.p - 1) * to + s.size - s.need = 0 /\ Len(s.output) * to = 0
      <4>1. s.p - 1 = 0 /\ Len(s.output) = 0 /\ 0 * to = 0
        BY <3>1, <3>2
      <4> QED
        BY <3>2, <4>1
    <3> QED
      BY <2>1, <3>3
  <2>2. CASE length # 0
    <3> DEFINE moved == (s.p - 1) * to + s.size - s.need
    <3>1. Call(input, length, from, to, fromT, toT) /\ LoopInv(s, input, length, from, to)
      BY <1>1, <1>3, <2>2
    <3>2. /\ moved \in 0 .. length /\ length \in Nat
          /\ TranscribeDone(s, length, from) => moved = length
          /\ \A j \in 0 .. Len(s.output) * to - 1 :
               Digit(s.output[Chunk(j, to)], Within(j, to)) =
                 IF j < moved THEN Digit(input[Chunk(j, from)], Within(j, from)) ELSE 0
      BY <1>1, <1>3, <3>1, MovedSoFar
    <3> HIDE DEF moved
    <3>3. moved <= length /\ (Serial!TranscribeDone(s, length, from) => moved = length)
      <4>1. Serial!TranscribeDone(s, length, from) <=> TranscribeDone(s, length, from)
        OBVIOUS
      <4>2. moved <= length
        BY <3>2
      <4> QED
        BY <3>2, <4>1, <4>2, Zenon
    <3>4. \A a, b, j : Serial!BitAt(a, b, j) = Digit(a[Chunk(j, b)], Within(j, b))
      OBVIOUS
    <3>5. \A j \in 0 .. Len(s.output) * to - 1 :
            Serial!BitAt(s.output, to, j) =
              IF j < moved THEN Serial!BitAt(input, from, j) ELSE 0
      BY <3>2, <3>4
    <3> QED
      BY <3>3, <3>5 DEF moved
  <2> QED
    BY <2>1, <2>2
<1>4. ASSUME SerialInv
      PROVE  Serial!RoundTrip
  <2> SUFFICES ASSUME call = "done"
               PROVE  /\ Len(s.output) = CeilDiv(length, chunk)
                      /\ \A j \in 0 .. Len(s.output) * chunk - 1 :
                           Serial!BitAt(s.output, chunk, j) =
                             IF j < length THEN Serial!BitAt(message, chunk, j) ELSE 0
    BY DEF Serial!RoundTrip
  <2>1. CASE length = 0
    <3>1. s.output = <<>> /\ CeilDiv(0, chunk) = 0
      BY <1>1, <1>4, <2>1, EmptyCall DEF SerialInv
    <3>2. Len(s.output) = 0 /\ Len(s.output) * chunk = 0
      BY <1>1, <1>4, <3>1
    <3> QED
      BY <2>1, <3>1, <3>2
  <2>2. CASE length # 0
    <3>1. /\ Call(message, length, chunk, ByteBits, IntBits, ByteBits)
          /\ Call(bytes, length, ByteBits, chunk, ByteBits, IntBits)
      BY <1>4, <2>2, MessageCall, BytesCall
    <3>2. /\ BitsKept(bytes, message, length, chunk, ByteBits)
          /\ LoopInv(s, bytes, length, ByteBits, chunk) /\ TranscribeDone(s, length, ByteBits)
      BY <1>4, <2>2 DEF SerialInv
    <3>3. BitsKept(s.output, bytes, length, ByteBits, chunk)
      BY <3>1, <3>2, BitsAtEnd
    <3>4. length \in 1 .. length
      BY <3>1 DEF Call
    <3>5. FirstBits(s.output, message, length, chunk)
      BY <3>1, <3>2, <3>3, <3>4, BitsThereAndBack
    <3>6. Len(s.output) = CeilDiv(length, chunk)
      BY <3>1, <3>2, MovedSoFar
    <3>7. ASSUME NEW j \in 0 .. CeilDiv(length, chunk) * chunk - 1
          PROVE  Digit(s.output[Chunk(j, chunk)], Within(j, chunk)) =
                   IF j < length THEN Digit(message[Chunk(j, chunk)], Within(j, chunk)) ELSE 0
      <4> DEFINE n == CeilDiv(length, chunk)
                 l == n * chunk
      <4>1. n \in Nat /\ chunk \in Nat \ {0}
        BY <3>1, InCall
      <4>2. l \in Nat /\ CeilDiv(l, chunk) = n /\ j \in 0 .. l - 1
        BY <4>1, WholeChunks
      <4> HIDE DEF n, l
      <4>3. j \in Nat /\ j < l
        BY <4>2
      <4>4. /\ Chunk(j, chunk) \in 1 .. n /\ Within(j, chunk) \in 0 .. chunk - 1
            /\ (Chunk(j, chunk) - 1) * chunk + Within(j, chunk) = j
        BY <4>1, <4>2, <4>3, WhereBitIs
      <4> QED
        BY <3>5, <4>4 DEF FirstBits, n
    <3> QED
      BY <3>6, <3>7
  <2> QED
    BY <2>1, <2>2
<1>5. ASSUME SerialInv
      PROVE  Serial!Compact
  <2>1. CASE call \in {"deserialize", "done"} /\ length # 0
    <3> DEFINE n == CeilDiv(length, ByteBits)
    <3>1. n \in Nat
      BY <1>1, <1>5, CeilDivIs
    <3>2. bytes \in [1 .. n -> 0 .. TwoTo[ByteBits] - 1]
      BY <1>5, <2>1 DEF SerialInv, BitsKept
    <3> HIDE DEF n
    <3>3. Len(bytes) = n
      BY <3>1, <3>2
    <3> QED
      BY <2>1, <3>3 DEF Serial!Compact, n
  <2>2. CASE call \in {"deserialize", "done"} /\ length = 0
    <3>1. bytes = <<>> /\ CeilDiv(0, ByteBits) = 0
      BY <1>1, <1>5, <2>2, EmptyCall DEF SerialInv
    <3> QED
      BY <2>2, <3>1 DEF Serial!Compact
  <2>3. CASE call \in {"serialize", "refused"}
    BY <1>5, <2>3 DEF Serial!Compact, SerialInv
  <2> QED
    BY <1>1, <1>5, <2>1, <2>2, <2>3
<1>6. SerialInv => Serial!TypeOK /\ Serial!BitsMoved /\ Serial!RoundTrip /\ Serial!Compact
  BY <1>2, <1>3, <1>4, <1>5
<1> QED
  BY <1>6, SerialInvariant, PTL
=============================================================================
