--------------------------- MODULE LibraryProofs ----------------------------
(***************************************************************************)
(* The libraries under the protocol.  For every curve whose points are a   *)
(* group of prime order, every oracle and all keys: the keys of both       *)
(* parties apply and are removed in any order, equal identifiers give      *)
(* equal bytes, and an ElGamal ciphertext decrypts to what was done with   *)
(* its message.  For any objects and values: a result stands for the value *)
(* or error that it was made of.                                           *)
(***************************************************************************)
EXTENDS CurveCiphers, NumberProofs

CONSTANTS Libraries, Objects, Kinds, Codes, Messages, Values
VARIABLES kind, debug, object, meant, process
Results == INSTANCE StatusOr

-----------------------------------------------------------------------------
(* The points *)

LEMMA FieldIs ==
  ASSUME CurveAssumption
  PROVE  /\ P \in Nat \ {0} /\ P > 3 /\ P % 2 = 1 /\ Prime(P) /\ Field = 0 .. P - 1
         /\ Order \in Nat \ {0} /\ Order > 1 /\ Prime(Order)
         /\ \A x \in Field : YSquare(x) \in Field
<1>1. P \in Nat \ {0} /\ P > 3 /\ Prime(P) /\ Field = 0 .. P - 1
  BY DEF CurveAssumption, Field
<1>2. P % 2 # 0
  <2>1. 2 \in 2 .. P - 1
    BY <1>1
  <2> QED
    BY <1>1, <2>1 DEF Prime
<1>3. P % 2 = 1
  BY <1>1, <1>2, SmallResidue
<1>4. Order \in Nat \ {0} /\ Order > 1 /\ Prime(Order)
  BY DEF CurveAssumption, GroupAssumption, Prime
<1>5. ASSUME NEW x \in Field
      PROVE  YSquare(x) \in Field
  <2> DEFINE y == x * x * x + A * x + B
  <2>1. y \in Int
    BY <1>1 DEF CurveAssumption
  <2> HIDE DEF y
  <2>2. y % P \in 0 .. P - 1
    BY <1>1, <2>1, DivisionOf
  <2> QED
    BY <1>1, <2>2 DEF YSquare, y
<1> QED
  BY <1>1, <1>3, <1>4, <1>5

LEMMA PointIs ==
  ASSUME CurveAssumption
  PROVE  /\ \A x, y \in Field : <<x, y>> # Infinity
         /\ Infinity \in Points /\ Infinity # Refused
         /\ \A a \in Points : a # Infinity =>
              /\ a[1] \in Field /\ a[2] \in Field /\ a = <<a[1], a[2]>>
              /\ (a[2] * a[2]) % P = YSquare(a[1])
         /\ \A x, y \in Field : (y * y) % P = YSquare(x) => <<x, y>> \in Points
<1>1. \A x, y : <<x, y>> # Infinity
  BY DEF Infinity
<1>2. Infinity # Refused
  BY DEF Infinity, Refused
<1>3. ASSUME NEW x \in Field, NEW y \in Field, (y * y) % P = YSquare(x)
      PROVE  <<x, y>> \in Points
  BY <1>3 DEF Points, IsOnCurve
<1> QED
  BY <1>1, <1>2, <1>3 DEF Points, IsOnCurve

\* The two square roots have a different parity.
LEMMA RootsApart ==
  ASSUME CurveAssumption, NEW y \in Field, NEW z \in Field,
         (y * y) % P = (z * z) % P, y % 2 = z % 2
  PROVE  y = z
<1>1. P \in Nat \ {0} /\ P % 2 = 1 /\ Prime(P) /\ Field = 0 .. P - 1
  BY FieldIs
<1> DEFINE yy == y * y
           zz == z * z
           d == y - z
           t == y + z
<1>2. yy \in Int /\ zz \in Int /\ d \in Int /\ t \in Int /\ yy - zz = d * t
  <2>1. y \in Int /\ z \in Int
    BY <1>1
  <2> QED
    BY <2>1
<1>3. (d * t) % P = 0
  <2>1. yy % P = zz % P
    OBVIOUS
  <2> HIDE DEF yy, zz, d, t
  <2>2. ((yy % P) - (zz % P)) % P = (yy - zz) % P
    BY <1>1, <1>2, ResidueOfSum
  <2>3. (yy % P) - (zz % P) = 0
    <3>1. yy % P \in Int
      BY <1>1, <1>2, DivisionOf
    <3> QED
      BY <2>1, <3>1
  <2>4. 0 % P = 0
    BY <1>1, SmallResidue
  <2> QED
    BY <1>2, <2>2, <2>3, <2>4
<1>4. d % P = 0 \/ t % P = 0
  <2> HIDE DEF d, t
  <2> QED
    BY <1>1, <1>2, <1>3, Euclid
<1>5. CASE d % P = 0
  <2>1. d \in (1 - P) .. (P - 1) /\ d \in Int
    BY <1>1
  <2> HIDE DEF d
  <2>2. d = P * (d \div P) + 0 /\ d \div P \in Int
    BY <1>1, <1>2, <1>5, DivisionOf
  <2>3. d = 0
    BY <1>1, <2>1, <2>2
  <2> QED
    BY <1>1, <2>3 DEF d
<1>6. CASE t % P = 0
  <2>1. t \in 0 .. 2 * P - 2 /\ t % 2 = 0
    BY <1>1
  <2> HIDE DEF t
  <2>2. t = P * (t \div P) + 0 /\ t \div P \in Int
    BY <1>1, <1>2, <1>6, DivisionOf
  <2>3. t = 0 \/ t = P
    BY <1>1, <2>1, <2>2
  <2>4. t = 0
    BY <1>1, <2>1, <2>3
  <2> QED
    BY <1>1, <2>4 DEF t
<1> QED
  BY <1>4, <1>5, <1>6

\* A point is what its bytes are made into again, but for the point at infinity.
LEMMA BytesAndBack ==
  ASSUME CurveAssumption
  PROVE  /\ CreateECPoint(<<0>>) = Refused
         /\ ToBytesCompressed(Infinity) = <<0>>
         /\ \A a \in Points : a # Infinity => CreateECPoint(ToBytesCompressed(a)) = a
         /\ \A a \in Points : a # Refused
<1>1. \A a \in Field \X Field : a # Infinity /\ ToBytesCompressed(a) = <<2 + (a[2] % 2), a[1]>>
  BY PointIs DEF ToBytesCompressed
<1>2. \A x, y : <<x, y>> # <<0>> /\ <<x, y>> # Refused
  BY DEF Refused
<1>3. CreateECPoint(<<0>>) = Refused
  <2>1. {a \in Field \X Field : IsValid(a) /\ ToBytesCompressed(a) = <<0>>} = {}
    BY <1>1, <1>2
  <2> QED
    BY <2>1 DEF CreateECPoint
<1>4. ASSUME NEW a \in Points, a # Infinity
      PROVE  CreateECPoint(ToBytesCompressed(a)) = a
  <2> DEFINE fits == {b \in Field \X Field : IsValid(b)
                                             /\ ToBytesCompressed(b) = ToBytesCompressed(a)}
  <2>1. a \in fits
    BY <1>4 DEF Points, IsValid
  <2>2. ASSUME NEW b \in fits
        PROVE  b = a
    <3>1. b \in Field \X Field /\ a \in Field \X Field
      BY <1>4 DEF Points
    <3>2. b[1] = a[1] /\ 2 + (b[2] % 2) = 2 + (a[2] % 2)
      BY <1>1, <2>2, <3>1
    <3>3. b[2] % 2 = a[2] % 2
      <4>1. b[2] \in Int /\ a[2] \in Int
        BY <3>1, FieldIs
      <4>2. b[2] % 2 \in {0, 1} /\ a[2] % 2 \in {0, 1}
        BY <4>1, SmallResidue
      <4> QED
        BY <3>2, <4>2
    <3>4. b \in Points /\ b # Infinity
      BY <2>2 DEF Points, IsValid
    <3>5. (b[2] * b[2]) % P = (a[2] * a[2]) % P
      BY <1>4, <3>2, <3>4, PointIs
    <3>6. b[2] = a[2]
      BY <3>1, <3>3, <3>5, RootsApart
    <3> QED
      BY <3>1, <3>2, <3>6
  <2> HIDE DEF fits
  <2>3. CreateECPoint(ToBytesCompressed(a)) = CHOOSE b \in fits : TRUE
    BY <2>1 DEF CreateECPoint, fits
  <2> QED
    BY <2>1, <2>2, <2>3
<1>5. \A a \in Points : a # Refused
  BY <1>2, PointIs
<1> QED
  BY <1>3, <1>4, <1>5 DEF ToBytesCompressed

-----------------------------------------------------------------------------
(* Multiples of points *)

Sums == [a \in Points |-> [b \in Points |-> PointAdd(a, b)]]

LEMMA SumsMonoid ==
  ASSUME CurveAssumption
  PROVE  /\ Monoid(Points, Sums, Infinity)
         /\ \A a, b \in Points : Sums[a][b] = PointAdd(a, b) /\ PointAdd(a, b) \in Points
         /\ \A a, b \in Points : PointAdd(a, b) = PointAdd(b, a)
         /\ \A a, b, c \in Points : PointAdd(PointAdd(a, b), c) = PointAdd(a, PointAdd(b, c))
         /\ \A a : PointAdd(Infinity, a) = a /\ PointAdd(a, Infinity) = a
<1>1. /\ \A a, b \in Points : PointAdd(a, b) \in Points /\ PointAdd(a, b) = PointAdd(b, a)
      /\ \A a, b, c \in Points : PointAdd(PointAdd(a, b), c) = PointAdd(a, PointAdd(b, c))
  BY DEF CurveAssumption, GroupAssumption
<1>2. \A a, b \in Points : Sums[a][b] = PointAdd(a, b)
  BY DEF Sums
<1>3. Sums \in [Points -> [Points -> Points]]
  BY <1>1 DEF Sums
<1>4. \A a : PointAdd(Infinity, a) = a /\ PointAdd(a, Infinity) = a
  BY DEF PointAdd
<1>5. Infinity \in Points
  BY PointIs
<1> QED
  BY <1>1, <1>2, <1>3, <1>4, <1>5 DEF Monoid

LEMMA Multiples ==
  ASSUME CurveAssumption, NEW a \in Points
  PROVE  /\ PointMul(a, 0) = Infinity
         /\ \A n \in Nat : /\ PointMul(a, n) \in Points
                           /\ PointMul(a, n + 1) = PointAdd(PointMul(a, n), a)
         /\ \A i, j \in Nat : PointMul(a, i + j) = PointAdd(PointMul(a, i), PointMul(a, j))
<1> DEFINE Is(f) == f = [i \in Nat |->
                          IF i = 0 THEN Infinity
                          ELSE LET half == f[i \div 2]
                                   double == PointAdd(half, half)
                               IN IF i % 2 = 1 THEN PointAdd(double, a) ELSE double]
           F == CHOOSE f : Is(f)
<1>1. /\ Monoid(Points, Sums, Infinity)
      /\ \A x, y \in Points : Sums[x][y] = PointAdd(x, y) /\ PointAdd(x, y) \in Points
  BY SumsMonoid
<1>2. PICK g : Times(g, Points, Sums, Infinity, a)
  BY <1>1, TimesExist
<1>3. /\ Halves(g, Points, Sums, Infinity, a) /\ g \in [Nat -> Points]
      /\ \A i, j \in Nat : g[i + j] = Sums[g[i]][g[j]]
  <2>1. Halves(g, Points, Sums, Infinity, a)
    BY <1>2, TimesHalve
  <2>2. \A i, j \in Nat : g[i + j] = Sums[g[i]][g[j]]
    BY <1>2, TimesSum
  <2>3. g \in [Nat -> Points]
    BY <1>2 DEF Times
  <2> QED
    BY <2>1, <2>2, <2>3
<1>4. Is(g)
  <2>1. ASSUME NEW k \in Nat \ {0}
        PROVE  g[k] = LET half == g[k \div 2]
                          double == PointAdd(half, half)
                      IN IF k % 2 = 1 THEN PointAdd(double, a) ELSE double
    <3> DEFINE h == g[k \div 2]
    <3>1. k \div 2 \in Nat
      OBVIOUS
    <3>2. h \in Points
      BY <1>3, <3>1
    <3> HIDE DEF h
    <3>3. g[k] = IF k % 2 = 1 THEN Sums[Sums[h][h]][a] ELSE Sums[h][h]
      BY <1>3, <3>2 DEF Halves, h
    <3>4. g[k] = IF k % 2 = 1 THEN PointAdd(PointAdd(h, h), a) ELSE PointAdd(h, h)
      BY <1>1, <3>2, <3>3
    <3> QED
      BY <3>4 DEF h
  <2>2. g[0] = Infinity
    BY <1>3 DEF Halves
  <2>3. g = [k \in Nat |-> g[k]]
    BY <1>3
  <2> QED
    BY <2>1, <2>2, <2>3
<1>5. Is(F)
  <2> HIDE DEF Is
  <2> QED
    BY <1>4
<1>6. \A k : PointMul(a, k) = F[k]
  BY DEF PointMul
<1> HIDE DEF F
<1>7. Halves(F, Points, Sums, Infinity, a)
  <2>1. F[0] = Infinity
    BY <1>5
  <2>2. ASSUME NEW i \in Nat \ {0}, F[i \div 2] \in Points
        PROVE  F[i] = IF i % 2 = 1 THEN Sums[Sums[F[i \div 2]][F[i \div 2]]][a]
                      ELSE Sums[F[i \div 2]][F[i \div 2]]
    <3> DEFINE h == F[i \div 2]
    <3>1. F[i] = LET half == F[i \div 2]
                     double == PointAdd(half, half)
                 IN IF i % 2 = 1 THEN PointAdd(double, a) ELSE double
      BY <1>5
    <3>2. F[i] = IF i % 2 = 1 THEN PointAdd(PointAdd(h, h), a) ELSE PointAdd(h, h)
      BY <3>1, Zenon
    <3>3. h \in Points
      BY <2>2
    <3> HIDE DEF h
    <3>4. F[i] = IF i % 2 = 1 THEN Sums[Sums[h][h]][a] ELSE Sums[h][h]
      BY <1>1, <3>2, <3>3
    <3> QED
      BY <3>4 DEF h
  <2> QED
    BY <2>1, <2>2 DEF Halves
<1>8. \A n \in Nat : F[n] = g[n]
  BY <1>2, <1>7, HalvesUnique
<1>9. ASSUME NEW n \in Nat
      PROVE  F[n] \in Points /\ F[n + 1] = PointAdd(F[n], a)
  <2>1. n + 1 \in Nat /\ g[n] \in Points
    BY <1>3
  <2>2. g[n + 1] = Sums[g[n]][a]
    BY <1>2 DEF Times
  <2> QED
    BY <1>1, <1>8, <2>1, <2>2
<1>10. ASSUME NEW i \in Nat, NEW j \in Nat
       PROVE  F[i + j] = PointAdd(F[i], F[j])
  <2>1. i + j \in Nat /\ g[i] \in Points /\ g[j] \in Points
    BY <1>3
  <2>2. g[i + j] = Sums[g[i]][g[j]]
    BY <1>3
  <2> QED
    BY <1>1, <1>8, <2>1, <2>2
<1>11. F[0] = Infinity
  BY <1>7 DEF Halves
<1> QED
  BY <1>6, <1>9, <1>10, <1>11

LEMMA MultipleOfInfinity ==
  ASSUME CurveAssumption
  PROVE  \A n \in Nat : PointMul(Infinity, n) = Infinity
<1> DEFINE T == {n \in Nat : PointMul(Infinity, n) = Infinity}
<1>1. Infinity \in Points
  BY PointIs
<1>2. 0 \in T
  BY <1>1, Multiples
<1>3. ASSUME NEW n \in Nat, n \in T
      PROVE  n + 1 \in T
  <2>1. PointMul(Infinity, n + 1) = PointAdd(PointMul(Infinity, n), Infinity)
    BY <1>1, Multiples
  <2> QED
    BY <1>3, <2>1, SumsMonoid
<1>4. Nat \subseteq T
  <2> HIDE DEF T
  <2> QED
    BY <1>2, <1>3, Induction
<1> QED
  BY <1>4

LEMMA MultipleOfSum ==
  ASSUME CurveAssumption, NEW a \in Points, NEW b \in Points
  PROVE  \A n \in Nat :
           PointMul(PointAdd(a, b), n) = PointAdd(PointMul(a, n), PointMul(b, n))
<1> DEFINE c == PointAdd(a, b)
           T == {n \in Nat : PointMul(c, n) = PointAdd(PointMul(a, n), PointMul(b, n))}
<1>1. c \in Points
  BY SumsMonoid
<1>2. 0 \in T
  <2>1. PointMul(a, 0) = Infinity /\ PointMul(b, 0) = Infinity
    BY Multiples
  <2>2. PointMul(c, 0) = Infinity
    <3> HIDE DEF c
    <3> QED
      BY <1>1, Multiples
  <2> QED
    BY <2>1, <2>2, SumsMonoid
<1>3. ASSUME NEW n \in Nat, n \in T
      PROVE  n + 1 \in T
  <2> DEFINE x == PointMul(a, n)
             y == PointMul(b, n)
  <2>1. x \in Points /\ PointMul(a, n + 1) = PointAdd(x, a)
    BY Multiples
  <2>2. y \in Points /\ PointMul(b, n + 1) = PointAdd(y, b)
    BY Multiples
  <2>3. PointMul(c, n + 1) = PointAdd(PointAdd(x, y), c)
    <3>1. PointMul(c, n + 1) = PointAdd(PointMul(c, n), c)
      <4> HIDE DEF c
      <4> QED
        BY <1>1, Multiples
    <3> QED
      BY <1>3, <3>1
  <2> HIDE DEF x, y
  <2>4. /\ PointAdd(PointAdd(x, y), c) = PointAdd(x, PointAdd(y, c))
        /\ PointAdd(y, c) = PointAdd(PointAdd(y, a), b)
        /\ PointAdd(y, a) = PointAdd(a, y)
        /\ PointAdd(PointAdd(a, y), b) = PointAdd(a, PointAdd(y, b))
        /\ PointAdd(y, b) \in Points
    BY <1>1, <2>1, <2>2, SumsMonoid
  <2>5. PointAdd(x, PointAdd(a, PointAdd(y, b))) = PointAdd(PointAdd(x, a), PointAdd(y, b))
    BY <2>1, <2>4, SumsMonoid
  <2> QED
    BY <2>1, <2>2, <2>3, <2>4, <2>5
<1>4. Nat \subseteq T
  <2> HIDE DEF T
  <2> QED
    BY <1>2, <1>3, Induction
<1> QED
  BY <1>4

LEMMA MultipleOfMultiple ==
  ASSUME CurveAssumption, NEW a \in Points, NEW i \in Nat
  PROVE  \A j \in Nat : PointMul(PointMul(a, i), j) = PointMul(a, i * j)
<1> DEFINE b == PointMul(a, i)
           T == {j \in Nat : PointMul(b, j) = PointMul(a, i * j)}
<1>1. b \in Points
  BY Multiples
<1>2. 0 \in T
  <2>1. i * 0 = 0 /\ PointMul(a, 0) = Infinity
    BY Multiples
  <2>2. PointMul(b, 0) = Infinity
    <3> HIDE DEF b
    <3> QED
      BY <1>1, Multiples
  <2> QED
    BY <2>1, <2>2
<1>3. ASSUME NEW j \in Nat, j \in T
      PROVE  j + 1 \in T
  <2> DEFINE ij == i * j
  <2>1. i * (j + 1) = ij + i /\ ij \in Nat
    OBVIOUS
  <2> HIDE DEF ij
  <2>2. PointMul(a, ij + i) = PointAdd(PointMul(a, ij), b)
    BY <2>1, Multiples
  <2>3. PointMul(b, j + 1) = PointAdd(PointMul(b, j), b)
    <3> HIDE DEF b
    <3> QED
      BY <1>1, Multiples
  <2>4. PointMul(b, j) = PointMul(a, ij)
    BY <1>3 DEF ij
  <2> QED
    BY <2>1, <2>2, <2>3, <2>4
<1>4. Nat \subseteq T
  <2> HIDE DEF T
  <2> QED
    BY <1>2, <1>3, Induction
<1> QED
  BY <1>4

LEMMA MultipleModOrder ==
  ASSUME CurveAssumption, NEW a \in Points
  PROVE  \A n \in Nat : PointMul(a, n % Order) = PointMul(a, n) /\ n % Order \in Nat
<1> TAKE n \in Nat
<1> DEFINE q == n \div Order
           r == n % Order
           oq == Order * q
<1>1. Order \in Nat \ {0}
  BY FieldIs
<1>2. n = oq + r /\ r \in Nat /\ q \in Nat /\ oq \in Nat
  BY <1>1
<1> HIDE DEF q, r, oq
<1>3. PointMul(a, n) = PointAdd(PointMul(a, oq), PointMul(a, r)) /\ PointMul(a, r) \in Points
  BY <1>2, Multiples
<1>4. PointMul(a, oq) = Infinity
  <2>1. PointMul(a, Order) = Infinity
    BY DEF CurveAssumption, GroupAssumption
  <2>2. PointMul(PointMul(a, Order), q) = PointMul(a, oq)
    BY <1>1, <1>2, MultipleOfMultiple DEF oq
  <2> QED
    BY <1>2, <2>1, <2>2, MultipleOfInfinity
<1>5. PointMul(a, n) = PointMul(a, r)
  BY <1>3, <1>4, SumsMonoid
<1> QED
  BY <1>2, <1>5 DEF r

\* A point other than the one at infinity has the order of the group, a prime.
LEMMA OrderIs ==
  ASSUME CurveAssumption, NEW a \in Points, a # Infinity, NEW k \in 1 .. Order - 1
  PROVE  PointMul(a, k) # Infinity
<1> SUFFICES ASSUME PointMul(a, k) = Infinity PROVE FALSE
  OBVIOUS
<1> DEFINE i == ModInverse(k, Order)
<1>1. Order \in Nat \ {0} /\ Order > 1 /\ Prime(Order) /\ k \in Nat
  BY FieldIs
<1>2. i \in Nat /\ (k * i) % Order = 1
  <2>1. k % Order = k /\ k # 0
    BY <1>1, SmallResidue
  <2>2. i \in 1 .. Order - 1 /\ (k * i) % Order = 1
    BY <1>1, <2>1, ModInverseIs
  <2> QED
    BY <2>2
<1> HIDE DEF i
<1>3. PointMul(PointMul(a, k), i) = PointMul(a, k * i) /\ k * i \in Nat
  BY <1>1, <1>2, MultipleOfMultiple
<1>4. PointMul(a, k * i) = PointMul(a, 1)
  BY <1>2, <1>3, MultipleModOrder
<1>5. PointMul(a, 1) = a
  <2>1. PointMul(a, 0 + 1) = PointAdd(PointMul(a, 0), a) /\ PointMul(a, 0) = Infinity
    BY Multiples
  <2>2. 0 + 1 = 1
    OBVIOUS
  <2> QED
    BY <2>1, <2>2, SumsMonoid
<1> QED
  BY <1>2, <1>3, <1>4, <1>5, MultipleOfInfinity

LEMMA PointInverseIs ==
  ASSUME CurveAssumption, NEW a \in Points
  PROVE  PointInverse(a) \in Points /\ PointAdd(a, PointInverse(a)) = Infinity
<1>1. CASE a = Infinity
  BY <1>1, PointIs, SumsMonoid DEF PointInverse
<1>2. CASE a # Infinity
  <2> DEFINE x == a[1]
             y == a[2]
             z == (0 - y) % P
  <2>1. P \in Nat \ {0} /\ Field = 0 .. P - 1
    BY FieldIs
  <2>2. x \in Field /\ y \in Field /\ a = <<x, y>> /\ (y * y) % P = YSquare(x)
    BY <1>2, PointIs
  <2>3. PointInverse(a) = <<x, z>>
    BY <1>2 DEF PointInverse
  <2> HIDE DEF x, y
  <2>4. 0 - y \in Int /\ (0 - y) * (0 - y) = y * y /\ y \in Int
    BY <2>1, <2>2
  <2>5. z \in Field
    BY <2>1, <2>4, DivisionOf
  <2>6. (z * z) % P = (y * y) % P
    <3>1. (z * z) % P = ((0 - y) * (0 - y)) % P
      BY <2>1, <2>4, ResidueOfProduct
    <3> QED
      BY <2>4, <3>1
  <2>7. (y + z) % P = 0
    <3>1. ((y % P) + ((0 - y) % P)) % P = (y + (0 - y)) % P
      BY <2>1, <2>4, ResidueOfSum, ZenonT(60)
    <3>2. y + (0 - y) = 0
      BY <2>4
    <3>3. y \in Nat /\ y < P /\ 0 \in Nat /\ 0 < P /\ P \in Nat \ {0}
      BY <2>1, <2>2, <2>4
    <3>4. 0 % P = 0 /\ y % P = y
      BY <3>3, SmallResidue, ZenonT(60)
    <3> QED
      BY <3>1, <3>2, <3>4
  <2> HIDE DEF z
  <2>8. <<x, z>> \in Points /\ <<x, z>> # Infinity
    BY <2>2, <2>5, <2>6, PointIs
  <2>9. PointAdd(a, <<x, z>>) = Infinity
    <3>1. a[1] = <<x, z>>[1] /\ (a[2] + <<x, z>>[2]) % P = 0
      BY <2>2, <2>7
    <3> QED
      BY <1>2, <2>8, <3>1 DEF PointAdd
  <2> QED
    BY <2>3, <2>8, <2>9
<1> QED
  BY <1>1, <1>2

-----------------------------------------------------------------------------
(* Hashing to the curve *)

LEMMA AskedIs ==
  ASSUME CurveAssumption, oracle \in Oracles, NEW id \in Ids, HashEnds(id)
  PROVE  Asked(id) \in Field /\ IsSquare(YSquare(Asked(id)))
<1> DEFINE first == oracle.id[id]
           next == [n \in Nat |-> [x \in Field |-> oracle.number[x]]]
           Is(f) == f = [i \in 1 .. P + 1 |-> IF i = 1 THEN oracle.id[id]
                                              ELSE oracle.number[f[i - 1]]]
           F == CHOOSE f : Is(f)
           hits == {i \in 1 .. P + 1 : IsSquare(YSquare(F[i]))}
<1>1. P \in Nat \ {0} /\ Field = 0 .. P - 1
  BY FieldIs
<1>2. first \in Field /\ \A x \in Field : oracle.number[x] \in Field
  BY DEF CurveAssumption
<1>3. next \in [Nat -> [Field -> Field]]
  BY <1>2
<1>4. PICK g \in [Nat -> Field] : Recursive(g, first, next)
  <2> HIDE DEF first, next
  <2> QED
    BY <1>2, <1>3, Recursion
<1>5. Is([i \in 1 .. P + 1 |-> g[i - 1]])
  <2> DEFINE h == [i \in 1 .. P + 1 |-> g[i - 1]]
  <2>1. ASSUME NEW i \in 1 .. P + 1
        PROVE  h[i] = IF i = 1 THEN oracle.id[id] ELSE oracle.number[h[i - 1]]
    <3>1. CASE i = 1
      BY <1>1, <1>4, <3>1 DEF Recursive
    <3>2. CASE i # 1
      <4>1. i - 1 \in Nat \ {0} /\ i - 1 \in 1 .. P + 1 /\ (i - 1) - 1 \in Nat
        BY <1>1, <3>2
      <4>2. g[i - 1] = next[i - 1][g[(i - 1) - 1]]
        BY <1>4, <4>1 DEF Recursive
      <4>3. g[(i - 1) - 1] \in Field /\ h[i - 1] = g[(i - 1) - 1] /\ h[i] = g[i - 1]
        BY <1>4, <4>1
      <4>4. next[i - 1][g[(i - 1) - 1]] = oracle.number[g[(i - 1) - 1]]
        BY <4>1, <4>3
      <4> QED
        BY <3>2, <4>2, <4>3, <4>4
    <3> QED
      BY <3>1, <3>2
  <2> QED
    BY <2>1
<1>6. Is(F)
  <2> HIDE DEF Is
  <2> QED
    BY <1>5
<1>7. ASSUME NEW i \in 1 .. P + 1
      PROVE  F[i] \in Field
  <2> DEFINE T == {n \in Nat : n + 1 \in 1 .. P + 1 => F[n + 1] \in Field}
  <2>1. 0 \in T
    <3>1. F[0 + 1] = first
      <4>1. 0 + 1 = 1 /\ 1 \in 1 .. P + 1
        BY <1>1
      <4>2. F[1] = oracle.id[id]
        BY <1>6, <4>1, Zenon
      <4> QED
        BY <4>1, <4>2
    <3> QED
      BY <1>2, <3>1
  <2>2. ASSUME NEW n \in Nat, n \in T
        PROVE  n + 1 \in T
    <3> SUFFICES ASSUME (n + 1) + 1 \in 1 .. P + 1
                 PROVE  F[(n + 1) + 1] \in Field
      OBVIOUS
    <3>1. n + 1 \in 1 .. P + 1 /\ (n + 1) + 1 # 1 /\ ((n + 1) + 1) - 1 = n + 1
      BY <1>1
    <3>2. F[(n + 1) + 1] = oracle.number[F[n + 1]]
      BY <1>6, <3>1
    <3>3. F[n + 1] \in Field
      BY <2>2, <3>1
    <3> QED
      BY <1>2, <3>2, <3>3
  <2>3. Nat \subseteq T
    <3> HIDE DEF T
    <3> QED
      BY <2>1, <2>2, Induction
  <2>4. i - 1 \in Nat /\ (i - 1) + 1 = i
    BY <1>1
  <2> QED
    BY <2>3, <2>4
<1>8. Asked(id) = IF hits = {} THEN P ELSE F[LeastOf(hits)]
  BY DEF Asked
<1> HIDE DEF F
<1>9. hits # {}
  BY <1>8 DEF HashEnds
<1>10. LeastOf(hits) \in hits
  <2>1. hits \subseteq Nat
    BY <1>1
  <2> HIDE DEF hits
  <2>2. \E x \in hits : \A y \in hits : x <= y
    BY <1>9, <2>1, LeastNumber
  <2> QED
    BY <2>2 DEF LeastOf
<1> QED
  BY <1>7, <1>8, <1>9, <1>10

\* A square root of either parity gives the point with the even one.
LEMMA PointForIs ==
  ASSUME CurveAssumption, NEW x \in Field, IsSquare(YSquare(x)), NEW root \in Roots(x)
  PROVE  /\ PointFor(x, root) \in Points /\ PointFor(x, root) # Infinity
         /\ PointFor(x, root)[2] % 2 = 0
<1> DEFINE y == IF root % 2 = 1 THEN ModNegate(root, P) ELSE root
<1>1. P \in Nat \ {0} /\ Field = 0 .. P - 1 /\ P % 2 = 1
  BY FieldIs
<1>2. root \in Field /\ (root * root) % P = YSquare(x)
  BY DEF Roots
<1>3. PointFor(x, root) = <<x, y>>
  BY DEF PointFor
<1>4. y \in Field /\ (y * y) % P = YSquare(x) /\ y % 2 = 0
  <2>1. CASE root % 2 = 1
    <3>1. root \in 1 .. P - 1 /\ root % P = root
      BY <1>1, <1>2, <2>1
    <3>2. y = P - root
      BY <1>1, <2>1, <3>1 DEF ModNegate
    <3> DEFINE rr == root * root
    <3>3. P - root \in Field /\ (P - root) % 2 = 0
      BY <1>1, <2>1, <3>1
    <3>4. (P - root) * (P - root) = rr + (P - 2 * root) * P
      BY <1>1, <3>1
    <3>5. rr \in Int /\ P - 2 * root \in Int /\ (P - root) * (P - root) \in Int
      BY <1>1, <3>1
    <3>6. ((P - root) * (P - root)) % P = rr % P
      <4> HIDE DEF rr
      <4>1. Same((P - root) * (P - root), rr, P)
        BY <3>4, <3>5 DEF Same
      <4> QED
        BY <1>1, <3>5, <4>1, SameResidue
    <3> QED
      BY <1>2, <3>2, <3>3, <3>6
  <2>2. CASE root % 2 # 1
    <3>1. root % 2 = 0
      BY <1>1, <1>2, <2>2
    <3> QED
      BY <1>2, <2>2, <3>1
  <2> QED
    BY <2>1, <2>2
<1> HIDE DEF y
<1>5. <<x, y>> \in Points /\ <<x, y>> # Infinity
  BY <1>4, PointIs
<1> QED
  BY <1>3, <1>4, <1>5

-----------------------------------------------------------------------------
(* Powers of the keys *)

\* A factor and its inverse cancel.
LEMMA Cancels ==
  ASSUME NEW m \in Nat \ {0}, NEW x \in 0 .. m - 1, NEW k \in Int, NEW i \in Int,
         (k * i) % m = 1
  PROVE  (((x * k) % m) * i) % m = x
<1> DEFINE xk == x * k
           ki == k * i
<1>1. xk \in Int /\ ki \in Int /\ xk * i = x * ki /\ x \in Int
  OBVIOUS
<1>2. ki % m = 1
  OBVIOUS
<1> HIDE DEF xk, ki
<1>3. ((xk % m) * i) % m = (xk * i) % m
  BY <1>1, ResidueOfProduct
<1>4. (x * (ki % m)) % m = (x * ki) % m
  BY <1>1, ResidueOfProduct
<1>5. x * 1 = x /\ x % m = x
  BY SmallResidue
<1> QED
  BY <1>1, <1>2, <1>3, <1>4, <1>5 DEF xk

LEMMA PowerNotZero ==
  ASSUME NEW m \in Nat, Prime(m), NEW b \in Int, b % m # 0
  PROVE  \A n \in Nat : ModExp(b, n, m) \in 1 .. m - 1
<1> DEFINE T == {n \in Nat : ModExp(b, n, m) \in 1 .. m - 1}
<1>1. m \in Nat \ {0} /\ m > 1
  BY DEF Prime
<1>2. 0 \in T
  <2>1. 1 % m = 1 /\ ModExp(b, 0, m) = 1 % m
    BY <1>1, SmallResidue, ModExpIs
  <2> QED
    BY <1>1, <2>1
<1>3. ASSUME NEW n \in Nat, n \in T
      PROVE  n + 1 \in T
  <2> DEFINE x == ModExp(b, n, m)
             y == ModExp(b, n + 1, m)
  <2>1. n + 1 \in Nat /\ x \in 1 .. m - 1
    BY <1>3
  <2>2. y \in 0 .. m - 1 /\ y = (x * b) % m
    BY <1>1, <2>1, ModExpIs
  <2> HIDE DEF x, y
  <2>3. x \in Int /\ x % m = x /\ x # 0
    BY <1>1, <2>1, SmallResidue
  <2>4. y # 0
    BY <2>2, <2>3, Euclid
  <2>5. y \in 1 .. m - 1
    BY <2>2, <2>4
  <2> QED
    BY <2>5 DEF y
<1>4. Nat \subseteq T
  <2> HIDE DEF T
  <2> QED
    BY <1>2, <1>3, Induction
<1> QED
  BY <1>4

PowerMoves(key, n) ==
  /\ KeyPower(key, n) \in 1 .. Order - 1
  /\ KeyPower(key, n + 1) = (KeyPower(key, n) * key) % Order
  /\ KeyPower(key, n - 1) = (KeyPower(key, n) * PrivateKeyInverse(key)) % Order

LEMMA KeyPowerIs ==
  ASSUME CurveAssumption, NEW key \in 0 .. Order - 1
  PROVE  /\ KeyPower(key, 0) = 1
         /\ key # 0 => /\ PrivateKeyInverse(key) \in 1 .. Order - 1
                       /\ \A n \in Int : PowerMoves(key, n)
<1> DEFINE inverse == PrivateKeyInverse(key)
           Up(n) == ModExp(key, n, Order)
           Down(n) == ModExp(inverse, n, Order)
<1>1. Order \in Nat \ {0} /\ Order > 1 /\ Prime(Order) /\ key \in Int
  BY FieldIs
<1>2. 1 % Order = 1
  BY <1>1, SmallResidue
<1>3. Up(0) = 1 /\ KeyPower(key, 0) = 1
  BY <1>1, <1>2, ModExpIs DEF KeyPower
<1> SUFFICES ASSUME key # 0
             PROVE  inverse \in 1 .. Order - 1 /\ \A n \in Int : PowerMoves(key, n)
  BY <1>3
<1>4. key % Order = key
  BY <1>1, SmallResidue
<1>5. inverse \in 1 .. Order - 1 /\ (key * inverse) % Order = 1 /\ inverse \in Int
  <2>1. inverse \in 1 .. Order - 1 /\ (key * inverse) % Order = 1
    BY <1>1, <1>4, ModInverseIs DEF PrivateKeyInverse
  <2> QED
    BY <2>1
<1>6. \A n \in Int : KeyPower(key, n) = IF n < 0 THEN Down(0 - n) ELSE Up(n)
  BY DEF KeyPower
<1> HIDE DEF inverse
<1>7. /\ Down(0) = 1
      /\ \A n \in Nat : /\ Up(n) \in 1 .. Order - 1 /\ Down(n) \in 1 .. Order - 1
                        /\ Up(n + 1) = (Up(n) * key) % Order
                        /\ Down(n + 1) = (Down(n) * inverse) % Order
  <2>1. inverse % Order = inverse /\ inverse # 0
    BY <1>1, <1>5, SmallResidue
  <2>2. \A n \in Nat : Down(n) \in 1 .. Order - 1
    BY <1>1, <1>5, <2>1, PowerNotZero
  <2>3. \A n \in Nat : Up(n) \in 1 .. Order - 1
    BY <1>1, <1>4, PowerNotZero
  <2>4. Down(0) = 1 /\ \A n \in Nat : Down(n + 1) = (Down(n) * inverse) % Order
    BY <1>1, <1>2, <1>5, ModExpIs
  <2>5. \A n \in Nat : Up(n + 1) = (Up(n) * key) % Order
    BY <1>1, ModExpIs
  <2> QED
    BY <2>2, <2>3, <2>4, <2>5
<1> HIDE DEF Up, Down
<1>8. /\ (inverse * key) % Order = 1
      /\ \A x \in 0 .. Order - 1 : /\ (((x * key) % Order) * inverse) % Order = x
                                   /\ (((x * inverse) % Order) * key) % Order = x
  <2>1. inverse * key = key * inverse
    BY <1>1, <1>5
  <2>2. ASSUME NEW x \in 0 .. Order - 1
        PROVE  /\ (((x * key) % Order) * inverse) % Order = x
               /\ (((x * inverse) % Order) * key) % Order = x
    <3>1. (((x * key) % Order) * inverse) % Order = x
      BY <1>1, <1>5, Cancels
    <3>2. (((x * inverse) % Order) * key) % Order = x
      BY <1>1, <1>5, <2>1, Cancels
    <3> QED
      BY <3>1, <3>2
  <2> QED
    BY <1>5, <2>1, <2>2
<1>9. ASSUME NEW n \in Int
      PROVE  /\ KeyPower(key, n) \in 1 .. Order - 1
             /\ KeyPower(key, n + 1) = (KeyPower(key, n) * key) % Order
             /\ KeyPower(key, n - 1) = (KeyPower(key, n) * inverse) % Order
  <2>1. CASE n < 0
    <3> DEFINE d == (0 - n) - 1
    <3>1. d \in Nat /\ 0 - n = d + 1 /\ 0 - n \in Nat /\ 0 - (n + 1) = d
          /\ 0 - (n - 1) = (0 - n) + 1
      BY <2>1
    <3>2. KeyPower(key, n) = Down(0 - n) /\ Down(0 - n) \in 1 .. Order - 1
      BY <1>6, <1>7, <2>1, <3>1
    <3>3. KeyPower(key, n - 1) = (Down(0 - n) * inverse) % Order
      <4>1. n - 1 \in Int /\ n - 1 < 0
        BY <2>1
      <4>2. KeyPower(key, n - 1) = Down(0 - (n - 1))
        BY <1>6, <4>1
      <4>3. Down((0 - n) + 1) = (Down(0 - n) * inverse) % Order
        BY <1>7, <3>1
      <4> QED
        BY <3>1, <4>2, <4>3
    <3> HIDE DEF d
    <3>4. Down(d + 1) = (Down(d) * inverse) % Order /\ Down(d) \in 0 .. Order - 1
      BY <1>7, <3>1
    <3>5. (Down(0 - n) * key) % Order = Down(d)
      BY <1>8, <3>1, <3>4
    <3>6. KeyPower(key, n + 1) = Down(d)
      <4>1. CASE n + 1 < 0
        BY <1>6, <3>1, <4>1
      <4>2. CASE n + 1 = 0
        BY <1>3, <1>7, <3>1, <4>2
      <4> QED
        BY <2>1, <4>1, <4>2
    <3> QED
      BY <3>2, <3>3, <3>5, <3>6
  <2>2. CASE n >= 0
    <3>1. n \in Nat /\ n + 1 \in Int /\ n - 1 \in Int /\ ~ (n < 0) /\ ~ (n + 1 < 0)
      BY <2>2
    <3>2. KeyPower(key, n) = Up(n) /\ KeyPower(key, n + 1) = Up(n + 1)
      BY <1>6, <3>1
    <3>3. Up(n) \in 1 .. Order - 1 /\ Up(n + 1) = (Up(n) * key) % Order
      BY <1>7, <3>1
    <3>4. KeyPower(key, n - 1) = (Up(n) * inverse) % Order
      <4>1. CASE n = 0
        <5>1. KeyPower(key, n - 1) = Down(0 + 1)
          BY <1>6, <4>1
        <5>2. Down(0 + 1) = (Down(0) * inverse) % Order
          BY <1>7
        <5> QED
          BY <1>3, <1>7, <4>1, <5>1, <5>2
      <4>2. CASE n # 0
        <5> DEFINE d == n - 1
        <5>1. d \in Nat /\ n = d + 1 /\ ~ (d < 0) /\ d \in Int
          BY <3>1, <4>2
        <5>2. KeyPower(key, d) = Up(d)
          BY <1>6, <5>1
        <5> HIDE DEF d
        <5>3. Up(d + 1) = (Up(d) * key) % Order /\ Up(d) \in 0 .. Order - 1
          BY <1>7, <5>1
        <5>4. (Up(n) * inverse) % Order = Up(d)
          BY <1>8, <5>1, <5>3
        <5> QED
          BY <5>2, <5>4 DEF d
      <4> QED
        BY <4>1, <4>2
    <3> QED
      BY <3>2, <3>3, <3>4
  <2> QED
    BY <2>1, <2>2
<1> QED
  BY <1>5, <1>9 DEF PowerMoves, inverse

LEMMA BothKeysAre ==
  ASSUME CurveAssumption, cipher_key \in [Parties -> 0 .. Order - 1],
         NEW power \in [Parties -> Int], \A q \in Parties : power[q] # 0 => cipher_key[q] # 0
  PROVE  BothKeys(power) \in 1 .. Order - 1
<1>1. Order \in Nat \ {0} /\ Order > 1 /\ Prime(Order)
  BY FieldIs
<1> DEFINE K(q) == KeyPower(cipher_key[q], power[q])
<1>2. ASSUME NEW q \in Parties
      PROVE  K(q) \in 1 .. Order - 1
  <2>1. cipher_key[q] \in 0 .. Order - 1 /\ power[q] \in Int
    OBVIOUS
  <2>2. CASE cipher_key[q] = 0
    <3>1. power[q] = 0
      BY <2>2
    <3>2. K(q) = 1
      BY <2>1, <3>1, KeyPowerIs
    <3> QED
      BY <1>1, <3>2
  <2>3. CASE cipher_key[q] # 0
    BY <2>1, <2>3, KeyPowerIs DEF PowerMoves
  <2> QED
    BY <2>2, <2>3
<1>3. BothKeys(power) = (K(1) * K(2)) % Order
  BY DEF BothKeys
<1> HIDE DEF K
<1>4. K(1) \in 1 .. Order - 1 /\ K(2) \in 1 .. Order - 1
  BY <1>2 DEF Parties
<1> DEFINE x == K(1)
           y == K(2)
<1>5. x \in Int /\ y \in Int /\ x % Order = x /\ y % Order = y /\ x # 0 /\ y # 0
  BY <1>1, <1>4, SmallResidue
<1> HIDE DEF x, y
<1>6. (x * y) % Order # 0
  BY <1>1, <1>5, Euclid
<1>7. (x * y) % Order \in 0 .. Order - 1
  <2> DEFINE xy == x * y
  <2>1. xy \in Int
    BY <1>5
  <2> HIDE DEF xy
  <2>2. xy % Order \in 0 .. Order - 1
    BY <1>1, <2>1, DivisionOf
  <2> QED
    BY <2>2 DEF xy
<1> QED
  BY <1>3, <1>6, <1>7 DEF x, y

\* A key is applied once more, or removed once more.
LEMMA BothKeysMove ==
  ASSUME CurveAssumption, cipher_key \in [Parties -> 0 .. Order - 1],
         NEW power \in [Parties -> Int], \A q \in Parties : power[q] # 0 => cipher_key[q] # 0,
         NEW p \in Parties, cipher_key[p] # 0
  PROVE  /\ BothKeys([power EXCEPT ![p] = @ + 1]) = (BothKeys(power) * cipher_key[p]) % Order
         /\ BothKeys([power EXCEPT ![p] = @ - 1])
              = (BothKeys(power) * PrivateKeyInverse(cipher_key[p])) % Order
<1> DEFINE K(q, n) == KeyPower(cipher_key[q], n)
<1>1. Order \in Nat \ {0}
  BY FieldIs
<1>2. \A x, y, z \in Int : /\ (((x * z) % Order) * y) % Order = (((x * y) % Order) * z) % Order
                           /\ (x * ((y * z) % Order)) % Order = (((x * y) % Order) * z) % Order
  <2> TAKE x \in Int, y \in Int, z \in Int
  <2> DEFINE xy == x * y
             xz == x * z
             yz == y * z
  <2>1. xy \in Int /\ xz \in Int /\ yz \in Int /\ xz * y = xy * z /\ x * yz = xy * z
    OBVIOUS
  <2> HIDE DEF xy, xz, yz
  <2>2. ((xz % Order) * y) % Order = (xz * y) % Order
    BY <1>1, <2>1, ResidueOfProduct
  <2>3. ((xy % Order) * z) % Order = (xy * z) % Order
    BY <1>1, <2>1, ResidueOfProduct
  <2>4. (x * (yz % Order)) % Order = (x * yz) % Order
    BY <1>1, <2>1, ResidueOfProduct
  <2>5. /\ ((xz % Order) * y) % Order = ((xy % Order) * z) % Order
        /\ (x * (yz % Order)) % Order = ((xy % Order) * z) % Order
    BY <2>1, <2>2, <2>3, <2>4
  <2> QED
    BY <2>5 DEF xy, xz, yz
<1>3. ASSUME NEW d \in Int, NEW f \in Int, K(p, d) = (K(p, power[p]) * f) % Order
      PROVE  BothKeys([power EXCEPT ![p] = d]) = (BothKeys(power) * f) % Order
  <2> DEFINE new == [power EXCEPT ![p] = d]
             x == K(1, power[1])
             y == K(2, power[2])
  <2>1. BothKeys(power) = (x * y) % Order /\ BothKeys(new) = (K(1, new[1]) * K(2, new[2])) % Order
    BY DEF BothKeys
  <2>2. x \in Int /\ y \in Int
    <3>1. ASSUME NEW q \in Parties
          PROVE  K(q, power[q]) \in Int
      <4>1. cipher_key[q] \in 0 .. Order - 1 /\ power[q] \in Int
        OBVIOUS
      <4>2. CASE cipher_key[q] = 0
        <5>1. power[q] = 0
          BY <4>2
        <5> QED
          BY <4>1, <5>1, KeyPowerIs
      <4>3. CASE cipher_key[q] # 0
        <5>1. K(q, power[q]) \in 1 .. Order - 1
          BY <4>1, <4>3, KeyPowerIs DEF PowerMoves
        <5> QED
          BY <1>1, <5>1
      <4> QED
        BY <4>2, <4>3
    <3> QED
      BY <3>1 DEF Parties
  <2>3. CASE p = 1
    <3>1. new[1] = d /\ new[2] = power[2]
      BY <2>3 DEF Parties
    <3>2. BothKeys(new) = (((x * f) % Order) * y) % Order
      BY <1>3, <2>1, <2>3, <3>1
    <3> HIDE DEF x, y, new
    <3>3. BothKeys(new) = (((x * y) % Order) * f) % Order
      BY <1>2, <2>2, <3>2
    <3> QED
      BY <2>1, <3>3 DEF new
  <2>4. CASE p = 2
    <3>1. new[1] = power[1] /\ new[2] = d
      BY <2>4 DEF Parties
    <3>2. BothKeys(new) = (x * ((y * f) % Order)) % Order
      BY <1>3, <2>1, <2>4, <3>1
    <3> HIDE DEF x, y, new
    <3>3. BothKeys(new) = (((x * y) % Order) * f) % Order
      BY <1>2, <2>2, <3>2
    <3> QED
      BY <2>1, <3>3 DEF new
  <2> QED
    BY <2>3, <2>4 DEF Parties
<1>4. cipher_key[p] \in 0 .. Order - 1 /\ power[p] \in Int
  OBVIOUS
<1>5. PowerMoves(cipher_key[p], power[p]) /\ PrivateKeyInverse(cipher_key[p]) \in 1 .. Order - 1
  BY <1>4, KeyPowerIs
<1>6. /\ K(p, power[p] + 1) = (K(p, power[p]) * cipher_key[p]) % Order
      /\ K(p, power[p] - 1) = (K(p, power[p]) * PrivateKeyInverse(cipher_key[p])) % Order
  BY <1>5 DEF PowerMoves
<1>7. /\ power[p] + 1 \in Int /\ power[p] - 1 \in Int /\ cipher_key[p] \in Int
      /\ PrivateKeyInverse(cipher_key[p]) \in Int
  BY <1>1, <1>4, <1>5
<1> HIDE DEF K
<1>8. /\ BothKeys([power EXCEPT ![p] = power[p] + 1]) = (BothKeys(power) * cipher_key[p]) % Order
      /\ BothKeys([power EXCEPT ![p] = power[p] - 1])
           = (BothKeys(power) * PrivateKeyInverse(cipher_key[p])) % Order
  BY <1>3, <1>6, <1>7
<1> QED
  BY <1>8

-----------------------------------------------------------------------------
(* The ciphers *)

\* A ciphertext and what its bytes say of it.
EncryptedAs(bytes, o) ==
  /\ \A p \in Parties : o.power[p] # 0 => cipher_key[p] # 0
  /\ o.point = Infinity => bytes = <<0>>
  /\ o.point # Infinity =>
       o.point[2] % 2 = 0 /\ bytes = ToBytesCompressed(PointMul(o.point, BothKeys(o.power)))

LEMMA PutsKeeps ==
  ASSUME CurveAssumption, CurveInv, NEW r \in Regs, NEW a,
         NEW point \in Points, point # Infinity, point[2] % 2 = 0,
         NEW power \in [Parties -> Int], \A p \in Parties : power[p] # 0 => cipher_key[p] # 0,
         a = PointMul(point, BothKeys(power)), Puts(r, a, point, power)
  PROVE  CurveInv'
<1>1. TypeOK /\ Encrypted /\ ElGamalExact
  BY DEF CurveInv
<1>2. /\ UNCHANGED <<oracle, x_, cipher_key, ct, message>> /\ ops' = ops + 1
      /\ wire' = [wire EXCEPT ![r] = ToBytesCompressed(a)]
      /\ origin' = [origin EXCEPT ![r] = [point |-> point, power |-> power]]
  BY DEF Puts, Operates, elGamalVars
<1>3. TypeOK'
  <2>1. origin' \in [Regs -> [point : Points, power : [Parties -> Int]]]
    BY <1>1, <1>2 DEF TypeOK
  <2> QED
    BY <1>1, <1>2, <2>1 DEF TypeOK
<1>4. Encrypted'
  <2> DEFINE new == [point |-> point, power |-> power]
  <2>1. \A q \in Regs : EncryptedAs(wire[q], origin[q])
    BY <1>1 DEF Encrypted, EncryptedAs
  <2>2. EncryptedAs(ToBytesCompressed(a), new)
    BY DEF EncryptedAs
  <2>3. \A q \in Regs : EncryptedAs(wire'[q], origin'[q])
    <3>1. \A q \in Regs : q # r => wire'[q] = wire[q] /\ origin'[q] = origin[q]
      BY <1>1, <1>2 DEF TypeOK
    <3>2. wire'[r] = ToBytesCompressed(a) /\ origin'[r] = new
      BY <1>1, <1>2 DEF TypeOK
    <3> HIDE DEF new
    <3> QED
      BY <2>1, <2>2, <3>1, <3>2
  <2> QED
    BY <1>2, <2>3 DEF Encrypted, EncryptedAs, BothKeys
<1>5. ElGamalExact'
  BY <1>1, <1>2 DEF ElGamalExact, ElGamalDecrypt
<1> QED
  BY <1>3, <1>4, <1>5 DEF CurveInv

\* What is received and not refused is a point times the keys that were applied.
LEMMA ReceivedIs ==
  ASSUME CurveAssumption, CurveInv, NEW r \in Regs, CreateECPoint(wire[r]) # Refused
  PROVE  /\ origin[r].point \in Points /\ origin[r].point # Infinity
         /\ origin[r].point[2] % 2 = 0 /\ origin[r].power \in [Parties -> Int]
         /\ \A p \in Parties : origin[r].power[p] # 0 => cipher_key[p] # 0
         /\ CreateECPoint(wire[r]) = PointMul(origin[r].point, BothKeys(origin[r].power))
         /\ BothKeys(origin[r].power) \in 1 .. Order - 1
<1>1. /\ origin[r] \in [point : Points, power : [Parties -> Int]]
      /\ cipher_key \in [Parties -> 0 .. Order - 1] /\ Encrypted
  BY DEF CurveInv, TypeOK
<1>2. \A p \in Parties : origin[r].power[p] # 0 => cipher_key[p] # 0
  BY <1>1 DEF Encrypted
<1>3. origin[r].point # Infinity
  <2>1. wire[r] # <<0>>
    BY BytesAndBack
  <2> QED
    BY <1>1, <2>1 DEF Encrypted
<1>4. origin[r].point[2] % 2 = 0
      /\ wire[r] = ToBytesCompressed(PointMul(origin[r].point, BothKeys(origin[r].power)))
  BY <1>1, <1>3 DEF Encrypted
<1>5. BothKeys(origin[r].power) \in 1 .. Order - 1
  BY <1>1, <1>2, BothKeysAre
<1> DEFINE a == PointMul(origin[r].point, BothKeys(origin[r].power))
<1>6. a \in Points /\ a # Infinity
  <2>1. BothKeys(origin[r].power) \in Nat
    BY <1>5
  <2> QED
    BY <1>1, <1>3, <1>5, <2>1, Multiples, OrderIs
<1>7. CreateECPoint(ToBytesCompressed(a)) = a
  BY <1>6, BytesAndBack
<1> QED
  BY <1>1, <1>2, <1>3, <1>4, <1>5, <1>7

\* A multiple of a multiple, modulo the order.
LEMMA MultipleAgain ==
  ASSUME CurveAssumption, NEW a \in Points, NEW i \in 1 .. Order - 1, NEW k \in 0 .. Order - 1
  PROVE  PointMul(PointMul(a, i), k) = PointMul(a, (i * k) % Order)
<1>1. i \in Nat /\ k \in Nat /\ i * k \in Nat
  BY FieldIs
<1>2. PointMul(PointMul(a, i), k) = PointMul(a, i * k)
  BY <1>1, MultipleOfMultiple
<1>3. PointMul(a, (i * k) % Order) = PointMul(a, i * k)
  BY <1>1, MultipleModOrder
<1> QED
  BY <1>2, <1>3

LEMMA EncryptKeeps ==
  ASSUME CurveAssumption, CurveInv, NEW p \in Parties, NEW id \in Ids, NEW r \in Regs,
         Encrypt(p, id, r)
  PROVE  CurveInv'
<1> DEFINE power == [q \in Parties |-> IF q = p THEN 1 ELSE 0]
           zero == [q \in Parties |-> 0]
           key == cipher_key[p]
<1>1. cipher_key[p] # 0 /\ HashEnds(id) /\ oracle \in Oracles
      /\ cipher_key \in [Parties -> 0 .. Order - 1]
  BY DEF Encrypt, CurveInv, TypeOK
<1>2. Asked(id) \in Field /\ IsSquare(YSquare(Asked(id)))
  BY <1>1, AskedIs
<1>3. PICK root \in Roots(Asked(id)) :
        LET a == PointFor(Asked(id), root) IN Puts(r, PointMul(a, key), a, power)
  BY DEF Encrypt
<1> DEFINE a == PointFor(Asked(id), root)
<1>4. a \in Points /\ a # Infinity /\ a[2] % 2 = 0
  BY <1>2, PointForIs
<1>5. power \in [Parties -> Int] /\ zero \in [Parties -> Int]
      /\ power = [zero EXCEPT ![p] = @ + 1]
      /\ \A q \in Parties : (power[q] # 0 => cipher_key[q] # 0) /\ zero[q] = 0
  BY <1>1
<1>6. BothKeys(power) = key
  <2>1. Order \in Nat \ {0} /\ Order > 1 /\ key \in 0 .. Order - 1
    BY <1>1, FieldIs
  <2>2. BothKeys(zero) = 1
    <3>1. cipher_key[1] \in 0 .. Order - 1 /\ cipher_key[2] \in 0 .. Order - 1
      BY <1>1 DEF Parties
    <3>2. KeyPower(cipher_key[1], 0) = 1 /\ KeyPower(cipher_key[2], 0) = 1
      BY <3>1, KeyPowerIs
    <3>3. zero[1] = 0 /\ zero[2] = 0
      BY DEF Parties
    <3>4. (1 * 1) % Order = 1
      BY <2>1, SmallResidue
    <3> QED
      BY <3>2, <3>3, <3>4 DEF BothKeys
  <2>3. BothKeys(power) = (BothKeys(zero) * key) % Order
    <3> HIDE DEF zero, power
    <3> QED
      BY <1>1, <1>5, BothKeysMove
  <2>4. 1 * key = key /\ key % Order = key
    BY <2>1, SmallResidue
  <2> QED
    BY <2>2, <2>3, <2>4
<1>7. Puts(r, PointMul(a, key), a, power)
  BY <1>3
<1> HIDE DEF a, power, key
<1> QED
  BY <1>4, <1>5, <1>6, <1>7, PutsKeeps

LEMMA ReEncryptKeeps ==
  ASSUME CurveAssumption, CurveInv, NEW p \in Parties, NEW r \in Regs, ReEncrypt(p, r)
  PROVE  CurveInv'
<1> DEFINE point == origin[r].point
           power == origin[r].power
           key == cipher_key[p]
           new == [power EXCEPT ![p] = @ + 1]
           a == PointMul(CreateECPoint(wire[r]), key)
<1>1. key # 0 /\ CreateECPoint(wire[r]) # Refused /\ Puts(r, a, point, new)
  BY DEF ReEncrypt
<1>2. cipher_key \in [Parties -> 0 .. Order - 1]
  BY DEF CurveInv, TypeOK
<1>3. /\ point \in Points /\ point # Infinity /\ point[2] % 2 = 0
      /\ power \in [Parties -> Int] /\ \A q \in Parties : power[q] # 0 => cipher_key[q] # 0
      /\ CreateECPoint(wire[r]) = PointMul(point, BothKeys(power))
      /\ BothKeys(power) \in 1 .. Order - 1
  BY <1>1, ReceivedIs
<1> HIDE DEF point, power
<1>4. new \in [Parties -> Int] /\ \A q \in Parties : new[q] # 0 => cipher_key[q] # 0
  BY <1>1, <1>3
<1>5. BothKeys(new) = (BothKeys(power) * key) % Order
  BY <1>1, <1>2, <1>3, BothKeysMove
<1>6. key \in 0 .. Order - 1
  BY <1>2
<1>7. a = PointMul(point, BothKeys(new))
  <2> HIDE DEF key, new
  <2> QED
    BY <1>3, <1>5, <1>6, MultipleAgain
<1> HIDE DEF new, a
<1> QED
  BY <1>1, <1>3, <1>4, <1>7, PutsKeeps

LEMMA DecryptKeeps ==
  ASSUME CurveAssumption, CurveInv, NEW p \in Parties, NEW r \in Regs, Decrypt(p, r)
  PROVE  CurveInv'
<1> DEFINE point == origin[r].point
           power == origin[r].power
           inverse == PrivateKeyInverse(cipher_key[p])
           new == [power EXCEPT ![p] = @ - 1]
           a == PointMul(CreateECPoint(wire[r]), inverse)
<1>1. cipher_key[p] # 0 /\ CreateECPoint(wire[r]) # Refused /\ Puts(r, a, point, new)
  BY DEF Decrypt
<1>2. cipher_key \in [Parties -> 0 .. Order - 1]
  BY DEF CurveInv, TypeOK
<1>3. /\ point \in Points /\ point # Infinity /\ point[2] % 2 = 0
      /\ power \in [Parties -> Int] /\ \A q \in Parties : power[q] # 0 => cipher_key[q] # 0
      /\ CreateECPoint(wire[r]) = PointMul(point, BothKeys(power))
      /\ BothKeys(power) \in 1 .. Order - 1
  BY <1>1, ReceivedIs
<1> HIDE DEF point, power
<1>4. new \in [Parties -> Int] /\ \A q \in Parties : new[q] # 0 => cipher_key[q] # 0
  BY <1>1, <1>3
<1>5. BothKeys(new) = (BothKeys(power) * inverse) % Order
  BY <1>1, <1>2, <1>3, BothKeysMove
<1>6. inverse \in 0 .. Order - 1
  <2>1. cipher_key[p] \in 0 .. Order - 1
    BY <1>2
  <2>2. inverse \in 1 .. Order - 1
    BY <1>1, <2>1, KeyPowerIs
  <2> HIDE DEF inverse
  <2> QED
    BY <2>2, FieldIs
<1>7. a = PointMul(point, BothKeys(new))
  <2> HIDE DEF inverse, new
  <2> QED
    BY <1>3, <1>5, <1>6, MultipleAgain
<1> HIDE DEF new, a
<1> QED
  BY <1>1, <1>3, <1>4, <1>7, PutsKeeps

LEMMA CreateFromKeyKeeps ==
  ASSUME CurveAssumption, CurveInv, NEW p \in Parties, NEW key \in CipherKeys(p),
         CreateFromKey(p, key)
  PROVE  CurveInv'
<1>1. TypeOK /\ Encrypted /\ ElGamalExact /\ cipher_key \in [Parties -> 0 .. Order - 1]
  BY DEF CurveInv, TypeOK
<1>2. /\ cipher_key[p] = 0
      /\ cipher_key' = IF PrivateKeyRefused(key) THEN cipher_key ELSE [cipher_key EXCEPT ![p] = key]
      /\ UNCHANGED <<oracle, x_, ops, wire, origin, ct, message>>
  BY DEF CreateFromKey, cipherVars, elGamalVars
<1>3. cipher_key' \in [Parties -> 0 .. Order - 1]
      /\ \A q \in Parties : cipher_key[q] # 0 => cipher_key'[q] = cipher_key[q]
  <2>1. key \in Int /\ Order \in Nat \ {0}
    BY FieldIs DEF CurveAssumption
  <2>2. ~ PrivateKeyRefused(key) => key \in 0 .. Order - 1
    BY <2>1 DEF PrivateKeyRefused
  <2> QED
    BY <1>1, <1>2, <2>2
<1>4. TypeOK'
  BY <1>1, <1>2, <1>3 DEF TypeOK
<1>5. Encrypted'
  <2> SUFFICES ASSUME NEW r \in Regs
               PROVE  LET o == origin[r]
                      IN /\ \A q \in Parties : o.power[q] # 0 => cipher_key'[q] # 0
                         /\ o.point = Infinity => wire[r] = <<0>>
                         /\ o.point # Infinity =>
                              /\ o.point[2] % 2 = 0
                              /\ wire[r] = ToBytesCompressed(PointMul(o.point, BothKeys(o.power)'))
    BY <1>2 DEF Encrypted, BothKeys
  <2> DEFINE o == origin[r]
  <2>1. /\ \A q \in Parties : o.power[q] # 0 => cipher_key[q] # 0
        /\ o.point = Infinity => wire[r] = <<0>>
        /\ o.point # Infinity =>
             o.point[2] % 2 = 0
             /\ wire[r] = ToBytesCompressed(PointMul(o.point, BothKeys(o.power)))
    BY <1>1 DEF Encrypted
  <2>2. o.power \in [Parties -> Int]
    BY <1>1 DEF TypeOK
  <2>3. BothKeys(o.power)' = BothKeys(o.power)
    <3>1. ASSUME NEW q \in Parties
          PROVE  KeyPower(cipher_key'[q], o.power[q]) = KeyPower(cipher_key[q], o.power[q])
      <4>1. CASE cipher_key[q] = 0
        <5>1. o.power[q] = 0 /\ cipher_key[q] \in 0 .. Order - 1 /\ cipher_key'[q] \in 0 .. Order - 1
          BY <1>1, <1>3, <2>1, <4>1
        <5>2. KeyPower(cipher_key[q], 0) = 1
          BY <5>1, KeyPowerIs
        <5>3. KeyPower(cipher_key'[q], 0) = 1
          <6> DEFINE k == cipher_key'[q]
          <6>1. k \in 0 .. Order - 1
            BY <5>1
          <6> HIDE DEF k
          <6>2. KeyPower(k, 0) = 1
            BY <6>1, KeyPowerIs
          <6> QED
            BY <6>2 DEF k
        <5> QED
          BY <5>1, <5>2, <5>3
      <4>2. CASE cipher_key[q] # 0
        BY <1>3, <4>2
      <4> QED
        BY <4>1, <4>2
    <3>2. /\ KeyPower(cipher_key'[1], o.power[1]) = KeyPower(cipher_key[1], o.power[1])
          /\ KeyPower(cipher_key'[2], o.power[2]) = KeyPower(cipher_key[2], o.power[2])
      BY <3>1 DEF Parties
    <3>3. o.power' = o.power
      BY <1>2
    <3> QED
      BY <3>2, <3>3 DEF BothKeys
  <2>4. \A q \in Parties : o.power[q] # 0 => cipher_key'[q] # 0
    BY <1>3, <2>1
  <2>5. BothKeys(o.power)' = BothKeys(origin[r].power)'
    OBVIOUS
  <2> QED
    BY <2>1, <2>3, <2>4
<1>6. ElGamalExact'
  BY <1>1, <1>2 DEF ElGamalExact, ElGamalDecrypt
<1> QED
  BY <1>4, <1>5, <1>6 DEF CurveInv

-----------------------------------------------------------------------------
(* ElGamal *)

\* A pair decrypts to m if its second part is m plus the key times the first.
LEMMA DecryptsTo ==
  ASSUME CurveAssumption, NEW u \in Points, NEW e \in Points, NEW m \in Points, NEW k \in Nat
  PROVE  PointAdd(e, PointInverse(PointMul(u, k))) = m <=> e = PointAdd(m, PointMul(u, k))
<1> DEFINE v == PointMul(u, k)
           w == PointInverse(v)
<1>1. v \in Points
  BY Multiples
<1> HIDE DEF v
<1>2. w \in Points /\ PointAdd(v, w) = Infinity /\ PointAdd(w, v) = Infinity
  BY <1>1, PointInverseIs, SumsMonoid
<1> HIDE DEF w
<1>3. /\ PointAdd(PointAdd(e, w), v) = PointAdd(e, PointAdd(w, v))
      /\ PointAdd(PointAdd(m, v), w) = PointAdd(m, PointAdd(v, w))
      /\ PointAdd(e, Infinity) = e /\ PointAdd(m, Infinity) = m
  BY <1>1, <1>2, SumsMonoid
<1>4. PointAdd(e, w) = m <=> e = PointAdd(m, v)
  BY <1>2, <1>3
<1> QED
  BY <1>4 DEF v, w

\* (a + b) + (c + d) = (a + c) + (b + d).
LEMMA SumOfSums ==
  ASSUME CurveAssumption, NEW a \in Points, NEW b \in Points, NEW c \in Points, NEW d \in Points
  PROVE  PointAdd(PointAdd(a, b), PointAdd(c, d)) = PointAdd(PointAdd(a, c), PointAdd(b, d))
<1> DEFINE bd == PointAdd(b, d)
           cd == PointAdd(c, d)
<1>1. bd \in Points /\ cd \in Points
  BY SumsMonoid
<1>2. PointAdd(b, cd) = PointAdd(c, bd)
  <2>1. PointAdd(PointAdd(b, c), d) = PointAdd(b, cd) /\ PointAdd(PointAdd(c, b), d) = PointAdd(c, bd)
    BY SumsMonoid
  <2>2. PointAdd(b, c) = PointAdd(c, b)
    BY SumsMonoid
  <2> QED
    BY <2>1, <2>2
<1> HIDE DEF bd, cd
<1>3. PointAdd(PointAdd(a, b), cd) = PointAdd(a, PointAdd(b, cd))
      /\ PointAdd(PointAdd(a, c), bd) = PointAdd(a, PointAdd(c, bd))
  BY <1>1, SumsMonoid
<1>4. PointAdd(PointAdd(a, b), cd) = PointAdd(PointAdd(a, c), bd)
  BY <1>2, <1>3
<1> QED
  BY <1>4 DEF bd, cd

\* Multiples of multiples, in either order.
LEMMA MultiplesCommute ==
  ASSUME CurveAssumption, NEW a \in Points, NEW i \in Nat, NEW j \in Nat
  PROVE  PointMul(PointMul(a, i), j) = PointMul(PointMul(a, j), i)
<1>1. PointMul(PointMul(a, i), j) = PointMul(a, i * j)
  BY MultipleOfMultiple
<1>2. PointMul(PointMul(a, j), i) = PointMul(a, j * i)
  BY MultipleOfMultiple
<1>3. i * j = j * i
  OBVIOUS
<1> QED
  BY <1>1, <1>2, <1>3

\* What the invariant says of a ciphertext, without the inverse.
LEMMA CiphertextIs ==
  ASSUME CurveAssumption, CurveInv, NEW r \in Regs
  PROVE  /\ ct[r].u \in Points /\ ct[r].e \in Points /\ message[r] \in Points
         /\ x_ \in Nat /\ x_ # 0
         /\ ct[r].e = PointAdd(message[r], PointMul(ct[r].u, x_))
<1>1. ct[r].u \in Points /\ ct[r].e \in Points /\ message[r] \in Points
  <2>1. ct[r] \in [u : Points, e : Points] /\ message[r] \in Points
    BY DEF CurveInv, TypeOK
  <2> QED
    BY <2>1
<1>2. x_ \in Nat /\ x_ # 0
  <2>1. x_ \in 1 .. Order - 1
    BY DEF CurveInv, TypeOK, CurveAssumption
  <2> QED
    BY <2>1, FieldIs
<1>3. PointAdd(ct[r].e, PointInverse(PointMul(ct[r].u, x_))) = message[r]
  BY DEF CurveInv, ElGamalExact, ElGamalDecrypt
<1> QED
  BY <1>1, <1>2, <1>3, DecryptsTo

LEMMA StoresKeeps ==
  ASSUME CurveAssumption, CurveInv, NEW r \in Regs, NEW u \in Points, NEW e \in Points,
         NEW m \in Points, e = PointAdd(m, PointMul(u, x_)), Stores(r, u, e, m)
  PROVE  CurveInv'
<1>1. TypeOK /\ Encrypted /\ ElGamalExact
  BY DEF CurveInv
<1>2. /\ UNCHANGED <<oracle, x_, cipher_key, wire, origin>> /\ ops' = ops + 1
      /\ ct' = [ct EXCEPT ![r] = [u |-> u, e |-> e]] /\ message' = [message EXCEPT ![r] = m]
  BY DEF Stores, Operates, cipherVars
<1>3. TypeOK'
  BY <1>1, <1>2 DEF TypeOK
<1>4. Encrypted'
  BY <1>1, <1>2 DEF Encrypted, BothKeys
<1>5. x_ \in Nat
  BY CiphertextIs
<1>6. ElGamalExact'
  <2> DEFINE Exact(a, n) == /\ PointAdd(a.e, PointInverse(PointMul(a.u, x_))) = n
                            /\ a.u = Infinity /\ a.e = Infinity => n = Infinity
             new == [u |-> u, e |-> e]
  <2>1. \A q \in Regs : Exact(ct[q], message[q])
    BY <1>1 DEF ElGamalExact, ElGamalDecrypt
  <2>2. Exact(new, m)
    <3>1. new.u = u /\ new.e = e
      OBVIOUS
    <3>2. PointAdd(e, PointInverse(PointMul(u, x_))) = m
      BY <1>5, DecryptsTo
    <3>3. u = Infinity /\ e = Infinity => m = Infinity
      <4>1. PointMul(Infinity, x_) = Infinity /\ PointAdd(m, Infinity) = m
        BY <1>5, MultipleOfInfinity, SumsMonoid
      <4> QED
        BY <4>1
    <3> QED
      BY <3>1, <3>2, <3>3
  <2>3. \A q \in Regs : q # r => ct'[q] = ct[q] /\ message'[q] = message[q]
    BY <1>1, <1>2 DEF TypeOK
  <2>4. ct'[r] = new /\ message'[r] = m
    BY <1>1, <1>2 DEF TypeOK
  <2> HIDE DEF Exact, new
  <2>5. \A q \in Regs : Exact(ct'[q], message'[q])
    BY <2>1, <2>2, <2>3, <2>4
  <2> QED
    BY <1>2, <2>5 DEF ElGamalExact, ElGamalDecrypt, Exact
<1> QED
  BY <1>3, <1>4, <1>6 DEF CurveInv

LEMMA RandomIs ==
  ASSUME CurveAssumption
  PROVE  /\ \A k \in Randoms : k \in Nat
         /\ Generator \in Points
<1>1. \A k \in Randoms : k \in 1 .. Order - 1
  BY DEF CurveAssumption
<1> QED
  BY <1>1, FieldIs DEF CurveAssumption, GroupAssumption

\* Multiples of the generator and of the public key, with one random number.
LEMMA SameRandom ==
  ASSUME CurveAssumption, x_ \in Nat, NEW k \in Nat
  PROVE  /\ PointMul(Generator, k) \in Points /\ PointMul(Y, k) \in Points
         /\ PointMul(Y, k) = PointMul(PointMul(Generator, k), x_)
<1>1. Generator \in Points
  BY RandomIs
<1>2. Y = PointMul(Generator, x_) /\ Y \in Points
  BY <1>1, Multiples DEF Y
<1>3. PointMul(Generator, k) \in Points /\ PointMul(Y, k) \in Points
  BY <1>1, <1>2, Multiples
<1> QED
  BY <1>1, <1>2, <1>3, MultiplesCommute

LEMMA ElGamalEncryptKeeps ==
  ASSUME CurveAssumption, CurveInv, NEW r \in Regs, NEW m \in Points, NEW k \in Randoms,
         ElGamalEncrypt(r, m, k)
  PROVE  CurveInv'
<1>1. x_ \in Nat /\ k \in Nat
  BY CiphertextIs, RandomIs
<1> DEFINE u == PointMul(Generator, k)
           e == PointAdd(m, PointMul(Y, k))
<1>2. u \in Points /\ PointMul(Y, k) \in Points /\ PointMul(Y, k) = PointMul(u, x_)
  BY <1>1, SameRandom
<1>3. e \in Points /\ e = PointAdd(m, PointMul(u, x_))
  BY <1>2, SumsMonoid
<1>4. Stores(r, u, e, m)
  BY DEF ElGamalEncrypt
<1> HIDE DEF u, e
<1> QED
  BY <1>2, <1>3, <1>4, StoresKeeps

LEMMA ReRandomizeKeeps ==
  ASSUME CurveAssumption, CurveInv, NEW r \in Regs, NEW k \in Randoms, ReRandomize(r, k)
  PROVE  CurveInv'
<1>1. x_ \in Nat /\ k \in Nat
  BY CiphertextIs, RandomIs
<1> DEFINE a == ct[r]
           m == message[r]
           v == PointMul(Generator, k)
           f == PointMul(Y, k)
           u == PointAdd(a.u, v)
           e == PointAdd(a.e, f)
<1>2. v \in Points /\ f \in Points /\ f = PointMul(v, x_)
  BY <1>1, SameRandom
<1>3. a.u \in Points /\ a.e \in Points /\ m \in Points /\ a.e = PointAdd(m, PointMul(a.u, x_))
  BY CiphertextIs
<1>4. Stores(r, u, e, m)
  BY DEF ReRandomize, ReRandomized
<1> HIDE DEF a, m, v, f
<1>5. u \in Points /\ e \in Points
  BY <1>2, <1>3, SumsMonoid
<1>6. e = PointAdd(m, PointMul(u, x_))
  <2> DEFINE w == PointMul(a.u, x_)
  <2>1. w \in Points
    BY <1>1, <1>3, Multiples
  <2>2. PointMul(u, x_) = PointAdd(w, f)
    BY <1>1, <1>2, <1>3, MultipleOfSum
  <2> HIDE DEF w
  <2>3. PointAdd(PointAdd(m, w), f) = PointAdd(m, PointAdd(w, f))
    BY <1>2, <1>3, <2>1, SumsMonoid
  <2> QED
    BY <1>3, <2>2, <2>3 DEF w
<1> HIDE DEF u, e
<1> QED
  BY <1>3, <1>4, <1>5, <1>6, StoresKeeps

LEMMA MultiplyKeeps ==
  ASSUME CurveAssumption, CurveInv, NEW r1 \in Regs, NEW r2 \in Regs, Multiply(r1, r2)
  PROVE  CurveInv'
<1> DEFINE a == ct[r1]
           b == ct[r2]
           m == message[r1]
           n == message[r2]
           u == PointAdd(a.u, b.u)
           e == PointAdd(a.e, b.e)
<1>1. a.u \in Points /\ a.e \in Points /\ m \in Points /\ a.e = PointAdd(m, PointMul(a.u, x_))
  BY CiphertextIs
<1>2. b.u \in Points /\ b.e \in Points /\ n \in Points /\ b.e = PointAdd(n, PointMul(b.u, x_))
  BY CiphertextIs
<1>3. Stores(r1, u, e, PointAdd(m, n)) /\ x_ \in Nat
  BY CiphertextIs DEF Multiply
<1> HIDE DEF a, b, m, n
<1>4. u \in Points /\ e \in Points /\ PointAdd(m, n) \in Points
  BY <1>1, <1>2, SumsMonoid
<1>5. e = PointAdd(PointAdd(m, n), PointMul(u, x_))
  <2>1. PointMul(a.u, x_) \in Points /\ PointMul(b.u, x_) \in Points
    BY <1>1, <1>2, <1>3, Multiples
  <2>2. PointMul(u, x_) = PointAdd(PointMul(a.u, x_), PointMul(b.u, x_))
    BY <1>1, <1>2, <1>3, MultipleOfSum
  <2> QED
    BY <1>1, <1>2, <2>1, <2>2, SumOfSums
<1> HIDE DEF u, e
<1> QED
  BY <1>3, <1>4, <1>5, StoresKeeps

\* Both parts and the message, times k.
LEMMA TimesKeeps ==
  ASSUME CurveAssumption, CurveInv, NEW r \in Regs, NEW k \in Nat,
         Stores(r, PointMul(ct[r].u, k), PointMul(ct[r].e, k), PointMul(message[r], k))
  PROVE  CurveInv'
<1> DEFINE a == ct[r]
           m == message[r]
           u == PointMul(a.u, k)
           e == PointMul(a.e, k)
           n == PointMul(m, k)
<1>1. a.u \in Points /\ a.e \in Points /\ m \in Points /\ a.e = PointAdd(m, PointMul(a.u, x_))
      /\ x_ \in Nat
  BY CiphertextIs
<1>2. Stores(r, u, e, n)
  OBVIOUS
<1> HIDE DEF a, m
<1>3. u \in Points /\ e \in Points /\ n \in Points
  BY <1>1, Multiples
<1>4. e = PointAdd(n, PointMul(u, x_))
  <2> DEFINE w == PointMul(a.u, x_)
  <2>1. w \in Points
    BY <1>1, Multiples
  <2>2. PointMul(w, k) = PointMul(u, x_)
    BY <1>1, MultiplesCommute
  <2> HIDE DEF w
  <2>3. PointMul(PointAdd(m, w), k) = PointAdd(n, PointMul(w, k))
    BY <1>1, <2>1, MultipleOfSum
  <2> QED
    BY <1>1, <2>2, <2>3 DEF w
<1> HIDE DEF u, e, n
<1> QED
  BY <1>2, <1>3, <1>4, StoresKeeps

LEMMA ReEncryptElGamalCiphertextKeeps ==
  ASSUME CurveAssumption, CurveInv, NEW p \in Parties, NEW r \in Regs,
         ReEncryptElGamalCiphertext(p, r)
  PROVE  CurveInv'
<1> DEFINE Back(a) == CreateECPoint(ToBytesCompressed(a))
           k == cipher_key[p]
<1>1. ct[r].u \in Points /\ ct[r].e \in Points
  BY CiphertextIs
<1>2. Back(ct[r].u) # Refused /\ Back(ct[r].e) # Refused
      /\ Stores(r, PointMul(Back(ct[r].u), k), PointMul(Back(ct[r].e), k), PointMul(message[r], k))
  BY DEF ReEncryptElGamalCiphertext
<1>3. \A a \in Points : Back(a) # Refused => Back(a) = a
  BY BytesAndBack
<1>4. Back(ct[r].u) = ct[r].u /\ Back(ct[r].e) = ct[r].e
  <2> HIDE DEF Back
  <2> QED
    BY <1>1, <1>2, <1>3
<1>5. k \in Nat
  <2>1. k \in 0 .. Order - 1
    BY DEF CurveInv, TypeOK
  <2> QED
    BY <2>1, FieldIs
<1> HIDE DEF Back, k
<1>6. Stores(r, PointMul(ct[r].u, k), PointMul(ct[r].e, k), PointMul(message[r], k))
  BY <1>2, <1>4
<1> QED
  BY <1>5, <1>6, TimesKeeps

-----------------------------------------------------------------------------
(* The ciphers over a curve: the theorems *)

\* ec_commutative_cipher.cc, ec_group.cc, elgamal.cc: what is on the wire is always
\* the point of an identifier, the one with the even y, times the keys that were
\* applied and not removed, and an ElGamal ciphertext decrypts to its message.
THEOREM CurveInvariant ==
  ASSUME CurveAssumption
  PROVE  Spec => []CurveInv
<1>1. Init => CurveInv
  <2> SUFFICES ASSUME Init PROVE CurveInv
    OBVIOUS
  <2>1. Infinity \in Points /\ Order \in Nat \ {0}
    BY PointIs, FieldIs
  <2>2. TypeOK
    <3>1. 0 \in 0 .. Order - 1 /\ 0 \in Int /\ 0 \in Nat
      BY <2>1
    <3> QED
      BY <2>1, <3>1 DEF Init, TypeOK
  <2>3. Encrypted
    BY DEF Init, Encrypted
  <2>4. ElGamalExact
    <3>1. x_ \in 1 .. Order - 1
      BY DEF Init, CurveAssumption
    <3>2. x_ \in Nat
      BY <2>1, <3>1
    <3>3. PointMul(Infinity, x_) = Infinity /\ PointAdd(Infinity, Infinity) = Infinity
          /\ PointInverse(Infinity) = Infinity
      BY <3>2, MultipleOfInfinity, SumsMonoid DEF PointInverse
    <3> QED
      BY <3>3 DEF Init, ElGamalExact, ElGamalDecrypt
  <2> QED
    BY <2>2, <2>3, <2>4 DEF CurveInv
<1>2. CurveInv /\ [Next]_vars => CurveInv'
  <2> SUFFICES ASSUME CurveInv, [Next]_vars PROVE CurveInv'
    OBVIOUS
  <2>1. ASSUME NEW p \in Parties, NEW key \in CipherKeys(p), CreateFromKey(p, key)
        PROVE  CurveInv'
    BY <2>1, CreateFromKeyKeeps
  <2>2. ASSUME NEW p \in Parties, NEW r \in Regs, NEW id \in Ids, Encrypt(p, id, r)
        PROVE  CurveInv'
    BY <2>2, EncryptKeeps
  <2>3. ASSUME NEW p \in Parties, NEW r \in Regs, ReEncrypt(p, r)
        PROVE  CurveInv'
    BY <2>3, ReEncryptKeeps
  <2>4. ASSUME NEW p \in Parties, NEW r \in Regs, Decrypt(p, r)
        PROVE  CurveInv'
    BY <2>4, DecryptKeeps
  <2>5. ASSUME NEW p \in Parties, NEW r \in Regs, ReEncryptElGamalCiphertext(p, r)
        PROVE  CurveInv'
    BY <2>5, ReEncryptElGamalCiphertextKeeps
  <2>6. ASSUME NEW r \in Regs, NEW random \in Randoms, ReRandomize(r, random)
        PROVE  CurveInv'
    BY <2>6, ReRandomizeKeeps
  <2>7. ASSUME NEW r \in Regs, NEW random \in Randoms, Exp(r, random)
        PROVE  CurveInv'
    BY <2>7, TimesKeeps, RandomIs DEF Exp
  <2>8. ASSUME NEW r \in Regs, NEW random \in Randoms, NEW id \in Ids, HashEnds(id),
               NEW root \in Roots(Asked(id)),
               ElGamalEncrypt(r, PointFor(Asked(id), root), random)
        PROVE  CurveInv'
    <3>1. oracle \in Oracles
      BY DEF CurveInv, TypeOK
    <3>2. PointFor(Asked(id), root) \in Points
      BY <2>8, <3>1, AskedIs, PointForIs
    <3> QED
      BY <2>8, <3>2, ElGamalEncryptKeeps
  <2>9. ASSUME NEW r \in Regs, NEW r2 \in Regs, Multiply(r, r2)
        PROVE  CurveInv'
    BY <2>9, MultiplyKeeps
  <2>10. CASE UNCHANGED vars
    BY <2>10 DEF vars, CurveInv, TypeOK, Encrypted, BothKeys, ElGamalExact, ElGamalDecrypt
  <2> QED
    BY <2>1, <2>2, <2>3, <2>4, <2>5, <2>6, <2>7, <2>8, <2>9, <2>10 DEF Next
<1> QED
  BY <1>1, <1>2, PTL DEF Spec

\* ec_commutative_cipher.h: keys apply and are removed in any order, and two
\* encryptions of an identifier under the same keys are the same bytes.
THEOREM KeysCommute ==
  ASSUME CurveAssumption
  PROVE  Spec => []CiphersCommute
<1>1. CurveInv => CiphersCommute
  <2> SUFFICES ASSUME CurveInv, NEW r \in Regs, origin[r].point # Infinity
               PROVE  /\ CreateECPoint(wire[r])
                           = PointMul(origin[r].point, BothKeys(origin[r].power))
                      /\ \A r2 \in Regs :
                           origin[r2].point # Infinity
                           /\ origin[r2].point[1] = origin[r].point[1]
                           /\ origin[r2].power = origin[r].power => wire[r] = wire[r2]
    BY DEF CiphersCommute
  <2>1. \A q \in Regs : origin[q] \in [point : Points, power : [Parties -> Int]]
    BY DEF CurveInv, TypeOK
  <2>2. \A q \in Regs : origin[q].point # Infinity =>
          /\ origin[q].point \in Points /\ origin[q].point[2] % 2 = 0
          /\ wire[q] = ToBytesCompressed(PointMul(origin[q].point, BothKeys(origin[q].power)))
    BY <2>1 DEF CurveInv, Encrypted
  <2>3. CreateECPoint(wire[r]) = PointMul(origin[r].point, BothKeys(origin[r].power))
    <3> DEFINE point == origin[r].point
               k == BothKeys(origin[r].power)
    <3>1. point \in Points /\ point # Infinity /\ wire[r] = ToBytesCompressed(PointMul(point, k))
      BY <2>2
    <3>2. k \in 1 .. Order - 1
      <4>1. \A p \in Parties : origin[r].power[p] # 0 => cipher_key[p] # 0
        BY DEF CurveInv, Encrypted
      <4>2. origin[r].power \in [Parties -> Int] /\ cipher_key \in [Parties -> 0 .. Order - 1]
        BY <2>1 DEF CurveInv, TypeOK
      <4> QED
        BY <4>1, <4>2, BothKeysAre
    <3> HIDE DEF point, k
    <3>3. PointMul(point, k) \in Points /\ PointMul(point, k) # Infinity
      <4>1. k \in Nat
        BY <3>2, FieldIs
      <4> QED
        BY <3>1, <3>2, <4>1, Multiples, OrderIs
    <3>4. CreateECPoint(wire[r]) = PointMul(point, k)
      BY <3>1, <3>3, BytesAndBack
    <3> QED
      BY <3>4 DEF point, k
  <2>4. ASSUME NEW r2 \in Regs, origin[r2].point # Infinity,
               origin[r2].point[1] = origin[r].point[1], origin[r2].power = origin[r].power
        PROVE  wire[r] = wire[r2]
    <3> DEFINE a == origin[r].point
               b == origin[r2].point
    <3>1. a \in Points /\ a # Infinity /\ b \in Points /\ b # Infinity
          /\ a[2] % 2 = b[2] % 2 /\ a[1] = b[1]
      BY <2>2, <2>4
    <3> HIDE DEF a, b
    <3>2. /\ a[2] \in Field /\ b[2] \in Field /\ a = <<a[1], a[2]>> /\ b = <<b[1], b[2]>>
          /\ (a[2] * a[2]) % P = (b[2] * b[2]) % P
      BY <3>1, PointIs
    <3>3. a = b
      BY <3>1, <3>2, RootsApart
    <3> QED
      BY <2>2, <2>4, <3>3 DEF a, b
  <2> QED
    BY <2>3, <2>4
<1> QED
  BY <1>1, CurveInvariant, PTL

\* elgamal.cc: a ciphertext decrypts to what the operations on it give, and a zero
\* ciphertext stands for the point at infinity.
THEOREM ElGamalDecrypts ==
  ASSUME CurveAssumption
  PROVE  Spec => []ElGamalExact
<1>1. CurveInv => ElGamalExact
  BY DEF CurveInv
<1> QED
  BY <1>1, CurveInvariant, PTL

\* The property that is checked, as a whole.
THEOREM CurveAlwaysExact ==
  ASSUME CurveAssumption
  PROVE  Spec => []CurveExact
<1>1. CurveInv /\ CiphersCommute => CurveExact
  BY DEF CurveExact
<1> QED
  BY <1>1, CurveInvariant, KeysCommute, PTL

-----------------------------------------------------------------------------
(* Results: StatusOr objects are made, copied, moved and passed on         *)

\* What is said of each object.
Sound(o, m) ==
  /\ Results!Kept(o, m)
  /\ m.what = "value" => o = Results!Object(Results!OK, m.value)
  /\ m.what = "error" => o = Results!Object(m.status, Results!Absent) /\ ~Results!Ok(o.status)
  /\ m.what = "null" => ~Results!Ok(o.status)
  /\ kind.type = "pointer" /\ Results!Ok(o.status) => o.value # Results!Null
  /\ kind.library = "rlwe" => (Results!Ok(o.status) <=> m.what = "value")

AllSound ==
  /\ kind.library \in {"util", "rlwe"}
  /\ DOMAIN object = Objects /\ DOMAIN meant = Objects
  /\ \A x \in Objects : Sound(object[x], meant[x])

LEMMA ResultsInvIs == Results!ResultsInv <=> AllSound /\ Results!EndsForAReason
BY DEF Results!ResultsInv, Results!ResultsStand, Results!StandsForIt, AllSound, Sound

\* No step changes the class or the build, or follows the end of the process.
LEMMA RunsUntilTheEnd ==
  ASSUME AllSound, Results!Running, AllSound', process' = Results!Runs
  PROVE  Results!ResultsInv'
<1>1. Results!EndsForAReason'
  BY DEF Results!EndsForAReason, Results!Runs
<1> QED
  BY <1>1 DEF Results!ResultsInv, Results!ResultsStand, Results!StandsForIt, AllSound, Sound, Results!Kept

\* One object changes.
LEMMA SetKeeps ==
  ASSUME AllSound, Results!Running, process' = Results!Runs,
         NEW x \in Objects, NEW o, NEW m, Sound(o, m), Results!Set(x, o, m)
  PROVE  Results!ResultsInv'
<1>1. kind' = kind
  BY DEF Results!Running
<1>2. /\ DOMAIN object' = Objects /\ DOMAIN meant' = Objects
      /\ object'[x] = o /\ meant'[x] = m
      /\ \A y \in Objects : y # x => object'[y] = object[y] /\ meant'[y] = meant[y]
  BY DEF AllSound, Results!Set
<1>3. \A y \in Objects : Sound(object'[y], meant'[y])
  BY <1>2 DEF AllSound
<1>4. AllSound'
  BY <1>1, <1>2, <1>3 DEF AllSound, Sound, Results!Kept
<1> QED
  BY <1>4, RunsUntilTheEnd

\* One object changes, and what it is moved from.
LEMMA BothKeep ==
  ASSUME AllSound, Results!Running, process' = Results!Runs,
         NEW x \in Objects, NEW y \in Objects, x # y,
         NEW o, NEW m, Sound(o, m), NEW p, NEW n, Sound(p, n),
         object' = [object EXCEPT ![x] = o, ![y] = p],
         meant' = [meant EXCEPT ![x] = m, ![y] = n]
  PROVE  Results!ResultsInv'
<1>1. kind' = kind
  BY DEF Results!Running
<1>2. /\ DOMAIN object' = Objects /\ DOMAIN meant' = Objects
      /\ object'[x] = o /\ meant'[x] = m /\ object'[y] = p /\ meant'[y] = n
      /\ \A z \in Objects : z # x /\ z # y => object'[z] = object[z] /\ meant'[z] = meant[z]
  BY DEF AllSound
<1>3. \A z \in Objects : Sound(object'[z], meant'[z])
  BY <1>2 DEF AllSound
<1>4. AllSound'
  BY <1>1, <1>2, <1>3 DEF AllSound, Sound, Results!Kept
<1> QED
  BY <1>4, RunsUntilTheEnd

LEMMA NothingKeeps ==
  ASSUME AllSound, Results!Running, process' = Results!Runs, UNCHANGED <<object, meant>>
  PROVE  Results!ResultsInv'
<1>1. AllSound'
  BY DEF AllSound, Sound, Results!Kept, Results!Running
<1> QED
  BY <1>1, RunsUntilTheEnd

\* The process ends in a function of x.
LEMMA EndKeeps ==
  ASSUME AllSound, Results!Running, NEW x \in Objects, NEW how, Results!Ended(how, x),
         \/ how = "invalid argument" /\ debug
         \/ /\ how = "crash" \/ (how = "null dereferenced" /\ kind.library = "util")
            /\ object[x].value = Results!Absent
  PROVE  Results!ResultsInv'
<1>1. AllSound'
  BY DEF AllSound, Sound, Results!Kept, Results!Running, Results!Ended
<1>2. process'.how = how /\ process'.of = x /\ kind' = kind /\ debug' = debug
      /\ object' = object /\ meant' = meant
  BY DEF Results!Running, Results!Ended
<1>3. object[x].value = Results!Absent => meant[x].what \in {"error", "moved"}
  BY DEF AllSound, Sound, Results!Kept
<1>4. Results!EndsForAReason'
  BY <1>2, <1>3 DEF Results!EndsForAReason
<1> QED
  BY <1>1, <1>4 DEF Results!ResultsInv, Results!ResultsStand, Results!StandsForIt, AllSound, Sound, Results!Kept

LEMMA ErrorIsSound ==
  ASSUME NEW status, ~Results!Ok(status)
  PROVE  Sound(Results!Object(status, Results!Absent), Results!Meant("error", status, Results!Absent))
BY DEF Sound, Results!Kept, Results!Object, Results!Meant

\* What a move leaves says that it was moved from, unless it is an error that stays.
LEMMA LeftIsSound ==
  ASSUME AllSound, NEW y \in Objects
  PROVE  Sound(Results!MovedFrom(y), IF Results!StaysMeant(y) THEN meant[y] ELSE Results!Left(y))
<1>1. Sound(object[y], meant[y]) /\ kind.library \in {"util", "rlwe"}
  BY DEF AllSound
<1>2. CASE kind.library = "util"
  <2>1. Results!MovedFrom(y) = Results!Object(object[y].status, Results!Absent)
    BY <1>1, <1>2 DEF Results!MovedFrom, Sound, Results!Kept, Results!Object
  <2>2. CASE meant[y].what = "error"
    BY <1>1, <1>2, <2>1, <2>2 DEF Results!StaysMeant, Sound, Results!Kept, Results!Object
  <2>3. CASE meant[y].what # "error"
    <3>1. Results!Left(y) = Results!Meant("moved", object[y].status, Results!Absent)
      BY <2>1 DEF Results!Left, Results!Object
    <3> QED
      BY <1>2, <2>1, <2>3, <3>1
         DEF Results!StaysMeant, Sound, Results!Kept, Results!Object, Results!Meant,
             Results!Null, Results!Absent
  <2> QED
    BY <2>2, <2>3
<1>3. CASE kind.library # "util"
  <2>1. ~Results!Ok(Results!MovedStatus)
    BY DEF Results!Ok, Results!MovedStatus, Results!Status
  <2> QED
    BY <1>3, <2>1 DEF Results!StaysMeant, Results!MovedFrom, Results!Left, Sound, Results!Kept,
         Results!Object, Results!Meant
<1> QED
  BY <1>2, <1>3

LEMMA FromStatusKeeps ==
  ASSUME AllSound, NEW x \in Objects, NEW status, Results!FromStatus(x, status)
  PROVE  Results!ResultsInv'
<1>1. Results!Running
  BY DEF Results!FromStatus
<1>2. ~Results!Ok(Results!Invalid)
  BY DEF Results!Ok, Results!Invalid, Results!Status
<1>3. CASE ~Results!Ok(status)
  BY <1>1, <1>3, ErrorIsSound, SetKeeps DEF Results!FromStatus
<1>4. CASE Results!Ok(status) /\ debug /\ Results!Ended("invalid argument", x)
  BY <1>1, <1>4, EndKeeps
<1>5. CASE /\ process' = Results!Runs
           /\ Results!Set(x, Results!Object(Results!Invalid, Results!Absent),
                          Results!Meant("error", Results!Invalid, Results!Absent))
  BY <1>1, <1>2, <1>5, ErrorIsSound, SetKeeps
<1> QED
  BY <1>3, <1>4, <1>5 DEF Results!FromStatus

LEMMA FromValueKeeps ==
  ASSUME Results!StatusOrAssumption, AllSound, NEW x \in Objects, NEW value \in Results!Pointers,
         Results!FromValue(x, value)
  PROVE  Results!ResultsInv'
<1>1. Results!Running
  BY DEF Results!FromValue
<1>2. value # Results!Absent
  BY DEF Results!Pointers, Results!StatusOrAssumption, Results!Null, Results!Absent
<1>3. Results!Ok(Results!OK) /\ ~Results!Ok(Results!Invalid)
  BY DEF Results!Ok, Results!OK, Results!Invalid, Results!Status
<1>4. CASE ~Results!IsValueNull(value)
  <2>1. Sound(Results!Object(Results!OK, value), Results!Meant("value", Results!OK, value))
    BY <1>2, <1>3, <1>4
       DEF Sound, Results!Kept, Results!Object, Results!Meant, Results!IsValueNull
  <2> QED
    BY <1>1, <1>4, <2>1, SetKeeps DEF Results!FromValue
<1>5. CASE Results!IsValueNull(value) /\ debug /\ Results!Ended("invalid argument", x)
  BY <1>1, <1>5, EndKeeps
<1>6. CASE /\ process' = Results!Runs
           /\ Results!Set(x, Results!Object(Results!Invalid, value),
                          Results!Meant("null", Results!Invalid, value))
  <2>1. Sound(Results!Object(Results!Invalid, value), Results!Meant("null", Results!Invalid, value))
    BY <1>2, <1>3 DEF Sound, Results!Kept, Results!Object, Results!Meant
  <2> QED
    BY <1>1, <1>6, <2>1, SetKeeps
<1> QED
  BY <1>4, <1>5, <1>6 DEF Results!FromValue

LEMMA CopyKeeps ==
  ASSUME AllSound, NEW x \in Objects, NEW y \in Objects,
         Results!Copy(x, y) \/ Results!CopyOptional(x, y)
  PROVE  Results!ResultsInv'
<1>1. Results!Running
  BY DEF Results!Copy, Results!CopyOptional
<1>2. CASE /\ kind.library = "util" /\ object[y].value = Results!Absent
           /\ Results!Ended("null dereferenced", y)
  BY <1>1, <1>2, EndKeeps
<1>3. CASE Results!Set(x, object[y], meant[y]) /\ process' = Results!Runs
  <2>1. Sound(object[y], meant[y])
    BY DEF AllSound
  <2> QED
    BY <1>1, <1>3, <2>1, SetKeeps
<1> QED
  BY <1>2, <1>3 DEF Results!Copy, Results!CopyOptional

LEMMA MoveKeeps ==
  ASSUME AllSound, NEW x \in Objects, NEW y \in Objects, Results!Move(x, y)
  PROVE  Results!ResultsInv'
<1>1. Results!Running /\ process' = Results!Runs
  BY DEF Results!Move
<1>2. CASE x = y
  BY <1>1, <1>2, NothingKeeps DEF Results!Move
<1>3. CASE x # y
  <2> DEFINE left == IF Results!StaysMeant(y) THEN meant[y] ELSE Results!Left(y)
  <2>1. Sound(object[y], meant[y]) /\ Sound(Results!MovedFrom(y), left)
    BY LeftIsSound DEF AllSound
  <2>2. /\ object' = [object EXCEPT ![x] = object[y], ![y] = Results!MovedFrom(y)]
        /\ meant' = [meant EXCEPT ![x] = meant[y], ![y] = left]
    BY <1>3 DEF Results!Move
  <2> HIDE DEF left
  <2> QED
    BY <1>1, <1>3, <2>1, <2>2, BothKeep
<1> QED
  BY <1>2, <1>3

LEMMA ValueKeeps ==
  ASSUME AllSound, NEW x \in Objects, Results!Value(x)
  PROVE  Results!ResultsInv'
<1>1. Results!Running
  BY DEF Results!Value
<1>2. CASE object[x].value = Results!Absent
  <2>1. Results!Ended("crash", x)
    BY <1>2 DEF Results!Value
  <2> QED
    BY <1>1, <1>2, <2>1, EndKeeps
<1>3. CASE object[x].value # Results!Absent
  BY <1>1, <1>3, NothingKeeps DEF Results!Value
<1> QED
  BY <1>2, <1>3

LEMMA TakeValueKeeps ==
  ASSUME AllSound, NEW x \in Objects, Results!TakeValue(x)
  PROVE  Results!ResultsInv'
<1>1. Results!Running
  BY DEF Results!TakeValue
<1>2. CASE object[x].value = Results!Absent
  <2>1. Results!Ended("crash", x)
    BY <1>2 DEF Results!TakeValue
  <2> QED
    BY <1>1, <1>2, <2>1, EndKeeps
<1>3. CASE object[x].value # Results!Absent
  <2> DEFINE o == Results!Object(object[x].status, Results!Taken(object[x].value))
             m == Results!Meant(meant[x].what, meant[x].status, Results!Taken(meant[x].value))
  <2>1. Sound(object[x], meant[x])
    BY DEF AllSound
  <2>2. [object[x] EXCEPT !.value = Results!Taken(@)] = o
        /\ [meant[x] EXCEPT !.value = Results!Taken(@)] = m
    BY <2>1 DEF Sound, Results!Kept, Results!Object, Results!Meant
  <2>3. /\ object' = [object EXCEPT ![x] = o] /\ meant' = [meant EXCEPT ![x] = m]
        /\ process' = Results!Runs
    BY <1>3, <2>2 DEF Results!TakeValue, AllSound
  <2>4. Sound(o, m)
    BY <1>3, <2>1 DEF Sound, Results!Kept, Results!Object, Results!Meant, Results!Taken,
         Results!Null, Results!Absent
  <2> HIDE DEF o, m
  <2> QED
    BY <1>1, <2>3, <2>4, SetKeeps DEF Results!Set
<1> QED
  BY <1>2, <1>3

LEMMA AssignOrReturnKeeps ==
  ASSUME AllSound, NEW x \in Objects, NEW y \in Objects, NEW note,
         Results!AssignOrReturn(x, y, note)
  PROVE  Results!ResultsInv'
<1>1. Results!Running /\ x # y
  BY DEF Results!AssignOrReturn
<1> DEFINE left == IF Results!StaysMeant(y) THEN meant[y] ELSE Results!Left(y)
<1>2. Sound(object[y], meant[y]) /\ Sound(Results!MovedFrom(y), left)
  BY LeftIsSound DEF AllSound
<1>3. CASE ~Results!Ok(object[y].status)
  <2> DEFINE status == Results!Annotate(object[y].status, note)
  <2>1. meant[y].status = object[y].status
    BY <1>2 DEF Sound, Results!Kept
  <2>2. ~Results!Ok(status)
    BY <1>3 DEF Results!Annotate, Results!Ok, Results!Status
  <2>3. /\ object' = [object EXCEPT ![x] = Results!Object(status, Results!Absent),
                                    ![y] = Results!MovedFrom(y)]
        /\ meant' = [meant EXCEPT ![x] = Results!Meant("error", status, Results!Absent),
                                  ![y] = left]
        /\ process' = Results!Runs
    BY <1>3, <2>1 DEF Results!AssignOrReturn
  <2>4. Sound(Results!Object(status, Results!Absent), Results!Meant("error", status, Results!Absent))
    BY <2>2, ErrorIsSound
  <2> HIDE DEF left, status
  <2> QED
    BY <1>1, <1>2, <2>3, <2>4, BothKeep
<1>4. CASE Results!Ok(object[y].status) /\ object[y].value = Results!Absent
  <2>1. Results!Ended("crash", y)
    BY <1>4 DEF Results!AssignOrReturn
  <2> QED
    BY <1>1, <1>4, <2>1, EndKeeps
<1>5. CASE Results!Ok(object[y].status) /\ object[y].value # Results!Absent
  <2> DEFINE o == Results!Object(Results!OK, object[y].value)
             m == Results!Meant("value", Results!OK, meant[y].value)
  <2>1. meant[y].what = "value"
    BY <1>2, <1>5 DEF AllSound, Sound, Results!Kept
  <2>2. left = Results!Left(y)
    BY <2>1 DEF Results!StaysMeant
  <2>3. object[y].value = meant[y].value /\ Results!Ok(Results!OK)
    BY <1>2, <2>1 DEF Sound, Results!Object, Results!Ok, Results!OK, Results!Status
  <2>4. Sound(o, m)
    BY <1>2, <1>5, <2>1, <2>3 DEF Sound, Results!Kept, Results!Object, Results!Meant
  <2>5. /\ object' = [object EXCEPT ![x] = o, ![y] = Results!MovedFrom(y)]
        /\ meant' = [meant EXCEPT ![x] = m, ![y] = left]
        /\ process' = Results!Runs
    BY <1>5, <2>2 DEF Results!AssignOrReturn
  <2> HIDE DEF left, o, m
  <2> QED
    BY <1>1, <1>2, <2>4, <2>5, BothKeep
<1> QED
  BY <1>3, <1>4, <1>5

-----------------------------------------------------------------------------

\* util/statusor.h, statusor.h: an object given a value is ok and has it, one given an
\* error has that error and no value, through copies, moves and functions that pass it
\* on, and the program ends in value() only for a reason.
THEOREM ResultsAlwaysStand ==
  ASSUME Results!StatusOrAssumption
  PROVE  Results!Spec => []Results!ResultsStand
<1>1. Results!Init => Results!ResultsInv
  <2> SUFFICES ASSUME Results!Init PROVE Results!ResultsInv
    OBVIOUS
  <2> DEFINE unknown == Results!Status("kUnknown", <<>>)
  <2>1. ~Results!Ok(unknown)
    BY DEF Results!Ok, Results!Status
  <2>2. Sound(Results!Object(unknown, Results!Absent), Results!Meant("error", unknown, Results!Absent))
    BY <2>1, ErrorIsSound
  <2>3. kind.library \in {"util", "rlwe"}
    BY DEF Results!Init, Results!StatusOrAssumption
  <2>4. AllSound
    BY <2>2, <2>3 DEF AllSound, Results!Init
  <2>5. Results!EndsForAReason
    BY DEF Results!Init, Results!EndsForAReason, Results!Runs
  <2> QED
    BY <2>4, <2>5, ResultsInvIs
<1>2. Results!ResultsInv /\ [Results!Next]_(Results!vars) => Results!ResultsInv'
  <2> SUFFICES ASSUME Results!ResultsInv, [Results!Next]_(Results!vars) PROVE Results!ResultsInv'
    OBVIOUS
  <2>1. AllSound
    BY ResultsInvIs
  <2>2. ASSUME NEW x \in Objects, NEW status, Results!FromStatus(x, status)
        PROVE  Results!ResultsInv'
    BY <2>1, <2>2, FromStatusKeeps
  <2>3. ASSUME NEW x \in Objects, NEW value \in Results!Pointers, Results!FromValue(x, value)
        PROVE  Results!ResultsInv'
    BY <2>1, <2>3, FromValueKeeps
  <2>4. ASSUME NEW x \in Objects, NEW y \in Objects,
               Results!Copy(x, y) \/ Results!CopyOptional(x, y)
        PROVE  Results!ResultsInv'
    BY <2>1, <2>4, CopyKeeps
  <2>5. ASSUME NEW x \in Objects, NEW y \in Objects, Results!Move(x, y)
        PROVE  Results!ResultsInv'
    BY <2>1, <2>5, MoveKeeps
  <2>6. ASSUME NEW x \in Objects, Results!Value(x) \/ Results!TakeValue(x)
        PROVE  Results!ResultsInv'
    BY <2>1, <2>6, ValueKeeps, TakeValueKeeps
  <2>7. ASSUME NEW x \in Objects, NEW y \in Objects, NEW note, Results!AssignOrReturn(x, y, note)
        PROVE  Results!ResultsInv'
    BY <2>1, <2>7, AssignOrReturnKeeps
  <2>8. CASE UNCHANGED Results!vars
    BY <2>8 DEF Results!vars, Results!ResultsInv, Results!ResultsStand, Results!StandsForIt,
         Results!EndsForAReason, Results!Kept
  <2> QED
    BY <2>2, <2>3, <2>4, <2>5, <2>6, <2>7, <2>8 DEF Results!Next
<1>3. Results!ResultsInv => Results!ResultsStand
  BY DEF Results!ResultsInv
<1> QED
  BY <1>1, <1>2, <1>3, PTL DEF Results!Spec
=============================================================================
