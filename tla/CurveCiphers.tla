---------------------------- MODULE CurveCiphers ----------------------------
(***************************************************************************)
(* The ciphers over an elliptic curve: two parties with a commutative      *)
(* cipher each (crypto/ec_commutative_cipher.cc), ElGamal ciphertexts      *)
(* under a third key (crypto/elgamal.cc), and what crypto/ec_group.cc and  *)
(* ec_point.cc make of the curve.  The group law is OpenSSL's: that it is  *)
(* one is assumed.                                                         *)
(***************************************************************************)
EXTENDS BigNumbers

CONSTANTS
  P, A, B,       \* the curve y ^ 2 = x ^ 3 + A x + B modulo the prime P
  Generator,     \* a point on it...
  Order,         \* ...and its order, a prime
  Ids,           \* identifiers
  Oracles,       \* random oracles: of identifiers, and of numbers below P
  CipherKeys(_), \* keys that a party creates its cipher with, right or not
  ElGamalKeys,   \* bound: private ElGamal keys that are generated
  Randoms,       \* bound: exponents that are drawn
  MaxOps         \* bound: operations

Field == 0 .. P - 1
Parties == {1, 2}
Regs == {1, 2}

VARIABLES
  oracle,        \* the random oracle: a hash function
  cipher_key,    \* the key of each party, 0 if its cipher was not created
  wire,          \* ciphertexts as bytes
  origin,        \* history: their plaintext point and the powers of both keys
  x_,            \* the private ElGamal key
  ct,            \* two ElGamal ciphertexts
  message,       \* history: the points that these stand for
  ops

vars == <<oracle, cipher_key, wire, origin, x_, ct, message, ops>>

Infinity == <<>>
Refused == <<"refused">>

-----------------------------------------------------------------------------
(* Points *)

\* EC_POINT_add, EC_POINT_invert and EC_POINT_mul.
PointAdd(a, b) ==
  IF a = Infinity THEN b
  ELSE IF b = Infinity THEN a
  ELSE IF a[1] = b[1] /\ (a[2] + b[2]) % P = 0 THEN Infinity
  ELSE LET slope == IF a = b THEN (3 * a[1] * a[1] + A) * ModInverse(2 * a[2], P)
                    ELSE (b[2] - a[2]) * ModInverse(b[1] - a[1], P)
           x == ((slope % P) * (slope % P) - a[1] - b[1]) % P
       IN <<x, ((slope % P) * (a[1] - x) - a[2]) % P>>
PointInverse(a) == IF a = Infinity THEN a ELSE <<a[1], (0 - a[2]) % P>>
PointMul(a, k) ==
  LET times[i \in Nat] ==
        IF i = 0 THEN Infinity
        ELSE LET half == times[i \div 2]
                 double == PointAdd(half, half)
             IN IF i % 2 = 1 THEN PointAdd(double, a) ELSE double
  IN times[k]

\* ComputeYSquare and IsSquare.
YSquare(x) == (x * x * x + A * x + B) % P
IsSquare(y2) == ModExp(y2, (P - 1) \div 2, P) = 1

IsOnCurve(a) == a = Infinity \/ (a[2] * a[2]) % P = YSquare(a[1])
IsValid(a) == IsOnCurve(a) /\ a # Infinity
Points == {a \in Field \X Field : IsOnCurve(a)} \cup {Infinity}

\* The points are a commutative group of the order that EC_GROUP_get_order gives;
\* it is a prime, as the curves in use have the cofactor 1 (ec_group.h, 45-46).
GroupAssumption ==
  /\ Order \in Nat /\ Prime(Order) /\ Generator \in Points
  /\ \A a, b \in Points : PointAdd(a, b) \in Points /\ PointAdd(a, b) = PointAdd(b, a)
  /\ \A a, b, c \in Points : PointAdd(PointAdd(a, b), c) = PointAdd(a, PointAdd(b, c))
  /\ \A a \in Points : PointMul(a, Order) = Infinity

CurveAssumption ==
  /\ P \in Nat /\ Prime(P) /\ P > 3 /\ A \in Field /\ B \in Field /\ GroupAssumption
  /\ Oracles \subseteq [id : [Ids -> Field], number : [Field -> Field]]
  /\ \A p \in Parties : CipherKeys(p) \subseteq Int
  /\ ElGamalKeys \cup Randoms \subseteq 1 .. Order - 1 /\ MaxOps \in Nat

\* ToBytesCompressed: parity of y, and x; a byte for the point at infinity.
ToBytesCompressed(a) == IF a = Infinity THEN <<0>> ELSE <<2 + (a[2] % 2), a[1]>>

\* CreateECPoint of bytes, which refuses the point at infinity.
CreateECPoint(bytes) ==
  LET fits == {a \in Field \X Field : IsValid(a) /\ ToBytesCompressed(a) = bytes}
  IN IF fits = {} THEN Refused ELSE CHOOSE a \in fits : TRUE

\* GetPointByHashingToCurveInternal, for the square root that OpenSSL returns:
\* the even one of the two is taken.  Faulty variant: the one returned is taken.
PointForAny(x, root) == IF IsSquare(YSquare(x)) THEN <<x, root>> ELSE Refused
PointFor(x, root) ==
  IF ~IsSquare(YSquare(x)) THEN Refused
  ELSE <<x, IF root % 2 = 1 THEN ModNegate(root, P) ELSE root>>

\* The number below P at which GetPointByHashingToCurve finds a point; the
\* oracle is asked again of every number that has none, forever if need be.
Roots(x) == {y \in Field : (y * y) % P = YSquare(x)}
Asked(id) ==
  LET asked[i \in 1 .. P + 1] == IF i = 1 THEN oracle.id[id] ELSE oracle.number[asked[i - 1]]
      hits == {i \in 1 .. P + 1 : IsSquare(YSquare(asked[i]))}
  IN IF hits = {} THEN P ELSE asked[LeastOf(hits)]
HashEnds(id) == Asked(id) # P

-----------------------------------------------------------------------------

\* CheckPrivateKey.
PrivateKeyRefused(key) == 0 >= key \/ key >= Order

Init ==
  /\ oracle \in Oracles
  /\ cipher_key = [p \in Parties |-> 0]
  /\ wire = [r \in Regs |-> <<0>>]
  /\ origin = [r \in Regs |-> [point |-> Infinity, power |-> [p \in Parties |-> 0]]]
  /\ x_ \in ElGamalKeys
  /\ ct = [r \in Regs |-> [u |-> Infinity, e |-> Infinity]]     \* GetZero
  /\ message = [r \in Regs |-> Infinity]
  /\ ops = 0

elGamalVars == <<ct, message>>
cipherVars == <<wire, origin>>

Operates == ops < MaxOps /\ ops' = ops + 1 /\ UNCHANGED <<oracle, x_>>

\* CreateFromKey; GeneratePrivateKey returns a key that is not refused.
CreateFromKey(p, key) ==
  /\ cipher_key[p] = 0
  /\ cipher_key' = IF PrivateKeyRefused(key) THEN cipher_key
                   ELSE [cipher_key EXCEPT ![p] = key]
  /\ UNCHANGED <<oracle, x_, ops, cipherVars, elGamalVars>>

Puts(r, a, point, power) ==
  /\ Operates
  /\ wire' = [wire EXCEPT ![r] = ToBytesCompressed(a)]
  /\ origin' = [origin EXCEPT ![r] = [point |-> point, power |-> power]]
  /\ UNCHANGED <<cipher_key, elGamalVars>>

\* Encrypt of an identifier.
Encrypt(p, id, r) ==
  /\ cipher_key[p] # 0 /\ HashEnds(id)
  /\ \E root \in Roots(Asked(id)) :
       LET a == PointFor(Asked(id), root)
       IN Puts(r, PointMul(a, cipher_key[p]), a, [q \in Parties |-> IF q = p THEN 1 ELSE 0])

\* ReEncrypt of what another party sent.
ReEncrypt(p, r) ==
  /\ cipher_key[p] # 0 /\ CreateECPoint(wire[r]) # Refused
  /\ Puts(r, PointMul(CreateECPoint(wire[r]), cipher_key[p]), origin[r].point,
          [origin[r].power EXCEPT ![p] = @ + 1])

\* Decrypt, which removes the key of one party, whether it is the last or not.
\* Faulty variant: the inverse is one modulo the order of the field.
InverseInField(key) == ModInverse(key, P)
PrivateKeyInverse(key) == ModInverse(key, Order)
Decrypt(p, r) ==
  /\ cipher_key[p] # 0 /\ CreateECPoint(wire[r]) # Refused
  /\ Puts(r, PointMul(CreateECPoint(wire[r]), PrivateKeyInverse(cipher_key[p])),
          origin[r].point, [origin[r].power EXCEPT ![p] = @ - 1])

-----------------------------------------------------------------------------
(* ElGamal *)

Y == PointMul(Generator, x_)

Stores(r, u, e, m) ==
  /\ Operates
  /\ ct' = [ct EXCEPT ![r] = [u |-> u, e |-> e]]
  /\ message' = [message EXCEPT ![r] = m]
  /\ UNCHANGED <<cipher_key, cipherVars>>

\* ElGamalEncrypter::Encrypt of a point.
ElGamalEncrypt(r, m, random) ==
  Stores(r, PointMul(Generator, random), PointAdd(m, PointMul(Y, random)), m)

\* Faulty variant: u and e are multiplied by powers of two random numbers.
ReRandomizedTwice(a, random) ==
  [u |-> PointAdd(a.u, PointMul(Generator, random)),
   e |-> PointAdd(a.e, PointMul(Y, (random % (Order - 1)) + 1))]
ReRandomized(a, random) ==
  [u |-> PointAdd(a.u, PointMul(Generator, random)),
   e |-> PointAdd(a.e, PointMul(Y, random))]

ReRandomize(r, random) ==
  LET a == ReRandomized(ct[r], random) IN Stores(r, a.u, a.e, message[r])

\* elgamal::Mul and Exp.
Multiply(r1, r2) ==
  Stores(r1, PointAdd(ct[r1].u, ct[r2].u), PointAdd(ct[r1].e, ct[r2].e),
         PointAdd(message[r1], message[r2]))
Exp(r, k) ==
  Stores(r, PointMul(ct[r].u, k), PointMul(ct[r].e, k), PointMul(message[r], k))

\* ReEncryptElGamalCiphertext, by way of bytes: a ciphertext of which a part is
\* the point at infinity is refused.
ReEncryptElGamalCiphertext(p, r) ==
  /\ cipher_key[p] # 0
  /\ LET u == CreateECPoint(ToBytesCompressed(ct[r].u))
         e == CreateECPoint(ToBytesCompressed(ct[r].e))
     IN /\ u # Refused /\ e # Refused
        /\ Stores(r, PointMul(u, cipher_key[p]), PointMul(e, cipher_key[p]),
                  PointMul(message[r], cipher_key[p]))

ElGamalDecrypt(a) == PointAdd(a.e, PointInverse(PointMul(a.u, x_)))

Next ==
  \/ \E p \in Parties :
       \/ \E key \in CipherKeys(p) : CreateFromKey(p, key)
       \/ \E r \in Regs : \/ \E id \in Ids : Encrypt(p, id, r)
                          \/ ReEncrypt(p, r) \/ Decrypt(p, r)
                          \/ ReEncryptElGamalCiphertext(p, r)
  \/ \E r \in Regs :
       \/ \E random \in Randoms :
            \/ ReRandomize(r, random) \/ Exp(r, random)
            \/ \E id \in {i \in Ids : HashEnds(i)} :
                 \E root \in Roots(Asked(id)) :
                   ElGamalEncrypt(r, PointFor(Asked(id), root), random)
       \/ \E r2 \in Regs : Multiply(r, r2)

Spec == Init /\ [][Next]_vars

-----------------------------------------------------------------------------

\* To the power n, which is negative if the key was removed more often than applied.
KeyPower(key, n) ==
  IF n < 0 THEN ModExp(PrivateKeyInverse(key), 0 - n, Order) ELSE ModExp(key, n, Order)
BothKeys(power) ==
  (KeyPower(cipher_key[1], power[1]) * KeyPower(cipher_key[2], power[2])) % Order

\* What is on the wire depends only on the identifier and on how often each
\* key was applied, never on the order, nor on the square root that was found:
\* two encryptions of an identifier under the same keys are the same bytes.
CiphersCommute ==
  \A r \in Regs :
    LET o == origin[r]
    IN o.point # Infinity =>
         /\ CreateECPoint(wire[r]) = PointMul(o.point, BothKeys(o.power))
         /\ \A r2 \in Regs :
              origin[r2].point # Infinity /\ origin[r2].point[1] = o.point[1]
              /\ origin[r2].power = o.power => wire[r] = wire[r2]

\* An ElGamal ciphertext decrypts to what the operations on it give, and a zero
\* ciphertext stands for the point at infinity.
ElGamalExact ==
  \A r \in Regs :
    /\ ElGamalDecrypt(ct[r]) = message[r]
    /\ ct[r].u = Infinity /\ ct[r].e = Infinity => message[r] = Infinity

-----------------------------------------------------------------------------
(* The inductive invariant                                                   *)

TypeOK ==
  /\ oracle \in Oracles /\ x_ \in ElGamalKeys /\ ops \in Nat
  /\ cipher_key \in [Parties -> 0 .. Order - 1]
  /\ origin \in [Regs -> [point : Points, power : [Parties -> Int]]]
  /\ DOMAIN wire = Regs
  /\ ct \in [Regs -> [u : Points, e : Points]] /\ message \in [Regs -> Points]

\* Of the two points with one x, identifiers are hashed to that with the even y; what
\* is on the wire is the point times the keys, and there is nothing at first.
Encrypted ==
  \A r \in Regs :
    LET o == origin[r]
    IN /\ \A p \in Parties : o.power[p] # 0 => cipher_key[p] # 0
       /\ o.point = Infinity => wire[r] = <<0>>
       /\ o.point # Infinity =>
            o.point[2] % 2 = 0 /\ wire[r] = ToBytesCompressed(PointMul(o.point, BothKeys(o.power)))

CurveInv == TypeOK /\ Encrypted /\ ElGamalExact

\* ec_commutative_cipher.cc, ec_group.cc, elgamal.cc: keys apply in any order, equal
\* identifiers give equal bytes, and ElGamal ciphertexts decrypt to what the
\* operations on them give.
CurveExact == CurveInv /\ CiphersCommute
=============================================================================
