--------------------------- MODULE RlweEncryption ---------------------------
(***************************************************************************)
(* The symmetric scheme in use: a key, which may be switched to other      *)
(* moduli or stored, and two ciphertexts under every homomorphic           *)
(* operation.  message is what a ciphertext should decrypt to, computed    *)
(* beside it on plaintexts.                                                *)
(***************************************************************************)
EXTENDS RlweScheme

CONSTANTS
  Moduli,       \* moduli that there are parameters for
  Modulus,      \* the one that the key is sampled for
  Keys,         \* bound: polynomials that are sampled for keys
  Errors,       \* bound: polynomials that are sampled for errors
  Uniform(_),   \* bound: polynomials modulo q that are drawn uniformly
  Messages,     \* bound: plaintexts
  Scalars(_),   \* bound: numbers modulo q that are absorbed
  MaxOps        \* bound: operations after the key is sampled

EncryptionAssumption ==
  /\ Modulus \in Moduli /\ Moduli \subseteq Nat \ {0} /\ MaxOps \in Nat

\* Coefficients of a key are differences of two numbers of ones among 2 * Variance bits.
\* The code compares them with no modulus: parameters are to be chosen so that they fit.
KeysAssumption ==
  /\ Variance \in Nat /\ WordBits \in Nat
  /\ \A q \in Moduli : 4 * Variance < q /\ q < TwoTo[WordBits]
  /\ \A f \in Keys : f \in [0 .. N - 1 -> -2 * Variance .. 2 * Variance]

VARIABLES
  key,      \* the key for each modulus, or NoKey
  ct,       \* two ciphertexts
  message,  \* history: what they stand for
  raised,   \* history: what has come from a smaller modulus, directly or not
  ops       \* number of operations

vars == <<key, ct, message, raised, ops>>

NoKey == [q |-> 0]
HasKey(q) == key[q] # NoKey
Regs == {1, 2}
Powers == {p \in 1 .. 2 * N - 1 : p % 2 = 1}

\* Plaintexts are modulo x ^ N + 1 and modulo T.
TypeOK ==
  /\ \A q \in Moduli : HasKey(q) =>
       /\ key[q].q = q /\ key[q].s \in [0 .. N - 1 -> 0 .. q - 1]
  /\ \A r \in Regs :
       /\ ct[r].q \in Moduli /\ ct[r].power_of_s \in Powers
       /\ ct[r].error \in 0 .. MaxError
       /\ \A i \in DOMAIN ct[r].c : ct[r].c[i] \in [0 .. N - 1 -> 0 .. ct[r].q - 1]
       /\ message[r] \in [0 .. N - 1 -> 0 .. T - 1]
  /\ raised \in [keys : SUBSET Moduli, ciphertext : BOOLEAN]
  /\ ops \in 0 .. MaxOps

Init ==
  /\ key = [q \in Moduli |-> NoKey]
  /\ ct = [r \in Regs |-> EmptyCiphertext(Modulus)]
  /\ message = [r \in Regs |-> Zero]
  /\ raised = [keys |-> {}, ciphertext |-> FALSE]
  /\ ops = 0

SampleKey(s) ==
  /\ ~HasKey(Modulus)
  /\ key' = [key EXCEPT ![Modulus] = Key(s, Modulus)]
  /\ UNCHANGED <<ct, message, raised, ops>>

Operates == ops < MaxOps /\ HasKey(Modulus) /\ ops' = ops + 1

\* SwitchModulus of the key, to any modulus.
SwitchKey(p, q) ==
  /\ Operates /\ HasKey(p) /\ ~HasKey(q) /\ ~SwitchRefused(p, q)
  /\ key' = [key EXCEPT ![q] = KeySwitchModulus(key[p], q)]
  /\ raised' = IF p < q \/ p \in raised.keys
               THEN [raised EXCEPT !.keys = @ \cup {q}] ELSE raised
  /\ UNCHANGED <<ct, message>>

\* The register r receives a ciphertext that stands for m.
Stores(r, ciphertext, m) ==
  /\ Operates
  /\ ct' = [ct EXCEPT ![r] = ciphertext]
  /\ message' = [message EXCEPT ![r] = m]
  /\ UNCHANGED key

Receives(r, ciphertext, m) == Stores(r, ciphertext, m) /\ UNCHANGED raised

EncryptMessage(r, q, m) ==
  /\ HasKey(q)
  /\ \E a \in Uniform(q), e \in Errors : Receives(r, Encrypt(key[q], m, a, e), m)

\* Faulty variant: ciphertexts under different powers of s are combined.
CompatibleAnyPower(r1, r2) == ct[r1].q = ct[r2].q
Compatible(r1, r2) ==
  ct[r1].q = ct[r2].q /\ ct[r1].power_of_s = ct[r2].power_of_s

Add(r1, r2) ==
  /\ Compatible(r1, r2)
  /\ Receives(r1, Combine(RingAdd, ct[r1], ct[r2]),
              RingAdd(message[r1], message[r2], T))

Sub(r1, r2) ==
  /\ Compatible(r1, r2)
  /\ Receives(r1, Combine(RingSub, ct[r1], ct[r2]),
              RingSub(message[r1], message[r2], T))

\* The product is stored over the first ciphertext.
Mul(r1, r2) ==
  /\ Compatible(r1, r2) /\ ct[r1].c # <<>> /\ ct[r2].c # <<>>
  /\ Receives(r1, CiphertextMul(ct[r1], ct[r2]),
              CoefficientMul(message[r1], message[r2], T))

AbsorbMessage(r, m) ==
  Receives(r, Absorb(ct[r], m), CoefficientMul(message[r], m, T))

\* A number close to q stands for a negative one.
AbsorbNumber(r, x) ==
  Receives(r, AbsorbScalar(ct[r], x), RingScale(message[r], Centered(x, ct[r].q), T))

\* Substitute reads the first component: the ciphertext must not be empty.
Substitute(r, power) ==
  /\ ct[r].c # <<>>
  /\ Receives(r, CiphertextSubstitute(ct[r], power),
              CoefficientSubstitute(message[r], power, T))

\* SwitchModulus of a ciphertext, to any other modulus.
SwitchCiphertext(r, q) ==
  /\ ct[r].q # q /\ ~SwitchRefused(ct[r].q, q)
  /\ Stores(r, SwitchModulus(ct[r], q), message[r])
  /\ raised' = [raised EXCEPT !.ciphertext = @ \/ ct[r].q < q]

\* Serialize and Deserialize, which refuses a ciphertext without components.
Send(r1, r2) == ct[r1].c # <<>> /\ Receives(r2, ct[r1], message[r1])

\* CoefficientPolynomialCiphertext: converted to coefficients, a monomial
\* absorbed there, and converted back.  Its error_ is never assigned: nothing is
\* claimed of the estimate.
AbsorbMonomial(r, power) ==
  /\ ct[r].c # <<>>
  /\ Receives(r, [ct[r] EXCEPT
         !.c = Componentwise(LAMBDA f : MonomialMultiplication(f, power, ct[r].q), ct[r]),
         !.error = MaxError],
       MonomialMultiplication(message[r], power, T))

Next ==
  \/ \E s \in Keys : SampleKey(s)
  \/ \E p, q \in Moduli : SwitchKey(p, q)
  \/ \E r \in Regs :
       \/ \E q \in Moduli, m \in Messages : EncryptMessage(r, q, m)
       \/ \E m \in Messages : AbsorbMessage(r, m)
       \/ \E x \in Scalars(ct[r].q) : AbsorbNumber(r, x)
       \/ \E power \in Powers : Substitute(r, power)
       \/ \E q \in Moduli : SwitchCiphertext(r, q)
       \/ \E power \in 0 .. 2 * N - 1 : AbsorbMonomial(r, power)
       \/ \E r2 \in Regs :
            Add(r, r2) \/ Sub(r, r2) \/ Mul(r, r2) \/ (r # r2 /\ Send(r, r2))

Spec == Init /\ [][Next]_vars

-----------------------------------------------------------------------------

\* The comments are about smaller moduli.  A larger one makes the subtraction of
\* SwitchModulus of a key wrap, and the noise grows by more than the ratio of the
\* logarithms, which SwitchModulus of a ciphertext takes for it.
NothingRaised == raised.keys = {} /\ ~raised.ciphertext

\* A ciphertext whose estimated error leaves room below q / 2 decrypts, under
\* the key substituted by its power of s, to what the operations on it should
\* give, whichever they were.
Decrypts ==
  \A r \in Regs :
    NothingRaised /\ HasKey(ct[r].q) /\ 2 * ct[r].error < ct[r].q =>
      Decrypt(KeySubstitute(key[ct[r].q], ct[r].power_of_s), ct[r]) = message[r]

\* The estimate is never below the size of message and error together, for
\* draws as large as the variance allows and sizes that do not wrap.
ErrorBoundsNoise ==
  \A r \in Regs :
    NothingRaised /\ HasKey(ct[r].q) /\ 2 * ct[r].error < ct[r].q =>
      LET f == ErrorAndMessage(KeySubstitute(key[ct[r].q], ct[r].power_of_s), ct[r])
      IN \A i \in 0 .. N - 1 :
           LET x == Centered(f[i], ct[r].q)
           IN x <= ct[r].error /\ 0 - x <= ct[r].error

\* Whatever it was switched from, a key is that of the polynomial f that was
\* sampled; of one that was raised, the coefficients that are not negative are.
KeyOf(f, q) ==
  /\ q \notin raised.keys => key[q] = Key(f, q)
  /\ key[q].q = q /\ DOMAIN key[q].s = 0 .. N - 1
  /\ \A i \in 0 .. N - 1 : f[i] >= 0 => key[q].s[i] = f[i]
KeysSwitched ==
  /\ DOMAIN key = Moduli /\ Modulus \notin raised.keys
  /\ \/ \A q \in Moduli : ~HasKey(q)
     \/ HasKey(Modulus) /\ \E f \in Keys : \A q \in Moduli : HasKey(q) => KeyOf(f, q)

\* A key for another modulus has the coefficients of the one that was sampled,
\* signs included; but a negative coefficient changes in a key that was raised.
KeysAgree ==
  /\ KeysSwitched
  /\ \A q \in Moduli : HasKey(q) =>
       \A i \in 0 .. N - 1 :
         LET c == Centered(key[Modulus].s[i], Modulus)
         IN q \notin raised.keys \/ c >= 0 => Centered(key[q].s[i], q) = c
=============================================================================
