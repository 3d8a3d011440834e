------------------------------ MODULE MCLattice ------------------------------
(***************************************************************************)
(* The lattice library for TLC: one run of all its components, of which    *)
(* every behaviour is one of a single component, chosen at the start.  The *)
(* variables of the others stay 0.  (The integers are extended and not     *)
(* instantiated: their properties are stated, and proved, of them alone.)  *)
(***************************************************************************)
EXTENDS MontgomeryInt, TLC

VARIABLES
  component,
  variance, k, coefficient, bits, plus, minus, pairs, done,       \* samples
  ring, ntt, coeffs, polynomialOps,                               \* polynomials
  key, ct, message, raised, ops,                                  \* encryption
  made, wire, relin, drawn, batches, expanded, ciphertexts, stands, under,
  serverOps                                                       \* relinearization

sampleVars == <<variance, k, coefficient, bits, plus, minus, pairs, done>>
polynomialVars == <<ring, ntt, coeffs, polynomialOps>>
encryptionVars == <<key, ct, message, raised, ops>>
serverVars == <<made, wire, relin, drawn, batches, expanded, ciphertexts, stands,
                under, serverOps>>
latticeVars ==
  <<component, vars, sampleVars, polynomialVars, encryptionVars, serverVars>>

-----------------------------------------------------------------------------
(* Instances *)

\* Polynomials of two coefficients: the smallest that are not numbers.
Poly(a, b) == (0 :> a) @@ (1 :> b)

\* The smallest fields that have a transform of length 2, 4 and 8, rings that
\* have none, the monomials, which span all polynomials, and one polynomial
\* without zeros.
MCRings == {<<0, 5>>, <<1, 5>>, <<2, 5>>, <<2, 17>>, <<3, 17>>, <<4, 97>>}
MCInputs(n, q) ==
  {[i \in 0 .. n - 1 |-> IF i = j THEN 1 ELSE 0] : j \in {1, n \div 2, n - 1}}
    \cup {[i \in 0 .. n - 1 |-> (i * i + i + q - 2) % q]}
MCFactors(q) == {q - 2}

\* The New Hope modulus, a small one that is the same modulo t = 3, one that is
\* not; keys and errors at the ends of what the variance 1 allows, -2 to 2.
MCModuli == {12289, 769, 257}
MCKeys == {Poly(2, -2)}
MCErrors == {Poly(2, 2), Poly(-2, 1)}
MCUniform(q) == {Poly(q - 2, 191 % q)}
MCMessages == {Poly(2, 1), Poly(0, 2)}
MCScalars(q) == {0, 2, q - 1}

\* Three digits of five bits, two clients, and streams that repeat late.
MCKinds == {[num_parts |-> 3, power_of_s |-> 1],
            [num_parts |-> 2, power_of_s |-> 3],
            [num_parts |-> 1, power_of_s |-> 1]}
MCKey(c) == IF c = 1 THEN Poly(2, -2) ELSE Poly(-1, 2)
MCDraw(seed, i) ==
  Poly((seed * 4001 + i * 937) % 12289, (i * i * 211 + 5 * seed) % 12289)
MCDrawError(i) == IF i % 2 = 1 THEN Poly(2, -2) ELSE Poly(-2, 1)
MCBatches == {<<Poly(2, 1), Poly(0, 2)>>, <<Poly(1, 2)>>}

Sampler == INSTANCE SampleError WITH
  Wide <- 8, Narrow <- 4, WordBits <- 6, Modulus <- 13, MaxVariance <- 6

Polynomial == INSTANCE NttPolynomial WITH
  Rings <- MCRings, MaxLogN <- 3, WordBits <- 8, ByteBits <- 4, Inputs <- MCInputs,
  Scalars <- MCFactors, MaxOps <- 3, ops <- polynomialOps

Encryption == INSTANCE RlweEncryption WITH
  N <- 2, LogT <- 1, Variance <- 1, WordBits <- 16, MaxError <- 10000,
  Moduli <- MCModuli, Modulus <- 12289, Keys <- MCKeys, Errors <- MCErrors,
  Uniform <- MCUniform, Messages <- MCMessages, Scalars <- MCScalars, MaxOps <- 4

\* The key is sampled for a modulus between two others, and may be switched to either
\* and from there to the other.
Between == INSTANCE RlweEncryption WITH
  N <- 2, LogT <- 1, Variance <- 1, WordBits <- 16, MaxError <- 10000,
  Moduli <- {193, 769, 12289}, Modulus <- 769, Keys <- {Poly(2, -2), Poly(-1, 1)},
  Errors <- {Poly(2, 2)}, Uniform <- MCUniform, Messages <- {Poly(2, 1)},
  Scalars <- MCScalars, MaxOps <- 3

Server == INSTANCE Relinearization WITH
  N <- 2, LogT <- 1, Variance <- 1, WordBits <- 16, MaxError <- 10000,
  Modulus <- 12289, LogDecomposition <- 5, Kinds <- MCKinds, Clients <- {1, 2},
  First <- 1, Key0 <- MCKey, Draw <- MCDraw, DrawError <- MCDrawError,
  Seeds <- {1}, SharedSeed <- 7, Batches <- MCBatches, MaxDrawn <- 2, MaxOps <- 2,
  ct <- ciphertexts, message <- stands, ops <- serverOps

ASSUME Assumptions ==
  /\ WordAssumption /\ Sampler!SampleAssumption /\ Polynomial!RingAssumption
  /\ Encryption!SchemeAssumption /\ Encryption!EncryptionAssumption
  /\ Encryption!KeysAssumption
  /\ Between!SchemeAssumption /\ Between!EncryptionAssumption /\ Between!KeysAssumption
  /\ Server!SchemeAssumption /\ Server!RelinearizationAssumption
  /\ Server!DrawsAssumption

-----------------------------------------------------------------------------
(* The composition *)

NoIntegers == Init
NoSamples ==
  /\ variance = 0 /\ k = 0 /\ coefficient = 0 /\ bits = 0
  /\ plus = 0 /\ minus = 0 /\ pairs = 0 /\ done = 0
NoPolynomials == ring = 0 /\ ntt = 0 /\ coeffs = 0 /\ polynomialOps = 0
NoEncryption == key = 0 /\ ct = 0 /\ message = 0 /\ raised = 0 /\ ops = 0
NoServer ==
  /\ made = 0 /\ wire = 0 /\ relin = 0 /\ drawn = 0 /\ batches = 0 /\ expanded = 0
  /\ ciphertexts = 0 /\ stands = 0 /\ under = 0 /\ serverOps = 0

LatticeInit ==
  \/ /\ component = "integers" /\ Init
     /\ NoSamples /\ NoPolynomials /\ NoEncryption /\ NoServer
  \/ /\ component = "samples" /\ Sampler!Init
     /\ NoIntegers /\ NoPolynomials /\ NoEncryption /\ NoServer
  \/ /\ component = "polynomials" /\ Polynomial!Init
     /\ NoIntegers /\ NoSamples /\ NoEncryption /\ NoServer
  \/ /\ component = "encryption" /\ Encryption!Init
     /\ NoIntegers /\ NoSamples /\ NoPolynomials /\ NoServer
  \/ /\ component = "between" /\ Between!Init
     /\ NoIntegers /\ NoSamples /\ NoPolynomials /\ NoServer
  \/ /\ component = "relinearization" /\ Server!Init
     /\ NoIntegers /\ NoSamples /\ NoPolynomials /\ NoEncryption

LatticeNext ==
  /\ UNCHANGED component
  /\ \/ /\ component = "integers" /\ Next
        /\ UNCHANGED <<sampleVars, polynomialVars, encryptionVars, serverVars>>
     \/ /\ component = "samples" /\ Sampler!Next
        /\ UNCHANGED <<vars, polynomialVars, encryptionVars, serverVars>>
     \/ /\ component = "polynomials" /\ Polynomial!Next
        /\ UNCHANGED <<vars, sampleVars, encryptionVars, serverVars>>
     \/ /\ component = "encryption" /\ Encryption!Next
        /\ UNCHANGED <<vars, sampleVars, polynomialVars, serverVars>>
     \/ /\ component = "between" /\ Between!Next
        /\ UNCHANGED <<vars, sampleVars, polynomialVars, serverVars>>
     \/ /\ component = "relinearization" /\ Server!Next
        /\ UNCHANGED <<vars, sampleVars, polynomialVars, encryptionVars>>

LatticeSpec == LatticeInit /\ [][LatticeNext]_latticeVars

-----------------------------------------------------------------------------
(* The properties of the component that was chosen, stated where it is     *)
(* modelled.                                                               *)

\* The state of the component that runs is one of its kind.
LatticeTypeOK ==
  /\ TypeOK
  /\ component = "samples" => Sampler!TypeOK
  /\ component = "polynomials" => Polynomial!TypeOK
  /\ component = "encryption" => Encryption!TypeOK
  /\ component = "between" => Between!TypeOK
  /\ component = "relinearization" => Server!TypeOK

\* montgomery.h, sample_error.h: every residue is drawn by equally many random
\* words; an error is the difference of two binomial numbers, and the word it is
\* computed in does not wrap around.
DrawnFairly ==
  /\ component = "integers" => Unbiased
  /\ component = "samples" => Sampler!Binomial /\ Sampler!NoWrap

\* polynomial.h: NTT form holds the values at the roots of x ^ n + 1, whatever
\* operations a polynomial has gone through, and the inverse transform returns
\* the coefficients, the root of unity being a primitive one; montgomery.h: the
\* inverses that it divides by are inverses.
TransformExact ==
  /\ component = "integers" => InverseIsInverse
  /\ component = "polynomials" =>
       /\ Polynomial!ValuesAtRoots
       /\ Polynomial!InverseReturns /\ Polynomial!RootIsPrimitive

\* symmetric_encryption.h, relinearization_key.cc: what the estimate says is
\* decryptable decrypts to what it stands for, also after key switching.
Decrypts ==
  /\ component = "encryption" => Encryption!Decrypts
  /\ component = "between" => Between!Decrypts
  /\ component = "relinearization" => Server!Decrypts

\* error_params.h: the estimate is never below the error.
ErrorBoundsNoise ==
  /\ component = "encryption" => Encryption!ErrorBoundsNoise
  /\ component = "between" => Between!ErrorBoundsNoise
  /\ component = "relinearization" => Server!ErrorBoundsNoise

\* symmetric_encryption.h: a key switched to another modulus is the same key, but for
\* the negative coefficients of one that was switched to a larger modulus.
KeysAgree ==
  /\ component = "encryption" => Encryption!KeysAgree
  /\ component = "between" => Between!KeysAgree

\* relinearization_key.cc: the halves of a key that are drawn twice match, and
\* its columns encrypt powers of the secret key.
KeysMatch ==
  component = "relinearization" => Server!KeysMatch /\ Server!ColumnsEncrypt
=============================================================================
