--------------------------- MODULE Relinearization ---------------------------
(***************************************************************************)
(* What a seed saves: relinearization keys, Galois keys and fresh          *)
(* ciphertexts travel without the half that is drawn from a pseudorandom   *)
(* stream, and whoever receives them draws it again.  Two clients encrypt  *)
(* for one server, which multiplies, substitutes and brings ciphertexts    *)
(* back to two components under the key of the first client, or adds up    *)
(* what both have sent.  (relinearization_key.cc, galois_key.h,            *)
(* symmetric_encryption_with_prng.h)                                       *)
(***************************************************************************)
EXTENDS RlweScheme

CONSTANTS
  Modulus,          \* the modulus q of everything here
  LogDecomposition, \* log of the base that components are decomposed in
  Kinds,            \* keys created: records [num_parts, power_of_s]
  Clients,          \* the clients, one of them First
  First,
  Key0(_),          \* the key of a client
  Draw(_, _),       \* the polynomial at a position of the stream of a seed
  DrawError(_),     \* bound: the error at a position of the error stream
  Seeds,            \* seeds of keys
  SharedSeed,       \* the seed of the ciphertexts of all clients
  Batches,          \* bound: sequences of plaintexts that are encrypted at once
  MaxDrawn,         \* bound: polynomials that a client draws for ciphertexts
  MaxOps            \* bound: operations of the server

RelinearizationAssumption ==
  /\ Modulus \in Nat \ {0} /\ MaxOps \in Nat /\ MaxDrawn \in Nat /\ First \in Clients
  \* Create refuses other values, and it takes one part, too.
  /\ LogDecomposition \in 1 .. LogModulus(Modulus)
  /\ \A k \in Kinds : k.num_parts \in Nat \ {0}

Dimension == CeilDiv(LogModulus(Modulus), LogDecomposition)

\* What the sampler of keys and errors, and the generator, give; that parameters leave
\* room for an error is not checked by the code.
DrawsAssumption ==
  /\ \E l \in 0 .. N : N = TwoTo[l]
  /\ LogT \in Nat /\ Variance \in Nat /\ 4 * Variance * T < Modulus
  /\ Key0(First) \in [0 .. N - 1 -> -2 * Variance .. 2 * Variance]
  /\ \A k \in Kinds :
       /\ k.power_of_s \in Nat /\ k.power_of_s % 2 = 1
       /\ \A seed \in Seeds, x \in 1 .. (k.num_parts - 1) * Dimension :
            /\ Draw(seed, x) \in [0 .. N - 1 -> 0 .. Modulus - 1]
            /\ DrawError(x) \in [0 .. N - 1 -> -2 * Variance .. 2 * Variance]

VARIABLES
  made,       \* the keys as the first client has made them
  wire,       \* serialized keys on their way
  relin,      \* the keys of the server, after Deserialize
  drawn,      \* polynomials each client has drawn for ciphertexts
  batches,    \* compressed ciphertexts on their way, with their plaintexts
  expanded,   \* polynomials the server has drawn for each client's
  ct, message,  \* the ciphertexts of the server and what they stand for
  under,      \* the key each is encrypted under
  ops

vars == <<made, wire, relin, drawn, batches, expanded, ct, message, under, ops>>
keyVars == <<made, wire, relin>>
streamVars == <<drawn, batches, expanded>>
ctVars == <<ct, message, under>>

NoKey == [num_parts |-> 0]
Regs == {1, 2}
SecretKey(c) == Key(Key0(c), Modulus)

-----------------------------------------------------------------------------
(* Relinearization keys *)

\* s(x ^ power_of_s) to the power j.
KeyPower(s, power_of_s, j) ==
  LET base == CoefficientSubstitute(s, power_of_s, Modulus)
      power[i \in Nat] == IF i <= 1 THEN base
                          ELSE CoefficientMul(power[i - 1], base, Modulus)
  IN power[j]

\* Faulty variant: column i is scaled with the base to the power i.
PowersOfTLate(f, i) == RingScale(f, TwoTo[LogDecomposition * i] % Modulus, Modulus)
PowersOfT(f, i) == RingScale(f, TwoTo[LogDecomposition * (i - 1)] % Modulus, Modulus)

\* Position in the stream of column i of part j.
Position(j, i) == (j - 1) * Dimension + i

\* Part::Create: the column is orthogonal to (1, s) but for T ^ i s ^ j + t e.
PartCreate(key, f, seed, j) ==
  LET r(i) == Draw(seed, Position(j, i))
      orthogonal(i) == RingScale(CoefficientMul(r(i), key.s, Modulus), -1, Modulus)
      error(i) == RingScale(DrawError(Position(j, i)), key.t, Modulus)
  IN [top |-> [i \in 1 .. Dimension |->
                 RingAdd(RingAdd(error(i), orthogonal(i), Modulus), PowersOfT(f, i), Modulus)],
      bottom |-> [i \in 1 .. Dimension |-> r(i)]]

KeyCreate(key, seed, kind) ==
  [num_parts |-> kind.num_parts, power_of_s |-> kind.power_of_s,
   parts |-> [j \in 1 .. kind.num_parts - 1 |->
                PartCreate(key, KeyPower(key.s, kind.power_of_s, j), seed, j)]]

\* Serialize: the top rows, one after the other.
KeySerialize(rk, seed) ==
  [c |-> FlattenSeq([j \in DOMAIN rk.parts |-> rk.parts[j].top]),
   num_parts |-> rk.num_parts, power_of_s |-> rk.power_of_s, prng_seed |-> seed]

KeyRefused(m) ==
  \/ m.num_parts <= 1
  \/ Len(m.c) % (m.num_parts - 1) # 0
  \/ Len(m.c) \div (m.num_parts - 1) # Dimension

\* Faulty variant: every part draws from the start of the stream.
KeyDeserializeRestarts(m) ==
  [num_parts |-> m.num_parts, power_of_s |-> m.power_of_s,
   parts |-> [j \in 1 .. m.num_parts - 1 |->
     [top |-> [i \in 1 .. Dimension |-> m.c[Position(j, i)]],
      bottom |-> [i \in 1 .. Dimension |-> Draw(m.prng_seed, i)]]]]

\* Deserialize: the chunks of c are top rows, bottom rows come from the seed.
KeyDeserialize(m) ==
  [num_parts |-> m.num_parts, power_of_s |-> m.power_of_s,
   parts |-> [j \in 1 .. m.num_parts - 1 |->
     [top |-> [i \in 1 .. Dimension |-> m.c[Position(j, i)]],
      bottom |-> [i \in 1 .. Dimension |-> Draw(m.prng_seed, Position(j, i))]]]]

\* BitDecompose: digit i of every coefficient.
BitDecompose(f, i) ==
  [x \in DOMAIN f |-> (f[x] \div TwoTo[LogDecomposition * (i - 1)]) % TwoTo[LogDecomposition]]

\* ApplyPartTo: the digits times a row of the matrix.
ApplyPartTo(row, f) ==
  FoldFunction(LAMBDA g, acc : RingAdd(g, acc, Modulus), Zero,
    [i \in DOMAIN row |-> CoefficientMul(BitDecompose(f, i), row[i], Modulus)])

\* ApplyTo fails for a ciphertext that is too long; Component fails when there
\* is none for a part of the key.
ApplyRefused(rk, c) == Len(c) > rk.num_parts \/ Len(c) < rk.num_parts

ApplyTo(rk, ciphertext) ==
  LET all(row(_)) ==
        FoldFunction(LAMBDA g, acc : RingAdd(g, acc, Modulus), Zero,
          [j \in DOMAIN rk.parts |-> ApplyPartTo(row(rk.parts[j]), ciphertext.c[j + 1])])
  IN Ciphertext(<<RingAdd(ciphertext.c[1], all(LAMBDA p : p.top), Modulus),
                  all(LAMBDA p : p.bottom)>>,
                Modulus, 1,
                Capped(ciphertext.error + B_relinearize(LogDecomposition, Modulus)))

-----------------------------------------------------------------------------

Init ==
  /\ made = [k \in Kinds |-> NoKey] /\ relin = made /\ wire = {}
  /\ drawn = [c \in Clients |-> 0] /\ expanded = drawn
  /\ batches = [c \in Clients |-> <<>>]
  /\ ct = [r \in Regs |-> EmptyCiphertext(Modulus)]
  /\ message = [r \in Regs |-> Zero] /\ under = [r \in Regs |-> "first"]
  /\ ops = 0

\* RelinearizationKey::Create or GaloisKey::Create, then Serialize.
CreateKey(k, seed) ==
  /\ made[k] = NoKey
  /\ LET rk == KeyCreate(SecretKey(First), seed, k)
     IN /\ made' = [made EXCEPT ![k] = rk]
        /\ wire' = wire \cup {<<k, KeySerialize(rk, seed)>>}
  /\ UNCHANGED <<relin, streamVars, ctVars, ops>>

\* Deserialize; a refused message leaves the server without the key.
ReceiveKey(k, m) ==
  /\ wire' = wire \ {<<k, m>>}
  /\ relin' = IF KeyRefused(m) THEN relin ELSE [relin EXCEPT ![k] = KeyDeserialize(m)]
  /\ UNCHANGED <<made, streamVars, ctVars, ops>>

\* EncryptWithPrng: one polynomial is drawn for each plaintext.
EncryptWithPrng(c, ms) ==
  /\ drawn[c] + Len(ms) <= MaxDrawn
  /\ batches' = [batches EXCEPT ![c] = Append(@,
       [i \in DOMAIN ms |->
          [c0 |-> EncryptC0(SecretKey(c), ms[i], Draw(SharedSeed, drawn[c] + i),
                            DrawError(drawn[c] + i)),
           m |-> ms[i]]])]
  /\ drawn' = [drawn EXCEPT ![c] = @ + Len(ms)]
  /\ UNCHANGED <<keyVars, expanded, ctVars, ops>>

\* Faulty variant: the polynomial itself becomes the second component.
ExpandedUnsigned(c0, a) == Ciphertext(<<c0, a>>, Modulus, 1, B_encryption)
Expanded(c0, a) == Ciphertext(<<c0, RingScale(a, -1, Modulus)>>, Modulus, 1, B_encryption)

\* The first registers receive the ciphertexts that are expanded.
Receives(c0s, ms, from, key) ==
  LET n(r) == r \in DOMAIN c0s
  IN /\ ct' = [r \in Regs |-> IF n(r) THEN Expanded(c0s[r], Draw(SharedSeed, from + r))
                              ELSE ct[r]]
     /\ message' = [r \in Regs |-> IF n(r) THEN ms[r] ELSE message[r]]
     /\ under' = [r \in Regs |-> IF n(r) THEN key ELSE under[r]]

\* ExpandFromPrng of what the first client has sent, in the order of sending.
ExpandFromPrng ==
  /\ batches[First] # <<>>
  /\ LET b == Head(batches[First])
     IN /\ Receives([i \in DOMAIN b |-> b[i].c0], [i \in DOMAIN b |-> b[i].m],
                    expanded[First], "first")
        /\ expanded' = [expanded EXCEPT ![First] = @ + Len(b)]
  /\ batches' = [batches EXCEPT ![First] = Tail(@)]
  /\ UNCHANGED <<keyVars, drawn, ops>>

\* Ciphertexts of two clients, for the same positions of the stream, are added
\* or subtracted and then expanded.
ExpandTogether(Op(_, _, _), c, key) ==
  /\ batches[First] # <<>> /\ batches[c] # <<>> /\ expanded[First] = expanded[c]
  /\ LET b1 == Head(batches[First])
         b2 == Head(batches[c])
     IN /\ Len(b1) = Len(b2)
        /\ Receives([i \in DOMAIN b1 |-> Op(b1[i].c0, b2[i].c0, Modulus)],
                    [i \in DOMAIN b1 |-> Op(b1[i].m, b2[i].m, T)], expanded[First], key)
        /\ expanded' = [x \in Clients |-> IF x \in {First, c} THEN expanded[x] + Len(b1)
                                          ELSE expanded[x]]
  /\ batches' = [x \in Clients |-> IF x \in {First, c} THEN Tail(batches[x])
                                   ELSE batches[x]]
  /\ UNCHANGED <<keyVars, drawn, ops>>

Stores(r, ciphertext, m) ==
  /\ ops < MaxOps /\ ops' = ops + 1
  /\ ct' = [ct EXCEPT ![r] = ciphertext]
  /\ message' = [message EXCEPT ![r] = m]
  /\ UNCHANGED <<keyVars, streamVars, under>>

Mul(r1, r2) ==
  /\ ct[r1].c # <<>> /\ ct[r2].c # <<>>
  /\ ct[r1].power_of_s = ct[r2].power_of_s /\ under[r1] = under[r2]
  /\ Stores(r1, CiphertextMul(ct[r1], ct[r2]), CoefficientMul(message[r1], message[r2], T))

Substitute(r, power) ==
  /\ ct[r].c # <<>>
  /\ Stores(r, CiphertextSubstitute(ct[r], power), CoefficientSubstitute(message[r], power, T))

\* Faulty variant: the power of s is not compared.
PowerMatchesAny(k, ciphertext) == TRUE

\* GaloisKey::ApplyTo refuses another power of s; RelinearizationKey::ApplyTo
\* leaves that to its callers.
PowerMatches(k, ciphertext) == ciphertext.power_of_s = k.power_of_s

Relinearize(r, k) ==
  /\ relin[k] # NoKey /\ under[r] = "first" /\ ct[r].c # <<>>
  /\ PowerMatches(k, ct[r]) /\ ~ApplyRefused(relin[k], ct[r].c)
  /\ Stores(r, ApplyTo(relin[k], ct[r]), message[r])

Next ==
  \/ \E k \in Kinds, seed \in Seeds : CreateKey(k, seed)
  \/ \E km \in wire : ReceiveKey(km[1], km[2])
  \/ \E c \in Clients, ms \in Batches : EncryptWithPrng(c, ms)
  \/ ExpandFromPrng
  \/ \E c \in Clients \ {First} : ExpandTogether(RingAdd, c, "sum")
                                  \/ ExpandTogether(RingSub, c, "difference")
  \/ \E r \in Regs : \/ \E r2 \in Regs : Mul(r, r2)
                     \/ \E power \in {p \in 1 .. 2 * N - 1 : p % 2 = 1} : Substitute(r, power)
                     \/ \E k \in Kinds : Relinearize(r, k)

Spec == Init /\ [][Next]_vars

-----------------------------------------------------------------------------

TypeOK ==
  /\ \A k \in Kinds : \A rk \in {made[k], relin[k]} : rk # NoKey =>
       /\ Len(rk.parts) = k.num_parts - 1
       /\ \A j \in DOMAIN rk.parts : \A row \in {rk.parts[j].top, rk.parts[j].bottom} :
            row \in [1 .. Dimension -> [0 .. N - 1 -> 0 .. Modulus - 1]]
  /\ \A r \in Regs :
       /\ ct[r].error \in 0 .. MaxError /\ ct[r].power_of_s \in 1 .. 2 * N - 1
       /\ \A i \in DOMAIN ct[r].c : ct[r].c[i] \in [0 .. N - 1 -> 0 .. Modulus - 1]
       /\ message[r] \in [0 .. N - 1 -> 0 .. T - 1]
       /\ under[r] \in {"first", "sum", "difference"}
  /\ \A c \in Clients : expanded[c] <= drawn[c]
  /\ ops \in 0 .. MaxOps

\* Where keys are from: what is on its way is a key as it was made.
KeysMade ==
  LET Is(k, rk, seed) == rk = KeyCreate(SecretKey(First), seed, k)
  IN /\ DOMAIN made = Kinds /\ DOMAIN relin = Kinds
     /\ \A k \in Kinds : made[k] # NoKey => \E seed \in Seeds : Is(k, made[k], seed)
     /\ \A km \in wire : km[1] \in Kinds /\ \E seed \in Seeds :
          Is(km[1], made[km[1]], seed) /\ km[2] = KeySerialize(made[km[1]], seed)

\* The server's key, half of which it draws from the seed, is the one that the
\* client made: both draw part by part and column by column.
KeysMatch == KeysMade /\ \A k \in Kinds : relin[k] # NoKey => relin[k] = made[k]

\* Column i of part j encrypts T ^ i s ^ j: (1, s) takes it there but for t
\* times a small error.
ColumnsEncrypt ==
  \A k \in Kinds : relin[k] # NoKey =>
    \A j \in DOMAIN relin[k].parts : \A i \in 1 .. Dimension :
      LET p == relin[k].parts[j]
          s == SecretKey(First).s
          encrypted == RingAdd(p.top[i], CoefficientMul(p.bottom[i], s, Modulus), Modulus)
          left == RingSub(encrypted,
                          RingScale(KeyPower(s, k.power_of_s, j),
                                    TwoTo[LogDecomposition * (i - 1)] % Modulus, Modulus),
                          Modulus)
      IN \A x \in DOMAIN left :
           LET e == Centered(left[x], Modulus)
           IN e % T = 0 /\ -2 * Variance * T <= e /\ e <= 2 * Variance * T

\* What a ciphertext is decrypted with: the keys of the clients, combined as
\* their ciphertexts were.
DecryptionKey(r) ==
  LET other == CHOOSE c \in Clients : c # First
      key == CASE under[r] = "first" -> SecretKey(First)
               [] under[r] = "sum" -> KeyAdd(SecretKey(First), SecretKey(other))
               [] OTHER -> KeySub(SecretKey(First), SecretKey(other))
  IN KeySubstitute(key, ct[r].power_of_s)

\* Whatever was expanded, multiplied, substituted and relinearized decrypts to
\* what it stands for, as long as the estimate leaves room.
Decrypts ==
  \A r \in Regs : 2 * ct[r].error < Modulus =>
    Decrypt(DecryptionKey(r), ct[r]) = message[r]

\* The estimate stays above the real error, also where a key was applied.
ErrorBoundsNoise ==
  \A r \in Regs : 2 * ct[r].error < Modulus =>
    LET f == ErrorAndMessage(DecryptionKey(r), ct[r])
    IN \A i \in DOMAIN f : LET x == Centered(f[i], Modulus)
                           IN x <= ct[r].error /\ 0 - x <= ct[r].error
=============================================================================
