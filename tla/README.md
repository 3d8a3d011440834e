# Verification of Private Join and Compute

TLA+ modules, TLC configurations and TLAPS proofs for this repository: a server
with a set of identifiers and a client with a table of identifiers and values
compute, over gRPC, how many identifiers they share and the sum of the values
that go with them, without showing each other the rest. The repository also
carries a lattice (RLWE) library, which the programs do not call yet.

## The system

| Part | State | Operations | Talks to |
|---|---|---|---|
| server program, `server.cc` | the gRPC server, `protocol_finished()` | `RunServer`: load, serve, spin until finished | the service adapter |
| service adapter, `private_join_and_compute_rpc_impl.cc` | none | `Handle`, on a gRPC thread per call, without a lock | protocol server |
| protocol server, `server_impl.cc` (pair), `server_tuple_impl.cc` (tuple) | `ec_cipher_`, `protocol_finished_`, `inputs_` | `EncryptSet`, `ComputeIntersection`, `EncryptClientSet`, `IntersectionAggregates` | commutative cipher, Paillier |
| client program, `client.cc` | the last reply | `ExecuteProtocol`: two blocking calls, print, exit | stub, protocol client |
| protocol client, `client_impl.cc` (pair), `client_tuple_impl.cc` (tuple) | keys, size, sums, `protocol_finished_` | `StartProtocol`, `ReEncryptSet`, `EncryptCol`, `DecryptResult`, `PrintOutput` | commutative cipher, Paillier |
| data files, `data_util.cc`, `generate_dummy_data.cc` | none | read and write CSV, random databases | |
| cryptography, `crypto/` | keys; a `Context` that is not thread-safe | Paillier, ElGamal, commutative cipher, big numbers | OpenSSL |
| generators, `prng/` | `buffer_`, `position_in_buffer_`, `salt_counter_`, `mu_` | `Rand8`, `Rand64`, resalting | |
| lattice library, `montgomery.h`, `polynomial.h`, `symmetric_encryption.h`, `relinearization_key.cc`, `galois_key.h`, `transcription.h` and others | polynomials, keys made of parts, error bounds | arithmetic, encryption, relinearization, serialization | generators |
| status helpers, `util/`, `statusor.h` | a status or a value | results handed from function to function | everything |
| logging library, `glog/` | log files, their buffers and sizes, registered sinks, verbose levels, the state of a crash | `LOG`, `VLOG`, sinks, flushing and rollover, crash reports, cleaning up | files, signals, threads |
| `testing/`, `code-analysis/` | | test helpers, generated files | |

What is hard in it, and what makes each part correct:

* **Protocol.** The only thing the server keeps between the two calls of a
  client is the pointer `ec_cipher_`, and it is the same pointer for every
  client. It is tested, set, dereferenced once per element, and reset, by
  threads that take no lock; a client may exit between its calls; the server may
  die and be started again between them; each step may fail. *Correct* means: a
  client that prints, prints the intersection of its own set with the server's;
  the key of a round lives until the round is answered; keys are never shared by
  sessions; nothing is reported that is not shared; calls return.
* **Data of a session.** Repeated identifiers, unstable sorting, an optional
  second column, and four combinations of programs of which one cannot work.
  *Correct* means: size and sums are those of the same rows, and are exact when
  the client repeats no identifier; a sum that was not computed is not printed.
* **Generator.** A buffer shared by threads that is refilled in the middle of a
  word. *Correct* means: calls are atomic reads of one stream, so that no byte is
  used twice and two generators with one seed stay in step, which the
  compression of keys and ciphertexts relies on.
* **Lattice library**. Key parts and their deserialization must draw the same
  numbers in the same order; components, key parts and powers of the secret must
  match; the error estimate must bound the noise, or decryption is silently
  wrong; modular arithmetic must not leave its range, in particular at the ends
  of a word.
* **Cryptography and files**. Random numbers at the ends of their ranges, numbers
  with a factor in common with the modulus, hashes that hit no point of the curve,
  text whose quoting matters. *Correct* means: a ciphertext, however it was made
  and changed, decrypts to what it stands for; what was written is read back.
* **Logging library**. Threads that log at once, one of which may crash; a sink
  whose own thread logs; a rollover or a full disk between two messages; names
  that change; signals within signals; buffers that are one byte too small.
  *Correct* means: a message is in every file it belongs to, whole and once, or
  was lost for a reason that the code knows of; nobody waits for ever; a crash is
  reported once, with the right names.

## Modules

| Module | Models | Role |
|---|---|---|
| `IntersectionSum` | `server*.cc`, `client*.cc`, the adapter | the two rounds of several clients: state, actions, properties, inductive invariants |
| `IdealJoin` | | what `IntersectionSum` promises, without keys, messages and threads |
| `IntersectionSumProofs` | | theorems about `IntersectionSum` |
| `IntersectionAggregates` | the data path of `*_impl.cc`, `*_tuple_impl.cc`, readers of `data_util.cc` | one session's rows, size and sums |
| `IntersectionAggregatesProofs` | | theorems about `IntersectionAggregates` |
| `ChaChaPrng` | `prng/chacha_prng*.cc`, `prng/single_thread_chacha_prng.cc` | threads on one generator |
| `ByteStream` | | what `ChaChaPrng` promises: atomic reads of an endless stream |
| `ChaChaPrngProofs` | | theorems about `ChaChaPrng` |
| `RlweScheme` | `polynomial.h`, `symmetric_encryption.h`, `error_params.h` | definitions: polynomials, their noise, error bounds, shared by the next two |
| `RlweEncryption` | `symmetric_encryption.h`, `symmetric_encryption_with_prng.h` | keys, ciphertexts and every sequence of operations on them |
| `Relinearization` | `relinearization_key.cc`, `galois_key.h` | keys of several clients that travel as halves with seeds |
| `CoefficientRing`, `NttPolynomial` | `coefficient_polynomial.h`, `ntt_parameters.cc`, `polynomial.h` | the transform and its ring, next to the schoolbook reference |
| `MontgomeryInt` | `montgomery.h`, `montgomery.cc` | words, every modulus that fits |
| `LatticeProofs` | | theorems about `MontgomeryInt`, `Transcription`, and the keys of `RlweEncryption` and `Relinearization` |
| `SampleError` | `sample_error.h` | the sampler of errors, bit by bit |
| `TranscribeBits`, `Transcription` | `transcription.h` | numbers packed into bytes and back |
| `Paillier`, `BigNumbers` | `crypto/paillier.cc`, `two_modulus_crt.cc`, `fixed_base_exp.cc` | both keys, with the prime powers and the Chinese remainder |
| `CurveCiphers` | `crypto/ec_*.cc`, `crypto/elgamal.cc` | commutative cipher and ElGamal on a small curve |
| `RandomNumbers`, `MontNumbers` | `crypto/context.cc`, `crypto/mont_mul.cc` | random oracle, pseudorandom function, random numbers, Montgomery form |
| `Int256` | `int256.h`, `int256.cc` | numbers of two words |
| `StatusOr` | `util/statusor.*`, `util/status.*`, `statusor.*`, `status_macros.h` | results made, copied, moved and taken, in both libraries |
| `NumberProofs` | | theorems about `BigNumbers`, and the number theory that the two below need |
| `PaillierProofs` | | theorems about `Paillier` |
| `LibraryProofs` | | theorems about `CurveCiphers` and `StatusOr` |
| `DataFiles` | `data_util.cc`, `generate_dummy_data.cc` | CSV text, random databases, what is announced with them |
| `LogFile`, `LogMessages` | `glog/src/logging.cc` | one log file; threads, locks, files and sinks under `LOG` |
| `GlogProofs` | | theorems about `LogMessages` and `LogFile`, `MutexLocks`, `FailureSignals` |
| `LogDestinations` | `logging.cc`, `utilities.cc` | where flags, loggers and levels send a message; starting and ending the library |
| `MutexLocks` | `glog/src/base/mutex.h` | a mutex in each of the five ways it is built |
| `MessageText` | `logging.cc`, `raw_logging.cc` | the text of messages and the buffers it is in |
| `VlogLevels` | `vlog_is_on.cc` | verbose levels and what sites remember of them |
| `LogHousekeeping` | `logging.cc` | cleaning, truncation, default directories, words for the shell |
| `FailureSignals`, `SignalSafeText` | `signalhandler.cc` | the failure signal handler; the text it makes |
| `StackTraces`, `Symbolizer` | `stacktrace_*-inl.h`, `symbolize.cc` | callers of a function; names for addresses |
| `DirectoryStream` | `glog/src/windows/dirent.h` | directory streams over Windows file searches |
| `MC*` | | constants for TLC; `MCLattice`, `MCGlog` and `MCLibraries` compose.  `ChaChaPrng` and `IntersectionAggregates` need none |

Definitions named `...Missing`, `...Early`, `...Twice...` and the like under a
comment "Faulty variant" are not part of the specifications: each is what a
plausible mistake would make of the definition after it, and shows that a
property notices it.

### IntersectionSum

`pc[c]` is where `ExecuteProtocol` of client `c` is, `call[c]` how far its
outstanding gRPC call is, which is also the program counter of the server thread
that serves it. `todo` and `enc` are the two halves of the encryption loop of
that thread, so that other handlers run between any two elements. `ec_cipher_`
and `protocol_finished_` are the server's fields. Both protocol servers (pair
and tuple) and both clients have this control.

| Code | Actions |
|---|---|
| `StartProtocol`, `Send` | `StartProtocol` (a call to a dead server fails at once) |
| `EncryptSet` | `EncryptSetTwice`, `EncryptSet`, `CreateWithNewKeyFails`, `InstallCipher`, `Encrypt` per element, `EncryptFails`, `SendRoundOne` |
| `ReEncryptSet` and the second call | `ReceiveRoundOne`, `ReEncryptSet` |
| `ComputeIntersection` | `ComputeBeforeEncrypt`, `ComputeIntersection`, `ReEncrypt` per element, `ComputeIntersectionFails`, `SendRoundTwo` (with the reset of `ec_cipher_`) |
| `DecryptResult`, `PrintOutput` | `DecryptResult` |
| error exits of `ExecuteProtocol`, a client that is killed | `ReceiveError`, `ClientExits` |
| a null or freed `ec_cipher_` under a running loop | `NullDereference`, `EncryptWithFreedCipher` |
| the process ends, is started again | `Die`, `RunServer` |

Encryption is symbolic: an element is its identifier with the key, and two are
equal when both are. A cipher is named after the client whose `StartProtocol`
created it. `EncryptWithFreedCipher` is the outcome of undefined behaviour that
lets the program go on: what it makes matches nothing; the other outcome is the
process ending, which `Die` allows at any time.
The constant `Overlap` says whether handlers run side by side. The code allows
it (nothing in `Handle` locks); `FALSE` is the use that its authors had in mind,
one client after the other, with calls still interleaved between clients.

### IntersectionAggregates

A state machine of one session, started with any two files and any flags:
`EncryptCol` and `ReEncryptSet`, `EncryptClientSet` of either server,
`SetIntersection`, a step of the aggregation loop per row, the reply, decryption
and printing. A ciphertext is the number it decrypts to, addition is modulo the
message space, and an absent field is the integer 0, which absorbs additions
(`ModMul`) and on which `Decrypt` ends the process (`BigNum::Div` checks that
the remainder of -1 by p is 0). `std::sort` leaves the order of equal elements
open, so `SetIntersection` chooses among the rows of a repeated identifier.

### ChaChaPrng

One action per access to the shared fields: taking the mutex, testing the
position and either refilling or not, reading the byte, advancing, returning. A
byte is the salt of its buffer and its offset. `start` and `got` record what the
call in progress took.

### The lattice library

`MontgomeryInt` works on words of `W` bits with an explicit `% 2^W` where the
code's type wraps, and with the double word where the code uses one. Its
`params` range over *every* odd modulus that the code admits, so that the
smallest and the largest are there. Each action is one operation, and `value` is
what the result should stand for. `SampleError` draws one pair of bits per step.
`NttPolynomial` holds the same polynomial twice, transformed by the tables and
butterflies of `ntt_parameters.cc` and as coefficients multiplied by hand, and
applies each operation to both.

`RlweEncryption` and `Relinearization` compute with coefficients, since
`NttPolynomial` shows that the two are the same ring. `ct` is a ciphertext with
its components, power of the secret and error bound, and `message` what it
should decrypt to. `Decrypts` compares the two as long as the bound is within
what the code accepts, and `ErrorBoundsNoise` shows that the bound is one, with
the real noise computed from the key. In `Relinearization` several clients make
keys from different seeds, a key travels as half of its polynomials and a seed,
and the server expands it; the generator is a sequence of draws, so that a draw in
a different order on the two sides, or a half stored against the wrong part, is
a different key. The error estimate, `double` in the code, is kept as whole
numbers rounded up. Keys and ciphertexts are switched to smaller and to larger
moduli, as the code lets them; `raised` remembers what went to a larger one, of
which less is claimed: nothing of ciphertexts, and of keys only the coefficients
that are not negative (`NothingRaised`, `KeysAgree`).

### The libraries under the protocol

`Paillier` computes with the two prime powers and the Chinese remainder as the
code does, so that `DecryptsExactly` compares the fast path with the definition.
`CurveCiphers` has the group law of a real curve with 13 points for OpenSSL's,
hashing to it by trial included. `DataFiles` writes rows as characters, with the
quoting and splitting of the code: here the conversion is what the property is
about. `StatusOr` follows a result through copies, moves and `ASSIGN_OR_RETURN`,
in both classes of that name, in debug and optimised builds.

### The logging library

`LogMessages` has a program counter per thread from the constructor of
`LogMessage` to its end: prefix and text in a buffer of its own or the shared
one of FATAL messages, the lock, the file, each sink, the unlock, the wait for
sinks, and the crash. The constant `ReadersShare` says which kind of lock
`sink_mutex_` is: `ReaderLock` shares a `pthread_rwlock` where `HAVE_RWLOCK` is
defined, and is `Lock` on Windows and for other pthreads (`base/mutex.h` 223-278,
whose comment at 175-178 warns of it). `LogFile` is the code under the lock: opening with the
candidate directories, rollover, buffer, flush, a full disk, changed names.
`FailureSignals` lets signals arrive on any thread between any two steps of the
handler, which has a stack of activations per thread. The other modules are one
job each, with the loop of the code as steps where the order matters.

## Runs

| Run | Instance | Shows |
|---|---|---|
| `serial` | 3 clients, 2 server identifiers, `Overlap = FALSE`, no restart | `ResultExact`, `HeldKeyIsLive`, and that the server implements `IdealJoin` |
| `restart` | 2 clients, one restart | `AllOrNothing`, `FreshKeyPerSession`, `LiveKeyKept`, the inductive invariant |
| `overlap` | 2 clients, handlers side by side, one restart, fairness | `NoOvercount`, `CallsReturn`, `SessionEnds` |
| `aggregates` | every file of up to 3 rows over 2 identifiers and 2 values, 4 combinations of programs | `ExactWhenDistinct`, `OneSelection`, `SecondSumIsReal`, `Served` |
| `prng` | 3 threads, buffer of 3 bytes, words of 2, two refills | `NoByteTwice`, `ReadInBuffer`, `ImplementsStream`, `MutexReleased` |
| `lattice` | words of 5 bits and every modulus, six rings, three moduli for ciphertexts, three kinds of keys, every variance to 6 | that the lattice library computes what it stands for: `IntegersExact`, `DrawnFairly`, `TransformExact`, `Decrypts`, `ErrorBoundsNoise`, `KeysAgree`, `KeysMatch` |
| `libraries` | the instances in `MCLibraries` and `MCGlog` | that what lies under the protocol keeps what it relies on: `RoundTrip`, `PaillierExact`, `CurveExact`, `ValuesExact`, `FilesExact`, and of the logging library `LogsKept`, `SinksServed`, `CrashReported`, `LogControlled` |

The components of the lattice library, and likewise the libraries, do not share
state, so their product says nothing that each does not say alone. A run of one
question for all of them is their disjoint union: a variable `component` is
chosen at the start and never changes, only the actions of that component are
enabled, and the variables of the others stay 0. A property of such a run is a
conjunction of implications from `component`, each naming the properties of one
module, and with them the inductive invariant of the proofs where there is one:
`SinksServed` names `SinksInv` and `MutexInv`, `LogsKept` names `FilesInv`,
`CrashReported` names `SignalsInv`. `MCLattice` extends `MontgomeryInt` instead of
instantiating it, so that `IntegersExact` is the formula that is proved, with
`IntegersInv` in it; `MCLibraries` likewise extends `CurveCiphers`, for `CurveExact`
with `CurveInv`. `ValuesExact` is about what values stand for: numbers of two words,
random numbers, numbers in Montgomery form, and results. In `MCGlog` the modules are instantiated over the shared variables
`part1` to `part7`, whose meaning depends on the component.

Five further runs find a behaviour of the code that a document or comment of the
repository rules out (`findings` in `PROJECT.json`):

* `shut_down`: after a successful client the server goes on (README 276-277).
* `overlap_result`: two clients at once, and one of them prints a set that lacks
  shared identifiers, with exit code 0 (README 274-275).
* `restart_round`: a `ClientRoundOne` is taken for one of another session
  (`server_impl.h` 52).
* `stuck_session`: a client that exits after the first round leaves a server
  that refuses everybody (`server_impl.cc` 303 and 306).
* `duplicates_size`: identifiers repeated in both files are counted several
  times (README 275).

**Bounds.** Two clients are enough for one to disturb the other between its
calls and inside its loops; the third of `serial` is for a session between two
others. Two shared identifiers make a partial result different from both the
empty and the full one, which is what `AllOrNothing` is about; in `overlap` one
shared and one foreign identifier keep the product of two loops small and still
show a report of something that is not shared. One restart
separates the two calls of a client. Three rows allow an identifier twice next
to another one, and more repetitions on either side than on the other; the two
values are such that some sums can be printed and others exceed `MaxInt`. A
buffer of three bytes with words of two makes words end at, and straddle, the
end of the buffer; `MaxSalt` stops new calls after the second refill.

In `lattice` words are small enough to go through every modulus and operand, so
that the ends of the range, where Montgomery and Barrett reduction can go wrong,
are all there. Polynomials have two to eight coefficients: two is the smallest
where `x^N = -1` shows, eight has three levels of butterflies; the inputs are
monomials, which span all of them. Keys, errors and uniform polynomials are at
the ends of what the code can draw, where noise is largest; 12289 is the New Hope
modulus. Four operations make products of products and every order of
relinearization. A second instance samples its key for the middle one of three
moduli, so that keys go down, up, and both. Three parts with digits of five bits make the last digit
shorter than the others.

In `libraries` bytes have two to four bits, so that numbers end within, at, and
after a byte; primes have two sizes and `s` both of its interesting values; the
oracle has inputs that find a point at once and later. Texts have every special
character at the start, in the middle and at the end. Log files hold three
messages before they roll over, there are two threads and one that a sink starts,
and as many directories as make the first one fail; where readers exclude each
other, three messages let the owner of a sink log again while the sink's thread and
a third thread do; three threads and four
signals let a signal interrupt the handler on another thread while a third one
waits; three operations are enough to replace a logger, start and end the
library, and log once more; buffers for text are from empty to one more than
enough. Bounds named
`Max...` stop operations, messages, signals, searches or time.

**Fairness.** In `overlap` the steps of a handler and of a client that has its
reply are weakly fair: they are threads that run. A waiting client's request is
eventually given to a handler. Nobody has to start a client or the server, and
nothing has to succeed. In `prng` a thread in the critical section goes on, and a
free mutex is taken by some waiting thread; nothing is said of which. In
`aggregates` the one session goes on. `lattice` and `libraries` check safety
only; that threads do not wait for each other (`NoDeadlock`, which leaves
out the one circle described below) and that a sleeping thread has someone to end it (`SleepersEnd`) are stated of
states. Deadlock is not checked: all clients being done, all sessions over, or a
bound being reached are proper ends.

## Proofs

All of them hold for every value of the constants that satisfies the named
assumptions of the modules, which say only what the constants are: sets of
threads, files of any length, words of any size. Runs evaluate the assumptions, and
check the inductive invariants named here before they are proved.

**Protocol** (`IntersectionSumProofs`).
* With overlapping handlers and restarts: `TypeCorrect`, `NeverOvercounts`. The
  inductive invariant `OvercountInv` says which elements a loop can have
  produced, under whatever key.
* With `~Overlap`, any number of restarts: `PrintsAllOrNothing`, `KeysAreFresh`,
  `KeysAreNotReplaced`. `SerialInv` adds that there is one handler at a time and
  that it works under one key from its first element to its last, and that a
  client holds the whole of the server's set under the key named after it. Since
  both sides of the comparison are each under one key, the result is everything
  or nothing. `SessionInvariant` adds that until the first restart the key of a
  client between its rounds is still `ec_cipher_`, and an answer the whole
  intersection; a restart is what ends this, and `SerialInv` is what remains.
* With `~Overlap` and `MaxRestarts = 0`: `PrintsExactly`, `KeyIsHeld`,
  `Implements`, from `SessionInv`. Every step is then a step of
  `IdealJoin` or a stutter: `InstallCipher` opens, `SendRoundTwo` answers,
  `DecryptResult` reports, `Die` loses.

**Data of a session** (`IntersectionAggregatesProofs`). `AggregatesInv` says that
ciphertexts stay in the message space, that the second sum of a pair server is
absent from the moment it replies, and that the size and the running sums are
those of one choice among the rows of each repeated identifier, as far as the loop
has come. It gives `SecondSumTrue` and `PrintsOneSelection`: size and sums are of
the same rows. Distinct identifiers leave one choice, hence `PrintsExactly`:
the sums are exact unless they need more bits than can be printed.

**Generator** (`ChaChaPrngProofs`). `StreamInv` says that the thread in the critical
section has taken the bytes from `start` to the next one, and that what others hold
lies before `start`; types, `NoByteTwice` and `ReadInBuffer` follow, and calls of
the refinement `ImplementsTheStream` take effect at `Return`.

**Serialization** (`LatticeProofs`). The loop of `TranscribeBits` is a
recursive function of a state; `LoopInv` says that the bits before the position it
has come to are in their places and that all later ones are zero, and that what is
left of the current input, and room in the current output, agree with that position.
`TranscribedBits` follows for every width of input and output and every length;
`BitsReturn` applies it twice, and `ReadsBack` says what `SerializeVector` and
`DeserializeVector` rely on. `RoundTripAlways` says the same of the steps of
`Transcription`, with the invariant of the loop after each of them.

**Integers** (`LatticeProofs`). `IntegersInv` says that the parameters are
those of `Create`, that every entry is at most the modulus, and that it stands for
the residue of ordinary arithmetic. The upper bound is not strict: the negation
of zero is the modulus itself, and each operation must be shown to work on it. The
lemmas under it are the algorithms: the binary extended Euclid of `Create`
(`InversesAlways`), Montgomery and Barrett reduction without overflow of the double
word, `ModExp` by squares, random numbers by rejection, and numbers through bytes and
back, which cites `ReadsBack`. `RepresentsAlways` and `UniqueAlways` follow, and
`ExactAlways` is `IntegersExact` of the run `lattice`, for every size of word.

**Keys of the lattice library** (`LatticeProofs`). `KeysAgreeAlways`: the invariant
`KeysSwitched` says that the key for each modulus is the one that was sampled, reduced;
bringing a negative coefficient from one modulus to another by a subtraction that may wrap
is where it could fail. For keys that came from a smaller modulus it does fail, and the
invariant says of these that coefficients that are not negative stay, whichever moduli are
in between (`KeyOf`). `KeysAssumption` says what the code's parameters give: that
errors are small next to each modulus, and that two moduli fit in a word. `KeysMatchAlways`: the
invariant `KeysMade` says that the server's expansion of a half and a seed is the key of the
client, part by part and column by column (the rows that travel are joined by
`FlattenSeq` and must be taken apart in the same places), and `ColumnsEncrypt` that a
column, less the power of the secret that it is for, leaves an error that is a multiple of
`t`. `DrawsAssumption` says what the samplers return; that there is room for
the error is assumed as well, since no code checks it.

**Ciphers** (`LibraryProofs`). That the points of the curve are a group, and that its
order is prime, is OpenSSL's and is assumed (`GroupAssumption`; TLC evaluates it on the
instance). Proved from the definitions are inverses modulo a prime, Euclid's lemma,
double-and-add, square roots of opposite parity, points as bytes and back, and the
arithmetic of keys, removed ones being negative powers. The invariant `CurveInv` needs
`Encrypted`: what is on the wire is the hash of an identifier, times the powers of both keys
that are on it; no element becomes infinity, because the order is prime. `KeysCommute` and
`ElGamalDecrypts` follow.

**Paillier** (`NumberProofs`, `PaillierProofs`). `PaillierAlwaysExact` states both conjuncts of
`PaillierExact` for all keys, all messages below `n^s` and any sequence of operations, with
and without `two_k_ary_exp`. `PaillierAssumption` says what is assumed: `p` and `q` are
different safe primes, as `paillier.h` asks; `s` is below both, since `i!` has an inverse
up to `s` only then and `BigNum::ModInverse` ends the process otherwise; the number `x` that
the public generator is made of is prime to `n`. No theorem of number theory is assumed:
* Congruences, units, powers and the residues of two moduli come first, then the binomial
  expansion, as sums of falling products `m (m - 1) ... (m - j + 1)` times values that
  satisfy the recurrence of `x^j / j!`. From it follow Fermat's theorem, and that numbers
  congruent modulo `p` have `p^j`-th powers congruent modulo `p^(j+1)`. A safe prime has the
  generator that `GetGeneratorForSafePrime` looks for.
* The operators are shown to compute what they are for: `GetPrecomp` and
  `ComputeByBinomialExpansion`, which reduces every falling product by one power less than
  the one before; `TwoKAryModExp`; `TwoModulusCrt`; `GetDecryptPrecomp`; and the rounds of
  `Decrypt`, each of which finds the message modulo one more power of `p`, as a logarithm.
* The invariant `PaillierInv` is that every ciphertext satisfies, for `p` and for `q`, the
  equation `c^(p-1) = (1+n)^(m(p-1))` modulo `p^(s+1)`: the `(p-1)`-th power has no random
  factor left. `Add` and `Multiply` keep it, an encryption by either key satisfies
  it, and `Decrypt` solves it. That the random number reported by the private key makes
  the same ciphertext with the public one (`RandReproduces`) is by congruences lifted from
  `p` to `p^(s+1)`, since only its residue modulo `p` is reported.

**Results** (`LibraryProofs`). `ResultsInv` adds to `ResultsStand` that a status changes only
together with what it means (`Kept`), and that a value is there, if only a null one, until
it is moved away.

**Locks** (`GlogProofs`). `MutexInv` ties the count in the mutex to the set of
those that hold it, in each of the five builds. `LocksAreRight`: a lock object gives
up what it took. `MutualExclusion`: a writer is alone, wherever the build
promises it; a build without threads promises nothing.

**Log messages** (`GlogProofs`). Two invariants.
* `SinksInv`: who holds `log_mutex`, that messages are numbered in its order, what each
  sink was sent as the loop over the list goes down, and what waits for the thread
  that registered the sink. `EachSinkServed`, `WaitsForSink` and `NobodyStuck` follow. The
  last holds in both kinds of builds: where nobody in `LOG` can go on, the owner waits for
  its sink (`OwnerWaits`), and the sink's thread, which logs too, is not free to take its
  message. If readers share, that thread can go on, and `NobodyStuckSharing` says that
  somebody always can. If they do not, it may need `sink_mutex_`, which the owner keeps, or
  `log_mutex` of a thread that needs `sink_mutex_`: that is `WaitsInCircle`, and the only way to
  be stuck.
* `FilesInv`: what the files hold. The message being written is the last in the
  order and in none of the files that are still to come (`Stages`); the open file is
  the last one and at most as long as `file_length_` (`FileInv`);
  `rollover_attempt_` counts the messages that waited since a creation failed
  (`AttemptsCounted`), and `stop_writing` is only set after a full disk
  (`StoppedByFullDisk`), so that every loss has its reason; closed files are
  flushed, and for a FATAL message files are flushed one after the other
  (`FlushedInTurn`). `MessagesKept` follows: every message that is past its files is in
  each of them, once and in one order, or was lost for a reason.

**Crash reports** (`GlogProofs`). `SignalsInv` says that at most one
activation of the handler works, on the thread in `g_entered_thread_id_pointer`, that
what is dumped and flushed is as far as that activation has come, and that it
does not return while the process runs. `DumpsOnce`, `DumpsAndFlushes` and
`SomebodyDumps` hold for any set of threads, with signals between any two steps.

**Induction.** The library's induction theorems take an operator, which the
provers here cannot instantiate. `LeastNumber`, `Induction` and `Recursion` in
`LatticeProofs` and `NumberProofs` state induction over *sets* of numbers, and recursion
over functions that are values, instead. This reaches powers and the loops that are
recursive functions (`TwoTo`, `Power`, `ModExp`, `Transcribed`, the loops of Paillier), but no `RECURSIVE` operator. Folds of the
community modules are reached where they unfold to such a function (`RowsJoined`,
`SumIsInt`). The sums of `IntersectionAggregatesProofs` need no induction:
a sum over rows is the number of the units of value in them.

**Only model-checked:**
* liveness, under fairness: `CallsReturn`, `SessionEnds`, `MutexReleased`, `Served`;
* what speaks of `ENABLED`: `NoDeadlock` of `LogMessages`, next to which
  `NobodyStuck` and `NobodyStuckSharing` are proved, and `SleepersEnd` of `FailureSignals`, beyond `SomebodyDumps`;
* that random integers and errors are drawn evenly (`DrawnFairly`, and `Fair` of
  `RandomNumbers`), which counts inputs; `SampleError` uses `Bitwise`;
* the transform and the scheme (`TransformExact`, `Decrypts`, `ErrorBoundsNoise`), whose
  products of polynomials are sums of sums. That `MultiplicativeInverse` is one is not
  proved for words; Fermat's theorem, which it needs, is in `NumberProofs`. The error bound of the code is an estimate, right for the
  instances that are checked, for which there is no proof;
* numbers of two words, random numbers and files (the rest of `ValuesExact`,
  `FilesExact`), and the rest of `LogsKept`, `SinksServed`,
  `CrashReported` and `LogControlled`: destinations, texts, stack traces, symbols,
  levels (a `RECURSIVE` operator matches the patterns), housekeeping and directories.

## Not modelled

* `client_table_impl.cc` is in no target of `BUILD`. `code-analysis/` is
  generated. Of `testing/`, only the coefficient polynomials and the monomial are
  modelled, as the reference they are for the tests too.
* OpenSSL: the arithmetic of `BigNum` is that of integers, tests for primes are
  taken to be right, and the curve is small.
* Requests that no client of this repository sends (another protocol, an empty
  message), and `--operator_1` and `--operator_2` of the clients, which are stored
  and never sent. The two safe primes of a client are assumed to differ:
  `client_impl.cc` does not compare them, unlike the key generation of
  `crypto/paillier.cc`. Salts of the generator are numbered without wrapping; the
  `int` of the code does after 2^31 buffers.
* `data_util.cc`: the means and variances that are only logged, and the writer
  of pairs in two columns, which is the other writer with fewer fields.
  `Int256`: bitwise operators and conversions to floating point.
* `glog/`: colors, the words of mails, demangling, mutexes after their
  destructors, the rest of the Windows port, the library's own tests and their
  harness. That `ShutdownGoogleLogging` deletes the destinations without a lock
  while other threads log is ruled out: `LogDestinations` has one thread. The counters of `LOG_EVERY_N` and
  `LOG_FIRST_N` are statics without a lock, a data race for which the
  documentation promises nothing.

## Where code and comments part

Findings that a run shows are in `PROJECT.json`. The following were met while
reading the code. They lie outside the runs: either the models follow the code
and their properties are stated around them, or the code is not modelled.

Lattice library:
* `symmetric_encryption.h` 352: modulus switching moves a coefficient by up to
  `t`, though the comment at 334 wants the nearest value; 591: switching a key to a
  larger modulus, which nothing refuses, wraps, so that its negative coefficients are
  not negative afterwards (587 wants them to be); 313: the estimate of a ciphertext that is
  switched to a larger modulus falls behind the error, since it grows by the ratio of
  the logarithms ("Overestimate"); 548 and 823 accept plaintext parameters of
  another modulus (764).
* `coefficient_polynomial_ciphertext.h` 89: `error_` is never assigned (166).
* `relinearization_key.cc` 325: `ApplyTo` refuses a ciphertext that is shorter
  than the key, which `relinearization_key.h` 81 admits.

Libraries:
* `--max_associated_value=0` passes the checks of the dummy data ("Must be
  nonnegative"), then `GenerateRandLessThan(0)` ends the program. Its output says
  the client's size for the server's (`generate_dummy_data.cc` 103).
* `data_util.cc`: `inner_product` starts from an `int` 0, and the variance of
  the second column is computed over the first; both are only logged.
* `context.cc`: the random oracle's limit keeps the counters of SHA-512 to one
  byte, but admits 507 hashes of SHA-256; counters of two bytes are then ambiguous
  with inputs that start with such a byte. `PRF` does not end for the bound 0, or
  if hashes run in a circle.
* `util/statusor.h`: a copy of an error dereferences a null `value_`; a
  `StatusOr<T*>` of a null pointer is not ok in an optimised build, but `value()`
  returns it; a moved-from one stays ok, and `value()` fails; `StatusOr(OK)` is
  `kInternal` (81 says `EINVAL`). `statusor.h` 167: the copy assignment calls
  `reset` with an argument, and would not compile if it were used; a moved-from
  one is not ok, yet not empty.

Logging library:
* Where `ReaderLock` is `Lock` (Windows, and pthreads without `HAVE_RWLOCK`, which no build
  file of the repository sets; the template `config.h.cmake.in` 71 names it), two threads can
  wait for each other for ever, though `logging.h.in` 1459-1467 wants sinks that log in a
  thread of their own to work "w/o causing deadlocks", as that of the tests does. The owner
  of a sink logs twice; the sink's thread takes the first message and logs; the owner, in
  `WaitForSinks` (`logging.cc` 858) for the second one, holds `sink_mutex_` until that is
  taken; the sink's thread wants `sink_mutex_`, in `LogToSinks` (849) with `log_mutex` in its
  hands or in `WaitForSinks`, before it comes to take it; or it wants `log_mutex` of a third
  thread that is in `LogToSinks`. TLC reaches all three in the component `log_locks` of
  `MCGlog`; they are the disjuncts of `WaitsInCircle`, which `NoDeadlock` and `NobodyStuck`
  leave out. (A writer that waits, in `AddLogSink`, would have the same effect on shared
  locks that prefer writers; the models have those of glibc, which by default do not.)
* With `log_mutex` held, `SendEmailInternal` does `VLOG(4)`, though its caller says
  why it must not (811-813), and `SendToSyslogAndLog` of a build without syslog does
  `LOG(ERROR)`: either waits for itself (`LogDestinations`, state `waits`).
  `ReprintFatalMessage` writes to files before `InitGoogleLogging`, which
  `SendToLog` avoids (1732). A logger that is replaced is never deleted, though
  `SetLogger` makes it the library's property. An environment variable that is set
  to nothing counts as true. A second FATAL
  thread may end the process before the first has recorded its reason; later
  ones share one buffer. The flush of a FATAL message writes with timestamp 0, and
  may create a file named after the epoch.
* A file that rolls over twice within a second cannot be created (`O_EXCL`), and
  up to 31 messages are lost. `SetBasename` resets neither `file_length_` nor
  `rollover_attempt_` when no file is open. The limit on the size is exceeded by
  at most one message.
* `IsLogFromCurrentProject` takes names that are shorter than the format, and
  never one with an extension. `TruncateLogFile` loses bytes after a short write.
  `GetTempDirectories` skips only a variable that is not set: of one that is
  empty the last character is read.
* `FailureSignalHandler`: if it is re-entered in a program with one thread, its
  signal stays pending and it sleeps for ever. `MinimalFormatter` copies over an
  overlapping range.
* `SafeFNMatch_`: `**` never matches the empty rest. `SetVLOGLevel` has no effect
  where a pattern with wildcards applies already, and forgets `--vmodule` if it
  comes before that is parsed.
* `raw_logging.cc`: `DoRawLog` says true for a text that just does not fit, and
  the last character is lost with the newline; a text that is too long leaves
  only the prefix and the words for it. `LOG` without prefix and text reads the
  byte before the message.
* `symbolize.cc`: the stripped case is called a success and returns false, as
  the name is only copied when the file does not open; on a truncated file
  `FindSymbol` and `GetSectionHeaderByType` do not end.
* `dirent.h`: an error in the middle looks like the end, a directory that cannot
  be opened again like an empty one, and a name that cannot be converted sets no
  `errno`. Stack traces on x86 and powerpc may fault on a stack that is corrupt.
* The tests' `TestLogSinkWriter::Wait` waits until its buffer is empty, not until
  the message is logged (`logging.h`, `WaitTillSent`).

## Plan

1. Done: `IntersectionSum`, `IdealJoin` and their proofs.
2. Done: `IntersectionAggregates` and proofs.
3. Done: `ChaChaPrng`, `ByteStream` and proofs.
4. Done: the lattice library, run `lattice`.
5. Done: cryptography, files, numbers and results, run `libraries`.
6. Done: the logging library under the same run.
7. Done: theorems about `MontgomeryInt`, `TranscribeBits`, `Transcription`, the keys of
   `RlweEncryption` and `Relinearization`, `CurveCiphers`, `Paillier`, `StatusOr`, `MutexLocks`,
   `LogMessages` and `FailureSignals`, and about the sums of `IntersectionAggregates`.
8. Left: theorems about `Int256`, the CSV of `DataFiles` and `LogDestinations`,
   each by loops that are recursive functions; and about the transform, which needs its sums
   to be such functions first.
