----------------------------- MODULE ChaChaPrng -----------------------------
(***************************************************************************)
(* The thread-safe pseudorandom generator of the lattice library: a buffer *)
(* of ChaCha20 output that is consumed byte by byte and, once exhausted,   *)
(* filled again under the next salt, while a mutex is held.                *)
(*                                                                         *)
(* The key is fixed, so that a byte of output is determined by the salt in *)
(* its nonce and its offset in the buffer, and is written as that pair.    *)
(***************************************************************************)
EXTENDS Naturals, Sequences

CONSTANTS
  Threads,
  OutputBytes,    \* kChaChaOutputBytes, 255 * 32
  WordBytes,      \* bytes in the result of Rand64: 8
  MaxSalt         \* bound: no call begins once salt_counter_ is beyond it

ASSUME SizeAssumption ==
  /\ OutputBytes \in Nat \ {0}
  /\ WordBytes \in Nat \ {0}
  /\ MaxSalt \in Nat

VARIABLES
  mu_,                 \* the threads that hold the mutex
  buffer_,             \* the salt under which the buffer was filled
  position_in_buffer_,
  salt_counter_,       \* salt of the next buffer
  step,                \* where in its call a thread is
  need,                \* how many bytes its call produces
  got,                 \* those it has produced
  result,              \* what its last call returned
  start                \* history: place in the stream where the call of the
                       \* thread that holds the mutex began

prngVars == <<buffer_, position_in_buffer_, salt_counter_>>
vars == <<mu_, prngVars, step, need, got, result, start>>

-----------------------------------------------------------------------------

Byte == Nat \X (0 .. OutputBytes - 1)
Step == {"idle", "lock", "test", "read", "advance"}
Lengths == {1, WordBytes}

TypeOK ==
  /\ mu_ \in SUBSET Threads
  /\ buffer_ \in Nat
  /\ position_in_buffer_ \in 0 .. OutputBytes
  /\ salt_counter_ \in Nat
  /\ step \in [Threads -> Step]
  /\ need \in [Threads -> Lengths]
  /\ got \in [Threads -> Seq(Byte)]
  /\ result \in [Threads -> Seq(Byte)]
  /\ start \in Nat

\* Create: the buffer is filled once, under salt 0.
Init ==
  /\ mu_ = {}
  /\ buffer_ = 0 /\ position_in_buffer_ = 0 /\ salt_counter_ = 1
  /\ step = [t \in Threads |-> "idle"]
  /\ need = [t \in Threads |-> 1]
  /\ got = [t \in Threads |-> <<>>]
  /\ result = [t \in Threads |-> <<>>]
  /\ start = 0

\* The place in the stream of the next byte that nobody has produced.
Base(salt) == salt * OutputBytes
NextByte == Base(salt_counter_ - 1) + position_in_buffer_

At(t, next) == step' = [step EXCEPT ![t] = next]

-----------------------------------------------------------------------------

\* Rand8 (1 byte) or Rand64.
Call(t, length) ==
  /\ step[t] = "idle" /\ salt_counter_ <= MaxSalt
  /\ At(t, "lock")
  /\ need' = [need EXCEPT ![t] = length]
  /\ UNCHANGED <<mu_, prngVars, got, result, start>>

\* Faulty variant: the generator for a single thread, used by several.
LockMissing(t) ==
  /\ step[t] = "lock"
  /\ mu_' = mu_ \cup {t}
  /\ start' = NextByte
  /\ got' = [got EXCEPT ![t] = <<>>]
  /\ At(t, "test")
  /\ UNCHANGED <<prngVars, need, result>>

\* absl::MutexLock lock(&mu_)
Lock(t) ==
  /\ step[t] = "lock" /\ mu_ = {}
  /\ mu_' = {t}
  /\ start' = NextByte
  /\ got' = [got EXCEPT ![t] = <<>>]
  /\ At(t, "test")
  /\ UNCHANGED <<prngVars, need, result>>

\* Faulty variant: the buffer is filled again under the salt it had.
ChaChaPrngResaltSame(t) ==
  /\ step[t] = "test" /\ position_in_buffer_ >= OutputBytes
  /\ buffer_' = buffer_
  /\ salt_counter_' = salt_counter_ + 1
  /\ position_in_buffer_' = 0
  /\ At(t, "read")
  /\ UNCHANGED <<mu_, need, got, result, start>>

\* Faulty variant: the counter is moved on before the nonce is made.
ChaChaPrngResaltSkips(t) ==
  /\ step[t] = "test" /\ position_in_buffer_ >= OutputBytes
  /\ buffer_' = salt_counter_ + 1
  /\ salt_counter_' = salt_counter_ + 1
  /\ position_in_buffer_' = 0
  /\ At(t, "read")
  /\ UNCHANGED <<mu_, need, got, result, start>>

\* The buffer is exhausted: fill it under the next salt.
ChaChaPrngResalt(t) ==
  /\ step[t] = "test" /\ position_in_buffer_ >= OutputBytes
  /\ buffer_' = salt_counter_
  /\ salt_counter_' = salt_counter_ + 1
  /\ position_in_buffer_' = 0
  /\ At(t, "read")
  /\ UNCHANGED <<mu_, need, got, result, start>>

\* Faulty variant: off by one, the byte behind the buffer is taken for one of it.
BufferHasByteOffByOne(t) ==
  /\ step[t] = "test" /\ position_in_buffer_ <= OutputBytes
  /\ At(t, "read")
  /\ UNCHANGED <<mu_, prngVars, need, got, result, start>>

BufferHasByte(t) ==
  /\ step[t] = "test" /\ position_in_buffer_ < OutputBytes
  /\ At(t, "read")
  /\ UNCHANGED <<mu_, prngVars, need, got, result, start>>

\* rand = buffer->at(*position_in_buffer), which throws beyond the buffer:
\* ReadInBuffer says that this never happens.
ReadByte(t) ==
  /\ step[t] = "read" /\ position_in_buffer_ < OutputBytes
  /\ got' = [got EXCEPT ![t] = Append(@, <<buffer_, position_in_buffer_>>)]
  /\ At(t, "advance")
  /\ UNCHANGED <<mu_, prngVars, need, result, start>>

\* ++(*position_in_buffer), and the loop of Rand64 goes on.
AdvanceInLoop(t) ==
  /\ step[t] = "advance" /\ Len(got[t]) < need[t]
  /\ position_in_buffer_' = position_in_buffer_ + 1
  /\ At(t, "test")
  /\ UNCHANGED <<mu_, buffer_, salt_counter_, need, got, result, start>>

\* Faulty variant: the lock is kept.
ReturnLocked(t) ==
  /\ step[t] = "advance" /\ Len(got[t]) >= need[t]
  /\ position_in_buffer_' = position_in_buffer_ + 1
  /\ result' = [result EXCEPT ![t] = got[t]]
  /\ At(t, "idle")
  /\ UNCHANGED <<mu_, buffer_, salt_counter_, need, got, start>>

\* ++(*position_in_buffer); the call returns and its MutexLock is destroyed.
Return(t) ==
  /\ step[t] = "advance" /\ Len(got[t]) >= need[t]
  /\ position_in_buffer_' = position_in_buffer_ + 1
  /\ result' = [result EXCEPT ![t] = got[t]]
  /\ mu_' = mu_ \ {t}
  /\ At(t, "idle")
  /\ UNCHANGED <<buffer_, salt_counter_, need, got, start>>

-----------------------------------------------------------------------------

Rand8Step(t) ==
  \/ ChaChaPrngResalt(t) \/ BufferHasByte(t)
  \/ ReadByte(t) \/ AdvanceInLoop(t) \/ Return(t)

Next ==
  \E t \in Threads :
    \/ \E length \in Lengths : Call(t, length)
    \/ Lock(t)
    \/ Rand8Step(t)

Spec == Init /\ [][Next]_vars

(***************************************************************************)
(* Fairness.  A thread in the critical section goes on, and a free mutex   *)
(* is taken by some thread that waits for it, by no thread in particular.  *)
(***************************************************************************)
Fairness ==
  /\ \A t \in Threads : WF_vars(Rand8Step(t))
  /\ WF_vars(\E t \in Threads : Lock(t))

FairSpec == Spec /\ Fairness

-----------------------------------------------------------------------------
(* Correctness *)

\* No byte of the stream is given to two threads, also while their calls are
\* under way.
NoByteTwice ==
  \A t, u \in Threads :
    t # u => \A i \in DOMAIN got[t], j \in DOMAIN got[u] : got[t][i] # got[u][j]

\* buffer_.at() does not throw: between the test of the position and the read,
\* nobody moves it, and the buffer is the one the position is for.
ReadInBuffer ==
  \A t \in Threads :
    step[t] = "read" => /\ position_in_buffer_ < OutputBytes
                        /\ buffer_ = salt_counter_ - 1

\* No call keeps the mutex forever: the loop of Rand64 ends, also when the
\* buffer is exhausted in the middle of a word.
MutexReleased == []<>(mu_ = {})

-----------------------------------------------------------------------------
(* The endless stream.  Calls take effect when they return: until then the   *)
(* stream stands where the call of the thread in the critical section began. *)

Place(byte) == Base(byte[1]) + byte[2]
Taken == IF mu_ = {} THEN NextByte ELSE start

Stream == INSTANCE ByteStream WITH
            next <- Taken,
            result <- [t \in Threads |->
                         [i \in DOMAIN result[t] |-> Place(result[t][i])]]

\* Every Rand8 and every Rand64 returns the next bytes of the one stream of the
\* seed, consecutive also over a change of salt, whatever threads do: two
\* generators with the same seed that are called alike return the same.
ImplementsStream == Stream!Spec

-----------------------------------------------------------------------------
(* The inductive invariant *)

Working == {"test", "read", "advance"}

\* The thread in the critical section has produced the bytes from start on.
HolderInv(t) ==
  /\ step[t] \in Working <=> t \in mu_
  /\ step[t] \in Working =>
       /\ \A i \in DOMAIN got[t] : Place(got[t][i]) = start + i - 1
       /\ step[t] = "advance" =>
            /\ position_in_buffer_ < OutputBytes
            /\ start + Len(got[t]) = NextByte + 1
            /\ Len(got[t]) <= need[t]
       /\ step[t] # "advance" =>
            /\ start + Len(got[t]) = NextByte
            /\ Len(got[t]) < need[t]
       /\ step[t] = "read" => position_in_buffer_ < OutputBytes

\* What threads outside the critical section have was taken before, by each its
\* own.
PlacesInv ==
  /\ \A t \in Threads \ mu_ : \A i \in DOMAIN got[t] : Place(got[t][i]) < Taken
  /\ \A t, u \in Threads :
       t # u => \A i \in DOMAIN got[t], j \in DOMAIN got[u] :
                  Place(got[t][i]) # Place(got[u][j])

StreamInv ==
  /\ TypeOK
  /\ salt_counter_ = buffer_ + 1
  /\ \A t, u \in mu_ : t = u
  /\ \A t \in Threads : HolderInv(t)
  /\ PlacesInv
=============================================================================
