-------------------------- MODULE ChaChaPrngProofs --------------------------
(***************************************************************************)
(* Proofs about ChaChaPrng, for every number of threads, size of the       *)
(* buffer and length of a word.  Nothing is assumed of the two sizes: a    *)
(* word may straddle two buffers, or several.                              *)
(***************************************************************************)
EXTENDS ChaChaPrng, TLAPS

\* The stream of one salt ends where that of the next begins.
LEMMA BaseNext ==
  ASSUME NEW salt \in Nat
  PROVE  Base(salt) \in Nat /\ Base(salt + 1) = Base(salt) + OutputBytes
BY SizeAssumption DEF Base

\* Create returns a generator at the start of its stream.
LEMMA StreamInit == Init => StreamInv
<1> SUFFICES ASSUME Init PROVE StreamInv
  OBVIOUS
<1>1. TypeOK
  BY SizeAssumption DEF Init, TypeOK, Step, Lengths, Byte
<1>2. \A t \in Threads : HolderInv(t)
  BY DEF Init, HolderInv, Working
<1>3. PlacesInv
  BY DEF Init, PlacesInv
<1> QED
  BY <1>1, <1>2, <1>3 DEF Init, StreamInv

\* Each step of a call keeps the types: the position stays in the buffer.
LEMMA TypeStep == StreamInv /\ [Next]_vars => TypeOK'
<1> SUFFICES ASSUME StreamInv, [Next]_vars PROVE TypeOK'
  OBVIOUS
<1> USE SizeAssumption DEF TypeOK, Step, Lengths, Byte, At, prngVars
<1>0. TypeOK
  BY DEF StreamInv
<1>1. CASE UNCHANGED vars
  BY <1>0, <1>1 DEF vars
<1>2. ASSUME NEW t \in Threads, NEW length \in Lengths, Call(t, length)
      PROVE  TypeOK'
  BY <1>0, <1>2 DEF Call
<1>3. ASSUME NEW t \in Threads, Lock(t) PROVE TypeOK'
  <2>1. NextByte \in Nat
    <3>1. salt_counter_ - 1 \in Nat /\ position_in_buffer_ \in Nat
      BY <1>0 DEF StreamInv
    <3> QED
      BY <3>1, BaseNext DEF NextByte
  <2> QED
    BY <1>0, <1>3, <2>1 DEF Lock
<1>4. ASSUME NEW t \in Threads, ChaChaPrngResalt(t) PROVE TypeOK'
  BY <1>0, <1>4 DEF ChaChaPrngResalt
<1>5. ASSUME NEW t \in Threads, BufferHasByte(t) PROVE TypeOK'
  BY <1>0, <1>5 DEF BufferHasByte
<1>6. ASSUME NEW t \in Threads, ReadByte(t) PROVE TypeOK'
  <2>1. <<buffer_, position_in_buffer_>> \in Byte
    BY <1>0, <1>6 DEF ReadByte
  <2>2. Append(got[t], <<buffer_, position_in_buffer_>>) \in Seq(Byte)
    BY <1>0, <2>1
  <2> QED
    BY <1>0, <1>6, <2>2 DEF ReadByte
<1>7. ASSUME NEW t \in Threads, step[t] = "advance"
      PROVE  position_in_buffer_ + 1 \in 0 .. OutputBytes
  BY <1>0, <1>7 DEF StreamInv, HolderInv, Working
<1>8. ASSUME NEW t \in Threads, AdvanceInLoop(t) PROVE TypeOK'
  BY <1>0, <1>7, <1>8 DEF AdvanceInLoop
<1>9. ASSUME NEW t \in Threads, Return(t) PROVE TypeOK'
  <2>1. got[t] \in Seq(Byte)
    BY <1>0
  <2> QED
    BY <1>0, <1>7, <1>9, <2>1 DEF Return
<1> QED
  BY <1>1, <1>2, <1>3, <1>4, <1>5, <1>6, <1>8, <1>9 DEF Next, Rand8Step

\* The stream stands at a place, which a change of salt does not move; the byte
\* read is the one at that place.
LEMMA NextBytePlace ==
  ASSUME StreamInv
  PROVE  /\ NextByte \in Nat
         /\ Place(<<buffer_, position_in_buffer_>>) = NextByte
         /\ \A t \in Threads : ChaChaPrngResalt(t) => NextByte' = NextByte
         /\ \A t \in Threads :
              AdvanceInLoop(t) \/ Return(t) => NextByte' = NextByte + 1
<1>1. /\ buffer_ \in Nat /\ position_in_buffer_ \in Nat
      /\ salt_counter_ = buffer_ + 1
      /\ position_in_buffer_ <= OutputBytes
  BY SizeAssumption DEF StreamInv, TypeOK
<1>2. salt_counter_ - 1 = buffer_
  BY <1>1
<1>3. Base(buffer_) \in Nat /\ Base(buffer_ + 1) = Base(buffer_) + OutputBytes
  BY <1>1, BaseNext
<1>4. NextByte = Base(buffer_) + position_in_buffer_
  BY <1>2 DEF NextByte
<1>5. ASSUME NEW t \in Threads, ChaChaPrngResalt(t)
      PROVE  NextByte' = NextByte
  <2>1. /\ position_in_buffer_ = OutputBytes /\ position_in_buffer_' = 0
        /\ salt_counter_' = buffer_ + 2
    BY <1>1, <1>5, SizeAssumption DEF ChaChaPrngResalt
  <2>2. salt_counter_' - 1 = buffer_ + 1
    BY <1>1, <2>1
  <2>3. NextByte' = Base(buffer_ + 1) + 0
    BY <2>1, <2>2 DEF NextByte
  <2> QED
    BY <1>3, <1>4, <2>1, <2>3, SizeAssumption
<1>6. ASSUME NEW t \in Threads, AdvanceInLoop(t) \/ Return(t)
      PROVE  NextByte' = NextByte + 1
  <2>1. /\ position_in_buffer_' = position_in_buffer_ + 1
        /\ salt_counter_' = salt_counter_
    BY <1>6 DEF AdvanceInLoop, Return
  <2>2. NextByte' = Base(buffer_) + (position_in_buffer_ + 1)
    BY <1>2, <2>1 DEF NextByte
  <2> QED
    BY <1>1, <1>3, <1>4, <2>2
<1> QED
  BY <1>1, <1>3, <1>4, <1>5, <1>6 DEF Place

\* Every byte has a place in the stream.
LEMMA PlaceInNat == \A byte \in Byte : Place(byte) \in Nat
<1> SUFFICES ASSUME NEW byte \in Byte PROVE Place(byte) \in Nat
  OBVIOUS
<1>1. byte[1] \in Nat /\ byte[2] \in Nat
  BY SizeAssumption DEF Byte
<1> QED
  BY <1>1, BaseNext DEF Place

\* Each step of a call, under the mutex, keeps what the thread has produced a
\* consecutive piece of the stream that no other thread has a part in.
LEMMA StreamStep == StreamInv /\ [Next]_vars => StreamInv'
<1> SUFFICES ASSUME StreamInv, [Next]_vars
             PROVE  /\ (salt_counter_ = buffer_ + 1)'
                    /\ (\A t, u \in mu_ : t = u)'
                    /\ (\A t \in Threads : HolderInv(t))'
                    /\ PlacesInv'
  BY TypeStep DEF StreamInv
<1>0. /\ TypeOK /\ TypeOK' /\ NextByte \in Nat
      /\ salt_counter_ = buffer_ + 1
      /\ \A t, u \in mu_ : t = u
      /\ \A t \in Threads : HolderInv(t)
      /\ PlacesInv
  BY TypeStep, NextBytePlace DEF StreamInv
<1>p. ASSUME NEW u \in Threads
      PROVE  \A i \in DOMAIN got[u] : Place(got[u][i]) \in Nat
  <2>1. \A i \in DOMAIN got[u] : got[u][i] \in Byte
    BY <1>0 DEF TypeOK
  <2> QED
    BY <2>1, PlaceInNat
<1>n. \A t \in Threads : need[t] \in Nat \ {0} /\ Len(got[t]) \in Nat
  BY <1>0, SizeAssumption DEF TypeOK, Lengths
<1> USE <1>0, SizeAssumption
    DEF TypeOK, HolderInv, PlacesInv, Taken, Working, At
<1>1. CASE UNCHANGED vars
  <2>1. NextByte' = NextByte
    BY <1>1 DEF vars, prngVars, NextByte
  <2> QED
    BY <1>1, <2>1 DEF vars, prngVars
<1>o. ASSUME NEW u \in Threads, step'[u] \notin Working, u \notin mu_'
      PROVE  HolderInv(u)'
  BY <1>o
<1>2. ASSUME NEW t \in Threads, NEW length \in Lengths, Call(t, length)
      PROVE  StreamInv'
  <2>1. NextByte' = NextByte
    BY <1>2 DEF Call, prngVars, NextByte
  <2> QED
    BY <1>2, <2>1 DEF Call, prngVars, StreamInv
<1>3. ASSUME NEW t \in Threads, Lock(t) PROVE StreamInv'
  <2>1. NextByte' = NextByte
    BY <1>3 DEF Lock, prngVars, NextByte
  <2>2. /\ mu_ = {} /\ mu_' = {t} /\ start' = NextByte
        /\ got'[t] = <<>> /\ step'[t] = "test"
        /\ \A u \in Threads \ {t} : got'[u] = got[u] /\ step'[u] = step[u]
    BY <1>3 DEF Lock
  <2>3. Len(<<>>) = 0 /\ DOMAIN got'[t] = {}
    BY <2>2
  <2>4. HolderInv(t)'
    <3>1. need'[t] \in Nat \ {0}
      BY <1>3, <1>n DEF Lock
    <3>2. Len(got'[t]) = 0
      BY <2>2, <2>3
    <3> QED
      BY <2>1, <2>2, <2>3, <3>1, <3>2
  <2>5. \A u \in Threads \ {t} : HolderInv(u)'
    BY <1>o, <2>2
  <2>6. Taken = NextByte /\ Taken' = NextByte
    BY <2>2
  <2>7. PlacesInv'
    <3> HIDE DEF Taken, HolderInv, TypeOK
    <3> QED
      BY <2>2, <2>3, <2>6
  <2> QED
    BY <1>3, <2>2, <2>4, <2>5, <2>7 DEF Lock, prngVars, StreamInv
<1>4. ASSUME NEW t \in Threads, step[t] \in Working
      PROVE  mu_ = {t} /\ Taken = start
  BY <1>4
<1>5. ASSUME NEW t \in Threads, ChaChaPrngResalt(t) PROVE StreamInv'
  <2>1. NextByte' = NextByte /\ mu_ = {t}
    BY <1>4, <1>5, NextBytePlace DEF ChaChaPrngResalt
  <2> QED
    BY <1>5, <2>1 DEF ChaChaPrngResalt, StreamInv
<1>6. ASSUME NEW t \in Threads, BufferHasByte(t) PROVE StreamInv'
  <2>1. NextByte' = NextByte /\ mu_ = {t}
    BY <1>4, <1>6 DEF BufferHasByte, NextByte, prngVars
  <2> QED
    BY <1>6, <2>1 DEF BufferHasByte, prngVars, StreamInv
<1>7. ASSUME NEW t \in Threads, ReadByte(t) PROVE StreamInv'
  <2>1. NextByte' = NextByte /\ mu_ = {t}
    BY <1>4, <1>7 DEF ReadByte, NextByte, prngVars
  <2>2. Place(<<buffer_, position_in_buffer_>>) = NextByte
    BY NextBytePlace
  <2>3. \A i \in DOMAIN got'[t] : Place(got'[t][i]) = start + i - 1
    BY SMTT(30), <1>7, <2>2 DEF ReadByte
  <2>4. \A u \in Threads \ {t} : got'[u] = got[u] /\ step'[u] = step[u]
    BY <1>7 DEF ReadByte
  <2>5. \A u \in Threads : HolderInv(u)'
    <3>1. HolderInv(t)'
      <4>1. Len(got'[t]) = Len(got[t]) + 1
        BY <1>7 DEF ReadByte
      <4>2. /\ step'[t] = "advance" /\ t \in mu_' /\ start' = start
            /\ need' = need /\ position_in_buffer_' < OutputBytes
            /\ start + Len(got[t]) = NextByte /\ Len(got[t]) < need[t]
        BY <1>7, <2>1 DEF ReadByte, prngVars
      <4> QED
        BY <1>n, <2>1, <2>3, <4>1, <4>2
    <3>2. \A u \in Threads \ {t} : HolderInv(u)'
      BY <1>7, <1>o, <2>1, <2>4 DEF ReadByte
    <3> QED
      BY <3>1, <3>2
  <2>6. PlacesInv'
    <3>1. mu_' = {t} /\ start' = start /\ Taken = start /\ Taken' = start
      BY <1>7, <2>1 DEF ReadByte
    <3>2. \A i \in DOMAIN got'[t] : Place(got'[t][i]) \in Nat /\ Place(got'[t][i]) >= start
      BY <2>3 DEF ReadByte
    <3>3. \A u \in Threads \ {t} : \A j \in DOMAIN got'[u] : Place(got'[u][j]) < start
      BY <2>1, <2>4, <3>1
    <3>4. \A u \in Threads \ {t} : \A j \in DOMAIN got'[u] :
            Place(got'[u][j]) \in Nat
      BY <1>p, <2>4
    <3>5. \A u \in Threads \ {t} :
            \A i \in DOMAIN got'[t], j \in DOMAIN got'[u] :
              Place(got'[t][i]) # Place(got'[u][j])
      <4>1. start \in Nat
        OBVIOUS
      <4> HIDE <1>0
      <4> QED
        BY <3>2, <3>3, <3>4, <4>1
    <3>6. ASSUME NEW a \in Threads, NEW b \in Threads, a # b
          PROVE  \A i \in DOMAIN got'[a], j \in DOMAIN got'[b] :
                   Place(got'[a][i]) # Place(got'[b][j])
      <4>1. CASE a = t
        BY <3>5, <3>6, <4>1
      <4>2. CASE b = t
        BY <3>5, <3>6, <4>2
      <4>3. CASE a # t /\ b # t
        <5>1. got'[a] = got[a] /\ got'[b] = got[b]
          BY <2>4, <4>3
        <5> QED
          BY <3>6, <5>1
      <4> QED
        BY <4>1, <4>2, <4>3
    <3>7. ASSUME NEW u \in Threads \ mu_'
          PROVE  \A i \in DOMAIN got'[u] : Place(got'[u][i]) < Taken'
      BY <3>1, <3>3
    <3> HIDE <1>0 DEF Taken, HolderInv
    <3> QED
      BY <3>6, <3>7
  <2> QED
    BY <1>7, <2>1, <2>5, <2>6 DEF ReadByte, prngVars, StreamInv
<1>8. ASSUME NEW t \in Threads, AdvanceInLoop(t) PROVE StreamInv'
  <2>1. NextByte' = NextByte + 1 /\ mu_ = {t}
    BY <1>4, <1>8, NextBytePlace DEF AdvanceInLoop
  <2> QED
    BY <1>8, <2>1 DEF AdvanceInLoop, StreamInv
<1>9. ASSUME NEW t \in Threads, Return(t) PROVE StreamInv'
  <2>1. NextByte' = NextByte + 1 /\ mu_ = {t}
    BY <1>4, <1>9, NextBytePlace DEF Return
  <2>2. /\ mu_' = {} /\ got' = got
        /\ \A i \in DOMAIN got[t] : Place(got[t][i]) < NextByte'
    BY <1>9, <2>1 DEF Return
  <2>3. \A u \in Threads : HolderInv(u)'
    BY <1>9, <2>1 DEF Return
  <2>4. PlacesInv'
    <3>1. Taken = start /\ Taken' = NextByte' /\ start <= NextByte
      BY <1>9, <1>n, <2>1, <2>2 DEF Return
    <3>2. \A u \in Threads \ {t} : \A j \in DOMAIN got[u] :
            Place(got[u][j]) < NextByte'
      BY SMTT(30), <1>p, <2>1, <3>1
    <3> HIDE DEF Taken, HolderInv, TypeOK
    <3> QED
      BY <2>2, <3>1, <3>2
  <2> QED
    BY <1>9, <2>1, <2>3, <2>4 DEF Return, StreamInv
<1> QED
  BY <1>1, <1>2, <1>3, <1>5, <1>6, <1>7, <1>8, <1>9
     DEF Next, Rand8Step, StreamInv

-----------------------------------------------------------------------------

\* In every reachable state of the generator the thread in the critical section
\* has produced a consecutive piece of the stream, disjoint from all others.
THEOREM StreamInvariant == Spec => []StreamInv
BY StreamInit, StreamStep, PTL DEF Spec

\* The generator's fields keep their types: the position never leaves the buffer.
THEOREM PrngTypeCorrect == Spec => []TypeOK
<1>1. StreamInv => TypeOK
  BY DEF StreamInv
<1> QED
  BY <1>1, StreamInvariant, PTL

\* No two threads are given the same byte of the stream.
THEOREM BytesAreFresh == Spec => []NoByteTwice
<1>1. StreamInv => NoByteTwice
  BY DEF StreamInv, PlacesInv, NoByteTwice
<1> QED
  BY <1>1, StreamInvariant, PTL

\* buffer_.at() never throws, and never reads a buffer of another salt.
THEOREM ReadsAreInBuffer == Spec => []ReadInBuffer
<1>1. StreamInv => ReadInBuffer
  BY DEF StreamInv, TypeOK, HolderInv, Working, ReadInBuffer
<1> QED
  BY <1>1, StreamInvariant, PTL

-----------------------------------------------------------------------------
(* The generator is the endless stream *)

\* A call that returns takes the next bytes of the stream, all at once.
LEMMA ReturnTakes ==
  ASSUME StreamInv, NEW t \in Threads, NEW length \in Lengths,
         length = need[t], Return(t)
  PROVE  Stream!Take(t, length)
<1>1. /\ TypeOK /\ mu_ = {t} /\ mu_' = {}
      /\ Len(got[t]) = length
      /\ start + Len(got[t]) = NextByte + 1
      /\ \A i \in DOMAIN got[t] : Place(got[t][i]) = start + i - 1
      /\ result' = [result EXCEPT ![t] = got[t]]
  <2>1. TypeOK /\ HolderInv(t) /\ \A u, v \in mu_ : u = v
    BY DEF StreamInv
  <2>2. step[t] = "advance" /\ Len(got[t]) >= need[t] /\ mu_' = mu_ \ {t}
        /\ result' = [result EXCEPT ![t] = got[t]]
    BY DEF Return
  <2>3. mu_ = {t}
    BY <2>1, <2>2 DEF HolderInv, Working
  <2>4. Len(got[t]) \in Nat /\ need[t] \in Nat
    BY <2>1, SizeAssumption DEF TypeOK, Lengths
  <2> QED
    BY <2>1, <2>2, <2>3, <2>4 DEF HolderInv, Working
<1>2. NextByte \in Nat /\ NextByte' = NextByte + 1
  BY NextBytePlace
<1>3. Taken = start /\ Taken' = start + length
  BY <1>1, <1>2 DEF Taken
<1>4. DOMAIN got[t] = 1 .. length
  BY <1>1 DEF TypeOK
<1>5. [i \in DOMAIN got[t] |-> Place(got[t][i])]
        = [i \in 1 .. length |-> Taken + i - 1]
  BY <1>1, <1>3, <1>4
<1>6. [u \in Threads |-> [i \in DOMAIN result'[u] |-> Place(result'[u][i])]]
        = [[u \in Threads |-> [i \in DOMAIN result[u] |-> Place(result[u][i])]]
             EXCEPT ![t] = [i \in DOMAIN got[t] |-> Place(got[t][i])]]
  BY <1>1 DEF TypeOK
<1> QED
  BY <1>3, <1>5, <1>6 DEF Stream!Take

\* Every other step leaves the stream as it is.
LEMMA StreamRefines ==
  StreamInv /\ [Next]_vars => [Stream!Next]_(Stream!streamVars)
<1> SUFFICES ASSUME StreamInv, [Next]_vars
             PROVE  Stream!Next \/ UNCHANGED Stream!streamVars
  OBVIOUS
<1>0. TypeOK /\ NextByte \in Nat
  BY NextBytePlace DEF StreamInv
<1>1. ASSUME result' = result, Taken' = Taken
      PROVE  UNCHANGED Stream!streamVars
  BY <1>1 DEF Stream!streamVars
<1>2. CASE UNCHANGED vars
  <2>1. NextByte' = NextByte
    BY <1>2 DEF vars, prngVars, NextByte
  <2> QED
    BY <1>1, <1>2, <2>1 DEF vars, Taken
<1>3. ASSUME NEW t \in Threads, NEW length \in Lengths, Call(t, length)
      PROVE  UNCHANGED Stream!streamVars
  <2>1. NextByte' = NextByte
    BY <1>3 DEF Call, prngVars, NextByte
  <2> QED
    BY <1>1, <1>3, <2>1 DEF Call, Taken
<1>4. ASSUME NEW t \in Threads, Lock(t) PROVE UNCHANGED Stream!streamVars
  <2>1. Taken = NextByte /\ Taken' = NextByte
    BY <1>4 DEF Lock, Taken
  <2> QED
    BY <1>1, <1>4, <2>1 DEF Lock
<1>5. ASSUME NEW t \in Threads,
             \/ ChaChaPrngResalt(t) \/ BufferHasByte(t)
             \/ ReadByte(t) \/ AdvanceInLoop(t)
      PROVE  UNCHANGED Stream!streamVars
  <2>1. mu_ # {} /\ mu_' = mu_ /\ start' = start /\ result' = result
    BY <1>5 DEF StreamInv, TypeOK, HolderInv, Working, ChaChaPrngResalt,
                BufferHasByte, ReadByte, AdvanceInLoop
  <2> QED
    BY <1>1, <2>1 DEF Taken
<1>6. ASSUME NEW t \in Threads, Return(t) PROVE Stream!Next
  <2>1. PICK length \in Lengths : length = need[t]
    BY <1>0 DEF TypeOK
  <2>2. Stream!Take(t, length)
    BY <1>6, <2>1, ReturnTakes
  <2> QED
    BY <2>2 DEF Stream!Next
<1> QED
  BY <1>2, <1>3, <1>4, <1>5, <1>6 DEF Next, Rand8Step

\* Every Rand8 and Rand64 of every thread returns the next bytes of one endless
\* stream, consecutive also over a change of salt.
THEOREM ImplementsTheStream == Spec => ImplementsStream
<1>1. Init => Stream!Init
  <2> SUFFICES ASSUME Init PROVE Stream!Init
    OBVIOUS
  <2>1. Base(salt_counter_ - 1) = 0
    BY SizeAssumption DEF Init, Base
  <2>2. Taken = 0
    BY <2>1 DEF Init, Taken, NextByte
  <2>3. \A t \in Threads : DOMAIN result[t] = {}
    <3>1. DOMAIN <<>> = {}
      OBVIOUS
    <3> QED
      BY <3>1 DEF Init
  <2>4. ASSUME NEW t \in Threads
        PROVE  [i \in DOMAIN result[t] |-> Place(result[t][i])] = <<>>
    BY <2>3
  <2> QED
    BY <2>2, <2>4 DEF Stream!Init
<1> QED
  BY <1>1, StreamRefines, StreamInvariant, PTL
     DEF Spec, ImplementsStream, Stream!Spec
=============================================================================
