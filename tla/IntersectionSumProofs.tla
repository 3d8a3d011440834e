------------------------ MODULE IntersectionSumProofs ------------------------
(***************************************************************************)
(* Proofs about IntersectionSum, for every set of clients and identifiers. *)
(*                                                                         *)
(* TypeCorrect and NeverOvercounts hold however handlers overlap and       *)
(* however often the server is restarted.  The other theorems assume that  *)
(* calls do not overlap, and those after SessionInvariant that the server  *)
(* is not restarted either: the runs overlap_result and restart_round show *)
(* what happens otherwise.                                                 *)
(***************************************************************************)
EXTENDS IntersectionSum, TLAPS

\* The program starts in a state of the right type.
LEMMA TypeCorrectInit == Init => TypeOK
BY ModeAssumption DEF Init, TypeOK, ClientPC, CallPC, Working, Element

\* Every step of a client, of a handler or of the server process keeps the types.
LEMMA TypeCorrectStep == TypeOK /\ [Next]_vars => TypeOK'
<1> SUFFICES ASSUME TypeOK, [Next]_vars PROVE TypeOK'
  OBVIOUS
<1> USE DEF TypeOK, ClientPC, CallPC, Working, Waiting, HandlerAt, Begins,
            clientVars, handlerVars, serverVars
<1>1. CASE UNCHANGED vars
  BY <1>1 DEF vars
<1>2. ASSUME NEW c \in Clients, ClientStep(c) PROVE TypeOK'
  BY <1>2 DEF ClientStep, ClientReads, StartProtocol, ReceiveRoundOne,
              ReEncryptSet, DecryptResult, ReceiveError, ClientExits, Invoke
<1>3. ASSUME NEW c \in Clients, AcceptStep(c) PROVE TypeOK'
  BY <1>3, DataAssumption
     DEF AcceptStep, EncryptSetTwice, EncryptSet, ComputeBeforeEncrypt,
         ComputeIntersection
<1>4. Die => TypeOK'
  BY DEF Die
<1>5. ASSUME NEW c \in Clients, HandlerStep(c) PROVE TypeOK'
  <2>1. CASE \/ CreateWithNewKeyFails(c) \/ InstallCipher(c)
             \/ EncryptFails(c) \/ SendRoundOne(c)
             \/ ComputeIntersectionFails(c)
    BY <2>1, DataAssumption
       DEF CreateWithNewKeyFails, InstallCipher, EncryptFails, SendRoundOne,
           ComputeIntersectionFails
  <2>2. CASE SendRoundTwo(c)
    <3>1. SetIntersection(enc[c], received[c]) \in SUBSET Ids
      BY DEF SetIntersection, Element
    <3> QED
      BY <2>2, <3>1 DEF SendRoundTwo
  <2>3. CASE NullDereference(c)
    BY <2>3, <1>4 DEF NullDereference
  <2>4. ASSUME NEW id \in Ids, Encrypt(c, id) \/ ReEncrypt(c, id) \/ EncryptWithFreedCipher(c, id)
        PROVE TypeOK'
    <3>1. ec_cipher_ \in Clients => <<id, ec_cipher_>> \in Element
      BY DEF Element
    <3> QED
      BY <2>4, <3>1 DEF Encrypt, ReEncrypt, EncryptOne, EncryptWithFreedCipher
  <2> QED
    BY <1>5, <2>1, <2>2, <2>3, <2>4 DEF HandlerStep
<1>6. CASE RunServer
  BY <1>6, ModeAssumption DEF RunServer
<1> QED
  BY <1>1, <1>2, <1>3, <1>4, <1>5, <1>6 DEF Next

\* The state has the types of the fields and messages it stands for, and the
\* server's protocol_finished_ is never set, by any handler in any order.
THEOREM TypeCorrect == Spec => []TypeOK
BY TypeCorrectInit, TypeCorrectStep, PTL DEF Spec

-----------------------------------------------------------------------------

\* The sets that travel are the ones of the parties that sent them, under whatever
\* keys: what two of them have in common under one key is in both files.
THEOREM OvercountInvariant == Spec => []OvercountInv
<1> USE DEF OvercountInv, NoOvercount, LoopInv
<1>1. Init => OvercountInv
  BY TypeCorrectInit DEF Init
<1>2. OvercountInv /\ [Next]_vars => OvercountInv'
  <2> SUFFICES ASSUME OvercountInv, [Next]_vars PROVE OvercountInv'
    OBVIOUS
  <2>0. TypeOK /\ TypeOK'
    BY TypeCorrectStep
  <2> USE <2>0 DEF TypeOK, HandlerAt, Begins, clientVars, handlerVars, serverVars
  <2>1. CASE UNCHANGED vars
    BY <2>1 DEF vars
  <2>2. ASSUME NEW c \in Clients, ClientStep(c) PROVE OvercountInv'
    BY <2>2 DEF ClientStep, ClientReads, StartProtocol, ReceiveRoundOne,
                ReEncryptSet, DecryptResult, ReceiveError, ClientExits, Invoke
  <2>3. ASSUME NEW c \in Clients, AcceptStep(c) PROVE OvercountInv'
    BY <2>3 DEF AcceptStep, EncryptSetTwice, EncryptSet, ComputeBeforeEncrypt,
                ComputeIntersection
  <2>4. Die => OvercountInv'
    BY DEF Die
  <2>5. ASSUME NEW c \in Clients, HandlerStep(c) PROVE OvercountInv'
    <3>1. CASE \/ CreateWithNewKeyFails(c) \/ InstallCipher(c)
               \/ EncryptFails(c) \/ SendRoundOne(c)
               \/ ComputeIntersectionFails(c)
      BY <3>1
         DEF CreateWithNewKeyFails, InstallCipher, EncryptFails, SendRoundOne,
             ComputeIntersectionFails
    <3>2. CASE SendRoundTwo(c)
      <4>1. /\ enc[c] \in SUBSET (ClientIds[c] \X Clients)
            /\ received[c] \in SUBSET (ServerIds \X Clients)
        BY <3>2 DEF SendRoundTwo
      <4>2. SetIntersection(enc[c], received[c]) \subseteq ClientIds[c] \cap ServerIds
        BY <4>1 DEF SetIntersection
      <4>3. SetIntersection(enc[c], received[c]) \subseteq Common[c]
        BY <4>2 DEF Common
      <4> QED
        BY <3>2, <4>3 DEF SendRoundTwo
    <3>3. CASE NullDereference(c)
      BY <3>3, <2>4 DEF NullDereference
    <3>4. ASSUME NEW id \in Ids, Encrypt(c, id) \/ ReEncrypt(c, id) \/ EncryptWithFreedCipher(c, id)
          PROVE OvercountInv'
      BY <3>4 DEF Encrypt, ReEncrypt, EncryptOne, EncryptWithFreedCipher
    <3> QED
      BY <2>5, <3>1, <3>2, <3>3, <3>4 DEF HandlerStep
  <2>6. CASE RunServer
    BY <2>6 DEF RunServer
  <2> QED
    BY <2>1, <2>2, <2>3, <2>4, <2>5, <2>6 DEF Next
<1> QED
  BY <1>1, <1>2, PTL DEF Spec

\* However handlers interleave and the server restarts, no client is answered
\* with an identifier that is not in both sets.
THEOREM NeverOvercounts == Spec => []NoOvercount
<1>1. OvercountInv => NoOvercount
  BY DEF OvercountInv, NoOvercount
<1> QED
  BY <1>1, OvercountInvariant, PTL

-----------------------------------------------------------------------------
(* Calls that do not overlap *)

\* Two sets, each under one key, have their identifiers in common under the same
\* key and nothing under different ones.
LEMMA SetIntersectionUnderKeys ==
  ASSUME NEW A, NEW B, NEW k, NEW l
  PROVE  /\ k = l => SetIntersection(Under(A, k), Under(B, l)) = A \cap B
         /\ k # l => SetIntersection(Under(A, k), Under(B, l)) = {}
<1>1. ASSUME k = l PROVE SetIntersection(Under(A, k), Under(B, l)) = A \cap B
  <2>1. Under(A, k) \cap Under(B, l) = Under(A \cap B, k)
    BY <1>1 DEF Under
  <2>2. \A id \in A \cap B : \E e \in Under(A \cap B, k) : id = e[1]
    <3> TAKE id \in A \cap B
    <3>1. <<id, k>> \in Under(A \cap B, k)
      BY DEF Under
    <3> WITNESS <<id, k>> \in Under(A \cap B, k)
    <3> QED
      OBVIOUS
  <2>3. \A e \in Under(A \cap B, k) : e[1] \in A \cap B
    BY DEF Under
  <2> QED
    BY <2>1, <2>2, <2>3 DEF SetIntersection
<1>2. ASSUME k # l PROVE SetIntersection(Under(A, k), Under(B, l)) = {}
  BY <1>2 DEF SetIntersection, Under
<1> QED
  BY <1>1, <1>2

\* When a client's sets are compared, what is found is the intersection under the
\* key of its own session, and nothing under the key of another.
LEMMA AnswerUnderKey ==
  ASSUME NEW c \in Clients, SerialInv, call[c] = "reencrypt", todo[c] = {}
  PROVE  SetIntersection(enc[c], received[c])
           = IF ec_cipher_ = c THEN Common[c] ELSE {}
<1> DEFINE found == SetIntersection(Under(ClientIds[c], ec_cipher_),
                                    Under(ServerIds, c))
<1>1. ec_cipher_ = c => found = ClientIds[c] \cap ServerIds
  BY SetIntersectionUnderKeys, Zenon
<1>2. ec_cipher_ # c => found = {}
  BY SetIntersectionUnderKeys
<1>3. found = IF ec_cipher_ = c THEN Common[c] ELSE {}
  BY <1>1, <1>2 DEF Common
<1>4. ClientIds[c] \ todo[c] = ClientIds[c]
  OBVIOUS
<1>5. /\ enc[c] = Under(ClientIds[c], ec_cipher_)
      /\ received[c] = Under(ServerIds, c)
  BY <1>4 DEF SerialInv, HandlerInv, ReceivedInv
<1> QED
  BY <1>3, <1>5, Zenon

\* Before any call, the invariant of calls that do not overlap holds.
LEMMA SerialInit == Init => SerialInv
BY TypeCorrectInit
   DEF Init, SerialInv, OneHandler, DownInv, CallInv, HandlerInv, ReceivedInv,
       MatchedInv, Working

\* When calls do not overlap, each step of a client, of the one handler at work
\* or of the server process keeps that invariant, restarts included.
LEMMA SerialStep == ~Overlap /\ SerialInv /\ [Next]_vars => SerialInv'
<1> SUFFICES ASSUME ~Overlap, SerialInv, [Next]_vars PROVE SerialInv'
  OBVIOUS
<1>0. TypeOK /\ TypeOK'
  BY TypeCorrectStep DEF SerialInv
<1> USE <1>0, SymbolAssumption
    DEF SerialInv, OneHandler, DownInv, CallInv, HandlerInv, ReceivedInv,
        MatchedInv, Under, TypeOK, Working, Waiting, HandlerAt, Begins,
        clientVars, handlerVars, serverVars
<1>1. CASE UNCHANGED vars
  BY <1>1 DEF vars
<1>2. ASSUME NEW c \in Clients, ClientStep(c) PROVE SerialInv'
  <2>1. CASE StartProtocol(c)
    BY <2>1 DEF StartProtocol, Invoke
  <2>2. CASE ReEncryptSet(c)
    BY <2>2 DEF ReEncryptSet, Invoke
  <2>3. CASE ReceiveRoundOne(c)
    BY <2>3 DEF ReceiveRoundOne
  <2>4. CASE DecryptResult(c) \/ ReceiveError(c) \/ ClientExits(c)
    BY <2>4 DEF DecryptResult, ReceiveError, ClientExits
  <2> QED
    BY <1>2, <2>1, <2>2, <2>3, <2>4 DEF ClientStep, ClientReads
<1>3. ASSUME NEW c \in Clients, AcceptStep(c) PROVE SerialInv'
  <2>1. CASE EncryptSetTwice(c) \/ ComputeBeforeEncrypt(c)
    BY <2>1 DEF EncryptSetTwice, ComputeBeforeEncrypt
  <2>2. CASE EncryptSet(c)
    BY <2>2 DEF EncryptSet
  <2>3. CASE ComputeIntersection(c)
    BY <2>3 DEF ComputeIntersection
  <2> QED
    BY <1>3, <2>1, <2>2, <2>3 DEF AcceptStep
<1>4. Die => SerialInv'
  BY DEF Die
<1>5. ASSUME NEW c \in Clients, HandlerStep(c) PROVE SerialInv'
  <2>1. CASE \/ CreateWithNewKeyFails(c) \/ EncryptFails(c) \/ SendRoundOne(c)
             \/ ComputeIntersectionFails(c)
    BY <2>1 DEF CreateWithNewKeyFails, EncryptFails, SendRoundOne,
                ComputeIntersectionFails
  <2>2. CASE InstallCipher(c)
    BY <2>2 DEF InstallCipher
  <2>3. CASE SendRoundTwo(c)
    <3>1. SetIntersection(enc[c], received[c]) \in {{}, Common[c]}
      <4> HIDE DEF SerialInv
      <4> QED
        BY <2>3, AnswerUnderKey DEF SendRoundTwo
    <3>2. matched' = [matched EXCEPT ![c] = SetIntersection(enc[c], received[c])]
      BY <2>3 DEF SendRoundTwo
    <3>3. /\ matched'[c] \in {{}, Common[c]}
          /\ matched'[c] # NoResult
          /\ \A d \in Clients \ {c} : matched'[d] = matched[d]
      BY <3>1, <3>2, DataAssumption DEF Common
    <3> HIDE DEF MatchedInv
    <3>4. \A d \in Clients : MatchedInv(d)'
      BY <2>3, <3>3 DEF SendRoundTwo, MatchedInv
    <3> QED
      BY <2>3, <3>4 DEF SendRoundTwo
  <2>4. CASE NullDereference(c)
    BY <2>4, <1>4 DEF NullDereference
  <2>5. ASSUME NEW id \in Ids, Encrypt(c, id) \/ ReEncrypt(c, id) \/ EncryptWithFreedCipher(c, id)
        PROVE SerialInv'
    BY <2>5 DEF Encrypt, ReEncrypt, EncryptOne, EncryptWithFreedCipher
  <2> QED
    BY <1>5, <2>1, <2>2, <2>3, <2>4, <2>5 DEF HandlerStep
<1>6. CASE RunServer
  BY <1>6 DEF RunServer
<1> QED
  BY <1>1, <1>2, <1>3, <1>4, <1>5, <1>6 DEF Next

\* Calls that do not overlap find the handler, the key and both encrypted sets in
\* step: SerialInv is inductive, whatever fails and however often the server is
\* restarted.
THEOREM SerialInvariant == ASSUME ~Overlap PROVE Spec => []SerialInv
BY SerialInit, SerialStep, PTL DEF Spec

\* Whether or not the server was restarted in the middle of a session, a client
\* prints the whole intersection or an empty one.
THEOREM PrintsAllOrNothing == ASSUME ~Overlap PROVE Spec => []AllOrNothing
<1>1. SerialInv => AllOrNothing
  BY DEF SerialInv, MatchedInv, AllOrNothing
<1> QED
  BY <1>1, SerialInvariant, PTL

\* No two sessions give out the server's set under the same key.
THEOREM KeysAreFresh == ASSUME ~Overlap PROVE Spec => []FreshKeyPerSession
<1>1. SerialInv => FreshKeyPerSession
  BY DEF SerialInv, ReceivedInv, FreshKeyPerSession, Under
<1> QED
  BY <1>1, SerialInvariant, PTL

\* EncryptSet never overwrites a key that is in use.
THEOREM KeysAreNotReplaced == ASSUME ~Overlap PROVE Spec => LiveKeyKept
<1>1. SerialInv /\ [Next]_vars =>
        [ec_cipher_ # NoCipher /\ ec_cipher_' # ec_cipher_
           => ec_cipher_' = NoCipher]_vars
  <2> SUFFICES ASSUME SerialInv, Next, ec_cipher_ # NoCipher,
                      ec_cipher_' # ec_cipher_
               PROVE  ec_cipher_' = NoCipher
    OBVIOUS
  <2> USE DEF serverVars
  <2>1. ASSUME NEW c \in Clients, ClientStep(c) PROVE FALSE
    BY <2>1 DEF ClientStep, ClientReads, StartProtocol, ReceiveRoundOne,
                ReEncryptSet, DecryptResult, ReceiveError, ClientExits
  <2>2. ASSUME NEW c \in Clients, AcceptStep(c) PROVE FALSE
    BY <2>2 DEF AcceptStep, EncryptSetTwice, EncryptSet, ComputeBeforeEncrypt,
                ComputeIntersection
  <2>3. ASSUME NEW c \in Clients, HandlerStep(c) PROVE ec_cipher_' = NoCipher
    <3>1. ~InstallCipher(c)
      BY DEF InstallCipher, SerialInv, HandlerInv
    <3> QED
      BY <2>3, <3>1
         DEF HandlerStep, CreateWithNewKeyFails, EncryptFails, SendRoundOne,
             ComputeIntersectionFails, SendRoundTwo, NullDereference, Die,
             Encrypt, ReEncrypt, EncryptOne, EncryptWithFreedCipher
  <2> QED
    BY <2>1, <2>2, <2>3 DEF Next, Die, RunServer
<1> QED
  BY <1>1, SerialInvariant, PTL DEF Spec, LiveKeyKept

-----------------------------------------------------------------------------
(* A session until a restart *)

\* Before any call, no client has an answer or holds a key.
LEMMA SessionInit == Init => SessionInv
BY SerialInit DEF Init, SessionInv, KeyInv

\* Only RunServer counts a restart, and it takes none back.
LEMMA RestartsCounted ==
  ASSUME TypeOK, [Next]_vars, restarts' = 0
  PROVE  restarts = 0
<1>1. restarts \in Nat
  BY ModeAssumption DEF TypeOK
<1>2. restarts' = restarts \/ restarts' = restarts + 1
  <2> USE DEF clientVars, handlerVars, serverVars
  <2>1. ASSUME NEW c \in Clients, ClientStep(c) PROVE restarts' = restarts
    BY <2>1 DEF ClientStep, ClientReads, StartProtocol, ReceiveRoundOne,
                ReEncryptSet, DecryptResult, ReceiveError, ClientExits
  <2>2. ASSUME NEW c \in Clients, AcceptStep(c) PROVE restarts' = restarts
    BY <2>2 DEF AcceptStep, EncryptSetTwice, EncryptSet, ComputeBeforeEncrypt,
                ComputeIntersection
  <2>3. ASSUME NEW c \in Clients, HandlerStep(c) PROVE restarts' = restarts
    BY <2>3 DEF HandlerStep, CreateWithNewKeyFails, InstallCipher, EncryptFails,
                SendRoundOne, ComputeIntersectionFails, SendRoundTwo,
                NullDereference, Die, Encrypt, ReEncrypt, EncryptOne,
                EncryptWithFreedCipher
  <2> QED
    BY <2>1, <2>2, <2>3 DEF Next, Die, RunServer, vars
<1> QED
  BY <1>1, <1>2

\* Without overlap and until a restart, no step takes a key from a client that waits
\* for the answer it is needed for.
LEMMA SessionStep ==
  ~Overlap /\ SessionInv /\ [Next]_vars => SessionInv'
<1> SUFFICES ASSUME ~Overlap, SessionInv, [Next]_vars, restarts' = 0
             PROVE  \A c \in Clients : KeyInv(c)'
  BY SerialStep DEF SessionInv
<1>0. /\ SerialInv /\ TypeOK
      /\ \A c \in Clients : KeyInv(c)
  <2>1. SerialInv /\ TypeOK
    BY DEF SessionInv, SerialInv
  <2> QED
    BY <2>1, RestartsCounted DEF SessionInv
<1> USE <1>0, SymbolAssumption
    DEF KeyInv, SerialInv, CallInv, HandlerInv, TypeOK, HandlerAt, Begins,
        Waiting, clientVars, handlerVars, serverVars
<1>1. CASE UNCHANGED vars
  BY <1>1 DEF vars
<1>2. ASSUME NEW d \in Clients, ClientStep(d)
      PROVE  \A c \in Clients : KeyInv(c)'
  BY <1>2 DEF ClientStep, ClientReads, StartProtocol, ReceiveRoundOne,
              ReEncryptSet, DecryptResult, ReceiveError, ClientExits, Invoke
<1>3. ASSUME NEW d \in Clients, AcceptStep(d)
      PROVE  \A c \in Clients : KeyInv(c)'
  BY <1>3 DEF AcceptStep, EncryptSetTwice, EncryptSet, ComputeBeforeEncrypt,
              ComputeIntersection
<1>4. Die => \A c \in Clients : KeyInv(c)'
  BY DEF Die
<1>5. ASSUME NEW d \in Clients, HandlerStep(d)
      PROVE  \A c \in Clients : KeyInv(c)'
  <2>1. CASE \/ CreateWithNewKeyFails(d) \/ EncryptFails(d) \/ SendRoundOne(d)
             \/ ComputeIntersectionFails(d)
    BY <2>1 DEF CreateWithNewKeyFails, EncryptFails, SendRoundOne,
                ComputeIntersectionFails
  <2>2. CASE InstallCipher(d)
    BY <2>2 DEF InstallCipher
  <2>3. CASE SendRoundTwo(d)
    <3>1. call[d] = "reencrypt" /\ todo[d] = {} /\ up
      BY <2>3 DEF SendRoundTwo, DownInv
    <3>2. ec_cipher_ = d
      BY <3>1
    <3>3. SetIntersection(enc[d], received[d]) = Common[d]
      <4> HIDE DEF SerialInv
      <4> QED
        BY <3>1, <3>2, AnswerUnderKey
    <3> QED
      BY <2>3, <3>2, <3>3 DEF SendRoundTwo
  <2>4. CASE NullDereference(d)
    BY <2>4, <1>4 DEF NullDereference
  <2>5. ASSUME NEW id \in Ids, Encrypt(d, id) \/ ReEncrypt(d, id) \/ EncryptWithFreedCipher(d, id)
        PROVE  \A c \in Clients : KeyInv(c)'
    BY <2>5 DEF Encrypt, ReEncrypt, EncryptOne, EncryptWithFreedCipher
  <2> QED
    BY <1>5, <2>1, <2>2, <2>3, <2>4, <2>5 DEF HandlerStep
<1>6. ~RunServer
  <2>1. restarts \in Nat
    BY ModeAssumption
  <2> QED
    BY <2>1 DEF RunServer
<1> QED
  BY <1>1, <1>2, <1>3, <1>4, <1>5, <1>6 DEF Next

\* However often the server is restarted, calls that do not overlap are in step with
\* the handler and the keys; and until it is restarted for the first time, a session
\* keeps its key until its answer.
THEOREM SessionInvariant == ASSUME ~Overlap PROVE Spec => []SessionInv
BY SessionInit, SessionStep, PTL DEF Spec

\* Of a server that is not restarted, a client that prints an intersection prints the
\* right one.
THEOREM PrintsExactly ==
  ASSUME ~Overlap, MaxRestarts = 0 PROVE Spec => []ResultExact
<1>1. SessionInv => ResultExact
  BY ModeAssumption
     DEF SessionInv, SerialInv, TypeOK, MatchedInv, KeyInv, ResultExact
<1> QED
  BY <1>1, SessionInvariant, PTL

\* The key of a client that waits for its answer is the server's key.
THEOREM KeyIsHeld ==
  ASSUME ~Overlap, MaxRestarts = 0 PROVE Spec => []HeldKeyIsLive
<1>1. SessionInv => HeldKeyIsLive
  BY ModeAssumption
     DEF SessionInv, SerialInv, TypeOK, KeyInv, HeldKeyIsLive, HoldsRoundOne
<1> QED
  BY <1>1, SessionInvariant, PTL

-----------------------------------------------------------------------------
(* The server is the ideal service *)

\* The initial state of the protocol is the initial state of the ideal service.
LEMMA IdealInit == Init => Ideal!Init
BY DEF Init, Ideal!Init

\* A step of the protocol opens, answers, reports or loses a session of the ideal
\* service, or leaves it as it is.
LEMMA IdealStep ==
  ~Overlap /\ MaxRestarts = 0 /\ SessionInv /\ [Next]_vars
    => [Ideal!Next]_(Ideal!idealVars)
<1> SUFFICES ASSUME ~Overlap, MaxRestarts = 0, SessionInv, [Next]_vars
             PROVE  Ideal!Next \/ UNCHANGED Ideal!idealVars
  OBVIOUS
<1>0. /\ SerialInv /\ TypeOK /\ restarts = 0
      /\ \A c \in Clients : KeyInv(c)
  BY ModeAssumption DEF SessionInv, SerialInv, TypeOK
<1> USE <1>0 DEF Ideal!idealVars, TypeOK, HandlerAt, Begins, Waiting,
                 clientVars, handlerVars, serverVars
<1>1. CASE UNCHANGED vars
  BY <1>1 DEF vars
<1>2. ASSUME NEW c \in Clients, ClientStep(c)
      PROVE  Ideal!Next \/ UNCHANGED Ideal!idealVars
  <2>1. CASE DecryptResult(c)
    <3>1. matched[c] # NoResult
      BY <2>1 DEF DecryptResult, SerialInv, MatchedInv
    <3>2. {d \in Clients : pc'[d] = "done"}
            = {d \in Clients : pc[d] = "done"} \cup {c}
      BY <2>1 DEF DecryptResult
    <3>3. Ideal!Report(c)
      BY <2>1, <3>1, <3>2 DEF DecryptResult, Ideal!Report
    <3> QED
      BY <3>3 DEF Ideal!Next
  <2>2. CASE \/ StartProtocol(c) \/ ReEncryptSet(c) \/ ReceiveRoundOne(c)
             \/ ReceiveError(c) \/ ClientExits(c)
    <3>1. {d \in Clients : pc'[d] = "done"} = {d \in Clients : pc[d] = "done"}
      BY <2>2 DEF StartProtocol, ReEncryptSet, ReceiveRoundOne, ReceiveError,
                  ClientExits
    <3> QED
      BY <2>2, <3>1 DEF StartProtocol, ReEncryptSet, ReceiveRoundOne,
                        ReceiveError, ClientExits
  <2> QED
    BY <1>2, <2>1, <2>2 DEF ClientStep, ClientReads
<1>3. ASSUME NEW c \in Clients, AcceptStep(c)
      PROVE  UNCHANGED Ideal!idealVars
  BY <1>3 DEF AcceptStep, EncryptSetTwice, EncryptSet, ComputeBeforeEncrypt,
              ComputeIntersection
<1>4. Die => Ideal!Lose \/ UNCHANGED Ideal!idealVars
  BY DEF Die, Ideal!Lose
<1>5. ASSUME NEW c \in Clients, HandlerStep(c)
      PROVE  Ideal!Next \/ UNCHANGED Ideal!idealVars
  <2>1. CASE InstallCipher(c)
    <3>1. Ideal!Open(c)
      BY <2>1 DEF InstallCipher, SerialInv, HandlerInv, Ideal!Open
    <3> QED
      BY <3>1 DEF Ideal!Next
  <2>2. CASE SendRoundTwo(c)
    <3>1. call[c] = "reencrypt" /\ todo[c] = {} /\ up
      BY <2>2 DEF SendRoundTwo, SerialInv, DownInv
    <3>2. ec_cipher_ = c
      BY <3>1 DEF KeyInv
    <3>3. SetIntersection(enc[c], received[c]) = Common[c]
      BY <3>1, <3>2, AnswerUnderKey
    <3>4. Ideal!Answer(c)
      BY <2>2, <3>2, <3>3 DEF SendRoundTwo, Ideal!Answer
    <3> QED
      BY <3>4 DEF Ideal!Next
  <2>3. CASE \/ CreateWithNewKeyFails(c) \/ EncryptFails(c) \/ SendRoundOne(c)
             \/ ComputeIntersectionFails(c)
    BY <2>3 DEF CreateWithNewKeyFails, EncryptFails, SendRoundOne,
                ComputeIntersectionFails
  <2>4. CASE NullDereference(c)
    BY <2>4, <1>4 DEF NullDereference, Ideal!Next
  <2>5. ASSUME NEW id \in Ids, Encrypt(c, id) \/ ReEncrypt(c, id) \/ EncryptWithFreedCipher(c, id)
        PROVE  UNCHANGED Ideal!idealVars
    BY <2>5 DEF Encrypt, ReEncrypt, EncryptOne, EncryptWithFreedCipher
  <2> QED
    BY <1>5, <2>1, <2>2, <2>3, <2>4, <2>5 DEF HandlerStep
<1>6. CASE RunServer
  BY <1>6 DEF RunServer
<1> QED
  BY <1>1, <1>2, <1>3, <1>4, <1>5, <1>6 DEF Next, Ideal!Next

\* When calls do not overlap and the server is not restarted, the protocol is
\* the ideal service, under the mapping of the module IntersectionSum.
THEOREM Implements ==
  ASSUME ~Overlap, MaxRestarts = 0 PROVE Spec => ImplementsIdeal
BY IdealInit, IdealStep, SessionInvariant, PTL
   DEF Spec, ImplementsIdeal, Ideal!Spec
=============================================================================
