--------------------------- MODULE IntersectionSum ---------------------------
(***************************************************************************)
(* The two-round intersection-sum protocol between one server process and  *)
(* several runs of the client program.                                     *)
(*                                                                         *)
(* A run of the client makes two blocking gRPC calls, StartProtocol and    *)
(* ClientRoundOne, and exits.  gRPC serves each call on a thread of its    *)
(* own, and PrivateJoinAndComputeRpcImpl::Handle takes no lock: what the   *)
(* server keeps between the two calls of a client is the one pointer       *)
(* ec_cipher_, which every call reads and replaces.  A client has at most  *)
(* one call outstanding, so a call, and the thread that serves it, are     *)
(* named by the client that made it.                                       *)
(*                                                                         *)
(* Ciphertexts are symbolic.  A commutative cipher is named by the client  *)
(* whose StartProtocol created it; an element encrypted under it is the    *)
(* pair of the identifier and that name.  The client's own cipher is on    *)
(* both sides of the comparison the server makes, and is left implicit.    *)
(***************************************************************************)
EXTENDS Naturals

CONSTANTS
  Clients,        \* runs of the client program
  Ids,            \* identifiers
  ServerIds,      \* inputs_ of the server, without repetition
  ClientIds,      \* ClientIds[c]: elements_ of client c, without repetition
  NoCipher,       \* ec_cipher_ == nullptr
  NoResult,       \* the server has computed nothing for a client
  Overlap,        \* TRUE: gRPC runs handlers side by side, as it may.
                  \* FALSE: calls happen to arrive one at a time.
  MaxRestarts     \* how often a dead server process is started again

ASSUME DataAssumption ==
  /\ ServerIds \subseteq Ids
  /\ ClientIds \in [Clients -> SUBSET Ids]

ASSUME SymbolAssumption ==
  /\ NoCipher \notin Clients
  /\ \A S \in SUBSET Ids : NoResult # S

ASSUME ModeAssumption == Overlap \in BOOLEAN /\ MaxRestarts \in Nat

VARIABLES
  pc,                \* where ExecuteProtocol of each client is
  received,          \* the encrypted set of ServerRoundOne, once read
  call,              \* how far the outstanding gRPC call of a client is
  todo,              \* elements the handler's loop has still to encrypt
  enc,               \* elements it has encrypted, each with its key
  matched,           \* intersection computed for a client, or NoResult
  ec_cipher_,
  protocol_finished_,
  up,                \* the server process is running
  restarts           \* times RunServer was started again

clientVars == <<pc, received>>
handlerVars == <<todo, enc, matched>>
serverVars == <<ec_cipher_, protocol_finished_, up, restarts>>
vars == <<clientVars, call, handlerVars, serverVars>>

-----------------------------------------------------------------------------

\* "idle": not started. "done": exit code 0, output printed. "failed": exited
\* in any other way.
ClientPC == {"idle", "wait_one", "have_one", "wait_two", "done", "failed"}
Waiting == {"wait_one", "wait_two"}

\* A call: "none", a request under way, a handler's position, a reply under way.
Working == {"keygen", "encrypt", "reencrypt"}
CallPC == {"none", "start", "round_one"} \cup Working
            \cup {"reply_one", "reply_two", "error"}

Element == Ids \X Clients

TypeOK ==
  /\ pc \in [Clients -> ClientPC]
  /\ received \in [Clients -> SUBSET Element]
  /\ call \in [Clients -> CallPC]
  /\ todo \in [Clients -> SUBSET Ids]
  /\ enc \in [Clients -> SUBSET Element]
  /\ matched \in [Clients -> (SUBSET Ids) \cup {NoResult}]
  /\ ec_cipher_ \in Clients \cup {NoCipher}
  /\ protocol_finished_ = FALSE
  /\ up \in BOOLEAN
  /\ restarts \in 0 .. MaxRestarts

Init ==
  /\ pc = [c \in Clients |-> "idle"]
  /\ received = [c \in Clients |-> {}]
  /\ call = [c \in Clients |-> "none"]
  /\ todo = [c \in Clients |-> {}]
  /\ enc = [c \in Clients |-> {}]
  /\ matched = [c \in Clients |-> NoResult]
  /\ ec_cipher_ = NoCipher
  /\ protocol_finished_ = FALSE
  /\ up = TRUE
  /\ restarts = 0

-----------------------------------------------------------------------------
(* The client program *)

\* A unary call of the stub: with no server behind the port it fails at once.
Invoke(c, request) ==
  call' = [call EXCEPT ![c] = IF up THEN request ELSE "error"]

StartProtocol(c) ==
  /\ pc[c] = "idle"
  /\ pc' = [pc EXCEPT ![c] = "wait_one"]
  /\ Invoke(c, "start")
  /\ UNCHANGED <<received, handlerVars, serverVars>>

\* The call returns OK and ExecuteProtocol copies last_server_response().
ReceiveRoundOne(c) ==
  /\ pc[c] = "wait_one" /\ call[c] = "reply_one"
  /\ pc' = [pc EXCEPT ![c] = "have_one"]
  /\ received' = [received EXCEPT ![c] = enc[c]]
  /\ call' = [call EXCEPT ![c] = "none"]
  /\ UNCHANGED <<handlerVars, serverVars>>

\* Handle(server_round_one): the set is re-encrypted, sorted and sent back with
\* the client's own.
ReEncryptSet(c) ==
  /\ pc[c] = "have_one"
  /\ pc' = [pc EXCEPT ![c] = "wait_two"]
  /\ Invoke(c, "round_one")
  /\ UNCHANGED <<received, handlerVars, serverVars>>

\* Handle(server_round_two), then PrintOutput.
DecryptResult(c) ==
  /\ pc[c] = "wait_two" /\ call[c] = "reply_two"
  /\ pc' = [pc EXCEPT ![c] = "done"]
  /\ call' = [call EXCEPT ![c] = "none"]
  /\ UNCHANGED <<received, handlerVars, serverVars>>

\* Faulty variant: a client that is refused calls StartProtocol again, forever.
ReceiveErrorRetries(c) ==
  /\ pc[c] \in Waiting /\ call[c] = "error"
  /\ pc' = [pc EXCEPT ![c] = "wait_one"]
  /\ Invoke(c, "start")
  /\ UNCHANGED <<received, handlerVars, serverVars>>

\* The call returns an error: every error path of ExecuteProtocol exits.
ReceiveError(c) ==
  /\ pc[c] \in Waiting /\ call[c] = "error"
  /\ pc' = [pc EXCEPT ![c] = "failed"]
  /\ call' = [call EXCEPT ![c] = "none"]
  /\ UNCHANGED <<received, handlerVars, serverVars>>

\* The client exits early: killed, its connection lost, or an encryption or
\* decryption of its own failed.  Nothing tells the server, where the call it
\* had outstanding, if any, goes on.
ClientExits(c) ==
  /\ pc[c] \in Waiting \cup {"have_one"}
  /\ pc' = [pc EXCEPT ![c] = "failed"]
  /\ UNCHANGED <<received, call, handlerVars, serverVars>>

-----------------------------------------------------------------------------
(* The server: Handle of a StartProtocolRequest *)

\* A handler for a request of this kind begins: the protocol is not finished,
\* and unless handlers overlap no other is at work.
Begins(c, request) ==
  /\ call[c] = request
  /\ ~protocol_finished_
  /\ Overlap \/ \A d \in Clients : call[d] \notin Working

HandlerAt(c, next) == call' = [call EXCEPT ![c] = next]

\* Faulty variant: a second start gives up the session of the first.
EncryptSetTwiceResets(c) ==
  /\ Begins(c, "start")
  /\ ec_cipher_ # NoCipher
  /\ HandlerAt(c, "error")
  /\ ec_cipher_' = NoCipher
  /\ UNCHANGED <<clientVars, handlerVars, protocol_finished_, up, restarts>>

EncryptSetTwice(c) ==
  /\ Begins(c, "start")
  /\ ec_cipher_ # NoCipher
  /\ HandlerAt(c, "error")
  /\ UNCHANGED <<clientVars, handlerVars, serverVars>>

\* Faulty variant: EncryptSet without its test of ec_cipher_.
EncryptSetUnchecked(c) ==
  /\ Begins(c, "start")
  /\ HandlerAt(c, "keygen")
  /\ UNCHANGED <<clientVars, handlerVars, serverVars>>

EncryptSet(c) ==
  /\ Begins(c, "start")
  /\ ec_cipher_ = NoCipher
  /\ HandlerAt(c, "keygen")
  /\ UNCHANGED <<clientVars, handlerVars, serverVars>>

CreateWithNewKeyFails(c) ==
  /\ call[c] = "keygen"
  /\ HandlerAt(c, "error")
  /\ UNCHANGED <<clientVars, handlerVars, serverVars>>

\* Faulty variant: the key outlives its session and is used in the next.
InstallCipherReused(c) ==
  /\ call[c] = "keygen"
  /\ HandlerAt(c, "encrypt")
  /\ ec_cipher_' = CHOOSE k \in Clients : TRUE
  /\ todo' = [todo EXCEPT ![c] = ServerIds]
  /\ enc' = [enc EXCEPT ![c] = {}]
  /\ UNCHANGED <<clientVars, matched, protocol_finished_, up, restarts>>

\* ec_cipher_ = std::move(...): whatever was there is destroyed.
InstallCipher(c) ==
  /\ call[c] = "keygen"
  /\ HandlerAt(c, "encrypt")
  /\ ec_cipher_' = c
  /\ todo' = [todo EXCEPT ![c] = ServerIds]
  /\ enc' = [enc EXCEPT ![c] = {}]
  /\ UNCHANGED <<clientVars, matched, protocol_finished_, up, restarts>>

\* One round of the loop of EncryptSet or of EncryptClientSet; each round
\* dereferences ec_cipher_ again.
EncryptOne(c, id) ==
  /\ id \in todo[c]
  /\ ec_cipher_ # NoCipher
  /\ todo' = [todo EXCEPT ![c] = @ \ {id}]
  /\ enc' = [enc EXCEPT ![c] = @ \cup {<<id, ec_cipher_>>}]
  /\ UNCHANGED <<clientVars, call, matched, serverVars>>

Encrypt(c, id) == call[c] = "encrypt" /\ EncryptOne(c, id)

\* The cipher is destroyed by another handler while it encrypts for this one:
\* the bytes that come out, if any do, equal no element of either set, and the
\* element is as good as left out.
EncryptWithFreedCipher(c, id) ==
  /\ Overlap
  /\ call[c] \in {"encrypt", "reencrypt"}
  /\ id \in todo[c]
  /\ ec_cipher_ # c
  /\ todo' = [todo EXCEPT ![c] = @ \ {id}]
  /\ UNCHANGED <<clientVars, call, enc, matched, serverVars>>

\* Encrypt returns an error: so does EncryptSet, and ec_cipher_ stays.
EncryptFails(c) ==
  /\ call[c] = "encrypt" /\ todo[c] # {}
  /\ HandlerAt(c, "error")
  /\ UNCHANGED <<clientVars, handlerVars, serverVars>>

SendRoundOne(c) ==
  /\ call[c] = "encrypt" /\ todo[c] = {}
  /\ HandlerAt(c, "reply_one")
  /\ UNCHANGED <<clientVars, handlerVars, serverVars>>

-----------------------------------------------------------------------------
(* The server: Handle of a ClientRoundOne *)

ComputeBeforeEncrypt(c) ==
  /\ Begins(c, "round_one")
  /\ ec_cipher_ = NoCipher
  /\ HandlerAt(c, "error")
  /\ UNCHANGED <<clientVars, handlerVars, serverVars>>

ComputeIntersection(c) ==
  /\ Begins(c, "round_one")
  /\ ec_cipher_ # NoCipher
  /\ HandlerAt(c, "reencrypt")
  /\ todo' = [todo EXCEPT ![c] = ClientIds[c]]
  /\ enc' = [enc EXCEPT ![c] = {}]
  /\ UNCHANGED <<clientVars, matched, serverVars>>

ReEncrypt(c, id) == call[c] = "reencrypt" /\ EncryptOne(c, id)

\* ReEncrypt or the aggregation returns an error, before ec_cipher_ is reset.
ComputeIntersectionFails(c) ==
  /\ call[c] = "reencrypt"
  /\ HandlerAt(c, "error")
  /\ UNCHANGED <<clientVars, handlerVars, serverVars>>

\* Faulty variant: the client's set is copied without looking at the server's.
SetIntersectionCopies(clientSet, serverSet) ==
  {element[1] : element \in clientSet}

\* std::set_intersection: an element of the client's set and one of the
\* server's are equal when identifier and keys are.
SetIntersection(clientSet, serverSet) ==
  {element[1] : element \in clientSet \cap serverSet}

\* Faulty variant: the loop before stops one element short.
SendRoundTwoEarly(c) ==
  /\ call[c] = "reencrypt" /\ \E id \in Ids : todo[c] \subseteq {id}
  /\ HandlerAt(c, "reply_two")
  /\ matched' = [matched EXCEPT ![c] = SetIntersection(enc[c], received[c])]
  /\ protocol_finished_' = FALSE
  /\ ec_cipher_' = NoCipher
  /\ UNCHANGED <<clientVars, todo, enc, up, restarts>>

\* Faulty variant: ec_cipher_ is not reset for the next session.
SendRoundTwoNoReset(c) ==
  /\ call[c] = "reencrypt" /\ todo[c] = {}
  /\ HandlerAt(c, "reply_two")
  /\ matched' = [matched EXCEPT ![c] = SetIntersection(enc[c], received[c])]
  /\ protocol_finished_' = FALSE
  /\ UNCHANGED <<clientVars, todo, enc, ec_cipher_, up, restarts>>

\* Faulty variant: the server finishes with its first client.
SendRoundTwoFinishes(c) ==
  /\ call[c] = "reencrypt" /\ todo[c] = {}
  /\ HandlerAt(c, "reply_two")
  /\ matched' = [matched EXCEPT ![c] = SetIntersection(enc[c], received[c])]
  /\ protocol_finished_' = TRUE
  /\ ec_cipher_' = NoCipher
  /\ UNCHANGED <<clientVars, todo, enc, up, restarts>>

\* The result is computed, ec_cipher_ reset and the reply sent.
SendRoundTwo(c) ==
  /\ call[c] = "reencrypt" /\ todo[c] = {}
  /\ HandlerAt(c, "reply_two")
  /\ matched' = [matched EXCEPT ![c] = SetIntersection(enc[c], received[c])]
  /\ protocol_finished_' = FALSE
  /\ ec_cipher_' = NoCipher
  /\ UNCHANGED <<clientVars, todo, enc, up, restarts>>

-----------------------------------------------------------------------------
(* The server process *)

\* The process is gone with all it held; every outstanding call breaks.
Die ==
  /\ up
  /\ up' = FALSE
  /\ ec_cipher_' = NoCipher
  /\ call' = [c \in Clients |-> IF call[c] = "none" THEN "none" ELSE "error"]
  /\ UNCHANGED <<clientVars, handlerVars, protocol_finished_, restarts>>

\* Another handler has reset ec_cipher_ under this one's loop.
NullDereference(c) ==
  /\ call[c] \in {"encrypt", "reencrypt"} /\ todo[c] # {}
  /\ ec_cipher_ = NoCipher
  /\ Die

RunServer ==
  /\ ~up /\ restarts < MaxRestarts
  /\ up' = TRUE
  /\ restarts' = restarts + 1
  /\ protocol_finished_' = FALSE
  /\ UNCHANGED <<clientVars, call, handlerVars, ec_cipher_>>

-----------------------------------------------------------------------------

ClientReads(c) == ReceiveRoundOne(c) \/ DecryptResult(c) \/ ReceiveError(c)

ClientStep(c) ==
  \/ StartProtocol(c)
  \/ ReEncryptSet(c)
  \/ ClientReads(c)
  \/ ClientExits(c)

AcceptStep(c) ==
  \/ EncryptSetTwice(c) \/ EncryptSet(c)
  \/ ComputeBeforeEncrypt(c) \/ ComputeIntersection(c)

HandlerStep(c) ==
  \/ CreateWithNewKeyFails(c) \/ InstallCipher(c)
  \/ EncryptFails(c) \/ SendRoundOne(c)
  \/ ComputeIntersectionFails(c) \/ SendRoundTwo(c)
  \/ NullDereference(c)
  \/ \E id \in Ids :
       Encrypt(c, id) \/ ReEncrypt(c, id) \/ EncryptWithFreedCipher(c, id)

Next ==
  \/ \E c \in Clients : ClientStep(c) \/ AcceptStep(c) \/ HandlerStep(c)
  \/ Die
  \/ RunServer

Spec == Init /\ [][Next]_vars

(***************************************************************************)
(* Fairness.  The threads of a running server and a client that has work   *)
(* to do keep running, and gRPC hands a request to a handler as long as    *)
(* the client waits for it.  Nobody has to start a client, to kill a       *)
(* process or to start the server again.                                   *)
(***************************************************************************)
Fairness ==
  \A c \in Clients :
    /\ WF_vars(HandlerStep(c))
    /\ WF_vars(pc[c] \in Waiting /\ AcceptStep(c))
    /\ WF_vars(ReEncryptSet(c))
    /\ WF_vars(ClientReads(c))

FairSpec == Spec /\ Fairness

-----------------------------------------------------------------------------
(* Correctness *)

Common == [c \in Clients |-> ServerIds \cap ClientIds[c]]

\* c has the server's set and has not been answered for it.
HoldsRoundOne(c) ==
  \/ pc[c] = "have_one"
  \/ pc[c] = "wait_two" /\ call[c] \in {"round_one", "reencrypt"}

\* A client that prints an intersection prints the one of its own set with the
\* server's, whatever the other clients did between its two calls: the key the
\* server compares under is the one it encrypted its set with.
ResultExact ==
  \A c \in Clients : pc[c] = "done" => matched[c] = Common[c]

\* As long as a client that has read ServerRoundOne is unanswered, the server
\* keeps the key of that round: no refusal, failure or answer of another
\* client's call takes it away.
HeldKeyIsLive ==
  \A c \in Clients : up /\ HoldsRoundOne(c) => ec_cipher_ = c

\* Even when the server was restarted between the two calls of a client, the
\* two sets it compares are each under one key, so that a client prints the
\* whole intersection or an empty one, never a part of it.
AllOrNothing ==
  \A c \in Clients : pc[c] = "done" => matched[c] \in {{}, Common[c]}

\* Every session has a key of its own: what two clients read of the server's
\* set are encryptions under different keys.
FreshKeyPerSession ==
  \A c, d \in Clients :
    c # d => \A e \in received[c], f \in received[d] : e[2] # f[2]

\* A key in use is dropped, by an answer or with the process, before another
\* takes its place: EncryptSet never overwrites one.
LiveKeyKept ==
  [][ec_cipher_ # NoCipher /\ ec_cipher_' # ec_cipher_
       => ec_cipher_' = NoCipher]_vars

\* However handlers interleave and the server restarts, no client is told of an
\* identifier that is not in both sets.
NoOvercount ==
  \A c \in Clients : matched[c] # NoResult => matched[c] \subseteq Common[c]

\* A client blocked in a call does not stay blocked in it: a handler waits for
\* no other, and a server that dies breaks the call.
CallsReturn ==
  \A c \in Clients : \A w \in Waiting : (pc[c] = w) ~> (pc[c] # w)

\* The server stays taken by a session only when the client of that session has
\* exited without its answer.
SessionEnds ==
  \A c \in Clients : (ec_cipher_ = c) ~> (ec_cipher_ # c \/ pc[c] = "failed")

-----------------------------------------------------------------------------
(* What the documentation says and the code does not do *)

\* README: after a successful protocol the server shuts down too, which RunServer
\* does when protocol_finished() is true.
ShutsDown ==
  (\E c \in Clients : pc[c] = "done") ~> (protocol_finished_ \/ ~up)

\* The header of the server: a message that is not of the expected round fails.
\* A ClientRoundOne is expected from the client the current key was made for.
ExpectedRoundOnly ==
  \A c \in Clients : call[c] = "reencrypt" => ec_cipher_ = c

\* "Keep Server on": a new client is turned away only while another is in its
\* session.
RefusedOnlyWhileBusy ==
  [][\A c \in Clients :
       EncryptSetTwice(c) =>
         \E d \in Clients \ {c} : pc[d] \in Waiting \cup {"have_one"}]_vars

-----------------------------------------------------------------------------
(* The ideal service: a session is the life of a key, an answer is the       *)
(* intersection computed in it.                                              *)
Ideal == INSTANCE IdealJoin WITH
           NoSession <- NoCipher,
           session <- ec_cipher_,
           answer <- matched,
           printed <- {c \in Clients : pc[c] = "done"}

\* When calls do not overlap and the server is not restarted, the server with
\* its keys, messages and failures is the ideal service: one session at a time,
\* every answer given in the session of its client, exact, and printed once.
ImplementsIdeal == Ideal!Spec

-----------------------------------------------------------------------------
(* The inductive invariants *)

\* Which elements a handler's loop has done, whatever the other handlers do:
\* the one of EncryptSet works on the server's set and that of EncryptClientSet
\* on the client's.
LoopInv(c) ==
  /\ received[c] \subseteq ServerIds \X Clients
  /\ call[c] = "encrypt" => todo[c] \subseteq ServerIds
  /\ call[c] \in {"encrypt", "reply_one"} =>
       enc[c] \subseteq ServerIds \X Clients
  /\ call[c] = "reencrypt" =>
       todo[c] \subseteq ClientIds[c] /\ enc[c] \subseteq ClientIds[c] \X Clients

OvercountInv == TypeOK /\ NoOvercount /\ \A c \in Clients : LoopInv(c)

\* The rest is for calls that do not overlap.

\* A set of identifiers, all encrypted under one key.
Under(S, key) == S \X {key}

\* What a call can be at each position of its client.
CallInv(c) ==
  /\ pc[c] \in {"idle", "have_one", "done"} => call[c] = "none"
  /\ pc[c] = "wait_one" =>
       call[c] \in {"start", "keygen", "encrypt", "reply_one", "error"}
  /\ pc[c] = "wait_two" =>
       call[c] \in {"round_one", "reencrypt", "reply_two", "error"}

OneHandler ==
  \A c, d \in Clients : call[c] \in Working /\ call[d] \in Working => c = d

DownInv ==
  ~up => ec_cipher_ = NoCipher /\ \A c \in Clients : call[c] \in {"none", "error"}

\* A handler works under one key from its first element to its last.
HandlerInv(c) ==
  /\ call[c] = "keygen" => ec_cipher_ = NoCipher
  /\ call[c] = "encrypt" =>
       /\ ec_cipher_ = c
       /\ todo[c] \subseteq ServerIds
       /\ enc[c] = Under(ServerIds \ todo[c], c)
  /\ call[c] = "reply_one" => enc[c] = Under(ServerIds, c)
  /\ call[c] = "reencrypt" =>
       /\ ec_cipher_ # NoCipher
       /\ todo[c] \subseteq ClientIds[c]
       /\ enc[c] = Under(ClientIds[c] \ todo[c], ec_cipher_)

\* A client has the server's set under the key of its own session, or nothing.
ReceivedInv(c) ==
  /\ received[c] \in {{}, Under(ServerIds, c)}
  /\ pc[c] \in {"have_one", "wait_two", "done"}
       \/ call[c] \in {"round_one", "reencrypt"} => received[c] = Under(ServerIds, c)

MatchedInv(c) ==
  /\ matched[c] \in {NoResult, {}, Common[c]}
  /\ pc[c] = "done" \/ call[c] = "reply_two" => matched[c] # NoResult

SerialInv ==
  /\ TypeOK /\ OneHandler /\ DownInv
  /\ \A c \in Clients :
       CallInv(c) /\ HandlerInv(c) /\ ReceivedInv(c) /\ MatchedInv(c)

\* Without a restart the key of a session lasts until the session is answered.
KeyInv(c) ==
  /\ up /\ (\/ call[c] \in {"encrypt", "reply_one", "round_one", "reencrypt"}
            \/ pc[c] = "have_one") => ec_cipher_ = c
  /\ matched[c] \in {NoResult, Common[c]}

SessionInv == SerialInv /\ (restarts = 0 => \A c \in Clients : KeyInv(c))
=============================================================================
