------------------------------ MODULE IdealJoin ------------------------------
(***************************************************************************)
(* What the intersection-sum service promises, with no cipher, no message  *)
(* and no thread in it: the server serves one session at a time, a session *)
(* is opened by a client when no other is open, and a client that prints a *)
(* result prints the one over the identifiers it has in common with the    *)
(* server.  A session may be lost, and a client may never print.           *)
(***************************************************************************)
CONSTANTS Clients,      \* runs of the client program
          Common,         \* Common[c]: identifiers c shares with the server
          NoSession,
          NoResult

VARIABLES session,      \* the client whose session is open, or NoSession
          answer,         \* answer[c]: what the server answered, or NoResult
          printed         \* the clients that printed their result

idealVars == <<session, answer, printed>>

Init ==
  /\ session = NoSession
  /\ answer = [c \in Clients |-> NoResult]
  /\ printed = {}

\* The server accepts c as the client of the one session.
Open(c) ==
  /\ session = NoSession
  /\ session' = c
  /\ UNCHANGED <<answer, printed>>

\* The server answers the client of the open session, and closes it.
Answer(c) ==
  /\ session = c
  /\ session' = NoSession
  /\ answer' = [answer EXCEPT ![c] = Common[c]]
  /\ UNCHANGED printed

\* A client prints what it was answered, once.
Report(c) ==
  /\ answer[c] # NoResult
  /\ c \notin printed
  /\ printed' = printed \cup {c}
  /\ UNCHANGED <<session, answer>>

\* The server process dies and takes the session with it.
Lose ==
  /\ session # NoSession
  /\ session' = NoSession
  /\ UNCHANGED <<answer, printed>>

Next ==
  \/ \E c \in Clients : Open(c) \/ Answer(c) \/ Report(c)
  \/ Lose

Spec == Init /\ [][Next]_idealVars
=============================================================================
