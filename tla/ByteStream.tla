----------------------------- MODULE ByteStream -----------------------------
(***************************************************************************)
(* What a pseudorandom generator with a fixed seed promises: one endless   *)
(* sequence of bytes, fixed by the seed, of which every call takes the     *)
(* next Length bytes at once, whichever thread makes it.  A byte is        *)
(* written as its place in the sequence.                                   *)
(***************************************************************************)
EXTENDS Naturals, Sequences

CONSTANTS Threads,
          Lengths         \* how many bytes a call may take

VARIABLES next,           \* how many bytes have been taken
          result          \* result[t]: the bytes the last call of t returned

streamVars == <<next, result>>

Init ==
  /\ next = 0
  /\ result = [t \in Threads |-> <<>>]

Take(t, length) ==
  /\ result' = [result EXCEPT ![t] = [i \in 1 .. length |-> next + i - 1]]
  /\ next' = next + length

Next == \E t \in Threads, length \in Lengths : Take(t, length)

Spec == Init /\ [][Next]_streamVars
=============================================================================
