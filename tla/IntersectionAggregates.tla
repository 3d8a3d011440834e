----------------------- MODULE IntersectionAggregates -----------------------
(***************************************************************************)
(* The data of one session: how the rows of the client's table become an   *)
(* intersection size and one or two sums.  It is for the pair programs and *)
(* for the tuple programs (--multi_column), in every combination of client *)
(* and server, and for the inputs the readers accept, which include a      *)
(* repeated identifier.                                                    *)
(*                                                                         *)
(* Identifiers are compared under the two keys, which is comparing them    *)
(* (IntersectionSum says when).  A Paillier ciphertext is the number it    *)
(* decrypts to, or ZeroCiphertext: the integer 0, which is what an absent  *)
(* bytes field is read as, and which no encryption produces.               *)
(***************************************************************************)
EXTENDS Integers, Sequences, FiniteSets

CONSTANTS
  Ids,
  Values,           \* associated values: non-negative int64
  MaxRows,          \* bound on the rows of either file
  MessageSpace,     \* n^s, the plaintexts of the Paillier key
  MaxInt,           \* 2^64 - 1, the largest BigNum ToIntValue converts
  ZeroCiphertext

ASSUME ValueAssumption ==
  /\ Values \subseteq Nat
  /\ MaxRows \in Nat /\ MaxInt \in Nat /\ MessageSpace \in Nat \ {0}
  \* 2^63 times the rows of a file against n^2, n of 1536 bits.
  /\ \A v \in Values : v < MessageSpace /\ v * MaxRows < MessageSpace
  /\ ZeroCiphertext \notin Nat

VARIABLES
  table,            \* rows of the client's file
  inputs_,          \* identifiers of the server's file
  client_multi,     \* --multi_column of the client
  server_multi,     \* --multi_column of the server
  stage,
  client_set,       \* the client's rows, encrypted, as they are passed on
  remaining,        \* rows of the intersection not yet added
  server_round_two, \* the reply, built up in place
  output            \* what DecryptResult stores and PrintOutput prints

fileVars == <<table, inputs_, client_multi, server_multi>>
vars == <<fileVars, stage, client_set, remaining, server_round_two, output>>

-----------------------------------------------------------------------------

Stage == {"round_one", "client_round_one", "sorted", "aggregate",
          "round_two", "finished", "printed", "failed", "aborted"}

Row == [id : Ids, col_1 : Values, col_2 : Values]
Ciphertext == (0 .. MessageSpace - 1) \cup {ZeroCiphertext}
Aggregates == [size : Nat, sum_1 : Ciphertext, sum_2 : Ciphertext]
Nothing == [size |-> 0, sum_1 |-> 0, sum_2 |-> 0]

\* Files of at most MaxRows lines.
File(S) == UNION {[1 .. n -> S] : n \in 0 .. MaxRows}

TypeOK ==
  /\ table \in File(Row)
  /\ inputs_ \in File(Ids)
  /\ client_multi \in BOOLEAN /\ server_multi \in BOOLEAN
  /\ stage \in Stage
  /\ DOMAIN client_set \subseteq DOMAIN table
  /\ \A i \in DOMAIN client_set :
       client_set[i] \in [element : Ids, data_1 : Ciphertext, data_2 : Ciphertext]
  /\ remaining \subseteq DOMAIN client_set
  /\ server_round_two \in Aggregates
  /\ output \in Aggregates

\* ReadClientDatasetFromFile, ReadServerDatasetFromFile and the flags; the
\* client has received ServerRoundOne.
Init ==
  /\ table \in File(Row)
  /\ inputs_ \in File(Ids)
  /\ client_multi \in BOOLEAN /\ server_multi \in BOOLEAN
  /\ stage = "round_one"
  /\ client_set = <<>>
  /\ remaining = {}
  /\ server_round_two = Nothing
  /\ output = Nothing

-----------------------------------------------------------------------------
(* The client *)

\* EncryptCol: the pair client encrypts the first column only.
EncryptCol ==
  [i \in DOMAIN table |->
    [element |-> table[i].id,
     data_1 |-> table[i].col_1,
     data_2 |-> IF client_multi THEN table[i].col_2 ELSE ZeroCiphertext]]

ReEncryptSet ==
  /\ stage = "round_one"
  /\ stage' = "client_round_one"
  /\ client_set' = EncryptCol
  /\ UNCHANGED <<fileVars, remaining, server_round_two, output>>

-----------------------------------------------------------------------------
(* The server *)

\* Faulty variant: the second column is taken from the first.
EncryptClientSetCopies ==
  /\ stage = "client_round_one"
  /\ stage' = "sorted"
  /\ client_set' = [i \in DOMAIN client_set |->
                      [client_set[i] EXCEPT !.data_2 = client_set[i].data_1]]
  /\ UNCHANGED <<fileVars, remaining, server_round_two, output>>

\* The pair server passes only the first column on.
EncryptClientSet ==
  /\ stage = "client_round_one"
  /\ stage' = "sorted"
  /\ client_set' =
       IF server_multi THEN client_set
       ELSE [i \in DOMAIN client_set |->
               [client_set[i] EXCEPT !.data_2 = ZeroCiphertext]]
  /\ UNCHANGED <<fileVars, remaining, server_round_two, output>>

\* The rows of the client's file, and of the server's, with this identifier.
ClientRows(id) == {i \in DOMAIN table : table[i].id = id}
ServerRows(id) == {i \in DOMAIN inputs_ : inputs_[i] = id}
Smaller(m, n) == IF m <= n THEN m ELSE n

\* std::set_intersection takes from the first range, of each value, as many
\* elements as the range with fewer of them has.  Which of several equal rows
\* come first is left open by std::sort.
Selection(S) ==
  /\ S \subseteq DOMAIN table
  /\ \A id \in Ids :
       Cardinality(S \cap ClientRows(id)) =
         Smaller(Cardinality(ClientRows(id)), Cardinality(ServerRows(id)))

\* Faulty variant: a join, which takes every row of the client that matches.
SetIntersectionJoins ==
  /\ stage = "sorted"
  /\ stage' = "aggregate"
  /\ \E S \in SUBSET DOMAIN client_set :
       /\ S = {i \in DOMAIN client_set : ServerRows(client_set[i].element) # {}}
       /\ remaining' = S
       /\ server_round_two' = [Nothing EXCEPT !.size = Cardinality(S)]
  /\ UNCHANGED <<fileVars, client_set, output>>

\* Both sums start as encryptions of 0.
SetIntersection ==
  /\ stage = "sorted"
  /\ stage' = "aggregate"
  /\ \E S \in SUBSET DOMAIN client_set :
       /\ Selection(S)
       /\ remaining' = S
       /\ server_round_two' = [Nothing EXCEPT !.size = Cardinality(S)]
  /\ UNCHANGED <<fileVars, client_set, output>>

\* PublicPaillier::Add multiplies ciphertexts.
Add(a, b) ==
  IF ZeroCiphertext \in {a, b} THEN ZeroCiphertext ELSE (a + b) % MessageSpace

\* One round of the loop of IntersectionAggregates.  (The pair server keeps no
\* second sum: here it is folded all the same, and SendRoundTwo drops it.)
AddElement(i) ==
  /\ stage = "aggregate" /\ i \in remaining
  /\ remaining' = remaining \ {i}
  /\ server_round_two' =
       [server_round_two EXCEPT !.sum_1 = Add(@, client_set[i].data_1),
                                !.sum_2 = Add(@, client_set[i].data_2)]
  /\ UNCHANGED <<fileVars, stage, client_set, output>>

\* Faulty variant: the pair server sends an encryption of 0 for the sum that it
\* has not computed.
SendRoundTwoWithZero ==
  /\ stage = "aggregate" /\ remaining = {}
  /\ stage' = "round_two"
  /\ server_round_two' =
       IF server_multi THEN server_round_two ELSE [server_round_two EXCEPT !.sum_2 = 0]
  /\ UNCHANGED <<fileVars, client_set, remaining, output>>

\* The reply of the pair server has no encrypted_sum_2.
SendRoundTwo ==
  /\ stage = "aggregate" /\ remaining = {}
  /\ stage' = "round_two"
  /\ server_round_two' =
       IF server_multi THEN server_round_two
       ELSE [server_round_two EXCEPT !.sum_2 = ZeroCiphertext]
  /\ UNCHANGED <<fileVars, client_set, remaining, output>>

-----------------------------------------------------------------------------
(* The client again *)

\* Faulty variant: the pair client, too, decrypts both sums.
AbortsOnEither ==
  ZeroCiphertext \in {server_round_two.sum_1, server_round_two.sum_2}

\* PrivatePaillier::Decrypt ends in a CHECK of BigNum::Div, and the process,
\* when given the integer 0.
Aborts ==
  \/ server_round_two.sum_1 = ZeroCiphertext
  \/ client_multi /\ server_round_two.sum_2 = ZeroCiphertext

DecryptResult ==
  /\ stage = "round_two" /\ ~Aborts
  /\ stage' = "finished"
  /\ output' = [server_round_two EXCEPT !.sum_2 = IF client_multi THEN @ ELSE 0]
  /\ UNCHANGED <<fileVars, client_set, remaining, server_round_two>>

DecryptResultAborts ==
  /\ stage = "round_two" /\ Aborts
  /\ stage' = "aborted"
  /\ UNCHANGED <<fileVars, client_set, remaining, server_round_two, output>>

\* BigNum::ToIntValue refuses more than 64 bits; the program exits with 1.
PrintOutput ==
  /\ stage = "finished"
  /\ stage' = IF output.sum_1 <= MaxInt /\ output.sum_2 <= MaxInt
                THEN "printed" ELSE "failed"
  /\ UNCHANGED <<fileVars, client_set, remaining, server_round_two, output>>

-----------------------------------------------------------------------------

Next ==
  \/ ReEncryptSet
  \/ EncryptClientSet
  \/ SetIntersection
  \/ \E i \in DOMAIN table : AddElement(i)
  \/ SendRoundTwo
  \/ DecryptResult
  \/ DecryptResultAborts
  \/ PrintOutput

\* Nothing but its own next step can keep a session from going on: failures
\* from outside are the subject of IntersectionSum.
Spec == Init /\ [][Next]_vars
FairSpec == Spec /\ WF_vars(Next)

-----------------------------------------------------------------------------
(* Correctness *)

\* The sum of a column over these rows: the values are natural numbers, and the
\* units of all of them are counted.
Units(column, S) == UNION {{i} \X (1 .. table[i][column]) : i \in S}
Sum(column, S) == Cardinality(Units(column, S))

DistinctRows == \A i, j \in DOMAIN table : table[i].id = table[j].id => i = j
CommonRows == {i \in DOMAIN table : ServerRows(table[i].id) # {}}

\* The output is the size and the sums of these rows.
Reports(S) ==
  /\ output.size = Cardinality(S)
  /\ output.sum_1 = Sum("col_1", S)
  /\ client_multi => output.sum_2 = Sum("col_2", S)

\* A client whose identifiers are all different prints the exact size and sums,
\* however often the server repeats an identifier and whichever of the two
\* programs each party runs.
ExactWhenDistinct ==
  stage = "printed" /\ DistinctRows => Reports(CommonRows)

\* With repeated identifiers the size and both sums are still of one and the
\* same choice of rows, which takes each identifier as often as the file that
\* has it less often.
OneSelection ==
  stage = "printed" => \E S \in SUBSET DOMAIN table : Selection(S) /\ Reports(S)

\* A tuple client prints no second sum that a pair server has not computed: it
\* does not get as far as printing.
SecondSumIsReal == stage = "printed" /\ client_multi => server_multi

\* Everybody else is served: a pair client by either server, though the tuple
\* server adds up a column that such a client does not send.
Served ==
  (stage = "round_one" /\ DistinctRows /\ (client_multi => server_multi)
     /\ Sum("col_1", CommonRows) <= MaxInt /\ Sum("col_2", CommonRows) <= MaxInt)
  ~> stage = "printed"

-----------------------------------------------------------------------------
(* What the documentation says and the code does not do *)

\* README: the size printed is the number of identifiers in common.
SizeCountsIdentifiers ==
  stage = "printed" =>
    output.size = Cardinality({table[i].id : i \in CommonRows})

-----------------------------------------------------------------------------
(* The inductive invariant behind the exact output                           *)

\* Once the reply of a pair server is under way its second sum is absent, and
\* with it a tuple client does not finish.
AbsentSumInv ==
  /\ stage = "round_two" /\ ~server_multi =>
       server_round_two.sum_2 = ZeroCiphertext
  /\ stage \in {"finished", "printed", "failed"} => (client_multi => server_multi)

\* A finished client holds numbers, not the ciphertext that has none.
DecryptedInv ==
  stage \in {"finished", "printed", "failed"} =>
    ZeroCiphertext \notin {output.sum_1, output.sum_2}

\* The columns travel with the rows they belong to, the second one only from a
\* tuple client to a tuple server.
ClientSetInv ==
  stage \in {"client_round_one", "sorted", "aggregate"} =>
    /\ DOMAIN client_set = DOMAIN table
    /\ \A i \in DOMAIN table :
         /\ client_set[i].data_1 = table[i].col_1
         /\ client_multi /\ server_multi => client_set[i].data_2 = table[i].col_2

\* The size that travels back is that of one choice of rows, and the sums are
\* those of its rows that were added.
TallyInv ==
  stage \in {"aggregate", "round_two"} =>
    \E S \in SUBSET DOMAIN table :
      /\ Selection(S) /\ remaining \subseteq S
      /\ stage = "round_two" => remaining = {}
      /\ server_round_two.size = Cardinality(S)
      /\ server_round_two.sum_1 = Sum("col_1", S \ remaining)
      /\ client_multi /\ server_multi =>
           server_round_two.sum_2 = Sum("col_2", S \ remaining)

\* What a client has decrypted is the size and the sums of one choice of rows.
OutputInv ==
  stage \in {"finished", "printed", "failed"} =>
    \E S \in SUBSET DOMAIN table : Selection(S) /\ Reports(S)

AggregatesInv ==
  /\ TypeOK /\ AbsentSumInv /\ DecryptedInv
  /\ ClientSetInv /\ TallyInv /\ OutputInv
=============================================================================
