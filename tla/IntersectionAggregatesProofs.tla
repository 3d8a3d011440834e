-------------------- MODULE IntersectionAggregatesProofs --------------------
(***************************************************************************)
(* For files of any length, with and without repeated identifiers: what a  *)
(* client prints is the size and the sums of one choice of rows, the right *)
(* ones if no identifier of its own is repeated, and never a sum that its  *)
(* server has not computed.                                                *)
(***************************************************************************)
EXTENDS IntersectionAggregates, FiniteSetTheorems, TLAPS

USE DEF Stage, Ciphertext, Aggregates, Nothing

\* Adding two ciphertexts gives a ciphertext (PublicPaillier::Add).
LEMMA AddType ==
  ASSUME NEW a \in Ciphertext, NEW b \in Ciphertext
  PROVE  Add(a, b) \in Ciphertext
<1>1. CASE ZeroCiphertext \in {a, b}
  BY <1>1 DEF Add
<1>2. CASE ZeroCiphertext \notin {a, b}
  <2>1. a \in Nat /\ b \in Nat
    BY <1>2
  <2>2. (a + b) % MessageSpace \in 0 .. MessageSpace - 1
    BY <2>1, ValueAssumption
  <2> QED
    BY <1>2, <2>2 DEF Add
<1> QED
  BY <1>1, <1>2

\* The rows that EncryptCol makes of the table hold ciphertexts, one row each.
LEMMA EncryptColType ==
  ASSUME TypeOK
  PROVE  /\ DOMAIN EncryptCol = DOMAIN table
         /\ \A i \in DOMAIN table :
              EncryptCol[i] \in [element : Ids, data_1 : Ciphertext, data_2 : Ciphertext]
<1>1. \A i \in DOMAIN table : table[i] \in Row
  BY DEF TypeOK, File
<1>2. \A v \in Values : v \in Ciphertext
  BY ValueAssumption
<1> QED
  BY <1>1, <1>2 DEF EncryptCol, Row

\* A file has finitely many rows.
LEMMA RowsAreFinite ==
  ASSUME TypeOK
  PROVE  IsFiniteSet(DOMAIN table)
<1>1. PICK n \in 0 .. MaxRows : table \in [1 .. n -> Row]
  BY DEF TypeOK, File
<1>2. IsFiniteSet(1 .. n)
  BY FS_Interval, <1>1, ValueAssumption
<1> QED
  BY <1>1, <1>2

-----------------------------------------------------------------------------
(* Sums over rows *)

Columns == {"col_1", "col_2"}

\* A row has as many units in a column as its value there.
LEMMA UnitsOfRow ==
  ASSUME TypeOK, NEW i \in DOMAIN table, NEW column \in Columns
  PROVE  /\ table[i][column] \in Values /\ table[i][column] \in Nat
         /\ IsFiniteSet({i} \X (1 .. table[i][column]))
         /\ Cardinality({i} \X (1 .. table[i][column])) = table[i][column]
<1> DEFINE v == table[i][column]
<1>1. v \in Values /\ v \in Nat
  <2>1. table[i] \in Row
    BY DEF TypeOK, File
  <2>2. table[i].col_1 \in Values /\ table[i].col_2 \in Values
    BY <2>1 DEF Row
  <2>3. v = table[i].col_1 \/ v = table[i].col_2
    BY DEF Columns
  <2> QED
    BY <2>2, <2>3, ValueAssumption
<1> HIDE DEF v
<1>2. /\ IsFiniteSet({i}) /\ Cardinality({i}) = 1
      /\ IsFiniteSet(1 .. v) /\ Cardinality(1 .. v) = v
  <2>1. IsFiniteSet({i}) /\ Cardinality({i}) = 1
    BY FS_Singleton
  <2>2. 1 \in Int /\ v \in Int /\ v = IF 1 > v THEN 0 ELSE v - 1 + 1
    BY <1>1
  <2>3. IsFiniteSet(1 .. v) /\ Cardinality(1 .. v) = v
    BY <2>2, FS_Interval
  <2> QED
    BY <2>1, <2>3
<1>3. IsFiniteSet({i} \X (1 .. v)) /\ Cardinality({i} \X (1 .. v)) = 1 * v
  BY ZenonT(40), <1>2, FS_Product
<1>4. 1 * v = v
  BY <1>1
<1> QED
  BY <1>1, <1>3, <1>4 DEF v

\* Finitely many rows have finitely many units.
LEMMA UnitsFinite ==
  ASSUME TypeOK, NEW X \in SUBSET DOMAIN table, NEW column \in Columns
  PROVE  IsFiniteSet(Units(column, X))
<1> DEFINE Of(i) == {i} \X (1 .. table[i][column])
           sets == {Of(i) : i \in X}
           of == [i \in X |-> Of(i)]
<1>1. IsFiniteSet(X)
  BY RowsAreFinite, FS_Subset
<1>2. IsFiniteSet(sets)
  <2>1. of \in Surjection(X, sets)
    BY Zenon DEF Surjection
  <2> HIDE DEF of, sets
  <2> QED
    BY <1>1, <2>1, FS_Surjection
<1>3. \A U \in sets : IsFiniteSet(U)
  BY UnitsOfRow
<1>4. IsFiniteSet(UNION sets)
  <2> HIDE DEF sets
  <2> QED
    BY <1>2, <1>3, FS_UNION
<1> QED
  BY <1>4 DEF Units

\* Adding a row adds its value.
LEMMA SumAdds ==
  ASSUME TypeOK, NEW X \in SUBSET DOMAIN table, NEW column \in Columns,
         NEW i \in DOMAIN table, i \notin X
  PROVE  /\ Sum(column, X) \in Nat
         /\ Sum(column, X \cup {i}) = Sum(column, X) + table[i][column]
<1> DEFINE row == {i} \X (1 .. table[i][column])
           units == Units(column, X)
<1>1. Units(column, X \cup {i}) = units \cup row
  BY DEF Units
<1>2. units \cap row = {}
  BY DEF Units
<1>3. IsFiniteSet(units) /\ Cardinality(units) \in Nat
  BY UnitsFinite, FS_CardinalityType
<1>4. /\ IsFiniteSet(row) /\ Cardinality(row) = table[i][column]
      /\ table[i][column] \in Nat
  BY UnitsOfRow
<1> HIDE DEF row, units
<1>5. Cardinality(units \cup row) =
        Cardinality(units) + Cardinality(row) - Cardinality(units \cap row)
  BY <1>3, <1>4, FS_Union
<1>6. Cardinality(units \cap row) = 0
  BY <1>2, FS_EmptySet
<1>7. Cardinality(units \cup row) = Cardinality(units) + Cardinality(row)
  BY <1>3, <1>4, <1>5, <1>6
<1> QED
  BY <1>1, <1>3, <1>4, <1>7 DEF Sum, units

\* The sum over no rows is 0.
LEMMA SumOfNone ==
  ASSUME NEW column
  PROVE  Sum(column, {}) = 0
<1>1. Units(column, {}) = {}
  BY DEF Units
<1> QED
  BY <1>1, FS_EmptySet DEF Sum

\* A number that is less than K when multiplied by n is at most (K - 1) \div n.
LEMMA QuotientBounds ==
  ASSUME NEW v \in Nat, NEW n \in Nat \ {0}, NEW K \in Nat \ {0}, v * n < K
  PROVE  /\ (K - 1) \div n \in Nat
         /\ v <= (K - 1) \div n
         /\ n * ((K - 1) \div n) < K
<1> DEFINE q == (K - 1) \div n
<1>1. q \in Nat /\ n * q <= K - 1 /\ K - 1 < n * q + n
  BY SMT
<1> HIDE DEF q
<1>2. v <= q
  <2> SUFFICES ASSUME q + 1 <= v PROVE FALSE
    BY <1>1
  <2>1. (q + 1) * n <= v * n
    BY <1>1
  <2> QED
    BY <1>1, <2>1
<1> QED
  BY <1>1, <1>2 DEF q

\* No sum over rows of the table reaches the message space.
LEMMA SumFits ==
  ASSUME TypeOK, NEW X \in SUBSET DOMAIN table, NEW column \in Columns
  PROVE  Sum(column, X) \in 0 .. MessageSpace - 1
<1>1. PICK n \in 0 .. MaxRows : table \in [1 .. n -> Row]
  BY DEF TypeOK, File
<1>2. CASE X = {}
  BY <1>2, SumOfNone, ValueAssumption
<1>3. CASE X # {}
  <2> DEFINE M == (MessageSpace - 1) \div MaxRows
  <2>1. MaxRows \in Nat \ {0} /\ MessageSpace \in Nat \ {0}
    <3>1. n # 0
      <4> SUFFICES ASSUME n = 0 PROVE FALSE
        OBVIOUS
      <4>1. DOMAIN table = 1 .. 0
        BY <1>1
      <4> QED
        BY <4>1, <1>3
    <3> QED
      BY <3>1, ValueAssumption
  <2>2. \A i \in X : table[i][column] \in Nat /\ table[i][column] * MaxRows < MessageSpace
    BY UnitsOfRow, ValueAssumption
  <2>3. \A i \in X : table[i][column] <= M
    BY <2>1, <2>2, QuotientBounds
  <2>4. M \in Nat /\ MaxRows * M < MessageSpace
    BY <1>3, <2>1, <2>2, QuotientBounds
  <2> HIDE DEF M
  <2>5. Units(column, X) \in SUBSET (X \X (1 .. M))
    BY <2>2, <2>3, <2>4 DEF Units
  <2>6. /\ IsFiniteSet(X) /\ Cardinality(X) \in Nat /\ Cardinality(X) <= MaxRows
    <3>1. X \in SUBSET (1 .. n) /\ n \in Nat /\ n <= MaxRows
      BY <1>1, ValueAssumption
    <3>2. IsFiniteSet(1 .. n) /\ Cardinality(1 .. n) = n
      BY <3>1, FS_Interval
    <3>3. IsFiniteSet(X) /\ Cardinality(X) <= n
      BY <3>1, <3>2, FS_Subset
    <3> QED
      BY <3>1, <3>3, FS_CardinalityType, <2>1
  <2>7. IsFiniteSet(1 .. M) /\ Cardinality(1 .. M) = M
    BY <2>4, FS_Interval
  <2>8. /\ IsFiniteSet(X \X (1 .. M))
        /\ Cardinality(X \X (1 .. M)) = Cardinality(X) * M
    BY <2>6, <2>7, FS_Product
  <2>9. Cardinality(Units(column, X)) \in Nat /\ Cardinality(Units(column, X)) <= Cardinality(X) * M
    BY <2>5, <2>8, FS_Subset, FS_CardinalityType
  <2>10. Cardinality(X) * M <= MaxRows * M
    BY <2>1, <2>4, <2>6
  <2> QED
    BY <2>1, <2>4, <2>6, <2>9, <2>10 DEF Sum
<1> QED
  BY <1>2, <1>3

\* PublicPaillier::Add of a sum and of a value that is not yet in it: the sum of
\* both, nothing having reached the message space.
LEMMA AddExact ==
  ASSUME TypeOK, NEW X \in SUBSET DOMAIN table, NEW column \in Columns,
         NEW i \in DOMAIN table, i \notin X
  PROVE  Add(Sum(column, X), table[i][column]) = Sum(column, X \cup {i})
<1>1. Sum(column, X) \in Nat /\ table[i][column] \in Nat
  BY SumAdds, UnitsOfRow
<1>2. ZeroCiphertext \notin {Sum(column, X), table[i][column]}
  BY <1>1, ValueAssumption
<1>3. Sum(column, X) + table[i][column] \in 0 .. MessageSpace - 1
  <2>1. X \cup {i} \in SUBSET DOMAIN table
    OBVIOUS
  <2> QED
    BY <2>1, SumAdds, SumFits
<1>4. (Sum(column, X) + table[i][column]) % MessageSpace = Sum(column, X) + table[i][column]
  BY <1>1, <1>3, ValueAssumption
<1> QED
  BY <1>2, <1>4, SumAdds DEF Add

-----------------------------------------------------------------------------
(* The inductive invariant *)

LEMMA AggregatesInit == Init => AggregatesInv
<1> SUFFICES ASSUME Init PROVE AggregatesInv
  OBVIOUS
<1>1. 0 \in Ciphertext
  BY ValueAssumption
<1>2. client_set = <<>> /\ DOMAIN client_set = {}
  BY DEF Init
<1> QED
  BY <1>1, <1>2 DEF Init, AggregatesInv, TypeOK, AbsentSumInv, DecryptedInv,
    ClientSetInv, TallyInv, OutputInv

\* Every step of a session keeps the types, case by case of Next.
LEMMA TypeStep ==
  ASSUME TypeOK, Next
  PROVE  TypeOK'
<1> USE DEF TypeOK
<1>0. 0 \in Ciphertext /\ ZeroCiphertext \in Ciphertext
  BY ValueAssumption
<1>1. CASE ReEncryptSet
  <2>1. client_set' = EncryptCol
    BY <1>1 DEF ReEncryptSet
  <2>2. DOMAIN client_set' = DOMAIN table' /\ remaining' \subseteq DOMAIN client_set'
    BY <1>1, <2>1, EncryptColType DEF ReEncryptSet, fileVars
  <2>3. \A i \in DOMAIN client_set' :
          client_set'[i] \in [element : Ids, data_1 : Ciphertext, data_2 : Ciphertext]
    BY <2>1, EncryptColType
  <2> QED
    BY <1>1, <2>2, <2>3 DEF ReEncryptSet, fileVars
<1>2. CASE EncryptClientSet
  <2>1. DOMAIN client_set' = DOMAIN client_set
    BY <1>2 DEF EncryptClientSet
  <2>2. ASSUME NEW i \in DOMAIN client_set'
        PROVE  client_set'[i] \in [element : Ids, data_1 : Ciphertext, data_2 : Ciphertext]
    <3>1. client_set[i] \in [element : Ids, data_1 : Ciphertext, data_2 : Ciphertext]
      BY <2>1, <2>2
    <3>2. client_set'[i] \in {client_set[i], [client_set[i] EXCEPT !.data_2 = ZeroCiphertext]}
      BY <1>2, <2>1, <2>2 DEF EncryptClientSet
    <3> QED
      BY <3>1, <3>2, <1>0
  <2> QED
    BY <1>2, <2>1, <2>2 DEF EncryptClientSet, fileVars
<1>3. CASE SetIntersection
  <2>1. PICK S \in SUBSET DOMAIN client_set :
          remaining' = S /\ server_round_two' = [Nothing EXCEPT !.size = Cardinality(S)]
    BY <1>3 DEF SetIntersection
  <2>2. Cardinality(S) \in Nat
    BY <2>1, RowsAreFinite, FS_Subset, FS_CardinalityType
  <2>3. server_round_two' \in Aggregates
    BY <2>1, <2>2, <1>0
  <2> QED
    BY <1>3, <2>1, <2>3 DEF SetIntersection, fileVars
<1>4. ASSUME NEW i \in DOMAIN table, AddElement(i) PROVE TypeOK'
  <2>1. i \in DOMAIN client_set
    BY <1>4 DEF AddElement
  <2>2. client_set[i].data_1 \in Ciphertext /\ client_set[i].data_2 \in Ciphertext
    BY <2>1
  <2>3. server_round_two.sum_1 \in Ciphertext /\ server_round_two.sum_2 \in Ciphertext
    OBVIOUS
  <2>4. /\ Add(server_round_two.sum_1, client_set[i].data_1) \in Ciphertext
        /\ Add(server_round_two.sum_2, client_set[i].data_2) \in Ciphertext
    BY <2>2, <2>3, AddType
  <2>5. server_round_two' \in Aggregates
    BY <1>4, <2>4 DEF AddElement
  <2> QED
    BY <1>4, <2>5 DEF AddElement, fileVars
<1>5. CASE SendRoundTwo
  BY <1>5, <1>0 DEF SendRoundTwo, fileVars
<1>6. CASE DecryptResult
  BY <1>6, <1>0 DEF DecryptResult, fileVars
<1>7. CASE DecryptResultAborts
  BY <1>7 DEF DecryptResultAborts, fileVars
<1>8. CASE PrintOutput
  BY <1>8 DEF PrintOutput, fileVars
<1> QED
  BY <1>1, <1>2, <1>3, <1>4, <1>5, <1>6, <1>7, <1>8 DEF Next

\* The files do not change, and so neither do the choices of rows.
LEMMA SelectionUnchanged ==
  ASSUME NEW S, UNCHANGED <<table, inputs_>>
  PROVE  Selection(S)' <=> Selection(S)
BY DEF Selection, ClientRows, ServerRows

\* No step of a session changes what was read, or the flags.
LEMMA FilesUnchanged ==
  ASSUME Next PROVE UNCHANGED fileVars
BY DEF Next, ReEncryptSet, EncryptClientSet, SetIntersection, AddElement,
  SendRoundTwo, DecryptResult, DecryptResultAborts, PrintOutput

\* Columns stay with their rows until the server has added them up.
LEMMA ClientSetStep ==
  ASSUME AggregatesInv, Next
  PROVE  ClientSetInv'
<1> USE FilesUnchanged DEF AggregatesInv, ClientSetInv, fileVars
<1>1. CASE ReEncryptSet
  <2>1. client_set' = EncryptCol
    BY <1>1 DEF ReEncryptSet
  <2> QED
    BY <2>1 DEF EncryptCol
<1>2. CASE EncryptClientSet
  BY <1>2 DEF EncryptClientSet, TypeOK
<1>3. CASE SetIntersection
  BY <1>3 DEF SetIntersection
<1>4. ASSUME NEW i \in DOMAIN table, AddElement(i) PROVE ClientSetInv'
  BY <1>4 DEF AddElement
<1>5. CASE SendRoundTwo \/ DecryptResult \/ DecryptResultAborts \/ PrintOutput
  BY <1>5 DEF SendRoundTwo, DecryptResult, DecryptResultAborts, PrintOutput
<1> QED
  BY <1>1, <1>2, <1>3, <1>4, <1>5 DEF Next

\* The choice made by SetIntersection is kept, and each round of the loop adds the
\* values of one more of its rows, in whatever order.
LEMMA TallyStep ==
  ASSUME AggregatesInv, Next
  PROVE  TallyInv'
<1> USE DEF AggregatesInv
<1>1. UNCHANGED <<table, inputs_, client_multi, server_multi>>
  BY FilesUnchanged DEF fileVars
<1>2. \A column, X : Sum(column, X)' = Sum(column, X)
  BY <1>1 DEF Sum, Units
<1>3. CASE ReEncryptSet \/ EncryptClientSet \/ DecryptResult
           \/ DecryptResultAborts \/ PrintOutput
  BY <1>3 DEF ReEncryptSet, EncryptClientSet, DecryptResult, DecryptResultAborts,
    PrintOutput, TallyInv
<1>4. CASE SetIntersection
  <2>1. PICK S \in SUBSET DOMAIN client_set :
          /\ Selection(S)
          /\ remaining' = S
          /\ server_round_two' = [Nothing EXCEPT !.size = Cardinality(S)]
    BY <1>4 DEF SetIntersection
  <2>2. S \in SUBSET DOMAIN table' /\ Selection(S)'
    BY <1>1, <2>1, SelectionUnchanged DEF TypeOK
  <2>3. stage' = "aggregate" /\ S \ remaining' = {}
    BY <1>4, <2>1 DEF SetIntersection
  <2>4. /\ server_round_two'.size = Cardinality(S)
        /\ server_round_two'.sum_1 = 0 /\ server_round_two'.sum_2 = 0
    BY <2>1
  <2>5. Sum("col_1", S \ remaining)' = 0 /\ Sum("col_2", S \ remaining)' = 0
    <3>1. Sum("col_1", {}) = 0 /\ Sum("col_2", {}) = 0
      BY SumOfNone
    <3> QED
      BY <1>1, <2>3, <3>1 DEF Sum, Units
  <2> QED
    BY <2>1, <2>2, <2>3, <2>4, <2>5 DEF TallyInv
<1>5. ASSUME NEW i \in DOMAIN table, AddElement(i) PROVE TallyInv'
  <2>1. /\ stage = "aggregate" /\ stage' = "aggregate"
        /\ i \in remaining /\ remaining' = remaining \ {i}
    BY <1>5 DEF AddElement
  <2>2. PICK S \in SUBSET DOMAIN table :
          /\ Selection(S) /\ remaining \subseteq S
          /\ server_round_two.size = Cardinality(S)
          /\ server_round_two.sum_1 = Sum("col_1", S \ remaining)
          /\ client_multi /\ server_multi =>
               server_round_two.sum_2 = Sum("col_2", S \ remaining)
    BY <2>1 DEF TallyInv
  <2>3. S \in SUBSET DOMAIN table' /\ Selection(S)'
    BY <1>1, <2>2, SelectionUnchanged
  <2>4. /\ S \ remaining \in SUBSET DOMAIN table /\ i \notin S \ remaining
        /\ S \ remaining' = (S \ remaining) \cup {i}
    BY <2>1, <2>2
  <2>5. /\ client_set[i].data_1 = table[i].col_1
        /\ client_multi /\ server_multi => client_set[i].data_2 = table[i].col_2
    BY <2>1 DEF ClientSetInv
  <2>6. /\ Add(Sum("col_1", S \ remaining), table[i]["col_1"]) = Sum("col_1", S \ remaining')
        /\ Add(Sum("col_2", S \ remaining), table[i]["col_2"]) = Sum("col_2", S \ remaining')
    BY <2>4, AddExact DEF Columns
  <2>7. /\ server_round_two'.size = server_round_two.size
        /\ server_round_two'.sum_1 = Add(server_round_two.sum_1, client_set[i].data_1)
        /\ server_round_two'.sum_2 = Add(server_round_two.sum_2, client_set[i].data_2)
    BY <1>5 DEF AddElement, TypeOK
  <2>8. /\ Sum("col_1", S \ remaining)' = Sum("col_1", S \ remaining')
        /\ Sum("col_2", S \ remaining)' = Sum("col_2", S \ remaining')
    BY <1>1 DEF Sum, Units
  <2>9. /\ server_round_two'.sum_1 = Sum("col_1", S \ remaining)'
        /\ client_multi' /\ server_multi' =>
             server_round_two'.sum_2 = Sum("col_2", S \ remaining)'
    BY <1>1, <2>2, <2>5, <2>6, <2>7, <2>8
  <2> QED
    BY <2>1, <2>2, <2>3, <2>7, <2>9 DEF TallyInv
<1>6. CASE SendRoundTwo
  <2>1. PICK S \in SUBSET DOMAIN table :
          /\ Selection(S) /\ remaining \subseteq S
          /\ server_round_two.size = Cardinality(S)
          /\ server_round_two.sum_1 = Sum("col_1", S \ remaining)
          /\ client_multi /\ server_multi =>
               server_round_two.sum_2 = Sum("col_2", S \ remaining)
    BY <1>6 DEF SendRoundTwo, TallyInv
  <2>2. S \in SUBSET DOMAIN table' /\ Selection(S)'
    BY <1>1, <2>1, SelectionUnchanged
  <2>3. /\ remaining' = {} /\ remaining = {}
        /\ server_round_two'.size = server_round_two.size
        /\ server_round_two'.sum_1 = server_round_two.sum_1
        /\ server_multi => server_round_two'.sum_2 = server_round_two.sum_2
    BY <1>6 DEF SendRoundTwo, TypeOK
  <2> QED
    BY <1>1, <1>2, <2>1, <2>2, <2>3 DEF TallyInv
<1> QED
  BY <1>3, <1>4, <1>5, <1>6 DEF Next

\* What is decrypted is what the server sent, and no later step changes it.
LEMMA OutputStep ==
  ASSUME AggregatesInv, Next
  PROVE  OutputInv'
<1> USE DEF AggregatesInv
<1>1. UNCHANGED <<table, inputs_, client_multi, server_multi>>
  BY FilesUnchanged DEF fileVars
<1>2. \A column, X : Sum(column, X)' = Sum(column, X)
  BY <1>1 DEF Sum, Units
<1>3. CASE DecryptResult
  <2>1. PICK S \in SUBSET DOMAIN table :
          /\ Selection(S) /\ remaining = {}
          /\ server_round_two.size = Cardinality(S)
          /\ server_round_two.sum_1 = Sum("col_1", S \ remaining)
          /\ client_multi /\ server_multi =>
               server_round_two.sum_2 = Sum("col_2", S \ remaining)
    BY <1>3 DEF DecryptResult, TallyInv
  <2>2. S \ remaining = S
    BY <2>1
  <2>3. client_multi => server_multi
    BY <1>3 DEF DecryptResult, Aborts, AbsentSumInv
  <2>4. /\ output'.size = server_round_two.size
        /\ output'.sum_1 = server_round_two.sum_1
        /\ client_multi => output'.sum_2 = server_round_two.sum_2
    BY <1>3 DEF DecryptResult, TypeOK
  <2>5. Reports(S)'
    BY <1>1, <1>2, <2>1, <2>2, <2>3, <2>4 DEF Reports
  <2>6. S \in SUBSET DOMAIN table' /\ Selection(S)'
    BY <1>1, <2>1, SelectionUnchanged
  <2> QED
    BY <2>5, <2>6 DEF OutputInv
<1>4. CASE PrintOutput
  <2>1. PICK S \in SUBSET DOMAIN table : Selection(S) /\ Reports(S)
    BY <1>4 DEF PrintOutput, OutputInv
  <2>2. output' = output
    BY <1>4 DEF PrintOutput
  <2>3. S \in SUBSET DOMAIN table' /\ Selection(S)'
    BY <1>1, <2>1, SelectionUnchanged
  <2>4. Reports(S)'
    BY <1>1, <1>2, <2>1, <2>2 DEF Reports
  <2> QED
    BY <2>3, <2>4 DEF OutputInv
<1>5. CASE \/ ReEncryptSet \/ EncryptClientSet \/ SetIntersection \/ SendRoundTwo
           \/ DecryptResultAborts \/ \E i \in DOMAIN table : AddElement(i)
  BY <1>5 DEF ReEncryptSet, EncryptClientSet, SetIntersection, SendRoundTwo,
    DecryptResultAborts, AddElement, OutputInv
<1> QED
  BY <1>3, <1>4, <1>5 DEF Next

\* The reply of a pair server lacks the second sum, and a tuple client does not
\* get past it: only SendRoundTwo, DecryptResult and PrintOutput matter.
LEMMA AbsentSumStep ==
  ASSUME AggregatesInv, Next
  PROVE  AbsentSumInv' /\ DecryptedInv'
<1> USE DEF AggregatesInv
<1>1. CASE ReEncryptSet \/ EncryptClientSet \/ SetIntersection \/ DecryptResultAborts
           \/ \E i \in DOMAIN table : AddElement(i)
  BY <1>1 DEF ReEncryptSet, EncryptClientSet, SetIntersection, AddElement,
    DecryptResultAborts, AbsentSumInv, DecryptedInv
<1>2. CASE SendRoundTwo
  <2>1. stage' = "round_two" /\ server_multi' = server_multi
    BY <1>2 DEF SendRoundTwo, fileVars
  <2>2. ~server_multi => server_round_two'.sum_2 = ZeroCiphertext
    BY <1>2 DEF SendRoundTwo, TypeOK
  <2> QED
    BY <2>1, <2>2 DEF AbsentSumInv, DecryptedInv
<1>3. CASE DecryptResult
  <2>1. client_multi => server_multi
    BY <1>3 DEF DecryptResult, Aborts, AbsentSumInv
  <2>2. /\ output'.sum_1 # ZeroCiphertext
        /\ output'.sum_2 # ZeroCiphertext
    BY <1>3, ValueAssumption DEF DecryptResult, Aborts, TypeOK
  <2> QED
    BY <1>3, <2>1, <2>2 DEF DecryptResult, AbsentSumInv, DecryptedInv, fileVars
<1>4. CASE PrintOutput
  BY <1>4 DEF PrintOutput, AbsentSumInv, DecryptedInv, fileVars
<1> QED
  BY <1>1, <1>2, <1>3, <1>4 DEF Next

\* The inductive invariant: whatever the files, the modes and the order of the
\* rows, types are kept, an absent sum stays absent until the client stops on it,
\* and the size and the sums are at every stage those of one choice of rows.
THEOREM AggregatesInvariant == Spec => []AggregatesInv
<1>1. AggregatesInv /\ UNCHANGED vars => AggregatesInv'
  <2> SUFFICES ASSUME AggregatesInv, UNCHANGED vars PROVE AggregatesInv'
    OBVIOUS
  <2> USE DEF vars, fileVars, AggregatesInv
  <2>1. TypeOK' /\ AbsentSumInv' /\ DecryptedInv' /\ ClientSetInv'
    BY DEF TypeOK, AbsentSumInv, DecryptedInv, ClientSetInv
  <2>2. \A S : Selection(S)' <=> Selection(S)
    BY SelectionUnchanged
  <2>3. TallyInv'
    <3> SUFFICES ASSUME stage \in {"aggregate", "round_two"} PROVE TallyInv'
      BY DEF TallyInv
    <3>1. PICK S \in SUBSET DOMAIN table :
            /\ Selection(S) /\ remaining \subseteq S
            /\ stage = "round_two" => remaining = {}
            /\ server_round_two.size = Cardinality(S)
            /\ server_round_two.sum_1 = Sum("col_1", S \ remaining)
            /\ client_multi /\ server_multi =>
                 server_round_two.sum_2 = Sum("col_2", S \ remaining)
      BY DEF TallyInv
    <3>2. /\ Sum("col_1", S \ remaining)' = Sum("col_1", S \ remaining)
          /\ Sum("col_2", S \ remaining)' = Sum("col_2", S \ remaining)
      BY DEF Sum, Units
    <3> QED
      BY <2>2, <3>1, <3>2 DEF TallyInv
  <2>4. OutputInv'
    <3> SUFFICES ASSUME stage \in {"finished", "printed", "failed"} PROVE OutputInv'
      BY DEF OutputInv
    <3>1. PICK S \in SUBSET DOMAIN table : Selection(S) /\ Reports(S)
      BY DEF OutputInv
    <3>2. Reports(S)'
      BY <3>1 DEF Reports, Sum, Units
    <3> QED
      BY <2>2, <3>1, <3>2 DEF OutputInv
  <2> QED
    BY <2>1, <2>3, <2>4
<1>2. AggregatesInv /\ Next => AggregatesInv'
  <2> SUFFICES ASSUME AggregatesInv, Next PROVE AggregatesInv'
    OBVIOUS
  <2>1. TypeOK'
    BY TypeStep DEF AggregatesInv
  <2> QED
    BY <2>1, ClientSetStep, TallyStep, OutputStep, AbsentSumStep DEF AggregatesInv
<1> QED
  BY <1>1, <1>2, AggregatesInit, PTL DEF Spec

\* A tuple client that prints was served by a tuple server (EncryptClientSet,
\* DecryptResult): the second sum it prints was computed.
THEOREM SecondSumTrue == Spec => []SecondSumIsReal
<1>1. AggregatesInv => SecondSumIsReal
  BY DEF AggregatesInv, AbsentSumInv, SecondSumIsReal
<1> QED
  BY <1>1, AggregatesInvariant, PTL

\* A set with a single possible element has as many elements as members.
LEMMA AtMostOne ==
  ASSUME NEW R, NEW x, R \subseteq {x}
  PROVE  IsFiniteSet(R) /\ Cardinality(R) = (IF x \in R THEN 1 ELSE 0)
<1>1. CASE R = {}
  BY <1>1, FS_EmptySet
<1>2. CASE R = {x}
  <2>1. IsFiniteSet({x}) /\ Cardinality({x}) = 1
    BY FS_Singleton
  <2> QED
    BY <1>2, <2>1
<1> QED
  BY <1>1, <1>2

\* When no identifier is repeated in the client's file there is one choice of
\* rows: those whose identifier the server has, however often.
LEMMA OneChoice ==
  ASSUME TypeOK, DistinctRows, NEW S, Selection(S)
  PROVE  S = CommonRows
<1>1. ASSUME NEW i \in DOMAIN table
      PROVE  i \in S <=> ServerRows(table[i].id) # {}
  <2> DEFINE id == table[i].id
  <2>1. id \in Ids
    BY DEF TypeOK, File, Row
  <2>2. ClientRows(id) = {i}
    BY DEF DistinctRows, ClientRows
  <2>3. /\ Cardinality(ClientRows(id)) = 1
        /\ Cardinality(S \cap ClientRows(id)) = IF i \in S THEN 1 ELSE 0
    <3>1. S \cap ClientRows(id) \subseteq {i} /\ (i \in S \cap ClientRows(id) <=> i \in S)
      BY <2>2
    <3> HIDE DEF id
    <3> QED
      BY <2>2, <3>1, AtMostOne, FS_Singleton
  <2>4. IsFiniteSet(ServerRows(id))
    <3>1. PICK n \in 0 .. MaxRows : inputs_ \in [1 .. n -> Ids]
      BY DEF TypeOK, File
    <3>2. ServerRows(id) \subseteq 1 .. n /\ IsFiniteSet(1 .. n)
      BY <3>1, FS_Interval, ValueAssumption DEF ServerRows
    <3> QED
      BY <3>2, FS_Subset
  <2>5. /\ Cardinality(ServerRows(id)) \in Nat
        /\ Cardinality(ServerRows(id)) = 0 <=> ServerRows(id) = {}
    BY <2>4, FS_CardinalityType, FS_EmptySet
  <2>6. Cardinality(S \cap ClientRows(id)) =
          Smaller(Cardinality(ClientRows(id)), Cardinality(ServerRows(id)))
    BY <2>1 DEF Selection
  <2> HIDE DEF id
  <2>7. i \in S <=> ServerRows(id) # {}
    BY <2>3, <2>5, <2>6 DEF Smaller
  <2> QED
    BY <2>7 DEF id
<1>2. S \subseteq DOMAIN table
  BY DEF Selection
<1> QED
  BY <1>1, <1>2 DEF CommonRows

\* What any client prints is the size and the sums of one and the same choice of
\* rows, in which each identifier is as often as in the file that has it less
\* often (SetIntersection, AddElement, DecryptResult).
THEOREM PrintsOneSelection == Spec => []OneSelection
<1>1. AggregatesInv => OneSelection
  BY DEF AggregatesInv, OutputInv, OneSelection
<1> QED
  BY <1>1, AggregatesInvariant, PTL

\* A client whose identifiers are all different prints the exact size and sums,
\* whatever the order of the rows, the repetitions in the server's file and the
\* modes of the two programs.
THEOREM PrintsExactly == Spec => []ExactWhenDistinct
<1>1. ASSUME AggregatesInv PROVE ExactWhenDistinct
  <2> SUFFICES ASSUME stage = "printed", DistinctRows
               PROVE  Reports(CommonRows)
    BY DEF ExactWhenDistinct
  <2>1. PICK S \in SUBSET DOMAIN table : Selection(S) /\ Reports(S)
    BY <1>1 DEF AggregatesInv, OutputInv
  <2>2. S = CommonRows
    BY <1>1, <2>1, OneChoice DEF AggregatesInv
  <2> QED
    BY <2>1, <2>2
<1> QED
  BY <1>1, AggregatesInvariant, PTL
=============================================================================
