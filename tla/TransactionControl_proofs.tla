---------------------- MODULE TransactionControl_proofs ----------------------
(***************************************************************************)
(* Theorems about the journal, for every set of pumps, of fiscal lines and *)
(* of volumes, and for tables of any length.                               *)
(***************************************************************************)
EXTENDS TransactionControl, SequenceTheorems, TLAPS

-----------------------------------------------------------------------------
(***************************************************************************)
(* What the two SQL statements do to a table.                              *)
(***************************************************************************)

\* An INSERT adds an open row of pump p at the end and leaves the others alone.
LEMMA InsertRow ==
    ASSUME NEW S, NEW table \in Seq(S), NEW p,
           [pump |-> p, state |-> 1, volume |-> 0] \in S
    PROVE  /\ Insert(table, p) \in Seq(S)
           /\ Len(Insert(table, p)) = Len(table) + 1
           /\ DOMAIN Insert(table, p) = 1..(Len(table) + 1)
           /\ \A i \in DOMAIN table : Insert(table, p)[i] = table[i]
           /\ Insert(table, p)[Len(table) + 1] = [pump |-> p, state |-> 1, volume |-> 0]
  <1> DEFINE row == [pump |-> p, state |-> 1, volume |-> 0]
  <1>1. row \in S /\ Insert(table, p) = Append(table, row)
    BY DEF Insert
  <1> HIDE DEF row
  <1>2. /\ Append(table, row) \in Seq(S)
        /\ Len(Append(table, row)) = Len(table) + 1
        /\ DOMAIN Append(table, row) = 1..(Len(table) + 1)
        /\ \A i \in DOMAIN table : Append(table, row)[i] = table[i]
        /\ Append(table, row)[Len(table) + 1] = row
    BY <1>1
  <1> QED
    BY <1>1, <1>2 DEF row

\* An UPDATE keeps the length of the table, the type and the pump of its rows.
LEMMA UpdateRow ==
    ASSUME NEW states, NEW volumes,
           NEW table \in Seq(Row(states, volumes)), NEW p \in Pumps,
           NEW from, NEW to \in states, NEW v \in volumes \cup {Keep}
    PROVE  /\ UpdateLatest(table, p, from, to, v) \in Seq(Row(states, volumes))
           /\ DOMAIN UpdateLatest(table, p, from, to, v) = DOMAIN table
           /\ \A i \in DOMAIN table :
                 UpdateLatest(table, p, from, to, v)[i].pump = table[i].pump
  <1> DEFINE new == UpdateLatest(table, p, from, to, v)
  <1>1. DOMAIN table = 1..Len(table) /\ Len(table) \in Nat
    OBVIOUS
  <1>2. ASSUME NEW i \in 1..Len(table)
        PROVE  new[i] \in Row(states, volumes) /\ new[i].pump = table[i].pump
    <2>1. table[i] \in Row(states, volumes)
      BY <1>1
    <2>2. CASE IsLatest(table, p, i) /\ table[i].state = from
      <3>1. new[i] = [pump |-> p, state |-> to,
                      volume |-> IF v = Keep THEN table[i].volume ELSE v]
        BY <1>1, <2>2 DEF UpdateLatest
      <3>2. table[i].volume \in volumes \cup {0} /\ table[i].pump = p
        BY <2>1, <2>2 DEF Row, IsLatest
      <3> QED
        BY <3>1, <3>2 DEF Row
    <2>3. CASE ~(IsLatest(table, p, i) /\ table[i].state = from)
      BY <1>1, <2>1, <2>3 DEF UpdateLatest
    <2> QED
      BY <2>2, <2>3
  <1>3. new = [i \in 1..Len(table) |-> new[i]]
    BY <1>1 DEF UpdateLatest
  <1>4. new \in [1..Len(table) -> Row(states, volumes)]
    BY <1>2, <1>3
  <1> QED
    BY <1>1, <1>2, <1>4, SeqDef

-----------------------------------------------------------------------------
\* TypeOK of TransactionControl is inductive.
LEMMA TypeInit == Init => TypeOK
  BY DEF Init, TypeOK

LEMMA TypeStep == TypeOK /\ [Next]_vars => TypeOK'
  <1> SUFFICES ASSUME TypeOK, [Next]_vars PROVE TypeOK'
    OBVIOUS
  <1> USE DEF TypeOK
  <1>1. ASSUME NEW p \in Pumps, AddTransaction(p) PROVE TypeOK'
    <2>1. [pump |-> p, state |-> 1, volume |-> 0] \in SaleRow
      BY DEF SaleRow, Row
    <2>2. /\ transactions' \in Seq(SaleRow)
          /\ Len(transactions') = Len(transactions) + 1
          /\ DOMAIN transactions' = 1..(Len(transactions) + 1)
      BY <1>1, <2>1, InsertRow DEF AddTransaction
    <2> QED
      BY <1>1, <2>2 DEF AddTransaction
  <1>2. CASE AddTransactionFails
    BY <1>2 DEF AddTransactionFails
  <1>3. CASE LastInsertRowid
    BY <1>3 DEF LastInsertRowid
  <1>4. ASSUME NEW p \in Pumps, NEW v \in Volumes, UpdateTransaction(p, v)
        PROVE  TypeOK'
    <2> DEFINE T == {1, 3, 4}
    <2>0. 3 \in T /\ transactions \in Seq(Row(T, Volumes)) /\ v \in Volumes \cup {Keep}
      BY DEF SaleRow
    <2> HIDE DEF T
    <2>1. /\ UpdateLatest(transactions, p, 1, 3, v) \in Seq(Row(T, Volumes))
          /\ DOMAIN UpdateLatest(transactions, p, 1, 3, v) = DOMAIN transactions
      BY <2>0, UpdateRow
    <2>2. transactions' = UpdateLatest(transactions, p, 1, 3, v)
      BY <1>4 DEF UpdateTransaction
    <2>3. transactions' \in Seq(Row(T, Volumes)) /\ DOMAIN transactions' = DOMAIN transactions
      BY <2>1, <2>2
    <2> QED
      BY <1>4, <2>3 DEF UpdateTransaction, SaleRow, T
  <1>5. ASSUME NEW p \in Pumps, UpdateTransactionFromCmd(p)
        PROVE  TypeOK'
    <2> DEFINE T == {1, 3, 4}
    <2>0. 4 \in T /\ transactions \in Seq(Row(T, Volumes)) /\ Keep \in Volumes \cup {Keep}
      BY DEF SaleRow
    <2> HIDE DEF T
    <2>1. /\ UpdateLatest(transactions, p, 3, 4, Keep) \in Seq(Row(T, Volumes))
          /\ DOMAIN UpdateLatest(transactions, p, 3, 4, Keep) = DOMAIN transactions
      BY <2>0, UpdateRow
    <2>2. transactions' = UpdateLatest(transactions, p, 3, 4, Keep)
      BY <1>5 DEF UpdateTransactionFromCmd
    <2>3. transactions' \in Seq(Row(T, Volumes)) /\ DOMAIN transactions' = DOMAIN transactions
      BY <2>1, <2>2
    <2> QED
      BY <1>5, <2>3 DEF UpdateTransactionFromCmd, SaleRow, T
  <1>6. ASSUME NEW p \in Pumps, AddSimulation(p) PROVE TypeOK'
    <2>1. [pump |-> p, state |-> 1, volume |-> 0] \in SimulationRow
      BY DEF SimulationRow, Row
    <2>2. simulations' \in Seq(SimulationRow) /\ Len(simulations') = Len(simulations) + 1
      BY <1>6, <2>1, InsertRow DEF AddSimulation
    <2> QED
      BY <1>6, <2>2 DEF AddSimulation
  <1>7. ASSUME NEW f \in FiscalLines, NEW p \in Pumps, NEW v \in RequestedVolumes,
               AuthorizeSimulation(f, p, v)
        PROVE  TypeOK'
    <2> DEFINE T == {1, 2, 3}
    <2>0. /\ 2 \in T /\ simulations \in Seq(Row(T, RequestedVolumes))
          /\ v \in RequestedVolumes \cup {Keep}
      BY DEF SimulationRow
    <2> HIDE DEF T
    <2>1. simulations' \in Seq(Row(T, RequestedVolumes))
      BY <1>7, <2>0, UpdateRow DEF AuthorizeSimulation
    <2> QED
      BY <1>7, <2>1 DEF AuthorizeSimulation, SimulationRow, T
  <1>8. ASSUME NEW f \in FiscalLines, NEW p \in Pumps, StopSimulation(f, p)
        PROVE  TypeOK'
    <2> DEFINE T == {1, 2, 3}
    <2>0. /\ 3 \in T /\ simulations \in Seq(Row(T, RequestedVolumes))
          /\ Keep \in RequestedVolumes \cup {Keep}
      BY DEF SimulationRow
    <2> HIDE DEF T
    <2>1. simulations' \in Seq(Row(T, RequestedVolumes))
      BY <1>8, <2>0, UpdateRow DEF StopSimulation
    <2> QED
      BY <1>8, <2>1 DEF StopSimulation, SimulationRow, T
  <1>9. ASSUME NEW f \in FiscalLines, AddTotalKassaInfo(f) PROVE TypeOK'
    BY <1>9 DEF AddTotalKassaInfo
  <1>10. CASE Restart
    BY <1>10 DEF Restart
  <1>11. CASE UNCHANGED vars
    BY <1>11 DEF vars
  <1> QED
    BY <1>1, <1>2, <1>3, <1>4, <1>5, <1>6, <1>7, <1>8, <1>9, <1>10, <1>11
    DEF Next, JsonThread, FiscalThread

\* The tables only ever hold rows of the documented states, and the JSON
\* thread waits for the id of a row that exists.
THEOREM Typing == Spec => []TypeOK
  BY TypeInit, TypeStep, PTL DEF Spec

-----------------------------------------------------------------------------
(***************************************************************************)
(* The two SQL statements seen through the refinement mapping.             *)
(***************************************************************************)

\* An INSERT opens a record of p, retires the one p had, and nothing else.
LEMMA InsertMaps ==
    ASSUME NEW S, NEW table \in Seq(S), NEW p \in Pumps, NEW worked,
           [pump |-> p, state |-> 1, volume |-> 0] \in S
    PROVE  /\ CurrentOf(Insert(table, p), worked) =
                 [CurrentOf(table, worked) EXCEPT ![p] =
                     {[id |-> Len(table) + 1, stage |-> 1, volume |-> 0]}]
           /\ RetiredOf(Insert(table, p), worked) =
                 RetiredOf(table, worked) \cup {<<p, r>> : r \in CurrentOf(table, worked)[p]}
  <1> DEFINE new == Insert(table, p)
             n   == Len(table) + 1
             Old(q) == {i \in DOMAIN table : IsLatest(table, q, i)}
             New(q) == {i \in DOMAIN new : IsLatest(new, q, i)}
  <1>1. /\ DOMAIN table = 1..Len(table) /\ Len(table) \in Nat
        /\ DOMAIN new = 1..n
        /\ \A i \in DOMAIN table : new[i] = table[i]
        /\ new[n] = [pump |-> p, state |-> 1, volume |-> 0]
    BY InsertRow
  <1> HIDE DEF new
  <1>2. New(p) = {n}
    BY <1>1 DEF IsLatest
  <1>3. \A q \in Pumps \ {p} : New(q) = Old(q)
    BY <1>1 DEF IsLatest
  <1>4. \A i \in DOMAIN table : RecordOf(new, i, worked) = RecordOf(table, i, worked)
    BY <1>1 DEF RecordOf
  <1>5. RecordOf(new, n, worked) = [id |-> n, stage |-> 1, volume |-> 0]
    BY <1>1 DEF RecordOf, StageOf
  <1>6. CurrentOf(new, worked) =
           [CurrentOf(table, worked) EXCEPT ![p] = {[id |-> n, stage |-> 1, volume |-> 0]}]
    <2>1. CurrentOf(new, worked)[p] = {[id |-> n, stage |-> 1, volume |-> 0]}
      BY <1>2, <1>5 DEF CurrentOf
    <2>2. ASSUME NEW q \in Pumps \ {p}
          PROVE  CurrentOf(new, worked)[q] = CurrentOf(table, worked)[q]
      BY <1>3, <1>4 DEF CurrentOf
    <2> QED
      BY <2>1, <2>2 DEF CurrentOf
  <1>7. RetiredOf(new, worked) =
           RetiredOf(table, worked) \cup {<<p, r>> : r \in CurrentOf(table, worked)[p]}
    <2>1. {i \in DOMAIN new : ~IsLatest(new, new[i].pump, i)} =
             {i \in DOMAIN table : ~IsLatest(table, table[i].pump, i)} \cup Old(p)
      BY <1>1 DEF IsLatest
    <2>2. \A i \in DOMAIN table : new[i].pump = table[i].pump
      BY <1>1
    <2>3. \A i \in Old(p) : table[i].pump = p
      BY DEF IsLatest
    <2>4. CurrentOf(table, worked)[p] = {RecordOf(table, i, worked) : i \in Old(p)}
      BY DEF CurrentOf
    <2> QED
      BY <1>4, <2>1, <2>2, <2>3, <2>4 DEF RetiredOf
  <1> QED
    BY <1>6, <1>7 DEF new

\* What an UPDATE of the current row i of p means for the record log.
Updated(old, new, i, p, from, to, v, worked) ==
    /\ CurrentOf(old, worked)[p] = {RecordOf(old, i, worked)}
    /\ old[i].state = from
    /\ CurrentOf(new, worked) =
          [CurrentOf(old, worked) EXCEPT ![p] =
              {[id |-> i, stage |-> StageOf(to, worked),
                volume |-> IF v = Keep THEN old[i].volume ELSE v]}]
    /\ RetiredOf(new, worked) = RetiredOf(old, worked)

\* An UPDATE that finds its row rewrites the current record of p, and nothing
\* else; an UPDATE that finds none does nothing.
LEMMA UpdateMaps ==
    ASSUME NEW S, NEW table \in Seq(S), NEW p \in Pumps, NEW worked,
           NEW from, NEW to, NEW v
    PROVE  \/ UpdateLatest(table, p, from, to, v) = table
           \/ \E i \in DOMAIN table :
                 Updated(table, UpdateLatest(table, p, from, to, v), i, p, from, to, v, worked)
  <1> DEFINE new == UpdateLatest(table, p, from, to, v)
             Hit(i) == IsLatest(table, p, i) /\ table[i].state = from
             upd(i) == [pump |-> p, state |-> to,
                        volume |-> IF v = Keep THEN table[i].volume ELSE v]
  <1>1. /\ DOMAIN table = 1..Len(table) /\ Len(table) \in Nat
        /\ DOMAIN new = DOMAIN table
        /\ \A i \in DOMAIN table : new[i] = IF Hit(i) THEN upd(i) ELSE table[i]
    BY DEF UpdateLatest
  <1>2. CASE \A i \in DOMAIN table : ~Hit(i)
    <2>1. \A i \in DOMAIN table : new[i] = table[i]
      BY <1>1, <1>2
    <2>2. new = [i \in 1..Len(table) |-> new[i]] /\ table = [i \in 1..Len(table) |-> table[i]]
      BY <1>1 DEF UpdateLatest
    <2> QED
      BY <1>1, <2>1, <2>2
  <1>3. CASE \E i \in DOMAIN table : Hit(i)
    <2>1. PICK i \in DOMAIN table : Hit(i)
      BY <1>3
    <2>2. \A j \in DOMAIN table : IsLatest(table, p, j) <=> j = i
      BY <1>1, <2>1 DEF IsLatest
    <2>3. \A j \in DOMAIN table : j # i => new[j] = table[j]
      BY <1>1, <2>2
    <2>4. new[i] = upd(i)
      BY <1>1, <2>1
    <2>5. \A j \in DOMAIN table : new[j].pump = table[j].pump
      BY <2>1, <2>3, <2>4 DEF IsLatest
    <2> HIDE DEF new
    <2>6. \A q \in Pumps, j \in DOMAIN table : IsLatest(new, q, j) <=> IsLatest(table, q, j)
      BY <1>1, <2>5 DEF IsLatest
    <2>7. \A j \in DOMAIN table :
            j # i => RecordOf(new, j, worked) = RecordOf(table, j, worked)
      BY <2>3 DEF RecordOf
    <2>8. RecordOf(new, i, worked) =
             [id |-> i, stage |-> StageOf(to, worked),
              volume |-> IF v = Keep THEN table[i].volume ELSE v]
      BY <2>4 DEF RecordOf
    <2>9. CurrentOf(table, worked)[p] = {RecordOf(table, i, worked)}
      BY <2>1, <2>2 DEF CurrentOf
    <2>10. CurrentOf(new, worked) =
              [CurrentOf(table, worked) EXCEPT ![p] = {RecordOf(new, i, worked)}]
      <3>1. CurrentOf(new, worked)[p] = {RecordOf(new, i, worked)}
        BY <1>1, <2>1, <2>2, <2>6 DEF CurrentOf
      <3>2. ASSUME NEW q \in Pumps \ {p}
            PROVE  CurrentOf(new, worked)[q] = CurrentOf(table, worked)[q]
        <4>1. \A j \in DOMAIN table : IsLatest(table, q, j) => j # i
          BY <2>1 DEF IsLatest
        <4> QED
          BY <1>1, <2>6, <2>7, <4>1 DEF CurrentOf
      <3> QED
        BY <3>1, <3>2 DEF CurrentOf
    <2>11. RetiredOf(new, worked) = RetiredOf(table, worked)
      <3>1. table[i].pump = p /\ IsLatest(table, p, i)
        BY <2>1 DEF IsLatest
      <3>2. \A j \in DOMAIN table :
              /\ IsLatest(new, new[j].pump, j) <=> IsLatest(table, table[j].pump, j)
              /\ ~IsLatest(table, table[j].pump, j) => j # i
        BY <1>1, <2>5, <3>1 DEF IsLatest
      <3> QED
        BY <1>1, <2>5, <2>7, <3>2 DEF RetiredOf
    <2>12. Updated(table, new, i, p, from, to, v, worked)
      BY <2>1, <2>8, <2>9, <2>10, <2>11 DEF Updated
    <2> QED
      BY <2>12 DEF new
  <1> QED
    BY <1>2, <1>3

-----------------------------------------------------------------------------
\* An id never taken: the ids of both kinds of records are rows of the table.
LEMMA UsedIdsAreRows ==
    /\ Sales!UsedIds \subseteq DOMAIN transactions
    /\ SimulatedSales!UsedIds \subseteq DOMAIN simulations
  <1>1. ASSUME NEW table, NEW worked,
               NEW id \in {r.id : r \in UNION {CurrentOf(table, worked)[p] : p \in Pumps}}
                          \cup {pr[2].id : pr \in RetiredOf(table, worked)}
        PROVE  id \in DOMAIN table
    <2>1. CASE \E p \in Pumps : \E r \in CurrentOf(table, worked)[p] : id = r.id
      BY <2>1 DEF CurrentOf, RecordOf
    <2>2. CASE \E pr \in RetiredOf(table, worked) : id = pr[2].id
      BY <2>2 DEF RetiredOf, RecordOf
    <2> QED
      BY <1>1, <2>1, <2>2
  <1> QED
    BY <1>1 DEF Sales!UsedIds, SimulatedSales!UsedIds

LEMMA SalesInit == Init => Sales!Init
  BY DEF Init, Sales!Init, CurrentOf, RetiredOf

LEMMA SalesStep == TypeOK /\ [Next]_vars => [Sales!Next]_(Sales!vars)
  <1> SUFFICES ASSUME TypeOK, [Next]_vars PROVE [Sales!Next]_(Sales!vars)
    OBVIOUS
  <1>1. transactions \in Seq(SaleRow)
    BY DEF TypeOK
  <1>2. ASSUME UNCHANGED transactions PROVE UNCHANGED Sales!vars
    BY <1>2 DEF Sales!vars, CurrentOf, RetiredOf, IsLatest, RecordOf
  <1>3. ASSUME NEW p \in Pumps, AddTransaction(p) PROVE Sales!Next
    <2> DEFINE n == Len(transactions) + 1
    <2>1. [pump |-> p, state |-> 1, volume |-> 0] \in SaleRow
      BY DEF SaleRow, Row
    <2>2. /\ CurrentOf(transactions, 3)' =
                [CurrentOf(transactions, 3) EXCEPT ![p] =
                    {[id |-> n, stage |-> 1, volume |-> 0]}]
          /\ RetiredOf(transactions, 3)' =
                RetiredOf(transactions, 3) \cup {<<p, r>> : r \in CurrentOf(transactions, 3)[p]}
      <3>1. transactions' = Insert(transactions, p)
        BY <1>3 DEF AddTransaction
      <3> QED
        BY <1>1, <2>1, <3>1, InsertMaps
    <2>3. n \in Ids /\ n \notin Sales!UsedIds
      BY <1>1, <1>3, UsedIdsAreRows, BoundsAssumption DEF AddTransaction, Ids
    <2>4. Sales!Open(p, n)
      BY <2>2, <2>3 DEF Sales!Open, Sales!Opened
    <2> QED
      BY <2>3, <2>4 DEF Sales!Next
  <1>4. ASSUME NEW p \in Pumps, NEW v \in Volumes, UpdateTransaction(p, v)
        PROVE  Sales!Next \/ UNCHANGED Sales!vars
    <2>1. transactions' = UpdateLatest(transactions, p, 1, 3, v)
      BY <1>4 DEF UpdateTransaction
    <2>2. CASE transactions' = transactions
      BY <1>2, <2>2
    <2>3. ASSUME NEW i \in DOMAIN transactions,
                 Updated(transactions, transactions', i, p, 1, 3, v, 3)
          PROVE  Sales!Work(p, v)
      <3>1. v # Keep
        BY VolumesAssumption DEF Keep
      <3>2. /\ RecordOf(transactions, i, 3).id = i
            /\ RecordOf(transactions, i, 3).stage = 1
        BY <2>3 DEF Updated, RecordOf, StageOf
      <3> QED
        BY <2>3, <3>1, <3>2 DEF Updated, Sales!Work, Sales!Opened, Sales!Worked, StageOf
    <2>4. transactions' = transactions \/ Sales!Work(p, v)
      BY <1>1, <2>1, <2>3, UpdateMaps
    <2> QED
      BY <2>2, <2>4 DEF Sales!Next
  <1>5. ASSUME NEW p \in Pumps, UpdateTransactionFromCmd(p)
        PROVE  Sales!Next \/ UNCHANGED Sales!vars
    <2>1. transactions' = UpdateLatest(transactions, p, 3, 4, Keep)
      BY <1>5 DEF UpdateTransactionFromCmd
    <2>2. CASE transactions' = transactions
      BY <1>2, <2>2
    <2>3. ASSUME NEW i \in DOMAIN transactions,
                 Updated(transactions, transactions', i, p, 3, 4, Keep, 3)
          PROVE  Sales!Finish(p)
      <3>1. /\ RecordOf(transactions, i, 3).id = i
            /\ RecordOf(transactions, i, 3).stage = 2
            /\ RecordOf(transactions, i, 3).volume = transactions[i].volume
        BY <2>3 DEF Updated, RecordOf, StageOf
      <3> QED
        BY <2>3, <3>1 DEF Updated, Sales!Finish, Sales!Worked, Sales!Finished, StageOf
    <2>4. transactions' = transactions \/ Sales!Finish(p)
      BY <1>1, <2>1, <2>3, UpdateMaps
    <2> QED
      BY <2>2, <2>4 DEF Sales!Next
  <1>6. ASSUME NEW p \in Pumps, AddSimulation(p) PROVE UNCHANGED transactions
    BY <1>6 DEF AddSimulation
  <1>7. CASE AddTransactionFails \/ LastInsertRowid \/ Restart
    BY <1>2, <1>7 DEF AddTransactionFails, LastInsertRowid, Restart
  <1>8. ASSUME NEW f \in FiscalLines, FiscalThread(f) PROVE UNCHANGED transactions
    BY <1>8 DEF FiscalThread, AddTotalKassaInfo, AuthorizeSimulation, StopSimulation
  <1>9. CASE UNCHANGED vars
    BY <1>2, <1>9 DEF vars
  <1> QED
    BY <1>2, <1>3, <1>4, <1>5, <1>6, <1>7, <1>8, <1>9 DEF Next, JsonThread

\* The table of sales keeps what the record log promises: every sale is
\* opened, supplied and closed in this order, its volume is written once, and
\* a sale that a newer one has replaced never changes again.
THEOREM SalesAreLogged == Spec => SalesLogged
  <1>1. Init => Sales!Init
    BY SalesInit
  <1>2. TypeOK /\ [Next]_vars => [Sales!Next]_(Sales!vars)
    BY SalesStep
  <1> QED
    BY <1>1, <1>2, Typing, PTL DEF Spec, SalesLogged, Sales!Spec

-----------------------------------------------------------------------------

LEMMA SimulationsInit == Init => SimulatedSales!Init
  BY DEF Init, SimulatedSales!Init, CurrentOf, RetiredOf

LEMMA SimulationsStep == TypeOK /\ [Next]_vars => [SimulatedSales!Next]_(SimulatedSales!vars)
  <1> SUFFICES ASSUME TypeOK, [Next]_vars PROVE [SimulatedSales!Next]_(SimulatedSales!vars)
    OBVIOUS
  <1>1. simulations \in Seq(SimulationRow)
    BY DEF TypeOK
  <1>2. ASSUME UNCHANGED simulations PROVE UNCHANGED SimulatedSales!vars
    BY <1>2 DEF SimulatedSales!vars, CurrentOf, RetiredOf, IsLatest, RecordOf
  <1>3. ASSUME NEW p \in Pumps, AddSimulation(p) PROVE SimulatedSales!Next
    <2> DEFINE n == Len(simulations) + 1
    <2>1. [pump |-> p, state |-> 1, volume |-> 0] \in SimulationRow
      BY DEF SimulationRow, Row
    <2>2. /\ CurrentOf(simulations, 2)' =
                [CurrentOf(simulations, 2) EXCEPT ![p] =
                    {[id |-> n, stage |-> 1, volume |-> 0]}]
          /\ RetiredOf(simulations, 2)' =
                RetiredOf(simulations, 2) \cup {<<p, r>> : r \in CurrentOf(simulations, 2)[p]}
      <3>1. simulations' = Insert(simulations, p)
        BY <1>3 DEF AddSimulation
      <3> QED
        BY <1>1, <2>1, <3>1, InsertMaps
    <2>3. n \in Ids /\ n \notin SimulatedSales!UsedIds
      BY <1>1, <1>3, UsedIdsAreRows, BoundsAssumption DEF AddSimulation, Ids
    <2>4. SimulatedSales!Open(p, n)
      BY <2>2, <2>3 DEF SimulatedSales!Open, SimulatedSales!Opened
    <2> QED
      BY <2>3, <2>4 DEF SimulatedSales!Next
  <1>4. ASSUME NEW p \in Pumps, NEW v \in RequestedVolumes,
               NEW f \in FiscalLines, AuthorizeSimulation(f, p, v)
        PROVE  SimulatedSales!Next \/ UNCHANGED SimulatedSales!vars
    <2>1. simulations' = UpdateLatest(simulations, p, 1, 2, v)
      BY <1>4 DEF AuthorizeSimulation
    <2>2. CASE simulations' = simulations
      BY <1>2, <2>2
    <2>3. ASSUME NEW i \in DOMAIN simulations,
                 Updated(simulations, simulations', i, p, 1, 2, v, 2)
          PROVE  SimulatedSales!Work(p, v)
      <3>1. v # Keep
        BY VolumesAssumption DEF Keep
      <3>2. /\ RecordOf(simulations, i, 2).id = i
            /\ RecordOf(simulations, i, 2).stage = 1
        BY <2>3 DEF Updated, RecordOf, StageOf
      <3> QED
        BY <2>3, <3>1, <3>2 DEF Updated, SimulatedSales!Work, SimulatedSales!Opened,
                                SimulatedSales!Worked, StageOf
    <2>4. simulations' = simulations \/ SimulatedSales!Work(p, v)
      BY <1>1, <2>1, <2>3, UpdateMaps
    <2> QED
      BY <2>2, <2>4 DEF SimulatedSales!Next
  <1>5. ASSUME NEW p \in Pumps, NEW f \in FiscalLines, StopSimulation(f, p)
        PROVE  SimulatedSales!Next \/ UNCHANGED SimulatedSales!vars
    <2>1. simulations' = UpdateLatest(simulations, p, 2, 3, Keep)
      BY <1>5 DEF StopSimulation
    <2>2. CASE simulations' = simulations
      BY <1>2, <2>2
    <2>3. ASSUME NEW i \in DOMAIN simulations,
                 Updated(simulations, simulations', i, p, 2, 3, Keep, 2)
          PROVE  SimulatedSales!Finish(p)
      <3>1. /\ RecordOf(simulations, i, 2).id = i
            /\ RecordOf(simulations, i, 2).stage = 2
            /\ RecordOf(simulations, i, 2).volume = simulations[i].volume
        BY <2>3 DEF Updated, RecordOf, StageOf
      <3> QED
        BY <2>3, <3>1 DEF Updated, SimulatedSales!Finish, SimulatedSales!Worked,
                          SimulatedSales!Finished, StageOf
    <2>4. simulations' = simulations \/ SimulatedSales!Finish(p)
      BY <1>1, <2>1, <2>3, UpdateMaps
    <2> QED
      BY <2>2, <2>4 DEF SimulatedSales!Next
  <1>6. ASSUME NEW p \in Pumps,
               \/ AddTransaction(p)
               \/ \E v \in Volumes : UpdateTransaction(p, v)
               \/ UpdateTransactionFromCmd(p)
        PROVE  UNCHANGED simulations
    BY <1>6 DEF AddTransaction, UpdateTransaction, UpdateTransactionFromCmd
  <1>7. CASE AddTransactionFails \/ LastInsertRowid \/ Restart
    BY <1>2, <1>7 DEF AddTransactionFails, LastInsertRowid, Restart
  <1>8. ASSUME NEW f \in FiscalLines, AddTotalKassaInfo(f) PROVE UNCHANGED simulations
    BY <1>8 DEF AddTotalKassaInfo
  <1>9. CASE UNCHANGED vars
    BY <1>2, <1>9 DEF vars
  <1> QED
    BY <1>2, <1>3, <1>4, <1>5, <1>6, <1>7, <1>8, <1>9 DEF Next, JsonThread, FiscalThread

\* The table of simulated sales keeps the same promise, whatever the JSON
\* thread (which opens them) and the fiscal threads (which authorise and stop
\* them) do at once.
THEOREM SimulationsAreLogged == Spec => SimulationsLogged
  <1>1. Init => SimulatedSales!Init
    BY SimulationsInit
  <1>2. TypeOK /\ [Next]_vars => [SimulatedSales!Next]_(SimulatedSales!vars)
    BY SimulationsStep
  <1> QED
    BY <1>1, <1>2, Typing, PTL DEF Spec, SimulationsLogged, SimulatedSales!Spec

-----------------------------------------------------------------------------
\* Without fiscal lines the JSON thread is alone on the connection: from the
\* INSERT of a sale to the reading of its id the register holds that id.
LastRowidIsPending == pending # 0 => lastRowid = pending

LEMMA OwnRowStep ==
    ASSUME FiscalLines = {}
    PROVE  LastRowidIsPending /\ ToldOwnRow /\ [Next]_vars
              => (LastRowidIsPending /\ ToldOwnRow)'
  <1> SUFFICES ASSUME LastRowidIsPending, ToldOwnRow, [Next]_vars
               PROVE  (LastRowidIsPending /\ ToldOwnRow)'
    OBVIOUS
  <1> USE DEF LastRowidIsPending, ToldOwnRow
  <1>1. ASSUME NEW p \in Pumps, AddTransaction(p)
        PROVE  (LastRowidIsPending /\ ToldOwnRow)'
    BY <1>1 DEF AddTransaction
  <1>2. CASE AddTransactionFails
    BY <1>2 DEF AddTransactionFails
  <1>3. CASE LastInsertRowid
    BY <1>3 DEF LastInsertRowid
  <1>4. ASSUME NEW p \in Pumps, NEW v \in Volumes,
               UpdateTransaction(p, v) \/ UpdateTransactionFromCmd(p)
        PROVE  (LastRowidIsPending /\ ToldOwnRow)'
    BY <1>4 DEF UpdateTransaction, UpdateTransactionFromCmd
  <1>5. ASSUME NEW p \in Pumps, UpdateTransactionFromCmd(p) \/ AddSimulation(p)
        PROVE  (LastRowidIsPending /\ ToldOwnRow)'
    BY <1>5 DEF UpdateTransactionFromCmd, AddSimulation
  <1>6. CASE Restart
    BY <1>6 DEF Restart
  <1>7. CASE UNCHANGED vars
    BY <1>7 DEF vars
  <1> QED
    BY <1>1, <1>2, <1>3, <1>4, <1>5, <1>6, <1>7 DEF Next, JsonThread

\* In a station without fiscal lines the POS is told the row of its own sale;
\* the run told_own_row shows that one fiscal line is enough to break this.
THEOREM OwnRowWithoutFiscalLines ==
    ASSUME FiscalLines = {}
    PROVE  Spec => []ToldOwnRow
  <1>1. Init => LastRowidIsPending /\ ToldOwnRow
    BY DEF Init, LastRowidIsPending, ToldOwnRow
  <1>2. LastRowidIsPending /\ ToldOwnRow /\ [Next]_vars
           => (LastRowidIsPending /\ ToldOwnRow)'
    BY OwnRowStep
  <1> QED
    BY <1>1, <1>2, PTL DEF Spec
=============================================================================
