------------------------- MODULE TransactionControl -------------------------
(***************************************************************************)
(* The journal of the station (src/src/DataBase/TransactionControl.cpp):   *)
(* the sqlite tables `transactions' (sales), `simulations' (sales played   *)
(* to the fiscal devices) and `totals', and the one connection that all    *)
(* threads share.                                                          *)
(*                                                                         *)
(* The JSON thread inserts and updates sales and inserts simulations; the  *)
(* thread of each fiscal line updates simulations and inserts totals.  One *)
(* sqlite3_exec is one step (sqlite serialises the calls on a connection); *)
(* sqlite3_last_insert_rowid is a second call, hence a second step, and    *)
(* reads a register of the CONNECTION that any thread's INSERT sets.       *)
(***************************************************************************)
EXTENDS Integers, Sequences

CONSTANTS
    Pumps,          \* the pumps of the configuration
    FiscalLines,    \* the fiscal lines, one thread each; {} if none is configured
    Volumes,        \* volumes a pump can report as supplied
    RequestedVolumes, \* volumes a fiscal device can ask for
    MaxRows,        \* bound: rows of `transactions', and of `simulations'
    MaxTotals       \* bound: rows of `totals'

ASSUME VolumesAssumption == Volumes \subseteq Nat /\ RequestedVolumes \subseteq Nat
ASSUME BoundsAssumption  == MaxRows \in Nat /\ MaxTotals \in Nat

VARIABLES
    transactions,   \* the table of sales; a row's id is its position (AUTOINCREMENT)
    simulations,    \* the table of simulated sales, likewise
    totals,         \* the number of rows of `totals', hence the id of the last
    lastRowid,      \* sqlite3_last_insert_rowid of the shared connection
    pending,        \* the row the JSON thread has inserted and whose id it has
                    \* not read yet; 0 if there is none
    told            \* history: the last sale's <<row inserted, id its command was given>>

vars == <<transactions, simulations, totals, lastRowid, pending, told>>

\* The rows of a table; a volume column is 0 until it is written.
Row(states, volumes) == [pump : Pumps, state : states, volume : volumes \cup {0}]

SaleRow       == Row({1, 3, 4}, Volumes)            \* open, supplied, closed
SimulationRow == Row({1, 2, 3}, RequestedVolumes)   \* open, authorised, stopped

TypeOK ==
    /\ transactions \in Seq(SaleRow)
    /\ simulations \in Seq(SimulationRow)
    /\ totals \in Nat
    /\ lastRowid \in Nat
    /\ pending \in {0} \cup DOMAIN transactions
    /\ told \in Nat \X Nat

Init ==
    /\ transactions = <<>>
    /\ simulations = <<>>
    /\ totals = 0
    /\ lastRowid = 0
    /\ pending = 0
    /\ told = <<0, 0>>

-----------------------------------------------------------------------------
(***************************************************************************)
(* The SQL both tables are written with.                                   *)
(***************************************************************************)

\* id = (SELECT MAX(id) FROM table WHERE pump = p)
IsLatest(table, p, id) ==
    /\ id \in DOMAIN table
    /\ table[id].pump = p
    /\ \A j \in DOMAIN table : table[j].pump = p => j <= id

\* The bug of a table whose `state' does not start at 1.
InsertWithoutDefault(table, p) == Append(table, [pump |-> p, state |-> 0, volume |-> 0])

\* INSERT INTO table (..., pump, ...): `state' defaults to 1, the volumes to 0.
Insert(table, p) == Append(table, [pump |-> p, state |-> 1, volume |-> 0])

\* A volume column that an UPDATE leaves alone.
Keep == -1

\* The bug of an UPDATE without "AND state = from".
UpdateLatestAnyState(table, p, from, to, v) ==
    [i \in DOMAIN table |->
        IF IsLatest(table, p, i)
        THEN [pump |-> p, state |-> to, volume |-> IF v = Keep THEN table[i].volume ELSE v]
        ELSE table[i]]

\* The bug of an UPDATE that selects by pump and state only.
UpdateEvery(table, p, from, to, v) ==
    [i \in DOMAIN table |->
        IF table[i].pump = p /\ table[i].state = from
        THEN [pump |-> p, state |-> to, volume |-> IF v = Keep THEN table[i].volume ELSE v]
        ELSE table[i]]

\* UPDATE table SET state = to, volume = v
\*   WHERE id = (SELECT MAX(id) FROM table WHERE pump = p) AND state = from
UpdateLatest(table, p, from, to, v) ==
    [i \in DOMAIN table |->
        IF IsLatest(table, p, i) /\ table[i].state = from
        THEN [pump |-> p, state |-> to, volume |-> IF v = Keep THEN table[i].volume ELSE v]
        ELSE table[i]]

-----------------------------------------------------------------------------
(***************************************************************************)
(* The JSON thread.  It serves one request at a time, so none of its calls *)
(* comes between the INSERT of a sale and the reading of its id.           *)
(***************************************************************************)

\* addTransaction, up to the INSERT.
AddTransaction(p) ==
    /\ pending = 0
    /\ Len(transactions) < MaxRows
    /\ transactions' = Insert(transactions, p)
    /\ lastRowid' = Len(transactions')
    /\ pending' = Len(transactions')
    /\ UNCHANGED <<simulations, totals, told>>

\* addTransaction, when the INSERT fails: the command keeps its default id 0
\* and goes on to the pump all the same.
AddTransactionFails ==
    /\ pending = 0
    /\ told' = <<0, 0>>
    /\ UNCHANGED <<transactions, simulations, totals, lastRowid, pending>>

\* addTransaction, from sqlite3_last_insert_rowid on: the id goes to the
\* command, and from there to the POS in the reply to its AUTHORIZE.
LastInsertRowid ==
    /\ pending # 0
    /\ told' = <<pending, lastRowid>>
    /\ pending' = 0
    /\ UNCHANGED <<transactions, simulations, totals, lastRowid>>

\* updateTransaction: the POS has read the state SUPPLY_DONE of pump p.
UpdateTransaction(p, v) ==
    /\ pending = 0
    /\ transactions' = UpdateLatest(transactions, p, 1, 3, v)
    /\ UNCHANGED <<simulations, totals, lastRowid, pending, told>>

\* updateTransactionFromCmd: the POS has sent CLOSE_REPORT for pump p.
UpdateTransactionFromCmd(p) ==
    /\ pending = 0
    /\ transactions' = UpdateLatest(transactions, p, 3, 4, Keep)
    /\ UNCHANGED <<simulations, totals, lastRowid, pending, told>>

\* addSimulation: the POS has sent CHANGE_SCENARIOS.  The rowid it reads is
\* only logged.
AddSimulation(p) ==
    /\ pending = 0
    /\ Len(simulations) < MaxRows
    /\ simulations' = Insert(simulations, p)
    /\ lastRowid' = Len(simulations')
    /\ UNCHANGED <<transactions, totals, pending, told>>

-----------------------------------------------------------------------------
(***************************************************************************)
(* The thread of a fiscal line.                                            *)
(***************************************************************************)

\* updateSimulationFromCmd, WRITE_VOLUME: `requestedvolume' is the volume here.
AuthorizeSimulation(f, p, v) ==
    /\ f \in FiscalLines
    /\ simulations' = UpdateLatest(simulations, p, 1, 2, v)
    /\ UNCHANGED <<transactions, totals, lastRowid, pending, told>>

\* updateSimulationFromCmd, STOP_COMMAND.
StopSimulation(f, p) ==
    /\ f \in FiscalLines
    /\ simulations' = UpdateLatest(simulations, p, 2, 3, Keep)
    /\ UNCHANGED <<transactions, totals, lastRowid, pending, told>>

\* addTotalKassaInfo: a simulated supply was reported done.
AddTotalKassaInfo(f) ==
    /\ f \in FiscalLines
    /\ totals < MaxTotals
    /\ totals' = totals + 1
    /\ lastRowid' = totals + 1
    /\ UNCHANGED <<transactions, simulations, pending, told>>

-----------------------------------------------------------------------------
(***************************************************************************)
(* The process stops at any moment and is started again: openDB and        *)
(* initTables (CREATE TABLE IF NOT EXISTS) find the rows that were         *)
(* written, on a connection that has inserted nothing.                     *)
(***************************************************************************)
Restart ==
    /\ lastRowid' = 0
    /\ pending' = 0
    /\ UNCHANGED <<transactions, simulations, totals, told>>

JsonThread ==
    \/ AddTransactionFails
    \/ LastInsertRowid
    \/ \E p \in Pumps :
          \/ AddTransaction(p)
          \/ \E v \in Volumes : UpdateTransaction(p, v)
          \/ UpdateTransactionFromCmd(p)
          \/ AddSimulation(p)

FiscalThread(f) ==
    \/ AddTotalKassaInfo(f)
    \/ \E p \in Pumps :
          \/ \E v \in RequestedVolumes : AuthorizeSimulation(f, p, v)
          \/ StopSimulation(f, p)

Next ==
    \/ JsonThread
    \/ \E f \in FiscalLines : FiscalThread(f)
    \/ Restart

Spec == Init /\ [][Next]_vars

-----------------------------------------------------------------------------
(***************************************************************************)
(* The two tables as record logs.                                          *)
(***************************************************************************)

Ids == 1..MaxRows

StageOf(state, worked) == IF state = 1 THEN 1 ELSE IF state = worked THEN 2 ELSE 3

RecordOf(table, i, worked) ==
    [id     |-> i,
     stage  |-> StageOf(table[i].state, worked),
     volume |-> table[i].volume]

CurrentOf(table, worked) ==
    [p \in Pumps |->
        {RecordOf(table, i, worked) : i \in {j \in DOMAIN table : IsLatest(table, p, j)}}]

RetiredOf(table, worked) ==
    {<<table[i].pump, RecordOf(table, i, worked)>> :
        i \in {j \in DOMAIN table : ~IsLatest(table, table[j].pump, j)}}

Sales ==
    INSTANCE RecordLog WITH
        current <- CurrentOf(transactions, 3),
        retired <- RetiredOf(transactions, 3)

SimulatedSales ==
    INSTANCE RecordLog WITH
        Volumes <- RequestedVolumes,
        current <- CurrentOf(simulations, 2),
        retired <- RetiredOf(simulations, 2)

\* A sale is opened, supplied and closed, in this order; its volume is written
\* once; and a sale that a newer one of its pump has replaced never changes
\* again, however often the POS reads SUPPLY_DONE or sends CLOSE_REPORT, and
\* whatever the fiscal threads and a restart do in between
\* (the WHERE clauses of updateTransaction and updateTransactionFromCmd).
SalesLogged == Sales!Spec

\* The same of the simulated sales, which the JSON thread opens and the fiscal
\* threads authorise and stop (the WHERE clauses of updateSimulationFromCmd).
SimulationsLogged == SimulatedSales!Spec

\* The id a sale's AUTHORIZE is answered with is the id of the row that was
\* inserted for it (addTransaction's sqlite3_last_insert_rowid).
ToldOwnRow == told[1] = told[2]
=============================================================================
