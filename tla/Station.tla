------------------------------ MODULE Station ------------------------------
(***************************************************************************)
(* A sale on its way through the station: the packets of the POS, the JSON *)
(* thread that serves them (Mediator/jsonMediator/JsonWorker.cpp), the     *)
(* mediator and the router between it and the journal and the pump line    *)
(* (ConcreateMediator.cpp, ColumnWorker.cpp), the poll thread of the line, *)
(* and the pumps.                                                          *)
(*                                                                         *)
(* Journal, pump and POS learn of a sale at different times, and nothing   *)
(* but the address of the pump connects what they know: an amount is       *)
(* booked on the pump's newest row, and answered with the id of the        *)
(* pump's newest row.  The model keeps, as history, which row ordered each *)
(* supply, to say when these are the right ones.                           *)
(*                                                                         *)
(* The journal's SQL is TransactionControl's.  The state map is StateMap   *)
(* without its clock: any state may be outdated when it is read.  The pump *)
(* line is ColumnLine with one step per request and its answer: either may *)
(* be lost, and an answer may come late, in place of the next one.         *)
(***************************************************************************)
EXTENDS JsonProtocol, FiniteSetsExt

CONSTANTS
    Pumps,          \* the columns of the configuration
    NozzlesOf,      \* the number of nozzles of each
    Users,          \* the password of each POS user
    Requests,       \* what the POS may send: sequences of packets
    Headers,        \* the Authorization it may send them with: <<login, password>>, or a
                    \* header that is not taken apart
    Amounts,        \* Amounts[n]: what the n-th supply dispenses, in ml, whatever was ordered
    LateTypes,      \* bound: the kinds of answer that may still be read when they are late
    MaxRows,        \* bound: sales in the journal
    MaxCmds         \* bound: commands waiting for the line

\* What the six digits of a pump can show, in ml: they count 10 ml.
MaxVolume == 9999990

\* The packets a request can have.
Packets == UNION {{request[i] : i \in DOMAIN request} : request \in Requests}

ASSUME PumpsAssumption   == Pumps \subseteq Nat \ {0} /\ NozzlesOf \in [Pumps -> Nat]
ASSUME RequestsAssumption == \A request \in Requests : request \in Seq(Packets)
ASSUME AmountsAssumption == Amounts \in Seq(0..MaxVolume)
ASSUME BoundsAssumption  == MaxRows \in Nat /\ MaxCmds \in Nat

VARIABLES
    transactions,   \* the journal's table of sales
    packets,        \* the rest of the request being served
    pc,             \* where the JSON thread is with the first of them
    dbId,           \* the id addTransaction has given to its command
    lastDispense,   \* the last supply of each pump the POS was told the end of
    told,           \* history: the answers it was told of in
    byClose,        \* history: the pumps whose last end it was told without an id, in answer
                    \* to CLOSE_REPORT
    columnCmds,     \* the commands waiting for the line
    states,         \* the state map of the line
    transactionHolder, \* the last supply of each pump the line knows the end of
    late,           \* the answer of each pump that has missed its time, if there is one
    pump,           \* the pumps
    supplies,       \* history: all supplies that have ended
    booked,         \* history: the supply that wrote the amount of each row, or 0
    marred,         \* history: rows that were not alone with their pump
    hasty,          \* history: rows for which a CLOSE_REPORT came before the end was read
    overtaken       \* history: rows that were followed by another before their sale was over

journalVars == <<transactions, booked, marred, hasty, overtaken>>
jsonVars    == <<packets, pc, dbId, lastDispense, told, byClose>>
lineVars    == <<columnCmds, states, transactionHolder, late>>
pumpVars    == <<pump, supplies>>
vars        == <<journalVars, jsonVars, lineVars, pumpVars>>

Supplies == 0..Len(Amounts)
Volumes  == 0..MaxVolume
Rows     == 0..MaxRows

Journal ==
    INSTANCE TransactionControl WITH
        FiscalLines <- {}, RequestedVolumes <- {}, MaxTotals <- 0,
        simulations <- <<>>, totals <- 0, lastRowid <- 0, pending <- 0, told <- <<0, 0>>

StateTypes == {"HANGED_FREE", "FUEL_SUPPLY", "SUPPLY_DONE", "TOTAL_RESPONSE", "NOT_SERVED"}

\* A state as the map holds it, and none for a pump that has never answered; also an
\* answer that is late, and none.
State == [id : Pumps, type : StateTypes, dbId : Rows, volume : Volumes, supply : Supplies]

Unknown == [type |-> "UNKNOWN"]

\* A pump that has no order.
Idle == [phase |-> "idle", sale |-> 0, supply |-> 0]

\* What a pump is at, for which row, and the number of the supply it is done with.
PumpState ==
    [phase : {"idle", "authorized", "filling", "done"}, sale : Rows, supply : Supplies]

\* A row of the journal: open, supplied or closed.
SaleRow == [pump : Pumps, state : {1, 3, 4}, volume : Volumes]

\* A supply that has ended, the row that ordered it and whether the pump has closed it.
Supply == [pump : Pumps, sale : Rows, closed : BOOLEAN, volume : Volumes]

\* The answers that are remembered in told.
Answers ==
    [Type : {"OK", "PumpEndOfTransactionStatus"}, Pump : Pumps \cup {0},
     Transaction : Rows, Volume : 0..(MaxVolume \div 10 + 1), supply : Supplies]

TypeOK ==
    /\ transactions \in Seq(SaleRow) /\ Len(transactions) <= MaxRows
    /\ booked \in Seq(Supplies) /\ Len(booked) = Len(transactions)
    /\ marred \cup hasty \cup overtaken \subseteq DOMAIN transactions
    /\ packets \in Seq(Packets)
    /\ pc \in {"idle", "authorize", "push", "state"}
    /\ dbId \in Rows
    /\ lastDispense \in [Pumps -> [transaction : Rows, volume : Volumes, supply : Supplies]]
    /\ told \in [Pumps -> Answers] /\ byClose \subseteq Pumps
    /\ \A i \in DOMAIN columnCmds : columnCmds[i].id \in Pumps /\ columnCmds[i].dbId \in Rows
    /\ states \in [Pumps -> State \cup {Unknown}] /\ late \in [Pumps -> State \cup {Unknown}]
    /\ transactionHolder \in [Pumps -> Supplies]
    /\ pump \in [Pumps -> PumpState]
    /\ supplies \in Seq(Supply) /\ Len(supplies) <= Len(Amounts)

Init ==
    /\ transactions = <<>> /\ booked = <<>> /\ marred = {} /\ hasty = {} /\ overtaken = {}
    /\ packets = <<>> /\ pc = "idle" /\ dbId = 0
    /\ lastDispense = [p \in Pumps |-> NoDispense]
    /\ told = [p \in Pumps |-> Confirmation] /\ byClose = {}
    /\ columnCmds = <<>>
    /\ states = [p \in Pumps |-> Unknown] /\ late = [p \in Pumps |-> Unknown]
    /\ transactionHolder = [p \in Pumps |-> 0]
    /\ pump = [p \in Pumps |-> Idle]
    /\ supplies = <<>>

-----------------------------------------------------------------------------
(***************************************************************************)
(* What the histories say of a row.                                        *)
(***************************************************************************)
Newest(p) == {r \in DOMAIN transactions : Journal!IsLatest(transactions, p, r)}

Orders(p) == {i \in DOMAIN columnCmds :
                columnCmds[i].id = p /\ columnCmds[i].cmdType = "WRITE_VOLUME"}

\* Nothing of an earlier sale of p is left anywhere: no order waits or is obeyed, and
\* the end of no supply is waiting to be read or on its way.
AtRest(p) ==
    /\ pump[p].phase = "idle"
    /\ Orders(p) = {}
    /\ states[p].type # "SUPPLY_DONE"
    /\ late[p].type # "SUPPLY_DONE"

\* An order that no row was inserted for reaches the line while a row is open.
MarredBy(order) ==
    IF order.cmdType = "WRITE_VOLUME" /\ order.dbId = 0
    THEN {r \in Newest(order.id) : transactions[r].state = 1}
    ELSE {}

-----------------------------------------------------------------------------
(***************************************************************************)
(* The router and the mediator.                                            *)
(***************************************************************************)

\* ColumnWorker::addCmd, of a pump that is configured; safeQueue::push_back
AddCmd(c) ==
    /\ Len(columnCmds) < MaxCmds
    /\ columnCmds' = Append(columnCmds, c)
    /\ marred' = marred \cup MarredBy(c)

\* The bug of a mediator that books an amount while it is still growing.
CheckDbUpdatesWhileFilling(s) ==
    IF s.type \in {"SUPPLY_DONE", "FUEL_SUPPLY"}
    THEN /\ transactions' = Journal!UpdateLatest(transactions, s.id, 1, 3, s.volume)
         /\ booked' = [r \in DOMAIN booked |->
                          IF transactions'[r] # transactions[r] THEN s.supply ELSE booked[r]]
    ELSE UNCHANGED <<transactions, booked>>

\* checkDbUpdates: updateTransaction does nothing with FUEL_SUPPLY.
CheckDbUpdates(s) ==
    IF s.type = "SUPPLY_DONE"
    THEN /\ transactions' = Journal!UpdateLatest(transactions, s.id, 1, 3, s.volume)
         /\ booked' = [r \in DOMAIN booked |->
                          IF transactions'[r] # transactions[r] THEN s.supply ELSE booked[r]]
    ELSE UNCHANGED <<transactions, booked>>

\* gettransactionDbId: the newest row of the pump, whatever its state; 0 if there is none
TransactionId(p) == Max(Newest(p) \cup {0})

Offline(p) == [id |-> p, type |-> "NOT_SERVED", dbId |-> 0, volume |-> 0, supply |-> 0]

Known(p) == p \in Pumps /\ states[p] # Unknown

\* ColumnWorker::getState of a known pump: the state may be actual or outdated.
StatesOf(p) == IF Known(p) THEN {states[p], Offline(p)} ELSE {}

\* What StateMap::getState leaves of a state in the map.
Left(p, s) == IF s.type = "TOTAL_RESPONSE" THEN Offline(p) ELSE s

-----------------------------------------------------------------------------
(***************************************************************************)
(* The JSON thread (postJsonPtsCaller).                                    *)
(***************************************************************************)
\* The header that checkUser takes without a user.
TestHeader == <<"testyurii1234">>

CheckUserPass(login, pass) == login \in DOMAIN Users /\ Users[login] = pass

CheckUser(header) == header = TestHeader \/ CheckUserPass(header[1], header[2])

\* postJsonPtsCaller: what is served next, if nothing is being served: a packet of the
\* request, or a request of a user.  Any other is answered with nothing.
Served ==
    IF pc # "idle" THEN {}
    ELSE IF packets # <<>> THEN {packets}
    ELSE {request \in Requests : request # <<>> /\ \E header \in Headers : CheckUser(header)}

\* The command of the first packet of a request, the only one.
Commands(request) == {[ParseCmd(Head(request)) EXCEPT !.dbId = dbId]}

\* The end of the work on the first packet of a request.  Its answer is kept until those
\* of all packets are sent together, which nothing but the POS notices.
Respond(request, answer) ==
    /\ told' = IF answer.Type = "PumpEndOfTransactionStatus"
               THEN [told EXCEPT ![answer.Pump] = answer]
               ELSE told
    /\ packets' = Tail(request)
    /\ pc' = "idle"
    /\ dbId' = 0

\* An exception leaves postJsonPtsCaller by exit(1), and any other end of the process
\* is the same: the journal stays, and so do the pumps.
Stop ==
    /\ packets' = <<>> /\ pc' = "idle" /\ dbId' = 0
    /\ lastDispense' = [p \in Pumps |-> NoDispense]
    /\ told' = [p \in Pumps |-> Confirmation] /\ byClose' = {}
    /\ columnCmds' = <<>>
    /\ states' = [p \in Pumps |-> Unknown]
    /\ transactionHolder' = [p \in Pumps |-> 0]
    /\ UNCHANGED <<journalVars, late, pumpVars>>

\* getProductByPumpNozzle finds the product of the nozzle.
Configured(c) == c.id \in Pumps /\ c.nozzle \in 1..NozzlesOf[c.id]

\* jsonCheck: addTransaction inserts the row, or fails to, and then the command goes on
\* with the id 0.
JsonCheck(request, c) ==
    /\ c.cmdType = "WRITE_VOLUME" /\ Configured(c)
    /\ \/ /\ Len(transactions) < MaxRows
          /\ transactions' = Journal!Insert(transactions, c.id)
          /\ booked' = Append(booked, 0)
          /\ marred' = IF AtRest(c.id) THEN marred ELSE marred \cup {Len(transactions')}
          /\ overtaken' = IF AtRest(c.id) THEN overtaken ELSE overtaken \cup Newest(c.id)
          /\ dbId' = Len(transactions')
          /\ UNCHANGED hasty
       \/ UNCHANGED <<journalVars, dbId>>
    /\ packets' = request
    /\ pc' = "authorize"
    /\ UNCHANGED <<lastDispense, told, byClose, lineVars, pumpVars>>

\* addTransaction, addSimulation: there is no such pump or nozzle, at() throws.
NoSuchNozzle(c) ==
    /\ c.cmdType \in {"WRITE_VOLUME", "CHANGE_SCENARIOS"} /\ ~Configured(c)
    /\ Stop

\* operateTechCmd; the prices of WRITE_PRICE go into a map that nothing reads.
OperateTechCmd ==
    [GRADES_CONFIG |-> "CONFIGURATION", PUMP_CONFIG |-> "PUMP_CONFIGURATION",
     WRITE_PRICE |-> "SET_PRICE"]

\* processTechCmd, and CONFIRMATION, which is answered like it.
TechResponse ==
    [GRADES_CONFIG |-> OperateTechCmd.GRADES_CONFIG, PUMP_CONFIG |-> OperateTechCmd.PUMP_CONFIG,
     WRITE_PRICE |-> OperateTechCmd.WRITE_PRICE, CHANGE_SCENARIOS |-> "SCENARIO",
     GET_BATTERY |-> "BATTERY", GET_SD |-> "SD_INFO", CONFIRMATION |-> "SCENARIO"]

ProcessTechCmd(request, c) ==
    /\ c.cmdType \in DOMAIN TechResponse
    /\ c.cmdType = "CHANGE_SCENARIOS" => Configured(c)
    /\ Respond(request, PrepareTech(TechResponse[c.cmdType]))
    /\ UNCHANGED <<journalVars, lastDispense, byClose, lineVars, pumpVars>>

\* The answer to a state s, which preparePacketStr may remember.
Answered(request, s) ==
    /\ Respond(request, PreparePacketStr(s, IF s.id \in Pumps THEN lastDispense[s.id]
                                            ELSE NoDispense))
    /\ lastDispense' = IF s.type = "SUPPLY_DONE"
                       THEN [lastDispense EXCEPT ![s.id] = Dispensed(s)]
                       ELSE lastDispense
    /\ byClose' = IF s.type # "SUPPLY_DONE" THEN byClose
                  ELSE IF pc = "state" /\ s.dbId = 0 THEN byClose \cup {s.id} ELSE byClose \ {s.id}

\* The id of the transaction is put into the object that the map holds, once.
WithId(s) ==
    IF s.type = "SUPPLY_DONE" /\ s.dbId <= 0 THEN [s EXCEPT !.dbId = TransactionId(s.id)] ELSE s

\* processCmd, STATUS_REQUEST
ProcessStatusRequest(request, c) ==
    LET p == c.id
    IN  /\ c.cmdType = "STATUS_REQUEST"
        /\ \/ /\ ~Known(p)
              /\ Answered(request, Offline(p))
              /\ UNCHANGED <<transactions, booked, states>>
           \/ \E s \in StatesOf(p) :
                 /\ CheckDbUpdates(s)
                 /\ Answered(request, WithId(s))
                 /\ states' = [states EXCEPT ![p] = Left(p, WithId(s))]
        /\ UNCHANGED <<marred, hasty, overtaken, columnCmds, transactionHolder, late, pumpVars>>

\* The states processCmd makes up for a command that it has queued.
QueuedReply ==
    [WRITE_VOLUME |-> "AUTHORIZE_REGISTERED", STOP_COMMAND |-> "SUPPLY_STOPPED",
     GET_TOTAL |-> "TRANSACTION_ClOSED"]

\* processCmd: the command is queued, and answered before the pump has it.
QueueCmd(request, c) ==
    /\ c.cmdType \in DOMAIN QueuedReply /\ c.id \in Pumps
    /\ AddCmd(c)
    /\ Answered(request, [Offline(c.id) EXCEPT !.type = QueuedReply[c.cmdType],
                                               !.dbId = c.dbId])
    /\ UNCHANGED <<transactions, booked, hasty, overtaken, states, transactionHolder, late,
                   pumpVars>>

\* ColumnWorker::addCmd: there is no such pump, at() throws.
NoSuchPump(c) == c.id \notin Pumps /\ Stop

\* The bug of a mediator that queues the command and forgets the row ...
CloseRowNever(p) == UNCHANGED transactions

\* updateTransactionFromCmd: the newest row is closed if its amount has been booked.
CloseRow(p) == transactions' = Journal!UpdateLatest(transactions, p, 3, 4, Journal!Keep)

\* processCmd, CLOSE_REPORT: the mediator's addCmd closes the row first (there is none of
\* a pump that is not configured) ...
UpdateTransactionFromCmd(request, c) ==
    /\ c.cmdType = "CLOSE_REPORT" /\ c.id \in Pumps
    /\ CloseRow(c.id)
    /\ hasty' = hasty \cup {r \in Newest(c.id) \ marred : transactions[r].state = 1}
    /\ packets' = request
    /\ pc' = "push"
    /\ UNCHANGED <<booked, marred, overtaken, dbId, lastDispense, told, byClose, lineVars,
                   pumpVars>>

\* ... queues the command ...
PushClose(c) ==
    /\ AddCmd(c)
    /\ pc' = "state"
    /\ UNCHANGED <<transactions, booked, hasty, overtaken, packets, dbId, lastDispense, told,
                   byClose, states, transactionHolder, late, pumpVars>>

\* ... and only then reads the state, which may be an end that is not booked yet.
ReadStateAfterClose(p) ==
    LET closed == [Offline(p) EXCEPT !.type = "TRANSACTION_ClOSED"]
    IN  /\ \/ /\ ~Known(p)
              /\ Answered(packets, closed)
              /\ UNCHANGED <<transactions, booked, states>>
           \/ \E s \in StatesOf(p) :
                 /\ CheckDbUpdates(s)
                 /\ Answered(packets, IF s.type = "SUPPLY_DONE" THEN s ELSE closed)
                 /\ states' = [states EXCEPT ![p] = Left(p, s)]
        /\ UNCHANGED <<marred, hasty, overtaken, columnCmds, transactionHolder, late, pumpVars>>

-----------------------------------------------------------------------------
(***************************************************************************)
(* The poll thread of the line.                                            *)
(***************************************************************************)

\* What pump p says of itself when it is in that state and those supplies have ended.
Report(p, state, ended) ==
    LET phase == state.phase
    IN  [id     |-> p,
         type   |-> CASE phase = "filling" -> "FUEL_SUPPLY"
                      [] phase = "done"    -> "SUPPLY_DONE"
                      [] OTHER             -> "HANGED_FREE",
         dbId   |-> 0,
         volume |-> CASE phase = "filling" -> 1
                      [] phase = "done"    -> ended[state.supply].volume
                      [] OTHER             -> 0,
         supply |-> IF phase = "done" THEN state.supply ELSE 0]

ReportOf(p) == Report(p, pump[p], supplies)

TotalsOf(p) == [Offline(p) EXCEPT !.type = "TOTAL_RESPONSE", !.volume = 2000]

\* states.addState: totals wait until they are read.
AddState(p, s) ==
    states' = IF states[p].type = "TOTAL_RESPONSE" THEN states ELSE [states EXCEPT ![p] = s]

\* parseResponse and addState: the protocol remembers the end of a supply.
Read(p, s) ==
    /\ AddState(p, s)
    /\ transactionHolder' = IF s.type = "SUPPLY_DONE"
                            THEN [transactionHolder EXCEPT ![p] = s.supply]
                            ELSE transactionHolder

\* transmit: the answer comes in time, or it does not; then what was late is read in its
\* place, if anything was, and the answer is late or lost.
Transmit(p, answer) ==
    \/ /\ Read(p, answer)
       /\ late' = [late EXCEPT ![p] = Unknown]
    \/ /\ IF late[p] = Unknown THEN UNCHANGED <<states, transactionHolder>> ELSE Read(p, late[p])
       /\ \/ late' = [late EXCEPT ![p] = Unknown]
          \/ answer.type \in LateTypes /\ late' = [late EXCEPT ![p] = answer]

\* processStatus: the pump is asked what it is at.
Poll(p) ==
    /\ columnCmds = <<>>
    /\ Transmit(p, ReportOf(p))
    /\ UNCHANGED <<journalVars, jsonVars, columnCmds, pumpVars>>

\* The next number of a supply is taken when it ends.
Ended(p) ==
    /\ Len(supplies) < Len(Amounts)
    /\ supplies' = Append(supplies,
                      [pump |-> p, sale |-> pump[p].sale, closed |-> FALSE,
                       volume |-> Amounts[Len(supplies) + 1]])
    /\ pump' = [pump EXCEPT ![p].phase = "done", ![p].supply = Len(supplies')]

\* What a pump does with a command that reaches it.  No order is obeyed that would have no
\* amount left to dispense.
Authorize(c) ==
    /\ pump[c.id].phase \in {"idle", "authorized"}
    /\ Len(supplies) < Len(Amounts)
    /\ pump' = [pump EXCEPT ![c.id] = [@ EXCEPT !.phase = "authorized", !.sale = c.dbId]]
    /\ UNCHANGED supplies

Close(c) ==
    /\ pump[c.id].phase = "done"
    /\ transactionHolder[c.id] = pump[c.id].supply
    /\ pump' = [pump EXCEPT ![c.id] = Idle]
    /\ supplies' = [supplies EXCEPT ![pump[c.id].supply].closed = TRUE]

Halt(c) ==
    \/ pump[c.id].phase = "filling" /\ Ended(c.id)
    \/ /\ pump[c.id].phase = "authorized"
       /\ pump' = [pump EXCEPT ![c.id] = Idle]
       /\ UNCHANGED supplies

Obey(c) ==
    \/ c.cmdType = "WRITE_VOLUME" /\ Authorize(c)
    \/ c.cmdType = "CLOSE_REPORT" /\ Close(c)
    \/ c.cmdType = "STOP_COMMAND" /\ Halt(c)

\* processCmd: the oldest command leaves the queue; it reaches the pump, which may obey
\* it and says what it is at, or it is dropped or lost.
ProcessCmd ==
    LET c == Head(columnCmds)
    IN  /\ columnCmds # <<>>
        /\ columnCmds' = Tail(columnCmds)
        /\ \/ Obey(c) /\ Transmit(c.id, Report(c.id, pump'[c.id], supplies'))
           \/ UNCHANGED pumpVars /\ Transmit(c.id, ReportOf(c.id))
           \/ /\ c.cmdType = "GET_TOTAL"
              /\ UNCHANGED pumpVars
              /\ Transmit(c.id, TotalsOf(c.id))
           \/ UNCHANGED <<states, transactionHolder, late, pumpVars>>
        /\ UNCHANGED <<journalVars, jsonVars>>

\* processStatus of an Adast pump whose keyboard was used: addCmd(makeCmd(...)), and no
\* row is inserted.
Keyboard(p) ==
    /\ pump[p].phase = "idle"
    /\ columnCmds = <<>>
    /\ AddCmd(Cmd("WRITE_VOLUME", p, 1, 999000))
    /\ UNCHANGED <<transactions, booked, hasty, overtaken, jsonVars, states, transactionHolder,
                   late, pumpVars>>

-----------------------------------------------------------------------------
\* The customer takes the nozzle, hangs it up, or leaves an authorised pump.
Customer(p) ==
    /\ \/ /\ pump[p].phase = "authorized"
          /\ pump' \in {[pump EXCEPT ![p].phase = "filling"], [pump EXCEPT ![p] = Idle]}
          /\ UNCHANGED supplies
       \/ pump[p].phase = "filling" /\ Ended(p)
    /\ UNCHANGED <<journalVars, jsonVars, lineVars>>

\* The first step of the work on a packet.
ServePacket ==
    \E request \in Served : \E c \in Commands(request) :
        \/ JsonCheck(request, c)
        \/ NoSuchNozzle(c)
        \/ ProcessTechCmd(request, c)
        \/ ProcessStatusRequest(request, c)
        \/ UpdateTransactionFromCmd(request, c)
        \/ c.cmdType \in {"STOP_COMMAND", "GET_TOTAL"} /\ QueueCmd(request, c)
        \/ c.cmdType \in {"STOP_COMMAND", "GET_TOTAL", "CLOSE_REPORT"} /\ NoSuchPump(c)

\* The steps that follow.
GoOn ==
    /\ packets # <<>>
    /\ \E c \in Commands(packets) :
          \/ pc = "authorize" /\ QueueCmd(packets, c)
          \/ pc = "push" /\ PushClose(c)
          \/ pc = "state" /\ ReadStateAfterClose(c.id)

JsonThread ==
    \/ ServePacket
    \/ GoOn

PollThread ==
    \/ ProcessCmd
    \/ \E p \in Pumps : Poll(p) \/ Keyboard(p)

Next ==
    \/ JsonThread
    \/ PollThread
    \/ \E p \in Pumps : Customer(p)
    \/ Stop

Spec == Init /\ [][Next]_vars

-----------------------------------------------------------------------------
\* An amount is booked on the row of the sale that ordered it, whole, and so on no other:
\* for every row that was opened when its pump was at rest and was not joined by an order
\* without a row (no other is spoken of), whatever was lost, read twice, closed early or
\* stopped, also when the rows before and after it are not of this kind (checkDbUpdates
\* books what is read on the newest row).
OwnVolume ==
    \A r \in DOMAIN transactions \ marred :
        transactions[r].state >= 3 =>
            /\ booked[r] # 0
            /\ supplies[booked[r]].sale = r
            /\ transactions[r].volume = supplies[booked[r]].volume

\* The answer names a row, if one was inserted for the supply it is about.
NamesRow(answer) ==
    answer.supply # 0 /\ supplies[answer.supply].sale # 0 => answer.Transaction # 0

\* The row that it names, if any, is the one that ordered the supply, and the volume is
\* what is booked, rounded up by less than 20 ml.  Nothing is said of a row that was not
\* alone with its pump, nor of a supply that no row was inserted for: such a one is told
\* under the id of the newest row.
AsBooked(answer) ==
    LET r == answer.Transaction
    IN  r # 0 /\ r \notin marred /\ supplies[answer.supply].sale # 0
            => /\ supplies[answer.supply].sale = r
               /\ 10 * answer.Volume - transactions[r].volume \in 0..19

\* The Last... fields, which every status of the idle pump repeats.
LastTold(p) == PreparePacketStr([Offline(p) EXCEPT !.type = "HANGED_FREE"], lastDispense[p])

\* What the POS is told of the end of a sale agrees with the journal.  The answer to a
\* status, in which gettransactionDbId's id is set, always names the row; the answer to
\* CLOSE_REPORT, for which processCmd does not set it, may say Transaction 0 of an end
\* that no status has told before, and so may the Last... fields that follow it.
ToldAsBooked ==
    \A p \in Pumps : \A answer \in {told[p], LastTold(p)} :
        /\ AsBooked(answer)
        /\ p \notin byClose => NamesRow(answer)

\* The supply of a row that a pump has closed is closed in the journal, but for three
\* kinds of row: one that was not alone with its pump; one whose CLOSE_REPORT came before
\* its end was read, so that the UPDATE, which goes before the queue, did not find it
\* supplied; and one that was no longer the newest of its pump when the UPDATE came, since
\* another had been inserted before the sale was over: it stays open, or supplied, for
\* ever.
ClosedInJournal ==
    \A n \in DOMAIN supplies :
        LET r == supplies[n].sale
        IN  supplies[n].closed /\ r # 0
                => transactions[r].state = 4 \/ r \in marred \cup hasty \cup overtaken
=============================================================================
