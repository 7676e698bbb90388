# A TLA+ model of softPTS

`PTS2_0` ("softPTS") controls the forecourt of a gas station: it polls the fuel
pumps, passes on the commands of the points of sale (POS), keeps a journal of
the sales in sqlite, and plays simulated sales to fiscal devices. This directory
holds a TLA+ model of it, TLC runs on small instances, and theorems about the
model that TLAPS checks. Every definition is translated from the source;
`PROJECT.json` names the lines of each.

## 1. The system

### Components

| Component (source) | State | Operations | Correct when |
|---|---|---|---|
| **Journal** `DataBase/TransactionControl` | sqlite tables `transactions`, `simulations`, `totals`; the last rowid of the one connection | `addTransaction`, `updateTransaction`, `updateTransactionFromCmd`, `addSimulation`, `updateSimulationFromCmd`, `addTotalKassaInfo` | records go through their stages in order, an amount is written once, a replaced record is final, the POS is told the id of its own row |
| **State map** `dataTypes/StateMap` | last state and time stamp of each pump, user flags | `addState`, `getState`, `setUserUpdateValidity` | nothing outdated is handed out; totals are handed out once and not overwritten |
| **JSON worker** `Mediator/jsonMediator/JsonWorker`, `ProtocolSlaveJson` | the ids cached in the shared reply objects | status requests, authorise, close, technical commands | a reply describes the pump as it is; a command reaches journal and pump alike |
| **Pump line** `Mediator/columnMediator/ColumnLine` | command queue, state map, connection, the column whose turn it is | `poll`, `processStatus`, `processCmd`, `addCmd`, `getState` | a reply is stored for the pump that sent it; commands go out once, in order, and no column starves |
| **Pump router** `ColumnWorker` | lines, prices of the columns | `addCmd`, `getState`, `operateTechCmd` | a command reaches the line of its pump; a new price is used |
| **Mediator** `ConcreateMediator` | references to the workers and the journal | `addCmd`, `getState`, `checkDbUpdates`, `checkKassaUpdates`, `changeLog` | row and pump agree about the sale |
| **Connections** `Connections/*` | socket, `connectionInited`, `failedReading` | `connectInit`, `transmit`, `readPacket`, `closeConnection` | a working connection stays, a descriptor is closed once |
| **Master protocols** `ProtocolMaster{Unipump,Adast,Shelf}` | by address: the last sale, the last price, the number of the last packet | building commands, parsing replies | a reply of another pump is not taken; numbers survive their encoding |
| **Fiscal devices** `Mediator/kassaMediator/{KassaWorker,Scenario}` | one scenario per simulated pump, its state, volume and time | `poll`, `processCmd`, `changeLogicType`, the operate functions | a simulated sale is authorised, played and journalled once |
| **Slave protocols** `ProtocolSlave{Shelf,...}` | none | parsing requests, building replies | numbers survive their encoding |
| **ReadersWriterLock, tsmap** `inc/utils` | counters, condition variables | lock and unlock; map operations | exclusion, no lost wake-up (included, never instantiated) |
| Configuration, logging, licence | files | read at start | not modelled: input and output |
| WAMP client | - | - | not modelled: the file is commented out |

`serialConnection`, `TcpServer`, `DB.h` and the Unipump and Adast slaves are
stubs; `lib/` is vendored.

### Threads and how the components interact

* The **JSON thread** (an HTTP server with a pool of one) serves one request at a
  time. It reads state maps, queues commands on pump lines, writes sales to the
  journal, and switches scenarios. An exception in a request ends the process
  (`JsonWorker.cpp:414`).
* One **poll thread per pump line** talks to the pumps behind one TCP gateway,
  fills the line's state map, and takes commands from the line's queue.
* One **fiscal thread per fiscal line** answers a fiscal device's polls, steps
  the scenarios and writes simulations and totals.
* All share **one sqlite connection**; a JSON and a poll thread share a state map
  (under `stateMx`) and a queue (`safeQueue`); a JSON and a fiscal thread share the
  scenarios (without a lock).

### What is hard

The protocols number neither requests nor replies, so a late reply is read for
another request's (`ColumnLine`, `Dialogue`), and what the masters remember of it is used
in later requests (`Dialogue`). The state map hands out the object it holds, so
reading and formatting a reply change what a later reader sees (`StatusReader`).
The id of an INSERT is read in a second call on the shared connection
(`TransactionControl`). The journal, the pump and the POS learn of a sale at
different times and are updated by separate calls (`Station`). The JSON
thread switches a scenario without a lock while a fiscal thread steps it, and a scenario
that times out may be authorised by the same command (`Scenario`).
The failed readings of a connection are never cleared. `PROJECT.json` lists each
hazard at its line with the properties that cover it, or says why none does. Readers and
writers of a `tsmap` count themselves and test each other without a common lock (`RWLock`,
`TsMap`); the program instantiates neither class, so this is modelled as what the headers
promise, and is no hazard of the program.

## 2. The modules

```
RecordLog <--(refines, twice)-- TransactionControl <-- TransactionControl_proofs
StateMap  <--EXTENDS-- StatusReader <-- StatusReader_proofs
StateMap  <--INSTANCE-- ColumnLine <-- ColumnLine_proofs
Scenario  <-- Scenario_proofs
Bytes <--EXTENDS-- Unipump, Adast, Shelf, ShelfSlave <--INSTANCE-- Dialogue
Dialogue <-- Dialogue_proofs
Bytes <--EXTENDS-- Checksums <-- MCDialogue (the checksums Dialogue takes as constants)
JsonProtocol <--EXTENDS-- Station --INSTANCE--> TransactionControl
Station <-- Station_proofs
ReadersWriter <--(refines)-- RWLock <-- RWLock_proofs
RWLock <--INSTANCE, twice-- TsMap <-- TsMap_proofs (uses RWLock_proofs)
```

**RecordLog** is the abstract specification of one table of the journal: each pump
has at most one current record, which is opened, worked and finished in this order;
opening another one retires it for ever.

**TransactionControl** is the journal: tables as sequences of rows (a row's id is
its position: `AUTOINCREMENT`, no DELETE), each SQL statement one step, with the
WHERE clauses as `IsLatest` and the `state = from` guard. `addTransaction` is two
steps, `AddTransaction` and `LastInsertRowid`, because the rowid is a register of
the connection that the fiscal threads' INSERTs set as well. `Restart` keeps the
tables and forgets what was pending. Column values other than pump, state and one
volume are left out.

**StateMap** is the map of a line. Reports are numbered as they arrive; of their
contents only what the map decides on is kept (totals, not served, any other
status). Time is whole seconds since the last report, up to one past the
validity time.

**StatusReader** adds the JSON thread's status requests: `ProcessStatusRequest`
(the `getState` call) and `PreparePacketStr`, which writes the user's name into the
object after the lock is gone. The histories `newest`, `sinceTotals`, `delivered`
exist for the properties, and so does `said`, what the last report of a pump was
when it came: a NOT_SERVED the map makes up is told from one the pump has sent.

**ColumnLine** is a pump line: one action per stretch of the poll loop between two
reads, the JSON thread's `addCmd` and `getState`, the clock, and the gateway, which
answers in order, late or never. A packet that TCP cuts in two is one that arrives
between the two reads. A read that returns nothing may be the one that closes the
connection. Of the commands, the three kinds that take different paths are kept:
with a price first (`WRITE_VOLUME`), with a remembered transaction
(`CLOSE_REPORT`), and without either (`GET_TOTAL`).

**Scenario** is the simulated sale. `states`, `elapsed` and `lastStateResponse` are the
members of each line's `Scenario` object; `fiscal` is the program counter and the local
copies of each fiscal thread, `json` of the JSON thread. A command of a device takes
the steps in which the code reads or writes shared data: journalling
(`CheckKassaUpdates`), the switches over logic and stage (`ReadLogic`, `ReadStage`), the
timeout, the second read (`ReadVolume`), the step of the sale, and the insert of totals
(`ProcessReply`). `changeLogicType` assigns the whole struct without the lock, which is a
data race: its stage and its other members are assigned in either order
(`AssignLogic`, `AssignStage`), and the fiscal threads may run in between. A stop in the last
stage is two writes as well, the whole struct and then its logic (`StopSale`, `StopLogic`),
between which a switch may come. Left out:
nozzle and price, which are only echoed; the stages `NOZZLE_UP` and `CLOSE` and the logic
`CONTROL`, which nothing sets; the replies to pumps that are not configured; a failure of
an SQL statement, which is logged and ignored. Of the journal only each pump's newest row
of `simulations` is kept, since `TransactionControl` shows that the others never change.
The histories `ordered`, `timedOut`, `overlapped` exist for the properties; `overlapped`
has the scenarios whose last switch and a command of whose device ran at the same time.

**Bytes, Unipump, Adast, Shelf, ShelfSlave** are the protocols as operators: a module has
one operator for each packet its master (or slave) builds, one for each it takes apart, and, as
the counterpart, what a pump makes of a request (`Heard`) and how it words a reply
(`Says`). Those two are of equipment that is not in the repository: they are marked external,
and read the layout that the code writes. The counterpart of `Shelf` is the program's own
slave, `ShelfSlave`. **Checksums** has the three checksums as the code
computes them, and assumptions, evaluated in the run `protocols`, that they are the remainders
of the polynomials they are meant to be, on samples of packets.

**Dialogue** is what a line of pumps and the program say to each other: the program's
requests (`Ask`, `Order`), its reading of replies (`Read`, with `CheckPacket` and
`ParseResponse`), what the masters remember by address (`holder`, `prices`,
`packetIndexCounter`), pumps that sell, and a wire that delays replies, loses requests and
spoils a byte. It takes any order of requests, which is more than the poll loop does. Each
reply on the wire carries, as history, what the pump meant by it. Where the code computes
in floating point, `ParseResponse` gives the set of the results the code may get. The master of
`Shelf` refuses every reply (`getAddrOfPacket` and `checkCheckSum` are stubs in its header that
return 0 and false), so for `Shelf` only requests are understood; `ShelfEndsCompared` compares the two ends all the same, and finds them to differ: of a
supply that runs the master reads the state of a nozzle that is up, of one that is done it takes the
volume two bytes further on than the slave puts it, and of totals it takes a byte of the volume for the
nozzles (`ShelfReadAs`). The rest of each reply is read as it was meant.

**JsonProtocol** is the POS's packets and answers as operators: `ParseCmd` with the fields it
requires and the kinds of numbers it accepts, `PreparePacketStr` with what it repeats of the last
supply, and the two roundings of a volume (`Millilitres`, `Hundredths`), exact on
the binary fractions of the code's floats and doubles.

**Station** is a sale on its way through the program. The JSON thread serves a request packet by
packet; a packet takes one step for each call whose effect another thread can see: for
`PumpAuthorize` the INSERT (`JsonCheck`), then the queue (`QueueCmd`); for
`PumpCloseTransaction` the UPDATE, the queue, and the reading of the state; everything else is one step. The
poll thread polls or passes on a command (`Poll`, `ProcessCmd`); an Adast keyboard queues an order
without a row (`Keyboard`); pumps obey or not, and customers come and go. `Stop` ends the
process at any point: an exception leaves it by `exit(1)`. SQL is taken from `TransactionControl`;
the state map is without the clock of `StateMap`, and the line without the bytes and the addresses of
`ColumnLine`; but an answer that missed its time is read in place of the next one (`late`, `Transmit`),
and since it is with the gateway it survives a restart. Histories say which row ordered a supply, and
name three kinds of row for which the code does not do what the properties say:

* `marred`: the row was opened before all of an earlier sale of the pump was over (an order waiting, the pump
  at work, its end in the map or on its way), or was joined by an order without a row. The code may
  book another sale's amount on it, since nothing but the pump's address connects them.
* `hasty`: CLOSE_REPORT came before the end of the sale was read. Its UPDATE goes before the
  queue and found the row open, where it stays.
* `overtaken`: another row was opened before the sale was over, so that the UPDATEs no longer
  find the row.

`OwnVolume` and the volumes of `ToldAsBooked` leave out the first kind, `ClosedInJournal` all three. The fourth
exception is of an answer: CLOSE_REPORT is answered with the state in the map, in which only a STATUS
puts the id of the transaction, so that it may tell an end as Transaction 0, and the Last... fields
of later answers with it (`byClose`). A status never does.

**ReadersWriter, RWLock, TsMap.** `ReadersWriter` is what a readers-writer lock promises.
`RWLock` has one step for each atomic operation of `ReadersWriterLock` in the styles MSL and
M2CV; in M2CV a test and the wait that follows are two steps, so that a notification sent without
the mutex can be lost between them. `TsMap` is two maps with a lock each, one of either style; a
call locks, reads, writes and unlocks, and `swap` holds both locks. `at` is left out: of a missing
key it throws with the map locked. `operator=` is modelled as written, although its `return` does
not compile when instantiated. Nothing that a call returns is used afterwards (iterators and
references are of a map that is no longer locked).

Definitions whose comment starts "The bug of" are not part of the model: each is a
plausible bug in the definition it precedes, and `PROJECT.json` ("mutants") says
which property catches it.

## 3. The runs

| Run | Checks | Shows |
|---|---|---|
| `journal` | `TypeOK`, `SalesLogged`, `SimulationsLogged` | both tables implement `RecordLog` under all interleavings of the JSON thread, a fiscal thread and restarts |
| `told_own_row` (violated) | `ToldOwnRow` | an INSERT of totals between the INSERT of a sale and `sqlite3_last_insert_rowid` gives the POS the id of a totals row |
| `status_reader` | `TypeOK`, `FreshReply`, `OfflineExplained`, `TotalsOnce`, `TotalsWait` | the POS never gets an outdated status; "not served" is told only of a pump that is silent, has said so itself, or has not reported since its totals were read; totals are delivered at most once and no report replaces them |
| `column_line` | `TypeOK`, `OwnStatus`, `SentInOrder` | with the addresses of `config.json` (equal to the ids) a late status is never stored for another column; commands go out in order, at most once |
| `column_line_liveness` | `CmdsTaken`, `ColumnsPolled` | a command leaves the queue if the connection keeps coming back; every column is polled for ever once the connection stays and commands are queued no more |
| `own_totals` (violated) | `OwnTotals` | totals are taken from any address: late ones are stored for another column |
| `own_status_other_addr` (violated) | `OwnStatus` | with addresses that differ from the ids, the second read of a command's answer accepts another column's reply |
| `scenario` | `TypeOK`, `PlayedAsOrdered`, `JournalKnowsPlayed`, `DoneIsTotalled`, `PlayingIsAwake`, `StagesInOrder` | a simulated sale is played in order and with the volume ordered, its rows in the journal agree, and whatever overlaps it is never stranded with `IDLE` logic |
| `late_authorization` (violated) | `TimedOutIsIdle` | a scenario that is announced as switched to `IDLE` is awake and authorised again if the command that found it too late is an order |
| `protocols` | `TypeOK`, `OrderUnderstood`, `ReportsTrue`, `ShelfEndsCompared`, `ClosesWhatWasRead`, `EndReadBeforeClosed` | byte by byte with the real checksums: a pump hears what was ordered or nothing; what the line takes is what the pump it asked meant; a report is closed by the number of the sale that was read last; where the two ends of Shelf agree and where not |
| `station` | `TypeOK`, `OwnVolume`, `ToldAsBooked`, `ClosedInJournal` | an amount is booked on the row that ordered it, the POS is told what is booked, and what the pump has closed is closed in the journal, but for the kinds of row named in section 2 |
| `locks` | `TypeOK`, `NoLostUpdate`, `LocksGranted`, `WriterEnters` | both styles implement `ReadersWriter`, the maps lose no update, swap included, and a writer at the spinlock gets in |

**Bounds.** Journal: two pumps, two rows per table, two volumes, one fiscal line,
one row of totals: enough for a row to be replaced, for a second UPDATE to be seen
and for an INSERT to come between the two calls. Status reader: two pumps, two users,
three reports (totals with one before and one after), validity of one second. Pump
line: two columns, two commands, two requests on the wire and two reports; liveness with
one of each but two commands. `MaxCmds` bounds the commands that the JSON thread queues and those the histories tell
apart; the order of a keyboard is always queued, for ever if need be, under the number 0
once the numbers are used up. All bounds are CONSTANTS and guards; the gateway's bound
`MaxWire` drops the oldest request, and `MaxReports` stops the gateway's answers, never
the poll thread. Scenario: two pumps, one line, one
order of 70 ml (it is divisible by neither 9 nor 100, so that a lost remainder would show) and two switches, so
that a switch may overlap with a sale of the same or of another pump; a waiting time of
0, so that a scenario times out after the first second. A second line adds nothing to the
code paths but the shared row; the theorems cover any number. Protocols: two pumps at the
addresses the slave of `Shelf` gives to the first nozzles of pumps 1 and 2, because a wrong
address must meet a real one; an order each protocol has room for, one only some have, one none has;
two sales of one pump, so that a number may be out of date; one reply on the wire, which is
late as soon as another request has gone out; three numbered packets; one byte spoilt at the
address, in the numbers or near the end. Station: one pump, two rows, one queued
command and two supplies: enough for a sale to be replaced and for the first one's end to be read
late; 1100 ml and 2014 ml are told as 1.11 l and 2.02 l, so that both kinds of rounding
occur; requests of one and of two packets, some for pumps and nozzles that do not exist, sent by a user, with a
wrong password, or with the test header that `checkUser` accepts. `LateTypes` lets the ends of supplies come
late, the only answers whose lateness the journal notices; the proofs hold for all. A pump takes no order
when the run has no amount left for it. Another pump would share only the queue. Locks: three threads, so that a reader, a writer and a third may meet; the swaps are called on one of the
two maps. Two maps that two threads swap with each other in opposite orders do block both
(`mxMap.h:187`); nothing in the repository asks for it.

**Deadlock** is checked in `station`, where it says little, since the process can always stop, and in `locks`,
where a state in which no thread can go on would be reported (a thread that waits for the
condition variable can always be woken spuriously). The other cfgs set `CHECK_DEADLOCK FALSE`: their
bounded environment may run out of things to do, and in the code every loop goes on.

**Fairness.** `ColumnLine`: only `WF_vars(PollThread)`: the thread is a loop whose reads and writes
have timeouts, so it always takes its next step. Nothing is assumed of the JSON
thread, the gateway or the clock. That the connection comes back (`CmdsTaken`) or
stays (`ColumnsPolled`) is a premise of the property, because only the network can
promise it. `ColumnsPolled` has a second one, that commands are queued no more (`QueuedNoMore`): a command
takes the turn of whatever column is next (`ColumnLine.cpp:76`), so without it the keyboard of one
pump, which queues an order at each of its turns, takes all the turns of the other, for ever.
That is how the code is, and `CmdsTaken` holds all the same. `TsMap`: `WF_vars(Step(t))` for each thread: the scheduler lets every thread run, and
a thread that is able to go on with the call it is in does so some time. No thread has to call again, no
mutex is fair, and no spurious wake-up is assumed.

## 4. The proofs

TLAPS proves the following for all values of the constants; the named assumptions are
those of the modules (pumps are positive numbers, bounds are natural numbers, addresses
are distinct).

| Theorem (module) | Says | Argument |
|---|---|---|
| `Typing`, `SalesAreLogged`, `SimulationsAreLogged` (`TransactionControl_proofs`) | both tables implement `RecordLog` | `TypeOK` is inductive; `InsertMaps` and `UpdateMaps` say what an INSERT and an UPDATE do to the current and the retired records, and each action is one of `Open`, `Work`, `Finish` or a stutter |
| `OwnRowWithoutFiscalLines` | without fiscal lines the POS is always told its own row | while an id is pending, the rowid of the connection is the pending row: only the fiscal threads can break this |
| `Typing`, `RepliesAreFresh`, `OfflineIsExplained`, `TotalsAreGivenOnce`, `TotalsDoWait` (`StatusReader_proofs`) | what the POS reads is fresh, offline only if silent, said or not yet reported again, and read once | the properties speak of the reply; `Inv` says the same of the map (`StatusIsNewest`, `OfflineInMap`) and that totals in the map are unread and of one pump each (`TotalsUnread`, `TotalsApart`, `NothingEarly`) |
| `Typing` (`ColumnLine_proofs`) | types | with `HeadInHand`: a command being passed on is still in the queue |
| `StatusIsOwn` | if addresses are ids, a status is its column's own | `NumbersReceived`: the map knows only reports that were received; an accepted report has the address that was expected, and addresses are distinct |
| `CommandsGoInOrder` | commands go out in order and at most once | `OrderInv`: the queue is in order, and what was sent comes before what is queued, but for the command in hand |
| `Typing`, `AwakeWhilePlaying`, `Played`, `Journalled`, `Totalled`, `InStages` (`Scenario_proofs`) | all safety properties of the run `scenario`, for any number of lines, pumps, switches and orders | `Inv` is stated for one line and pump at a time (`InvAt`): what an undisturbed command has read is still true (`CopyAt`), a switch leaves idle what it has been through (`SwitchedAt`), and the row of a scenario that waits for an order is open (`OrderAt`). `Elsewhere` carries all other scenarios over a step, so each action is proved only where it acts. `TypeOK` needs `ReplyInv`: a reply is kept before one is repeated |
| `LockExclusion`, `LockGranted` (`RWLock_proofs`) | for any threads and either style a writer is alone, and the lock implements `ReadersWriter` | `IInv`: the counters and mutexes say where the threads are (`Counted`), and a writer that has found no reader counted, and is counted itself, meets no reader past its own test (`Exclusive`); neither alone is inductive. Each step then is a grant, a release or a stutter |
| `MapLocksGranted`, `TypeCorrect`, `NothingLost` (`TsMap_proofs`) | for any threads, keys and calls both locks of the maps are granted as they should be, and no update is lost | a step of the maps is a step of a lock or leaves it alone, so `RWLock_proofs` applies to both (`LocksInv`); a thread that works holds the locks of its call (`KindsAt`, `StillAt`), so that another one's `Write` is not to a map it has read (`Data`) |
| `Understood` (`Dialogue_proofs`) | for any pumps, orders and each protocol, what a pump makes of an order is the order | `PumpsInv`, and what each pump hears of each request, from the bytes up (below) |
| `Reports`, `ReportsClosed`, `EndsRead` (`Dialogue_proofs`) | for any pumps, sales and replies, however late or spoilt: what is read of a pump is what it meant, what is closed is what was read, and (Unipump) a sale is not forgotten unread | `DialogueInv`: what is on the line was said by its pump (`WireInv`), and what the masters keep is the number of what was seen (`KeptInv`) (below) |
| `LineTypes`, `EndsCompared` (`Dialogue_proofs`) | for any pumps and orders every packet is bytes, in each protocol, and the master's parser of Shelf would read of each of its slave's replies what `ShelfReadAs` says: what was meant, or what stands in its place | `DialogueInv`, whose `WireInv` says which packet each reply is, and what the packets of each protocol are made of (below) |
| `StationTypes`, `Sale`, `VolumesAreOwn`, `AnswersAreBooked`, `SuppliesAreClosed` (`Station_proofs`) | all safety properties of the run `station`, for any pumps, requests, users, supplies and late answers | eight layers, each inductive with those before it (below) |

**A sale** (`Station_proofs`). None of the properties of `Station` is inductive, not even `TypeOK`:
a volume that is told is a volume only because the supply it is read from exists. The
invariant is built in layers:

1. `TypeInv`: types, what the JSON thread knows between the steps of a request (`Serving`), and that the
   ends of supplies that pump, state map, answers and `lastDispense` speak of are supplies of that
   pump (`SuppliesKnown`).
2. `OrderOnce`: the order of a row is in one place: with the JSON thread, in the queue, at the pump or in
   a supply that has ended. So a row has one supply at most.
3. `Alone`: of a pump whose newest row is not marred, everything that is under way (orders in the queue, the sale at the
   pump, the end in the state map) is of that row. This is what makes it right that
   `checkDbUpdates` writes to whichever row is the newest, and the only reason it is.
4. `OwnRows`: what is booked on a row was ordered by it.
5. `EndsFiled`: an end that was read under the id of a row is booked there.
6. `EndsNamed`: the end of a supply that a row was inserted for is told with an id, since every pump that has
   rows has a newest one (`HasNewest`), but for the pumps in `byClose`.
7. `RowClosedFirst`: while a CLOSE_REPORT waits for the line, the row is closed.
8. `RowsReplaced`: a row that is no longer the newest of its pump is overtaken, or its sale is over: no order
   for it waits, and its pump is not at it (`OldRowsGone`).

Layers 2 to 8 are not proved of the actions one by one: `NextIsOfAKind` shows that every step is of one of
few kinds (a row is opened, an end is read, a command is queued or passed on, a pump moves, ...),
and each layer has one step for each kind.

`Station_proofs` rests on `RequestsAssumption` (requests are sequences of packets), `AmountsAssumption` (a supply is of 0 to
9999990 ml: the six digits that a pump shows count 10 ml) and the bounds.

**An order** (`Dialogue_proofs`). `PumpsInv` says of every pump that what it has heard is its
order (`Understands`, for the protocol of the line) and that its sales are numbered one after the
other (`Counts`). Most of the proof is what a packet is. Numbers come first: what `Digits` and
`LittleEndian` write, `FromDigits` and `FromLittleEndian` read, for the two to ten digits and the two to four bytes the
protocols have (`DigitsReadBack`, `BytesReadBack`), and a number that is too large begins with a
byte that is no digit (`SixFit`, `FourFit`). Then the frames: a packet consists of parts, each at its place
(`TwoParts`, `PartAt`), and its checksum, whatever function that is, is the one the pump
computes (`UnipumpFramed`, `AdastFramed`, `ShelfFramed`). From these follows what the pump hears of
each of the requests of each protocol (`UnipumpRunHeard`, `AdastPriceHeard`, `SlaveRunHeard`, ...).
`Understood` rests on `OrdersAssumption`: nozzles 1 to 6, volumes up to 167772.159 l and prices up to 65535,
which include those that are too large for Unipump and Adast. Beyond them it would not be true: the
three bytes and two that Shelf has wrap round, and the first digit of Unipump and Adast is a byte, which wraps
round to a digit at 20.8 million units.

**A reply** (`Dialogue_proofs`). `DialogueInv` adds to `PumpsInv` that each reply on the line is what its pump says
when it means what is noted beside it (`WireInv`), that the number a master keeps under an address is that of the last sale
seen of the pump with this address (`KeptInv`: with Unipump only of an end), and that each state read from the last reply is what was meant
(`Reported`, which is `ReportsTrue` of one state). None of them is inductive alone: a report is true because of what is on the line, and a
pump says what it means because its price is that of its order. Every step but `Read` is easy; of `Read` there are the packets as they were sent
(`UnipumpReports` and `AdastReports`, one case for each type of packet and byte for byte) and the spoilt ones. Of a spoilt packet either the
checksum does not fit (`UnipumpReceived`, `AdastReceived`), or the byte is one that carries no content.
A CLOSE_REPORT then is the request of which every pump but one hears nothing (`UnipumpCloses`, `AdastCloses`).
The theorems rest on `ChecksumsAssumption` (the checksums are numbers, and a spoilt byte that is covered shows: true of every CRC, and evaluated of the real ones by each run),
`ShownAssumption` (a pump shows what has six digits) and `SalesAssumption` (numbers of sales have two digits).
With Shelf the master's `checkCheckSum` refuses every packet, so of it they only say that nothing is read.

**The packets themselves** (`Dialogue_proofs`). C++ cuts every element of a packet to a byte without a word.
The model cuts the digits and the bytes of numbers (that nothing of them is lost is what `Reports` and
`EndsCompared` show: they are read back), but not addresses, numbers of packets, lengths and the bytes of nozzles and
their masks. `LineTypes` shows that these are bytes as they are (`UnipumpSaysBytes`, `AdastSaysBytes`,
`ShelfSaysBytes`; the mask of each of six nozzles is below 256), and so every packet is a sequence of
bytes. What `TypeOK` says of the rest, that `holder`, `prices` and `packetIndexCounter` only know addresses of the
line (`KeptInv`, `MastersInv`) and that a state names a pump and a volume even when it is an ERROR, belongs
to `DialogueInv`. `EndsCompared` follows from `ShelfReplyRead`, which takes the slave's packet apart with the
master's own parser, whatever its number (`WireInv` notes that it has one): the lowest bit of the mask from
bit 1 on is the nozzle that was meant, volumes of three and of four bytes are read back, and of the end of
a supply the bytes 9 to 11, which the master takes for its volume, are the last of the volume and the first two of the amount.

`Played` needs `OrdersAssumption`: orders up to `MaxExactOrder`, the largest that single
precision carries exactly through the three computations.

`StatusIsOwn` needs its premise: the run `own_status_other_addr` refutes it without.

Only model-checked: liveness (`CmdsTaken`, `ColumnsPolled`, `WriterEnters`: temporal
reasoning about fairness and ENABLED is out of the prover's reach). Every other property of
a passing run is a theorem.
No module with a theorem has a recursive operator.

## 5. What is not modelled, and what is left to do

* `Mediator/wamp`: the files are commented out from the first line to the last.
* `lib/Simple-Web-Server`: vendored. Of HTTP only its one thread is used: requests are served one after the other.
* Logging, traces and the maps of last packets that only the traces read; the
  configuration, the licence, and their tables: read at the start, written and read back.
* `Connection`: the count of failed readings, of which `ColumnLine` allows every outcome, and the
  numbers of descriptors, which a second close may take from another thread. `TcpConnection`'s
  `transmitByStartEnd`, `readPacketBySize` and `readPacketByByte` are called by nobody.
* The stubs: serial connection, TCP server, the slaves of Unipump and Adast.
* A packet of amounts under 22 bytes, for which Unipump's parser returns no state
  (`ProtocolMasterUnipump.cpp:346`): pumps send what the layout of the parser has. In `Dialogue` every read passes the
  address of the column; that the second read of a command's answer passes its id is in `ColumnLine`.
* Splitting and recognising the packets of a fiscal device (`FiscalLine`).
* `ReadersWriterLock` in the style NONE, `tsmap::at`, and what becomes of the iterators a `tsmap` returns.

Left to do: two pump lines sharing one journal.
