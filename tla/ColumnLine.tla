----------------------------- MODULE ColumnLine -----------------------------
(***************************************************************************)
(* A line of pumps (src/src/Mediator/columnMediator/ColumnLine.cpp): one   *)
(* thread polls the columns of the line in turn over one TCP connection,   *)
(* and passes on the commands the JSON thread queues.                      *)
(*                                                                         *)
(* Requests and replies carry no number: the thread takes whatever whole   *)
(* packet it reads for the reply to what it sent last, and tells the       *)
(* columns apart by the address in the packet.  A packet is whole if the   *)
(* read, or the read and one more read, has returned it and nothing else;  *)
(* TCP may cut a packet in two anywhere, which is the same here as the     *)
(* packet arriving between the two reads.  The gateway and the pumps       *)
(* behind it answer in order, late or never.                               *)
(***************************************************************************)
EXTENDS Integers, Sequences

CONSTANTS
    Columns,        \* the ids of the line's columns (columnIdAddr)
    Addr,           \* the address of each column
    Users,          \* the POS users
    Validity,       \* data_validity_time of the line
    MaxReports,     \* bound: replies that reach the state map
    MaxCmds,        \* bound: commands the JSON thread queues, or the histories tell apart
    MaxWire         \* bound: requests the gateway keeps; it forgets the oldest

ASSUME ColumnsAssumption == Columns \subseteq Nat \ {0} /\ Columns # {}
ASSUME UsersAssumption   == "none" \notin Users
ASSUME BoundsAssumption  == /\ Validity \in Nat /\ MaxReports \in Nat
                            /\ MaxCmds \in Nat /\ MaxWire \in Nat \ {0}
ASSUME AddrAssumption == /\ Addr \in [Columns -> Nat]
                         /\ \A c, d \in Columns : Addr[c] = Addr[d] => c = d

VARIABLES
    states, elapsed, userUpdateAvailable, received,     \* the state map of the line
    connectionInited,           \* is the connection to the gateway up?
    columnCmds,                 \* the queue of commands
    pc,                         \* where the poll thread is
    column,                     \* the column whose turn it is
    packet,                     \* what the first of the two reads returned
    transactionHolder,          \* addresses that have reported an end of transaction
    requests,                   \* sent and not answered by the gateway
    inbox,                      \* received and not read by the thread
    queued,                     \* history: commands ever queued, up to MaxCmds
    transmitted,                \* history: numbers of the commands put on the wire
    origin                      \* history: the sender of each report in the map

mapVars  == <<states, elapsed, userUpdateAvailable, received>>
wireVars == <<requests, inbox>>
vars     == <<mapVars, connectionInited, columnCmds, pc, column, packet,
              transactionHolder, wireVars, queued, transmitted, origin>>

Map == INSTANCE StateMap WITH Pumps <- Columns

CmdTypes == {"WRITE_VOLUME", "CLOSE_REPORT", "GET_TOTAL"}
Cmd      == [number : 0..MaxCmds, type : CmdTypes, column : Columns,
             user : Users \cup {"none"}]

\* What the pumps answer: a status, an end of transaction, their totals, or a
\* dose that was asked for at the keyboard of the pump (Adast).
Kinds == {"status", "end", "totals", "keyboard"}
Reply == [from : Columns, kind : Kinds]

TypeOK ==
    /\ Map!MapTypeOK
    /\ connectionInited \in BOOLEAN
    /\ columnCmds \in Seq(Cmd)
    /\ pc \in {"poll", "status", "statusRest", "price", "run", "cmd", "cmdRest"}
    /\ column \in Columns
    /\ packet \in Seq(Reply)
    /\ transactionHolder \subseteq {Addr[c] : c \in Columns}
    /\ requests \in Seq([to : Columns, ask : CmdTypes \cup {"STATUS_REQUEST", "WRITE_MONEY"}])
    /\ inbox \in Seq(Reply)
    /\ queued \in 0..MaxCmds
    /\ transmitted \in Seq(1..MaxCmds)
    /\ origin \in Seq(Reply) /\ Len(origin) = received

Init ==
    /\ Map!MapInit
    /\ connectionInited \in BOOLEAN
    /\ columnCmds = <<>>
    /\ pc = "poll"
    /\ column = CHOOSE c \in Columns : \A d \in Columns : c <= d
    /\ packet = <<>>
    /\ transactionHolder = {}
    /\ requests = <<>>
    /\ inbox = <<>>
    /\ queued = 0
    /\ transmitted = <<>>
    /\ origin = <<>>

-----------------------------------------------------------------------------
(***************************************************************************)
(* The connection (src/src/Connections).  send and read fail at once on a  *)
(* closed socket; a read that times out may be the one that makes          *)
(* incrementFailedReading close it, because the counter is only cleared    *)
(* by connectInit.                                                         *)
(***************************************************************************)
Send(c, ask) ==
    requests' = IF ~connectionInited
                THEN requests
                ELSE Append(IF Len(requests) = MaxWire THEN Tail(requests) ELSE requests,
                            [to |-> c, ask |-> ask])

\* One read: all that has arrived, or nothing after a second.
Read ==
    /\ inbox' = <<>>
    /\ \/ UNCHANGED <<connectionInited, requests>>
       \/ /\ inbox = <<>>
          /\ connectionInited' = FALSE
          /\ requests' = <<>>

\* checkPacket: one whole packet with the address of a column and a right CRC
CheckPacket(bytes) == Len(bytes) = 1

\* The bug of a loop that comes back to the last column only.
NextColumnNoWrap ==
    column' = IF \E c \in Columns : c > column
              THEN CHOOSE c \in Columns : c > column /\ \A d \in Columns : d > column => c <= d
              ELSE column

\* The bug of a loop that goes one past the last column.
NextColumnPastEnd == column' = column + 1

NextColumn ==
    column' = IF \E c \in Columns : c > column
              THEN CHOOSE c \in Columns : c > column /\ \A d \in Columns : d > column => c <= d
              ELSE CHOOSE c \in Columns : \A d \in Columns : c <= d

\* The end of an iteration of the poll loop.
Done == pc' = "poll" /\ packet' = <<>> /\ NextColumn

-----------------------------------------------------------------------------
(***************************************************************************)
(* The protocols of the masters (src/src/Protocols/ProtocolsMasters).      *)
(***************************************************************************)

\* The bug of a protocol that takes any reply for one of the column addressed.
ParseAnyAddress(r, expectedPumpAddr, pumpId) == pumpId

\* parseResponse: the id of the state it returns; 0 (Unipump) and ERROR (Adast) if
\* the reply is not from the address expected.  Totals are taken from any address.
ParseResponse(r, expectedPumpAddr, pumpId) ==
    IF r.kind = "totals" \/ Addr[r.from] = expectedPumpAddr THEN pumpId ELSE 0

TypeOf(kind) == IF kind = "totals" THEN "TOTAL_RESPONSE" ELSE "STATUS"

\* An end of transaction is remembered for the CLOSE_REPORT of its column.
Remember(r) ==
    transactionHolder' = IF r.kind = "end"
                         THEN transactionHolder \cup {Addr[r.from]}
                         ELSE transactionHolder

-----------------------------------------------------------------------------
(***************************************************************************)
(* What becomes of a reply: states.addState(c, state), or nothing.         *)
(***************************************************************************)
AddState(c, r, expectedPumpAddr, pumpId, user) ==
    /\ Remember(r)
    /\ Map!AddState(c, ParseResponse(r, expectedPumpAddr, pumpId), TypeOf(r.kind), user)
    /\ origin' = IF received' > received THEN Append(origin, r) ELSE origin

NotAdded == UNCHANGED <<mapVars, transactionHolder, origin>>

\* safeQueue::push_back, of any command at any time.  The first MaxCmds commands are
\* numbered; the ones a pump goes on queueing after them all have number 0.
PushBack(type, c, user) ==
    LET number == IF queued < MaxCmds THEN queued + 1 ELSE 0
    IN  /\ queued' = IF queued < MaxCmds THEN queued + 1 ELSE queued
        /\ columnCmds' = Append(columnCmds, [number |-> number, type |-> type,
                                             column |-> c, user |-> user])

\* The bug of a command that is not removed when something goes wrong ...
PopNothing == UNCHANGED columnCmds

\* ... and of one that is taken from the wrong end.
PopBack == columnCmds' = SubSeq(columnCmds, 1, Len(columnCmds) - 1)

PopFront == columnCmds' = Tail(columnCmds)

-----------------------------------------------------------------------------
(***************************************************************************)
(* The poll thread, at the top of its loop.                                *)
(***************************************************************************)

\* poll: the connection is down; connectInit opens a new one, or fails.
Reconnect ==
    /\ pc = "poll" /\ ~connectionInited
    /\ connectionInited' \in BOOLEAN
    /\ Done
    /\ UNCHANGED <<mapVars, columnCmds, transactionHolder, requests, inbox, queued,
                   transmitted, origin>>

\* processStatus, up to the first read: there is no command to pass on.
SendStatusRequest ==
    /\ pc = "poll" /\ connectionInited /\ columnCmds = <<>>
    /\ Send(column, "STATUS_REQUEST")
    /\ pc' = "status"
    /\ UNCHANGED <<mapVars, connectionInited, columnCmds, column, packet,
                   transactionHolder, inbox, queued, transmitted, origin>>

\* processCmd, WRITE_VOLUME: the price goes first.
SendPrice ==
    /\ pc = "poll" /\ connectionInited /\ columnCmds # <<>>
    /\ LET cmd == Head(columnCmds)
       IN  /\ cmd.type = "WRITE_VOLUME"
           /\ Map!SetUserUpdateValidity(cmd.column # 0, 0)  \* (id, false) as (bool, int)
           /\ Send(cmd.column, "WRITE_MONEY")
    /\ pc' = "price"
    /\ UNCHANGED <<connectionInited, columnCmds, column, packet, transactionHolder,
                   inbox, queued, transmitted, origin>>

\* processCmd: the answer to the price is read and ignored.
IgnorePriceReply ==
    /\ pc = "price"
    /\ Read
    /\ pc' = "run"
    /\ UNCHANGED <<mapVars, columnCmds, column, packet, transactionHolder, queued,
                   transmitted, origin>>

\* processCmd, up to the first read of the answer to the command itself.
SendCmd ==
    LET cmd == Head(columnCmds)
    IN  /\ \/ pc = "run" /\ UNCHANGED mapVars
           \/ /\ pc = "poll" /\ connectionInited /\ columnCmds # <<>>
              /\ \/ cmd.type = "GET_TOTAL" /\ UNCHANGED mapVars
                 \/ /\ cmd.type = "CLOSE_REPORT" /\ Addr[cmd.column] \in transactionHolder
                    /\ Map!SetUserUpdateValidity(cmd.column # 0, 0)
        /\ Send(cmd.column, cmd.type)
        /\ pc' = "cmd"
        /\ transmitted' = IF connectionInited /\ cmd.number > 0
                          THEN Append(transmitted, cmd.number)
                          ELSE transmitted
        /\ UNCHANGED <<connectionInited, columnCmds, column, packet, transactionHolder,
                       inbox, queued, origin>>

\* processCmd, CLOSE_REPORT: closeCommand knows no transaction of the column and
\* throws; the command is dropped.
RejectClose ==
    /\ pc = "poll" /\ connectionInited /\ columnCmds # <<>>
    /\ LET cmd == Head(columnCmds)
       IN  /\ cmd.type = "CLOSE_REPORT" /\ Addr[cmd.column] \notin transactionHolder
           /\ Map!SetUserUpdateValidity(cmd.column # 0, 0)
    /\ PopFront
    /\ Done
    /\ UNCHANGED <<connectionInited, transactionHolder, wireVars, queued,
                   transmitted, origin>>

-----------------------------------------------------------------------------
(***************************************************************************)
(* The poll thread, reading.                                               *)
(***************************************************************************)

\* processStatus / processCmd: the first read did not return a whole packet.
ReadOn ==
    /\ pc \in {"status", "cmd"}
    /\ ~CheckPacket(inbox)
    /\ Read
    /\ packet' = inbox
    /\ pc' = IF pc = "status" THEN "statusRest" ELSE "cmdRest"
    /\ UNCHANGED <<mapVars, columnCmds, column, transactionHolder, queued, transmitted,
                   origin>>

\* processStatus, first branch: a dose asked for at the keyboard becomes a command,
\* each time the pump says so, any other reply a state of the column.
TakeStatus ==
    /\ pc = "status"
    /\ CheckPacket(inbox)
    /\ LET r == inbox[1]
       IN  IF r.kind = "keyboard"
           THEN /\ NotAdded
                /\ IF Addr[r.from] = Addr[column]
                   THEN PushBack("WRITE_VOLUME", r.from, "none")
                   ELSE UNCHANGED <<columnCmds, queued>>
           ELSE /\ AddState(column, r, Addr[column], r.from, "none")
                /\ UNCHANGED <<columnCmds, queued>>
    /\ Read
    /\ Done
    /\ UNCHANGED transmitted

\* processStatus, second branch: any reply becomes a state of the column.
TakeStatusRest ==
    /\ pc = "statusRest"
    /\ LET all == packet \o inbox
       IN  IF CheckPacket(all)
           THEN AddState(column, all[1], Addr[column], all[1].from, "none")
           ELSE NotAdded
    /\ Read
    /\ Done
    /\ UNCHANGED <<columnCmds, queued, transmitted>>

\* processCmd, first branch
TakeCmdReply ==
    /\ pc = "cmd"
    /\ CheckPacket(inbox)
    /\ LET cmd == Head(columnCmds)
       IN  AddState(cmd.column, inbox[1], Addr[cmd.column], cmd.column, cmd.user)
    /\ Read
    /\ PopFront
    /\ Done
    /\ UNCHANGED <<queued, transmitted>>

\* processCmd, second branch: the id of the column is passed for its address.
TakeCmdReplyRest ==
    /\ pc = "cmdRest"
    /\ LET all == packet \o inbox
           cmd == Head(columnCmds)
       IN  IF CheckPacket(all)
           THEN AddState(cmd.column, all[1], cmd.column, all[1].from, cmd.user)
           ELSE NotAdded
    /\ Read
    /\ PopFront
    /\ Done
    /\ UNCHANGED <<queued, transmitted>>

-----------------------------------------------------------------------------
\* The JSON thread: addCmd and getState.
JsonAddCmd ==
    /\ queued < MaxCmds
    /\ \E type \in CmdTypes, c \in Columns, u \in Users : PushBack(type, c, u)
    /\ UNCHANGED <<mapVars, connectionInited, pc, column, packet, transactionHolder,
                   wireVars, transmitted, origin>>

JsonGetState ==
    /\ \E c \in Columns : Map!GetState(c)
    /\ UNCHANGED <<connectionInited, columnCmds, pc, column, packet, transactionHolder,
                   wireVars, queued, transmitted, origin>>

SecondPasses ==
    /\ \E c \in Columns : Map!Tick(c)
    /\ UNCHANGED <<connectionInited, columnCmds, pc, column, packet, transactionHolder,
                   wireVars, queued, transmitted, origin>>

\* The gateway answers the oldest request, or loses it or its answer.
Answer ==
    /\ requests # <<>>
    /\ requests' = Tail(requests)
    /\ \/ UNCHANGED inbox
       \/ /\ received + Len(inbox) + Len(packet) < MaxReports
          /\ \E kind \in Kinds :
                /\ kind = "totals" <=> Head(requests).ask = "GET_TOTAL"
                /\ inbox' = Append(inbox, [from |-> Head(requests).to, kind |-> kind])
    /\ UNCHANGED <<mapVars, connectionInited, columnCmds, pc, column, packet,
                   transactionHolder, queued, transmitted, origin>>

PollThread ==
    \/ Reconnect
    \/ SendStatusRequest
    \/ SendPrice
    \/ IgnorePriceReply
    \/ SendCmd
    \/ RejectClose
    \/ ReadOn
    \/ TakeStatus
    \/ TakeStatusRest
    \/ TakeCmdReply
    \/ TakeCmdReplyRest

Next ==
    \/ PollThread
    \/ JsonAddCmd
    \/ JsonGetState
    \/ SecondPasses
    \/ Answer

Spec == Init /\ [][Next]_vars

\* The poll thread is a loop whose reads and writes time out: it always goes on.
FairSpec == Spec /\ WF_vars(PollThread)

-----------------------------------------------------------------------------
\* A status in the map is one that its own column has sent, although replies
\* carry nothing but an address and may come after the turn of their column.
OwnStatus ==
    \A c \in Columns :
        LET n == states[c].number
        IN  n > 0 /\ origin[n].kind # "totals" => origin[n].from = c

\* The same of totals.
OwnTotals ==
    \A c \in Columns :
        LET n == states[c].number
        IN  n > 0 /\ origin[n].kind = "totals" => origin[n].from = c

\* Commands go out in the order they were queued in, each at most once, however
\* often the connection breaks between the price and the command, and whether they
\* come from the POS or from a keyboard (the first MaxCmds of them).
SentInOrder ==
    \A i, j \in DOMAIN transmitted : i < j => transmitted[i] < transmitted[j]

InQueue(n) == \E i \in DOMAIN columnCmds : columnCmds[i].number = n

\* As long as the connection comes back, every command leaves the queue, although a
\* keyboard may add commands for ever.
CmdsTaken ==
    []<>connectionInited => \A n \in 0..MaxCmds : InQueue(n) ~> ~InQueue(n)

\* A command takes the turn of whatever column is next.  Only an endless stream of
\* commands can therefore keep a column from being polled: once the connection stays
\* up and commands are queued no more, every column is polled again and again,
\* wherever the commands have left the turn.  Without the second premise it is false:
\* the keyboard of one pump can take every turn of another.
QueuedNoMore  == <>[][Len(columnCmds') <= Len(columnCmds)]_vars
ColumnsPolled ==
    <>[]connectionInited /\ QueuedNoMore
        => \A c \in Columns : []<>(pc = "status" /\ column = c)
=============================================================================
