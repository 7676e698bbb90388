--------------------------- MODULE Station_proofs ---------------------------
(***************************************************************************)
(* Theorems about a sale on its way through the station, for every set of  *)
(* pumps, of requests and of users, whatever the supplies dispense, and    *)
(* for journals and queues of any length.                                  *)
(*                                                                         *)
(* The invariants come in layers, each proved inductive with the help of   *)
(* those before it:                                                        *)
(*   TypeInv         types, and which supplies are spoken of;              *)
(*   OrderOnce       the order of a row is in one place;                   *)
(*   Alone           what is on its way is of the newest row;              *)
(*   OwnRows         what is booked was ordered by its row;                *)
(*   EndsFiled       what was read is filed under the right row;           *)
(*   EndsNamed       and is told with the id of a row;                     *)
(*   RowClosedFirst  a row is closed before its supply;                    *)
(*   RowsReplaced    a row that is replaced is overtaken or its sale over. *)
(* From the second on they are proved of the kinds of step of Kinds, which *)
(* every step is one of.                                                   *)
(***************************************************************************)
EXTENDS Station, TLAPS

-----------------------------------------------------------------------------
(***************************************************************************)
(* What the SQL of the journal does to a table, and which rows are newest. *)
(***************************************************************************)

\* A pump has one newest row at most.
LEMMA NewestIsOne ==
    ASSUME NEW p, NEW r \in Newest(p), NEW s \in Newest(p), TypeOK
    PROVE  r = s
  BY DEF Newest, Journal!IsLatest, TypeOK

\* An INSERT adds an open row, which is the newest of its pump, and leaves all else alone.
LEMMA Inserted ==
    ASSUME NEW S, NEW table \in Seq(S), NEW p, NEW new,
           new = Journal!Insert(table, p)
    PROVE  /\ Len(new) = Len(table) + 1
           /\ DOMAIN new = 1..(Len(table) + 1)
           /\ DOMAIN table = 1..Len(table)
           /\ \A r \in DOMAIN table : new[r] = table[r]
           /\ new[Len(table) + 1] = [pump |-> p, state |-> 1, volume |-> 0]
           /\ \A r : Journal!IsLatest(new, p, r) <=> r = Len(table) + 1
           /\ \A q, r : q # p => (Journal!IsLatest(new, q, r) <=> Journal!IsLatest(table, q, r))
  <1> DEFINE n   == Len(table) + 1
             row == [pump |-> p, state |-> 1, volume |-> 0]
  <1>1. new = Append(table, row)
    BY DEF Journal!Insert
  <1>2. row.pump = p
    OBVIOUS
  <1> HIDE DEF row
  <1>3. /\ Len(new) = n /\ DOMAIN new = 1..n /\ DOMAIN table = 1..Len(table)
        /\ Len(table) \in Nat
        /\ \A r \in DOMAIN table : new[r] = table[r]
        /\ new[n] = row
    BY <1>1
  <1>4. \A r : Journal!IsLatest(new, p, r) <=> r = n
    BY <1>2, <1>3 DEF Journal!IsLatest
  <1>5. \A q, r : q # p => (Journal!IsLatest(new, q, r) <=> Journal!IsLatest(table, q, r))
    BY <1>2, <1>3 DEF Journal!IsLatest
  <1> QED
    BY <1>3, <1>4, <1>5 DEF row

\* An UPDATE writes the newest row of its pump if that has the state it asks for, and
\* nothing else.
LEMMA Updated ==
    ASSUME NEW S, NEW table \in Seq(S), NEW p, NEW from, NEW to, NEW v, NEW new,
           new = Journal!UpdateLatest(table, p, from, to, v)
    PROVE  /\ DOMAIN new = DOMAIN table
           /\ DOMAIN table = 1..Len(table)
           /\ \A r \in DOMAIN table :
                IF Journal!IsLatest(table, p, r) /\ table[r].state = from
                THEN /\ new[r].pump = p /\ new[r].state = to
                     /\ new[r].volume = IF v = Journal!Keep THEN table[r].volume ELSE v
                ELSE new[r] = table[r]
           /\ \A r \in DOMAIN table : new[r].pump = table[r].pump
           /\ \A q, r : Journal!IsLatest(new, q, r) <=> Journal!IsLatest(table, q, r)
  <1>1. /\ DOMAIN new = DOMAIN table
        /\ DOMAIN table = 1..Len(table)
        /\ \A r \in DOMAIN table :
                IF Journal!IsLatest(table, p, r) /\ table[r].state = from
                THEN /\ new[r].pump = p /\ new[r].state = to
                     /\ new[r].volume = IF v = Journal!Keep THEN table[r].volume ELSE v
                ELSE new[r] = table[r]
    BY DEF Journal!UpdateLatest
  <1>2. \A r \in DOMAIN table : new[r].pump = table[r].pump
    BY <1>1 DEF Journal!IsLatest
  <1> QED
    BY <1>1, <1>2 DEF Journal!IsLatest

\* ... and the table stays one of sales.
LEMMA UpdatedType ==
    ASSUME NEW table \in Seq(SaleRow), NEW p \in Pumps,
           NEW from, NEW to \in {3, 4}, NEW v \in Volumes \cup {Journal!Keep}
    PROVE  Journal!UpdateLatest(table, p, from, to, v) \in Seq(SaleRow)
  <1> DEFINE new == Journal!UpdateLatest(table, p, from, to, v)
  <1>1. DOMAIN table = 1..Len(table) /\ Len(table) \in Nat
    OBVIOUS
  <1>2. ASSUME NEW r \in 1..Len(table) PROVE new[r] \in SaleRow
    <2>1. table[r] \in SaleRow
      BY <1>1
    <2>2. CASE Journal!IsLatest(table, p, r) /\ table[r].state = from
      <3>1. new[r] = [pump |-> p, state |-> to,
                      volume |-> IF v = Journal!Keep THEN table[r].volume ELSE v]
        BY <1>1, <2>2 DEF Journal!UpdateLatest
      <3>2. table[r].volume \in Volumes
        BY <2>1 DEF SaleRow
      <3> QED
        BY <3>1, <3>2 DEF SaleRow
    <2>3. CASE ~(Journal!IsLatest(table, p, r) /\ table[r].state = from)
      BY <1>1, <2>1, <2>3 DEF Journal!UpdateLatest
    <2> QED
      BY <2>2, <2>3
  <1>3. new = [r \in 1..Len(table) |-> new[r]]
    BY <1>1 DEF Journal!UpdateLatest
  <1>4. new \in [1..Len(table) -> SaleRow]
    BY <1>2, <1>3
  <1> QED
    BY <1>1, <1>4 

-----------------------------------------------------------------------------
(***************************************************************************)
(* Packets and answers.                                                    *)
(***************************************************************************)

\* What parseCmd returns has the fields of a command, and no id yet.
LEMMA ParsedCmd ==
    ASSUME NEW packet
    PROVE  LET c == ParseCmd(packet)
           IN  c = [cmdType |-> c.cmdType, id |-> c.id, dbId |-> 0,
                    nozzle |-> c.nozzle, volume |-> c.volume]
  <1>1. ASSUME NEW type, NEW p, NEW nozzle, NEW volume
        PROVE  LET c == Cmd(type, p, nozzle, volume)
               IN  c = [cmdType |-> c.cmdType, id |-> c.id, dbId |-> 0,
                        nozzle |-> c.nozzle, volume |-> c.volume]
    BY DEF Cmd
  <1>2. \E type, p, nozzle, volume : ParseCmd(packet) = Cmd(type, p, nozzle, volume)
    <2> DEFINE data  == packet.Data
               type  == TypeOf(packet)
               pump_ == IF "Pump" \in DOMAIN data THEN data.Pump ELSE 0
    <2>1. \/ ParseCmd(packet) = Cmd("STATUS_REQUEST", 1, 0, 0)
          \/ ParseCmd(packet) = Cmd("WRITE_VOLUME", pump_, data.Nozzle, Volume(data))
          \/ ParseCmd(packet) = Cmd("CONFIRMATION", pump_, 0, 0)
          \/ ParseCmd(packet) = Cmd("CHANGE_SCENARIOS", pump_, data.NozzleUp, 0)
          \/ ParseCmd(packet) = Cmd(CmdTypeOf[type], pump_, 0, 0)
      BY DEF ParseCmd
    <2> QED
      BY <2>1
  <1> QED
    BY <1>1, <1>2

\* The command the JSON thread makes of a packet has the id the journal gave.
LEMMA CommandsHaveId ==
    ASSUME NEW request, NEW c \in Commands(request)
    PROVE  /\ c.cmdType = ParseCmd(Head(request)).cmdType
           /\ c.id = ParseCmd(Head(request)).id
           /\ c.dbId = dbId
           /\ c = [ParseCmd(Head(request)) EXCEPT !.dbId = dbId]
  <1> DEFINE parsed == ParseCmd(Head(request))
  <1>1. parsed = [cmdType |-> parsed.cmdType, id |-> parsed.id, dbId |-> 0,
                  nozzle |-> parsed.nozzle, volume |-> parsed.volume]
    BY ParsedCmd
  <1>2. c = [parsed EXCEPT !.dbId = dbId]
    BY DEF Commands
  <1> HIDE DEF parsed
  <1>3. c.cmdType = parsed.cmdType /\ c.id = parsed.id /\ c.dbId = dbId
    BY <1>1, <1>2
  <1> QED
    BY <1>2, <1>3 DEF parsed

\* An answer in hundredths of a litre is rounded up by less than 20 ml.
LEMMA RoundedUp ==
    ASSUME NEW v \in Volumes
    PROVE  Hundredths(v) \in 0..(MaxVolume \div 10 + 1) /\ 10 * Hundredths(v) - v \in 0..19
  <1>1. MaxVolume \in Nat /\ v \in Nat /\ v <= MaxVolume
    <2>1. MaxVolume \in Nat
      BY DEF MaxVolume
    <2> QED
      BY <2>1 DEF Volumes
  <1>2. /\ Hundredths(v) \in {v \div 10, v \div 10 + 1}
        /\ v % 10 # 0 => Hundredths(v) = v \div 10 + 1
    BY DEF Hundredths
  <1>3. v = 10 * (v \div 10) + (v % 10) /\ v % 10 \in 0..9 /\ v \div 10 \in Nat
    BY <1>1
  <1>4. v \div 10 <= MaxVolume \div 10 /\ MaxVolume \div 10 \in Nat
    BY <1>1
  <1> QED
    BY <1>1, <1>2, <1>3, <1>4

\* TransactionId is the id of the newest row, and 0 if there is none.
LEMMA TransactionIdIsNewest ==
    ASSUME NEW p, TypeOK
    PROVE  /\ \A r \in Newest(p) : TransactionId(p) = r
           /\ Newest(p) = {} => TransactionId(p) = 0
  <1>1. ASSUME NEW r \in Newest(p) PROVE TransactionId(p) = r
    <2>1. Newest(p) = {r}
      BY NewestIsOne
    <2>2. r \in Nat /\ r > 0
      BY DEF Newest, Journal!IsLatest, TypeOK
    <2> QED
      BY <2>1, <2>2 DEF TransactionId, Max
  <1>2. Newest(p) = {} => TransactionId(p) = 0
    BY DEF TransactionId, Max
  <1> QED
    BY <1>1, <1>2

\* The end of a supply, and nothing else, is told and remembered.
LEMMA Answering ==
    ASSUME NEW request, NEW s, Answered(request, s)
    PROVE  /\ packets' = Tail(request) /\ pc' = "idle" /\ dbId' = 0
           /\ IF s.type = "SUPPLY_DONE"
              THEN /\ lastDispense' = [lastDispense EXCEPT ![s.id] = Dispensed(s)]
                   /\ told' = [told EXCEPT ![s.id] = EndOfTransaction(s)]
                   /\ byClose' \in {byClose \cup {s.id}, byClose \ {s.id}}
                   /\ pc = "state" /\ s.dbId = 0 => s.id \in byClose'
              ELSE UNCHANGED <<lastDispense, told, byClose>>
  <1> DEFINE last   == IF s.id \in Pumps THEN lastDispense[s.id] ELSE NoDispense
             answer == PreparePacketStr(s, last)
  <1>1. /\ packets' = Tail(request) /\ pc' = "idle" /\ dbId' = 0
        /\ told' = IF answer.Type = "PumpEndOfTransactionStatus"
                   THEN [told EXCEPT ![answer.Pump] = answer]
                   ELSE told
        /\ lastDispense' = IF s.type = "SUPPLY_DONE"
                           THEN [lastDispense EXCEPT ![s.id] = Dispensed(s)]
                           ELSE lastDispense
        /\ byClose' = IF s.type # "SUPPLY_DONE" THEN byClose
                      ELSE IF pc = "state" /\ s.dbId = 0 THEN byClose \cup {s.id}
                      ELSE byClose \ {s.id}
    BY DEF Answered, Respond
  <1>2. CASE s.type = "SUPPLY_DONE"
    <2>1. answer = EndOfTransaction(s)
      BY <1>2 DEF PreparePacketStr
    <2>2. answer.Type = "PumpEndOfTransactionStatus" /\ answer.Pump = s.id
      BY <2>1 DEF EndOfTransaction, Answer
    <2> QED
      BY <1>1, <1>2, <2>1, <2>2
  <1>3. CASE s.type # "SUPPLY_DONE"
    <2>1. answer.Type # "PumpEndOfTransactionStatus"
      BY <1>3 DEF PreparePacketStr, IdleStatus, FillingStatus, Totals, NotServed, Authorized,
                  Confirmation, Error, Answer
    <2> QED
      BY <1>1, <1>3, <2>1
  <1> QED
    BY <1>2, <1>3

-----------------------------------------------------------------------------
(***************************************************************************)
(* The type of the state, and what the threads and the supplies that are   *)
(* spoken of have to do with it: alone, TypeOK is not inductive, since a   *)
(* volume is only a volume because the supply it is read from exists.      *)
(***************************************************************************)

\* The command with the id of a row.
Numbered(c, r) == [c EXCEPT !.dbId = r]

\* What the line can be asked to do: what packets ask for, and what a keyboard does.
LineCmds ==
    {c \in {Numbered(ParseCmd(packet), r) : packet \in Packets, r \in Rows}
           \cup {Cmd("WRITE_VOLUME", p, 1, 999000) : p \in Pumps} : c.id \in Pumps}

\* The command of the packet that is being served.
Parsed == ParseCmd(Head(packets))

\* Between two steps of its work the JSON thread knows what it works on.
Serving ==
    /\ pc # "idle" => packets # <<>>
    /\ pc # "authorize" => dbId = 0
    /\ pc = "push" => Parsed.cmdType = "CLOSE_REPORT" /\ Parsed.id \in Pumps
    /\ pc = "authorize" => Parsed.cmdType = "WRITE_VOLUME"
    /\ dbId # 0 => dbId = Len(transactions) /\ transactions[dbId].pump = Parsed.id

\* v is the volume of the supply n of pump p.
IsSupply(p, n, v) ==
    n \in DOMAIN supplies /\ supplies[n].pump = p /\ supplies[n].volume = v

\* A pump that is done knows the supply it has ended.
DoneIsSupply(p) ==
    pump[p].phase = "done" =>
        /\ pump[p].supply \in DOMAIN supplies
        /\ supplies[pump[p].supply].pump = p
        /\ supplies[pump[p].supply].sale = pump[p].sale

\* The ends of supplies that pump, line, map and POS speak of are those of supplies of the
\* pump; what is late has not been given an id.
SuppliesKnown ==
    \A p \in Pumps :
        /\ DoneIsSupply(p)
        /\ states[p] # Unknown => states[p].id = p
        /\ states[p].type = "SUPPLY_DONE" => IsSupply(p, states[p].supply, states[p].volume)
        /\ late[p] # Unknown => late[p].id = p
        /\ late[p].type = "SUPPLY_DONE" =>
              IsSupply(p, late[p].supply, late[p].volume) /\ late[p].dbId = 0
        /\ told[p].supply # 0 => told[p].Type = "PumpEndOfTransactionStatus"
        /\ told[p].Type = "PumpEndOfTransactionStatus" =>
              /\ IsSupply(p, told[p].supply, supplies[told[p].supply].volume)
              /\ told[p].Volume = Hundredths(supplies[told[p].supply].volume)
        /\ lastDispense[p].transaction # 0 \/ lastDispense[p].supply # 0 =>
              IsSupply(p, lastDispense[p].supply, lastDispense[p].volume)

TypeInv ==
    /\ TypeOK
    /\ columnCmds \in Seq(LineCmds)
    /\ Serving
    /\ SuppliesKnown

\* The JSON thread reads the end of a supply of p, books it and answers it as row d.
EndRead(p, d) ==
    LET s == [states[p] EXCEPT !.dbId = d]
    IN  /\ p \in Pumps /\ states[p].type = "SUPPLY_DONE"
        /\ d = TransactionId(p) \/ d = states[p].dbId
        /\ transactions' = Journal!UpdateLatest(transactions, p, 1, 3, s.volume)
        /\ booked' = [r \in DOMAIN booked |->
                         IF transactions'[r] # transactions[r] THEN s.supply ELSE booked[r]]
        /\ states' = [states EXCEPT ![p] = s]
        /\ lastDispense' = [lastDispense EXCEPT ![p] = Dispensed(s)]
        /\ told' = [told EXCEPT ![p] = EndOfTransaction(s)]
        /\ byClose' \in {byClose \cup {p}, byClose \ {p}}
        /\ p \in byClose' \/ d # 0 \/ d = TransactionId(p)

\* It reads no end of a supply.
NoEndRead ==
    /\ UNCHANGED <<transactions, booked, lastDispense, told, byClose>>
    /\ UNCHANGED states \/ \E p \in Pumps : states' = [states EXCEPT ![p] = Offline(p)]

\* And with that its work on the packet is done.
StateRead ==
    /\ NoEndRead \/ \E p \in Pumps, d \in Rows : EndRead(p, d)
    /\ pc' = "idle" /\ dbId' = 0
    /\ UNCHANGED <<marred, hasty, overtaken, columnCmds, transactionHolder, late, pumpVars>>

\* gettransactionDbId returns 0 or the id of a row.
LEMMA TransactionIdIsRow ==
    ASSUME TypeOK, NEW p PROVE TransactionId(p) \in Rows
  <1>1. transactions \in Seq(SaleRow) /\ Len(transactions) \in Rows
    BY BoundsAssumption DEF TypeOK, Rows
  <1>2. \A r \in Newest(p) : r \in Rows
    BY <1>1, BoundsAssumption DEF Newest, Journal!IsLatest, Rows
  <1> QED
    BY <1>1, <1>2, TransactionIdIsNewest, BoundsAssumption DEF Rows

\* What reading a state s of a known pump comes to.
LEMMA Reading ==
    ASSUME TypeInv, NEW p \in Pumps, states[p] # Unknown, NEW s \in StatesOf(p),
           NEW t, t \in {s, WithId(s)},
           CheckDbUpdates(s),
           states' = [states EXCEPT ![p] = Left(p, t)],
           s.type # "SUPPLY_DONE" => UNCHANGED <<lastDispense, told, byClose>>,
           s.type = "SUPPLY_DONE" =>
              /\ lastDispense' = [lastDispense EXCEPT ![t.id] = Dispensed(t)]
              /\ told' = [told EXCEPT ![t.id] = EndOfTransaction(t)]
              /\ byClose' \in {byClose \cup {t.id}, byClose \ {t.id}}
              /\ t.dbId = 0 => t.id \in byClose' \/ t.dbId = TransactionId(t.id)
    PROVE  NoEndRead \/ \E d \in Rows : EndRead(p, d)
  <1>1. states[p] \in State /\ states[p].id = p /\ states \in [Pumps -> State \cup {Unknown}]
    BY DEF TypeInv, TypeOK, SuppliesKnown
  <1>2. s = states[p] \/ s = Offline(p)
    BY DEF StatesOf
  <1>3. CASE s.type = "SUPPLY_DONE"
    <2>1. s = states[p] /\ s.id = p
      BY <1>1, <1>2, <1>3 DEF Offline
    <2>2. PICK d \in Rows : (d = TransactionId(p) \/ d = s.dbId) /\ t = [s EXCEPT !.dbId = d]
      <3>1. CASE t = s
        <4>1. s.dbId \in Rows /\ s = [s EXCEPT !.dbId = s.dbId]
          BY <1>1, <2>1 DEF State
        <4> QED
          BY <3>1, <4>1
      <3>2. CASE t # s
        BY <1>3, <2>1, <3>2, TransactionIdIsRow DEF WithId, TypeInv
      <3> QED
        BY <3>1, <3>2
    <2>3. t.id = p /\ t.type = "SUPPLY_DONE" /\ t.volume = s.volume /\ t.supply = s.supply
          /\ t.dbId = d
      BY <1>1, <1>3, <2>1, <2>2 DEF State
    <2>4. Left(p, t) = t
      BY <2>3 DEF Left
    <2>5. /\ states[p].type = "SUPPLY_DONE"
          /\ d = TransactionId(p) \/ d = states[p].dbId
          /\ states' = [states EXCEPT ![p] = t]
      BY <1>3, <2>1, <2>2, <2>4
    <2>6. /\ lastDispense' = [lastDispense EXCEPT ![p] = Dispensed(t)]
          /\ told' = [told EXCEPT ![p] = EndOfTransaction(t)]
          /\ byClose' \in {byClose \cup {p}, byClose \ {p}}
          /\ p \in byClose' \/ d # 0 \/ d = TransactionId(p)
      BY <1>3, <2>3
    <2>7. /\ transactions' = Journal!UpdateLatest(transactions, p, 1, 3, t.volume)
          /\ booked' = [r \in DOMAIN booked |->
                          IF transactions'[r] # transactions[r] THEN t.supply ELSE booked[r]]
      BY <1>3, <2>1, <2>3 DEF CheckDbUpdates
    <2>8. EndRead(p, d)
      <3> DEFINE u == [states[p] EXCEPT !.dbId = d]
      <3>1. t = u
        BY <2>1, <2>2
      <3> HIDE DEF u
      <3>2. /\ transactions' = Journal!UpdateLatest(transactions, p, 1, 3, u.volume)
            /\ booked' = [r \in DOMAIN booked |->
                            IF transactions'[r] # transactions[r] THEN u.supply ELSE booked[r]]
            /\ states' = [states EXCEPT ![p] = u]
            /\ lastDispense' = [lastDispense EXCEPT ![p] = Dispensed(u)]
            /\ told' = [told EXCEPT ![p] = EndOfTransaction(u)]
        BY <2>5, <2>6, <2>7, <3>1
      <3> QED
        BY <2>5, <2>6, <3>2 DEF EndRead, u
    <2> QED
      BY <2>8
  <1>4. CASE s.type # "SUPPLY_DONE"
    <2>1. t = s
      BY <1>4 DEF WithId
    <2>2. UNCHANGED <<transactions, booked, lastDispense, told, byClose>>
      BY <1>4 DEF CheckDbUpdates
    <2>3. Left(p, t) = states[p] \/ Left(p, t) = Offline(p)
      BY <1>2, <2>1 DEF Left
    <2>4. UNCHANGED states \/ states' = [states EXCEPT ![p] = Offline(p)]
      BY <1>1, <2>3
    <2> QED
      BY <2>2, <2>4 DEF NoEndRead
  <1> QED
    BY <1>3, <1>4

\* STATUS_REQUEST reads a state once, and that ends the work on the packet.
LEMMA StatusRequestReads ==
    ASSUME TypeInv, NEW request, NEW c, ProcessStatusRequest(request, c)
    PROVE  StateRead /\ packets' = Tail(request)
  <1> DEFINE p == c.id
  <1>1. UNCHANGED <<marred, hasty, overtaken, columnCmds, transactionHolder, late, pumpVars>>
    BY DEF ProcessStatusRequest
  <1>2. CASE /\ ~Known(p)
             /\ Answered(request, Offline(p))
             /\ UNCHANGED <<transactions, booked, states>>
    <2>1. Offline(p).type # "SUPPLY_DONE"
      BY DEF Offline
    <2> QED
      BY <1>1, <1>2, <2>1, Answering DEF StateRead, NoEndRead
  <1>3. ASSUME NEW s \in StatesOf(p), CheckDbUpdates(s), Answered(request, WithId(s)),
               states' = [states EXCEPT ![p] = Left(p, WithId(s))]
        PROVE  StateRead /\ packets' = Tail(request)
    <2>1. p \in Pumps /\ states[p] # Unknown
      BY <1>3 DEF StatesOf, Known
    <2>2. s = Offline(p) \/ s \in State
      BY <1>3, <2>1 DEF StatesOf, TypeInv, TypeOK
    <2>3. /\ WithId(s).type = s.type
          /\ WithId(s).dbId = 0 /\ s.type = "SUPPLY_DONE"
                => WithId(s).dbId = TransactionId(WithId(s).id)
      <3>1. CASE s = Offline(p)
        BY <3>1 DEF WithId, Offline
      <3>2. CASE s \in State
        BY <3>2, BoundsAssumption DEF WithId, State, Rows
      <3> QED
        BY <2>2, <3>1, <3>2
    <2>4. NoEndRead \/ \E d \in Rows : EndRead(p, d)
      BY <1>3, <2>1, <2>3, Answering, Reading
    <2> QED
      BY <1>1, <1>3, <2>1, <2>4, Answering DEF StateRead
  <1> QED
    BY <1>2, <1>3 DEF ProcessStatusRequest

\* So does the last step of CLOSE_REPORT.
LEMMA AfterCloseReads ==
    ASSUME TypeInv, pc = "state", NEW p, ReadStateAfterClose(p)
    PROVE  StateRead /\ packets' = Tail(packets)
  <1> DEFINE closed == [Offline(p) EXCEPT !.type = "TRANSACTION_ClOSED"]
  <1>1. UNCHANGED <<marred, hasty, overtaken, columnCmds, transactionHolder, late, pumpVars>>
    BY DEF ReadStateAfterClose
  <1>0. closed.type # "SUPPLY_DONE"
    BY DEF Offline
  <1>2. CASE /\ ~Known(p)
             /\ Answered(packets, closed)
             /\ UNCHANGED <<transactions, booked, states>>
    BY <1>0, <1>1, <1>2, Answering DEF StateRead, NoEndRead
  <1>3. ASSUME NEW s \in StatesOf(p), CheckDbUpdates(s),
               Answered(packets, IF s.type = "SUPPLY_DONE" THEN s ELSE closed),
               states' = [states EXCEPT ![p] = Left(p, s)]
        PROVE  StateRead /\ packets' = Tail(packets)
    <2>1. p \in Pumps /\ states[p] # Unknown
      BY <1>3 DEF StatesOf, Known
    <2> HIDE DEF closed
    <2>2. /\ packets' = Tail(packets) /\ pc' = "idle" /\ dbId' = 0
          /\ s.type # "SUPPLY_DONE" => UNCHANGED <<lastDispense, told, byClose>>
          /\ s.type = "SUPPLY_DONE" =>
              /\ lastDispense' = [lastDispense EXCEPT ![s.id] = Dispensed(s)]
              /\ told' = [told EXCEPT ![s.id] = EndOfTransaction(s)]
              /\ byClose' \in {byClose \cup {s.id}, byClose \ {s.id}}
              /\ s.dbId = 0 => s.id \in byClose'
      <3>1. CASE s.type = "SUPPLY_DONE"
        BY <1>3, <3>1, Answering
      <3>2. CASE s.type # "SUPPLY_DONE"
        BY <1>0, <1>3, <3>2, Answering
      <3> QED
        BY <3>1, <3>2
    <2>4. NoEndRead \/ \E d \in Rows : EndRead(p, d)
      BY <1>3, <2>1, <2>2, Reading
    <2> QED
      BY <1>1, <2>1, <2>2, <2>4 DEF StateRead
  <1> QED
    BY <1>2, <1>3 DEF ReadStateAfterClose

-----------------------------------------------------------------------------
(***************************************************************************)
(* TypeInv is inductive.                                                   *)
(***************************************************************************)
\* A command the line knows is for a pump, with the id of a row or none.
LEMMA LineCmdType ==
    ASSUME NEW c \in LineCmds PROVE c.id \in Pumps /\ c.dbId \in Rows
  <1>1. c.id \in Pumps
    BY DEF LineCmds
  <1>2. CASE \E packet \in Packets, r \in Rows : c = Numbered(ParseCmd(packet), r)
    <2>1. PICK packet \in Packets, r \in Rows : c = Numbered(ParseCmd(packet), r)
      BY <1>2
    <2> DEFINE parsed == ParseCmd(packet)
    <2>2. parsed = [cmdType |-> parsed.cmdType, id |-> parsed.id, dbId |-> 0,
                    nozzle |-> parsed.nozzle, volume |-> parsed.volume]
      BY ParsedCmd
    <2>3. c = [parsed EXCEPT !.dbId = r]
      BY <2>1 DEF Numbered
    <2> HIDE DEF parsed
    <2> QED
      BY <1>1, <2>2, <2>3
  <1>3. CASE \E p \in Pumps : c = Cmd("WRITE_VOLUME", p, 1, 999000)
    BY <1>1, <1>3, BoundsAssumption DEF Cmd, Rows
  <1> QED
    BY <1>2, <1>3 DEF LineCmds

\* The command of a packet that is served can be queued.
LEMMA CommandIsLineCmd ==
    ASSUME TypeOK, NEW request \in Seq(Packets), request # <<>>,
           NEW c \in Commands(request), c.id \in Pumps
    PROVE  c \in LineCmds
  <1>1. Head(request) \in Packets /\ dbId \in Rows
    BY DEF TypeOK
  <1>2. c = Numbered(ParseCmd(Head(request)), dbId)
    BY CommandsHaveId DEF Numbered
  <1> QED
    BY <1>1, <1>2 DEF LineCmds

\* safeQueue::push_back of a command the line knows leaves a queue of such commands.
LEMMA Queued ==
    ASSUME TypeInv, NEW c \in LineCmds, AddCmd(c)
    PROVE  /\ columnCmds' = Append(columnCmds, c) /\ columnCmds' \in Seq(LineCmds)
           /\ marred' = marred \cup MarredBy(c) /\ marred' \subseteq DOMAIN transactions
  BY DEF AddCmd, MarredBy, Newest, TypeInv, TypeOK

\* When the process starts for the first time.
LEMMA TypeInit == Init => TypeInv
  <1> SUFFICES ASSUME Init PROVE TypeInv
    OBVIOUS
  <1> USE DEF Init
  <1>1. TypeOK
    <2>1. 0 \in Rows /\ 0 \in Supplies /\ 0 \in Volumes /\ 0 \in 0..(MaxVolume \div 10 + 1)
      <3>1. MaxVolume \in Nat
        BY DEF MaxVolume
      <3> QED
        BY <3>1, BoundsAssumption, AmountsAssumption DEF Rows, Supplies, Volumes
    <2>2. Confirmation \in Answers
      BY <2>1 DEF Confirmation, Answer, Answers
    <2>3. Len(transactions) <= MaxRows /\ Len(supplies) <= Len(Amounts)
      BY BoundsAssumption, AmountsAssumption
    <2> QED
      BY <2>1, <2>2, <2>3 DEF TypeOK, NoDispense, Idle, PumpState
  <1>2. Serving
    BY DEF Serving
  <1>3. SuppliesKnown
    BY DEF SuppliesKnown, DoneIsSupply, Unknown, Confirmation, Answer, NoDispense, Idle
  <1> QED
    BY <1>1, <1>2, <1>3 DEF TypeInv

\* addTransaction, which inserts a row or fails.
LEMMA JsonCheckTyped ==
    ASSUME TypeInv, NEW request \in Seq(Packets), request # <<>>,
           NEW c \in Commands(request), pc = "idle", JsonCheck(request, c)
    PROVE  TypeInv'
  <1> USE DEF TypeInv
  <1>0. dbId = 0 /\ c.id \in Pumps /\ c.id = Parsed'.id
    BY CommandsHaveId DEF Serving, JsonCheck, Configured, Parsed
  <1>1. /\ UNCHANGED <<lastDispense, told, byClose, lineVars, pumpVars>>
        /\ packets' = request /\ pc' = "authorize" /\ Parsed'.cmdType = "WRITE_VOLUME"
    BY CommandsHaveId DEF JsonCheck, Parsed
  <1>2. SuppliesKnown'
    BY <1>1 DEF SuppliesKnown, DoneIsSupply, IsSupply, lineVars, pumpVars
  <1>3. CASE UNCHANGED <<journalVars, dbId>>
    BY <1>0, <1>1, <1>2, <1>3 DEF TypeOK, Serving, journalVars, lineVars, pumpVars
  <1>4. CASE /\ Len(transactions) < MaxRows
             /\ transactions' = Journal!Insert(transactions, c.id)
             /\ booked' = Append(booked, 0)
             /\ marred' = IF AtRest(c.id) THEN marred ELSE marred \cup {Len(transactions')}
             /\ overtaken' = IF AtRest(c.id) THEN overtaken ELSE overtaken \cup Newest(c.id)
             /\ dbId' = Len(transactions')
             /\ UNCHANGED hasty
    <2> DEFINE n == Len(transactions) + 1
    <2>1. /\ Len(transactions') = n /\ DOMAIN transactions' = 1..n
          /\ DOMAIN transactions = 1..Len(transactions)
          /\ transactions'[n].pump = c.id
      <3> DEFINE p == c.id
      <3>1. transactions \in Seq(SaleRow) /\ transactions' = Journal!Insert(transactions, p)
        BY <1>4 DEF TypeOK
      <3> HIDE DEF p
      <3>2. /\ Len(transactions') = n /\ DOMAIN transactions' = 1..n
            /\ DOMAIN transactions = 1..Len(transactions)
            /\ transactions'[n] = [pump |-> p, state |-> 1, volume |-> 0]
        BY <3>1, Inserted
      <3> QED
        BY <3>2 DEF p
    <2>2. transactions' \in Seq(SaleRow)
      <3>1. [pump |-> c.id, state |-> 1, volume |-> 0] \in SaleRow
        <4>1. MaxVolume \in Nat
          BY DEF MaxVolume
        <4> QED
          BY <1>0, <4>1 DEF SaleRow, Volumes
      <3> QED
        BY <1>4, <3>1 DEF TypeOK, Journal!Insert
    <2>3. n \in Rows /\ n <= MaxRows /\ Len(transactions) \in Nat
      BY <1>4, BoundsAssumption DEF Rows, TypeOK
    <2>4. booked' \in Seq(Supplies) /\ Len(booked') = n
      BY <1>4, AmountsAssumption DEF TypeOK, Supplies
    <2>5. marred' \cup hasty' \cup overtaken' \subseteq DOMAIN transactions'
      BY <1>4, <2>1, <2>3 DEF TypeOK, Newest
    <2>6. TypeOK'
      BY <1>1, <1>4, <2>1, <2>2, <2>3, <2>4, <2>5 DEF TypeOK, lineVars, pumpVars
    <2>7. Serving'
      BY <1>0, <1>1, <1>4, <2>1 DEF Serving
    <2> QED
      BY <1>1, <1>2, <2>6, <2>7 DEF lineVars
  <1> QED
    BY <1>3, <1>4 DEF JsonCheck

\* The end of the process, which the journal and the pumps outlive.
LEMMA StopTyped ==
    ASSUME TypeInv, Stop PROVE TypeInv'
  <1> USE DEF TypeInv
  <1>1. 0 \in Rows /\ 0 \in Supplies /\ 0 \in Volumes /\ 0 \in 0..(MaxVolume \div 10 + 1)
    <3>1. MaxVolume \in Nat
      BY DEF MaxVolume
    <3> QED
      BY <3>1, BoundsAssumption, AmountsAssumption DEF Rows, Supplies, Volumes
  <1>2. Confirmation \in Answers
    BY <1>1 DEF Confirmation, Answer, Answers
  <1>3. TypeOK'
    BY <1>1, <1>2 DEF TypeOK, Stop, journalVars, pumpVars, NoDispense
  <1>4. Serving'
    BY DEF Stop, Serving
  <1>5. SuppliesKnown'
    BY DEF SuppliesKnown, DoneIsSupply, IsSupply, Stop, pumpVars, Unknown, Confirmation, Answer,
           NoDispense
  <1> QED
    BY <1>3, <1>4, <1>5 DEF Stop

\* processTechCmd, whose answers are about no supply.
LEMMA TechTyped ==
    ASSUME TypeInv, NEW request \in Seq(Packets), request # <<>>,
           NEW c, ProcessTechCmd(request, c)
    PROVE  TypeInv' /\ UNCHANGED <<told, byClose, journalVars, lastDispense, lineVars, pumpVars>>
           /\ dbId' = 0 /\ pc' = "idle"
  <1> USE DEF TypeInv
  <1> DEFINE answer == PrepareTech(TechResponse[c.cmdType])
  <1>1. TechResponse[c.cmdType] \in {"CONFIGURATION", "PUMP_CONFIGURATION", "SET_PRICE",
                                     "SCENARIO", "BATTERY", "SD_INFO"}
    BY DEF ProcessTechCmd, TechResponse, OperateTechCmd
  <1>2. answer.Type # "PumpEndOfTransactionStatus"
    BY <1>1 DEF PrepareTech, Answer, Confirmation
  <1>3. /\ UNCHANGED <<told, byClose, journalVars, lastDispense, lineVars, pumpVars>>
        /\ packets' = Tail(request) /\ pc' = "idle" /\ dbId' = 0
    BY <1>2 DEF ProcessTechCmd, Respond
  <1>4. packets' \in Seq(Packets) /\ 0 \in Rows
    BY <1>3, BoundsAssumption DEF Rows
  <1> QED
    BY <1>3, <1>4 DEF TypeOK, Serving, SuppliesKnown, DoneIsSupply, IsSupply, journalVars,
                      lineVars, pumpVars

\* processCmd reading a state, with or without the end of a supply in it.
LEMMA ReadTyped ==
    ASSUME TypeInv, StateRead, packets' \in Seq(Packets) PROVE TypeInv'
  <1> USE DEF TypeInv
  <1>1. /\ pc' = "idle" /\ dbId' = 0 /\ 0 \in Rows
        /\ UNCHANGED <<marred, hasty, overtaken, columnCmds, transactionHolder, late, pump,
                       supplies>>
    BY BoundsAssumption DEF StateRead, Rows, pumpVars
  <1>2. Serving'
    BY <1>1 DEF Serving
  <1>3. CASE NoEndRead
    <2>1. \A p \in Pumps : Offline(p) \in State
      <3>1. MaxVolume \in Nat
        BY DEF MaxVolume
      <3> QED
        BY <3>1, BoundsAssumption, AmountsAssumption
        DEF Offline, State, StateTypes, Rows, Volumes, Supplies
    <2>2. TypeOK'
      BY <1>1, <1>3, <2>1 DEF TypeOK, NoEndRead
    <2>3. SuppliesKnown'
      <3>1. ASSUME NEW p \in Pumps
            PROVE  states'[p] = states[p]
                   \/ (states'[p].id = p /\ states'[p].type # "SUPPLY_DONE")
        <4>1. CASE UNCHANGED states
          BY <4>1
        <4>2. ASSUME NEW q \in Pumps, states' = [states EXCEPT ![q] = Offline(q)]
              PROVE  states'[p] = states[p]
                     \/ (states'[p].id = p /\ states'[p].type # "SUPPLY_DONE")
          <5>1. CASE q = p
            BY <4>2, <5>1 DEF TypeOK, Offline
          <5>2. CASE q # p
            BY <4>2, <5>2 DEF TypeOK
          <5> QED
            BY <5>1, <5>2
        <4> QED
          BY <1>3, <4>1, <4>2 DEF NoEndRead
      <3>2. UNCHANGED <<told, lastDispense>>
        BY <1>3 DEF NoEndRead
      <3> QED
        BY <1>1, <3>1, <3>2 DEF SuppliesKnown, DoneIsSupply, IsSupply
    <2> QED
      BY <1>1, <1>2, <2>2, <2>3
  <1>4. ASSUME NEW p \in Pumps, NEW d \in Rows, EndRead(p, d) PROVE TypeInv'
    <2> DEFINE s == [states[p] EXCEPT !.dbId = d]
    <2>1. /\ states[p] \in State /\ states[p].type = "SUPPLY_DONE" /\ states[p].id = p
          /\ IsSupply(p, states[p].supply, states[p].volume)
      BY <1>4 DEF EndRead, SuppliesKnown, TypeOK, Unknown
    <2>2. /\ s \in State /\ s.id = p /\ s.type = "SUPPLY_DONE" /\ s.dbId = d
          /\ s.volume = states[p].volume /\ s.supply = states[p].supply
          /\ s.volume \in Volumes /\ s.supply \in Supplies
      BY <2>1 DEF State
    <2>3. /\ transactions' = Journal!UpdateLatest(transactions, p, 1, 3, s.volume)
          /\ booked' = [r \in DOMAIN booked |->
                         IF transactions'[r] # transactions[r] THEN s.supply ELSE booked[r]]
          /\ states' = [states EXCEPT ![p] = s]
          /\ lastDispense' = [lastDispense EXCEPT ![p] = Dispensed(s)]
          /\ told' = [told EXCEPT ![p] = EndOfTransaction(s)]
          /\ byClose' \subseteq byClose \cup {p}
      BY <1>4 DEF EndRead
    <2> HIDE DEF s
    <2>4. Dispensed(s) = [transaction |-> d, volume |-> s.volume, supply |-> s.supply]
      BY <2>2 DEF Dispensed
    <2>5. EndOfTransaction(s) = [Type |-> "PumpEndOfTransactionStatus", Pump |-> p,
             Transaction |-> d, Volume |-> Hundredths(s.volume), supply |-> s.supply]
      BY <2>2 DEF EndOfTransaction, Answer
    <2>6. EndOfTransaction(s) \in Answers
      BY <2>2, <2>5, RoundedUp DEF Answers
    <2>7. transactions' \in Seq(SaleRow)
      BY <2>2, <2>3, UpdatedType DEF TypeOK
    <2>8. /\ DOMAIN transactions' = DOMAIN transactions
          /\ Len(transactions') = Len(transactions)
      BY <2>3, <2>7, Updated DEF TypeOK
    <2>9. booked' \in Seq(Supplies) /\ Len(booked') = Len(booked)
      <3>1. DOMAIN booked = 1..Len(booked) /\ Len(booked) \in Nat
        BY DEF TypeOK
      <3>2. booked' \in [1..Len(booked) -> Supplies]
        BY <2>2, <2>3, <3>1 DEF TypeOK
      <3> QED
        BY <3>1, <3>2
    <2>10. TypeOK'
      BY <1>1, <2>2, <2>3, <2>4, <2>6, <2>7, <2>8, <2>9 DEF TypeOK
    <2>11. SuppliesKnown'
      <3>1. ASSUME NEW q \in Pumps, q # p PROVE states'[q] = states[q] /\ told'[q] = told[q]
                                       /\ lastDispense'[q] = lastDispense[q]
        BY <2>3, <3>1 DEF TypeOK
      <3>2. /\ states'[p] = s /\ told'[p] = EndOfTransaction(s)
            /\ lastDispense'[p] = Dispensed(s)
        BY <2>3 DEF TypeOK
      <3> QED
        BY <1>1, <2>1, <2>2, <2>4, <2>5, <3>1, <3>2 DEF SuppliesKnown, DoneIsSupply, IsSupply
    <2> QED
      BY <1>1, <1>2, <2>10, <2>11
  <1> QED
    BY <1>3, <1>4 DEF StateRead

\* What QueueCmd does but for the names of its answers.
LEMMA Queueing ==
    ASSUME NEW request, NEW c, QueueCmd(request, c)
    PROVE  /\ AddCmd(c) /\ c.id \in Pumps /\ c.cmdType \in DOMAIN QueuedReply
           /\ packets' = Tail(request) /\ pc' = "idle" /\ dbId' = 0
           /\ UNCHANGED <<transactions, booked, hasty, overtaken, lastDispense, told, byClose,
                          states, transactionHolder, late, pumpVars>>
  <1> DEFINE s == [Offline(c.id) EXCEPT !.type = QueuedReply[c.cmdType], !.dbId = c.dbId]
  <1>1. c.cmdType \in {"WRITE_VOLUME", "STOP_COMMAND", "GET_TOTAL"}
    BY DEF QueueCmd, QueuedReply
  <1>2. s.type = QueuedReply[c.cmdType]
    BY DEF Offline
  <1>3. s.type # "SUPPLY_DONE"
    BY <1>1, <1>2 DEF QueuedReply
  <1>4. Answered(request, s)
    BY DEF QueueCmd
  <1> HIDE DEF s
  <1> QED
    BY <1>3, <1>4, Answering DEF QueueCmd

\* processCmd queueing a command.
LEMMA QueueTyped ==
    ASSUME TypeInv, NEW request \in Seq(Packets), request # <<>>,
           NEW c \in Commands(request), QueueCmd(request, c)
    PROVE  TypeInv'
  <1> USE DEF TypeInv
  <1>1. c \in LineCmds
    BY CommandIsLineCmd, Queueing
  <1>2. /\ columnCmds' \in Seq(LineCmds) /\ marred' \subseteq DOMAIN transactions
    BY <1>1, Queued, Queueing
  <1>3. \A i \in DOMAIN columnCmds' : columnCmds'[i].id \in Pumps /\ columnCmds'[i].dbId \in Rows
    BY <1>2, LineCmdType
  <1>4. /\ packets' \in Seq(Packets) /\ pc' = "idle" /\ dbId' = 0 /\ dbId' \in Rows
        /\ UNCHANGED <<transactions, booked, hasty, overtaken, lastDispense, told, byClose, states,
                       transactionHolder, late, pump, supplies>>
    <2>1. packets' = Tail(request) /\ pc' = "idle" /\ dbId' = 0
          /\ UNCHANGED <<transactions, booked, hasty, overtaken, lastDispense, told, byClose,
                         states, transactionHolder, late, pump, supplies>>
      BY Queueing DEF pumpVars
    <2>2. packets' \in Seq(Packets)
      BY <2>1
    <2>3. 0 \in Rows
      BY BoundsAssumption DEF Rows
    <2> QED
      BY <2>1, <2>2, <2>3
  <1>5. TypeOK'
    BY <1>2, <1>3, <1>4 DEF TypeOK
  <1> QED
    BY <1>2, <1>4, <1>5 DEF Serving, SuppliesKnown, DoneIsSupply, IsSupply

\* updateTransactionFromCmd.
LEMMA CloseRowTyped ==
    ASSUME TypeInv, NEW request \in Seq(Packets), request # <<>>, pc = "idle",
           NEW c \in Commands(request), UpdateTransactionFromCmd(request, c)
    PROVE  TypeInv'
  <1> USE DEF TypeInv
  <1>1. /\ UNCHANGED <<booked, marred, overtaken, dbId, lastDispense, told, byClose, columnCmds,
                       states, transactionHolder, late, pump, supplies>>
        /\ packets' = request /\ pc' = "push"
        /\ transactions' = Journal!UpdateLatest(transactions, c.id, 3, 4, Journal!Keep)
        /\ hasty' = hasty \cup {r \in Newest(c.id) \ marred : transactions[r].state = 1}
        /\ c.cmdType = "CLOSE_REPORT" /\ c.id \in Pumps
    BY DEF UpdateTransactionFromCmd, CloseRow, lineVars, pumpVars
  <1>2. /\ DOMAIN transactions' = DOMAIN transactions
        /\ transactions' \in Seq(SaleRow)
        /\ DOMAIN transactions = 1..Len(transactions)
    <2> DEFINE p == c.id
    <2>1. p \in Pumps /\ transactions' = Journal!UpdateLatest(transactions, p, 3, 4, Journal!Keep)
          /\ transactions \in Seq(SaleRow) /\ 4 \in {3, 4}
          /\ Journal!Keep \in Volumes \cup {Journal!Keep}
      BY <1>1 DEF TypeOK
    <2> HIDE DEF p
    <2>2. transactions' \in Seq(SaleRow)
      BY <2>1, UpdatedType
    <2>3. DOMAIN transactions' = DOMAIN transactions /\ DOMAIN transactions = 1..Len(transactions)
      BY <2>1, Updated
    <2> QED
      BY <2>2, <2>3
  <1>3. Len(transactions') = Len(transactions)
    BY <1>2 DEF TypeOK
  <1>4. hasty' \subseteq DOMAIN transactions
    BY <1>1 DEF TypeOK, Newest
  <1>5. TypeOK'
    BY <1>1, <1>2, <1>3, <1>4 DEF TypeOK
  <1>6. Serving'
    BY <1>1, CommandsHaveId DEF Serving, Parsed
  <1> QED
    BY <1>1, <1>5, <1>6 DEF SuppliesKnown, DoneIsSupply, IsSupply

\* The command that follows it into the queue.
LEMMA PushTyped ==
    ASSUME TypeInv, packets # <<>>, pc = "push", NEW c \in Commands(packets), PushClose(c)
    PROVE  TypeInv'
  <1> USE DEF TypeInv
  <1>1. c \in LineCmds
    BY CommandIsLineCmd, CommandsHaveId DEF Serving, Parsed, TypeOK
  <1>2. /\ columnCmds' \in Seq(LineCmds) /\ marred' \subseteq DOMAIN transactions
    BY <1>1, Queued DEF PushClose
  <1>3. \A i \in DOMAIN columnCmds' : columnCmds'[i].id \in Pumps /\ columnCmds'[i].dbId \in Rows
    BY <1>2, LineCmdType
  <1>4. /\ pc' = "state"
        /\ UNCHANGED <<transactions, booked, hasty, overtaken, packets, dbId, lastDispense, told,
                       byClose, states, transactionHolder, late, pump, supplies>>
    BY DEF PushClose, pumpVars
  <1>5. TypeOK'
    BY <1>2, <1>3, <1>4 DEF TypeOK
  <1> QED
    BY <1>2, <1>4, <1>5 DEF Serving, SuppliesKnown, DoneIsSupply, IsSupply

-----------------------------------------------------------------------------
(***************************************************************************)
(* What happens at a pump, told by how its record changes.                 *)
(***************************************************************************)
Becomes(p, record) == pump' = [q \in Pumps |-> IF q = p THEN record ELSE pump[q]]

Taken(p, sale) ==
    /\ pump[p].phase \in {"idle", "authorized"}
    /\ Becomes(p, [phase |-> "authorized", sale |-> sale, supply |-> pump[p].supply])
    /\ UNCHANGED supplies

Started(p) ==
    /\ pump[p].phase = "authorized"
    /\ Becomes(p, [phase |-> "filling", sale |-> pump[p].sale, supply |-> pump[p].supply])
    /\ UNCHANGED supplies

Abandoned(p) ==
    /\ pump[p].phase = "authorized"
    /\ Becomes(p, Idle)
    /\ UNCHANGED supplies

Finished(p) ==
    /\ pump[p].phase = "filling"
    /\ Len(supplies) < Len(Amounts)
    /\ supplies' = Append(supplies,
                      [pump |-> p, sale |-> pump[p].sale, closed |-> FALSE,
                       volume |-> Amounts[Len(supplies) + 1]])
    /\ Becomes(p, [phase |-> "done", sale |-> pump[p].sale, supply |-> Len(supplies')])

Closed(p) ==
    /\ pump[p].phase = "done"
    /\ Becomes(p, Idle)
    /\ supplies' = [supplies EXCEPT ![pump[p].supply].closed = TRUE]

\* A command that has left the queue, obeyed or not.
CmdObeyed(c) ==
    \/ UNCHANGED pumpVars
    \/ c.cmdType = "WRITE_VOLUME" /\ Taken(c.id, c.dbId)
    \/ c.cmdType = "CLOSE_REPORT" /\ Closed(c.id)
    \/ c.cmdType = "STOP_COMMAND" /\ (Finished(c.id) \/ Abandoned(c.id))

\* The parts of a pump.
LEMMA PumpRecord ==
    ASSUME TypeOK, NEW p \in Pumps
    PROVE  /\ pump[p] = [phase |-> pump[p].phase, sale |-> pump[p].sale,
                         supply |-> pump[p].supply]
           /\ pump[p].phase \in {"idle", "authorized", "filling", "done"}
           /\ pump[p].sale \in Rows /\ pump[p].supply \in Supplies
           /\ pump \in [Pumps -> PumpState] /\ pump[p] \in PumpState
  BY DEF TypeOK, PumpState

\* The end of a supply.
LEMMA EndedIsFinished ==
    ASSUME TypeOK, NEW p \in Pumps, pump[p].phase = "filling", Ended(p)
    PROVE  Finished(p)
  <1> DEFINE n == Len(supplies')
  <1>1. pump' = [pump EXCEPT ![p].phase = "done", ![p].supply = n]
    BY DEF Ended
  <1> HIDE DEF n
  <1>2. pump'[p] = [phase |-> "done", sale |-> pump[p].sale, supply |-> n]
    BY <1>1, PumpRecord DEF PumpState
  <1>3. Becomes(p, [phase |-> "done", sale |-> pump[p].sale, supply |-> n])
    BY <1>1, <1>2, PumpRecord DEF Becomes
  <1> QED
    BY <1>3 DEF Ended, Finished, n

\* What a pump makes of a command that reaches it.
LEMMA Obeying ==
    ASSUME TypeInv, NEW c \in LineCmds, Obey(c)
    PROVE  CmdObeyed(c)
  <1> USE DEF TypeInv
  <1> DEFINE p == c.id
             r == c.dbId
  <1>1. p \in Pumps
    BY LineCmdType
  <1>2. CASE c.cmdType = "WRITE_VOLUME" /\ Authorize(c)
    <2>1. /\ pump[p].phase \in {"idle", "authorized"} /\ UNCHANGED supplies
          /\ pump' = [pump EXCEPT ![p] = [@ EXCEPT !.phase = "authorized", !.sale = r]]
      BY <1>2 DEF Authorize
    <2> HIDE DEF p, r
    <2>2. pump'[p] = [phase |-> "authorized", sale |-> r, supply |-> pump[p].supply]
      BY <1>1, <2>1, PumpRecord DEF PumpState
    <2>3. Becomes(p, [phase |-> "authorized", sale |-> r, supply |-> pump[p].supply])
      BY <1>1, <2>1, <2>2, PumpRecord DEF Becomes
    <2> QED
      BY <1>2, <2>1, <2>3 DEF CmdObeyed, Taken, p, r
  <1>3. CASE c.cmdType = "CLOSE_REPORT" /\ Close(c)
    <2>1. /\ pump[p].phase = "done" /\ pump' = [pump EXCEPT ![p] = Idle]
          /\ supplies' = [supplies EXCEPT ![pump[p].supply].closed = TRUE]
      BY <1>3 DEF Close
    <2> HIDE DEF p
    <2>2. Becomes(p, Idle)
      BY <1>1, <2>1, PumpRecord DEF Becomes
    <2> QED
      BY <1>3, <2>1, <2>2 DEF CmdObeyed, Closed, p
  <1>4. CASE c.cmdType = "STOP_COMMAND" /\ Halt(c)
    <2>1. \/ pump[p].phase = "filling" /\ Ended(p)
          \/ /\ pump[p].phase = "authorized" /\ UNCHANGED supplies
             /\ pump' = [pump EXCEPT ![p] = Idle]
      BY <1>4 DEF Halt
    <2> HIDE DEF p
    <2>2. Finished(p) \/ Abandoned(p)
      BY <1>1, <2>1, EndedIsFinished, PumpRecord DEF Abandoned, Becomes
    <2> QED
      BY <1>4, <2>2 DEF CmdObeyed, p
  <1> QED
    BY <1>2, <1>3, <1>4 DEF Obey

\* What a customer does to a pump.
LEMMA CustomerActs ==
    ASSUME TypeOK, NEW p \in Pumps, Customer(p)
    PROVE  Started(p) \/ Abandoned(p) \/ Finished(p)
  <1>1. CASE pump[p].phase = "filling" /\ Ended(p)
    BY <1>1, EndedIsFinished
  <1>2. CASE /\ pump[p].phase = "authorized"
             /\ pump' \in {[pump EXCEPT ![p].phase = "filling"], [pump EXCEPT ![p] = Idle]}
             /\ UNCHANGED supplies
    <2>1. CASE pump' = [pump EXCEPT ![p].phase = "filling"]
      <3>1. pump'[p] = [phase |-> "filling", sale |-> pump[p].sale, supply |-> pump[p].supply]
        BY <2>1, PumpRecord DEF PumpState
      <3>2. Becomes(p, [phase |-> "filling", sale |-> pump[p].sale, supply |-> pump[p].supply])
        BY <2>1, <3>1, PumpRecord DEF Becomes
      <3> QED
        BY <1>2, <3>2 DEF Started
    <2>2. CASE pump' = [pump EXCEPT ![p] = Idle]
      BY <1>2, <2>2, PumpRecord DEF Abandoned, Becomes
    <2> QED
      BY <1>2, <2>1, <2>2
  <1> QED
    BY <1>1, <1>2 DEF Customer

\* A step of a pump.
PumpStep(p) ==
    \/ UNCHANGED pumpVars
    \/ \E r \in Rows : Taken(p, r)
    \/ Started(p) \/ Abandoned(p) \/ Finished(p) \/ Closed(p)

\* What has ended has ended: supplies are added, and closed, but never rewritten.
LEMMA SuppliesKept ==
    ASSUME TypeInv, NEW p \in Pumps, PumpStep(p)
    PROVE  /\ supplies' \in Seq(Supply) /\ Len(supplies') <= Len(Amounts)
           /\ \A n \in DOMAIN supplies :
                /\ n \in DOMAIN supplies'
                /\ supplies'[n].pump = supplies[n].pump
                /\ supplies'[n].sale = supplies[n].sale
                /\ supplies'[n].volume = supplies[n].volume
  <1> USE DEF TypeInv
  <1>0. supplies \in Seq(Supply) /\ Len(supplies) <= Len(Amounts) /\ Len(Amounts) \in Nat
        /\ DOMAIN supplies = 1..Len(supplies)
    BY AmountsAssumption DEF TypeOK
  <1>1. CASE UNCHANGED supplies
    BY <1>0, <1>1
  <1>2. CASE Finished(p)
    <2> DEFINE new == [pump |-> p, sale |-> pump[p].sale, closed |-> FALSE,
                       volume |-> Amounts[Len(supplies) + 1]]
    <2>1. Len(supplies) + 1 \in DOMAIN Amounts
      BY <1>0, <1>2, AmountsAssumption DEF Finished
    <2>2. Amounts[Len(supplies) + 1] \in Volumes
      <3>1. MaxVolume \in Nat
        BY DEF MaxVolume
      <3> QED
        BY <2>1, <3>1, AmountsAssumption DEF Volumes
    <2>3. new \in Supply
      BY <2>2, PumpRecord DEF Supply
    <2>4. supplies' = Append(supplies, new) /\ Len(supplies) < Len(Amounts)
      BY <1>2 DEF Finished
    <2> HIDE DEF new
    <2> QED
      BY <1>0, <2>3, <2>4
  <1>3. CASE Closed(p)
    <2> DEFINE n == pump[p].supply
    <2>1. n \in DOMAIN supplies
      BY <1>3 DEF Closed, SuppliesKnown, DoneIsSupply, IsSupply
    <2>2. supplies' = [supplies EXCEPT ![n] = [@ EXCEPT !.closed = TRUE]]
      BY <1>3 DEF Closed
    <2> HIDE DEF n
    <2>3. supplies[n] \in Supply
      BY <1>0, <2>1
    <2> DEFINE new == [supplies[n] EXCEPT !.closed = TRUE]
    <2>4. /\ new \in Supply /\ new.pump = supplies[n].pump /\ new.sale = supplies[n].sale
          /\ new.volume = supplies[n].volume
      BY <2>3 DEF Supply
    <2>5. supplies' = [supplies EXCEPT ![n] = new]
      BY <2>2
    <2> HIDE DEF new
    <2> QED
      BY <1>0, <2>1, <2>4, <2>5
  <1> QED
    BY <1>1, <1>2, <1>3 DEF PumpStep, Taken, Started, Abandoned, pumpVars

\* A pump that has ended a supply knows it.
LEMMA PumpTyped ==
    ASSUME TypeInv, NEW p \in Pumps, PumpStep(p)
    PROVE  /\ pump' \in [Pumps -> PumpState]
           /\ \A q \in Pumps : DoneIsSupply(q)'
  <1> USE DEF TypeInv
  <1>0. pump \in [Pumps -> PumpState]
    BY DEF TypeOK
  <1>1. /\ \A q \in Pumps : q # p => pump'[q] = pump[q]
        /\ DOMAIN pump' = Pumps /\ pump' = [q \in Pumps |-> pump'[q]]
    BY <1>0 DEF PumpStep, Taken, Started, Abandoned, Finished, Closed, Becomes, pumpVars
  <1>2. pump'[p] \in PumpState /\ DoneIsSupply(p)'
    <2>1. CASE Finished(p)
      <3> DEFINE new == [pump |-> p, sale |-> pump[p].sale, closed |-> FALSE,
                         volume |-> Amounts[Len(supplies) + 1]]
                 n   == Len(supplies) + 1
      <3>1. supplies \in Seq(Supply) /\ supplies' = Append(supplies, new)
            /\ Len(supplies) < Len(Amounts)
            /\ Len(Amounts) \in Nat /\ Len(supplies) \in Nat
        BY <2>1, AmountsAssumption DEF Finished, TypeOK
      <3>2. new.pump = p /\ new.sale = pump[p].sale
        OBVIOUS
      <3> HIDE DEF new
      <3>3. Len(supplies') = n /\ n \in DOMAIN supplies' /\ supplies'[n] = new /\ n \in Supplies
        BY <3>1 DEF Supplies
      <3>4. pump'[p] = [phase |-> "done", sale |-> pump[p].sale, supply |-> n]
        BY <2>1, <3>3 DEF Finished, Becomes
      <3>5. pump'[p] \in PumpState
        <4>1. pump[p].sale \in Rows
          BY PumpRecord
        <4> HIDE DEF n
        <4> QED
          BY <3>3, <3>4, <4>1 DEF PumpState
      <3>6. DoneIsSupply(p)'
        BY <3>2, <3>3, <3>4 DEF DoneIsSupply
      <3> QED
        BY <3>5, <3>6
    <2>2. CASE Closed(p) \/ Abandoned(p)
      <3>1. pump'[p] = Idle /\ 0 \in Rows /\ 0 \in Supplies
        BY <2>2, BoundsAssumption, AmountsAssumption DEF Closed, Abandoned, Becomes, Rows, Supplies
      <3>2. pump'[p] \in PumpState
        BY <3>1 DEF Idle, PumpState
      <3>3. DoneIsSupply(p)'
        BY <3>1 DEF DoneIsSupply, Idle
      <3> QED
        BY <3>2, <3>3
    <2>3. ASSUME NEW r \in Rows, Taken(p, r) PROVE pump'[p] \in PumpState /\ DoneIsSupply(p)'
      <3>1. pump'[p] = [phase |-> "authorized", sale |-> r, supply |-> pump[p].supply]
        BY <2>3 DEF Taken, Becomes
      <3>2. pump[p].supply \in Supplies
        BY PumpRecord
      <3>3. pump'[p] \in PumpState
        BY <3>1, <3>2 DEF PumpState
      <3>4. DoneIsSupply(p)'
        BY <3>1 DEF DoneIsSupply
      <3> QED
        BY <3>3, <3>4
    <2>4. CASE Started(p)
      <3>1. pump'[p] = [phase |-> "filling", sale |-> pump[p].sale, supply |-> pump[p].supply]
        BY <2>4 DEF Started, Becomes
      <3>2. pump[p].sale \in Rows /\ pump[p].supply \in Supplies
        BY PumpRecord
      <3>3. pump'[p] \in PumpState
        BY <3>1, <3>2 DEF PumpState
      <3>4. DoneIsSupply(p)'
        BY <3>1 DEF DoneIsSupply
      <3> QED
        BY <3>3, <3>4
    <2>5. CASE UNCHANGED pumpVars
      <3>1. pump' = pump /\ supplies' = supplies
        BY <2>5 DEF pumpVars
      <3>2. pump[p] \in PumpState
        BY PumpRecord
      <3>3. DoneIsSupply(p)
        BY DEF SuppliesKnown
      <3>4. DoneIsSupply(p)'
        BY <3>1, <3>3 DEF DoneIsSupply
      <3> QED
        BY <3>1, <3>2, <3>4
    <2> QED
      BY <2>1, <2>2, <2>3, <2>4, <2>5 DEF PumpStep
  <1>3. pump' \in [Pumps -> PumpState]
    BY <1>0, <1>1, <1>2
  <1>4. \A q \in Pumps : DoneIsSupply(q)'
    BY <1>1, <1>2, SuppliesKept DEF SuppliesKnown, DoneIsSupply
  <1> QED
    BY <1>3, <1>4

\* No step of a pump takes the supplies away that others speak of.
LEMMA PumpStepKnown ==
    ASSUME TypeInv, NEW p \in Pumps, PumpStep(p), UNCHANGED <<states, late, told, lastDispense>>
    PROVE  SuppliesKnown'
  BY PumpTyped, SuppliesKept DEF TypeInv, SuppliesKnown, IsSupply

\* A step of a customer is one of the pump, and nobody notices.
LEMMA CustomerTyped ==
    ASSUME TypeInv, NEW p \in Pumps, Customer(p)
    PROVE  TypeInv' /\ PumpStep(p)
  <1> USE DEF TypeInv
  <1>1. PumpStep(p)
    BY CustomerActs DEF PumpStep
  <1>2. UNCHANGED <<journalVars, jsonVars, lineVars>>
    BY DEF Customer
  <1>3. /\ pump' \in [Pumps -> PumpState] /\ SuppliesKnown'
        /\ supplies' \in Seq(Supply) /\ Len(supplies') <= Len(Amounts)
    BY <1>1, <1>2, PumpTyped, PumpStepKnown, SuppliesKept DEF jsonVars, lineVars
  <1> QED
    BY <1>1, <1>2, <1>3 DEF TypeOK, Serving, Parsed, journalVars, jsonVars, lineVars

\* What a pump says of itself is a state; it speaks of a supply it has ended.
LEMMA ReportTyped ==
    ASSUME NEW p \in Pumps, NEW state \in PumpState, NEW ended \in Seq(Supply),
           state.phase = "done" => state.supply \in DOMAIN ended
    PROVE  LET s == Report(p, state, ended)
           IN  /\ s \in State /\ s.id = p
               /\ s.type = "SUPPLY_DONE" =>
                     /\ state.phase = "done" /\ s.dbId = 0 /\ s.supply = state.supply
                     /\ s.volume = ended[state.supply].volume
  <1> DEFINE s == Report(p, state, ended)
  <1>0. 0 \in Rows /\ 0 \in Supplies /\ 0 \in Volumes /\ 1 \in Volumes
    <2>1. MaxVolume \in Nat /\ MaxVolume > 0
      BY DEF MaxVolume
    <2> QED
      BY <2>1, BoundsAssumption, AmountsAssumption DEF Rows, Supplies, Volumes
  <1>1. CASE state.phase = "done"
    <2> DEFINE n == state.supply
               v == ended[n].volume
    <2>1. v \in Volumes
      <3>1. ended[n] \in Supply
        BY <1>1
      <3> QED
        BY <3>1 DEF Supply
    <2>2. n \in Supplies
      BY DEF PumpState
    <2>3. s = [id |-> p, type |-> "SUPPLY_DONE", dbId |-> 0, volume |-> v, supply |-> n]
      BY <1>1 DEF Report
    <2> HIDE DEF n, v, s
    <2>4. /\ s \in State /\ s.id = p /\ s.dbId = 0 /\ s.supply = n /\ s.volume = v
      BY <1>0, <2>1, <2>2, <2>3 DEF State, StateTypes
    <2> QED
      BY <1>1, <2>4 DEF n, v, s
  <1>2. CASE state.phase # "done"
    <2>1. \/ s = [id |-> p, type |-> "FUEL_SUPPLY", dbId |-> 0, volume |-> 1, supply |-> 0]
          \/ s = [id |-> p, type |-> "HANGED_FREE", dbId |-> 0, volume |-> 0, supply |-> 0]
      BY <1>2 DEF Report
    <2> HIDE DEF s
    <2>2. s \in State /\ s.id = p /\ s.type # "SUPPLY_DONE"
      BY <1>0, <2>1 DEF State, StateTypes
    <2> QED
      BY <2>2 DEF s
  <1> QED
    BY <1>1, <1>2

\* Totals are a state, and the end of nothing.
LEMMA TotalsTyped ==
    ASSUME NEW p \in Pumps
    PROVE  TotalsOf(p) \in State /\ TotalsOf(p).id = p /\ TotalsOf(p).type # "SUPPLY_DONE"
  <1>1. MaxVolume \in Nat /\ MaxVolume >= 2000
    BY DEF MaxVolume
  <1>2. 0 \in Rows /\ 0 \in Supplies /\ 2000 \in Volumes
    BY <1>1, BoundsAssumption, AmountsAssumption DEF Rows, Volumes, Supplies
  <1> DEFINE off    == Offline(p)
             totals == [off EXCEPT !.type = "TOTAL_RESPONSE"]
  <1>3. off \in State /\ off.id = p
    BY <1>1, <1>2 DEF Offline, State, StateTypes, Volumes
  <1>4. TotalsOf(p) = [off EXCEPT !.type = "TOTAL_RESPONSE", !.volume = 2000]
        /\ "TOTAL_RESPONSE" \in StateTypes
    BY DEF TotalsOf, StateTypes
  <1> HIDE DEF off
  <1>5. totals \in State /\ totals.id = p /\ totals.type = "TOTAL_RESPONSE"
    BY <1>3, <1>4 DEF State
  <1>6. TotalsOf(p) = [totals EXCEPT !.volume = 2000]
    BY <1>4
  <1> HIDE DEF totals
  <1> QED
    BY <1>2, <1>5, <1>6 DEF State

\* If s is the end of a supply, it is one that pump p has ended, with no id yet, read now
\* or late.
Said(p, s) ==
    s.type = "SUPPLY_DONE" =>
        /\ s.dbId = 0
        /\ \/ late[p].type = "SUPPLY_DONE" /\ s.supply = late[p].supply
           \/ pump'[p].phase = "done" /\ s.supply = pump'[p].supply

\* What the line knows of p, and what is late, are as before or as the pump has said.
Heard(p) ==
    /\ UNCHANGED states \/ \E s : Said(p, s) /\ states' = [states EXCEPT ![p] = s]
    /\ UNCHANGED late \/ \E s : Said(p, s) /\ late' = [late EXCEPT ![p] = s]

\* The line keeps what it reads.
LEMMA LineReads ==
    ASSUME TypeInv, NEW p \in Pumps, NEW s \in State, Read(p, s)
    PROVE  /\ states' \in [Pumps -> State \cup {Unknown}]
           /\ transactionHolder' \in [Pumps -> Supplies]
           /\ states' = states \/ states' = [states EXCEPT ![p] = s]
  <1>1. /\ states' = states \/ states' = [states EXCEPT ![p] = s]
        /\ transactionHolder' = transactionHolder
           \/ transactionHolder' = [transactionHolder EXCEPT ![p] = s.supply]
    BY DEF Read, AddState
  <1>2. s.supply \in Supplies
    BY DEF State
  <1> QED
    BY <1>1, <1>2 DEF TypeInv, TypeOK

\* After the step, v is the volume of the supply n of pump p.
Kept(p, n, v) ==
    n \in DOMAIN supplies' /\ supplies'[n].pump = p /\ supplies'[n].volume = v

\* What can be said of p then.
Fine(p, s) ==
    /\ s # Unknown => s.id = p
    /\ s.type = "SUPPLY_DONE" => Kept(p, s.supply, s.volume)

\* The pump answers, after a step of its own or none, in time, late or not at all.
LEMMA Transmitted ==
    ASSUME TypeInv, NEW p \in Pumps, NEW answer \in State, answer.id = p,
           answer.type = "SUPPLY_DONE" =>
              /\ answer.dbId = 0
              /\ pump'[p].phase = "done" /\ answer.supply = pump'[p].supply
              /\ Kept(p, answer.supply, answer.volume),
           PumpStep(p), UNCHANGED <<told, lastDispense>>,
           Transmit(p, answer)
    PROVE  /\ Heard(p)
           /\ states' \in [Pumps -> State \cup {Unknown}]
           /\ late' \in [Pumps -> State \cup {Unknown}]
           /\ transactionHolder' \in [Pumps -> Supplies]
           /\ SuppliesKnown'
  <1>0. /\ states \in [Pumps -> State \cup {Unknown}] /\ late \in [Pumps -> State \cup {Unknown}]
        /\ transactionHolder \in [Pumps -> Supplies]
    BY DEF TypeInv, TypeOK
  <1>1. \A q \in Pumps : /\ \A n, v : IsSupply(q, n, v) => Kept(q, n, v)
                         /\ told[q].supply # 0 => told[q].Type = "PumpEndOfTransactionStatus"
                         /\ told[q].Type = "PumpEndOfTransactionStatus" =>
                               /\ Kept(q, told[q].supply, supplies'[told[q].supply].volume)
                               /\ told[q].Volume = Hundredths(supplies'[told[q].supply].volume)
                         /\ lastDispense[q].transaction # 0 \/ lastDispense[q].supply # 0 =>
                               Kept(q, lastDispense[q].supply, lastDispense[q].volume)
    BY SuppliesKept DEF IsSupply, Kept, TypeInv, SuppliesKnown
  <1>2. Fine(p, answer) /\ Said(p, answer)
    BY DEF Said, Fine, Kept, IsSupply
  <1>3. /\ Fine(p, late[p]) /\ Said(p, late[p])
        /\ late[p].type = "SUPPLY_DONE" => late[p].dbId = 0
    BY <1>1 DEF TypeInv, SuppliesKnown, Said, Fine
  <1>4. Fine(p, Unknown) /\ Said(p, Unknown) /\ Unknown.type # "SUPPLY_DONE"
    BY DEF Unknown, Said, Fine
  <1>5. /\ states' \in [Pumps -> State \cup {Unknown}]
        /\ transactionHolder' \in [Pumps -> Supplies]
        /\ \/ states' = states \/ states' = [states EXCEPT ![p] = answer]
           \/ states' = [states EXCEPT ![p] = late[p]]
    <2>1. CASE Read(p, answer)
      BY <2>1, LineReads
    <2>2. CASE late[p] = Unknown /\ UNCHANGED <<states, transactionHolder>>
      BY <1>0, <2>2
    <2>3. CASE late[p] # Unknown /\ Read(p, late[p])
      <3>1. late[p] \in State
        BY <1>0, <2>3
      <3> QED
        BY <2>3, <3>1, LineReads
    <2> QED
      BY <2>1, <2>2, <2>3 DEF Transmit
  <1>6. /\ late' = [late EXCEPT ![p] = answer] \/ late' = [late EXCEPT ![p] = Unknown]
        /\ late' \in [Pumps -> State \cup {Unknown}]
    <2>1. late' = [late EXCEPT ![p] = answer] \/ late' = [late EXCEPT ![p] = Unknown]
      BY DEF Transmit
    <2> QED
      BY <1>0, <2>1
  <1>7. Heard(p)
    BY <1>2, <1>3, <1>4, <1>5, <1>6 DEF Heard
  <1>8. /\ \A q \in Pumps : q # p => states'[q] = states[q] /\ late'[q] = late[q]
        /\ states'[p] = states[p] \/ states'[p] = answer \/ states'[p] = late[p]
        /\ late'[p] = answer \/ late'[p] = Unknown
    BY <1>0, <1>5, <1>6
  <1>9. Fine(p, states[p])
    BY <1>1 DEF TypeInv, SuppliesKnown, Fine
  <1>10. \A q \in Pumps : /\ Fine(q, states'[q]) /\ Fine(q, late'[q])
                          /\ late'[q].type = "SUPPLY_DONE" => late'[q].dbId = 0
    <2>1. \A q \in Pumps : /\ Fine(q, states[q]) /\ Fine(q, late[q])
                           /\ late[q].type = "SUPPLY_DONE" => late[q].dbId = 0
      BY <1>1 DEF TypeInv, SuppliesKnown, Fine
    <2> QED
      BY <1>2, <1>3, <1>4, <1>8, <1>9, <2>1
  <1>11. \A q \in Pumps : DoneIsSupply(q)'
    BY PumpTyped
  <1>12. SuppliesKnown'
    BY <1>1, <1>10, <1>11 DEF SuppliesKnown, IsSupply, Fine, Kept, Unknown
  <1> QED
    BY <1>5, <1>6, <1>7, <1>12

\* The pump says what it is at.
LEMMA Reported ==
    ASSUME TypeInv, NEW p \in Pumps, PumpStep(p), UNCHANGED <<told, lastDispense>>,
           Transmit(p, Report(p, pump'[p], supplies'))
    PROVE  /\ Heard(p)
           /\ states' \in [Pumps -> State \cup {Unknown}]
           /\ late' \in [Pumps -> State \cup {Unknown}]
           /\ transactionHolder' \in [Pumps -> Supplies]
           /\ SuppliesKnown'
  <1> DEFINE s == Report(p, pump'[p], supplies')
  <1>1. /\ pump'[p] \in PumpState /\ supplies' \in Seq(Supply)
        /\ pump'[p].phase = "done" =>
              pump'[p].supply \in DOMAIN supplies' /\ supplies'[pump'[p].supply].pump = p
    BY PumpTyped, SuppliesKept DEF DoneIsSupply
  <1>2. /\ s \in State /\ s.id = p
        /\ s.type = "SUPPLY_DONE" =>
              /\ pump'[p].phase = "done" /\ s.dbId = 0 /\ s.supply = pump'[p].supply
              /\ s.volume = supplies'[pump'[p].supply].volume
    BY <1>1, ReportTyped
  <1> HIDE DEF s
  <1>3. s.type = "SUPPLY_DONE" => Kept(p, s.supply, s.volume)
    BY <1>1, <1>2 DEF Kept
  <1>4. Transmit(p, s)
    BY DEF s
  <1> QED
    BY <1>2, <1>3, <1>4, Transmitted

\* processStatus.
LEMMA PollTyped ==
    ASSUME TypeInv, NEW p \in Pumps, Poll(p)
    PROVE  TypeInv' /\ Heard(p)
  <1> USE DEF TypeInv
  <1>1. /\ UNCHANGED <<journalVars, jsonVars, columnCmds, pumpVars>>
        /\ Transmit(p, Report(p, pump'[p], supplies'))
    BY DEF Poll, ReportOf, pumpVars
  <1>2. PumpStep(p) /\ UNCHANGED <<told, lastDispense>>
    BY <1>1 DEF PumpStep, jsonVars
  <1>3. /\ Heard(p) /\ SuppliesKnown'
        /\ states' \in [Pumps -> State \cup {Unknown}]
        /\ late' \in [Pumps -> State \cup {Unknown}]
        /\ transactionHolder' \in [Pumps -> Supplies]
    BY <1>1, <1>2, Reported
  <1> QED
    BY <1>1, <1>3 DEF TypeOK, Serving, Parsed, journalVars, jsonVars, pumpVars

\* The order of a keyboard.
LEMMA KeyboardTyped ==
    ASSUME TypeInv, NEW p \in Pumps, Keyboard(p)
    PROVE  TypeInv'
  <1> USE DEF TypeInv
  <1> DEFINE c == Cmd("WRITE_VOLUME", p, 1, 999000)
  <1>1. c \in LineCmds
    BY DEF LineCmds, Cmd
  <1>2. UNCHANGED <<transactions, booked, hasty, overtaken, jsonVars, states,
                    transactionHolder, late, pumpVars>>
        /\ AddCmd(c)
    BY DEF Keyboard
  <1> HIDE DEF c
  <1>3. /\ columnCmds' \in Seq(LineCmds) /\ marred' \subseteq DOMAIN transactions
    BY <1>1, <1>2, Queued
  <1>4. \A i \in DOMAIN columnCmds' : columnCmds'[i].id \in Pumps /\ columnCmds'[i].dbId \in Rows
    BY <1>3, LineCmdType
  <1> QED
    BY <1>2, <1>3, <1>4
    DEF TypeOK, Serving, Parsed, SuppliesKnown, DoneIsSupply, IsSupply, jsonVars, pumpVars

\* What becomes of the oldest command.
LEMMA Processing ==
    ASSUME TypeInv, ProcessCmd
    PROVE  LET c == Head(columnCmds)
           IN  /\ columnCmds # <<>> /\ columnCmds' = Tail(columnCmds) /\ c \in LineCmds
               /\ UNCHANGED <<journalVars, jsonVars>>
               /\ CmdObeyed(c)
               /\ \/ Transmit(c.id, Report(c.id, pump'[c.id], supplies'))
                  \/ Transmit(c.id, TotalsOf(c.id))
                  \/ UNCHANGED <<states, transactionHolder, late>>
  <1> DEFINE c == Head(columnCmds)
  <1>1. c \in LineCmds
    BY DEF TypeInv, ProcessCmd
  <1>2. Obey(c) => CmdObeyed(c)
    BY <1>1, Obeying
  <1>3. UNCHANGED pumpVars => CmdObeyed(c)
    BY DEF CmdObeyed
  <1>4. UNCHANGED pumpVars => ReportOf(c.id) = Report(c.id, pump'[c.id], supplies')
    BY DEF ReportOf, pumpVars
  <1> QED
    BY <1>1, <1>2, <1>3, <1>4 DEF ProcessCmd

\* A command is obeyed in a step of its pump.
LEMMA ObeyedIsPumpStep ==
    ASSUME NEW c \in LineCmds, CmdObeyed(c) PROVE PumpStep(c.id)
  BY LineCmdType DEF CmdObeyed, PumpStep

\* processCmd of the line.
LEMMA ProcessTyped ==
    ASSUME TypeInv, ProcessCmd
    PROVE  TypeInv' /\ Heard(Head(columnCmds).id)
  <1> USE DEF TypeInv
  <1> DEFINE c == Head(columnCmds)
             p == c.id
  <1>1. /\ columnCmds # <<>> /\ columnCmds' = Tail(columnCmds) /\ c \in LineCmds /\ p \in Pumps
        /\ UNCHANGED <<journalVars, jsonVars>> /\ PumpStep(p)
        /\ \/ Transmit(p, Report(p, pump'[p], supplies'))
           \/ Transmit(p, TotalsOf(p))
           \/ UNCHANGED <<states, transactionHolder, late>>
    BY Processing, LineCmdType, ObeyedIsPumpStep
  <1>2. columnCmds' \in Seq(LineCmds)
    BY <1>1
  <1>3. \A i \in DOMAIN columnCmds' : columnCmds'[i].id \in Pumps /\ columnCmds'[i].dbId \in Rows
    BY <1>2, LineCmdType
  <1> HIDE DEF p
  <1>4. /\ pump' \in [Pumps -> PumpState]
        /\ supplies' \in Seq(Supply) /\ Len(supplies') <= Len(Amounts)
    BY <1>1, PumpTyped, SuppliesKept
  <1>5. /\ Heard(p) /\ SuppliesKnown'
        /\ states' \in [Pumps -> State \cup {Unknown}]
        /\ late' \in [Pumps -> State \cup {Unknown}]
        /\ transactionHolder' \in [Pumps -> Supplies]
    <2>0. UNCHANGED <<told, lastDispense>>
      BY <1>1 DEF jsonVars
    <2>1. CASE Transmit(p, Report(p, pump'[p], supplies'))
      BY <1>1, <2>0, <2>1, Reported
    <2>2. CASE Transmit(p, TotalsOf(p))
      BY <1>1, <2>0, <2>2, TotalsTyped, Transmitted
    <2>3. CASE UNCHANGED <<states, transactionHolder, late>>
      <3>1. SuppliesKnown'
        BY <1>1, <2>0, <2>3, PumpStepKnown
      <3> QED
        BY <2>3, <3>1 DEF TypeOK, Heard
    <2> QED
      BY <1>1, <2>1, <2>2, <2>3
  <1>6. TypeInv'
    BY <1>1, <1>2, <1>3, <1>4, <1>5 DEF TypeOK, Serving, Parsed, journalVars, jsonVars
  <1> QED
    BY <1>5, <1>6 DEF p

\* What a step is made of, with what is known of the thread that takes it: a packet is
\* served while nothing is, or the work on one goes on.
Steps ==
    \/ \E request \in Seq(Packets) : \E c \in Commands(request) :
          /\ pc = "idle" /\ request # <<>>
          /\ \/ JsonCheck(request, c)
             \/ ProcessTechCmd(request, c)
             \/ ProcessStatusRequest(request, c)
             \/ UpdateTransactionFromCmd(request, c)
             \/ c.cmdType \in {"STOP_COMMAND", "GET_TOTAL"} /\ QueueCmd(request, c)
    \/ \E c \in Commands(packets) :
          /\ packets # <<>>
          /\ \/ pc = "authorize" /\ QueueCmd(packets, c)
             \/ pc = "push" /\ PushClose(c)
             \/ pc = "state" /\ ReadStateAfterClose(c.id)
    \/ ProcessCmd
    \/ \E p \in Pumps : Poll(p) \/ Keyboard(p) \/ Customer(p)
    \/ Stop

\* Every step is one of Steps: where the code would throw, it is Stop.
LEMMA NextIsSteps == TypeInv /\ Next => Steps
  <1> SUFFICES ASSUME TypeInv, Next PROVE Steps
    OBVIOUS
  <1>1. CASE ServePacket
    <2>1. PICK request \in Served : \E c \in Commands(request) :
            \/ JsonCheck(request, c)
            \/ NoSuchNozzle(c)
            \/ ProcessTechCmd(request, c)
            \/ ProcessStatusRequest(request, c)
            \/ UpdateTransactionFromCmd(request, c)
            \/ c.cmdType \in {"STOP_COMMAND", "GET_TOTAL"} /\ QueueCmd(request, c)
            \/ c.cmdType \in {"STOP_COMMAND", "GET_TOTAL", "CLOSE_REPORT"} /\ NoSuchPump(c)
      BY <1>1 DEF ServePacket
    <2>2. pc = "idle" /\ request \in Seq(Packets) /\ request # <<>>
      BY RequestsAssumption DEF Served, TypeInv, TypeOK
    <2> QED
      BY <2>1, <2>2 DEF Steps, NoSuchNozzle, NoSuchPump
  <1>2. CASE GoOn
    BY <1>2 DEF GoOn, Steps
  <1>3. CASE PollThread \/ (\E p \in Pumps : Customer(p)) \/ Stop
    BY <1>3 DEF PollThread, Steps
  <1> QED
    BY <1>1, <1>2, <1>3 DEF Next, JsonThread

\* TypeInv holds after every step if it held before.
LEMMA TypeStep == TypeInv /\ [Next]_vars => TypeInv'
  <1> SUFFICES ASSUME TypeInv, [Next]_vars PROVE TypeInv'
    OBVIOUS
  <1>1. CASE UNCHANGED vars
    BY <1>1 DEF vars, journalVars, jsonVars, lineVars, pumpVars, TypeInv, TypeOK, Serving, Parsed,
                SuppliesKnown, DoneIsSupply, IsSupply
  <1>2. CASE Steps
    <2>1. ASSUME NEW request \in Seq(Packets), NEW c \in Commands(request), pc = "idle",
                 request # <<>>, JsonCheck(request, c)
          PROVE  TypeInv'
      BY <2>1, JsonCheckTyped
    <2>2. ASSUME NEW request \in Seq(Packets), NEW c \in Commands(request), request # <<>>,
                 ProcessTechCmd(request, c)
          PROVE  TypeInv'
      BY <2>2, TechTyped
    <2>3. ASSUME NEW request \in Seq(Packets), NEW c \in Commands(request), request # <<>>,
                 ProcessStatusRequest(request, c)
          PROVE  TypeInv'
      BY <2>3, StatusRequestReads, ReadTyped
    <2>4. ASSUME NEW request \in Seq(Packets), NEW c \in Commands(request), pc = "idle",
                 request # <<>>, UpdateTransactionFromCmd(request, c)
          PROVE  TypeInv'
      BY <2>4, CloseRowTyped
    <2>5. ASSUME NEW request \in Seq(Packets), NEW c \in Commands(request), request # <<>>,
                 QueueCmd(request, c)
          PROVE  TypeInv'
      BY <2>5, QueueTyped
    <2>6. ASSUME NEW c \in Commands(packets), packets # <<>>,
                 \/ pc = "authorize" /\ QueueCmd(packets, c)
                 \/ pc = "push" /\ PushClose(c)
                 \/ pc = "state" /\ ReadStateAfterClose(c.id)
          PROVE  TypeInv'
      <3>1. packets \in Seq(Packets) /\ Tail(packets) \in Seq(Packets)
        BY <2>6 DEF TypeInv, TypeOK
      <3> QED
        BY <2>6, <3>1, QueueTyped, PushTyped, AfterCloseReads, ReadTyped
    <2> QED
      BY <1>2, <2>1, <2>2, <2>3, <2>4, <2>5, <2>6, ProcessTyped, PollTyped, KeyboardTyped,
         CustomerTyped, StopTyped
      DEF Steps
  <1> QED
    BY <1>1, <1>2, NextIsSteps

\* The state of the station is what it is taken for: the volumes that are booked, told and
\* remembered are those a pump can show, the ids are those of rows, and the threads agree on
\* what they work on (postJsonPtsCaller, ConcreateMediator, ColumnWorker, StateMap).
THEOREM Typing == Spec => []TypeInv
  BY TypeInit, TypeStep, PTL DEF Spec

\* ... and so every variable of the station has its type.
THEOREM StationTypes == Spec => []TypeOK
  <1>1. TypeInv => TypeOK
    BY DEF TypeInv
  <1> QED
    BY <1>1, Typing, PTL

-----------------------------------------------------------------------------
(***************************************************************************)
(* A step, told by what it does to the journal, the queue, the map, the    *)
(* pumps and what the POS was told.  Each invariant below is looked at one *)
(* of these kinds of step at a time.                                       *)
(***************************************************************************)

\* No row becomes the one to close.
NoPush == pc' = "push" => pc = "push" /\ Parsed' = Parsed

NothingDone ==
    /\ NoPush
    /\ UNCHANGED <<transactions, booked, marred, hasty, overtaken, dbId, lastDispense, told,
                   byClose, columnCmds, states, late, pump, supplies>>

RowAdded(p) ==
    /\ pc' # "push"
    /\ p \in Pumps
    /\ transactions' = Journal!Insert(transactions, p)
    /\ booked' = Append(booked, 0)
    /\ marred' = IF AtRest(p) THEN marred ELSE marred \cup {Len(transactions')}
    /\ overtaken' = IF AtRest(p) THEN overtaken ELSE overtaken \cup Newest(p)
    /\ dbId = 0 /\ dbId' = Len(transactions')
    /\ UNCHANGED <<hasty, lastDispense, told, byClose, columnCmds, states, late, pump, supplies>>

NoEndIsRead ==
    /\ NoPush /\ NoEndRead
    /\ UNCHANGED <<marred, hasty, overtaken, dbId, columnCmds, late, pump, supplies>>

EndIsRead(p, d) ==
    /\ NoPush /\ EndRead(p, d)
    /\ UNCHANGED <<marred, hasty, overtaken, dbId, columnCmds, late, pump, supplies>>

RowClosed(p) ==
    /\ Parsed'.id = p
    /\ transactions' = Journal!UpdateLatest(transactions, p, 3, 4, Journal!Keep)
    /\ hasty' = hasty \cup {r \in Newest(p) \ marred : transactions[r].state = 1}
    /\ UNCHANGED <<booked, marred, overtaken, dbId, lastDispense, told, byClose, columnCmds,
                   states, late, pump, supplies>>

\* The command carries the id of the newest row of its pump, or none.
CmdQueued(c) ==
    /\ NoPush
    /\ c \in LineCmds
    /\ columnCmds' = Append(columnCmds, c)
    /\ marred' = marred \cup MarredBy(c)
    /\ \/ c.dbId = 0 /\ dbId' = dbId
       \/ /\ c.dbId # 0 /\ c.dbId = dbId /\ dbId' = 0
          /\ dbId = Len(transactions) /\ transactions[dbId].pump = c.id
          /\ c.cmdType = "WRITE_VOLUME"
    /\ c.cmdType = "CLOSE_REPORT" => pc = "push" /\ Parsed.id = c.id
    /\ UNCHANGED <<transactions, booked, hasty, overtaken, lastDispense, told, byClose, states,
                   late, pump, supplies>>

CmdDone(c) ==
    /\ NoPush
    /\ columnCmds # <<>> /\ c = Head(columnCmds) /\ c \in LineCmds
    /\ columnCmds' = Tail(columnCmds)
    /\ CmdObeyed(c)
    /\ Heard(c.id)
    /\ UNCHANGED <<transactions, booked, marred, hasty, overtaken, dbId, lastDispense, told,
                   byClose>>

Polled(p) ==
    /\ NoPush
    /\ p \in Pumps
    /\ Heard(p)
    /\ UNCHANGED <<transactions, booked, marred, hasty, overtaken, dbId, lastDispense, told,
                   byClose, columnCmds, pump, supplies>>

PumpActs(p) ==
    /\ NoPush
    /\ p \in Pumps
    /\ Started(p) \/ Abandoned(p) \/ Finished(p)
    /\ UNCHANGED <<transactions, booked, marred, hasty, overtaken, dbId, lastDispense, told,
                   byClose, columnCmds, states, late>>

Stopped ==
    /\ pc' = "idle" /\ dbId' = 0
    /\ lastDispense' = [p \in Pumps |-> NoDispense]
    /\ told' = [p \in Pumps |-> Confirmation]
    /\ columnCmds' = <<>>
    /\ states' = [p \in Pumps |-> Unknown]
    /\ UNCHANGED <<transactions, booked, marred, hasty, overtaken, late, pump, supplies>>

Kinds ==
    \/ NothingDone
    \/ \E p : RowAdded(p)
    \/ NoEndIsRead
    \/ \E p \in Pumps, d \in Rows : EndIsRead(p, d)
    \/ \E p : RowClosed(p)
    \/ \E c : CmdQueued(c)
    \/ \E c : CmdDone(c)
    \/ \E p : Polled(p)
    \/ \E p : PumpActs(p)
    \/ Stopped

\* What an INSERT does to the journal.
LEMMA Adding ==
    ASSUME TypeInv, NEW p, RowAdded(p)
    PROVE  /\ Len(transactions') = Len(transactions) + 1
           /\ DOMAIN transactions' = 1..(Len(transactions) + 1)
           /\ transactions'[Len(transactions) + 1] = [pump |-> p, state |-> 1, volume |-> 0]
           /\ \A r : Journal!IsLatest(transactions', p, r) <=> r = Len(transactions) + 1
  <1>1. transactions \in Seq(SaleRow) /\ transactions' = Journal!Insert(transactions, p)
    BY DEF TypeInv, TypeOK, RowAdded
  <1> HIDE DEF TypeInv, RowAdded
  <1> QED
    BY <1>1, Inserted

\* Every step is of one of the kinds.
LEMMA NextIsOfAKind ==
    ASSUME TypeInv, [Next]_vars PROVE Kinds
  <1> USE DEF TypeInv
  <1>1. CASE UNCHANGED vars
    BY <1>1 DEF vars, journalVars, jsonVars, lineVars, pumpVars, Kinds, NothingDone, NoPush, Parsed
  <1>2. CASE Steps
    <2>1. ASSUME NEW request \in Seq(Packets), NEW c \in Commands(request), pc = "idle",
                 request # <<>>, JsonCheck(request, c)
          PROVE  Kinds
      <3>1. /\ UNCHANGED <<lastDispense, told, byClose, columnCmds, states, late, pump, supplies>>
            /\ pc' # "push" /\ NoPush /\ dbId = 0 /\ c.id \in Pumps
        BY <2>1 DEF JsonCheck, NoPush, lineVars, pumpVars, Serving, Configured
      <3>2. CASE UNCHANGED <<journalVars, dbId>>
        BY <3>1, <3>2 DEF Kinds, NothingDone, journalVars
      <3>3. CASE ~UNCHANGED <<journalVars, dbId>>
        <4>1. RowAdded(c.id)
          BY <2>1, <3>1, <3>3 DEF JsonCheck, RowAdded
        <4> QED
          BY <4>1 DEF Kinds
      <3> QED
        BY <3>2, <3>3
    <2>2. ASSUME NEW request \in Seq(Packets), NEW c \in Commands(request), pc = "idle",
                 request # <<>>, ProcessTechCmd(request, c)
          PROVE  Kinds
      BY <2>2, TechTyped DEF Kinds, NothingDone, NoPush, Serving, journalVars, lineVars, pumpVars
    <2>3. ASSUME StateRead, dbId = 0 PROVE Kinds
      BY <2>3 DEF Kinds, StateRead, NoPush, NoEndIsRead, EndIsRead, pumpVars
    <2>4. ASSUME NEW request \in Seq(Packets), NEW c \in Commands(request), pc = "idle",
                 request # <<>>, UpdateTransactionFromCmd(request, c)
          PROVE  Kinds
      <3>1. Parsed'.id = c.id
        BY <2>4, CommandsHaveId DEF UpdateTransactionFromCmd, Parsed
      <3>2. RowClosed(c.id)
        BY <2>4, <3>1 DEF UpdateTransactionFromCmd, CloseRow, RowClosed, lineVars, pumpVars
      <3> QED
        BY <3>2 DEF Kinds
    <2>5. ASSUME NEW request \in Seq(Packets), NEW c \in Commands(request), request # <<>>,
                 QueueCmd(request, c), pc = "idle" \/ (pc = "authorize" /\ request = packets)
          PROVE  Kinds
      <3>1. c \in LineCmds /\ c.dbId = dbId /\ c.id = ParseCmd(Head(request)).id
        BY <2>5, CommandIsLineCmd, CommandsHaveId, Queueing
      <3>2. /\ c.cmdType # "CLOSE_REPORT"
            /\ pc = "authorize" => c.cmdType = "WRITE_VOLUME"
        BY <2>5, CommandsHaveId DEF QueueCmd, QueuedReply, Serving, Parsed
      <3>3. dbId # 0 => dbId = Len(transactions) /\ transactions[dbId].pump = c.id
        BY <2>5, <3>1 DEF Serving, Parsed
      <3>4. /\ pc' = "idle" /\ dbId' = 0
            /\ columnCmds' = Append(columnCmds, c) /\ marred' = marred \cup MarredBy(c)
            /\ UNCHANGED <<transactions, booked, hasty, overtaken, lastDispense, told, byClose,
                           states, late, pump, supplies>>
        BY <2>5, Queueing DEF AddCmd, pumpVars
      <3>5. dbId = 0 \/ pc = "authorize"
        BY <2>5 DEF Serving
      <3>6. CmdQueued(c)
        BY <3>1, <3>2, <3>3, <3>4, <3>5 DEF CmdQueued, NoPush
      <3> QED
        BY <3>6 DEF Kinds
    <2>6. ASSUME NEW c \in Commands(packets), packets # <<>>, pc = "push", PushClose(c)
          PROVE  Kinds
      <3>1. c \in LineCmds /\ c.dbId = dbId /\ c.id = Parsed.id
        <4>1. c.dbId = dbId /\ c.id = Parsed.id /\ c.id \in Pumps /\ packets \in Seq(Packets)
          BY <2>6, CommandsHaveId DEF Parsed, Serving, TypeOK
        <4> QED
          BY <2>6, <4>1, CommandIsLineCmd
      <3>2. dbId = 0
        BY <2>6 DEF Serving
      <3>3. CmdQueued(c)
        BY <2>6, <3>1, <3>2 DEF CmdQueued, PushClose, NoPush, AddCmd, pumpVars
      <3> QED
        BY <3>3 DEF Kinds
    <2>7. ASSUME NEW c \in Commands(packets), packets # <<>>, pc = "state",
                 ReadStateAfterClose(c.id)
          PROVE  Kinds
      BY <2>3, <2>7, AfterCloseReads DEF Serving
    <2>8. CASE ProcessCmd
      <3>1. CmdDone(Head(columnCmds))
        BY <2>8, Processing, ProcessTyped DEF CmdDone, journalVars, jsonVars, NoPush, Parsed
      <3> QED
        BY <3>1 DEF Kinds
    <2>9. ASSUME NEW p \in Pumps, Poll(p) PROVE Kinds
      <3>1. Polled(p)
        BY <2>9, PollTyped DEF Poll, Polled, NoPush, Parsed, journalVars, jsonVars, pumpVars
      <3> QED
        BY <3>1 DEF Kinds
    <2>10. ASSUME NEW p \in Pumps, Keyboard(p) PROVE Kinds
      <3> DEFINE c == Cmd("WRITE_VOLUME", p, 1, 999000)
      <3>1. c \in LineCmds /\ c.dbId = 0 /\ c.cmdType # "CLOSE_REPORT"
        BY DEF LineCmds, Cmd
      <3>2. CmdQueued(c)
        BY <2>10, <3>1 DEF Keyboard, CmdQueued, AddCmd, NoPush, Parsed, jsonVars, pumpVars
      <3> QED
        BY <3>2 DEF Kinds
    <2>11. ASSUME NEW p \in Pumps, Customer(p) PROVE Kinds
      <3>1. PumpActs(p)
        BY <2>11, CustomerActs DEF Customer, PumpActs, NoPush, Parsed, journalVars, jsonVars,
           lineVars
      <3> QED
        BY <3>1 DEF Kinds
    <2>12. CASE Stop
      BY <2>12 DEF Stop, Stopped, Kinds, journalVars, pumpVars
    <2>13. ASSUME NEW request \in Seq(Packets), NEW c \in Commands(request), pc = "idle",
                 request # <<>>, ProcessStatusRequest(request, c)
          PROVE  Kinds
      BY <2>3, <2>13, StatusRequestReads DEF Serving
    <2> QED
      BY <1>2, <2>1, <2>2, <2>4, <2>5, <2>6, <2>7, <2>8, <2>9, <2>10, <2>11, <2>12, <2>13
      DEF Steps, TypeOK
  <1> QED
    BY <1>1, <1>2, NextIsSteps

-----------------------------------------------------------------------------
(***************************************************************************)
(* A row orders once.                                                      *)
(***************************************************************************)

\* The order of r, a row of p, may have left the JSON thread.
Sent(p, r) == r \in DOMAIN transactions /\ transactions[r].pump = p /\ r # dbId

Busy(p) == pump[p].phase \in {"authorized", "filling"}

\* The order of a row waits for the line, or the pump obeys it, or a supply it ordered has
\* ended: only one of this is true, of only one order and one supply.
QueuedOnce(i) ==
    columnCmds[i].dbId # 0 =>
        /\ Sent(columnCmds[i].id, columnCmds[i].dbId)
        /\ \A j \in DOMAIN columnCmds : columnCmds[j].dbId = columnCmds[i].dbId => j = i
        /\ \A p \in Pumps : Busy(p) => pump[p].sale # columnCmds[i].dbId
        /\ \A n \in DOMAIN supplies : supplies[n].sale # columnCmds[i].dbId

ObeyedOnce(p) ==
    Busy(p) /\ pump[p].sale # 0 =>
        /\ Sent(p, pump[p].sale)
        /\ \A n \in DOMAIN supplies : supplies[n].sale # pump[p].sale

SuppliedOnce(n) ==
    supplies[n].sale # 0 =>
        /\ Sent(supplies[n].pump, supplies[n].sale)
        /\ \A m \in DOMAIN supplies : supplies[m].sale = supplies[n].sale => m = n

OrderOnce ==
    /\ \A i \in DOMAIN columnCmds : QueuedOnce(i)
    /\ \A p \in Pumps : ObeyedOnce(p)
    /\ \A n \in DOMAIN supplies : SuppliedOnce(n)

\* An INSERT leaves the rows before it as they are.
LEMMA InsertedAfter ==
    ASSUME NEW S, NEW table \in Seq(S), NEW p, NEW r \in DOMAIN table
    PROVE  Journal!Insert(table, p)[r] = table[r]
  <1> DEFINE new == Journal!Insert(table, p)
  <1>1. \A s \in DOMAIN table : new[s] = table[s]
    BY Inserted
  <1> QED
    BY <1>1

\* Rows are added, and written by UPDATE, but they stay and stay with their pump.
LEMMA RowsStay ==
    ASSUME TypeInv, Kinds
    PROVE  \A r \in DOMAIN transactions :
             r \in DOMAIN transactions' /\ transactions'[r].pump = transactions[r].pump
  <1>0. transactions \in Seq(SaleRow)
    BY DEF TypeInv, TypeOK
  <1>1. ASSUME NEW p, transactions' = Journal!Insert(transactions, p)
        PROVE  \A r \in DOMAIN transactions :
                 r \in DOMAIN transactions' /\ transactions'[r].pump = transactions[r].pump
    <2>1. /\ DOMAIN transactions' = 1..(Len(transactions) + 1)
          /\ DOMAIN transactions = 1..Len(transactions)
      BY <1>0, <1>1, Inserted
    <2>2. ASSUME NEW r \in DOMAIN transactions PROVE transactions'[r] = transactions[r]
      BY <1>0, <1>1, InsertedAfter
    <2>3. Len(transactions) \in Nat
      BY <1>0
    <2> QED
      BY <2>1, <2>2, <2>3
  <1>2. ASSUME NEW p, NEW from, NEW to, NEW v,
               transactions' = Journal!UpdateLatest(transactions, p, from, to, v)
        PROVE  \A r \in DOMAIN transactions :
                 r \in DOMAIN transactions' /\ transactions'[r].pump = transactions[r].pump
    BY <1>0, <1>2, Updated
  <1>3. \/ UNCHANGED transactions
        \/ \E p : transactions' = Journal!Insert(transactions, p)
        \/ \E p, from, to, v : transactions' = Journal!UpdateLatest(transactions, p, from, to, v)
    <2>1. ASSUME NEW p, RowAdded(p) PROVE \E q : transactions' = Journal!Insert(transactions, q)
      BY <2>1 DEF RowAdded
    <2>2. ASSUME NEW p, NEW d, EndRead(p, d) \/ RowClosed(p)
          PROVE  \E q, from, to, v :
                    transactions' = Journal!UpdateLatest(transactions, q, from, to, v)
      BY <2>2 DEF EndRead, RowClosed
    <2>3. ASSUME NEW c, CmdQueued(c) \/ CmdDone(c) PROVE UNCHANGED transactions
      BY <2>3 DEF CmdQueued, CmdDone
    <2>4. ASSUME NEW p, Polled(p) \/ PumpActs(p) PROVE UNCHANGED transactions
      BY <2>4 DEF Polled, PumpActs
    <2>5. NothingDone \/ NoEndIsRead \/ Stopped => UNCHANGED transactions
      BY DEF NothingDone, NoEndIsRead, NoEndRead, Stopped
    <2> QED
      BY <2>1, <2>2, <2>3, <2>4, <2>5 DEF Kinds, EndIsRead
  <1> QED
    BY <1>1, <1>2, <1>3

\* What was sent remains so while no new id is given.
LEMMA SentStays ==
    ASSUME TypeInv, Kinds, NEW p, NEW r, r # 0, Sent(p, r)
    PROVE  Sent(p, r)'
  <1>1. r \in DOMAIN transactions' /\ transactions'[r].pump = p
    BY RowsStay DEF Sent
  <1>2. ASSUME NEW q, RowAdded(q) PROVE r # dbId'
    <2>1. transactions \in Seq(SaleRow) /\ transactions' = Journal!Insert(transactions, q)
          /\ dbId' = Len(transactions') /\ r \in DOMAIN transactions
      BY <1>2 DEF TypeInv, TypeOK, RowAdded, Sent
    <2>2. Len(transactions') = Len(transactions) + 1 /\ DOMAIN transactions = 1..Len(transactions)
      BY <2>1, Inserted
    <2>3. Len(transactions) \in Nat
      BY <2>1
    <2> QED
      BY <2>1, <2>2, <2>3
  <1>3. (\A q : ~RowAdded(q)) => dbId' = dbId \/ dbId' = 0
    BY DEF Kinds, NothingDone, NoEndIsRead, EndIsRead, RowClosed,
           CmdQueued, CmdDone, Polled, PumpActs, Stopped
  <1> QED
    BY <1>1, <1>2, <1>3 DEF Sent

\* The commands left when the oldest is taken.
LEMMA Popped ==
    ASSUME NEW S, NEW queue \in Seq(S), queue # <<>>
    PROVE  /\ 1 \in DOMAIN queue /\ Head(queue) = queue[1]
           /\ \A i \in DOMAIN Tail(queue) :
                 i \in Nat /\ i + 1 \in DOMAIN queue /\ i + 1 # 1 /\ Tail(queue)[i] = queue[i + 1]
           /\ \A i \in DOMAIN queue : i # 1 => i - 1 \in DOMAIN Tail(queue)
  OBVIOUS

\* ... and when one is added.
LEMMA Pushed ==
    ASSUME NEW S, NEW queue \in Seq(S), NEW c \in S
    PROVE  /\ Len(queue) \in Nat /\ DOMAIN queue = 1..Len(queue)
           /\ DOMAIN Append(queue, c) = DOMAIN queue \cup {Len(queue) + 1}
           /\ Len(queue) + 1 \notin DOMAIN queue
           /\ Append(queue, c)[Len(queue) + 1] = c
           /\ \A i \in DOMAIN queue : Append(queue, c)[i] = queue[i]
  OBVIOUS

\* How the supplies grow.
LEMMA Supplying ==
    ASSUME TypeInv, NEW p \in Pumps, PumpStep(p)
    PROVE  /\ ~Finished(p) => DOMAIN supplies' = DOMAIN supplies
           /\ Finished(p) =>
                /\ DOMAIN supplies' = DOMAIN supplies \cup {Len(supplies) + 1}
                /\ Len(supplies) + 1 \notin DOMAIN supplies
                /\ supplies'[Len(supplies) + 1].pump = p
                /\ supplies'[Len(supplies) + 1].sale = pump[p].sale
                /\ supplies'[Len(supplies) + 1].closed = FALSE
                /\ pump'[p].supply = Len(supplies) + 1
  <1>0. supplies \in Seq(Supply) /\ p \in Pumps
    BY DEF TypeInv, TypeOK
  <1>1. CASE Finished(p)
    <2> DEFINE new == [pump |-> p, sale |-> pump[p].sale, closed |-> FALSE,
                       volume |-> Amounts[Len(supplies) + 1]]
    <2>1. supplies' = Append(supplies, new)
          /\ pump'[p] = [phase |-> "done", sale |-> pump[p].sale, supply |-> Len(supplies')]
      BY <1>1 DEF Finished, Becomes
    <2>2. new.pump = p /\ new.sale = pump[p].sale /\ new.closed = FALSE
      OBVIOUS
    <2> HIDE DEF new
    <2>3. /\ DOMAIN supplies' = DOMAIN supplies \cup {Len(supplies) + 1}
          /\ Len(supplies) + 1 \notin DOMAIN supplies
          /\ supplies'[Len(supplies) + 1] = new
          /\ Len(supplies') = Len(supplies) + 1
      BY <1>0, <2>1
    <2> QED
      BY <1>1, <2>1, <2>2, <2>3
  <1>2. CASE ~Finished(p)
    <2>1. UNCHANGED supplies \/ supplies' = [supplies EXCEPT ![pump[p].supply].closed = TRUE]
      BY <1>2 DEF PumpStep, pumpVars, Taken, Started, Abandoned, Closed
    <2> QED
      BY <1>2, <2>1
  <1> QED
    BY <1>1, <1>2

\* The orders do not move, or some of them are forgotten.
LEMMA OrdersForgotten ==
    ASSUME TypeInv, Kinds, OrderOnce, UNCHANGED <<pump, supplies>>,
           \/ columnCmds' = columnCmds \/ columnCmds' = <<>>
           \/ columnCmds # <<>> /\ columnCmds' = Tail(columnCmds)
    PROVE  OrderOnce'
  <1>1. \A p \in Pumps : ObeyedOnce(p)'
    BY SentStays DEF OrderOnce, ObeyedOnce, Busy
  <1>2. \A n \in DOMAIN supplies' : SuppliedOnce(n)'
    BY SentStays DEF OrderOnce, SuppliedOnce
  <1>3. \A i \in DOMAIN columnCmds' : QueuedOnce(i)'
    <2>1. CASE columnCmds' = columnCmds
      BY <2>1, SentStays DEF OrderOnce, QueuedOnce, Busy
    <2>2. CASE columnCmds' = <<>>
      BY <2>2
    <2>3. CASE columnCmds # <<>> /\ columnCmds' = Tail(columnCmds)
      <3>1. \A i \in DOMAIN columnCmds' :
               /\ i \in Nat /\ i + 1 \in DOMAIN columnCmds
               /\ columnCmds'[i] = columnCmds[i + 1]
        BY <2>3, Popped DEF TypeInv
      <3> SUFFICES ASSUME NEW i \in DOMAIN columnCmds', columnCmds'[i].dbId # 0
                   PROVE  QueuedOnce(i)'
        BY DEF QueuedOnce
      <3>2. QueuedOnce(i + 1) /\ columnCmds'[i] = columnCmds[i + 1]
        BY <3>1 DEF OrderOnce
      <3>3. Sent(columnCmds[i].id, columnCmds[i].dbId)'
        BY <3>2, SentStays DEF QueuedOnce
      <3>4. \A j \in DOMAIN columnCmds' : columnCmds'[j].dbId = columnCmds'[i].dbId => j = i
        BY <3>1, <3>2 DEF QueuedOnce
      <3> QED
        BY <3>2, <3>3, <3>4 DEF QueuedOnce, Busy
    <2> QED
      BY <2>1, <2>2, <2>3
  <1> QED
    BY <1>1, <1>2, <1>3 DEF OrderOnce

\* An order is queued when the JSON thread lets go of its row.
LEMMA OrderQueued ==
    ASSUME TypeInv, Kinds, OrderOnce, NEW c, CmdQueued(c)
    PROVE  OrderOnce'
  <1>1. /\ columnCmds' = Append(columnCmds, c) /\ c \in LineCmds /\ columnCmds \in Seq(LineCmds)
        /\ UNCHANGED <<transactions, pump, supplies>>
        /\ \/ c.dbId = 0 /\ dbId' = dbId
           \/ /\ c.dbId # 0 /\ c.dbId = dbId /\ dbId' = 0
              /\ dbId = Len(transactions) /\ transactions[dbId].pump = c.id
    BY DEF CmdQueued, TypeInv
  <1>2. \A p \in Pumps : ObeyedOnce(p)'
    BY <1>1, SentStays DEF OrderOnce, ObeyedOnce, Busy
  <1>3. \A n \in DOMAIN supplies' : SuppliedOnce(n)'
    BY <1>1, SentStays DEF OrderOnce, SuppliedOnce
  <1>4. PICK n : /\ DOMAIN columnCmds' = DOMAIN columnCmds \cup {n} /\ n \notin DOMAIN columnCmds
                 /\ columnCmds'[n] = c
                 /\ \A i \in DOMAIN columnCmds : columnCmds'[i] = columnCmds[i]
    BY <1>1, Pushed
  <1>5. c.dbId # 0 => /\ \A i \in DOMAIN columnCmds : columnCmds[i].dbId # c.dbId
                      /\ \A p \in Pumps : Busy(p) => pump[p].sale # c.dbId
                      /\ \A m \in DOMAIN supplies : supplies[m].sale # c.dbId
    BY <1>1 DEF OrderOnce, QueuedOnce, ObeyedOnce, SuppliedOnce, Sent
  <1>6. c.dbId # 0 => Sent(c.id, c.dbId)'
    <2>1. DOMAIN transactions = 1..Len(transactions) /\ Len(transactions) \in Nat
      BY DEF TypeInv, TypeOK
    <2> QED
      BY <1>1, <2>1 DEF Sent
  <1>7. QueuedOnce(n)'
    BY <1>1, <1>4, <1>5, <1>6 DEF QueuedOnce, Busy
  <1>8. ASSUME NEW i \in DOMAIN columnCmds PROVE QueuedOnce(i)'
    <2>1. QueuedOnce(i)
      BY DEF OrderOnce
    <2>2. columnCmds[i].dbId # 0 => Sent(columnCmds[i].id, columnCmds[i].dbId)'
      BY <1>4, <2>1, SentStays DEF QueuedOnce
    <2> QED
      BY <1>1, <1>4, <1>5, <2>1, <2>2 DEF QueuedOnce, Busy
  <1> QED
    BY <1>2, <1>3, <1>4, <1>7, <1>8 DEF OrderOnce

\* An order reaches its pump.
LEMMA OrderTaken ==
    ASSUME TypeInv, Kinds, OrderOnce, NEW c, CmdDone(c), Taken(c.id, c.dbId)
    PROVE  OrderOnce'
  <1> DEFINE p == c.id
             r == c.dbId
  <1>1. /\ 1 \in DOMAIN columnCmds /\ c = columnCmds[1]
        /\ \A i \in DOMAIN columnCmds' :
               /\ i \in Nat /\ i + 1 \in DOMAIN columnCmds /\ i + 1 # 1
               /\ columnCmds'[i] = columnCmds[i + 1]
        /\ UNCHANGED supplies /\ p \in Pumps
    <2>1. columnCmds \in Seq(LineCmds) /\ columnCmds # <<>> /\ c = Head(columnCmds)
          /\ columnCmds' = Tail(columnCmds)
      BY DEF TypeInv, CmdDone
    <2>2. p \in Pumps /\ UNCHANGED supplies
      BY LineCmdType DEF CmdDone, Taken
    <2> HIDE DEF p
    <2> QED
      BY <2>1, <2>2, Popped
  <1>2. /\ pump'[p].sale = r
        /\ \A q \in Pumps : q # p => pump'[q] = pump[q]
    BY <1>1 DEF Taken, Becomes
  <1>3. QueuedOnce(1)
    BY <1>1 DEF OrderOnce
  <1>4. ASSUME NEW q \in Pumps PROVE ObeyedOnce(q)'
    <2>1. CASE q = p
      <3>1. r # 0 => Sent(p, r)' /\ \A n \in DOMAIN supplies : supplies[n].sale # r
        BY <1>1, <1>3, SentStays DEF QueuedOnce
      <3> QED
        BY <1>1, <1>2, <2>1, <3>1 DEF ObeyedOnce
    <2>2. CASE q # p
      <3>1. ObeyedOnce(q)
        BY DEF OrderOnce
      <3> QED
        BY <1>1, <1>2, <2>2, <3>1, SentStays DEF ObeyedOnce, Busy
    <2> QED
      BY <2>1, <2>2
  <1>5. \A n \in DOMAIN supplies' : SuppliedOnce(n)'
    BY <1>1, SentStays DEF OrderOnce, SuppliedOnce
  <1>6. ASSUME NEW i \in DOMAIN columnCmds', columnCmds'[i].dbId # 0 PROVE QueuedOnce(i)'
    <2>1. QueuedOnce(i + 1) /\ columnCmds'[i] = columnCmds[i + 1]
      BY <1>1 DEF OrderOnce
    <2>2. Sent(columnCmds[i].id, columnCmds[i].dbId)'
      BY <1>6, <2>1, SentStays DEF QueuedOnce
    <2>3. columnCmds'[i].dbId # r
      BY <1>1, <1>6, <2>1 DEF QueuedOnce
    <2>4. \A q \in Pumps : Busy(q)' => pump'[q].sale # columnCmds'[i].dbId
      BY <1>2, <1>6, <2>1, <2>3 DEF QueuedOnce, Busy
    <2>5. \A j \in DOMAIN columnCmds' : columnCmds'[j].dbId = columnCmds'[i].dbId => j = i
      BY <1>1, <1>6, <2>1 DEF QueuedOnce
    <2> QED
      BY <1>1, <1>6, <2>1, <2>2, <2>4, <2>5 DEF QueuedOnce
  <1> QED
    BY <1>4, <1>5, <1>6 DEF OrderOnce, QueuedOnce

\* A pump starts to obey an order, gives it up, ends the supply or closes it.
LEMMA OrderObeyed ==
    ASSUME TypeInv, Kinds, OrderOnce, NEW p \in Pumps,
           Started(p) \/ Abandoned(p) \/ Finished(p) \/ Closed(p),
           \/ columnCmds' = columnCmds
           \/ columnCmds # <<>> /\ columnCmds' = Tail(columnCmds)
    PROVE  OrderOnce'
  <1>1. /\ \A q \in Pumps : q # p => pump'[q] = pump[q]
        /\ Busy(p)' => Busy(p) /\ pump'[p].sale = pump[p].sale
        /\ Busy(p)' => ~Finished(p)
        /\ Finished(p) => Busy(p)
    <2>1. \A q \in Pumps : q # p => pump'[q] = pump[q]
      BY DEF Started, Abandoned, Finished, Closed, Becomes
    <2>2. CASE Started(p)
      BY <2>1, <2>2 DEF Started, Becomes, Busy, Finished
    <2>3. CASE Finished(p)
      BY <2>1, <2>3 DEF Finished, Becomes, Busy
    <2>4. CASE Abandoned(p) \/ Closed(p)
      BY <2>1, <2>4 DEF Abandoned, Closed, Becomes, Busy, Idle, Finished
    <2> QED
      BY <2>1, <2>2, <2>3, <2>4
  <1>2. PumpStep(p)
    BY DEF PumpStep
  <1>3. PICK new : /\ ~Finished(p) => DOMAIN supplies' = DOMAIN supplies
                   /\ Finished(p) =>
                         /\ DOMAIN supplies' = DOMAIN supplies \cup {new}
                         /\ new \notin DOMAIN supplies
                         /\ supplies'[new].pump = p
                         /\ supplies'[new].sale = pump[p].sale
    BY <1>2, Supplying
  <1>4. \A n \in DOMAIN supplies :
           /\ n \in DOMAIN supplies' /\ supplies'[n].pump = supplies[n].pump
           /\ supplies'[n].sale = supplies[n].sale
    BY <1>2, SuppliesKept
  <1>5. ASSUME NEW q \in Pumps, Busy(q)', pump'[q].sale # 0 PROVE ObeyedOnce(q)'
    <2>1. Busy(q) /\ pump'[q].sale = pump[q].sale
      BY <1>1, <1>5 DEF Busy
    <2>2. ObeyedOnce(q) /\ ObeyedOnce(p)
      BY DEF OrderOnce
    <2>3. Sent(q, pump[q].sale)'
      BY <1>5, <2>1, <2>2, SentStays DEF ObeyedOnce
    <2>4. Finished(p) => pump[q].sale # pump[p].sale
      BY <1>1, <1>5, <2>1, <2>2 DEF ObeyedOnce, Sent
    <2> QED
      BY <1>3, <1>4, <2>1, <2>2, <2>3, <2>4 DEF ObeyedOnce
  <1>6. ASSUME NEW n \in DOMAIN supplies', supplies'[n].sale # 0 PROVE SuppliedOnce(n)'
    <2>1. CASE n \in DOMAIN supplies
      <3>1. SuppliedOnce(n) /\ ObeyedOnce(p)
        BY <2>1 DEF OrderOnce
      <3>2. Sent(supplies[n].pump, supplies[n].sale)'
        BY <1>4, <1>6, <2>1, <3>1, SentStays DEF SuppliedOnce
      <3>3. Finished(p) => supplies[n].sale # pump[p].sale
        BY <1>1, <1>4, <1>6, <2>1, <3>1 DEF ObeyedOnce
      <3> QED
        BY <1>3, <1>4, <1>6, <2>1, <3>1, <3>2, <3>3 DEF SuppliedOnce
    <2>2. CASE n \notin DOMAIN supplies
      <3>1. Finished(p) /\ n = new /\ supplies'[n].pump = p /\ supplies'[n].sale = pump[p].sale
        BY <1>3, <2>2
      <3>2. ObeyedOnce(p) /\ Busy(p)
        BY <1>1, <3>1 DEF OrderOnce
      <3>3. Sent(supplies[n].pump, supplies[n].sale)'
        BY <1>6, <3>1, <3>2, SentStays DEF ObeyedOnce
      <3> QED
        BY <1>3, <1>4, <1>6, <3>1, <3>2, <3>3 DEF SuppliedOnce, ObeyedOnce
    <2> QED
      BY <2>1, <2>2
  <1>7. ASSUME NEW i \in DOMAIN columnCmds', columnCmds'[i].dbId # 0 PROVE QueuedOnce(i)'
    <2>1. PICK j \in DOMAIN columnCmds :
             /\ columnCmds'[i] = columnCmds[j]
             /\ \A k \in DOMAIN columnCmds' :
                   columnCmds'[k].dbId = columnCmds'[i].dbId => k = i
      <3>1. CASE columnCmds' = columnCmds
        BY <1>7, <3>1 DEF OrderOnce, QueuedOnce
      <3>2. CASE columnCmds # <<>> /\ columnCmds' = Tail(columnCmds)
        <4>1. \A k \in DOMAIN columnCmds' :
                 /\ k \in Nat /\ k + 1 \in DOMAIN columnCmds
                 /\ columnCmds'[k] = columnCmds[k + 1]
          BY <3>2, Popped DEF TypeInv
        <4>2. QueuedOnce(i + 1) /\ columnCmds'[i] = columnCmds[i + 1]
          BY <4>1 DEF OrderOnce
        <4>3. ASSUME NEW k \in DOMAIN columnCmds', columnCmds'[k].dbId = columnCmds'[i].dbId
              PROVE  k = i
          <5>1. k + 1 \in DOMAIN columnCmds /\ columnCmds[k + 1].dbId = columnCmds[i + 1].dbId
            BY <4>1, <4>2, <4>3
          <5>2. k + 1 = i + 1
            BY <1>7, <4>2, <5>1 DEF QueuedOnce
          <5> QED
            BY <4>1, <5>2
        <4> QED
          BY <4>1, <4>3
      <3> QED
        BY <3>1, <3>2
    <2>2. QueuedOnce(j)
      BY DEF OrderOnce
    <2>3. Sent(columnCmds[i].id, columnCmds[i].dbId)'
      BY <1>7, <2>1, <2>2, SentStays DEF QueuedOnce
    <2>4. \A q \in Pumps : Busy(q)' => pump'[q].sale # columnCmds'[i].dbId
      <3>1. \A q \in Pumps : Busy(q)' => Busy(q) /\ pump'[q].sale = pump[q].sale
        BY <1>1 DEF Busy
      <3> QED
        BY <1>7, <2>1, <2>2, <3>1 DEF QueuedOnce
    <2>5. \A n \in DOMAIN supplies' : supplies'[n].sale # columnCmds'[i].dbId
      BY <1>1, <1>3, <1>4, <1>7, <2>1, <2>2 DEF QueuedOnce
    <2> QED
      BY <1>7, <2>1, <2>3, <2>4, <2>5 DEF QueuedOnce
  <1> QED
    BY <1>5, <1>6, <1>7 DEF OrderOnce, QueuedOnce, ObeyedOnce, SuppliedOnce

\* At first there are no orders.
LEMMA OnceInit == Init => OrderOnce
  BY DEF Init, OrderOnce, ObeyedOnce, Busy, Idle

\* No step makes two orders of one, or two supplies of an order.
LEMMA OnceStep ==
    ASSUME TypeInv, OrderOnce, [Next]_vars
    PROVE  OrderOnce'
  <1>1. Kinds
    BY NextIsOfAKind
  <1>2. ASSUME NEW p, NEW d,
               \/ NothingDone \/ RowAdded(p) \/ NoEndIsRead \/ EndIsRead(p, d) \/ RowClosed(p)
               \/ Polled(p) \/ Stopped
        PROVE  OrderOnce'
    <2>1. /\ UNCHANGED <<pump, supplies>>
          /\ \/ columnCmds' = columnCmds \/ columnCmds' = <<>>
             \/ columnCmds # <<>> /\ columnCmds' = Tail(columnCmds)
      BY <1>2 DEF NothingDone, RowAdded, NoEndIsRead, EndIsRead, RowClosed, Polled, Stopped
    <2> QED
      BY <1>1, <2>1, OrdersForgotten
  <1>3. ASSUME NEW c, CmdDone(c) PROVE OrderOnce'
    <2>1. columnCmds # <<>> /\ columnCmds' = Tail(columnCmds) /\ c \in LineCmds
      BY <1>3 DEF CmdDone
    <2>2. c.id \in Pumps
      BY <2>1, LineCmdType
    <2>3. CASE UNCHANGED pumpVars
      BY <1>1, <2>1, <2>3, OrdersForgotten DEF pumpVars
    <2>4. CASE Taken(c.id, c.dbId)
      BY <1>1, <1>3, <2>4, OrderTaken
    <2>5. CASE Closed(c.id) \/ Finished(c.id) \/ Abandoned(c.id)
      BY <1>1, <2>1, <2>2, <2>5, OrderObeyed
    <2> QED
      BY <1>3, <2>3, <2>4, <2>5 DEF CmdDone, CmdObeyed
  <1>4. ASSUME NEW p, PumpActs(p) PROVE OrderOnce'
    BY <1>1, <1>4, OrderObeyed DEF PumpActs
  <1> QED
    BY <1>1, <1>2, <1>3, <1>4, OrderQueued DEF Kinds

-----------------------------------------------------------------------------
(***************************************************************************)
(* What is on its way between a pump and the journal belongs to the newest *)
(* row of the pump, unless this row is marred.                             *)
(***************************************************************************)

\* An order or a supply of p is that of its newest row, or of no row while none is open.
Ordered(p, sale) ==
    \A r \in Newest(p) \ marred : sale = r \/ (sale = 0 /\ transactions[r].state # 1)

OrdersAlone(p) ==
    \A i \in DOMAIN columnCmds :
        columnCmds[i].id = p /\ columnCmds[i].cmdType = "WRITE_VOLUME"
            => Ordered(p, columnCmds[i].dbId)

PumpAlone(p) == pump[p].phase # "idle" => Ordered(p, pump[p].sale)

EndsAlone(p) ==
    /\ states[p].type = "SUPPLY_DONE" => Ordered(p, supplies[states[p].supply].sale)
    /\ late[p].type = "SUPPLY_DONE" => Ordered(p, supplies[late[p].supply].sale)

AloneAt(p) == OrdersAlone(p) /\ PumpAlone(p) /\ EndsAlone(p)

Alone == \A p \in Pumps : AloneAt(p)

\* A row that was not alone with its pump once is marred for good.
LEMMA MarredStays ==
    ASSUME Kinds PROVE marred \subseteq marred'
  BY DEF Kinds, NothingDone, RowAdded, NoEndIsRead, EndIsRead, RowClosed,
         CmdQueued, CmdDone, Polled, PumpActs, Stopped

\* The three ways a step can treat the journal.
LEMMA JournalSteps ==
    ASSUME Kinds
    PROVE  \/ UNCHANGED transactions
           \/ \E p : RowAdded(p) /\ transactions' = Journal!Insert(transactions, p)
           \/ \E p, v : transactions' = Journal!UpdateLatest(transactions, p, 1, 3, v)
           \/ \E p : transactions' = Journal!UpdateLatest(transactions, p, 3, 4, Journal!Keep)
  <1>1. ASSUME NEW p, RowAdded(p)
        PROVE  \E q : RowAdded(q) /\ transactions' = Journal!Insert(transactions, q)
    BY <1>1 DEF RowAdded
  <1>2. ASSUME NEW p, NEW d, EndIsRead(p, d)
        PROVE  \E q, v : transactions' = Journal!UpdateLatest(transactions, q, 1, 3, v)
    BY <1>2 DEF EndIsRead, EndRead
  <1>3. ASSUME NEW p, RowClosed(p)
        PROVE  \E q : transactions' = Journal!UpdateLatest(transactions, q, 3, 4, Journal!Keep)
    BY <1>3 DEF RowClosed
  <1>4. ASSUME NEW p, NEW c, Polled(p) \/ PumpActs(p) \/ CmdQueued(c) \/ CmdDone(c)
        PROVE  UNCHANGED transactions
    BY <1>4 DEF Polled, PumpActs, CmdQueued, CmdDone
  <1>5. NothingDone \/ NoEndIsRead \/ Stopped => UNCHANGED transactions
    BY DEF NothingDone, NoEndIsRead, NoEndRead, Stopped
  <1> QED
    BY <1>1, <1>2, <1>3, <1>4, <1>5 DEF Kinds

\* The newest row of a pump is the same until another is inserted.
LEMMA NewestStays ==
    ASSUME TypeInv, Kinds, NEW p, ~RowAdded(p)
    PROVE  \A r : (r \in Newest(p))' <=> r \in Newest(p)
  <1>0. transactions \in Seq(SaleRow)
    BY DEF TypeInv, TypeOK
  <1> DEFINE same == /\ DOMAIN transactions \subseteq DOMAIN transactions'
                     /\ \A r : Journal!IsLatest(transactions', p, r)
                                  <=> Journal!IsLatest(transactions, p, r)
  <1>1. CASE UNCHANGED transactions
    BY <1>1 DEF Newest
  <1>2. ASSUME NEW q, NEW from, NEW to, NEW v,
               transactions' = Journal!UpdateLatest(transactions, q, from, to, v)
        PROVE  same
    BY <1>0, <1>2, Updated
  <1>3. ASSUME NEW q, RowAdded(q), transactions' = Journal!Insert(transactions, q)
        PROVE  same
    <2>1. q # p
      BY <1>3
    <2>2. \A r : Journal!IsLatest(transactions', p, r) <=> Journal!IsLatest(transactions, p, r)
      BY <1>0, <1>3, <2>1, Inserted
    <2>3. DOMAIN transactions \subseteq DOMAIN transactions'
      BY RowsStay
    <2> QED
      BY <2>2, <2>3
  <1>4. same => \A r : (r \in Newest(p))' <=> r \in Newest(p)
    BY DEF Newest, Journal!IsLatest
  <1> QED
    BY <1>1, <1>2, <1>3, <1>4, JournalSteps

\* A row is open, then supplied, then closed.
LEMMA RowsGoOn ==
    ASSUME TypeInv, Kinds, NEW r \in DOMAIN transactions
    PROVE  /\ transactions[r].state # 1 => transactions'[r].state # 1
           /\ transactions[r].state >= 3 => transactions'[r].state >= 3
           /\ transactions[r].state = 4 => transactions'[r].state = 4
  <1>0. transactions \in Seq(SaleRow)
    BY DEF TypeInv, TypeOK
  <1>1. ASSUME NEW q, NEW v, transactions' = Journal!UpdateLatest(transactions, q, 1, 3, v)
        PROVE  transactions'[r].state = transactions[r].state
               \/ (transactions[r].state = 1 /\ transactions'[r].state = 3)
    BY <1>0, <1>1, Updated
  <1>2. ASSUME NEW q, transactions' = Journal!UpdateLatest(transactions, q, 3, 4, Journal!Keep)
        PROVE  transactions'[r].state = transactions[r].state
               \/ (transactions[r].state = 3 /\ transactions'[r].state = 4)
    BY <1>0, <1>2, Updated
  <1>3. ASSUME NEW q, transactions' = Journal!Insert(transactions, q)
        PROVE  transactions'[r].state = transactions[r].state
    BY <1>0, <1>3, InsertedAfter
  <1> QED
    BY <1>1, <1>2, <1>3, JournalSteps

\* What is the newest row's remains so until a row is inserted.
LEMMA OrderedStays ==
    ASSUME TypeInv, Kinds, NEW p, ~RowAdded(p), NEW sale, Ordered(p, sale)
    PROVE  Ordered(p, sale)'
  <1> SUFFICES ASSUME NEW r, (r \in Newest(p))', r \notin marred'
               PROVE  sale = r \/ (sale = 0 /\ transactions'[r].state # 1)
    BY DEF Ordered
  <1>1. r \in Newest(p) /\ r \notin marred
    BY NewestStays, MarredStays
  <1>2. r \in DOMAIN transactions
    BY <1>1 DEF Newest
  <1> QED
    BY <1>1, <1>2, RowsGoOn DEF Ordered

\* An order that is queued is that of the newest row of its pump, or there is no such row
\* that is open and not marred.
LEMMA OrderedWhenQueued ==
    ASSUME TypeInv, NEW c, CmdQueued(c), c.cmdType = "WRITE_VOLUME"
    PROVE  Ordered(c.id, c.dbId)'
  <1> DEFINE p == c.id
  <1>1. /\ UNCHANGED transactions /\ marred' = marred \cup MarredBy(c)
        /\ \/ c.dbId = 0
           \/ /\ c.dbId # 0 /\ c.dbId = Len(transactions)
              /\ transactions[c.dbId].pump = p
    BY DEF CmdQueued
  <1>2. transactions \in Seq(SaleRow) /\ DOMAIN transactions = 1..Len(transactions)
        /\ Len(transactions) \in Nat
    BY DEF TypeInv, TypeOK
  <1> SUFFICES ASSUME NEW r \in Newest(c.id), r \notin marred'
               PROVE  c.dbId = r \/ (c.dbId = 0 /\ transactions[r].state # 1)
    BY <1>1 DEF Ordered, Newest
  <1>3. CASE c.dbId = 0
    BY <1>1, <1>3 DEF MarredBy
  <1>4. CASE c.dbId # 0
    BY <1>1, <1>2, <1>4 DEF Newest, Journal!IsLatest
  <1> QED
    BY <1>3, <1>4

\* Supplies are never forgotten.
LEMMA SuppliesStay ==
    ASSUME TypeInv, Kinds, NEW n \in DOMAIN supplies
    PROVE  /\ n \in DOMAIN supplies'
           /\ supplies'[n].pump = supplies[n].pump
           /\ supplies'[n].sale = supplies[n].sale
           /\ supplies'[n].volume = supplies[n].volume
  <1>1. ASSUME NEW c, CmdDone(c) PROVE \E p \in Pumps : PumpStep(p)
    BY <1>1, LineCmdType, ObeyedIsPumpStep DEF CmdDone
  <1>2. ASSUME NEW p, PumpActs(p) PROVE \E q \in Pumps : PumpStep(q)
    BY <1>2 DEF PumpActs, PumpStep
  <1>3. UNCHANGED supplies \/ \E p \in Pumps : PumpStep(p)
    BY <1>1, <1>2 DEF Kinds, NothingDone, RowAdded, NoEndIsRead, EndIsRead, RowClosed,
                      CmdQueued, Polled, Stopped
  <1> QED
    BY <1>3, SuppliesKept

\* The row that is inserted is its pump's newest; it is marred unless the pump is at rest.
LEMMA AloneWhenAdded ==
    ASSUME TypeInv, NEW p, RowAdded(p)
    PROVE  AloneAt(p)'
  <1>1. CASE AtRest(p)
    BY <1>1 DEF RowAdded, AtRest, Orders, AloneAt, OrdersAlone, PumpAlone, EndsAlone
  <1>2. CASE ~AtRest(p)
    <2>1. transactions \in Seq(SaleRow) /\ transactions' = Journal!Insert(transactions, p)
          /\ Len(transactions') \in marred'
      BY <1>2 DEF TypeInv, TypeOK, RowAdded
    <2>2. /\ \A r : Journal!IsLatest(transactions', p, r) <=> r = Len(transactions) + 1
          /\ Len(transactions') = Len(transactions) + 1
      BY Adding
    <2>3. \A sale : Ordered(p, sale)'
      BY <2>1, <2>2 DEF Ordered, Newest
    <2> QED
      BY <2>3 DEF AloneAt, OrdersAlone, PumpAlone, EndsAlone
  <1> QED
    BY <1>1, <1>2

\* A step that queues a command inserts no row.
LEMMA QueuedIsNotAdded ==
    ASSUME TypeInv, NEW c, CmdQueued(c), NEW p, RowAdded(p) PROVE FALSE
  <1>1. transactions \in Seq(SaleRow) /\ transactions' = Journal!Insert(transactions, p)
        /\ UNCHANGED transactions
    BY DEF TypeInv, TypeOK, CmdQueued, RowAdded
  <1>2. Len(transactions') = Len(transactions) + 1
    BY Adding
  <1> QED
    BY <1>1, <1>2

\* An order that waits after a step has waited before, or has just been queued.
LEMMA OrdersFrom ==
    ASSUME TypeInv, Kinds, NEW i \in DOMAIN columnCmds'
    PROVE  \/ \E j \in DOMAIN columnCmds : columnCmds'[i] = columnCmds[j]
           \/ CmdQueued(columnCmds'[i])
  <1>1. ASSUME NEW c, CmdQueued(c)
        PROVE  \/ \E j \in DOMAIN columnCmds : columnCmds'[i] = columnCmds[j]
               \/ columnCmds'[i] = c
    <2>1. columnCmds' = Append(columnCmds, c) /\ c \in LineCmds /\ columnCmds \in Seq(LineCmds)
      BY <1>1 DEF CmdQueued, TypeInv
    <2> QED
      BY <2>1, Pushed
  <1>2. CASE columnCmds # <<>> /\ columnCmds' = Tail(columnCmds)
    BY <1>2, Popped DEF TypeInv
  <1>3. \/ UNCHANGED columnCmds \/ columnCmds' = <<>> \/ \E c : CmdQueued(c)
        \/ columnCmds # <<>> /\ columnCmds' = Tail(columnCmds)
    BY DEF Kinds, NothingDone, RowAdded, NoEndIsRead, EndIsRead, RowClosed, CmdDone, Polled,
           PumpActs, Stopped
  <1> QED
    BY <1>1, <1>2, <1>3

\* A pump that is not idle after a step was not before it, with the same order, or has taken
\* one that waited.
LEMMA PumpFrom ==
    ASSUME TypeInv, Kinds, NEW p \in Pumps, pump'[p].phase # "idle"
    PROVE  \/ pump[p].phase # "idle" /\ pump'[p].sale = pump[p].sale
           \/ \E j \in DOMAIN columnCmds :
                 columnCmds[j].id = p /\ columnCmds[j].cmdType = "WRITE_VOLUME"
                 /\ pump'[p].sale = columnCmds[j].dbId
  <1>1. ASSUME NEW q \in Pumps,
               Started(q) \/ Abandoned(q) \/ Finished(q) \/ Closed(q)
        PROVE  pump[p].phase # "idle" /\ pump'[p].sale = pump[p].sale
    BY <1>1 DEF Started, Finished, Abandoned, Closed, Becomes, Idle
  <1>2. ASSUME NEW c, CmdDone(c), c.cmdType = "WRITE_VOLUME", Taken(c.id, c.dbId)
        PROVE  \/ pump[p].phase # "idle" /\ pump'[p].sale = pump[p].sale
               \/ \E j \in DOMAIN columnCmds :
                     columnCmds[j].id = p /\ columnCmds[j].cmdType = "WRITE_VOLUME"
                     /\ pump'[p].sale = columnCmds[j].dbId
    <2>1. c = columnCmds[1] /\ 1 \in DOMAIN columnCmds
      BY <1>2, Popped DEF CmdDone, TypeInv
    <2> QED
      BY <1>2, <2>1 DEF Taken, Becomes
  <1>3. ASSUME NEW c, CmdDone(c)
        PROVE  \/ UNCHANGED pump \/ (c.cmdType = "WRITE_VOLUME" /\ Taken(c.id, c.dbId))
               \/ \E q \in Pumps : Abandoned(q) \/ Finished(q) \/ Closed(q)
    BY <1>3, LineCmdType DEF CmdDone, CmdObeyed, pumpVars
  <1>4. \/ UNCHANGED pump \/ \E c : CmdDone(c)
        \/ \E q \in Pumps : Started(q) \/ Abandoned(q) \/ Finished(q)
    BY DEF Kinds, NothingDone, RowAdded, NoEndIsRead, EndIsRead, RowClosed, CmdQueued, Polled,
           PumpActs, Stopped
  <1> QED
    BY <1>1, <1>2, <1>3, <1>4

\* The end of a supply that map or line speak of after a step.
Spoken(p, s) ==
    s.type = "SUPPLY_DONE" =>
        \/ states[p].type = "SUPPLY_DONE" /\ s.supply = states[p].supply
        \/ late[p].type = "SUPPLY_DONE" /\ s.supply = late[p].supply
        \/ pump'[p].phase = "done" /\ s.supply = pump'[p].supply

\* They have spoken of it before, or the pump has.
LEMMA EndsFrom ==
    ASSUME TypeInv, Kinds, NEW p \in Pumps
    PROVE  Spoken(p, states'[p]) /\ Spoken(p, late'[p])
  <1>0. DOMAIN states = Pumps /\ DOMAIN late = Pumps
    BY DEF TypeInv, TypeOK
  <1>1. ASSUME NEW q, Heard(q) PROVE Spoken(p, states'[p]) /\ Spoken(p, late'[p])
    <2>1. /\ states'[p] = states[p] \/ (q = p /\ Said(p, states'[p]))
          /\ late'[p] = late[p] \/ (q = p /\ Said(p, late'[p]))
      BY <1>0, <1>1 DEF Heard
    <2> QED
      BY <2>1 DEF Said, Spoken
  <1>2. CASE NoEndIsRead
    <2>1. states'[p] = states[p] \/ states'[p].type # "SUPPLY_DONE"
      BY <1>0, <1>2 DEF NoEndIsRead, NoEndRead, Offline
    <2> QED
      BY <1>2, <2>1 DEF NoEndIsRead, Spoken
  <1>3. ASSUME NEW q \in Pumps, NEW d \in Rows, EndIsRead(q, d)
        PROVE  Spoken(p, states'[p]) /\ Spoken(p, late'[p])
    <2>1. /\ states[q].type = "SUPPLY_DONE" /\ UNCHANGED late
          /\ states' = [states EXCEPT ![q] = [states[q] EXCEPT !.dbId = d]]
      BY <1>3 DEF EndIsRead, EndRead
    <2>2. states[q] \in State
      BY <2>1 DEF Unknown, TypeInv, TypeOK
    <2>3. \/ states'[p] = states[p]
          \/ states[p].type = "SUPPLY_DONE" /\ states'[p].supply = states[p].supply
      BY <1>0, <2>1, <2>2 DEF State
    <2> QED
      BY <2>1, <2>3 DEF Spoken
  <1>4. CASE UNCHANGED <<states, late>>
    BY <1>4 DEF Spoken
  <1>5. CASE Stopped
    BY <1>5 DEF Stopped, Unknown, Spoken
  <1> QED
    BY <1>1, <1>2, <1>3, <1>4, <1>5
    DEF Kinds, NothingDone, RowAdded, RowClosed, CmdQueued, CmdDone, Polled, PumpActs

\* At first nothing is on its way.
LEMMA AloneInit == Init => Alone
  BY DEF Init, Alone, AloneAt, OrdersAlone, PumpAlone, EndsAlone, Idle, Unknown

\* No step puts anything on its way that is not the newest row's, or it mars the row.
LEMMA AloneStep ==
    ASSUME TypeInv, Alone, [Next]_vars
    PROVE  Alone'
  <1>0. Kinds /\ TypeInv'
    BY NextIsOfAKind, TypeStep
  <1> SUFFICES ASSUME NEW p \in Pumps PROVE AloneAt(p)'
    BY DEF Alone
  <1>1. CASE RowAdded(p)
    BY <1>1, AloneWhenAdded
  <1>2. CASE ~RowAdded(p)
    <2>1. OrdersAlone(p) /\ PumpAlone(p) /\ EndsAlone(p)
      BY DEF Alone, AloneAt
    <2>2. \A sale : Ordered(p, sale) => Ordered(p, sale)'
      BY <1>0, <1>2, OrderedStays
    <2>3. OrdersAlone(p)'
      <3> SUFFICES ASSUME NEW i \in DOMAIN columnCmds', columnCmds'[i].id = p,
                          columnCmds'[i].cmdType = "WRITE_VOLUME"
                   PROVE  Ordered(p, columnCmds[i].dbId)'
        BY DEF OrdersAlone
      <3>1. CASE CmdQueued(columnCmds'[i])
        BY <3>1, OrderedWhenQueued
      <3>2. ASSUME NEW j \in DOMAIN columnCmds, columnCmds'[i] = columnCmds[j]
            PROVE  Ordered(p, columnCmds[i].dbId)'
        BY <2>1, <2>2, <3>2 DEF OrdersAlone
      <3> QED
        BY <1>0, <3>1, <3>2, OrdersFrom
    <2>4. PumpAlone(p)'
      BY <1>0, <2>1, <2>2, PumpFrom DEF PumpAlone, OrdersAlone
    <2>5. ASSUME NEW s, s.type = "SUPPLY_DONE", Spoken(p, s)
          PROVE  Ordered(p, supplies[s.supply].sale)'
      <3>1. CASE pump'[p].phase = "done" /\ s.supply = pump'[p].supply
        <4>1. supplies'[s.supply].sale = pump'[p].sale
          BY <1>0, <3>1 DEF TypeInv, SuppliesKnown, DoneIsSupply
        <4> QED
          BY <2>4, <3>1, <4>1 DEF PumpAlone
      <3>2. CASE ~(pump'[p].phase = "done" /\ s.supply = pump'[p].supply)
        <4>1. s.supply \in DOMAIN supplies /\ Ordered(p, supplies[s.supply].sale)
          BY <2>1, <2>5, <3>2 DEF Spoken, EndsAlone, TypeInv, SuppliesKnown, IsSupply
        <4>2. supplies'[s.supply].sale = supplies[s.supply].sale
          BY <1>0, <4>1, SuppliesStay
        <4> QED
          BY <2>2, <4>1, <4>2
      <3> QED
        BY <3>1, <3>2
    <2>6. EndsAlone(p)'
      BY <1>0, <2>5, EndsFrom DEF EndsAlone
    <2> QED
      BY <2>3, <2>4, <2>6 DEF AloneAt
  <1> QED
    BY <1>1, <1>2

-----------------------------------------------------------------------------
(***************************************************************************)
(* What is booked.                                                         *)
(***************************************************************************)

\* Row r has the volume of a supply that it ordered.
HasOwn(r) ==
    /\ booked[r] \in DOMAIN supplies
    /\ supplies[booked[r]].sale = r
    /\ transactions[r].volume = supplies[booked[r]].volume

OwnRows == \A r \in DOMAIN transactions \ marred : transactions[r].state >= 3 => HasOwn(r)

\* An amount that is read is booked on the row that ordered it.
LEMMA EndIsOwn ==
    ASSUME TypeInv, Kinds, Alone, OwnRows, NEW p \in Pumps, NEW d \in Rows, EndIsRead(p, d),
           NEW r \in DOMAIN transactions \ marred, transactions'[r].state >= 3
    PROVE  HasOwn(r)'
  <1> DEFINE v == states[p].volume
             n == states[p].supply
  <1>0. transactions \in Seq(SaleRow) /\ states[p] \in State
        /\ DOMAIN booked = DOMAIN transactions
    BY DEF TypeInv, TypeOK, EndIsRead, EndRead, Unknown
  <1>1. /\ transactions' = Journal!UpdateLatest(transactions, p, 1, 3, v)
        /\ booked' = [s \in DOMAIN booked |->
                         IF transactions'[s] # transactions[s] THEN n ELSE booked[s]]
        /\ states[p].type = "SUPPLY_DONE" /\ UNCHANGED supplies
    BY <1>0 DEF EndIsRead, EndRead, State
  <1>2. v \in Volumes /\ IsSupply(p, n, v) /\ Ordered(p, supplies[n].sale)
    BY <1>0, <1>1 DEF TypeInv, SuppliesKnown, Alone, AloneAt, EndsAlone, State
  <1>3. v # Journal!Keep
    <2>1. MaxVolume \in Nat
      BY DEF MaxVolume
    <2> QED
      BY <1>2, <2>1 DEF Volumes, Journal!Keep
  <1> HIDE DEF v, n
  <1>4. IF Journal!IsLatest(transactions, p, r) /\ transactions[r].state = 1
        THEN transactions'[r].state = 3 /\ transactions'[r].volume = v
        ELSE transactions'[r] = transactions[r]
    BY <1>0, <1>1, <1>3, Updated
  <1>5. CASE Journal!IsLatest(transactions, p, r) /\ transactions[r].state = 1
    <2>1. r \in Newest(p) /\ supplies[n].sale = r
      BY <1>2, <1>5 DEF Ordered, Newest
    <2>2. booked'[r] = n
      BY <1>0, <1>1, <1>4, <1>5
    <2> QED
      BY <1>1, <1>2, <1>4, <1>5, <2>1, <2>2 DEF HasOwn, IsSupply
  <1>6. CASE ~(Journal!IsLatest(transactions, p, r) /\ transactions[r].state = 1)
    <2>1. booked'[r] = booked[r] /\ transactions'[r] = transactions[r]
      BY <1>0, <1>1, <1>4, <1>6
    <2>2. HasOwn(r)
      BY <2>1 DEF OwnRows
    <2> QED
      BY <1>1, <2>1, <2>2 DEF HasOwn
  <1> QED
    BY <1>5, <1>6

\* No step books an amount on a row that did not order it.
LEMMA OwnStep ==
    ASSUME TypeInv, Alone, OwnRows, [Next]_vars
    PROVE  OwnRows'
  <1>0. Kinds
    BY NextIsOfAKind
  <1>00. /\ transactions \in Seq(SaleRow) /\ Len(transactions) \in Nat
         /\ DOMAIN transactions = 1..Len(transactions)
         /\ booked \in Seq(Supplies) /\ Len(booked) = Len(transactions)
         /\ DOMAIN booked = DOMAIN transactions
    BY DEF TypeInv, TypeOK
  <1> SUFFICES ASSUME NEW r, r \in DOMAIN transactions', r \notin marred',
                      transactions'[r].state >= 3
               PROVE  HasOwn(r)'
    BY DEF OwnRows
  <1>1. r \notin marred
    BY <1>0, MarredStays
  <1>2. CASE UNCHANGED <<transactions, booked>>
    <2>1. HasOwn(r)
      BY <1>1, <1>2 DEF OwnRows
    <2> QED
      BY <1>0, <1>2, <2>1, SuppliesStay DEF HasOwn
  <1>3. ASSUME NEW p, RowAdded(p) PROVE HasOwn(r)'
    <2>1. transactions' = Journal!Insert(transactions, p) /\ booked' = Append(booked, 0)
          /\ UNCHANGED supplies
      BY <1>3 DEF RowAdded
    <2> DEFINE new == Len(transactions) + 1
    <2>2. /\ DOMAIN transactions' = 1..new
          /\ transactions'[new] = [pump |-> p, state |-> 1, volume |-> 0]
      BY <1>00, <2>1, Inserted
    <2>3. transactions'[new].state = 1
      BY <2>2
    <2>4. r \in DOMAIN transactions
      BY <1>00, <2>2, <2>3
    <2>5. transactions'[r] = transactions[r] /\ booked'[r] = booked[r]
      BY <1>00, <2>1, <2>4, InsertedAfter
    <2>6. HasOwn(r)
      BY <1>1, <2>4, <2>5 DEF OwnRows
    <2> QED
      BY <2>1, <2>5, <2>6 DEF HasOwn
  <1>4. ASSUME NEW p \in Pumps, NEW d \in Rows, EndIsRead(p, d) PROVE HasOwn(r)'
    <2>1. r \in DOMAIN transactions
      <3>1. DOMAIN transactions' = DOMAIN transactions
        BY <1>00, <1>4, Updated DEF EndIsRead, EndRead
      <3> QED
        BY <3>1
    <2> QED
      BY <1>0, <1>1, <1>4, <2>1, EndIsOwn
  <1>5. ASSUME NEW p, RowClosed(p) PROVE HasOwn(r)'
    <2>1. transactions' = Journal!UpdateLatest(transactions, p, 3, 4, Journal!Keep)
          /\ UNCHANGED <<booked, supplies>>
      BY <1>5 DEF RowClosed
    <2>2. /\ r \in DOMAIN transactions
          /\ transactions'[r] = transactions[r]
             \/ (transactions[r].state = 3 /\ transactions'[r].volume = transactions[r].volume)
      BY <1>00, <2>1, Updated
    <2>3. HasOwn(r)
      BY <1>1, <2>2 DEF OwnRows
    <2> QED
      BY <2>1, <2>2, <2>3 DEF HasOwn
  <1> QED
    BY <1>0, <1>2, <1>3, <1>4, <1>5 DEF Kinds, NothingDone, NoEndIsRead, NoEndRead,
       CmdQueued, CmdDone, Polled, PumpActs, Stopped

-----------------------------------------------------------------------------
(***************************************************************************)
(* What is known of the end of a supply.                                   *)
(***************************************************************************)

\* The end of the supply n has been read as that of row r.
Filed(r, n) ==
    r # 0 /\ r \notin marred /\ supplies[n].sale # 0
        => r \in DOMAIN transactions /\ supplies[n].sale = r /\ transactions[r].state >= 3

FiledAt(p) ==
    /\ states[p].type = "SUPPLY_DONE" => Filed(states[p].dbId, states[p].supply)
    /\ lastDispense[p].transaction # 0
          => Filed(lastDispense[p].transaction, lastDispense[p].supply)
    /\ told[p].Transaction # 0 =>
          /\ told[p].Type = "PumpEndOfTransactionStatus"
          /\ Filed(told[p].Transaction, told[p].supply)

EndsFiled == \A p \in Pumps : FiledAt(p)

\* What is filed under a row stays there.
LEMMA FiledStays ==
    ASSUME TypeInv, Kinds, NEW r, NEW n \in DOMAIN supplies, Filed(r, n)
    PROVE  Filed(r, n)'
  <1>1. supplies'[n].sale = supplies[n].sale
    BY SuppliesStay
  <1>2. marred \subseteq marred'
    BY MarredStays
  <1>3. r \in DOMAIN transactions /\ transactions[r].state >= 3
           => r \in DOMAIN transactions' /\ transactions'[r].state >= 3
    BY RowsStay, RowsGoOn
  <1> QED
    BY <1>1, <1>2, <1>3 DEF Filed

\* A supply that is read is filed under its own row, also if it is read again.
LEMMA FiledWhenRead ==
    ASSUME TypeInv, Kinds, Alone, EndsFiled, NEW p \in Pumps, NEW d \in Rows, EndIsRead(p, d),
           NEW n, n = states[p].supply
    PROVE  Filed(d, n)' /\ n \in DOMAIN supplies
  <1>1. /\ states[p].type = "SUPPLY_DONE" /\ states[p] \in State
        /\ d = TransactionId(p) \/ d = states[p].dbId
        /\ UNCHANGED <<supplies, marred>>
    BY DEF TypeInv, TypeOK, EndIsRead, EndRead, Unknown
  <1>2. n \in DOMAIN supplies /\ Ordered(p, supplies[n].sale) /\ Filed(states[p].dbId, n)
    BY <1>1 DEF TypeInv, SuppliesKnown, IsSupply, Alone, AloneAt, EndsAlone, EndsFiled, FiledAt
  <1>3. CASE d = states[p].dbId
    <2>1. Filed(d, n)
      BY <1>2, <1>3
    <2> QED
      BY <1>2, <2>1, FiledStays
  <1>4. CASE d = TransactionId(p)
    <2> SUFFICES ASSUME d # 0, d \notin marred, supplies[n].sale # 0
                 PROVE  /\ d \in DOMAIN transactions' /\ supplies[n].sale = d
                        /\ transactions'[d].state >= 3
      BY <1>1, <1>2 DEF Filed
    <2>1. d \in Newest(p)
      BY <1>4, TransactionIdIsNewest DEF TypeInv
    <2>2. d \in DOMAIN transactions /\ Journal!IsLatest(transactions, p, d)
          /\ transactions \in Seq(SaleRow)
      BY <2>1 DEF Newest, TypeInv, TypeOK
    <2>3. supplies[n].sale = d
      BY <1>2, <2>1 DEF Ordered
    <2>4. d \in DOMAIN transactions'
      BY <2>2, RowsStay
    <2>5. transactions'[d].state >= 3
      <3>1. transactions' =
               Journal!UpdateLatest(transactions, p, 1, 3, [states[p] EXCEPT !.dbId = d].volume)
        BY DEF EndIsRead, EndRead
      <3>2. IF transactions[d].state = 1 THEN transactions'[d].state = 3
            ELSE transactions'[d] = transactions[d]
        BY <2>2, <3>1, Updated
      <3>3. transactions[d].state \in {1, 3, 4}
        <4>1. transactions[d] \in SaleRow
          BY <2>2
        <4> QED
          BY <4>1 DEF SaleRow
      <3> QED
        BY <3>2, <3>3
    <2> QED
      BY <2>3, <2>4, <2>5
  <1> QED
    BY <1>1, <1>2, <1>3, <1>4

\* At first nothing has been read.
LEMMA FiledInit == Init => EndsFiled
  BY DEF Init, EndsFiled, FiledAt, Unknown, NoDispense, Confirmation, Answer

\* No step files a supply under a row that did not order it.
LEMMA FiledStep ==
    ASSUME TypeInv, Alone, EndsFiled, [Next]_vars
    PROVE  EndsFiled'
  <1>0. Kinds
    BY NextIsOfAKind
  <1> SUFFICES ASSUME NEW p \in Pumps PROVE FiledAt(p)'
    BY DEF EndsFiled
  <1>00. /\ states \in [Pumps -> State \cup {Unknown}] /\ FiledAt(p)
         /\ DOMAIN told = Pumps /\ DOMAIN lastDispense = Pumps
    BY DEF TypeInv, TypeOK, EndsFiled
  <1>1. /\ states[p].type = "SUPPLY_DONE" => states[p].supply \in DOMAIN supplies
        /\ lastDispense[p].transaction # 0 => lastDispense[p].supply \in DOMAIN supplies
        /\ told[p].Transaction # 0 => told[p].supply \in DOMAIN supplies
    BY <1>00 DEF TypeInv, SuppliesKnown, IsSupply, FiledAt
  <1>2. \A r : \A n \in DOMAIN supplies : Filed(r, n) => Filed(r, n)'
    BY <1>0, FiledStays
  <1>3. ASSUME states'[p] = states[p] \/ states'[p].type # "SUPPLY_DONE" \/ states'[p].dbId = 0,
               told'[p] = told[p], lastDispense'[p] = lastDispense[p]
        PROVE  FiledAt(p)'
    <2>1. states'[p].type = "SUPPLY_DONE" => Filed(states[p].dbId, states[p].supply)'
      <3>1. CASE states'[p] = states[p]
        BY <1>00, <1>1, <1>2, <3>1 DEF FiledAt
      <3>2. CASE states'[p].dbId = 0
        BY <3>2 DEF Filed
      <3> QED
        BY <1>3, <3>1, <3>2
    <2>2. /\ lastDispense'[p].transaction # 0
                => Filed(lastDispense[p].transaction, lastDispense[p].supply)'
          /\ told'[p].Transaction # 0 =>
                /\ told'[p].Type = "PumpEndOfTransactionStatus"
                /\ Filed(told[p].Transaction, told[p].supply)'
      BY <1>00, <1>1, <1>2, <1>3 DEF FiledAt
    <2> QED
      BY <2>1, <2>2 DEF FiledAt
  <1>4. ASSUME NEW q \in Pumps, NEW d \in Rows, EndIsRead(q, d) PROVE FiledAt(p)'
    <2> DEFINE s == [states[q] EXCEPT !.dbId = d]
    <2>1. /\ states[q].type = "SUPPLY_DONE" /\ states[q] \in State
          /\ states' = [states EXCEPT ![q] = s]
          /\ lastDispense' = [lastDispense EXCEPT ![q] = Dispensed(s)]
          /\ told' = [told EXCEPT ![q] = EndOfTransaction(s)]
      BY <1>00, <1>4 DEF EndIsRead, EndRead, Unknown
    <2>2. s.dbId = d /\ s.supply = states[q].supply
      BY <2>1 DEF State
    <2> HIDE DEF s
    <2>3. CASE q # p
      BY <1>00, <1>3, <2>1, <2>3
    <2>4. CASE q = p
      <3>1. states'[p] = s /\ lastDispense'[p] = Dispensed(s) /\ told'[p] = EndOfTransaction(s)
        BY <1>00, <2>1, <2>4
      <3>2. PICK n : n = states[p].supply
        OBVIOUS
      <3>3. Filed(d, n)'
        BY <1>0, <1>4, <2>4, <3>2, FiledWhenRead
      <3>4. /\ states'[p].dbId = d /\ states'[p].supply = n
            /\ lastDispense'[p].transaction = d /\ lastDispense'[p].supply = n
            /\ told'[p].Transaction = d /\ told'[p].supply = n
            /\ told'[p].Type = "PumpEndOfTransactionStatus"
        BY <2>2, <2>4, <3>1, <3>2 DEF Dispensed, EndOfTransaction, Answer
      <3> QED
        BY <3>3, <3>4 DEF FiledAt
    <2> QED
      BY <2>3, <2>4
  <1>5. CASE NoEndIsRead
    <2>1. states'[p] = states[p] \/ states'[p].type # "SUPPLY_DONE"
      BY <1>00, <1>5 DEF NoEndIsRead, NoEndRead, Offline
    <2> QED
      BY <1>3, <1>5, <2>1 DEF NoEndIsRead, NoEndRead
  <1>6. ASSUME NEW q, Heard(q), UNCHANGED <<told, lastDispense>> PROVE FiledAt(p)'
    <2>1. states'[p] = states[p] \/ states'[p].type # "SUPPLY_DONE" \/ states'[p].dbId = 0
      BY <1>00, <1>6 DEF Heard, Said
    <2> QED
      BY <1>3, <1>6, <2>1
  <1>7. CASE Stopped
    BY <1>7 DEF Stopped, FiledAt, Unknown, NoDispense, Confirmation, Answer
  <1>8. CASE UNCHANGED <<states, told, lastDispense>>
    BY <1>3, <1>8
  <1> QED
    BY <1>0, <1>4, <1>5, <1>6, <1>7, <1>8
    DEF Kinds, NothingDone, RowAdded, RowClosed, CmdQueued, CmdDone, Polled, PumpActs

-----------------------------------------------------------------------------
(***************************************************************************)
(* The id an end is told with.                                             *)
(***************************************************************************)

\* The end of the supply n, if a row was inserted for it, has been told with an id.
Named(n, r) == n # 0 /\ supplies[n].sale # 0 => r # 0

NamedAt(p) ==
    p \notin byClose =>
        /\ Named(told[p].supply, told[p].Transaction)
        /\ Named(lastDispense[p].supply, lastDispense[p].transaction)

\* gettransactionDbId finds a row of every pump that has any.
HasNewest == \A r \in DOMAIN transactions : Newest(transactions[r].pump) # {}

EndsNamed == HasNewest /\ \A p \in Pumps : NamedAt(p)

\* Of the rows of a pump one is always the newest.
LEMMA NewestStep ==
    ASSUME TypeInv, Kinds, HasNewest PROVE HasNewest'
  <1> SUFFICES ASSUME NEW r \in DOMAIN transactions', NEW p, p = transactions'[r].pump
               PROVE  \E n : (n \in Newest(p))'
    BY DEF HasNewest
  <1>00. transactions \in Seq(SaleRow) /\ DOMAIN transactions = 1..Len(transactions)
         /\ Len(transactions) \in Nat
    BY DEF TypeInv, TypeOK
  <1>1. ASSUME NEW q, RowAdded(q) PROVE \E n : (n \in Newest(p))'
    <2> DEFINE n == Len(transactions) + 1
    <2>1. transactions' = Journal!Insert(transactions, q)
      BY <1>1 DEF RowAdded
    <2>2. /\ DOMAIN transactions' = 1..n
          /\ transactions'[n] = [pump |-> q, state |-> 1, volume |-> 0]
          /\ \A m : Journal!IsLatest(transactions', q, m) <=> m = n
      BY <1>00, <2>1, Inserted
    <2>3. CASE p = q
      BY <1>00, <2>2, <2>3 DEF Newest
    <2>4. CASE p # q
      <3>1. transactions'[n].pump = q
        BY <2>2
      <3>2. r \in DOMAIN transactions
        BY <1>00, <2>2, <2>4, <3>1
      <3>3. transactions'[r].pump = transactions[r].pump
        BY <3>2, RowsStay
      <3>4. PICK m : m \in Newest(p)
        BY <3>2, <3>3 DEF HasNewest
      <3>5. ~RowAdded(p)
        <4>1. CASE RowAdded(p)
          <5>1. transactions' = Journal!Insert(transactions, p)
            BY <4>1 DEF RowAdded
          <5>2. transactions'[n] = [pump |-> p, state |-> 1, volume |-> 0]
            BY <1>00, <5>1, Inserted
          <5> QED
            BY <2>4, <3>1, <5>2
        <4> QED
          BY <4>1
      <3> QED
        BY <3>4, <3>5, NewestStays
    <2> QED
      BY <2>3, <2>4
  <1>2. CASE \A q : ~RowAdded(q)
    <2>1. DOMAIN transactions' = DOMAIN transactions
      <3>1. ASSUME NEW q, NEW from, NEW to, NEW v,
                   transactions' = Journal!UpdateLatest(transactions, q, from, to, v)
            PROVE  DOMAIN transactions' = DOMAIN transactions
        BY <1>00, <3>1, Updated
      <3> QED
        BY <1>2, <3>1, JournalSteps
    <2>2. transactions'[r].pump = transactions[r].pump
      BY <2>1, RowsStay
    <2>3. PICK m : m \in Newest(p)
      BY <2>1, <2>2 DEF HasNewest
    <2> QED
      BY <1>2, <2>3, NewestStays
  <1> QED
    BY <1>1, <1>2

\* What is told of p does not change, and so it remains named or not.
LEMMA NamedStays ==
    ASSUME TypeInv, Kinds, NEW p \in Pumps, NamedAt(p),
           p \notin byClose' => p \notin byClose,
           told'[p] = told[p], lastDispense'[p] = lastDispense[p]
    PROVE  NamedAt(p)'
  <1>1. /\ told[p].supply # 0 => told[p].supply \in DOMAIN supplies
        /\ lastDispense[p].supply # 0 => lastDispense[p].supply \in DOMAIN supplies
    BY DEF TypeInv, SuppliesKnown, IsSupply
  <1>2. \A n \in DOMAIN supplies : supplies'[n].sale = supplies[n].sale
    BY SuppliesStay
  <1> QED
    BY <1>1, <1>2 DEF NamedAt, Named

\* The end that is read is that of a sale that has a row, and so gettransactionDbId, where
\* it is asked, finds one.
LEMMA NamedWhenRead ==
    ASSUME TypeInv, OrderOnce, HasNewest, NEW p \in Pumps, NEW d \in Rows, EndIsRead(p, d),
           p \notin byClose', NEW n, n = states[p].supply
    PROVE  Named(n, d)'
  <1>1. /\ states[p].type = "SUPPLY_DONE" /\ UNCHANGED supplies
        /\ d # 0 \/ d = TransactionId(p)
    BY DEF EndIsRead, EndRead
  <1> SUFFICES ASSUME supplies[n].sale # 0, d = 0 PROVE FALSE
    BY <1>1 DEF Named
  <1>2. n \in DOMAIN supplies /\ supplies[n].pump = p
    BY <1>1 DEF TypeInv, SuppliesKnown, IsSupply
  <1>3. supplies[n].sale \in DOMAIN transactions /\ transactions[supplies[n].sale].pump = p
    BY <1>2 DEF OrderOnce, SuppliedOnce, Sent
  <1>4. PICK r : r \in Newest(p)
    BY <1>3 DEF HasNewest
  <1>5. d = r
    BY <1>1, <1>4, TransactionIdIsNewest DEF TypeInv
  <1> QED
    BY <1>4, <1>5 DEF Newest, TypeInv, TypeOK

\* At first nothing is told.
LEMMA NamedInit == Init => EndsNamed
  BY DEF Init, EndsNamed, HasNewest, NamedAt, Named, NoDispense, Confirmation, Answer

\* No step tells an end without its id but the answer to CLOSE_REPORT.
LEMMA NamedStep ==
    ASSUME TypeInv, OrderOnce, EndsNamed, [Next]_vars
    PROVE  EndsNamed'
  <1>0. Kinds
    BY NextIsOfAKind
  <1>1. HasNewest'
    BY <1>0, NewestStep DEF EndsNamed
  <1> SUFFICES ASSUME NEW p \in Pumps PROVE NamedAt(p)'
    BY <1>1 DEF EndsNamed
  <1>00. /\ NamedAt(p) /\ DOMAIN told = Pumps /\ DOMAIN lastDispense = Pumps
    BY DEF TypeInv, TypeOK, EndsNamed
  <1>2. CASE UNCHANGED <<told, lastDispense, byClose>>
    BY <1>0, <1>00, <1>2, NamedStays
  <1>3. CASE Stopped
    BY <1>3 DEF Stopped, NamedAt, Named, NoDispense, Confirmation, Answer
  <1>4. ASSUME NEW q \in Pumps, NEW d \in Rows, EndIsRead(q, d) PROVE NamedAt(p)'
    <2> DEFINE s == [states[q] EXCEPT !.dbId = d]
    <2>1. /\ states[q].type = "SUPPLY_DONE" /\ states[q] \in State
          /\ lastDispense' = [lastDispense EXCEPT ![q] = Dispensed(s)]
          /\ told' = [told EXCEPT ![q] = EndOfTransaction(s)]
          /\ byClose' \in {byClose \cup {q}, byClose \ {q}}
      BY <1>4 DEF EndIsRead, EndRead, Unknown, TypeInv, TypeOK
    <2>2. s.dbId = d /\ s.supply = states[q].supply
      BY <2>1 DEF State
    <2> HIDE DEF s
    <2>3. CASE q # p
      <3>1. told'[p] = told[p] /\ lastDispense'[p] = lastDispense[p]
            /\ (p \notin byClose' => p \notin byClose)
        BY <1>00, <2>1, <2>3
      <3> QED
        BY <1>0, <1>00, <3>1, NamedStays
    <2>4. CASE q = p
      <3>1. lastDispense'[p] = Dispensed(s) /\ told'[p] = EndOfTransaction(s)
        BY <1>00, <2>1, <2>4
      <3>2. PICK n : n = states[p].supply
        OBVIOUS
      <3>3. p \notin byClose' => Named(n, d)'
        BY <1>4, <2>4, <3>2, NamedWhenRead DEF EndsNamed
      <3>4. /\ lastDispense'[p].transaction = d /\ lastDispense'[p].supply = n
            /\ told'[p].Transaction = d /\ told'[p].supply = n
        BY <2>2, <2>4, <3>1, <3>2 DEF Dispensed, EndOfTransaction, Answer
      <3> QED
        BY <3>3, <3>4 DEF NamedAt
    <2> QED
      BY <2>3, <2>4
  <1> QED
    BY <1>0, <1>2, <1>3, <1>4
    DEF Kinds, NothingDone, RowAdded, NoEndIsRead, NoEndRead, RowClosed, CmdQueued, CmdDone,
        Polled, PumpActs

-----------------------------------------------------------------------------
\* Which row every order, supply and answer belongs to.
SaleInv ==
    /\ TypeInv
    /\ OrderOnce
    /\ Alone
    /\ OwnRows
    /\ EndsFiled
    /\ EndsNamed

\* Whatever the JSON thread, the poll thread, the pumps and the customers do, and wherever
\* the process is stopped: the order of a row is obeyed once at most, what is on its way
\* between a pump and the journal is of the newest row of the pump or this row is marred,
\* what is booked is what was ordered, what was read is filed under the row it is of, and
\* what was told of it in answer to a status names this row.
THEOREM Sale == Spec => []SaleInv
  <1>1. Init => SaleInv
    <2>1. Init => OwnRows
      BY DEF Init, OwnRows
    <2> QED
      BY <2>1, TypeInit, OnceInit, AloneInit, FiledInit, NamedInit DEF SaleInv
  <1>2. SaleInv /\ [Next]_vars => SaleInv'
    BY TypeStep, OnceStep, AloneStep, OwnStep, FiledStep, NamedStep DEF SaleInv
  <1> QED
    BY <1>1, <1>2, PTL DEF Spec

\* An amount is booked on the row of the sale that ordered it, whole, although
\* checkDbUpdates writes what it reads on the newest row of the pump, whichever that is.
THEOREM VolumesAreOwn == Spec => []OwnVolume
  <1>1. SaleInv => OwnVolume
    <2> SUFFICES ASSUME SaleInv, NEW r \in DOMAIN transactions \ marred,
                        transactions[r].state >= 3
                 PROVE  /\ booked[r] # 0
                        /\ supplies[booked[r]].sale = r
                        /\ transactions[r].volume = supplies[booked[r]].volume
      BY DEF OwnVolume
    <2>1. HasOwn(r)
      BY DEF SaleInv, OwnRows
    <2>2. 0 \notin DOMAIN supplies
      BY DEF SaleInv, TypeInv, TypeOK
    <2> QED
      BY <2>1, <2>2 DEF HasOwn
  <1> QED
    BY <1>1, Sale, PTL

\* What resolveSupplyDone tells the POS, and what resolveHangedFreeResponse repeats, agrees
\* with the journal.  The transaction it names is the one that ordered the supply, and its
\* volume is the one that was booked, although gettransactionDbId answers with the pump's
\* newest row and an end may be read several times; and it names one whenever a row was
\* inserted, unless the end was told without its id, in answer to CLOSE_REPORT.
THEOREM AnswersAreBooked == Spec => []ToldAsBooked
  <1>1. SaleInv => ToldAsBooked
    <2> SUFFICES ASSUME SaleInv, NEW p \in Pumps
                 PROVE  /\ AsBooked(told[p]) /\ AsBooked(LastTold(p))
                        /\ p \notin byClose => NamesRow(told[p]) /\ NamesRow(LastTold(p))
      BY DEF ToldAsBooked
    <2>1. TypeInv /\ FiledAt(p) /\ NamedAt(p)
      BY DEF SaleInv, EndsFiled, EndsNamed
    \* A supply that is filed under a row is the one that was booked on it.
    <2>2. ASSUME NEW r, NEW n, r # 0, r \notin marred, supplies[n].sale # 0, Filed(r, n),
                 n \in DOMAIN supplies
          PROVE  /\ supplies[n].sale = r
                 /\ 10 * Hundredths(supplies[n].volume) - transactions[r].volume \in 0..19
      <3>1. r \in DOMAIN transactions /\ supplies[n].sale = r /\ transactions[r].state >= 3
        BY <2>2 DEF Filed
      <3>2. HasOwn(r)
        BY <2>2, <3>1 DEF SaleInv, OwnRows
      <3>3. SuppliedOnce(n)
        BY <2>2 DEF SaleInv, OrderOnce
      <3>4. booked[r] = n
        BY <2>2, <3>1, <3>2, <3>3 DEF HasOwn, SuppliedOnce
      <3>5. supplies[n].volume \in Volumes
        <4>1. supplies[n] \in Supply
          BY <2>1, <2>2 DEF TypeInv, TypeOK
        <4> QED
          BY <4>1 DEF Supply
      <3> QED
        BY <3>1, <3>2, <3>4, <3>5, RoundedUp DEF HasOwn
    <2>3. AsBooked(told[p])
      <3> SUFFICES ASSUME told[p].Transaction # 0, told[p].Transaction \notin marred,
                          supplies[told[p].supply].sale # 0
                   PROVE  /\ supplies[told[p].supply].sale = told[p].Transaction
                          /\ 10 * told[p].Volume - transactions[told[p].Transaction].volume
                                \in 0..19
        BY DEF AsBooked
      <3>1. /\ Filed(told[p].Transaction, told[p].supply)
            /\ told[p].supply \in DOMAIN supplies
            /\ told[p].Volume = Hundredths(supplies[told[p].supply].volume)
        BY <2>1 DEF FiledAt, TypeInv, SuppliesKnown, IsSupply
      <3> QED
        BY <2>2, <3>1
    <2>4. /\ AsBooked(LastTold(p))
          /\ LastTold(p).supply = lastDispense[p].supply
          /\ LastTold(p).Transaction = lastDispense[p].transaction
      <3> DEFINE last   == lastDispense[p]
                 idle   == [Offline(p) EXCEPT !.type = "HANGED_FREE"]
                 answer == PreparePacketStr(idle, last)
      <3>1. idle.type = "HANGED_FREE"
        BY DEF Offline
      <3>2. answer = IdleStatus(idle, last)
        BY <3>1 DEF PreparePacketStr
      <3>3. /\ answer.Transaction = last.transaction /\ answer.Volume = Hundredths(last.volume)
            /\ answer.supply = last.supply
        BY <3>2 DEF IdleStatus, Answer
      <3> HIDE DEF answer
      <3>4. last.transaction # 0 =>
               /\ Filed(last.transaction, last.supply)
               /\ last.supply \in DOMAIN supplies /\ last.volume = supplies[last.supply].volume
        BY <2>1 DEF FiledAt, TypeInv, SuppliesKnown, IsSupply
      <3> HIDE DEF last
      <3>5. AsBooked(answer)
        BY <2>2, <3>3, <3>4 DEF AsBooked
      <3> QED
        BY <3>3, <3>5 DEF answer, last, LastTold
    <2>5. p \notin byClose => NamesRow(told[p]) /\ NamesRow(LastTold(p))
      BY <2>1, <2>4 DEF NamedAt, Named, NamesRow
    <2> QED
      BY <2>3, <2>4, <2>5
  <1> QED
    BY <1>1, Sale, PTL

-----------------------------------------------------------------------------
(***************************************************************************)
(* What is closed.                                                         *)
(***************************************************************************)

\* Row r is closed, or will not be.
Settled(r) == transactions[r].state = 4 \/ r \in hasty

\* A command that closes a supply follows the UPDATE that closes its row, and goes before
\* every order of a row that is newer.
CloseAfterRow(i) ==
    columnCmds[i].cmdType = "CLOSE_REPORT" =>
        \A r \in Newest(columnCmds[i].id) \ marred :
            \/ Settled(r)
            \/ dbId = r
            \/ \E j \in DOMAIN columnCmds : j > i /\ columnCmds[j].dbId = r

PushAfterRow == pc = "push" => \A r \in Newest(Parsed.id) \ marred : Settled(r)

RowClosedFirst ==
    /\ PushAfterRow
    /\ \A i \in DOMAIN columnCmds : CloseAfterRow(i)

\* The newest row of one pump is not that of another.
LEMMA NewestOfOne ==
    ASSUME NEW p, NEW q, NEW r, r \in Newest(p), r \in Newest(q)
    PROVE  p = q /\ transactions[r].pump = p
  BY DEF Newest, Journal!IsLatest

\* The row that is inserted is the newest of its pump.
LEMMA NewestAdded ==
    ASSUME TypeInv, NEW p, RowAdded(p)
    PROVE  \A r : (r \in Newest(p))' => r = dbId' /\ r \notin DOMAIN transactions
  <1>1. transactions \in Seq(SaleRow) /\ transactions' = Journal!Insert(transactions, p)
        /\ dbId' = Len(transactions')
    BY DEF TypeInv, TypeOK, RowAdded
  <1>2. /\ \A r : Journal!IsLatest(transactions', p, r) <=> r = Len(transactions) + 1
        /\ Len(transactions') = Len(transactions) + 1
        /\ DOMAIN transactions = 1..Len(transactions)
    BY <1>1, Inserted
  <1>3. Len(transactions) \in Nat
    BY <1>1
  <1> QED
    BY <1>1, <1>2, <1>3 DEF Newest

\* A row that was passed over, or overtaken, remains so.
LEMMA HastyStays ==
    ASSUME Kinds PROVE hasty \subseteq hasty' /\ overtaken \subseteq overtaken'
  BY DEF Kinds, NothingDone, RowAdded, NoEndIsRead, EndIsRead, RowClosed,
         CmdQueued, CmdDone, Polled, PumpActs, Stopped

\* ... and a row that is settled.
LEMMA SettledStays ==
    ASSUME TypeInv, Kinds, NEW p, NEW r \in Newest(p), Settled(r)
    PROVE  Settled(r)'
  <1>1. r \in DOMAIN transactions
    BY DEF Newest
  <1> QED
    BY <1>1, HastyStays, RowsGoOn DEF Settled

\* The row is closed, or is passed over because its amount has not been read.
LEMMA RowClosedSettles ==
    ASSUME TypeInv, NEW p, RowClosed(p), NEW r \in Newest(p) \ marred
    PROVE  Settled(r)'
  <1>1. /\ transactions' = Journal!UpdateLatest(transactions, p, 3, 4, Journal!Keep)
        /\ hasty' = hasty \cup {s \in Newest(p) \ marred : transactions[s].state = 1}
        /\ transactions \in Seq(SaleRow)
    BY DEF RowClosed, TypeInv, TypeOK
  <1>2. r \in DOMAIN transactions /\ Journal!IsLatest(transactions, p, r)
    BY DEF Newest
  <1>3. IF transactions[r].state = 3 THEN transactions'[r].state = 4
        ELSE transactions'[r] = transactions[r]
    BY <1>1, <1>2, Updated
  <1>4. transactions[r].state \in {1, 3, 4}
    <2>1. transactions[r] \in SaleRow
      BY <1>1, <1>2
    <2> QED
      BY <2>1 DEF SaleRow
  <1> QED
    BY <1>1, <1>3, <1>4 DEF Settled

\* While a close is about to be queued, its row remains settled.
LEMMA PushStep ==
    ASSUME TypeInv, Kinds, PushAfterRow
    PROVE  PushAfterRow'
  <1>1. ASSUME NEW p, RowClosed(p) PROVE PushAfterRow'
    <2>1. ~RowAdded(p) \/ pc' # "push"
      BY DEF RowAdded
    <2>2. Parsed'.id = p
      BY <1>1 DEF RowClosed
    <2>3. pc' = "push" => \A r : (r \in Newest(p))' => r \in Newest(p)
      BY <2>1, NewestStays
    <2>4. ASSUME pc' = "push", NEW r, (r \in Newest(p))', r \notin marred' PROVE Settled(r)'
      <3>1. r \in Newest(p) \ marred
        BY <2>3, <2>4, MarredStays
      <3> QED
        BY <1>1, <3>1, RowClosedSettles
    <2> QED
      BY <2>2, <2>4 DEF PushAfterRow
  <1>2. CASE NoPush
    <2> SUFFICES ASSUME pc' = "push" PROVE PushAfterRow'
      BY DEF PushAfterRow
    <2>1. PICK p : p = Parsed.id
      OBVIOUS
    <2>2. ~RowAdded(p) /\ pc = "push" /\ Parsed'.id = p
      BY <1>2, <2>1 DEF RowAdded, NoPush
    <2>3. ASSUME NEW r, (r \in Newest(p))', r \notin marred' PROVE Settled(r)'
      <3>1. r \in Newest(p) /\ r \notin marred
        BY <2>2, <2>3, NewestStays, MarredStays
      <3>2. Settled(r)
        BY <2>1, <2>2, <3>1 DEF PushAfterRow
      <3> QED
        BY <2>2, <3>1, <3>2, SettledStays
    <2> QED
      BY <2>2, <2>3 DEF PushAfterRow
  <1>3. CASE pc' # "push"
    BY <1>3 DEF PushAfterRow
  <1> QED
    BY <1>1, <1>2, <1>3 DEF Kinds, NothingDone, RowAdded, NoEndIsRead, EndIsRead,
       CmdQueued, CmdDone, Polled, PumpActs, Stopped

\* What a command is preceded and followed by when the queue only loses its head.
LEMMA CloseStays ==
    ASSUME TypeInv, Kinds, RowClosedFirst,
           \/ columnCmds' = columnCmds
           \/ columnCmds # <<>> /\ columnCmds' = Tail(columnCmds),
           dbId' = dbId \/ \E p : RowAdded(p)
    PROVE  \A i \in DOMAIN columnCmds' : CloseAfterRow(i)'
  <1> SUFFICES ASSUME NEW i \in DOMAIN columnCmds', NEW p, p = columnCmds'[i].id,
                      columnCmds'[i].cmdType = "CLOSE_REPORT",
                      NEW r, (r \in Newest(p))', r \notin marred'
               PROVE  \/ Settled(r)'
                      \/ dbId' = r
                      \/ \E j \in DOMAIN columnCmds' : j > i /\ columnCmds'[j].dbId = r
    BY DEF CloseAfterRow
  <1>1. CASE RowAdded(p)
    BY <1>1, NewestAdded
  <1>2. CASE ~RowAdded(p)
    <2>1. r \in Newest(p) /\ r \notin marred /\ r \in DOMAIN transactions /\ r # 0
      <3>1. r \in Newest(p) /\ r \notin marred
        BY <1>2, NewestStays, MarredStays
      <3> QED
        BY <3>1 DEF Newest, TypeInv, TypeOK
    <2>2. Settled(r) => Settled(r)'
      BY <1>2, <2>1, SettledStays
    <2>3. dbId = r => dbId' = r
      BY <2>1 DEF RowAdded
    <2>4. CASE columnCmds' = columnCmds
      <3>1. CloseAfterRow(i)
        BY <2>4 DEF RowClosedFirst
      <3> QED
        BY <2>1, <2>2, <2>3, <2>4, <3>1 DEF CloseAfterRow
    <2>5. CASE columnCmds # <<>> /\ columnCmds' = Tail(columnCmds)
      <3>1. /\ \A k \in DOMAIN columnCmds' :
                  /\ k \in Nat /\ k + 1 \in DOMAIN columnCmds
                  /\ columnCmds'[k] = columnCmds[k + 1]
            /\ \A k \in DOMAIN columnCmds : k # 1 => k - 1 \in DOMAIN columnCmds'
            /\ \A k \in DOMAIN columnCmds : k \in Nat
        <4>1. columnCmds \in Seq(LineCmds)
          BY DEF TypeInv
        <4> QED
          BY <2>5, <4>1, Popped
      <3>2. CloseAfterRow(i + 1) /\ columnCmds'[i] = columnCmds[i + 1]
        BY <3>1 DEF RowClosedFirst
      <3>3. ASSUME NEW j \in DOMAIN columnCmds, j > i + 1, columnCmds[j].dbId = r
            PROVE  \E k \in DOMAIN columnCmds' : k > i /\ columnCmds'[k].dbId = r
        <4>0. i \in Nat /\ j \in Nat
          BY <3>1
        <4>1. j - 1 \in DOMAIN columnCmds' /\ j - 1 > i /\ (j - 1) + 1 = j
          <5>1. j # 1 /\ j - 1 > i /\ (j - 1) + 1 = j
            BY <3>3, <4>0
          <5> QED
            BY <3>1, <5>1
        <4>2. columnCmds'[j - 1] = columnCmds[(j - 1) + 1]
          BY <3>1, <4>1
        <4> QED
          BY <3>3, <4>1, <4>2
      <3> QED
        BY <2>1, <2>2, <2>3, <3>2, <3>3 DEF CloseAfterRow
    <2> QED
      BY <2>4, <2>5
  <1> QED
    BY <1>1, <1>2

\* A close is queued after its row has been settled, and orders only behind it.
LEMMA CloseQueued ==
    ASSUME TypeInv, Kinds, RowClosedFirst, NEW c, CmdQueued(c)
    PROVE  \A i \in DOMAIN columnCmds' : CloseAfterRow(i)'
  <1>1. /\ columnCmds' = Append(columnCmds, c) /\ c \in LineCmds /\ columnCmds \in Seq(LineCmds)
        /\ UNCHANGED transactions
        /\ \/ dbId' = dbId
           \/ c.dbId = dbId /\ dbId' = 0
        /\ c.cmdType = "CLOSE_REPORT" => pc = "push" /\ Parsed.id = c.id
    BY DEF CmdQueued, TypeInv
  <1>2. PICK n : /\ DOMAIN columnCmds' = DOMAIN columnCmds \cup {n} /\ n \notin DOMAIN columnCmds
                 /\ columnCmds'[n] = c /\ n \in Nat
                 /\ \A i \in DOMAIN columnCmds : columnCmds'[i] = columnCmds[i] /\ n > i
    <2>1. DOMAIN columnCmds = 1..Len(columnCmds) /\ Len(columnCmds) \in Nat
      BY <1>1
    <2> QED
      BY <1>1, <2>1, Pushed
  <1> SUFFICES ASSUME NEW i \in DOMAIN columnCmds', NEW p, p = columnCmds'[i].id,
                      columnCmds'[i].cmdType = "CLOSE_REPORT",
                      NEW r, (r \in Newest(p))', r \notin marred'
               PROVE  \/ Settled(r)'
                      \/ dbId' = r
                      \/ \E j \in DOMAIN columnCmds' : j > i /\ columnCmds'[j].dbId = r
    BY DEF CloseAfterRow
  <1>3. r \in Newest(p) /\ r \notin marred
    BY <1>1, MarredStays DEF Newest
  <1>4. ~RowAdded(p)
    <2>1. RowAdded(p) => r \notin DOMAIN transactions
      BY NewestAdded
    <2> QED
      BY <1>3, <2>1 DEF Newest
  <1>5. Settled(r) => Settled(r)'
    BY <1>3, <1>4, SettledStays
  <1>6. CASE i = n
    <2>1. pc = "push" /\ Parsed.id = p
      BY <1>1, <1>2, <1>6
    <2> QED
      BY <1>3, <1>5, <2>1 DEF RowClosedFirst, PushAfterRow
  <1>7. CASE i # n
    <2>1. CloseAfterRow(i) /\ columnCmds'[i] = columnCmds[i] /\ n > i
      BY <1>2, <1>7 DEF RowClosedFirst
    <2> QED
      BY <1>1, <1>2, <1>3, <1>5, <2>1 DEF CloseAfterRow
  <1> QED
    BY <1>6, <1>7

\* No step lets a close overtake its row, or an order overtake a close.
LEMMA ClosedFirstStep ==
    ASSUME TypeInv, RowClosedFirst, [Next]_vars
    PROVE  RowClosedFirst'
  <1>0. Kinds
    BY NextIsOfAKind
  <1>1. PushAfterRow'
    BY <1>0, PushStep DEF RowClosedFirst
  <1>2. ASSUME NEW p, NEW s, NEW c,
               \/ NothingDone \/ RowAdded(p) \/ NoEndIsRead \/ EndIsRead(p, s) \/ RowClosed(p)
               \/ CmdDone(c) \/ Polled(p) \/ PumpActs(p)
        PROVE  \A i \in DOMAIN columnCmds' : CloseAfterRow(i)'
    <2>1. /\ \/ columnCmds' = columnCmds
             \/ columnCmds # <<>> /\ columnCmds' = Tail(columnCmds)
          /\ dbId' = dbId \/ \E q : RowAdded(q)
      BY <1>2 DEF NothingDone, RowAdded, NoEndIsRead, EndIsRead, RowClosed, CmdDone,
         Polled, PumpActs
    <2> QED
      BY <1>0, <2>1, CloseStays
  <1>3. CASE Stopped
    BY <1>3, <1>1 DEF Stopped, RowClosedFirst
  <1>4. (\A i \in DOMAIN columnCmds' : CloseAfterRow(i)') => RowClosedFirst'
    BY <1>1 DEF RowClosedFirst
  <1> QED
    BY <1>0, <1>2, <1>3, <1>4, CloseQueued DEF Kinds

-----------------------------------------------------------------------------
(***************************************************************************)
(* What becomes of a row that is no longer the newest of its pump.         *)
(***************************************************************************)

\* The sale of row r is over at the pump, or was never there.
Gone(r) ==
    /\ dbId # r
    /\ \A i \in DOMAIN columnCmds : columnCmds[i].dbId # r
    /\ \A p \in Pumps : pump[p].phase # "idle" => pump[p].sale # r

OrdersOnly ==
    \A i \in DOMAIN columnCmds :
        columnCmds[i].dbId # 0 => columnCmds[i].cmdType = "WRITE_VOLUME"

OldRowsGone ==
    \A r \in DOMAIN transactions :
        r \in Newest(transactions[r].pump) \/ r \in overtaken \/ Gone(r)

RowsReplaced == OrdersOnly /\ OldRowsGone

\* An order that waits carries the id of a row, other commands never do.
LEMMA OrdersOnlyStep ==
    ASSUME TypeInv, Kinds, OrdersOnly PROVE OrdersOnly'
  <1> SUFFICES ASSUME NEW i \in DOMAIN columnCmds', columnCmds'[i].dbId # 0
               PROVE  columnCmds'[i].cmdType = "WRITE_VOLUME"
    BY DEF OrdersOnly
  <1>1. CmdQueued(columnCmds'[i]) => columnCmds'[i].cmdType = "WRITE_VOLUME"
    BY DEF CmdQueued
  <1> QED
    BY <1>1, OrdersFrom DEF OrdersOnly

\* A sale that is over does not come back.
LEMMA GoneStays ==
    ASSUME TypeInv, Kinds, NEW r \in DOMAIN transactions, Gone(r) PROVE Gone(r)'
  <1>0. transactions \in Seq(SaleRow) /\ DOMAIN transactions = 1..Len(transactions)
        /\ Len(transactions) \in Nat
    BY DEF TypeInv, TypeOK
  <1>1. dbId' # r
    <2>1. ASSUME NEW p, RowAdded(p) PROVE dbId' # r
      <3>1. transactions' = Journal!Insert(transactions, p) /\ dbId' = Len(transactions')
        BY <2>1 DEF RowAdded
      <3>2. Len(transactions') = Len(transactions) + 1
        BY <1>0, <3>1, Inserted
      <3> QED
        BY <1>0, <3>1, <3>2
    <2>2. dbId' = dbId \/ dbId' = 0 \/ \E p : RowAdded(p)
      BY DEF Kinds, NothingDone, NoEndIsRead, EndIsRead, RowClosed, CmdQueued, CmdDone, Polled,
             PumpActs, Stopped
    <2> QED
      BY <1>0, <2>1, <2>2 DEF Gone
  <1>2. ASSUME NEW i \in DOMAIN columnCmds' PROVE columnCmds'[i].dbId # r
    <2>1. CmdQueued(columnCmds'[i]) => columnCmds'[i].dbId \in {0, dbId}
      BY DEF CmdQueued
    <2> QED
      BY <1>0, <2>1, OrdersFrom DEF Gone
  <1>3. ASSUME NEW p \in Pumps, pump'[p].phase # "idle" PROVE pump'[p].sale # r
    BY <1>3, PumpFrom DEF Gone
  <1> QED
    BY <1>1, <1>2, <1>3 DEF Gone

\* When a row is inserted while the pump is at rest, the sale of the row before is over.
LEMMA GoneWhenAdded ==
    ASSUME TypeInv, OrderOnce, OrdersOnly, NEW p, RowAdded(p), AtRest(p),
           NEW r \in DOMAIN transactions, transactions[r].pump = p
    PROVE  Gone(r)'
  <1>0. transactions \in Seq(SaleRow) /\ DOMAIN transactions = 1..Len(transactions)
        /\ Len(transactions) \in Nat
    BY DEF TypeInv, TypeOK
  <1>1. /\ transactions' = Journal!Insert(transactions, p) /\ dbId' = Len(transactions')
        /\ UNCHANGED <<columnCmds, pump, supplies>>
        /\ pump[p].phase = "idle" /\ Orders(p) = {}
    BY DEF RowAdded, AtRest
  <1>2. dbId' # r
    <2>1. Len(transactions') = Len(transactions) + 1
      BY Adding
    <2> QED
      BY <1>0, <1>1, <2>1
  <1>3. ASSUME NEW i \in DOMAIN columnCmds, columnCmds[i].dbId = r PROVE FALSE
    <2>1. columnCmds[i].id = p /\ columnCmds[i].cmdType = "WRITE_VOLUME"
      BY <1>0, <1>3 DEF OrderOnce, QueuedOnce, Sent, OrdersOnly
    <2> QED
      BY <1>1, <2>1 DEF Orders
  <1>4. ASSUME NEW q \in Pumps, pump[q].phase # "idle", pump[q].sale = r PROVE FALSE
    <2>1. pump[q].phase \in {"authorized", "filling", "done"}
      <3>1. pump[q] \in PumpState
        BY DEF TypeInv, TypeOK
      <3> QED
        BY <1>4, <3>1 DEF PumpState
    <2>2. CASE Busy(q)
      <3>1. Sent(q, r)
        BY <1>0, <1>4, <2>2 DEF OrderOnce, ObeyedOnce
      <3> QED
        BY <1>1, <1>4, <3>1 DEF Sent
    <2>3. CASE pump[q].phase = "done"
      <3> DEFINE n == pump[q].supply
      <3>1. n \in DOMAIN supplies /\ supplies[n].pump = q /\ supplies[n].sale = r
        BY <1>4, <2>3 DEF TypeInv, SuppliesKnown, DoneIsSupply
      <3>2. Sent(q, r)
        BY <1>0, <3>1 DEF OrderOnce, SuppliedOnce
      <3> QED
        BY <1>1, <1>4, <3>2 DEF Sent
    <2> QED
      BY <2>1, <2>2, <2>3 DEF Busy
  <1> QED
    BY <1>1, <1>2, <1>3, <1>4 DEF Gone

\* A row that is replaced by a newer one is overtaken, or its sale is over.
LEMMA ReplacedStep ==
    ASSUME TypeInv, OrderOnce, RowsReplaced, [Next]_vars
    PROVE  RowsReplaced'
  <1>0. Kinds /\ OrdersOnly /\ OldRowsGone
    BY NextIsOfAKind DEF RowsReplaced
  <1>00. transactions \in Seq(SaleRow) /\ DOMAIN transactions = 1..Len(transactions)
         /\ Len(transactions) \in Nat
    BY DEF TypeInv, TypeOK
  <1>1. OrdersOnly'
    BY <1>0, OrdersOnlyStep
  <1> SUFFICES ASSUME NEW r \in DOMAIN transactions', NEW p, p = transactions'[r].pump
               PROVE  (r \in Newest(p))' \/ r \in overtaken' \/ Gone(r)'
    BY <1>1 DEF RowsReplaced, OldRowsGone
  <1>2. CASE r \in DOMAIN transactions
    <2>1. transactions[r].pump = p
      BY <1>0, <1>2, RowsStay
    <2>2. r \in Newest(p) \/ r \in overtaken \/ Gone(r)
      BY <1>0, <1>2, <2>1 DEF OldRowsGone
    <2>3. CASE r \in overtaken
      BY <1>0, <2>3, HastyStays
    <2>4. CASE Gone(r)
      BY <1>0, <1>2, <2>4, GoneStays
    <2>5. CASE r \in Newest(p)
      <3>1. CASE ~RowAdded(p)
        BY <1>0, <2>5, <3>1, NewestStays
      <3>2. CASE RowAdded(p) /\ AtRest(p)
        BY <1>0, <1>2, <2>1, <3>2, GoneWhenAdded
      <3>3. CASE RowAdded(p) /\ ~AtRest(p)
        BY <2>5, <3>3 DEF RowAdded
      <3> QED
        BY <3>1, <3>2, <3>3
    <2> QED
      BY <2>2, <2>3, <2>4, <2>5
  <1>3. CASE r \notin DOMAIN transactions
    <2>1. ASSUME NEW q, RowAdded(q) PROVE (r \in Newest(p))'
      <3> DEFINE n == Len(transactions) + 1
      <3>1. transactions' = Journal!Insert(transactions, q)
        BY <2>1 DEF RowAdded
      <3>2. /\ DOMAIN transactions' = 1..n
            /\ transactions'[n] = [pump |-> q, state |-> 1, volume |-> 0]
            /\ \A m : Journal!IsLatest(transactions', q, m) <=> m = n
        BY <1>00, <3>1, Inserted
      <3>3. r = n
        BY <1>00, <1>3, <3>2
      <3>4. p = q
        BY <3>2, <3>3
      <3> QED
        BY <3>2, <3>3, <3>4 DEF Newest
    <2>2. ASSUME NEW q, NEW from, NEW to, NEW v,
                 transactions' = Journal!UpdateLatest(transactions, q, from, to, v)
          PROVE  FALSE
      BY <1>00, <1>3, <2>2, Updated
    <2> QED
      BY <1>0, <1>3, <2>1, <2>2, JournalSteps
  <1> QED
    BY <1>2, <1>3

-----------------------------------------------------------------------------
\* When a supply is closed its row is the newest of its pump, and settled, or overtaken.
LEMMA ClosedStep ==
    ASSUME SaleInv, RowClosedFirst, RowsReplaced, ClosedInJournal, [Next]_vars
    PROVE  ClosedInJournal'
  <1>0. Kinds /\ TypeInv
    BY NextIsOfAKind DEF SaleInv
  <1>00. marred \subseteq marred' /\ hasty \subseteq hasty' /\ overtaken \subseteq overtaken'
    BY <1>0, MarredStays, HastyStays
  <1> SUFFICES ASSUME NEW n \in DOMAIN supplies', supplies'[n].closed,
                      NEW r, r = supplies'[n].sale, r # 0
               PROVE  transactions'[r].state = 4 \/ r \in marred' \cup hasty' \cup overtaken'
    BY DEF ClosedInJournal
  \* A supply that has just ended is not closed.
  <1>1. n \in DOMAIN supplies
    <2>1. ASSUME NEW c, CmdDone(c) PROVE \E q \in Pumps : PumpStep(q)
      BY <2>1, LineCmdType, ObeyedIsPumpStep DEF CmdDone
    <2>2. ASSUME NEW q, PumpActs(q) PROVE \E s \in Pumps : PumpStep(s)
      BY <2>2 DEF PumpActs, PumpStep
    <2>3. UNCHANGED supplies \/ \E q \in Pumps : PumpStep(q)
      BY <1>0, <2>1, <2>2 DEF Kinds, NothingDone, RowAdded, NoEndIsRead, EndIsRead, RowClosed,
                        CmdQueued, Polled, Stopped
    <2>4. ASSUME NEW q \in Pumps, PumpStep(q) PROVE n \in DOMAIN supplies
      BY <1>0, <2>4, Supplying
    <2> QED
      BY <2>3, <2>4
  <1>2. PICK p : p = supplies[n].pump
    OBVIOUS
  <1>3. supplies[n].sale = r
    BY <1>0, <1>1, SuppliesStay
  <1>4. SuppliedOnce(n)
    BY <1>1 DEF SaleInv, OrderOnce
  <1>5. r \in DOMAIN transactions /\ r # dbId /\ transactions[r].pump = p
    BY <1>2, <1>3, <1>4 DEF SuppliedOnce, Sent
  <1>6. CASE supplies[n].closed
    <2>1. transactions[r].state = 4 \/ r \in marred \cup hasty \cup overtaken
      BY <1>1, <1>3, <1>6 DEF ClosedInJournal
    <2> QED
      BY <1>0, <1>00, <1>5, <2>1, RowsGoOn
  <1>7. CASE ~supplies[n].closed
    <2>1. PICK c : CmdDone(c) /\ Closed(c.id) /\ c.cmdType = "CLOSE_REPORT"
      <3>1. ASSUME NEW q, Finished(q) \/ UNCHANGED supplies PROVE FALSE
        <4>1. CASE Finished(q)
          BY <1>0, <1>1, <1>7, <4>1 DEF Finished, TypeInv, TypeOK
        <4> QED
          BY <1>7, <3>1, <4>1
      <3>2. \/ UNCHANGED supplies
            \/ \E q : Finished(q)
            \/ \E c : CmdDone(c) /\ CmdObeyed(c)
        BY <1>0 DEF Kinds, NothingDone, RowAdded, NoEndIsRead, EndIsRead, RowClosed,
                    CmdQueued, CmdDone, Polled, PumpActs, Stopped, Started, Abandoned
      <3> QED
        BY <3>1, <3>2 DEF CmdObeyed, pumpVars, Taken, Abandoned
    <2>2. c = columnCmds[1] /\ 1 \in DOMAIN columnCmds /\ UNCHANGED transactions /\ c.id \in Pumps
      BY <1>0, <2>1, Popped, LineCmdType DEF CmdDone, TypeInv
    <2>3. n = pump[c.id].supply /\ pump[c.id].phase = "done"
      BY <1>1, <1>7, <2>1 DEF Closed
    <2>4. c.id = p /\ pump[p].sale = r
      BY <1>0, <1>2, <1>3, <2>2, <2>3 DEF TypeInv, SuppliesKnown, DoneIsSupply
    <2>5. ~Gone(r)
      BY <2>2, <2>3, <2>4 DEF Gone
    <2>6. CASE r \in Newest(p) \ marred
      <3>1. CloseAfterRow(1)
        BY <2>2 DEF RowClosedFirst
      <3>2. \A j \in DOMAIN columnCmds : columnCmds[j].dbId # r
        BY <1>1, <1>3 DEF SaleInv, OrderOnce, QueuedOnce
      <3>3. Settled(r)
        BY <1>5, <2>1, <2>2, <2>4, <2>6, <3>1, <3>2 DEF CloseAfterRow
      <3> QED
        BY <1>00, <2>2, <3>3 DEF Settled
    <2>7. CASE r \notin Newest(p)
      BY <1>00, <1>5, <2>5, <2>7 DEF RowsReplaced, OldRowsGone
    <2> QED
      BY <1>00, <2>6, <2>7
  <1> QED
    BY <1>6, <1>7

\* The supply of a row that a pump has closed is closed in the journal, whenever it was
\* ordered and whatever was lost or stopped in between, but for the rows of the histories
\* marred, hasty and overtaken: the command is queued behind the UPDATE of the newest row,
\* and no order of a newer row gets before it.
THEOREM SuppliesAreClosed == Spec => []ClosedInJournal
  <1>1. Init => RowClosedFirst /\ RowsReplaced /\ ClosedInJournal
    BY DEF Init, RowClosedFirst, PushAfterRow, RowsReplaced, OrdersOnly, OldRowsGone,
           ClosedInJournal
  <1>2. SaleInv /\ RowClosedFirst /\ RowsReplaced /\ ClosedInJournal /\ [Next]_vars
           => RowClosedFirst' /\ RowsReplaced' /\ ClosedInJournal'
    BY ClosedFirstStep, ReplacedStep, ClosedStep DEF SaleInv
  <1> QED
    BY <1>1, <1>2, Sale, PTL DEF Spec
=============================================================================
