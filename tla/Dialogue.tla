------------------------------ MODULE Dialogue ------------------------------
(***************************************************************************)
(* What a line of pumps and the program say to each other, byte by byte:   *)
(* the protocols of Unipump, Adast and Shelf with what their masters       *)
(* remember from packet to packet.  Every pump of the line hears every     *)
(* request and takes those with its own address.  Replies carry no number: *)
(* one that is late is read as the reply to a later request, perhaps with  *)
(* a byte the line has spoilt.                                             *)
(*                                                                         *)
(* The pumps are not part of the program, except that a pump that speaks   *)
(* Shelf is the program's own slave (ProtocolSlaveShelf.cpp).              *)
(***************************************************************************)
EXTENDS Bytes

CONSTANTS
    Crc16(_), CrcAdast(_), CrcShelf(_),     \* the checksums of the protocols
    Protocols,      \* a subset of {"Unipump", "Adast", "Shelf"}
    Pumps,          \* the ids of the columns of the line
    Addr,           \* the address of each
    Orders,         \* what is ordered of each: a set of [nozzle, volume in ml, price]
    Portion,        \* the ml a pump dispenses at a time
    FirstTxn,       \* the number of each pump's first sale
    MaxPortions,    \* bound: portions of a sale
    MaxSales,       \* bound: sales of each pump
    MaxWire,        \* bound: replies not yet read
    MaxNumbered,    \* bound: packets numbered by the master of Shelf
    SpoiltBytes     \* bound: positions of the byte the line may spoil

NoOrder == [nozzle |-> 0, volume |-> 0, price |-> 0]

Unipump == INSTANCE Unipump
Adast   == INSTANCE Adast
Shelf   == INSTANCE Shelf
Slave   == INSTANCE ShelfSlave

Types     == {"HANGED_FREE", "REMOVED_WAITING", "FUEL_SUPPLY", "SUPPLY_DONE", "TOTAL_RESPONSE"}
SaleTypes == {"FUEL_SUPPLY", "SUPPLY_DONE"}

\* What a pump means by a reply: its state, its sale, or its totals.
Meaning(p, type, nozzle, volume, price, txn) ==
    LET sale == type \in SaleTypes
    IN  [id     |-> p,
         nozzle |-> IF type = "HANGED_FREE" THEN 0 ELSE nozzle,
         type   |-> type,
         volume |-> IF sale \/ type = "TOTAL_RESPONSE" THEN volume ELSE 0,
         price  |-> IF sale THEN price ELSE 0,
         txn    |-> IF sale THEN txn ELSE 0,
         amount |-> IF sale THEN (volume * price) \div 1000 ELSE 0]

AllOrders == UNION {Orders[p] : p \in Pumps}

NozzlesOf(p) == {1} \cup {order.nozzle : order \in Orders[p]}
PricesOf(p)  == {0} \cup {order.price : order \in Orders[p]}
TxnsOf(p)    == FirstTxn[p]..(FirstTxn[p] + MaxSales[p])

\* All that a pump may mean.
MeaningsOf(p) ==
    {Meaning(p, type, nozzle, Portion * k, price, txn) :
        type \in Types, nozzle \in NozzlesOf(p), k \in 0..MaxPortions,
        price \in PricesOf(p), txn \in TxnsOf(p)}

\* A packet with its byte i spoilt.
Spoilt(packet, i) == [packet EXCEPT ![i + 1] = (@ + 1) % 256]

SpoiltPackets(packet) ==
    {Spoilt(packet, i) : i \in SpoiltBytes \cap 0..(Len(packet) - 1)}

\* Columns have numbers from 1 on and addresses of their own; where Shelf is spoken, the
\* slave's numbering of pumps by addresses is that of the columns.
ASSUME PumpsAssumption ==
    /\ Protocols \subseteq {"Unipump", "Adast", "Shelf"}
    /\ Pumps \subseteq Nat \ {0}
    /\ Addr \in [Pumps -> 10..31]
    /\ \A p, q \in Pumps : Addr[p] = Addr[q] => p = q
    /\ "Shelf" \in Protocols => \A p \in Pumps : Slave!GetRequestTrkId(Addr[p]) = p

\* Pumps have up to six nozzles.  Beyond these volumes (167 m3) and prices the bytes of a
\* number begin anew (Shelf), as its first digit does later on (Unipump, Adast).
LargestVolume == 167772159
LargestPrice  == 65535

ASSUME OrdersAssumption ==
    \A p \in Pumps : \A order \in Orders[p] :
        /\ order \in [nozzle : 1..6, volume : Nat, price : Nat]
        /\ order.volume <= LargestVolume /\ order.price <= LargestPrice

ASSUME BoundsAssumption == MaxPortions \in Nat /\ MaxWire \in Nat /\ SpoiltBytes \subseteq Nat

\* Sales have numbers of two digits.
ASSUME SalesAssumption ==
    /\ FirstTxn \in [Pumps -> 1..99] /\ MaxSales \in [Pumps -> 0..99]
    /\ \A p \in Pumps : FirstTxn[p] + MaxSales[p] <= 100

\* What the pumps can show: volumes in units of 10 ml, of six digits, and amounts of six
\* digits, at the prices of four digits that an order can set.
ShownVolume == 9999990
ShownAmount == 999999

ASSUME ShownAssumption ==
    \A k \in 0..MaxPortions :
        /\ Portion * k \in Nat /\ Portion * k <= ShownVolume /\ (Portion * k) % 10 = 0
        /\ \A p \in Pumps : \A price \in PricesOf(p) :
              LET amount == (Portion * k * price) \div 1000
              IN  amount \in Nat /\ (price < 10000 => amount <= ShownAmount)

\* The checksums are numbers, and that of a reply does not fit any longer when a byte
\* which it covers is spoilt.
ASSUME ChecksumsAssumption ==
    \A p \in Pumps : \A m \in MeaningsOf(p) :
        LET unipump == Unipump!Says(m, Addr[p])
            adast   == Adast!Says(m, Addr[p])
            covered(packet, from, to) ==
                SpoiltBytes \cap from..(Len(packet) - to)
        IN  /\ "Unipump" \in Protocols =>
                  /\ Crc16(Slice(unipump, 2, Len(unipump) - 6)) \in Nat
                  /\ \A i \in covered(unipump, 2, 5) :
                        ~Unipump!CheckCheckSum(Spoilt(unipump, i))
            /\ "Adast" \in Protocols =>
                  /\ CrcAdast(Slice(adast, 2, Len(adast) - 5)) \in Nat
                  /\ \A i \in covered(adast, 2, 4) : ~Adast!CheckCheckSum(Spoilt(adast, i))
            /\ "Shelf" \in Protocols =>
                  \A counter \in Byte :
                      LET shelf == Slave!PreparePacketVec(m, Addr[p], counter)
                      IN  CrcShelf(SubSeq(shelf, 1, Len(shelf) - 2)) \in Nat

VARIABLES
    protocol,           \* what the line speaks
    holder,             \* transactionHolderAddrId, pumpIds: the last sale, by address
    prices,             \* lastPriceAuthorize, currentPrices: the last price, by address
    packetIndexCounter, \* the number of the last packet, by address (Shelf)
    expected,           \* the column of the last request
    pump,               \* the pumps
    wire,               \* their replies, each with what the pump meant by it
    state,              \* what may have come of the last request (floating point: several
                        \* states), with what was meant
    seen                \* history: of each pump, the last sale of which the program has read
                        \* amounts, and of which it has read the end, since it was started

memory == <<holder, prices, packetIndexCounter>>
vars   == <<protocol, memory, expected, pump, wire, state, seen>>

\* What a pump may have heard of an order.
OrderCmd ==
    [type : {"WRITE_MONEY"}, price : Nat]
    \cup [type : {"WRITE_VOLUME"}, nozzle : Nat, volume : Nat, price : Nat]
    \cup [type : {"WRITE_VOLUME"}, pump : Nat, nozzle : Nat, volume : Nat, price : Nat]

\* A pump keeps the number of its sale and what it heard of the last order that was not
\* lost; the order itself is history.
PumpState ==
    [phase : {"hung", "lifted", "filling", "done"}, txn : Nat, sales : Nat,
     ordered : AllOrders \cup {NoOrder},
     heard : SUBSET OrderCmd, portions : 0..MaxPortions]

Reply == [packet : Seq(Byte), meant : UNION {MeaningsOf(p) : p \in Pumps}]

Addresses == {Addr[p] : p \in Pumps}

TypeOK ==
    /\ protocol \in Protocols
    /\ DOMAIN holder \subseteq Addresses
    /\ DOMAIN prices \subseteq Addresses
    /\ DOMAIN packetIndexCounter \subseteq Addresses
    /\ \A a \in DOMAIN packetIndexCounter : packetIndexCounter[a] \in Byte
    /\ expected \in Pumps
    /\ pump \in [Pumps -> PumpState]
    /\ wire \in Seq(Reply) /\ Len(wire) <= MaxWire
    /\ \A s \in state : s.read.id \in Nat /\ s.read.volume \in Nat /\ s.meant.id \in Pumps
    /\ seen \in [Pumps -> [txn : Nat, ended : Nat]]

Unseen == [txn |-> 0, ended |-> 0]

Idle(txn, sales) == [phase |-> "hung", txn |-> txn, sales |-> sales, ordered |-> NoOrder,
                     heard |-> {}, portions |-> 0]

Init ==
    /\ protocol \in Protocols
    /\ holder = <<>> /\ prices = <<>> /\ packetIndexCounter = <<>>
    /\ expected \in Pumps
    /\ pump = [p \in Pumps |-> Idle(FirstTxn[p], 0)]
    /\ wire = <<>>
    /\ state = {}
    /\ seen = [p \in Pumps |-> Unseen]

-----------------------------------------------------------------------------
(***************************************************************************)
(* The master's end (ColumnLine.cpp: processStatus, processCmd).           *)
(***************************************************************************)
Put(f, a, v) == [b \in DOMAIN f \cup {a} |-> IF b = a THEN v ELSE f[b]]

Numbered(counter) == SumFunction([a \in DOMAIN counter |-> counter[a] + 1])

\* preparePacket of the line's protocol; the maps it looks in and the counter it takes.
CanPrepare(cmd, addr, counter) ==
    CASE protocol = "Unipump" -> Unipump!CanPrepare(cmd, addr, holder)
      [] protocol = "Adast"   -> Adast!CanPrepare(cmd, addr, holder)
      [] protocol = "Shelf"   -> Numbered(counter) < MaxNumbered

PreparePacket(cmd, addr, counter) ==
    CASE protocol = "Unipump" -> Unipump!PreparePacket(cmd, addr, holder)
      [] protocol = "Adast"   -> Adast!PreparePacket(cmd, addr, holder)
      [] protocol = "Shelf"   -> Shelf!PreparePacket(cmd, addr, counter)

Counted(addr, counter) ==
    IF protocol = "Shelf" THEN Put(counter, addr, Shelf!NextCounter(addr, counter)) ELSE counter

\* checkPacket
CheckPacket(packet) ==
    LET size == CASE protocol = "Unipump" -> Unipump!MinPacketSize
                  [] protocol = "Adast"   -> Adast!MinPacketSize
                  [] protocol = "Shelf"   -> Shelf!MinPacketSize
        addr == CASE protocol = "Unipump" -> Unipump!AddrOfPacket(packet)
                  [] protocol = "Adast"   -> Adast!AddrOfPacket(packet)
                  [] protocol = "Shelf"   -> Shelf!AddrOfPacket(packet)
    IN  /\ Len(packet) >= size
        /\ \E p \in Pumps : Addr[p] = addr
        /\ CASE protocol = "Unipump" -> Unipump!CheckCheckSum(packet)
             [] protocol = "Adast"   -> Adast!CheckCheckSum(packet)
             [] protocol = "Shelf"   -> Shelf!CheckCheckSum(packet)

\* parseResponse of a packet checkPacket has let through (Shelf: none), as the first read
\* of an answer calls it.  (The second read after a command passes the column's id for
\* its address: ColumnLine has that.)
ParseResponse(packet) ==
    CASE protocol = "Unipump" -> {Unipump!ParseResponse(packet, Addr[expected], expected)}
      [] protocol = "Adast"   -> Adast!ParseResponse(packet, Addr[expected], expected, prices)

Remembered(packet) ==
    CASE protocol = "Unipump" -> Unipump!Remembered(packet, holder)
      [] protocol = "Adast"   -> Adast!Remembered(packet, holder)

-----------------------------------------------------------------------------
(***************************************************************************)
(* The pumps' end.                                                         *)
(***************************************************************************)
Sold(p) == Portion * pump[p].portions

Price(p) == IF \E h \in pump[p].heard : h.type = "WRITE_VOLUME"
            THEN (CHOOSE h \in pump[p].heard : h.type = "WRITE_VOLUME").price ELSE 0

\* What a pump has to say of itself.
Meant(p, type) ==
    Meaning(p, type, IF pump[p].ordered = NoOrder THEN 1 ELSE pump[p].ordered.nozzle,
            Sold(p), Price(p), pump[p].txn)

OwnStatus(p) == CASE pump[p].phase = "hung"    -> "HANGED_FREE"
                  [] pump[p].phase = "lifted"  -> "REMOVED_WAITING"
                  [] pump[p].phase = "filling" -> "FUEL_SUPPLY"
                  [] pump[p].phase = "done"    -> "SUPPLY_DONE"

Says(p, meant, packetId) ==
    CASE protocol = "Unipump" -> Unipump!Says(meant, Addr[p])
      [] protocol = "Adast"   -> Adast!Says(meant, Addr[p])
      [] protocol = "Shelf"   -> Slave!PreparePacketVec(meant, Addr[p], packetId)

\* The command a pump finds in a request, if any.
Heard(p, packet) ==
    CASE protocol = "Unipump" -> Unipump!Heard(packet, Addr[p])
      [] protocol = "Adast"   -> Adast!Heard(packet, Addr[p])
      [] protocol = "Shelf"   -> IF Slave!CheckCheckSum(packet)
                                    /\ Slave!GetRequestTrkId(At(packet, 1)) = p
                                 THEN Slave!ParseCmd(packet) ELSE {}

\* A pump ends its sale when told to stop, and forgets the one whose report is closed.
Obeys(p, h) ==
    CASE h.type = "STOP_COMMAND" /\ pump[p].phase = "filling" /\ pump[p].portions > 0 ->
            [pump[p] EXCEPT !.phase = "done"]
      [] h.type = "CLOSE_REPORT" /\ pump[p].phase = "done" /\ h.txn = pump[p].txn ->
            Idle(pump[p].txn + 1, pump[p].sales)
      [] OTHER -> pump[p]

\* A pump that hears its order fills.
Takes(p, order, told, run) ==
    [pump[p] EXCEPT !.phase = IF run = {} THEN @ ELSE "filling",
                    !.ordered = order, !.heard = told \cup run]

\* A request is sent to all, answered by the one it is for, and lost now and then.
Broadcast(packet, counter) ==
    LET hears == {p \in Pumps : Heard(p, packet) # {}}
    IN  \/ UNCHANGED <<pump, wire>>
        \/ \E p \in hears : \E h \in Heard(p, packet) :
              LET type  == IF h.type = "GET_TOTAL" THEN "TOTAL_RESPONSE" ELSE OwnStatus(p)
                  meant == Meant(p, type)
              IN  /\ pump' = [pump EXCEPT ![p] = Obeys(p, h)]
                  /\ IF h.type \in {"STATUS_REQUEST", "GET_TOTAL"}
                     THEN /\ Len(wire) < MaxWire
                          /\ wire' = Append(wire, [packet |-> Says(p, meant, counter),
                                                   meant  |-> meant])
                     ELSE UNCHANGED wire

-----------------------------------------------------------------------------
\* A request without a history of its own: for the state, the totals or a stop.
Ask(p, type) ==
    LET cmd     == [type |-> type, nozzle |-> 1]
        counter == Counted(Addr[p], packetIndexCounter)
    IN  /\ CanPrepare(cmd, Addr[p], packetIndexCounter)
        /\ Broadcast(PreparePacket(cmd, Addr[p], packetIndexCounter),
                     IF protocol = "Shelf" THEN counter[Addr[p]] ELSE 0)
        /\ packetIndexCounter' = counter
        /\ expected' = p
        /\ state' = {}
        /\ UNCHANGED <<protocol, holder, prices, seen>>

\* WRITE_VOLUME: the price goes first.  The pump hears both, or both are lost; the master
\* keeps the price when it prepares the packet, not when the pump has it.
Order(p, order) ==
    LET setPriceCmd == [type |-> "WRITE_MONEY", nozzle |-> 0, volume |-> 0,
                        price |-> order.price]
        cmd         == [type |-> "WRITE_VOLUME", nozzle |-> order.nozzle,
                        volume |-> order.volume, price |-> order.price]
        counter     == Counted(Addr[p], packetIndexCounter)
    IN  /\ pump[p].phase = "lifted"
        /\ CanPrepare(setPriceCmd, Addr[p], packetIndexCounter)
        /\ CanPrepare(cmd, Addr[p], counter)
        /\ LET told == Heard(p, PreparePacket(setPriceCmd, Addr[p], packetIndexCounter))
               run  == Heard(p, PreparePacket(cmd, Addr[p], counter))
           IN  \/ UNCHANGED pump
               \/ pump' = [pump EXCEPT ![p] = Takes(p, order, told, run)]
        /\ prices' = IF protocol = "Unipump" THEN prices ELSE Put(prices, Addr[p], order.price)
        /\ packetIndexCounter' = Counted(Addr[p], counter)
        /\ expected' = p
        /\ state' = {}
        /\ UNCHANGED <<protocol, holder, wire, seen>>

\* A reply is read, or what the line has made of it.
Read ==
    /\ wire # <<>>
    /\ \E packet \in {wire[1].packet} \cup SpoiltPackets(wire[1].packet) :
          IF CheckPacket(packet)
          THEN /\ state' = {[read |-> s, meant |-> wire[1].meant] : s \in ParseResponse(packet)}
               /\ holder' = Remembered(packet)
               /\ LET m == wire[1].meant
                  IN  seen' = IF m.txn = 0 THEN seen
                              ELSE [seen EXCEPT ![m.id] =
                                      [txn   |-> m.txn,
                                       ended |-> IF m.type = "SUPPLY_DONE" THEN m.txn ELSE @.ended]]
          ELSE state' = {} /\ UNCHANGED <<holder, seen>>
    /\ wire' = Tail(wire)
    /\ UNCHANGED <<protocol, prices, packetIndexCounter, expected, pump>>

\* The program is started again: the masters keep nothing on disk.
Restart ==
    /\ holder' = <<>> /\ prices' = <<>> /\ packetIndexCounter' = <<>>
    /\ state' = {}
    /\ seen' = [p \in Pumps |-> Unseen]
    /\ UNCHANGED <<protocol, expected, pump, wire>>

PumpMoves(p, moved) ==
    /\ pump' = [pump EXCEPT ![p] = moved]
    /\ UNCHANGED <<protocol, memory, expected, wire, state, seen>>

LiftNozzle(p) ==
    /\ pump[p].phase = "hung" /\ pump[p].sales < MaxSales[p]
    /\ PumpMoves(p, [pump[p] EXCEPT !.phase = "lifted", !.sales = @ + 1])

Dispense(p) ==
    /\ pump[p].phase = "filling" /\ pump[p].portions < MaxPortions
    /\ PumpMoves(p, [pump[p] EXCEPT !.portions = @ + 1])

HangUp(p) ==
    /\ pump[p].phase = "filling" /\ pump[p].portions > 0
    /\ PumpMoves(p, [pump[p] EXCEPT !.phase = "done"])

Next ==
    \/ \E p \in Pumps, type \in {"STATUS_REQUEST", "GET_TOTAL", "STOP_COMMAND", "CLOSE_REPORT"} :
          Ask(p, type)
    \/ \E p \in Pumps : \E order \in Orders[p] : Order(p, order)
    \/ Read
    \/ Restart
    \/ \E p \in Pumps : LiftNozzle(p) \/ Dispense(p) \/ HangUp(p)

Spec == Init /\ [][Next]_vars

-----------------------------------------------------------------------------
\* The orders a protocol has the digits for: Unipump and Adast six digits of 10 ml and
\* four of the price, and Adast a length byte for one nozzle; Shelf three bytes and two.
Fits(order) ==
    CASE protocol = "Unipump" -> order.volume < 10000000 /\ order.price < 10000
      [] protocol = "Adast"   -> /\ order.volume < 10000000 /\ order.price < 10000
                                 /\ order.nozzle = 1
      [] protocol = "Shelf"   -> order.volume < 167772160 /\ order.price < 65536

\* What a pump makes of an order is the order, cut to 10 ml, and never another one, not
\* even of one that is too large for the protocol (runCommand); and a pump that gets an
\* order the protocol has room for makes something of it.  Shelf gives the nozzle by the
\* address, and the slave of Shelf hears no price alone.
OrderUnderstood ==
    \A p \in Pumps :
        LET order == pump[p].ordered
        IN  /\ \A h \in pump[p].heard :
                  /\ h.price = order.price
                  /\ h.type = "WRITE_VOLUME" =>
                        /\ h.volume = 10 * (order.volume \div 10)
                        /\ protocol # "Shelf" => h.nozzle = order.nozzle
            /\ order # NoOrder /\ Fits(order) =>
                  \E h \in pump[p].heard : h.type = "WRITE_VOLUME"

\* A state the line takes for one of the pump it asked is what that pump meant, however
\* late it comes and whatever the line has spoilt on the way; of a pump that speaks
\* Adast the volume is half of 10 ml more, or 1 ml less than that.  (Totals may be those
\* of another pump: the run own_totals.)
ReportsTrue ==
    \A s \in state :
        LET r == s.read
            m == s.meant
            sale == r.type \in {"FUEL_SUPPLY", "SUPPLY_DONE"}
        IN  r.type # "ERROR" /\ r.id = expected =>
              /\ m.id = expected \/ r.type = "TOTAL_RESPONSE"
              /\ r.type = m.type /\ r.nozzle = m.nozzle
              /\ r.volume - m.volume \in IF protocol = "Adast" /\ m.type # "HANGED_FREE"
                                            /\ m.type # "REMOVED_WAITING"
                                         THEN {4, 5} ELSE {0}
              /\ sale => r.txn = m.txn
              /\ protocol = "Unipump" => r.amount = m.amount
              /\ protocol = "Unipump" /\ r.type = "SUPPLY_DONE" => r.price = m.price

\* The sale a CLOSE_REPORT names to the pump p.
Named(p) ==
    LET cmd == [type |-> "CLOSE_REPORT"]
    IN  IF Addr[p] \notin DOMAIN holder THEN {}
        ELSE {h.txn : h \in Heard(p, PreparePacket(cmd, Addr[p], packetIndexCounter))}

\* A CLOSE_REPORT names to a pump the sale whose end (transactionHolderAddrId) or whose
\* amounts (pumpIds) the program has read last from that very pump.
ClosesWhatWasRead ==
    \A p \in Pumps :
        Named(p) \subseteq {IF protocol = "Adast" THEN seen[p].txn ELSE seen[p].ended}

\* With Unipump no pump forgets a sale before the program has read its end, in whatever
\* order it is asked, closed and asked again.  (Adast remembers the number of a sale
\* that is still running and closes it unread.)
EndReadBeforeClosed ==
    [][\A p \in Pumps : protocol = "Unipump" /\ pump[p].phase = "done" /\ pump'[p].phase = "hung"
          => seen[p].ended = pump[p].txn]_vars

\* What the master of Shelf makes of a packet by which its own slave means m.  Of a
\* nozzle that is down or up, what was meant.  Of a sale that is running, the nozzle and
\* the volume, but not the state: bit 0 of the slave's 0x8F is that of a nozzle which is
\* up.  Of a sale that is done, the state alone: the master takes its volume two bytes
\* further on than the slave puts it, from the third byte of the volume and the low two
\* of the amount, and finds no nozzle.  Of totals, the volume, with the low byte of it
\* for the byte of the nozzles.
ShelfReadAs(m) ==
    LET n == m.volume \div 10
        misplaced == FromLittleEndian(<<n \div 65536, m.amount % 256,
                                        (m.amount \div 256) % 256>>)
    IN  CASE m.type \in {"HANGED_FREE", "REMOVED_WAITING"} ->
                [type |-> m.type, nozzle |-> m.nozzle, volume |-> 0]
          [] m.type = "FUEL_SUPPLY" ->
                [type |-> "REMOVED_WAITING", nozzle |-> m.nozzle, volume |-> m.volume]
          [] m.type = "SUPPLY_DONE" ->
                [type |-> "SUPPLY_DONE", nozzle |-> 0, volume |-> 10 * misplaced]
          [] m.type = "TOTAL_RESPONSE" ->
                [type |-> "TOTAL_RESPONSE", nozzle |-> Shelf!ResolveActiveNozzle(n % 256),
                 volume |-> m.volume]

\* Of every reply of its own slave the master of Shelf would read the state, the nozzle
\* and the volume just so: where the two ends agree, and where they do not.  (It never
\* does: checkCheckSum of the master refuses every packet.)
ShelfEndsCompared ==
    protocol = "Shelf" =>
        \A i \in DOMAIN wire :
            LET m == wire[i].meant
                r == Shelf!ParseResponse(wire[i].packet, m.id, prices)
                x == ShelfReadAs(m)
            IN  r.type = x.type /\ r.nozzle = x.nozzle /\ r.volume = x.volume
=============================================================================
