------------------------------- MODULE Shelf -------------------------------
(***************************************************************************)
(* The packets of the Shelf protocol as its master writes and reads them   *)
(* (src/src/Protocols/ProtocolsMasters/ProtocolMasterShelf.cpp).           *)
(***************************************************************************)
EXTENDS Bytes

CONSTANT CrcShelf(_)    \* calcrc, cut to its low sixteen bits

Frame(content) == content \o LittleEndian(CrcShelf(content), 2)

\* getCounterRequest: the packets to an address are numbered from 0 to 255 and around.
NextCounter(addr, packetIndexCounter) ==
    IF addr \in DOMAIN packetIndexCounter THEN (packetIndexCounter[addr] + 1) % 256 ELSE 0

\* The length byte counts the whole packet.
Request(addr, counter, length, data) == Frame(<<\h2D, addr, counter, length>> \o data)

RunCommand(cmd, addr, counter) ==
    Request(addr, counter, \h0E,
            <<\h05, 0, 0>> \o LittleEndian(cmd.volume \div 10, 3) \o LittleEndian(cmd.price, 2))

SetPriceRequest(cmd, addr, counter) ==
    Request(addr, counter, 9, <<\h03>> \o LittleEndian(cmd.price, 2))

StatusRequest(addr, counter) == Request(addr, counter, 7, <<\h01>>)
StopCommand(addr, counter)   == Request(addr, counter, 7, <<\h0C>>)
TotalCommand(addr, counter)  == Request(addr, counter, 7, <<\h15>>)

\* A CLOSE_REPORT is sent as a stop.
PreparePacket(cmd, addr, packetIndexCounter) ==
    LET counter == NextCounter(addr, packetIndexCounter)
    IN  CASE cmd.type = "STATUS_REQUEST" -> StatusRequest(addr, counter)
          [] cmd.type = "WRITE_VOLUME"   -> RunCommand(cmd, addr, counter)
          [] cmd.type \in {"STOP_COMMAND", "CLOSE_REPORT"} -> StopCommand(addr, counter)
          [] cmd.type = "GET_TOTAL"      -> TotalCommand(addr, counter)
          [] cmd.type = "WRITE_MONEY"    -> SetPriceRequest(cmd, addr, counter)

-----------------------------------------------------------------------------
\* Stubs of the header: no packet has the address of a column or a right checksum, so
\* that the program never takes a reply of this protocol.
AddrOfPacket(packet)  == 0
CheckCheckSum(packet) == FALSE
MinPacketSize         == 8

Bit(byte, i) == (byte \div 2^i) % 2 = 1

\* The lowest of the bits from..6 that is set, or 0.
LowestBit(byte, from) ==
    IF \E i \in from..6 : Bit(byte, i)
    THEN CHOOSE i \in from..6 : Bit(byte, i) /\ \A k \in from..6 : Bit(byte, k) => i <= k
    ELSE 0

ResolveActiveNozzle(nozzleStateByte) == LowestBit(nozzleStateByte, 1)

\* The bug of a state looked for from bit 1 on, like the nozzle.
ResolveTrkStateFromOne(trkStateByte) ==
    CASE LowestBit(trkStateByte, 1) \in {0, 6} -> "REMOVED_WAITING"
      [] LowestBit(trkStateByte, 1) = 5        -> "HANGED_FREE"
      [] LowestBit(trkStateByte, 1) \in 1..4   -> "FUEL_SUPPLY"

\* The lowest bit decides: with a nozzle up (bit 0) nothing else is seen.
ResolveTrkState(trkStateByte) ==
    CASE LowestBit(trkStateByte, 0) \in {0, 6} -> "REMOVED_WAITING"
      [] LowestBit(trkStateByte, 0) = 5        -> "HANGED_FREE"
      [] LowestBit(trkStateByte, 0) \in 1..4   -> "FUEL_SUPPLY"

Status(id, nozzle, type) ==
    [id |-> id, nozzle |-> nozzle, type |-> type,
     volume |-> 0, price |-> 0, txn |-> 0, amount |-> 0]

\* The sum is of ints: -1 stands for whatever one beyond 2^31 thousandths comes out as.
Sum(volume, price) ==
    IF price = 0 \/ volume <= 2147483647 \div price THEN (volume * price) \div 1000 ELSE -1

\* resolveAmountInfo, resolveCurrentAmount, resolveMadeAmount: the price is the last
\* one authorised at the address, or else at the address as many further on as the
\* nozzle.
Amounts(packet, type, currentPrices) ==
    LET a      == At(packet, 1)
        nozzle == ResolveActiveNozzle(At(packet, 5))
        price  == IF a \in DOMAIN currentPrices THEN currentPrices[a]
                  ELSE IF a + nozzle \in DOMAIN currentPrices THEN currentPrices[a + nozzle]
                  ELSE 0
        volume == 10 * FromLittleEndian(Slice(packet, 9, 3))
    IN  [Status(a, nozzle, type)
            EXCEPT !.volume = volume, !.price = price, !.amount = Sum(volume, price)]

\* parseResponse of the replies that have a state; 0x92 falls through to 0x93.
ParseResponse(packet, pumpId, currentPrices) ==
    LET code   == At(packet, 4)
        nozzle == ResolveActiveNozzle(At(packet, 5))
        type   == ResolveTrkState(At(packet, 6))
        dose   == FromLittleEndian(Slice(packet, 7, 3))
        state  == CASE code = \h81 -> Status(0, nozzle, type)
                    [] code = \h82 -> [Status(0, 0, "REMOVED_MANUAL_DOSING")
                                       EXCEPT !.volume = dose]
                    [] code = \h83 -> [Status(0, 0, "AUTHORIZE_REGISTERED")
                                       EXCEPT !.volume = dose]
                    [] code = \h84 -> Amounts(packet, type, currentPrices)
                    [] code \in {\h92, \h93} -> Amounts(packet, "SUPPLY_DONE", currentPrices)
                    [] code = \hA0 -> [Status(0, nozzle, "TOTAL_RESPONSE")
                                       EXCEPT !.volume = 10 * FromLittleEndian(Slice(packet, 5, 4))]
    IN  [state EXCEPT !.id = pumpId]
=============================================================================
