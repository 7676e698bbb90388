---------------------------- MODULE ShelfSlave ----------------------------
(***************************************************************************)
(* The packets of the Shelf protocol as its slave reads and writes them    *)
(* (src/src/Protocols/ProtocolsSlaves/ProtocolSlaveShelf.cpp): the end at  *)
(* which the program is asked, by a fiscal device or by the line of        *)
(* another program.                                                        *)
(***************************************************************************)
EXTENDS Bytes

CONSTANT CrcShelf(_)    \* calcrc, cut to its low sixteen bits

\* checkCheckSum, of a packet of at least getMinPacketSize() bytes.
CheckCheckSum(packet) ==
    LET n == Len(packet)
    IN  /\ n >= 7
        /\ SubSeq(packet, n - 1, n) = LittleEndian(CrcShelf(SubSeq(packet, 1, n - 2)), 2)

\* An address stands for a pump and one of its five nozzles.
GetRequestTrkId(addr)  == (addr - 10) \div 5 + 1
GetRequestPistol(addr) == addr % 5

ResolveWriteVolumeRequest(packet) ==
    [type   |-> "WRITE_VOLUME",
     pump   |-> GetRequestTrkId(At(packet, 1)),
     nozzle |-> GetRequestPistol(At(packet, 1)) + 1,
     volume |-> 10 * FromLittleEndian(Slice(packet, 7, 3)),
     price  |-> FromLittleEndian(Slice(packet, 10, 2))]

\* The price is looked for where a master does not put it (ProtocolMasterShelf.cpp:164),
\* behind the end of its packet: at() throws.
ResolveSetPriceRequest(packet) ==
    IF Len(packet) < 10 THEN {}
    ELSE {[type |-> "WRITE_PRICE", pump |-> At(packet, 1),
           price |-> FromLittleEndian(Slice(packet, 7, 3))]}

\* The command in a packet; nothing for the two commands whose case makes none.
ParseCmd(packet) ==
    LET code == At(packet, 4)
        to(type) == {[type |-> type, pump |-> GetRequestTrkId(At(packet, 1))]}
    IN  CASE code \in {\h01, \h04} -> to("STATUS_REQUEST")
          [] code = \h02           -> to("READ_PRICE")
          [] code = \h03           -> ResolveSetPriceRequest(packet)
          [] code = \h05           -> {ResolveWriteVolumeRequest(packet)}
          [] code = \h0C           -> to("STOP_COMMAND")
          [] code \in {\h09, \h06} -> {}
          [] OTHER                 -> to("GET_TOTAL")

-----------------------------------------------------------------------------
(***************************************************************************)
(* The replies, to the address and with the packet number of the request.  *)
(***************************************************************************)
Reply(addr, packetId, length, data) ==
    LET content == <<\h2D, addr, packetId, length>> \o data
    IN  content \o LittleEndian(CrcShelf(content), 2)

ResponseHangedFree(addr, packetId) == Reply(addr, packetId, 9, <<\h81, \h01, \h20>>)

\* 0x01 | (1 << nozzle): another bit for each of the nozzles from 1 on.
ResponseRemovedNozzle(data, addr, packetId) ==
    Reply(addr, packetId, 9, <<\h81, 1 + 2^data.nozzle, \h21>>)

ResponseAmountInfo(data, addr, packetId) ==
    Reply(addr, packetId, \h0E, <<\h84, 2^data.nozzle, \h8F, \h02, addr>>
                                \o LittleEndian(data.volume \div 10, 3))

ResponseSupplyDone(data, addr, packetId) ==
    Reply(addr, packetId, \h11, <<\h93, \h01, \h81>> \o LittleEndian(data.volume \div 10, 3)
                                \o LittleEndian(data.amount, 3) \o LittleEndian(data.price, 2))

ResponseClosedTransaction(data, addr, packetId) ==
    Reply(addr, packetId, \h16, <<\h85, \h02, \h81, \h01, addr>>
                                \o LittleEndian(data.volume \div 10, 3) \o Repeat(0, 6)
                                \o LittleEndian(data.price, 2))

ResponseConfirmation(addr, packetId) == Reply(addr, packetId, 7, <<\h0C>>)

ResponseTotalInfo(data, addr, packetId) ==
    Reply(addr, packetId, \h0B, <<\hA0>> \o LittleEndian(data.volume \div 10, 4))

PreparePacketVec(data, addr, packetId) ==
    CASE data.type \in {"REMOVED_FREE", "REMOVED_WAITING"} ->
            ResponseRemovedNozzle(data, addr, packetId)
      [] data.type = "FUEL_SUPPLY"        -> ResponseAmountInfo(data, addr, packetId)
      [] data.type = "SUPPLY_DONE"        -> ResponseSupplyDone(data, addr, packetId)
      [] data.type = "TRANSACTION_ClOSED" -> ResponseClosedTransaction(data, addr, packetId)
      [] data.type = "SUPPLY_STOPPED"     -> ResponseConfirmation(addr, packetId)
      [] data.type = "TOTAL_RESPONSE"     -> ResponseTotalInfo(data, addr, packetId)
      [] OTHER                            -> ResponseHangedFree(addr, packetId)
=============================================================================
