------------------------------ MODULE Unipump ------------------------------
(***************************************************************************)
(* The packets of the Unipump protocol                                     *)
(* (src/src/Protocols/ProtocolsMasters/ProtocolMasterUnipump.cpp):         *)
(* what the program sends to a pump and how it reads the answer.           *)
(***************************************************************************)
EXTENDS Bytes

CONSTANT Crc16(_)       \* calc_crc

DLE == \h10
STX == \h02
ETX == \h03

\* The frame around every request: the checksum is over what lies between.
Frame(content) ==
    <<DLE, STX>> \o content \o LittleEndian(Crc16(content), 2) \o <<DLE, ETX>>

StatusRequest(addr)     == Frame(<<addr + \h30, \h53>>)
StopCommand(addr)       == Frame(<<addr + \h30, \h48>>)
TotalCommand(cmd, addr) == Frame(<<addr + \h30, \h54, \h30 + cmd.nozzle>>)

\* The bug of a volume in units of 1 ml.
RunCommandInMl(cmd, addr) ==
    Frame(<<addr + \h30, \h41, cmd.nozzle + \h30, \h4C>>
          \o Digits(cmd.volume, 6) \o Digits(cmd.price * 100, 6))

\* The volume in units of 10 ml, the price times 100.
RunCommand(cmd, addr) ==
    Frame(<<addr + \h30, \h41, cmd.nozzle + \h30, \h4C>>
          \o Digits(cmd.volume \div 10, 6) \o Digits(cmd.price * 100, 6))

\* The prices of six nozzles; the first takes all of the price.
SetPriceRequest(cmd, addr) ==
    Frame(<<addr + \h30, \h70>> \o Digits(cmd.price, 4) \o Repeat(\h30, 20))

\* The two bytes kept of the last end of transaction.
CloseCommand(addr, transactionHolder) ==
    Frame(<<addr + \h30, \h43>> \o transactionHolder[addr])

\* A CLOSE_REPORT throws when no end of transaction was seen.
CanPrepare(cmd, addr, transactionHolder) ==
    cmd.type = "CLOSE_REPORT" => addr \in DOMAIN transactionHolder

PreparePacket(cmd, addr, transactionHolder) ==
    CASE cmd.type = "STATUS_REQUEST" -> StatusRequest(addr)
      [] cmd.type = "WRITE_VOLUME"   -> RunCommand(cmd, addr)
      [] cmd.type = "STOP_COMMAND"   -> StopCommand(addr)
      [] cmd.type = "GET_TOTAL"      -> TotalCommand(cmd, addr)
      [] cmd.type = "WRITE_MONEY"    -> SetPriceRequest(cmd, addr)
      [] cmd.type = "CLOSE_REPORT"   -> CloseCommand(addr, transactionHolder)

-----------------------------------------------------------------------------
AddrOfPacket(packet) == At(packet, 2) - \h30
MinPacketSize == 8

CheckCheckSum(packet) ==
    LET n == Len(packet)
    IN  Slice(packet, n - 4, 2) = LittleEndian(Crc16(Slice(packet, 2, n - 6)), 2)

StatusType(code) ==
    CASE code = 1 -> "HANGED_FREE"
      [] code = 3 -> "REMOVED_WAITING"
      [] code = 4 -> "WAITING_APPROPRIATE_PISTOL"
      [] code = 8 -> "ERROR"
      [] OTHER    -> "NOT_SERVED"

\* A status has no amounts.
Status(id, nozzle, type) ==
    [id |-> id, nozzle |-> nozzle, type |-> type,
     volume |-> 0, price |-> 0, txn |-> 0, amount |-> 0]

\* The bug of a volume read one digit too early.
AmountsShifted(packet, id, type, price) ==
    [id     |-> id,
     nozzle |-> At(packet, 6) - \h30,
     type   |-> type,
     volume |-> 10 * FromDigits(Slice(packet, 12, 6)),
     price  |-> price,
     txn    |-> FromDigits(Slice(packet, 4, 2)),
     amount |-> FromDigits(Slice(packet, 7, 6))]

\* The amounts of a running and of a finished sale; the digits of the volume are units
\* of 10 ml.
Amounts(packet, id, type, price) ==
    [id     |-> id,
     nozzle |-> At(packet, 6) - \h30,
     type   |-> type,
     volume |-> 10 * FromDigits(Slice(packet, 13, 6)),
     price  |-> price,
     txn    |-> FromDigits(Slice(packet, 4, 2)),
     amount |-> FromDigits(Slice(packet, 7, 6))]

\* parseResponse, of a packet as long as its kind: of a running sale's that is shorter it
\* returns null, which the line then asks for its type, and no pump here says one.  Of the
\* eight bytes of a counter the first four are read: what the shifts by 32 and more do is
\* undefined, and the counters here stay below 2^31.
ParseResponse(packet, expectedPumpAddr, pumpId) ==
    LET address == IF AddrOfPacket(packet) = expectedPumpAddr THEN pumpId ELSE 0
        code    == At(packet, 3)
    IN  CASE code = \h53 -> Status(address, At(packet, 4) - \h30,
                                   StatusType(At(packet, 5) - \h30))
          [] code = \h55 -> Status(address, 0, "LOCK_STATUS")
          [] code = \h41 -> Amounts(packet, address, "FUEL_SUPPLY", 0)
          [] code = \h54 -> Amounts(packet, address, "SUPPLY_DONE",
                                    FromDigits(Slice(packet, 19, 4)))
          [] code = \h43 -> [Status(pumpId, At(packet, 6) - \h30, "TOTAL_RESPONSE")
                             EXCEPT !.volume = FromLittleEndian(Slice(packet, 7, 4)),
                                    !.amount = FromLittleEndian(Slice(packet, 19, 4))]
          [] OTHER       -> Status(1, 0, "ERROR")

Keep(packet, a, transactionHolder) ==
    [b \in DOMAIN transactionHolder \cup {a} |->
        IF b = a THEN Slice(packet, 4, 2) ELSE transactionHolder[b]]

\* The bug of a number kept as soon as a sale runs ...
RememberedEarly(packet, transactionHolder) ==
    IF At(packet, 3) \notin {\h41, \h54} THEN transactionHolder
    ELSE Keep(packet, AddrOfPacket(packet), transactionHolder)

\* ... and of an address kept as the character it was sent as.
RememberedRaw(packet, transactionHolder) ==
    IF At(packet, 3) # \h54 THEN transactionHolder
    ELSE Keep(packet, At(packet, 2), transactionHolder)

\* What parseResponse keeps of an end of transaction, by the address in the packet.
Remembered(packet, transactionHolder) ==
    IF At(packet, 3) # \h54 THEN transactionHolder
    ELSE Keep(packet, AddrOfPacket(packet), transactionHolder)

-----------------------------------------------------------------------------
(***************************************************************************)
(* The pump: not part of the program, and here as the program expects it.  *)
(* It reads a request that is whole, for itself, and in digits, and        *)
(* answers with its state.                                                 *)
(***************************************************************************)

Heard(packet, addr) ==
    LET code == At(packet, 3)
    IN  IF ~CheckCheckSum(packet) \/ AddrOfPacket(packet) # addr THEN {}
        ELSE CASE code = \h41 ->
               IF ~AreDigits(Slice(packet, 6, 12)) THEN {}
               ELSE {[type |-> "WRITE_VOLUME", nozzle |-> At(packet, 4) - \h30,
                      volume |-> 10 * FromDigits(Slice(packet, 6, 6)),
                      price |-> FromDigits(Slice(packet, 12, 6)) \div 100]}
          [] code = \h70 ->
               IF ~AreDigits(Slice(packet, 4, 4)) THEN {}
               ELSE {[type |-> "WRITE_MONEY", price |-> FromDigits(Slice(packet, 4, 4))]}
          [] code = \h43 -> {[type |-> "CLOSE_REPORT",
                              txn |-> FromDigits(Slice(packet, 4, 2))]}
          [] code = \h53 -> {[type |-> "STATUS_REQUEST"]}
          [] code = \h48 -> {[type |-> "STOP_COMMAND"]}
          [] code = \h54 -> {[type |-> "GET_TOTAL", nozzle |-> At(packet, 4) - \h30]}

Says(said, addr) ==
    LET sale == Digits(said.txn, 2) \o <<said.nozzle + \h30>>
                \o Digits(said.amount, 6) \o Digits(said.volume \div 10, 6)
        head(code) == <<addr + \h30, code>>
    IN  Frame(CASE said.type = "HANGED_FREE"     -> head(\h53) \o <<\h30, \h31>>
                [] said.type = "REMOVED_WAITING" -> head(\h53) \o <<said.nozzle + \h30, \h33>>
                [] said.type = "FUEL_SUPPLY"     -> head(\h41) \o sale
                [] said.type = "SUPPLY_DONE"     -> head(\h54) \o sale \o Digits(said.price, 4)
                [] said.type = "TOTAL_RESPONSE"  ->
                      head(\h43) \o <<\h30, \h30, said.nozzle + \h30>>
                      \o LittleEndian(said.volume, 4) \o Repeat(0, 8)
                      \o LittleEndian(said.amount, 4) \o Repeat(0, 4))
=============================================================================
