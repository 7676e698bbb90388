------------------------------- MODULE Adast -------------------------------
(***************************************************************************)
(* The packets of the Adast protocol                                       *)
(* (src/src/Protocols/ProtocolsMasters/ProtocolMasterAdast.cpp).           *)
(***************************************************************************)
EXTENDS Bytes

CONSTANT CrcAdast(_)    \* calc_crc

SYNC == \h16

\* The frame around every request: the checksum is over the address, the length byte
\* and the data.  The length is given, not counted.
Frame(addr, length, data) ==
    LET content == <<addr, length>> \o data
    IN  <<SYNC, SYNC>> \o content \o LittleEndian(CrcAdast(content), 2) \o <<\hFF>>

StatusRequest(addr)     == Frame(addr, 1, <<\h4A>>)
StopCommand(addr)       == Frame(addr, 1, <<\h35>>)
TotalCommand(cmd, addr) == Frame(addr, 2, <<\h42, \h30 + cmd.nozzle>>)

\* The transaction number that was read last.
CloseCommand(addr, pumpIds) ==
    Frame(addr, 3, <<\h4C>> \o Reverse(LittleEndian(pumpIds[addr], 2)))

SetPriceRequest(cmd, addr) == Frame(addr, 6, <<\h34, 1>> \o Digits(cmd.price, 4))

\* A group of a price for each nozzle up to the one of the order; the first group takes
\* all of the price.  The length byte is that of one group.
RunCommand(cmd, addr) ==
    LET first == Digits(cmd.price, 4)
    IN  Frame(addr, \h0E,
              <<\h39, \h30 + cmd.nozzle, \h56>> \o Digits(cmd.volume \div 10, 6)
              \o [i \in 1..5 * cmd.nozzle |-> IF i % 5 = 1 THEN \h31
                                             ELSE IF i <= 5 THEN first[i - 1] ELSE \h30])

\* A CLOSE_REPORT throws when no amounts of the pump were seen.
CanPrepare(cmd, addr, pumpIds) == cmd.type = "CLOSE_REPORT" => addr \in DOMAIN pumpIds

PreparePacket(cmd, addr, pumpIds) ==
    CASE cmd.type = "STATUS_REQUEST" -> StatusRequest(addr)
      [] cmd.type = "WRITE_VOLUME"   -> RunCommand(cmd, addr)
      [] cmd.type = "STOP_COMMAND"   -> StopCommand(addr)
      [] cmd.type = "GET_TOTAL"      -> TotalCommand(cmd, addr)
      [] cmd.type = "WRITE_MONEY"    -> SetPriceRequest(cmd, addr)
      [] cmd.type = "CLOSE_REPORT"   -> CloseCommand(addr, pumpIds)

-----------------------------------------------------------------------------
AddrOfPacket(packet) == At(packet, 2)
MinPacketSize == 5

CheckCheckSum(packet) ==
    LET n == Len(packet)
    IN  /\ n >= 6
        /\ Slice(packet, n - 3, 2) = LittleEndian(CrcAdast(Slice(packet, 2, n - 5)), 2)

\* getNumberValueOfHexArray: a number with a point and two decimals, in hundredths.
Hundredths(packet, from, to) ==
    LET k == to - from
    IN  100 * FromDigits(Slice(packet, from, k - 3)) + FromDigits(Slice(packet, to - 2, 2))

\* (v + 0.005) * 1000.0 of v hundredths, in double precision and truncated: half a unit of
\* 10 ml is added, and the product may come out just below the whole number.
VolumeInMl(v) == {10 * v + 5, 10 * v + 4}

\* (v + 0.005) * price of v hundredths, truncated, where it may come out just below.
SumOf(v, price) ==
    LET halves == (2 * v + 1) * price
    IN  {halves \div 200} \cup (IF halves % 200 = 0 THEN {halves \div 200 - 1} ELSE {})

Status(id, nozzle, type) ==
    [id |-> id, nozzle |-> nozzle, type |-> type,
     volume |-> 0, price |-> 0, txn |-> 0, amount |-> 0]

\* parseAmountInfo, parseEndDispensingInfo: price and sum are those of the packet only as
\* long as the program has not authorised a sale at this address.
ParseAmounts(packet, type, lastPriceAuthorize) ==
    LET a == AddrOfPacket(packet)
        v == Hundredths(packet, 17, 24)
        known == a \in DOMAIN lastPriceAuthorize
        price == IF known THEN lastPriceAuthorize[a] ELSE Hundredths(packet, 24, 29)
    IN  {[id |-> a, nozzle |-> At(packet, 7) - \h30, type |-> type, volume |-> ml,
          price |-> price, txn |-> FromLittleEndian(Reverse(Slice(packet, 5, 2))),
          amount |-> sum] :
            ml \in VolumeInMl(v),
            sum \in IF known THEN SumOf(v, price) ELSE {Hundredths(packet, 10, 17)}}

ParseTotalsInfo(packet, id) ==
    {[Status(id, At(packet, 5) - \h30, "TOTAL_RESPONSE")
        EXCEPT !.volume = ml, !.amount = Hundredths(packet, 19, 32)] :
        ml \in VolumeInMl(Hundredths(packet, 6, 19))}

\* The states of the nozzles: the first that is not down decides.
ParseHangedFreeInfo(packet) ==
    LET a == AddrOfPacket(packet)
        up == {i \in 5..10 : i < Len(packet) /\ At(packet, i) - \h30 \notin {0, 1}}
        first == CHOOSE i \in up : \A k \in up : i <= k
        state == At(packet, first) - \h30
    IN  IF up = {} THEN Status(a, 0, "HANGED_FREE")
        ELSE CASE state \in {2, 3}             -> Status(a, first - 4, "REMOVED_WAITING")
          [] state = 6                         -> Status(a, 0, "HANGED_FREE")
          [] state \in {8, \h0A, \h0D, \h11}   -> Status(a, first - 4, "HANGED_FREE")
          [] OTHER                             -> Status(a, 0, "ERROR")

\* A dose asked for at the pump.  Its price is left out, makeCmd of the line passes 0; but
\* from nozzle 2 on the digits of the price would end before they begin, which throws.
ResolveActiveKeyboard(packet) ==
    LET nozzle == At(packet, 5)
    IN  IF 12 + 5 * (nozzle - 1) + 1 > 16 THEN {}
        ELSE {[Status(AddrOfPacket(packet), nozzle, "AUTHORIZE_REGISTERED")
                EXCEPT !.volume = ml] : ml \in VolumeInMl(Hundredths(packet, 6, 12))}

\* The states parseResponse may return, none if it throws.  Only the answer to a request for
\* totals is not compared with the address that was expected.
ParseResponse(packet, expectedPumpAddr, pumpId, lastPriceAuthorize) ==
    LET code == At(packet, 4)
        own(s) == IF s.id = expectedPumpAddr THEN [s EXCEPT !.id = pumpId]
                                             ELSE [s EXCEPT !.type = "ERROR"]
    IN  CASE code = \h39 -> {own(s) : s \in ResolveActiveKeyboard(packet)}
          [] code \in {\h31, \h52} ->
                {own(s) : s \in ParseAmounts(packet, "FUEL_SUPPLY", lastPriceAuthorize)}
          [] code = \h61 ->
                {own(s) : s \in ParseAmounts(packet, "SUPPLY_DONE", lastPriceAuthorize)}
          [] code = \h62 -> {own(s) : s \in ParseTotalsInfo(packet, 0)}
          [] code = \h51 -> {own(Status(AddrOfPacket(packet), At(packet, 5), "ERROR"))}
          [] code = \h4A -> {own(ParseHangedFreeInfo(packet))}
          [] code = \h42 -> ParseTotalsInfo(packet, pumpId)
          [] OTHER       -> {Status(pumpId, 0, "ERROR")}

Keep(a, txn, pumpIds) ==
    [b \in DOMAIN pumpIds \cup {a} |-> IF b = a THEN txn ELSE pumpIds[b]]

\* The bug of a transaction number read with its bytes exchanged.
RememberedSwapped(packet, pumpIds) ==
    IF At(packet, 4) \notin {\h31, \h52, \h61} THEN pumpIds
    ELSE Keep(AddrOfPacket(packet), FromLittleEndian(Slice(packet, 5, 2)), pumpIds)

\* What parseResponse keeps: the transaction number of any amounts, by the address in
\* the packet.
Remembered(packet, pumpIds) ==
    IF At(packet, 4) \notin {\h31, \h52, \h61} THEN pumpIds
    ELSE Keep(AddrOfPacket(packet), FromLittleEndian(Reverse(Slice(packet, 5, 2))), pumpIds)

-----------------------------------------------------------------------------
(***************************************************************************)
(* The pump: not part of the program, and here as the program expects it.  *)
(* It takes the length byte by its word.                                   *)
(***************************************************************************)
Heard(packet, addr) ==
    LET code == At(packet, 4)
    IN  IF \/ ~CheckCheckSum(packet) \/ AddrOfPacket(packet) # addr
           \/ At(packet, 3) # Len(packet) - 7
        THEN {}
        ELSE CASE code = \h39 ->
               IF ~AreDigits(Slice(packet, 7, 6) \o Slice(packet, 14, 4)) THEN {}
               ELSE {[type |-> "WRITE_VOLUME", nozzle |-> At(packet, 5) - \h30,
                      volume |-> 10 * FromDigits(Slice(packet, 7, 6)),
                      price |-> FromDigits(Slice(packet, 14, 4))]}
          [] code = \h34 ->
               IF ~AreDigits(Slice(packet, 6, 4)) THEN {}
               ELSE {[type |-> "WRITE_MONEY", price |-> FromDigits(Slice(packet, 6, 4))]}
          [] code = \h4C -> {[type |-> "CLOSE_REPORT",
                              txn |-> FromLittleEndian(Reverse(Slice(packet, 5, 2)))]}
          [] code = \h4A -> {[type |-> "STATUS_REQUEST"]}
          [] code = \h35 -> {[type |-> "STOP_COMMAND"]}
          [] code = \h42 -> {[type |-> "GET_TOTAL", nozzle |-> At(packet, 5) - \h30]}

\* A number of k characters, the last three a point and two decimals.
Text(n, k) == Digits(n \div 100, k - 3) \o <<\h2E>> \o Digits(n % 100, 2)

Says(said, addr) ==
    LET frame(data) == Frame(addr, Len(data), data)
        nozzles == [i \in 1..6 |-> IF said.type = "REMOVED_WAITING" /\ i = said.nozzle
                                   THEN \h32 ELSE \h31]
        sale == Reverse(LittleEndian(said.txn, 2)) \o <<said.nozzle + \h30, \h31, \h30>>
                \o Text(said.amount, 7) \o Text(said.volume \div 10, 7) \o Text(said.price, 5)
    IN  CASE said.type \in {"HANGED_FREE", "REMOVED_WAITING"} -> frame(<<\h4A>> \o nozzles)
          [] said.type = "FUEL_SUPPLY"    -> frame(<<\h52>> \o sale)
          [] said.type = "SUPPLY_DONE"    -> frame(<<\h61>> \o sale)
          [] said.type = "TOTAL_RESPONSE" ->
               frame(<<\h42, said.nozzle + \h30>> \o Text(said.volume \div 10, 13)
                     \o Text(said.amount, 13))
=============================================================================
