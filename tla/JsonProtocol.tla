---------------------------- MODULE JsonProtocol ----------------------------
(***************************************************************************)
(* The packets of the POS and the answers to them                          *)
(* (src/src/Protocols/ProtocolsSlaves/ProtocolSlaveJson.cpp).  A packet is *)
(* its Type and its Data, a record with the fields the POS has sent; the   *)
(* Id that is echoed, the user, the nozzle, the price and the sum of an    *)
(* answer are left out.  Volumes are in ml inside the station, and numbers *)
(* of litres with decimals in packets and answers: an answer's is given    *)
(* here in hundredths of a litre, a packet's in ml.                        *)
(***************************************************************************)
EXTENDS Integers, Sequences, FiniteSets

\* The command each type of packet asks for.
CmdTypeOf ==
    [PumpGetStatus                    |-> "STATUS_REQUEST",
     PumpGetTotals                    |-> "GET_TOTAL",
     PumpAuthorize                    |-> "WRITE_VOLUME",
     PumpCloseTransaction             |-> "CLOSE_REPORT",
     PumpStop                         |-> "STOP_COMMAND",
     PumpSetSimulateFillingOnDartInput |-> "CHANGE_SCENARIOS",
     GetBatteryVoltage                |-> "GET_BATTERY",
     GetSdInformation                 |-> "GET_SD",
     GetFuelGradesConfiguration       |-> "GRADES_CONFIG",
     GetPumpNozzlesConfiguration      |-> "PUMP_CONFIG",
     SetFuelGradesConfiguration       |-> "WRITE_PRICE",
     SetDateTime                      |-> "GET_SD",
     Restart                          |-> "GET_SD"]

\* The first pair of the enumeration stands for every name that is not in it.
TypeOf(packet) == IF packet.Type \in DOMAIN CmdTypeOf THEN packet.Type ELSE "PumpGetStatus"

\* The fields of Data that parseCmd reads with at().
Required(type) ==
    CASE type = "PumpAuthorize"                     -> {"Pump", "Nozzle", "Type"}
      [] type = "PumpGetTotals"                     -> {"Pump", "Nozzle"}
      [] type = "PumpCloseTransaction"              -> {"Pump", "Transaction"}
      [] type \in {"PumpGetStatus", "PumpStop"}     -> {"Pump"}
      [] type = "PumpSetSimulateFillingOnDartInput" -> {"Pump", "NozzleUp"}
      [] type = "SetFuelGradesConfiguration"        -> {"FuelGrades"}
      [] OTHER                                      -> {}

-----------------------------------------------------------------------------
(***************************************************************************)
(* Binary fractions.  The quotient d / 1000, for d in 1..9999999, is       *)
(* 2^Exponent(d) * m with 1 <= m < 2; in a number with `bits' bits it is   *)
(* cut where Remainder(d, bits) thousandths of a last bit are left over,   *)
(* and rounded up if they are more than 500.                               *)
(***************************************************************************)
Log2(n) == CHOOSE e \in 0..23 : n < 2^(e + 1) /\ (e > 0 => n >= 2^e)

\* 1000 lies between 2^9 and 2^10.
Exponent(d) ==
    LET e == Log2(d) - 9
    IN  IF (e >= 0 /\ d >= 1000 * 2^e) \/ (e < 0 /\ d * 2^(-e) >= 1000) THEN e ELSE e - 1

\* 2^k modulo 1000, for k in 0..62, by way of numbers TLC can hold
PowerMod(k) ==
    (2^(k \div 3) % 1000) * (2^((k + 1) \div 3) % 1000) * (2^((k + 2) \div 3) % 1000) % 1000

Remainder(d, bits) == (d % 1000) * PowerMod(bits - 1 - Exponent(d)) % 1000

\* static_cast<int>(get<float>() * 1000.0): the nearest float, 24 bits, may be less.
Millilitres(d) == IF Remainder(d, 24) \in 1..499 THEN d - 1 ELSE d

\* ceil(volume / 1000.0 * 100.0) in double, 53 bits: what exceeds a hundredth counts
\* as one, and so does the rounding error of the quotient if the product keeps it.
Hundredths(v) ==
    IF v % 10 # 0 THEN v \div 10 + 1
    ELSE IF v > 0 /\ Remainder(v, 53) \in 501..679 /\ Log2(v \div 10) - Exponent(v) = 6
    THEN v \div 10 + 1
    ELSE v \div 10

-----------------------------------------------------------------------------
(***************************************************************************)
(* parseCmd.  A number has a kind, the type nlohmann::json gives it.       *)
(***************************************************************************)

\* An unsigned integer is not taken for a number by AUTHORIZE's Price, and is no
\* string either (only a negative one is of the kind "integer"); a text that is no
\* number is read by nothing.
PriceRead(data) == "Price" \in DOMAIN data => data.Price.kind \in {"float", "integer", "string"}

DoseRead(data) ==
    data.Type = "FullTank" \/ ("Dose" \in DOMAIN data /\ data.Dose.kind # "text")

Volume(data) == IF data.Type = "FullTank" THEN 999000 ELSE Millilitres(data.Dose.value)

Understood(packet) ==
    LET data == packet.Data
    IN  \/ /\ Required(TypeOf(packet)) \subseteq DOMAIN data
           /\ TypeOf(packet) = "PumpAuthorize" => PriceRead(data) /\ DoseRead(data)
        \/ /\ TypeOf(packet) = "PumpSetSimulateFillingOnDartInput"
           /\ {"Pump", "State"} \subseteq DOMAIN data /\ data.State = "Off"

Cmd(type, pump, nozzle, volume) ==
    [cmdType |-> type, id |-> pump, dbId |-> 0, nozzle |-> nozzle, volume |-> volume]

\* What is not understood is taken for a status request of pump 1.
ParseCmd(packet) ==
    LET data  == packet.Data
        type  == TypeOf(packet)
        pump  == IF "Pump" \in DOMAIN data THEN data.Pump ELSE 0
        isOff == "State" \in DOMAIN data /\ data.State = "Off"
    IN  CASE ~Understood(packet)      -> Cmd("STATUS_REQUEST", 1, 0, 0)
          [] Understood(packet) /\ type = "PumpAuthorize" ->
                Cmd("WRITE_VOLUME", pump, data.Nozzle, Volume(data))
          [] Understood(packet) /\ type = "PumpSetSimulateFillingOnDartInput" ->
                IF isOff THEN Cmd("CONFIRMATION", pump, 0, 0)
                ELSE Cmd("CHANGE_SCENARIOS", pump, data.NozzleUp, 0)
          [] OTHER -> Cmd(CmdTypeOf[type], pump, 0, 0)

-----------------------------------------------------------------------------
(***************************************************************************)
(* preparePacketStr.  An answer about a supply carries its number, which   *)
(* the answer of the code does not, for the properties.                    *)
(***************************************************************************)
Answer(type, pump, transaction, volume, supply) ==
    [Type |-> type, Pump |-> pump, Transaction |-> transaction, Volume |-> volume,
     supply |-> supply]

\* The Last... fields of a pump that has not been reported done.
NoDispense == [transaction |-> 0, volume |-> 0, supply |-> 0]

\* resolveHangedFreeResponse, resolveRemovedResponse
IdleStatus(state, last) ==
    Answer("PumpIdleStatus", state.id, last.transaction, Hundredths(last.volume), last.supply)

\* resolveFuelSupply; the number the pump gives its supply is left out.
FillingStatus(state) ==
    Answer("PumpFillingStatus", state.id, 0, Hundredths(state.volume), 0)

\* resolveSupplyDone
EndOfTransaction(state) ==
    Answer("PumpEndOfTransactionStatus", state.id, state.dbId, Hundredths(state.volume),
           state.supply)

\* The bug of a last dispense that keeps the pump's number of the transaction.
DispensedByPump(state) ==
    [transaction |-> state.supply, volume |-> state.volume, supply |-> state.supply]

\* resolveSupplyDone: what it remembers as lastDispense[colId]
Dispensed(state) ==
    [transaction |-> state.dbId, volume |-> state.volume, supply |-> state.supply]

\* resolveTotals: "Transaction" is always 1.
Totals(state) == Answer("PumpTotals", state.id, 1, Hundredths(state.volume), 0)

NotServed(state) == Answer("PumpOfflineStatus", state.id, 0, 0, 0)

Authorized(state) == Answer("PumpAuthorizeConfirmation", state.id, state.dbId, 0, 0)

Confirmation == Answer("OK", 0, 0, 0, 0)

Error == Answer("Error", 0, 0, 0, 0)

PreparePacketStr(state, last) ==
    CASE state.type \in {"HANGED_FREE", "REMOVED_FREE", "REMOVED_WAITING",
                         "WAITING_APPROPRIATE_PISTOL"} -> IdleStatus(state, last)
      [] state.type = "FUEL_SUPPLY"          -> FillingStatus(state)
      [] state.type = "SUPPLY_DONE"          -> EndOfTransaction(state)
      [] state.type = "TOTAL_RESPONSE"       -> Totals(state)
      [] state.type = "AUTHORIZE_REGISTERED" -> Authorized(state)
      [] state.type \in {"TRANSACTION_ClOSED", "SUPPLY_STOPPED"} -> Confirmation
      [] state.type = "TRANSACTION_UNClOSED" -> Error
      [] OTHER                               -> NotServed(state)

\* preparePacketStr of the result of a technical command, by its type
PrepareTech(techType) ==
    CASE techType = "CONFIGURATION"      -> Answer("FuelGradesConfiguration", 0, 0, 0, 0)
      [] techType = "PUMP_CONFIGURATION" -> Answer("PumpNozzlesConfiguration", 0, 0, 0, 0)
      [] techType = "BATTERY"            -> Answer("BatteryVoltage", 0, 0, 0, 0)
      [] techType = "SD_INFO"            -> Answer("SdInformation", 0, 0, 0, 0)
      [] techType \in {"SET_PRICE", "SCENARIO"} -> Confirmation
=============================================================================
