----------------------------- MODULE MCStation -----------------------------
(***************************************************************************)
(* An instance of Station for TLC: one pump, one POS user, and requests of *)
(* one packet or of two, some about a pump or a nozzle that is not         *)
(* configured.  The two supplies are told as 2.02 l and 1.11 l.            *)
(***************************************************************************)
EXTENDS Station

P(type, data) == [Type |-> type, Data |-> data]

Status(p)    == P("PumpGetStatus", [Pump |-> p])
CloseSale(p) == P("PumpCloseTransaction", [Pump |-> p, Transaction |-> 1])
Order(p, n)  == P("PumpAuthorize",
                  [Pump |-> p, Nozzle |-> n, Type |-> "Volume",
                   Price |-> [kind |-> "float", value |-> 5000],
                   Dose |-> [kind |-> "float", value |-> 1210]])
\* A price without decimals is not understood.
WholePrice(p) == P("PumpAuthorize",
                   [Pump |-> p, Nozzle |-> 1, Type |-> "FullTank",
                    Price |-> [kind |-> "unsigned", value |-> 50]])

OfPump(p) ==
    {<<Status(p)>>, <<CloseSale(p)>>, <<Order(p, 1)>>,
     <<P("PumpStop", [Pump |-> p])>>, <<P("PumpGetTotals", [Pump |-> p, Nozzle |-> 1])>>}

MCPumps    == {1}
MCRequests ==
    OfPump(1)
    \cup {<<>>, <<WholePrice(1)>>, <<Order(1, 2)>>, <<Status(3), CloseSale(3)>>,
          <<P("GetBatteryVoltage", [x |-> 0])>>}
MCNozzles  == [p \in MCPumps |-> 1]
MCUsers    == [pos |-> "secret"]
MCHeaders  == {<<"pos", "secret">>, <<"pos", "wrong">>, TestHeader}
MCLateTypes == {"SUPPLY_DONE"}
MCAmounts  == <<2014, 1100>>
=============================================================================
