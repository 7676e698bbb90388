------------------------------ MODULE Scenario ------------------------------
(***************************************************************************)
(* The simulated sales (src/src/Mediator/kassaMediator): the POS switches  *)
(* a simulation on for a pump (CHANGE_SCENARIOS), and every fiscal device  *)
(* that polls the pump then sees a sale: its order is accepted, a tenth,   *)
(* nine tenths and all of the volume are supplied, and the sale is stopped.*)
(*                                                                         *)
(* Each fiscal line is a thread with a Scenario of its own; the JSON       *)
(* thread switches the scenarios of all lines.  The fiscal threads read    *)
(* and write a scenario in several short critical sections, the JSON       *)
(* thread writes it in none (Scenario.cpp:286-292).                        *)
(*                                                                         *)
(* Of the journal, the newest row of `simulations' of each pump is kept:   *)
(* TransactionControl shows that the others never change.                  *)
(***************************************************************************)
EXTENDS Integers

CONSTANTS
    Pumps,          \* the pumps of the configuration
    FiscalLines,    \* the fiscal lines; each is the user of its own scenario
    Orders,         \* the volumes a fiscal device can order, in units of 10 ml
    Waiting,        \* `simulation_waiting', in seconds
    MaxSwitches     \* bound: switches of the POS

\* The scenario computes in single precision floats, which are exact up to
\* nine times this order (of more than 18641 litres).
MaxExactOrder == 1864135

ASSUME OrdersAssumption ==
    /\ Orders \subseteq Nat
    /\ \A r \in Orders : r <= MaxExactOrder
ASSUME WaitingAssumption  == Waiting \in Nat
ASSUME SwitchesAssumption == MaxSwitches \in Nat

VARIABLES
    states,             \* the scenario of each pump, per line
    elapsed,            \* seconds since its time stamp; NoStamp if it has none
    lastStateResponse,  \* the reply a line repeats; one for all its pumps
    fiscal,             \* where each line's thread is, and what it has read
    json,               \* where the JSON thread is
    row,                \* the newest row of `simulations' of each pump
    totalled,           \* pumps with a row in `totals' since that row was opened
    switches,           \* the number of switches
    ordered,            \* history: the order a scenario was last authorised with
    timedOut,           \* history: <<line, pump>> of the scenarios timed out
                        \* since they were switched on
    overlapped          \* history: <<line, pump>> of the scenarios whose last
                        \* switch overlapped with a command of their device

journal == <<row, totalled>>
history == <<ordered, timedOut, overlapped>>
vars == <<states, elapsed, lastStateResponse, fiscal, json, row, totalled,
          switches, ordered, timedOut, overlapped>>

NoStamp == -1

\* NOZZLE_UP and CLOSE exist, but nothing ever sets them.
Stage == {"IDLE", "AUTHORIZED", "TEN_PERCENT", "NINETY_PERCENT", "HUNDRED_PERCENT"}

\* The stages at which the device sees a sale.
Playing == Stage \ {"IDLE"}

\* NozzleLogicState without nozzle and price.  CONTROL exists, but a command
\* to switch always asks for SLEEP.
NozzleLogicState == [logic : {"IDLE", "SLEEP"}, stage : Stage, volume : Nat]

Off == [logic |-> "IDLE", stage |-> "IDLE", volume |-> 0]

\* A reply: whose, and whether it reports a supply as done.
Reply == [pump : Pumps, done : BOOLEAN]

NoReply == [done |-> FALSE]

\* A fiscal device orders in units of 10 ml (resolveWriteVolumeRequest).
Volumes == {0} \cup {10 * r : r \in Orders}

\* READ_PRICE stands for every command that only repeats the last reply:
\* READ_PRICE, WRITE_PRICE and GET_TOTAL.
Cmd == [pump   : Pumps,
        type   : {"STATUS_REQUEST", "READ_PRICE", "STOP_COMMAND", "WRITE_VOLUME"},
        volume : Volumes]

Reading == [pc |-> "read"]

\* A fiscal thread, by the step it takes next: the command in hand, then its
\* copies of the scenario's stage and volume, then its reply.
FiscalState ==
    {Reading}
    \cup [pc : {"logic", "stage", "timeout", "authorize", "stop"}, cmd : Cmd]
    \cup [pc : {"volume"}, cmd : Cmd, stage : Playing]
    \cup [pc : {"step"}, cmd : Cmd, stage : Playing, volume : Nat]
    \cup [pc : {"total"}, cmd : Cmd, reply : Reply]

NoSwitch == [pc |-> "idle"]

\* The parts of a scenario's assignment.
Parts == {"logic and volume", "stage"}

\* The JSON thread: the lines whose scenario is still to switch, the one under
\* way, and the parts of it that are not assigned yet.
JsonState ==
    {NoSwitch}
    \cup [pc : {"lines"}, pump : Pumps, todo : SUBSET FiscalLines]
    \cup [pc : {"assign"}, pump : Pumps, todo : SUBSET FiscalLines, line : FiscalLines,
          parts : SUBSET Parts]
    \cup [pc : {"time"}, pump : Pumps, todo : SUBSET FiscalLines, line : FiscalLines]

TypeOK ==
    /\ states \in [FiscalLines -> [Pumps -> NozzleLogicState]]
    /\ elapsed \in [FiscalLines -> [Pumps -> {NoStamp} \cup 0..Waiting + 1]]
    /\ lastStateResponse \in [FiscalLines -> Reply \cup {NoReply}]
    /\ fiscal \in [FiscalLines -> FiscalState]
    /\ json \in JsonState
    /\ row \in [Pumps -> [state : 0..3, volume : Volumes]]
    /\ totalled \in SUBSET Pumps
    /\ switches \in 0..MaxSwitches
    /\ ordered \in [FiscalLines -> [Pumps -> Volumes]]
    /\ timedOut \in SUBSET (FiscalLines \X Pumps)
    /\ overlapped \in SUBSET (FiscalLines \X Pumps)

Init ==
    /\ states = [u \in FiscalLines |-> [p \in Pumps |-> Off]]
    /\ elapsed = [u \in FiscalLines |-> [p \in Pumps |-> NoStamp]]
    /\ lastStateResponse = [u \in FiscalLines |-> NoReply]
    /\ fiscal = [u \in FiscalLines |-> Reading]
    /\ json = NoSwitch
    /\ row = [p \in Pumps |-> [state |-> 0, volume |-> 0]]
    /\ totalled = {}
    /\ switches = 0
    /\ ordered = [u \in FiscalLines |-> [p \in Pumps |-> 0]]
    /\ timedOut = {}
    /\ overlapped = {}

\* The scenario of p becomes s.
Put(u, p, s) == [states EXCEPT ![u][p] = s]

\* setTime
Stamped(u, p) == [elapsed EXCEPT ![u][p] = 0]

Order(u, p, v) == [ordered EXCEPT ![u][p] = v]

Commanding(u, p) == fiscal[u] # Reading /\ fiscal[u].cmd.pump = p

Switching(p) == json # NoSwitch /\ json.pump = p

-----------------------------------------------------------------------------
(***************************************************************************)
(* The thread of fiscal line u.                                            *)
(***************************************************************************)

\* The bug of an order that is not journalled.
StopsOnly(cmd) ==
    IF cmd.type = "STOP_COMMAND" /\ row[cmd.pump].state = 2
    THEN [row EXCEPT ![cmd.pump].state = 3] ELSE row

\* updateSimulationFromCmd: an order works on the newest row if it is open, a
\* stop if it is authorised, whatever the scenario.
UpdateSimulationFromCmd(cmd) ==
    CASE cmd.type = "WRITE_VOLUME" /\ row[cmd.pump].state = 1 ->
            [row EXCEPT ![cmd.pump] = [state |-> 2, volume |-> cmd.volume]]
      [] cmd.type = "STOP_COMMAND" /\ row[cmd.pump].state = 2 ->
            [row EXCEPT ![cmd.pump].state = 3]
      [] OTHER -> row

\* poll: a packet is parsed, and checkKassaUpdates journals the command.
CheckKassaUpdates(u, cmd) ==
    /\ fiscal[u] = Reading
    /\ fiscal' = [fiscal EXCEPT ![u] = [pc |-> "logic", cmd |-> cmd]]
    /\ row' = UpdateSimulationFromCmd(cmd)
    /\ overlapped' = IF Switching(cmd.pump)
                     THEN overlapped \cup {<<u, cmd.pump>>} ELSE overlapped
    /\ UNCHANGED <<states, elapsed, lastStateResponse, json, totalled, switches,
                   ordered, timedOut>>

\* processCmd, the switch over the logic type.  HANGED_FREE and
\* TOTAL_RESPONSE are answered without a trace.
ReadLogic(u) ==
    /\ fiscal[u].pc = "logic"
    /\ LET cmd == fiscal[u].cmd IN
       fiscal' = [fiscal EXCEPT ![u] =
                    IF states[u][cmd.pump].logic = "IDLE"
                    THEN Reading ELSE [pc |-> "stage", cmd |-> cmd]]
    /\ UNCHANGED <<states, elapsed, lastStateResponse, json, journal, switches, history>>

\* operateSleepState, the switch over the stage.
ReadStage(u) ==
    /\ fiscal[u].pc = "stage"
    /\ LET cmd   == fiscal[u].cmd
           stage == states[u][cmd.pump].stage
       IN fiscal' = [fiscal EXCEPT ![u] =
                       IF stage = "IDLE" THEN [pc |-> "timeout", cmd |-> cmd]
                       ELSE [pc |-> "volume", cmd |-> cmd, stage |-> stage]]
    /\ UNCHANGED <<states, elapsed, lastStateResponse, json, journal, switches, history>>

\* operateSleepState and checkActivityTime: a scenario that has waited too
\* long is switched off, and then handled all the same.
CheckActivityTime(u) ==
    /\ fiscal[u].pc = "timeout"
    /\ LET p == fiscal[u].cmd.pump IN
       IF elapsed[u][p] > Waiting
       THEN /\ states' = Put(u, p, [states[u][p] EXCEPT !.logic = "IDLE"])
            /\ timedOut' = timedOut \cup {<<u, p>>}
       ELSE UNCHANGED <<states, timedOut>>
    /\ fiscal' = [fiscal EXCEPT ![u].pc = "authorize"]
    /\ UNCHANGED <<elapsed, lastStateResponse, json, journal, switches, ordered, overlapped>>

\* The bug of a reply that is given but not kept.
ReplyUnkept(u, reply) == UNCHANGED lastStateResponse

KeepReply(u, reply) == lastStateResponse' = [lastStateResponse EXCEPT ![u] = reply]

\* The bug of an authorised scenario that is left asleep for ever.
Authorized(v) == [logic |-> "IDLE", stage |-> "AUTHORIZED", volume |-> v]

\* NozzleLogicState of an order.
NewOrder(v) == [logic |-> "SLEEP", stage |-> "AUTHORIZED", volume |-> v]

\* operateSleepIdle: an order is accepted (addState); anything else is
\* answered with REMOVED_WAITING.
OperateSleepIdle(u) ==
    /\ fiscal[u].pc = "authorize"
    /\ LET cmd == fiscal[u].cmd
           p   == cmd.pump
       IN IF cmd.type = "WRITE_VOLUME"
          THEN /\ states' = Put(u, p, NewOrder(cmd.volume))
               /\ elapsed' = Stamped(u, p)
               /\ KeepReply(u, [pump |-> p, done |-> FALSE])
               /\ ordered' = Order(u, p, cmd.volume)
          ELSE UNCHANGED <<states, elapsed, lastStateResponse, ordered>>
    /\ fiscal' = [fiscal EXCEPT ![u] = Reading]
    /\ UNCHANGED <<json, journal, switches, timedOut, overlapped>>

\* getState in the operate function of a stage.
ReadVolume(u) ==
    /\ fiscal[u].pc = "volume"
    /\ LET f == fiscal[u] IN
       fiscal' = [fiscal EXCEPT ![u] =
                    [pc |-> "step", cmd |-> f.cmd, stage |-> f.stage,
                     volume |-> states[u][f.cmd.pump].volume]]
    /\ UNCHANGED <<states, elapsed, lastStateResponse, json, journal, switches, history>>

\* The bug of a stage that is left out.
NextStageSkipping(stage) ==
    CASE stage = "AUTHORIZED"     -> "NINETY_PERCENT"
      [] stage = "TEN_PERCENT"    -> "NINETY_PERCENT"
      [] stage = "NINETY_PERCENT" -> "HUNDRED_PERCENT"

\* The stage that follows a status request, and the volume then supplied.
NextStage(stage) ==
    CASE stage = "AUTHORIZED"     -> "TEN_PERCENT"
      [] stage = "TEN_PERCENT"    -> "NINETY_PERCENT"
      [] stage = "NINETY_PERCENT" -> "HUNDRED_PERCENT"

NextVolume(stage, v) ==
    CASE stage = "AUTHORIZED"     -> v \div 10
      [] stage = "TEN_PERCENT"    -> 9 * v
      [] stage = "NINETY_PERCENT" -> (10 * v) \div 9

\* The bug of an update that leaves the volume alone.
UpdateStageOnly(s, stage, v) == [s EXCEPT !.stage = stage]

\* updateState: the volume 0 means "no new volume".
UpdateState(s, stage, v) ==
    [s EXCEPT !.stage = stage, !.volume = IF v = 0 THEN s.volume ELSE v]

\* operateSleppAuthorized, operateSleppTenPercent, operateSleppNinetyPercent:
\* a status request takes the sale one stage on.
StepSale(u) ==
    /\ fiscal[u].pc = "step"
    /\ LET f     == fiscal[u]
           p     == f.cmd.pump
           reply == [pump |-> p, done |-> f.stage = "NINETY_PERCENT"]
       IN /\ f.cmd.type = "STATUS_REQUEST"
          /\ f.stage # "HUNDRED_PERCENT"
          /\ states' = Put(u, p, UpdateState(states[u][p], NextStage(f.stage),
                                              NextVolume(f.stage, f.volume)))
          /\ KeepReply(u, reply)
          /\ fiscal' = [fiscal EXCEPT ![u] = [pc |-> "total", cmd |-> f.cmd, reply |-> reply]]
    /\ UNCHANGED <<elapsed, json, journal, switches, history>>

\* operateSleppHundredPercent: a stop ends the sale.  It is answered with
\* SUPPLY_STOPPED, which is not kept as the last reply.
StopSale(u) ==
    /\ fiscal[u].pc = "step"
    /\ LET f == fiscal[u] IN
          /\ f.cmd.type = "STOP_COMMAND"
          /\ f.stage = "HUNDRED_PERCENT"
          /\ states' = Put(u, f.cmd.pump, Off)
          /\ fiscal' = [fiscal EXCEPT ![u] = [pc |-> "stop", cmd |-> f.cmd]]
    /\ UNCHANGED <<elapsed, lastStateResponse, json, journal, switches, history>>

\* The same, setLogicType after the assignment: it undoes a switch that came between.
StopLogic(u) ==
    /\ fiscal[u].pc = "stop"
    /\ LET p == fiscal[u].cmd.pump
       IN states' = Put(u, p, [states[u][p] EXCEPT !.logic = "IDLE"])
    /\ fiscal' = [fiscal EXCEPT ![u] = Reading]
    /\ UNCHANGED <<elapsed, lastStateResponse, json, journal, switches, history>>

\* The same functions, any other command: the last reply of the line, maybe
\* another pump's, is repeated.
RepeatLastResponse(u) ==
    /\ fiscal[u].pc = "step"
    /\ LET f == fiscal[u] IN
          /\ f.cmd.type # IF f.stage = "HUNDRED_PERCENT" THEN "STOP_COMMAND"
                          ELSE "STATUS_REQUEST"
          /\ fiscal' = [fiscal EXCEPT ![u] =
                [pc |-> "total", cmd |-> f.cmd, reply |-> lastStateResponse[u]]]
    /\ UNCHANGED <<states, elapsed, lastStateResponse, json, journal, switches, history>>

\* The bug of a done supply that is not recognised.
AddNoTotals(reply) == totalled

\* KassaWorker::processCmd: every reply SUPPLY_DONE inserts into `totals', for
\* the pump of the reply.
AddKassaTotals(reply) == IF reply.done THEN totalled \cup {reply.pump} ELSE totalled

ProcessReply(u) ==
    /\ fiscal[u].pc = "total"
    /\ totalled' = AddKassaTotals(fiscal[u].reply)
    /\ fiscal' = [fiscal EXCEPT ![u] = Reading]
    /\ UNCHANGED <<states, elapsed, lastStateResponse, json, row, switches, history>>

Operate(u) ==
    \/ ReadLogic(u)
    \/ ReadStage(u)
    \/ CheckActivityTime(u)
    \/ OperateSleepIdle(u)
    \/ ReadVolume(u)
    \/ StepSale(u)
    \/ StopSale(u)
    \/ StopLogic(u)
    \/ RepeatLastResponse(u)
    \/ ProcessReply(u)

-----------------------------------------------------------------------------
(***************************************************************************)
(* The JSON thread.                                                        *)
(***************************************************************************)

\* processTechCmd and addSimulation: a row is opened first.
AddSimulation(p) ==
    /\ json = NoSwitch
    /\ switches < MaxSwitches
    /\ switches' = switches + 1
    /\ row' = [row EXCEPT ![p] = [state |-> 1, volume |-> 0]]
    /\ totalled' = totalled \ {p}
    /\ json' = [pc |-> "lines", pump |-> p, todo |-> FiscalLines]
    /\ overlapped' = {lp \in overlapped : lp[2] # p}
                     \cup {<<u, p>> : u \in {w \in FiscalLines : Commanding(w, p)}}
    /\ UNCHANGED <<states, elapsed, lastStateResponse, fiscal, ordered, timedOut>>

\* KassaWorker::changeLogicType: the scenarios in turn, in the order of an
\* unordered_map.
NextScenario(u) ==
    /\ json.pc = "lines"
    /\ u \in json.todo
    /\ json' = [pc |-> "assign", pump |-> json.pump, todo |-> json.todo \ {u},
                line |-> u, parts |-> Parts]
    /\ UNCHANGED <<states, elapsed, lastStateResponse, fiscal, journal, switches, history>>

LastScenario ==
    /\ json.pc = "lines"
    /\ json.todo = {}
    /\ json' = NoSwitch
    /\ UNCHANGED <<states, elapsed, lastStateResponse, fiscal, journal, switches, history>>

\* Scenario::changeLogicType, the assignment to states[colId] without the
\* lock: the fiscal thread may see it half done, in either order.
AssignLogic ==
    /\ json.pc = "assign"
    /\ "logic and volume" \in json.parts
    /\ LET u == json.line
           p == json.pump
       IN /\ states' = Put(u, p, [states[u][p] EXCEPT !.logic = "SLEEP", !.volume = 0])
          /\ timedOut' = timedOut \ {<<u, p>>}
    /\ json' = [json EXCEPT !.parts = @ \ {"logic and volume"}]
    /\ UNCHANGED <<elapsed, lastStateResponse, fiscal, journal, switches, ordered, overlapped>>

AssignStage ==
    /\ json.pc = "assign"
    /\ "stage" \in json.parts
    /\ LET u == json.line
           p == json.pump
       IN states' = Put(u, p, [states[u][p] EXCEPT !.stage = "IDLE"])
    /\ json' = [json EXCEPT !.parts = @ \ {"stage"}]
    /\ UNCHANGED <<elapsed, lastStateResponse, fiscal, journal, switches, history>>

\* Scenario::changeLogicType, setLogicType after the assignment.
SetLogicType ==
    /\ json.pc = "assign"
    /\ json.parts = {}
    /\ LET u == json.line
           p == json.pump
       IN /\ states' = Put(u, p, [states[u][p] EXCEPT !.logic = "SLEEP"])
          /\ timedOut' = timedOut \ {<<u, p>>}
          /\ json' = [pc |-> "time", pump |-> p, todo |-> json.todo, line |-> u]
    /\ UNCHANGED <<elapsed, lastStateResponse, fiscal, journal, switches, ordered, overlapped>>

\* Scenario::changeLogicType, setTime.
SetTime ==
    /\ json.pc = "time"
    /\ elapsed' = Stamped(json.line, json.pump)
    /\ json' = [pc |-> "lines", pump |-> json.pump, todo |-> json.todo]
    /\ UNCHANGED <<states, lastStateResponse, fiscal, journal, switches, history>>

-----------------------------------------------------------------------------
\* A second passes.
Tick ==
    /\ elapsed' = [u \in FiscalLines |-> [p \in Pumps |->
                    IF elapsed[u][p] \in 0..Waiting THEN elapsed[u][p] + 1 ELSE elapsed[u][p]]]
    /\ elapsed' # elapsed
    /\ UNCHANGED <<states, lastStateResponse, fiscal, json, journal, switches, history>>

Commands ==
    [pump : Pumps, type : {"STATUS_REQUEST", "READ_PRICE", "STOP_COMMAND"}, volume : {0}]
    \cup [pump : Pumps, type : {"WRITE_VOLUME"}, volume : {10 * r : r \in Orders}]

FiscalThread(u) ==
    \/ \E cmd \in Commands : CheckKassaUpdates(u, cmd)
    \/ Operate(u)

JsonThread ==
    \/ \E p \in Pumps : AddSimulation(p)
    \/ \E u \in FiscalLines : NextScenario(u)
    \/ LastScenario
    \/ AssignLogic
    \/ AssignStage
    \/ SetLogicType
    \/ SetTime

Next ==
    \/ \E u \in FiscalLines : FiscalThread(u)
    \/ JsonThread
    \/ Tick

Spec == Init /\ [][Next]_vars

-----------------------------------------------------------------------------
(***************************************************************************)
(* What goes right unless a switch overlaps with a command.                *)
(***************************************************************************)

Undisturbed(u, p) == <<u, p>> \notin overlapped

Settled(u, p) == Undisturbed(u, p) /\ ~Switching(p)

\* What a scenario keeps is what was ordered, a tenth of it, nine tenths of it,
\* and, when the supply is reported as done, exactly what was ordered again
\* (the arithmetic of the operate functions on one overwritten volume), unless
\* the POS switched it while it was being stepped.
PlayedAsOrdered ==
    \A u \in FiscalLines, p \in Pumps :
        Settled(u, p) =>
            LET s == states[u][p] IN
            /\ s.stage \in {"AUTHORIZED", "HUNDRED_PERCENT"} => s.volume = ordered[u][p]
            /\ s.stage = "TEN_PERCENT"    => 10 * s.volume = ordered[u][p]
            /\ s.stage = "NINETY_PERCENT" => 10 * s.volume = 9 * ordered[u][p]

\* A sale that is played has an authorised row in the journal, and if there
\* is one fiscal line, that row has the volume played
\* (checkKassaUpdates journals a command before the scenario sees it, and the
\* JSON thread opens the row before it switches).
JournalKnowsPlayed ==
    \A u \in FiscalLines, p \in Pumps :
        /\ Settled(u, p)
        /\ states[u][p].stage \in Playing
        => /\ row[p].state \in {2, 3}
           /\ FiscalLines = {u} => row[p].volume = ordered[u][p]

\* A supply that is done is in `totals' before the next command of its device.
DoneIsTotalled ==
    \A u \in FiscalLines, p \in Pumps :
        /\ Settled(u, p)
        /\ states[u][p].stage = "HUNDRED_PERCENT"
        /\ ~Commanding(u, p)
        => p \in totalled

\* A sale is played in the order of its stages, none is left out, and only a
\* switch or a stop ends it.
StagesInOrder ==
    [][\A u \in FiscalLines, p \in Pumps :
        /\ Undisturbed(u, p)
        /\ states'[u][p].stage # states[u][p].stage
        => <<states[u][p].stage, states'[u][p].stage>> \in
              {<<"IDLE", "AUTHORIZED">>, <<"AUTHORIZED", "TEN_PERCENT">>,
               <<"TEN_PERCENT", "NINETY_PERCENT">>, <<"NINETY_PERCENT", "HUNDRED_PERCENT">>}
              \cup {<<s, "IDLE">> : s \in IF Switching(p) THEN Playing
                                           ELSE {"HUNDRED_PERCENT"}}]_vars

\* Whatever overlaps, a scenario that plays a sale is never switched to IDLE
\* logic, where no command would ever reach it again: the timeout, the stop and
\* the two halves of a switch leave no such state.
PlayingIsAwake ==
    \A u \in FiscalLines, p \in Pumps :
        states[u][p].stage \in Playing => states[u][p].logic = "SLEEP"

\* "Did not send appropriate commnad during the last {} seconds. Changing
\* scenario to |IDLE|" (checkActivityTime): a scenario that has timed out is
\* idle until it is switched on again.
TimedOutIsIdle ==
    \A u \in FiscalLines, p \in Pumps :
        Settled(u, p) /\ <<u, p>> \in timedOut => states[u][p].logic = "IDLE"
=============================================================================
