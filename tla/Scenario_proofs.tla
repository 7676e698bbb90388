-------------------------- MODULE Scenario_proofs --------------------------
(***************************************************************************)
(* What holds of the simulated sales for any pumps, any number of fiscal   *)
(* lines, any orders and any waiting time.                                 *)
(***************************************************************************)
EXTENDS Scenario, TLAPS

-----------------------------------------------------------------------------
(***************************************************************************)
(* The inductive invariant.                                                *)
(***************************************************************************)

\* The steps of a fiscal thread that take the scenario's stage for IDLE, and
\* those that take it for one of a sale.
IdleSteps == {"timeout", "authorize"}
SaleSteps == {"volume", "step"}

\* Whatever overlaps: only the line's own thread leaves the stage IDLE, and
\* only that thread switches the logic to IDLE.
AwakeAt(u, p) ==
    /\ states[u][p].stage \in Playing => states[u][p].logic = "SLEEP"
    /\ Commanding(u, p) /\ fiscal[u].pc \in IdleSteps \cup {"stop"} =>
          states[u][p].stage = "IDLE"
    /\ Commanding(u, p) /\ fiscal[u].pc \in SaleSteps => states[u][p].logic = "SLEEP"

\* A switch and a command that do not overlap are never under way together.
ApartAt(u, p) == Undisturbed(u, p) => ~(Commanding(u, p) /\ Switching(p))

\* What an undisturbed command has read of its scenario is still true.
CopyAt(u, p) ==
    Undisturbed(u, p) /\ Commanding(u, p) =>
        /\ fiscal[u].pc \in SaleSteps => fiscal[u].stage = states[u][p].stage
        /\ fiscal[u].pc = "step" => fiscal[u].volume = states[u][p].volume
        /\ fiscal[u].pc = "total" => states[u][p].stage \in Playing
        /\ fiscal[u].pc = "stop" => states[u][p].logic = "IDLE"

\* The scenarios a switch has been through are idle.
SwitchedAt(u, p) ==
    /\ Undisturbed(u, p)
    /\ Switching(p)
    /\ u \notin json.todo
    /\ json.pc = "assign" /\ json.line = u => "stage" \notin json.parts
    => states[u][p].stage = "IDLE"

\* Whoever is awake has a row.
RowAt(u, p) ==
    /\ states[u][p].logic = "SLEEP" => row[p].state # 0
    /\ Commanding(u, p) /\ fiscal[u].pc \notin {"logic", "total"} => row[p].state # 0
    /\ Switching(p) => row[p].state # 0

\* What has been ordered or is played is authorised in the journal.
JournalAt(u, p) ==
    Settled(u, p) =>
        /\ Commanding(u, p) /\ fiscal[u].cmd.type = "WRITE_VOLUME" => row[p].state # 1
        /\ states[u][p].stage \in Playing => row[p].state \in {2, 3}

\* The scenario waits for an order, as far as the line's thread knows.
Waits(u, p) ==
    /\ states[u][p].stage = "IDLE"
    /\ \/ states[u][p].logic = "SLEEP"
       \/ Commanding(u, p) /\ fiscal[u].pc \in IdleSteps \cup {"stage"}

Alone(u) == FiscalLines = {u}

\* With one line: the row of a scenario that waits for an order is open, and
\* one that has an order has its volume.
OrderAt(u, p) ==
    Alone(u) /\ Undisturbed(u, p) =>
        /\ Switching(p) => row[p].state = 1
        /\ ~Switching(p) /\ Waits(u, p) =>
              IF Commanding(u, p) /\ fiscal[u].cmd.type = "WRITE_VOLUME"
              THEN row[p].volume = fiscal[u].cmd.volume
              ELSE row[p].state = 1
        /\ ~Switching(p) /\ states[u][p].stage \in Playing => row[p].volume = ordered[u][p]

\* The volume of a scenario is its stage's part of the order.
PlayedAt(u, p) ==
    Settled(u, p) =>
        LET s == states[u][p] IN
        /\ s.stage \in {"AUTHORIZED", "HUNDRED_PERCENT"} => s.volume = ordered[u][p]
        /\ s.stage = "TEN_PERCENT"    => 10 * s.volume = ordered[u][p]
        /\ s.stage = "NINETY_PERCENT" => 10 * s.volume = 9 * ordered[u][p]

\* A supply that is done is in `totals', or about to be.
DoneAt(u, p) ==
    Settled(u, p) /\ states[u][p].stage = "HUNDRED_PERCENT" =>
        \/ p \in totalled
        \/ /\ fiscal[u].pc = "total"
           /\ fiscal[u].reply.pump = p /\ fiscal[u].reply.done
           /\ Commanding(u, p)

InvAt(u, p) ==
    /\ AwakeAt(u, p)
    /\ ApartAt(u, p)
    /\ CopyAt(u, p)
    /\ SwitchedAt(u, p)
    /\ RowAt(u, p)
    /\ JournalAt(u, p)
    /\ OrderAt(u, p)
    /\ PlayedAt(u, p)
    /\ DoneAt(u, p)

\* There is a last reply to repeat once a sale is played.
ReplyInv ==
    \A u \in FiscalLines :
        /\ (\E p \in Pumps : states[u][p].stage \in Playing) => lastStateResponse[u] # NoReply
        /\ fiscal[u].pc \in SaleSteps => lastStateResponse[u] # NoReply

Inv ==
    /\ TypeOK
    /\ ReplyInv
    /\ \A u \in FiscalLines, p \in Pumps : InvAt(u, p)

-----------------------------------------------------------------------------
(***************************************************************************)
(* The shapes of the threads' states.                                      *)
(***************************************************************************)

LEMMA FiscalShape ==
    ASSUME NEW f \in FiscalState
    PROVE  /\ f = Reading <=> f.pc = "read"
           /\ f.pc \in {"read", "logic", "stage", "timeout", "authorize", "stop",
                      "volume", "step", "total"}
           /\ f.pc # "read" => f.cmd \in Cmd
           /\ f.pc = "timeout" => f = [pc |-> "timeout", cmd |-> f.cmd]
           /\ f.pc \in SaleSteps => f.stage \in Playing
           /\ f.pc = "step" => f.volume \in Nat
           /\ f.pc = "total" => f.reply \in Reply
  BY DEF FiscalState, Reading, SaleSteps

LEMMA JsonShape ==
    ASSUME json \in JsonState
    PROVE  /\ json = NoSwitch <=> json.pc = "idle"
           /\ json.pc \in {"idle", "lines", "assign", "time"}
           /\ json.pc # "idle" => json.pump \in Pumps /\ json.todo \in SUBSET FiscalLines
           /\ json.pc \in {"assign", "time"} => json.line \in FiscalLines
           /\ json.pc = "assign" =>
                 /\ json.parts \in SUBSET Parts
                 /\ json = [pc |-> "assign", pump |-> json.pump, todo |-> json.todo,
                            line |-> json.line, parts |-> json.parts]
  <1>1. CASE json = NoSwitch
    BY <1>1 DEF NoSwitch
  <1>2. CASE json \in [pc : {"lines"}, pump : Pumps, todo : SUBSET FiscalLines]
    <2> json.pc = "lines" /\ json.pump \in Pumps /\ json.todo \in SUBSET FiscalLines
      BY <1>2
    <2> QED BY DEF NoSwitch
  <1>3. CASE json \in [pc : {"assign"}, pump : Pumps, todo : SUBSET FiscalLines,
                       line : FiscalLines, parts : SUBSET Parts]
    <2> /\ json.pc = "assign" /\ json.pump \in Pumps /\ json.todo \in SUBSET FiscalLines
        /\ json.line \in FiscalLines /\ json.parts \in SUBSET Parts
      BY <1>3
    <2> json = [pc |-> "assign", pump |-> json.pump, todo |-> json.todo,
                line |-> json.line, parts |-> json.parts]
      BY <1>3
    <2> QED BY DEF NoSwitch
  <1>4. CASE json \in [pc : {"time"}, pump : Pumps, todo : SUBSET FiscalLines,
                       line : FiscalLines]
    <2> /\ json.pc = "time" /\ json.pump \in Pumps /\ json.todo \in SUBSET FiscalLines
        /\ json.line \in FiscalLines
      BY <1>4
    <2> QED BY DEF NoSwitch
  <1> QED BY <1>1, <1>2, <1>3, <1>4 DEF JsonState

\* What each step of a fiscal thread leaves in hand.
LEMMA FiscalStates ==
    ASSUME NEW cmd \in Cmd
    PROVE  /\ Reading \in FiscalState
           /\ \A pc \in {"logic", "stage", "timeout", "authorize", "stop"} :
                 [pc |-> pc, cmd |-> cmd] \in FiscalState
           /\ \A s \in Playing : [pc |-> "volume", cmd |-> cmd, stage |-> s] \in FiscalState
           /\ \A s \in Playing, v \in Nat :
                 [pc |-> "step", cmd |-> cmd, stage |-> s, volume |-> v] \in FiscalState
           /\ \A r \in Reply : [pc |-> "total", cmd |-> cmd, reply |-> r] \in FiscalState
  BY DEF FiscalState

LEMMA VolumesAreNatural == Volumes \subseteq Nat /\ 0 \in Volumes
  BY OrdersAssumption DEF Volumes

LEMMA CommandsAreTyped == Commands \subseteq Cmd
  BY DEF Commands, Cmd, Volumes

-----------------------------------------------------------------------------
(***************************************************************************)
(* Types.  RepeatLastResponse repeats a reply only if there is one: that   *)
(* is ReplyInv, which is proved together with the types.                   *)
(***************************************************************************)

LEMMA RowIsTyped ==
    ASSUME TypeOK, NEW cmd \in Cmd
    PROVE  UpdateSimulationFromCmd(cmd) \in [Pumps -> [state : 0..3, volume : Volumes]]
  <1> cmd.pump \in Pumps /\ cmd.volume \in Volumes
    BY DEF Cmd
  <1> QED BY DEF TypeOK, UpdateSimulationFromCmd

\* The stage and the volume that a status request leads to.
LEMMA StepIsTyped ==
    ASSUME NEW s \in NozzleLogicState, NEW stage \in Playing, stage # "HUNDRED_PERCENT",
           NEW v \in Nat
    PROVE  /\ NextStage(stage) \in Playing
           /\ NextVolume(stage, v) \in Nat
           /\ UpdateState(s, NextStage(stage), NextVolume(stage, v)) \in NozzleLogicState
           /\ UpdateState(s, NextStage(stage), NextVolume(stage, v)).stage = NextStage(stage)
           /\ UpdateState(s, NextStage(stage), NextVolume(stage, v)).logic = s.logic
  <1>1. NextStage(stage) \in Playing
    BY DEF NextStage, Playing, Stage
  <1>2. NextVolume(stage, v) \in Nat
    <2>1. v \div 10 \in Nat /\ 9 * v \in Nat /\ (10 * v) \div 9 \in Nat
      OBVIOUS
    <2> QED BY <2>1 DEF NextVolume, Playing, Stage
  <1> QED BY <1>1, <1>2 DEF UpdateState, NozzleLogicState, Playing

\* One scenario, time stamp or order changes, and the others do not.
LEMMA PutOne ==
    ASSUME TypeOK, NEW u \in FiscalLines, NEW p \in Pumps, NEW s \in NozzleLogicState
    PROVE  /\ Put(u, p, s) \in [FiscalLines -> [Pumps -> NozzleLogicState]]
           /\ \A w \in FiscalLines, q \in Pumps :
                 Put(u, p, s)[w][q] = IF w = u /\ q = p THEN s ELSE states[w][q]
  BY DEF TypeOK, Put

LEMMA StampOne ==
    ASSUME TypeOK, NEW u \in FiscalLines, NEW p \in Pumps
    PROVE  Stamped(u, p) \in [FiscalLines -> [Pumps -> {NoStamp} \cup 0..Waiting + 1]]
  <1> 0 \in 0..Waiting + 1
    BY WaitingAssumption
  <1> QED BY DEF TypeOK, Stamped

LEMMA OrderOne ==
    ASSUME TypeOK, NEW u \in FiscalLines, NEW p \in Pumps, NEW v \in Volumes
    PROVE  /\ Order(u, p, v) \in [FiscalLines -> [Pumps -> Volumes]]
           /\ \A w \in FiscalLines, q \in Pumps :
                 Order(u, p, v)[w][q] = IF w = u /\ q = p THEN v ELSE ordered[w][q]
  BY DEF TypeOK, Order

LEMMA PutKeepsStage ==
    ASSUME TypeOK, NEW u \in FiscalLines, NEW p \in Pumps, NEW s \in NozzleLogicState,
           s.stage = states[u][p].stage
    PROVE  \A w \in FiscalLines, q \in Pumps : Put(u, p, s)[w][q].stage = states[w][q].stage
  <1> TAKE w \in FiscalLines, q \in Pumps
  <1>1. Put(u, p, s)[w][q] = IF w = u /\ q = p THEN s ELSE states[w][q]
    BY PutOne
  <1> QED BY <1>1

LEMMA PutIdle ==
    ASSUME TypeOK, NEW u \in FiscalLines, NEW p \in Pumps, NEW s \in NozzleLogicState,
           s.stage = "IDLE"
    PROVE  \A w \in FiscalLines, q \in Pumps :
              Put(u, p, s)[w][q].stage \in Playing => states[w][q].stage \in Playing
  <1> TAKE w \in FiscalLines, q \in Pumps
  <1>1. Put(u, p, s)[w][q] = IF w = u /\ q = p THEN s ELSE states[w][q]
    BY PutOne
  <1> QED BY <1>1 DEF Playing

\* A scenario whose logic, volume or stage is changed is one.
LEMMA ChangedIsTyped ==
    ASSUME NEW s \in NozzleLogicState
    PROVE  /\ [s EXCEPT !.logic = "IDLE"] \in NozzleLogicState
           /\ [s EXCEPT !.logic = "IDLE"].stage = s.stage
           /\ [s EXCEPT !.logic = "IDLE"].volume = s.volume
           /\ [s EXCEPT !.logic = "IDLE"].logic = "IDLE"
           /\ [s EXCEPT !.logic = "SLEEP"] \in NozzleLogicState
           /\ [s EXCEPT !.logic = "SLEEP"].stage = s.stage
           /\ [s EXCEPT !.logic = "SLEEP"].volume = s.volume
           /\ [s EXCEPT !.logic = "SLEEP"].logic = "SLEEP"
           /\ [s EXCEPT !.logic = "SLEEP", !.volume = 0] \in NozzleLogicState
           /\ [s EXCEPT !.logic = "SLEEP", !.volume = 0].stage = s.stage
           /\ [s EXCEPT !.logic = "SLEEP", !.volume = 0].logic = "SLEEP"
           /\ [s EXCEPT !.stage = "IDLE"] \in NozzleLogicState
           /\ [s EXCEPT !.stage = "IDLE"].stage = "IDLE"
           /\ [s EXCEPT !.stage = "IDLE"].logic = s.logic
  BY DEF NozzleLogicState, Stage

LEMMA TypingInit == Init => TypeOK /\ ReplyInv
  <1> SUFFICES ASSUME Init PROVE TypeOK /\ ReplyInv
    OBVIOUS
  <1> USE DEF Init
  <1>1. Off \in NozzleLogicState
    BY DEF Off, NozzleLogicState, Stage
  <1>2. Reading \in FiscalState /\ NoSwitch \in JsonState
    BY DEF FiscalState, JsonState
  <1>3. TypeOK
    BY <1>1, <1>2, SwitchesAssumption, VolumesAreNatural DEF TypeOK
  <1>4. ReplyInv
    BY DEF ReplyInv, Off, Playing, Reading, SaleSteps
  <1> QED BY <1>3, <1>4

LEMMA TypingStep == TypeOK /\ ReplyInv /\ [Next]_vars => TypeOK' /\ ReplyInv'
  <1> SUFFICES ASSUME TypeOK, ReplyInv, [Next]_vars PROVE TypeOK' /\ ReplyInv'
    OBVIOUS
  <1>1. ASSUME NEW u \in FiscalLines, NEW cmd \in Commands, CheckKassaUpdates(u, cmd)
        PROVE  TypeOK' /\ ReplyInv'
    <2>1. cmd \in Cmd /\ cmd.pump \in Pumps
      BY CommandsAreTyped DEF Cmd, TypeOK
    <2>2. row' \in [Pumps -> [state : 0..3, volume : Volumes]]
      BY <1>1, <2>1, RowIsTyped DEF CheckKassaUpdates
    <2>3. fiscal' \in [FiscalLines -> FiscalState]
      BY <1>1, <2>1, FiscalStates DEF CheckKassaUpdates, TypeOK
    <2>4. overlapped' \in SUBSET (FiscalLines \X Pumps)
      BY <1>1, <2>1 DEF CheckKassaUpdates, TypeOK
    <2>5. TypeOK'
      BY <1>1, <2>2, <2>3, <2>4 DEF CheckKassaUpdates, TypeOK
    <2>6. ReplyInv'
      BY <1>1 DEF CheckKassaUpdates, ReplyInv, SaleSteps, TypeOK
    <2> QED BY <2>5, <2>6
  <1>2. ASSUME NEW u \in FiscalLines, ReadLogic(u) PROVE TypeOK' /\ ReplyInv'
    <2>1. fiscal[u].cmd \in Cmd
      BY <1>2, FiscalShape DEF ReadLogic, TypeOK
    <2>2. fiscal' \in [FiscalLines -> FiscalState]
      BY <1>2, <2>1, FiscalStates DEF ReadLogic, TypeOK
    <2>3. TypeOK'
      BY <1>2, <2>2 DEF ReadLogic, journal, history, TypeOK
    <2>4. ReplyInv'
      BY <1>2 DEF ReadLogic, ReplyInv, SaleSteps, Reading, TypeOK
    <2> QED BY <2>3, <2>4
  <1>3. ASSUME NEW u \in FiscalLines, ReadStage(u) PROVE TypeOK' /\ ReplyInv'
    <2>1. fiscal[u].cmd \in Cmd /\ fiscal[u].cmd.pump \in Pumps
      BY <1>3, FiscalShape DEF ReadStage, Cmd, TypeOK
    <2>2. states[u][fiscal[u].cmd.pump].stage \in Stage
      BY <2>1 DEF NozzleLogicState, TypeOK
    <2>3. fiscal' \in [FiscalLines -> FiscalState]
      BY <1>3, <2>1, <2>2, FiscalStates DEF ReadStage, Playing, TypeOK
    <2>4. TypeOK'
      BY <1>3, <2>3 DEF ReadStage, journal, history, TypeOK
    <2>5. ReplyInv'
      BY <1>3, <2>1, <2>2
         DEF ReadStage, ReplyInv, SaleSteps, Playing, journal, history, TypeOK
    <2> QED BY <2>4, <2>5
  <1>4. ASSUME NEW u \in FiscalLines, CheckActivityTime(u) PROVE TypeOK' /\ ReplyInv'
    <2> DEFINE p == fiscal[u].cmd.pump
    <2>1. fiscal[u].cmd \in Cmd /\ p \in Pumps
      BY <1>4, FiscalShape DEF CheckActivityTime, Cmd, TypeOK
    <2>2. states[u][p] \in NozzleLogicState
      BY <2>1 DEF TypeOK
    <2>3. /\ fiscal' = [fiscal EXCEPT ![u] = [pc |-> "authorize", cmd |-> fiscal[u].cmd]]
          /\ states' = states \/ states' = Put(u, p, [states[u][p] EXCEPT !.logic = "IDLE"])
      <3>1. fiscal[u] = [pc |-> "timeout", cmd |-> fiscal[u].cmd]
        BY <1>4, FiscalShape DEF CheckActivityTime, TypeOK
      <3>2. fiscal' = [fiscal EXCEPT ![u] = [fiscal[u] EXCEPT !.pc = "authorize"]]
        BY <1>4 DEF CheckActivityTime, TypeOK
      <3>3. [fiscal[u] EXCEPT !.pc = "authorize"] = [pc |-> "authorize", cmd |-> fiscal[u].cmd]
        BY <3>1
      <3>4. states' = states \/ states' = Put(u, p, [states[u][p] EXCEPT !.logic = "IDLE"])
        BY <1>4 DEF CheckActivityTime
      <3> QED BY <3>2, <3>3, <3>4
    <2> HIDE DEF p
    <2>4. fiscal' \in [FiscalLines -> FiscalState]
      BY <2>1, <2>3, FiscalStates DEF TypeOK
    <2>5. states' \in [FiscalLines -> [Pumps -> NozzleLogicState]]
      <3>1. CASE states' = states
        BY <3>1 DEF TypeOK
      <3>2. CASE states' = Put(u, p, [states[u][p] EXCEPT !.logic = "IDLE"])
        BY <2>1, <2>2, <3>2, PutOne, ChangedIsTyped
      <3> QED BY <2>3, <3>1, <3>2
    <2>6. \A w \in FiscalLines, q \in Pumps : states'[w][q].stage = states[w][q].stage
      <3> DEFINE s == [states[u][p] EXCEPT !.logic = "IDLE"]
      <3>1. s \in NozzleLogicState /\ s.stage = states[u][p].stage
        BY <2>2, ChangedIsTyped
      <3>2. states' = states \/ states' = Put(u, p, s)
        BY <2>3
      <3> HIDE DEF s
      <3> QED BY <2>1, <3>1, <3>2, PutKeepsStage
    <2>7. TypeOK'
      BY <1>4, <2>1, <2>4, <2>5 DEF CheckActivityTime, journal, TypeOK, p
    <2>8. ReplyInv'
      BY <1>4, <2>3, <2>6 DEF CheckActivityTime, ReplyInv, SaleSteps, TypeOK
    <2> QED BY <2>7, <2>8
  <1>5. ASSUME NEW u \in FiscalLines, OperateSleepIdle(u) PROVE TypeOK' /\ ReplyInv'
    <2> DEFINE cmd == fiscal[u].cmd
    <2>1. cmd \in Cmd /\ cmd.pump \in Pumps /\ cmd.volume \in Volumes
      BY <1>5, FiscalShape DEF OperateSleepIdle, Cmd, TypeOK
    <2>2. NewOrder(cmd.volume) \in NozzleLogicState
      BY <2>1, VolumesAreNatural DEF NewOrder, NozzleLogicState, Stage, TypeOK
    <2>3. [pump |-> cmd.pump, done |-> FALSE] \in Reply
      BY <2>1 DEF Reply, TypeOK
    <2>4. fiscal' = [fiscal EXCEPT ![u] = Reading] /\ fiscal' \in [FiscalLines -> FiscalState]
      BY <1>5, <2>1, FiscalStates DEF OperateSleepIdle, TypeOK
    <2>a. CASE cmd.type # "WRITE_VOLUME"
      <3>1. /\ states' = states /\ elapsed' = elapsed /\ ordered' = ordered
            /\ lastStateResponse' = lastStateResponse
        BY <1>5, <2>a DEF OperateSleepIdle
      <3>2. TypeOK'
        BY <1>5, <2>4, <3>1 DEF OperateSleepIdle, journal, TypeOK
      <3>3. ReplyInv'
        BY <2>4, <3>1 DEF ReplyInv, SaleSteps, Reading, TypeOK
      <3> QED BY <3>2, <3>3
    <2>b. CASE cmd.type = "WRITE_VOLUME"
      <3>1. /\ states' = Put(u, cmd.pump, NewOrder(cmd.volume))
            /\ elapsed' = Stamped(u, cmd.pump)
            /\ ordered' = Order(u, cmd.pump, cmd.volume)
            /\ lastStateResponse' =
                 [lastStateResponse EXCEPT ![u] = [pump |-> cmd.pump, done |-> FALSE]]
        BY <1>5, <2>b DEF OperateSleepIdle, KeepReply
      <3>2. states' \in [FiscalLines -> [Pumps -> NozzleLogicState]]
        BY <2>1, <2>2, <3>1, PutOne
      <3>3. elapsed' \in [FiscalLines -> [Pumps -> {NoStamp} \cup 0..Waiting + 1]]
        BY <2>1, <3>1, StampOne
      <3>4. ordered' \in [FiscalLines -> [Pumps -> Volumes]]
        BY <2>1, <3>1, OrderOne
      <3>5. lastStateResponse' \in [FiscalLines -> Reply \cup {NoReply}]
        BY <2>3, <3>1 DEF TypeOK
      <3>6. TypeOK'
        BY <1>5, <2>4, <3>2, <3>3, <3>4, <3>5 DEF OperateSleepIdle, journal, TypeOK
      <3>7. [pump |-> cmd.pump, done |-> FALSE] # NoReply
        BY DEF NoReply
      <3>8. \A w \in FiscalLines \ {u} : states'[w] = states[w]
        BY <3>1 DEF Put, TypeOK
      <3>9. ReplyInv'
        BY <2>4, <3>1, <3>7, <3>8 DEF ReplyInv, SaleSteps, Reading, TypeOK
      <3> QED BY <3>6, <3>9
    <2> QED BY <2>a, <2>b
  <1>6. ASSUME NEW u \in FiscalLines, ReadVolume(u) PROVE TypeOK' /\ ReplyInv'
    <2>1. /\ fiscal[u].cmd \in Cmd /\ fiscal[u].cmd.pump \in Pumps
          /\ fiscal[u].stage \in Playing
          /\ fiscal[u].pc \in SaleSteps
      BY <1>6, FiscalShape DEF ReadVolume, SaleSteps, Cmd, TypeOK
    <2>2. states[u][fiscal[u].cmd.pump].volume \in Nat
      BY <2>1 DEF NozzleLogicState, TypeOK
    <2>3. fiscal' \in [FiscalLines -> FiscalState]
      BY <1>6, <2>1, <2>2, FiscalStates DEF ReadVolume, TypeOK
    <2>4. TypeOK'
      BY <1>6, <2>3 DEF ReadVolume, journal, history, TypeOK
    <2>5. ReplyInv'
      BY <1>6, <2>1 DEF ReadVolume, ReplyInv, TypeOK
    <2> QED BY <2>4, <2>5
  <1>7. ASSUME NEW u \in FiscalLines, StepSale(u) PROVE TypeOK' /\ ReplyInv'
    <2> DEFINE f == fiscal[u]
               p == f.cmd.pump
               reply == [pump |-> p, done |-> f.stage = "NINETY_PERCENT"]
               new == UpdateState(states[u][p], NextStage(f.stage), NextVolume(f.stage, f.volume))
    <2>1. /\ f.cmd \in Cmd /\ p \in Pumps
          /\ f.stage \in Playing /\ f.volume \in Nat
          /\ f.stage # "HUNDRED_PERCENT"
          /\ f.pc \in SaleSteps
      BY <1>7, FiscalShape DEF StepSale, SaleSteps, Cmd, TypeOK
    <2>2. reply \in Reply
      BY <2>1 DEF Reply, TypeOK
    <2>3. reply # NoReply
      BY <2>1 DEF NoReply, TypeOK
    <2>4. new \in NozzleLogicState
      BY <2>1, StepIsTyped DEF TypeOK
    <2>5. /\ states' = Put(u, p, new)
          /\ lastStateResponse' = [lastStateResponse EXCEPT ![u] = reply]
          /\ fiscal' = [fiscal EXCEPT ![u] = [pc |-> "total", cmd |-> f.cmd, reply |-> reply]]
      BY <1>7 DEF StepSale, KeepReply, TypeOK
    <2> HIDE DEF f, p, reply, new
    <2>6. states' \in [FiscalLines -> [Pumps -> NozzleLogicState]]
      BY <2>1, <2>4, <2>5, PutOne
    <2>7. fiscal' \in [FiscalLines -> FiscalState]
      BY <2>1, <2>2, <2>5, FiscalStates DEF TypeOK
    <2>8. lastStateResponse' \in [FiscalLines -> Reply \cup {NoReply}]
      BY <2>2, <2>5 DEF TypeOK
    <2>9. TypeOK'
      BY <1>7, <2>6, <2>7, <2>8 DEF StepSale, journal, history, TypeOK
    <2>10. \A w \in FiscalLines \ {u} : states'[w] = states[w]
      BY <2>5 DEF Put, TypeOK
    <2>11. ReplyInv'
      BY <2>3, <2>5, <2>10 DEF ReplyInv, SaleSteps, TypeOK
    <2> QED BY <2>9, <2>11
  <1>8. ASSUME NEW u \in FiscalLines, StopSale(u) PROVE TypeOK' /\ ReplyInv'
    <2> DEFINE p == fiscal[u].cmd.pump
    <2>1. fiscal[u].cmd \in Cmd /\ p \in Pumps
      BY <1>8, FiscalShape DEF StopSale, Cmd, TypeOK
    <2>2. Off \in NozzleLogicState /\ Off.stage = "IDLE"
      BY DEF Off, NozzleLogicState, Stage, TypeOK
    <2>3. /\ states' = Put(u, p, Off)
          /\ fiscal' = [fiscal EXCEPT ![u] = [pc |-> "stop", cmd |-> fiscal[u].cmd]]
      BY <1>8 DEF StopSale, TypeOK
    <2> HIDE DEF p
    <2>4. states' \in [FiscalLines -> [Pumps -> NozzleLogicState]]
      BY <2>1, <2>2, <2>3, PutOne
    <2>5. fiscal' \in [FiscalLines -> FiscalState]
      BY <2>1, <2>3, FiscalStates DEF TypeOK
    <2>6. TypeOK'
      BY <1>8, <2>4, <2>5 DEF StopSale, journal, history, TypeOK
    <2>7. \A w \in FiscalLines, q \in Pumps :
             states'[w][q].stage \in Playing => states[w][q].stage \in Playing
      BY <2>1, <2>2, <2>3, PutIdle
    <2>8. ReplyInv'
      BY <1>8, <2>3, <2>7 DEF StopSale, ReplyInv, SaleSteps, TypeOK
    <2> QED BY <2>6, <2>8
  <1>8a. ASSUME NEW u \in FiscalLines, StopLogic(u) PROVE TypeOK' /\ ReplyInv'
    <2> DEFINE p == fiscal[u].cmd.pump
               s == [states[u][p] EXCEPT !.logic = "IDLE"]
    <2>1. p \in Pumps
      BY <1>8a, FiscalShape DEF StopLogic, Cmd, TypeOK
    <2>2. s \in NozzleLogicState /\ s.stage = states[u][p].stage
      <3>1. states[u][p] \in NozzleLogicState
        BY <2>1 DEF TypeOK
      <3> QED BY <3>1, ChangedIsTyped
    <2>3. /\ states' = Put(u, p, s)
          /\ fiscal' = [fiscal EXCEPT ![u] = Reading]
      BY <1>8a DEF StopLogic
    <2> HIDE DEF p, s
    <2>4. states' \in [FiscalLines -> [Pumps -> NozzleLogicState]]
      BY <2>1, <2>2, <2>3, PutOne
    <2>5. fiscal' \in [FiscalLines -> FiscalState]
      BY <2>3 DEF FiscalState, TypeOK
    <2>6. TypeOK'
      BY <1>8a, <2>4, <2>5 DEF StopLogic, journal, history, TypeOK
    <2>7. \A w \in FiscalLines, q \in Pumps : states'[w][q].stage = states[w][q].stage
      BY <2>1, <2>2, <2>3, PutKeepsStage
    <2>8. ReplyInv'
      <3>1. \A w \in FiscalLines : fiscal'[w].pc \in SaleSteps => fiscal[w].pc \in SaleSteps
        BY <2>3 DEF Reading, SaleSteps, TypeOK
      <3>2. lastStateResponse' = lastStateResponse
        BY <1>8a DEF StopLogic
      <3> QED BY <2>7, <3>1, <3>2 DEF ReplyInv
    <2> QED BY <2>6, <2>8
  <1>9. ASSUME NEW u \in FiscalLines, RepeatLastResponse(u) PROVE TypeOK' /\ ReplyInv'
    <2>1. fiscal[u].cmd \in Cmd /\ fiscal[u].pc \in SaleSteps
      BY <1>9, FiscalShape DEF RepeatLastResponse, SaleSteps, TypeOK
    <2>2. lastStateResponse[u] \in Reply
      BY <2>1 DEF ReplyInv, TypeOK
    <2>3. fiscal' \in [FiscalLines -> FiscalState]
      BY <1>9, <2>1, <2>2, FiscalStates DEF RepeatLastResponse, TypeOK
    <2>4. TypeOK'
      BY <1>9, <2>3 DEF RepeatLastResponse, journal, history, TypeOK
    <2>5. ReplyInv'
      BY <1>9 DEF RepeatLastResponse, ReplyInv, SaleSteps, TypeOK
    <2> QED BY <2>4, <2>5
  <1>10. ASSUME NEW u \in FiscalLines, ProcessReply(u) PROVE TypeOK' /\ ReplyInv'
    <2>1. fiscal[u].reply \in Reply
      BY <1>10, FiscalShape DEF ProcessReply, TypeOK
    <2>2. totalled' \in SUBSET Pumps
      BY <1>10, <2>1 DEF ProcessReply, AddKassaTotals, Reply, TypeOK
    <2>3. fiscal' \in [FiscalLines -> FiscalState]
      BY <1>10 DEF ProcessReply, FiscalState, TypeOK
    <2>4. TypeOK'
      BY <1>10, <2>2, <2>3 DEF ProcessReply, history, TypeOK
    <2>5. ReplyInv'
      BY <1>10 DEF ProcessReply, ReplyInv, SaleSteps, Reading, TypeOK
    <2> QED BY <2>4, <2>5
  <1>11. ASSUME NEW p \in Pumps, AddSimulation(p) PROVE TypeOK' /\ ReplyInv'
    <2>1. json' \in JsonState
      BY <1>11 DEF AddSimulation, JsonState, TypeOK
    <2>2. row' \in [Pumps -> [state : 0..3, volume : Volumes]]
      BY <1>11, VolumesAreNatural DEF AddSimulation, TypeOK
    <2>3. switches' \in 0..MaxSwitches
      BY <1>11, SwitchesAssumption DEF AddSimulation, TypeOK
    <2>4. overlapped' \in SUBSET (FiscalLines \X Pumps)
      BY <1>11 DEF AddSimulation, TypeOK
    <2>5. TypeOK'
      BY <1>11, <2>1, <2>2, <2>3, <2>4 DEF AddSimulation, TypeOK
    <2>6. ReplyInv'
      BY <1>11 DEF AddSimulation, ReplyInv, TypeOK
    <2> QED BY <2>5, <2>6
  <1>12. ASSUME NEW u \in FiscalLines, NextScenario(u) PROVE TypeOK' /\ ReplyInv'
    <2>1. json.pump \in Pumps /\ json.todo \ {u} \in SUBSET FiscalLines
      BY <1>12, JsonShape DEF NextScenario, TypeOK
    <2>2. json' \in JsonState
      BY <1>12, <2>1 DEF NextScenario, JsonState, TypeOK
    <2> QED BY <1>12, <2>2 DEF NextScenario, ReplyInv, journal, history, TypeOK
  <1>13. ASSUME LastScenario PROVE TypeOK' /\ ReplyInv'
    BY <1>13 DEF LastScenario, ReplyInv, JsonState, journal, history, TypeOK
  <1>14. ASSUME AssignLogic PROVE TypeOK' /\ ReplyInv'
    <2>1. /\ json.pump \in Pumps /\ json.line \in FiscalLines
          /\ json.todo \in SUBSET FiscalLines /\ json.parts \in SUBSET Parts
      BY <1>14, JsonShape DEF AssignLogic, TypeOK
    <2>1a. /\ states[json.line][json.pump] \in NozzleLogicState
           /\ states' = Put(json.line, json.pump,
                            [states[json.line][json.pump] EXCEPT !.logic = "SLEEP", !.volume = 0])
      BY <1>14, <2>1 DEF AssignLogic, TypeOK
    <2>2. json' \in JsonState
      <3>1. json = [pc |-> "assign", pump |-> json.pump, todo |-> json.todo,
                    line |-> json.line, parts |-> json.parts]
        BY <1>14, JsonShape DEF AssignLogic, TypeOK
      <3>2. json' = [pc |-> "assign", pump |-> json.pump, todo |-> json.todo,
                     line |-> json.line, parts |-> json.parts \ {"logic and volume"}]
        BY <1>14, <3>1 DEF AssignLogic, TypeOK
      <3>3. json.parts \ {"logic and volume"} \in SUBSET Parts
        BY <2>1 DEF TypeOK
      <3> QED BY <2>1, <3>2, <3>3 DEF JsonState
    <2>3. states' \in [FiscalLines -> [Pumps -> NozzleLogicState]]
      BY <2>1, <2>1a, PutOne, ChangedIsTyped
    <2>4. TypeOK'
      BY <1>14, <2>2, <2>3 DEF AssignLogic, journal, TypeOK
    <2>5. \A w \in FiscalLines, q \in Pumps : states'[w][q].stage = states[w][q].stage
      <3> DEFINE s == [states[json.line][json.pump] EXCEPT !.logic = "SLEEP", !.volume = 0]
      <3>1. s \in NozzleLogicState /\ s.stage = states[json.line][json.pump].stage
        BY <2>1a, ChangedIsTyped
      <3>2. states' = Put(json.line, json.pump, s)
        BY <2>1a
      <3> HIDE DEF s
      <3> QED BY <2>1, <3>1, <3>2, PutKeepsStage
    <2>6. ReplyInv'
      BY <1>14, <2>5 DEF AssignLogic, ReplyInv, TypeOK
    <2> QED BY <2>4, <2>6
  <1>15. ASSUME AssignStage PROVE TypeOK' /\ ReplyInv'
    <2>1. /\ json.pump \in Pumps /\ json.line \in FiscalLines
          /\ json.todo \in SUBSET FiscalLines /\ json.parts \in SUBSET Parts
      BY <1>15, JsonShape DEF AssignStage, TypeOK
    <2>1a. /\ states[json.line][json.pump] \in NozzleLogicState
           /\ states' = Put(json.line, json.pump,
                            [states[json.line][json.pump] EXCEPT !.stage = "IDLE"])
      BY <1>15, <2>1 DEF AssignStage, TypeOK
    <2>2. json' \in JsonState
      <3>1. json = [pc |-> "assign", pump |-> json.pump, todo |-> json.todo,
                    line |-> json.line, parts |-> json.parts]
        BY <1>15, JsonShape DEF AssignStage, TypeOK
      <3>2. json' = [pc |-> "assign", pump |-> json.pump, todo |-> json.todo,
                     line |-> json.line, parts |-> json.parts \ {"stage"}]
        BY <1>15, <3>1 DEF AssignStage, TypeOK
      <3>3. json.parts \ {"stage"} \in SUBSET Parts
        BY <2>1 DEF TypeOK
      <3> QED BY <2>1, <3>2, <3>3 DEF JsonState
    <2>3. states' \in [FiscalLines -> [Pumps -> NozzleLogicState]]
      BY <2>1, <2>1a, PutOne, ChangedIsTyped
    <2>4. TypeOK'
      BY <1>15, <2>2, <2>3 DEF AssignStage, journal, history, TypeOK
    <2>5. \A w \in FiscalLines, q \in Pumps :
             states'[w][q].stage \in Playing => states[w][q].stage \in Playing
      <3> DEFINE s == [states[json.line][json.pump] EXCEPT !.stage = "IDLE"]
      <3>1. s \in NozzleLogicState /\ s.stage = "IDLE"
        BY <2>1a, ChangedIsTyped
      <3>2. states' = Put(json.line, json.pump, s)
        BY <2>1a
      <3> HIDE DEF s
      <3> QED BY <2>1, <3>1, <3>2, PutIdle
    <2>6. ReplyInv'
      BY <1>15, <2>5 DEF AssignStage, ReplyInv, TypeOK
    <2> QED BY <2>4, <2>6
  <1>16. ASSUME SetLogicType PROVE TypeOK' /\ ReplyInv'
    <2>1. /\ json.pump \in Pumps /\ json.line \in FiscalLines
          /\ json.todo \in SUBSET FiscalLines
      BY <1>16, JsonShape DEF SetLogicType, TypeOK
    <2>1a. /\ states[json.line][json.pump] \in NozzleLogicState
           /\ states' = Put(json.line, json.pump,
                            [states[json.line][json.pump] EXCEPT !.logic = "SLEEP"])
      BY <1>16, <2>1 DEF SetLogicType, TypeOK
    <2>2. json' \in JsonState
      BY <1>16, <2>1 DEF SetLogicType, JsonState, TypeOK
    <2>3. states' \in [FiscalLines -> [Pumps -> NozzleLogicState]]
      BY <2>1, <2>1a, PutOne, ChangedIsTyped
    <2>4. TypeOK'
      BY <1>16, <2>2, <2>3 DEF SetLogicType, journal, TypeOK
    <2>5. \A w \in FiscalLines, q \in Pumps : states'[w][q].stage = states[w][q].stage
      <3> DEFINE s == [states[json.line][json.pump] EXCEPT !.logic = "SLEEP"]
      <3>1. s \in NozzleLogicState /\ s.stage = states[json.line][json.pump].stage
        BY <2>1a, ChangedIsTyped
      <3>2. states' = Put(json.line, json.pump, s)
        BY <2>1a
      <3> HIDE DEF s
      <3> QED BY <2>1, <3>1, <3>2, PutKeepsStage
    <2>6. ReplyInv'
      BY <1>16, <2>5 DEF SetLogicType, ReplyInv, TypeOK
    <2> QED BY <2>4, <2>6
  <1>17. ASSUME SetTime PROVE TypeOK' /\ ReplyInv'
    <2>1. /\ json.pump \in Pumps /\ json.line \in FiscalLines
          /\ json.todo \in SUBSET FiscalLines
      BY <1>17, JsonShape DEF SetTime, TypeOK
    <2>2. json' \in JsonState
      BY <1>17, <2>1 DEF SetTime, JsonState, TypeOK
    <2>3. elapsed' \in [FiscalLines -> [Pumps -> {NoStamp} \cup 0..Waiting + 1]]
      <3>1. elapsed' = Stamped(json.line, json.pump)
        BY <1>17 DEF SetTime
      <3> QED BY <2>1, <3>1, StampOne
    <2> QED BY <1>17, <2>2, <2>3 DEF SetTime, ReplyInv, journal, history, TypeOK
  <1>18. ASSUME Tick PROVE TypeOK' /\ ReplyInv'
    <2>1. elapsed' \in [FiscalLines -> [Pumps -> {NoStamp} \cup 0..Waiting + 1]]
      BY <1>18, WaitingAssumption DEF Tick, NoStamp, TypeOK
    <2> QED BY <1>18, <2>1 DEF Tick, ReplyInv, journal, history, TypeOK
  <1>19. CASE UNCHANGED vars
    BY <1>19 DEF vars, ReplyInv, TypeOK
  <1> QED BY <1>1, <1>2, <1>3, <1>4, <1>5, <1>6, <1>7, <1>8, <1>8a, <1>9, <1>10, <1>11,
             <1>12, <1>13, <1>14, <1>15, <1>16, <1>17, <1>18, <1>19
          DEF Next, FiscalThread, Operate, JsonThread

-----------------------------------------------------------------------------
(***************************************************************************)
(* The invariant, scenario by scenario.                                    *)
(***************************************************************************)

LEMMA InvInit == Init => Inv
  <1> SUFFICES ASSUME Init, NEW u \in FiscalLines, NEW p \in Pumps PROVE InvAt(u, p)
    BY TypingInit DEF Inv
  <1>1. /\ states[u][p] = Off /\ fiscal[u] = Reading /\ json = NoSwitch
    BY DEF Init
  <1>2. ~Commanding(u, p) /\ ~Switching(p)
    BY <1>1 DEF Commanding, Switching
  <1> QED BY <1>1, <1>2
             DEF Off, Playing, InvAt, AwakeAt, ApartAt, CopyAt, SwitchedAt, RowAt,
                           JournalAt, OrderAt, Waits, PlayedAt, DoneAt

\* A step that leaves a scenario, its row and its thread's command for its pump
\* alone, and does not switch its pump.
LEMMA Elsewhere ==
    ASSUME NEW u \in FiscalLines, NEW p \in Pumps, InvAt(u, p),
           states'[u][p] = states[u][p],
           \/ fiscal'[u] = fiscal[u]
           \/ ~Commanding(u, p) /\ ~Commanding(u, p)',
           \/ json' = json
           \/ ~Switching(p) /\ ~Switching(p)',
           row'[p] = row[p],
           p \in totalled => p \in totalled',
           Undisturbed(u, p)' <=> Undisturbed(u, p),
           ordered'[u][p] = ordered[u][p]
    PROVE  InvAt(u, p)'
  <1>1. AwakeAt(u, p)'
    BY DEF InvAt, AwakeAt, Settled, Undisturbed, Commanding, Switching, IdleSteps, SaleSteps
  <1>2. ApartAt(u, p)'
    BY DEF InvAt, ApartAt, Settled, Undisturbed, Commanding, Switching
  <1>3. CopyAt(u, p)'
    BY DEF InvAt, CopyAt, Settled, Undisturbed, Commanding, Switching, SaleSteps
  <1>4. SwitchedAt(u, p)'
    BY DEF InvAt, SwitchedAt, Settled, Undisturbed, Commanding, Switching
  <1>5. RowAt(u, p)'
    BY DEF InvAt, RowAt, Settled, Undisturbed, Commanding, Switching
  <1>6. JournalAt(u, p)'
    BY DEF InvAt, JournalAt, Settled, Undisturbed, Commanding, Switching
  <1>7. OrderAt(u, p)'
    BY DEF InvAt, OrderAt, Settled, Undisturbed, Commanding, Switching, Waits, IdleSteps
  <1>8. PlayedAt(u, p)'
    BY DEF InvAt, PlayedAt, Settled, Undisturbed, Commanding, Switching
  <1>9. DoneAt(u, p)'
    BY DEF InvAt, DoneAt, Settled, Undisturbed, Commanding, Switching
  <1> QED BY <1>1, <1>2, <1>3, <1>4, <1>5, <1>6, <1>7, <1>8, <1>9 DEF InvAt

-----------------------------------------------------------------------------
(***************************************************************************)
(* The steps of a fiscal thread.                                           *)
(***************************************************************************)

\* A step of the thread of line u that handles a command for pump p and changes
\* no other scenario.
LEMMA OneScenario ==
    ASSUME Inv, NEW u \in FiscalLines, NEW p \in Pumps, Commanding(u, p),
           fiscal'[u] # Reading => fiscal'[u].cmd = fiscal[u].cmd,
           \A w \in FiscalLines \ {u} : fiscal'[w] = fiscal[w],
           \A w \in FiscalLines, q \in Pumps :
              w # u \/ q # p => /\ states'[w][q] = states[w][q]
                                /\ ordered'[w][q] = ordered[w][q],
           json' = json, row' = row, totalled \subseteq totalled', overlapped' = overlapped,
           InvAt(u, p)'
    PROVE  \A w \in FiscalLines, q \in Pumps : InvAt(w, q)'
  <1> TAKE w \in FiscalLines, q \in Pumps
  <1>1. CASE w = u /\ q = p
    BY <1>1
  <1>2. CASE w # u \/ q # p
    <2>1. /\ states'[w][q] = states[w][q] /\ ordered'[w][q] = ordered[w][q]
          /\ row'[q] = row[q] /\ (q \in totalled => q \in totalled')
          /\ InvAt(w, q)
      BY <1>2 DEF Inv
    <2>2. Undisturbed(w, q)' <=> Undisturbed(w, q)
      BY DEF Undisturbed
    <2>3. \/ fiscal'[w] = fiscal[w]
          \/ ~Commanding(w, q) /\ ~Commanding(w, q)'
      BY <1>2 DEF Commanding
    <2> QED BY <2>1, <2>2, <2>3, Elsewhere
  <1> QED BY <1>1, <1>2

\* A status request keeps the volume its stage's part of the order.
LEMMA PlayNext ==
    ASSUME NEW o \in Volumes, NEW stage \in Playing, stage # "HUNDRED_PERCENT", NEW v \in Nat,
           stage = "AUTHORIZED"     => v = o,
           stage = "TEN_PERCENT"    => 10 * v = o,
           stage = "NINETY_PERCENT" => 10 * v = 9 * o,
           NEW n \in Nat,
           n = IF NextVolume(stage, v) = 0 THEN v ELSE NextVolume(stage, v)
    PROVE  /\ NextStage(stage) \notin {"IDLE", "AUTHORIZED"}
           /\ NextStage(stage) = "TEN_PERCENT"     => 10 * n = o
           /\ NextStage(stage) = "NINETY_PERCENT"  => 10 * n = 9 * o
           /\ NextStage(stage) = "HUNDRED_PERCENT" => n = o
  <1>1. PICK r \in Nat : o = 10 * r
    BY OrdersAssumption DEF Volumes
  <1>2. CASE stage = "AUTHORIZED"
    <2>1. NextVolume(stage, v) = r /\ NextStage(stage) = "TEN_PERCENT"
      <3>1. (10 * r) \div 10 = r
        OBVIOUS
      <3> QED BY <1>1, <1>2, <3>1 DEF NextVolume, NextStage
    <2>2. 10 * n = o
      BY <1>1, <1>2, <2>1
    <2> QED BY <2>1, <2>2
  <1>3. CASE stage = "TEN_PERCENT"
    <2>1. NextVolume(stage, v) = 9 * v /\ NextStage(stage) = "NINETY_PERCENT"
      BY <1>3 DEF NextVolume, NextStage
    <2>2. n = 9 * v
      BY <2>1
    <2>3. 10 * n = 9 * o
      BY <1>3, <2>2
    <2> QED BY <2>1, <2>3
  <1>4. CASE stage = "NINETY_PERCENT"
    <2>1. v = 9 * r
      BY <1>1, <1>4
    <2>2. (10 * v) \div 9 = 10 * r
      <3>1. (90 * r) \div 9 = 10 * r /\ 10 * v = 90 * r
        BY <2>1
      <3> QED BY <3>1
    <2>3. NextVolume(stage, v) = 10 * r /\ NextStage(stage) = "HUNDRED_PERCENT"
      BY <1>4, <2>2 DEF NextVolume, NextStage
    <2>4. n = o
      BY <1>1, <2>1, <2>3
    <2> QED BY <2>3, <2>4
  <1> QED BY <1>2, <1>3, <1>4 DEF Playing, Stage

LEMMA ReadLogicInv ==
    ASSUME Inv, NEW u \in FiscalLines, NEW p \in Pumps, Commanding(u, p), ReadLogic(u)
    PROVE  \A w \in FiscalLines, q \in Pumps : InvAt(w, q)'
  <1>1. TypeOK /\ InvAt(u, p)
    BY DEF Inv
  <1>2. /\ fiscal[u] # Reading /\ fiscal[u].cmd.pump = p
        /\ fiscal[u] \in FiscalState /\ states[u][p] \in NozzleLogicState
    BY <1>1 DEF Commanding, TypeOK
  <1>3. /\ fiscal[u].pc = "logic"
        /\ fiscal' = [fiscal EXCEPT ![u] = IF states[u][p].logic = "IDLE" THEN Reading
                                           ELSE [pc |-> "stage", cmd |-> fiscal[u].cmd]]
        /\ UNCHANGED <<states, ordered, json, row, totalled, overlapped>>
    BY <1>2 DEF ReadLogic, journal, history
  <1>3a. /\ states[u][p].logic = "IDLE" => fiscal'[u] = Reading
         /\ states[u][p].logic # "IDLE" => fiscal'[u] = [pc |-> "stage", cmd |-> fiscal[u].cmd]
         /\ \A w \in FiscalLines \ {u} : fiscal'[w] = fiscal[w]
    BY <1>1, <1>3 DEF TypeOK
  <1>3b. states[u][p].logic \in {"IDLE", "SLEEP"}
    BY <1>2 DEF NozzleLogicState
  <1>3c. Waits(u, p)' => Waits(u, p) /\ Commanding(u, p)'
    BY <1>1, <1>2, <1>3, <1>3a, <1>3b
       DEF Waits, Commanding, IdleSteps, Reading, InvAt, AwakeAt
  <1>4. InvAt(u, p)'
    <2>1. AwakeAt(u, p)'
      BY <1>1, <1>2, <1>3, <1>3a, <1>3b DEF InvAt, AwakeAt, Commanding, IdleSteps, SaleSteps
    <2>2. ApartAt(u, p)'
      BY <1>1, <1>2, <1>3, <1>3a, <1>3b
         DEF InvAt, ApartAt, Undisturbed, Commanding, Switching
    <2>3. CopyAt(u, p)'
      BY <1>1, <1>2, <1>3, <1>3a, <1>3b
         DEF InvAt, CopyAt, Undisturbed, Commanding, SaleSteps
    <2>4. SwitchedAt(u, p)'
      BY <1>1, <1>2, <1>3, <1>3a, <1>3b DEF InvAt, SwitchedAt, Undisturbed, Switching
    <2>5. RowAt(u, p)'
      BY <1>1, <1>2, <1>3, <1>3a, <1>3b DEF InvAt, RowAt, Commanding, Switching, Reading
    <2>6. JournalAt(u, p)'
      BY <1>1, <1>2, <1>3, <1>3a, <1>3b
         DEF InvAt, JournalAt, Settled, Undisturbed, Commanding, Switching
    <2>7. OrderAt(u, p)'
      BY <1>1, <1>2, <1>3, <1>3a, <1>3b, <1>3c
         DEF InvAt, OrderAt, Undisturbed, Commanding, Switching
    <2>8. PlayedAt(u, p)'
      BY <1>1, <1>2, <1>3, <1>3a, <1>3b DEF InvAt, PlayedAt, Settled, Undisturbed, Switching
    <2>9. DoneAt(u, p)'
      BY <1>1, <1>2, <1>3, <1>3a, <1>3b
         DEF InvAt, DoneAt, Settled, Undisturbed, Commanding, Switching
    <2> QED BY <2>1, <2>2, <2>3, <2>4, <2>5, <2>6, <2>7, <2>8, <2>9 DEF InvAt
  <1>5. /\ fiscal'[u] # Reading => fiscal'[u].cmd = fiscal[u].cmd
        /\ totalled \subseteq totalled'
        /\ \A w \in FiscalLines, q \in Pumps :
              w # u \/ q # p => /\ states'[w][q] = states[w][q]
                                /\ ordered'[w][q] = ordered[w][q]
    BY <1>3, <1>3a, <1>3b
  <1> QED BY <1>3, <1>3a, <1>4, <1>5, OneScenario

LEMMA ReadStageInv ==
    ASSUME Inv, NEW u \in FiscalLines, NEW p \in Pumps, Commanding(u, p), ReadStage(u)
    PROVE  \A w \in FiscalLines, q \in Pumps : InvAt(w, q)'
  <1>1. TypeOK /\ InvAt(u, p)
    BY DEF Inv
  <1>2. /\ fiscal[u] # Reading /\ fiscal[u].cmd.pump = p
        /\ fiscal[u] \in FiscalState /\ states[u][p] \in NozzleLogicState
    BY <1>1 DEF Commanding, TypeOK
  <1>3. /\ fiscal[u].pc = "stage"
        /\ fiscal' = [fiscal EXCEPT ![u] =
                        IF states[u][p].stage = "IDLE"
                        THEN [pc |-> "timeout", cmd |-> fiscal[u].cmd]
                        ELSE [pc |-> "volume", cmd |-> fiscal[u].cmd, stage |-> states[u][p].stage]]
        /\ UNCHANGED <<states, ordered, json, row, totalled, overlapped>>
    BY <1>2 DEF ReadStage, journal, history
  <1>3a. /\ states[u][p].stage = "IDLE" => fiscal'[u] = [pc |-> "timeout", cmd |-> fiscal[u].cmd]
         /\ states[u][p].stage # "IDLE" =>
               fiscal'[u] = [pc |-> "volume", cmd |-> fiscal[u].cmd, stage |-> states[u][p].stage]
         /\ \A w \in FiscalLines \ {u} : fiscal'[w] = fiscal[w]
    BY <1>1, <1>3 DEF TypeOK
  <1>3b. states[u][p].stage # "IDLE" => states[u][p].stage \in Playing
    BY <1>2 DEF NozzleLogicState, Playing
  <1>3c. Waits(u, p)' => Waits(u, p) /\ Commanding(u, p)'
    BY <1>1, <1>2, <1>3, <1>3a, <1>3b
       DEF Waits, Commanding, IdleSteps, Reading, InvAt, AwakeAt
  <1>4. InvAt(u, p)'
    <2>1. AwakeAt(u, p)'
      BY <1>1, <1>2, <1>3, <1>3a, <1>3b DEF InvAt, AwakeAt, Commanding, IdleSteps, SaleSteps
    <2>2. ApartAt(u, p)'
      BY <1>1, <1>2, <1>3, <1>3a, <1>3b
         DEF InvAt, ApartAt, Undisturbed, Commanding, Switching
    <2>3. CopyAt(u, p)'
      BY <1>1, <1>2, <1>3, <1>3a, <1>3b
         DEF InvAt, CopyAt, Undisturbed, Commanding, SaleSteps
    <2>4. SwitchedAt(u, p)'
      BY <1>1, <1>2, <1>3, <1>3a, <1>3b DEF InvAt, SwitchedAt, Undisturbed, Switching
    <2>5. RowAt(u, p)'
      BY <1>1, <1>2, <1>3, <1>3a, <1>3b DEF InvAt, RowAt, Commanding, Switching
    <2>6. JournalAt(u, p)'
      BY <1>1, <1>2, <1>3, <1>3a, <1>3b
         DEF InvAt, JournalAt, Settled, Undisturbed, Commanding, Switching
    <2>7. OrderAt(u, p)'
      BY <1>1, <1>2, <1>3, <1>3a, <1>3b, <1>3c
         DEF InvAt, OrderAt, Undisturbed, Commanding, Switching
    <2>8. PlayedAt(u, p)'
      BY <1>1, <1>2, <1>3, <1>3a, <1>3b DEF InvAt, PlayedAt, Settled, Undisturbed, Switching
    <2>9. DoneAt(u, p)'
      BY <1>1, <1>2, <1>3, <1>3a, <1>3b
         DEF InvAt, DoneAt, Settled, Undisturbed, Commanding, Switching
    <2> QED BY <2>1, <2>2, <2>3, <2>4, <2>5, <2>6, <2>7, <2>8, <2>9 DEF InvAt
  <1>5. /\ fiscal'[u] # Reading => fiscal'[u].cmd = fiscal[u].cmd
        /\ totalled \subseteq totalled'
        /\ \A w \in FiscalLines, q \in Pumps :
              w # u \/ q # p => /\ states'[w][q] = states[w][q]
                                /\ ordered'[w][q] = ordered[w][q]
    BY <1>3, <1>3a, <1>3b
  <1> QED BY <1>3, <1>3a, <1>4, <1>5, OneScenario

LEMMA CheckActivityTimeInv ==
    ASSUME Inv, NEW u \in FiscalLines, NEW p \in Pumps, Commanding(u, p), CheckActivityTime(u)
    PROVE  \A w \in FiscalLines, q \in Pumps : InvAt(w, q)'
  <1>1. TypeOK /\ InvAt(u, p)
    BY DEF Inv
  <1>2. /\ fiscal[u] # Reading /\ fiscal[u].cmd.pump = p
        /\ fiscal[u] \in FiscalState /\ states[u][p] \in NozzleLogicState
    BY <1>1 DEF Commanding, TypeOK
  <1>3. /\ fiscal[u].pc = "timeout"
        /\ fiscal' = [fiscal EXCEPT ![u].pc = "authorize"]
        /\ \/ states' = states
           \/ states' = Put(u, p, [states[u][p] EXCEPT !.logic = "IDLE"])
        /\ UNCHANGED <<ordered, json, row, totalled, overlapped>>
    BY <1>2 DEF CheckActivityTime, journal
  <1>3a. /\ fiscal'[u] = [pc |-> "authorize", cmd |-> fiscal[u].cmd]
         /\ \A w \in FiscalLines \ {u} : fiscal'[w] = fiscal[w]
    BY <1>1, <1>2, <1>3, FiscalShape DEF TypeOK
  <1>3b. /\ states'[u][p].stage = states[u][p].stage
         /\ states'[u][p].volume = states[u][p].volume
         /\ states'[u][p].logic = "SLEEP" => states[u][p].logic = "SLEEP"
         /\ \A w \in FiscalLines, q \in Pumps : w # u \/ q # p => states'[w][q] = states[w][q]
    <2> DEFINE s == [states[u][p] EXCEPT !.logic = "IDLE"]
    <2>1. /\ s \in NozzleLogicState /\ s.stage = states[u][p].stage
          /\ s.volume = states[u][p].volume /\ s.logic = "IDLE"
      BY <1>2, ChangedIsTyped
    <2>2. states' = states \/ states' = Put(u, p, s)
      BY <1>3
    <2> HIDE DEF s
    <2>3. CASE states' = Put(u, p, s)
      BY <1>1, <2>1, <2>3, PutOne
    <2> QED BY <2>2, <2>3
  <1>3c. Waits(u, p)' => Waits(u, p) /\ Commanding(u, p)'
    BY <1>1, <1>2, <1>3, <1>3a, <1>3b
       DEF Waits, Commanding, IdleSteps, Reading, InvAt, AwakeAt
  <1>4. InvAt(u, p)'
    <2>1. AwakeAt(u, p)'
      BY <1>1, <1>2, <1>3, <1>3a, <1>3b
         DEF InvAt, AwakeAt, Commanding, IdleSteps, SaleSteps, Playing
    <2>2. ApartAt(u, p)'
      BY <1>1, <1>2, <1>3, <1>3a, <1>3b
         DEF InvAt, ApartAt, Undisturbed, Commanding, Switching
    <2>3. CopyAt(u, p)'
      BY <1>1, <1>2, <1>3, <1>3a, <1>3b
         DEF InvAt, CopyAt, Undisturbed, Commanding, SaleSteps
    <2>4. SwitchedAt(u, p)'
      BY <1>1, <1>2, <1>3, <1>3a, <1>3b DEF InvAt, SwitchedAt, Undisturbed, Switching
    <2>5. RowAt(u, p)'
      BY <1>1, <1>2, <1>3, <1>3a, <1>3b DEF InvAt, RowAt, Commanding, Switching
    <2>6. JournalAt(u, p)'
      BY <1>1, <1>2, <1>3, <1>3a, <1>3b
         DEF InvAt, JournalAt, Settled, Undisturbed, Commanding, Switching
    <2>7. OrderAt(u, p)'
      BY <1>1, <1>2, <1>3, <1>3a, <1>3b, <1>3c
         DEF InvAt, OrderAt, Undisturbed, Commanding, Switching, Playing
    <2>8. PlayedAt(u, p)'
      BY <1>1, <1>2, <1>3, <1>3a, <1>3b DEF InvAt, PlayedAt, Settled, Undisturbed, Switching
    <2>9. DoneAt(u, p)'
      BY <1>1, <1>2, <1>3, <1>3a, <1>3b
         DEF InvAt, DoneAt, Settled, Undisturbed, Commanding, Switching
    <2> QED BY <2>1, <2>2, <2>3, <2>4, <2>5, <2>6, <2>7, <2>8, <2>9 DEF InvAt
  <1>5. /\ fiscal'[u] # Reading => fiscal'[u].cmd = fiscal[u].cmd
        /\ totalled \subseteq totalled'
        /\ \A w \in FiscalLines, q \in Pumps :
              w # u \/ q # p => /\ states'[w][q] = states[w][q]
                                /\ ordered'[w][q] = ordered[w][q]
    BY <1>3, <1>3a, <1>3b
  <1> QED BY <1>3, <1>3a, <1>4, <1>5, OneScenario

LEMMA OperateSleepIdleInv ==
    ASSUME Inv, NEW u \in FiscalLines, NEW p \in Pumps, Commanding(u, p), OperateSleepIdle(u)
    PROVE  \A w \in FiscalLines, q \in Pumps : InvAt(w, q)'
  <1>1. TypeOK /\ InvAt(u, p)
    BY DEF Inv
  <1>2. /\ fiscal[u] # Reading /\ fiscal[u].cmd.pump = p
        /\ fiscal[u] \in FiscalState /\ states[u][p] \in NozzleLogicState
    BY <1>1 DEF Commanding, TypeOK
  <1>3. /\ fiscal[u].pc = "authorize"
        /\ fiscal' = [fiscal EXCEPT ![u] = Reading]
        /\ UNCHANGED <<json, row, totalled, overlapped>>
    BY <1>2 DEF OperateSleepIdle, journal
  <1>3a. /\ fiscal'[u] = Reading
         /\ \A w \in FiscalLines \ {u} : fiscal'[w] = fiscal[w]
    BY <1>1, <1>3 DEF TypeOK
  <1>3b. /\ fiscal[u].cmd.type # "WRITE_VOLUME" => states' = states /\ ordered' = ordered
         /\ fiscal[u].cmd.type = "WRITE_VOLUME" =>
               /\ states'[u][p].logic = "SLEEP" /\ states'[u][p].stage = "AUTHORIZED"
               /\ states'[u][p].volume = fiscal[u].cmd.volume
               /\ ordered'[u][p] = fiscal[u].cmd.volume
         /\ \A w \in FiscalLines, q \in Pumps :
               w # u \/ q # p => states'[w][q] = states[w][q] /\ ordered'[w][q] = ordered[w][q]
    <2> DEFINE v == fiscal[u].cmd.volume
               s == NewOrder(v)
    <2>1. v \in Volumes /\ v \in Nat
      BY <1>2, <1>3, FiscalShape, VolumesAreNatural DEF Cmd
    <2>2. s \in NozzleLogicState /\ s.logic = "SLEEP" /\ s.stage = "AUTHORIZED" /\ s.volume = v
      BY <2>1 DEF NewOrder, NozzleLogicState, Stage
    <2>3. IF fiscal[u].cmd.type = "WRITE_VOLUME"
          THEN states' = Put(u, p, s) /\ ordered' = Order(u, p, v)
          ELSE states' = states /\ ordered' = ordered
      BY <1>2 DEF OperateSleepIdle
    <2> HIDE DEF v, s
    <2>4. CASE fiscal[u].cmd.type = "WRITE_VOLUME"
      <3>1. states' = Put(u, p, s) /\ ordered' = Order(u, p, v)
        BY <2>3, <2>4
      <3>2. \A w \in FiscalLines, q \in Pumps :
               states'[w][q] = IF w = u /\ q = p THEN s ELSE states[w][q]
        BY <1>1, <2>2, <3>1, PutOne
      <3>3. \A w \in FiscalLines, q \in Pumps :
               ordered'[w][q] = IF w = u /\ q = p THEN v ELSE ordered[w][q]
        <4>1. \A w \in FiscalLines, q \in Pumps :
                 Order(u, p, v)[w][q] = IF w = u /\ q = p THEN v ELSE ordered[w][q]
          BY <1>1, <2>1, OrderOne
        <4> QED BY <3>1, <4>1
      <3> QED BY <2>2, <2>4, <3>2, <3>3 DEF v
    <2> QED BY <2>3, <2>4
  <1>3c. row[p].state \in 0..3
    BY <1>1 DEF TypeOK
  <1>4. InvAt(u, p)'
    <2>1. AwakeAt(u, p)'
      BY <1>1, <1>2, <1>3, <1>3a, <1>3b DEF InvAt, AwakeAt, Commanding, IdleSteps, SaleSteps
    <2>2. ApartAt(u, p)'
      BY <1>1, <1>2, <1>3, <1>3a, <1>3b
         DEF InvAt, ApartAt, Undisturbed, Commanding, Switching, Reading
    <2>3. CopyAt(u, p)'
      BY <1>1, <1>2, <1>3, <1>3a, <1>3b
         DEF InvAt, CopyAt, Undisturbed, Commanding, SaleSteps
    <2>4. SwitchedAt(u, p)'
      BY <1>1, <1>2, <1>3, <1>3a, <1>3b
         DEF InvAt, SwitchedAt, Undisturbed, Switching, ApartAt, Commanding
    <2>5. RowAt(u, p)'
      BY <1>1, <1>2, <1>3, <1>3a, <1>3b DEF InvAt, RowAt, Commanding, Switching
    <2>6. JournalAt(u, p)'
      BY <1>1, <1>2, <1>3, <1>3a, <1>3b, <1>3c DEF InvAt, JournalAt, Settled, Undisturbed,
         Commanding, Switching, RowAt, AwakeAt, ApartAt, IdleSteps, Playing
    <2>7. OrderAt(u, p)'
      BY <1>1, <1>2, <1>3, <1>3a, <1>3b DEF InvAt, OrderAt, Undisturbed, Commanding,
         Switching, Waits, IdleSteps, AwakeAt, Playing, Reading
    <2>8. PlayedAt(u, p)'
      BY <1>1, <1>2, <1>3, <1>3a, <1>3b DEF InvAt, PlayedAt, Settled, Undisturbed, Switching
    <2>9. DoneAt(u, p)'
      BY <1>1, <1>2, <1>3, <1>3a, <1>3b
         DEF InvAt, DoneAt, Settled, Undisturbed, Commanding, Switching
    <2> QED BY <2>1, <2>2, <2>3, <2>4, <2>5, <2>6, <2>7, <2>8, <2>9 DEF InvAt
  <1>5. /\ fiscal'[u] # Reading => fiscal'[u].cmd = fiscal[u].cmd
        /\ totalled \subseteq totalled'
        /\ \A w \in FiscalLines, q \in Pumps :
              w # u \/ q # p => /\ states'[w][q] = states[w][q]
                                /\ ordered'[w][q] = ordered[w][q]
    BY <1>3, <1>3a, <1>3b
  <1> QED BY <1>3, <1>3a, <1>4, <1>5, OneScenario

LEMMA ReadVolumeInv ==
    ASSUME Inv, NEW u \in FiscalLines, NEW p \in Pumps, Commanding(u, p), ReadVolume(u)
    PROVE  \A w \in FiscalLines, q \in Pumps : InvAt(w, q)'
  <1>1. TypeOK /\ InvAt(u, p)
    BY DEF Inv
  <1>2. /\ fiscal[u] # Reading /\ fiscal[u].cmd.pump = p
        /\ fiscal[u] \in FiscalState /\ states[u][p] \in NozzleLogicState
    BY <1>1 DEF Commanding, TypeOK
  <1>3. /\ fiscal[u].pc = "volume"
        /\ fiscal' = [fiscal EXCEPT ![u] =
                        [pc |-> "step", cmd |-> fiscal[u].cmd, stage |-> fiscal[u].stage,
                         volume |-> states[u][p].volume]]
        /\ UNCHANGED <<states, ordered, json, row, totalled, overlapped>>
    BY <1>2 DEF ReadVolume, journal, history
  <1>3a. /\ fiscal'[u] = [pc |-> "step", cmd |-> fiscal[u].cmd, stage |-> fiscal[u].stage,
                          volume |-> states[u][p].volume]
         /\ \A w \in FiscalLines \ {u} : fiscal'[w] = fiscal[w]
    BY <1>1, <1>3 DEF TypeOK
  <1>3b. fiscal[u].stage \in Playing
    BY <1>2, <1>3, FiscalShape DEF SaleSteps
  <1>3c. Waits(u, p)' => Waits(u, p) /\ Commanding(u, p)'
    BY <1>1, <1>2, <1>3, <1>3a, <1>3b
       DEF Waits, Commanding, IdleSteps, Reading, InvAt, AwakeAt
  <1>4. InvAt(u, p)'
    <2>1. AwakeAt(u, p)'
      BY <1>1, <1>2, <1>3, <1>3a, <1>3b DEF InvAt, AwakeAt, Commanding, IdleSteps, SaleSteps
    <2>2. ApartAt(u, p)'
      BY <1>1, <1>2, <1>3, <1>3a, <1>3b
         DEF InvAt, ApartAt, Undisturbed, Commanding, Switching
    <2>3. CopyAt(u, p)'
      BY <1>1, <1>2, <1>3, <1>3a, <1>3b
         DEF InvAt, CopyAt, Undisturbed, Commanding, SaleSteps
    <2>4. SwitchedAt(u, p)'
      BY <1>1, <1>2, <1>3, <1>3a, <1>3b DEF InvAt, SwitchedAt, Undisturbed, Switching
    <2>5. RowAt(u, p)'
      BY <1>1, <1>2, <1>3, <1>3a, <1>3b DEF InvAt, RowAt, Commanding, Switching
    <2>6. JournalAt(u, p)'
      BY <1>1, <1>2, <1>3, <1>3a, <1>3b
         DEF InvAt, JournalAt, Settled, Undisturbed, Commanding, Switching
    <2>7. OrderAt(u, p)'
      BY <1>1, <1>2, <1>3, <1>3a, <1>3b, <1>3c
         DEF InvAt, OrderAt, Undisturbed, Commanding, Switching
    <2>8. PlayedAt(u, p)'
      BY <1>1, <1>2, <1>3, <1>3a, <1>3b DEF InvAt, PlayedAt, Settled, Undisturbed, Switching
    <2>9. DoneAt(u, p)'
      BY <1>1, <1>2, <1>3, <1>3a, <1>3b
         DEF InvAt, DoneAt, Settled, Undisturbed, Commanding, Switching
    <2> QED BY <2>1, <2>2, <2>3, <2>4, <2>5, <2>6, <2>7, <2>8, <2>9 DEF InvAt
  <1>5. /\ fiscal'[u] # Reading => fiscal'[u].cmd = fiscal[u].cmd
        /\ totalled \subseteq totalled'
        /\ \A w \in FiscalLines, q \in Pumps :
              w # u \/ q # p => /\ states'[w][q] = states[w][q]
                                /\ ordered'[w][q] = ordered[w][q]
    BY <1>3, <1>3a, <1>3b
  <1> QED BY <1>3, <1>3a, <1>4, <1>5, OneScenario

LEMMA StepSaleInv ==
    ASSUME Inv, NEW u \in FiscalLines, NEW p \in Pumps, Commanding(u, p), StepSale(u)
    PROVE  \A w \in FiscalLines, q \in Pumps : InvAt(w, q)'
  <1>1. TypeOK /\ InvAt(u, p)
    BY DEF Inv
  <1>2. /\ fiscal[u] # Reading /\ fiscal[u].cmd.pump = p
        /\ fiscal[u] \in FiscalState /\ states[u][p] \in NozzleLogicState
    BY <1>1 DEF Commanding, TypeOK
  <1>3. /\ fiscal[u].pc = "step"
        /\ fiscal[u].cmd.type = "STATUS_REQUEST"
        /\ fiscal[u].stage # "HUNDRED_PERCENT"
        /\ fiscal' = [fiscal EXCEPT ![u] =
                        [pc |-> "total", cmd |-> fiscal[u].cmd,
                         reply |-> [pump |-> p, done |-> fiscal[u].stage = "NINETY_PERCENT"]]]
        /\ UNCHANGED <<ordered, json, row, totalled, overlapped>>
    BY <1>2 DEF StepSale, journal, history
  <1>3a. /\ fiscal'[u] = [pc |-> "total", cmd |-> fiscal[u].cmd,
                          reply |-> [pump |-> p, done |-> fiscal[u].stage = "NINETY_PERCENT"]]
         /\ \A w \in FiscalLines \ {u} : fiscal'[w] = fiscal[w]
    BY <1>1, <1>3 DEF TypeOK
  <1>3d. fiscal[u].stage \in Playing /\ fiscal[u].volume \in Nat
    BY <1>2, <1>3, FiscalShape DEF SaleSteps
  <1>3b. /\ states'[u][p].stage = NextStage(fiscal[u].stage)
         /\ states'[u][p].logic = states[u][p].logic
         /\ states'[u][p].volume = IF NextVolume(fiscal[u].stage, fiscal[u].volume) = 0
                                   THEN states[u][p].volume
                                   ELSE NextVolume(fiscal[u].stage, fiscal[u].volume)
         /\ NextStage(fiscal[u].stage) \in Playing
         /\ states'[u][p].volume \in Nat
         /\ \A w \in FiscalLines, q \in Pumps : w # u \/ q # p => states'[w][q] = states[w][q]
    <2> DEFINE v == NextVolume(fiscal[u].stage, fiscal[u].volume)
               s == UpdateState(states[u][p], NextStage(fiscal[u].stage), v)
    <2>1. /\ s \in NozzleLogicState /\ s.stage = NextStage(fiscal[u].stage)
          /\ s.logic = states[u][p].logic /\ NextStage(fiscal[u].stage) \in Playing
      BY <1>2, <1>3, <1>3d, StepIsTyped
    <2>2. s.volume = IF v = 0 THEN states[u][p].volume ELSE v
      BY <1>2 DEF UpdateState, NozzleLogicState
    <2>3. s.volume \in Nat
      BY <2>1 DEF NozzleLogicState
    <2>4. states' = Put(u, p, s)
      BY <1>2 DEF StepSale
    <2> HIDE DEF s
    <2> QED BY <1>1, <2>1, <2>2, <2>3, <2>4, PutOne
  <1>3c. Waits(u, p)' => Waits(u, p) /\ Commanding(u, p)'
    BY <1>3b DEF Waits, Playing
  <1>3e. states'[u][p].stage = "HUNDRED_PERCENT" =>
            fiscal'[u].reply.pump = p /\ fiscal'[u].reply.done
    <2>1. states'[u][p].stage = "HUNDRED_PERCENT" => fiscal[u].stage = "NINETY_PERCENT"
      BY <1>3, <1>3b, <1>3d DEF NextStage, Playing, Stage
    <2>2. fiscal'[u].reply = [pump |-> p, done |-> fiscal[u].stage = "NINETY_PERCENT"]
      BY <1>3a
    <2>3. fiscal'[u].reply.pump = p /\ fiscal'[u].reply.done = (fiscal[u].stage = "NINETY_PERCENT")
      BY <2>2
    <2> QED BY <2>1, <2>3
  <1>4. InvAt(u, p)'
    <2>1. AwakeAt(u, p)'
      BY <1>1, <1>2, <1>3, <1>3a, <1>3b, <1>3d
         DEF InvAt, AwakeAt, Commanding, IdleSteps, SaleSteps, CopyAt
    <2>2. ApartAt(u, p)'
      BY <1>1, <1>2, <1>3, <1>3a, <1>3b, <1>3d
         DEF InvAt, ApartAt, Undisturbed, Commanding, Switching
    <2>3. CopyAt(u, p)'
      BY <1>1, <1>2, <1>3, <1>3a, <1>3b, <1>3d
         DEF InvAt, CopyAt, Undisturbed, Commanding, SaleSteps
    <2>4. SwitchedAt(u, p)'
      BY <1>1, <1>2, <1>3, <1>3a, <1>3b, <1>3d
         DEF InvAt, SwitchedAt, Undisturbed, Switching, ApartAt, Commanding
    <2>5. RowAt(u, p)'
      BY <1>1, <1>2, <1>3, <1>3a, <1>3b, <1>3d DEF InvAt, RowAt, Commanding, Switching
    <2>6. JournalAt(u, p)'
      BY <1>1, <1>2, <1>3, <1>3a, <1>3b, <1>3d DEF InvAt, JournalAt, Settled, Undisturbed,
         Commanding, Switching, CopyAt, SaleSteps
    <2>7. OrderAt(u, p)'
      BY <1>1, <1>2, <1>3, <1>3a, <1>3b, <1>3d, <1>3c
         DEF InvAt, OrderAt, Undisturbed, Commanding, Switching, CopyAt, SaleSteps
    <2>8. PlayedAt(u, p)'
      <3>1. CASE Settled(u, p)
        <4> DEFINE o == ordered[u][p]
                   f == fiscal[u]
                   n == states'[u][p].volume
        <4>1. o \in Volumes /\ n \in Nat
          BY <1>1, <1>3b DEF TypeOK
        <4>2. f.stage = states[u][p].stage /\ f.volume = states[u][p].volume
          BY <1>1, <1>2, <1>3, <3>1 DEF InvAt, CopyAt, Settled, SaleSteps
        <4>3. /\ f.stage = "AUTHORIZED"     => f.volume = o
              /\ f.stage = "TEN_PERCENT"    => 10 * f.volume = o
              /\ f.stage = "NINETY_PERCENT" => 10 * f.volume = 9 * o
          BY <1>1, <3>1, <4>2 DEF InvAt, PlayedAt
        <4>4. n = IF NextVolume(f.stage, f.volume) = 0 THEN f.volume
                  ELSE NextVolume(f.stage, f.volume)
          BY <1>3b, <4>2
        <4> HIDE DEF o, f, n
        <4>5. /\ NextStage(f.stage) \notin {"IDLE", "AUTHORIZED"}
              /\ NextStage(f.stage) = "TEN_PERCENT"     => 10 * n = o
              /\ NextStage(f.stage) = "NINETY_PERCENT"  => 10 * n = 9 * o
              /\ NextStage(f.stage) = "HUNDRED_PERCENT" => n = o
          BY <1>3, <1>3d, <4>1, <4>3, <4>4, PlayNext DEF f
        <4>6. ordered'[u][p] = o /\ states'[u][p].volume = n
              /\ states'[u][p].stage = NextStage(f.stage)
          BY <1>3, <1>3b DEF o, n, f
        <4> QED BY <4>5, <4>6 DEF PlayedAt
      <3>2. CASE ~Settled(u, p)
        BY <1>3, <3>2 DEF PlayedAt, Settled, Undisturbed, Switching
      <3> QED BY <3>1, <3>2
    <2>9. DoneAt(u, p)'
      BY <1>1, <1>2, <1>3, <1>3a, <1>3b, <1>3d, <1>3e
         DEF InvAt, DoneAt, Settled, Undisturbed, Commanding, Switching, Reading
    <2> QED BY <2>1, <2>2, <2>3, <2>4, <2>5, <2>6, <2>7, <2>8, <2>9 DEF InvAt
  <1>5. /\ fiscal'[u] # Reading => fiscal'[u].cmd = fiscal[u].cmd
        /\ totalled \subseteq totalled'
        /\ \A w \in FiscalLines, q \in Pumps :
              w # u \/ q # p => /\ states'[w][q] = states[w][q]
                                /\ ordered'[w][q] = ordered[w][q]
    BY <1>3, <1>3a, <1>3b
  <1> QED BY <1>3, <1>3a, <1>4, <1>5, OneScenario

LEMMA StopSaleInv ==
    ASSUME Inv, NEW u \in FiscalLines, NEW p \in Pumps, Commanding(u, p), StopSale(u)
    PROVE  \A w \in FiscalLines, q \in Pumps : InvAt(w, q)'
  <1>1. TypeOK /\ InvAt(u, p)
    BY DEF Inv
  <1>2. /\ fiscal[u] # Reading /\ fiscal[u].cmd.pump = p
        /\ fiscal[u] \in FiscalState /\ states[u][p] \in NozzleLogicState
    BY <1>1 DEF Commanding, TypeOK
  <1>3. /\ fiscal[u].pc = "step" /\ fiscal[u].cmd.type = "STOP_COMMAND"
        /\ fiscal' = [fiscal EXCEPT ![u] = [pc |-> "stop", cmd |-> fiscal[u].cmd]]
        /\ states' = Put(u, p, Off)
        /\ UNCHANGED <<ordered, json, row, totalled, overlapped>>
    BY <1>2 DEF StopSale, journal, history
  <1>3a. /\ fiscal'[u] = [pc |-> "stop", cmd |-> fiscal[u].cmd]
         /\ \A w \in FiscalLines \ {u} : fiscal'[w] = fiscal[w]
    BY <1>1, <1>3 DEF TypeOK
  <1>3b. /\ states'[u][p].stage = "IDLE" /\ states'[u][p].logic = "IDLE"
         /\ \A w \in FiscalLines, q \in Pumps : w # u \/ q # p => states'[w][q] = states[w][q]
    <2>1. Off \in NozzleLogicState /\ Off.stage = "IDLE" /\ Off.logic = "IDLE"
      BY DEF Off, NozzleLogicState, Stage
    <2> QED BY <1>1, <1>3, <2>1, PutOne
  <1>4. InvAt(u, p)'
    <2>1. AwakeAt(u, p)'
      BY <1>1, <1>2, <1>3, <1>3a, <1>3b
         DEF InvAt, AwakeAt, Commanding, IdleSteps, SaleSteps, Playing
    <2>2. ApartAt(u, p)'
      BY <1>1, <1>2, <1>3, <1>3a, <1>3b
         DEF InvAt, ApartAt, Undisturbed, Commanding, Switching
    <2>3. CopyAt(u, p)'
      BY <1>1, <1>2, <1>3, <1>3a, <1>3b
         DEF InvAt, CopyAt, Undisturbed, Commanding, SaleSteps
    <2>4. SwitchedAt(u, p)'
      BY <1>1, <1>2, <1>3, <1>3a, <1>3b DEF InvAt, SwitchedAt, Undisturbed, Switching
    <2>5. RowAt(u, p)'
      BY <1>1, <1>2, <1>3, <1>3a, <1>3b DEF InvAt, RowAt, Commanding, Switching
    <2>6. JournalAt(u, p)'
      BY <1>1, <1>2, <1>3, <1>3a, <1>3b
         DEF InvAt, JournalAt, Settled, Undisturbed, Commanding, Switching, Playing
    <2>7. OrderAt(u, p)'
      BY <1>1, <1>2, <1>3, <1>3a, <1>3b
         DEF InvAt, OrderAt, Undisturbed, Commanding, Switching, Waits, IdleSteps, Playing
    <2>8. PlayedAt(u, p)'
      BY <1>1, <1>2, <1>3, <1>3a, <1>3b DEF InvAt, PlayedAt, Settled, Undisturbed, Switching
    <2>9. DoneAt(u, p)'
      BY <1>1, <1>2, <1>3, <1>3a, <1>3b
         DEF InvAt, DoneAt, Settled, Undisturbed, Commanding, Switching
    <2> QED BY <2>1, <2>2, <2>3, <2>4, <2>5, <2>6, <2>7, <2>8, <2>9 DEF InvAt
  <1>5. /\ fiscal'[u] # Reading => fiscal'[u].cmd = fiscal[u].cmd
        /\ totalled \subseteq totalled'
        /\ \A w \in FiscalLines, q \in Pumps :
              w # u \/ q # p => /\ states'[w][q] = states[w][q]
                                /\ ordered'[w][q] = ordered[w][q]
    BY <1>3, <1>3a, <1>3b
  <1> QED BY <1>3, <1>3a, <1>4, <1>5, OneScenario

LEMMA StopLogicInv ==
    ASSUME Inv, NEW u \in FiscalLines, NEW p \in Pumps, Commanding(u, p), StopLogic(u)
    PROVE  \A w \in FiscalLines, q \in Pumps : InvAt(w, q)'
  <1> DEFINE s == [states[u][p] EXCEPT !.logic = "IDLE"]
  <1>1. TypeOK /\ InvAt(u, p)
    BY DEF Inv
  <1>2. /\ fiscal[u] # Reading /\ fiscal[u].cmd.pump = p
        /\ fiscal[u] \in FiscalState /\ states[u][p] \in NozzleLogicState
    BY <1>1 DEF Commanding, TypeOK
  <1>3. /\ fiscal[u].pc = "stop"
        /\ fiscal' = [fiscal EXCEPT ![u] = Reading]
        /\ states' = Put(u, p, s)
        /\ UNCHANGED <<ordered, json, row, totalled, overlapped>>
    BY <1>2 DEF StopLogic, journal, history
  <1>3a. /\ fiscal'[u] = Reading
         /\ \A w \in FiscalLines \ {u} : fiscal'[w] = fiscal[w]
    BY <1>1, <1>3 DEF TypeOK
  <1>3b. /\ states[u][p].stage = "IDLE"
         /\ states'[u][p].stage = "IDLE" /\ states'[u][p].logic = "IDLE"
         /\ \A w \in FiscalLines, q \in Pumps : w # u \/ q # p => states'[w][q] = states[w][q]
    <2>1. s \in NozzleLogicState /\ s.stage = states[u][p].stage /\ s.logic = "IDLE"
      BY <1>2, ChangedIsTyped
    <2>2. states[u][p].stage = "IDLE"
      BY <1>1, <1>3 DEF InvAt, AwakeAt
    <2> HIDE DEF s
    <2> QED BY <1>1, <1>3, <2>1, <2>2, PutOne
  <1> HIDE DEF s
  <1>4. InvAt(u, p)'
    <2>1. AwakeAt(u, p)'
      BY <1>1, <1>2, <1>3, <1>3a, <1>3b
         DEF InvAt, AwakeAt, Commanding, IdleSteps, SaleSteps, Playing
    <2>2. ApartAt(u, p)'
      BY <1>1, <1>2, <1>3, <1>3a, <1>3b
         DEF InvAt, ApartAt, Undisturbed, Commanding, Switching
    <2>3. CopyAt(u, p)'
      BY <1>1, <1>2, <1>3, <1>3a, <1>3b
         DEF InvAt, CopyAt, Undisturbed, Commanding, SaleSteps
    <2>4. SwitchedAt(u, p)'
      BY <1>1, <1>2, <1>3, <1>3a, <1>3b DEF InvAt, SwitchedAt, Undisturbed, Switching
    <2>5. RowAt(u, p)'
      BY <1>1, <1>2, <1>3, <1>3a, <1>3b DEF InvAt, RowAt, Commanding, Switching
    <2>6. JournalAt(u, p)'
      BY <1>1, <1>2, <1>3, <1>3a, <1>3b
         DEF InvAt, JournalAt, Settled, Undisturbed, Commanding, Switching, Playing
    <2>7. OrderAt(u, p)'
      BY <1>1, <1>2, <1>3, <1>3a, <1>3b
         DEF InvAt, OrderAt, Undisturbed, Commanding, Switching, Waits, Playing
    <2>8. PlayedAt(u, p)'
      BY <1>1, <1>2, <1>3, <1>3a, <1>3b DEF InvAt, PlayedAt, Settled, Undisturbed, Switching
    <2>9. DoneAt(u, p)'
      BY <1>1, <1>2, <1>3, <1>3a, <1>3b
         DEF InvAt, DoneAt, Settled, Undisturbed, Commanding, Switching
    <2> QED BY <2>1, <2>2, <2>3, <2>4, <2>5, <2>6, <2>7, <2>8, <2>9 DEF InvAt
  <1>5. /\ fiscal'[u] # Reading => fiscal'[u].cmd = fiscal[u].cmd
        /\ totalled \subseteq totalled'
        /\ \A w \in FiscalLines, q \in Pumps :
              w # u \/ q # p => /\ states'[w][q] = states[w][q]
                                /\ ordered'[w][q] = ordered[w][q]
    BY <1>3, <1>3a, <1>3b
  <1> QED BY <1>3, <1>3a, <1>4, <1>5, OneScenario

LEMMA RepeatLastResponseInv ==
    ASSUME Inv, NEW u \in FiscalLines, NEW p \in Pumps, Commanding(u, p), RepeatLastResponse(u)
    PROVE  \A w \in FiscalLines, q \in Pumps : InvAt(w, q)'
  <1>1. TypeOK /\ InvAt(u, p)
    BY DEF Inv
  <1>2. /\ fiscal[u] # Reading /\ fiscal[u].cmd.pump = p
        /\ fiscal[u] \in FiscalState /\ states[u][p] \in NozzleLogicState
    BY <1>1 DEF Commanding, TypeOK
  <1>3. /\ fiscal[u].pc = "step"
        /\ fiscal' = [fiscal EXCEPT ![u] =
                        [pc |-> "total", cmd |-> fiscal[u].cmd, reply |-> lastStateResponse[u]]]
        /\ UNCHANGED <<states, ordered, json, row, totalled, overlapped>>
    BY <1>2 DEF RepeatLastResponse, journal, history
  <1>3a. /\ fiscal'[u] = [pc |-> "total", cmd |-> fiscal[u].cmd, reply |-> lastStateResponse[u]]
         /\ \A w \in FiscalLines \ {u} : fiscal'[w] = fiscal[w]
    BY <1>1, <1>3 DEF TypeOK
  <1>3b. fiscal[u].stage \in Playing
    BY <1>2, <1>3, FiscalShape DEF SaleSteps
  <1>3c. Waits(u, p)' => Waits(u, p) /\ Commanding(u, p)'
    BY <1>1, <1>2, <1>3, <1>3a, <1>3b
       DEF Waits, Commanding, IdleSteps, Reading, InvAt, AwakeAt
  <1>4. InvAt(u, p)'
    <2>1. AwakeAt(u, p)'
      BY <1>1, <1>2, <1>3, <1>3a, <1>3b DEF InvAt, AwakeAt, Commanding, IdleSteps, SaleSteps
    <2>2. ApartAt(u, p)'
      BY <1>1, <1>2, <1>3, <1>3a, <1>3b
         DEF InvAt, ApartAt, Undisturbed, Commanding, Switching
    <2>3. CopyAt(u, p)'
      BY <1>1, <1>2, <1>3, <1>3a, <1>3b
         DEF InvAt, CopyAt, Undisturbed, Commanding, SaleSteps
    <2>4. SwitchedAt(u, p)'
      BY <1>1, <1>2, <1>3, <1>3a, <1>3b DEF InvAt, SwitchedAt, Undisturbed, Switching
    <2>5. RowAt(u, p)'
      BY <1>1, <1>2, <1>3, <1>3a, <1>3b DEF InvAt, RowAt, Commanding, Switching
    <2>6. JournalAt(u, p)'
      BY <1>1, <1>2, <1>3, <1>3a, <1>3b
         DEF InvAt, JournalAt, Settled, Undisturbed, Commanding, Switching
    <2>7. OrderAt(u, p)'
      BY <1>1, <1>2, <1>3, <1>3a, <1>3b, <1>3c
         DEF InvAt, OrderAt, Undisturbed, Commanding, Switching
    <2>8. PlayedAt(u, p)'
      BY <1>1, <1>2, <1>3, <1>3a, <1>3b DEF InvAt, PlayedAt, Settled, Undisturbed, Switching
    <2>9. DoneAt(u, p)'
      BY <1>1, <1>2, <1>3, <1>3a, <1>3b
         DEF InvAt, DoneAt, Settled, Undisturbed, Commanding, Switching
    <2> QED BY <2>1, <2>2, <2>3, <2>4, <2>5, <2>6, <2>7, <2>8, <2>9 DEF InvAt
  <1>5. /\ fiscal'[u] # Reading => fiscal'[u].cmd = fiscal[u].cmd
        /\ totalled \subseteq totalled'
        /\ \A w \in FiscalLines, q \in Pumps :
              w # u \/ q # p => /\ states'[w][q] = states[w][q]
                                /\ ordered'[w][q] = ordered[w][q]
    BY <1>3, <1>3a, <1>3b
  <1> QED BY <1>3, <1>3a, <1>4, <1>5, OneScenario

LEMMA ProcessReplyInv ==
    ASSUME Inv, NEW u \in FiscalLines, NEW p \in Pumps, Commanding(u, p), ProcessReply(u)
    PROVE  \A w \in FiscalLines, q \in Pumps : InvAt(w, q)'
  <1>1. TypeOK /\ InvAt(u, p)
    BY DEF Inv
  <1>2. /\ fiscal[u] # Reading /\ fiscal[u].cmd.pump = p
        /\ fiscal[u] \in FiscalState /\ states[u][p] \in NozzleLogicState
    BY <1>1 DEF Commanding, TypeOK
  <1>3. /\ fiscal[u].pc = "total"
        /\ fiscal' = [fiscal EXCEPT ![u] = Reading]
        /\ totalled' = AddKassaTotals(fiscal[u].reply)
        /\ UNCHANGED <<states, ordered, json, row, overlapped>>
    BY <1>2 DEF ProcessReply, history
  <1>3a. /\ fiscal'[u] = Reading
         /\ \A w \in FiscalLines \ {u} : fiscal'[w] = fiscal[w]
    BY <1>1, <1>3 DEF TypeOK
  <1>3b. /\ totalled \subseteq totalled'
         /\ fiscal[u].reply.pump = p /\ fiscal[u].reply.done => p \in totalled'
    BY <1>3 DEF AddKassaTotals
  <1>4. InvAt(u, p)'
    <2>1. AwakeAt(u, p)'
      BY <1>1, <1>2, <1>3, <1>3a, <1>3b DEF InvAt, AwakeAt, Commanding, IdleSteps, SaleSteps
    <2>2. ApartAt(u, p)'
      BY <1>1, <1>2, <1>3, <1>3a, <1>3b
         DEF InvAt, ApartAt, Undisturbed, Commanding, Switching
    <2>3. CopyAt(u, p)'
      BY <1>1, <1>2, <1>3, <1>3a, <1>3b
         DEF InvAt, CopyAt, Undisturbed, Commanding, SaleSteps
    <2>4. SwitchedAt(u, p)'
      BY <1>1, <1>2, <1>3, <1>3a, <1>3b DEF InvAt, SwitchedAt, Undisturbed, Switching
    <2>5. RowAt(u, p)'
      BY <1>1, <1>2, <1>3, <1>3a, <1>3b DEF InvAt, RowAt, Commanding, Switching
    <2>6. JournalAt(u, p)'
      BY <1>1, <1>2, <1>3, <1>3a, <1>3b
         DEF InvAt, JournalAt, Settled, Undisturbed, Commanding, Switching
    <2>7. OrderAt(u, p)'
      BY <1>1, <1>2, <1>3, <1>3a, <1>3b
         DEF InvAt, OrderAt, Undisturbed, Commanding, Switching, CopyAt, Waits, Playing
    <2>8. PlayedAt(u, p)'
      BY <1>1, <1>2, <1>3, <1>3a, <1>3b DEF InvAt, PlayedAt, Settled, Undisturbed, Switching
    <2>9. DoneAt(u, p)'
      BY <1>1, <1>2, <1>3, <1>3a, <1>3b
         DEF InvAt, DoneAt, Settled, Undisturbed, Commanding, Switching
    <2> QED BY <2>1, <2>2, <2>3, <2>4, <2>5, <2>6, <2>7, <2>8, <2>9 DEF InvAt
  <1>5. /\ fiscal'[u] # Reading => fiscal'[u].cmd = fiscal[u].cmd
        /\ totalled \subseteq totalled'
        /\ \A w \in FiscalLines, q \in Pumps :
              w # u \/ q # p => /\ states'[w][q] = states[w][q]
                                /\ ordered'[w][q] = ordered[w][q]
    BY <1>3, <1>3a, <1>3b
  <1> QED BY <1>3, <1>3a, <1>4, <1>5, OneScenario

\* A command that arrives: the thread takes it in hand, and its pump's newest
\* row is brought up to date, which the other lines share.
LEMMA CheckKassaUpdatesInv ==
    ASSUME Inv, NEW u \in FiscalLines, NEW p \in Pumps, NEW cmd \in Commands, cmd.pump = p,
           CheckKassaUpdates(u, cmd)
    PROVE  \A w \in FiscalLines, q \in Pumps : InvAt(w, q)'
  <1>1. TypeOK /\ cmd \in Cmd
    BY CommandsAreTyped DEF Inv
  <1>2. /\ fiscal[u] = Reading
        /\ fiscal' = [fiscal EXCEPT ![u] = [pc |-> "logic", cmd |-> cmd]]
        /\ row' = UpdateSimulationFromCmd(cmd)
        /\ UNCHANGED <<states, ordered, json, totalled>>
    BY DEF CheckKassaUpdates
  <1>3. /\ fiscal'[u] = [pc |-> "logic", cmd |-> cmd]
        /\ \A w \in FiscalLines \ {u} : fiscal'[w] = fiscal[w]
    BY <1>1, <1>2 DEF TypeOK
  <1>4. /\ Undisturbed(u, p)' => Undisturbed(u, p) /\ ~Switching(p)
        /\ \A w \in FiscalLines, q \in Pumps :
              w # u \/ q # p => (Undisturbed(w, q)' <=> Undisturbed(w, q))
    BY DEF CheckKassaUpdates, Undisturbed
  <1>5. /\ \A q \in Pumps : q # p => row'[q] = row[q]
        /\ row'[p].state = 0 <=> row[p].state = 0
        /\ cmd.type = "WRITE_VOLUME" => row'[p].state # 1
        /\ cmd.type = "WRITE_VOLUME" /\ row[p].state = 1 => row'[p].volume = cmd.volume
        /\ cmd.type # "WRITE_VOLUME" /\ row[p].state = 1 => row'[p].state = 1
        /\ row[p].state # 1 => row'[p].state # 1
        /\ row[p].state \in {2, 3} =>
              row'[p].state \in {2, 3} /\ row'[p].volume = row[p].volume
    <2>1. row \in [Pumps -> [state : 0..3, volume : Volumes]]
      BY <1>1 DEF TypeOK
    <2>2. CASE cmd.type = "WRITE_VOLUME" /\ row[p].state = 1
      <3>1. row' = [row EXCEPT ![p] = [state |-> 2, volume |-> cmd.volume]]
        BY <1>2, <2>2 DEF UpdateSimulationFromCmd
      <3> QED BY <2>1, <2>2, <3>1
    <2>3. CASE cmd.type = "STOP_COMMAND" /\ row[p].state = 2
      <3>1. row' = [row EXCEPT ![p].state = 3]
        BY <1>2, <2>3 DEF UpdateSimulationFromCmd
      <3> QED BY <2>1, <2>3, <3>1
    <2>4. CASE ~(cmd.type = "WRITE_VOLUME" /\ row[p].state = 1)
               /\ ~(cmd.type = "STOP_COMMAND" /\ row[p].state = 2)
      <3>1. row' = row
        BY <1>2, <2>4 DEF UpdateSimulationFromCmd
      <3> QED BY <2>4, <3>1
    <2> QED BY <2>2, <2>3, <2>4
  <1>6. InvAt(u, p)'
    <2>1. InvAt(u, p) /\ ~Commanding(u, p)
      BY <1>2 DEF Inv, Commanding
    <2>2. Waits(u, p)' => Waits(u, p) /\ Commanding(u, p)'
      BY <1>2, <1>3 DEF Waits, IdleSteps, Commanding, Reading
    <2>3. fiscal[u].pc = "read"
      BY <1>2 DEF Reading
    <2>4. AwakeAt(u, p)'
      BY <1>2, <1>3, <1>4, <1>5, <2>1 DEF InvAt, AwakeAt, Commanding, IdleSteps, SaleSteps
    <2>5. ApartAt(u, p)'
      BY <1>2, <1>3, <1>4, <1>5, <2>1 DEF InvAt, ApartAt, Undisturbed, Commanding, Switching
    <2>6. CopyAt(u, p)'
      BY <1>2, <1>3, <1>4, <1>5, <2>1 DEF InvAt, CopyAt, Undisturbed, Commanding, SaleSteps
    <2>7. SwitchedAt(u, p)'
      BY <1>2, <1>3, <1>4, <1>5, <2>1 DEF InvAt, SwitchedAt, Undisturbed, Switching
    <2>8. RowAt(u, p)'
      BY <1>2, <1>3, <1>4, <1>5, <2>1 DEF InvAt, RowAt, Commanding, Switching
    <2>9. JournalAt(u, p)'
      BY <1>2, <1>3, <1>4, <1>5, <2>1
         DEF InvAt, JournalAt, Settled, Undisturbed, Commanding, Switching
    <2>10. OrderAt(u, p)'
      BY <1>2, <1>3, <1>4, <1>5, <2>1, <2>2
         DEF InvAt, OrderAt, Undisturbed, Commanding, Switching, JournalAt, Settled
    <2>11. PlayedAt(u, p)'
      BY <1>2, <1>3, <1>4, <1>5, <2>1 DEF InvAt, PlayedAt, Settled, Undisturbed, Switching
    <2>12. DoneAt(u, p)'
      BY <1>2, <1>3, <1>4, <1>5, <2>1, <2>3
         DEF InvAt, DoneAt, Settled, Undisturbed, Commanding, Switching
    <2> QED BY <2>4, <2>5, <2>6, <2>7, <2>8, <2>9, <2>10, <2>11, <2>12 DEF InvAt
  <1>7. ASSUME NEW w \in FiscalLines, w # u PROVE InvAt(w, p)'
    <2>1. /\ InvAt(w, p)
          /\ fiscal'[w] = fiscal[w]
          /\ Undisturbed(w, p)' <=> Undisturbed(w, p)
      BY <1>3, <1>4, <1>7 DEF Inv
    <2>2. ~Alone(w)
      BY <1>7 DEF Alone
    <2>3. AwakeAt(w, p)'
      BY <1>2, <1>5, <2>1 DEF InvAt, AwakeAt, Commanding, IdleSteps, SaleSteps
    <2>4. ApartAt(w, p)'
      BY <1>2, <1>5, <2>1 DEF InvAt, ApartAt, Undisturbed, Commanding, Switching
    <2>5. CopyAt(w, p)'
      BY <1>2, <1>5, <2>1 DEF InvAt, CopyAt, Undisturbed, Commanding, SaleSteps
    <2>6. SwitchedAt(w, p)'
      BY <1>2, <1>5, <2>1 DEF InvAt, SwitchedAt, Undisturbed, Switching
    <2>7. RowAt(w, p)'
      BY <1>2, <1>5, <2>1 DEF InvAt, RowAt, Commanding, Switching
    <2>8. JournalAt(w, p)'
      BY <1>2, <1>5, <2>1 DEF InvAt, JournalAt, Settled, Undisturbed, Commanding, Switching
    <2>9. OrderAt(w, p)'
      BY <1>2, <1>5, <2>1, <2>2 DEF InvAt, OrderAt, Undisturbed, Commanding, Switching
    <2>10. PlayedAt(w, p)'
      BY <1>2, <1>5, <2>1 DEF InvAt, PlayedAt, Settled, Undisturbed, Switching
    <2>11. DoneAt(w, p)'
      BY <1>2, <1>5, <2>1 DEF InvAt, DoneAt, Settled, Undisturbed, Commanding, Switching
    <2> QED BY <2>3, <2>4, <2>5, <2>6, <2>7, <2>8, <2>9, <2>10, <2>11 DEF InvAt
  <1>8. ASSUME NEW w \in FiscalLines, NEW q \in Pumps, q # p PROVE InvAt(w, q)'
    <2>1. /\ InvAt(w, q)
          /\ row'[q] = row[q]
          /\ Undisturbed(w, q)' <=> Undisturbed(w, q)
      BY <1>4, <1>5, <1>8 DEF Inv
    <2>2. \/ fiscal'[w] = fiscal[w]
          \/ ~Commanding(w, q) /\ ~Commanding(w, q)'
      BY <1>2, <1>3, <1>8 DEF Commanding
    <2> QED BY <1>2, <2>1, <2>2, Elsewhere
  <1> QED BY <1>6, <1>7, <1>8

-----------------------------------------------------------------------------
(***************************************************************************)
(* The steps of the JSON thread.                                           *)
(***************************************************************************)

\* A step of the JSON thread that switches pump p, or goes on to.
LEMMA OnePump ==
    ASSUME Inv, NEW p \in Pumps, fiscal' = fiscal, ordered' = ordered,
           json # NoSwitch => json.pump = p,
           json' # NoSwitch => json'.pump = p,
           \A q \in Pumps : q # p => /\ row'[q] = row[q]
                                     /\ q \in totalled => q \in totalled',
           \A w \in FiscalLines, q \in Pumps :
              q # p => /\ states'[w][q] = states[w][q]
                       /\ <<w, q>> \in overlapped' <=> <<w, q>> \in overlapped,
           \A w \in FiscalLines : InvAt(w, p)'
    PROVE  \A w \in FiscalLines, q \in Pumps : InvAt(w, q)'
  <1> TAKE w \in FiscalLines, q \in Pumps
  <1>1. CASE q = p
    BY <1>1
  <1>2. CASE q # p
    <2>1. /\ InvAt(w, q)
          /\ Undisturbed(w, q)' <=> Undisturbed(w, q)
          /\ ~Switching(q) /\ ~Switching(q)'
      BY <1>2 DEF Inv, Undisturbed, Switching
    <2> QED BY <1>2, <2>1, Elsewhere
  <1> QED BY <1>1, <1>2

\* In the middle of a switch, a scenario is only ever sent to IDLE or woken.
LEMMA WhileSwitching ==
    ASSUME Inv, NEW u \in FiscalLines, NEW p \in Pumps, Switching(p), Switching(p)',
           UNCHANGED <<fiscal, row, totalled, overlapped, ordered>>,
           states'[u][p].stage = states[u][p].stage \/ states'[u][p].stage = "IDLE",
           states'[u][p].logic = states[u][p].logic \/ states'[u][p].logic = "SLEEP",
           /\ Undisturbed(u, p)
           /\ u \notin json'.todo
           /\ json'.pc = "assign" /\ json'.line = u => "stage" \notin json'.parts
           => states'[u][p].stage = "IDLE"
    PROVE  InvAt(u, p)'
  <1>1. InvAt(u, p)
    BY DEF Inv
  <1>2. AwakeAt(u, p)'
    BY <1>1 DEF InvAt, AwakeAt, Commanding, IdleSteps, SaleSteps, Playing
  <1>3. ApartAt(u, p)'
    BY <1>1 DEF InvAt, ApartAt, Undisturbed, Commanding
  <1>4. CopyAt(u, p)'
    BY <1>1 DEF InvAt, CopyAt, Undisturbed, Commanding, SaleSteps, ApartAt
  <1>5. SwitchedAt(u, p)'
    BY <1>1 DEF InvAt, SwitchedAt, Undisturbed
  <1>6. RowAt(u, p)'
    BY <1>1 DEF InvAt, RowAt, Commanding
  <1>7. JournalAt(u, p)'
    BY <1>1 DEF InvAt, JournalAt, Settled, Undisturbed, Commanding
  <1>8. OrderAt(u, p)'
    BY <1>1 DEF InvAt, OrderAt, Undisturbed, Commanding
  <1>9. PlayedAt(u, p)'
    BY <1>1 DEF InvAt, PlayedAt, Settled, Undisturbed
  <1>10. DoneAt(u, p)'
    BY <1>1 DEF InvAt, DoneAt, Settled, Undisturbed, Commanding
  <1> QED BY <1>2, <1>3, <1>4, <1>5, <1>6, <1>7, <1>8, <1>9, <1>10 DEF InvAt

LEMMA AddSimulationInv ==
    ASSUME Inv, NEW p \in Pumps, AddSimulation(p)
    PROVE  \A w \in FiscalLines, q \in Pumps : InvAt(w, q)'
  <1>1. TypeOK
    BY DEF Inv
  <1>2. /\ json = NoSwitch
        /\ json' = [pc |-> "lines", pump |-> p, todo |-> FiscalLines]
        /\ row' = [row EXCEPT ![p] = [state |-> 1, volume |-> 0]]
        /\ totalled' = totalled \ {p}
        /\ UNCHANGED <<states, fiscal, ordered>>
    BY DEF AddSimulation
  <1>3. /\ row'[p].state = 1
        /\ \A q \in Pumps : q # p => row'[q] = row[q]
    BY <1>1, <1>2 DEF TypeOK
  <1>4. /\ \A w \in FiscalLines : Undisturbed(w, p)' <=> ~Commanding(w, p)
        /\ \A w \in FiscalLines, q \in Pumps :
              q # p => (<<w, q>> \in overlapped' <=> <<w, q>> \in overlapped)
    BY DEF AddSimulation, Undisturbed
  <1>5. json' # NoSwitch
    BY <1>2 DEF NoSwitch
  <1>6. ASSUME NEW u \in FiscalLines PROVE InvAt(u, p)'
    <2>1. InvAt(u, p)
      BY DEF Inv
    <2>2. AwakeAt(u, p)'
      BY <1>2, <1>3, <1>4, <1>5, <2>1 DEF InvAt, AwakeAt, Commanding, IdleSteps, SaleSteps
    <2>3. ApartAt(u, p)'
      BY <1>2, <1>3, <1>4, <1>5, <2>1 DEF InvAt, ApartAt, Undisturbed, Commanding, Switching
    <2>4. CopyAt(u, p)'
      BY <1>2, <1>3, <1>4, <1>5, <2>1 DEF InvAt, CopyAt, Undisturbed, Commanding, SaleSteps
    <2>5. SwitchedAt(u, p)'
      BY <1>2, <1>3, <1>4, <1>5, <2>1 DEF InvAt, SwitchedAt, Undisturbed, Switching
    <2>6. RowAt(u, p)'
      BY <1>2, <1>3, <1>4, <1>5, <2>1 DEF InvAt, RowAt, Commanding, Switching
    <2>7. JournalAt(u, p)'
      BY <1>2, <1>3, <1>4, <1>5, <2>1
         DEF InvAt, JournalAt, Settled, Undisturbed, Commanding, Switching
    <2>8. OrderAt(u, p)'
      BY <1>2, <1>3, <1>4, <1>5, <2>1 DEF InvAt, OrderAt, Undisturbed, Commanding, Switching
    <2>9. PlayedAt(u, p)'
      BY <1>2, <1>3, <1>4, <1>5, <2>1 DEF InvAt, PlayedAt, Settled, Undisturbed, Switching
    <2>10. DoneAt(u, p)'
      BY <1>2, <1>3, <1>4, <1>5, <2>1
         DEF InvAt, DoneAt, Settled, Undisturbed, Commanding, Switching
    <2> QED BY <2>2, <2>3, <2>4, <2>5, <2>6, <2>7, <2>8, <2>9, <2>10 DEF InvAt
  <1> QED BY <1>2, <1>3, <1>4, <1>6, OnePump

LEMMA LastScenarioInv ==
    ASSUME Inv, NEW p \in Pumps, Switching(p), LastScenario
    PROVE  \A w \in FiscalLines, q \in Pumps : InvAt(w, q)'
  <1>1. /\ json.pc = "lines" /\ json.todo = {} /\ json.pump = p
        /\ json' = NoSwitch
        /\ UNCHANGED <<states, fiscal, ordered, row, totalled, overlapped>>
    BY DEF LastScenario, journal, history, Switching
  <1>2. ASSUME NEW u \in FiscalLines PROVE InvAt(u, p)'
    <2>1. InvAt(u, p)
      BY DEF Inv
    <2>2. Undisturbed(u, p) => states[u][p].stage = "IDLE" /\ ~Commanding(u, p)
      BY <1>1, <2>1 DEF InvAt, SwitchedAt, ApartAt
    <2>3. AwakeAt(u, p)'
      BY <1>1, <2>1, <2>2 DEF InvAt, AwakeAt, Commanding, IdleSteps, SaleSteps
    <2>4. ApartAt(u, p)'
      BY <1>1, <2>1, <2>2 DEF InvAt, ApartAt, Undisturbed, Commanding, Switching
    <2>5. CopyAt(u, p)'
      BY <1>1, <2>1, <2>2 DEF InvAt, CopyAt, Undisturbed, Commanding, SaleSteps
    <2>6. SwitchedAt(u, p)'
      BY <1>1, <2>1, <2>2 DEF InvAt, SwitchedAt, Undisturbed, Switching
    <2>7. RowAt(u, p)'
      BY <1>1, <2>1, <2>2 DEF InvAt, RowAt, Commanding, Switching
    <2>8. JournalAt(u, p)'
      BY <1>1, <2>1, <2>2
         DEF InvAt, JournalAt, Settled, Undisturbed, Commanding, Switching, Playing
    <2>9. OrderAt(u, p)'
      BY <1>1, <2>1, <2>2 DEF InvAt, OrderAt, Undisturbed, Commanding, Switching, Playing
    <2>10. PlayedAt(u, p)'
      BY <1>1, <2>1, <2>2 DEF InvAt, PlayedAt, Settled, Undisturbed, Switching
    <2>11. DoneAt(u, p)'
      BY <1>1, <2>1, <2>2 DEF InvAt, DoneAt, Settled, Undisturbed, Commanding, Switching
    <2> QED BY <2>3, <2>4, <2>5, <2>6, <2>7, <2>8, <2>9, <2>10, <2>11 DEF InvAt
  <1> QED BY <1>1, <1>2, OnePump

\* The other steps of a switch.
LEMMA SwitchStepInv ==
    ASSUME Inv, NEW p \in Pumps, Switching(p), Switching(p)',
           UNCHANGED <<fiscal, row, totalled, overlapped, ordered>>,
           \A w \in FiscalLines, q \in Pumps : q # p => states'[w][q] = states[w][q],
           \A u \in FiscalLines :
              /\ states'[u][p].stage = states[u][p].stage \/ states'[u][p].stage = "IDLE"
              /\ states'[u][p].logic = states[u][p].logic \/ states'[u][p].logic = "SLEEP"
              /\ /\ Undisturbed(u, p)
                 /\ u \notin json'.todo
                 /\ json'.pc = "assign" /\ json'.line = u => "stage" \notin json'.parts
                 => states'[u][p].stage = "IDLE"
    PROVE  \A w \in FiscalLines, q \in Pumps : InvAt(w, q)'
  <1>1. \A u \in FiscalLines : InvAt(u, p)'
    BY WhileSwitching
  <1> QED BY <1>1, OnePump DEF Switching

\* What SwitchedAt says of a switch under way.
LEMMA Switched ==
    ASSUME Inv, NEW u \in FiscalLines, NEW p \in Pumps, Switching(p), Undisturbed(u, p),
           u \notin json.todo,
           json.pc = "assign" /\ json.line = u => "stage" \notin json.parts
    PROVE  states[u][p].stage = "IDLE"
  BY DEF Inv, InvAt, SwitchedAt

LEMMA NextScenarioInv ==
    ASSUME Inv, NEW p \in Pumps, Switching(p), NEW v \in FiscalLines, NextScenario(v)
    PROVE  \A w \in FiscalLines, q \in Pumps : InvAt(w, q)'
  <1>1. /\ json.pc = "lines" /\ json.pump = p
        /\ json' = [pc |-> "assign", pump |-> p, todo |-> json.todo \ {v}, line |-> v,
                    parts |-> Parts]
        /\ UNCHANGED <<states, fiscal, row, totalled, overlapped, ordered>>
    BY DEF NextScenario, journal, history, Switching
  <1>2. Switching(p)'
    BY <1>1 DEF Switching, NoSwitch
  <1>3. ASSUME NEW u \in FiscalLines, Undisturbed(u, p), u \notin json'.todo,
               json'.pc = "assign" /\ json'.line = u => "stage" \notin json'.parts
        PROVE  states'[u][p].stage = "IDLE"
    <2>1. u # v
      BY <1>1, <1>3 DEF Parts
    <2>2. u \notin json.todo
      BY <1>1, <1>3, <2>1
    <2> QED BY <1>1, <1>3, <2>2, Switched
  <1> QED BY <1>1, <1>2, <1>3, SwitchStepInv

LEMMA SetTimeInv ==
    ASSUME Inv, NEW p \in Pumps, Switching(p), SetTime
    PROVE  \A w \in FiscalLines, q \in Pumps : InvAt(w, q)'
  <1>1. /\ json.pc = "time" /\ json.pump = p
        /\ json' = [pc |-> "lines", pump |-> p, todo |-> json.todo]
        /\ UNCHANGED <<states, fiscal, row, totalled, overlapped, ordered>>
    BY DEF SetTime, journal, history, Switching
  <1>2. Switching(p)'
    BY <1>1 DEF Switching, NoSwitch
  <1>3. ASSUME NEW u \in FiscalLines, Undisturbed(u, p), u \notin json'.todo
        PROVE  states'[u][p].stage = "IDLE"
    BY <1>1, <1>3, Switched
  <1> QED BY <1>1, <1>2, <1>3, SwitchStepInv

\* The scenario that an assigning step changes.
LEMMA Assigning ==
    ASSUME Inv, NEW p \in Pumps, Switching(p), json.pc = "assign"
    PROVE  /\ TypeOK
           /\ json.pump = p
           /\ json.line \in FiscalLines
           /\ states[json.line][p] \in NozzleLogicState
           /\ json = [pc |-> "assign", pump |-> json.pump, todo |-> json.todo,
                      line |-> json.line, parts |-> json.parts]
  BY JsonShape DEF Inv, TypeOK, Switching

LEMMA AssignLogicInv ==
    ASSUME Inv, NEW p \in Pumps, Switching(p), AssignLogic
    PROVE  \A w \in FiscalLines, q \in Pumps : InvAt(w, q)'
  <1> DEFINE l == json.line
             s == [states[l][p] EXCEPT !.logic = "SLEEP", !.volume = 0]
  <1>1. json.pc = "assign"
    BY DEF AssignLogic
  <1>2. /\ TypeOK /\ json.pump = p /\ l \in FiscalLines
        /\ states[l][p] \in NozzleLogicState
    BY <1>1, Assigning
  <1>3. /\ states' = Put(l, p, s)
        /\ UNCHANGED <<fiscal, row, totalled, overlapped, ordered>>
    BY <1>2 DEF AssignLogic, journal, history
  <1>4. /\ json' = [pc |-> "assign", pump |-> p, todo |-> json.todo, line |-> json.line,
                      parts |-> json.parts \ {"logic and volume"}]
        /\ Switching(p)'
    <2>1. json = [pc |-> "assign", pump |-> json.pump, todo |-> json.todo,
                  line |-> json.line, parts |-> json.parts]
      BY <1>1, Assigning
    <2>2. json' = [pc |-> "assign", pump |-> p, todo |-> json.todo, line |-> json.line,
                      parts |-> json.parts \ {"logic and volume"}]
      BY <1>2, <2>1 DEF AssignLogic
    <2> QED BY <2>2 DEF Switching, NoSwitch
  <1>5. s \in NozzleLogicState /\ s.stage = states[l][p].stage /\ s.logic = "SLEEP"
    BY <1>2, ChangedIsTyped
  <1> HIDE DEF l, s
  <1>6. \A w \in FiscalLines, q \in Pumps :
           states'[w][q] = IF w = l /\ q = p THEN s ELSE states[w][q]
    <2>1. \A w \in FiscalLines, q \in Pumps :
             Put(l, p, s)[w][q] = IF w = l /\ q = p THEN s ELSE states[w][q]
      BY <1>2, <1>5, PutOne
    <2> QED BY <1>3, <2>1
  <1>7. ASSUME NEW u \in FiscalLines, Undisturbed(u, p), u \notin json'.todo,
               json'.pc = "assign" /\ json'.line = u => "stage" \notin json'.parts
        PROVE  states'[u][p].stage = "IDLE"
    <2>1. states[u][p].stage = "IDLE"
      BY <1>1, <1>4, <1>7, Switched
    <2> QED BY <1>5, <1>6, <2>1
  <1> QED BY <1>3, <1>4, <1>5, <1>6, <1>7, SwitchStepInv

LEMMA AssignStageInv ==
    ASSUME Inv, NEW p \in Pumps, Switching(p), AssignStage
    PROVE  \A w \in FiscalLines, q \in Pumps : InvAt(w, q)'
  <1> DEFINE l == json.line
             s == [states[l][p] EXCEPT !.stage = "IDLE"]
  <1>1. json.pc = "assign"
    BY DEF AssignStage
  <1>2. /\ TypeOK /\ json.pump = p /\ l \in FiscalLines
        /\ states[l][p] \in NozzleLogicState
    BY <1>1, Assigning
  <1>3. /\ states' = Put(l, p, s)
        /\ UNCHANGED <<fiscal, row, totalled, overlapped, ordered>>
    BY <1>2 DEF AssignStage, journal, history
  <1>4. /\ json' = [pc |-> "assign", pump |-> p, todo |-> json.todo, line |-> json.line,
                      parts |-> json.parts \ {"stage"}]
        /\ Switching(p)'
    <2>1. json = [pc |-> "assign", pump |-> json.pump, todo |-> json.todo,
                  line |-> json.line, parts |-> json.parts]
      BY <1>1, Assigning
    <2>2. json' = [pc |-> "assign", pump |-> p, todo |-> json.todo, line |-> json.line,
                      parts |-> json.parts \ {"stage"}]
      BY <1>2, <2>1 DEF AssignStage
    <2> QED BY <2>2 DEF Switching, NoSwitch
  <1>5. s \in NozzleLogicState /\ s.stage = "IDLE" /\ s.logic = states[l][p].logic
    BY <1>2, ChangedIsTyped
  <1> HIDE DEF l, s
  <1>6. \A w \in FiscalLines, q \in Pumps :
           states'[w][q] = IF w = l /\ q = p THEN s ELSE states[w][q]
    <2>1. \A w \in FiscalLines, q \in Pumps :
             Put(l, p, s)[w][q] = IF w = l /\ q = p THEN s ELSE states[w][q]
      BY <1>2, <1>5, PutOne
    <2> QED BY <1>3, <2>1
  <1>7. ASSUME NEW u \in FiscalLines, Undisturbed(u, p), u \notin json'.todo,
               json'.pc = "assign" /\ json'.line = u => "stage" \notin json'.parts
        PROVE  states'[u][p].stage = "IDLE"
    <2>1. CASE u = l
      BY <1>5, <1>6, <2>1
    <2>2. CASE u # l
      <3>1. states[u][p].stage = "IDLE"
        BY <1>1, <1>4, <1>7, <2>2, Switched DEF l
      <3> QED BY <1>6, <2>2, <3>1
    <2> QED BY <2>1, <2>2
  <1> QED BY <1>3, <1>4, <1>5, <1>6, <1>7, SwitchStepInv

LEMMA SetLogicTypeInv ==
    ASSUME Inv, NEW p \in Pumps, Switching(p), SetLogicType
    PROVE  \A w \in FiscalLines, q \in Pumps : InvAt(w, q)'
  <1> DEFINE l == json.line
             s == [states[l][p] EXCEPT !.logic = "SLEEP"]
  <1>1. json.pc = "assign"
    BY DEF SetLogicType
  <1>2. /\ TypeOK /\ json.pump = p /\ l \in FiscalLines
        /\ states[l][p] \in NozzleLogicState
    BY <1>1, Assigning
  <1>3. /\ states' = Put(l, p, s)
        /\ UNCHANGED <<fiscal, row, totalled, overlapped, ordered>>
    BY <1>2 DEF SetLogicType, journal, history
  <1>4. /\ json' = [pc |-> "time", pump |-> p, todo |-> json.todo, line |-> json.line]
        /\ Switching(p)'
    <2>1. json = [pc |-> "assign", pump |-> json.pump, todo |-> json.todo,
                  line |-> json.line, parts |-> json.parts]
      BY <1>1, Assigning
    <2>2. json' = [pc |-> "time", pump |-> p, todo |-> json.todo, line |-> json.line]
      BY <1>2, <2>1 DEF SetLogicType
    <2> QED BY <2>2 DEF Switching, NoSwitch
  <1>5. s \in NozzleLogicState /\ s.stage = states[l][p].stage /\ s.logic = "SLEEP"
    BY <1>2, ChangedIsTyped
  <1> HIDE DEF l, s
  <1>6. \A w \in FiscalLines, q \in Pumps :
           states'[w][q] = IF w = l /\ q = p THEN s ELSE states[w][q]
    <2>1. \A w \in FiscalLines, q \in Pumps :
             Put(l, p, s)[w][q] = IF w = l /\ q = p THEN s ELSE states[w][q]
      BY <1>2, <1>5, PutOne
    <2> QED BY <1>3, <2>1
  <1>7. ASSUME NEW u \in FiscalLines, Undisturbed(u, p), u \notin json'.todo,
               json'.pc = "assign" /\ json'.line = u => "stage" \notin json'.parts
        PROVE  states'[u][p].stage = "IDLE"
    <2>1. states[u][p].stage = "IDLE"
      BY <1>1, <1>4, <1>7, Switched DEF SetLogicType
    <2> QED BY <1>5, <1>6, <2>1
  <1> QED BY <1>3, <1>4, <1>5, <1>6, <1>7, SwitchStepInv

-----------------------------------------------------------------------------
(***************************************************************************)
(* Every step.                                                             *)
(***************************************************************************)

\* The line whose thread takes a step has a command for some pump.
LEMMA SomeCommand ==
    ASSUME TypeOK, NEW u \in FiscalLines, fiscal[u].pc # "read"
    PROVE  \E p \in Pumps : Commanding(u, p)
  BY FiscalShape DEF TypeOK, Cmd, Commanding, Reading

LEMMA SomeSwitch ==
    ASSUME TypeOK, json.pc # "idle"
    PROVE  \E p \in Pumps : Switching(p)
  BY JsonShape DEF TypeOK, Switching, NoSwitch

LEMMA InvStep == Inv /\ [Next]_vars => Inv'
  <1> SUFFICES ASSUME Inv, [Next]_vars
               PROVE  \A w \in FiscalLines, q \in Pumps : InvAt(w, q)'
    BY TypingStep DEF Inv
  <1>1. TypeOK
    BY DEF Inv
  <1>2. ASSUME NEW u \in FiscalLines, NEW cmd \in Commands, CheckKassaUpdates(u, cmd)
        PROVE  \A w \in FiscalLines, q \in Pumps : InvAt(w, q)'
    <2>1. cmd.pump \in Pumps
      BY CommandsAreTyped DEF Cmd
    <2> QED BY <1>2, <2>1, CheckKassaUpdatesInv
  <1>3. ASSUME NEW u \in FiscalLines, Operate(u)
        PROVE  \A w \in FiscalLines, q \in Pumps : InvAt(w, q)'
    <2>1. fiscal[u].pc # "read"
      BY <1>3 DEF Operate, ReadLogic, ReadStage, CheckActivityTime, OperateSleepIdle,
                  ReadVolume, StepSale, StopSale, StopLogic, RepeatLastResponse,
                  ProcessReply
    <2>2. PICK p \in Pumps : Commanding(u, p)
      BY <1>1, <2>1, SomeCommand
    <2> QED BY <1>3, <2>2, ReadLogicInv, ReadStageInv, CheckActivityTimeInv,
               OperateSleepIdleInv, ReadVolumeInv, StepSaleInv, StopSaleInv,
               StopLogicInv, RepeatLastResponseInv, ProcessReplyInv DEF Operate
  <1>4. ASSUME NEW p \in Pumps, AddSimulation(p)
        PROVE  \A w \in FiscalLines, q \in Pumps : InvAt(w, q)'
    BY <1>4, AddSimulationInv
  <1>5. ASSUME \/ \E v \in FiscalLines : NextScenario(v)
               \/ LastScenario \/ AssignLogic \/ AssignStage \/ SetLogicType \/ SetTime
        PROVE  \A w \in FiscalLines, q \in Pumps : InvAt(w, q)'
    <2>1. json.pc # "idle"
      BY <1>5
         DEF NextScenario, LastScenario, AssignLogic, AssignStage, SetLogicType, SetTime
    <2>2. PICK p \in Pumps : Switching(p)
      BY <1>1, <2>1, SomeSwitch
    <2> QED BY <1>5, <2>2, NextScenarioInv, LastScenarioInv, AssignLogicInv, AssignStageInv,
               SetLogicTypeInv, SetTimeInv
  <1>6. CASE Tick \/ UNCHANGED vars
    <2> SUFFICES ASSUME NEW w \in FiscalLines, NEW q \in Pumps PROVE InvAt(w, q)'
      OBVIOUS
    <2>1. /\ InvAt(w, q)
          /\ UNCHANGED <<states, fiscal, json, row, totalled, overlapped, ordered>>
      BY <1>6 DEF Inv, Tick, vars, journal, history
    <2> QED BY <2>1, Elsewhere DEF Undisturbed
  <1> QED BY <1>2, <1>3, <1>4, <1>5, <1>6 DEF Next, FiscalThread, JsonThread

\* The stages of the scenario of u and p in a step.
InOrder(u, p) ==
    /\ Undisturbed(u, p)
    /\ states'[u][p].stage # states[u][p].stage
    => <<states[u][p].stage, states'[u][p].stage>> \in
          {<<"IDLE", "AUTHORIZED">>, <<"AUTHORIZED", "TEN_PERCENT">>,
           <<"TEN_PERCENT", "NINETY_PERCENT">>, <<"NINETY_PERCENT", "HUNDRED_PERCENT">>}
          \cup {<<s, "IDLE">> : s \in IF Switching(p) THEN Playing
                                       ELSE {"HUNDRED_PERCENT"}}

LEMMA InOrderStep == Inv /\ [Next]_vars => \A u \in FiscalLines, p \in Pumps : InOrder(u, p)
  <1> SUFFICES ASSUME Inv, [Next]_vars, NEW u \in FiscalLines, NEW p \in Pumps,
                      Undisturbed(u, p), states'[u][p].stage # states[u][p].stage
               PROVE  InOrder(u, p)
    BY DEF InOrder
  <1>1. TypeOK /\ InvAt(u, p) /\ states[u][p] \in NozzleLogicState
    BY DEF Inv, TypeOK
  <1>2. ASSUME NEW w \in FiscalLines, CheckActivityTime(w) PROVE FALSE
    <2> DEFINE q == fiscal[w].cmd.pump
               s == [states[w][q] EXCEPT !.logic = "IDLE"]
    <2>1. q \in Pumps
      BY <1>1, <1>2, FiscalShape DEF CheckActivityTime, Cmd, TypeOK
    <2>2. s \in NozzleLogicState /\ s.stage = states[w][q].stage
      <3>1. states[w][q] \in NozzleLogicState
        BY <1>1, <2>1 DEF TypeOK
      <3> QED BY <3>1, ChangedIsTyped
    <2>3. states' = states \/ states' = Put(w, q, s)
      BY <1>2 DEF CheckActivityTime
    <2> HIDE DEF q, s
    <2>4. states' # states
      OBVIOUS
    <2> QED BY <1>1, <2>1, <2>2, <2>3, <2>4, PutKeepsStage
  <1>2a. ASSUME NEW w \in FiscalLines, StopLogic(w) PROVE FALSE
    <2> DEFINE q == fiscal[w].cmd.pump
               s == [states[w][q] EXCEPT !.logic = "IDLE"]
    <2>1. q \in Pumps
      BY <1>1, <1>2a, FiscalShape DEF StopLogic, Cmd, TypeOK
    <2>2. s \in NozzleLogicState /\ s.stage = states[w][q].stage
      <3>1. states[w][q] \in NozzleLogicState
        BY <1>1, <2>1 DEF TypeOK
      <3> QED BY <3>1, ChangedIsTyped
    <2>3. states' = Put(w, q, s)
      BY <1>2a DEF StopLogic
    <2> HIDE DEF q, s
    <2> QED BY <1>1, <2>1, <2>2, <2>3, PutKeepsStage
  <1>3. ASSUME NEW w \in FiscalLines, OperateSleepIdle(w)
        PROVE  states[u][p].stage = "IDLE" /\ states'[u][p].stage = "AUTHORIZED"
    <2> DEFINE q == fiscal[w].cmd.pump
               v == fiscal[w].cmd.volume
               s == NewOrder(v)
    <2>1. q \in Pumps /\ v \in Nat /\ fiscal[w] # Reading /\ fiscal[w].pc \in IdleSteps
      BY <1>1, <1>3, FiscalShape, VolumesAreNatural
         DEF OperateSleepIdle, Cmd, TypeOK, Reading, IdleSteps
    <2>2. s \in NozzleLogicState /\ s.stage = "AUTHORIZED"
      BY <2>1 DEF NewOrder, NozzleLogicState, Stage
    <2>3. states' = Put(w, q, s)
      BY <1>3 DEF OperateSleepIdle
    <2>4. Commanding(w, q)
      BY <2>1 DEF Commanding
    <2> HIDE DEF q, s
    <2>5. states'[u][p] = IF u = w /\ p = q THEN s ELSE states[u][p]
      BY <1>1, <2>1, <2>2, <2>3, PutOne
    <2>6. u = w /\ p = q
      BY <2>5
    <2> QED BY <1>1, <2>1, <2>2, <2>4, <2>5, <2>6 DEF InvAt, AwakeAt
  <1>4. ASSUME NEW w \in FiscalLines, StepSale(w)
        PROVE  /\ states[u][p].stage \in Playing \ {"HUNDRED_PERCENT"}
               /\ states'[u][p].stage = NextStage(states[u][p].stage)
    <2> DEFINE q == fiscal[w].cmd.pump
               f == fiscal[w]
               s == UpdateState(states[w][q], NextStage(f.stage), NextVolume(f.stage, f.volume))
    <2>1. /\ q \in Pumps /\ f # Reading /\ f.pc \in SaleSteps
          /\ f.stage \in Playing \ {"HUNDRED_PERCENT"} /\ f.volume \in Nat
      BY <1>1, <1>4, FiscalShape DEF StepSale, Cmd, TypeOK, Reading, SaleSteps
    <2>2. s \in NozzleLogicState /\ s.stage = NextStage(f.stage)
      BY <1>1, <2>1, StepIsTyped DEF TypeOK
    <2>3. states' = Put(w, q, s)
      BY <1>4 DEF StepSale
    <2>4. Commanding(w, q)
      BY <2>1 DEF Commanding
    <2> HIDE DEF q, s
    <2>5. states'[u][p] = IF u = w /\ p = q THEN s ELSE states[u][p]
      BY <1>1, <2>1, <2>2, <2>3, PutOne
    <2>6. u = w /\ p = q
      BY <2>5
    <2>7. f.stage = states[u][p].stage
      BY <1>1, <2>1, <2>4, <2>6 DEF InvAt, CopyAt
    <2> QED BY <2>1, <2>2, <2>5, <2>6, <2>7
  <1>5. ASSUME NEW w \in FiscalLines, StopSale(w)
        PROVE  states[u][p].stage = "HUNDRED_PERCENT" /\ states'[u][p].stage = "IDLE"
    <2> DEFINE q == fiscal[w].cmd.pump
               f == fiscal[w]
    <2>1. /\ q \in Pumps /\ f # Reading /\ f.pc \in SaleSteps
          /\ f.stage = "HUNDRED_PERCENT"
      BY <1>1, <1>5, FiscalShape DEF StopSale, Cmd, TypeOK, Reading, SaleSteps
    <2>2. Off \in NozzleLogicState /\ Off.stage = "IDLE"
      BY DEF Off, NozzleLogicState, Stage
    <2>3. states' = Put(w, q, Off)
      BY <1>5 DEF StopSale
    <2>4. Commanding(w, q)
      BY <2>1 DEF Commanding
    <2> HIDE DEF q
    <2>5. states'[u][p] = IF u = w /\ p = q THEN Off ELSE states[u][p]
      BY <1>1, <2>1, <2>2, <2>3, PutOne
    <2>6. u = w /\ p = q
      BY <2>5
    <2>7. f.stage = states[u][p].stage
      BY <1>1, <2>1, <2>4, <2>6 DEF InvAt, CopyAt
    <2> QED BY <2>1, <2>2, <2>5, <2>6, <2>7
  <1>6. ASSUME AssignLogic \/ SetLogicType PROVE FALSE
    <2>1. PICK q \in Pumps : Switching(q)
      BY <1>1, <1>6, SomeSwitch DEF AssignLogic, SetLogicType
    <2> DEFINE l == json.line
               s == [states[l][q] EXCEPT !.logic = "SLEEP", !.volume = 0]
               t == [states[l][q] EXCEPT !.logic = "SLEEP"]
    <2>2. json.pump = q /\ l \in FiscalLines /\ states[l][q] \in NozzleLogicState
      BY <1>6, <2>1, Assigning DEF AssignLogic, SetLogicType
    <2>3. /\ s \in NozzleLogicState /\ s.stage = states[l][q].stage
          /\ t \in NozzleLogicState /\ t.stage = states[l][q].stage
      BY <2>2, ChangedIsTyped
    <2>4. states' = Put(l, q, s) \/ states' = Put(l, q, t)
      BY <1>6, <2>2 DEF AssignLogic, SetLogicType
    <2> HIDE DEF l, s, t
    <2> QED BY <1>1, <2>2, <2>3, <2>4, PutKeepsStage
  <1>7. ASSUME AssignStage
        PROVE  Switching(p) /\ states'[u][p].stage = "IDLE"
    <2>1. PICK q \in Pumps : Switching(q)
      BY <1>1, <1>7, SomeSwitch DEF AssignStage
    <2> DEFINE l == json.line
               s == [states[l][q] EXCEPT !.stage = "IDLE"]
    <2>2. json.pump = q /\ l \in FiscalLines /\ states[l][q] \in NozzleLogicState
      BY <1>7, <2>1, Assigning DEF AssignStage
    <2>3. s \in NozzleLogicState /\ s.stage = "IDLE"
      BY <2>2, ChangedIsTyped
    <2>4. states' = Put(l, q, s)
      BY <1>7, <2>2 DEF AssignStage
    <2> HIDE DEF l, s
    <2>5. states'[u][p] = IF u = l /\ p = q THEN s ELSE states[u][p]
      BY <1>1, <2>2, <2>3, <2>4, PutOne
    <2>6. u = l /\ p = q
      BY <2>5
    <2> QED BY <2>1, <2>3, <2>5, <2>6
  <1>8. states[u][p].stage \in Stage
    BY <1>1 DEF NozzleLogicState
  <1>9. CASE \E w \in FiscalLines : OperateSleepIdle(w) \/ StepSale(w) \/ StopSale(w)
    BY <1>3, <1>4, <1>5, <1>9 DEF InOrder, NextStage, Playing, Stage
  <1>10. CASE AssignStage
    BY <1>7, <1>8, <1>10 DEF InOrder, Playing
  <1>11. CASE states' = states
    BY <1>11
  <1> QED BY <1>2, <1>2a, <1>6, <1>9, <1>10, <1>11
          DEF Next, FiscalThread, Operate, JsonThread, CheckKassaUpdates, ReadLogic, ReadStage,
              ReadVolume, RepeatLastResponse, ProcessReply, AddSimulation, NextScenario,
              LastScenario, SetTime, Tick, vars

-----------------------------------------------------------------------------
(***************************************************************************)
(* The theorems.                                                           *)
(***************************************************************************)

LEMMA Invariance == Spec => []Inv
  BY InvInit, InvStep, PTL DEF Spec

\* The scenarios, the replies, the threads' copies and the journal's rows have
\* their types; above all, a reply is repeated only when there is one.
THEOREM Typing == Spec => []TypeOK
  <1>1. Inv => TypeOK
    BY DEF Inv
  <1> QED BY <1>1, Invariance, PTL

\* A scenario that plays a sale is never switched to IDLE logic, where no
\* command would reach it again (changeLogicType, operateSleepState and
\* operateSleppHundredPercent write it without a lock).
THEOREM AwakeWhilePlaying == Spec => []PlayingIsAwake
  <1>1. Inv => PlayingIsAwake
    BY DEF Inv, InvAt, AwakeAt, PlayingIsAwake
  <1> QED BY <1>1, Invariance, PTL

\* The volume of a scenario is its stage's part of what was ordered, and all of
\* it when the supply is reported as done.
THEOREM Played == Spec => []PlayedAsOrdered
  <1>1. Inv => PlayedAsOrdered
    BY DEF Inv, InvAt, PlayedAt, PlayedAsOrdered
  <1> QED BY <1>1, Invariance, PTL

\* A sale that is played is authorised in the journal, with the volume played
\* if there is one fiscal line.
THEOREM Journalled == Spec => []JournalKnowsPlayed
  <1>1. Inv => JournalKnowsPlayed
    BY DEF Inv, InvAt, JournalAt, OrderAt, Alone, Settled, JournalKnowsPlayed
  <1> QED BY <1>1, Invariance, PTL

\* A supply that is done is in `totals' before its device's next command.
THEOREM Totalled == Spec => []DoneIsTotalled
  <1>1. Inv => DoneIsTotalled
    BY DEF Inv, InvAt, DoneAt, DoneIsTotalled
  <1> QED BY <1>1, Invariance, PTL

\* A sale goes through its stages in order, and ends by a stop or a switch.
THEOREM InStages == Spec => StagesInOrder
  <1>1. Inv /\ [Next]_vars =>
           [\A u \in FiscalLines, p \in Pumps : InOrder(u, p)]_vars
    BY InOrderStep
  <1> QED BY <1>1, Invariance, PTL DEF Spec, StagesInOrder, InOrder
=============================================================================
