-------------------------- MODULE ColumnLine_proofs --------------------------
(***************************************************************************)
(* Proofs about ColumnLine, for any columns, addresses, users and bounds.  *)
(***************************************************************************)
EXTENDS ColumnLine, SequenceTheorems, WellFoundedInduction, TLAPS

-----------------------------------------------------------------------------
(***************************************************************************)
(* What the calls of the state map do, as far as types and the numbers of  *)
(* the reports are concerned.                                              *)
(***************************************************************************)

\* A report is stored with the next number, or not at all.
LEMMA AddStateNumbers ==
    ASSUME Map!MapTypeOK, NEW c \in Columns, NEW id, NEW type \in Map!Types,
           NEW u \in Users \cup {"none"}, Map!AddState(c, id, type, u)
    PROVE  /\ Map!MapTypeOK'
           /\ \/ UNCHANGED <<states, received>>
              \/ /\ id # 0
                 /\ received' = received + 1
                 /\ \A d \in Columns :
                       \/ states'[d].number = states[d].number
                       \/ d = c /\ states'[d].number = received + 1
  <1>1. CASE ~Map!Accepted(c, id)
    BY <1>1 DEF Map!AddState, Map!mapVars, Map!MapTypeOK
  <1>2. CASE Map!Accepted(c, id)
    <2> DEFINE report == [type |-> type, number |-> received + 1, user |-> u]
               new    == Map!Stored(c, report)
    <2>1. /\ received < MaxReports
          /\ states' = [states EXCEPT ![c] = new]
          /\ elapsed' = [elapsed EXCEPT ![c] = 0]
          /\ received' = received + 1
          /\ UNCHANGED userUpdateAvailable
      BY <1>2 DEF Map!AddState
    <2>2. received \in Nat /\ received + 1 \in 0..MaxReports
      BY <2>1, BoundsAssumption DEF Map!MapTypeOK
    <2>3. Map!Known(c) => states[c] \in Map!Report
      BY DEF Map!MapTypeOK, Map!Known
    <2>4. Map!ControlUser(c) \in Users \cup {"none"}
      BY <1>2, <2>3 DEF Map!Accepted, Map!ControlUser, Map!Report
    <2>5. states[c].type = "TOTAL_RESPONSE" => Map!Known(c)
      BY DEF Map!Known, Map!Unknown
    <2>6. new = IF states[c].type = "TOTAL_RESPONSE" THEN states[c]
                ELSE [type |-> type, number |-> received + 1, user |-> Map!ControlUser(c)]
      BY DEF Map!Stored
    <2>7. /\ new \in Map!Report
          /\ new.number = states[c].number \/ new.number = received + 1
      BY <2>2, <2>3, <2>4, <2>5, <2>6 DEF Map!Report
    <2>8. id # 0
      BY <1>2 DEF Map!Accepted
    <2> HIDE DEF new
    <2>9. Map!MapTypeOK'
      BY <2>1, <2>2, <2>7, BoundsAssumption DEF Map!MapTypeOK
    <2> QED BY <2>1, <2>7, <2>8, <2>9 DEF Map!MapTypeOK
  <1> QED BY <1>1, <1>2

\* Reading a state gives no number to anything.
LEMMA GetStateNumbers ==
    ASSUME Map!MapTypeOK, NEW c \in Columns, Map!GetState(c)
    PROVE  /\ Map!MapTypeOK'
           /\ received' = received
           /\ \A d \in Columns : states'[d].number \in {states[d].number, 0}
  <1>1. CASE ~Map!Known(c)
    BY <1>1 DEF Map!GetState, Map!MapTypeOK
  <1>2. CASE Map!Known(c)
    <2> DEFINE new == IF Map!TotalsWaiting(c) THEN Map!NotServed ELSE Map!ReplyOf(c)
    <2>1. states[c] \in Map!Report
      BY <1>2 DEF Map!Known, Map!MapTypeOK
    <2>2. Map!NotServed \in Map!Report /\ Map!NotServed.number = 0
      BY BoundsAssumption DEF Map!NotServed, Map!Report, Map!Types
    <2>3. /\ [states[c] EXCEPT !.type = "NOT_SERVED"] \in Map!Report
          /\ [states[c] EXCEPT !.type = "NOT_SERVED"].number = states[c].number
      BY <2>1 DEF Map!Report, Map!Types
    <2>4. new \in Map!Report /\ new.number \in {states[c].number, 0}
      BY <1>2, <2>1, <2>2, <2>3 DEF Map!ReplyOf
    <2>5. /\ states' = [states EXCEPT ![c] = new]
          /\ UNCHANGED <<elapsed, userUpdateAvailable, received>>
      BY <1>2 DEF Map!GetState
    <2> HIDE DEF new
    <2> QED BY <2>4, <2>5 DEF Map!MapTypeOK
  <1> QED BY <1>1, <1>2

\* The clock and the flags leave the states alone.
LEMMA TickNumbers ==
    ASSUME Map!MapTypeOK, NEW c \in Columns, Map!Tick(c)
    PROVE  Map!MapTypeOK' /\ UNCHANGED <<states, received>>
  BY BoundsAssumption DEF Map!Tick, Map!MapTypeOK

LEMMA FlagNumbers ==
    ASSUME Map!MapTypeOK, NEW b \in BOOLEAN, Map!SetUserUpdateValidity(b, 0)
    PROVE  Map!MapTypeOK' /\ UNCHANGED <<states, received>>
  BY DEF Map!SetUserUpdateValidity, Map!MapTypeOK

-----------------------------------------------------------------------------
(***************************************************************************)
(* The turn goes from a column to a column.                                *)
(***************************************************************************)
LEMMA Least ==
    ASSUME NEW S \in SUBSET Nat, S # {}
    PROVE  \E least \in S : \A d \in S : least <= d
  <1>1. PICK c \in S : \A d \in S : ~(<<d, c>> \in OpToRel(<, Nat))
    BY NatLessThanWellFounded, WFMin
  <1>2. \A m, n \in Nat : n < m => <<n, m>> \in OpToRel(<, Nat)
    BY DEF OpToRel
  <1>3. \A m, n \in Nat : ~(n < m) => m <= n
    OBVIOUS
  <1> QED BY <1>1, <1>2, <1>3, Zenon

LEMMA NextColumnType == NextColumn => column' \in Columns
  <1>1. CASE \E c \in Columns : c > column
    <2> DEFINE S == {c \in Columns : c > column}
    <2>1. \E c \in S : \A d \in S : c <= d
      BY <1>1, ColumnsAssumption, Least
    <2>2. \E c \in Columns : c > column /\ \A d \in Columns : d > column => c <= d
      BY <2>1
    <2> QED BY <1>1, <2>2 DEF NextColumn
  <1>2. CASE ~\E c \in Columns : c > column
    <2>1. \E c \in Columns : \A d \in Columns : c <= d
      BY ColumnsAssumption, Least
    <2> QED BY <1>2, <2>1 DEF NextColumn
  <1> QED BY <1>1, <1>2

-----------------------------------------------------------------------------
(***************************************************************************)
(* The types of what the parts of an action change.                        *)
(***************************************************************************)
Asks == CmdTypes \cup {"STATUS_REQUEST", "WRITE_MONEY"}

\* While a command is being passed on it stays at the head of the queue.
HeadInHand == pc \in {"price", "run", "cmd", "cmdRest"} => columnCmds # <<>>

LEMMA SendType ==
    ASSUME TypeOK, NEW c \in Columns, NEW ask \in Asks, Send(c, ask)
    PROVE  requests' \in Seq([to : Columns, ask : Asks])
  <1> DEFINE M == [to : Columns, ask : Asks]
             m == [to |-> c, ask |-> ask]
  <1>1. m \in M /\ requests \in Seq(M)
    BY DEF TypeOK, Asks
  <1> HIDE DEF M, m
  <1>2. Len(requests) = MaxWire => Tail(requests) \in Seq(M)
    <2>1. Len(requests) = MaxWire => requests # <<>>
      BY <1>1, BoundsAssumption
    <2> QED BY <1>1, <2>1
  <1>3. requests' \in {requests, Append(requests, m), Append(Tail(requests), m)}
    BY DEF Send, m
  <1>4. requests' = Append(Tail(requests), m) => Len(requests) = MaxWire \/ requests' \in Seq(M)
    BY <1>1 DEF Send, m
  <1> QED BY <1>1, <1>2, <1>3, <1>4 DEF Send, M, m

LEMMA ReadType ==
    ASSUME TypeOK, Read
    PROVE  /\ connectionInited' \in BOOLEAN
           /\ requests' \in Seq([to : Columns, ask : Asks])
           /\ inbox' \in Seq(Reply)
  <1>1. /\ connectionInited' \in {connectionInited, FALSE}
        /\ requests' \in {requests, <<>>}
        /\ inbox' = <<>>
    BY DEF Read
  <1>2. connectionInited' \in BOOLEAN
    BY <1>1 DEF TypeOK
  <1>3. requests' \in Seq([to : Columns, ask : Asks])
    <2>1. requests \in Seq([to : Columns, ask : Asks])
      BY DEF TypeOK, Asks
    <2>2. <<>> \in Seq([to : Columns, ask : Asks])
      OBVIOUS
    <2> QED BY <1>1, <2>1, <2>2
  <1>4. inbox' \in Seq(Reply)
    BY <1>1
  <1> QED BY <1>2, <1>3, <1>4

LEMMA DoneType ==
    ASSUME Done
    PROVE  pc' = "poll" /\ packet' \in Seq(Reply) /\ column' \in Columns
  BY NextColumnType DEF Done

LEMMA HeadType ==
    ASSUME TypeOK, columnCmds # <<>>
    PROVE  /\ Head(columnCmds) \in Cmd
           /\ Tail(columnCmds) \in Seq(Cmd)
           /\ Head(columnCmds) = columnCmds[1]
           /\ 1 \in DOMAIN columnCmds
  BY HeadTailProperties DEF TypeOK

LEMMA OnlyElement ==
    ASSUME NEW S, NEW s \in Seq(S), Len(s) = 1
    PROVE  s[1] \in S
  OBVIOUS

LEMMA PacketType ==
    ASSUME NEW s \in Seq(Reply), CheckPacket(s)
    PROVE  s[1] \in Reply /\ s[1].from \in Columns
  <1>1. s[1] \in Reply
    BY OnlyElement DEF CheckPacket
  <1> QED BY <1>1 DEF Reply

LEMMA PushType ==
    ASSUME TypeOK, NEW type \in CmdTypes, NEW c \in Columns,
           NEW u \in Users \cup {"none"}, PushBack(type, c, u)
    PROVE  /\ columnCmds' \in Seq(Cmd) /\ columnCmds' # <<>>
           /\ queued' \in 0..MaxCmds
  <1> DEFINE number == IF queued < MaxCmds THEN queued + 1 ELSE 0
             cmd    == [number |-> number, type |-> type, column |-> c, user |-> u]
  <1>1. number \in 0..MaxCmds /\ queued' \in 0..MaxCmds
    BY BoundsAssumption DEF TypeOK, PushBack
  <1>2. columnCmds' = Append(columnCmds, cmd)
    BY DEF PushBack
  <1> HIDE DEF number
  <1>3. cmd \in Cmd
    BY <1>1 DEF Cmd
  <1> HIDE DEF cmd
  <1> QED BY <1>1, <1>2, <1>3, AppendProperties DEF TypeOK

\* Whatever a report does, the map keeps its types and every number its sender.
LEMMA AddStateType ==
    ASSUME TypeOK, NEW c \in Columns, NEW r \in Reply, NEW expected, NEW id \in Columns,
           NEW u \in Users \cup {"none"}, AddState(c, r, expected, id, u)
    PROVE  /\ Map!MapTypeOK'
           /\ transactionHolder' \subseteq {Addr[d] : d \in Columns}
           /\ origin' \in Seq(Reply) /\ Len(origin') = received'
           /\ \/ UNCHANGED <<states, received, origin>>
              \/ /\ r.kind = "totals" \/ Addr[r.from] = expected
                 /\ received' = received + 1
                 /\ origin'[received + 1] = r
                 /\ \A n \in 1..received : origin'[n] = origin[n]
                 /\ \A d \in Columns :
                       \/ states'[d].number = states[d].number
                       \/ d = c /\ states'[d].number = received + 1
  <1> DEFINE parsed == ParseResponse(r, expected, id)
  <1>1. Map!AddState(c, parsed, TypeOf(r.kind), u) /\ TypeOf(r.kind) \in Map!Types
    BY DEF AddState, TypeOf, Map!Types
  <1>2. Map!MapTypeOK
    BY DEF TypeOK
  <1>3. /\ Map!MapTypeOK'
        /\ \/ UNCHANGED <<states, received>>
           \/ /\ parsed # 0
              /\ received' = received + 1
              /\ \A d \in Columns :
                    \/ states'[d].number = states[d].number
                    \/ d = c /\ states'[d].number = received + 1
    <2> HIDE DEF parsed
    <2> QED BY <1>1, <1>2, AddStateNumbers
  <1>4. transactionHolder' \subseteq {Addr[d] : d \in Columns}
    BY DEF AddState, Remember, TypeOK, Reply
  <1>5. received \in Nat /\ origin \in Seq(Reply) /\ Len(origin) = received
    BY <1>2, BoundsAssumption DEF TypeOK, Map!MapTypeOK
  <1>6. origin' = IF received' > received THEN Append(origin, r) ELSE origin
    BY DEF AddState
  <1>7. /\ Append(origin, r) \in Seq(Reply)
        /\ Len(Append(origin, r)) = received + 1
        /\ Append(origin, r)[received + 1] = r
        /\ \A n \in 1..received : Append(origin, r)[n] = origin[n]
    BY <1>5, AppendProperties
  <1>8. parsed # 0 => r.kind = "totals" \/ Addr[r.from] = expected
    BY DEF ParseResponse
  <1>9. CASE UNCHANGED <<states, received>>
    BY <1>3, <1>4, <1>5, <1>6, <1>9
  <1>10. CASE received' = received + 1
    BY <1>3, <1>4, <1>5, <1>6, <1>7, <1>8, <1>10
  <1> QED BY <1>3, <1>9, <1>10

-----------------------------------------------------------------------------
(***************************************************************************)
(* Type correctness: TypeOK and HeadInHand are inductive together.         *)
(***************************************************************************)
LEMMA TypeInit == Init => TypeOK /\ HeadInHand
  <1> SUFFICES ASSUME Init PROVE TypeOK /\ HeadInHand
    OBVIOUS
  <1>1. Map!MapTypeOK
    BY BoundsAssumption DEF Init, Map!MapInit, Map!MapTypeOK, Map!Unknown
  <1>2. column \in Columns
    BY ColumnsAssumption, Least DEF Init
  <1> QED BY <1>1, <1>2, BoundsAssumption DEF Init, Map!MapInit, TypeOK, HeadInHand

LEMMA TypeStep == TypeOK /\ HeadInHand /\ [Next]_vars => TypeOK' /\ HeadInHand'
  <1> SUFFICES ASSUME TypeOK, HeadInHand, [Next]_vars PROVE TypeOK' /\ HeadInHand'
    OBVIOUS
  <1>0. Map!MapTypeOK
    BY DEF TypeOK
  <1>h. columnCmds # <<>> =>
          /\ Head(columnCmds) \in Cmd
          /\ Head(columnCmds).column \in Columns
          /\ Head(columnCmds).number \in 0..MaxCmds
          /\ Head(columnCmds).user \in Users \cup {"none"}
          /\ Tail(columnCmds) \in Seq(Cmd)
    BY HeadType DEF Cmd
  <1>1. CASE Reconnect
    BY <1>1, DoneType DEF Reconnect, TypeOK, HeadInHand, mapVars, Map!MapTypeOK
  <1>2. CASE SendStatusRequest
    BY <1>2, SendType DEF SendStatusRequest, TypeOK, HeadInHand, mapVars, Map!MapTypeOK, Asks
  <1>3. CASE SendPrice
    <2> DEFINE cmd == Head(columnCmds)
    <2>1. /\ columnCmds # <<>>
          /\ Map!SetUserUpdateValidity(cmd.column # 0, 0)
          /\ Send(cmd.column, "WRITE_MONEY")
          /\ pc' = "price"
          /\ UNCHANGED <<connectionInited, columnCmds, column, packet, transactionHolder,
                         inbox, queued, transmitted, origin>>
      BY <1>3 DEF SendPrice
    <2>2. Map!MapTypeOK' /\ received' = received
      BY <1>0, <2>1, FlagNumbers
    <2>3. requests' \in Seq([to : Columns, ask : Asks])
      BY <1>h, <2>1, SendType DEF Asks
    <2> QED BY <2>1, <2>2, <2>3 DEF TypeOK, HeadInHand, Asks
  <1>4. CASE IgnorePriceReply
    BY <1>4, ReadType DEF IgnorePriceReply, TypeOK, HeadInHand, mapVars, Map!MapTypeOK, Asks
  <1>5. CASE SendCmd
    <2> DEFINE cmd == Head(columnCmds)
    <2>1. /\ columnCmds # <<>>
          /\ UNCHANGED mapVars \/ Map!SetUserUpdateValidity(cmd.column # 0, 0)
          /\ Send(cmd.column, cmd.type)
          /\ pc' = "cmd"
          /\ \/ transmitted' = transmitted
             \/ cmd.number > 0 /\ transmitted' = Append(transmitted, cmd.number)
          /\ UNCHANGED <<connectionInited, columnCmds, column, packet, transactionHolder,
                         inbox, queued, origin>>
      BY <1>5 DEF SendCmd, HeadInHand
    <2>2. Map!MapTypeOK' /\ received' = received
      <3>1. CASE UNCHANGED mapVars
        BY <1>0, <3>1 DEF mapVars, Map!MapTypeOK
      <3>2. CASE Map!SetUserUpdateValidity(cmd.column # 0, 0)
        BY <1>0, <3>2, FlagNumbers
      <3> QED BY <2>1, <3>1, <3>2
    <2>3. cmd.type \in Asks
      BY <1>h, <2>1 DEF Cmd, Asks
    <2>4. requests' \in Seq([to : Columns, ask : Asks])
      BY <1>h, <2>1, <2>3, SendType
    <2>5. transmitted' \in Seq(1..MaxCmds)
      <3> DEFINE N == 1..MaxCmds
      <3>1. cmd.number > 0 => cmd.number \in N
        BY <1>h, <2>1 DEF TypeOK
      <3>2. transmitted \in Seq(N)
        BY DEF TypeOK
      <3> HIDE DEF cmd, N
      <3>3. cmd.number > 0 => Append(transmitted, cmd.number) \in Seq(N)
        BY <3>1, <3>2, AppendProperties
      <3> QED BY <2>1, <3>2, <3>3 DEF N
    <2> QED BY <2>1, <2>2, <2>4, <2>5 DEF TypeOK, HeadInHand, Asks
  <1>6. CASE RejectClose
    <2> DEFINE cmd == Head(columnCmds)
    <2>1. /\ columnCmds # <<>>
          /\ Map!SetUserUpdateValidity(cmd.column # 0, 0)
          /\ columnCmds' = Tail(columnCmds)
          /\ Done
          /\ UNCHANGED <<connectionInited, transactionHolder, wireVars, queued,
                         transmitted, origin>>
      BY <1>6 DEF RejectClose, PopFront
    <2>2. Map!MapTypeOK' /\ received' = received
      BY <1>0, <2>1, FlagNumbers
    <2>3. columnCmds' \in Seq(Cmd)
      BY <1>h, <2>1
    <2> QED BY <2>1, <2>2, <2>3, DoneType DEF TypeOK, HeadInHand, wireVars
  <1>7. CASE ReadOn
    BY <1>7, ReadType DEF ReadOn, TypeOK, HeadInHand, mapVars, Map!MapTypeOK, Asks
  <1>8. CASE TakeStatus
    <2> DEFINE r == inbox[1]
    <2>1. r \in Reply
      BY <1>8, PacketType DEF TakeStatus, TypeOK
    <2>2. Read /\ Done /\ transmitted' = transmitted
      BY <1>8 DEF TakeStatus
    <2>3. CASE r.kind = "keyboard"
      <3>1. NotAdded
        BY <1>8, <2>3 DEF TakeStatus
      <3>2. columnCmds' \in Seq(Cmd) /\ queued' \in 0..MaxCmds
        <4>1. CASE PushBack("WRITE_VOLUME", r.from, "none")
          BY <2>1, <4>1, PushType DEF Reply, CmdTypes
        <4>2. CASE UNCHANGED <<columnCmds, queued>>
          BY <4>2 DEF TypeOK
        <4> QED BY <1>8, <2>3, <4>1, <4>2 DEF TakeStatus
      <3> QED
        BY <2>2, <3>1, <3>2, ReadType, DoneType
           DEF NotAdded, mapVars, TypeOK, HeadInHand, Map!MapTypeOK, Asks
    <2>4. CASE r.kind # "keyboard"
      <3>1. AddState(column, r, Addr[column], r.from, "none") /\ UNCHANGED <<columnCmds, queued>>
        BY <1>8, <2>4 DEF TakeStatus
      <3>2. column \in Columns /\ r.from \in Columns /\ "none" \in Users \cup {"none"}
        BY <2>1 DEF TypeOK, Reply
      <3> HIDE DEF r
      <3>3. /\ Map!MapTypeOK'
            /\ transactionHolder' \subseteq {Addr[d] : d \in Columns}
            /\ origin' \in Seq(Reply) /\ Len(origin') = received'
        BY <2>1, <3>1, <3>2, AddStateType
      <3> QED
        BY <2>2, <3>1, <3>3, ReadType, DoneType DEF TypeOK, HeadInHand, Asks
    <2> QED BY <2>3, <2>4
  <1>9. CASE TakeStatusRest
    <2> DEFINE all == packet \o inbox
    <2>1. Read /\ Done /\ UNCHANGED <<columnCmds, queued, transmitted>>
      BY <1>9 DEF TakeStatusRest
    <2>2. /\ Map!MapTypeOK'
          /\ transactionHolder' \subseteq {Addr[d] : d \in Columns}
          /\ origin' \in Seq(Reply) /\ Len(origin') = received'
      <3>1. CASE NotAdded
        BY <3>1 DEF NotAdded, mapVars, TypeOK, Map!MapTypeOK
      <3>2. CASE CheckPacket(all) /\ AddState(column, all[1], Addr[column], all[1].from, "none")
        <4>1. all \in Seq(Reply) /\ CheckPacket(all)
          BY <3>2, ConcatProperties DEF TypeOK
        <4> DEFINE r == all[1]
        <4>2. /\ r \in Reply /\ r.from \in Columns /\ column \in Columns
              /\ "none" \in Users \cup {"none"}
          BY <4>1, PacketType DEF TypeOK
        <4>3. AddState(column, r, Addr[column], r.from, "none")
          BY <3>2
        <4> HIDE DEF r
        <4> QED BY <4>2, <4>3, AddStateType
      <3> QED BY <1>9, <3>1, <3>2 DEF TakeStatusRest
    <2> QED
      BY <2>1, <2>2, ReadType, DoneType DEF TypeOK, HeadInHand, Asks
  <1>10. CASE TakeCmdReply
    <2> DEFINE r == inbox[1]
               cmd == Head(columnCmds)
    <2>1. /\ CheckPacket(inbox)
          /\ AddState(cmd.column, r, Addr[cmd.column], cmd.column, cmd.user)
          /\ Read /\ columnCmds' = Tail(columnCmds) /\ Done
          /\ UNCHANGED <<queued, transmitted>>
      BY <1>10 DEF TakeCmdReply, PopFront
    <2>2. r \in Reply /\ columnCmds # <<>>
      BY <1>10, PacketType DEF TakeCmdReply, TypeOK, HeadInHand
    <2>3. cmd.column \in Columns /\ cmd.user \in Users \cup {"none"} /\ columnCmds' \in Seq(Cmd)
      BY <1>h, <2>1, <2>2
    <2> HIDE DEF r, cmd
    <2>4. /\ Map!MapTypeOK'
          /\ transactionHolder' \subseteq {Addr[d] : d \in Columns}
          /\ origin' \in Seq(Reply) /\ Len(origin') = received'
      BY <2>1, <2>2, <2>3, AddStateType
    <2> QED
      BY <2>1, <2>3, <2>4, ReadType, DoneType DEF TypeOK, HeadInHand, Asks
  <1>11. CASE TakeCmdReplyRest
    <2> DEFINE all == packet \o inbox
               cmd == Head(columnCmds)
    <2>1. /\ Read /\ columnCmds' = Tail(columnCmds) /\ Done
          /\ UNCHANGED <<queued, transmitted>>
          /\ columnCmds # <<>>
      BY <1>11 DEF TakeCmdReplyRest, PopFront, HeadInHand
    <2>2. cmd.column \in Columns /\ cmd.user \in Users \cup {"none"} /\ columnCmds' \in Seq(Cmd)
      BY <1>h, <2>1
    <2>3. /\ Map!MapTypeOK'
          /\ transactionHolder' \subseteq {Addr[d] : d \in Columns}
          /\ origin' \in Seq(Reply) /\ Len(origin') = received'
      <3>1. CASE NotAdded
        BY <3>1 DEF NotAdded, mapVars, TypeOK, Map!MapTypeOK
      <3>2. CASE CheckPacket(all) /\ AddState(cmd.column, all[1], cmd.column, all[1].from, cmd.user)
        <4>1. all \in Seq(Reply) /\ CheckPacket(all)
          BY <3>2, ConcatProperties DEF TypeOK
        <4> DEFINE r == all[1]
        <4>2. r \in Reply /\ r.from \in Columns
          BY <4>1, PacketType
        <4>3. AddState(cmd.column, r, cmd.column, r.from, cmd.user)
          BY <3>2
        <4> HIDE DEF r, cmd
        <4> QED BY <2>2, <4>2, <4>3, AddStateType
      <3> QED BY <1>11, <3>1, <3>2 DEF TakeCmdReplyRest
    <2> QED
      BY <2>1, <2>2, <2>3, ReadType, DoneType DEF TypeOK, HeadInHand, Asks
  <1>12. CASE JsonAddCmd
    <2>1. PICK type \in CmdTypes, c \in Columns, u \in Users : PushBack(type, c, u)
      BY <1>12 DEF JsonAddCmd
    <2>2. columnCmds' \in Seq(Cmd) /\ columnCmds' # <<>> /\ queued' \in 0..MaxCmds
      BY <1>12, <2>1, PushType DEF JsonAddCmd
    <2> QED
      BY <1>12, <2>2 DEF JsonAddCmd, TypeOK, HeadInHand, mapVars, wireVars, Map!MapTypeOK
  <1>13. CASE JsonGetState
    BY <1>0, <1>13, GetStateNumbers DEF JsonGetState, TypeOK, HeadInHand, wireVars
  <1>14. CASE SecondPasses
    BY <1>0, <1>14, TickNumbers DEF SecondPasses, TypeOK, HeadInHand, wireVars
  <1>15. CASE Answer
    <2>1. requests \in Seq([to : Columns, ask : Asks]) /\ requests # <<>>
      BY <1>15 DEF Answer, TypeOK, Asks
    <2>2. requests' \in Seq([to : Columns, ask : Asks]) /\ Head(requests).to \in Columns
      <3> DEFINE M == [to : Columns, ask : Asks]
      <3>1. requests \in Seq(M) /\ requests # <<>> /\ requests' = Tail(requests)
        BY <1>15, <2>1 DEF Answer
      <3> HIDE DEF M
      <3>2. Head(requests) \in M /\ Tail(requests) \in Seq(M)
        BY <3>1, HeadTailProperties
      <3> QED BY <3>1, <3>2 DEF M
    <2>3. inbox' \in Seq(Reply)
      <3>1. ASSUME NEW kind \in Kinds
            PROVE  [from |-> Head(requests).to, kind |-> kind] \in Reply
        BY <2>2 DEF Reply
      <3>2. inbox \in Seq(Reply)
        BY DEF TypeOK
      <3>3. ASSUME NEW r \in Reply PROVE Append(inbox, r) \in Seq(Reply)
        BY <3>2, AppendProperties
      <3> QED BY <1>15, <3>1, <3>2, <3>3 DEF Answer
    <2> QED
      BY <1>15, <2>2, <2>3 DEF Answer, TypeOK, HeadInHand, mapVars, Map!MapTypeOK, Asks
  <1>16. CASE UNCHANGED vars
    BY <1>16 DEF vars, mapVars, wireVars, TypeOK, HeadInHand, Map!MapTypeOK
  <1> QED
    BY <1>1, <1>2, <1>3, <1>4, <1>5, <1>6, <1>7, <1>8, <1>9, <1>10, <1>11, <1>12, <1>13, <1>14,
       <1>15, <1>16 DEF Next, PollThread

LEMMA TypeInvariance == Spec => [](TypeOK /\ HeadInHand)
  <1> QED BY TypeInit, TypeStep, PTL DEF Spec

\* The thread never takes a turn outside the line, reads a packet of something
\* that is not one of its columns, or gets hold of a command that is not there.
THEOREM Typing == Spec => []TypeOK
  BY TypeInvariance, PTL

-----------------------------------------------------------------------------
(***************************************************************************)
(* The status of a column is its own, if its address is its id.            *)
(***************************************************************************)
AddressesAreIds == \A c \in Columns : Addr[c] = c

\* The map knows no report that has not been received.
NumbersReceived == \A c \in Columns : states[c].number \in 0..received

\* The calls that give no number to anything keep both.
LEMMA KeepsOwn ==
    ASSUME TypeOK, TypeOK', NumbersReceived, OwnStatus,
           received' = received, origin' = origin,
           \A c \in Columns : states'[c].number \in {states[c].number, 0}
    PROVE  NumbersReceived' /\ OwnStatus'
  <1>1. received \in Nat
    BY BoundsAssumption DEF TypeOK, Map!MapTypeOK
  <1> QED BY <1>1 DEF NumbersReceived, OwnStatus

\* A report of the column itself, or totals, are added.
LEMMA AddsOwn ==
    ASSUME TypeOK, NumbersReceived, OwnStatus,
           NEW c \in Columns, NEW r \in Reply, NEW expected, NEW id \in Columns,
           NEW u \in Users \cup {"none"}, AddState(c, r, expected, id, u),
           expected = Addr[c]
    PROVE  NumbersReceived' /\ OwnStatus'
  <1>1. received \in Nat
    BY BoundsAssumption DEF TypeOK, Map!MapTypeOK
  <1>2. CASE UNCHANGED <<states, received, origin>>
    BY <1>2 DEF NumbersReceived, OwnStatus
  <1>3. CASE /\ r.kind = "totals" \/ Addr[r.from] = expected
             /\ received' = received + 1
             /\ origin'[received + 1] = r
             /\ \A n \in 1..received : origin'[n] = origin[n]
             /\ \A d \in Columns :
                   \/ states'[d].number = states[d].number
                   \/ d = c /\ states'[d].number = received + 1
    <2>1. r.kind # "totals" => r.from = c
      BY <1>3, AddrAssumption DEF Reply
    <2>2. NumbersReceived'
      BY <1>1, <1>3 DEF NumbersReceived
    <2>3. ASSUME NEW d \in Columns, states'[d].number > 0,
                 origin'[states'[d].number].kind # "totals"
          PROVE  origin'[states'[d].number].from = d
      <3>1. CASE states'[d].number = states[d].number
        <4>1. states[d].number \in 1..received
          BY <1>1, <2>3, <3>1 DEF NumbersReceived
        <4> QED BY <1>3, <2>3, <3>1, <4>1 DEF OwnStatus
      <3>2. CASE d = c /\ states'[d].number = received + 1
        BY <1>3, <2>1, <2>3, <3>2
      <3> QED BY <1>3, <3>1, <3>2
    <2> QED BY <2>2, <2>3 DEF OwnStatus
  <1> QED BY <1>2, <1>3, AddStateType

LEMMA OwnInit == Init => NumbersReceived /\ OwnStatus
  BY DEF Init, Map!MapInit, Map!Unknown, NumbersReceived, OwnStatus

LEMMA OwnStep ==
    ASSUME AddressesAreIds, TypeOK, TypeOK', HeadInHand, NumbersReceived, OwnStatus, [Next]_vars
    PROVE  NumbersReceived' /\ OwnStatus'
  <1>0. Map!MapTypeOK
    BY DEF TypeOK
  <1>k. ASSUME UNCHANGED <<states, received, origin>> PROVE NumbersReceived' /\ OwnStatus'
    BY <1>k DEF NumbersReceived, OwnStatus
  <1>h. columnCmds # <<>> =>
          /\ Head(columnCmds).column \in Columns
          /\ Head(columnCmds).user \in Users \cup {"none"}
    BY HeadType DEF Cmd
  <1>c. column \in Columns /\ "none" \in Users \cup {"none"}
    BY DEF TypeOK
  <1>1. CASE SendPrice \/ SendCmd \/ RejectClose
    <2>1. \/ UNCHANGED mapVars
          \/ Map!SetUserUpdateValidity(Head(columnCmds).column # 0, 0)
      BY <1>1 DEF SendPrice, SendCmd, RejectClose
    <2>2. UNCHANGED <<states, received>>
      BY <1>0, <2>1, FlagNumbers DEF mapVars
    <2> QED BY <1>1, <1>k, <2>2 DEF SendPrice, SendCmd, RejectClose
  <1>2. CASE TakeStatus
    <2> DEFINE r == inbox[1]
    <2>1. CASE NotAdded
      BY <1>k, <2>1 DEF NotAdded, mapVars
    <2>2. CASE CheckPacket(inbox) /\ AddState(column, r, Addr[column], r.from, "none")
      <3>1. r \in Reply /\ r.from \in Columns
        BY <2>2, PacketType DEF TypeOK
      <3> HIDE DEF r
      <3> QED BY <1>c, <2>2, <3>1, AddsOwn
    <2> QED BY <1>2, <2>1, <2>2 DEF TakeStatus
  <1>3. CASE TakeStatusRest
    <2> DEFINE all == packet \o inbox
               r   == all[1]
    <2>1. CASE NotAdded
      BY <1>k, <2>1 DEF NotAdded, mapVars
    <2>2. CASE CheckPacket(all) /\ AddState(column, r, Addr[column], r.from, "none")
      <3>1. all \in Seq(Reply)
        BY ConcatProperties DEF TypeOK
      <3>2. r \in Reply /\ r.from \in Columns
        BY <2>2, <3>1, PacketType
      <3> HIDE DEF r
      <3> QED BY <1>c, <2>2, <3>2, AddsOwn
    <2> QED BY <1>3, <2>1, <2>2 DEF TakeStatusRest
  <1>4. CASE TakeCmdReply
    <2> DEFINE r   == inbox[1]
               cmd == Head(columnCmds)
    <2>1. /\ CheckPacket(inbox) /\ columnCmds # <<>>
          /\ AddState(cmd.column, r, Addr[cmd.column], cmd.column, cmd.user)
      BY <1>4 DEF TakeCmdReply, HeadInHand
    <2>2. r \in Reply
      BY <2>1, PacketType DEF TypeOK
    <2>3. cmd.column \in Columns /\ cmd.user \in Users \cup {"none"}
      BY <1>h, <2>1
    <2> HIDE DEF r, cmd
    <2> QED BY <2>1, <2>2, <2>3, AddsOwn
  <1>5. CASE TakeCmdReplyRest
    <2> DEFINE all == packet \o inbox
               r   == all[1]
               cmd == Head(columnCmds)
    <2>1. CASE NotAdded
      BY <1>k, <2>1 DEF NotAdded, mapVars
    <2>2. CASE CheckPacket(all) /\ AddState(cmd.column, r, cmd.column, r.from, cmd.user)
      <3>1. all \in Seq(Reply)
        BY ConcatProperties DEF TypeOK
      <3>2. r \in Reply /\ r.from \in Columns
        BY <2>2, <3>1, PacketType
      <3>3. cmd.column \in Columns /\ cmd.user \in Users \cup {"none"}
        BY <1>5, <1>h DEF TakeCmdReplyRest, HeadInHand
      <3>4. cmd.column = Addr[cmd.column]
        BY <3>3 DEF AddressesAreIds
      <3> HIDE DEF r, cmd
      <3> QED BY <2>2, <3>2, <3>3, <3>4, AddsOwn
    <2> QED BY <1>5, <2>1, <2>2 DEF TakeCmdReplyRest
  <1>6. CASE JsonGetState
    <2>1. PICK c \in Columns : Map!GetState(c)
      BY <1>6 DEF JsonGetState
    <2>2. received' = received /\ \A d \in Columns : states'[d].number \in {states[d].number, 0}
      BY <1>0, <2>1, GetStateNumbers
    <2> QED BY <1>6, <2>2, KeepsOwn DEF JsonGetState
  <1>7. CASE SecondPasses
    BY <1>0, <1>7, <1>k, TickNumbers DEF SecondPasses
  <1>8. CASE \/ Reconnect \/ SendStatusRequest \/ IgnorePriceReply \/ ReadOn
             \/ JsonAddCmd \/ Answer \/ UNCHANGED vars
    BY <1>8, <1>k
       DEF Reconnect, SendStatusRequest, IgnorePriceReply, ReadOn, JsonAddCmd, Answer, vars, mapVars
  <1> QED BY <1>1, <1>2, <1>3, <1>4, <1>5, <1>6, <1>7, <1>8 DEF Next, PollThread

\* With addresses that are the ids, no late, lost or repeated reply ever puts a
\* status under a column that did not send it (parseResponse, addState).
THEOREM StatusIsOwn ==
    ASSUME AddressesAreIds
    PROVE  Spec => []OwnStatus
  <1>1. Init => NumbersReceived /\ OwnStatus
    BY OwnInit
  <1>2. TypeOK /\ TypeOK' /\ HeadInHand /\ NumbersReceived /\ OwnStatus /\ [Next]_vars
          => NumbersReceived' /\ OwnStatus'
    BY AddressesAreIds, OwnStep
  <1> QED BY <1>1, <1>2, TypeInvariance, PTL DEF Spec

-----------------------------------------------------------------------------
(***************************************************************************)
(* Commands go out in order.                                               *)
(***************************************************************************)

\* The queue is in the order of the numbers, with the commands past MaxCmds, which
\* all have number 0, behind them.
QueueInOrder ==
    /\ \A i, j \in DOMAIN columnCmds :
          i < j => \/ columnCmds[i].number < columnCmds[j].number
                   \/ columnCmds[j].number = 0
    /\ \A i \in DOMAIN columnCmds : columnCmds[i].number <= queued
    /\ \A i \in DOMAIN columnCmds : columnCmds[i].number = 0 => queued = MaxCmds

\* What was sent comes before what is queued, but for the command in hand.
SentBeforeQueued ==
    \A i \in DOMAIN transmitted, j \in DOMAIN columnCmds :
        \/ transmitted[i] < columnCmds[j].number
        \/ columnCmds[j].number = 0
        \/ /\ j = 1 /\ pc \in {"cmd", "cmdRest"}
           /\ transmitted[i] <= columnCmds[j].number

\* What was sent was queued.
SentWasQueued == \A i \in DOMAIN transmitted : transmitted[i] <= queued

OrderInv == QueueInOrder /\ SentBeforeQueued /\ SentWasQueued /\ SentInOrder

LEMMA Numbers ==
    ASSUME TypeOK
    PROVE  /\ \A i \in DOMAIN columnCmds : columnCmds[i].number \in Nat
           /\ \A i \in DOMAIN transmitted : transmitted[i] \in Nat
           /\ queued \in Nat
           /\ DOMAIN columnCmds = 1..Len(columnCmds) /\ Len(columnCmds) \in Nat
           /\ DOMAIN transmitted = 1..Len(transmitted) /\ Len(transmitted) \in Nat
  <1>1. columnCmds \in Seq(Cmd) /\ transmitted \in Seq(1..MaxCmds)
    BY DEF TypeOK
  <1>2. \A i \in DOMAIN columnCmds : columnCmds[i] \in Cmd
    BY <1>1
  <1>3. \A cmd \in Cmd : cmd.number \in Nat
    BY DEF Cmd
  <1>4. \A i \in DOMAIN transmitted : transmitted[i] \in Nat
    <2> DEFINE N == 1..MaxCmds
    <2>1. transmitted \in Seq(N) /\ \A n \in N : n \in Nat
      BY <1>1
    <2> HIDE DEF N
    <2> QED BY <2>1
  <1>5. queued \in Nat
    BY DEF TypeOK
  <1> QED BY <1>1, <1>2, <1>3, <1>4, <1>5

LEMMA KeepsOrder ==
    ASSUME OrderInv, UNCHANGED <<columnCmds, transmitted, queued>>,
           pc \in {"cmd", "cmdRest"} => pc' \in {"cmd", "cmdRest"}
    PROVE  OrderInv'
  BY DEF OrderInv, QueueInOrder, SentBeforeQueued, SentWasQueued, SentInOrder

LEMMA PushKeepsOrder ==
    ASSUME TypeOK, OrderInv, NEW type, NEW c, NEW u, PushBack(type, c, u),
           transmitted' = transmitted,
           pc \in {"cmd", "cmdRest"} => pc' \in {"cmd", "cmdRest"}
    PROVE  OrderInv'
  <1> DEFINE number == IF queued < MaxCmds THEN queued + 1 ELSE 0
             cmd    == [number |-> number, type |-> type, column |-> c, user |-> u]
             n      == Len(columnCmds)
  <1>1. /\ \/ queued' = queued + 1 /\ queued < MaxCmds /\ number = queued + 1
           \/ queued' = queued /\ queued = MaxCmds /\ number = 0
        /\ DOMAIN columnCmds' = 1..(n + 1)
        /\ \A i \in 1..n : columnCmds'[i] = columnCmds[i]
        /\ columnCmds'[n + 1].number = number
    <2>1. columnCmds' = Append(columnCmds, cmd) /\ columnCmds \in Seq(Cmd)
      BY DEF PushBack, TypeOK
    <2>2. \/ queued' = queued + 1 /\ queued < MaxCmds /\ number = queued + 1
          \/ queued' = queued /\ queued = MaxCmds /\ number = 0
      BY BoundsAssumption DEF PushBack, TypeOK
    <2>3. cmd.number = number
      OBVIOUS
    <2> HIDE DEF cmd, number
    <2> QED BY <2>1, <2>2, <2>3
  <1> HIDE DEF number
  <1>2. QueueInOrder'
    <2>1. ASSUME NEW i \in DOMAIN columnCmds', NEW j \in DOMAIN columnCmds', i < j
          PROVE  columnCmds'[i].number < columnCmds'[j].number \/ columnCmds'[j].number = 0
      <3>1. i \in 1..n /\ columnCmds[i].number <= queued
        BY <1>1, <2>1, Numbers DEF OrderInv, QueueInOrder
      <3>2. CASE j \in 1..n
        BY <1>1, <2>1, <3>1, <3>2, Numbers DEF OrderInv, QueueInOrder
      <3>3. CASE j = n + 1
        BY <1>1, <3>1, <3>3, Numbers
      <3> QED BY <1>1, <2>1, <3>2, <3>3, Numbers
    <2>2. ASSUME NEW i \in DOMAIN columnCmds'
          PROVE  /\ columnCmds'[i].number <= queued'
                 /\ columnCmds'[i].number = 0 => queued' = MaxCmds
      <3>1. CASE i \in 1..n
        BY <1>1, <3>1, Numbers DEF OrderInv, QueueInOrder
      <3>2. CASE i = n + 1
        BY <1>1, <3>2, Numbers
      <3> QED BY <1>1, <2>2, <3>1, <3>2, Numbers
    <2> QED BY <2>1, <2>2 DEF QueueInOrder
  <1>3. SentBeforeQueued'
    BY <1>1, Numbers DEF OrderInv, SentBeforeQueued, SentWasQueued
  <1>4. SentWasQueued' /\ SentInOrder'
    BY <1>1, Numbers DEF OrderInv, SentWasQueued, SentInOrder
  <1> QED BY <1>2, <1>3, <1>4 DEF OrderInv

LEMMA SendKeepsOrder ==
    ASSUME TypeOK, OrderInv, columnCmds # <<>>, pc \notin {"cmd", "cmdRest"}, pc' = "cmd",
           UNCHANGED <<columnCmds, queued>>,
           \/ transmitted' = transmitted
           \/ /\ Head(columnCmds).number > 0
              /\ transmitted' = Append(transmitted, Head(columnCmds).number)
    PROVE  OrderInv'
  <1> DEFINE k == Head(columnCmds).number
             m == Len(transmitted)
  <1>1. k = columnCmds[1].number /\ 1 \in DOMAIN columnCmds /\ k \in Nat /\ k <= queued
    BY HeadType, Numbers DEF OrderInv, QueueInOrder
  <1>2. k > 0 =>
          /\ \A i \in DOMAIN transmitted : transmitted[i] < k
          /\ \A j \in DOMAIN columnCmds :
                j = 1 \/ k < columnCmds[j].number \/ columnCmds[j].number = 0
    BY <1>1, Numbers DEF OrderInv, SentBeforeQueued, QueueInOrder
  <1>3. CASE transmitted' = transmitted
    BY <1>3, KeepsOrder
  <1>4. CASE k > 0 /\ transmitted' = Append(transmitted, k)
    <2>1. /\ DOMAIN transmitted' = 1..(m + 1)
          /\ \A i \in 1..m : transmitted'[i] = transmitted[i]
          /\ transmitted'[m + 1] = k
      <3>1. transmitted \in Seq(1..MaxCmds)
        BY DEF TypeOK
      <3> HIDE DEF k
      <3> QED BY <1>4, <3>1
    <2>p. /\ \A i \in DOMAIN transmitted : transmitted[i] < k
          /\ \A j \in DOMAIN columnCmds :
                j = 1 \/ k < columnCmds[j].number \/ columnCmds[j].number = 0
      BY <1>2, <1>4
    <2> HIDE DEF k
    <2>2. QueueInOrder'
      BY DEF OrderInv, QueueInOrder
    <2>3. SentBeforeQueued'
      BY <1>1, <2>p, <2>1, Numbers DEF OrderInv, SentBeforeQueued
    <2>4. SentWasQueued'
      BY <1>1, <2>1, Numbers DEF OrderInv, SentWasQueued
    <2>5. SentInOrder'
      BY <2>p, <2>1, Numbers DEF OrderInv, SentInOrder
    <2> QED BY <2>2, <2>3, <2>4, <2>5 DEF OrderInv
  <1> QED BY <1>3, <1>4

LEMMA PopKeepsOrder ==
    ASSUME TypeOK, OrderInv, columnCmds # <<>>, PopFront, UNCHANGED <<queued, transmitted>>
    PROVE  OrderInv'
  <1>1. /\ DOMAIN columnCmds' = 1..(Len(columnCmds) - 1)
        /\ \A i \in 1..(Len(columnCmds) - 1) : columnCmds'[i] = columnCmds[i + 1]
    BY HeadTailProperties DEF TypeOK, PopFront
  <1>2. QueueInOrder'
    <2>1. \A i \in DOMAIN columnCmds' :
             i \in Nat /\ i + 1 \in DOMAIN columnCmds /\ columnCmds'[i] = columnCmds[i + 1]
      BY <1>1, Numbers
    <2>2. ASSUME NEW i \in DOMAIN columnCmds', NEW j \in DOMAIN columnCmds', i < j
          PROVE  columnCmds'[i].number < columnCmds'[j].number \/ columnCmds'[j].number = 0
      <3>1. i + 1 < j + 1
        BY <2>1, <2>2
      <3> QED BY <2>1, <3>1 DEF OrderInv, QueueInOrder
    <2>3. ASSUME NEW i \in DOMAIN columnCmds'
          PROVE  /\ columnCmds'[i].number <= queued'
                 /\ columnCmds'[i].number = 0 => queued' = MaxCmds
      BY <2>1 DEF OrderInv, QueueInOrder
    <2> QED BY <2>2, <2>3 DEF QueueInOrder
  <1>3. SentBeforeQueued'
    <2> SUFFICES ASSUME NEW i \in DOMAIN transmitted, NEW j \in DOMAIN columnCmds'
                 PROVE  transmitted[i] < columnCmds'[j].number \/ columnCmds'[j].number = 0
      BY DEF SentBeforeQueued
    <2>1. j + 1 \in DOMAIN columnCmds /\ j + 1 # 1 /\ columnCmds'[j] = columnCmds[j + 1]
      BY <1>1, Numbers
    <2> QED BY <2>1 DEF OrderInv, SentBeforeQueued
  <1>4. SentWasQueued' /\ SentInOrder'
    BY DEF OrderInv, SentWasQueued, SentInOrder
  <1> QED BY <1>2, <1>3, <1>4 DEF OrderInv

LEMMA OrderInit == Init => OrderInv
  BY DEF Init, OrderInv, QueueInOrder, SentBeforeQueued, SentWasQueued, SentInOrder

LEMMA OrderStep == TypeOK /\ HeadInHand /\ OrderInv /\ [Next]_vars => OrderInv'
  <1> SUFFICES ASSUME TypeOK, HeadInHand, OrderInv, [Next]_vars PROVE OrderInv'
    OBVIOUS
  <1>1. CASE \/ Reconnect \/ SendStatusRequest \/ SendPrice \/ IgnorePriceReply \/ ReadOn
             \/ TakeStatusRest
    BY <1>1, KeepsOrder
       DEF Reconnect, SendStatusRequest, SendPrice, IgnorePriceReply, ReadOn, TakeStatusRest, Done
  <1>2. CASE TakeStatus
    <2>1. /\ pc = "status" /\ transmitted' = transmitted
          /\ \/ UNCHANGED <<columnCmds, queued>>
             \/ \E c : PushBack("WRITE_VOLUME", c, "none")
      BY <1>2 DEF TakeStatus
    <2>2. CASE UNCHANGED <<columnCmds, queued>>
      BY <2>1, <2>2, KeepsOrder
    <2>3. CASE \E c : PushBack("WRITE_VOLUME", c, "none")
      BY <2>1, <2>3, PushKeepsOrder
    <2> QED BY <2>1, <2>2, <2>3
  <1>3. CASE SendCmd
    <2>1. /\ columnCmds # <<>> /\ pc \notin {"cmd", "cmdRest"} /\ pc' = "cmd"
          /\ UNCHANGED <<columnCmds, queued>>
          /\ \/ transmitted' = transmitted
             \/ /\ Head(columnCmds).number > 0
                /\ transmitted' = Append(transmitted, Head(columnCmds).number)
      BY <1>3 DEF SendCmd, HeadInHand
    <2> QED BY <2>1, SendKeepsOrder
  <1>4. CASE RejectClose \/ TakeCmdReply \/ TakeCmdReplyRest
    <2>1. columnCmds # <<>> /\ PopFront /\ UNCHANGED <<queued, transmitted>>
      BY <1>4 DEF RejectClose, TakeCmdReply, TakeCmdReplyRest, HeadInHand
    <2> QED BY <2>1, PopKeepsOrder
  <1>5. CASE JsonAddCmd
    <2>1. PICK type \in CmdTypes, c \in Columns, u \in Users : PushBack(type, c, u)
      BY <1>5 DEF JsonAddCmd
    <2>2. pc' = pc /\ transmitted' = transmitted
      BY <1>5 DEF JsonAddCmd
    <2> QED BY <2>1, <2>2, PushKeepsOrder
  <1>6. CASE JsonGetState \/ SecondPasses \/ Answer \/ UNCHANGED vars
    BY <1>6, KeepsOrder DEF JsonGetState, SecondPasses, Answer, vars
  <1> QED BY <1>1, <1>2, <1>3, <1>4, <1>5, <1>6 DEF Next, PollThread

\* Commands are put on the wire in the order they were queued in, each at most
\* once, whatever fails between the price and the command (safeQueue, processCmd).
THEOREM CommandsGoInOrder == Spec => []SentInOrder
  <1>1. OrderInv => SentInOrder
    BY DEF OrderInv
  <1> QED BY <1>1, OrderInit, OrderStep, TypeInvariance, PTL DEF Spec
=============================================================================
