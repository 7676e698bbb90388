------------------------- MODULE StatusReader_proofs -------------------------
(***************************************************************************)
(* Proofs about StatusReader, for any pumps, users, validity time and      *)
(* number of reports.                                                      *)
(*                                                                         *)
(* None of the properties is inductive: they speak of the reply, which is  *)
(* made from the map.  The invariant below says of the MAP what they say   *)
(* of the reply, and that reports which wait to be read are told apart by  *)
(* their numbers.                                                          *)
(***************************************************************************)
EXTENDS StatusReader, TLAPS

\* A request that is being served has a reply.
RequestHasReply == reader # "none" => reply \in ReplyType

\* A status in the map is the last report of its pump (addState replaces
\* everything but totals).
StatusIsNewest ==
    \A p \in Pumps : states[p].type = "STATUS" => states[p].number = newest[p]

\* A pump is held as not served because it is silent, because its last report was
\* NOT_SERVED, or because its totals were read and it has not reported since.
OfflineInMap ==
    \A p \in Pumps :
        states[p].type = "NOT_SERVED" =>
            \/ elapsed[p] > Validity
            \/ said[p] = "NOT_SERVED"
            \/ ~sinceTotals[p]

\* Totals in the map are a report that nobody was given ...
TotalsUnread ==
    \A p \in Pumps :
        states[p].type = "TOTAL_RESPONSE" =>
            states[p].number \in 1..received /\ delivered[states[p].number] = 0

\* ... and that no other pump holds.
TotalsApart ==
    \A p, q \in Pumps :
        /\ states[p].type = "TOTAL_RESPONSE"
        /\ states[q].type = "TOTAL_RESPONSE"
        /\ states[p].number = states[q].number
        => p = q

\* Nothing is given out before it has arrived.
NothingEarly == \A n \in 1..MaxReports : n > received => delivered[n] = 0

Inv ==
    /\ TypeOK
    /\ RequestHasReply
    /\ StatusIsNewest
    /\ OfflineInMap
    /\ TotalsUnread
    /\ TotalsApart
    /\ NothingEarly
    /\ FreshReply
    /\ OfflineExplained
    /\ TotalsOnce

-----------------------------------------------------------------------------
\* What the map holds and hands out are reports.
LEMMA ReplyIsReport ==
    ASSUME TypeOK, NEW p \in Pumps
    PROVE  /\ ReplyOf(p) \in Report
           /\ Known(p) => states[p] \in Report
           /\ NotServed \in Report
  <1>1. NotServed \in Report
    BY ReportsAssumption DEF NotServed, Report, Types
  <1>2. Known(p) => states[p] \in Report
    BY DEF TypeOK, MapTypeOK, Known
  <1>3. Known(p) => [states[p] EXCEPT !.type = "NOT_SERVED"] \in Report
    BY <1>2 DEF Report, Types
  <1> QED BY <1>1, <1>2, <1>3 DEF ReplyOf

\* What a reply is made of: of a pump that is not silent the state as it is, of
\* any other one that is not served.
LEMMA ReplyCases ==
    ASSUME TypeOK, NEW p \in Pumps
    PROVE  LET silent == ~Known(p) \/ elapsed[p] > Validity
           IN  /\ silent => ReplyOf(p).type = "NOT_SERVED"
               /\ ~silent => ReplyOf(p) = states[p]
  <1>1. elapsed[p] \in Nat
    BY ValidityAssumption DEF TypeOK, MapTypeOK
  <1>2. CASE ~Known(p)
    BY <1>2 DEF ReplyOf, NotServed
  <1>3. CASE Known(p)
    <2>1. states[p] \in Report
      BY <1>3, ReplyIsReport
    <2>2. "type" \in DOMAIN states[p]
      BY <2>1 DEF Report
    <2> QED BY <1>1, <1>3, <2>1, <2>2, ValidityAssumption DEF ReplyOf, CheckStateActuality, Report
  <1> QED BY <1>2, <1>3

\* A report that addState accepts replaces everything but totals.
LEMMA StoredCases ==
    ASSUME TypeOK, NEW p \in Pumps, NEW type \in Types, NEW u \in Users \cup {"none"},
           received < MaxReports,
           NEW report, report = [type |-> type, number |-> received + 1, user |-> u]
    PROVE  /\ states[p].type = "TOTAL_RESPONSE" => Stored(p, report) = states[p]
           /\ states[p].type # "TOTAL_RESPONSE" =>
                 /\ Stored(p, report).type = type
                 /\ Stored(p, report).number = received + 1
           /\ Accepted(p, p) => Stored(p, report) \in Report
  <1>1. received \in Nat /\ received + 1 \in 0..MaxReports
    BY ReportsAssumption DEF TypeOK, MapTypeOK
  <1>2. Known(p) => states[p] \in Report
    BY ReplyIsReport
  <1>3. states[p].type = "TOTAL_RESPONSE" => Known(p)
    BY DEF Known, Unknown
  <1>4. Accepted(p, p) => ControlUser(p) \in Users \cup {"none"}
    BY <1>2 DEF Accepted, ControlUser, Report
  <1>5. Stored(p, report) = IF states[p].type = "TOTAL_RESPONSE" THEN states[p]
                            ELSE [type |-> type, number |-> received + 1, user |-> ControlUser(p)]
    BY DEF Stored
  <1> QED BY <1>1, <1>2, <1>3, <1>4, <1>5 DEF Report

-----------------------------------------------------------------------------
LEMMA InvInit == Init => Inv
  <1> SUFFICES ASSUME Init PROVE Inv
    OBVIOUS
  <1> USE DEF Init, MapInit
  <1>1. TypeOK
    BY ValidityAssumption, ReportsAssumption
       DEF TypeOK, MapTypeOK, Unknown
  <1>2. \A p \in Pumps : states[p].type = "UNKNOWN"
    BY DEF Unknown
  <1>3. RequestHasReply /\ FreshReply /\ OfflineExplained
    BY DEF RequestHasReply, FreshReply, OfflineExplained, Served
  <1>4. StatusIsNewest /\ OfflineInMap /\ TotalsUnread /\ TotalsApart
    BY <1>2 DEF StatusIsNewest, OfflineInMap, TotalsUnread, TotalsApart
  <1>5. NothingEarly /\ TotalsOnce
    BY DEF NothingEarly, TotalsOnce
  <1> QED BY <1>1, <1>3, <1>4, <1>5 DEF Inv

\* A second passes: only `elapsed' changes, upwards.
LEMMA TickStep ==
    ASSUME Inv, NEW p \in Pumps, Tick(p), UNCHANGED readerVars
    PROVE  Inv'
  <1> USE DEF Inv, Tick, readerVars
  <1>1. TypeOK'
    BY ValidityAssumption DEF TypeOK, MapTypeOK
  <1>2. \A q \in Pumps : elapsed[q] \in Nat /\ elapsed'[q] \in Nat /\ elapsed'[q] >= elapsed[q]
    BY ValidityAssumption DEF TypeOK, MapTypeOK
  <1>3. OfflineInMap'
    BY <1>2, ValidityAssumption DEF OfflineInMap
  <1>4. /\ RequestHasReply'
        /\ StatusIsNewest'
        /\ TotalsUnread'
        /\ TotalsApart'
        /\ NothingEarly'
        /\ TotalsOnce'
    BY DEF RequestHasReply, StatusIsNewest, TotalsUnread, TotalsApart, NothingEarly, TotalsOnce
  <1>5. FreshReply' /\ OfflineExplained'
    BY DEF FreshReply, OfflineExplained, Served
  <1> QED BY <1>1, <1>3, <1>4, <1>5

\* The poll thread adds a report.
LEMMA ReportStep ==
    ASSUME Inv, NEW p \in Pumps, NEW id \in {0, p}, NEW type \in Types,
           NEW u \in Users \cup {"none"}, TakeReport(p, id, type, u)
    PROVE  Inv'
  <1>1. CASE ~Accepted(p, id)
    <2>1. UNCHANGED vars
      BY <1>1 DEF TakeReport, AddState, vars, readerVars
    <2> QED
      BY <2>1 DEF vars, mapVars, readerVars, Inv, TypeOK, MapTypeOK, RequestHasReply,
         StatusIsNewest, OfflineInMap, TotalsUnread, TotalsApart, NothingEarly, FreshReply,
         OfflineExplained, TotalsOnce, Served
  <1>2. CASE Accepted(p, id)
    <2> DEFINE report == [type |-> type, number |-> received + 1, user |-> u]
               new    == Stored(p, report)
    <2>1. id = p /\ Accepted(p, p)
      BY <1>2 DEF Accepted
    <2>2. /\ received < MaxReports
          /\ states' = [states EXCEPT ![p] = new]
          /\ elapsed' = [elapsed EXCEPT ![p] = 0]
          /\ received' = received + 1
          /\ newest' = [newest EXCEPT ![p] = received + 1]
          /\ said' = [said EXCEPT ![p] = type]
          /\ sinceTotals' = [sinceTotals EXCEPT ![p] = TRUE]
          /\ UNCHANGED <<userUpdateAvailable, reader, reply, delivered>>
      BY <1>2 DEF TakeReport, AddState
    <2>3. TypeOK
      BY DEF Inv
    <2>4. /\ states[p].type = "TOTAL_RESPONSE" => new = states[p]
          /\ states[p].type # "TOTAL_RESPONSE" => new.type = type /\ new.number = received + 1
          /\ new \in Report
      BY <2>1, <2>2, <2>3, StoredCases
    <2>5. received \in Nat /\ received + 1 \in 0..MaxReports
      BY <2>2, <2>3, ReportsAssumption DEF TypeOK, MapTypeOK
    <2>6. \A q \in Pumps : states'[q] = IF q = p THEN new ELSE states[q]
      BY <2>2, <2>3 DEF TypeOK, MapTypeOK
    <2>7. \A q \in Pumps : newest'[q] = IF q = p THEN received + 1 ELSE newest[q]
      BY <2>2, <2>3 DEF TypeOK
    <2> HIDE DEF new, report
    <2>8. TypeOK'
      BY <2>2, <2>3, <2>4, <2>5, ValidityAssumption DEF TypeOK, MapTypeOK
    <2>9. RequestHasReply' /\ FreshReply' /\ OfflineExplained' /\ TotalsOnce'
      BY <2>2 DEF Inv, RequestHasReply, FreshReply, OfflineExplained, TotalsOnce, Served
    <2>10. StatusIsNewest'
      BY <2>4, <2>6, <2>7 DEF Inv, StatusIsNewest
    <2>11. OfflineInMap'
      <3>1. \A q \in Pumps : q # p => elapsed'[q] = elapsed[q] /\ sinceTotals'[q] = sinceTotals[q]
        BY <2>2, <2>3 DEF TypeOK, MapTypeOK
      <3>2. \A q \in Pumps : said'[q] = IF q = p THEN type ELSE said[q]
        BY <2>2, <2>3 DEF TypeOK
      <3> QED BY <2>4, <2>6, <3>1, <3>2 DEF Inv, OfflineInMap
    <2>12. delivered[received + 1] = 0
      BY <2>5 DEF Inv, NothingEarly
    <2>13. TotalsUnread'
      BY <2>2, <2>4, <2>5, <2>6, <2>12 DEF Inv, TotalsUnread
    <2>14. TotalsApart'
      BY <2>4, <2>5, <2>6 DEF Inv, TotalsUnread, TotalsApart
    <2>15. NothingEarly'
      BY <2>2, <2>5 DEF Inv, NothingEarly
    <2> QED BY <2>8, <2>9, <2>10, <2>11, <2>13, <2>14, <2>15 DEF Inv
  <1> QED BY <1>1, <1>2

\* The JSON thread reads the state of a pump.
LEMMA RequestStep ==
    ASSUME Inv, NEW p \in Pumps, NEW u \in Users, ProcessStatusRequest(p, u)
    PROVE  Inv'
  <1> DEFINE silent == ~Known(p) \/ elapsed[p] > Validity
  <1>1. TypeOK
    BY DEF Inv
  <1>2. /\ silent => ReplyOf(p).type = "NOT_SERVED"
        /\ ~silent => ReplyOf(p) = states[p]
    BY <1>1, ReplyCases
  <1>3. /\ ReplyOf(p) \in Report
        /\ Known(p) => states[p] \in Report
        /\ NotServed \in Report
    BY <1>1, ReplyIsReport
  <1>4. /\ reply' = [pump |-> p, report |-> ReplyOf(p), silent |-> silent,
                     newest |-> newest[p], said |-> said[p],
                     sinceTotals |-> sinceTotals[p]]
        /\ reader' = u
        /\ UNCHANGED <<elapsed, userUpdateAvailable, received, newest, said>>
    BY DEF ProcessStatusRequest, GetState
  <1>5. elapsed[p] \in Nat /\ Validity \in Nat
    BY <1>1, ValidityAssumption DEF TypeOK, MapTypeOK
  <1>6. \A q \in Pumps :
            states'[q] = IF q # p \/ ~Known(p) THEN states[q]
                         ELSE IF ~silent /\ states[p].type = "TOTAL_RESPONSE" THEN NotServed
                         ELSE ReplyOf(p)
    BY <1>1, <1>5 DEF ProcessStatusRequest, GetState, TotalsWaiting, CheckStateActuality,
                      TypeOK, MapTypeOK
  <1>7. states' \in [Pumps -> Report \cup {Unknown}]
    BY <1>1, <1>3 DEF ProcessStatusRequest, GetState, TypeOK, MapTypeOK
  <1>8. ReplyOf(p).type = "TOTAL_RESPONSE" <=> ~silent /\ states[p].type = "TOTAL_RESPONSE"
    BY <1>2
  <1>9. /\ ReplyOf(p).type = "TOTAL_RESPONSE" =>
              /\ delivered' = [delivered EXCEPT ![states[p].number] = @ + 1]
              /\ sinceTotals' = [sinceTotals EXCEPT ![p] = FALSE]
        /\ ReplyOf(p).type # "TOTAL_RESPONSE" => UNCHANGED <<delivered, sinceTotals>>
    BY <1>4 DEF ProcessStatusRequest
  <1>s. silent \in BOOLEAN
    BY DEF Known
  <1> HIDE DEF silent
  <1>10. TypeOK'
    <2>1. reply' \in ReplyType
      BY <1>1, <1>3, <1>4, <1>s DEF ReplyType, TypeOK
    <2>2. sinceTotals' \in [Pumps -> BOOLEAN] /\ delivered' \in [1..MaxReports -> Nat]
      <3>1. CASE ReplyOf(p).type = "TOTAL_RESPONSE"
        <4>1. states[p].number \in 1..MaxReports
          BY <1>1, <1>8, <3>1, ReportsAssumption DEF Inv, TotalsUnread, TypeOK, MapTypeOK
        <4>2. sinceTotals' \in [Pumps -> BOOLEAN]
          BY <1>1, <1>9, <3>1 DEF TypeOK
        <4>3. delivered[states[p].number] + 1 \in Nat /\ delivered \in [1..MaxReports -> Nat]
          BY <1>1, <4>1 DEF TypeOK
        <4>4. delivered' = [delivered EXCEPT ![states[p].number] = delivered[states[p].number] + 1]
          BY <1>9, <3>1
        <4> QED BY <4>1, <4>2, <4>3, <4>4
      <3>2. CASE ReplyOf(p).type # "TOTAL_RESPONSE"
        BY <1>1, <1>9, <3>2 DEF TypeOK
      <3> QED BY <3>1, <3>2
    <2> QED BY <1>1, <1>4, <1>7, <2>1, <2>2 DEF TypeOK, MapTypeOK
  <1>11. RequestHasReply'
    BY <1>1, <1>3, <1>4, <1>s DEF RequestHasReply, ReplyType, TypeOK
  <1>12. StatusIsNewest'
    BY <1>2, <1>4, <1>6 DEF Inv, StatusIsNewest, NotServed
  <1>13. OfflineInMap'
    BY <1>1, <1>2, <1>4, <1>6, <1>8, <1>9 DEF Inv, OfflineInMap, NotServed, TypeOK, silent
  <1>14. NothingEarly' /\ TotalsOnce'
    <2>1. CASE ReplyOf(p).type = "TOTAL_RESPONSE"
      <3>1. /\ states[p].number \in 1..received
            /\ delivered[states[p].number] = 0
            /\ received \in Nat
        BY <1>1, <1>8, <2>1 DEF Inv, TotalsUnread, TypeOK, MapTypeOK
      <3>2. \A n \in 1..MaxReports :
               delivered'[n] = IF n = states[p].number THEN 1 ELSE delivered[n]
        <4>1. delivered' = [delivered EXCEPT ![states[p].number] = delivered[states[p].number] + 1]
          BY <1>9, <2>1
        <4> QED BY <1>1, <3>1, <4>1 DEF TypeOK
      <3> QED BY <1>4, <3>1, <3>2 DEF Inv, NothingEarly, TotalsOnce
    <2>2. CASE ReplyOf(p).type # "TOTAL_RESPONSE"
      BY <1>4, <1>9, <2>2 DEF Inv, NothingEarly, TotalsOnce
    <2> QED BY <2>1, <2>2
  <1>15. TotalsApart'
    BY <1>2, <1>6 DEF Inv, TotalsApart, NotServed
  <1>16. TotalsUnread'
    <2> SUFFICES ASSUME NEW q \in Pumps, states'[q].type = "TOTAL_RESPONSE"
                 PROVE  /\ states'[q].number \in 1..received'
                        /\ delivered'[states'[q].number] = 0
      BY DEF TotalsUnread
    <2>1. states'[q] = states[q]
      <3>1. NotServed.type # "TOTAL_RESPONSE"
        BY DEF NotServed
      <3> QED BY <1>6, <1>8, <3>1
    <2>2. states[q].number \in 1..received /\ delivered[states[q].number] = 0
      BY <2>1 DEF Inv, TotalsUnread
    <2>3. CASE ReplyOf(p).type = "TOTAL_RESPONSE"
      <3>1. q # p
        BY <1>6, <1>8, <2>3 DEF NotServed, Known, Unknown
      <3>2. states[q].number # states[p].number
        BY <1>8, <2>1, <2>3, <3>1 DEF Inv, TotalsApart
      <3> QED BY <1>1, <1>4, <1>9, <2>1, <2>2, <2>3, <3>2, ReportsAssumption DEF TypeOK, MapTypeOK
    <2>4. CASE ReplyOf(p).type # "TOTAL_RESPONSE"
      BY <1>4, <1>9, <2>1, <2>2, <2>4
    <2> QED BY <2>3, <2>4
  <1>17. FreshReply'
    BY <1>2, <1>4 DEF Inv, FreshReply, Served, StatusIsNewest
  <1>18. OfflineExplained'
    BY <1>2, <1>4, <1>5 DEF Inv, OfflineExplained, Served, OfflineInMap, silent
  <1> QED
    BY <1>10, <1>11, <1>12, <1>13, <1>14, <1>15, <1>16, <1>17, <1>18 DEF Inv

\* The requester's name goes into the reply, and into the map if the map still
\* holds the same object: no type and no number changes.
LEMMA PacketStep ==
    ASSUME Inv, PreparePacketStr
    PROVE  Inv'
  <1>1. reply \in ReplyType /\ TypeOK /\ reader \in Users
    BY DEF Inv, RequestHasReply, PreparePacketStr, TypeOK
  <1>2. reply.report \in Report /\ reply # NoReply
    BY <1>1, PumpsAssumption DEF ReplyType, NoReply
  <1> DEFINE named == [reply.report EXCEPT !.user = reader]
  <1>3. /\ named \in Report
        /\ named.type = reply.report.type
        /\ named.number = reply.report.number
    BY <1>1, <1>2 DEF Report
  <1>4. /\ reader' = "none"
        /\ UNCHANGED <<elapsed, userUpdateAvailable, received, newest, said, sinceTotals,
                       delivered>>
        /\ reply' \in {reply, [reply EXCEPT !.report = named]}
        /\ states' \in {states, [states EXCEPT ![reply.pump] = named]}
        /\ states' # states => states[reply.pump] = reply.report
    BY DEF PreparePacketStr
  <1> HIDE DEF named
  <1>5. /\ reply' \in ReplyType
        /\ reply'.report.type = reply.report.type
        /\ reply'.report.number = reply.report.number
        /\ reply'.silent = reply.silent
        /\ reply'.newest = reply.newest
        /\ reply'.said = reply.said
        /\ reply'.sinceTotals = reply.sinceTotals
    BY <1>1, <1>3, <1>4 DEF ReplyType
  <1>6. reply.pump \in Pumps
    BY <1>1 DEF ReplyType
  <1>7. TypeOK'
    BY <1>1, <1>3, <1>4, <1>5, <1>6 DEF TypeOK, MapTypeOK
  <1>8. \A p \in Pumps : states'[p].type = states[p].type /\ states'[p].number = states[p].number
    BY <1>1, <1>3, <1>4, <1>6 DEF TypeOK, MapTypeOK
  <1>9. FreshReply' /\ OfflineExplained'
    BY <1>2, <1>5 DEF Inv, FreshReply, OfflineExplained, Served
  <1>10. StatusIsNewest' /\ OfflineInMap' /\ TotalsUnread' /\ TotalsApart'
    BY <1>4, <1>8 DEF Inv, StatusIsNewest, OfflineInMap, TotalsUnread, TotalsApart
  <1>11. RequestHasReply' /\ NothingEarly' /\ TotalsOnce'
    BY <1>4 DEF Inv, RequestHasReply, NothingEarly, TotalsOnce
  <1> QED BY <1>7, <1>9, <1>10, <1>11 DEF Inv

\* Nothing that Inv speaks of depends on the flags.
LEMMA FlagStep ==
    ASSUME Inv, SetUserUpdateValidity(TRUE, 0), UNCHANGED readerVars
    PROVE  Inv'
  <1> USE DEF SetUserUpdateValidity, readerVars
  <1>1. TypeOK'
    BY DEF Inv, TypeOK, MapTypeOK
  <1>2. FreshReply' /\ OfflineExplained'
    BY DEF Inv, FreshReply, OfflineExplained, Served
  <1> QED
    BY <1>1, <1>2 DEF Inv, RequestHasReply, StatusIsNewest, OfflineInMap, TotalsUnread,
       TotalsApart, NothingEarly, TotalsOnce

LEMMA InvStep == Inv /\ [Next]_vars => Inv'
  <1> SUFFICES ASSUME Inv, [Next]_vars PROVE Inv'
    OBVIOUS
  <1>1. ASSUME NEW p \in Pumps, Tick(p), UNCHANGED readerVars PROVE Inv'
    BY <1>1, TickStep
  <1>2. ASSUME NEW p \in Pumps, NEW id \in {0, p}, NEW type \in Types,
               NEW u \in Users \cup {"none"}, TakeReport(p, id, type, u)
        PROVE  Inv'
    BY <1>2, ReportStep
  <1>3. ASSUME NEW p \in Pumps, NEW u \in Users, ProcessStatusRequest(p, u) PROVE Inv'
    BY <1>3, RequestStep
  <1>4. CASE PreparePacketStr
    BY <1>4, PacketStep
  <1>5. CASE SetUserUpdateValidity(TRUE, 0) /\ UNCHANGED readerVars
    BY <1>5, FlagStep
  <1>6. CASE UNCHANGED vars
    BY <1>6 DEF vars, mapVars, readerVars, Inv, TypeOK, MapTypeOK, RequestHasReply, StatusIsNewest,
       OfflineInMap, TotalsUnread, TotalsApart, NothingEarly, FreshReply, OfflineExplained,
       TotalsOnce, Served
  <1> QED BY <1>1, <1>2, <1>3, <1>4, <1>5, <1>6 DEF Next

-----------------------------------------------------------------------------
LEMMA Invariance == Spec => []Inv
  <1>1. Init => Inv
    BY InvInit
  <1>2. Inv /\ [Next]_vars => Inv'
    BY InvStep
  <1> QED BY <1>1, <1>2, PTL DEF Spec

\* The map and the reader keep their types (StateMap.cpp, ProtocolSlaveJson.cpp).
THEOREM Typing == Spec => []TypeOK
  <1>1. Inv => TypeOK
    BY DEF Inv
  <1> QED BY <1>1, Invariance, PTL

\* A status the POS is given is the last its pump has sent, within the validity
\* time (getState, addState).
THEOREM RepliesAreFresh == Spec => []FreshReply
  <1>1. Inv => FreshReply
    BY DEF Inv
  <1> QED BY <1>1, Invariance, PTL

\* The POS is told that a pump is not served only if the pump is silent or unknown,
\* said so in its last report, or has not reported since its totals were read
\* (getState).
THEOREM OfflineIsExplained == Spec => []OfflineExplained
  <1>1. Inv => OfflineExplained
    BY DEF Inv
  <1> QED BY <1>1, Invariance, PTL

\* Totals are handed out at most once (getState replaces them).
THEOREM TotalsAreGivenOnce == Spec => []TotalsOnce
  <1>1. Inv => TotalsOnce
    BY DEF Inv
  <1> QED BY <1>1, Invariance, PTL

\* One step: totals leave the map towards a reader or because of silence.
LEMMA TotalsStep ==
    ASSUME Inv, [Next]_vars, NEW p \in Pumps,
           states[p].type = "TOTAL_RESPONSE", states'[p].type # "TOTAL_RESPONSE"
    PROVE  \/ elapsed[p] > Validity
           \/ delivered'[states[p].number] > delivered[states[p].number]
  <1>1. TypeOK
    BY DEF Inv
  <1>2. states[p].type = "TOTAL_RESPONSE" => Known(p) /\ states[p].number \in 1..MaxReports
    BY <1>1, ReportsAssumption
       DEF Inv, Known, Unknown, TotalsUnread, TypeOK, MapTypeOK
  <1>3. elapsed[p] \in Nat /\ Validity \in Nat
    BY <1>1, ValidityAssumption DEF TypeOK, MapTypeOK
  <1>4. ASSUME NEW q \in Pumps, NEW id \in {0, q}, NEW type \in Types,
               NEW u \in Users \cup {"none"}, TakeReport(q, id, type, u)
        PROVE  FALSE
    <2>1. CASE Accepted(q, id) /\ q = p
      <3> DEFINE report == [type |-> type, number |-> received + 1, user |-> u]
      <3>1. received < MaxReports /\ states' = [states EXCEPT ![p] = Stored(p, report)]
        BY <1>4, <2>1 DEF TakeReport, AddState
      <3>2. Stored(p, report) = states[p]
        BY <1>1, <3>1, StoredCases
      <3> QED BY <1>1, <3>1, <3>2 DEF TypeOK, MapTypeOK
    <2>2. CASE ~(Accepted(q, id) /\ q = p)
      BY <1>1, <1>4, <2>2 DEF TakeReport, AddState, mapVars, TypeOK, MapTypeOK
    <2> QED BY <2>1, <2>2
  <1>5. ASSUME NEW q \in Pumps, NEW u \in Users,
               ProcessStatusRequest(q, u), ~(elapsed[p] > Validity)
        PROVE  delivered'[states[p].number] > delivered[states[p].number]
    <2>1. p = q
      BY <1>1, <1>5 DEF ProcessStatusRequest, GetState, TypeOK, MapTypeOK
    <2>2. ReplyOf(p) = states[p]
      BY <1>1, <1>2, <1>5, ReplyCases
    <2>3. delivered' = [delivered EXCEPT ![states[p].number] = @ + 1]
      BY <1>5, <2>1, <2>2 DEF ProcessStatusRequest
    <2> QED BY <1>1, <1>2, <2>3 DEF TypeOK
  <1>6. CASE PreparePacketStr
    <2>1. reply \in ReplyType
      BY <1>6 DEF Inv, RequestHasReply, PreparePacketStr
    <2> DEFINE named == [reply.report EXCEPT !.user = reader]
    <2>2. named.type = reply.report.type /\ reply.pump \in Pumps
      BY <2>1 DEF ReplyType, Report
    <2>3. /\ states' \in {states, [states EXCEPT ![reply.pump] = named]}
          /\ states' # states => states[reply.pump] = reply.report
      BY <1>6 DEF PreparePacketStr
    <2> HIDE DEF named
    <2> QED BY <1>1, <2>2, <2>3 DEF TypeOK, MapTypeOK
  <1>7. states' = states => FALSE
    OBVIOUS
  <1>8. CASE \/ \E q \in Pumps : Tick(q)
             \/ SetUserUpdateValidity(TRUE, 0)
             \/ UNCHANGED vars
    BY <1>7, <1>8 DEF Tick, SetUserUpdateValidity, vars, mapVars
  <1> QED
    BY <1>4, <1>5, <1>6, <1>8 DEF Next

\* No report replaces totals that wait to be read (addState).
THEOREM TotalsDoWait == Spec => TotalsWait
  <1>1. Inv /\ [Next]_vars =>
          [\A p \in Pumps :
              states[p].type = "TOTAL_RESPONSE" /\ states'[p].type # "TOTAL_RESPONSE"
                 => \/ elapsed[p] > Validity
                    \/ delivered'[states[p].number] > delivered[states[p].number]
          ]_vars
    BY TotalsStep
  <1> QED BY <1>1, Invariance, PTL DEF Spec, TotalsWait
=============================================================================
