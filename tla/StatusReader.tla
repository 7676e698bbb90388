---------------------------- MODULE StatusReader ----------------------------
(***************************************************************************)
(* The status requests of the POS, served by the JSON thread from a        *)
(* StateMap while the poll thread adds to it.  getState hands out the very *)
(* object the map holds (a shared_ptr), and preparePacketStr goes on       *)
(* writing to it without the lock: a later reader of the same object sees  *)
(* what it wrote.                                                          *)
(***************************************************************************)
EXTENDS StateMap

VARIABLES
    reader,         \* the user whose request is being served, or "none"
    reply,          \* the answer to the last request, see ReplyType
    newest,         \* history: the number of the last report of each pump
    said,           \* history: the type of that report, as the pump sent it
    sinceTotals,    \* history: has p reported since its totals were read?
    delivered       \* history: how often each totals report was handed out

readerVars == <<reader, reply, newest, said, sinceTotals, delivered>>
vars       == <<mapVars, readerVars>>

\* A reply, with what was true of its pump when it was read.
ReplyType ==
    [pump : Pumps, report : Report, silent : BOOLEAN, newest : 0..MaxReports,
     said : Types \cup {"UNKNOWN"}, sinceTotals : BOOLEAN]

NoReply == [pump |-> 0]

TypeOK ==
    /\ MapTypeOK
    /\ reader \in Users \cup {"none"}
    /\ reply \in ReplyType \cup {NoReply}
    /\ newest \in [Pumps -> 0..MaxReports]
    /\ said \in [Pumps -> Types \cup {"UNKNOWN"}]
    /\ sinceTotals \in [Pumps -> BOOLEAN]
    /\ delivered \in [1..MaxReports -> Nat]

Init ==
    /\ MapInit
    /\ reader = "none"
    /\ reply = NoReply
    /\ newest = [p \in Pumps |-> 0]
    /\ said = [p \in Pumps |-> "UNKNOWN"]
    /\ sinceTotals = [p \in Pumps |-> FALSE]
    /\ delivered = [n \in 1..MaxReports |-> 0]

-----------------------------------------------------------------------------
\* The poll thread: a reply of p, or of another pump (id 0), is added.
TakeReport(p, reportId, type, user) ==
    /\ AddState(p, reportId, type, user)
    /\ IF Accepted(p, reportId)
       THEN /\ newest' = [newest EXCEPT ![p] = received']
            /\ said' = [said EXCEPT ![p] = type]
            /\ sinceTotals' = [sinceTotals EXCEPT ![p] = TRUE]
       ELSE UNCHANGED <<newest, said, sinceTotals>>
    /\ UNCHANGED <<reader, reply, delivered>>

\* processCmd, STATUS_REQUEST of user u about pump p
ProcessStatusRequest(p, u) ==
    /\ reader = "none"
    /\ reader' = u
    /\ GetState(p)
    /\ reply' = [pump |-> p, report |-> ReplyOf(p),
                 silent |-> ~Known(p) \/ elapsed[p] > Validity,
                 newest |-> newest[p], said |-> said[p],
                 sinceTotals |-> sinceTotals[p]]
    /\ IF reply'.report.type = "TOTAL_RESPONSE"
       THEN /\ delivered' = [delivered EXCEPT ![states[p].number] = @ + 1]
            /\ sinceTotals' = [sinceTotals EXCEPT ![p] = FALSE]
       ELSE UNCHANGED <<delivered, sinceTotals>>
    /\ UNCHANGED <<newest, said>>

\* preparePacketStr puts the requester's name on a reply that has none; if the map
\* still holds the object, the name is there as well.
PreparePacketStr ==
    LET p     == reply.pump
        named == [reply.report EXCEPT !.user = reader]
    IN  /\ reader # "none"
        /\ reader' = "none"
        /\ IF reply.report.user = "none"
           THEN /\ reply' = [reply EXCEPT !.report = named]
                /\ states' = IF states[p] = reply.report THEN [states EXCEPT ![p] = named]
                             ELSE states
           ELSE UNCHANGED <<reply, states>>
        /\ UNCHANGED <<elapsed, userUpdateAvailable, received, newest, said,
                       sinceTotals, delivered>>

Next ==
    \/ \E p \in Pumps :
          \/ Tick(p) /\ UNCHANGED readerVars
          \/ \E id \in {0, p}, type \in Types, u \in Users \cup {"none"} :
                TakeReport(p, id, type, u)
          \/ \E u \in Users : ProcessStatusRequest(p, u)
    \/ PreparePacketStr
    \/ SetUserUpdateValidity(TRUE, 0) /\ UNCHANGED readerVars

Spec == Init /\ [][Next]_vars

-----------------------------------------------------------------------------
Served(type) == reply # NoReply /\ reply.report.type = type

\* A status the POS is given is the last thing its pump has said, and the pump
\* has said it within the validity time: no reading of totals, no dropped report
\* and no renaming of a shared object lets an older one through.
FreshReply ==
    Served("STATUS") => ~reply.silent /\ reply.report.number = reply.newest

\* The POS is told that a pump is not served only if the pump is unknown or has been
\* silent for longer than the validity time, or the last report it sent was itself
\* NOT_SERVED, or it has not reported since the POS read its totals (getState leaves
\* a made-up NOT_SERVED in their place): no status that is still valid is called
\* outdated, and no object outdated once stays so after a new report.
OfflineExplained ==
    Served("NOT_SERVED") =>
        \/ reply.silent
        \/ reply.said = "NOT_SERVED"
        \/ ~reply.sinceTotals

\* Totals are handed out at most once.
TotalsOnce == \A n \in 1..MaxReports : delivered[n] <= 1

\* Totals that wait to be read leave the map only towards a reader, or because
\* their pump has been silent for too long: no later report replaces them.
TotalsWait ==
    [][\A p \in Pumps :
          states[p].type = "TOTAL_RESPONSE" /\ states'[p].type # "TOTAL_RESPONSE"
             => \/ elapsed[p] > Validity
                \/ delivered'[states[p].number] > delivered[states[p].number]
      ]_vars
=============================================================================
