------------------------------ MODULE StateMap ------------------------------
(***************************************************************************)
(* The last known state of every pump of a line                            *)
(* (src/src/dataTypes/StateMap.cpp).  The poll thread of the line adds     *)
(* reports, the JSON thread reads them for the POS; each call holds        *)
(* stateMx and is one step.                                                *)
(*                                                                         *)
(* Of a report only the type the map tells apart is kept: TOTAL_RESPONSE,  *)
(* NOT_SERVED and any other STATUS.  Reports are numbered in the order in  *)
(* which they reach the map; number 0 is a state the map has made up.      *)
(***************************************************************************)
EXTENDS Integers

CONSTANTS
    Pumps,          \* the columns of the line
    Users,          \* the POS users
    Validity,       \* dataValidityTime, in seconds
    MaxReports      \* bound: reports that reach the map

ASSUME PumpsAssumption    == Pumps \subseteq Nat \ {0}
ASSUME ValidityAssumption == Validity \in Nat
ASSUME ReportsAssumption  == MaxReports \in Nat
ASSUME NoneAssumption     == "none" \notin Users

VARIABLES
    states,                 \* the object the map holds for each pump, or Unknown
    elapsed,                \* whole seconds since timeStamps[p], up to Validity + 1
    userUpdateAvailable,    \* the flags by pump id, TRUE until set; 0 is an id too
    received                \* the number of the last report

mapVars == <<states, elapsed, userUpdateAvailable, received>>

Types  == {"STATUS", "TOTAL_RESPONSE", "NOT_SERVED"}
Report == [type : Types, number : 0..MaxReports, user : Users \cup {"none"}]

Unknown == [type |-> "UNKNOWN", number |-> 0, user |-> "none"]

\* UniversalState(id, 0, StateType::NOT_SERVED, 0)
NotServed == [type |-> "NOT_SERVED", number |-> 0, user |-> "none"]

MapTypeOK ==
    /\ states \in [Pumps -> Report \cup {Unknown}]
    /\ elapsed \in [Pumps -> 0..(Validity + 1)]
    /\ userUpdateAvailable \in [Pumps \cup {0} -> BOOLEAN]
    /\ received \in 0..MaxReports

MapInit ==
    /\ states = [p \in Pumps |-> Unknown]
    /\ elapsed = [p \in Pumps |-> 0]
    /\ userUpdateAvailable = [p \in Pumps \cup {0} |-> TRUE]
    /\ received = 0

Known(p) == states[p] # Unknown

\* The bug of a comparison that is late by a second.
CheckStateActualityLate(p) == elapsed[p] <= Validity + 1

\* ... and of one that is early by a second.
CheckStateActualityEarly(p) == elapsed[p] < Validity

\* checkStateActuality, of a known pump
CheckStateActuality(p) == elapsed[p] <= Validity

\* The bug of a clock that goes on past the end of its range.
TickOn(p) ==
    /\ Known(p)
    /\ elapsed' = [elapsed EXCEPT ![p] = @ + 1]
    /\ UNCHANGED <<states, userUpdateAvailable, received>>

\* A second has passed since the last report of p.
Tick(p) ==
    /\ Known(p)
    /\ elapsed[p] <= Validity
    /\ elapsed' = [elapsed EXCEPT ![p] = @ + 1]
    /\ UNCHANGED <<states, userUpdateAvailable, received>>

\* setUserUpdateValidity
SetUserUpdateValidity(stateUpdate, pump) ==
    /\ userUpdateAvailable' = [userUpdateAvailable EXCEPT ![pump] = stateUpdate]
    /\ UNCHANGED <<states, elapsed, received>>

-----------------------------------------------------------------------------
\* The user a new report of p is stored with: the one of the report it
\* replaces while the flag of p is down, none otherwise.
ControlUser(p) == IF userUpdateAvailable[p] THEN "none" ELSE states[p].user

\* The bug of an addState that lets any report replace the totals.
StoredAlways(p, report) == [report EXCEPT !.user = ControlUser(p)]

\* What addState leaves in the map: totals wait until somebody reads them.
Stored(p, report) ==
    IF states[p].type = "TOTAL_RESPONSE"
    THEN states[p]
    ELSE [report EXCEPT !.user = ControlUser(p)]

\* addState does nothing with the reply of another pump, whose id is 0.  A pump
\* that has never reported has no state to take a user from: with its flag down
\* states.at throws and nothing is stored.
Accepted(p, reportId) == reportId # 0 /\ (Known(p) \/ userUpdateAvailable[p])

\* addState(p, report), where report->getId() is reportId
AddState(p, reportId, type, user) ==
    IF Accepted(p, reportId)
    THEN LET report == [type |-> type, number |-> received + 1, user |-> user]
         IN  /\ received < MaxReports
             /\ states' = [states EXCEPT ![p] = Stored(p, report)]
             /\ elapsed' = [elapsed EXCEPT ![p] = 0]
             /\ received' = received + 1
             /\ UNCHANGED userUpdateAvailable
    ELSE UNCHANGED mapVars

-----------------------------------------------------------------------------
TotalsWaiting(p) == CheckStateActuality(p) /\ states[p].type = "TOTAL_RESPONSE"

\* What getState(p) returns: the object in the map, turned into NOT_SERVED if its
\* pump has been silent for too long, totals included.
ReplyOf(p) ==
    IF ~Known(p) THEN NotServed
    ELSE IF CheckStateActuality(p) THEN states[p]
    ELSE [states[p] EXCEPT !.type = "NOT_SERVED"]

\* The bug of a getState that leaves the totals in the map.
GetStateKeepingTotals(p) ==
    /\ states' = IF Known(p) THEN [states EXCEPT ![p] = ReplyOf(p)] ELSE states
    /\ UNCHANGED <<elapsed, userUpdateAvailable, received>>

\* getState: totals are replaced by a made-up NOT_SERVED, an outdated object is
\* changed where it is, and a pump that has never reported is not added.
GetState(p) ==
    /\ states' = IF ~Known(p) THEN states
                 ELSE [states EXCEPT ![p] = IF TotalsWaiting(p) THEN NotServed ELSE ReplyOf(p)]
    /\ UNCHANGED <<elapsed, userUpdateAvailable, received>>
=============================================================================
