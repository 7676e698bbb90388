----------------------------- MODULE RecordLog -----------------------------
(***************************************************************************)
(* What the station promises of one table of its journal, whatever the     *)
(* SQL that keeps it: every pump has at most one current record; a record  *)
(* goes through the stages opened, worked and finished, in this order; its *)
(* amount is written once, on the way to "worked"; and a record that a     *)
(* newer one of its pump has replaced never changes again.                 *)
(*                                                                         *)
(* TransactionControl implements it twice: the table of sales              *)
(* (`transactions', states 1, 3, 4) and the table of simulated sales       *)
(* (`simulations', states 1, 2, 3).                                        *)
(***************************************************************************)
EXTENDS Integers

CONSTANTS
    Pumps,      \* the pumps of the station
    Ids,        \* the identifiers a record can get
    Volumes     \* the volumes a record can carry

VARIABLES
    current,    \* the current record of each pump: a set of at most one record
    retired     \* <<pump, record>> of every replaced record

vars == <<current, retired>>

Opened   == 1
Worked   == 2
Finished == 3

Record == [id : Ids, stage : {Opened, Worked, Finished}, volume : Volumes \cup {0}]

TypeOK ==
    /\ current \in [Pumps -> SUBSET Record]
    /\ retired \in SUBSET (Pumps \X Record)

UsedIds ==
    {r.id : r \in UNION {current[p] : p \in Pumps}} \cup {pr[2].id : pr \in retired}

Init ==
    /\ current = [p \in Pumps |-> {}]
    /\ retired = {}

\* A new record of p replaces the one p had, whatever its stage.
Open(p, id) ==
    /\ id \notin UsedIds
    /\ current' = [current EXCEPT ![p] = {[id |-> id, stage |-> Opened, volume |-> 0]}]
    /\ retired' = retired \cup {<<p, r>> : r \in current[p]}

Work(p, v) ==
    /\ \E r \in current[p] :
          /\ r.stage = Opened
          /\ current' = [current EXCEPT ![p] =
                           {[id |-> r.id, stage |-> Worked, volume |-> v]}]
    /\ UNCHANGED retired

Finish(p) ==
    /\ \E r \in current[p] :
          /\ r.stage = Worked
          /\ current' = [current EXCEPT ![p] =
                           {[id |-> r.id, stage |-> Finished, volume |-> r.volume]}]
    /\ UNCHANGED retired

Next ==
    \E p \in Pumps :
        \/ \E id \in Ids : Open(p, id)
        \/ \E v \in Volumes : Work(p, v)
        \/ Finish(p)

Spec == Init /\ [][Next]_vars
=============================================================================
