---------------------------- MODULE MCColumnLine ----------------------------
(***************************************************************************)
(* Model checking of ColumnLine.  Two columns for a reply to come in the   *)
(* turn of the other; two commands for one to overtake or to be lost       *)
(* behind the other; two requests on the wire for two late replies.        *)
(***************************************************************************)
EXTENDS ColumnLine

MCColumns == {1, 2}

\* The addresses of config.json, and the same two exchanged.
SameAddr  == [c \in MCColumns |-> c]
OtherAddr == [c \in MCColumns |-> 3 - c]
=============================================================================
