--------------------------- MODULE MCStatusReader ---------------------------
(***************************************************************************)
(* Model checking of StateMap and StatusReader.  Three reports are enough  *)
(* for totals that follow a status and are followed by another; one second *)
(* of validity for a pump to be fresh, at the limit and silent; two pumps  *)
(* and two users for one to be taken for the other.                        *)
(***************************************************************************)
EXTENDS StatusReader

MCPumps == {1, 2}
=============================================================================
