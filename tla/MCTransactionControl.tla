------------------------ MODULE MCTransactionControl ------------------------
(***************************************************************************)
(* Model checking of TransactionControl.  Two pumps are enough for an      *)
(* UPDATE to hit the wrong one, two rows for a pump to have a row that is  *)
(* replaced, two volumes for a second UPDATE of a row to be seen; one      *)
(* fiscal line is enough to come between two calls of the JSON thread.     *)
(***************************************************************************)
EXTENDS TransactionControl

MCVolumes == {1, 2}
MCRequestedVolumes == {1}
=============================================================================
