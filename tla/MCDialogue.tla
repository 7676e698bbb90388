----------------------------- MODULE MCDialogue -----------------------------
(***************************************************************************)
(* Two pumps, at the addresses of the first nozzles of pumps 1 and 2 as    *)
(* the slave of Shelf counts them; orders that every protocol has room     *)
(* for, that only some have, and that none has.                            *)
(***************************************************************************)
EXTENDS Dialogue, Checksums, TLC

MCAddr     == (1 :> 10) @@ (2 :> 15)
MCFirstTxn == (1 :> 7) @@ (2 :> 41)
MCOrders   == (1 :> {[nozzle |-> 1, volume |-> 12345, price |-> 5075],
                     [nozzle |-> 2, volume |-> 12345, price |-> 5075],
                     [nozzle |-> 1, volume |-> 10000000, price |-> 5075]})
              @@ (2 :> {[nozzle |-> 1, volume |-> 5008, price |-> 999]})
MCMaxSales == (1 :> 2) @@ (2 :> 1)
MCSpoilt   == {2, 4, 15}
=============================================================================
