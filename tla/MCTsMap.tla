------------------------------ MODULE MCTsMap ------------------------------
(***************************************************************************)
(* An instance of TsMap for TLC: three threads and one key.  Two of the    *)
(* threads swap the maps, two read them, and all write them.               *)
(***************************************************************************)
EXTENDS TsMap

C(name, map) == [name |-> name, map |-> map, key |-> 1]

MCThreads == {"one", "two", "three"}
MCKeys    == {1}
MCCalls   ==
    [one   |-> {C("swap", 1), C("insert", 1)},
     two   |-> {C("count", 1), C("count", 2), C("insert", 1), C("insert", 2)},
     three |-> {C("count", 1), C("count", 2), C("clear", 2), C("swap", 1)}]
=============================================================================
