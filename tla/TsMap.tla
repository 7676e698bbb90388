------------------------------- MODULE TsMap -------------------------------
(***************************************************************************)
(* Two maps that threads share (tsmap, src/inc/utils/mxMap.h), each with a *)
(* lock of its own: the first in the style a lock starts in, the second in *)
(* the other.  An operation locks its map, works and unlocks it; swap of   *)
(* two maps locks the map it is called on, then its argument.              *)
(*                                                                         *)
(* A map is the set of its keys.  A call reads it and then writes it, in   *)
(* two steps, for another thread to come between if the lock lets it.      *)
(* `at' is not called: of a key that is not in the map it throws, and the  *)
(* map stays locked.  Nor is what a call returns used: an iterator or a    *)
(* reference is of a map that is not locked any more.  The argument of     *)
(* operator= is a map that is not shared: its own lock is not taken.       *)
(***************************************************************************)
EXTENDS Integers

CONSTANTS
    Threads,
    Keys,
    Calls       \* the operations each thread may call: records [name, map, key]

VARIABLES
    readRequestsA, writeRequestsA, mA, mwA, posA,   \* the lock of map 1
    readRequestsB, writeRequestsB, mB, mwB, posB,   \* the lock of map 2
    contents,   \* the two maps
    call,       \* what each thread does
    phase,      \* how far it is: it locks, works or unlocks
    seen        \* what it has read of the maps and works on

lockA == <<readRequestsA, writeRequestsA, mA, mwA, posA>>
lockB == <<readRequestsB, writeRequestsB, mB, mwB, posB>>
vars  == <<lockA, lockB, contents, call, phase, seen>>

A == INSTANCE RWLock WITH
        Style <- "MSL", readRequests <- readRequestsA, writeRequests <- writeRequestsA,
        m <- mA, mw <- mwA, pos <- posA
B == INSTANCE RWLock WITH
        Style <- "M2CV", readRequests <- readRequestsB, writeRequests <- writeRequestsB,
        m <- mB, mw <- mwB, pos <- posB

Maps == {1, 2}

place(t, x) == IF x = 1 THEN posA[t] ELSE posB[t]

ReadOperations == {"empty", "size", "find", "count", "lower_bound", "upper_bound", "equal_range"}

WriteOperations ==
    {"operator=", "operator[]", "insert", "erase", "swap", "clear", "emplace", "emplace_hint"}

ASSUME CallsAssumption ==
    Calls \in [Threads -> SUBSET [name : ReadOperations \cup WriteOperations,
                                  map : Maps, key : Keys]]

NoCall == [name |-> "none", map |-> 1, key |-> 0]

Nothing == [x \in Maps |-> {}]

TypeOK ==
    /\ A!TypeOK /\ B!TypeOK
    /\ contents \in [Maps -> SUBSET Keys]
    /\ \A t \in Threads : call[t] \in Calls[t] \cup {NoCall}
    /\ phase \in [Threads -> {"out", "lock", "work", "unlock"}]
    /\ seen \in [Threads -> [Maps -> SUBSET Keys]]
    /\ \A t \in Threads : phase[t] = "out" => place(t, 1) = "out" /\ place(t, 2) = "out"

Init ==
    /\ A!Init /\ B!Init
    /\ contents = Nothing
    /\ call = [t \in Threads |-> NoCall]
    /\ phase = [t \in Threads |-> "out"]
    /\ seen = [t \in Threads |-> Nothing]

-----------------------------------------------------------------------------
Goes(t, from, to) == phase[t] = from /\ phase' = [phase EXCEPT ![t] = to]

Begin(t) ==
    /\ Goes(t, "out", "lock")
    /\ \E c \in Calls[t] : call' = [call EXCEPT ![t] = c]
    /\ UNCHANGED <<lockA, lockB, contents, seen>>

\* The maps a call locks, in this order: the second is swap's argument.
First(t)  == call[t].map
Second(t) == 3 - call[t].map
Reads(t)  == call[t].name \in ReadOperations
Writes(t) == call[t].name \in WriteOperations
Swaps(t)  == call[t].name = "swap"

LockRead(t, x) ==
    \/ x = 1 /\ A!LockRead(t) /\ UNCHANGED lockB
    \/ x = 2 /\ B!LockRead(t) /\ UNCHANGED lockA

UnlockRead(t, x) ==
    \/ x = 1 /\ A!AfterRead(t) /\ UNCHANGED lockB
    \/ x = 2 /\ B!AfterRead(t) /\ UNCHANGED lockA

\* The bug of an operation that changes its map and locks it to read.
LockWriteShared(t, x) == LockRead(t, x)

LockWrite(t, x) ==
    \/ x = 1 /\ A!LockWrite(t) /\ UNCHANGED lockB
    \/ x = 2 /\ B!LockWrite(t) /\ UNCHANGED lockA

UnlockWrite(t, x) ==
    \/ x = 1 /\ A!AfterWrite(t) /\ UNCHANGED lockB
    \/ x = 2 /\ B!AfterWrite(t) /\ UNCHANGED lockA

Locks(t) ==
    /\ phase[t] = "lock"
    /\ \/ Reads(t) /\ LockRead(t, First(t))
       \/ Writes(t) /\ LockWrite(t, First(t))
       \/ Swaps(t) /\ place(t, First(t)) = "writing" /\ LockWrite(t, Second(t))
    /\ UNCHANGED <<contents, call, phase, seen>>

Unlocks(t) ==
    /\ phase[t] = "unlock"
    /\ \/ Reads(t) /\ UnlockRead(t, First(t))
       \/ Swaps(t) /\ UnlockWrite(t, Second(t))
       \/ /\ Writes(t)
          /\ Swaps(t) => place(t, Second(t)) = "out"
          /\ UnlockWrite(t, First(t))
    /\ UNCHANGED <<contents, call, phase, seen>>

\* The maps a thread has locked.
Held(t) == {x \in Maps : place(t, x) \in {"reading", "writing"}}

Read(t) ==
    /\ Held(t) = IF Swaps(t) THEN Maps ELSE {First(t)}
    /\ Goes(t, "lock", "work")
    /\ seen' = [seen EXCEPT ![t] = [x \in Maps |-> IF x \in Held(t) THEN contents[x] ELSE {}]]
    /\ UNCHANGED <<lockA, lockB, contents, call>>

\* What a call leaves of a map with some keys.
After(c, keys) ==
    CASE c.name \in {"insert", "emplace", "emplace_hint", "operator[]"} -> keys \cup {c.key}
      [] c.name = "operator="        -> {c.key}
      [] c.name = "erase"            -> keys \ {c.key}
      [] c.name = "clear"            -> {}
      [] c.name \in ReadOperations   -> keys

Write(t) ==
    /\ Goes(t, "work", "unlock")
    /\ contents' = IF Swaps(t)
                   THEN [x \in Maps |-> seen[t][3 - x]]
                   ELSE [contents EXCEPT ![First(t)] = After(call[t], seen[t][First(t)])]
    /\ seen' = [seen EXCEPT ![t] = Nothing]
    /\ UNCHANGED <<lockA, lockB, call>>

\* The bug of a call that returns before it has unlocked the second map.
ReturnEarly(t) ==
    /\ place(t, 1) = "out"
    /\ Goes(t, "unlock", "out")
    /\ call' = [call EXCEPT ![t] = NoCall]
    /\ UNCHANGED <<lockA, lockB, contents, seen>>

Return(t) ==
    /\ place(t, 1) = "out" /\ place(t, 2) = "out"
    /\ Goes(t, "unlock", "out")
    /\ call' = [call EXCEPT ![t] = NoCall]
    /\ UNCHANGED <<lockA, lockB, contents, seen>>

WakeUp(t) ==
    /\ B!WakeUp(t)
    /\ UNCHANGED <<lockA, contents, call, phase, seen>>

Step(t) == Locks(t) \/ Read(t) \/ Write(t) \/ Unlocks(t) \/ Return(t)

Next == \E t \in Threads : Begin(t) \/ Step(t) \/ WakeUp(t)

\* A thread that can take its next step takes it some time: the scheduler lets every
\* thread run.  None has to call the maps again.
Fairness == \A t \in Threads : WF_vars(Step(t))

Spec == Init /\ [][Next]_vars /\ Fairness

-----------------------------------------------------------------------------
\* Both locks are granted and given back as readers-writer locks are: who writes a map is
\* alone with it, however the threads' counting, testing and waiting interleave, and
\* also while swap holds one map and waits for the other
\* (ReadersWriterLock's before_read, before_write, after_read and after_write).
LocksGranted == A!Granted /\ B!Granted

\* What a thread has read of the maps it works on is what they are until it has written
\* them: no update is lost, and swap exchanges two maps nobody has changed
\* (the lock and unlock calls around every operation of tsmap).
NoLostUpdate ==
    \A t \in Threads : phase[t] = "work" =>
        \A x \in Held(t) : seen[t][x] = contents[x]

\* A writer that has the mutex of a spinlock gets in, however many readers come: a reader
\* that meets it takes its request back and waits for the mutex (before_read_msl).
WriterEnters == \A t \in Threads : posA[t] = "w_spin" ~> posA[t] = "writing"
=============================================================================
