---------------------------- MODULE TsMap_proofs ----------------------------
(***************************************************************************)
(* Proofs about TsMap, for any threads, keys and calls.                    *)
(*                                                                         *)
(* What the locks do is proved of one lock, in RWLock_proofs; here are the *)
(* steps of the two locks as steps of such a lock, and what the threads    *)
(* do with them.                                                           *)
(***************************************************************************)
EXTENDS TsMap, TLAPS

AP == INSTANCE RWLock_proofs WITH
        Style <- "MSL", readRequests <- readRequestsA, writeRequests <- writeRequestsA,
        m <- mA, mw <- mwA, pos <- posA
BP == INSTANCE RWLock_proofs WITH
        Style <- "M2CV", readRequests <- readRequestsB, writeRequests <- writeRequestsB,
        m <- mB, mw <- mwB, pos <- posB

-----------------------------------------------------------------------------
(***************************************************************************)
(* The two names of a lock's definitions, here and in RWLock_proofs.       *)
(***************************************************************************)
\* The first map's lock.
LEMMA SameA ==
    ASSUME NEW t
    PROVE  /\ A!Init <=> AP!Init
           /\ A!LockRead(t) <=> AP!LockRead(t)
           /\ A!AfterRead(t) <=> AP!AfterRead(t)
           /\ A!LockWrite(t) <=> AP!LockWrite(t)
           /\ A!AfterWrite(t) <=> AP!AfterWrite(t)
           /\ A!WakeUp(t) <=> AP!WakeUp(t)
<1>1. A!Init <=> AP!Init
      BY DEF A!Init, AP!Init
<1>2. A!LockRead(t) <=> AP!LockRead(t)
      BY DEF A!LockRead, AP!LockRead, A!EnterRead, AP!EnterRead, A!BeforeReadMsl,
             AP!BeforeReadMsl, A!BeforeReadM2cv, AP!BeforeReadM2cv, A!CountRead,
             AP!CountRead, A!UncountRead, AP!UncountRead, A!Sees, AP!Sees, A!LockMw,
             AP!LockMw, A!UnlockMw, AP!UnlockMw, A!LockM, AP!LockM, A!UnlockM, AP!UnlockM,
             A!NotifyAll, AP!NotifyAll, A!Goes, AP!Goes, A!Woken, AP!Woken
<1>3. A!AfterRead(t) <=> AP!AfterRead(t)
      BY DEF A!AfterRead, AP!AfterRead, A!UncountRead, AP!UncountRead, A!NotifyAll,
             AP!NotifyAll, A!Goes, AP!Goes, A!Woken, AP!Woken
<1>4. A!LockWrite(t) <=> AP!LockWrite(t)
      BY DEF A!LockWrite, AP!LockWrite, A!BeforeWriteMsl, AP!BeforeWriteMsl,
             A!BeforeWriteM2cv, AP!BeforeWriteM2cv, A!CountWrite, AP!CountWrite, A!Sees,
             AP!Sees, A!LockMw, AP!LockMw, A!LockM, AP!LockM, A!UnlockM, AP!UnlockM,
             A!Goes, AP!Goes
<1>5. A!AfterWrite(t) <=> AP!AfterWrite(t)
      BY DEF A!AfterWrite, AP!AfterWrite, A!UncountWrite, AP!UncountWrite, A!NotifyAll,
             AP!NotifyAll, A!UnlockMw, AP!UnlockMw, A!Goes, AP!Goes, A!Woken, AP!Woken
<1>6. A!WakeUp(t) <=> AP!WakeUp(t)
      BY DEF A!WakeUp, AP!WakeUp, A!Woken, AP!Woken
<1>7. QED  BY <1>1, <1>2, <1>3, <1>4, <1>5, <1>6

\* The second map's lock.
LEMMA SameB ==
    ASSUME NEW t
    PROVE  /\ B!Init <=> BP!Init
           /\ B!LockRead(t) <=> BP!LockRead(t)
           /\ B!AfterRead(t) <=> BP!AfterRead(t)
           /\ B!LockWrite(t) <=> BP!LockWrite(t)
           /\ B!AfterWrite(t) <=> BP!AfterWrite(t)
           /\ B!WakeUp(t) <=> BP!WakeUp(t)
<1>1. B!Init <=> BP!Init
      BY DEF B!Init, BP!Init
<1>2. B!LockRead(t) <=> BP!LockRead(t)
      BY DEF B!LockRead, BP!LockRead, B!EnterRead, BP!EnterRead, B!BeforeReadMsl,
             BP!BeforeReadMsl, B!BeforeReadM2cv, BP!BeforeReadM2cv, B!CountRead,
             BP!CountRead, B!UncountRead, BP!UncountRead, B!Sees, BP!Sees, B!LockMw,
             BP!LockMw, B!UnlockMw, BP!UnlockMw, B!LockM, BP!LockM, B!UnlockM, BP!UnlockM,
             B!NotifyAll, BP!NotifyAll, B!Goes, BP!Goes, B!Woken, BP!Woken
<1>3. B!AfterRead(t) <=> BP!AfterRead(t)
      BY DEF B!AfterRead, BP!AfterRead, B!UncountRead, BP!UncountRead, B!NotifyAll,
             BP!NotifyAll, B!Goes, BP!Goes, B!Woken, BP!Woken
<1>4. B!LockWrite(t) <=> BP!LockWrite(t)
      BY DEF B!LockWrite, BP!LockWrite, B!BeforeWriteMsl, BP!BeforeWriteMsl,
             B!BeforeWriteM2cv, BP!BeforeWriteM2cv, B!CountWrite, BP!CountWrite, B!Sees,
             BP!Sees, B!LockMw, BP!LockMw, B!LockM, BP!LockM, B!UnlockM, BP!UnlockM,
             B!Goes, BP!Goes
<1>5. B!AfterWrite(t) <=> BP!AfterWrite(t)
      BY DEF B!AfterWrite, BP!AfterWrite, B!UncountWrite, BP!UncountWrite, B!NotifyAll,
             BP!NotifyAll, B!UnlockMw, BP!UnlockMw, B!Goes, BP!Goes, B!Woken, BP!Woken
<1>6. B!WakeUp(t) <=> BP!WakeUp(t)
      BY DEF B!WakeUp, BP!WakeUp, B!Woken, BP!Woken
<1>7. QED  BY <1>1, <1>2, <1>3, <1>4, <1>5, <1>6

\* A call of lock or unlock keeps the invariant of the lock and is a step of a
\* readers-writer lock; it does not touch the threads that do not make it.
LEMMA CallsA ==
    ASSUME AP!IInv, NEW t \in Threads,
           \/ A!LockRead(t) \/ A!AfterRead(t) \/ A!LockWrite(t) \/ A!AfterWrite(t) \/ A!WakeUp(t)
    PROVE  /\ AP!IInv'
           /\ [A!Lock!Next]_(A!Lock!vars)
           /\ AP!OthersStay(t)
           /\ \A u \in Threads : u # t \/ AP!WakeUp(t) => AP!SameKind(u)
<1>1. AP!Steps(t)
      BY SameA DEF AP!Steps, AP!LockRead, AP!LockWrite
<1>2. AP!IInv'
      BY <1>1, AP!StepInv
<1>3. [AP!Lock!Next]_(AP!Lock!vars)
      BY <1>1, AP!StepGranted
<1>4. [A!Lock!Next]_(A!Lock!vars)
      BY <1>3 DEF A!Lock!Next, AP!Lock!Next, A!Lock!vars, AP!Lock!vars,
             A!Lock!AcquireRead, AP!Lock!AcquireRead, A!Lock!AcquireWrite,
             AP!Lock!AcquireWrite, A!Lock!Release, AP!Lock!Release
<1>5. AP!OthersStay(t)
      BY <1>1, AP!StepKinds
<1>6. \A u \in Threads : u # t \/ AP!WakeUp(t) => AP!SameKind(u)
      BY <1>1, AP!OthersSameKind
<1>7. QED  BY <1>2, <1>4, <1>5, <1>6

\* A call of lock or unlock keeps the invariant of the lock and is a step of a
\* readers-writer lock; it does not touch the threads that do not make it.
LEMMA CallsB ==
    ASSUME BP!IInv, NEW t \in Threads,
           \/ B!LockRead(t) \/ B!AfterRead(t) \/ B!LockWrite(t) \/ B!AfterWrite(t) \/ B!WakeUp(t)
    PROVE  /\ BP!IInv'
           /\ [B!Lock!Next]_(B!Lock!vars)
           /\ BP!OthersStay(t)
           /\ \A u \in Threads : u # t \/ BP!WakeUp(t) => BP!SameKind(u)
<1>1. BP!Steps(t)
      BY SameB DEF BP!Steps, BP!LockRead, BP!LockWrite
<1>2. BP!IInv'
      BY <1>1, BP!StepInv
<1>3. [BP!Lock!Next]_(BP!Lock!vars)
      BY <1>1, BP!StepGranted
<1>4. [B!Lock!Next]_(B!Lock!vars)
      BY <1>3 DEF B!Lock!Next, BP!Lock!Next, B!Lock!vars, BP!Lock!vars,
             B!Lock!AcquireRead, BP!Lock!AcquireRead, B!Lock!AcquireWrite,
             BP!Lock!AcquireWrite, B!Lock!Release, BP!Lock!Release
<1>5. BP!OthersStay(t)
      BY <1>1, BP!StepKinds
<1>6. \A u \in Threads : u # t \/ BP!WakeUp(t) => BP!SameKind(u)
      BY <1>1, BP!OthersSameKind
<1>7. QED  BY <1>2, <1>4, <1>5, <1>6

-----------------------------------------------------------------------------
(***************************************************************************)
(* The two locks together.                                                 *)
(***************************************************************************)
LocksInv == AP!IInv /\ BP!IInv

\* A step that does not touch the first map's lock.
LEMMA UnchangedA ==
    ASSUME AP!IInv, UNCHANGED lockA
    PROVE  AP!IInv' /\ UNCHANGED A!Lock!vars
<1>1. UNCHANGED AP!vars  BY DEF lockA, AP!vars
<1>2. AP!IInv'           BY <1>1, AP!Unchanged
<1>3. QED  BY <1>2 DEF lockA, A!Lock!vars

\* A step that does not touch the second map's lock.
LEMMA UnchangedB ==
    ASSUME BP!IInv, UNCHANGED lockB
    PROVE  BP!IInv' /\ UNCHANGED B!Lock!vars
<1>1. UNCHANGED BP!vars  BY DEF lockB, BP!vars
<1>2. BP!IInv'           BY <1>1, BP!Unchanged
<1>3. QED  BY <1>2 DEF lockB, B!Lock!vars

\* What a thread's call of lock or unlock does to the two locks.
CallOf(t) ==
    \/ /\ UNCHANGED lockB
       /\ A!LockRead(t) \/ A!AfterRead(t) \/ A!LockWrite(t) \/ A!AfterWrite(t) \/ A!WakeUp(t)
    \/ /\ UNCHANGED lockA
       /\ B!LockRead(t) \/ B!AfterRead(t) \/ B!LockWrite(t) \/ B!AfterWrite(t) \/ B!WakeUp(t)
    \/ UNCHANGED <<lockA, lockB>>

\* Every step is a call of lock or unlock, or touches no lock.
LEMMA NextCalls == [Next]_vars => \/ UNCHANGED <<lockA, lockB>>
                                 \/ \E t \in Threads : CallOf(t)
BY DEF Next, Step, vars, CallOf, Begin, Locks, Read, Write, Unlocks, Return, WakeUp,
       LockRead, LockWrite, UnlockRead, UnlockWrite

\* Every step keeps the invariants of both locks and is a step of two readers-writer locks.
LEMMA LocksStep ==
    ASSUME LocksInv, [Next]_vars
    PROVE  LocksInv' /\ [A!Lock!Next]_(A!Lock!vars) /\ [B!Lock!Next]_(B!Lock!vars)
<1>1. CASE UNCHANGED <<lockA, lockB>>
      BY <1>1, UnchangedA, UnchangedB DEF LocksInv
<1>2. ASSUME NEW t \in Threads, CallOf(t)
      PROVE  LocksInv' /\ [A!Lock!Next]_(A!Lock!vars) /\ [B!Lock!Next]_(B!Lock!vars)
      BY <1>2, CallsA, CallsB, UnchangedA, UnchangedB DEF LocksInv, CallOf
<1>3. QED  BY <1>1, <1>2, NextCalls

\* The locks at the start.
LEMMA LocksInit == Init => LocksInv /\ A!Lock!Init /\ B!Lock!Init
<1>1. Init => AP!IInv /\ BP!IInv
      BY SameA, SameB, AP!InitInv, BP!InitInv DEF Init
<1>2. Init => A!Lock!Init /\ B!Lock!Init
      BY SMT DEF Init, A!Init, B!Init, A!Lock!Init, B!Lock!Init
<1>3. QED  BY <1>1, <1>2 DEF LocksInv

\* The invariants of both locks hold in every behaviour, whatever the threads call
\* (ReadersWriterLock under tsmap).
THEOREM LocksInvariant == Spec => []LocksInv
<1>1. Init => LocksInv  BY LocksInit
<1>2. LocksInv /\ [Next]_vars => LocksInv'  BY LocksStep
<1>3. QED  BY <1>1, <1>2, PTL DEF Spec

\* Both maps' locks are granted and given back as readers-writer locks are, also while
\* swap holds the one and waits for the other.
THEOREM MapLocksGranted == Spec => LocksGranted
<1>1. Init => A!Lock!Init /\ B!Lock!Init  BY LocksInit
<1>2. LocksInv /\ [Next]_vars => [A!Lock!Next]_(A!Lock!vars) /\ [B!Lock!Next]_(B!Lock!vars)
      BY LocksStep
<1>3. QED  BY <1>1, <1>2, LocksInvariant, PTL
              DEF Spec, LocksGranted, A!Granted, B!Granted, A!Lock!Spec, B!Lock!Spec

-----------------------------------------------------------------------------
(***************************************************************************)
(* What the threads do with the locks.                                     *)
(***************************************************************************)
RP == A!ReadPositions
WP == A!WritePositions

\* A thread is inside the locks of the maps of its call, and of no other, in the way of
\* the call.
KindsAt(t) ==
    \A x \in Maps :
        /\ place(t, x) \in {"out"} \cup RP \cup WP
        /\ place(t, x) \in RP => Reads(t)
        /\ place(t, x) \in WP => Writes(t)
        /\ place(t, x) # "out" => phase[t] # "out" /\ (x = First(t) \/ Swaps(t))

Wanted(t) == IF Swaps(t) THEN Maps ELSE {First(t)}

StillAt(t) ==
    phase[t] = "work" => /\ Held(t) = Wanted(t)
                         /\ \A x \in Held(t) : seen[t][x] = contents[x]

Data ==
    /\ contents \in [Maps -> SUBSET Keys]
    /\ call \in [Threads -> [name : ReadOperations \cup WriteOperations, map : Maps, key : Keys]
                             \cup {NoCall}]
    /\ \A t \in Threads : call[t] \in Calls[t] \cup {NoCall}
    /\ phase \in [Threads -> {"out", "lock", "work", "unlock"}]
    /\ seen \in [Threads -> [Maps -> SUBSET Keys]]

IInv == LocksInv /\ Data /\ \A t \in Threads : KindsAt(t) /\ StillAt(t)

\* Nothing about thread u changes in the locks but its place among the positions of a kind.
Stays(u) ==
    \A x \in Maps :
        /\ place(u, x)' \in {"out"} \cup RP \cup WP
        /\ place(u, x)' \in RP <=> place(u, x) \in RP
        /\ place(u, x)' \in WP <=> place(u, x) \in WP
        /\ place(u, x)' = "reading" <=> place(u, x) = "reading"
        /\ place(u, x)' = "writing" <=> place(u, x) = "writing"

\* The operations are of two kinds, and NoCall of neither.
LEMMA TwoKinds ==
    ASSUME NEW t
    PROVE  /\ ~(Reads(t) /\ Writes(t))
           /\ Swaps(t) => Writes(t)
           /\ call[t] = NoCall => ~Reads(t) /\ ~Writes(t) /\ ~Swaps(t)
BY SMT DEF Reads, Writes, Swaps, ReadOperations, WriteOperations, NoCall

\* No position is of both kinds, and "out" is of neither.
LEMMA Positions ==
    /\ RP \cap WP = {} /\ "out" \notin RP \cup WP
    /\ "reading" \in RP /\ "writing" \in WP
BY SMT DEF RP, WP, A!ReadPositions, A!WritePositions

\* Where a thread can be in the locks.
LEMMA PositionsTyped ==
    ASSUME LocksInv, NEW t \in Threads
    PROVE  \A x \in Maps : place(t, x) \in {"out"} \cup RP \cup WP
BY SMT DEF LocksInv, AP!IInv, BP!IInv, AP!TypeOK, BP!TypeOK, AP!ReadPositions,
           BP!ReadPositions, AP!WritePositions, BP!WritePositions, RP, WP,
           A!ReadPositions, A!WritePositions, place, Maps

\* The other threads stay where they are when one calls a lock.
LEMMA OthersStay ==
    ASSUME LocksInv, LocksInv', NEW t \in Threads, CallOf(t), NEW u \in Threads \ {t}
    PROVE  Stays(u)
<1>1. \A x \in Maps : place(u, x)' \in {"out"} \cup RP \cup WP
      BY SMT DEF LocksInv, AP!IInv, BP!IInv, AP!TypeOK, BP!TypeOK, AP!ReadPositions,
           BP!ReadPositions, AP!WritePositions, BP!WritePositions, RP, WP,
           A!ReadPositions, A!WritePositions, place, Maps
<1>2. /\ posA'[u] \in RP <=> posA[u] \in RP
      /\ posA'[u] \in WP <=> posA[u] \in WP
      /\ posA'[u] = "reading" <=> posA[u] = "reading"
      /\ posA'[u] = "writing" <=> posA[u] = "writing"
  <2>1. CASE UNCHANGED lockA
        BY <2>1 DEF lockA
  <2>2. CASE AP!OthersStay(t) /\ AP!SameKind(u)
        BY <2>2 DEF AP!OthersStay, AP!SameKind, AP!ReadPositions, AP!WritePositions, RP, WP,
           A!ReadPositions, A!WritePositions
  <2>3. QED  BY <2>1, <2>2, CallsA DEF CallOf, LocksInv
<1>3. /\ posB'[u] \in RP <=> posB[u] \in RP
      /\ posB'[u] \in WP <=> posB[u] \in WP
      /\ posB'[u] = "reading" <=> posB[u] = "reading"
      /\ posB'[u] = "writing" <=> posB[u] = "writing"
  <2>1. CASE UNCHANGED lockB
        BY <2>1 DEF lockB
  <2>2. CASE BP!OthersStay(t) /\ BP!SameKind(u)
        BY <2>2 DEF BP!OthersStay, BP!SameKind, BP!ReadPositions, BP!WritePositions, RP, WP,
           A!ReadPositions, A!WritePositions
  <2>3. QED  BY <2>1, <2>2, CallsB DEF CallOf, LocksInv
<1>4. QED  BY <1>1, <1>2, <1>3 DEF Stays, place

\* A thread that stays, and whose call, phase and maps stay, keeps what is said of it.
LEMMA StayingKeeps ==
    ASSUME NEW u \in Threads, KindsAt(u), StillAt(u), Stays(u), call'[u] = call[u],
           phase'[u] = phase[u], seen'[u] = seen[u],
           phase[u] = "work" => \A x \in Held(u) : contents'[x] = contents[x]
    PROVE  KindsAt(u)' /\ StillAt(u)'
<1>1. KindsAt(u)'
      BY Positions DEF KindsAt, Stays, Reads, Writes, Swaps, First
<1>2. Held(u)' = Held(u)
      BY DEF Held, Stays
<1>3. StillAt(u)'
      BY <1>2 DEF StillAt, Wanted, Swaps, First
<1>4. QED  BY <1>1, <1>3

\* A thread that nothing happens to in the locks stays.
LEMMA UnchangedStays ==
    ASSUME LocksInv, UNCHANGED <<lockA, lockB>>, NEW u \in Threads
    PROVE  Stays(u)
BY PositionsTyped DEF Stays, lockA, lockB, place

\* What a call of lock or unlock does to the positions of the thread that makes it.
LEMMA CallerPositions ==
    ASSUME LocksInv, NEW t \in Threads, NEW x \in Maps
    PROVE  /\ LockRead(t, x) => place(t, x)' \in RP
           /\ UnlockRead(t, x) => place(t, x) \in RP /\ place(t, x)' \in RP \cup {"out"}
           /\ LockWrite(t, x) => place(t, x)' \in WP
           /\ UnlockWrite(t, x) => place(t, x) \in WP /\ place(t, x)' \in WP \cup {"out"}
           /\ LockRead(t, x) \/ UnlockRead(t, x) \/ LockWrite(t, x) \/ UnlockWrite(t, x)
              => CallOf(t) /\ \A y \in Maps \ {x} : place(t, y)' = place(t, y)
<1>1. /\ A!LockRead(t) => posA'[t] \in RP
      /\ A!AfterRead(t) => posA[t] \in RP /\ posA'[t] \in RP \cup {"out"}
      /\ A!LockWrite(t) => posA'[t] \in WP
      /\ A!AfterWrite(t) => posA[t] \in WP /\ posA'[t] \in WP \cup {"out"}
      BY SameA, AP!CallPositions DEF LocksInv, RP, WP, A!ReadPositions, A!WritePositions,
         AP!ReadPositions, AP!WritePositions
<1>2. /\ B!LockRead(t) => posB'[t] \in RP
      /\ B!AfterRead(t) => posB[t] \in RP /\ posB'[t] \in RP \cup {"out"}
      /\ B!LockWrite(t) => posB'[t] \in WP
      /\ B!AfterWrite(t) => posB[t] \in WP /\ posB'[t] \in WP \cup {"out"}
      BY SameB, BP!CallPositions DEF LocksInv, RP, WP, A!ReadPositions, A!WritePositions,
         BP!ReadPositions, BP!WritePositions
<1>3. CASE x = 1
      BY <1>1, <1>3 DEF LockRead, UnlockRead, LockWrite, UnlockWrite, place, CallOf, lockB, Maps
<1>4. CASE x = 2
      BY <1>2, <1>4 DEF LockRead, UnlockRead, LockWrite, UnlockWrite, place, CallOf, lockA, Maps
<1>5. QED  BY <1>3, <1>4 DEF Maps

\* Who writes a map is the only one that has locked it.
LEMMA AloneWithMap ==
    ASSUME LocksInv, NEW t \in Threads, NEW u \in Threads \ {t}, NEW x \in Maps,
           place(t, x) = "writing"
    PROVE  x \notin Held(u)
<1>1. AP!WritersAlone /\ BP!WritersAlone
      BY SMT DEF LocksInv, AP!IInv, AP!TypeOK, AP!Counted, AP!CountedAt, AP!Exclusive,
                 AP!HoldsMw, AP!Admitted, AP!ReadAdmitted, AP!WritersAlone,
                 BP!IInv, BP!TypeOK, BP!Counted, BP!CountedAt, BP!Exclusive,
                 BP!HoldsMw, BP!Admitted, BP!ReadAdmitted, BP!WritersAlone
<1>2. QED  BY <1>1, SMT DEF AP!WritersAlone, BP!WritersAlone, Held, place, Maps

\* The types of what the threads work on stay what they are.
LEMMA CallTypes ==
    ASSUME Data, NEW t \in Threads
    PROVE  /\ call[t].map \in Maps
           /\ call[t] # NoCall => call[t].key \in Keys
           /\ call[t] # NoCall <=> Reads(t) \/ Writes(t)
           /\ First(t) \in Maps /\ Second(t) \in Maps \ {First(t)}
           /\ Maps = {First(t), Second(t)}
BY SMT DEF Data, NoCall, Maps, First, Second, Reads, Writes, ReadOperations, WriteOperations

-----------------------------------------------------------------------------
(***************************************************************************)
(* Each action keeps the invariant.                                        *)
(***************************************************************************)
LEMMA InitInv == Init => IInv
<1>. SUFFICES ASSUME Init PROVE IInv
     OBVIOUS
<1>1. LocksInv  BY LocksInit
<1>2. Data      BY SMT DEF Init, Data, Nothing, NoCall, Maps
<1>3. \A t \in Threads : KindsAt(t) /\ StillAt(t)
  <2>. TAKE t \in Threads
  <2>1. place(t, 1) = "out" /\ place(t, 2) = "out"
        BY DEF Init, A!Init, B!Init, place
  <2>2. KindsAt(t)
        BY <2>1, Positions DEF KindsAt, Maps
  <2>3. StillAt(t)
        BY SMT DEF Init, StillAt
  <2>4. QED  BY <2>2, <2>3
<1>4. QED  BY <1>1, <1>2, <1>3 DEF IInv

\* What is true of the threads that do not take a step, stays true: they stay in the locks,
\* and the maps they hold are not written.
LEMMA OthersKeep ==
    ASSUME IInv, LocksInv', Data', NEW t \in Threads,
           \A u \in Threads \ {t} : Stays(u),
           \A u \in Threads \ {t} : call'[u] = call[u] /\ phase'[u] = phase[u] /\ seen'[u] = seen[u],
           \A u \in Threads \ {t} : phase[u] = "work" => \A x \in Held(u) : contents'[x] = contents[x],
           KindsAt(t)', StillAt(t)'
    PROVE  IInv'
<1>1. \A u \in Threads \ {t} : KindsAt(u)' /\ StillAt(u)'
      BY StayingKeeps DEF IInv
<1>2. QED  BY <1>1 DEF IInv

\* A thread locks the maps of its call, in the way of its call.
LEMMA LocksKeeps ==
    ASSUME IInv, NEW t \in Threads, Locks(t)
    PROVE  IInv'
<1>. DEFINE Call(x) == LockRead(t, x) \/ LockWrite(t, x)
<1>1. /\ UNCHANGED <<contents, call, phase, seen>>
      /\ phase[t] = "lock"
      BY DEF Locks
<1>2. PICK x \in Maps : /\ \/ Reads(t) /\ LockRead(t, x)
                           \/ Writes(t) /\ LockWrite(t, x)
                        /\ x = First(t) \/ Swaps(t)
      BY CallTypes, TwoKinds DEF Locks, IInv
<1>3. /\ CallOf(t) /\ \A y \in Maps \ {x} : place(t, y)' = place(t, y)
      /\ \/ Reads(t) /\ place(t, x)' \in RP
         \/ Writes(t) /\ place(t, x)' \in WP
      BY <1>2, CallerPositions DEF IInv
<1>4. [Next]_vars
      BY DEF Next, Step
<1>5. LocksInv'
      BY <1>4, LocksStep DEF IInv
<1>6. Data'
      BY <1>1 DEF Data, IInv
<1>7. \A u \in Threads \ {t} : Stays(u)
      BY <1>3, <1>5, OthersStay DEF IInv
<1>8. KindsAt(t)'
      BY <1>1, <1>2, <1>3, Positions DEF KindsAt, IInv, Reads, Writes, Swaps, First
<1>9. StillAt(t)'
      BY <1>1 DEF StillAt
<1>10. QED  BY <1>1, <1>5, <1>6, <1>7, <1>8, <1>9, OthersKeep

\* A thread unlocks the maps of its call.
LEMMA UnlocksKeeps ==
    ASSUME IInv, NEW t \in Threads, Unlocks(t)
    PROVE  IInv'
<1>1. /\ UNCHANGED <<contents, call, phase, seen>>
      /\ phase[t] = "unlock"
      BY DEF Unlocks
<1>2. PICK x \in Maps : UnlockRead(t, x) \/ UnlockWrite(t, x)
      BY CallTypes, TwoKinds DEF Unlocks, IInv
<1>3. /\ CallOf(t) /\ \A y \in Maps \ {x} : place(t, y)' = place(t, y)
      /\ \/ place(t, x) \in RP /\ place(t, x)' \in RP \cup {"out"}
         \/ place(t, x) \in WP /\ place(t, x)' \in WP \cup {"out"}
      BY <1>2, CallerPositions DEF IInv
<1>4. [Next]_vars
      BY DEF Next, Step
<1>5. LocksInv'
      BY <1>4, LocksStep DEF IInv
<1>6. Data'
      BY <1>1 DEF Data, IInv
<1>7. \A u \in Threads \ {t} : Stays(u)
      BY <1>3, <1>5, OthersStay DEF IInv
<1>8. KindsAt(t)'
      BY <1>1, <1>3, Positions DEF KindsAt, IInv, Reads, Writes, Swaps, First
<1>9. StillAt(t)'
      BY <1>1 DEF StillAt
<1>10. QED  BY <1>1, <1>5, <1>6, <1>7, <1>8, <1>9, OthersKeep

\* A thread wakes up in a lock.
LEMMA WakeUpKeeps ==
    ASSUME IInv, NEW t \in Threads, WakeUp(t)
    PROVE  IInv'
<1>1. UNCHANGED <<lockA, contents, call, phase, seen>> /\ B!WakeUp(t)
      BY DEF WakeUp
<1>2. CallOf(t)
      BY <1>1 DEF CallOf
<1>3. [Next]_vars
      BY DEF Next
<1>4. LocksInv'
      BY <1>3, LocksStep DEF IInv
<1>5. Data'
      BY <1>1 DEF Data, IInv
<1>6. \A u \in Threads \ {t} : Stays(u)
      BY <1>2, <1>4, OthersStay DEF IInv
<1>7. Stays(t)
  <2>1. posA' = posA
        BY <1>1 DEF lockA
  <2>2. posB[t] \in {"r_wait", "w_wait"} /\ posB'[t] = B!Woken(posB[t])
        BY <1>1 DEF B!WakeUp, IInv, LocksInv, BP!IInv, BP!TypeOK
  <2>3. \/ posB[t] = "r_wait" /\ posB'[t] = "r_wake"
        \/ posB[t] = "w_wait" /\ posB'[t] = "w_queue"
        BY <2>2, SMT DEF B!Woken
  <2>4. {"r_wait", "r_wake"} \subseteq RP /\ {"w_wait", "w_queue"} \subseteq WP
        BY DEF RP, WP, A!ReadPositions, A!WritePositions
  <2>5. place(t, 1) \in {"out"} \cup RP \cup WP
        BY PositionsTyped DEF IInv, Maps
  <2>6. QED  BY <2>1, <2>3, <2>4, <2>5, Positions, SMT DEF Stays, place, Maps
<1>8. KindsAt(t)' /\ StillAt(t)'
      BY <1>1, <1>7, StayingKeeps DEF IInv
<1>9. QED  BY <1>1, <1>4, <1>5, <1>6, <1>8, OthersKeep

\* A thread reads the maps it has locked.
LEMMA ReadKeeps ==
    ASSUME IInv, NEW t \in Threads, Read(t)
    PROVE  IInv'
<1>1. /\ Held(t) = Wanted(t)
      /\ phase[t] = "lock" /\ phase' = [phase EXCEPT ![t] = "work"]
      /\ seen' = [seen EXCEPT ![t] = [x \in Maps |-> IF x \in Held(t) THEN contents[x] ELSE {}]]
      /\ UNCHANGED <<lockA, lockB, contents, call>>
      BY DEF Read, Goes, Wanted
<1>2. LocksInv'
      BY <1>1, UnchangedA, UnchangedB DEF IInv, LocksInv
<1>3. \A u \in Threads : Stays(u)
      BY <1>1, UnchangedStays DEF IInv
<1>4. Data'
      BY <1>1 DEF Data, IInv
<1>5. KindsAt(t)'
      BY <1>1, <1>3, Positions DEF KindsAt, Stays, IInv, Data, Reads, Writes, Swaps, First
<1>6. StillAt(t)'
  <2>1. Held(t)' = Held(t) /\ Wanted(t)' = Wanted(t)
        BY <1>1 DEF Held, Wanted, Swaps, First, place, lockA, lockB
  <2>2. \A x \in Held(t) : seen'[t][x] = contents'[x]
        BY <1>1 DEF IInv, Data, Held
  <2>3. QED  BY <1>1, <2>1, <2>2 DEF StillAt
<1>7. \A u \in Threads \ {t} : phase'[u] = phase[u] /\ seen'[u] = seen[u]
      BY <1>1 DEF IInv, Data
<1>8. QED  BY <1>1, <1>2, <1>3, <1>4, <1>5, <1>6, <1>7, OthersKeep

\* A thread writes the maps it works on: nobody else has read them, unless the call leaves
\* them as they are.
LEMMA WriteKeeps ==
    ASSUME IInv, NEW t \in Threads, Write(t)
    PROVE  IInv'
<1>1. /\ phase[t] = "work" /\ phase' = [phase EXCEPT ![t] = "unlock"]
      /\ seen' = [seen EXCEPT ![t] = Nothing]
      /\ UNCHANGED <<lockA, lockB, call>>
      BY DEF Write, Goes
<1>2. /\ Held(t) = Wanted(t)
      /\ \A x \in Held(t) : seen[t][x] = contents[x]
      BY <1>1 DEF IInv, StillAt
<1>3. LocksInv'
      BY <1>1, UnchangedA, UnchangedB DEF IInv, LocksInv
<1>4. \A u \in Threads : Stays(u)
      BY <1>1, UnchangedStays DEF IInv
<1>5. call[t] # NoCall
      BY <1>1, <1>2, CallTypes, TwoKinds, Positions
         DEF IInv, KindsAt, Held, Wanted
<1>6. call[t].key \in Keys /\ (Reads(t) \/ Writes(t)) /\ First(t) \in Maps
      BY <1>5, CallTypes DEF IInv
<1>7. contents' \in [Maps -> SUBSET Keys]
  <2>1. seen[t] \in [Maps -> SUBSET Keys] /\ contents \in [Maps -> SUBSET Keys]
        BY DEF IInv, Data
  <2>2. CASE Swaps(t)
    <3>1. contents' = [x \in Maps |-> seen[t][3 - x]]
          BY <2>2 DEF Write
    <3>2. \A x \in Maps : 3 - x \in Maps
          BY SMT DEF Maps
    <3>3. QED  BY <2>1, <3>1, <3>2
  <2>3. CASE ~Swaps(t)
    <3>1. contents' = [contents EXCEPT ![First(t)] = After(call[t], seen[t][First(t)])]
          BY <2>3 DEF Write
    <3>2. After(call[t], seen[t][First(t)]) \in SUBSET Keys
          BY <1>6, <2>1, <2>3, SMT DEF After, Reads, Writes, Swaps, ReadOperations, WriteOperations
    <3>3. QED  BY <2>1, <3>1, <3>2
  <2>4. QED  BY <2>2, <2>3
<1>8. Data'
      BY <1>1, <1>7 DEF Data, IInv, Nothing
<1>9. KindsAt(t)'
      BY <1>1, <1>4, Positions DEF KindsAt, Stays, IInv, Data, Reads, Writes, Swaps, First
<1>10. StillAt(t)'
      BY <1>1 DEF StillAt, IInv, Data
<1>11. \A u \in Threads \ {t} : phase'[u] = phase[u] /\ seen'[u] = seen[u]
      BY <1>1 DEF IInv, Data
<1>12. ASSUME NEW u \in Threads \ {t}, NEW x \in Held(u)
       PROVE  contents'[x] = contents[x]
  <2>1. x \in Maps
        BY DEF Held
  <2>2. CASE x \notin Held(t)
    <3>1. ~Swaps(t) /\ x # First(t)
          BY <1>2, <2>1, <2>2 DEF Wanted
    <3>2. QED  BY <2>1, <3>1 DEF Write, IInv, Data
  <2>3. CASE x \in Held(t) /\ Writes(t)
    <3>1. place(t, x) = "writing"
          BY <2>3, TwoKinds, Positions DEF Held, IInv, KindsAt
    <3>2. QED  BY <2>1, <3>1, AloneWithMap DEF IInv
  <2>4. CASE x \in Held(t) /\ Reads(t)
    <3>1. ~Swaps(t) /\ x = First(t) /\ seen[t][x] = contents[x]
          BY <1>2, <2>4, TwoKinds DEF Wanted
    <3>2. After(call[t], seen[t][x]) = contents[x]
          BY <2>4, <3>1, SMT DEF After, Reads, ReadOperations
    <3>3. QED  BY <1>6, <2>1, <3>1, <3>2 DEF Write, IInv, Data
  <2>5. QED  BY <1>6, <2>2, <2>3, <2>4
<1>13. QED  BY <1>1, <1>3, <1>4, <1>8, <1>9, <1>10, <1>11, <1>12, OthersKeep

\* A thread starts a call.
LEMMA BeginKeeps ==
    ASSUME IInv, NEW t \in Threads, Begin(t)
    PROVE  IInv'
<1>1. /\ phase[t] = "out" /\ phase' = [phase EXCEPT ![t] = "lock"]
      /\ UNCHANGED <<lockA, lockB, contents, seen>>
      BY DEF Begin, Goes
<1>2. PICK c \in Calls[t] : call' = [call EXCEPT ![t] = c]
      BY DEF Begin
<1>3. LocksInv'
      BY <1>1, UnchangedA, UnchangedB DEF IInv, LocksInv
<1>4. \A u \in Threads : Stays(u)
      BY <1>1, UnchangedStays DEF IInv
<1>5. c \in [name : ReadOperations \cup WriteOperations, map : Maps, key : Keys]
      BY <1>2, CallsAssumption
<1>6. Data'
      BY <1>1, <1>2, <1>5 DEF Data, IInv
<1>7. \A x \in Maps : place(t, x) = "out" /\ place(t, x)' = "out"
      BY <1>1 DEF IInv, KindsAt, place, lockA, lockB
<1>8. KindsAt(t)'
      BY <1>7, Positions DEF KindsAt
<1>9. StillAt(t)'
      BY <1>1 DEF StillAt, IInv, Data
<1>10. \A u \in Threads \ {t} : phase'[u] = phase[u] /\ seen'[u] = seen[u] /\ call'[u] = call[u]
      BY <1>1, <1>2 DEF IInv, Data
<1>11. QED  BY <1>1, <1>3, <1>4, <1>6, <1>8, <1>9, <1>10, OthersKeep

\* A call returns: both locks are left.
LEMMA ReturnKeeps ==
    ASSUME IInv, NEW t \in Threads, Return(t)
    PROVE  IInv'
<1>1. /\ place(t, 1) = "out" /\ place(t, 2) = "out"
      /\ phase[t] = "unlock" /\ phase' = [phase EXCEPT ![t] = "out"]
      /\ call' = [call EXCEPT ![t] = NoCall]
      /\ UNCHANGED <<lockA, lockB, contents, seen>>
      BY DEF Return, Goes
<1>2. LocksInv'
      BY <1>1, UnchangedA, UnchangedB DEF IInv, LocksInv
<1>3. \A u \in Threads : Stays(u)
      BY <1>1, UnchangedStays DEF IInv
<1>4. Data'
      BY <1>1 DEF Data, IInv
<1>5. \A x \in Maps : place(t, x)' = "out"
      BY <1>1 DEF place, lockA, lockB, Maps
<1>6. KindsAt(t)'
      BY <1>5, Positions DEF KindsAt
<1>7. StillAt(t)'
      BY <1>1 DEF StillAt, IInv, Data
<1>8. \A u \in Threads \ {t} : phase'[u] = phase[u] /\ seen'[u] = seen[u] /\ call'[u] = call[u]
      BY <1>1 DEF IInv, Data
<1>9. QED  BY <1>1, <1>2, <1>3, <1>4, <1>6, <1>7, <1>8, OthersKeep

\* A step of no thread.
LEMMA StutterKeeps == ASSUME IInv, UNCHANGED vars PROVE IInv'
<1>1. LocksInv'
      BY UnchangedA, UnchangedB DEF vars, IInv, LocksInv
<1>2. Data'
      BY DEF vars, IInv, Data
<1>3. \A u \in Threads : KindsAt(u)' /\ StillAt(u)'
      BY UnchangedStays, StayingKeeps DEF vars, IInv
<1>4. QED  BY <1>1, <1>2, <1>3 DEF IInv

-----------------------------------------------------------------------------
(***************************************************************************)
(* The theorems.                                                           *)
(***************************************************************************)
\* The inductive invariant holds in every behaviour.
THEOREM Invariant == Spec => []IInv
<1>1. IInv /\ [Next]_vars => IInv'
      BY LocksKeeps, UnlocksKeeps, WakeUpKeeps, ReadKeeps, WriteKeeps, BeginKeeps, ReturnKeeps,
         StutterKeeps DEF Next, Step
<1>2. QED  BY InitInv, <1>1, PTL DEF Spec

\* The locks, the maps and the calls have the types declared, and a thread outside a call
\* is outside both locks.
THEOREM TypeCorrect == Spec => []TypeOK
<1>1. IInv => A!TypeOK /\ B!TypeOK
      BY SMT DEF IInv, LocksInv, AP!IInv, AP!TypeOK, A!TypeOK, BP!IInv, BP!TypeOK, B!TypeOK,
                 AP!ReadPositions, A!ReadPositions, BP!ReadPositions, B!ReadPositions,
                 AP!WritePositions, A!WritePositions, BP!WritePositions, B!WritePositions
<1>2. ASSUME IInv, NEW t \in Threads, phase[t] = "out"
      PROVE  place(t, 1) = "out" /\ place(t, 2) = "out"
      BY <1>2 DEF IInv, KindsAt, Maps
<1>3. IInv => TypeOK
      BY <1>1, <1>2 DEF TypeOK, IInv, Data
<1>4. QED  BY Invariant, <1>3, PTL

\* What a thread has read of the maps it works on is what they are until it has written
\* them: no update is lost, and swap exchanges two maps nobody has changed.
THEOREM NothingLost == Spec => []NoLostUpdate
<1>1. IInv => NoLostUpdate
      BY DEF IInv, StillAt, NoLostUpdate
<1>2. QED  BY Invariant, <1>1, PTL
=============================================================================
