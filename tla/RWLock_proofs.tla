--------------------------- MODULE RWLock_proofs ---------------------------
(***************************************************************************)
(* Proofs about RWLock, for any set of threads and either style.           *)
(*                                                                         *)
(* The counters and the mutexes say where the threads are (Counted), and   *)
(* a writer that has found no reader counted, and is counted itself, meets *)
(* no reader past its own test (Exclusive).                                *)
(***************************************************************************)
EXTENDS RWLock, TLAPS

\* Where a thread is counted as a reader, and as a writer.
ReadCounted  == {"r_check", "r_bounce", "r_unlock", "reading"}
WriteCounted ==
    {"w_queue", "w_test", "w_sleep", "w_wait", "w_mutex", "w_spin", "w_release", "writing"}

\* Where it holds m, and mw.
HoldsM ==
    IF Style = "M2CV"
    THEN {"r_notify", "r_test", "r_sleep", "r_recount", "r_unlock",
          "w_test", "w_sleep", "w_mutex", "w_release"}
    ELSE {}

HoldsMw ==
    {"w_release", "writing", "w_told", "w_unlock"}
    \cup IF Style = "M2CV" THEN {} ELSE {"r_recount", "r_unlock", "w_count", "w_spin"}

\* Where a writer has found no reader, and a reader no writer.
Admitted     == {"writing"} \cup IF Style = "M2CV" THEN {"w_mutex", "w_release"} ELSE {}
ReadAdmitted == {"r_recount", "r_unlock", "reading"}

CountedAt(t) ==
    /\ t \in readRequests <=> pos[t] \in ReadCounted
    /\ t \in writeRequests <=> pos[t] \in WriteCounted
    /\ pos[t] \in HoldsM => m = {t}
    /\ pos[t] \in HoldsMw => mw = {t}

Counted   == \A t \in Threads : CountedAt(t)
Exclusive == \A t, u \in Threads : pos[t] \in Admitted => pos[u] \notin ReadAdmitted

IInv == TypeOK /\ Counted /\ Exclusive

-----------------------------------------------------------------------------
(***************************************************************************)
(* The steps.                                                              *)
(***************************************************************************)
Steps(t) ==
    \/ EnterRead(t) \/ BeforeReadMsl(t) \/ BeforeReadM2cv(t) \/ AfterRead(t)
    \/ BeforeWriteMsl(t) \/ BeforeWriteM2cv(t) \/ AfterWrite(t) \/ WakeUp(t)

\* A step of the lock is a call's step of some thread.
LEMMA NextIsSteps == Next <=> \E t \in Threads : Steps(t)
BY DEF Next, Steps, LockRead, LockWrite

\* The initial state.
LEMMA InitInv == Init => IInv
BY SMT DEF Init, IInv, TypeOK, Counted, CountedAt, Exclusive, ReadCounted, WriteCounted,
           HoldsM, HoldsMw, Admitted, ReadAdmitted, ReadPositions, WritePositions

\* A step of one thread preserves the invariant.
LEMMA StepInv ==
    ASSUME IInv, NEW t \in Threads, Steps(t)
    PROVE  IInv'
<1>. USE DEF IInv, TypeOK, Counted, CountedAt, Exclusive, ReadCounted, WriteCounted,
             HoldsM, HoldsMw, Admitted, ReadAdmitted, ReadPositions, WritePositions, Goes
<1>1. CASE EnterRead(t)
      BY <1>1, SMT DEF EnterRead, CountRead, UncountRead, Sees
<1>2. CASE BeforeReadMsl(t)
      BY <1>2, SMT DEF BeforeReadMsl, CountRead, LockMw, UnlockMw
<1>3. CASE BeforeReadM2cv(t)
  <2>1. CASE NotifyAll(t, "r_notify", "r_test")
        BY <1>3, <2>1, SMT DEF BeforeReadM2cv, NotifyAll, Woken
  <2>2. CASE ~NotifyAll(t, "r_notify", "r_test")
        BY <1>3, <2>2, SMT DEF BeforeReadM2cv, CountRead, LockM, UnlockM, Sees
  <2>3. QED  BY <2>1, <2>2
<1>4. CASE AfterRead(t)
      BY <1>4, SMT DEF AfterRead, UncountRead, NotifyAll, Woken
<1>5. CASE BeforeWriteMsl(t)
      BY <1>5, SMT DEF BeforeWriteMsl, CountWrite, LockMw, Sees
<1>6. CASE BeforeWriteM2cv(t)
      BY <1>6, SMT DEF BeforeWriteM2cv, CountWrite, LockM, UnlockM, LockMw, Sees
<1>7. CASE AfterWrite(t)
      BY <1>7, SMT DEF AfterWrite, UncountWrite, NotifyAll, Woken, UnlockMw
<1>8. CASE WakeUp(t)
      BY <1>8, SMT DEF WakeUp, Woken
<1>9. QED  BY <1>1, <1>2, <1>3, <1>4, <1>5, <1>6, <1>7, <1>8 DEF Steps

-----------------------------------------------------------------------------
(***************************************************************************)
(* The threads that read and write, as ReadersWriter sees them.            *)
(***************************************************************************)
Reading == {t \in Threads : pos[t] = "reading"}
Writing == {t \in Threads : pos[t] = "writing"}

\* A step of a thread changes what the thread itself does, and no other reads or writes
\* because of it.
OthersStay(t) ==
    \A u \in Threads \ {t} :
        /\ pos'[u] = "reading" <=> pos[u] = "reading"
        /\ pos'[u] = "writing" <=> pos[u] = "writing"

\* It starts to read, or to write, stops, or is seen to do nothing.
Starts(t, mode) == pos[t] \notin {"reading", "writing"} /\ pos'[t] = mode
Stops(t)        == pos'[t] \notin {"reading", "writing"}

\* What a step does to the threads that read and write, and when.
LEMMA StepKinds ==
    ASSUME IInv, NEW t \in Threads, Steps(t)
    PROVE  /\ OthersStay(t)
           /\ \/ Stops(t)
              \/ Starts(t, "reading") /\ Writing = {}
              \/ Starts(t, "writing") /\ Reading = {} /\ Writing = {}
<1>. USE DEF IInv, TypeOK, Counted, CountedAt, Exclusive, ReadCounted, WriteCounted,
             HoldsM, HoldsMw, Admitted, ReadAdmitted, ReadPositions, WritePositions, Goes,
             OthersStay, Starts, Stops, Reading, Writing
<1>1. CASE EnterRead(t)
      BY <1>1, SMT DEF EnterRead, CountRead, UncountRead, Sees
<1>2. CASE BeforeReadMsl(t)
      BY <1>2, SMT DEF BeforeReadMsl, CountRead, LockMw, UnlockMw
<1>3. CASE BeforeReadM2cv(t)
  <2>1. CASE NotifyAll(t, "r_notify", "r_test")
        BY <1>3, <2>1, SMT DEF BeforeReadM2cv, NotifyAll, Woken
  <2>2. CASE ~NotifyAll(t, "r_notify", "r_test")
        BY <1>3, <2>2, SMT DEF BeforeReadM2cv, CountRead, LockM, UnlockM, Sees
  <2>3. QED  BY <2>1, <2>2
<1>4. CASE AfterRead(t)
      BY <1>4, SMT DEF AfterRead, UncountRead, NotifyAll, Woken
<1>5. CASE BeforeWriteMsl(t)
      BY <1>5, SMT DEF BeforeWriteMsl, CountWrite, LockMw, Sees
<1>6. CASE BeforeWriteM2cv(t)
      BY <1>6, SMT DEF BeforeWriteM2cv, CountWrite, LockM, UnlockM, LockMw, Sees
<1>7. CASE AfterWrite(t)
      BY <1>7, SMT DEF AfterWrite, UncountWrite, NotifyAll, Woken, UnlockMw
<1>8. CASE WakeUp(t)
      BY <1>8, SMT DEF WakeUp, Woken
<1>9. QED  BY <1>1, <1>2, <1>3, <1>4, <1>5, <1>6, <1>7, <1>8 DEF Steps

\* Every step is one of a readers-writer lock, or none.
LEMMA StepGranted ==
    ASSUME IInv, NEW t \in Threads, Steps(t)
    PROVE  [Lock!Next]_(Lock!vars)
<1>. DEFINE R == Reading
            W == Writing
<1>1. /\ OthersStay(t)
      /\ \/ Stops(t)
         \/ Starts(t, "reading") /\ W = {}
         \/ Starts(t, "writing") /\ R = {} /\ W = {}
      BY StepKinds
<1>2. pos \in [Threads -> {"out"} \cup ReadPositions \cup WritePositions]
      BY DEF IInv, TypeOK
<1>3. CASE Stops(t)
  <2>1. R' = R \ {t} /\ W' = W \ {t}
        BY <1>1, <1>3, SMT DEF OthersStay, Stops, Reading, Writing
  <2>2. Lock!Release(t)  BY <2>1 DEF Lock!Release, Reading, Writing
  <2>3. QED  BY <2>2 DEF Lock!Next
<1>4. CASE Starts(t, "reading") /\ W = {}
  <2>1. R' = R \cup {t} /\ W' = W /\ t \notin R
        BY <1>1, <1>4, SMT DEF OthersStay, Starts, Reading, Writing
  <2>2. Lock!AcquireRead(t)  BY <1>4, <2>1 DEF Lock!AcquireRead, Reading, Writing
  <2>3. QED  BY <2>2 DEF Lock!Next
<1>5. CASE Starts(t, "writing") /\ R = {} /\ W = {}
  <2>1. R' = R /\ W' = {t}
        BY <1>1, <1>5, SMT DEF OthersStay, Starts, Reading, Writing
  <2>2. Lock!AcquireWrite(t)  BY <1>5, <2>1 DEF Lock!AcquireWrite, Reading, Writing
  <2>3. QED  BY <2>2 DEF Lock!Next
<1>6. QED  BY <1>1, <1>3, <1>4, <1>5

-----------------------------------------------------------------------------
\* The calls keep a thread among the positions of their kind.
LEMMA CallPositions ==
    ASSUME IInv, NEW t \in Threads
    PROVE  /\ LockRead(t) => pos'[t] \in ReadPositions
           /\ AfterRead(t) => pos[t] \in ReadPositions /\ pos'[t] \in ReadPositions \cup {"out"}
           /\ LockWrite(t) => pos'[t] \in WritePositions
           /\ AfterWrite(t) => pos[t] \in WritePositions /\ pos'[t] \in WritePositions \cup {"out"}
<1>. USE DEF IInv, TypeOK, ReadPositions, WritePositions, Goes
<1>1. EnterRead(t) => pos'[t] \in ReadPositions
      BY SMT DEF EnterRead, CountRead, UncountRead, Sees
<1>2. BeforeReadMsl(t) => pos'[t] \in ReadPositions
      BY SMT DEF BeforeReadMsl, CountRead, LockMw, UnlockMw
<1>3. BeforeReadM2cv(t) => pos'[t] \in ReadPositions
      BY SMT DEF BeforeReadM2cv, CountRead, LockM, UnlockM, Sees, NotifyAll
<1>4. AfterRead(t) => pos[t] \in ReadPositions /\ pos'[t] \in ReadPositions \cup {"out"}
      BY SMT DEF AfterRead, UncountRead, NotifyAll
<1>5. BeforeWriteMsl(t) => pos'[t] \in WritePositions
      BY SMT DEF BeforeWriteMsl, CountWrite, LockMw, Sees
<1>6. BeforeWriteM2cv(t) => pos'[t] \in WritePositions
      BY SMT DEF BeforeWriteM2cv, CountWrite, LockM, UnlockM, LockMw, Sees
<1>7. AfterWrite(t) => pos[t] \in WritePositions /\ pos'[t] \in WritePositions \cup {"out"}
      BY SMT DEF AfterWrite, UncountWrite, NotifyAll, UnlockMw
<1>8. QED  BY <1>1, <1>2, <1>3, <1>4, <1>5, <1>6, <1>7 DEF LockRead, LockWrite

\* Nobody else changes the kind of his position; a thread that wakes does not change its own.
SameKind(u) ==
    /\ pos'[u] \in ReadPositions <=> pos[u] \in ReadPositions
    /\ pos'[u] \in WritePositions <=> pos[u] \in WritePositions

\* A step of one thread, and waking up, leave a thread inside the lock or outside, as reader
\* or writer, as it was.
LEMMA OthersSameKind ==
    ASSUME IInv, NEW t \in Threads, Steps(t), NEW u \in Threads, u # t \/ WakeUp(t)
    PROVE  SameKind(u)
<1>. USE DEF IInv, TypeOK, ReadPositions, WritePositions, Goes, SameKind
<1>1. CASE WakeUp(t)
      BY <1>1, SMT DEF WakeUp, Woken
<1>2. CASE u # t /\ \E from, to : NotifyAll(t, from, to)
      BY <1>2, SMT DEF NotifyAll, Woken
<1>3. CASE u # t /\ \E from, to : Goes(t, from, to)
      BY <1>3, SMT
<1>4. Steps(t) => \/ WakeUp(t)
                  \/ \E from, to : NotifyAll(t, from, to)
                  \/ \E from, to : Goes(t, from, to)
  <2>. HIDE DEF Goes
  <2>1. BeforeReadM2cv(t) => \/ \E from, to : NotifyAll(t, from, to)
                            \/ \E from, to : Goes(t, from, to)
        BY Zenon DEF BeforeReadM2cv, CountRead, LockM, UnlockM, Sees
  <2>2. AfterRead(t) \/ AfterWrite(t) => \/ \E from, to : NotifyAll(t, from, to)
                                        \/ \E from, to : Goes(t, from, to)
        BY Zenon DEF AfterRead, AfterWrite, UncountRead, UncountWrite, UnlockMw
  <2>3. EnterRead(t) \/ BeforeReadMsl(t) \/ BeforeWriteMsl(t) \/ BeforeWriteM2cv(t) =>
            \E from, to : Goes(t, from, to)
        BY Zenon DEF EnterRead, BeforeReadMsl, BeforeWriteMsl, BeforeWriteM2cv, CountRead,
                     UncountRead, CountWrite, LockM, UnlockM, LockMw, UnlockMw, Sees
  <2>4. QED  BY <2>1, <2>2, <2>3 DEF Steps
<1>5. QED  BY <1>1, <1>2, <1>3, <1>4

-----------------------------------------------------------------------------
\* A step that does not touch the lock keeps its invariant.
LEMMA Unchanged ==
    ASSUME IInv, UNCHANGED vars
    PROVE  IInv' /\ UNCHANGED Lock!vars
BY DEF vars, Lock!vars, IInv, TypeOK, Counted, CountedAt, Exclusive

\* The invariant holds in every behaviour of the lock.
THEOREM LockInvariant == Spec => []IInv
<1>1. IInv /\ [Next]_vars => IInv'
      BY StepInv, NextIsSteps, Unchanged
<1>2. QED  BY InitInv, <1>1, PTL DEF Spec

\* A thread that writes is alone, whatever the style of the lock (before_read and
\* before_write of ReadersWriterLock).
THEOREM LockExclusion == Spec => []WritersAlone
<1>1. IInv => WritersAlone
      BY SMT DEF IInv, TypeOK, Counted, CountedAt, Exclusive, HoldsMw, Admitted, ReadAdmitted,
                 WritersAlone
<1>2. QED  BY LockInvariant, <1>1, PTL

\* The lock implements a readers-writer lock.
THEOREM LockGranted == Spec => Granted
<1>1. Init => Lock!Init
      BY SMT DEF Init, Lock!Init
<1>2. IInv /\ [Next]_vars => [Lock!Next]_(Lock!vars)
      BY StepGranted, NextIsSteps, Unchanged
<1>3. QED  BY LockInvariant, <1>1, <1>2, PTL DEF Spec, Granted, Lock!Spec
=============================================================================
