------------------------------- MODULE RWLock -------------------------------
(***************************************************************************)
(* The readers-writer lock of src/inc/utils/ReadersWritterLock.h, in the   *)
(* two styles that lock: MSL (a mutex and a spinlock), which a lock starts *)
(* in, and M2CV (two mutexes and a condition variable).                    *)
(*                                                                         *)
(* A step is one atomic operation of one thread.  A counter is the set of  *)
(* the threads that have counted themselves: no thread does so twice, as   *)
(* none calls the lock again before it has left.  The position of a thread *)
(* is named for the operation that comes next.                             *)
(***************************************************************************)
CONSTANTS
    Threads,
    Style       \* "MSL" or "M2CV": set_lock_style, before the lock is shared

VARIABLES
    readRequests, writeRequests,
    m, mw,      \* the threads that hold the two mutexes: one or none each
    pos         \* where each thread is

vars == <<readRequests, writeRequests, m, mw, pos>>

ReadPositions ==
    {"r_check", "r_bounce", "r_queue", "r_notify", "r_test", "r_sleep", "r_wait", "r_wake",
     "r_recount", "r_unlock", "reading", "r_told"}

WritePositions ==
    {"w_count", "w_queue", "w_test", "w_sleep", "w_wait", "w_mutex", "w_spin", "w_release",
     "writing", "w_told", "w_unlock"}

TypeOK ==
    /\ readRequests \subseteq Threads /\ writeRequests \subseteq Threads
    /\ m \subseteq Threads /\ mw \subseteq Threads
    /\ pos \in [Threads -> {"out"} \cup ReadPositions \cup WritePositions]

Init ==
    /\ readRequests = {} /\ writeRequests = {}
    /\ m = {} /\ mw = {}
    /\ pos = [t \in Threads |-> "out"]

-----------------------------------------------------------------------------
Goes(t, from, to) == pos[t] = from /\ pos' = [pos EXCEPT ![t] = to]

\* readRequests++ and readRequests--
CountRead(t, from, to) ==
    /\ Goes(t, from, to)
    /\ readRequests' = readRequests \cup {t}
    /\ UNCHANGED <<writeRequests, m, mw>>

UncountRead(t, from, to) ==
    /\ Goes(t, from, to)
    /\ readRequests' = readRequests \ {t}
    /\ UNCHANGED <<writeRequests, m, mw>>

\* writeRequests++ and writeRequests--
CountWrite(t, from, to) ==
    /\ Goes(t, from, to)
    /\ writeRequests' = writeRequests \cup {t}
    /\ UNCHANGED <<readRequests, m, mw>>

UncountWrite(t, from, to) ==
    /\ Goes(t, from, to)
    /\ writeRequests' = writeRequests \ {t}
    /\ UNCHANGED <<readRequests, m, mw>>

\* m.lock() and m.unlock()
LockM(t, from, to) ==
    /\ m = {}
    /\ Goes(t, from, to)
    /\ m' = {t}
    /\ UNCHANGED <<readRequests, writeRequests, mw>>

UnlockM(t, from, to) ==
    /\ Goes(t, from, to)
    /\ m' = {}
    /\ UNCHANGED <<readRequests, writeRequests, mw>>

\* mw.lock() and mw.unlock()
LockMw(t, from, to) ==
    /\ mw = {}
    /\ Goes(t, from, to)
    /\ mw' = {t}
    /\ UNCHANGED <<readRequests, writeRequests, m>>

UnlockMw(t, from, to) ==
    /\ Goes(t, from, to)
    /\ mw' = {}
    /\ UNCHANGED <<readRequests, writeRequests, m>>

\* A counter is read.
Sees(t, condition, from, to) ==
    /\ condition
    /\ Goes(t, from, to)
    /\ UNCHANGED <<readRequests, writeRequests, m, mw>>

\* A thread that has been woken takes m again before it tests its counter again.  The
\* call that wakes it may be lost: who counts itself out does so without m, perhaps
\* between the test and the wait.
Woken(p) == CASE p = "r_wait" -> "r_wake" [] p = "w_wait" -> "w_queue" [] OTHER -> p

\* cv.notify_all()
NotifyAll(t, from, to) ==
    /\ pos[t] = from
    /\ pos' = [u \in Threads |-> IF u = t THEN to ELSE Woken(pos[u])]
    /\ UNCHANGED <<readRequests, writeRequests, m, mw>>

-----------------------------------------------------------------------------
\* The bug of a reader that meets a writer and only tries again.
EnterReadAgain(t) ==
    \/ CountRead(t, "out", "r_check")
    \/ Sees(t, writeRequests = {}, "r_check", "reading")
    \/ Sees(t, writeRequests # {}, "r_check", "r_bounce")
    \/ UncountRead(t, "r_bounce", "out")

\* before_read, up to the point where the styles differ.
EnterRead(t) ==
    \/ CountRead(t, "out", "r_check")
    \/ Sees(t, writeRequests = {}, "r_check", "reading")
    \/ Sees(t, writeRequests # {}, "r_check", "r_bounce")
    \/ UncountRead(t, "r_bounce", "r_queue")

BeforeReadMsl(t) ==
    /\ Style = "MSL"
    /\ \/ LockMw(t, "r_queue", "r_recount")
       \/ CountRead(t, "r_recount", "r_unlock")
       \/ UnlockMw(t, "r_unlock", "reading")

BeforeReadM2cv(t) ==
    /\ Style = "M2CV"
    /\ \/ LockM(t, "r_queue", "r_notify")
       \/ NotifyAll(t, "r_notify", "r_test")
       \/ Sees(t, writeRequests # {}, "r_test", "r_sleep")
       \/ UnlockM(t, "r_sleep", "r_wait")
       \/ LockM(t, "r_wake", "r_test")
       \/ Sees(t, writeRequests = {}, "r_test", "r_recount")
       \/ CountRead(t, "r_recount", "r_unlock")
       \/ UnlockM(t, "r_unlock", "reading")

AfterRead(t) ==
    \/ Style = "MSL" /\ UncountRead(t, "reading", "out")
    \/ Style = "M2CV" /\ UncountRead(t, "reading", "r_told")
    \/ NotifyAll(t, "r_told", "out")

\* The bug of a writer that tests the readers before it is counted.
BeforeWriteMslUncounted(t) ==
    /\ Style = "MSL"
    /\ \/ LockMw(t, "out", "w_spin")
       \/ Sees(t, readRequests = {}, "w_spin", "w_count")
       \/ CountWrite(t, "w_count", "writing")

BeforeWriteMsl(t) ==
    /\ Style = "MSL"
    /\ \/ LockMw(t, "out", "w_count")
       \/ CountWrite(t, "w_count", "w_spin")
       \/ Sees(t, readRequests = {}, "w_spin", "writing")

BeforeWriteM2cv(t) ==
    /\ Style = "M2CV"
    /\ \/ CountWrite(t, "out", "w_queue")
       \/ LockM(t, "w_queue", "w_test")
       \/ Sees(t, readRequests # {}, "w_test", "w_sleep")
       \/ UnlockM(t, "w_sleep", "w_wait")
       \/ Sees(t, readRequests = {}, "w_test", "w_mutex")
       \/ LockMw(t, "w_mutex", "w_release")
       \/ UnlockM(t, "w_release", "writing")

AfterWrite(t) ==
    \/ Style = "MSL" /\ UncountWrite(t, "writing", "w_unlock")
    \/ Style = "M2CV" /\ UncountWrite(t, "writing", "w_told")
    \/ NotifyAll(t, "w_told", "w_unlock")
    \/ UnlockMw(t, "w_unlock", "out")

LockRead(t)  == EnterRead(t) \/ BeforeReadMsl(t) \/ BeforeReadM2cv(t)
LockWrite(t) == BeforeWriteMsl(t) \/ BeforeWriteM2cv(t)

\* cv.wait() may return without a notification.
WakeUp(t) ==
    /\ pos[t] \in {"r_wait", "w_wait"}
    /\ pos' = [pos EXCEPT ![t] = Woken(pos[t])]
    /\ UNCHANGED <<readRequests, writeRequests, m, mw>>

Next ==
    \E t \in Threads :
        LockRead(t) \/ AfterRead(t) \/ LockWrite(t) \/ AfterWrite(t) \/ WakeUp(t)

Spec == Init /\ [][Next]_vars

-----------------------------------------------------------------------------
\* A thread that writes is alone: no other writes and none reads, however the threads'
\* counting, testing and waiting interleave (before_read and before_write, both styles).
WritersAlone ==
    \A t, u \in Threads :
        pos[t] = "writing" /\ u # t => pos[u] \notin {"reading", "writing"}

Lock ==
    INSTANCE ReadersWriter WITH
        reading <- {t \in Threads : pos[t] = "reading"},
        writing <- {t \in Threads : pos[t] = "writing"}

\* The lock is granted and given back as a readers-writer lock grants it, one thread at
\* a time.
Granted == Lock!Spec
=============================================================================
