--------------------------- MODULE ReadersWriter ---------------------------
(***************************************************************************)
(* What a readers-writer lock promises: a thread that writes is alone.     *)
(***************************************************************************)
CONSTANT Threads

VARIABLES
    reading,    \* the threads that hold the lock to read
    writing     \* the threads that hold it to write

vars == <<reading, writing>>

Init == reading = {} /\ writing = {}

AcquireRead(t) ==
    /\ t \notin reading
    /\ writing = {}
    /\ reading' = reading \cup {t}
    /\ UNCHANGED writing

AcquireWrite(t) ==
    /\ reading = {} /\ writing = {}
    /\ writing' = {t}
    /\ UNCHANGED reading

Release(t) ==
    /\ reading' = reading \ {t}
    /\ writing' = writing \ {t}

Next == \E t \in Threads : AcquireRead(t) \/ AcquireWrite(t) \/ Release(t)

Spec == Init /\ [][Next]_vars
=============================================================================
