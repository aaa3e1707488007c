--------------------------- MODULE ReadersWriters ---------------------------
(***************************************************************************)
(* What the readers/writer lock of include/locks.h promises to the threads *)
(* of a server, without counters, mutexes or condition variables: readers  *)
(* share the lock, a writer has it alone, and a thread may not start to    *)
(* read "if there are threads writing or wanting to write".                *)
(***************************************************************************)
EXTENDS Naturals, FiniteSets

CONSTANT Thread

VARIABLES readers,  \* the threads between readLock and leaveRead
          writers,  \* the threads between writeLock and leaveWrite
          wanting   \* the threads blocked inside writeLock

vars == <<readers, writers, wanting>>

Init == readers = {} /\ writers = {} /\ wanting = {}

Outside(t) == t \notin readers \cup writers \cup wanting

StartRead(t) ==
    /\ Outside(t)
    /\ writers = {} /\ wanting = {}
    /\ readers' = readers \cup {t}
    /\ UNCHANGED <<writers, wanting>>

EndRead(t) ==
    /\ t \in readers
    /\ readers' = readers \ {t}
    /\ UNCHANGED <<writers, wanting>>

WantWrite(t) ==
    /\ Outside(t)
    /\ wanting' = wanting \cup {t}
    /\ UNCHANGED <<readers, writers>>

\* A writer that finds the lock free takes it without ever showing up in
\* wanting, and may overtake the writers that are already waiting.
StartWrite(t) ==
    /\ Outside(t) \/ t \in wanting
    /\ readers = {} /\ writers = {}
    /\ writers' = {t}
    /\ wanting' = wanting \ {t}
    /\ UNCHANGED readers

EndWrite(t) ==
    /\ t \in writers
    /\ writers' = writers \ {t}
    /\ UNCHANGED <<readers, wanting>>

Next == \E t \in Thread :
    \/ StartRead(t) \/ EndRead(t)
    \/ WantWrite(t) \/ StartWrite(t) \/ EndWrite(t)

Spec == Init /\ [][Next]_vars
=============================================================================
