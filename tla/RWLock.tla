------------------------------- MODULE RWLock -------------------------------
(***************************************************************************)
(* The readers/writer lock of source/locks.c: one mutex, two condition     *)
(* variables and three counters, as the handler threads of a server use it *)
(* for the table (lock_data_ptr) and for the statistics (locks_stats_ptr). *)
(*                                                                         *)
(* Each function holds the mutex from its first line to its last, and      *)
(* releases it only inside pthread_cond_wait.  Nothing else takes the      *)
(* mutex, so one run of the mutex is one action: a call up to its return   *)
(* or to its wait, and, after a wake-up, the loop test again.              *)
(***************************************************************************)
EXTENDS Naturals, FiniteSets

CONSTANT Thread

ASSUME ThreadAssumption == IsFiniteSet(Thread)

VARIABLES reads,    \* lock->reads
          writes,   \* lock->writes
          wwrites,  \* lock->wwrites
          pc        \* where each thread is with respect to this lock

vars == <<reads, writes, wwrites, pc>>

\* "rwait"/"wwait": asleep on the condition read/write.  "rwoken"/"wwoken":
\* woken, has yet to get the mutex back and to test the loop condition.
PC == {"idle", "rwait", "rwoken", "reading", "wwait", "wwoken", "writing"}

At(S) == {t \in Thread : pc[t] \in S}

Readers == At({"reading"})
Writers == At({"writing"})
Wanting == At({"wwait", "wwoken"})

TypeOK ==
    /\ reads \in Nat
    /\ writes \in Nat
    /\ wwrites \in Nat
    /\ pc \in [Thread -> PC]

Init ==
    /\ reads = 0 /\ writes = 0 /\ wwrites = 0
    /\ pc = [t \in Thread |-> "idle"]

-----------------------------------------------------------------------------
(* readLock.                                                               *)

\* Mutant: readLock's loop tests writes only (readers overtake waiting writers).
TryReadFirst(t) ==
    \/ /\ writes > 0
       /\ pc' = [pc EXCEPT ![t] = "rwait"]
       /\ UNCHANGED <<reads, writes, wwrites>>
    \/ /\ writes = 0
       /\ reads' = reads + 1
       /\ pc' = [pc EXCEPT ![t] = "reading"]
       /\ UNCHANGED <<writes, wwrites>>

TryRead(t) ==
    \/ /\ writes > 0 \/ wwrites > 0
       /\ pc' = [pc EXCEPT ![t] = "rwait"]
       /\ UNCHANGED <<reads, writes, wwrites>>
    \/ /\ writes = 0 /\ wwrites = 0
       /\ reads' = reads + 1
       /\ pc' = [pc EXCEPT ![t] = "reading"]
       /\ UNCHANGED <<writes, wwrites>>

ReadLock(t) == pc[t] = "idle" /\ TryRead(t)

ReadWakes(t) == pc[t] = "rwoken" /\ TryRead(t)

-----------------------------------------------------------------------------
(* writeLock.  wanted is the value of wwrites when the loop test runs:     *)
(* the caller has counted itself in, once.                                 *)

TryWrite(t, wanted) ==
    \/ /\ reads > 0 \/ writes > 0
       /\ wwrites' = wanted
       /\ pc' = [pc EXCEPT ![t] = "wwait"]
       /\ UNCHANGED <<reads, writes>>
    \/ /\ reads = 0 /\ writes = 0
       /\ wwrites' = wanted - 1
       /\ writes' = writes + 1
       /\ pc' = [pc EXCEPT ![t] = "writing"]
       /\ UNCHANGED reads

\* Mutant: writeLock forgets lock->wwrites++.
WriteLockUncounted(t) == pc[t] = "idle" /\ TryWrite(t, wwrites)

WriteLock(t) == pc[t] = "idle" /\ TryWrite(t, wwrites + 1)

\* Mutant: lock->wwrites++ inside the loop, counted again at each wake-up.
WriteWakesRecounted(t) == pc[t] = "wwoken" /\ TryWrite(t, wwrites + 1)

\* Mutant: writeLock tests with an if where it needs a while.
WriteWakesUntested(t) ==
    /\ pc[t] = "wwoken"
    /\ wwrites' = wwrites - 1
    /\ writes' = writes + 1
    /\ pc' = [pc EXCEPT ![t] = "writing"]
    /\ UNCHANGED reads

WriteWakes(t) == pc[t] = "wwoken" /\ TryWrite(t, wwrites)

-----------------------------------------------------------------------------
(* leaveRead and leaveWrite.  The caller becomes idle; f is pc with that   *)
(* change.  A signal on write wakes one sleeping writer, if there is one;  *)
(* a broadcast on read wakes every sleeping reader.                        *)

SignalWrite(f) ==
    \/ \E u \in Thread : /\ f[u] = "wwait"
                         /\ pc' = [f EXCEPT ![u] = "wwoken"]
    \/ /\ \A u \in Thread : f[u] # "wwait"
       /\ pc' = f

BroadcastRead(f) ==
    pc' = [u \in Thread |-> IF f[u] = "rwait" THEN "rwoken" ELSE f[u]]

\* Mutant: leaveRead signals nobody.
LeaveReadSilent(t) ==
    /\ pc[t] = "reading"
    /\ reads' = reads - 1
    /\ pc' = [pc EXCEPT ![t] = "idle"]
    /\ UNCHANGED <<writes, wwrites>>

LeaveRead(t) ==
    /\ pc[t] = "reading"
    /\ reads' = reads - 1
    /\ LET f == [pc EXCEPT ![t] = "idle"]
       IN  \/ reads = 1 /\ wwrites > 0 /\ SignalWrite(f)
           \/ ~(reads = 1 /\ wwrites > 0) /\ pc' = f
    /\ UNCHANGED <<writes, wwrites>>

\* Mutant: leaveWrite without its else, readers are never woken.
LeaveWriteNoBroadcast(t) ==
    /\ pc[t] = "writing"
    /\ writes' = writes - 1
    /\ LET f == [pc EXCEPT ![t] = "idle"]
       IN  \/ wwrites > 0 /\ SignalWrite(f)
           \/ wwrites = 0 /\ pc' = f
    /\ UNCHANGED <<reads, wwrites>>

LeaveWrite(t) ==
    /\ pc[t] = "writing"
    /\ writes' = writes - 1
    /\ LET f == [pc EXCEPT ![t] = "idle"]
       IN  \/ wwrites > 0 /\ SignalWrite(f)
           \/ wwrites = 0 /\ BroadcastRead(f)
    /\ UNCHANGED <<reads, wwrites>>

\* POSIX lets pthread_cond_wait return without a signal, and lets a signal
\* wake more than one thread.
SpuriousWake(t) ==
    /\ \/ pc[t] = "rwait" /\ pc' = [pc EXCEPT ![t] = "rwoken"]
       \/ pc[t] = "wwait" /\ pc' = [pc EXCEPT ![t] = "wwoken"]
    /\ UNCHANGED <<reads, writes, wwrites>>

-----------------------------------------------------------------------------
Call(t) == ReadLock(t) \/ WriteLock(t)

Next == \E t \in Thread :
    \/ Call(t)
    \/ ReadWakes(t) \/ WriteWakes(t) \/ SpuriousWake(t)
    \/ LeaveRead(t) \/ LeaveWrite(t)

Spec == Init /\ [][Next]_vars

\* A thread that holds the lock finishes its critical section, and a woken
\* thread is eventually scheduled.  Nobody is obliged to call the lock.
Fairness == \A t \in Thread :
    /\ WF_vars(ReadWakes(t)) /\ WF_vars(WriteWakes(t))
    /\ WF_vars(LeaveRead(t)) /\ WF_vars(LeaveWrite(t))

FairSpec == Spec /\ Fairness

-----------------------------------------------------------------------------
(* Properties.                                                             *)

\* A thread inside writeLock..leaveWrite is alone there and no thread is
\* inside readLock..leaveRead, although the code only compares counters.
Exclusion ==
    \A t, u \in Thread :
        (t \in Writers /\ u \in Readers \cup Writers) => t = u

\* The counters the code compares are the numbers of threads they stand
\* for; wwrites counts sleeping and woken writers alike.
CountersExact ==
    /\ reads = Cardinality(Readers)
    /\ writes = Cardinality(Writers)
    /\ wwrites = Cardinality(Wanting)

\* No lost wake-up: when the lock is free and a thread still sleeps on one
\* of the two conditions, some thread has been woken and will test again;
\* and a reader only sleeps while there is a writer it waits for.
NoLostWakeup ==
    /\ (reads = 0 /\ writes = 0 /\ wwrites > 0) => At({"wwoken"}) # {}
    /\ At({"rwait"}) # {} => writes > 0 \/ wwrites > 0

\* If from some moment on no thread calls the lock any more, every thread
\* that is inside readLock or writeLock gets the lock.  (With callers for
\* ever a reader may starve: writers go first by design.)
Waiting(t) == pc[t] \in {"rwait", "rwoken", "wwait", "wwoken"}
Holding(t) == pc[t] \in {"reading", "writing"}
Quiet == <>[][\A t \in Thread : ~Call(t)]_vars
QuietServesAll == Quiet => \A t \in Thread : Waiting(t) ~> Holding(t)

\* locks.c keeps the promise of locks.h: under this mapping every step of
\* the lock is a step of ReadersWriters or changes nothing there.
Promise == INSTANCE ReadersWriters
    WITH readers <- Readers, writers <- Writers, wanting <- Wanting
ImplementsPromise == Promise!Spec
=============================================================================
