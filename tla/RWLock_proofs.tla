---------------------------- MODULE RWLock_proofs ----------------------------
(***************************************************************************)
(* Proofs about RWLock, for every finite set of threads.                   *)
(*                                                                         *)
(* The code only compares counters; that these comparisons exclude other   *)
(* threads follows from CountersExact, so the inductive invariant is the   *)
(* conjunction of the four invariants, none of which is inductive alone.   *)
(***************************************************************************)
EXTENDS RWLock, FiniteSetTheorems, TLAPS

IInv == TypeOK /\ Exclusion /\ CountersExact /\ NoLostWakeup

-----------------------------------------------------------------------------
(* Counting.                                                               *)

\* Any group of threads is finite, so its cardinality is a natural number,
\* which is 0 exactly when the group is empty.
LEMMA GroupFinite ==
    ASSUME NEW S
    PROVE  /\ IsFiniteSet(At(S))
           /\ Cardinality(At(S)) \in Nat
           /\ Cardinality(At(S)) = 0 <=> At(S) = {}
<1>1. At(S) \subseteq Thread
  BY DEF At
<1>2. IsFiniteSet(At(S))
  BY <1>1, FS_Subset, ThreadAssumption
<1> QED
  BY <1>2, FS_CardinalityType, FS_EmptySet

\* Adding a new thread to a finite group adds one to its size, and removing
\* a member takes one away.
LEMMA CountMoves ==
    ASSUME NEW G, IsFiniteSet(G), NEW t
    PROVE  /\ t \notin G => Cardinality(G \cup {t}) = Cardinality(G) + 1
           /\ t \in G => Cardinality(G \ {t}) = Cardinality(G) - 1
BY FS_AddElement, FS_RemoveElement

\* What IInv says of the counters, as facts about the groups.
LEMMA CounterFacts ==
    ASSUME IInv
    PROVE  /\ IsFiniteSet(Readers) /\ IsFiniteSet(Writers) /\ IsFiniteSet(Wanting)
           /\ reads = 0 <=> Readers = {}
           /\ writes = 0 <=> Writers = {}
           /\ wwrites = 0 <=> Wanting = {}
BY GroupFinite DEF IInv, CountersExact, Readers, Writers, Wanting

-----------------------------------------------------------------------------
(* Every action preserves IInv.                                            *)

LEMMA InitIInv == Init => IInv
<1> SUFFICES ASSUME Init PROVE IInv
  OBVIOUS
<1>1. \A S : "idle" \notin S => At(S) = {}
  BY DEF Init, At
<1>2. Readers = {} /\ Writers = {} /\ Wanting = {} /\ At({"rwait"}) = {}
  BY <1>1 DEF Readers, Writers, Wanting
<1>3. CountersExact
  BY <1>2, FS_EmptySet DEF CountersExact, Init
<1>4. TypeOK
  BY DEF TypeOK, Init, PC
<1>5. Exclusion
  BY <1>2 DEF Exclusion
<1>6. NoLostWakeup
  BY <1>2 DEF NoLostWakeup, Init
<1> QED
  BY <1>3, <1>4, <1>5, <1>6 DEF IInv

\* readLock, first test or test after a wake-up.
LEMMA TryReadStep ==
    ASSUME IInv, NEW t \in Thread, pc[t] \in {"idle", "rwoken"}, TryRead(t)
    PROVE  IInv'
<1> USE DEF IInv, TypeOK, PC
<1>1. CASE /\ writes > 0 \/ wwrites > 0
           /\ pc' = [pc EXCEPT ![t] = "rwait"]
           /\ UNCHANGED <<reads, writes, wwrites>>
  <2>1. Readers' = Readers /\ Writers' = Writers /\ Wanting' = Wanting
    BY <1>1 DEF Readers, Writers, Wanting, At
  <2>2. At({"wwoken"})' = At({"wwoken"})
    BY <1>1 DEF At
  <2> QED
    BY <1>1, <2>1, <2>2 DEF Exclusion, CountersExact, NoLostWakeup
<1>2. CASE /\ writes = 0 /\ wwrites = 0
           /\ reads' = reads + 1
           /\ pc' = [pc EXCEPT ![t] = "reading"]
           /\ UNCHANGED <<writes, wwrites>>
  <2>1. /\ Readers' = Readers \cup {t} /\ t \notin Readers
        /\ Writers' = Writers /\ Wanting' = Wanting
    BY <1>2 DEF Readers, Writers, Wanting, At
  <2>2. At({"rwait"})' \subseteq At({"rwait"})
    BY <1>2 DEF At
  <2>3. CountersExact'
    BY <1>2, <2>1, CounterFacts, CountMoves DEF CountersExact
  <2>4. Exclusion'
    BY <1>2, <2>1, CounterFacts DEF Exclusion
  <2>5. NoLostWakeup'
    BY <1>2, <2>2 DEF NoLostWakeup
  <2> QED
    BY <1>2, <2>3, <2>4, <2>5
<1> QED
  BY <1>1, <1>2 DEF TryRead

\* writeLock, first test: the caller counts itself in wwrites and sleeps,
\* or becomes the writer.
LEMMA WriteLockStep ==
    ASSUME IInv, NEW t \in Thread, WriteLock(t)
    PROVE  IInv'
<1> USE DEF IInv, TypeOK, PC
<1>0. pc[t] = "idle" /\ TryWrite(t, wwrites + 1)
  BY DEF WriteLock
<1>1. CASE /\ reads > 0 \/ writes > 0
           /\ wwrites' = wwrites + 1
           /\ pc' = [pc EXCEPT ![t] = "wwait"]
           /\ UNCHANGED <<reads, writes>>
  <2>1. /\ Readers' = Readers /\ Writers' = Writers
        /\ Wanting' = Wanting \cup {t} /\ t \notin Wanting
    BY <1>0, <1>1 DEF Readers, Writers, Wanting, At
  <2>2. CountersExact'
    BY <1>1, <2>1, CounterFacts, CountMoves DEF CountersExact
  <2>3. Exclusion'
    BY <2>1 DEF Exclusion
  <2>4. NoLostWakeup'
    BY <1>1 DEF NoLostWakeup
  <2> QED
    BY <1>1, <2>2, <2>3, <2>4
<1>2. CASE /\ reads = 0 /\ writes = 0
           /\ wwrites' = (wwrites + 1) - 1
           /\ writes' = writes + 1
           /\ pc' = [pc EXCEPT ![t] = "writing"]
           /\ UNCHANGED reads
  <2>1. /\ Readers' = Readers /\ Wanting' = Wanting
        /\ Writers' = Writers \cup {t} /\ t \notin Writers
    BY <1>0, <1>2 DEF Readers, Writers, Wanting, At
  <2>2. wwrites' = wwrites
    BY <1>2
  <2>3. CountersExact'
    BY <1>2, <2>1, <2>2, CounterFacts, CountMoves DEF CountersExact
  <2>4. Exclusion'
    BY <1>2, <2>1, CounterFacts DEF Exclusion
  <2>5. NoLostWakeup'
    BY <1>2 DEF NoLostWakeup
  <2> QED
    BY <1>2, <2>2, <2>3, <2>4, <2>5
<1> QED
  BY <1>0, <1>1, <1>2 DEF TryWrite

\* writeLock, test after a wake-up: the thread is counted already.
LEMMA WriteWakesStep ==
    ASSUME IInv, NEW t \in Thread, WriteWakes(t)
    PROVE  IInv'
<1> USE DEF IInv, TypeOK, PC
<1>0. pc[t] = "wwoken" /\ TryWrite(t, wwrites)
  BY DEF WriteWakes
<1>1. CASE /\ reads > 0 \/ writes > 0
           /\ wwrites' = wwrites
           /\ pc' = [pc EXCEPT ![t] = "wwait"]
           /\ UNCHANGED <<reads, writes>>
  <2>1. Readers' = Readers /\ Writers' = Writers /\ Wanting' = Wanting
    BY <1>0, <1>1 DEF Readers, Writers, Wanting, At
  <2>2. At({"rwait"})' = At({"rwait"})
    BY <1>0, <1>1 DEF At
  <2> QED
    BY <1>1, <2>1, <2>2 DEF Exclusion, CountersExact, NoLostWakeup
<1>2. CASE /\ reads = 0 /\ writes = 0
           /\ wwrites' = wwrites - 1
           /\ writes' = writes + 1
           /\ pc' = [pc EXCEPT ![t] = "writing"]
           /\ UNCHANGED reads
  <2>1. /\ Readers' = Readers
        /\ Wanting' = Wanting \ {t} /\ t \in Wanting
        /\ Writers' = Writers \cup {t} /\ t \notin Writers
    BY <1>0, <1>2 DEF Readers, Writers, Wanting, At
  <2>2. wwrites' \in Nat
    BY <1>2, <2>1, CounterFacts
  <2>3. CountersExact'
    BY <1>2, <2>1, CounterFacts, CountMoves DEF CountersExact
  <2>4. Exclusion'
    BY <1>2, <2>1, CounterFacts DEF Exclusion
  <2>5. NoLostWakeup'
    BY <1>2 DEF NoLostWakeup
  <2> QED
    BY <1>2, <2>2, <2>3, <2>4, <2>5
<1> QED
  BY <1>0, <1>1, <1>2 DEF TryWrite

\* pthread_cond_signal on write: it moves at most one sleeping writer, which
\* stays in Wanting, and leaves a woken writer behind if there is any writer.
LEMMA SignalWriteEffect ==
    ASSUME NEW f \in [Thread -> PC], SignalWrite(f)
    PROVE  /\ pc' \in [Thread -> PC]
           /\ Readers' = {u \in Thread : f[u] = "reading"}
           /\ Writers' = {u \in Thread : f[u] = "writing"}
           /\ Wanting' = {u \in Thread : f[u] \in {"wwait", "wwoken"}}
           /\ At({"rwait"})' = {u \in Thread : f[u] = "rwait"}
           /\ Wanting' # {} => At({"wwoken"})' # {}
<1> USE DEF PC, At, Readers, Writers, Wanting
<1>1. CASE \E u \in Thread : f[u] = "wwait" /\ pc' = [f EXCEPT ![u] = "wwoken"]
  BY <1>1
<1>2. CASE (\A u \in Thread : f[u] # "wwait") /\ pc' = f
  BY <1>2
<1> QED
  BY <1>1, <1>2 DEF SignalWrite

\* leaveRead: the last reader wakes a writer.
LEMMA LeaveReadStep ==
    ASSUME IInv, NEW t \in Thread, LeaveRead(t)
    PROVE  IInv'
<1> USE DEF IInv, TypeOK
<1> DEFINE f == [pc EXCEPT ![t] = "idle"]
<1>1. /\ pc[t] = "reading" /\ reads' = reads - 1
      /\ writes' = writes /\ wwrites' = wwrites
      /\ \/ reads = 1 /\ wwrites > 0 /\ SignalWrite(f)
         \/ ~(reads = 1 /\ wwrites > 0) /\ pc' = f
  BY DEF LeaveRead
<1>2. f \in [Thread -> PC]
  BY DEF PC
<1>3. t \in Readers /\ reads' \in Nat
  BY <1>1, CounterFacts DEF Readers, At
<1>4. /\ pc' \in [Thread -> PC]
      /\ Readers' = Readers \ {t} /\ Writers' = Writers
      /\ Wanting' = Wanting /\ At({"rwait"})' = At({"rwait"})
  <2> HIDE DEF f
  <2>1. /\ {u \in Thread : f[u] = "reading"} = Readers \ {t}
        /\ {u \in Thread : f[u] = "writing"} = Writers
        /\ {u \in Thread : f[u] \in {"wwait", "wwoken"}} = Wanting
        /\ {u \in Thread : f[u] = "rwait"} = At({"rwait"})
    BY <1>1 DEF f, Readers, Writers, Wanting, At
  <2>2. CASE SignalWrite(f)
    BY <1>2, <2>1, <2>2, SignalWriteEffect
  <2>3. CASE pc' = f
    BY <1>2, <2>1, <2>3 DEF Readers, Writers, Wanting, At
  <2> QED
    BY <1>1, <2>2, <2>3
<1>5. CountersExact'
  BY <1>1, <1>3, <1>4, CounterFacts, CountMoves DEF CountersExact
<1>6. Exclusion'
  BY <1>4 DEF Exclusion
<1>7. NoLostWakeup'
  <2>1. ASSUME reads' = 0, wwrites' > 0
        PROVE  At({"wwoken"})' # {}
    <3>1. SignalWrite(f)
      BY <1>1, <2>1
    <3>2. Wanting' # {}
      BY <1>1, <1>4, <2>1, CounterFacts
    <3> QED
      BY <1>2, <3>1, <3>2, SignalWriteEffect
  <2> QED
    BY <1>1, <1>4, <2>1 DEF NoLostWakeup
<1> QED
  BY <1>1, <1>3, <1>4, <1>5, <1>6, <1>7

\* leaveWrite: another writer if one is waiting, otherwise all the readers.
LEMMA LeaveWriteStep ==
    ASSUME IInv, NEW t \in Thread, LeaveWrite(t)
    PROVE  IInv'
<1> USE DEF IInv, TypeOK
<1> DEFINE f == [pc EXCEPT ![t] = "idle"]
<1>1. /\ pc[t] = "writing" /\ writes' = writes - 1
      /\ reads' = reads /\ wwrites' = wwrites
      /\ \/ wwrites > 0 /\ SignalWrite(f)
         \/ wwrites = 0 /\ BroadcastRead(f)
  BY DEF LeaveWrite
<1>2. f \in [Thread -> PC]
  BY DEF PC
<1>3. t \in Writers /\ writes' \in Nat
  BY <1>1, CounterFacts DEF Writers, At
<1>4. /\ pc' \in [Thread -> PC]
      /\ Readers' = Readers /\ Writers' = Writers \ {t} /\ Wanting' = Wanting
  <2> HIDE DEF f
  <2>1. /\ {u \in Thread : f[u] = "reading"} = Readers
        /\ {u \in Thread : f[u] = "writing"} = Writers \ {t}
        /\ {u \in Thread : f[u] \in {"wwait", "wwoken"}} = Wanting
    BY <1>1 DEF f, Readers, Writers, Wanting, At
  <2>2. CASE SignalWrite(f)
    BY <1>2, <2>1, <2>2, SignalWriteEffect
  <2>3. CASE BroadcastRead(f)
    BY <1>2, <2>1, <2>3 DEF BroadcastRead, Readers, Writers, Wanting, At, PC
  <2> QED
    BY <1>1, <2>2, <2>3
<1>5. CountersExact'
  BY <1>1, <1>3, <1>4, CounterFacts, CountMoves DEF CountersExact
<1>6. Exclusion'
  BY <1>4 DEF Exclusion
<1>7. NoLostWakeup'
  <2>1. CASE wwrites > 0
    <3>1. SignalWrite(f)
      BY <1>1, <2>1
    <3>2. Wanting' # {}
      BY <1>4, <2>1, CounterFacts
    <3>3. At({"wwoken"})' # {}
      BY <1>2, <3>1, <3>2, SignalWriteEffect
    <3> QED
      BY <1>1, <2>1, <3>3 DEF NoLostWakeup
  <2>2. CASE wwrites = 0
    <3>1. At({"rwait"})' = {}
      BY <1>1, <2>2 DEF BroadcastRead, At
    <3> QED
      BY <1>1, <2>2, <3>1 DEF NoLostWakeup
  <2> QED
    BY <2>1, <2>2
<1> QED
  BY <1>1, <1>3, <1>4, <1>5, <1>6, <1>7

\* A wake-up without a signal changes no group that a counter stands for.
LEMMA SpuriousWakeStep ==
    ASSUME IInv, NEW t \in Thread, SpuriousWake(t)
    PROVE  IInv'
<1> USE DEF IInv, TypeOK, PC
<1>1. /\ \/ pc[t] = "rwait" /\ pc' = [pc EXCEPT ![t] = "rwoken"]
         \/ pc[t] = "wwait" /\ pc' = [pc EXCEPT ![t] = "wwoken"]
      /\ UNCHANGED <<reads, writes, wwrites>>
  BY DEF SpuriousWake
<1>2. Readers' = Readers /\ Writers' = Writers /\ Wanting' = Wanting
  BY <1>1 DEF Readers, Writers, Wanting, At
<1>3. At({"rwait"})' \subseteq At({"rwait"}) /\ At({"wwoken"}) \subseteq At({"wwoken"})'
  BY <1>1 DEF At
<1> QED
  BY <1>1, <1>2, <1>3 DEF Exclusion, CountersExact, NoLostWakeup

LEMMA NextIInv == IInv /\ [Next]_vars => IInv'
<1> SUFFICES ASSUME IInv, [Next]_vars PROVE IInv'
  OBVIOUS
<1>1. CASE Next
  <2> SUFFICES ASSUME NEW t \in Thread,
                      \/ Call(t)
                      \/ ReadWakes(t) \/ WriteWakes(t) \/ SpuriousWake(t)
                      \/ LeaveRead(t) \/ LeaveWrite(t)
               PROVE  IInv'
    BY <1>1 DEF Next
  <2>1. CASE ReadLock(t) \/ ReadWakes(t)
    BY <2>1, TryReadStep DEF ReadLock, ReadWakes
  <2>2. CASE WriteLock(t)
    BY <2>2, WriteLockStep
  <2>3. CASE WriteWakes(t)
    BY <2>3, WriteWakesStep
  <2>4. CASE SpuriousWake(t)
    BY <2>4, SpuriousWakeStep
  <2>5. CASE LeaveRead(t)
    BY <2>5, LeaveReadStep
  <2>6. CASE LeaveWrite(t)
    BY <2>6, LeaveWriteStep
  <2> QED
    BY <2>1, <2>2, <2>3, <2>4, <2>5, <2>6 DEF Call
<1>2. CASE UNCHANGED vars
  BY <1>2 DEF vars, IInv, TypeOK, Exclusion, CountersExact, NoLostWakeup,
              Readers, Writers, Wanting, At
<1> QED
  BY <1>1, <1>2

\* The four invariants hold together in every reachable state.
THEOREM Invariance == Spec => []IInv
BY InitIInv, NextIInv, PTL DEF Spec

\* Type correctness; in particular no counter ever drops below zero.
THEOREM TypeCorrect == Spec => []TypeOK
<1>1. IInv => TypeOK
  BY DEF IInv
<1> QED
  BY <1>1, Invariance, PTL

\* Whatever the number of threads, a writer is alone in the lock.
THEOREM MutualExclusion == Spec => []Exclusion
<1>1. IInv => Exclusion
  BY DEF IInv
<1> QED
  BY <1>1, Invariance, PTL

\* The counters of the code are exact, woken writers included.
THEOREM ExactCounters == Spec => []CountersExact
<1>1. IInv => CountersExact
  BY DEF IInv
<1> QED
  BY <1>1, Invariance, PTL

\* No interleaving of signals, broadcasts and spurious wake-ups leaves every
\* waiting thread asleep in front of a free lock.
THEOREM WakeupsNotLost == Spec => []NoLostWakeup
<1>1. IInv => NoLostWakeup
  BY DEF IInv
<1> QED
  BY <1>1, Invariance, PTL

-----------------------------------------------------------------------------
(* locks.c keeps the promise of locks.h.                                   *)

LEMMA GroupsOf ==
    ASSUME NEW t \in Thread
    PROVE  /\ t \in Readers <=> pc[t] = "reading"
           /\ t \in Writers <=> pc[t] = "writing"
           /\ t \in Wanting <=> pc[t] \in {"wwait", "wwoken"}
BY DEF Readers, Writers, Wanting, At

\* A step that moves no thread between the three groups is a stutter of the
\* abstract lock.
LEMMA Stutters ==
    ASSUME Readers' = Readers, Writers' = Writers, Wanting' = Wanting
    PROVE  UNCHANGED Promise!vars
BY DEF Promise!vars

LEMMA ReadRefines ==
    ASSUME IInv, NEW t \in Thread, pc[t] \in {"idle", "rwoken"}, TryRead(t)
    PROVE  Promise!StartRead(t) \/ UNCHANGED Promise!vars
<1> USE DEF IInv, TypeOK, PC
<1>1. CASE pc' = [pc EXCEPT ![t] = "rwait"]
  <2>1. Readers' = Readers /\ Writers' = Writers /\ Wanting' = Wanting
    BY <1>1 DEF Readers, Writers, Wanting, At
  <2> QED
    BY <2>1, Stutters
<1>2. CASE writes = 0 /\ wwrites = 0 /\ pc' = [pc EXCEPT ![t] = "reading"]
  <2>1. Readers' = Readers \cup {t} /\ Writers' = Writers /\ Wanting' = Wanting
    BY <1>2 DEF Readers, Writers, Wanting, At
  <2>2. Writers = {} /\ Wanting = {} /\ t \notin Readers
    BY <1>2, CounterFacts, GroupsOf
  <2> QED
    BY <2>1, <2>2 DEF Promise!StartRead, Promise!Outside
<1> QED
  BY <1>1, <1>2 DEF TryRead

LEMMA WriteRefines ==
    ASSUME IInv, NEW t \in Thread, WriteLock(t) \/ WriteWakes(t)
    PROVE  \/ Promise!WantWrite(t) \/ Promise!StartWrite(t)
           \/ UNCHANGED Promise!vars
<1> USE DEF IInv, TypeOK, PC
<1>1. CASE pc[t] = "idle" /\ pc' = [pc EXCEPT ![t] = "wwait"]
  <2>1. Readers' = Readers /\ Writers' = Writers /\ Wanting' = Wanting \cup {t}
    BY <1>1 DEF Readers, Writers, Wanting, At
  <2>2. Promise!Outside(t)
    BY <1>1, GroupsOf DEF Promise!Outside
  <2> QED
    BY <2>1, <2>2 DEF Promise!WantWrite
<1>2. CASE pc[t] = "wwoken" /\ pc' = [pc EXCEPT ![t] = "wwait"]
  <2>1. Readers' = Readers /\ Writers' = Writers /\ Wanting' = Wanting
    BY <1>2 DEF Readers, Writers, Wanting, At
  <2> QED
    BY <2>1, Stutters
<1>3. CASE /\ pc[t] \in {"idle", "wwoken"}
           /\ reads = 0 /\ writes = 0
           /\ pc' = [pc EXCEPT ![t] = "writing"]
  <2>1. /\ Readers' = Readers
        /\ Writers' = Writers \cup {t}
        /\ Wanting' = Wanting \ {t}
    BY <1>3 DEF Readers, Writers, Wanting, At
  <2>2. Readers = {} /\ Writers = {}
    BY <1>3, CounterFacts
  <2>3. Promise!Outside(t) \/ t \in Wanting
    BY <1>3, GroupsOf DEF Promise!Outside
  <2> QED
    BY <2>1, <2>2, <2>3 DEF Promise!StartWrite
<1> QED
  BY <1>1, <1>2, <1>3 DEF WriteLock, WriteWakes, TryWrite

LEMMA LeaveRefines ==
    ASSUME IInv, NEW t \in Thread, LeaveRead(t) \/ LeaveWrite(t)
    PROVE  Promise!EndRead(t) \/ Promise!EndWrite(t)
<1> USE DEF IInv, TypeOK
<1> DEFINE f == [pc EXCEPT ![t] = "idle"]
<1>1. f \in [Thread -> PC]
  BY DEF PC
<1>2. /\ {u \in Thread : f[u] = "reading"} = Readers \ {t}
      /\ {u \in Thread : f[u] = "writing"} = Writers \ {t}
      /\ {u \in Thread : f[u] \in {"wwait", "wwoken"}} = Wanting
  BY DEF LeaveRead, LeaveWrite, Readers, Writers, Wanting, At
<1>3. SignalWrite(f) \/ BroadcastRead(f) \/ pc' = f
  BY DEF LeaveRead, LeaveWrite
<1>4. /\ Readers' = Readers \ {t}
      /\ Writers' = Writers \ {t}
      /\ Wanting' = Wanting
  <2> HIDE DEF f
  <2>1. CASE SignalWrite(f)
    BY <1>1, <1>2, <2>1, SignalWriteEffect
  <2>2. CASE BroadcastRead(f)
    BY <1>1, <1>2, <2>2 DEF BroadcastRead, Readers, Writers, Wanting, At, PC
  <2>3. CASE pc' = f
    BY <1>2, <2>3 DEF Readers, Writers, Wanting, At
  <2> QED
    BY <1>3, <2>1, <2>2, <2>3
<1>5. CASE LeaveRead(t)
  <2>1. t \in Readers /\ t \notin Writers
    BY <1>5, GroupsOf DEF LeaveRead
  <2> QED
    BY <1>4, <2>1 DEF Promise!EndRead
<1>6. CASE LeaveWrite(t)
  <2>1. t \in Writers /\ t \notin Readers
    BY <1>6, GroupsOf DEF LeaveWrite
  <2> QED
    BY <1>4, <2>1 DEF Promise!EndWrite
<1> QED
  BY <1>5, <1>6

LEMMA NextRefines == IInv /\ [Next]_vars => [Promise!Next]_(Promise!vars)
<1> SUFFICES ASSUME IInv, [Next]_vars PROVE [Promise!Next]_(Promise!vars)
  OBVIOUS
<1>1. CASE UNCHANGED vars
  <2>1. Readers' = Readers /\ Writers' = Writers /\ Wanting' = Wanting
    BY <1>1 DEF vars, Readers, Writers, Wanting, At
  <2> QED
    BY <2>1, Stutters
<1>2. CASE Next
  <2> SUFFICES ASSUME NEW t \in Thread,
                      \/ Call(t)
                      \/ ReadWakes(t) \/ WriteWakes(t) \/ SpuriousWake(t)
                      \/ LeaveRead(t) \/ LeaveWrite(t)
               PROVE  [Promise!Next]_(Promise!vars)
    BY <1>2 DEF Next
  <2>1. CASE ReadLock(t) \/ ReadWakes(t)
    BY <2>1, ReadRefines DEF ReadLock, ReadWakes, Promise!Next
  <2>2. CASE WriteLock(t) \/ WriteWakes(t)
    BY <2>2, WriteRefines DEF Promise!Next
  <2>3. CASE LeaveRead(t) \/ LeaveWrite(t)
    BY <2>3, LeaveRefines DEF Promise!Next
  <2>4. CASE SpuriousWake(t)
    <3>1. Readers' = Readers /\ Writers' = Writers /\ Wanting' = Wanting
      BY <2>4 DEF SpuriousWake, Readers, Writers, Wanting, At, IInv, TypeOK, PC
    <3> QED
      BY <3>1, Stutters
  <2> QED
    BY <2>1, <2>2, <2>3, <2>4 DEF Call
<1> QED
  BY <1>1, <1>2

LEMMA InitRefines == Init => Promise!Init
<1> SUFFICES ASSUME Init PROVE Promise!Init
  OBVIOUS
<1>1. Readers = {} /\ Writers = {} /\ Wanting = {}
  BY DEF Init, Readers, Writers, Wanting, At
<1> QED
  BY <1>1 DEF Promise!Init

\* Every behaviour of locks.c, seen through Readers, Writers and Wanting, is
\* a behaviour of the lock that locks.h describes.
THEOREM Refinement == Spec => ImplementsPromise
BY InitRefines, NextRefines, Invariance, PTL
   DEF Spec, ImplementsPromise, Promise!Spec
=============================================================================
