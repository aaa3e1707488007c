-------------------------- MODULE Shutdown_proofs --------------------------
(***************************************************************************)
(* Theorems about Shutdown for any number of handler threads.              *)
(***************************************************************************)
EXTENDS Shutdown, FiniteSetTheorems, SequenceTheorems, TLAPS

Listed == {list[i] : i \in DOMAIN list}

Typed ==
    /\ main \in {"accept", "link", "table", "stuck", "cancel", "join", "exit", "ended"}
    /\ list \in Seq(Thread)
    /\ pc \in [Thread -> {"none", "receive", "send", "close", "stuck", "gone"}
                           \cup InStats \cup InTable]
    /\ next \in [Thread -> {"receive", "invoke", "send", "close", "gone"}]

\* Every thread was put in the list, but the one that was just created. Once
\* stop_server runs no thread is created, and only ended ones leave the list.
OneUnlisted ==
    /\ main = "accept" => \A t \in Thread : pc[t] # "none" => t \in Listed
    /\ main = "link" => \A t, u \in Thread :
            (pc[t] # "none" /\ pc[u] # "none" /\ t \notin Listed /\ u \notin Listed)
                => t = u
    /\ \A t, u \in Thread :
            Runs(t) /\ Runs(u) /\ t \notin Listed /\ u \notin Listed => t = u

FreedLast == statsFreed => main \in {"exit", "ended"} /\ list = <<>>

IInv == Typed /\ OneUnlisted /\ FreedLast

LEMMA InitInv == Init => IInv
BY DEF Init, IInv, Typed, OneUnlisted, FreedLast, Listed, Runs

\* A handler starts no thread and links none.
LEMMA HandleKeeps ==
    ASSUME Typed, NEW t \in Thread, Handle(t)
    PROVE  /\ UNCHANGED mainVars /\ Typed'
           /\ \A u \in Thread : /\ pc'[u] = "none" <=> pc[u] = "none"
                                /\ Runs(u)' => Runs(u)
<1> USE DEF Typed, Runs, mainVars, statsVars, tableVars, Goto, GoesOn, InStats, InTable,
        Reads, Writes, Waits
<1>1. CASE StatsLock(t)
  BY <1>1 DEF StatsLock
<1>2. CASE StatsWakes(t)
  BY <1>2 DEF StatsWakes
<1>3. CASE StatsLeave(t)
  <2> DEFINE after == [pc EXCEPT ![t] = next[t]]
  <2>1. /\ UNCHANGED mainVars /\ next' = [next EXCEPT ![t] = "receive"]
        /\ pc[t] = "update"
    BY <1>3 DEF StatsLeave
  <2>2. CASE pc' = after
    BY <2>1, <2>2
  <2>3. ASSUME NEW u \in Thread, pc[u] = "wait", pc' = [after EXCEPT ![u] = "woken"]
        PROVE  /\ Typed'
               /\ \A v \in Thread : /\ pc'[v] = "none" <=> pc[v] = "none"
                                    /\ Runs(v)' => Runs(v)
    BY <2>1, <2>3
  <2> QED
    BY <1>3, <2>1, <2>2, <2>3 DEF StatsLeave
<1>4. CASE Receive(t)
  BY <1>4 DEF Receive
<1>5. CASE Invoke(t)
  BY <1>5 DEF Invoke, Invoked
<1>6. CASE Send(t)
  BY <1>6 DEF Send
<1>7. CASE Close(t)
  BY <1>7 DEF Close
<1>8. CASE Cancelled(t)
  BY <1>8 DEF Cancelled
<1>9. CASE TableLock(t)
  BY <1>9 DEF TableLock
<1>10. CASE Forwarded(t)
  BY <1>10 DEF Forwarded
<1>11. CASE TableLeave(t)
  BY <1>11 DEF TableLeave, Invoked
<1>12. CASE StaysInFreed(t)
  BY <1>12 DEF StaysInFreed
<1> QED
  BY <1>1, <1>2, <1>3, <1>4, <1>5, <1>6, <1>7, <1>8, <1>9, <1>10, <1>11, <1>12 DEF Handle

LEMMA StepInv == IInv /\ [Next]_vars => IInv'
<1> SUFFICES ASSUME IInv, [Next]_vars PROVE IInv'
  OBVIOUS
<1> USE DEF IInv, Typed, OneUnlisted, FreedLast
<1>1. ASSUME NEW t \in Thread, Accept(t) PROVE IInv'
  BY <1>1 DEF Accept, Goto, mainOnly, Listed, Runs, InStats
<1>2. ASSUME NEW t \in Thread, Handle(t) PROVE IInv'
  <2>1. Listed' = Listed /\ main' = main /\ statsFreed' = statsFreed /\ list' = list
    BY <1>2, HandleKeeps DEF mainVars, Listed
  <2>2. /\ Typed'
        /\ \A u \in Thread : /\ pc'[u] = "none" <=> pc[u] = "none"
                             /\ Runs(u)' => Runs(u)
    BY <1>2, HandleKeeps
  <2> QED
    BY <2>1, <2>2
<1>3. CASE SIGINT
  BY <1>3 DEF SIGINT, Stopping, mainOnly, Listed, Runs
<1>4. CASE Link
  <2>1. PICK t \in Thread : pc[t] # "none" /\ t \notin Listed /\ list' = <<t>> \o list
    BY <1>4 DEF Link, Listed
  <2>2. list' \in Seq(Thread)
    BY <2>1
  <2>3. Listed' = Listed \cup {t}
    <3> DEFINE one == <<t>>
    <3>1. one \in Seq(Thread) /\ Len(one) = 1 /\ one[1] = t
      OBVIOUS
    <3> HIDE DEF one
    <3>2. /\ Len(one \o list) = 1 + Len(list) /\ one \o list \in Seq(Thread)
          /\ \A i \in 1..(1 + Len(list)) :
                (one \o list)[i] = IF i <= 1 THEN one[i] ELSE list[i - 1]
      <4>1. /\ Len(one \o list) = Len(one) + Len(list) /\ one \o list \in Seq(Thread)
            /\ \A i \in 1..(Len(one) + Len(list)) : (one \o list)[i] =
                  IF i <= Len(one) THEN one[i] ELSE list[i - Len(one)]
        BY <3>1, ConcatProperties
      <4> QED
        BY <3>1, <4>1
    <3>3. Len(list) \in Nat /\ DOMAIN list = 1..Len(list)
      BY LenProperties
    <3>4. list' = one \o list
      BY <2>1 DEF one
    <3>5. DOMAIN list' = 1..(1 + Len(list))
      BY <3>2, <3>3, <3>4, LenProperties
    <3>6. \A i \in DOMAIN list : list'[i + 1] = list[i] /\ i + 1 \in DOMAIN list'
      BY <3>2, <3>3, <3>4, <3>5
    <3>7. list'[1] = t /\ 1 \in DOMAIN list'
      BY <3>1, <3>2, <3>3, <3>4, <3>5
    <3>8. \A i \in DOMAIN list' : list'[i] = t \/ (i - 1 \in DOMAIN list /\ list'[i] = list[i - 1])
      BY <3>1, <3>2, <3>3, <3>4, <3>5
    <3> QED
      BY <3>6, <3>7, <3>8 DEF Listed
  <2>4. main = "link" /\ main' = "accept" /\ UNCHANGED <<pc, next, statsFreed>>
    BY <1>4 DEF Link, mainOnly
  <2>5. \A u \in Thread : Runs(u) => pc[u] # "none"
    BY DEF Runs
  <2> QED
    BY <2>1, <2>2, <2>3, <2>4, <2>5 DEF Runs
<1>5. CASE table_skel_destroy
  BY <1>5 DEF table_skel_destroy, mainOnly, Listed, Runs
<1>6. CASE Cancel
  BY <1>6 DEF Cancel, mainOnly, Listed, Runs
<1>7. CASE Join
  <2>1. /\ main = "join" /\ ~Runs(Head(list)) /\ list' = Tail(list)
        /\ main' = "cancel" /\ UNCHANGED <<pc, next, statsFreed>>
    BY <1>7 DEF Join, mainOnly
  <2>2. CASE list = <<>>
    BY <2>1, <2>2 DEF Listed, Runs
  <2>3. CASE list # <<>>
    <3>1. /\ Len(list) \in Nat /\ DOMAIN list = 1..Len(list)
          /\ Tail(list) \in Seq(Thread) /\ Len(Tail(list)) = Len(list) - 1
          /\ \A i \in 1..(Len(list) - 1) : Tail(list)[i] = list[i + 1]
          /\ Head(list) = list[1]
      BY <2>3, HeadTailProperties, LenProperties
    <3>2. ASSUME NEW u \in Listed, Runs(u) PROVE u \in Listed'
      <4>1. PICK i \in 1..Len(list) : list[i] = u
        BY <3>1 DEF Listed
      <4>2. i - 1 \in 1..(Len(list) - 1)
        BY <2>1, <3>1, <3>2, <4>1
      <4>3. Tail(list)[i - 1] = u /\ i - 1 \in DOMAIN Tail(list)
        BY <3>1, <4>1, <4>2
      <4> QED
        BY <2>1, <4>3 DEF Listed
    <3>3. \A u \in Thread : Runs(u)' <=> Runs(u)
      BY <2>1 DEF Runs
    <3> QED
      BY <2>1, <3>1, <3>2, <3>3
  <2> QED
    BY <2>2, <2>3
<1>8. CASE destroy_statistics
  BY <1>8 DEF destroy_statistics, mainOnly, Listed, Runs
<1>9. CASE Exit
  BY <1>9 DEF Exit, mainOnly, Listed, Runs
<1>10. CASE Crash
  BY <1>10 DEF Crash, Ended, mainOnly, Listed, Runs
<1>11. CASE UNCHANGED vars
  BY <1>11 DEF vars, mainVars, Listed, Runs
<1> QED
  BY <1>1, <1>2, <1>3, <1>4, <1>5, <1>6, <1>7, <1>8, <1>9, <1>10, <1>11 DEF Next, Stop

LEMMA Invariance == Spec => []IInv
BY InitInv, StepInv, PTL DEF Spec

\* Once the statistics are freed one thread at most may run, whatever the
\* moment of SIGINT and the number of threads.
THEOREM OneLeftRunning == Spec => []OnlyUnlistedRuns
<1>1. ASSUME IInv PROVE OnlyUnlistedRuns
  <2> DEFINE S == {t \in Thread : Runs(t)}
  <2>1. SUFFICES ASSUME statsFreed PROVE Cardinality(S) <= 1
    BY DEF OnlyUnlistedRuns
  <2>2. Listed = {}
    BY <1>1, <2>1 DEF IInv, FreedLast, Listed
  <2>3. \A t, u \in S : t = u
    BY <1>1, <2>2 DEF IInv, OneUnlisted
  <2>4. CASE S = {}
    BY <2>4, FS_EmptySet
  <2>5. ASSUME NEW t \in S PROVE Cardinality(S) <= 1
    <3>1. S = {t}
      BY <2>3, <2>5
    <3>2. Cardinality({t}) = 1
      BY FS_Singleton
    <3> HIDE DEF S
    <3> QED
      BY <3>1, <3>2
  <2> QED
    BY <2>4, <2>5
<1> QED
  BY Invariance, <1>1, PTL

-----------------------------------------------------------------------------
(* The counters of the lock of the statistics, and the list.               *)

Updating == {t \in Thread : pc[t] = "update"}
Waiting == {t \in Thread : pc[t] \in {"wait", "woken"}}

Counted ==
    /\ writes = Cardinality(Updating)
    /\ wwrites = Cardinality(Waiting) + (IF abandoned THEN 1 ELSE 0)

NoneTwice == \A i, j \in DOMAIN list : list[i] = list[j] => i = j

LEMMA OneMore ==
    ASSUME NEW S, S \subseteq Thread, NEW t \in Thread
    PROVE  /\ Cardinality(S) \in Nat
           /\ t \notin S => Cardinality(S \cup {t}) = Cardinality(S) + 1
           /\ t \in S => Cardinality(S \ {t}) = Cardinality(S) - 1
BY ShutdownAssumption, FS_Subset, FS_CardinalityType, FS_AddElement, FS_RemoveElement

LEMMA CountedStep ==
    ASSUME Typed, Counted, NEW t \in Thread, Handle(t)
    PROVE  Counted'
<1> USE DEF Typed, Goto, statsVars, GoesOn
<1>0. Updating \subseteq Thread /\ Waiting \subseteq Thread
  BY DEF Updating, Waiting
<1>1. CASE StatsLock(t)
  <2>1. CASE pc' = [pc EXCEPT ![t] = "update"] /\ writes = 0 /\ writes' = 1 /\ wwrites' = wwrites
    <3>1. Updating' = Updating \cup {t} /\ t \notin Updating /\ Waiting' = Waiting
      BY <1>1, <2>1 DEF StatsLock, Updating, Waiting
    <3>2. Cardinality(Updating') = 1
      <4>1. Cardinality(Updating) = 0
        BY <2>1 DEF Counted
      <4>2. Cardinality(Updating \cup {t}) = Cardinality(Updating) + 1
        BY <1>0, <3>1, OneMore
      <4> QED
        BY <3>1, <4>1, <4>2
    <3>3. wwrites' = Cardinality(Waiting') + (IF abandoned' THEN 1 ELSE 0)
      BY <1>1, <2>1, <3>1 DEF Counted, StatsLock
    <3> QED
      BY <2>1, <3>2, <3>3 DEF Counted
  <2>2. CASE pc' = [pc EXCEPT ![t] = "wait"] /\ wwrites' = wwrites + 1 /\ writes' = writes
    <3>1. Waiting' = Waiting \cup {t} /\ t \notin Waiting /\ Updating' = Updating
      BY <1>1, <2>2 DEF StatsLock, Updating, Waiting
    <3> QED
      BY <1>0, <1>1, <2>2, <3>1, OneMore DEF Counted, StatsLock
  <2> QED
    BY <1>1, <2>1, <2>2 DEF StatsLock
<1>2. CASE StatsWakes(t)
  <2>1. CASE /\ pc' = [pc EXCEPT ![t] = "update"] /\ writes = 0 /\ writes' = 1
             /\ wwrites' = wwrites - 1
    <3>1. /\ Updating' = Updating \cup {t} /\ t \notin Updating
          /\ Waiting' = Waiting \ {t} /\ t \in Waiting
      BY <1>2, <2>1 DEF StatsWakes, Updating, Waiting
    <3>2. Cardinality(Updating') = 1
      <4>1. Cardinality(Updating) = 0
        BY <2>1 DEF Counted
      <4>2. Cardinality(Updating \cup {t}) = Cardinality(Updating) + 1
        BY <1>0, <3>1, OneMore
      <4> QED
        BY <3>1, <4>1, <4>2
    <3>3. Cardinality(Waiting') = Cardinality(Waiting) - 1 /\ Cardinality(Waiting) \in Nat
      BY <1>0, <3>1, OneMore
    <3>4. wwrites' = Cardinality(Waiting') + (IF abandoned' THEN 1 ELSE 0)
      BY <1>2, <2>1, <3>3 DEF Counted, StatsWakes
    <3> QED
      BY <2>1, <3>2, <3>4 DEF Counted
  <2>2. CASE pc' = [pc EXCEPT ![t] = "wait"] /\ UNCHANGED <<writes, wwrites>>
    <3>1. Waiting' = Waiting /\ Updating' = Updating
      BY <1>2, <2>2 DEF StatsWakes, Updating, Waiting
    <3> QED
      BY <1>2, <2>2, <3>1 DEF Counted, StatsWakes
  <2> QED
    BY <1>2, <2>1, <2>2 DEF StatsWakes
<1>3. CASE StatsLeave(t)
  <2> DEFINE after == [pc EXCEPT ![t] = next[t]]
  <2>1. /\ pc[t] = "update" /\ writes' = writes - 1 /\ UNCHANGED <<wwrites, abandoned>>
        /\ next[t] \in {"receive", "invoke", "send", "close", "gone"}
    BY <1>3 DEF StatsLeave
  <2>2. Updating' = Updating \ {t} /\ t \in Updating /\ Waiting' = Waiting
    <3>1. CASE pc' = after
      BY <2>1, <3>1 DEF Updating, Waiting
    <3>2. ASSUME NEW u \in Thread, pc[u] = "wait", pc' = [after EXCEPT ![u] = "woken"]
          PROVE  Updating' = Updating \ {t} /\ t \in Updating /\ Waiting' = Waiting
      <4>1. /\ u # t /\ pc'[u] = "woken" /\ pc'[t] = next[t]
            /\ \A v \in Thread : v # t /\ v # u => pc'[v] = pc[v]
        BY <2>1, <3>2
      <4> QED
        BY <2>1, <3>2, <4>1 DEF Updating, Waiting
    <3> QED
      BY <1>3, <3>1, <3>2 DEF StatsLeave
  <2> QED
    BY <1>0, <2>1, <2>2, OneMore DEF Counted
<1>4. CASE \/ Receive(t) \/ TableLock(t) \/ Invoke(t) \/ Forwarded(t) \/ TableLeave(t)
           \/ Send(t) \/ Close(t) \/ StaysInFreed(t)
  <2>1. /\ UNCHANGED statsVars
        /\ pc[t] \notin {"update", "wait", "woken"}
        /\ \E l \in {"lock", "send", "receive", "close", "reading", "wait read", "writing",
                    "wait write", "forward", "leave read", "leave write", "stuck"} :
              pc' = [pc EXCEPT ![t] = l]
    <3>1. CASE Receive(t)
      BY <3>1 DEF Receive
    <3>2. CASE TableLock(t)
      BY <3>2 DEF TableLock
    <3>3. CASE Invoke(t)
      BY <3>3 DEF Invoke, Invoked
    <3>4. CASE Forwarded(t) \/ Send(t) \/ Close(t)
      BY <3>4 DEF Forwarded, Send, Close
    <3>5. CASE TableLeave(t)
      BY <3>5 DEF TableLeave, Invoked
    <3>6. CASE StaysInFreed(t)
      BY <3>6 DEF StaysInFreed, InTable, Reads, Writes, Waits
    <3> QED
      BY <1>4, <3>1, <3>2, <3>3, <3>4, <3>5, <3>6
  <2>2. Updating' = Updating /\ Waiting' = Waiting
    BY <2>1 DEF Updating, Waiting
  <2> QED
    BY <2>1, <2>2 DEF Counted
<1>5. CASE Cancelled(t)
  <2>1. CASE pc[t] \in {"receive", "send", "close", "forward"} \cup Waits /\ UNCHANGED abandoned
    <3>1. Updating' = Updating /\ Waiting' = Waiting
      BY <1>5, <2>1 DEF Cancelled, Updating, Waiting, Waits
    <3> QED
      BY <1>5, <2>1, <3>1 DEF Counted, Cancelled
  <2>2. CASE pc[t] \in {"wait", "woken"} /\ ~abandoned /\ abandoned' = TRUE
    <3>1. Updating' = Updating /\ Waiting' = Waiting \ {t} /\ t \in Waiting
      BY <1>5, <2>2 DEF Cancelled, Updating, Waiting
    <3> QED
      BY <1>0, <1>5, <2>2, <3>1, OneMore DEF Counted, Cancelled
  <2> QED
    BY <1>5, <2>1, <2>2 DEF Cancelled
<1> QED
  BY <1>1, <1>2, <1>3, <1>4, <1>5 DEF Handle

LEMMA ListStep ==
    ASSUME Typed, NoneTwice, Link \/ Join
    PROVE  NoneTwice'
<1>1. Len(list) \in Nat /\ DOMAIN list = 1..Len(list) /\ list \in Seq(Thread)
  BY LenProperties DEF Typed
<1>2. CASE Link
  <2>1. PICK t \in Thread : (\A i \in DOMAIN list : list[i] # t) /\ list' = <<t>> \o list
    BY <1>2 DEF Link
  <2> DEFINE one == <<t>>
  <2>2. one \in Seq(Thread) /\ Len(one) = 1 /\ one[1] = t
    OBVIOUS
  <2> HIDE DEF one
  <2>3. /\ Len(one \o list) = Len(one) + Len(list) /\ one \o list \in Seq(Thread)
        /\ \A i \in 1..(Len(one) + Len(list)) : (one \o list)[i] =
              IF i <= Len(one) THEN one[i] ELSE list[i - Len(one)]
    BY <1>1, <2>2, ConcatProperties
  <2>4. list' = one \o list
    BY <2>1 DEF one
  <2>5. DOMAIN list' = 1..(1 + Len(list))
    BY <1>1, <2>2, <2>3, <2>4, LenProperties
  <2>6. \A i \in DOMAIN list' :
           \/ i = 1 /\ list'[i] = t
           \/ i - 1 \in DOMAIN list /\ list'[i] = list[i - 1] /\ list'[i] # t /\ i \in Int
    BY <1>1, <2>1, <2>2, <2>3, <2>4, <2>5
  <2> QED
    BY <1>1, <2>6 DEF NoneTwice
<1>3. CASE Join
  <2>1. list' = Tail(list)
    BY <1>3 DEF Join
  <2>2. CASE list = <<>>
    BY <2>1, <2>2 DEF NoneTwice
  <2>3. CASE list # <<>>
    <3>1. /\ Tail(list) \in Seq(Thread) /\ Len(Tail(list)) = Len(list) - 1
          /\ \A i \in 1..(Len(list) - 1) : Tail(list)[i] = list[i + 1]
      BY <1>1, <2>3, HeadTailProperties
    <3>2. DOMAIN list' = 1..(Len(list) - 1)
      BY <2>1, <3>1, LenProperties
    <3>3. \A i \in DOMAIN list' : i \in Int /\ list'[i] = list[i + 1] /\ i + 1 \in DOMAIN list
      BY <1>1, <2>1, <3>1, <3>2
    <3> QED
      BY <3>3 DEF NoneTwice
  <2> QED
    BY <2>2, <2>3
<1> QED
  BY <1>2, <1>3

LEMMA CountersStep == IInv /\ Counted /\ NoneTwice /\ [Next]_vars => (Counted /\ NoneTwice)'
<1> SUFFICES ASSUME IInv, Counted, NoneTwice, [Next]_vars PROVE (Counted /\ NoneTwice)'
  OBVIOUS
<1> USE DEF IInv
<1>1. ASSUME NEW t \in Thread, Accept(t) PROVE (Counted /\ NoneTwice)'
  <2>1. Updating' = Updating /\ Waiting' = Waiting /\ UNCHANGED <<statsVars, list>>
    BY <1>1 DEF Accept, Goto, mainOnly, Updating, Waiting, Typed
  <2> QED
    BY <2>1 DEF Counted, NoneTwice, statsVars
<1>2. ASSUME NEW t \in Thread, Handle(t) PROVE (Counted /\ NoneTwice)'
  BY <1>2, CountedStep, HandleKeeps DEF NoneTwice, mainVars
<1>3. CASE UNCHANGED <<pc, statsVars>> /\ (list' = list \/ Link \/ Join)
  <2>1. Counted'
    BY <1>3 DEF Counted, Updating, Waiting, statsVars
  <2>2. NoneTwice'
    BY <1>3, ListStep DEF NoneTwice
  <2> QED
    BY <2>1, <2>2
<1>4. CASE SIGINT \/ Stop \/ Crash
  BY <1>3, <1>4 DEF SIGINT, Stop, Link, table_skel_destroy, Cancel, Join, destroy_statistics,
     Exit, Crash, mainOnly
<1>5. CASE UNCHANGED vars
  BY <1>3, <1>5 DEF vars, mainVars
<1> QED
  BY <1>1, <1>2, <1>4, <1>5 DEF Next

\* The counters of the lock of the statistics agree with the threads whatever
\* is cancelled and when; the list has every running thread once.
THEOREM TypeCorrect == Spec => []TypeOK
<1>1. Init => Counted /\ NoneTwice
  <2> SUFFICES ASSUME Init PROVE Counted /\ NoneTwice
    OBVIOUS
  <2>1. Updating = {} /\ Waiting = {}
    BY DEF Init, Updating, Waiting
  <2> QED
    BY <2>1, FS_EmptySet DEF Init, Counted, NoneTwice
<1>2. IInv /\ Counted /\ NoneTwice => TypeOK
  BY DEF IInv, OneUnlisted, Listed, Typed, Counted, NoneTwice, TypeOK, Updating, Waiting,
     Stopping, Runs
<1> QED
  BY <1>1, <1>2, CountersStep, Invariance, PTL DEF Spec
=============================================================================
