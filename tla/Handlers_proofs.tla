--------------------------- MODULE Handlers_proofs ---------------------------
(***************************************************************************)
(* Theorems about Handlers for any number of clients, keys, values and     *)
(* requests, whichever allocations fail.                                   *)
(***************************************************************************)
EXTENDS Handlers, FiniteSetTheorems, WellFoundedInduction, TLAPS

Label == {"connected", "receive", "count", "invoke", "reading", "writing", "copy",
          "leaveRead", "leaveWrite", "stats_clients", "stats_time",
          "time", "send", "closed", "gone"}

Typed ==
    /\ pc \in [Client -> Label]
    /\ request \in [Client -> Requests \cup {Null}]
    /\ answer = [t \in Client |-> answer[t]]
    /\ entries \in [Client -> SUBSET Key]
    /\ store \in [Key -> Value \cup {Null}]
    /\ phase \in [Client -> {"out", "locked", "loaded", "stored"}]
    /\ received \in [Client -> 0..MaxRequests]

\* Who is where in invoke holds the lock of the table, and one writer at most
\* holds that of the statistics. A reader that left without leaveRead stays.
LockShape ==
    /\ \A t \in Client : pc[t] \in {"reading", "copy", "leaveRead"} => t \in readers
    /\ \A t \in Client : pc[t] \in {"writing", "leaveWrite"} => t \in writers
    /\ \A t \in writers : t \in Client /\ pc[t] \in {"writing", "leaveWrite"}
    /\ writers = {} \/ readers = {}
    /\ \A t, u \in writers : t = u

StatsShape ==
    /\ \A t \in Client : phase[t] # "out" <=> t \in sWriters
    /\ \A t \in Client : phase[t] # "out" => Updating(t)
    /\ sWriters \subseteq Client
    /\ \A t, u \in sWriters : t = u

\* A thread has a request from its receipt to its answer, is in the branch of
\* its operation, and has an answer once the operation is done.
RequestShape(t) ==
    /\ pc[t] \in {"connected", "receive"} => request[t] = Null
    /\ pc[t] \in {"count", "invoke"} => request[t] # Null
    /\ pc[t] = "reading" => Op(t) \in {"get", "size", "keys", "table"}
    /\ pc[t] = "writing" => Op(t) \in {"put", "del"}
    /\ pc[t] = "copy" => Op(t) = "table"
    /\ pc[t] \in {"stats_clients", "stats_time"} => Op(t) = "stats"
    /\ pc[t] \in InEffect /\ Shown(t) => answer[t] \in Answers

\* What a GETTABLE has copied is in the table, and the rest is to come.
CopyShape(t) == pc[t] = "copy" =>
    /\ entries[t] \subseteq Present
    /\ answer[t] = [table |-> [k \in Key |-> IF k \in entries[t] THEN Null
                                             ELSE store[k]]]

IInv ==
    /\ Typed /\ LockShape /\ StatsShape
    /\ \A t \in Client : RequestShape(t) /\ CopyShape(t)

USE DEF vars, lockVars, sLockVars, statVars, invokeVars, Goto, Answer, MayFail,
        Lock!vars, StatsLock!vars

LEMMA RequestOps ==
    ASSUME NEW r \in Requests
    PROVE  /\ r # Null
           /\ r.op \in AllOps
           /\ r.op \in {"put", "del", "get"} => r.key \in Key
           /\ r.op = "put" => r.val \in Value
BY NullAssumption DEF Requests, AllOps

LEMMA InitInv == Init => IInv
BY HandlersAssumption DEF Init, IInv, Typed, LockShape, StatsShape, RequestShape, CopyShape, Label,
       Lock!Init, StatsLock!Init, Shown, Op, InEffect, Updating

LEMMA TypedStep == IInv /\ [Next]_vars => Typed'
<1> SUFFICES ASSUME IInv, [Next]_vars PROVE Typed'
  OBVIOUS
<1> USE DEF IInv, Typed, Label
<1>0. CASE UNCHANGED vars
  BY <1>0
<1> SUFFICES ASSUME NEW t \in Client, Step(t) \/ network_receive(t) \/ HangUp(t)
             PROVE  Typed'
  BY <1>0 DEF Next
<1>1. CASE StatsEnter(t)
  BY <1>1 DEF StatsEnter
<1>2. CASE StatsLoad(t)
  BY <1>2 DEF StatsLoad
<1>3. CASE StatsStore(t)
  BY <1>3 DEF StatsStore
<1>4. CASE StatsLeave(t)
  BY <1>4 DEF StatsLeave, After, StatsShape, Updating
<1>5. CASE network_send(t)
  BY <1>5 DEF network_send
<1>6. CASE ReadLock(t)
  BY <1>6 DEF ReadLock
<1>7. CASE WriteLock(t)
  BY <1>7 DEF WriteLock
<1>8. CASE LeaveLock(t)
  BY <1>8 DEF LeaveLock
<1>9. CASE PUT(t)
  BY <1>9, RequestOps DEF PUT, Op
<1>10. CASE DEL(t)
  BY <1>10 DEF DEL
<1>11. CASE GET(t)
  BY <1>11 DEF GET
<1>12. CASE GetFails(t)
  BY <1>12 DEF GetFails
<1>13. CASE SIZE_GETKEYS(t)
  BY <1>13 DEF SIZE_GETKEYS
<1>14. CASE GETTABLE(t)
  BY <1>14 DEF GETTABLE, Present
<1>15. CASE CopyEntry(t)
  BY <1>15 DEF CopyEntry
<1>16. CASE CopyEnds(t)
  BY <1>16 DEF CopyEnds
<1>17. CASE CopyCrashes(t)
  BY <1>17 DEF CopyCrashes
<1>18. CASE STATS(t)
  BY <1>18 DEF STATS
<1>19. CASE Unknown(t)
  BY <1>19 DEF Unknown
<1>20. CASE network_receive(t)
  BY <1>20, HandlersAssumption, RequestOps DEF network_receive
<1>21. CASE HangUp(t)
  BY <1>21 DEF HangUp
<1> QED
  BY <1>1, <1>2, <1>3, <1>4, <1>5, <1>6, <1>7, <1>8, <1>9, <1>10, <1>11, <1>12,
     <1>13, <1>14, <1>15, <1>16, <1>17, <1>18, <1>19, <1>20, <1>21 DEF Step

LEMMA LockStep == IInv /\ [Next]_vars => LockShape'
<1> SUFFICES ASSUME IInv, [Next]_vars PROVE LockShape'
  OBVIOUS
<1> USE DEF IInv, Typed, LockShape
<1>0. CASE UNCHANGED vars
  BY <1>0
<1> SUFFICES ASSUME NEW t \in Client, Step(t) \/ network_receive(t) \/ HangUp(t)
             PROVE  LockShape'
  BY <1>0 DEF Next
<1>1. CASE StatsEnter(t)
  BY <1>1 DEF StatsEnter
<1>2. CASE StatsLoad(t)
  BY <1>2 DEF StatsLoad
<1>3. CASE StatsStore(t)
  BY <1>3 DEF StatsStore
<1>4. CASE StatsLeave(t)
  BY <1>4 DEF StatsLeave, After, StatsShape, Updating
<1>5. CASE network_send(t)
  BY <1>5 DEF network_send
<1>6. CASE ReadLock(t)
  BY <1>6 DEF ReadLock, Lock!StartRead
<1>7. CASE WriteLock(t)
  BY <1>7 DEF WriteLock, Lock!WantWrite, Lock!StartWrite
<1>8. CASE LeaveLock(t)
  BY <1>8 DEF LeaveLock, Lock!EndRead, Lock!EndWrite
<1>9. CASE PUT(t)
  BY <1>9 DEF PUT
<1>10. CASE DEL(t)
  BY <1>10 DEF DEL
<1>11. CASE GET(t)
  BY <1>11 DEF GET
<1>12. CASE GetFails(t)
  BY <1>12 DEF GetFails
<1>13. CASE SIZE_GETKEYS(t)
  BY <1>13 DEF SIZE_GETKEYS
<1>14. CASE GETTABLE(t)
  BY <1>14 DEF GETTABLE
<1>15. CASE CopyEntry(t)
  BY <1>15 DEF CopyEntry
<1>16. CASE CopyEnds(t)
  BY <1>16 DEF CopyEnds
<1>17. CASE CopyCrashes(t)
  BY <1>17 DEF CopyCrashes
<1>18. CASE STATS(t)
  BY <1>18 DEF STATS
<1>19. CASE Unknown(t)
  BY <1>19 DEF Unknown
<1>20. CASE network_receive(t)
  BY <1>20 DEF network_receive
<1>21. CASE HangUp(t)
  BY <1>21 DEF HangUp
<1> QED
  BY <1>1, <1>2, <1>3, <1>4, <1>5, <1>6, <1>7, <1>8, <1>9, <1>10, <1>11, <1>12,
     <1>13, <1>14, <1>15, <1>16, <1>17, <1>18, <1>19, <1>20, <1>21 DEF Step

LEMMA StatsStep == IInv /\ [Next]_vars => StatsShape'
<1> SUFFICES ASSUME IInv, [Next]_vars PROVE StatsShape'
  OBVIOUS
<1> USE DEF IInv, Typed, StatsShape, Updating
<1>0. CASE UNCHANGED vars
  BY <1>0
<1> SUFFICES ASSUME NEW t \in Client, Step(t) \/ network_receive(t) \/ HangUp(t)
             PROVE  StatsShape'
  BY <1>0 DEF Next
<1>1. CASE StatsEnter(t)
  BY <1>1 DEF StatsEnter, StatsLock!StartWrite
<1>2. CASE StatsLoad(t)
  BY <1>2 DEF StatsLoad
<1>3. CASE StatsStore(t)
  BY <1>3 DEF StatsStore
<1>4. CASE StatsLeave(t)
  BY <1>4 DEF StatsLeave, StatsLock!EndWrite, After
<1>5. CASE network_send(t)
  BY <1>5 DEF network_send
<1>6. CASE ReadLock(t)
  BY <1>6 DEF ReadLock
<1>7. CASE WriteLock(t)
  BY <1>7 DEF WriteLock
<1>8. CASE LeaveLock(t)
  BY <1>8 DEF LeaveLock
<1>9. CASE PUT(t)
  BY <1>9 DEF PUT
<1>10. CASE DEL(t)
  BY <1>10 DEF DEL
<1>11. CASE GET(t)
  BY <1>11 DEF GET
<1>12. CASE GetFails(t)
  BY <1>12 DEF GetFails
<1>13. CASE SIZE_GETKEYS(t)
  BY <1>13 DEF SIZE_GETKEYS
<1>14. CASE GETTABLE(t)
  BY <1>14 DEF GETTABLE
<1>15. CASE CopyEntry(t)
  BY <1>15 DEF CopyEntry
<1>16. CASE CopyEnds(t)
  BY <1>16 DEF CopyEnds
<1>17. CASE CopyCrashes(t)
  BY <1>17 DEF CopyCrashes
<1>18. CASE STATS(t)
  BY <1>18 DEF STATS
<1>19. CASE Unknown(t)
  BY <1>19 DEF Unknown
<1>20. CASE network_receive(t)
  BY <1>20 DEF network_receive
<1>21. CASE HangUp(t)
  BY <1>21 DEF HangUp
<1> QED
  BY <1>1, <1>2, <1>3, <1>4, <1>5, <1>6, <1>7, <1>8, <1>9, <1>10, <1>11, <1>12,
     <1>13, <1>14, <1>15, <1>16, <1>17, <1>18, <1>19, <1>20, <1>21 DEF Step

LEMMA RequestStep == IInv /\ [Next]_vars => \A u \in Client : RequestShape(u)'
<1> SUFFICES ASSUME IInv, [Next]_vars PROVE \A u \in Client : RequestShape(u)'
  OBVIOUS
<1> USE DEF IInv, Typed, RequestShape, Op, Shown, InEffect
<1>0. CASE UNCHANGED vars
  BY <1>0
<1> SUFFICES ASSUME NEW t \in Client, Step(t) \/ network_receive(t) \/ HangUp(t)
             PROVE  \A u \in Client : RequestShape(u)'
  BY <1>0 DEF Next
<1>1. CASE StatsEnter(t)
  BY <1>1 DEF StatsEnter, Updating
<1>2. CASE StatsLoad(t)
  BY <1>2 DEF StatsLoad
<1>3. CASE StatsStore(t)
  BY <1>3 DEF StatsStore
<1>4. CASE StatsLeave(t)
  BY <1>4 DEF StatsLeave, After, StatsShape, Updating
<1>5. CASE network_send(t)
  BY <1>5 DEF network_send
<1>6. CASE ReadLock(t)
  BY <1>6 DEF ReadLock
<1>7. CASE WriteLock(t)
  BY <1>7 DEF WriteLock
<1>8. CASE LeaveLock(t)
  BY <1>8 DEF LeaveLock
<1>9. CASE PUT(t)
  BY <1>9 DEF PUT, Answers
<1>10. CASE DEL(t)
  BY <1>10 DEF DEL, Answers
<1>11. CASE GET(t)
  BY <1>11, RequestOps DEF GET, Answers
<1>12. CASE GetFails(t)
  BY <1>12 DEF GetFails, Answers
<1>13. CASE SIZE_GETKEYS(t)
  <2>1. Cardinality(Present) \in Nat /\ Present \in SUBSET Key
    BY HandlersAssumption, FS_Subset, FS_CardinalityType DEF Present
  <2>2. [size |-> Cardinality(Present)] \in Answers /\ [keys |-> Present] \in Answers
    BY <2>1 DEF Answers
  <2>3. Error \in Answers
    BY DEF Answers
  <2>4. /\ answer'[t] \in {[size |-> Cardinality(Present)], [keys |-> Present], Error}
        /\ answer' = [answer EXCEPT ![t] = answer'[t]]
        /\ pc' = [pc EXCEPT ![t] = "leaveRead"] /\ pc[t] = "reading"
        /\ UNCHANGED <<request, entries, store>>
    BY <1>13 DEF SIZE_GETKEYS
  <2>5. answer'[t] \in Answers
    BY <2>2, <2>3, <2>4, Zenon
  <2> QED
    BY <2>4, <2>5
<1>14. CASE GETTABLE(t)
  BY <1>14 DEF GETTABLE, Answers
<1>15. CASE CopyEntry(t)
  BY <1>15 DEF CopyEntry
<1>16. CASE CopyEnds(t)
  BY <1>16 DEF CopyEnds, Answers, CopyShape, Present
<1>17. CASE CopyCrashes(t)
  BY <1>17 DEF CopyCrashes
<1>18. CASE STATS(t)
  BY <1>18 DEF STATS
<1>19. CASE Unknown(t)
  BY <1>19 DEF Unknown, Answers
<1>20. CASE network_receive(t)
  BY <1>20, RequestOps DEF network_receive
<1>21. CASE HangUp(t)
  BY <1>21 DEF HangUp
<1> QED
  BY <1>1, <1>2, <1>3, <1>4, <1>5, <1>6, <1>7, <1>8, <1>9, <1>10, <1>11, <1>12,
     <1>13, <1>14, <1>15, <1>16, <1>17, <1>18, <1>19, <1>20, <1>21 DEF Step

LEMMA CopyStep == IInv /\ [Next]_vars => \A u \in Client : CopyShape(u)'
<1> SUFFICES ASSUME IInv, [Next]_vars PROVE \A u \in Client : CopyShape(u)'
  OBVIOUS
<1> USE DEF IInv, Typed, CopyShape, Present
<1>0. CASE UNCHANGED vars
  BY <1>0
<1> SUFFICES ASSUME NEW t \in Client, Step(t) \/ network_receive(t) \/ HangUp(t)
             PROVE  \A u \in Client : CopyShape(u)'
  BY <1>0 DEF Next
<1>1. CASE StatsEnter(t)
  BY <1>1 DEF StatsEnter
<1>2. CASE StatsLoad(t)
  BY <1>2 DEF StatsLoad
<1>3. CASE StatsStore(t)
  BY <1>3 DEF StatsStore
<1>4. CASE StatsLeave(t)
  BY <1>4 DEF StatsLeave, After, StatsShape, Updating
<1>5. CASE network_send(t)
  BY <1>5 DEF network_send
<1>6. CASE ReadLock(t)
  BY <1>6 DEF ReadLock
<1>7. CASE WriteLock(t)
  BY <1>7 DEF WriteLock
<1>8. CASE LeaveLock(t)
  BY <1>8 DEF LeaveLock
<1>9. CASE PUT(t)
  BY <1>9, RequestOps DEF PUT, LockShape, Op
<1>10. CASE DEL(t)
  BY <1>10, RequestOps DEF DEL, LockShape, Op
<1>11. CASE GET(t)
  BY <1>11 DEF GET
<1>12. CASE GetFails(t)
  BY <1>12 DEF GetFails
<1>13. CASE SIZE_GETKEYS(t)
  BY <1>13 DEF SIZE_GETKEYS
<1>14. CASE GETTABLE(t)
  BY <1>14 DEF GETTABLE
<1>15. CASE CopyEntry(t)
  BY <1>15 DEF CopyEntry
<1>16. CASE CopyEnds(t)
  BY <1>16 DEF CopyEnds
<1>17. CASE CopyCrashes(t)
  BY <1>17 DEF CopyCrashes
<1>18. CASE STATS(t)
  BY <1>18 DEF STATS
<1>19. CASE Unknown(t)
  BY <1>19 DEF Unknown
<1>20. CASE network_receive(t)
  BY <1>20 DEF network_receive
<1>21. CASE HangUp(t)
  BY <1>21 DEF HangUp
<1> QED
  BY <1>1, <1>2, <1>3, <1>4, <1>5, <1>6, <1>7, <1>8, <1>9, <1>10, <1>11, <1>12,
     <1>13, <1>14, <1>15, <1>16, <1>17, <1>18, <1>19, <1>20, <1>21 DEF Step

LEMMA Invariance == Spec => []IInv
<1>1. IInv /\ [Next]_vars => IInv'
  BY TypedStep, LockStep, StatsStep, RequestStep, CopyStep DEF IInv
<1> QED
  BY InitInv, <1>1, PTL DEF Spec

\* Every thread is at a line of handle_client or invoke, a writer of the table
\* is alone with it, and the statistics have one writer at most.
THEOREM TypeCorrect == Spec => []TypeOK
<1>1. ASSUME IInv PROVE TypeOK
  <2> USE <1>1 DEF IInv
  <2>1. Cardinality(sWriters) <= 1
    <3>1. CASE sWriters = {}
      BY <3>1, FS_EmptySet
    <3>2. ASSUME NEW t \in sWriters PROVE Cardinality(sWriters) <= 1
      <4>1. sWriters = {t}
        BY <3>2 DEF StatsShape
      <4> QED
        BY <4>1, FS_Singleton
    <3> QED
      BY <3>1, <3>2
  <2>2. {t \in Client : phase[t] # "out"} = sWriters
    BY DEF StatsShape
  <2> QED
    BY <2>1, <2>2 DEF TypeOK, Typed, LockShape
<1> QED
  BY Invariance, <1>1, PTL

-----------------------------------------------------------------------------
(* The threads implement KVStore: a request takes effect at the step that   *)
(* gives its answer, a GETTABLE at its last copy.                           *)

\* A step of one thread that keeps its request changes one result at most.
LEMMA OneResult ==
    ASSUME Typed, NEW t \in Client, request' = request,
           \A u \in Client \ {t} : pc'[u] = pc[u] /\ answer'[u] = answer[u]
    PROVE  /\ Pending' = Pending
           /\ Result' = [Result EXCEPT ![t] =
                IF Shown(t) /\ pc'[t] \in InEffect THEN answer'[t] ELSE Null]
BY DEF Pending, Result, Shown, Op, Typed

\* The operation of t takes effect: it did not before, and now its answer is res.
LEMMA Effect ==
    ASSUME IInv, NEW t \in Client, NEW newStore, NEW res,
           request' = request, pc[t] \notin InEffect, Shown(t),
           \A u \in Client \ {t} : pc'[u] = pc[u] /\ answer'[u] = answer[u],
           pc'[t] \in InEffect, answer'[t] = res, store' = newStore
    PROVE  /\ Pending[t] = request[t] /\ Pending[t] # Null
           /\ Table!TakesEffect(t, newStore, res)
<1>1. Pending[t] = request[t] /\ Pending[t] # Null
  BY DEF Pending, Shown, Op
<1>2. Result[t] = Null
  BY DEF Result
<1> QED
  BY <1>1, <1>2, OneResult DEF Table!TakesEffect, IInv

LEMMA SizeReads ==
    ASSUME NEW c \in Client, Pending[c] # Null /\ Pending[c].op = "size",
           Table!TakesEffect(c, store, [size |-> Cardinality(Present)])
    PROVE  Table!Read(c)
BY DEF Present, Table!Read, Cardinality, Table!Cardinality

LEMMA InitRefines == Init => Table!Init
BY DEF Init, Table!Init, Pending, Result, Shown, Op

LEMMA StepRefines == IInv /\ [Next]_vars => [Table!Next]_(Table!vars)
<1> SUFFICES ASSUME IInv, [Next]_vars PROVE [Table!Next]_(Table!vars)
  OBVIOUS
<1> USE DEF IInv, Typed
<1>0. CASE UNCHANGED vars
  BY <1>0 DEF Table!vars, Pending, Result, Shown, Op
<1> SUFFICES ASSUME NEW t \in Client, Step(t) \/ network_receive(t) \/ HangUp(t)
             PROVE  [Table!Next]_(Table!vars)
  BY <1>0 DEF Next
<1>a. ASSUME request' = request, store' = store,
             \A u \in Client \ {t} : pc'[u] = pc[u] /\ answer'[u] = answer[u],
             ~ Shown(t) \/ pc'[t] \notin InEffect \/ answer'[t] = answer[t],
             ~ Shown(t) \/ (pc[t] \in InEffect <=> pc'[t] \in InEffect)
      PROVE  UNCHANGED Table!vars
  <2>1. Result = [Result EXCEPT ![t] = Result[t]]
    BY DEF Result
  <2>2. Result[t] = IF Shown(t) /\ pc'[t] \in InEffect THEN answer'[t] ELSE Null
    BY <1>a DEF Result
  <2> QED
    BY <1>a, <2>1, <2>2, OneResult DEF Table!vars
<1>b. ASSUME \/ Table!Invoke(t) \/ Table!Return(t) \/ Table!Put(t) \/ Table!Del(t)
             \/ Table!DelMissing(t) \/ Table!Get(t) \/ Table!Read(t) \/ Table!Fail(t)
      PROVE  Table!Next
  BY <1>b DEF Table!Next
<1>1. CASE StatsEnter(t)
  BY <1>1, <1>a DEF StatsEnter
<1>2. CASE StatsLoad(t)
  BY <1>2, <1>a DEF StatsLoad
<1>3. CASE StatsStore(t)
  BY <1>3, <1>a DEF StatsStore
<1>4. CASE StatsLeave(t)
  BY <1>4, <1>a DEF StatsLeave, After, StatsShape, Updating, RequestShape, Shown, Op, InEffect
<1>5. CASE ReadLock(t)
  BY <1>5, <1>a DEF ReadLock, InEffect
<1>6. CASE WriteLock(t)
  BY <1>6, <1>a DEF WriteLock, InEffect
<1>7. CASE LeaveLock(t)
  BY <1>7, <1>a DEF LeaveLock, InEffect
<1>8. CASE CopyEntry(t)
  BY <1>8, <1>a DEF CopyEntry, InEffect
<1>9. CASE CopyCrashes(t)
  BY <1>9, <1>a DEF CopyCrashes
<1>10. CASE STATS(t)
  BY <1>10, <1>a DEF STATS, Shown, RequestShape
<1>11. CASE Unknown(t)
  BY <1>11, <1>a DEF Unknown, Shown
<1>12. CASE HangUp(t)
  BY <1>12, <1>a DEF HangUp, RequestShape, Shown, Op
<1>20. CASE PUT(t)
  <2>1. Shown(t) /\ pc[t] \notin InEffect /\ pc'[t] \in InEffect
    BY <1>20 DEF PUT, Shown, InEffect
  <2>2. CASE answer'[t] = Error /\ Failing # {} /\ store' = store
    BY <2>1, <2>2, <1>20, <1>b, Effect DEF PUT, Table!Fail, Table!Error, Error
  <2>3. CASE /\ store' = [store EXCEPT ![request[t].key] = request[t].val]
             /\ answer'[t] = Ok
    BY <2>1, <2>3, <1>20, <1>b, Effect DEF PUT, Op, Table!Put, Table!Ok, Ok
  <2> QED
    BY <1>20, <2>2, <2>3 DEF PUT
<1>21. CASE DEL(t)
  <2>1. Shown(t) /\ pc[t] \notin InEffect /\ pc'[t] \in InEffect
    BY <1>21 DEF DEL, Shown, InEffect
  <2>2. request[t].key \in Key
    BY <1>21, RequestOps DEF DEL, Op
  <2>3. CASE store[request[t].key] = Null
    <3>1. store' = store /\ answer'[t] = Error
      BY <1>21, <2>2, <2>3 DEF DEL
    <3> QED
      BY <2>1, <2>3, <3>1, <1>21, <1>b, Effect DEF DEL, Op, Table!DelMissing, Table!Error, Error
  <2>4. CASE store[request[t].key] # Null
    BY <2>1, <2>4, <1>21, <1>b, Effect DEF DEL, Op, Table!Del, Table!Ok, Ok
  <2> QED
    BY <2>3, <2>4
<1>22. CASE GET(t)
  <2>1. Shown(t) /\ pc[t] \notin InEffect /\ pc'[t] \in InEffect
    BY <1>22 DEF GET, Shown, InEffect
  <2>2. CASE answer'[t] = Error /\ Failing # {}
    BY <2>1, <2>2, <1>22, <1>b, Effect DEF GET, Table!Fail, Table!Error, Error
  <2>3. CASE answer'[t] = [value |-> store[request[t].key]]
    BY <2>1, <2>3, <1>22, <1>b, Effect DEF GET, Op, Table!Get
  <2> QED
    BY <1>22, <2>2, <2>3 DEF GET
<1>23. CASE GetFails(t)
  <2>1. Shown(t) /\ pc[t] \notin InEffect /\ pc'[t] \in InEffect
    BY <1>23 DEF GetFails, Shown, InEffect
  <2> QED
    BY <2>1, <1>23, <1>b, Effect DEF GetFails, Table!Fail, Table!Error, Error
<1>24. CASE SIZE_GETKEYS(t)
  <2>1. Shown(t) /\ pc[t] \notin InEffect /\ pc'[t] \in InEffect
    BY <1>24 DEF SIZE_GETKEYS, Shown, InEffect
  <2>2. CASE Op(t) = "size" /\ answer'[t] = [size |-> Cardinality(Present)]
    <3>1. Table!TakesEffect(t, store, [size |-> Cardinality(Present)])
      BY <2>1, <2>2, <1>24, Effect DEF SIZE_GETKEYS
    <3>2. Pending[t] # Null /\ Pending[t].op = "size"
      BY <2>1, <2>2 DEF Op, Pending, Shown
    <3>3. Table!Read(t)
      BY <3>1, <3>2, SizeReads
    <3> QED
      BY <3>3, <1>b
  <2>3. CASE Op(t) = "keys" /\ answer'[t] = [keys |-> Present]
    <3>1. Table!TakesEffect(t, store, [keys |-> Present])
      BY <2>1, <2>3, <1>24, Effect DEF SIZE_GETKEYS
    <3> QED
      BY <2>1, <2>3, <3>1, <1>b, Effect DEF Op, Present, Table!Read, Pending
  <2>4. CASE answer'[t] = Error /\ Failing # {}
    BY <2>1, <2>4, <1>24, <1>b, Effect DEF SIZE_GETKEYS, Table!Fail, Table!Error, Error
  <2> QED
    BY <1>24, <2>2, <2>3, <2>4 DEF SIZE_GETKEYS
<1>25. CASE GETTABLE(t)
  <2>1. CASE pc'[t] = "copy"
    BY <1>25, <2>1, <1>a DEF GETTABLE, InEffect
  <2>2. CASE answer'[t] = Failed /\ Failing # {} /\ pc'[t] = "leaveRead"
    <3>1. Shown(t) /\ pc[t] \notin InEffect /\ pc'[t] \in InEffect
      BY <1>25, <2>2 DEF GETTABLE, Shown, InEffect
    <3> QED
      BY <3>1, <2>2, <1>25, <1>b, Effect DEF GETTABLE, Table!Fail, Table!Failed, Failed
  <2> QED
    BY <1>25, <2>1, <2>2 DEF GETTABLE
<1>26. CASE CopyEnds(t)
  <2>1. Shown(t) /\ pc[t] \notin InEffect /\ pc'[t] \in InEffect /\ Op(t) = "table"
    BY <1>26 DEF CopyEnds, Shown, InEffect, RequestShape
  <2>2. CASE answer'[t] = Failed /\ Failing # {}
    BY <2>1, <2>2, <1>26, <1>b, Effect DEF CopyEnds, Table!Fail, Table!Failed, Failed
  <2>3. CASE answer'[t] = answer[t] /\ entries[t] = {}
    <3>1. answer'[t] = [table |-> store]
      BY <1>26, <2>3 DEF CopyEnds, CopyShape
    <3> QED
      BY <2>1, <3>1, <1>26, <1>b, Effect DEF CopyEnds, Op, Table!Read
  <2> QED
    BY <1>26, <2>2, <2>3 DEF CopyEnds
<1>27. CASE network_receive(t)
  <2>1. PICK r \in Requests : request' = [request EXCEPT ![t] = r]
    BY <1>27 DEF network_receive
  <2>2. Result' = Result /\ Pending[t] = Null
    BY <1>27 DEF network_receive, Result, Pending, Shown, Op, InEffect, RequestShape
  <2>3. Pending' = [Pending EXCEPT ![t] = IF r.op \in {"stats", "unknown"} THEN Null ELSE r]
    BY <1>27, <2>1, RequestOps DEF network_receive, Pending, Shown, Op, AllOps
  <2>4. CASE r.op \in {"stats", "unknown"}
    <3>1. Pending = [Pending EXCEPT ![t] = Null]
      BY <2>2 DEF Pending
    <3> QED
      BY <1>27, <2>2, <2>3, <2>4, <3>1 DEF network_receive, Table!vars
  <2>5. CASE r.op \notin {"stats", "unknown"}
    BY <1>27, <2>2, <2>3, <2>5, <1>b DEF network_receive, Table!Invoke
  <2> QED
    BY <2>4, <2>5
<1>28. CASE network_send(t)
  <2>1. Pending' = [Pending EXCEPT ![t] = Null]
    BY <1>28 DEF network_send, Pending, Shown, Op
  <2>2. Result' = [Result EXCEPT ![t] = Null]
    BY <1>28 DEF network_send, Result, Shown, Op
  <2>3. CASE Shown(t)
    <3>1. Result[t] # Null
      BY <1>28, <2>3, NullAssumption DEF network_send, Result, InEffect, RequestShape
    <3> QED
      BY <1>28, <2>1, <2>2, <3>1, <1>b DEF network_send, Table!Return
  <2>4. CASE ~ Shown(t)
    <3>1. /\ Pending = [Pending EXCEPT ![t] = Null]
          /\ Result = [Result EXCEPT ![t] = Null]
      BY <2>4 DEF Pending, Result
    <3> QED
      BY <1>28, <2>1, <2>2, <3>1 DEF network_send, Table!vars
  <2> QED
    BY <2>3, <2>4
<1> QED
  BY <1>1, <1>2, <1>3, <1>4, <1>5, <1>6, <1>7, <1>8, <1>9, <1>10, <1>11, <1>12,
     <1>20, <1>21, <1>22, <1>23, <1>24, <1>25, <1>26, <1>27, <1>28 DEF Step

\* What the clients of one server see is one table: every request, GETTABLE
\* with its many reads too, takes effect at one instant while it is handled,
\* whatever the threads and the failing allocations.
THEOREM Linearizability == Spec => Linearizable
<1> QED
  BY Invariance, InitRefines, StepRefines, PTL DEF Spec, Linearizable, Table!Spec

-----------------------------------------------------------------------------
(* Sums. The sum of g over a finite set is the number of its units: a unit *)
(* is an element with a number up to what g gives it. The recursive        *)
(* function of MapThenSumSet is some function that satisfies its equation; *)
(* the number of units satisfies it, and, since a smallest set on which    *)
(* two solutions differ cannot exist, nothing else does.                   *)

Chosen(s) == CHOOSE x \in s : TRUE

IsSum(f, g, S) == f = [s \in SUBSET S |->
    IF s = {} THEN 0 ELSE g[Chosen(s)] + f[s \ {Chosen(s)}]]

Units(g, s) == UNION {{x} \X (1 .. g[x]) : x \in s}

LEMMA SumIsRecursive ==
    ASSUME NEW S, NEW g
    PROVE  MapThenSumSet(LAMBDA t : g[t], S) = (CHOOSE f : IsSum(f, g, S))[S]
BY Zenon DEF MapThenSumSet, MapThenFoldSet, IsSum, Chosen

LEMMA UnitsOfOne ==
    ASSUME NEW x, NEW n \in Nat
    PROVE  IsFiniteSet({x} \X (1 .. n)) /\ Cardinality({x} \X (1 .. n)) = n
<1>1. IsFiniteSet({x}) /\ Cardinality({x}) = 1
  BY FS_Singleton
<1>2. IsFiniteSet(1 .. n) /\ Cardinality(1 .. n) = n
  BY FS_Interval
<1>3. /\ IsFiniteSet({x} \X (1 .. n))
      /\ Cardinality({x} \X (1 .. n)) = Cardinality({x}) * Cardinality(1 .. n)
  BY Zenon, <1>1, <1>2, FS_Product
<1>4. Cardinality({x} \X (1 .. n)) = 1 * n
  BY Zenon, <1>1, <1>2, <1>3
<1> QED
  BY <1>3, <1>4

LEMMA UnitsAdd ==
    ASSUME NEW S, IsFiniteSet(S), NEW g \in [S -> Nat], NEW s \in SUBSET S
    PROVE  /\ IsFiniteSet(Units(g, s))
           /\ \A x \in s : Cardinality(Units(g, s)) = g[x] + Cardinality(Units(g, s \ {x}))
<1>1. ASSUME NEW r \in SUBSET S PROVE IsFiniteSet(Units(g, r))
  <2>1. IsFiniteSet(r)
    BY FS_Subset
  <2> DEFINE All == {{x} \X (1 .. g[x]) : x \in r}
             h == [x \in r |-> {x} \X (1 .. g[x])]
  <2>2. h \in Surjection(r, All)
    BY DEF Surjection
  <2>3. ASSUME NEW T \in All PROVE IsFiniteSet(T)
    <3>1. PICK x \in r : T = {x} \X (1 .. g[x])
      OBVIOUS
    <3>2. g[x] \in Nat
      OBVIOUS
    <3> QED
      BY <3>1, <3>2, UnitsOfOne
  <2> HIDE DEF All, h
  <2>4. IsFiniteSet(All)
    BY <2>1, <2>2, FS_Surjection
  <2>5. IsFiniteSet(UNION All)
    BY <2>3, <2>4, FS_UNION
  <2> QED
    BY <2>5 DEF Units, All
<1>2. ASSUME NEW x \in s
      PROVE  Cardinality(Units(g, s)) = g[x] + Cardinality(Units(g, s \ {x}))
  <2> DEFINE A == {x} \X (1 .. g[x])
             B == Units(g, s \ {x})
  <2>1. Units(g, s) = A \cup B
    BY DEF Units
  <2>2. A \cap B = {}
    BY DEF Units
  <2>3. IsFiniteSet(A) /\ Cardinality(A) = g[x] /\ IsFiniteSet(B) /\ g[x] \in Nat
    <3>1. s \ {x} \in SUBSET S /\ g[x] \in Nat
      OBVIOUS
    <3> QED
      BY <1>1, <3>1, UnitsOfOne
  <2> HIDE DEF A, B
  <2>4. Cardinality(A \cup B) = Cardinality(A) + Cardinality(B) - Cardinality({})
    BY <2>2, <2>3, FS_Union
  <2>5. Cardinality(B) \in Nat
    BY <2>3, FS_CardinalityType
  <2> QED
    BY <2>1, <2>3, <2>4, <2>5, FS_EmptySet DEF B
<1> QED
  BY <1>1, <1>2

LEMMA SumExists ==
    ASSUME NEW S, IsFiniteSet(S), NEW g \in [S -> Nat]
    PROVE  \E f : IsSum(f, g, S)
<1> DEFINE f == [s \in SUBSET S |-> Cardinality(Units(g, s))]
<1>1. ASSUME NEW s \in SUBSET S
      PROVE  f[s] = IF s = {} THEN 0 ELSE g[Chosen(s)] + f[s \ {Chosen(s)}]
  <2>1. CASE s = {}
    <3>1. Units(g, s) = {}
      BY <2>1 DEF Units
    <3> QED
      BY <2>1, <3>1, FS_EmptySet
  <2>2. CASE s # {}
    <3>1. Chosen(s) \in s
      BY <2>2 DEF Chosen
    <3>2. s \ {Chosen(s)} \in SUBSET S
      OBVIOUS
    <3> QED
      BY <2>2, <3>1, <3>2, UnitsAdd
  <2> QED
    BY <2>1, <2>2
<1>2. IsSum(f, g, S)
  BY <1>1, Zenon DEF IsSum
<1> QED
  BY <1>2

LEMMA SumIsUnique ==
    ASSUME NEW S, IsFiniteSet(S), NEW g \in [S -> Nat], NEW f, IsSum(f, g, S)
    PROVE  f[S] = Cardinality(Units(g, S))
<1> DEFINE T == {s \in SUBSET S : f[s] # Cardinality(Units(g, s))}
           R == StrictSubsetOrdering(S)
<1> SUFFICES ASSUME T # {} PROVE FALSE
  OBVIOUS
<1>1. IsWellFoundedOn(R, FiniteSubsetsOf(S))
  BY FS_StrictSubsetOrderingWellFounded
<1>2. T \subseteq FiniteSubsetsOf(S)
  BY FS_FiniteSubsetsOfFinite
<1>3. PICK s \in T : \A r \in T : ~ (<<r, s>> \in R)
  <2> HIDE DEF T, R
  <2> QED
    BY <1>1, <1>2, WFMin
<1>4. f[s] = IF s = {} THEN 0 ELSE g[Chosen(s)] + f[s \ {Chosen(s)}]
  BY Zenon DEF IsSum
<1>5. CASE s = {}
  <2>1. Units(g, s) = {}
    BY <1>5 DEF Units
  <2> QED
    BY <1>4, <1>5, <2>1, FS_EmptySet
<1>6. CASE s # {}
  <2> DEFINE r == s \ {Chosen(s)}
  <2>1. Chosen(s) \in s /\ r \in SUBSET S
    BY <1>6 DEF Chosen
  <2>2. <<r, s>> \in R
    BY <2>1 DEF StrictSubsetOrdering
  <2>3. f[r] = Cardinality(Units(g, r))
    BY <1>3, <2>1, <2>2
  <2>4. Cardinality(Units(g, s)) = g[Chosen(s)] + Cardinality(Units(g, r))
    BY <2>1, UnitsAdd
  <2> QED
    BY <1>4, <1>6, <2>3, <2>4
<1> QED
  BY <1>5, <1>6

LEMMA SumCountsUnits ==
    ASSUME NEW S, IsFiniteSet(S), NEW g \in [S -> Nat]
    PROVE  MapThenSumSet(LAMBDA t : g[t], S) = Cardinality(Units(g, S))
BY SumIsRecursive, SumExists, SumIsUnique

\* One more for one element.
LEMMA SumGrows ==
    ASSUME NEW S, IsFiniteSet(S), NEW g \in [S -> Nat], NEW x \in S, NEW n \in Nat, n = g[x] + 1
    PROVE  Cardinality(Units([g EXCEPT ![x] = n], S)) = Cardinality(Units(g, S)) + 1
<1> DEFINE h == [g EXCEPT ![x] = n]
<1>1. h \in [S -> Nat] /\ h[x] = n /\ \A y \in S \ {x} : h[y] = g[y]
  OBVIOUS
<1> HIDE DEF h
<1>2. Units(h, S \ {x}) = Units(g, S \ {x})
  BY <1>1 DEF Units
<1>3. /\ Cardinality(Units(h, S)) = h[x] + Cardinality(Units(h, S \ {x}))
      /\ Cardinality(Units(g, S)) = g[x] + Cardinality(Units(g, S \ {x}))
  BY <1>1, UnitsAdd
<1>4. IsFiniteSet(Units(g, S \ {x})) /\ S \ {x} \in SUBSET S
  BY UnitsAdd
<1>5. Cardinality(Units(g, S \ {x})) \in Nat
  BY <1>4, FS_CardinalityType
<1> QED
  BY <1>1, <1>2, <1>3, <1>5 DEF h

LEMMA SumOfZeros ==
    ASSUME NEW S
    PROVE  Cardinality(Units([x \in S |-> 0], S)) = 0
<1>1. Units([x \in S |-> 0], S) = {}
  BY DEF Units
<1> QED
  BY <1>1, FS_EmptySet

-----------------------------------------------------------------------------
(* The statistics. A thread that stores has held the lock since it loaded, *)
(* so the value is still that of the counter; and the number of clients    *)
(* whose increment is not stored moves against it.                         *)

Uncounted(t) == pc[t] = "count" /\ phase[t] # "stored"
Connected(t) ==
    /\ pc[t] # "gone"
    /\ pc[t] = "connected" => phase[t] = "stored"
    /\ pc[t] = "closed" => phase[t] # "stored"

Statistics ==
    /\ stats = [ops |-> stats.ops, clients |-> stats.clients, time |-> stats.time]
    /\ stats.ops \in Int /\ stats.clients \in Int /\ stats.time \in Int
    /\ loaded \in [Client -> Int]
    /\ \A t \in Client :
        phase[t] = "loaded" => loaded[t] = stats[Update(pc[t]).field]
    /\ stats.ops + Cardinality({t \in Client : Uncounted(t)})
        = Cardinality(Units(received, Client))
    /\ stats.clients = Cardinality({t \in Client : Connected(t)})

\* A predicate that changes for one client changes a number by one.
LEMMA OneMore ==
    ASSUME NEW A, NEW B, IsFiniteSet(A), NEW t, t \notin A, B = A \cup {t}
    PROVE  Cardinality(B) = Cardinality(A) + 1 /\ Cardinality(A) \in Nat
BY FS_AddElement, FS_CardinalityType

LEMMA ReceivedUnits ==
    ASSUME Typed PROVE received \in [Client -> Nat]
BY HandlersAssumption DEF Typed

LEMMA ReceivedGrows ==
    ASSUME Typed, NEW t \in Client, NEW n \in Nat, n = received[t] + 1
    PROVE  Cardinality(Units([received EXCEPT ![t] = n], Client))
             = Cardinality(Units(received, Client)) + 1
<1>1. received \in [Client -> Nat] /\ IsFiniteSet(Client)
  BY ReceivedUnits, HandlersAssumption
<1> HIDE DEF Typed
<1> QED
  BY <1>1, SumGrows

LEMMA StatisticsInit == Init => Statistics
<1> SUFFICES ASSUME Init PROVE Statistics
  OBVIOUS
<1>1. /\ stats = [ops |-> 0, clients |-> 0, time |-> 0]
      /\ loaded = [t \in Client |-> 0] /\ received = [t \in Client |-> 0]
      /\ pc = [t \in Client |-> "connected"] /\ phase = [t \in Client |-> "out"]
  BY DEF Init
<1>2. {t \in Client : Uncounted(t)} = {} /\ {t \in Client : Connected(t)} = {}
  BY <1>1 DEF Uncounted, Connected
<1>3. Cardinality(Units(received, Client)) = 0
  BY <1>1, SumOfZeros
<1> QED
  BY <1>1, <1>2, <1>3, FS_EmptySet DEF Statistics

\* A step that neither stores nor receives leaves the numbers as they are.
LEMMA Unmoved ==
    ASSUME Statistics, UNCHANGED <<stats, received>>, loaded' \in [Client -> Int],
           \A t \in Client : Uncounted(t)' = Uncounted(t) /\ Connected(t)' = Connected(t),
           \A t \in Client : phase'[t] = "loaded"
               => loaded'[t] = stats[Update(pc'[t]).field]
    PROVE  Statistics'
<1>1. {t \in Client : Uncounted(t)}' = {t \in Client : Uncounted(t)}
  OBVIOUS
<1>2. {t \in Client : Connected(t)}' = {t \in Client : Connected(t)}
  OBVIOUS
<1> QED
  BY <1>1, <1>2 DEF Statistics

LEMMA ReceiveCounts ==
    ASSUME IInv, Statistics, NEW t \in Client, network_receive(t)
    PROVE  Statistics'
<1> USE DEF IInv, Typed, Label
<1>1. PICK r \in Requests :
        /\ received' = [received EXCEPT ![t] = IF r.op = "stats" THEN @ ELSE @ + 1]
        /\ pc' = [pc EXCEPT ![t] = IF r.op = "stats" THEN "invoke" ELSE "count"]
  BY DEF network_receive
<1>2. /\ pc[t] = "receive" /\ phase[t] = "out"
      /\ UNCHANGED <<stats, phase, loaded>>
  BY DEF network_receive, StatsShape, Updating
<1>3. \A u \in Client : Connected(u)' = Connected(u)
  BY <1>1, <1>2 DEF Connected
<1>4. \A u \in Client : phase'[u] = "loaded" => loaded'[u] = stats[Update(pc'[u]).field]
  BY <1>1, <1>2 DEF Statistics
<1>5. CASE r.op = "stats"
  <2>1. received' = received
    BY <1>1, <1>5
  <2>2. \A u \in Client : Uncounted(u)' = Uncounted(u)
    BY <1>1, <1>2, <1>5 DEF Uncounted
  <2>3. loaded' \in [Client -> Int]
    BY <1>2 DEF Statistics
  <2> QED
    BY <1>2, <1>3, <1>4, <2>1, <2>2, <2>3, Unmoved
<1>6. CASE r.op # "stats"
  <2> DEFINE A == {u \in Client : Uncounted(u)}
             B == {u \in Client : Connected(u)}
             n == received[t] + 1
  <2>1. A' = A \cup {t} /\ t \notin A
    BY <1>1, <1>2, <1>6 DEF Uncounted
  <2>2. B' = B
    BY <1>3
  <2>3. Cardinality(A') = Cardinality(A) + 1 /\ Cardinality(A) \in Nat
    <3>1. A \subseteq Client
      OBVIOUS
    <3> HIDE DEF A
    <3> QED
      BY <2>1, <3>1, OneMore, FS_Subset, HandlersAssumption
  <2>4. received' = [received EXCEPT ![t] = n]
    BY <1>1, <1>6
  <2>5. Cardinality(Units(received', Client)) = Cardinality(Units(received, Client)) + 1
    <3>1. n \in Nat /\ n = received[t] + 1
      OBVIOUS
    <3> HIDE DEF n
    <3> QED
      BY <2>4, <3>1, ReceivedGrows, Zenon
  <2> HIDE DEF A, B, n
  <2>6. /\ stats.ops + Cardinality(A) = Cardinality(Units(received, Client))
        /\ stats.ops \in Int
    BY DEF Statistics, A
  <2>7. stats.ops + Cardinality(A') = Cardinality(Units(received', Client))
    BY <2>3, <2>5, <2>6
  <2>8. stats'.clients = Cardinality(B')
    BY <1>2, <2>2 DEF Statistics, B
  <2> QED
    BY <1>2, <1>4, <2>7, <2>8 DEF Statistics, A, B
<1> QED
  BY <1>5, <1>6

\* A thread that stores holds the lock: the value it loaded is still there.
LEMMA StoreCounts ==
    ASSUME IInv, Statistics, NEW t \in Client, StatsStore(t)
    PROVE  Statistics'
<1> USE DEF IInv, Typed, Label
<1> DEFINE A == {u \in Client : Uncounted(u)}
           B == {u \in Client : Connected(u)}
           field == Update(pc[t]).field
           by == Update(pc[t]).by
<1>1. /\ phase[t] = "loaded" /\ phase' = [phase EXCEPT ![t] = "stored"]
      /\ stats' = [stats EXCEPT ![field] = loaded[t] + by]
      /\ loaded' = [loaded EXCEPT ![t] = 0] /\ UNCHANGED <<pc, received>>
  BY DEF StatsStore
<1>2. loaded[t] = stats[field] /\ pc[t] \in {"connected", "count", "time", "closed"}
  BY <1>1 DEF Statistics, StatsShape, Updating
<1>3. \A u \in Client : phase'[u] # "loaded"
  <2>1. \A u \in Client \ {t} : phase[u] = "out"
    BY <1>1 DEF StatsShape
  <2> QED
    BY <1>1, <2>1
<1>4. loaded' \in [Client -> Int]
  BY <1>1 DEF Statistics
<1>5. /\ IsFiniteSet(A) /\ IsFiniteSet(B) /\ IsFiniteSet(A') /\ IsFiniteSet(B')
      /\ Cardinality(A) \in Nat /\ Cardinality(B) \in Nat
      /\ Cardinality(A') \in Nat /\ Cardinality(B') \in Nat
  <2>1. A \subseteq Client /\ B \subseteq Client /\ A' \subseteq Client /\ B' \subseteq Client
    OBVIOUS
  <2> HIDE DEF A, B
  <2> QED
    BY <2>1, FS_Subset, FS_CardinalityType, HandlersAssumption
<1>6. /\ stats = [ops |-> stats.ops, clients |-> stats.clients, time |-> stats.time]
      /\ stats.ops \in Int /\ stats.clients \in Int /\ stats.time \in Int
      /\ stats.ops + Cardinality(A) = Cardinality(Units(received, Client))
      /\ stats.clients = Cardinality(B)
  BY DEF Statistics
<1>7. SUFFICES
        /\ stats' = [ops |-> stats'.ops, clients |-> stats'.clients, time |-> stats'.time]
        /\ stats'.ops \in Int /\ stats'.clients \in Int /\ stats'.time \in Int
        /\ stats'.ops + Cardinality(A') = stats.ops + Cardinality(A)
        /\ stats'.clients = Cardinality(B')
  BY <1>1, <1>3, <1>4, <1>6 DEF Statistics
<1>8. CASE pc[t] = "connected"
  <2>1. field = "clients" /\ by = 1
    BY <1>8 DEF Update
  <2>2. B' = B \cup {t} /\ t \notin B
    BY <1>1, <1>8 DEF Connected
  <2>3. A' = A
    BY <1>1, <1>8 DEF Uncounted
  <2> HIDE DEF A, B, field, by
  <2>4. stats' = [stats EXCEPT !.clients = stats.clients + 1]
    BY <1>1, <1>2, <2>1
  <2>5. Cardinality(B') = Cardinality(B) + 1
    BY <1>5, <2>2, OneMore
  <2> QED
    BY <1>5, <1>6, <2>3, <2>4, <2>5
<1>9. CASE pc[t] = "closed"
  <2>1. field = "clients" /\ by = -1
    BY <1>9 DEF Update
  <2>2. B = B' \cup {t} /\ t \notin B'
    BY <1>1, <1>9 DEF Connected
  <2>3. A' = A
    BY <1>1, <1>9 DEF Uncounted
  <2> HIDE DEF A, B, field, by
  <2>4. stats' = [stats EXCEPT !.clients = stats.clients + (-1)]
    BY <1>1, <1>2, <2>1
  <2>5. Cardinality(B) = Cardinality(B') + 1
    BY <1>5, <2>2, OneMore
  <2> QED
    BY <1>5, <1>6, <2>3, <2>4, <2>5
<1>10. CASE pc[t] = "count"
  <2>1. field = "ops" /\ by = 1
    BY <1>10 DEF Update
  <2>2. A = A' \cup {t} /\ t \notin A'
    BY <1>1, <1>10 DEF Uncounted
  <2>3. B' = B
    BY <1>1, <1>10 DEF Connected
  <2> HIDE DEF A, B, field, by
  <2>4. stats' = [stats EXCEPT !.ops = stats.ops + 1]
    BY <1>1, <1>2, <2>1
  <2>5. Cardinality(A) = Cardinality(A') + 1
    BY <1>5, <2>2, OneMore
  <2> QED
    BY <1>5, <1>6, <2>3, <2>4, <2>5
<1>11. CASE pc[t] = "time"
  <2>1. field = "time" /\ by = 1
    BY <1>11 DEF Update
  <2>2. A' = A /\ B' = B
    BY <1>1, <1>11 DEF Uncounted, Connected
  <2> HIDE DEF A, B, field, by
  <2>3. stats' = [stats EXCEPT !.time = stats.time + 1]
    BY <1>1, <1>2, <2>1
  <2> QED
    BY <1>5, <1>6, <2>2, <2>3
<1> QED
  BY <1>2, <1>8, <1>9, <1>10, <1>11

\* An operation neither begins nor ends an update of the statistics.
LEMMA OperationUnmoved ==
    ASSUME IInv, Statistics, NEW t \in Client, NEW l \in Label,
           UNCHANGED <<stats, phase, loaded, received>>, pc' = [pc EXCEPT ![t] = l],
           \/ l = pc[t]
           \/ /\ pc[t] \notin {"connected", "count", "time", "closed", "gone"}
              /\ l \notin {"connected", "count", "gone"}
    PROVE  Statistics'
<1> USE DEF IInv, Typed, Label
<1>1. phase[t] = "out" \/ pc' = pc
  BY DEF StatsShape, Updating
<1>2. \A u \in Client : Uncounted(u)' = Uncounted(u) /\ Connected(u)' = Connected(u)
  BY <1>1 DEF Uncounted, Connected
<1>3. \A u \in Client : phase'[u] = "loaded" => loaded'[u] = stats[Update(pc'[u]).field]
  BY <1>1 DEF Statistics
<1>4. loaded' \in [Client -> Int]
  BY DEF Statistics
<1> QED
  BY <1>2, <1>3, <1>4, Unmoved

LEMMA StatisticsStep == IInv /\ Statistics /\ [Next]_vars => Statistics'
<1> SUFFICES ASSUME IInv, Statistics, [Next]_vars PROVE Statistics'
  OBVIOUS
<1> USE DEF IInv, Typed, Label
<1>0. CASE UNCHANGED vars
  BY <1>0 DEF Statistics, Uncounted, Connected
<1> SUFFICES ASSUME NEW t \in Client, Step(t) \/ network_receive(t) \/ HangUp(t)
             PROVE  Statistics'
  BY <1>0 DEF Next
<1>1. CASE StatsEnter(t)
  <2>1. /\ phase[t] = "out" /\ phase' = [phase EXCEPT ![t] = "locked"]
        /\ UNCHANGED <<pc, stats, loaded, received>>
    BY <1>1 DEF StatsEnter
  <2>2. \A u \in Client : Uncounted(u)' = Uncounted(u) /\ Connected(u)' = Connected(u)
    BY <2>1 DEF Uncounted, Connected
  <2>3. \A u \in Client : phase'[u] = "loaded" => loaded'[u] = stats[Update(pc'[u]).field]
    BY <2>1 DEF Statistics
  <2>4. loaded' \in [Client -> Int]
    BY <2>1 DEF Statistics
  <2> QED
    BY <2>1, <2>2, <2>3, <2>4, Unmoved
<1>2. CASE StatsLoad(t)
  <2>1. /\ phase[t] = "locked" /\ phase' = [phase EXCEPT ![t] = "loaded"]
        /\ loaded' = [loaded EXCEPT ![t] = stats[Update(pc[t]).field]]
        /\ UNCHANGED <<pc, stats, received>>
    BY <1>2 DEF StatsLoad
  <2>2. \A u \in Client : Uncounted(u)' = Uncounted(u) /\ Connected(u)' = Connected(u)
    BY <2>1 DEF Uncounted, Connected
  <2>3. \A u \in Client : phase'[u] = "loaded" => loaded'[u] = stats[Update(pc'[u]).field]
    BY <2>1 DEF Statistics
  <2>4. stats[Update(pc[t]).field] \in Int
    <3>1. pc[t] \in {"connected", "count", "time", "closed"}
      BY <2>1 DEF StatsShape, Updating
    <3>2. Update(pc[t]).field \in {"ops", "clients", "time"}
      BY <3>1 DEF Update
    <3> QED
      BY <3>2 DEF Statistics
  <2>5. loaded' \in [Client -> Int]
    BY <2>1, <2>4 DEF Statistics
  <2> QED
    BY <2>1, <2>2, <2>3, <2>5, Unmoved
<1>3. CASE StatsStore(t)
  BY <1>3, StoreCounts
<1>4. CASE StatsLeave(t)
  <2>1. /\ phase[t] = "stored" /\ phase' = [phase EXCEPT ![t] = "out"]
        /\ pc' = [pc EXCEPT ![t] = After(t)]
        /\ UNCHANGED <<stats, loaded, received>>
    BY <1>4 DEF StatsLeave
  <2>2. pc[t] \in {"connected", "count", "time", "closed"}
    BY <2>1 DEF StatsShape, Updating
  <2>3. \A u \in Client : Uncounted(u)' = Uncounted(u) /\ Connected(u)' = Connected(u)
    BY <2>1, <2>2 DEF Uncounted, Connected, After
  <2>4. \A u \in Client : phase'[u] = "loaded" => loaded'[u] = stats[Update(pc'[u]).field]
    BY <2>1 DEF Statistics
  <2>5. loaded' \in [Client -> Int]
    BY <2>1 DEF Statistics
  <2> QED
    BY <2>1, <2>3, <2>4, <2>5, Unmoved
<1>5. CASE network_receive(t)
  BY <1>5, ReceiveCounts
<1>6. CASE HangUp(t)
  <2>1. /\ pc[t] = "receive" /\ pc' = [pc EXCEPT ![t] = "closed"]
        /\ UNCHANGED <<stats, phase, loaded, received>>
    BY <1>6 DEF HangUp
  <2> QED
    BY <2>1, OperationUnmoved
<1>7. ASSUME \/ network_send(t)
             \/ ReadLock(t) \/ WriteLock(t) \/ LeaveLock(t)
             \/ PUT(t) \/ DEL(t) \/ GET(t) \/ GetFails(t) \/ SIZE_GETKEYS(t)
             \/ GETTABLE(t) \/ CopyEntry(t) \/ CopyEnds(t) \/ CopyCrashes(t)
             \/ STATS(t) \/ Unknown(t)
      PROVE  /\ UNCHANGED <<stats, phase, loaded, received>>
             /\ \/ pc' = pc
                \/ \E l \in Label : 
                    /\ pc' = [pc EXCEPT ![t] = l]
                    /\ pc[t] \notin {"connected", "count", "time", "closed", "gone"}
                    /\ l \notin {"connected", "count", "gone"}
  BY <1>7 DEF network_send, ReadLock, WriteLock, LeaveLock, PUT, DEL, GET, GetFails,
     SIZE_GETKEYS, GETTABLE, CopyEntry, CopyEnds, CopyCrashes, STATS, Unknown
<1>8. ASSUME UNCHANGED <<stats, phase, loaded, received, pc>> PROVE Statistics'
  BY <1>8 DEF Statistics, Uncounted, Connected
<1> QED
  BY <1>1, <1>2, <1>3, <1>4, <1>5, <1>6, <1>7, <1>8, OperationUnmoved DEF Step

\* No increment of ops or clients, and no decrement of clients, is lost or made
\* twice, however the threads interleave and whichever way each ends.
THEOREM CountersExact == Spec => []StatsExact
<1>1. ASSUME IInv, Statistics PROVE StatsExact
  <2>1. {t \in Client : CASE pc[t] = "connected" -> phase[t] = "stored"
                          [] pc[t] = "closed" -> phase[t] # "stored"
                          [] OTHER -> pc[t] # "gone"}
          = {t \in Client : Connected(t)}
    BY <1>1 DEF Connected
  <2>2. ClientsExact
    BY <1>1, <2>1, Zenon DEF ClientsExact, Statistics
  <2>3. {t \in Client : pc[t] = "count" /\ phase[t] # "stored"}
          = {t \in Client : Uncounted(t)}
    BY DEF Uncounted
  <2>4. MapThenSumSet(LAMBDA t : received[t], Client)
          = Cardinality(Units(received, Client))
    BY <1>1, SumCountsUnits, ReceivedUnits, HandlersAssumption, Zenon DEF IInv
  <2>5. OpsExact
    BY <1>1, <2>3, <2>4, Zenon DEF OpsExact, Statistics
  <2> QED
    BY <2>2, <2>5 DEF StatsExact
<1>2. Init => Statistics
  BY StatisticsInit
<1>3. IInv /\ Statistics /\ [Next]_vars => Statistics'
  BY StatisticsStep
<1> QED
  BY Invariance, <1>1, <1>2, <1>3, PTL DEF Spec
=============================================================================
