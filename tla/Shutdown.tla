------------------------------ MODULE Shutdown ------------------------------
(***************************************************************************)
(* The end of a server by SIGINT: stop_server of table_server.c, with      *)
(* table_skel_destroy, network_server_close and destroy_lock, while the    *)
(* handler threads run. The main thread runs stop_server in the middle of  *)
(* its accept loop. It cancels each thread of the list and joins it. A     *)
(* thread acts on its cancellation only where POSIX says: here in read,    *)
(* write, close and pthread_cond_wait, and not while it waits for a mutex. *)
(*                                                                         *)
(* The lock of the statistics is modelled down to its mutex. A wait on it  *)
(* that is cancelled ends with the mutex locked, and nobody unlocks it.    *)
(* The lock of the table is modelled by who holds it, who waits and what is *)
(* left of it when a thread is cancelled (RWLock has it step by step).     *)
(* table_skel_destroy frees it before any thread is cancelled: what the    *)
(* threads do with it from then on is undefined, and can look as if it     *)
(* were still there, end the process, or keep the thread for ever.         *)
(* A signal to the process goes to its main thread, which does not block   *)
(* it.                                                                     *)
(***************************************************************************)
EXTENDS Integers, FiniteSets, Sequences

CONSTANTS Thread  \* handler threads the server may start

ASSUME ShutdownAssumption == IsFiniteSet(Thread)

VARIABLES
    main,       \* what the main thread does
    list,       \* client_socket_list, the newest node first
    pc,         \* what each handler does
    next,       \* where it goes after its update of the statistics
    cancelled,  \* the threads that were cancelled
    tableFreed, statsFreed,
    wwrites, writes,  \* the lock of the statistics
    abandoned,  \* its mutex was left locked by a thread that ended
    kept,       \* the locks of the table, read or write, nobody will leave
    tableAbandoned  \* the mutex of the lock of the table was left locked

tableVars == <<kept, tableAbandoned>>
statsVars == <<wwrites, writes, abandoned>>
mainVars == <<main, list, cancelled, tableFreed, statsFreed>>
vars == <<mainVars, pc, next, statsVars, tableVars>>

Goto(t, l) == pc' = [pc EXCEPT ![t] = l]

Stopping == main \notin {"accept", "link"}
Ended == main = "ended"
Runs(t) == pc[t] \notin {"none", "gone"}

\* The threads that hold the lock of the table, and those in the functions of
\* one lock or the other.
Reads == {"reading", "leave read"}
Writes == {"writing", "forward", "leave write"}
Waits == {"wait read", "wait write"}
InStats == {"lock", "update", "wait", "woken"}
InTable == {"invoke"} \cup Reads \cup Writes \cup Waits
At(labels) == {t \in Thread : pc[t] \in labels}

Init ==
    /\ main = "accept" /\ list = <<>>
    /\ pc = [t \in Thread |-> "none"]
    /\ next = [t \in Thread |-> "receive"]
    /\ cancelled = {}
    /\ tableFreed = FALSE /\ statsFreed = FALSE
    /\ wwrites = 0 /\ writes = 0 /\ abandoned = FALSE
    /\ kept = {} /\ tableAbandoned = FALSE

-----------------------------------------------------------------------------
(* A handler thread. *)

\* writeLock of the statistics, with its mutex from end to end, but in wait.
StatsLock(t) ==
    /\ pc[t] = "lock" /\ ~abandoned
    /\ \/ /\ writes = 0
          /\ writes' = 1
          /\ Goto(t, "update")
          /\ UNCHANGED wwrites
       \/ /\ writes > 0
          /\ wwrites' = wwrites + 1
          /\ Goto(t, "wait")
          /\ UNCHANGED writes
    /\ UNCHANGED <<mainVars, next, abandoned, tableVars>>

\* Mutant: wwrites is not decremented after the wait.
WakesUncounted(t) ==
    /\ pc[t] = "woken" /\ ~abandoned
    /\ \/ /\ writes = 0
          /\ writes' = 1
          /\ Goto(t, "update")
       \/ /\ writes > 0
          /\ Goto(t, "wait")
          /\ UNCHANGED writes
    /\ UNCHANGED <<mainVars, next, wwrites, abandoned, tableVars>>

\* pthread_cond_wait returns: it was signalled, and has the mutex again.
StatsWakes(t) ==
    /\ pc[t] = "woken" /\ ~abandoned
    /\ \/ /\ writes = 0
          /\ writes' = 1 /\ wwrites' = wwrites - 1
          /\ Goto(t, "update")
       \/ /\ writes > 0
          /\ Goto(t, "wait")
          /\ UNCHANGED <<writes, wwrites>>
    /\ UNCHANGED <<mainVars, next, abandoned, tableVars>>

StatsLeave(t) ==
    /\ pc[t] = "update" /\ ~abandoned
    /\ writes' = writes - 1
    /\ next' = [next EXCEPT ![t] = "receive"]
    /\ LET after == [pc EXCEPT ![t] = next[t]]
           asleep == {u \in Thread : pc[u] = "wait"}
       IN IF wwrites > 0 /\ asleep # {}
          THEN \E u \in asleep : pc' = [after EXCEPT ![u] = "woken"]
          ELSE pc' = after
    /\ UNCHANGED <<mainVars, wwrites, abandoned, tableVars>>

GoesOn == UNCHANGED <<mainVars, statsVars, tableVars>>

\* A request comes, or the client hangs up. The request is counted and then
\* invoked; its time is added and it is answered. OP_STATS has neither, and
\* takes no lock of the table.
Receive(t) ==
    /\ pc[t] = "receive" /\ t \notin cancelled
    /\ \/ next' = [next EXCEPT ![t] = "invoke"] /\ Goto(t, "lock")
       \/ Goto(t, "send") /\ UNCHANGED next
       \/ Goto(t, "close") /\ UNCHANGED next
    /\ GoesOn

\* What invoke gives is timed, and answered or not.
Invoked(t) ==
    /\ next' \in {[next EXCEPT ![t] = l] : l \in {"send", "close"}}
    /\ Goto(t, "lock")

CanRead == At(Writes \cup {"wait write"}) = {} /\ "write" \notin kept
CanWrite == At(Reads \cup Writes) = {} /\ kept = {}

\* readLock or writeLock of the table: the thread has it, or waits.
TableLock(t) ==
    /\ ~tableAbandoned
    /\ \/ pc[t] \in {"invoke", "wait read"} /\ CanRead /\ Goto(t, "reading")
       \/ pc[t] = "invoke" /\ ~CanRead /\ Goto(t, "wait read")
       \/ pc[t] \in {"invoke", "wait write"} /\ CanWrite /\ Goto(t, "writing")
       \/ pc[t] = "invoke" /\ ~CanWrite /\ Goto(t, "wait write")
    /\ UNCHANGED next
    /\ GoesOn

\* The operation itself. A put or a delete may go on to the next server. A get
\* without memory for the value keeps the lock.
Invoke(t) ==
    /\ \/ /\ \/ pc[t] = "reading" /\ Goto(t, "leave read")
             \/ pc[t] = "writing" /\ Goto(t, "forward")
             \/ pc[t] = "writing" /\ Goto(t, "leave write")
          /\ UNCHANGED <<next, kept>>
       \/ /\ pc[t] = "reading" /\ Invoked(t)
          /\ kept' = kept \cup {"read"}
       \/ pc[t] = "invoke" /\ Invoked(t) /\ UNCHANGED kept
    /\ UNCHANGED <<mainVars, statsVars, tableAbandoned>>

\* next_node_put or next_node_del returns.
Forwarded(t) ==
    /\ pc[t] = "forward" /\ t \notin cancelled
    /\ Goto(t, "leave write")
    /\ UNCHANGED next
    /\ GoesOn

\* leaveRead or leaveWrite. The lock of its mutex is no cancellation point.
TableLeave(t) ==
    /\ pc[t] \in {"leave read", "leave write"} /\ ~tableAbandoned
    /\ Invoked(t)
    /\ GoesOn

Send(t) ==
    /\ pc[t] = "send" /\ t \notin cancelled
    /\ Goto(t, "receive")
    /\ UNCHANGED next
    /\ GoesOn

Close(t) ==
    /\ pc[t] = "close" /\ t \notin cancelled
    /\ next' = [next EXCEPT ![t] = "gone"]
    /\ Goto(t, "lock")
    /\ GoesOn

\* The thread ends at a cancellation point. In pthread_cond_wait it gets the
\* mutex back first; in the call to the next server it holds the lock.
Cancelled(t) ==
    /\ t \in cancelled
    /\ \/ /\ pc[t] \in {"receive", "send", "close"}
          /\ UNCHANGED <<abandoned, tableVars>>
       \/ /\ pc[t] \in {"wait", "woken"} /\ ~abandoned
          /\ abandoned' = TRUE
          /\ UNCHANGED tableVars
       \/ /\ pc[t] \in Waits /\ ~tableAbandoned
          /\ tableAbandoned' = TRUE
          /\ UNCHANGED <<abandoned, kept>>
       \/ /\ pc[t] = "forward"
          /\ kept' = kept \cup {"write"}
          /\ UNCHANGED <<abandoned, tableAbandoned>>
    /\ Goto(t, "gone")
    /\ UNCHANGED <<mainVars, next, wwrites, writes>>

\* A thread that uses the table or its lock after they were freed can stay
\* there for ever.
StaysInFreed(t) ==
    /\ tableFreed /\ pc[t] \in InTable
    /\ Goto(t, "stuck")
    /\ UNCHANGED next
    /\ GoesOn

Handle(t) ==
    /\ ~Ended
    /\ \/ StatsLock(t) \/ StatsWakes(t) \/ StatsLeave(t)
       \/ Receive(t) \/ TableLock(t) \/ Invoke(t) \/ Forwarded(t) \/ TableLeave(t)
       \/ Send(t) \/ Close(t) \/ Cancelled(t) \/ StaysInFreed(t)

-----------------------------------------------------------------------------
(* The main thread. *)

mainOnly == UNCHANGED <<next, statsVars, tableVars>>

\* accept, and pthread_create: the thread updates clients before it reads.
Accept(t) ==
    /\ main = "accept" /\ pc[t] = "none"
    /\ main' = "link"
    /\ Goto(t, "lock")
    /\ UNCHANGED <<list, cancelled, tableFreed, statsFreed>>
    /\ mainOnly

\* The node of the thread goes to the head of the list.
Link ==
    /\ main = "link"
    /\ \E t \in Thread :
        /\ pc[t] # "none" /\ \A i \in DOMAIN list : list[i] # t
        /\ list' = <<t>> \o list
    /\ main' = "accept"
    /\ UNCHANGED <<pc, cancelled, tableFreed, statsFreed>>
    /\ mainOnly

SIGINT ==
    /\ ~Stopping
    /\ main' = "table"
    /\ UNCHANGED <<list, pc, cancelled, tableFreed, statsFreed>>
    /\ mainOnly

\* table_skel_destroy. The connection to ZooKeeper and to the next server is
\* closed next, by destroy_zk. A condition that threads wait on is not to be
\* destroyed: pthread_cond_destroy can stay there for ever.
table_skel_destroy ==
    /\ main = "table"
    /\ \/ main' = "cancel" /\ tableFreed' = TRUE
       \/ main' = "stuck" /\ At(Waits) # {} /\ UNCHANGED tableFreed
    /\ UNCHANGED <<list, pc, cancelled, statsFreed>>
    /\ mainOnly

\* The use of the freed table or lock ends the process.
Crash ==
    /\ ~Ended /\ tableFreed /\ At(InTable) # {}
    /\ main' = "ended"
    /\ UNCHANGED <<list, pc, cancelled, tableFreed, statsFreed>>
    /\ mainOnly

\* Mutant: pthread_cancel is not called.
CancelsNobody ==
    /\ main = "cancel" /\ list # <<>>
    /\ main' = "join"
    /\ UNCHANGED <<list, pc, cancelled, tableFreed, statsFreed>>
    /\ mainOnly

Cancel ==
    /\ main = "cancel" /\ list # <<>>
    /\ cancelled' = cancelled \cup {Head(list)}
    /\ main' = "join"
    /\ UNCHANGED <<list, pc, tableFreed, statsFreed>>
    /\ mainOnly

\* Mutant: a thread is not joined.
JoinsNobody ==
    /\ main = "join"
    /\ list' = Tail(list)
    /\ main' = "cancel"
    /\ UNCHANGED <<pc, cancelled, tableFreed, statsFreed>>
    /\ mainOnly

Join ==
    /\ main = "join" /\ ~Runs(Head(list))
    /\ list' = Tail(list)
    /\ main' = "cancel"
    /\ UNCHANGED <<pc, cancelled, tableFreed, statsFreed>>
    /\ mainOnly

\* Mutant: the statistics are freed before the list is gone through.
FreesWithThreads ==
    /\ main = "cancel"
    /\ statsFreed' = TRUE
    /\ main' = "exit"
    /\ UNCHANGED <<list, pc, cancelled, tableFreed>>
    /\ mainOnly

\* The list is empty: the lock and the statistics are destroyed.
destroy_statistics ==
    /\ main = "cancel" /\ list = <<>>
    /\ statsFreed' = TRUE
    /\ main' = "exit"
    /\ UNCHANGED <<list, pc, cancelled, tableFreed>>
    /\ mainOnly

Exit ==
    /\ main = "exit"
    /\ main' = "ended"
    /\ UNCHANGED <<list, pc, cancelled, tableFreed, statsFreed>>
    /\ mainOnly

Stop == Link \/ table_skel_destroy \/ Cancel \/ Join \/ destroy_statistics \/ Exit

Next ==
    \/ \E t \in Thread : Accept(t) \/ Handle(t)
    \/ SIGINT \/ Stop \/ Crash

\* The threads run, and so does stop_server. A thread that was cancelled and
\* comes to a wait again does not begin it. SIGINT need not come, nor the answer
\* of the next server, and what is undefined need not go wrong.
Spec ==
    /\ Init /\ [][Next]_vars
    /\ WF_vars(Stop)
    /\ \A t \in Thread :
        WF_vars(~Ended /\ (StatsLock(t) \/ StatsWakes(t) \/ StatsLeave(t)
                           \/ TableLock(t) \/ Invoke(t) \/ TableLeave(t)
                           \/ Send(t) \/ Close(t)))
    /\ \A t \in Thread : WF_vars(~Ended /\ Cancelled(t))

-----------------------------------------------------------------------------
(* Properties. *)

\* The counters of the lock agree with the threads; a wait that is cancelled
\* stays counted.
TypeOK ==
    /\ writes = Cardinality({t \in Thread : pc[t] = "update"})
    /\ wwrites = Cardinality({t \in Thread : pc[t] \in {"wait", "woken"}})
                    + (IF abandoned THEN 1 ELSE 0)
    /\ \A i, j \in DOMAIN list : list[i] = list[j] => i = j
    /\ main # "link" => \A t \in Thread : Runs(t) /\ ~Stopping =>
                            \E i \in DOMAIN list : list[i] = t

\* A thread is at a mutex that a cancelled wait left locked (to come back from
\* its own wait it needs it, too), or stays in a lock that was freed.
Stuck(t) ==
    \/ pc[t] \in InStats /\ abandoned
    \/ pc[t] \in {"invoke", "leave read", "leave write"} \cup Waits /\ tableAbandoned
    \/ pc[t] = "stuck"

\* The server ends after SIGINT, whatever its clients and threads do, unless a
\* thread is stuck (at the mutex of the statistics or of the table, left locked
\* by a thread cancelled in its wait, or in the freed lock of the table) or the
\* main thread is, where it destroys the conditions of that lock.
EndsUnlessStuck ==
    (main = "table") ~> (Ended \/ main = "stuck" \/ \E t \in Thread : Stuck(t))

\* Nobody uses the table or its lock after table_skel_destroy freed them.
TableFreedUnused == tableFreed => At(InTable \ {"invoke"}) = {}

\* A cancelled wait on the lock of the table keeps nobody from ending, but for
\* what the lock of the statistics and freed memory do.
TableLockHarmless ==
    (main = "table") ~> (\/ Ended \/ main = "stuck"
                         \/ \E t \in Thread : Stuck(t) /\ pc[t] \notin InTable)

\* Nor does one on the lock of the statistics, but for the lock of the table.
StatsLockHarmless ==
    (main = "table") ~> (\/ Ended \/ main = "stuck"
                         \/ \E t \in Thread : Stuck(t) /\ pc[t] \notin InStats)

\* Nobody runs when the statistics are freed: every thread was joined.
StatsFreedUnused == statsFreed => \A t \in Thread : ~Runs(t)

\* All that may run then is the one thread that was created and not yet put in
\* the list when the signal came: every other thread was cancelled and joined.
OnlyUnlistedRuns == statsFreed => Cardinality({t \in Thread : Runs(t)}) <= 1
=============================================================================
