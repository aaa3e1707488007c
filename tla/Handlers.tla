------------------------------ MODULE Handlers ------------------------------
(***************************************************************************)
(* The handler threads of a server: the loop of handle_client, invoke with *)
(* all its operations, and the statistics. The server is the tail of the   *)
(* chain (an update has no next server to go to), and Chain has the rest.  *)
(* The two locks are taken at their promise, ReadersWriters, and the table *)
(* at that of table.h.                                                     *)
(***************************************************************************)
EXTENDS Integers, FiniteSets, FiniteSetsExt

CONSTANTS Client,      \* the clients, each with its handler thread
          Key, Value, Null,
          Ops,         \* the operations they ask for
          Failing,     \* the allocations that may fail
          MaxRequests  \* bound: requests of a client, STATS not counted

AllOps == {"put", "del", "get", "size", "keys", "table", "stats", "unknown"}
Allocation == {"put_entry", "get_copy", "get_value",
               "keys", "table_entries", "table_get", "table_value"}

ASSUME HandlersAssumption ==
    /\ Ops \subseteq AllOps /\ Failing \subseteq Allocation
    /\ IsFiniteSet(Client) /\ IsFiniteSet(Key) /\ Null \notin Value
    /\ MaxRequests \in Nat

VARIABLES
    running,    \* FALSE when the process ended in an error
    pc,         \* what each thread does
    request,    \* the request it handles
    answer,     \* the message it will send
    entries,    \* the entries of a GETTABLE it has still to copy
    store,      \* the table
    readers, writers, wanting,         \* the lock of the table
    sReaders, sWriters, sWanting,      \* the lock of the statistics
    stats,      \* ops, clients and time
    phase,      \* where a thread is in an update of stats
    loaded,     \* the value that the update started from
    received    \* requests each thread received, STATS not counted

lockVars == <<readers, writers, wanting>>
sLockVars == <<sReaders, sWriters, sWanting>>
statVars == <<sLockVars, stats, phase, loaded>>
vars == <<running, pc, request, answer, entries, store, lockVars, statVars,
          received>>

Lock == INSTANCE ReadersWriters WITH Thread <- Client
StatsLock == INSTANCE ReadersWriters
    WITH Thread <- Client,
         readers <- sReaders, writers <- sWriters, wanting <- sWanting

Requests ==
    {r \in [op : {"get", "del"}, key : Key] \cup
           [op : {"put"}, key : Key, val : Value] \cup
           [op : {"size", "keys", "table", "stats", "unknown"}] : r.op \in Ops}

Ok == [status |-> "ok"]
Error == [status |-> "error"]
Failed == [status |-> "failed"]    \* invoke returns -1

\* What invoke answers. A map stands for the entries of a GETTABLE.
Answers == {Ok, Error, Failed} \cup [value : Value \cup {Null}] \cup
    [size : Nat] \cup [keys : SUBSET Key] \cup [table : [Key -> Value \cup {Null}]]

ASSUME NullAssumption == Null \notin Requests /\ Null \notin Answers

Present == {k \in Key : store[k] # Null}
MayFail(a) == a \in Failing

Goto(t, l) == pc' = [pc EXCEPT ![t] = l]
Answer(t, a) == answer' = [answer EXCEPT ![t] = a]

Init ==
    /\ running = TRUE
    /\ pc = [t \in Client |-> "connected"]
    /\ request = [t \in Client |-> Null]
    /\ answer = [t \in Client |-> Null]
    /\ entries = [t \in Client |-> {}]
    /\ store = [k \in Key |-> Null]
    /\ Lock!Init /\ StatsLock!Init
    /\ stats = [ops |-> 0, clients |-> 0, time |-> 0]
    /\ phase = [t \in Client |-> "out"]
    /\ loaded = [t \in Client |-> 0]
    /\ received = [t \in Client |-> 0]

-----------------------------------------------------------------------------
(* The updates of the statistics, each under the lock: a load and a store. *)
(* The lock is never read, so a blocked writer keeps nobody out.           *)

Update(label) ==
    CASE label = "connected" -> [field |-> "clients", by |-> 1]
      [] label = "count" -> [field |-> "ops", by |-> 1]
      [] label = "time" -> [field |-> "time", by |-> 1]
      [] label = "closed" -> [field |-> "clients", by |-> -1]

\* Mutant: a thread whose request failed exits at once.
ExitsOnFailure(t) ==
    CASE pc[t] = "connected" -> "receive"
      [] pc[t] = "count" -> "invoke"
      [] pc[t] = "time" -> IF answer[t] = Failed THEN "gone" ELSE "send"
      [] pc[t] = "closed" -> "gone"

\* Each request takes one unit of time. A failed one closes the connection.
After(t) ==
    CASE pc[t] = "connected" -> "receive"
      [] pc[t] = "count" -> "invoke"
      [] pc[t] = "time" -> IF answer[t] = Failed THEN "closed" ELSE "send"
      [] pc[t] = "closed" -> "gone"

Updating(t) == pc[t] \in {"connected", "count", "time", "closed"}

\* Mutant: the update does not wait for the lock.
EntersWithoutWaiting(t) ==
    /\ Updating(t) /\ phase[t] = "out"
    /\ sWriters' = sWriters \cup {t}
    /\ phase' = [phase EXCEPT ![t] = "locked"]
    /\ UNCHANGED <<running, pc, request, answer, entries, store, lockVars,
                   sReaders, sWanting, stats, loaded, received>>

StatsEnter(t) ==
    /\ Updating(t) /\ phase[t] = "out"
    /\ StatsLock!StartWrite(t)
    /\ phase' = [phase EXCEPT ![t] = "locked"]
    /\ UNCHANGED <<running, pc, request, answer, entries, store, lockVars,
                   stats, loaded, received>>

StatsLoad(t) ==
    /\ phase[t] = "locked"
    /\ loaded' = [loaded EXCEPT ![t] = stats[Update(pc[t]).field]]
    /\ phase' = [phase EXCEPT ![t] = "loaded"]
    /\ UNCHANGED <<running, pc, request, answer, entries, store, lockVars,
                   sLockVars, stats, received>>

StatsStore(t) ==
    /\ phase[t] = "loaded"
    /\ stats' = [stats EXCEPT ![Update(pc[t]).field] = loaded[t] + Update(pc[t]).by]
    /\ loaded' = [loaded EXCEPT ![t] = 0]
    /\ phase' = [phase EXCEPT ![t] = "stored"]
    /\ UNCHANGED <<running, pc, request, answer, entries, store, lockVars,
                   sLockVars, received>>

StatsLeave(t) ==
    /\ phase[t] = "stored"
    /\ StatsLock!EndWrite(t)
    /\ phase' = [phase EXCEPT ![t] = "out"]
    /\ Goto(t, After(t))
    /\ UNCHANGED <<running, request, answer, entries, store, lockVars,
                   stats, loaded, received>>

-----------------------------------------------------------------------------
(* handle_client *)

\* A request has come whole. All but STATS are counted, unknown ones too.
network_receive(t) ==
    /\ pc[t] = "receive"
    /\ \E r \in Requests :
        /\ r.op # "stats" => received[t] < MaxRequests
        /\ request' = [request EXCEPT ![t] = r]
        /\ received' = [received EXCEPT ![t] = IF r.op = "stats" THEN @ ELSE @ + 1]
        /\ Goto(t, IF r.op = "stats" THEN "invoke" ELSE "count")
    /\ UNCHANGED <<running, answer, entries, store, lockVars, statVars>>

\* The client closed the connection, or sent what network_receive refuses.
HangUp(t) ==
    /\ pc[t] = "receive"
    /\ Goto(t, "closed")
    /\ UNCHANGED <<running, request, answer, entries, store, lockVars,
                   statVars, received>>

\* Sent, or the client is gone: the thread goes on to the next request.
network_send(t) ==
    /\ pc[t] = "send"
    /\ Goto(t, "receive")
    /\ request' = [request EXCEPT ![t] = Null]
    /\ Answer(t, Null)
    /\ UNCHANGED <<running, entries, store, lockVars, statVars, received>>

-----------------------------------------------------------------------------
(* invoke *)

Op(t) == IF request[t] = Null THEN "none" ELSE request[t].op

invokeVars == <<running, request, received, statVars>>

ReadLock(t) ==
    /\ pc[t] = "invoke" /\ Op(t) \in {"get", "size", "keys", "table"}
    /\ Lock!StartRead(t)
    /\ Goto(t, "reading")
    /\ UNCHANGED <<answer, entries, store, invokeVars>>

WriteLock(t) ==
    /\ pc[t] = "invoke" /\ Op(t) \in {"put", "del"}
    /\ \/ Lock!WantWrite(t) /\ UNCHANGED pc
       \/ Lock!StartWrite(t) /\ Goto(t, "writing")
    /\ UNCHANGED <<answer, entries, store, invokeVars>>

LeaveLock(t) ==
    /\ \/ pc[t] = "leaveRead" /\ Lock!EndRead(t)
       \/ pc[t] = "leaveWrite" /\ Lock!EndWrite(t)
    /\ Goto(t, "time")
    /\ UNCHANGED <<answer, entries, store, invokeVars>>

PUT(t) ==
    /\ pc[t] = "writing" /\ Op(t) = "put"
    /\ \/ /\ store' = [store EXCEPT ![request[t].key] = request[t].val]
          /\ Answer(t, Ok)
       \/ /\ MayFail("put_entry")
          /\ Answer(t, Error)
          /\ UNCHANGED store
    /\ Goto(t, "leaveWrite")
    /\ UNCHANGED <<entries, lockVars, invokeVars>>

\* Mutant: a key that is not there is answered inside the lock.
DelMissingKeepsLock(t) ==
    /\ pc[t] = "writing" /\ Op(t) = "del"
    /\ store' = [store EXCEPT ![request[t].key] = Null]
    /\ Answer(t, IF store[request[t].key] = Null THEN Error ELSE Ok)
    /\ Goto(t, IF store[request[t].key] = Null THEN "time" ELSE "leaveWrite")
    /\ UNCHANGED <<entries, lockVars, invokeVars>>

DEL(t) ==
    /\ pc[t] = "writing" /\ Op(t) = "del"
    /\ store' = [store EXCEPT ![request[t].key] = Null]
    /\ Answer(t, IF store[request[t].key] = Null THEN Error ELSE Ok)
    /\ Goto(t, "leaveWrite")
    /\ UNCHANGED <<entries, lockVars, invokeVars>>

\* The error that a missing key gets is the value Null.
GET(t) ==
    /\ pc[t] = "reading" /\ Op(t) = "get"
    /\ \/ Answer(t, [value |-> store[request[t].key]])
       \/ MayFail("get_copy") /\ Answer(t, Error)
    /\ Goto(t, "leaveRead")
    /\ UNCHANGED <<entries, store, lockVars, invokeVars>>

\* Without memory for the value of the message, break skips leaveRead: the
\* lock counts a reader that is no thread any more.
GetFails(t) ==
    /\ pc[t] = "reading" /\ Op(t) = "get"
    /\ MayFail("get_value") /\ store[request[t].key] # Null
    /\ Answer(t, Error)
    /\ Goto(t, "time")
    /\ readers' = (readers \ {t}) \cup {Null}
    /\ UNCHANGED <<writers, wanting, entries, store, invokeVars>>

SIZE_GETKEYS(t) ==
    /\ pc[t] = "reading"
    /\ \/ Op(t) = "size" /\ Answer(t, [size |-> Cardinality(Present)])
       \/ Op(t) = "keys" /\ Answer(t, [keys |-> Present])
       \/ Op(t) = "keys" /\ MayFail("keys") /\ Answer(t, Error)
    /\ Goto(t, "leaveRead")
    /\ UNCHANGED <<entries, store, lockVars, invokeVars>>

\* Mutant: leaveRead comes before the entries are copied.
UnlocksBeforeCopy(t) ==
    /\ pc[t] = "reading" /\ Op(t) = "table"
    /\ Answer(t, [table |-> [k \in Key |-> Null]])
    /\ entries' = [entries EXCEPT ![t] = Present]
    /\ Goto(t, "copy")
    /\ Lock!EndRead(t)
    /\ UNCHANGED <<store, invokeVars>>

\* GETTABLE: the keys first, and then each value with its key.
GETTABLE(t) ==
    /\ pc[t] = "reading" /\ Op(t) = "table"
    /\ \/ /\ Answer(t, [table |-> [k \in Key |-> Null]])
          /\ entries' = [entries EXCEPT ![t] = Present]
          /\ Goto(t, "copy")
       \/ /\ MayFail("table_entries")
          /\ Answer(t, Failed)
          /\ Goto(t, "leaveRead")
          /\ UNCHANGED entries
    /\ UNCHANGED <<store, lockVars, invokeVars>>

\* The keys are copied in an order of the table's own.
CopyEntry(t) ==
    /\ pc[t] = "copy"
    /\ \E k \in entries[t] :
        /\ store[k] # Null
        /\ Answer(t, [answer[t] EXCEPT !.table[k] = store[k]])
        /\ entries' = [entries EXCEPT ![t] = @ \ {k}]
    /\ UNCHANGED <<pc, store, lockVars, invokeVars>>

CopyEnds(t) ==
    /\ pc[t] = "copy"
    /\ \/ /\ entries[t] = {}
          /\ Goto(t, "leaveRead")
          /\ UNCHANGED <<answer, entries>>
       \/ /\ entries[t] # {} /\ MayFail("table_entries")
          /\ Goto(t, "leaveRead")
          /\ Answer(t, Failed)
          /\ entries' = [entries EXCEPT ![t] = {}]
    /\ UNCHANGED <<store, lockVars, invokeVars>>

\* table_get_keys gives NULL, and its first key is read; or table_get does
\* (no entry, or no memory), and its size is read; or the copy fails, and
\* the entries not made yet are packed all the same.
CopyCrashes(t) ==
    /\ pc[t] = "copy"
    /\ \E k \in entries[t] :
        \/ MayFail("keys") /\ entries[t] = Present
        \/ store[k] = Null \/ MayFail("table_get") \/ MayFail("table_value")
    /\ running' = FALSE
    /\ UNCHANGED <<pc, request, answer, entries, store, lockVars, statVars,
                   received>>

\* STATS reads the fields one by one, without the lock.
STATS(t) ==
    /\ \/ /\ pc[t] = "invoke" /\ Op(t) = "stats"
          /\ Answer(t, [ops |-> stats.ops])
          /\ Goto(t, "stats_clients")
       \/ /\ pc[t] = "stats_clients"
          /\ Answer(t, [ops |-> answer[t].ops, clients |-> stats.clients])
          /\ Goto(t, "stats_time")
       \/ /\ pc[t] = "stats_time"
          /\ Answer(t, [ops |-> answer[t].ops, clients |-> answer[t].clients,
                        time |-> stats.time])
          /\ Goto(t, "send")
    /\ UNCHANGED <<entries, store, lockVars, invokeVars>>

Unknown(t) ==
    /\ pc[t] = "invoke" /\ Op(t) = "unknown"
    /\ Answer(t, Failed)
    /\ Goto(t, "time")
    /\ UNCHANGED <<entries, store, lockVars, invokeVars>>

-----------------------------------------------------------------------------

Step(t) ==
    /\ running
    /\ \/ StatsEnter(t) \/ StatsLoad(t) \/ StatsStore(t) \/ StatsLeave(t)
       \/ network_send(t)
       \/ ReadLock(t) \/ WriteLock(t) \/ LeaveLock(t)
       \/ PUT(t) \/ DEL(t) \/ GET(t) \/ GetFails(t) \/ SIZE_GETKEYS(t)
       \/ GETTABLE(t) \/ CopyEntry(t) \/ CopyEnds(t) \/ CopyCrashes(t)
       \/ STATS(t) \/ Unknown(t)

Next == \E t \in Client :
    \/ Step(t)
    \/ running /\ (network_receive(t) \/ HangUp(t))

\* Threads run. No client has to send a request, or to close.
Spec == Init /\ [][Next]_vars /\ \A t \in Client : WF_vars(Step(t))

-----------------------------------------------------------------------------
(* Properties. *)

\* The threads are at a line of handle_client or invoke, and hold the locks
\* where they should.
TypeOK ==
    /\ store \in [Key -> Value \cup {Null}]
    /\ \A t \in Client : request[t] \in Requests \cup {Null}
    /\ \A t \in Client : received[t] \in 0..MaxRequests
    /\ \A t \in writers : pc[t] \in {"writing", "leaveWrite"}
    /\ {t \in Client : phase[t] # "out"} = sWriters
    /\ writers = {} \/ readers = {}
    /\ Cardinality(sWriters) <= 1

\* ops is the number of requests received, STATS excepted, less those whose
\* thread has yet to store it: no increment is lost among the threads.
OpsExact ==
    stats.ops + Cardinality({t \in Client : pc[t] = "count" /\ phase[t] # "stored"})
        = MapThenSumSet(LAMBDA t : received[t], Client)

\* clients is the number of connections that have a thread, whichever way a
\* thread ends: the client closes, or a request fails.
ClientsExact ==
    stats.clients =
        Cardinality({t \in Client :
            CASE pc[t] = "connected" -> phase[t] = "stored"
              [] pc[t] = "closed" -> phase[t] # "stored"
              [] OTHER -> pc[t] # "gone"})

\* Whatever the threads and their requests do, the counters lose nothing.
StatsExact == OpsExact /\ ClientsExact

Shown(t) == Op(t) \notin {"none", "stats", "unknown"}
InEffect == {"leaveRead", "leaveWrite", "time", "send", "closed", "gone"}

\* The request of each client, and its result once it has taken effect.
Pending == [t \in Client |-> IF Shown(t) THEN request[t] ELSE Null]
Result == [t \in Client |->
            IF Shown(t) /\ pc[t] \in InEffect THEN answer[t] ELSE Null]

Table == INSTANCE KVStore
    WITH Operation <- Requests, Fallible <- Failing # {},
         pending <- Pending, result <- Result

\* What the clients of one server see is one table: each request, GETTABLE
\* with its many reads too, takes effect at one instant while it is handled.
Linearizable == Table!Spec

\* Every request that is received is answered, or its connection is closed.
RequestsEnd == \A t \in Client :
    (pc[t] \in {"count", "invoke"}) ~> (pc[t] \in {"receive", "gone"})

\* Whatever allocations fail, a request waits for ever only after a GET left
\* without leaveRead and an update came: it waits, and all others behind it.
Starved == Null \in readers /\
    \E t \in Client : pc[t] = "invoke" /\ Op(t) \in {"put", "del"}

RequestsEndUnlessStarved == \A t \in Client :
    (pc[t] \in {"count", "invoke"})
        ~> (pc[t] \in {"receive", "gone"} \/ Starved \/ ~running)

\* A request cannot end the server, whatever allocation it makes fails.
ServerRuns == running

\* The statistics are not read while a thread is writing them.
StatsReadAlone == \A t \in Client :
    pc[t] \in {"stats_clients", "stats_time"} => sWriters = {}
=============================================================================
