-------------------------------- MODULE Chain --------------------------------
(***************************************************************************)
(* The replication chain: table servers that register in ZooKeeper, copy   *)
(* the table of their predecessor, watch the membership, and forward every *)
(* update to their successor while they hold the table's write lock.       *)
(*                                                                         *)
(* A server is named by the sequence number ZooKeeper gave its z-node, so  *)
(* a restarted server is a new one with a higher number and an empty       *)
(* table.  Three threads of a server matter here: main (zk_init, then the  *)
(* accept loop), the ZooKeeper completion thread (zk_children_handler) and *)
(* the handler threads (invoke).  Only the table is behind the lock; this  *)
(* module uses the lock through its promise (module ReadersWriters): an    *)
(* update is alone in the server, a read runs when there is no update.     *)
(***************************************************************************)
EXTENDS Naturals, Sequences, FiniteSets

CONSTANTS
    Server,          \* z-node sequence numbers
    Client,
    Key, Value,
    Null,            \* NULL: no server, no value, no call, no answer
    Founders,        \* servers that already form a chain of empty tables
    Kinds,           \* the operations the clients use, of put, del, get
    MaxUpdates,      \* bound on the updates issued
    MaxCrashes,      \* bound on the servers that fail
    FaultsWhenIdle,  \* servers fail only while no operation is pending
    StartsWhenIdle,  \* servers start only while no operation is pending
    WhenSettled      \* clients, faults and new servers wait until every
                     \* server has seen the last change of the membership

ASSUME ChainAssumption ==
    /\ Server \subseteq Nat
    /\ IsFiniteSet(Server)
    /\ Client \cap Server = {}
    /\ Null \notin Server \cup Client \cup Value
    /\ Founders \subseteq Server
    /\ \A s \in Founders, t \in Server \ Founders : s < t
    /\ Kinds \subseteq {"put", "del", "get"}
    /\ MaxUpdates \in Nat /\ MaxCrashes \in Nat
    /\ {FaultsWhenIdle, StartsWhenIdle, WhenSettled} \subseteq BOOLEAN

VARIABLES
    znodes,    \* the children of /chain
    watching,  \* servers whose one-shot watch on /chain is armed
    notified,  \* servers with a child event queued for their handler
    phase,     \* how far main got
    cause,     \* why a server is down
    source,    \* main: the predecessor fill_table copies from
    next,      \* next_node
    link,      \* rtable, the connection to the successor
    watcher,   \* where zk_children_handler is
    table,     \* the table
    log,       \* history: the updates this table has absorbed, in order
    lock,      \* the caller whose update holds the write lock
    stage,     \* where that update is in invoke
    call,      \* the request each caller waits for, at most one
    issued,    \* history: number of updates issued
    acked,     \* history: the updates answered with success to a client
    crashes    \* history: number of injected faults

zkVars == <<znodes, watching, notified>>
mainVars == <<phase, cause, source>>
nextVars == <<next, link, watcher>>
tableVars == <<table, log, lock, stage>>
history == <<issued, acked, crashes>>
vars == <<zkVars, mainVars, nextVars, tableVars, call, history>>

Caller == Client \cup Server

-----------------------------------------------------------------------------
(* Data.                                                                   *)

\* A table is a map; Null stands for a key that is not there.
Table == [Key -> Value \cup {Null}]
EmptyTable == [k \in Key |-> Null]

Update ==
    [op : {"put", "del"}, id : Nat, key : Key, val : Value \cup {Null}]
Request == Update \cup [op : {"get"}, key : Key] \cup [op : {"gettable"}]

Copy == [table : Table, log : Seq(Update)]
Answer == [status : {"ok", "error"}] \cup [value : Value \cup {Null}] \cup Copy
Ok == [status |-> "ok"]
Error == [status |-> "error"]

Call == [to : Server, req : Request, answer : Answer \cup {Null}]

ASSUME NullAssumption == Null \notin Call /\ Null \notin Request /\ Null \notin Answer

IsUpdate(req) == req.op \in {"put", "del"}

\* table_put and table_remove.
Apply(t, u) ==
    [t EXCEPT ![u.key] = IF u.op = "put" THEN u.val ELSE Null]

\* rtable == NULL, an open connection, a pointer that was disconnected.
NoLink == [to |-> Null, open |-> FALSE]
Link == [to : Server \cup {Null}, open : BOOLEAN]

\* The searches in the list of children.  Sequence numbers are padded with
\* zeros, so the client's strcmp orders names as get_node_id orders numbers.
zk_get_head(nodes) == CHOOSE s \in nodes : \A t \in nodes : s <= t

zk_get_tail(nodes) == CHOOSE s \in nodes : \A t \in nodes : t <= s

\* Mutant: the successor is taken to have the next sequence number.
zk_closest_nodePlusOne(s, nodes) == s + 1

\* Mutant: zk_closest_node without its comparison with closest_id.
zk_closest_nodeFarthest(s, nodes) ==
    LET above == {t \in nodes : t > s}
    IN  IF above = {} THEN Null ELSE zk_get_tail(above)

zk_closest_node(s, nodes) ==
    LET above == {t \in nodes : t > s}
    IN  IF above = {} THEN Null ELSE zk_get_head(above)

\* Mutant: get_second_highest_id compares with <= and finds the server itself.
get_second_highest_idSelf(nodes, s) ==
    LET below == {t \in nodes : t <= s}
    IN  IF below = {} THEN Null ELSE zk_get_tail(below)

get_second_highest_id(nodes, s) ==
    LET below == {t \in nodes : t < s}
    IN  IF below = {} THEN Null ELSE zk_get_tail(below)

-----------------------------------------------------------------------------
Alive(s) == phase[s] \notin {"off", "crashed"}

\* A dead server's request may still sit in the socket of its successor.
Dead(x) == x \in Server /\ phase[x] = "crashed"

\* Nobody waits, nor is an update of a dead server on its way; a server
\* that asks for a table is not an operation.
NoPendingOps ==
    {x \in Caller : call[x] # Null /\ call[x].req.op # "gettable"} = {}

Settled == \A s \in Server :
    /\ Alive(s) => phase[s] = "serving" /\ s \notin notified /\ watcher[s] = "idle"
    /\ phase[s] = "crashed" => s \notin znodes

TypeOK ==
    /\ znodes \subseteq Server
    /\ watching \subseteq Server
    /\ notified \subseteq Server
    /\ phase \in [Server -> {"off", "registered", "listed", "fetching",
                             "serving", "crashed"}]
    /\ cause \in [Server -> {"none", "fault", "null_reply", "freed_link",
                             "double_disconnect", "null_path"}]
    /\ source \in [Server -> Server \cup {Null}]
    /\ next \in [Server -> Server \cup {Null}]
    /\ link \in [Server -> Link]
    /\ watcher \in [Server -> {"idle", "swap", "connect", "drop"}]
    /\ table \in [Server -> Table]
    /\ log \in [Server -> Seq(Update)]
    /\ lock \in [Server -> Caller \cup {Null}]
    /\ stage \in [Server -> {"idle", "forward", "wait", "ok", "failed"}]
    /\ call \in [Caller -> Call \cup {Null}]
    /\ issued \in Nat
    /\ acked \subseteq Update
    /\ crashes \in Nat

\* The founders have started one after the other, each before the clients.
Init ==
    /\ znodes = Founders
    /\ watching = Founders
    /\ notified = {}
    /\ phase = [s \in Server |-> IF s \in Founders THEN "serving" ELSE "off"]
    /\ cause = [s \in Server |-> "none"]
    /\ source = [s \in Server |-> Null]
    /\ next = [s \in Server |->
                IF s \in Founders THEN zk_closest_node(s, Founders) ELSE Null]
    /\ link = [s \in Server |-> [to |-> next[s], open |-> next[s] # Null]]
    /\ watcher = [s \in Server |-> "idle"]
    /\ table = [s \in Server |-> EmptyTable]
    /\ log = [s \in Server |-> <<>>]
    /\ lock = [s \in Server |-> Null]
    /\ stage = [s \in Server |-> "idle"]
    /\ call = [x \in Caller |-> Null]
    /\ issued = 0
    /\ acked = {}
    /\ crashes = 0

-----------------------------------------------------------------------------
(* A server goes down.  Its memory is gone; the request it had sent on is  *)
(* still in its successor's socket, the ones it had received are lost.     *)

\* call after s went down.
CallsWithout(s) ==
    [x \in Caller |->
        IF call[x] = Null THEN Null
        ELSE IF x = s
          THEN IF call[x].answer = Null /\ IsUpdate(call[x].req)
                    /\ Alive(call[x].to)
               THEN call[x] ELSE Null
          ELSE IF Dead(x) /\ call[x].to = s THEN Null ELSE call[x]]

Down(s, why) ==
    /\ phase' = [phase EXCEPT ![s] = "crashed"]
    /\ cause' = [cause EXCEPT ![s] = why]
    /\ source' = [source EXCEPT ![s] = Null]
    /\ watching' = watching \ {s}
    /\ notified' = notified \ {s}
    /\ next' = [next EXCEPT ![s] = Null]
    /\ link' = [link EXCEPT ![s] = NoLink]
    /\ watcher' = [watcher EXCEPT ![s] = "idle"]
    /\ table' = [table EXCEPT ![s] = EmptyTable]
    /\ log' = [log EXCEPT ![s] = <<>>]
    /\ lock' = [lock EXCEPT ![s] = Null]
    /\ stage' = [stage EXCEPT ![s] = "idle"]
    /\ call' = CallsWithout(s)
    /\ UNCHANGED <<znodes, issued, acked>>

Crash(s) ==
    /\ Alive(s)
    /\ crashes < MaxCrashes
    /\ FaultsWhenIdle => NoPendingOps
    /\ WhenSettled => Settled
    /\ crashes' = crashes + 1
    /\ Down(s, "fault")

\* ZooKeeper tells every server that watches /chain, once.
FireWatches ==
    /\ notified' = notified \cup watching
    /\ watching' = {}

\* The session of a dead server times out and its ephemeral z-node goes.
Expire(s) ==
    /\ phase[s] = "crashed"
    /\ s \in znodes
    /\ znodes' = znodes \ {s}
    /\ FireWatches
    /\ UNCHANGED <<mainVars, nextVars, tableVars, call, history>>

\* An answer that a server had not yet written when it went down.
AnswerLost(x) ==
    /\ call[x] # Null /\ call[x].answer # Null
    /\ phase[call[x].to] = "crashed"
    /\ call' = [call EXCEPT ![x].answer = Null]
    /\ UNCHANGED <<zkVars, mainVars, nextVars, tableVars, history>>

-----------------------------------------------------------------------------
(* Clients: updates go to the head of the chain, reads to its tail, and a  *)
(* client waits for one answer at a time.                                  *)

Send(x, s, req) ==
    call' = [call EXCEPT ![x] = [to |-> s, req |-> req, answer |-> Null]]

IssueUpdate(c) ==
    /\ call[c] = Null
    /\ issued < MaxUpdates
    /\ znodes # {} /\ Alive(zk_get_head(znodes))
    /\ WhenSettled => Settled
    /\ issued' = issued + 1
    /\ \E o \in Kinds \ {"get"}, k \in Key, v \in Value \cup {Null} :
        /\ o = "put" <=> v # Null
        /\ Send(c, zk_get_head(znodes), [op |-> o, id |-> issued', key |-> k, val |-> v])
    /\ UNCHANGED <<zkVars, mainVars, nextVars, tableVars, acked, crashes>>

IssueGet(c) ==
    /\ call[c] = Null
    /\ "get" \in Kinds
    /\ znodes # {} /\ Alive(zk_get_tail(znodes))
    /\ \E k \in Key : Send(c, zk_get_tail(znodes), [op |-> "get", key |-> k])
    /\ UNCHANGED <<zkVars, mainVars, nextVars, tableVars, history>>

\* network_send_receive returned the answer.
Finish(c) ==
    /\ call[c] # Null /\ call[c].answer # Null
    /\ acked' = IF IsUpdate(call[c].req) /\ call[c].answer = Ok
                THEN acked \cup {call[c].req} ELSE acked
    /\ call' = [call EXCEPT ![c] = Null]
    /\ UNCHANGED <<zkVars, mainVars, nextVars, tableVars, issued, crashes>>

\* network_send_receive returned NULL: rtable_put stops the client, the
\* other operations report an error.  A new client may take its place.
ClientLost(c) ==
    /\ call[c] # Null /\ call[c].answer = Null
    /\ phase[call[c].to] = "crashed"
    /\ call' = [call EXCEPT ![c] = Null]
    /\ UNCHANGED <<zkVars, mainVars, nextVars, tableVars, history>>

-----------------------------------------------------------------------------
(* The handler threads of a server: invoke.                                *)

\* The request of x is at s, nobody has worked on it, and s accepts.
At(x, s) ==
    /\ phase[s] = "serving"
    /\ call[x] # Null
    /\ call[x].to = s
    /\ call[x].answer = Null
    /\ lock[s] # x

\* network_send; nobody reads the answer to a server that is down.
Respond(x, a) ==
    call' = [call EXCEPT ![x] = IF Dead(x) THEN Null ELSE [@ EXCEPT !.answer = a]]

\* Mutant: invoke without writeLock.
BeginUnlocked(x, s) ==
    /\ At(x, s)
    /\ IsUpdate(call[x].req)
    /\ LET u == call[x].req
       IN  /\ ~(u.op = "del" /\ table[s][u.key] = Null)
           /\ table' = [table EXCEPT ![s] = Apply(@, u)]
           /\ log' = [log EXCEPT ![s] = Append(@, u)]
    /\ lock' = [lock EXCEPT ![s] = x]
    /\ stage' = [stage EXCEPT ![s] = IF next[s] = Null THEN "ok" ELSE "forward"]
    /\ UNCHANGED <<zkVars, mainVars, nextVars, call, history>>

\* Mutant: invoke answers without next_node_put or next_node_del.
BeginAlone(x, s) ==
    /\ At(x, s)
    /\ lock[s] = Null
    /\ IsUpdate(call[x].req)
    /\ LET u == call[x].req
       IN  /\ ~(u.op = "del" /\ table[s][u.key] = Null)
           /\ table' = [table EXCEPT ![s] = Apply(@, u)]
           /\ log' = [log EXCEPT ![s] = Append(@, u)]
    /\ lock' = [lock EXCEPT ![s] = x]
    /\ stage' = [stage EXCEPT ![s] = "ok"]
    /\ UNCHANGED <<zkVars, mainVars, nextVars, call, history>>

\* writeLock, then table_put or table_remove, then next_node_put or
\* next_node_del looks at next_node.
Begin(x, s) ==
    /\ At(x, s)
    /\ lock[s] = Null
    /\ IsUpdate(call[x].req)
    /\ LET u == call[x].req
       IN  /\ ~(u.op = "del" /\ table[s][u.key] = Null)
           /\ table' = [table EXCEPT ![s] = Apply(@, u)]
           /\ log' = [log EXCEPT ![s] = Append(@, u)]
    /\ lock' = [lock EXCEPT ![s] = x]
    /\ stage' = [stage EXCEPT ![s] = IF next[s] = Null THEN "ok" ELSE "forward"]
    /\ UNCHANGED <<zkVars, mainVars, nextVars, call, history>>

\* table_remove did not find the key: an error, and nothing is forwarded.
BeginMissing(x, s) ==
    /\ At(x, s)
    /\ lock[s] = Null
    /\ call[x].req.op = "del"
    /\ table[s][call[x].req.key] = Null
    /\ Respond(x, Error)
    /\ UNCHANGED <<zkVars, mainVars, nextVars, tableVars, history>>

\* The update that holds the lock of s.
Current(s) == call[lock[s]].req

\* Mutant: rtable_put tests response == NULL before it reads the opcode, as
\* rtable_del does.
NoReplyTested(s, why) ==
    /\ stage' = [stage EXCEPT ![s] = "failed"]
    /\ call' = [call EXCEPT ![s] = Null]
    /\ UNCHANGED <<zkVars, mainVars, nextVars, table, log, lock, history>>

\* network_send_receive gave NULL to rtable_put, which reads it (and so
\* stops the server), or to rtable_del, which returns -1.
NoReply(s, why) ==
    \/ /\ Current(s).op = "put"
       /\ Down(s, why)
       /\ UNCHANGED crashes
    \/ /\ Current(s).op = "del"
       /\ stage' = [stage EXCEPT ![s] = "failed"]
       /\ call' = [call EXCEPT ![s] = Null]
       /\ UNCHANGED <<zkVars, mainVars, nextVars, table, log, lock, history>>

\* Mutant: a connection that could not be made counts as no successor.
ForwardUnlinked(s) ==
    /\ stage[s] = "forward"
    /\ \/ /\ link[s].to = Null
          /\ stage' = [stage EXCEPT ![s] = "ok"]
          /\ UNCHANGED call
       \/ /\ link[s].open /\ Alive(link[s].to)
          /\ stage' = [stage EXCEPT ![s] = "wait"]
          /\ Send(s, link[s].to, Current(s))
    /\ UNCHANGED <<zkVars, mainVars, nextVars, table, log, lock, history>>

\* next_node_put and next_node_del use rtable, while the completion thread
\* may be changing it.
Forward(s) ==
    /\ stage[s] = "forward"
    /\ \/ /\ link[s].to = Null
          /\ stage' = [stage EXCEPT ![s] = "failed"]
          /\ UNCHANGED call
       \/ /\ link[s].open /\ Alive(link[s].to)
          /\ stage' = [stage EXCEPT ![s] = "wait"]
          /\ Send(s, link[s].to, Current(s))
    /\ UNCHANGED <<zkVars, mainVars, nextVars, table, log, lock, history>>

\* The connection has no peer, or it is memory that was freed: the
\* socket it names cannot be used.
ForwardLost(s) ==
    /\ stage[s] = "forward"
    /\ link[s].to # Null
    /\ \/ link[s].open /\ ~Alive(link[s].to) /\ NoReply(s, "null_reply")
       \/ ~link[s].open /\ NoReply(s, "freed_link")

\* The successor answered.
ReplyIn(s) ==
    /\ stage[s] = "wait"
    /\ call[s].answer # Null
    /\ stage' = [stage EXCEPT ![s] = IF call[s].answer = Ok THEN "ok" ELSE "failed"]
    /\ call' = [call EXCEPT ![s] = Null]
    /\ UNCHANGED <<zkVars, mainVars, nextVars, table, log, lock, history>>

\* Mutant: read_all reads again when read returns 0.
PeerLostUnseen(s) == FALSE

\* The successor went down without an answer.
PeerLost(s) ==
    /\ stage[s] = "wait"
    /\ call[s].answer = Null
    /\ ~Alive(call[s].to)
    /\ NoReply(s, "null_reply")

\* Mutant: a path of invoke without leaveWrite.
ReplyLocked(s) ==
    /\ stage[s] \in {"ok", "failed"}
    /\ Respond(lock[s], IF stage[s] = "ok" THEN Ok ELSE Error)
    /\ stage' = [stage EXCEPT ![s] = "idle"]
    /\ UNCHANGED <<zkVars, mainVars, nextVars, table, log, lock, history>>

\* leaveWrite and network_send.
Reply(s) ==
    /\ stage[s] \in {"ok", "failed"}
    /\ Respond(lock[s], IF stage[s] = "ok" THEN Ok ELSE Error)
    /\ lock' = [lock EXCEPT ![s] = Null]
    /\ stage' = [stage EXCEPT ![s] = "idle"]
    /\ UNCHANGED <<zkVars, mainVars, nextVars, table, log, history>>

\* OP_GET: the value, or an error that the client sees as NULL.
Get(x, s) ==
    /\ At(x, s)
    /\ lock[s] = Null
    /\ call[x].req.op = "get"
    /\ Respond(x, [value |-> table[s][call[x].req.key]])
    /\ UNCHANGED <<zkVars, mainVars, nextVars, tableVars, history>>

\* OP_GETTABLE: one snapshot under the read lock.
GetTable(x, s) ==
    /\ At(x, s)
    /\ lock[s] = Null
    /\ call[x].req.op = "gettable"
    /\ Respond(x, [table |-> table[s], log |-> log[s]])
    /\ UNCHANGED <<zkVars, mainVars, nextVars, tableVars, history>>

-----------------------------------------------------------------------------
(* main: zk_init, then the accept loop.                                    *)

\* zoo_create: an ephemeral z-node with the next sequence number.
Register(s) ==
    /\ phase[s] = "off"
    /\ \A t \in Server : phase[t] = "off" <=> t >= s
    /\ StartsWhenIdle => NoPendingOps
    /\ WhenSettled => Settled
    /\ phase' = [phase EXCEPT ![s] = "registered"]
    /\ znodes' = znodes \cup {s}
    /\ FireWatches
    /\ UNCHANGED <<cause, source, nextVars, tableVars, call, history>>

\* zoo_wget_children: the watch is set with the list that main looks at.
\* next_node is left alone.
List(s) ==
    /\ phase[s] = "registered"
    /\ \/ /\ Cardinality(znodes) <= 1
          /\ phase' = [phase EXCEPT ![s] = "serving"]
          /\ UNCHANGED source
       \/ /\ get_second_highest_id(znodes, s) # Null
          /\ phase' = [phase EXCEPT ![s] = "listed"]
          /\ source' = [source EXCEPT ![s] = get_second_highest_id(znodes, s)]
    /\ watching' = watching \cup {s}
    /\ UNCHANGED <<znodes, notified, cause, nextVars, tableVars, call, history>>

\* The only other children are newer: strcat(first_node_path, NULL).
ListNothingBelow(s) ==
    /\ phase[s] = "registered"
    /\ Cardinality(znodes) > 1
    /\ get_second_highest_id(znodes, s) = Null
    /\ Down(s, "null_path")
    /\ UNCHANGED crashes

\* fill_table: connect and ask for the whole table.
Fetch(s) ==
    /\ phase[s] = "listed"
    /\ Alive(source[s])
    /\ phase' = [phase EXCEPT ![s] = "fetching"]
    /\ Send(s, source[s], [op |-> "gettable"])
    /\ UNCHANGED <<zkVars, cause, source, nextVars, tableVars, history>>

\* Mutant: the entries are received and not put into the table.
FillNothing(s) ==
    /\ phase[s] = "fetching"
    /\ call[s].answer # Null
    /\ phase' = [phase EXCEPT ![s] = "serving"]
    /\ source' = [source EXCEPT ![s] = Null]
    /\ call' = [call EXCEPT ![s] = Null]
    /\ UNCHANGED <<zkVars, cause, nextVars, tableVars, history>>

\* table_put of every entry, then main goes to its accept loop.
Fill(s) ==
    /\ phase[s] = "fetching"
    /\ call[s].answer # Null
    /\ table' = [table EXCEPT ![s] = call[s].answer.table]
    /\ log' = [log EXCEPT ![s] = call[s].answer.log]
    /\ phase' = [phase EXCEPT ![s] = "serving"]
    /\ source' = [source EXCEPT ![s] = Null]
    /\ call' = [call EXCEPT ![s] = Null]
    /\ UNCHANGED <<zkVars, cause, nextVars, lock, stage, history>>

\* The predecessor is gone: main serves the empty table.
FetchLost(s) ==
    /\ \/ phase[s] = "listed" /\ ~Alive(source[s])
       \/ /\ phase[s] = "fetching"
          /\ call[s].answer = Null
          /\ ~Alive(call[s].to)
    /\ phase' = [phase EXCEPT ![s] = "serving"]
    /\ source' = [source EXCEPT ![s] = Null]
    /\ call' = [call EXCEPT ![s] = Null]
    /\ UNCHANGED <<zkVars, cause, nextVars, tableVars, history>>

-----------------------------------------------------------------------------
(* zk_children_handler, in the ZooKeeper completion thread.                *)

\* Mutant: the handler reads the children without setting the watch again.
NoticeUnarmed(s) ==
    LET new == zk_closest_node(s, znodes)
    IN  /\ s \in notified
        /\ watcher[s] = "idle"
        /\ notified' = notified \ {s}
        /\ next' = [next EXCEPT ![s] = new]
        /\ watcher' = [watcher EXCEPT ![s] =
                         IF new = next[s] THEN "idle"
                         ELSE IF new = Null THEN "drop"
                         ELSE IF link[s].to = Null THEN "connect" ELSE "swap"]
        /\ UNCHANGED <<znodes, watching, mainVars, link, tableVars, call, history>>

\* zoo_wget_children and the assignments to next_node.
Notice(s) ==
    LET new == zk_closest_node(s, znodes)
    IN  /\ s \in notified
        /\ watcher[s] = "idle"
        /\ notified' = notified \ {s}
        /\ watching' = watching \cup {s}
        /\ next' = [next EXCEPT ![s] = new]
        /\ watcher' = [watcher EXCEPT ![s] =
                         IF new = next[s] THEN "idle"
                         ELSE IF new = Null THEN "drop"
                         ELSE IF link[s].to = Null THEN "connect" ELSE "swap"]
        /\ UNCHANGED <<znodes, mainVars, link, tableVars, call, history>>

\* Mutant: the handler is done once it has disconnected.
DisconnectOnly(s) ==
    /\ watcher[s] \in {"swap", "drop"}
    /\ link' = [link EXCEPT ![s].open = FALSE]
    /\ watcher' = [watcher EXCEPT ![s] = "idle"]
    /\ UNCHANGED <<zkVars, mainVars, next, tableVars, call, history>>

\* rtable_disconnect.  On a pointer that was disconnected before it closes
\* a descriptor read from freed memory, and fails or stops the process.
Disconnect(s) ==
    /\ watcher[s] \in {"swap", "drop"}
    /\ link' = [link EXCEPT ![s].open = FALSE]
    /\ watcher' = [watcher EXCEPT ![s] = IF @ = "swap" THEN "connect" ELSE "idle"]
    /\ UNCHANGED <<zkVars, mainVars, next, tableVars, call, history>>

DoubleDisconnect(s) ==
    /\ watcher[s] \in {"swap", "drop"}
    /\ link[s].to # Null /\ ~link[s].open
    /\ Down(s, "double_disconnect")
    /\ UNCHANGED crashes

\* rtable = rtable_connect(next_node_data).  A registered server listens,
\* even before it accepts.
Connect(s) ==
    /\ watcher[s] = "connect"
    /\ link' = [link EXCEPT ![s] =
                  IF Alive(next[s]) THEN [to |-> next[s], open |-> TRUE] ELSE NoLink]
    /\ watcher' = [watcher EXCEPT ![s] = "idle"]
    /\ UNCHANGED <<zkVars, mainVars, next, tableVars, call, history>>

-----------------------------------------------------------------------------
Handler(s) ==
    \/ \E x \in Caller : Begin(x, s) \/ BeginMissing(x, s) \/ Get(x, s) \/ GetTable(x, s)
    \/ Forward(s) \/ ForwardLost(s) \/ ReplyIn(s) \/ PeerLost(s) \/ Reply(s)

Main(s) == List(s) \/ ListNothingBelow(s) \/ Fetch(s) \/ Fill(s) \/ FetchLost(s)

Watcher(s) == Notice(s) \/ Disconnect(s) \/ DoubleDisconnect(s) \/ Connect(s)

Next ==
    \/ \E c \in Client : IssueUpdate(c) \/ IssueGet(c) \/ Finish(c) \/ ClientLost(c)
    \/ \E x \in Caller : AnswerLost(x)
    \/ \E s \in Server : \/ Handler(s) \/ Main(s) \/ Watcher(s)
                         \/ Register(s) \/ Crash(s) \/ Expire(s)

Spec == Init /\ [][Next]_vars

\* Threads run, connections deliver, sessions of dead servers expire.
\* Nobody has to call an operation, to start a server or to fail.
Fairness ==
    /\ \A c \in Client : WF_vars(Finish(c)) /\ WF_vars(ClientLost(c))
    /\ \A s \in Server, x \in Caller :
        /\ WF_vars(Begin(x, s)) /\ WF_vars(BeginMissing(x, s))
        /\ WF_vars(Get(x, s)) /\ WF_vars(GetTable(x, s))
    /\ \A s \in Server :
        /\ WF_vars(Forward(s) \/ ForwardLost(s))
        /\ WF_vars(ReplyIn(s) \/ PeerLost(s))
        /\ WF_vars(Reply(s))
        /\ WF_vars(Main(s))
        /\ WF_vars(Watcher(s))
        /\ WF_vars(Expire(s))

FairSpec == Spec /\ Fairness

-----------------------------------------------------------------------------
(* Properties.                                                             *)

Serving == {s \in Server : phase[s] = "serving"}

Holds(s, u) == \E i \in DOMAIN log[s] : log[s][i] = u

\* One order: no two servers absorbed two updates in different orders, and
\* none absorbed an update twice, whatever was retried or delayed.
SameOrder ==
    \A s, t \in Server : \A i, j \in DOMAIN log[s], k, l \in DOMAIN log[t] :
        (log[s][i] = log[t][k] /\ log[s][j] = log[t][l] /\ i < j) => k < l

\* What a client was told has happened is in every table that serves.
AckedEverywhere == \A u \in acked, s \in Serving : Holds(s, u)

\* While nobody joins, a table lags behind its predecessor by the update
\* that holds the predecessor's lock, at most: synchronous replication.
UpstreamPrefix ==
    \A s, t \in Serving :
        (t = next[s]) =>
            \/ log[s] = log[t]
            \/ /\ lock[s] # Null
               /\ log[s] = Append(log[t], Current(s))

\* No server stops but for an injected fault.
NoCascade == \A s \in Server : cause[s] \in {"none", "fault"}

\* The same when servers start, too: as long as one of the first servers is
\* left to copy from, and none was stopped by undefined behaviour while a new
\* one copied from it.
AckedUnlessStopped == NoCascade /\ Founders \cap Serving # {} => AckedEverywhere

\* When servers start and fail one at a time and nothing else goes on, a
\* failure takes no other server down, with one exception: the server that
\* lost its last successor stops when the next one starts, since
\* zk_children_handler left it the connection it had disconnected.
StopsWhenTailReplaced(s) ==
    /\ cause[s] = "double_disconnect"
    /\ \E t \in Server, u \in Server \ Founders :
        s < t /\ t < u /\ phase[t] = "crashed" /\ phase[u] # "off"

NoOtherCascade == \A s \in Server :
    cause[s] \in {"none", "fault"} \/ StopsWhenTailReplaced(s)

\* When all is quiet, all servers have the same table (unless a server was
\* stopped by undefined behaviour before).
ReplicasAgree ==
    (Settled /\ NoPendingOps /\ NoCascade) =>
        \A s, t \in Serving : table[s] = table[t]

\* When every handler has run, next_node and rtable name the closest server.
Linked(s) ==
    /\ next[s] = zk_closest_node(s, znodes)
    /\ next[s] # Null => link[s] = [to |-> next[s], open |-> TRUE]
ChainLinked == Settled => \A s \in Serving : Linked(s)

\* A server moves to another successor only after the old one is gone.
MovesPastDead ==
    \A s \in Server :
        (next[s] # Null /\ next'[s] # next[s]) =>
            \/ next[s] \notin znodes
            \/ phase'[s] = "crashed"
NextMovesPastDead == [][MovesPastDead]_vars

\* Every call of every client, and of every server, comes to an end.
CallsEnd == \A x \in Caller : call[x] # Null ~> call[x] = Null

\* Every server that starts gets to serve, unless it fails.
JoinsEnd == \A s \in Server :
    phase[s] = "registered" ~> phase[s] \in {"serving", "crashed"}

\* Failures stop at some time (MaxCrashes); from some time on the servers
\* that are left are linked to each other.
Relinks == <>[](\A s \in Serving : Linked(s))

\* Linearizability: with an unchanging chain, the clients see one table.  An
\* update takes effect when the tail absorbs it, everything else when it is
\* answered.
Last == zk_get_tail(znodes)

Promise == INSTANCE KVStore WITH
    Operation <- [op : {"put", "del"}, id : 1 .. MaxUpdates, key : Key,
                  val : Value \cup {Null}] \cup [op : {"get"}, key : Key],
    Fallible <- FALSE,
    store <- table[Last],
    pending <- [c \in Client |-> IF call[c] = Null THEN Null ELSE call[c].req],
    result <- [c \in Client |->
                IF call[c] = Null THEN Null
                ELSE IF call[c].answer = Null /\ IsUpdate(call[c].req)
                        /\ Holds(Last, call[c].req)
                     THEN Ok
                     ELSE call[c].answer]
Linearizable == Promise!Spec
=============================================================================
