------------------------------ MODULE ZkClient ------------------------------
(***************************************************************************)
(* The client's view of the chain: zk_client.c, with the main thread of    *)
(* table_client.c that uses its two connections. Two threads of one        *)
(* process run make_connections: the main thread in zk_init, and the       *)
(* completion thread of ZooKeeper in zk_children_handler, while the main   *)
(* thread may be in the middle of a call.                                  *)
(*                                                                         *)
(* A znode is the number in its name. A descriptor refers to a connection  *)
(* until it is closed, and then its number goes to the next connection; a  *)
(* read that has begun stays with its connection.                          *)
(***************************************************************************)
EXTENDS Integers, FiniteSets

CONSTANTS
    Server,          \* numbers: servers that are in the chain or may join
    Founders,        \* those in the chain at first
    Fd,              \* numbers: descriptors of the client
    Null,
    StartsWhenIdle,  \* the chain does not change during zk_init
    SessionExpires   \* the client's session with ZooKeeper may expire

ASSUME ZkClientAssumption ==
    /\ Server \subseteq Nat /\ IsFiniteSet(Server) /\ Founders \subseteq Server
    /\ Fd \subseteq Nat /\ \E f, g \in Fd : f # g    \* room for the head and the tail
    /\ Null \notin Server \cup Fd
    /\ Null \notin [no : Nat, fd : Fd] /\ Null \notin [no : Nat, server : Server]
    /\ {StartsWhenIdle, SessionExpires} \subseteq BOOLEAN

Thread == {"main", "watcher"}
Side == {"write", "read"}    \* the head and the tail

VARIABLES
    znodes,    \* the children of /chain
    alive,     \* the servers that run and accept connections
    joined,    \* the servers that have ever joined
    session,   \* the client's session is valid
    watch,     \* the watch on the children: "none", "armed" or "fired"
    pc, side,  \* what each thread does, and for which connection
    listed,    \* the head and the tail in the children each thread listed
    address,   \* the address each thread got from ZooKeeper
    names,     \* head_name and tail_name
    pair,      \* the rtables of connections: write and read
    live,      \* the rtables that are allocated
    files,     \* the connection of each descriptor
    serial,    \* number of connections made
    call       \* the call of the main thread

zkVars == <<znodes, alive, joined, session>>
pairVars == <<names, pair, live, files, serial>>
threadVars == <<pc, side, listed, address>>
vars == <<zkVars, watch, threadVars, pairVars, call>>

NoCall == [rtable |-> Null, fd |-> Null, asked |-> Null, reading |-> Null]

Lowest(S) == CHOOSE n \in S : \A m \in S : n <= m
Highest(S) == CHOOSE n \in S : \A m \in S : n >= m

Running == pc["main"] # "ended"
Starting == pc["main"] \in {"start", "compare", "data", "disconnect", "connect"}

-----------------------------------------------------------------------------
(* The servers and ZooKeeper. *)

MayChange == StartsWhenIdle => ~Starting

\* A change of the children fires the watch, once.
Fires == watch' = IF watch = "armed" /\ session THEN "fired" ELSE watch

Join(s) ==
    /\ MayChange /\ s \notin joined
    /\ \A r \in joined : r < s
    /\ joined' = joined \cup {s}
    /\ alive' = alive \cup {s}
    /\ znodes' = znodes \cup {s}
    /\ Fires
    /\ UNCHANGED <<session, threadVars, pairVars, call>>

Crash(s) ==
    /\ MayChange /\ s \in alive
    /\ alive' = alive \ {s}
    /\ UNCHANGED <<znodes, joined, session, watch, threadVars, pairVars, call>>

\* ZooKeeper removes the znode of a server some time after its crash.
Expire(s) ==
    /\ MayChange /\ s \in znodes \ alive
    /\ znodes' = znodes \ {s}
    /\ Fires
    /\ UNCHANGED <<alive, joined, session, threadVars, pairVars, call>>

\* The client was not heard for too long. zk_connection_watcher clears a
\* flag that nothing reads, and no watch fires any more.
LoseSession ==
    /\ SessionExpires /\ session /\ Running
    /\ session' = FALSE
    /\ UNCHANGED <<znodes, alive, joined, watch, threadVars, pairVars, call>>

-----------------------------------------------------------------------------
(* make_connections, by thread t. *)

\* Mutant: the watch is not set again.
ListsWithoutWatch(t) ==
    /\ watch' = IF t = "main" THEN "armed" ELSE "none"
    /\ listed' = [listed EXCEPT ![t] =
                    [write |-> Lowest(znodes), read |-> Highest(znodes)]]

\* zoo_wget_children, zk_get_head and zk_get_tail.
Lists(t) ==
    /\ watch' = "armed"
    /\ listed' = [listed EXCEPT ![t] =
                    [write |-> Lowest(znodes), read |-> Highest(znodes)]]

BeginConnections(t) ==
    /\ pc' = [pc EXCEPT ![t] = "compare"]
    /\ side' = [side EXCEPT ![t] = "write"]

zk_init ==
    /\ pc["main"] = "start"
    /\ \/ /\ session /\ znodes # {}
          /\ Lists("main")
          /\ BeginConnections("main")
       \/ /\ ~session \/ znodes = {}
          /\ pc' = [pc EXCEPT !["main"] = "ended"]
          /\ UNCHANGED <<watch, side, listed>>
    /\ UNCHANGED <<zkVars, address, pairVars, call>>

\* Without children the connections stay, and the watch is set.
zk_children_handler ==
    /\ Running
    /\ pc["watcher"] = "idle" /\ watch = "fired"
    /\ \/ /\ session /\ znodes # {}
          /\ Lists("watcher")
          /\ BeginConnections("watcher")
       \/ /\ ~session \/ znodes = {}
          /\ watch' = IF session THEN "armed" ELSE "none"
          /\ UNCHANGED <<pc, side, listed>>
    /\ UNCHANGED <<zkVars, address, pairVars, call>>

\* zk_init returns the connections, or the client ends.
Finish(t, ok) ==
    pc' = [pc EXCEPT ![t] = CASE t = "watcher" -> "idle"
                              [] t = "main" /\ ok -> "ready"
                              [] OTHER -> "ended"]

\* The connection of the head is done: the tail's, or the end.
NextSide(t) ==
    IF side[t] = "write"
    THEN /\ pc' = [pc EXCEPT ![t] = "compare"]
         /\ side' = [side EXCEPT ![t] = "read"]
    ELSE Finish(t, TRUE) /\ UNCHANGED side

\* Mutant: only the connection of the head is looked at.
ComparesHead(t) == side[t] = "read" \/ names[side[t]] = listed[t][side[t]]

SameName(t) == names[side[t]] = listed[t][side[t]]

Compare(t) ==
    /\ Running /\ pc[t] = "compare"
    /\ \/ SameName(t) /\ NextSide(t)
       \/ ~SameName(t) /\ pc' = [pc EXCEPT ![t] = "data"] /\ UNCHANGED side
    /\ UNCHANGED <<zkVars, watch, listed, address, pairVars, call>>

\* The znode may be gone since the list was made.
zk_get_data(t) ==
    /\ Running /\ pc[t] = "data"
    /\ LET name == listed[t][side[t]] IN
        address' = [address EXCEPT ![t] =
                        IF session /\ name \in znodes THEN name ELSE Null]
    /\ pc' = [pc EXCEPT ![t] = "disconnect"]
    /\ UNCHANGED <<zkVars, watch, side, listed, pairVars, call>>

\* The rtable that a pointer refers to. The memory of a freed one has other
\* contents, or belongs by now to one allocated later.
Pointed(r) == IF r \in live THEN {r} ELSE live \cup {Null}

\* Mutant: the rtable is not freed.
ClosesOnly(r) ==
    \E target \in Pointed(r) :
        /\ UNCHANGED live
        /\ files' = IF target = Null THEN files
                    ELSE [files EXCEPT ![target.fd] = Null]

rtable_disconnect(r) ==
    \E target \in Pointed(r) :
        /\ live' = live \ {target}
        /\ files' = IF target = Null THEN files
                    ELSE [files EXCEPT ![target.fd] = Null]

\* Mutant: the old connection is not closed.
KeepsOld(t) ==
    /\ Running /\ pc[t] = "disconnect"
    /\ UNCHANGED <<live, files>>
    /\ pc' = [pc EXCEPT ![t] = "connect"]
    /\ UNCHANGED <<zkVars, watch, side, listed, address, names, pair, serial, call>>

\* The pointer to the freed rtable stays in the pair until the next step.
Disconnect(t) ==
    /\ Running /\ pc[t] = "disconnect"
    /\ LET old == pair[side[t]] IN
        IF old = Null THEN UNCHANGED <<live, files>> ELSE rtable_disconnect(old)
    /\ pc' = [pc EXCEPT ![t] = "connect"]
    /\ UNCHANGED <<zkVars, watch, side, listed, address, names, pair, serial, call>>

\* rtable_connect. The name is set although there may be no connection, and
\* then the tail is not looked at.
Connect(t) ==
    LET fd == Lowest({f \in Fd : files[f] = Null})
        r == [no |-> serial + 1, fd |-> fd]
        ok == address[t] \in alive
    IN /\ Running /\ pc[t] = "connect"
       /\ names' = [names EXCEPT ![side[t]] = listed[t][side[t]]]
       /\ pair' = [pair EXCEPT ![side[t]] = IF ok THEN r ELSE Null]
       /\ IF ok
          THEN /\ serial' = serial + 1
               /\ live' = live \cup {r}
               /\ files' = [files EXCEPT ![fd] =
                                [no |-> serial + 1, server |-> address[t]]]
               /\ NextSide(t)
          ELSE Finish(t, FALSE) /\ UNCHANGED <<serial, live, files, side>>
       /\ UNCHANGED <<zkVars, watch, listed, address, call>>

make_connections(t) == Compare(t) \/ zk_get_data(t) \/ Disconnect(t) \/ Connect(t)

-----------------------------------------------------------------------------
(* A call of the main thread: rtable_put, rtable_get and the others. *)

Call(s) ==
    /\ pc["main"] = "ready"
    /\ pair[s] # Null
    /\ call' = [NoCall EXCEPT !.rtable = pair[s]]
    /\ pc' = [pc EXCEPT !["main"] = "send"]
    /\ UNCHANGED <<zkVars, watch, side, listed, address, pairVars>>

Return ==
    /\ pc' = [pc EXCEPT !["main"] = "ready"]
    /\ call' = NoCall

\* sockfd is read from the rtable, and the request written to it.
Send ==
    /\ pc["main"] = "send"
    /\ \E target \in Pointed(call.rtable) :
        LET fd == IF target = Null THEN Null ELSE target.fd
            file == IF fd = Null THEN Null ELSE files[fd]
        IN IF file = Null \/ file.server \notin alive THEN Return
           ELSE /\ call' = [call EXCEPT !.fd = fd, !.asked = file]
                /\ pc' = [pc EXCEPT !["main"] = "receive"]
    /\ UNCHANGED <<zkVars, watch, side, listed, address, pairVars>>

\* read finds the connection of the descriptor, if it has one now.
Receive ==
    /\ pc["main"] = "receive" /\ call.reading = Null
    /\ IF files[call.fd] = Null THEN Return
       ELSE call' = [call EXCEPT !.reading = files[call.fd]] /\ UNCHANGED pc
    /\ UNCHANGED <<zkVars, watch, side, listed, address, pairVars>>

\* Mutant: the end of the stream is not looked at.
WaitsForAnswer ==
    /\ pc["main"] = "receive" /\ call.reading # Null
    /\ call.reading = call.asked /\ call.reading.server \in alive
    /\ Return
    /\ UNCHANGED <<zkVars, watch, side, listed, address, pairVars>>

\* A server answers on the connection where it was asked, and a connection
\* ends with its server.
Answered ==
    /\ pc["main"] = "receive" /\ call.reading # Null
    /\ call.reading = call.asked \/ call.reading.server \notin alive
    /\ Return
    /\ UNCHANGED <<zkVars, watch, side, listed, address, pairVars>>

\* The command quit: it disconnects the read and the write connection, and
\* destroy_zk both again.
QuitSteps == <<"quit", "quit_write", "destroy", "destroy_write", "ended">>

quit ==
    /\ pc["main"] = "ready"
    /\ pc' = [pc EXCEPT !["main"] = "quit"]
    /\ UNCHANGED <<zkVars, watch, side, listed, address, pairVars, call>>

QuitStep(i) ==
    /\ pc["main"] = QuitSteps[i]
    /\ LET r == pair[IF i \in {1, 3} THEN "read" ELSE "write"] IN
        IF r = Null THEN UNCHANGED <<live, files>> ELSE rtable_disconnect(r)
    /\ pc' = [pc EXCEPT !["main"] = QuitSteps[i + 1]]
    /\ UNCHANGED <<zkVars, watch, side, listed, address, names, pair, serial, call>>

-----------------------------------------------------------------------------

Init ==
    /\ znodes = Founders /\ alive = Founders /\ joined = Founders
    /\ session = TRUE
    /\ watch = "none"
    /\ pc = [main |-> "start", watcher |-> "idle"]
    /\ side = [t \in Thread |-> "write"]
    /\ listed = [t \in Thread |-> [s \in Side |-> Null]]
    /\ address = [t \in Thread |-> Null]
    /\ names = [s \in Side |-> Null]
    /\ pair = [s \in Side |-> Null]
    /\ live = {}
    /\ files = [f \in Fd |-> Null]
    /\ serial = 0
    /\ call = NoCall

MainStep ==
    \/ zk_init \/ make_connections("main")
    \/ Send \/ Receive \/ Answered
    \/ \E i \in 1..4 : QuitStep(i)

WatcherStep == zk_children_handler \/ make_connections("watcher")

Next ==
    \/ \E s \in Server : Join(s) \/ Crash(s) \/ Expire(s)
    \/ LoseSession
    \/ MainStep \/ WatcherStep
    \/ \E s \in Side : Call(s)
    \/ quit

\* Threads run, and the session of a server that crashed expires. Nobody has
\* to join, to crash, to call or to quit.
Spec ==
    /\ Init /\ [][Next]_vars
    /\ WF_vars(MainStep) /\ WF_vars(WatcherStep)
    /\ \A s \in Server : WF_vars(Expire(s))

-----------------------------------------------------------------------------
(* Properties. *)

Rtables == [no : 1..serial, fd : Fd]

\* Variables have their types, and an allocated rtable has the descriptor of
\* its own connection.
TypeOK ==
    /\ znodes \subseteq joined /\ alive \subseteq joined /\ joined \subseteq Server
    /\ watch \in {"none", "armed", "fired"}
    /\ live \subseteq Rtables
    /\ pair \in [Side -> Rtables \cup {Null}]
    /\ names \in [Side -> Server \cup {Null}]
    /\ files \in [Fd -> [no : 1..serial, server : Server] \cup {Null}]
    /\ \A r \in live : files[r.fd] # Null /\ files[r.fd].no = r.no

\* Every open connection is one of the pair: make_connections closes the one
\* it replaces, whatever failed before, and a client that follows a long
\* life of the chain does not run out of descriptors.
NoLeak ==
    Running => \A f \in Fd : files[f] # Null =>
                \E s \in Side : pair[s] # Null /\ pair[s].fd = f

Connected(s, server) ==
    /\ pair[s] \in live
    /\ files[pair[s].fd] # Null
    /\ files[pair[s].fd].server = server

InUse == pc["main"] \in {"ready", "send", "receive"}

\* With the first server of the chain for updates, the last for reads.
UpToDate ==
    \/ znodes = {}
    \/ /\ Connected("write", Lowest(znodes))
       /\ Connected("read", Highest(znodes))

\* When the chain stops changing, the client ends up connected to its first
\* server for updates and to its last for reads, whatever it missed while it
\* handled an earlier change: a server that left between the list and the
\* data, a connection that failed, changes during make_connections. It has
\* to be heard by ZooKeeper all the time.
FollowsChain == <>[](InUse /\ session => UpToDate)

\* The same of every client.
AlwaysFollowsChain == <>[](InUse => UpToDate)

\* A call returns, with an answer or an error.
CallsEnd == (pc["main"] = "receive") ~> (pc["main"] # "receive")

\* A call ends, whatever happens to its server and to the session, unless the
\* rtable it uses is freed: by the watcher, in the middle of the call.
CallsEndUnlessFreed ==
    (pc["main"] = "receive")
        ~> (pc["main"] # "receive" \/ call.rtable \notin live)
=============================================================================
