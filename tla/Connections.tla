---------------------------- MODULE Connections ----------------------------
(***************************************************************************)
(* The accept loop of a server and the descriptors of its connections      *)
(* (network_main_loop and handle_client of network_server.c). Each client  *)
(* connects once. A descriptor refers to a connection until it is closed,  *)
(* and then its number goes to the next connection that is accepted; a     *)
(* read that has begun stays with its connection.                          *)
(***************************************************************************)
EXTENDS Integers, FiniteSets

CONSTANTS Client,
          Fd,           \* numbers: the descriptors the process may have
          MaxThreads,   \* the threads it may have, ended ones that nobody
                        \* joined included
          MallocFails,  \* the allocation of a node may fail
          Null

ASSUME ConnectionsAssumption ==
    /\ IsFiniteSet(Client) /\ Fd \subseteq Nat
    /\ MaxThreads \in Nat /\ MallocFails \in BOOLEAN
    /\ Null \notin Client \cup Fd

VARIABLES
    loop,      \* the accept loop: "accept", "ended", or "exited" with the
               \* process
    client,    \* what each client does
    backlog,   \* the clients that wait to be accepted
    files,     \* the client of each descriptor
    pc,        \* what the handler thread of each client does
    socket,    \* client_socket of each thread
    reading,   \* the client a thread has a read for
    got        \* the client whose answer each client got last

vars == <<loop, client, backlog, files, pc, socket, reading, got>>

Init ==
    /\ loop = "accept"
    /\ client = [c \in Client |-> "off"]
    /\ backlog = {}
    /\ files = [f \in Fd |-> Null]
    /\ pc = [c \in Client |-> "none"]
    /\ socket = [c \in Client |-> Null]
    /\ reading = [c \in Client |-> Null]
    /\ got = [c \in Client |-> Null]

Free == {f \in Fd : files[f] = Null}
Threads == {t \in Client : pc[t] \notin {"none", "refused"}}

-----------------------------------------------------------------------------
(* The clients. *)

Connect(c) ==
    /\ client[c] = "off"
    /\ client' = [client EXCEPT ![c] = "idle"]
    /\ backlog' = backlog \cup {c}
    /\ UNCHANGED <<loop, files, pc, socket, reading, got>>

Ask(c) ==
    /\ client[c] = "idle" /\ got[c] = Null
    /\ client' = [client EXCEPT ![c] = "waiting"]
    /\ UNCHANGED <<loop, backlog, files, pc, socket, reading, got>>

HangUp(c) ==
    /\ client[c] \in {"idle", "waiting"}
    /\ client' = [client EXCEPT ![c] = "gone"]
    /\ UNCHANGED <<loop, backlog, files, pc, socket, reading, got>>

-----------------------------------------------------------------------------
(* network_main_loop *)

\* Mutant: the thread starts before the number is where it reads it.
StartsBeforeStoring(c) ==
    LET fd == CHOOSE f \in Free : \A g \in Free : f <= g IN
    /\ loop = "accept" /\ c \in backlog /\ Free # {}
    /\ backlog' = backlog \ {c}
    /\ files' = [files EXCEPT ![fd] = c]
    /\ pc' = [pc EXCEPT ![c] = IF Cardinality(Threads) < MaxThreads
                               THEN "receive" ELSE "refused"]
    /\ UNCHANGED <<loop, client, socket, reading, got>>

accept(c) ==
    LET fd == CHOOSE f \in Free : \A g \in Free : f <= g IN
    /\ loop = "accept" /\ c \in backlog /\ Free # {}
    /\ backlog' = backlog \ {c}
    /\ files' = [files EXCEPT ![fd] = c]
    /\ socket' = [socket EXCEPT ![c] = fd]
    \* The result of pthread_create is not looked at.
    /\ pc' = [pc EXCEPT ![c] = IF Cardinality(Threads) < MaxThreads
                               THEN "receive" ELSE "refused"]
    /\ UNCHANGED <<loop, client, reading, got>>

ProcessEnds ==
    /\ loop' = "exited"
    /\ files' = [f \in Fd |-> Null]

\* Without a descriptor the loop ends; without memory for the node it closes
\* the socket of the client and ends. Memory for the number is used untested.
AcceptFails(c) ==
    /\ loop = "accept" /\ c \in backlog
    /\ \/ /\ Free = {}
          /\ loop' = "ended"
          /\ UNCHANGED <<backlog, files>>
       \/ /\ Free # {} /\ MallocFails
          /\ backlog' = backlog \ {c}
          /\ \/ loop' = "ended" /\ UNCHANGED files
             \/ ProcessEnds
    /\ UNCHANGED <<client, pc, socket, reading, got>>

\* main goes on after the loop and cleans up (as Shutdown has it for SIGINT).
\* Until then the threads handle their clients.
Exit ==
    /\ loop = "ended"
    /\ ProcessEnds
    /\ UNCHANGED <<client, backlog, pc, socket, reading, got>>

-----------------------------------------------------------------------------
(* handle_client, by the thread of client t. *)

Goto(t, l) == pc' = [pc EXCEPT ![t] = l]

\* network_receive: read takes the connection its descriptor has now.
Receive(t) ==
    /\ pc[t] = "receive"
    /\ IF files[socket[t]] = Null THEN Goto(t, "close")
       ELSE Goto(t, "read")
    /\ reading' = [reading EXCEPT ![t] = files[socket[t]]]
    /\ UNCHANGED <<loop, client, backlog, files, socket, got>>

\* Mutant: the end of the stream is not looked at.
ReadsRequestsOnly(t) ==
    /\ pc[t] = "read"
    /\ client[reading[t]] = "waiting"
    /\ Goto(t, "invoke")
    /\ UNCHANGED <<loop, client, backlog, files, socket, reading, got>>

Read(t) ==
    /\ pc[t] = "read"
    /\ \/ client[reading[t]] = "waiting" /\ Goto(t, "invoke") /\ UNCHANGED reading
       \/ /\ client[reading[t]] = "gone" /\ Goto(t, "close")
          /\ reading' = [reading EXCEPT ![t] = Null]
    /\ UNCHANGED <<loop, client, backlog, files, socket, got>>

\* invoke gives an answer, or -1.
Invoke(t) ==
    /\ pc[t] = "invoke"
    /\ Goto(t, "send") \/ Goto(t, "close")
    /\ reading' = [reading EXCEPT ![t] = Null]
    /\ UNCHANGED <<loop, client, backlog, files, socket, got>>

\* network_send writes to the connection that its descriptor has now, and an
\* error of it changes nothing.
Send(t) ==
    /\ pc[t] = "send"
    /\ LET c == files[socket[t]] IN
        IF c = Null \/ client[c] = "gone" THEN UNCHANGED <<client, got>>
        ELSE /\ got' = [got EXCEPT ![c] = t]
             /\ client' = [client EXCEPT ![c] = "idle"]
    /\ Goto(t, "receive")
    /\ UNCHANGED <<loop, backlog, files, socket, reading>>

Closes(fd) == files' = [files EXCEPT ![fd] = Null]

\* Mutant: the socket is closed at the end only, and not on this path.
BreaksAndExits(t) ==
    /\ pc[t] = "close"
    /\ Goto(t, "gone")
    /\ UNCHANGED <<loop, client, backlog, files, socket, reading, got>>

\* The close before break, on both error paths.
Close(t) ==
    /\ pc[t] = "close"
    /\ Closes(socket[t])
    /\ Goto(t, "close_again")
    /\ UNCHANGED <<loop, client, backlog, socket, reading, got>>

\* The close after the loop.
CloseAgain(t) ==
    /\ pc[t] = "close_again"
    /\ Closes(socket[t])
    /\ Goto(t, "gone")
    /\ UNCHANGED <<loop, client, backlog, socket, reading, got>>

Handle(t) ==
    /\ loop # "exited"
    /\ \/ Receive(t) \/ Read(t) \/ Invoke(t) \/ Send(t)
       \/ Close(t) \/ CloseAgain(t)

Next ==
    \/ \E c \in Client :
        \/ Connect(c) \/ Ask(c) \/ HangUp(c)
        \/ accept(c) \/ AcceptFails(c)
        \/ Handle(c)
    \/ Exit

\* Threads run, and the loop accepts. No client has to do anything.
Spec ==
    /\ Init /\ [][Next]_vars
    /\ \A c \in Client : WF_vars(Handle(c)) /\ WF_vars(accept(c))

-----------------------------------------------------------------------------
(* Properties. *)

\* A thread has a socket, and a client is at one descriptor at most.
TypeOK ==
    /\ \A t \in Threads : socket[t] \in Fd
    /\ \A f, g \in Fd : files[f] # Null /\ files[f] = files[g] => f = g
    /\ backlog \subseteq {c \in Client : client[c] # "off" /\ pc[c] = "none"}

\* A thread that has ended leaves no descriptor open, whichever way it ended
\* and whatever other threads did to its descriptor: connections that come
\* and go do not use up the descriptors.
DescriptorsReturned ==
    \A f \in Fd : files[f] # Null => pc[files[f]] # "gone"

\* The thread of a client that is gone ends, until the process does: nobody
\* goes on reading from a connection that has ended, also when the server
\* accepts no other any more.
HangUpsClear == \A c \in Client :
    (client[c] = "gone" /\ pc[c] = "read" /\ reading[c] = c)
        ~> (pc[c] = "gone" \/ loop = "exited")

\* The answer that a client gets is the answer to its own request.
AnswersOwn == \A c \in Client : got[c] \in {Null, c}

\* A client that is accepted gets a thread that handles it, unless as many
\* clients as there can be threads are being handled.
RefusedOnlyWhenFull ==
    [][\A c \in Client : pc[c] = "none" /\ pc'[c] = "refused"
            => Cardinality({t \in Threads : pc[t] # "gone"}) >= MaxThreads]_vars
=============================================================================
