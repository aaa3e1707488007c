------------------------------ MODULE Framing ------------------------------
(***************************************************************************)
(* One connection: a client's network_send_receive and the loop of a       *)
(* server's handle_client, over read_all and write_all. A message is sent  *)
(* as its length in two bytes and then its body. TCP delivers the bytes in *)
(* order, in pieces of any size. A byte has Base values instead of 256.    *)
(*                                                                         *)
(* A byte is identified by the message it was written for and its place in *)
(* it: 0 and 1 are the length, high byte first, and 2.. the body, whose    *)
(* values are not modelled: read as a length they can be any number.       *)
(***************************************************************************)
EXTENDS Integers, Sequences

CONSTANTS Base,            \* values of a byte
          RequestLength,   \* lengths of the messages of the client
          ResponseLength,  \* and of the server
          Capacity,        \* bytes in flight in one direction
          MaxCalls,        \* bound: requests the client sends
          Failing          \* what there may be no memory for

\* What the two sides allocate for a message. The server's buffer for a
\* request is not here: without it the socket is closed (ServerCloses).
Allocation ==
    {"packed request", "answer body", "answer", "request", "packed answer"}

ASSUME FramingAssumption ==
    /\ Base \in Nat /\ Base > 1 /\ Base % 2 = 0
    /\ RequestLength \subseteq Nat \ {0}
    /\ ResponseLength \subseteq Nat \ {0}
    /\ Capacity \in Nat \ {0} /\ MaxCalls \in Nat
    /\ Failing \subseteq Allocation

VARIABLES
    clientPc, serverPc,    \* what each is doing
    toServer, toClient,    \* bytes in flight
    clientOut, serverOut,  \* bytes each has still to write
    clientBuf, serverBuf,  \* bytes each has read of a length or a body
    clientLen, serverLen,  \* length of the body each reads
    call,                  \* number of the client's last call
    handled,               \* call of the last message invoke got, 0 for none
    returned,              \* call whose answer the last call returned,
                           \* 0 for NULL
    unread                 \* a history: the body of an answer was left in the
                           \* stream

clientVars ==
    <<clientPc, clientOut, clientBuf, clientLen, call, returned, unread>>
serverVars == <<serverPc, serverOut, serverBuf, serverLen, handled>>
vars == <<clientVars, serverVars, toServer, toClient>>

Garbled == -1     \* the call of a message unpacked from other bytes
Null == 0         \* no message

Message(kind, c, len) == [kind |-> kind, call |-> c, len |-> len]

Frame(m) == [i \in 1..(m.len + 2) |-> [of |-> m, at |-> i - 1]]

Body(m) == [i \in 1..m.len |-> [of |-> m, at |-> i + 1]]

\* The values a byte can have. htons(len) keeps the low 16 bits.
Values(b) ==
    CASE b.at = 0 -> {(b.of.len \div Base) % Base}
      [] b.at = 1 -> {b.of.len % Base}
      [] OTHER -> 0..(Base - 1)

\* protobuf unpacks what was packed. From other bytes it gets nothing or, if
\* a field ends there, another message.
Unpack(bytes) ==
    IF bytes # <<>> /\ Body(bytes[1].of) = bytes THEN {bytes[1].of.call}
    ELSE {Null, Garbled}

ServerOpen == serverPc \notin {"refused", "closed", "crashed"}
ClientOpen == clientPc # "gone"

-----------------------------------------------------------------------------
(* message.c *)

\* The loops end when all the bytes are read or written.
AllBytes(done, count) == done = count

\* Mutant: read is asked for all the bytes again.
ReadsTooMuch(stream, buf, count) ==
    \E n \in 1..count :
        /\ n <= Len(stream) /\ Len(buf) < count
        /\ buf' = buf \o SubSeq(stream, 1, n)
        /\ stream' = SubSeq(stream, n + 1, Len(stream))

\* read_all gets some of the bytes that are there.
read_all(stream, buf, count) ==
    \E n \in 1..(count - Len(buf)) :
        /\ n <= Len(stream)
        /\ buf' = buf \o SubSeq(stream, 1, n)
        /\ stream' = SubSeq(stream, n + 1, Len(stream))

\* Mutant: write goes back to the start of the buffer.
RewritesStart(out, stream) ==
    \E n \in 1..Len(out) :
        /\ n <= Capacity - Len(stream)
        /\ stream' = stream \o SubSeq(out, 1, n)
        /\ out' = SubSeq(out, 1, Len(out) - n)

\* write_all writes what there is room for.
write_all(out, stream) ==
    \E n \in 1..Len(out) :
        /\ n <= Capacity - Len(stream)
        /\ stream' = stream \o SubSeq(out, 1, n)
        /\ out' = SubSeq(out, n + 1, Len(out))

\* What a side reads: the two bytes of a length, or a body.
Wanted(pc, len) == IF pc = "length" THEN 2 ELSE len

\* Mutant: the result 0 of read is not looked at.
NeverEnds(missing, stream, peerOpen) == FALSE

\* Bytes are missing, and read gives 0 or an error: the peer has closed and
\* nothing is left in the stream.
Ended(missing, stream, peerOpen) == missing > 0 /\ stream = <<>> /\ ~peerOpen

-----------------------------------------------------------------------------
(* The client: network_client.c. *)

network_send_receive ==
    /\ clientPc = "idle" /\ call < MaxCalls
    /\ call' = call + 1
    /\ returned' = Null
    /\ \E len \in RequestLength :
        clientOut' = Frame(Message("request", call + 1, len))
    /\ clientPc' = "write"
    /\ UNCHANGED <<clientBuf, clientLen, unread, serverVars, toServer, toClient>>

\* Without memory for the request nothing is sent: the call returns NULL.
RequestNotPacked ==
    /\ clientPc = "idle" /\ "packed request" \in Failing
    /\ returned' = Null
    /\ UNCHANGED <<clientPc, clientOut, clientBuf, clientLen, call, unread,
                   serverVars, toServer, toClient>>

ClientWrite ==
    /\ clientPc = "write" /\ ServerOpen
    /\ write_all(clientOut, toServer)
    /\ clientPc' = IF AllBytes(Len(clientOut) - Len(clientOut'), Len(clientOut))
                   THEN "length" ELSE "write"
    /\ clientBuf' = <<>>
    /\ UNCHANGED <<clientLen, call, returned, unread, serverVars, toClient>>

ClientRead ==
    /\ clientPc \in {"length", "body"}
    /\ read_all(toClient, clientBuf, Wanted(clientPc, clientLen))
    /\ UNCHANGED <<clientPc, clientOut, clientLen, call, returned, unread,
                   serverVars, toServer>>

ClientLength ==
    /\ clientPc = "length" /\ AllBytes(Len(clientBuf), 2)
    /\ \E high \in Values(clientBuf[1]), low \in Values(clientBuf[2]) :
        clientLen' = Base * high + low
    /\ clientBuf' = <<>>
    /\ clientPc' = "body"
    /\ UNCHANGED <<clientOut, call, returned, unread,
                   serverVars, toServer, toClient>>

\* Without memory for the body of the answer the call returns NULL and leaves
\* the body in the stream.
AnswerNotRead ==
    /\ clientPc = "length" /\ AllBytes(Len(clientBuf), 2)
    /\ "answer body" \in Failing
    /\ clientPc' = "idle"
    /\ unread' = TRUE
    /\ clientBuf' = <<>>
    /\ UNCHANGED <<clientOut, clientLen, call, returned,
                   serverVars, toServer, toClient>>

ClientUnpack ==
    /\ clientPc = "body" /\ AllBytes(Len(clientBuf), clientLen)
    /\ returned' \in Unpack(clientBuf)
    /\ clientPc' = "idle"
    /\ clientBuf' = <<>>
    /\ UNCHANGED <<clientOut, clientLen, call, unread,
                   serverVars, toServer, toClient>>

\* A write or a read that fails ends the call, and so does an answer there is
\* no memory to unpack: it returns NULL.
ClientFails ==
    /\ \/ clientPc = "write" /\ ~ServerOpen
       \/ /\ clientPc \in {"length", "body"}
          /\ Ended(Wanted(clientPc, clientLen) - Len(clientBuf),
                   toClient, ServerOpen)
       \/ /\ clientPc = "body" /\ AllBytes(Len(clientBuf), clientLen)
          /\ "answer" \in Failing
    /\ clientPc' = "idle"
    /\ clientOut' = <<>> /\ clientBuf' = <<>>
    /\ UNCHANGED <<clientLen, call, returned, unread,
                   serverVars, toServer, toClient>>

\* network_close, or the end of the client's process, in the middle of a
\* call too.
network_close ==
    /\ ClientOpen
    /\ clientPc' = "gone"
    /\ UNCHANGED <<clientOut, clientBuf, clientLen, call, returned, unread,
                   serverVars, toServer, toClient>>

-----------------------------------------------------------------------------
(* The server: network_receive, invoke and network_send of network_server.c. *)

ServerRead ==
    /\ serverPc \in {"length", "body"}
    /\ read_all(toServer, serverBuf, Wanted(serverPc, serverLen))
    /\ UNCHANGED <<serverPc, serverOut, serverLen, handled,
                   clientVars, toClient>>

\* Mutant: the lowest length is refused with the others.
RefusesOne(high, low) == low >= Base \div 2 \/ (high = 0 /\ low <= 1)

\* message_size <= 0, before ntohs: a little-endian machine has the low byte
\* of the length in the high byte, with the sign.
Refuses(high, low) == low >= Base \div 2 \/ (high = 0 /\ low = 0)

\* network_receive returns NULL for a length it refuses, and handle_client
\* closes the socket.
ServerLength ==
    /\ serverPc = "length" /\ AllBytes(Len(serverBuf), 2)
    /\ \E high \in Values(serverBuf[1]), low \in Values(serverBuf[2]) :
        /\ serverLen' = Base * high + low
        /\ serverPc' = IF Refuses(high, low) THEN "refused" ELSE "body"
    /\ serverBuf' = <<>>
    /\ UNCHANGED <<serverOut, handled, clientVars, toServer, toClient>>

\* The opcode of the message is read before the pointer is tested: without a
\* message, or memory for it, the process ends.
ServerUnpack ==
    /\ serverPc = "body" /\ AllBytes(Len(serverBuf), serverLen)
    /\ \E m \in Unpack(serverBuf) \cup (IF "request" \in Failing THEN {Null}
                                        ELSE {}) :
        /\ serverPc' = IF m = Null THEN "crashed" ELSE "invoke"
        /\ handled' = IF m = Null THEN handled ELSE m
    /\ serverBuf' = <<>>
    /\ UNCHANGED <<serverOut, serverLen, clientVars, toServer, toClient>>

network_send ==
    /\ serverPc = "invoke"
    /\ \E len \in ResponseLength :
        serverOut' = Frame(Message("response", handled, len))
    /\ serverPc' = "write"
    /\ UNCHANGED <<serverBuf, serverLen, handled, clientVars,
                   toServer, toClient>>

\* Without memory for the answer network_send returns -1 with nothing sent,
\* and handle_client goes on to the next request.
AnswerNotPacked ==
    /\ serverPc = "invoke" /\ "packed answer" \in Failing
    /\ serverPc' = "length"
    /\ UNCHANGED <<serverOut, serverBuf, serverLen, handled, clientVars,
                   toServer, toClient>>

ServerWrite ==
    /\ serverPc = "write" /\ ClientOpen
    /\ write_all(serverOut, toClient)
    /\ serverPc' = IF AllBytes(Len(serverOut) - Len(serverOut'), Len(serverOut))
                   THEN "length" ELSE "write"
    /\ UNCHANGED <<serverBuf, serverLen, handled, clientVars, toServer>>

\* So it does when the client is gone.
ServerWriteFails ==
    /\ serverPc = "write" /\ ~ClientOpen
    /\ serverPc' = "length"
    /\ serverOut' = <<>>
    /\ UNCHANGED <<serverBuf, serverLen, handled, clientVars,
                   toServer, toClient>>

\* read_all reports the end of the stream, in a length or in a body.
ServerEnds ==
    /\ serverPc \in {"length", "body"}
    /\ Ended(Wanted(serverPc, serverLen) - Len(serverBuf), toServer, ClientOpen)
    /\ serverPc' = "closed"
    /\ UNCHANGED <<serverOut, serverBuf, serverLen, handled, clientVars,
                   toServer, toClient>>

\* invoke gives -1 (an operation it does not know, no memory), or the server
\* is stopped. A reset can take with it what the client has not read.
ServerCloses ==
    /\ ServerOpen
    /\ serverPc' = "closed"
    /\ toClient' \in {toClient, <<>>}
    /\ UNCHANGED <<serverOut, serverBuf, serverLen, handled, clientVars,
                   toServer>>

-----------------------------------------------------------------------------

Init ==
    /\ clientPc = "idle" /\ serverPc = "length"
    /\ toServer = <<>> /\ toClient = <<>>
    /\ clientOut = <<>> /\ serverOut = <<>>
    /\ clientBuf = <<>> /\ serverBuf = <<>>
    /\ clientLen = 0 /\ serverLen = 0
    /\ call = 0 /\ handled = 0 /\ returned = 0 /\ unread = FALSE

ClientStep ==
    \/ ClientWrite \/ ClientRead \/ ClientLength \/ AnswerNotRead
    \/ ClientUnpack \/ ClientFails

ServerStep ==
    \/ ServerRead \/ ServerLength \/ ServerUnpack
    \/ network_send \/ AnswerNotPacked \/ ServerWrite \/ ServerWriteFails \/ ServerEnds

Next ==
    \/ network_send_receive \/ RequestNotPacked \/ ClientStep \/ network_close
    \/ ServerStep \/ ServerCloses

\* A process that can go on does. Nobody has to call or to close.
Spec == Init /\ [][Next]_vars /\ WF_vars(ClientStep) /\ WF_vars(ServerStep)

-----------------------------------------------------------------------------
(* Properties. *)

\* Buffers hold no more than was asked for, the connection no more than its
\* capacity.
TypeOK ==
    /\ clientPc \in {"idle", "write", "length", "body", "gone"}
    /\ serverPc \in {"length", "body", "invoke", "write",
                     "refused", "closed", "crashed"}
    /\ Len(toServer) <= Capacity /\ Len(toClient) <= Capacity
    /\ clientPc = "length" => Len(clientBuf) <= 2
    /\ clientPc = "body" => Len(clientBuf) <= clientLen
    /\ serverPc = "length" => Len(serverBuf) <= 2
    /\ serverPc = "body" => Len(serverBuf) <= serverLen
    /\ call \in 0..MaxCalls
    /\ handled \in -1..MaxCalls /\ returned \in -1..MaxCalls

R == INSTANCE Rpc WITH waiting <- clientPc \in {"write", "length", "body"}

\* Whatever the sizes of the pieces and wherever one side stops, the server
\* handles the requests that were sent, each whole and once, and a call returns
\* the answer to its own request or NULL.
ImplementsRpc == R!Spec

\* So it is whatever there is no memory for, up to the first body of an answer
\* that a client without memory leaves in the stream (network_client.c:116).
\* The next call takes that body for its answer.
ImplementsRpcUntilUnread == R!Init /\ [][R!Next \/ unread]_(R!vars)

\* The only requests the server refuses are those whose length has a low byte
\* with its high bit set, and it refuses none but for the length it was sent
\* with: it never takes other bytes for a length.
RefusedOnlyHighBit ==
    serverPc = "refused" =>
        serverLen \in RequestLength /\ serverLen % Base >= Base \div 2

\* network_receive takes every request: the server never closes the
\* connection because of the length of a message of a client.
RequestsAccepted == serverPc # "refused"

\* A message cannot end the server's process: network_receive answers NULL
\* for one that it cannot unpack.
ServerRuns == serverPc # "crashed"

\* A call returns, with an answer or with NULL when the server closes.
CallsReturn == (clientPc = "write") ~> (clientPc \in {"idle", "gone"})

\* The client waits for an answer that the server had no memory to send: both
\* read, and nothing is on its way to either.
Unanswered ==
    /\ clientPc = "length" /\ clientBuf = <<>> /\ toClient = <<>>
    /\ serverPc = "length" /\ serverBuf = <<>> /\ toServer = <<>>
    /\ handled = call

\* The thread of a client that is gone, in the middle of a message too, gets
\* to the end of its loop and closes the socket.
HangUpsSeen == (clientPc = "gone") ~> ~ServerOpen

\* Neither end of a connection waits for the other for ever, wherever in a
\* message that one stops (read returns 0, and read_all gives up), but for the
\* client whose request was handled and whose answer could not be packed, and
\* for two that are out of step since the body of an answer was left unread.
WaitsEndUnlessUnanswered ==
    /\ (clientPc = "write") ~> (clientPc \in {"idle", "gone"} \/ Unanswered \/ unread)
    /\ HangUpsSeen
=============================================================================
