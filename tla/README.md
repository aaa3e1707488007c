# Verification of the replicated key-value store

The program is a key-value table kept by a chain of servers. ZooKeeper holds the
list of the servers, clients send updates to the head of the chain and reads to
its tail, and every server forwards an update to its successor before it answers.
This directory holds TLA+ modules translated from the C source under `src/`, TLC
configurations that check them on small instances, and theorems that TLAPS checks
for every value of the constants.

Contents: [the system](#the-system), [what is hard](#what-is-hard),
[the modules](#the-modules), [the runs](#the-runs), [findings](#what-the-code-does-not-do),
[the proofs](#the-proofs), [what is left out](#what-is-left-out), [plan](#plan).

To check a run, `tlc -config Chain_recovery.cfg MCChain.tla`; to check the proofs,
`tlapm Chain_proofs.tla`.

## The system

| component | state | operations | interacts with |
|---|---|---|---|
| locks (`locks.c`) | mutex, two conditions, `reads`, `writes`, `wwrites` | `readLock`, `leaveRead`, `writeLock`, `leaveWrite` | one lock for the table, one for the statistics |
| server chain (`zk_server.c`) | `this_node`, `next_node`, `next_node_data`, `rtable` | `zk_init`, `zk_children_handler`, `fill_table`, `next_node_put`, `next_node_del`, `destroy_zk` | ZooKeeper by calls and callbacks; other servers through the client stub |
| request handlers (`table_skel.c`) | none of their own | `invoke`: one branch for each opcode | table, lock, `next_node_put/del`, statistics |
| network server (`network_server.c`) | `client_socket_list` (handler threads and their sockets), statistics | `network_main_loop`, `handle_client`, `network_receive`, `network_send`, `network_server_close` | one thread per connection calls `invoke` |
| client stub, network client (`client_stub.c`, `network_client.c`) | a socket | `rtable_*`, `network_send_receive` | used by clients, and by servers to talk to their successor |
| framing (`message.c`) | none | `read_all`, `write_all`, two bytes of length | every connection |
| table (`table.c`, `list.c`, `entry.c`, `data.c`) | array of sorted lists | `table_put`, `table_get`, `table_remove`, `table_get_keys` | under the table's lock |
| client view (`zk_client.c`) | `head_name`, `tail_name`, two connections | `zk_init`, `make_connections`, `zk_children_handler`, `destroy_zk` | ZooKeeper; the command loop |
| statistics (`stats.c`) | three counters | updated by `handle_client`, read by `OP_STATS` | the second lock |
| main and shutdown (`table_server.c`) | signal handler | `stop_server` | every other part of a server |
| ZooKeeper | children of `/chain`, sessions, watches | external | servers and clients |

**Threads.** A server has a main thread (`zk_init`, then the accept loop), a
ZooKeeper completion thread that runs `zk_children_handler`, and a handler thread
per connection. The table is behind a readers/writer lock. `next_node` and
`rtable` are shared between the completion thread and the handler threads and are
behind no lock.

**An update.** `invoke` takes the write lock, changes the table, calls
`next_node_put` or `next_node_del`, which sends the update to the successor and
waits for its answer, releases the lock, and answers. So the head is locked until
the tail has answered.

**A start.** `zk_init` creates an ephemeral, sequential z-node, lists the children
and sets a watch, and if it is not alone asks the server just before it for the
whole table. Only then does the accept loop begin. The server before it learns of
the new one by a watch and connects to it.

**A failure.** The z-node goes when the session of the dead server times out.
Watches are one-shot; `zk_children_handler` sets its watch again and looks for the
nearest server above its own.

What makes each component correct:

- *lock*: a writer is alone; the counters are the numbers of threads; nobody sleeps
  with nobody left to wake him; it keeps what `locks.h` promises.
- *chain*: one order of updates; what was acknowledged is on every server; a
  failure takes nobody else down and the rest link up again; a new server ends up
  with the same table; calls and starts end.
- *handlers*: the locks are released on every path; what is answered is what
  happened. Together with the chain: clients see one linearizable table.
- *table*: it is a map, its size and its keys agree, an index is in bounds.
- *framing*: what is read is what was written, whatever its length.
- *connections*: counters match threads; a descriptor is closed once.
- *client view*: after the last change the client talks to the head and the tail.
- *shutdown*: no thread uses what is freed, and it ends.

## What is hard

`PROJECT.json` lists each hazard at its line. The ones that shaped the models:

- The membership changes while an update is on its way: the completion thread
  replaces `rtable` in three steps (`zk_server.c:179-202`), a handler thread may
  forward between any two of them.
- A server fails while its predecessor waits for it; `rtable_put` and `rtable_del`
  treat the lost answer differently (`client_stub.c:134`, `client_stub.c:213`).
- The copy of the table and the link to the new server are two unrelated events;
  updates may come in between.
- A request sent by a server that has since died may still be in a socket and be
  served later than requests that were sent after it.
- Locks are held across calls to other servers, in a chain.
- Wake-ups: `leaveRead` and `leaveWrite` wake one kind of waiter.
- A length of two bytes, tested before its bytes are put in order, and read and
  write that transfer any part of what they are asked for.
- A client with two threads: its watcher replaces and frees connections that the
  main thread uses (`zk_client.c:197-245`), with no lock.
- A descriptor that is closed twice, when its number may be another client's.
- Cancelling threads that may be inside a lock, after the table is freed.
- Allocations that fail in the middle of an operation that holds a lock, or of a
  message that is half read.

## The modules

| module | what it is |
|---|---|
| `ReadersWriters` | what `locks.h` promises: who reads, who writes, who wants to write |
| `RWLock` | `locks.c`, one action per run of the mutex |
| `RWLock_proofs` | its invariant and that it implements `ReadersWriters`, for any threads |
| `KVStore` | what clients are promised: one table, an operation at a time |
| `Handlers` | the threads of one server: `handle_client`, `invoke` with every operation, the statistics |
| `Handlers_proofs` | its types, that it implements `KVStore`, and exact statistics, for any clients, keys and requests |
| `Dictionary` | what `table.h` promises: a map |
| `Table` | `table.c` and `list.c`: hash table, sorted lists, counts |
| `Table_proofs` | `strcmp` orders the keys; the lists stay sorted and their counts exact; the table implements `Dictionary` |
| `MCTable` | the keys of the runs of `Table` |
| `Rpc` | what `network_send_receive` promises: its own answer or an error |
| `Framing` | both ends of a connection, byte by byte: `message.c`, `network_client.c`, `network_receive`, `network_send` |
| `Framing_proofs` | a connection implements `Rpc`, for any lengths that two bytes hold |
| `ZkClient` | `zk_client.c` with the main thread of `table_client.c` |
| `ZkClient_proofs` | `make_connections` leaks no connection, for any servers and changes |
| `Connections` | the accept loop, descriptors and threads of a server |
| `Connections_proofs` | ended threads leave no descriptor open, for any clients and descriptors |
| `Shutdown` | `stop_server` against the handler threads |
| `Shutdown_proofs` | its types, and which thread may outlive the statistics, for any threads |
| `Chain` | servers, clients and ZooKeeper: `zk_server.c`, `invoke`, the stub's calls |
| `MCChain` | symmetry for the runs of `Chain` |
| `Chain_proofs` | types and successors of `Chain`; acknowledged updates when servers fail; one order and linearizability of a chain that does not change; links, cascades, equal tables and acknowledged updates when servers start and fail one at a time; one order of puts whenever they do |

`Chain` and `Handlers` use the locks as `ReadersWriters` describes them, and `RWLock`
is shown to implement `ReadersWriters`: that composes them. In the same way `Chain`
and `Handlers` take a table as a map, which `Table` is shown to be, and a call as one
that returns its own answer or an error, which `Framing` is shown to do while lengths
fit and the caller has memory for the body of an answer, and that ends when its peer
sends an answer or closes: a live server that cannot pack its answer is in `Framing`
only. `Chain`
and `Handlers` are shown to implement the same `KVStore`: `Chain` for several
servers with one key, `Handlers` for one server with all operations.

### RWLock

Each function of `locks.c` holds the mutex from its first line to its last and
gives it up only inside `pthread_cond_wait`, so a call up to its return or wait is
one action, and what a woken thread does is another (`ReadWakes`, `WriteWakes`).
`wwrites++` is done once, before the loop. `SignalWrite` wakes any one sleeping
writer, `BroadcastRead` all sleeping readers; POSIX also allows `SpuriousWake`.

### Chain

A server is named by the sequence number ZooKeeper gave its z-node; a server that
restarts is a new one. An address is not taken over by another server.

| variables | code |
|---|---|
| `znodes`, `watching`, `notified` | children of `/chain`, armed watches, events queued for a handler (external) |
| `phase`, `cause`, `source` | how far `zk_init`/`main` is; why a server is down; whom it copies from |
| `next`, `link`, `watcher` | `next_node`; `rtable` (none, open, or disconnected but still set); where `zk_children_handler` is |
| `table`, `log` | the table; the updates it has absorbed, a history variable |
| `lock`, `stage` | whose update holds the write lock and where it is in `invoke` |
| `call` | for each client and server, the request it waits for and the answer, if any |
| `issued`, `acked`, `crashes` | histories and bounds |

| actions | code |
|---|---|
| `IssueUpdate`, `IssueGet`, `Finish`, `ClientLost` | a client's `network_send_receive` |
| `Begin`, `BeginMissing`, `Get`, `GetTable` | `invoke` up to the forwarding, or as a whole when it forwards nothing |
| `Forward`, `ForwardLost`, `ReplyIn`, `PeerLost`, `NoReply` | `next_node_put/del` with `rtable_put/del` |
| `Reply` | `leaveWrite` and `network_send` |
| `Register`, `List`, `ListNothingBelow`, `Fetch`, `Fill`, `FetchLost` | `zk_init` and `fill_table` |
| `Notice`, `Disconnect`, `DoubleDisconnect`, `Connect` | `zk_children_handler`, in the steps another thread can see |
| `Crash`, `Expire`, `AnswerLost` | the environment |

Abstractions, each on the side of more behaviours or named below:

- `zk_children_handler` is cut where other threads see a difference: `next_node`
  assigned, `rtable` disconnected, `rtable` assigned. The value it compares with
  (`zk_closest_node` of the list it read) is taken with the list, in one step.
- A connection that was disconnected and not replaced names freed memory
  (`link.open = FALSE`). Using it is undefined: for a forward, the descriptor is
  closed and the send fails (`ForwardLost`); for a second disconnect, either
  nothing happens (`Disconnect`) or the process stops (`DoubleDisconnect`).
- `rtable_put` reads a NULL answer, which stops the process; `rtable_del` tests it
  first and fails. That is `NoReply`.
- Releasing the lock and sending the answer is one step. A server that fails
  between the two is `AnswerLost`: an answer of a dead server may never arrive.
- When a server dies its table, and the requests it had received, are gone, but the
  request it had sent to its successor stays in that socket (`CallsWithout`).
- Sequence numbers are zero-padded by ZooKeeper, so `strcmp` in `zk_client.c` and
  the comparison of numbers in `zk_server.c` are the same order.
- Clients use the current head and tail. `ZkClient` says when they do.
- `SIZE` and `GETKEYS` take the same locks as `GET` and return what the tail has:
  they are in `Handlers`.

`FaultsWhenIdle`, `StartsWhenIdle` and `WhenSettled` restrict when servers fail and
start. The assignment the program was written for
(`src/sd2023_2024-projeto4-v1.pdf`) lets its authors assume that servers start and
fail while no operation is pending; runs without these restrictions show how far
the code goes beyond that, runs with them show what it does under its assumption.

### Handlers

One server that is the tail, so that an update ends with the table. A thread goes
through `handle_client`: `connected` (the increment of `clients`), `receive`, `count`
(the increment of `ops`), `invoke` and the labels inside it, `time`, `send`, and
`closed` (the decrement). Each update of the statistics takes the lock, loads,
stores and leaves in four steps. `GETTABLE` reads the keys in one step and each
value in one of its own. `Failing` names the allocations that may return NULL:
`GetFails` is the `break` without `leaveRead` (the lock then counts a reader that is
no thread, written `Null`), `CopyCrashes` the reads of a NULL copy, or of a copy whose
keys are NULL; `GETKEYS` without keys is an error. `data_create`, the copy of the
key and the packing (`Framing` has that) are taken to succeed, and the array of keys is
whole or NULL (`Table` has the partial one). An operation that finds no memory is an error without effect; `KVStore` allows that (`Fail`) where its constant
`Fallible` says so, which in `Chain` it does not. A request takes one unit of time.
The answer of `STATS` is read in three steps without the lock.

### Table

Keys are sequences of bytes, as `hash_code` and `strcmp` look at them; the calls are
made under the table's lock, so each is a step. `CRemainder` and `SignedChar` are C's
`%` and a signed `char`. An index outside the array reads the heap before it: a null
pointer, or the end of the process (`OutOfBounds`). `table.h:25` promises 0 or -1 of
`table_put`, and so does `Dictionary`; the code gives 1 for a replacement
(`Table_put_result.cfg`). What implements `Dictionary` is therefore the table with
that 1 read as 0 (`Described`), as the property's name says: `table_skel.c:69` tests
for -1 only. A `strdup` that fails in `list_get_keys` leaves a hole in the array;
that one is not modelled.

### Framing

A byte in flight is the message it was written for and its place in it, so the
model sees bytes that are lost, repeated or read as part of something else, without
their values: the body of one message read as a length can be anything, and unpacks
to nothing or to another message. A byte has `Base` values instead of 256; the
rules of the code (`htons`, the sign bit, the cut to two bytes) are written with
`Base`. `read_all` and `write_all` transfer any number of bytes; TCP holds at most
`Capacity` in each direction. Either side may close at any moment. Little-endian
machines, as those the program was built for.

`Failing` names what there may be no memory for. Without the packed request nothing is
sent (`RequestNotPacked`) and without the answer's own memory the call fails after it
has read the body (`ClientFails`). Two are worse. Without the buffer for the body of an
answer, `network_send_receive` returns NULL and leaves the body in the stream
(`AnswerNotRead`, `network_client.c:116`); the next call reads it as a length (`unread` remembers
that it happened). Without
the packed answer, `network_send` sends nothing and `handle_client` reads on
(`AnswerNotPacked`, `network_server.c:295`); the client, which lives, waits for ever.

### ZkClient

Two threads run `make_connections`: `main` in `zk_init`, `watcher` in
`zk_children_handler`. It is cut at the steps the other thread can see: the
comparison of names, the data of the z-node, the disconnection, and the connection
with its assignments; the head first and then the tail. An rtable has a number of
its own; a pointer to a freed one reaches freed memory or one allocated since
(`Pointed`). A descriptor is given to the next connection as soon as it is closed.
Calls of the main thread take the pointer, send, and receive. `LoseSession` is the
expiry of the client's own session.

### Connections

Each client connects once and has the thread that handles it. `accept` takes the
lowest free descriptor. Ended threads count until somebody joins them, and only the
shutdown does. A read that has begun stays with its connection, everything else goes
to the connection the number has now. When the loop ends (`AcceptFails`: no descriptor;
no memory for the node, and the client's socket is closed) the threads go on until
`main` has cleaned up and the process ends (`Exit`); `malloc` for the number is not
tested and ends it at once.

### Shutdown

The main thread's part is a program counter: `accept` and `link` (between
`pthread_create` and the list), then `stop_server` from `table` to `ended`. SIGINT
comes at any moment of the accept loop. Handlers go through two locks. The lock of the
statistics is there with its counters and its mutex. The lock of the table is there as
who holds it, who waits, and what is left of it when somebody is cancelled (`RWLock`
has its counters). A thread acts on its cancellation in `read`, `write`, `close` and
`pthread_cond_wait`, and not while it waits for a mutex, as in `leaveWrite`:

- in a wait it gets the mutex back and ends with it, as POSIX says, since `locks.c` has
  no cleanup handler (`abandoned` for the statistics, `tableAbandoned` for the table);
- while it forwards an update it ends with the write lock (`kept`).

`table_skel_destroy` frees the table and its lock before the threads are cancelled.
What a thread does with them afterwards is undefined: it may go on as if they were
there, end the process (`Crash`) or stay for ever (`StaysInFreed`), and
`pthread_cond_destroy` may wait for those who sleep there.

## The runs

States are distinct states found by TLC.

| run | instance | checks | states |
|---|---|---|---|
| `lock` | 4 threads | `TypeOK`, `Exclusion`, `CountersExact`, `NoLostWakeup`, `QuietServesAll`, refinement of `ReadersWriters` | 1 430 |
| `steady` | 3 servers, 2 clients, puts, deletes, gets, 3 updates | `TypeOK`, `UpstreamPrefix`, refinement of `KVStore` (`Linearizable`) | 17 656 |
| `recovery` | 4 servers, any 2 fail at any moment, 1 client, puts and deletes, 2 updates | `AckedEverywhere`, `CallsEnd`, `Relinks` | 34 948 |
| `anytime` | 1 founder, 2 starts, 2 failures, all at any moment, 2 clients, 2 puts | `SameOrder`, `NextMovesPastDead` | 332 725 |
| `joins` | 3 founders, 2 starts, 2 failures, each waits for what was begun before it | `ReplicasAgree`, `AckedUnlessStopped`, `ChainLinked`, `NoOtherCascade`, `JoinsEnd` | 86 204 |
| `handlers` | 2 clients with 2 requests each, all operations, 2 keys, the allocations of `table_skel.c` and `table_get` may fail | `TypeOK`, `StatsExact`, refinement of `KVStore` (`Linearizable`), `RequestsEndUnlessStarved` | 491 866 |
| `table` | 3 lists, 5 keys (3 in one list, 1 with a negative index), 2 values, failing allocations | `SortedLists`, `SizesExact`, refinement of `Dictionary` (`ImplementsDictionaryIf1IsOk`) | 1 684 |
| `framing` | requests of 1, 3, 5, 8 bytes, answers of 2, 4, 7, capacity 3, 3 calls, any allocation may fail | `TypeOK`, `RefusedOnlyHighBit`, refinement of `Rpc` (`ImplementsRpcUntilUnread`), `WaitsEndUnlessUnanswered` | 539 800 |
| `client_view` | 2 servers, 1 joins, any crash, the session may expire | `TypeOK`, `NoLeak`, `FollowsChain`, `CallsEndUnlessFreed` | 133 201 |
| `connections` | 3 clients, 2 descriptors, 2 threads, failing allocations | `TypeOK`, `DescriptorsReturned`, `HangUpsClear` | 69 637 |
| `shutdown` | 2 threads, SIGINT at any moment | `TypeOK`, `OnlyUnlistedRuns`, `EndsUnlessStuck` | 34 005 |

These eleven pass. The twelfth, `shutdown_table_in_use`, shows a
[disagreement](#what-the-code-does-not-do).

What they show:

- **`lock`.** Writers are alone, counters are exact, no wake-up is lost. If callers
  stop coming, everybody who waits is served; with callers for ever a reader can
  starve, which is how the lock was meant.
- **`steady`.** A table lags behind its predecessor by the update that holds the
  predecessor's lock, and nothing else. Clients see one table: an update takes
  effect when the tail absorbs it, a get when it is answered.
- **`recovery`.** Whatever fails, an update that a client was told has succeeded is in
  every table that still serves, no call stays open, and the servers that are left
  link to each other.
- **`anytime`.** With starts and failures at any moment, no two servers absorb two
  puts in different orders and none absorbs one twice; and a server never leaves a
  successor whose z-node is still there.
- **`joins`.** Under the assignment's assumption, every start ends, every server is
  linked to the nearest one above it, all tables are equal, and what a client was told
  has succeeded is in each of them. A failure stops
  nobody else, with one exception that `NoOtherCascade` names: a server whose tail
  failed, when another tail starts.
- **`table`.** The hash table is a map whatever order keys are put and removed in, and
  calls that fail change nothing. With any bytes in a key a call may read outside
  the array, but what it returns is an error or right.
- **`framing`.** While lengths fit, no request is handled but whole and once and a call
  returns its own answer or NULL, however TCP cuts the bytes, wherever one side stops
  and whatever there is no memory for, until a client leaves the body of an answer in
  the stream. Until then nobody waits for ever but a client whose answer the server
  could not pack. A server refuses a whole message for one cause only, the high bit of the low
  byte of its length.
- **`client_view`.** A client that is not in the middle of its start when the chain
  changes, and whose session lives, ends up with the head and the tail: a name that
  was set without a connection is put right by the event that follows. It never
  leaks a connection, and a call can only hang when its connection was replaced.
- **`handlers`.** All the operations of one server are linearizable, `GETTABLE` with its
  many reads too, whichever of the allocations above fail, up to the end of the process; the
  counters lose no update and count each connection until it ends, on every path. A
  request can only wait for ever after a `GET` has kept the lock and an update waits.
- **`connections`.** However clients come and go, an ended connection keeps no
  descriptor (its thread it keeps until somebody joins it), and a thread whose client
  is gone ends while the process runs, double closes notwithstanding.
- **`shutdown`.** With handlers at work the shutdown can only hang on a mutex, of either
  lock, that a cancelled wait left locked, or on the lock that was freed, and only a
  thread that is not in the list yet can outlive the statistics.

Where the code falls short of what it should do, a passing run checks how far: the
properties with *Unless*, *Only* or *Other* in their names state the exact exception,
and the [next section](#what-the-code-does-not-do) has the configurations that show it.

**Bounds.** Three servers are the least with a head, a middle and a tail; four let
two adjacent ones fail with a server on both sides. Two clients give concurrent
updates at one server. One key is enough because servers treat keys
independently (except for the table, which is not the subject of these runs), and
one key is where updates conflict; two values tell them apart. Two or three updates
give reordering, overtaking and repetition. Two crashes let a server fail while the
chain recovers from another failure. `MaxUpdates` and `MaxCrashes` bound the
histories `issued` and `crashes`. Symmetry of clients and of values is used in
`anytime` only, which has an invariant and an action property and no liveness, and
neither names a client or a value. `recovery` has one client: with two of four servers
down its updates already overlap, since a client that lost its server goes on while
the old update is on its way. Deadlock is not checked in the runs with faults
or starts: the bounds are used up and every server may be down. In `steady` it is not
switched off, but says little, as a read is always possible there.

In `Table` three keys of one list give insertions before, after, between and in
place, a key that is a prefix of another the end of `strcmp`, and a key in another
list and one outside the array the rest of `hash_code`. In `Handlers` two keys make
a `GETTABLE` read twice, with an update or a deletion in between were it possible.
In `Framing` a `Base` of 4 makes 16 the length that two bytes cannot tell and lengths
whose low byte is 2 or 3 negative. A request of 3 bytes has that bit, and no length of
the run needs more than two bytes (configurations of their own have such lengths); a
capacity of 3 is less than a message and more than a length. In `ZkClient` three
servers let the head and the tail be replaced, one after the other and together; four
descriptors are one more than a client with two connections needs at a time. In
`Connections` two descriptors and three clients make numbers come back; the second
close can meet another client's connection with three descriptors
(`Connections_wrong_client.cfg`). In `Shutdown` two threads are what a hang takes: one
in a wait and one that needs the mutex; for more of them the two invariants are proved. `MaxRequests` and `MaxCalls` bound the histories
`received` and `call`. Deadlock is not checked where clients may have gone or the
bound is used up.

**Fairness** (`FairSpec`, and `Spec` in the modules of one process). In those, each
thread's next step is weakly fair, and of the environment only what must come: a
dead session expires. No client has to send, call, close or quit, and SIGINT need
not come. In `Shutdown` a cancelled thread ends where it can; the next server need not
answer, and what is undefined need not go wrong.
In the modules of the chain: Threads are scheduled, so each handler's next step, main
and the completion thread are weakly fair; connections deliver or break, so a
caller gets an answer or learns that there is none; a dead session expires. Nobody
is obliged to call an operation, to start a server or to fail. In the lock, a
thread that holds it finishes, and a woken thread runs.

**Mutants.** Next to a definition stand mutated forms of it (`...Unlinked`,
`...Unarmed`, ...): a lock not taken, a watch not set again, a comparison turned
round. `PROJECT.json` pairs each property of a passing run with a mutant for which
TLC finds that property violated.

## What the code does not do

The run `shutdown_table_in_use` shows a statement of the repository that the program
violates (`src/README.md:62`, "Depois de todas as threads terminarem, é fechado o
socket do servidor e libertada a memória alocada"); `PROJECT.json` quotes it. The other configurations of this table are kept
beside it, each a small instance with one property that TLC finds violated in a
handful of steps (`tlc -config Chain_put_cascade.cfg MCChain`, `tlc -config
Table_utf8_keys.cfg MCTable`, and `tlc -config <Module>_<name>.cfg <Module>` for the
rest).

| configuration | property | what happens |
|---|---|---|
| `Chain_join_loses_update` | `ReplicasAgree` | A put between the answer to `OP_GETTABLE` and the connection to the new server is acknowledged and never reaches it (`zk_server.c:175`, `:200`). The assignment excludes operations while a server starts, so this is beyond what the program was asked for. |
| `Chain_join_blocks` | `JoinsEnd` | A put forwarded to a server that still copies its table: the put holds the lock the copy needs, and the new server does not accept before it has the copy (`zk_server.c:148`). |
| `Chain_put_cascade` | `NoCascade` | The successor fails during a put: `rtable_put` reads the NULL answer (`client_stub.c:134`), and the failure runs up the chain. |
| `Chain_tail_replaced` | `NoCascade` | After the tail failed `rtable` is freed and still set; the start of a new tail disconnects it again (`zk_server.c:206`, `:194`). |
| `Chain_starts_together` | `ChainLinked` | A server that lists the children after a newer one registered is not told of it and never links to it (`zk_server.c:121`). |
| `Table_utf8_keys` | `CallsReturn` | A key with bytes above 127 has a negative sum: `lists[index]` is before the array (`table.c:19`). |
| `Table_put_result` | `PutReturnsAsDescribed` | A put that replaces returns 1, where `table.h:25` says 0 or -1 (`table.c:95`). |
| `Table_partial_keys` | `ImplementsDictionaryIf1IsOk` | Without memory for the keys of one list the keys of the others are returned (`table.c:155`). |
| `Framing_high_bit` | `RequestsAccepted` | A length of 128 to 255 bytes (modulo 256) is negative before `ntohs` (`network_server.c:245`). |
| `Framing_long_request` | `ServerRuns` | The length is cut to 16 bits, a part is unpacked, and the opcode of NULL is read (`network_server.c:270`). |
| `Framing_long_response` | `ImplementsRpc` | The rest of a long answer is taken for the next ones (`network_server.c:304`). |
| `Framing_answer_left` | `ImplementsRpc` | Without memory for the body of an answer it stays in the stream, and the next call reads it (`network_client.c:116`). |
| `Framing_no_answer` | `CallsReturn` | Without memory for the packed answer a live client is never answered (`network_server.c:295`). |
| `ZkClient_start` | `FollowsChain` | `zk_init` and the watcher run `make_connections` together (`zk_client.c:75`). |
| `ZkClient_session` | `AlwaysFollowsChain` | A client whose session expired is never told (`zk_client.c:90`). |
| `ZkClient_call_hangs` | `CallsEnd` | The watcher replaces the connection of a call, freeing its rtable (`zk_client.c:231`, `:211`). |
| `Handlers_get_keeps_lock` | `RequestsEnd` | `break` without `leaveRead`: no update gets the lock again, and once one waits for it no read does (`table_skel.c:96`). |
| `Handlers_table_crashes` | `ServerRuns` | The size of a copy that is NULL is read (`table_skel.c:214`). |
| `Handlers_stats_unlocked` | `StatsReadAlone` | `STATS` takes no lock (`table_skel.c:246`). |
| `Connections_wrong_client` | `AnswersOwn` | The second close takes another client's connection (`network_server.c:177`). |
| `Connections_threads_unjoined` | `RefusedOnlyWhenFull` | Ended threads are never joined, `pthread_create` is not tested (`network_server.c:221`). |
| `Shutdown_stats_lock` | `StatsLockHarmless` | A wait for the lock of the statistics is cancelled and leaves its mutex locked (`locks.c:45`, `network_server.c:337`). |
| `Shutdown_table_lock` | `TableLockHarmless` | The same for the lock of the table: whoever holds it never gets out of `leaveWrite` (`locks.c:26`, `table_skel.c:76`). |
| `Shutdown_table_in_use` | `TableFreedUnused` | The table is freed before the threads are stopped (`table_server.c:30`). |
| `Shutdown_thread_unlisted` | `StatsFreedUnused` | A thread that is not in the list yet is not joined (`network_server.c:221`). |

Plain to read in the code, and so without a configuration: an unknown operation closes
the connection although `invoke` has set an error (`network_server.c:163`), `quit`
disconnects both connections twice (`table_client.c:189`), and a server without a free
descriptor ends its accept loop (`network_server.c:207`).

Besides: with deletes and a failure in the middle of the chain, `SameOrder` fails (a
delete sent by the dead server can reach the successor after later updates), so
`anytime` has puts only; `AckedEverywhere` fails when starts overlap with puts, for
the reasons above, so `recovery` has no starts, and `joins` checks it as
`AckedUnlessStopped`. That has two conditions. No server was stopped by undefined
behaviour, since a new one that copies from it then serves an empty table. And one
of the founders is left: when all fail before another server has started, no copy of
the table exists and the next server starts with an empty one; `UpstreamPrefix` is meant for a
chain that does not change.

## The proofs

All proofs are checked by TLAPS with SMT, Zenon and, for the temporal steps, PTL.
Assumptions are those the modules declare: `ThreadAssumption` (finitely many
threads), `ChainAssumption` (finitely many servers, numbered; founders are older
than later servers; names are distinct), `NullAssumption` of `Chain` and of `Handlers`
(NULL is no request and no answer), `HandlersAssumption` and `ConnectionsAssumption`
(finitely many clients and keys; descriptors are numbers), `TableAssumption` (at least
one list; keys are sequences of bytes), `ShutdownAssumption` (finitely many threads),
`ZkClientAssumption` (finitely many servers, numbered; descriptors are numbers and
more than one; NULL is none of these) and `FramingAssumption` (an even number of
values of a byte; no message is empty). A theorem that needs more says so in its
`ASSUME`; those hypotheses are discussed below, where the theorem is.

**RWLock.** `IInv == TypeOK /\ Exclusion /\ CountersExact /\ NoLostWakeup` is
inductive (`Invariance`): the code compares counters, so exclusion needs the
counters to be exact, and exactness needs exclusion. One lemma per action;
cardinalities move by one by `FS_AddElement` and `FS_RemoveElement`.
`Refinement` maps every step to a step of `ReadersWriters` or to no change.

**Chain, types** (`Chain_proofs!TypeCorrect`). `TypeOK` is not inductive: whether
`call[lock[s]].req` is an update, whether an answer is a table, whether a link has
a server at its end depends on which thread is where. `Shape` says it: the lock is
held exactly while an update is in `invoke`, by the caller of an unanswered update
at this server (`LockShape`); a server waits for at most one call, in `main` or in
`invoke`, and leaves at most an unanswered update when it dies (`CallShape`); answers
are of the kind that was asked for (`AnswerShape`); a connection has a server at its
end (`LinkShape`). `TypeOK /\ Shape` is inductive, for all the interleavings of
starts, failures and operations.

**Chain, successors** (`Chain_proofs!NextMoves`). `NextMovesPastDead` for any number
of servers: while the z-node of `next_node` is there, no server between is
(`NextIsClosest`), because new servers have higher numbers than all that started
(`Started`). It rests on `ClosestIsNearest`: the search of `zk_closest_node` finds the
least number above; that least and greatest elements exist is proved from
well-foundedness.

**Chain, acknowledged updates** (`Chain_proofs!AckedReplicated`). If no server
joins (`Server = Founders`), `AckedEverywhere` holds for any number of servers,
clients, keys and failures at any moments. The invariant adds to the above:

- `NobodyJoins` and `Registered`: every server serves or has crashed, and who serves
  has a z-node;
- `SuccessorShape`: neither `next_node` nor `rtable` is beyond a server that serves,
  and with `next_node` NULL nobody above serves;
- `UpdateHeld`: the update that holds a lock is in that table, and once its server
  is about to answer success (`stage = "ok"`), in every table above that serves;
- `AnswerHeld`: an update answered with success to anybody is in every table that
  serves from that server on, and a client's update went to a server below all that
  serve.

It is inductive because a server that serves forgets nothing (`ServersOnlyFail`),
the request of a call does not change while it lasts (`RequestsStay`), success comes
only from `Reply` (`OnlyReplyAnswersOk`), and a server says "ok" only if it has no
successor or its successor said so. The lemmas assume of a step only that it is not one
of `main` and registers nobody (`NobodyStarts`); so the theorem about servers that
join (`AckedAfterChanges`, below) uses them too.

**Chain, one update at a time** (`Chain_proofs!Synchronous`, `OneOrder`,
`AgreeWhenQuiet`, `ChainLinearizable`). Here the chain does not change: `Server =
Founders`, at least one server, and `MaxCrashes = 0`; the runs `anytime`, `recovery`
and `joins` are about the others, and `anytime` and `joins` check two of these
properties there too. The number of servers, clients, keys, values and updates is
any. Each property follows from one invariant, `OneUpdate`:

- `Steady`: everybody serves and is linked to the next server;
- `Calls`: updates wait at the head, with numbers of their own, reads at the tail, and
  a server waits for its successor;
- `Cascade`: when a server holds its lock, all the servers before it hold theirs,
  with the same update, and wait: the chain works on one update at a time;
- `InStep`: a server that is at work on an update the tail has not absorbed is ahead of
  the tail by exactly that update; every other server has the log and the table of
  the tail;
- `Stages`: the answer of a successor, and the stage "ok", mean that the tail has
  absorbed the update, and before that it has not;
- `Absorbed`, `NotYet`: the tail absorbs nothing twice, and nothing that the head has not
  taken up.

Two servers differ by one update at most, hence one order (`OneOrder`); without
pending operations nobody is at work, hence equal tables. For linearizability an
update takes effect at the step in which the tail absorbs it (`BeginRefines`), all the
`ReplyIn` and `Reply` steps up to the head's change nothing that clients see, and a get
takes effect when the tail answers it.

**Chain, one change at a time** (`Chain_proofs!LinkedWhenSettled`,
`OnlyReplacedTailStops`). The hypothesis `OneAtATime` is that of the runs `joins` and
`recovery`: a server starts or fails only when no update of the membership is on its
way and no operation is pending (`FaultsWhenIdle`, `StartsWhenIdle`, `WhenSettled`).
Without it both properties are false, as the handler connects to a server that may be
gone by then. The number of servers, of changes, of clients and of operations between
the changes is any. The invariant `OneChange` adds to types and successors:

- `Members`: who serves has a z-node, and one session at most is about to expire;
- `Newest`: one server at most is starting, it is the last of all, and its own
  successor and link are not set yet;
- `Told`: a server has seen the last change of the membership or will be told of it;
  while a crashed server has its z-node, everybody else is idle;
- `Handling`: what `next_node` and `rtable` are at each line of the handler, against
  the present membership;
- `OldGone`, `Replaced`: only a server that lost its last successor keeps a connection
  that it has disconnected; it led to a crashed server, and if there is a successor
  again, that one has just started and nobody else has anything to do. This is the
  server that stops, by a second disconnect, and nobody else is about to;
- `Calm`: while an update is on its way everybody is settled, and its caller waits for
  a server that lives; so no call ends at a crashed server, and no `rtable` is used
  that was freed.

`Calm` closes the circle: faults wait for the operations, so operations meet no fault,
and the linked chain they run in stays as it is until they end.

**Chain, equal tables** (`Chain_proofs!AgreeAfterChanges`). `ReplicasAgree` under the
same hypothesis. The invariant `Agreement` is about the tables of a chain that is
linked; as the property, it speaks of chains in which no server was stopped by the
second disconnect (`NoCascade`).

- `Sent`: a client's update is at the head, a server's at its successor;
- `NoneFails`: no update is at the stage "failed", and no server answers another with
  an error: a delete that found its key at the head finds it everywhere;
- `StepAhead`: the table of a server is that of its successor with the update that it
  has not sent yet, or that the successor has not begun (`Ahead`), applied to it;
- `NobodyBusy => Alike`: with no update on its way all tables that serve are equal;
- `Copying`: while a server starts, everybody is up, the server it copies from is one
  that serves, and what it was sent is the table of all.

While an update is on its way nobody starts or fails (`BusyStays`) and `StepAhead` does
the work, from one neighbour to the next; when the last update ends, nobody is ahead,
so all are equal (`AlikeAtRest`); while none is on its way tables change by `Fill` only,
which copies one of them.

**Chain, acknowledged updates when servers join** (`Chain_proofs!AckedAfterChanges`,
`AckedWithFewFaults`). `AckedUnlessStopped` under the same hypothesis, with puts and
deletes. Equal tables are not enough: they might all have lost an update. `Memory`
joins the arguments of two earlier theorems:

- `UpdateHeld`, `AnswerHeld` and the property itself, as for `AckedReplicated`. While an
  update is on its way, or when a client sends one, all have seen the last change, so
  the chain has the shape that those lemmas need (`RestingSuccessors`) and nobody
  starts: they are used as they are (`RestingRemembers`);
- `CopiesHold`: what a new server has been sent has every acknowledged update, as the
  server that answered serves (`CopyInHand`). `Fill` then brings the update to the
  new server, `FetchLost` does not happen (`Copying`), and a server that finds itself
  alone (`List`) would have no founder beside it;
- `FoundersServe`: a founder serves until it fails, so one that is left was there all
  the time.

`AckedWithFewFaults` has no condition on the founders: if `MaxCrashes` is less than
their number one of them is left, since without undefined behaviour no more servers
are down than were failed (`FaultsCounted`). Then `NoCascade => AckedEverywhere`.

**Chain, one order of puts** (`Chain_proofs!OneOrderOfPuts`). `SameOrder` with starts and
failures at any moment, several at a time, for any number of servers, clients and
updates, as in the run `anytime`; the one hypothesis is that clients delete nothing
(`"del" \notin Kinds`), as the property is false with deletes (above). Then no server
survives the loss of its successor in the middle of an update, which is what the order
depends on. The invariant `PutsInOrder` speaks of what a server has (`Own`: its log, or
the copy that `fill_table` has received and not put yet):

- `Placed`: `next_node`, `rtable`, the server to copy from and the request on its way
  may all be outdated, but pass over nobody who is alive (`PassesNobody`), because who
  is alive has a z-node (`InChain`) and new servers come last (`OnlyNewStarts`);
- `Upstream`: while a live server has an update that it has not answered, every live
  server before it waits for the answer to that same update. So there is one update
  on its way, except beyond servers that died;
- `Grown`: a live server has all that the live servers after it have;
- `Fresh`: until a server serves, neither it nor any server after it has anything;
- `Ordered`: the property, with the copies;
- `AtEnd`: the update in `invoke` is the last that the server has absorbed;
- `Unabsorbed`, `Distinct`, `Numbered`: an update that was not sent yet, or not taken
  up, is nowhere further on, and no server is asked twice at once for the same one.

When a server takes up an update (`BeginSteps`), every live server before it has it as
its last one, by `Upstream` and `AtEnd`, and nobody after it has it, so it comes last
everywhere (`AppendInOrder`); when a table is copied (`CopySteps`), no server is alive
between the two and no update is under way in the source; `SendOnSteps` and `IssueSteps`
are about the two steps that bring an update to a server. All the others take nothing
up (`NothingNew`), among them every failure, and keep what is kept by losing things.

**Handlers, types** (`Handlers_proofs!TypeCorrect`). The invariant says where in
`invoke` a thread holds which lock (`LockShape`, `StatsShape`), which branch its
request is in and that it has an answer once the operation is done (`RequestShape`),
and, while a `GETTABLE` copies, that what it has copied is what the table has
(`CopyShape`). The last is the heart of it: it is kept because no thread writes while
one reads, and the reader that a failed `GET` left behind only keeps writers out.

**Handlers, refinement** (`Handlers_proofs!Linearizability`). Each step is a step of
`KVStore` or changes nothing of it: an operation takes effect at the step that gives
its answer (`Effect`), a `GETTABLE` at its last copy, a failed one as `Fail`; a request
is invoked when it is received and returns when it is sent. A thread whose request
failed without an answer (`Failed`) keeps its result, as its client never gets one.

**Handlers, statistics** (`Handlers_proofs!CountersExact`). `stats` is updated by a load
and a store apart from each other, under a lock of its own. `Statistics` says that what
a thread has loaded is still the counter's value, which rests on the lock
(`StatsShape`): who writes is alone. And `total_operations` with the threads that have
executed a request and not stored it yet makes the number of the requests that were
received; `connected_clients` is the number of the threads that are between the two
stores. The sum over the clients in `StatsExact` is the fold of the community modules;
it is shown to be the number of pairs of a client and one of its requests (`IsSum`,
`SumCountsUnits`), which moves by one where a client's number does.

**Connections** (`Connections_proofs!NoDescriptorLost`). `OwnDescriptor`: a descriptor
refers to the connection whose thread has it as its socket and has not closed it. So
the first `close` of a thread is always of its own connection. The second may be of
another's, but then that thread finds no connection and ends too. That `accept` takes
a free descriptor rests on `LeastExists`.

**Table** (`Table_proofs!ListsStaySorted`, `SizesStayExact`). `strcmp` is transitive
(`BelowTransitive`) and total (`BelowTotal`), for keys of any length; the least place
where two keys differ exists by `LeastExists`. With it `list_add` keeps a sorted list
sorted, whether it replaces, appends or inserts (`AddIsGood`), and `list_remove` does
(`RemoveIsGood`).

**Table, refinement** (`Table_proofs!Refinement`). The property is
`ImplementsDictionaryIf1IsOk`: `table.h` with the 1 of a replacing put read as 0. The hash of a key is any: `Placed`
says that an entry is in the list that `hash_code` gives its key, so that a key is in
one list at most, once (`KeysApart`), and the calls that search that list alone find
what the map has. There is one lemma per call. `table_size` adds the counts of the
lists: the pairs of a list and a place in it are as many as the keys of the map
(`UnitsAreKeys`). `table_get_keys` and the copy of the table put the lists together:
`FlatOf` says that what has a property in some list is in the result, and nothing
else. The hypothesis is that `list_get_keys` gets its array (`"list_keys" \notin
Failing`); `table_get_keys` does not look at that result, and without it the
refinement is false (`Table_partial_keys.cfg`). All other allocations may fail.

The folds of the community modules are recursive functions. What they compute is
shown without the induction theorems: a function that obeys the recursion exists,
for given witnesses, and is the only one, for the least argument at which two differ
would be no such one (`WFMin`).

**Shutdown** (`Shutdown_proofs!OneLeftRunning`). Wherever threads are in their requests
and in both locks, a thread that runs and is not in the
list is the one that was just created (`OneUnlisted`): during the shutdown no thread
is created, and one leaves the list only when it has ended. `Shutdown_proofs!TypeCorrect`
says that the counters of the lock of the statistics are the numbers of the threads at
its lines, cancelled ones included, and that the list names a running thread once.

**Framing** (`Framing_proofs!Refinement`, `RefusesOnlyHighBit`, `TypeCorrect`). The
hypothesis is `LengthsFit`: every length is less than `Base * Base`. Without it the
refinement is false (`Framing_long_response.cfg`). Any allocation may fail; once the
body of an answer was left in the stream (`unread`, a history) nothing is claimed, as
the next call takes it for its answer (`Framing_answer_left.cfg`). With `BodiesRead`, a
client that has memory for the bodies of its answers (`"answer body" \notin Failing`),
the connection implements `Rpc` without that end (`RefinementWithMemory`) and the other
two theorems hold. `Piece(m, a, b)` is a part of
a message; `read_all` moves a cut from the stream to the buffer (`ReadOn`), `write_all`
from the buffer to the stream (`WriteOn`), and pieces that meet are a piece (`Joined`,
`Cut`). The invariant says that one message at a time is on its way, the request
(`Asking`) or the answer (`Answering`): its receiver has read its first p bytes, p to q
are in the stream, the rest is still with its sender, and nothing else is in either
stream. So the two bytes of a length are always those of a length, and their values
give it back (`TwoBytes`, `LengthRead`), and a body that is complete is the body that
was sent (`BodyRead`). A client that is gone leaves a request of which any part has
arrived, a server that is gone an answer of which any part has; in neither case does
the other side take it for a whole one.

**ZkClient** (`ZkClient_proofs!NoConnectionLost`, `TypeCorrect`). The hypothesis is
`StartsWhenIdle`: the chain does not change during `zk_init`. Without it `NoLeak` is
false, as TLC shows in a few steps: both threads are in `make_connections`, each
connects to the head, and the second overwrites the pointer of the first. The
invariant is that the watcher is idle until the main thread is past
`make_connections`, which it does not enter again (`OneAtATime`), and that (`Owned`)
an open connection belongs to an rtable in memory, such an rtable is the one of the
head or of the tail, and where a thread is about to connect, the rtable it replaces is
gone. So there are at most two, and the next connection finds a free descriptor.

**Only model-checked:** everything under fairness (`CallsEnd`, `JoinsEnd`, `Relinks`,
`QuietServesAll`, `RequestsEndUnlessStarved`, `WaitsEndUnlessUnanswered`, `HangUpsClear`,
`FollowsChain`, `CallsEndUnlessFreed`, `EndsUnlessStuck`), which TLAPS cannot do.

## What is left out

- Errors of the ZooKeeper service, and a live server whose session expires:
  `zk_connection_watcher` only keeps a flag.
- `zoo_get` does not terminate the string it returns; the addresses are assumed to
  have the same length.
- `strtok` keeps its place in one variable: `rtable_connect` in the completion thread
  and the command loop of a client share it. What a torn string looks like is not
  modelled.
- In `Chain`, a descriptor number or a chunk of memory that is reused after a double
  close or free. (Reuse of the chunk of `rtable` by the next `rtable_connect` is a case
  of `Connect` happening earlier.) `ZkClient` and `Connections` have the reuse.
- The watcher of a client that runs after `destroy_zk` freed the connections.
- What `stop_server` may do to the locks of the C library as a signal handler.
- The contents of memory that is read after it was freed or before an array.
- Parsing, printing, building, generated code.

## Plan

1. `Shutdown` when `network_main_loop` ends by itself: `main` then cleans up in another
   order, and outside a signal handler.
2. Copies of keys that fail in `list_get_keys` (`Table`), and what `GETTABLE` makes of them.
