---------------------------- MODULE Chain_proofs ----------------------------
(***************************************************************************)
(* Theorems about Chain for every set of servers, clients, keys and values *)
(* and every choice of its bounds, in seven parts.                         *)
(*                                                                         *)
(* 1. For every use of the chain: its types, and next moves past the dead  *)
(*    servers only.                                                        *)
(* 2. While no server joins: an update that a client was told has          *)
(*    succeeded is in the table of every server that still serves,         *)
(*    whichever servers fail, and whenever. A server tells its caller of   *)
(*    success only after its successor did, or when it knows of none; a    *)
(*    successor is never beyond a server that still serves; and a server   *)
(*    that serves forgets nothing.                                         *)
(* 3. While no server joins and none fails: the servers apply the same     *)
(*    updates in the same order, and to its clients the chain is one       *)
(*    dictionary. Each server works on one update at a time and holds its  *)
(*    lock until its successor has answered, so the whole chain works on   *)
(*    one update at a time, behind the lock of the head.                   *)
(* 4. While servers start and fail one at a time, each after the last      *)
(*    change was seen by all and no update is on its way: the servers are  *)
(*    linked, and no other server goes down, but for one kind of tail.     *)
(*    Only the tail can have a connection that it disconnected and kept,   *)
(*    and then nobody else has anything to do when its successor starts.   *)
(* 5. In the same circumstances: all tables are equal whenever all is      *)
(*    quiet. A server is ahead of its successor by the update that it has  *)
(*    not sent yet, at most, and a new server copies a table while all     *)
(*    tables are equal.                                                    *)
(* 6. While servers start and fail at any moment, several at a time, and   *)
(*    nothing is deleted: one order of updates. Every server absorbs what  *)
(*    it gets in the order of the servers before it, as these wait for the *)
(*    answer until it has; a server that lost its predecessor gets nothing *)
(*    twice, as what it has is with all who are before it.                 *)
(* 7. While servers start and fail one at a time, as in 4 and 5: an update *)
(*    that a client was told has succeeded is in every table that serves,  *)
(*    as long as a founder is left to copy from. Once all have seen the    *)
(*    last change the chain is as in 2, and a new server copies the table  *)
(*    of one that has the update.                                          *)
(***************************************************************************)
EXTENDS Chain, FiniteSetTheorems, SequenceTheorems, WellFoundedInduction, TLAPS

-----------------------------------------------------------------------------
(* Least and greatest elements, for the searches in the list of children.  *)

\* By well-foundedness of <.
LEMMA LeastExists ==
    ASSUME NEW S, S \subseteq Nat, S # {}
    PROVE  \E m \in S : \A n \in S : m <= n
<1> DEFINE R == OpToRel(<, Nat)
<1>1. IsWellFoundedOn(R, Nat)
  BY NatLessThanWellFounded, Zenon
<1> HIDE DEF R
<1>2. PICK m \in S : \A n \in S : ~ (<<n, m>> \in R)
  BY <1>1, WFMin
<1>3. ASSUME NEW n \in S PROVE m <= n
  <2>1. ~ (<<n, m>> \in R)
    BY <1>2
  <2>2. n \in Nat /\ m \in Nat
    OBVIOUS
  <2>3. n < m => <<n, m>> \in R
    BY <2>2 DEF R, OpToRel
  <2> QED
    BY <2>1, <2>2, <2>3
<1> QED
  BY <1>3

\* In a finite set, by an element with the fewest elements above it.
LEMMA GreatestExists ==
    ASSUME NEW S, S \subseteq Nat, S # {}, IsFiniteSet(S)
    PROVE  \E m \in S : \A n \in S : n <= m
<1> DEFINE Above(m) == {n \in S : n > m}
           T == {Above(m) : m \in S}
           R == StrictSubsetOrdering(S)
<1>1. IsWellFoundedOn(R, FiniteSubsetsOf(S))
  BY FS_StrictSubsetOrderingWellFounded
<1>2. T # {} /\ T \subseteq FiniteSubsetsOf(S)
  <2>1. ASSUME NEW m \in S PROVE Above(m) \in FiniteSubsetsOf(S)
    BY FS_Subset DEF FiniteSubsetsOf
  <2> QED
    BY <2>1
<1>3. PICK U \in T : \A V \in T : ~ (<<V, U>> \in R)
  <2> HIDE DEF T, R
  <2> QED
    BY <1>1, <1>2, WFMin
<1>4. PICK m \in S : U = Above(m)
  OBVIOUS
<1>5. ASSUME NEW n \in S, n > m PROVE FALSE
  <2> HIDE DEF T, R
  <2>0. n \in Nat /\ m \in Nat
    OBVIOUS
  <2>1. Above(n) \subseteq Above(m) /\ n \in Above(m) /\ n \notin Above(n)
    <3>1. \A k \in Above(n) : k > m
      BY <1>5, <2>0
    <3>2. n \in Above(m) /\ n \notin Above(n)
      BY <1>5, <2>0
    <3> QED
      BY <3>1, <3>2
  <2>2. <<Above(n), U>> \in R
    BY <2>1, <1>4 DEF R, StrictSubsetOrdering
  <2>3. Above(n) \in T
    BY DEF T
  <2> QED
    BY <2>2, <2>3, <1>3
<1> QED
  BY <1>5

LEMMA HeadIsLeast ==
    ASSUME NEW S, S \subseteq Server, S # {}
    PROVE  zk_get_head(S) \in S /\ \A t \in S : zk_get_head(S) <= t
BY LeastExists, ChainAssumption DEF zk_get_head

LEMMA TailIsGreatest ==
    ASSUME NEW S, S \subseteq Server, S # {}
    PROVE  zk_get_tail(S) \in S /\ \A t \in S : t <= zk_get_tail(S)
<1>1. IsFiniteSet(S) /\ S \subseteq Nat
  BY FS_Subset, ChainAssumption
<1> QED
  BY <1>1, GreatestExists DEF zk_get_tail

\* zk_closest_node finds the nearest server above, if there is one.
LEMMA ClosestIsNearest ==
    ASSUME NEW S, S \subseteq Server, NEW s \in Server
    PROVE  LET n == zk_closest_node(s, S)
           IN  \/ n = Null /\ \A t \in S : t <= s
               \/ n \in S /\ n > s /\ \A t \in S : t > s => n <= t
<1> DEFINE A == {t \in S : t > s}
<1>1. CASE A = {}
  <2>1. \A t \in S : ~(t > s)
    BY <1>1
  <2>2. \A t \in S : t \in Nat /\ s \in Nat
    BY ChainAssumption
  <2> QED
    BY <1>1, <2>1, <2>2 DEF zk_closest_node
<1>2. CASE A # {}
  <2>1. zk_get_head(A) \in A /\ \A t \in A : zk_get_head(A) <= t
    BY <1>2, HeadIsLeast
  <2> QED
    BY <1>2, <2>1 DEF zk_closest_node
<1> QED
  BY <1>1, <1>2

LEMMA SecondHighestIsBelow ==
    ASSUME NEW S, S \subseteq Server, NEW s \in Server
    PROVE  get_second_highest_id(S, s) \in S \cup {Null}
<1> DEFINE B == {t \in S : t < s}
<1>1. CASE B = {}
  BY <1>1 DEF get_second_highest_id
<1>2. CASE B # {}
  <2>1. zk_get_tail(B) \in B
    BY <1>2, TailIsGreatest
  <2> QED
    BY <1>2, <2>1 DEF get_second_highest_id
<1> QED
  BY <1>1, <1>2

-----------------------------------------------------------------------------
(* The invariant under TypeOK.  TypeOK alone is not inductive: what a      *)
(* server does with a call depends on which thread of it is waiting.       *)

\* The lock is held exactly while an update is in invoke, by the caller of
\* an update that this server has not answered.
LockShape == \A s \in Server :
    /\ stage[s] = "idle" <=> lock[s] = Null
    /\ lock[s] # Null =>
          /\ phase[s] = "serving"
          /\ call[lock[s]] # Null
          /\ call[lock[s]].to = s
          /\ call[lock[s]].answer = Null
          /\ IsUpdate(call[lock[s]].req)

\* A server waits for the table in main or for its successor in invoke, and
\* leaves at most an unanswered update behind when it goes down.
CallShape == \A s \in Server :
    /\ stage[s] = "wait" => call[s] # Null /\ call[s].req = Current(s)
    /\ phase[s] = "fetching" => call[s] # Null /\ call[s].req.op = "gettable"
    /\ call[s] # Null =>
          \/ phase[s] = "fetching" \/ stage[s] = "wait"
          \/ /\ phase[s] = "crashed"
             /\ call[s].answer = Null
             /\ IsUpdate(call[s].req)

\* Answers are of the kind that was asked for.
AnswerShape == \A x \in Caller :
    (call[x] # Null /\ call[x].answer # Null) =>
        /\ call[x].req.op = "gettable" => call[x].answer \in Copy
        /\ IsUpdate(call[x].req) => call[x].answer \in {Ok, Error}

\* A connection has a server at its other end, and so has the copy.
LinkShape == \A s \in Server :
    /\ watcher[s] \in {"swap", "connect"} => next[s] # Null
    /\ link[s].open => link[s].to # Null
    /\ phase[s] = "listed" => source[s] # Null

Shape == LockShape /\ CallShape /\ AnswerShape /\ LinkShape

\* next_node is the closest server for as long as its z-node is there.
NextIsClosest == \A s \in Server :
    /\ next[s] # Null => next[s] > s
    /\ next[s] \in znodes => \A t \in znodes : t > s => next[s] <= t

Started ==
    /\ \A s \in znodes : phase[s] # "off"
    /\ \A s \in Server : next[s] # Null => phase[next[s]] # "off"

-----------------------------------------------------------------------------
(* Types.                                                                  *)

LEMMA NullIsNoServer == Null \notin Server /\ Null \notin Caller /\ Client \subseteq Caller
BY ChainAssumption DEF Caller

LEMMA UpdateRequest ==
    ASSUME NEW r \in Request, IsUpdate(r)
    PROVE  r \in Update
BY DEF Request, IsUpdate, Update

LEMMA ApplyType ==
    ASSUME NEW t \in Table, NEW u \in Update
    PROVE  Apply(t, u) \in Table
BY DEF Table, Apply, Update

LEMMA AnswerTypes ==
    /\ {Ok, Error} \subseteq Answer
    /\ Copy \subseteq Answer
    /\ \A v \in Value \cup {Null} : [value |-> v] \in Answer
BY DEF Answer, Ok, Error

LEMMA SendType ==
    ASSUME TypeOK, NEW x \in Caller, NEW s \in Server, NEW r \in Request, Send(x, s, r)
    PROVE  call' \in [Caller -> Call \cup {Null}]
BY DEF TypeOK, Send, Call

LEMMA RespondType ==
    ASSUME TypeOK, NEW x \in Caller, call[x] # Null, NEW a \in Answer, Respond(x, a)
    PROVE  call' \in [Caller -> Call \cup {Null}]
<1>1. call[x] \in Call
  BY DEF TypeOK
<1>2. [call[x] EXCEPT !.answer = a] \in Call
  BY <1>1 DEF Call
<1>3. call' = [call EXCEPT ![x] = IF Dead(x) THEN Null ELSE [call[x] EXCEPT !.answer = a]]
  BY DEF Respond
<1> QED
  BY <1>2, <1>3 DEF TypeOK

LEMMA ClearType ==
    ASSUME TypeOK, NEW x \in Caller, call' = [call EXCEPT ![x] = Null]
    PROVE  call' \in [Caller -> Call \cup {Null}]
BY DEF TypeOK

LEMMA DownType ==
    ASSUME TypeOK, NEW s \in Server, NEW why, Down(s, why),
           why \in {"fault", "null_reply", "freed_link", "double_disconnect", "null_path"},
           crashes' \in Nat
    PROVE  TypeOK'
<1>1. call' \in [Caller -> Call \cup {Null}]
  BY DEF TypeOK, Down, CallsWithout
<1>2. EmptyTable \in Table /\ NoLink \in Link /\ <<>> \in Seq(Update)
  BY DEF EmptyTable, Table, NoLink, Link
<1>3. /\ table' \in [Server -> Table]
      /\ link' \in [Server -> Link]
      /\ log' \in [Server -> Seq(Update)]
  BY <1>2 DEF TypeOK, Down
<1>4. /\ znodes' \subseteq Server /\ watching' \subseteq Server /\ notified' \subseteq Server
      /\ issued' \in Nat /\ acked' \subseteq Update
  BY DEF TypeOK, Down
<1>5. /\ phase' \in [Server -> {"off", "registered", "listed", "fetching",
                              "serving", "crashed"}]
      /\ cause' \in [Server -> {"none", "fault", "null_reply", "freed_link",
                              "double_disconnect", "null_path"}]
      /\ watcher' \in [Server -> {"idle", "swap", "connect", "drop"}]
      /\ stage' \in [Server -> {"idle", "forward", "wait", "ok", "failed"}]
  BY DEF TypeOK, Down
<1>6. /\ source' \in [Server -> Server \cup {Null}]
      /\ next' \in [Server -> Server \cup {Null}]
      /\ lock' \in [Server -> Caller \cup {Null}]
  BY DEF TypeOK, Down
<1> QED
  BY <1>1, <1>3, <1>4, <1>5, <1>6 DEF TypeOK

LEMMA CurrentType ==
    ASSUME TypeOK, LockShape, NEW s \in Server, lock[s] # Null
    PROVE  /\ lock[s] \in Caller
           /\ call[lock[s]] \in Call
           /\ Current(s) \in Update
<1>1. lock[s] \in Caller /\ call[lock[s]] \in Call
  BY DEF TypeOK, LockShape
<1>2. Current(s) \in Request /\ IsUpdate(Current(s))
  BY <1>1 DEF Current, LockShape, Call
<1> QED
  BY <1>1, <1>2, UpdateRequest

LEMMA NoReplyType ==
    ASSUME TypeOK, LockShape, NEW s \in Server, lock[s] # Null,
           NEW why \in {"null_reply", "freed_link"}, NoReply(s, why)
    PROVE  TypeOK'
<1>1. CASE Down(s, why) /\ UNCHANGED crashes
  <2>1. crashes' \in Nat
    BY <1>1 DEF TypeOK
  <2> QED
    BY <1>1, <2>1, DownType
<1>2. CASE /\ stage' = [stage EXCEPT ![s] = "failed"]
           /\ call' = [call EXCEPT ![s] = Null]
           /\ UNCHANGED <<zkVars, mainVars, nextVars, table, log, lock, history>>
  <2>1. call' \in [Caller -> Call \cup {Null}]
    BY <1>2, ClearType DEF Caller
  <2> QED
    BY <1>2, <2>1 DEF TypeOK, zkVars, mainVars, nextVars, history
<1> QED
  BY <1>1, <1>2 DEF NoReply

LEMMA ClientType ==
    ASSUME TypeOK, NEW c \in Client,
           IssueUpdate(c) \/ IssueGet(c) \/ Finish(c) \/ ClientLost(c)
    PROVE  TypeOK'
<1> USE DEF zkVars, mainVars, nextVars, tableVars, history
<1>0. c \in Caller
  BY DEF Caller
<1>1. CASE IssueUpdate(c)
  <2>1. PICK o \in Kinds \ {"get"}, k \in Key, v \in Value \cup {Null} :
           Send(c, zk_get_head(znodes), [op |-> o, id |-> issued', key |-> k, val |-> v])
    BY <1>1 DEF IssueUpdate
  <2>2. zk_get_head(znodes) \in Server
    BY <1>1, HeadIsLeast DEF IssueUpdate, TypeOK
  <2>3. issued' \in Nat /\ o \in {"put", "del"}
    BY <1>1, ChainAssumption DEF IssueUpdate, TypeOK
  <2>4. [op |-> o, id |-> issued', key |-> k, val |-> v] \in Request
    BY <2>3 DEF Request, Update
  <2>5. call' \in [Caller -> Call \cup {Null}]
    BY <1>0, <2>1, <2>2, <2>4, SendType
  <2> QED
    BY <1>1, <2>3, <2>5 DEF IssueUpdate, TypeOK
<1>2. CASE IssueGet(c)
  <2>1. PICK k \in Key : Send(c, zk_get_tail(znodes), [op |-> "get", key |-> k])
    BY <1>2 DEF IssueGet
  <2>2. zk_get_tail(znodes) \in Server
    BY <1>2, TailIsGreatest DEF IssueGet, TypeOK
  <2>3. [op |-> "get", key |-> k] \in Request
    BY DEF Request
  <2>4. call' \in [Caller -> Call \cup {Null}]
    BY <1>0, <2>1, <2>2, <2>3, SendType
  <2> QED
    BY <1>2, <2>4 DEF IssueGet, TypeOK
<1>3. CASE Finish(c)
  <2>1. call' \in [Caller -> Call \cup {Null}]
    BY <1>0, <1>3, ClearType DEF Finish
  <2>2. acked' \subseteq Update
    <3>1. call[c] \in Call
      BY <1>0, <1>3 DEF Finish, TypeOK
    <3>2. IsUpdate(call[c].req) => call[c].req \in Update
      BY <3>1, UpdateRequest DEF Call
    <3> QED
      BY <1>3, <3>2 DEF Finish, TypeOK
  <2> QED
    BY <1>3, <2>1, <2>2 DEF Finish, TypeOK
<1>4. CASE ClientLost(c)
  <2>1. call' \in [Caller -> Call \cup {Null}]
    BY <1>0, <1>4, ClearType DEF ClientLost
  <2> QED
    BY <1>4, <2>1 DEF ClientLost, TypeOK
<1> QED
  BY <1>1, <1>2, <1>3, <1>4

LEMMA AtType ==
    ASSUME TypeOK, NEW x \in Caller, NEW s \in Server, At(x, s)
    PROVE  call[x] # Null /\ call[x] \in Call /\ call[x].req \in Request
BY DEF At, TypeOK, Call

LEMMA HandlerType ==
    ASSUME TypeOK, LockShape, LinkShape, NEW s \in Server, Handler(s)
    PROVE  TypeOK'
<1> USE DEF zkVars, mainVars, nextVars, tableVars, history
<1>1. ASSUME NEW x \in Caller, Begin(x, s) PROVE TypeOK'
  <2>1. call[x].req \in Update
    BY <1>1, AtType, UpdateRequest DEF Begin
  <2>2. Apply(table[s], call[x].req) \in Table
    BY <2>1, ApplyType DEF TypeOK
  <2>3. Append(log[s], call[x].req) \in Seq(Update)
    BY <2>1, AppendProperties DEF TypeOK
  <2>4. table' \in [Server -> Table] /\ log' \in [Server -> Seq(Update)]
    BY <1>1, <2>2, <2>3 DEF Begin, TypeOK
  <2>5. lock' \in [Server -> Caller \cup {Null}]
    BY <1>1 DEF Begin, TypeOK
  <2>6. stage' \in [Server -> {"idle", "forward", "wait", "ok", "failed"}]
    BY <1>1 DEF Begin, TypeOK
  <2> QED
    BY <1>1, <2>4, <2>5, <2>6 DEF Begin, TypeOK
<1>2. ASSUME NEW x \in Caller, BeginMissing(x, s) \/ Get(x, s) \/ GetTable(x, s) PROVE TypeOK'
  <2>1. call[x] # Null /\ call[x] \in Call /\ call[x].req \in Request
    BY <1>2, AtType DEF BeginMissing, Get, GetTable
  <2>2. PICK a \in Answer : Respond(x, a)
    <3>1. CASE BeginMissing(x, s)
      BY <3>1, AnswerTypes DEF BeginMissing
    <3>2. CASE Get(x, s)
      <4>1. call[x].req.key \in Key
        BY <2>1, <3>2 DEF Get, Request, Update
      <4>2. table[s][call[x].req.key] \in Value \cup {Null}
        BY <4>1 DEF TypeOK, Table
      <4> QED
        BY <3>2, <4>2, AnswerTypes DEF Get
    <3>3. CASE GetTable(x, s)
      <4>1. [table |-> table[s], log |-> log[s]] \in Copy
        BY DEF TypeOK, Copy
      <4> QED
        BY <3>3, <4>1, AnswerTypes DEF GetTable
    <3> QED
      BY <1>2, <3>1, <3>2, <3>3
  <2>3. call' \in [Caller -> Call \cup {Null}]
    BY <2>1, <2>2, RespondType
  <2> QED
    BY <1>2, <2>3 DEF BeginMissing, Get, GetTable, TypeOK
<1>3. CASE Forward(s)
  <2>1. lock[s] # Null
    BY <1>3 DEF Forward, LockShape
  <2>2. call' \in [Caller -> Call \cup {Null}]
    <3>1. CASE UNCHANGED call
      BY <3>1 DEF TypeOK
    <3>2. CASE link[s].open /\ Send(s, link[s].to, Current(s))
      <4>1. link[s].to \in Server
        BY <3>2 DEF LinkShape, TypeOK, Link
      <4>2. Current(s) \in Request
        BY <2>1, CurrentType DEF Request
      <4> QED
        BY <3>2, <4>1, <4>2, SendType DEF Caller
    <3> QED
      BY <1>3, <3>1, <3>2 DEF Forward
  <2>3. stage' \in [Server -> {"idle", "forward", "wait", "ok", "failed"}]
    BY <1>3 DEF Forward, TypeOK
  <2> QED
    BY <1>3, <2>2, <2>3 DEF Forward, TypeOK
<1>4. CASE ForwardLost(s) \/ PeerLost(s)
  <2>1. lock[s] # Null
    BY <1>4 DEF ForwardLost, PeerLost, LockShape
  <2> QED
    BY <1>4, <2>1, NoReplyType DEF ForwardLost, PeerLost
<1>5. CASE ReplyIn(s)
  <2>1. call' \in [Caller -> Call \cup {Null}]
    BY <1>5, ClearType DEF ReplyIn, Caller
  <2>2. stage' \in [Server -> {"idle", "forward", "wait", "ok", "failed"}]
    BY <1>5 DEF ReplyIn, TypeOK
  <2> QED
    BY <1>5, <2>1, <2>2 DEF ReplyIn, TypeOK
<1>6. CASE Reply(s)
  <2>1. lock[s] \in Caller /\ call[lock[s]] # Null
    BY <1>6 DEF Reply, LockShape, TypeOK
  <2>2. call' \in [Caller -> Call \cup {Null}]
    BY <1>6, <2>1, AnswerTypes, RespondType DEF Reply
  <2> QED
    BY <1>6, <2>2 DEF Reply, TypeOK
<1> QED
  BY <1>1, <1>2, <1>3, <1>4, <1>5, <1>6 DEF Handler

LEMMA MainType ==
    ASSUME TypeOK, CallShape, AnswerShape, LinkShape, NEW s \in Server, Main(s)
    PROVE  TypeOK'
<1> USE DEF zkVars, mainVars, nextVars, tableVars, history
<1>1. CASE List(s)
  <2>1. get_second_highest_id(znodes, s) \in Server \cup {Null}
    BY SecondHighestIsBelow DEF TypeOK
  <2> QED
    BY <1>1, <2>1 DEF List, TypeOK
<1>2. CASE ListNothingBelow(s)
  <2>1. crashes' \in Nat
    BY <1>2 DEF ListNothingBelow, TypeOK
  <2> QED
    BY <1>2, <2>1, DownType DEF ListNothingBelow
<1>3. CASE Fetch(s)
  <2>1. source[s] \in Server
    BY <1>3 DEF Fetch, LinkShape, TypeOK
  <2>2. [op |-> "gettable"] \in Request
    BY DEF Request
  <2>3. call' \in [Caller -> Call \cup {Null}]
    BY <1>3, <2>1, <2>2, SendType DEF Fetch, Caller
  <2> QED
    BY <1>3, <2>3 DEF Fetch, TypeOK
<1>4. CASE Fill(s)
  <2>1. call[s].answer \in Copy
    BY <1>4 DEF Fill, CallShape, AnswerShape, Caller
  <2>2. call' \in [Caller -> Call \cup {Null}]
    BY <1>4, ClearType DEF Fill, Caller
  <2>3. table' \in [Server -> Table] /\ log' \in [Server -> Seq(Update)]
    BY <1>4, <2>1 DEF Fill, Copy, TypeOK
  <2> QED
    BY <1>4, <2>2, <2>3 DEF Fill, TypeOK
<1>5. CASE FetchLost(s)
  <2>1. call' \in [Caller -> Call \cup {Null}]
    BY <1>5, ClearType DEF FetchLost, Caller
  <2> QED
    BY <1>5, <2>1 DEF FetchLost, TypeOK
<1> QED
  BY <1>1, <1>2, <1>3, <1>4, <1>5 DEF Main

LEMMA WatcherType ==
    ASSUME TypeOK, NEW s \in Server, Watcher(s)
    PROVE  TypeOK'
<1> USE DEF zkVars, mainVars, nextVars, tableVars, history
<1>1. CASE Notice(s)
  <2>1. zk_closest_node(s, znodes) \in Server \cup {Null}
    BY ClosestIsNearest DEF TypeOK
  <2> QED
    BY <1>1, <2>1 DEF Notice, TypeOK
<1>2. CASE Disconnect(s)
  <2>1. link' \in [Server -> Link]
    <3> PICK l : l = link[s]
      OBVIOUS
    <3>1. l \in [to : Server \cup {Null}, open : BOOLEAN]
      BY DEF TypeOK, Link
    <3>2. [l EXCEPT !.open = FALSE] \in Link
      BY <3>1 DEF Link
    <3>3. link' = [link EXCEPT ![s] = [l EXCEPT !.open = FALSE]]
      BY <1>2 DEF Disconnect
    <3> QED
      BY <3>2, <3>3 DEF TypeOK
  <2> QED
    BY <1>2, <2>1 DEF Disconnect, TypeOK
<1>3. CASE DoubleDisconnect(s)
  <2>1. crashes' \in Nat
    BY <1>3 DEF DoubleDisconnect, TypeOK
  <2> QED
    BY <1>3, <2>1, DownType DEF DoubleDisconnect
<1>4. CASE Connect(s)
  <2>1. link' \in [Server -> Link]
    BY <1>4 DEF Connect, TypeOK, Link, NoLink
  <2> QED
    BY <1>4, <2>1 DEF Connect, TypeOK
<1> QED
  BY <1>1, <1>2, <1>3, <1>4 DEF Watcher

LEMMA EnvironmentType ==
    ASSUME TypeOK
    PROVE  /\ \A x \in Caller : AnswerLost(x) => TypeOK'
           /\ \A s \in Server : (Register(s) \/ Crash(s) \/ Expire(s)) => TypeOK'
<1> USE DEF zkVars, mainVars, nextVars, tableVars, history
<1>1. ASSUME NEW x \in Caller, AnswerLost(x) PROVE TypeOK'
  <2>1. /\ call \in [Caller -> Call \cup {Null}]
        /\ call[x] # Null
        /\ call' = [call EXCEPT ![x].answer = Null]
    BY <1>1 DEF AnswerLost, TypeOK
  <2>2. [call[x] EXCEPT !.answer = Null] \in Call
    <3>1. call[x] \in Call
      BY <2>1
    <3> QED
      BY <3>1 DEF Call
  <2>3. call' \in [Caller -> Call \cup {Null}]
    BY <2>1, <2>2
  <2> QED
    BY <1>1, <2>3 DEF AnswerLost, TypeOK
<1>2. ASSUME NEW s \in Server, Register(s) PROVE TypeOK'
  BY <1>2 DEF Register, FireWatches, TypeOK
<1>3. ASSUME NEW s \in Server, Crash(s) PROVE TypeOK'
  <2>1. crashes' \in Nat
    BY <1>3 DEF Crash, TypeOK
  <2> QED
    BY <1>3, <2>1, DownType DEF Crash
<1>4. ASSUME NEW s \in Server, Expire(s) PROVE TypeOK'
  BY <1>4 DEF Expire, FireWatches, TypeOK
<1> QED
  BY <1>1, <1>2, <1>3, <1>4

LEMMA TypeStep ==
    ASSUME TypeOK, Shape, [Next]_vars
    PROVE  TypeOK'
<1>1. CASE Next
  BY <1>1, ClientType, HandlerType, MainType, WatcherType, EnvironmentType DEF Next, Shape
<1>2. CASE UNCHANGED vars
  BY <1>2 DEF TypeOK, vars, zkVars, mainVars, nextVars, tableVars, history
<1> QED
  BY <1>1, <1>2

-----------------------------------------------------------------------------
(* Shape.                                                                  *)

LEMMA DownShape ==
    ASSUME TypeOK, Shape, NEW s \in Server, NEW why, Down(s, why)
    PROVE  Shape'
<1>1. ASSUME NEW t \in Server, t # s, lock[t] # Null
      PROVE  call'[lock[t]] = call[lock[t]]
  <2>1. phase[t] = "serving" /\ lock[t] \in Caller
    BY <1>1 DEF Shape, LockShape, TypeOK
  <2> QED
    BY <1>1, <2>1 DEF Shape, LockShape, Down, CallsWithout, Alive, Dead
<1>2. ASSUME NEW x \in Caller, call'[x] # Null
      PROVE  call'[x] = call[x]
  BY <1>2 DEF Down, CallsWithout
<1>3. LockShape'
  BY <1>1 DEF Shape, LockShape, Down, TypeOK
<1>4. CallShape'
  <2> SUFFICES ASSUME NEW t \in Server PROVE CallShape!(t)'
    BY DEF CallShape
  <2>1. CASE t = s
    BY <2>1, <1>2 DEF Down, CallsWithout, TypeOK, Caller
  <2>2. CASE t # s
    <3>1. stage[t] = "wait" => lock[t] # Null /\ phase[t] = "serving"
      BY DEF Shape, LockShape
    <3>2. stage[t] = "wait" \/ phase[t] = "fetching" => call'[t] = call[t]
      BY <2>2, <3>1 DEF Down, CallsWithout, Dead, Caller
    <3>3. stage[t] = "wait" => Current(t)' = Current(t)
      BY <1>1, <2>2, <3>1 DEF Current, Down
    <3> QED
      BY <2>2, <3>1, <3>2, <3>3, <1>2 DEF Shape, CallShape, Down, Caller, TypeOK
  <2> QED
    BY <2>1, <2>2
<1>5. AnswerShape'
  BY <1>2 DEF Shape, AnswerShape
<1>6. LinkShape'
  BY DEF Shape, LinkShape, Down, NoLink, TypeOK
<1> QED
  BY <1>3, <1>4, <1>5, <1>6 DEF Shape

\* A server whose own call comes to an end, while its update goes on.
LEMMA EndCallShape ==
    ASSUME TypeOK, Shape, NEW s \in Server, NEW result \in {"ok", "failed"},
           stage[s] # "idle",
           \A t \in Server : lock[t] # s,
           stage' = [stage EXCEPT ![s] = result],
           call' = [call EXCEPT ![s] = Null],
           UNCHANGED <<mainVars, nextVars, lock>>
    PROVE  Shape'
<1> USE DEF mainVars, nextVars
<1>0. \A t \in Server : t \in Caller /\ stage'[t] = IF t = s THEN result ELSE stage[t]
  BY DEF TypeOK, Caller
<1>1. ASSUME NEW t \in Server, lock[t] # Null
      PROVE  call'[lock[t]] = call[lock[t]]
  BY <1>1 DEF TypeOK
<1>2. LockShape'
  BY <1>0, <1>1 DEF Shape, LockShape
<1>3. CallShape'
  <2>1. ASSUME NEW t \in Server, stage[t] = "wait" PROVE Current(t)' = Current(t)
    BY <1>1, <2>1 DEF Shape, LockShape, Current
  <2>2. \A t \in Server : call'[t] = IF t = s THEN Null ELSE call[t]
    BY <1>0 DEF TypeOK
  <2>3. phase[s] = "serving"
    BY DEF Shape, LockShape
  <2>4. ASSUME NEW t \in Server PROVE CallShape!(t)'
    <3>1. CASE t = s
      BY <3>1, <1>0, <2>2, <2>3
    <3>2. CASE t # s
      BY <3>2, <1>0, <2>1, <2>2 DEF Shape, CallShape
    <3> QED
      BY <3>1, <3>2
  <2> QED
    BY <2>4 DEF CallShape
<1>4. AnswerShape'
  <2>1. \A x \in Caller : call'[x] # Null => call'[x] = call[x]
    BY DEF TypeOK
  <2> QED
    BY <2>1 DEF Shape, AnswerShape
<1>5. LinkShape'
  BY DEF Shape, LinkShape
<1> QED
  BY <1>2, <1>3, <1>4, <1>5 DEF Shape

\* The call of a server whose update was not sent, is answered, or can no
\* longer be answered, is not being worked on.
LEMMA NotWorkedOn ==
    ASSUME TypeOK, Shape, NEW s \in Server,
           \/ stage[s] = "forward"
           \/ call[s] # Null /\ (call[s].answer # Null \/ ~Alive(call[s].to))
    PROVE  \A t \in Server : lock[t] # s
<1> SUFFICES ASSUME NEW t \in Server, lock[t] = s PROVE FALSE
  OBVIOUS
<1>1. call[s] # Null /\ call[s].to = t /\ call[s].answer = Null /\ Alive(t)
  BY NullIsNoServer DEF Shape, LockShape, Alive
<1>2. stage[s] = "forward" => call[s] = Null
  BY DEF Shape, LockShape, CallShape
<1> QED
  BY <1>1, <1>2

LEMMA NoReplyShape ==
    ASSUME TypeOK, Shape, NEW s \in Server, NEW why, NoReply(s, why),
           \/ stage[s] = "forward"
           \/ stage[s] = "wait" /\ ~Alive(call[s].to)
    PROVE  Shape'
<1>1. CASE Down(s, why)
  BY <1>1, DownShape
<1>2. CASE /\ stage' = [stage EXCEPT ![s] = "failed"]
           /\ call' = [call EXCEPT ![s] = Null]
           /\ UNCHANGED <<zkVars, mainVars, nextVars, table, log, lock, history>>
  <2>1. \A t \in Server : lock[t] # s
    BY NotWorkedOn DEF Shape, CallShape
  <2> QED
    BY <1>2, <2>1, EndCallShape
<1> QED
  BY <1>1, <1>2 DEF NoReply

\* A step of one server that changes no more than one call: the rest of the
\* state keeps its shape.
LEMMA LocalShape ==
    ASSUME TypeOK, Shape, NEW s \in Server, NEW x \in Caller,
           UNCHANGED nextVars,
           \A t \in Server : t # s =>
              /\ phase'[t] = phase[t] /\ source'[t] = source[t]
              /\ lock'[t] = lock[t] /\ stage'[t] = stage[t]
              /\ lock[t] # x,
           \A y \in Caller : y # x => call'[y] = call[y],
           call'[x] # Null /\ call'[x].answer # Null =>
              /\ call'[x].req.op = "gettable" => call'[x].answer \in Copy
              /\ IsUpdate(call'[x].req) => call'[x].answer \in {Ok, Error},
           LockShape!(s)', CallShape!(s)', LinkShape!(s)',
           x \in Server => CallShape!(x)'
    PROVE  Shape'
<1>1. ASSUME NEW t \in Server, t # s, lock[t] # Null
      PROVE  call'[lock[t]] = call[lock[t]]
  BY <1>1 DEF TypeOK
<1>2. LockShape'
  <2>1. ASSUME NEW t \in Server, t # s PROVE LockShape!(t)'
    BY <1>1, <2>1 DEF Shape, LockShape
  <2> QED
    BY <2>1 DEF LockShape
<1>3. CallShape'
  <2>1. ASSUME NEW t \in Server, t # s, t # x PROVE CallShape!(t)'
    <3>1. call'[t] = call[t]
      BY <2>1 DEF Caller
    <3>2. stage[t] = "wait" => Current(t)' = Current(t)
      BY <1>1, <2>1 DEF Shape, LockShape, Current
    <3> QED
      BY <2>1, <3>1, <3>2 DEF Shape, CallShape
  <2> QED
    BY <2>1 DEF CallShape
<1>4. AnswerShape'
  BY DEF Shape, AnswerShape
<1>5. LinkShape'
  BY DEF Shape, LinkShape, nextVars
<1> QED
  BY <1>2, <1>3, <1>4, <1>5 DEF Shape

\* What an answer does to the call of x.
LEMMA RespondCall ==
    ASSUME TypeOK, NEW x \in Caller, call[x] # Null, NEW a \in Answer, Respond(x, a)
    PROVE  /\ \A y \in Caller : y # x => call'[y] = call[y]
           /\ Dead(x) => call'[x] = Null
           /\ ~Dead(x) => /\ call'[x] # Null
                          /\ call'[x].req = call[x].req
                          /\ call'[x].answer = a
<1>1. call[x] \in Call
  BY DEF TypeOK
<1>2. ~Dead(x) => call'[x] = [call[x] EXCEPT !.answer = a]
  BY DEF Respond, TypeOK
<1>3. [call[x] EXCEPT !.answer = a] \in Call
  BY <1>1 DEF Call
<1>4. [call[x] EXCEPT !.answer = a] # Null
  BY <1>3, NullAssumption
<1>5. /\ [call[x] EXCEPT !.answer = a].req = call[x].req
      /\ [call[x] EXCEPT !.answer = a].answer = a
  BY <1>1 DEF Call
<1>6. (\A y \in Caller : y # x => call'[y] = call[y]) /\ (Dead(x) => call'[x] = Null)
  BY DEF Respond, TypeOK
<1> QED
  BY <1>2, <1>4, <1>5, <1>6

\* A read, or an update that has nothing to do.
LEMMA RespondShape ==
    ASSUME TypeOK, Shape, NEW x \in Caller, call[x] # Null, call[x].answer = Null,
           NEW a \in Answer, Respond(x, a),
           call[x].req.op = "gettable" => a \in Copy,
           IsUpdate(call[x].req) => a \in {Ok, Error},
           \A t \in Server : lock[t] # x,
           NEW s \in Server, phase[s] = "serving",
           UNCHANGED <<mainVars, nextVars, lock, stage>>
    PROVE  Shape'
<1> USE DEF mainVars, nextVars
<1>1. /\ \A y \in Caller : y # x => call'[y] = call[y]
      /\ call'[x] # Null => call'[x].req = call[x].req /\ call'[x].answer = a
      /\ call'[x] = Null => Dead(x)
      /\ Dead(x) => call'[x] = Null
  BY RespondCall
<1>2. ASSUME NEW t \in Server, lock[t] # Null PROVE call'[lock[t]] = call[lock[t]]
  BY <1>1, <1>2 DEF TypeOK
<1>3. ASSUME NEW t \in Server PROVE LockShape!(t)' /\ LinkShape!(t)'
  BY <1>2 DEF Shape, LockShape, LinkShape
<1>4. ASSUME NEW t \in Server PROVE CallShape!(t)'
  <2>1. t \in Caller
    BY DEF Caller
  <2>2. stage[t] = "wait" => Current(t)' = Current(t) /\ phase[t] = "serving"
    BY <1>2 DEF Shape, LockShape, Current
  <2>3. CASE t # x
    BY <1>1, <2>1, <2>2, <2>3 DEF Shape, CallShape
  <2>4. CASE t = x
    BY <1>1, <2>1, <2>2, <2>4 DEF Shape, CallShape, Dead
  <2> QED
    BY <2>3, <2>4
<1> QED
  BY <1>1, <1>3, <1>4, LocalShape

\* next_node_put or next_node_del has sent the update on.
LEMMA SendOnShape ==
    ASSUME TypeOK, Shape, NEW s \in Server, NEW t \in Server, stage[s] = "forward",
           \A u \in Server : lock[u] # s,
           stage' = [stage EXCEPT ![s] = "wait"],
           Send(s, t, Current(s)),
           UNCHANGED <<mainVars, nextVars, lock>>
    PROVE  Shape'
<1> USE DEF mainVars, nextVars
<1>0. s \in Caller /\ lock[s] # Null /\ phase[s] = "serving"
  BY DEF Caller, Shape, LockShape
<1>1. /\ \A y \in Caller : y # s => call'[y] = call[y]
      /\ call'[s] = [to |-> t, req |-> Current(s), answer |-> Null]
  BY <1>0 DEF Send, TypeOK
<1>2. call'[s] # Null
  <2>1. Current(s) \in Request
    BY <1>0, CurrentType DEF Shape, Request
  <2>2. call'[s] \in Call
    BY <1>1, <2>1 DEF Call
  <2> QED
    BY <2>2, NullAssumption
<1>3. /\ \A u \in Server : u # s => stage'[u] = stage[u]
      /\ stage'[s] = "wait"
  BY DEF TypeOK
<1>4. call'[lock[s]] = call[lock[s]]
  BY <1>0, <1>1 DEF TypeOK
<1>5. LockShape!(s)' /\ LinkShape!(s)'
  BY <1>0, <1>3, <1>4 DEF Shape, LockShape, LinkShape
<1>6. CallShape!(s)'
  BY <1>0, <1>1, <1>2, <1>3, <1>4 DEF Current
<1>7. call'[s].answer = Null
  BY <1>1
<1> QED
  BY <1>0, <1>1, <1>3, <1>5, <1>6, <1>7, LocalShape

\* leaveWrite and the answer to x, whose update this was.
LEMMA AnsweredShape ==
    ASSUME TypeOK, Shape, NEW s \in Server, NEW x \in Caller, NEW a \in {Ok, Error},
           stage[s] \in {"ok", "failed"}, lock[s] = x, Respond(x, a),
           lock' = [lock EXCEPT ![s] = Null],
           stage' = [stage EXCEPT ![s] = "idle"],
           UNCHANGED <<mainVars, nextVars>>
    PROVE  Shape'
<1>1. /\ x # Null /\ call[x] # Null /\ call[x].to = s
      /\ IsUpdate(call[x].req) /\ phase[s] = "serving"
  BY DEF Shape, LockShape
<1>2. call[s] = Null
  BY <1>1 DEF Shape, CallShape
<1>3. /\ \A y \in Caller : y # x => call'[y] = call[y]
      /\ call'[x] # Null => call'[x].req = call[x].req /\ call'[x].answer = a
      /\ call'[x] = Null => Dead(x)
      /\ Dead(x) => call'[x] = Null
  BY <1>1, RespondCall, AnswerTypes
<1>4. UNCHANGED <<phase, source, next, link, watcher>>
  BY DEF mainVars, nextVars
<1>5. \A t \in Server : t # s => /\ lock'[t] = lock[t] /\ stage'[t] = stage[t]
                                 /\ lock[t] # x
  BY <1>1 DEF Shape, LockShape, TypeOK
<1>6. lock'[s] = Null /\ stage'[s] = "idle" /\ x # s
  BY <1>1, <1>2 DEF TypeOK
<1>7. LockShape!(s)' /\ LinkShape!(s)'
  BY <1>4, <1>6 DEF Shape, LinkShape
<1>8. CallShape!(s)'
  BY <1>1, <1>2, <1>3, <1>4, <1>6 DEF Caller
<1>9. x \in Server => CallShape!(x)'
  <2> SUFFICES ASSUME x \in Server PROVE CallShape!(x)'
    OBVIOUS
  <2>1. stage[x] = "wait" => /\ Current(x)' = Current(x) /\ phase[x] = "serving"
    <3> SUFFICES ASSUME stage[x] = "wait" PROVE Current(x)' = Current(x) /\ phase[x] = "serving"
      OBVIOUS
    <3>2. lock[x] # Null /\ phase[x] = "serving" /\ lock[x] \in Caller /\ lock[x] # x
      BY <1>5, <1>6 DEF Shape, LockShape, TypeOK
    <3>3. call'[lock[x]] = call[lock[x]] /\ lock'[x] = lock[x]
      BY <1>3, <1>5, <1>6, <3>2
    <3> QED
      BY <3>2, <3>3 DEF Current
  <2> QED
    BY <1>1, <1>3, <1>4, <1>5, <1>6, <2>1 DEF Shape, CallShape, Dead
<1>10. call'[x] # Null =>
          /\ call'[x].req.op = "gettable" => call'[x].answer \in Copy
          /\ IsUpdate(call'[x].req) => call'[x].answer \in {Ok, Error}
  BY <1>1, <1>3 DEF IsUpdate
<1>11. UNCHANGED nextVars
  BY DEF nextVars
<1>12. \A t \in Server : phase'[t] = phase[t] /\ source'[t] = source[t]
  BY <1>4
<1> QED
  BY <1>3, <1>5, <1>7, <1>8, <1>9, <1>10, <1>11, <1>12, LocalShape

LEMMA ReplyShape ==
    ASSUME TypeOK, Shape, NEW s \in Server, Reply(s)
    PROVE  Shape'
<1>1. lock[s] \in Caller
  BY DEF Reply, Shape, LockShape, TypeOK
<1>2. /\ stage[s] \in {"ok", "failed"}
      /\ Respond(lock[s], Ok) \/ Respond(lock[s], Error)
      /\ lock' = [lock EXCEPT ![s] = Null]
      /\ stage' = [stage EXCEPT ![s] = "idle"]
      /\ UNCHANGED <<mainVars, nextVars>>
  BY DEF Reply
<1> QED
  BY <1>1, <1>2, AnsweredShape

\* fill_table has asked, is answered, or has failed.
LEMMA FetchShape ==
    ASSUME TypeOK, Shape, NEW s \in Server, Fetch(s)
    PROVE  Shape'
<1> USE DEF mainVars, nextVars
<1>1. /\ phase[s] = "listed" /\ phase' = [phase EXCEPT ![s] = "fetching"]
      /\ UNCHANGED <<source, lock, stage, next, link, watcher>>
      /\ Send(s, source[s], [op |-> "gettable"])
  BY DEF Fetch, tableVars
<1>2. s \in Caller /\ source[s] \in Server /\ lock[s] = Null /\ stage[s] = "idle"
  BY <1>1 DEF Caller, Shape, LinkShape, LockShape, TypeOK
<1>3. /\ \A y \in Caller : y # s => call'[y] = call[y]
      /\ call'[s] = [to |-> source[s], req |-> [op |-> "gettable"], answer |-> Null]
  BY <1>1, <1>2 DEF Send, TypeOK
<1>4. call'[s] # Null
  <2>1. [op |-> "gettable"] \in Request
    BY DEF Request
  <2>2. call'[s] \in Call
    BY <1>2, <1>3, <2>1 DEF Call
  <2> QED
    BY <2>2, NullAssumption
<1>5. phase'[s] = "fetching" /\ \A t \in Server : t # s => phase'[t] = phase[t]
  BY <1>1 DEF TypeOK
<1>6. call[s] = Null
  BY <1>1, <1>2 DEF Shape, CallShape
<1>7. \A t \in Server : lock[t] # s
  BY <1>2, <1>6, NullIsNoServer DEF Shape, LockShape
<1>8. LockShape!(s)' /\ LinkShape!(s)'
  BY <1>1, <1>2, <1>5 DEF Shape, LinkShape
<1>9. CallShape!(s)'
  BY <1>1, <1>2, <1>3, <1>4, <1>5
<1>10. call'[s].answer = Null
  BY <1>3
<1> QED
  BY <1>1, <1>2, <1>3, <1>5, <1>7, <1>8, <1>9, <1>10, LocalShape

LEMMA FetchedShape ==
    ASSUME TypeOK, Shape, NEW s \in Server, phase[s] \in {"listed", "fetching"},
           phase' = [phase EXCEPT ![s] = "serving"],
           source' = [source EXCEPT ![s] = Null],
           call' = [call EXCEPT ![s] = Null],
           UNCHANGED <<nextVars, lock, stage>>
    PROVE  Shape'
<1> USE DEF nextVars
<1>1. s \in Caller /\ lock[s] = Null /\ stage[s] = "idle"
  BY DEF Caller, Shape, LockShape
<1>2. /\ \A t \in Server : t # s => phase'[t] = phase[t] /\ source'[t] = source[t]
      /\ phase'[s] = "serving"
  BY DEF TypeOK
<1>3. call'[s] = Null /\ \A y \in Caller : y # s => call'[y] = call[y]
  BY <1>1 DEF TypeOK
<1>4. \A t \in Server : lock[t] # s
  BY <1>1, NullIsNoServer DEF Shape, LockShape, CallShape, IsUpdate
<1>5. LockShape!(s)' /\ LinkShape!(s)' /\ CallShape!(s)'
  BY <1>1, <1>2, <1>3 DEF Shape, LinkShape
<1> QED
  BY <1>1, <1>2, <1>3, <1>4, <1>5, LocalShape

\* A step that changes no more of the calls than those of x, which no server
\* is working on, keeps the locks in shape.
LEMMA CallStepShape ==
    ASSUME TypeOK, Shape, NEW x \in Caller, x \notin Server \/ call'[x] = Null,
           UNCHANGED <<mainVars, nextVars, lock, stage>>,
           \A t \in Server : lock[t] # x,
           \A t \in Server : t = x => stage[t] # "wait" /\ phase[t] # "fetching",
           \A y \in Caller : y # x => call'[y] = call[y],
           call'[x] # Null /\ call'[x].answer # Null =>
              /\ call'[x].req.op = "gettable" => call'[x].answer \in Copy
              /\ IsUpdate(call'[x].req) => call'[x].answer \in {Ok, Error}
    PROVE  Shape'
<1> USE DEF mainVars, nextVars
<1>1. ASSUME NEW t \in Server, lock[t] # Null
      PROVE  call'[lock[t]] = call[lock[t]]
  BY <1>1 DEF TypeOK
<1>2. LockShape'
  BY <1>1 DEF Shape, LockShape
<1>3. CallShape'
  <2>1. ASSUME NEW t \in Server, stage[t] = "wait" PROVE Current(t)' = Current(t)
    BY <1>1, <2>1 DEF Shape, LockShape, Current
  <2>2. ASSUME NEW t \in Server PROVE t \in Caller /\ (t # x => call'[t] = call[t])
    BY DEF Caller
  <2> QED
    BY <2>1, <2>2 DEF Shape, CallShape
<1>4. AnswerShape'
  BY DEF Shape, AnswerShape
<1>5. LinkShape'
  BY DEF Shape, LinkShape
<1> QED
  BY <1>2, <1>3, <1>4, <1>5 DEF Shape

LEMMA ClientShape ==
    ASSUME TypeOK, Shape, NEW c \in Client,
           IssueUpdate(c) \/ IssueGet(c) \/ Finish(c) \/ ClientLost(c)
    PROVE  Shape'
<1> USE DEF zkVars, mainVars, nextVars, tableVars, history
<1>0. c \in Caller /\ c \notin Server
  BY ChainAssumption DEF Caller
<1>1. ASSUME NEW t \in Server PROVE lock[t] # c
  BY <1>0, NullIsNoServer DEF Shape, LockShape, IssueUpdate, IssueGet, Finish, ClientLost
<1>2. \A y \in Caller : y # c => call'[y] = call[y]
  BY DEF IssueUpdate, IssueGet, Finish, ClientLost, Send, TypeOK
<1>3. call'[c] # Null => call'[c].answer = Null
  BY <1>0 DEF IssueUpdate, IssueGet, Finish, ClientLost, Send, TypeOK
<1>4. UNCHANGED <<mainVars, nextVars, lock, stage>>
  BY DEF IssueUpdate, IssueGet, Finish, ClientLost
<1> QED
  BY <1>0, <1>1, <1>2, <1>3, <1>4, CallStepShape

LEMMA HandlerShape ==
    ASSUME TypeOK, Shape, NEW s \in Server, Handler(s)
    PROVE  Shape'
<1> USE DEF zkVars, mainVars, nextVars, tableVars, history
<1>0. s \in Caller /\ s # Null /\ Server \subseteq Caller
  BY NullIsNoServer DEF Caller
<1>1. ASSUME NEW x \in Caller, Begin(x, s) PROVE Shape'
  <2>1. LockShape'
    BY <1>1, NullIsNoServer DEF Begin, At, Shape, LockShape, TypeOK
  <2>2. CallShape'
    <3>1. ASSUME NEW t \in Server, stage'[t] = "wait"
          PROVE  t # s /\ stage[t] = "wait" /\ Current(t)' = Current(t)
      BY <1>1, <3>1 DEF Begin, TypeOK, Current
    <3>2. UNCHANGED <<call, phase>> /\ stage[s] = "idle"
      BY <1>1 DEF Begin, Shape, LockShape
    <3>3. \A t \in Server : t # s => stage'[t] = stage[t]
      BY <1>1 DEF Begin, TypeOK
    <3> QED
      BY <3>1, <3>2, <3>3 DEF Shape, CallShape
  <2> QED
    BY <1>1, <2>1, <2>2 DEF Begin, Shape, AnswerShape, LinkShape
<1>2. ASSUME NEW x \in Caller, BeginMissing(x, s) \/ Get(x, s) \/ GetTable(x, s)
      PROVE  Shape'
  <2>1. At(x, s) /\ lock[s] = Null
    BY <1>2 DEF BeginMissing, Get, GetTable
  <2>2. \A t \in Server : lock[t] # x
    BY <2>1, NullIsNoServer DEF At, Shape, LockShape
  <2>3. PICK a \in Answer : /\ Respond(x, a)
                            /\ call[x].req.op = "gettable" => a \in Copy
                            /\ IsUpdate(call[x].req) => a \in {Ok, Error}
    <3>1. CASE BeginMissing(x, s)
      BY <3>1, AnswerTypes DEF BeginMissing, IsUpdate
    <3>2. CASE Get(x, s)
      <4>1. call[x].req.key \in Key
        BY <2>1, <3>2, AtType DEF Get, Request, Update
      <4>2. table[s][call[x].req.key] \in Value \cup {Null}
        BY <4>1 DEF TypeOK, Table
      <4> QED
        BY <3>2, <4>2, AnswerTypes DEF Get, IsUpdate
    <3>3. CASE GetTable(x, s)
      <4>1. [table |-> table[s], log |-> log[s]] \in Copy
        BY DEF TypeOK, Copy
      <4> QED
        BY <3>3, <4>1, AnswerTypes DEF GetTable, IsUpdate
    <3> QED
      BY <1>2, <3>1, <3>2, <3>3
  <2>4. UNCHANGED <<mainVars, nextVars, lock, stage>>
    BY <1>2 DEF BeginMissing, Get, GetTable
  <2> QED
    BY <2>1, <2>2, <2>3, <2>4, RespondShape DEF At
<1>3. CASE Forward(s)
  <2>1. \A t \in Server : lock[t] # s
    BY <1>3, NotWorkedOn DEF Forward
  <2>2. CASE /\ link[s].to = Null
             /\ stage' = [stage EXCEPT ![s] = "failed"]
             /\ UNCHANGED call
    <3>1. call[s] = Null
      BY <1>3 DEF Forward, Shape, LockShape, CallShape
    <3>2. call' = [call EXCEPT ![s] = Null]
      BY <2>2, <3>1 DEF TypeOK
    <3> QED
      BY <1>3, <2>1, <2>2, <3>2, EndCallShape DEF Forward
  <2>3. CASE /\ stage' = [stage EXCEPT ![s] = "wait"]
             /\ Send(s, link[s].to, Current(s))
             /\ link[s].open
    <3>1. link[s].to \in Server
      BY <2>3 DEF Shape, LinkShape, TypeOK, Link
    <3> QED
      BY <1>3, <2>1, <2>3, <3>1, SendOnShape DEF Forward
  <2> QED
    BY <1>3, <2>2, <2>3 DEF Forward
<1>4. CASE ForwardLost(s)
  BY <1>4, NoReplyShape DEF ForwardLost
<1>5. CASE PeerLost(s)
  BY <1>5, NoReplyShape DEF PeerLost
<1>6. CASE ReplyIn(s)
  <2>1. \A t \in Server : lock[t] # s
    BY <1>6, NotWorkedOn DEF ReplyIn, Shape, CallShape
  <2> QED
    BY <1>6, <2>1, EndCallShape DEF ReplyIn
<1>7. CASE Reply(s)
  BY <1>7, ReplyShape
<1> QED
  BY <1>1, <1>2, <1>3, <1>4, <1>5, <1>6, <1>7 DEF Handler

LEMMA MainShape ==
    ASSUME TypeOK, Shape, NEW s \in Server, Main(s)
    PROVE  Shape'
<1> USE DEF zkVars, mainVars, nextVars, tableVars, history
<1>0. \A t \in Server : t \in Caller
  BY DEF Caller
<1>1. CASE List(s)
  <2>1. phase' \in [Server -> {"off", "registered", "listed", "fetching", "serving", "crashed"}]
        /\ \A t \in Server : t # s => phase'[t] = phase[t] /\ source'[t] = source[t]
    BY <1>1 DEF List, TypeOK
  <2>2. phase'[s] # "fetching" /\ phase'[s] # "crashed" /\ phase[s] = "registered"
        /\ (phase'[s] = "listed" => source'[s] # Null)
    BY <1>1 DEF List, TypeOK
  <2>3. lock[s] = Null
    BY <2>2 DEF Shape, LockShape
  <2>4. UNCHANGED <<nextVars, lock, stage, call>>
    BY <1>1 DEF List
  <2>5. LockShape'
    BY <2>1, <2>3, <2>4 DEF Shape, LockShape
  <2>6. CallShape'
    BY <2>1, <2>2, <2>4 DEF Shape, CallShape, Current
  <2>7. AnswerShape'
    BY <2>4 DEF Shape, AnswerShape
  <2>8. LinkShape'
    BY <2>1, <2>2, <2>4 DEF Shape, LinkShape
  <2> QED
    BY <2>5, <2>6, <2>7, <2>8 DEF Shape
<1>2. CASE ListNothingBelow(s)
  BY <1>2, DownShape DEF ListNothingBelow
<1>3. CASE Fetch(s)
  BY <1>3, FetchShape
<1>4. CASE Fill(s) \/ FetchLost(s)
  BY <1>4, FetchedShape DEF Fill, FetchLost
<1> QED
  BY <1>1, <1>2, <1>3, <1>4 DEF Main

LEMMA WatcherShape ==
    ASSUME TypeOK, Shape, NEW s \in Server, Watcher(s)
    PROVE  Shape'
<1> USE DEF mainVars, nextVars, tableVars
<1>1. CASE DoubleDisconnect(s)
  BY <1>1, DownShape DEF DoubleDisconnect
<1>2. CASE Notice(s) \/ Disconnect(s) \/ Connect(s)
  <2>1. UNCHANGED <<phase, source, lock, stage, call>>
    BY <1>2 DEF Notice, Disconnect, Connect
  <2>2. LockShape' /\ CallShape' /\ AnswerShape'
    BY <2>1 DEF Shape, LockShape, CallShape, AnswerShape, Current
  <2>3. LinkShape'
    <3>1. CASE Notice(s)
      BY <2>1, <3>1 DEF Notice, Shape, LinkShape, TypeOK
    <3>2. CASE Disconnect(s)
      BY <2>1, <3>2 DEF Disconnect, Shape, LinkShape, TypeOK, Link
    <3>3. CASE Connect(s)
      <4>1. next[s] # Null
        BY <3>3 DEF Connect, Shape, LinkShape
      <4> QED
        BY <2>1, <3>3, <4>1 DEF Connect, Shape, LinkShape, TypeOK, NoLink
    <3> QED
      BY <1>2, <3>1, <3>2, <3>3
  <2> QED
    BY <2>2, <2>3 DEF Shape
<1> QED
  BY <1>1, <1>2 DEF Watcher

LEMMA EnvironmentShape ==
    ASSUME TypeOK, Shape
    PROVE  /\ \A x \in Caller : AnswerLost(x) => Shape'
           /\ \A s \in Server : (Register(s) \/ Crash(s) \/ Expire(s)) => Shape'
<1>1. ASSUME NEW x \in Caller, AnswerLost(x) PROVE Shape'
  <2>1. UNCHANGED <<phase, source, next, link, watcher, lock, stage>>
    BY <1>1 DEF AnswerLost, mainVars, nextVars, tableVars
  <2>2. /\ \A y \in Caller : y # x => call'[y] = call[y]
        /\ call[x] # Null /\ call[x].answer # Null /\ call[x] \in Call
        /\ call'[x] = [call[x] EXCEPT !.answer = Null]
    BY <1>1 DEF AnswerLost, TypeOK
  <2>3. call'[x] \in Call /\ call'[x].req = call[x].req /\ call'[x].answer = Null
    BY <2>2 DEF Call
  <2>4. call'[x] # Null
    BY <2>3, NullAssumption
  <2>5. ASSUME NEW t \in Server, lock[t] # Null
        PROVE  call'[lock[t]] = call[lock[t]] /\ phase[t] = "serving"
    BY <2>2, <2>5 DEF Shape, LockShape, TypeOK
  <2>6. LockShape'
    BY <2>1, <2>5 DEF Shape, LockShape
  <2>7. CallShape'
    <3> SUFFICES ASSUME NEW t \in Server PROVE CallShape!(t)'
      BY DEF CallShape
    <3>1. t \in Caller
      BY DEF Caller
    <3>2. stage[t] = "wait" => Current(t)' = Current(t)
      BY <2>1, <2>5 DEF Shape, LockShape, Current
    <3>3. CASE t = x
      BY <2>1, <2>2, <2>3, <2>4, <3>1, <3>2, <3>3 DEF Shape, CallShape
    <3>4. CASE t # x
      <4>1. call'[t] = call[t]
        BY <2>2, <3>1, <3>4
      <4> QED
        BY <2>1, <3>2, <4>1 DEF Shape, CallShape
    <3> QED
      BY <3>3, <3>4
  <2>8. AnswerShape'
    BY <2>2, <2>3 DEF Shape, AnswerShape
  <2>9. LinkShape'
    BY <2>1 DEF Shape, LinkShape
  <2> QED
    BY <2>6, <2>7, <2>8, <2>9 DEF Shape
<1>2. ASSUME NEW s \in Server, Register(s) PROVE Shape'
  <2>1. phase[s] = "off" /\ phase' = [phase EXCEPT ![s] = "registered"]
        /\ UNCHANGED <<source, next, link, watcher, lock, stage, call>>
    BY <1>2 DEF Register, nextVars, tableVars
  <2>2. \A t \in Server : phase'[t] = IF t = s THEN "registered" ELSE phase[t]
    BY <2>1 DEF TypeOK
  <2>3. LockShape' /\ LinkShape'
    BY <2>1, <2>2 DEF Shape, LockShape, LinkShape
  <2>4. CallShape' /\ AnswerShape'
    BY <2>1, <2>2 DEF Shape, LockShape, CallShape, AnswerShape, Current
  <2> QED
    BY <2>3, <2>4 DEF Shape
<1>3. ASSUME NEW s \in Server, Crash(s) PROVE Shape'
  BY <1>3, DownShape DEF Crash
<1>4. ASSUME NEW s \in Server, Expire(s) PROVE Shape'
  BY <1>4 DEF Expire, mainVars, nextVars, tableVars, Shape, LockShape, CallShape,
              AnswerShape, LinkShape, Current
<1> QED
  BY <1>1, <1>2, <1>3, <1>4

LEMMA ShapeStep ==
    ASSUME TypeOK, Shape, [Next]_vars
    PROVE  Shape'
<1>1. CASE Next
  BY <1>1, ClientShape, HandlerShape, MainShape, WatcherShape, EnvironmentShape DEF Next
<1>2. CASE UNCHANGED vars
  BY <1>2 DEF vars, zkVars, mainVars, nextVars, tableVars, Shape, LockShape, CallShape,
              AnswerShape, LinkShape, Current
<1> QED
  BY <1>1, <1>2

LEMMA InitialState ==
    ASSUME Init
    PROVE  TypeOK /\ Shape
<1>1. Founders \subseteq Server
  BY ChainAssumption
<1>2. ASSUME NEW s \in Server PROVE zk_closest_node(s, Founders) \in Server \cup {Null}
  BY <1>1, ClosestIsNearest
<1>3. next \in [Server -> Server \cup {Null}]
  BY <1>2 DEF Init
<1>4. link \in [Server -> Link]
  BY <1>3 DEF Init, Link
<1>5. EmptyTable \in Table /\ <<>> \in Seq(Update)
  BY DEF EmptyTable, Table
<1>6. TypeOK
  BY <1>1, <1>3, <1>4, <1>5 DEF Init, TypeOK
<1>7. Shape
  BY <1>1, <1>3, NullIsNoServer DEF Init, Shape, LockShape, CallShape, AnswerShape,
              LinkShape, Caller
<1> QED
  BY <1>6, <1>7

\* In every reachable state the variables have their types, and so the code
\* never looks for the call of a lock that nobody holds, the table of a
\* server it was not told, or a connection to no server.
THEOREM TypeCorrect == Spec => [](TypeOK /\ Shape)
<1>1. TypeOK /\ Shape /\ [Next]_vars => (TypeOK /\ Shape)'
  BY TypeStep, ShapeStep
<1> QED
  BY <1>1, InitialState, PTL DEF Spec

-----------------------------------------------------------------------------
(* next_node.                                                              *)

\* The only steps that touch next_node, or bring a z-node.
LEMMA NextSteps ==
    ASSUME TypeOK, Next
    PROVE  \/ /\ UNCHANGED next /\ znodes' \subseteq znodes
              /\ \A t \in Server : phase[t] # "off" => phase'[t] # "off"
           \/ \E s \in Server : \E why : Down(s, why)
           \/ \E s \in Server : Notice(s)
           \/ \E s \in Server : Register(s)
<1> USE DEF zkVars, mainVars, nextVars, tableVars, history
<1> DEFINE Kept == /\ UNCHANGED next /\ znodes' \subseteq znodes
                   /\ \A t \in Server : phase[t] # "off" => phase'[t] # "off"
<1>1. ASSUME NEW c \in Client, IssueUpdate(c) \/ IssueGet(c) \/ Finish(c) \/ ClientLost(c)
      PROVE  Kept
  BY <1>1 DEF IssueUpdate, IssueGet, Finish, ClientLost
<1>2. ASSUME NEW x \in Caller, AnswerLost(x) PROVE Kept
  BY <1>2 DEF AnswerLost
<1>3. ASSUME NEW s \in Server, Handler(s)
      PROVE  Kept \/ \E why : Down(s, why)
  <2>1. ASSUME NEW x \in Caller, Begin(x, s) \/ BeginMissing(x, s) \/ Get(x, s) \/ GetTable(x, s)
        PROVE  Kept
    BY <2>1 DEF Begin, BeginMissing, Get, GetTable
  <2>2. CASE Forward(s) \/ ReplyIn(s) \/ Reply(s)
    BY <2>2 DEF Forward, ReplyIn, Reply
  <2>3. ASSUME NEW why, NoReply(s, why) PROVE Kept \/ Down(s, why)
    BY <2>3 DEF NoReply
  <2>4. CASE ForwardLost(s) \/ PeerLost(s)
    BY <2>3, <2>4 DEF ForwardLost, PeerLost
  <2> QED
    BY <1>3, <2>1, <2>2, <2>4 DEF Handler
<1>4. ASSUME NEW s \in Server, Main(s)
      PROVE  Kept \/ \E why : Down(s, why)
  BY <1>4 DEF Main, List, ListNothingBelow, Fetch, Fill, FetchLost, TypeOK
<1>5. ASSUME NEW s \in Server, Watcher(s)
      PROVE  Kept \/ Notice(s) \/ \E why : Down(s, why)
  BY <1>5 DEF Watcher, Disconnect, DoubleDisconnect, Connect
<1>6. ASSUME NEW s \in Server, Crash(s) \/ Expire(s)
      PROVE  Kept \/ \E why : Down(s, why)
  BY <1>6 DEF Crash, Expire
<1> QED
  BY <1>1, <1>2, <1>3, <1>4, <1>5, <1>6 DEF Next

LEMMA NextIsClosestStep ==
    ASSUME TypeOK, NextIsClosest, Started, [Next]_vars
    PROVE  (NextIsClosest /\ Started)'
<1> USE DEF zkVars, mainVars, nextVars, tableVars, history
<1>1. CASE /\ UNCHANGED next /\ znodes' \subseteq znodes
           /\ \A t \in Server : phase[t] # "off" => phase'[t] # "off"
  BY <1>1 DEF NextIsClosest, Started, TypeOK
<1>2. ASSUME NEW s \in Server, NEW why, Down(s, why)
      PROVE  (NextIsClosest /\ Started)'
  <2>1. /\ \A t \in Server : next'[t] = IF t = s THEN Null ELSE next[t]
        /\ \A t \in Server : phase[t] # "off" => phase'[t] # "off"
        /\ znodes' = znodes
    BY <1>2 DEF Down, TypeOK
  <2>2. NextIsClosest'
    BY <2>1, NullIsNoServer DEF NextIsClosest, TypeOK
  <2>3. Started'
    <3>1. \A t \in Server : next'[t] # Null => next'[t] = next[t] /\ next[t] \in Server
      BY <2>1 DEF TypeOK
    <3> QED
      BY <2>1, <3>1 DEF Started, TypeOK
  <2> QED
    BY <2>2, <2>3
<1>3. ASSUME NEW s \in Server, Notice(s)
      PROVE  (NextIsClosest /\ Started)'
  <2> PICK n : n = zk_closest_node(s, znodes)
    OBVIOUS
  <2>1. \/ n = Null /\ \A t \in znodes : t <= s
        \/ n \in znodes /\ n > s /\ \A t \in znodes : t > s => n <= t
    BY ClosestIsNearest DEF TypeOK
  <2>2. /\ \A t \in Server : next'[t] = IF t = s THEN n ELSE next[t]
        /\ UNCHANGED <<znodes, phase>>
    BY <1>3 DEF Notice, TypeOK
  <2>3. znodes \subseteq Server /\ Null \notin znodes
    BY NullIsNoServer DEF TypeOK
  <2>4. NextIsClosest'
    BY <2>1, <2>2, <2>3 DEF NextIsClosest
  <2>5. Started'
    BY <2>1, <2>2, <2>3 DEF Started
  <2> QED
    BY <2>4, <2>5
<1>4. ASSUME NEW s \in Server, Register(s)
      PROVE  (NextIsClosest /\ Started)'
  <2>1. /\ UNCHANGED next /\ znodes' = znodes \cup {s}
        /\ phase' = [phase EXCEPT ![s] = "registered"]
        /\ phase[s] = "off" /\ \A t \in Server : phase[t] = "off" <=> t >= s
    BY <1>4 DEF Register
  <2>2. \A t \in Server : phase[t] # "off" => phase'[t] # "off" /\ t < s
    BY <2>1, ChainAssumption DEF TypeOK
  <2>3. Started'
    BY <2>1, <2>2 DEF Started, TypeOK
  <2>4. NextIsClosest'
    <3> SUFFICES ASSUME NEW t \in Server
                 PROVE  NextIsClosest!(t)'
      BY DEF NextIsClosest
    <3>1. next[t] # Null => next[t] \in Server /\ next[t] < s /\ next[t] > t
      BY <2>2 DEF Started, NextIsClosest, TypeOK
    <3>2. next[t] \in znodes' => next[t] \in znodes
      BY <2>1, <3>1, NullIsNoServer, ChainAssumption DEF TypeOK
    <3>3. next[t] \in znodes' => next[t] <= s
      <4>1. next[t] \in znodes' => next[t] # Null
        BY <2>1, NullIsNoServer DEF TypeOK
      <4>2. next[t] # Null => next[t] \in Nat /\ s \in Nat /\ next[t] < s
        BY <3>1, ChainAssumption
      <4>3. next[t] # Null => next[t] <= s
        BY <4>2
      <4> QED
        BY <4>1, <4>3
    <3> QED
      BY <2>1, <3>1, <3>2, <3>3 DEF NextIsClosest
  <2> QED
    BY <2>3, <2>4
<1>5. CASE UNCHANGED vars
  BY <1>5 DEF vars, NextIsClosest, Started
<1> QED
  BY <1>1, <1>2, <1>3, <1>4, <1>5, NextSteps

LEMMA InitialNext ==
    ASSUME Init
    PROVE  NextIsClosest /\ Started
<1>1. Founders \subseteq Server /\ znodes = Founders
  BY ChainAssumption DEF Init
<1>2. ASSUME NEW s \in Founders
      PROVE  LET n == zk_closest_node(s, Founders)
             IN  \/ n = Null /\ \A t \in Founders : t <= s
                 \/ n \in Founders /\ n > s /\ \A t \in Founders : t > s => n <= t
  BY <1>1, ClosestIsNearest
<1>3. \A s \in Server : next[s] = IF s \in Founders THEN zk_closest_node(s, Founders) ELSE Null
  BY DEF Init
<1>4. \A s \in Server : phase[s] = IF s \in Founders THEN "serving" ELSE "off"
  BY DEF Init
<1> QED
  BY <1>1, <1>2, <1>3, <1>4, NullIsNoServer DEF NextIsClosest, Started

\* A server moves to another successor only after the old one is gone:
\* zk_closest_node never passes over a server that is registered.
THEOREM NextMoves == Spec => NextMovesPastDead
<1> DEFINE Inv == TypeOK /\ Shape /\ NextIsClosest /\ Started
<1>1. Init => Inv
  BY InitialState, InitialNext
<1>2. Inv /\ [Next]_vars => Inv'
  BY TypeStep, ShapeStep, NextIsClosestStep
<1>3. Inv /\ [Next]_vars => [MovesPastDead]_vars
  <2> SUFFICES ASSUME Inv, Next PROVE MovesPastDead
    OBVIOUS
  <2> SUFFICES ASSUME NEW s \in Server, next[s] # Null, next'[s] # next[s]
               PROVE  next[s] \notin znodes \/ phase'[s] = "crashed"
    BY DEF MovesPastDead
  <2>1. ASSUME NEW t \in Server, NEW why, Down(t, why)
        PROVE  phase'[s] = "crashed"
    BY <2>1 DEF Down, TypeOK
  <2>2. ASSUME NEW t \in Server, Notice(t)
        PROVE  next[s] \notin znodes
    <3>1. t = s /\ next'[s] = zk_closest_node(s, znodes)
      BY <2>2 DEF Notice, TypeOK
    <3> PICK n : n = zk_closest_node(s, znodes)
      OBVIOUS
    <3>2. \/ n = Null /\ \A u \in znodes : u <= s
          \/ n \in znodes /\ n > s /\ \A u \in znodes : u > s => n <= u
      BY ClosestIsNearest DEF TypeOK
    <3>3. next[s] \in znodes => next[s] > s /\ \A u \in znodes : u > s => next[s] <= u
      BY DEF NextIsClosest
    <3>4. next[s] \in Nat /\ s \in Nat /\ (n # Null => n \in Nat)
      BY <3>2, ChainAssumption DEF TypeOK
    <3>5. CASE n = Null
      <4>1. n \notin znodes
        BY <3>5, NullIsNoServer DEF TypeOK
      <4> QED
        BY <3>2, <3>3, <3>4, <4>1
    <3>6. CASE n # Null
      BY <3>1, <3>2, <3>3, <3>4, <3>6
    <3> QED
      BY <3>5, <3>6
  <2>3. ASSUME NEW t \in Server, Register(t) PROVE FALSE
    BY <2>3 DEF Register, nextVars
  <2> QED
    BY <2>1, <2>2, <2>3, NextSteps
<1> QED
  BY <1>1, <1>2, <1>3, PTL DEF Spec, NextMovesPastDead

-----------------------------------------------------------------------------
(* 2. While no server joins: the invariant.                                *)

NobodyJoins == \A s \in Server : phase[s] \in {"serving", "crashed"}
Registered == Serving \subseteq znodes

\* A step by which nobody comes closer to serving.
NobodyStarts == \A s \in Server : ~Main(s) /\ ~Register(s)

\* From s to t without passing over a server that serves.
Reaches(s, t) == t > s /\ \A u \in Serving : u > s => t <= u

SuccessorShape == \A s \in Serving :
    /\ next[s] = Null => \A u \in Serving : u <= s
    /\ next[s] # Null => Reaches(s, next[s])
    /\ link[s].to # Null => Reaches(s, link[s].to)

HeldFrom(s, u) == \A t \in Serving : s <= t => Holds(t, u)

UpdateHeld == \A s \in Serving : lock[s] # Null =>
    /\ Holds(s, Current(s))
    /\ stage[s] = "ok" => HeldFrom(s, Current(s))
    /\ stage[s] = "wait" => Reaches(s, call[s].to)

AnswerHeld == \A x \in Caller :
    (call[x] # Null /\ IsUpdate(call[x].req)) =>
        /\ call[x].answer = Ok => HeldFrom(call[x].to, call[x].req)
        /\ x \in Client => \A t \in Serving : call[x].to <= t

-----------------------------------------------------------------------------
(* What a step does, when no server is starting.                           *)

\* The successor of s gave no reply to a delete.
DeleteFails(s) ==
    /\ stage[s] \in {"forward", "wait"}
    /\ stage' = [stage EXCEPT ![s] = "failed"]
    /\ call' = [call EXCEPT ![s] = Null]
    /\ UNCHANGED <<zkVars, mainVars, nextVars, table, log, lock, history>>

LEMMA FixedSteps ==
    ASSUME NobodyStarts, Next
    PROVE  \/ \E c \in Client : IssueUpdate(c) \/ IssueGet(c) \/ Finish(c) \/ ClientLost(c)
           \/ \E x \in Caller : AnswerLost(x)
           \/ \E s \in Server : \E why : Down(s, why)
           \/ \E s \in Server, x \in Caller :
                 Begin(x, s) \/ BeginMissing(x, s) \/ Get(x, s) \/ GetTable(x, s)
           \/ \E s \in Server : Forward(s) \/ DeleteFails(s) \/ ReplyIn(s) \/ Reply(s)
           \/ \E s \in Server : Notice(s) \/ Disconnect(s) \/ Connect(s) \/ Expire(s)
<1>1. ASSUME NEW s \in Server, ForwardLost(s) \/ PeerLost(s)
      PROVE  DeleteFails(s) \/ \E why : Down(s, why)
  BY <1>1 DEF ForwardLost, PeerLost, NoReply, DeleteFails
<1> QED
  BY <1>1 DEF NobodyStarts, Next, Handler, Watcher, DoubleDisconnect, Crash

LEMMA NobodyLeftToStart ==
    ASSUME NobodyJoins PROVE NobodyStarts
BY DEF NobodyJoins, NobodyStarts, Main, List, ListNothingBelow, Fetch, Fill, FetchLost, Register

LEMMA AppendHolds ==
    ASSUME NEW S, NEW q \in Seq(S), NEW e \in S
    PROVE  /\ \A i \in DOMAIN q : i \in DOMAIN Append(q, e) /\ Append(q, e)[i] = q[i]
           /\ \E i \in DOMAIN Append(q, e) : Append(q, e)[i] = e
<1>1. /\ DOMAIN q = 1 .. Len(q) /\ Len(q) \in Nat
      /\ DOMAIN Append(q, e) = 1 .. Len(q) + 1
      /\ \A i \in 1 .. Len(q) : Append(q, e)[i] = q[i]
      /\ Append(q, e)[Len(q) + 1] = e
  BY AppendProperties, LenProperties
<1> QED
  BY <1>1

\* A server that serves was serving before, and forgets nothing.
LEMMA ServersOnlyFail ==
    ASSUME TypeOK, Shape, NobodyStarts, [Next]_vars
    PROVE  /\ Registered => Registered'
           /\ NobodyJoins => NobodyJoins'
           /\ Serving' \subseteq Serving
           /\ \A t \in Serving' : \A u : Holds(t, u) => Holds(t, u)'
<1> USE DEF zkVars, mainVars, nextVars, tableVars, history
<1> DEFINE Goal == /\ Registered => Registered'
                   /\ NobodyJoins => NobodyJoins'
                   /\ Serving' \subseteq Serving
                   /\ \A t \in Serving' : \A u : Holds(t, u) => Holds(t, u)'
<1>1. ASSUME UNCHANGED <<phase, log>>, znodes' = znodes PROVE Goal
  BY <1>1 DEF Registered, NobodyJoins, Serving, Holds
<1>2. ASSUME NEW s \in Server, Expire(s) PROVE Goal
  BY <1>2 DEF Expire, Registered, NobodyJoins, Serving, Holds
<1>3. ASSUME NEW s \in Server, NEW why, Down(s, why) PROVE Goal
  <2>1. /\ \A t \in Server : phase'[t] = IF t = s THEN "crashed" ELSE phase[t]
        /\ \A t \in Server : t # s => log'[t] = log[t]
        /\ znodes' = znodes
    BY <1>3 DEF Down, TypeOK
  <2> QED
    BY <2>1 DEF Registered, NobodyJoins, Serving, Holds
<1>4. ASSUME NEW s \in Server, NEW x \in Caller, Begin(x, s) PROVE Goal
  <2>1. log[s] \in Seq(Update) /\ call[x].req \in Update
    BY <1>4, AtType, UpdateRequest DEF Begin, TypeOK
  <2>2. /\ UNCHANGED <<phase, znodes>>
        /\ log'[s] = Append(log[s], call[x].req)
        /\ \A t \in Server : t # s => log'[t] = log[t]
    BY <1>4 DEF Begin, TypeOK
  <2>3. \A u : Holds(s, u) => Holds(s, u)'
    BY <2>1, <2>2, AppendHolds DEF Holds
  <2> QED
    BY <2>2, <2>3 DEF Registered, NobodyJoins, Serving, Holds
<1>5. CASE UNCHANGED vars
  BY <1>1, <1>5 DEF vars
<1>6. CASE Next
  BY <1>1, <1>2, <1>3, <1>4, <1>6, FixedSteps DEF IssueUpdate, IssueGet, Finish, ClientLost,
     AnswerLost, BeginMissing, Get, GetTable, Forward, DeleteFails, ReplyIn, Reply, Notice,
     Disconnect, Connect
<1> QED
  BY <1>5, <1>6

\* While a call lasts, its server and its request stay.
LEMMA RequestsStay ==
    ASSUME TypeOK, Shape, NobodyStarts, [Next]_vars
    PROVE  \A y \in Caller : (call[y] # Null /\ call'[y] # Null) =>
               call'[y].to = call[y].to /\ call'[y].req = call[y].req
<1> USE DEF zkVars, mainVars, nextVars, tableVars, history
<1> DEFINE Goal == \A y \in Caller : (call[y] # Null /\ call'[y] # Null) =>
                      call'[y].to = call[y].to /\ call'[y].req = call[y].req
<1>0. \A s \in Server : s \in Caller
  BY DEF Caller
<1>1. ASSUME NEW x \in Caller, call[x] = Null \/ call'[x] = Null,
             \A y \in Caller : y # x => call'[y] = call[y]
      PROVE  Goal
  BY <1>1
<1>2. ASSUME NEW x \in Caller, call[x] # Null, NEW a, Respond(x, a) PROVE Goal
  <2>1. call[x] \in Call /\ \A y \in Caller : y # x => call'[y] = call[y]
    BY <1>2 DEF Respond, TypeOK
  <2>2. call'[x] = Null \/ call'[x] = [call[x] EXCEPT !.answer = a]
    BY <1>2 DEF Respond, TypeOK
  <2> QED
    BY <2>1, <2>2 DEF Call
<1>3. ASSUME NEW c \in Client, IssueUpdate(c) \/ IssueGet(c) \/ Finish(c) \/ ClientLost(c)
      PROVE  Goal
  <2>1. c \in Caller
    BY DEF Caller
  <2>2. call[c] = Null \/ call'[c] = Null
    BY <1>3, <2>1 DEF IssueUpdate, IssueGet, Finish, ClientLost, TypeOK
  <2>3. \A y \in Caller : y # c => call'[y] = call[y]
    BY <1>3, <2>1 DEF IssueUpdate, IssueGet, Finish, ClientLost, Send, TypeOK
  <2> QED
    BY <1>1, <2>1, <2>2, <2>3
<1>4. ASSUME NEW x \in Caller, AnswerLost(x) PROVE Goal
  <2>1. call[x] \in Call /\ \A y \in Caller : y # x => call'[y] = call[y]
    BY <1>4 DEF AnswerLost, TypeOK
  <2>2. call'[x] = [call[x] EXCEPT !.answer = Null]
    BY <1>4 DEF AnswerLost, TypeOK
  <2> QED
    BY <2>1, <2>2 DEF Call
<1>5. ASSUME NEW s \in Server, NEW why, Down(s, why) PROVE Goal
  BY <1>5 DEF Down, CallsWithout
<1>6. ASSUME NEW s \in Server, NEW x \in Caller,
             BeginMissing(x, s) \/ Get(x, s) \/ GetTable(x, s)
      PROVE  Goal
  BY <1>2, <1>6 DEF BeginMissing, Get, GetTable, At
<1>7. ASSUME NEW s \in Server, Forward(s) PROVE Goal
  <2>1. call[s] = Null
    BY <1>7 DEF Forward, Shape, LockShape, CallShape
  <2>2. \A y \in Caller : y # s => call'[y] = call[y]
    BY <1>0, <1>7 DEF Forward, Send, TypeOK
  <2> QED
    BY <1>0, <1>1, <2>1, <2>2
<1>8. ASSUME NEW s \in Server, DeleteFails(s) \/ ReplyIn(s) PROVE Goal
  BY <1>0, <1>1, <1>8 DEF DeleteFails, ReplyIn, TypeOK
<1>9. ASSUME NEW s \in Server, Reply(s) PROVE Goal
  <2>1. lock[s] \in Caller /\ call[lock[s]] # Null
    BY <1>9 DEF Reply, Shape, LockShape, TypeOK
  <2> QED
    BY <1>2, <1>9, <2>1 DEF Reply
<1>10. ASSUME UNCHANGED call PROVE Goal
  BY <1>10
<1>11. CASE UNCHANGED vars
  BY <1>10, <1>11 DEF vars
<1>12. CASE Next
  BY <1>3, <1>4, <1>5, <1>6, <1>7, <1>8, <1>9, <1>10, <1>12, FixedSteps
     DEF Begin, Notice, Disconnect, Connect, Expire
<1> QED
  BY <1>11, <1>12

\* An update in invoke is the same one after any step that leaves it there.
LEMMA CurrentStays ==
    ASSUME TypeOK, Shape, NobodyStarts, [Next]_vars, NEW s \in Server,
           lock[s] # Null, lock'[s] = lock[s]
    PROVE  Current(s)' = Current(s)
<1>1. Shape' /\ lock[s] \in Caller
  BY ShapeStep DEF TypeOK
<1>2. call[lock[s]] # Null /\ call'[lock[s]] # Null
  BY <1>1 DEF Shape, LockShape
<1> QED
  BY <1>1, <1>2, RequestsStay DEF Current

LEMMA StillHeld ==
    ASSUME TypeOK, Shape, NobodyStarts, [Next]_vars
    PROVE  /\ \A s, u : HeldFrom(s, u) => HeldFrom(s, u)'
           /\ \A s, t : Reaches(s, t) => Reaches(s, t)'
BY ServersOnlyFail DEF HeldFrom, Reaches

-----------------------------------------------------------------------------
(* The invariant is kept.                                                  *)

LEMMA SuccessorStep ==
    ASSUME TypeOK, Shape, Registered, NobodyStarts, SuccessorShape, [Next]_vars
    PROVE  SuccessorShape'
<1> USE DEF zkVars, mainVars, nextVars, tableVars, history
<1> SUFFICES ASSUME NEW s \in Serving'
             PROVE  SuccessorShape!(s)'
  BY DEF SuccessorShape
<1>1. s \in Server /\ s \in Serving /\ Serving' \subseteq Serving
  BY ServersOnlyFail DEF Serving
<1>2. ASSUME next'[s] = next[s], link'[s].to \in {link[s].to, Null}
      PROVE  SuccessorShape!(s)'
  BY <1>1, <1>2, StillHeld DEF SuccessorShape
<1>3. ASSUME NEW t \in Server, NEW why, Down(t, why) PROVE SuccessorShape!(s)'
  <2>1. t # s
    BY <1>1, <1>3 DEF Down, Serving, TypeOK
  <2> QED
    BY <1>1, <1>2, <1>3, <2>1 DEF Down, TypeOK
<1>4. ASSUME NEW t \in Server, Notice(t) PROVE SuccessorShape!(s)'
  <2>1. CASE t # s
    BY <1>1, <1>2, <1>4, <2>1 DEF Notice, TypeOK
  <2>2. CASE t = s
    <3> PICK n : n = zk_closest_node(s, znodes)
      OBVIOUS
    <3>1. next'[s] = n /\ link' = link
      BY <1>1, <1>4, <2>2 DEF Notice, TypeOK
    <3>2. \/ n = Null /\ \A u \in znodes : u <= s
          \/ n # Null /\ n > s /\ \A u \in znodes : u > s => n <= u
      BY <1>1, ClosestIsNearest, NullIsNoServer DEF TypeOK
    <3>3. Serving' \subseteq znodes
      BY <1>1, ServersOnlyFail DEF Registered
    <3>4. n # Null => Reaches(s, n)'
      BY <3>2, <3>3 DEF Reaches
    <3>5. n = Null => \A u \in Serving' : u <= s
      BY <3>2, <3>3
    <3> PICK l : l = link[s].to
      OBVIOUS
    <3>6. l # Null => Reaches(s, l)'
      BY <1>1, StillHeld DEF SuccessorShape
    <3> QED
      BY <3>1, <3>4, <3>5, <3>6 DEF Reaches
  <2> QED
    BY <2>1, <2>2
<1>5. ASSUME NEW t \in Server, Disconnect(t) PROVE SuccessorShape!(s)'
  BY <1>1, <1>2, <1>5 DEF Disconnect, TypeOK, Link
<1>6. ASSUME NEW t \in Server, Connect(t) PROVE SuccessorShape!(s)'
  <2>1. next' = next
    BY <1>6 DEF Connect
  <2>2. link'[s].to \in {link[s].to, Null} \/ (t = s /\ link'[s].to = next[s])
    BY <1>1, <1>6 DEF Connect, TypeOK, Link, NoLink
  <2>3. CASE t = s /\ link'[s].to = next[s]
    <3>1. next[s] # Null
      BY <1>1, <1>6, <2>3 DEF Connect, Shape, LinkShape
    <3> QED
      BY <1>1, <2>1, <2>3, <3>1, StillHeld DEF SuccessorShape
  <2> QED
    BY <1>2, <2>1, <2>2, <2>3
<1>7. ASSUME UNCHANGED <<next, link>> PROVE SuccessorShape!(s)'
  BY <1>2, <1>7
<1>8. CASE UNCHANGED vars
  BY <1>7, <1>8 DEF vars
<1>9. ASSUME \/ \E c \in Client : IssueUpdate(c) \/ IssueGet(c) \/ Finish(c) \/ ClientLost(c)
             \/ \E x \in Caller : AnswerLost(x)
      PROVE  UNCHANGED <<next, link>>
  BY <1>9 DEF IssueUpdate, IssueGet, Finish, ClientLost, AnswerLost
<1>10. ASSUME NEW t \in Server,
              \/ \E x \in Caller : Begin(x, t) \/ BeginMissing(x, t) \/ Get(x, t) \/ GetTable(x, t)
              \/ Forward(t) \/ DeleteFails(t) \/ ReplyIn(t) \/ Reply(t) \/ Expire(t)
      PROVE  UNCHANGED <<next, link>>
  BY <1>10 DEF Begin, BeginMissing, Get, GetTable, Forward, DeleteFails, ReplyIn, Reply, Expire
<1>11. CASE Next
  BY Zenon, <1>3, <1>4, <1>5, <1>6, <1>7, <1>9, <1>10, <1>11, FixedSteps
<1> QED
  BY <1>8, <1>11

LEMMA UpdateHeldStep ==
    ASSUME TypeOK, Shape, NobodyStarts, SuccessorShape, UpdateHeld, AnswerHeld, [Next]_vars
    PROVE  UpdateHeld'
<1> USE DEF zkVars, mainVars, nextVars, tableVars, history
<1> SUFFICES ASSUME NEW s \in Serving', lock'[s] # Null
             PROVE  UpdateHeld!(s)!2'
  BY DEF UpdateHeld
<1>1. /\ s \in Server /\ s \in Serving /\ Serving' \subseteq Serving /\ s \in Nat
      /\ s \in Caller
  BY ServersOnlyFail, ChainAssumption DEF Serving, Caller
<1>2. ASSUME lock[s] # Null, lock'[s] = lock[s]
      PROVE  Current(s)' = Current(s) /\ Holds(s, Current(s))'
  BY <1>1, <1>2, CurrentStays, ServersOnlyFail DEF UpdateHeld
<1>3. ASSUME lock'[s] = lock[s], stage'[s] = stage[s]
      PROVE  UpdateHeld!(s)!2'
  <2>1. Current(s)' = Current(s) /\ Holds(s, Current(s))'
    BY <1>2, <1>3
  <2>2. stage[s] = "ok" => HeldFrom(s, Current(s))'
    BY <1>1, <1>3, <2>1, StillHeld DEF UpdateHeld
  <2> PICK t : t = call[s].to
    OBVIOUS
  <2>3. stage[s] = "wait" => call'[s].to = t
    <3>1. Shape'
      BY ShapeStep
    <3> QED
      BY <1>1, <1>3, <3>1, RequestsStay DEF Shape, CallShape
  <2>4. stage[s] = "wait" => Reaches(s, t)'
    BY <1>1, <1>3, StillHeld DEF UpdateHeld
  <2> QED
    BY <1>3, <2>1, <2>2, <2>3, <2>4 DEF Reaches
<1>4. ASSUME lock[s] # Null, lock'[s] = lock[s], stage'[s] = "failed"
      PROVE  UpdateHeld!(s)!2'
  BY <1>2, <1>4
<1>5. ASSUME NEW t \in Server, NEW why, Down(t, why) PROVE UpdateHeld!(s)!2'
  BY <1>1, <1>3, <1>5 DEF Down, Serving, TypeOK
<1>6. ASSUME NEW t \in Server, NEW x \in Caller, Begin(x, t) PROVE UpdateHeld!(s)!2'
  <2>1. CASE t # s
    BY <1>1, <1>3, <1>6, <2>1 DEF Begin, TypeOK
  <2>2. CASE t = s
    <3>1. /\ lock'[s] = x /\ call' = call /\ log'[s] = Append(log[s], call[x].req)
          /\ stage'[s] = IF next[s] = Null THEN "ok" ELSE "forward"
      BY <1>1, <1>6, <2>2 DEF Begin, TypeOK
    <3>2. log[s] \in Seq(Update) /\ call[x].req \in Update
      BY <1>1, <1>6, AtType, UpdateRequest DEF Begin, TypeOK
    <3>3. Current(s)' = call[x].req
      BY <3>1 DEF Current
    <3>4. Holds(s, call[x].req)'
      BY <3>1, <3>2, AppendHolds DEF Holds
    <3>5. next[s] = Null => HeldFrom(s, call[x].req)'
      <4>1. ASSUME next[s] = Null, NEW t2 \in Serving', s <= t2
            PROVE  t2 = s
        <5>1. t2 \in Nat /\ t2 <= s
          BY <1>1, <4>1, ChainAssumption DEF SuccessorShape, Serving
        <5> QED
          BY <1>1, <4>1, <5>1
      <4> QED
        BY <3>4, <4>1 DEF HeldFrom
    <3> QED
      BY <3>1, <3>3, <3>4, <3>5
  <2> QED
    BY <2>1, <2>2
<1>7. ASSUME NEW t \in Server, Forward(t) PROVE UpdateHeld!(s)!2'
  <2>1. CASE t # s
    BY <1>1, <1>3, <1>7, <2>1 DEF Forward, TypeOK
  <2>2. CASE t = s
    <3>1. lock[s] # Null /\ lock'[s] = lock[s]
      BY <1>1, <1>7, <2>2 DEF Forward, Shape, LockShape
    <3>2. CASE stage'[s] = "failed"
      BY <1>4, <3>1, <3>2
    <3>3. CASE stage'[s] # "failed"
      <4>1. stage'[s] = "wait" /\ link[s].open /\ Send(s, link[s].to, Current(s))
        BY <1>1, <1>7, <2>2, <3>3 DEF Forward, TypeOK
      <4> PICK l : l = link[s].to
        OBVIOUS
      <4>2. call'[s].to = l
        BY <1>1, <4>1 DEF Send, TypeOK
      <4>3. Reaches(s, l)'
        BY <1>1, <4>1, StillHeld DEF SuccessorShape, Shape, LinkShape
      <4> QED
        BY <1>2, <3>1, <4>1, <4>2, <4>3 DEF Reaches
    <3> QED
      BY <3>2, <3>3
  <2> QED
    BY <2>1, <2>2
<1>8. ASSUME NEW t \in Server, DeleteFails(t) PROVE UpdateHeld!(s)!2'
  <2>1. CASE t # s
    BY <1>1, <1>3, <1>8, <2>1 DEF DeleteFails, TypeOK
  <2>2. CASE t = s
    BY <1>1, <1>4, <1>8, <2>2 DEF DeleteFails, TypeOK
  <2> QED
    BY <2>1, <2>2
<1>9. ASSUME NEW t \in Server, ReplyIn(t) PROVE UpdateHeld!(s)!2'
  <2>1. CASE t # s
    BY <1>1, <1>3, <1>9, <2>1 DEF ReplyIn, TypeOK
  <2>2. CASE t = s
    <3>1. /\ lock[s] # Null /\ lock'[s] = lock[s] /\ stage[s] = "wait"
          /\ stage'[s] = IF call[s].answer = Ok THEN "ok" ELSE "failed"
      BY <1>1, <1>9, <2>2 DEF ReplyIn, Shape, LockShape, TypeOK
    <3>2. CASE call[s].answer # Ok
      BY <1>4, <3>1, <3>2
    <3>3. CASE call[s].answer = Ok
      <4>1. call[s] # Null /\ call[s].req = Current(s) /\ IsUpdate(Current(s))
        BY <1>1, <3>1 DEF Shape, CallShape, LockShape, Current
      <4>2. HeldFrom(call[s].to, Current(s)) /\ Holds(s, Current(s))
        BY <1>1, <3>1, <3>3, <4>1 DEF AnswerHeld, UpdateHeld
      <4>3. Reaches(s, call[s].to)
        BY <1>1, <3>1 DEF UpdateHeld
      <4>4. HeldFrom(s, Current(s))
        <5> SUFFICES ASSUME NEW u \in Serving, s <= u PROVE Holds(u, Current(s))
          BY DEF HeldFrom
        <5>1. u = s \/ u > s
          BY <1>1, ChainAssumption DEF Serving
        <5> QED
          BY <4>2, <4>3, <5>1 DEF HeldFrom, Reaches
      <4>5. HeldFrom(s, Current(s))'
        BY <1>2, <3>1, <4>4, StillHeld
      <4> QED
        BY <1>2, <3>1, <3>3, <4>5
    <3> QED
      BY <3>2, <3>3
  <2> QED
    BY <2>1, <2>2
<1>10. ASSUME NEW t \in Server, Reply(t) PROVE UpdateHeld!(s)!2'
  BY <1>1, <1>3, <1>10 DEF Reply, TypeOK
<1>11. ASSUME UNCHANGED <<lock, stage>> PROVE UpdateHeld!(s)!2'
  BY <1>3, <1>11
<1>12. CASE UNCHANGED vars
  BY <1>11, <1>12 DEF vars
<1>13. CASE Next
  BY <1>5, <1>6, <1>7, <1>8, <1>9, <1>10, <1>11, <1>13, FixedSteps
     DEF IssueUpdate, IssueGet, Finish, ClientLost, AnswerLost, BeginMissing, Get,
         GetTable, Notice, Disconnect, Connect, Expire
<1> QED
  BY <1>12, <1>13

LEMMA AnswersDiffer == Null # Ok /\ Error # Ok /\ \A v : [value |-> v] # Ok
<1>1. Null # Ok
  BY AnswerTypes, NullAssumption
<1>2. Error # Ok
  <2>1. Error.status = "error" /\ Ok.status = "ok"
    BY DEF Error, Ok
  <2> QED
    BY <2>1
<1>3. ASSUME NEW v PROVE [value |-> v] # Ok
  <2>1. DOMAIN [value |-> v] = {"value"} /\ DOMAIN Ok = {"status"}
    BY DEF Ok
  <2> QED
    BY <2>1
<1> QED
  BY <1>1, <1>2, <1>3

\* The only step that tells a caller of the success of an update.
LEMMA OnlyReplyAnswersOk ==
    ASSUME TypeOK, Shape, NobodyStarts, [Next]_vars,
           NEW x \in Caller, call'[x] # Null, call'[x].answer = Ok, IsUpdate(call'[x].req)
    PROVE  \/ call[x] # Null /\ call[x].answer = Ok
           \/ \E s \in Serving : lock[s] = x /\ stage[s] = "ok"
<1> USE DEF zkVars, mainVars, nextVars, tableVars, history
<1> DEFINE Goal == \/ call[x] # Null /\ call[x].answer = Ok
                   \/ \E s \in Serving : lock[s] = x /\ stage[s] = "ok"
<1>1. ASSUME call'[x] = call[x] PROVE Goal
  BY <1>1
<1>2. ASSUME NEW y \in Caller, call[y] # Null, NEW a \in Answer, Respond(y, a),
             ~(a = Ok /\ IsUpdate(call[y].req))
      PROVE  Goal
  <2>1. CASE y # x
    BY <1>1, <1>2, <2>1, RespondCall
  <2>2. CASE y = x
    BY <1>2, <2>2, RespondCall
  <2> QED
    BY <2>1, <2>2
<1>3. ASSUME NEW c \in Client, IssueUpdate(c) \/ IssueGet(c) \/ Finish(c) \/ ClientLost(c)
      PROVE  Goal
  <2>1. c \in Caller
    BY DEF Caller
  <2>2. CASE c # x
    BY <1>1, <1>3, <2>1, <2>2 DEF IssueUpdate, IssueGet, Finish, ClientLost, Send, TypeOK
  <2>3. CASE c = x
    BY <1>3, <2>1, <2>3, AnswersDiffer DEF IssueUpdate, IssueGet, Finish, ClientLost, Send, TypeOK
  <2> QED
    BY <2>2, <2>3
<1>4. ASSUME NEW y \in Caller, AnswerLost(y) PROVE Goal
  <2>1. CASE y # x
    BY <1>1, <1>4, <2>1 DEF AnswerLost, TypeOK
  <2>2. CASE y = x
    <3>1. call[x] \in Call /\ call'[x] = [call[x] EXCEPT !.answer = Null]
      BY <1>4, <2>2 DEF AnswerLost, TypeOK
    <3>2. call'[x].answer = Null
      BY <3>1 DEF Call
    <3> QED
      BY <3>2, AnswersDiffer
  <2> QED
    BY <2>1, <2>2
<1>5. ASSUME NEW s \in Server, NEW why, Down(s, why) PROVE Goal
  <2>1. call'[x] = Null \/ call'[x] = call[x]
    BY <1>5 DEF Down, CallsWithout
  <2> QED
    BY <1>1, <2>1
<1>6. ASSUME NEW s \in Server, NEW y \in Caller,
             BeginMissing(y, s) \/ Get(y, s) \/ GetTable(y, s)
      PROVE  Goal
  <2>1. call[y] # Null /\ call[y].req \in Request
    BY <1>6, AtType DEF BeginMissing, Get, GetTable
  <2>2. CASE BeginMissing(y, s)
    <3>1. Respond(y, Error)
      BY <2>2 DEF BeginMissing
    <3> QED
      BY <1>2, <2>1, <3>1, AnswerTypes, AnswersDiffer
  <2>3. CASE Get(y, s)
    <3>1. ~IsUpdate(call[y].req) /\ Respond(y, [value |-> table[s][call[y].req.key]])
      BY <2>3 DEF Get, IsUpdate
    <3>2. call[y].req.key \in Key
      BY <2>1, <2>3 DEF Get, Request, Update
    <3>3. [value |-> table[s][call[y].req.key]] \in Answer
      BY <3>2, AnswerTypes DEF TypeOK, Table
    <3> QED
      BY <1>2, <2>1, <3>1, <3>3
  <2>4. CASE GetTable(y, s)
    <3>1. ~IsUpdate(call[y].req) /\ Respond(y, [table |-> table[s], log |-> log[s]])
      BY <2>4 DEF GetTable, IsUpdate
    <3>2. [table |-> table[s], log |-> log[s]] \in Answer
      BY AnswerTypes DEF TypeOK, Copy
    <3> QED
      BY <1>2, <2>1, <3>1, <3>2
  <2> QED
    BY <1>6, <2>2, <2>3, <2>4
<1>7. ASSUME NEW s \in Server, Forward(s) PROVE Goal
  <2>1. CASE s # x
    BY <1>1, <1>7, <2>1 DEF Forward, Send, TypeOK
  <2>2. CASE s = x
    <3>1. call'[x] = call[x] \/ call'[x].answer = Null
      BY <1>7, <2>2 DEF Forward, Send, TypeOK
    <3> QED
      BY <1>1, <3>1, AnswersDiffer
  <2> QED
    BY <2>1, <2>2
<1>8. ASSUME NEW s \in Server, DeleteFails(s) \/ ReplyIn(s) PROVE Goal
  <2>1. call'[x] = call[x] \/ call'[x] = Null
    BY <1>8 DEF DeleteFails, ReplyIn, TypeOK
  <2> QED
    BY <1>1, <2>1
<1>9. ASSUME NEW s \in Server, Reply(s) PROVE Goal
  <2>1. lock[s] \in Caller /\ call[lock[s]] # Null /\ s \in Serving
    BY <1>9 DEF Reply, Shape, LockShape, Serving, TypeOK
  <2>2. CASE lock[s] = x /\ stage[s] = "ok"
    BY <2>1, <2>2
  <2>3. CASE lock[s] # x
    BY <1>1, <1>9, <2>1, <2>3, RespondCall, AnswerTypes DEF Reply
  <2>4. CASE stage[s] # "ok"
    <3>1. Respond(lock[s], Error)
      BY <1>9, <2>4 DEF Reply
    <3> QED
      BY <1>2, <2>1, <3>1, AnswerTypes, AnswersDiffer
  <2> QED
    BY <2>2, <2>3, <2>4
<1>10. ASSUME UNCHANGED call PROVE Goal
  BY <1>1, <1>10
<1>11. CASE UNCHANGED vars
  BY <1>10, <1>11 DEF vars
<1>12. CASE Next
  BY <1>3, <1>4, <1>5, <1>6, <1>7, <1>8, <1>9, <1>10, <1>12, FixedSteps
     DEF Begin, Notice, Disconnect, Connect, Expire
<1> QED
  BY <1>11, <1>12

\* A client has a new update waiting only because it sent one to the head.
LEMMA OnlyIssueCalls ==
    ASSUME TypeOK, Shape, NobodyStarts, [Next]_vars, NEW c \in Client,
           call[c] = Null, call'[c] # Null, IsUpdate(call'[c].req)
    PROVE  znodes # {} /\ call'[c].to = zk_get_head(znodes)
<1> USE DEF zkVars, mainVars, nextVars, tableVars, history
<1>0. c \in Caller /\ c \notin Server
  BY ChainAssumption DEF Caller
<1>1. ASSUME NEW d \in Client, IssueUpdate(d) \/ IssueGet(d) \/ Finish(d) \/ ClientLost(d)
      PROVE  znodes # {} /\ call'[c].to = zk_get_head(znodes)
  <2>1. d \in Caller
    BY DEF Caller
  <2>2. CASE IssueUpdate(d)
    BY <1>0, <2>1, <2>2 DEF IssueUpdate, Send, TypeOK
  <2>3. CASE IssueGet(d)
    BY <1>0, <2>1, <2>3 DEF IssueGet, Send, TypeOK, IsUpdate
  <2>4. CASE Finish(d) \/ ClientLost(d)
    BY <1>0, <2>1, <2>4 DEF Finish, ClientLost, TypeOK
  <2> QED
    BY <1>1, <2>2, <2>3, <2>4
<1>2. ASSUME NEW y \in Caller, AnswerLost(y) PROVE FALSE
  BY <1>0, <1>2 DEF AnswerLost, TypeOK
<1>3. ASSUME NEW s \in Server, NEW why, Down(s, why) PROVE FALSE
  BY <1>0, <1>3 DEF Down, CallsWithout
<1>4. ASSUME NEW y \in Caller, call[y] # Null, NEW a, Respond(y, a) PROVE FALSE
  BY <1>0, <1>4 DEF Respond, TypeOK
<1>5. ASSUME NEW s \in Server, NEW y \in Caller,
             BeginMissing(y, s) \/ Get(y, s) \/ GetTable(y, s)
      PROVE  FALSE
  BY <1>4, <1>5 DEF BeginMissing, Get, GetTable, At
<1>6. ASSUME NEW s \in Server, Forward(s) \/ DeleteFails(s) \/ ReplyIn(s) PROVE FALSE
  BY <1>0, <1>6 DEF Forward, DeleteFails, ReplyIn, Send, TypeOK
<1>7. ASSUME NEW s \in Server, Reply(s) PROVE FALSE
  <2>1. lock[s] \in Caller /\ call[lock[s]] # Null
    BY <1>7 DEF Reply, Shape, LockShape, TypeOK
  <2> QED
    BY <1>4, <1>7, <2>1 DEF Reply
<1>8. ASSUME UNCHANGED call PROVE FALSE
  BY <1>8
<1>9. CASE UNCHANGED vars
  BY <1>8, <1>9 DEF vars
<1>10. CASE Next
  BY <1>1, <1>2, <1>3, <1>5, <1>6, <1>7, <1>8, <1>10, FixedSteps
     DEF Begin, Notice, Disconnect, Connect, Expire
<1> QED
  BY <1>9, <1>10

LEMMA AnswerHeldStep ==
    ASSUME TypeOK, Shape, Registered, NobodyStarts, UpdateHeld, AnswerHeld, [Next]_vars
    PROVE  AnswerHeld'
<1> SUFFICES ASSUME NEW x \in Caller, call'[x] # Null, IsUpdate(call'[x].req)
             PROVE  /\ call'[x].answer = Ok => HeldFrom(call[x].to, call[x].req)'
                    /\ x \in Client => \A t \in Serving' : call'[x].to <= t
  BY DEF AnswerHeld
<1>1. call[x] # Null => call'[x].to = call[x].to /\ call'[x].req = call[x].req
  BY RequestsStay
<1>2. Serving' \subseteq Serving
  BY ServersOnlyFail
<1>3. ASSUME call'[x].answer = Ok
      PROVE  HeldFrom(call[x].to, call[x].req)'
  <2> PICK to : to = call'[x].to
    OBVIOUS
  <2> PICK u : u = call'[x].req
    OBVIOUS
  <2>1. CASE call[x] # Null /\ call[x].answer = Ok
    <3>1. HeldFrom(to, u)
      BY <1>1, <2>1 DEF AnswerHeld
    <3>2. HeldFrom(to, u)'
      BY <3>1, StillHeld
    <3> QED
      BY <3>2 DEF HeldFrom
  <2>2. CASE \E s \in Serving : lock[s] = x /\ stage[s] = "ok"
    <3>1. PICK s \in Serving : lock[s] = x /\ stage[s] = "ok"
      BY <2>2
    <3>2. s \in Server /\ x # Null /\ call[x] # Null /\ call[x].to = s /\ Current(s) = call[x].req
      BY <3>1, NullIsNoServer DEF Shape, LockShape, Serving, Current
    <3>3. HeldFrom(to, u)
      BY <1>1, <3>1, <3>2 DEF UpdateHeld
    <3>4. HeldFrom(to, u)'
      BY <3>3, StillHeld
    <3> QED
      BY <3>4 DEF HeldFrom
  <2> QED
    BY <1>3, <2>1, <2>2, OnlyReplyAnswersOk
<1>4. ASSUME x \in Client, NEW t \in Serving'
      PROVE  call'[x].to <= t
  <2>1. CASE call[x] # Null
    BY <1>1, <1>2, <1>4, <2>1 DEF AnswerHeld
  <2>2. CASE call[x] = Null
    <3>1. znodes # {} /\ call'[x].to = zk_get_head(znodes)
      BY <1>4, <2>2, OnlyIssueCalls
    <3>2. t \in znodes /\ znodes \subseteq Server
      BY <1>2, <1>4 DEF Registered, TypeOK
    <3>3. zk_get_head(znodes) <= t
      BY <3>1, <3>2, HeadIsLeast
    <3> QED
      BY <3>1, <3>3
  <2> QED
    BY <2>1, <2>2
<1> QED
  BY <1>3, <1>4

\* An update becomes acknowledged only when its client reads the answer.
LEMMA OnlyFinishAcks ==
    ASSUME Next, NEW u \in acked', u \notin acked, NobodyStarts
    PROVE  \E c \in Client : /\ call[c] # Null /\ call[c].answer = Ok
                            /\ IsUpdate(call[c].req) /\ call[c].req = u
<1> USE DEF zkVars, mainVars, nextVars, tableVars, history
<1>1. ASSUME NEW c \in Client, IssueUpdate(c) \/ IssueGet(c) \/ ClientLost(c) PROVE FALSE
  BY <1>1 DEF IssueUpdate, IssueGet, ClientLost
<1>2. ASSUME NEW c \in Client, Finish(c)
      PROVE  /\ call[c] # Null /\ call[c].answer = Ok
             /\ IsUpdate(call[c].req) /\ call[c].req = u
  BY <1>2 DEF Finish
<1>3. ASSUME UNCHANGED acked PROVE FALSE
  BY <1>3
<1> QED
  BY <1>1, <1>2, <1>3, FixedSteps
     DEF AnswerLost, Down, Begin, BeginMissing, Get, GetTable, Forward, DeleteFails, ReplyIn,
         Reply, Notice, Disconnect, Connect, Expire

LEMMA AckedStep ==
    ASSUME TypeOK, Shape, NobodyStarts, AnswerHeld, AckedEverywhere, [Next]_vars
    PROVE  AckedEverywhere'
<1> SUFFICES ASSUME NEW u \in acked', NEW s \in Serving' PROVE Holds(s, u)'
  BY DEF AckedEverywhere
<1>1. s \in Serving
  BY ServersOnlyFail
<1>2. Holds(s, u)
  <2>1. CASE u \in acked
    BY <1>1, <2>1 DEF AckedEverywhere
  <2>2. CASE u \notin acked
    <3>1. Next
      BY <2>2 DEF vars, history
    <3>2. PICK c \in Client : /\ call[c] # Null /\ call[c].answer = Ok
                              /\ IsUpdate(call[c].req) /\ call[c].req = u
      BY <2>2, <3>1, OnlyFinishAcks
    <3>3. HeldFrom(call[c].to, u) /\ call[c].to <= s
      BY <1>1, <3>2 DEF AnswerHeld, Caller
    <3> QED
      BY <1>1, <3>3 DEF HeldFrom
  <2> QED
    BY <2>1, <2>2
<1> QED
  BY <1>2, ServersOnlyFail

LEMMA InitialAcked ==
    ASSUME Server = Founders, Init
    PROVE  NobodyJoins /\ Registered /\ SuccessorShape /\ UpdateHeld /\ AnswerHeld /\ AckedEverywhere
<1>1. /\ znodes = Server /\ \A s \in Server : phase[s] = "serving"
      /\ \A s \in Server : next[s] = zk_closest_node(s, Server) /\ link[s].to = next[s]
      /\ Serving = Server
  BY DEF Init, Serving
<1>2. ASSUME NEW s \in Server
      PROVE  LET n == zk_closest_node(s, Server)
             IN  \/ n = Null /\ \A t \in Server : t <= s
                 \/ n \in Server /\ n > s /\ \A t \in Server : t > s => n <= t
  BY ClosestIsNearest
<1>3. SuccessorShape
  BY <1>1, <1>2, NullIsNoServer DEF SuccessorShape, Reaches
<1>4. NobodyJoins /\ Registered
  BY <1>1 DEF NobodyJoins, Registered
<1>5. UpdateHeld /\ AnswerHeld /\ AckedEverywhere
  BY DEF Init, UpdateHeld, AnswerHeld, AckedEverywhere, Serving
<1> QED
  BY <1>3, <1>4, <1>5

\* While no server joins, what a client was told has succeeded is in every
\* table that serves, whichever servers fail and at whatever moment: invoke
\* answers success only after next_node_put or next_node_del did.
THEOREM AckedReplicated ==
    ASSUME Server = Founders
    PROVE  Spec => []AckedEverywhere
<1> DEFINE Inv == /\ TypeOK /\ Shape /\ NobodyJoins /\ Registered
                  /\ SuccessorShape /\ UpdateHeld /\ AnswerHeld /\ AckedEverywhere
<1>1. Init => Inv
  BY InitialState, InitialAcked
<1>2. Inv /\ [Next]_vars => Inv'
  BY NobodyLeftToStart, TypeStep, ShapeStep, ServersOnlyFail, SuccessorStep, UpdateHeldStep,
     AnswerHeldStep, AckedStep
<1>3. Inv => AckedEverywhere
  OBVIOUS
<1> QED
  BY <1>1, <1>2, <1>3, PTL DEF Spec

-----------------------------------------------------------------------------
(* 3. While no server joins and none fails: the invariant.                 *)

First == zk_get_head(Server)

\* Everybody serves and is linked to the next server.
Steady ==
    /\ znodes = Server /\ notified = {}
    /\ \A s \in Server :
        /\ phase[s] = "serving" /\ watcher[s] = "idle"
        /\ next[s] = zk_closest_node(s, Server)
        /\ link[s].to = next[s]
        /\ next[s] # Null => link[s].open

Pending(c) == call[c] # Null /\ IsUpdate(call[c].req)

\* Updates enter at the head and have numbers of their own, reads are asked
\* of the tail, and servers ask their successor.
Calls ==
    /\ \A c \in Client : call[c] # Null =>
        \/ IsUpdate(call[c].req) /\ call[c].to = First /\ call[c].req.id <= issued
        \/ call[c].req.op = "get" /\ call[c].to = Last
    /\ \A c, d \in Client :
        Pending(c) /\ Pending(d) /\ call[c].req.id = call[d].req.id => c = d
    /\ \A s \in Server : call[s] # Null => call[s].to = next[s]

\* No update is absorbed twice.
Absorbed ==
    /\ \A i \in DOMAIN log[Last] : log[Last][i].id <= issued
    /\ \A i, j \in DOMAIN log[Last] : log[Last][i] = log[Last][j] => i = j

\* The servers that are at work are the first ones of the chain, all with the
\* same update, and all but the last of them wait.
Cascade == \A s \in Server : lock[s] # Null =>
    \A r \in Server : r < s =>
        /\ stage[r] = "wait" /\ call[r].answer = Null
        /\ lock[next[r]] = r
        /\ Current(r) = Current(s)

\* A server has what the tail has and the update it works on, if any.
InStep == \A s \in Server :
    IF lock[s] # Null /\ ~Holds(Last, Current(s))
    THEN /\ log[s] = Append(log[Last], Current(s))
         /\ table[s] = Apply(table[Last], Current(s))
         /\ Current(s).op = "del" => table[Last][Current(s).key] # Null
    ELSE log[s] = log[Last] /\ table[s] = table[Last]

\* What the stages of invoke mean for the tail.
Stages == \A s \in Server :
    /\ stage[s] # "failed"
    /\ stage[s] = "ok" => Holds(Last, Current(s))
    /\ stage[s] = "forward" => next[s] # Null /\ ~Holds(Last, Current(s))
    /\ stage[s] = "wait" =>
          /\ next[s] # Null
          /\ call[s].answer # Null => call[s].answer = Ok /\ Holds(Last, Current(s))
          /\ call[s].answer = Null /\ lock[next[s]] # s => ~Holds(Last, Current(s))

NotYet == \A c \in Client :
    (Pending(c) /\ call[c].answer = Null /\ lock[First] # c) => ~Holds(Last, call[c].req)

OneUpdate == Steady /\ Calls /\ Absorbed /\ Cascade /\ InStep /\ Stages /\ NotYet

-----------------------------------------------------------------------------
(* The chain.                                                              *)

LEMMA ChainOrder ==
    ASSUME Steady
    PROVE  /\ \A s, t \in Server : s \in Nat /\ (s < t \/ s = t \/ t < s)
           /\ \A s \in Server :
                \/ next[s] = Null /\ s = Last /\ \A t \in Server : t <= s
                \/ /\ next[s] \in Server /\ next[s] # Null /\ s # Last
                   /\ s < next[s] /\ \A t \in Server : s < t => next[s] <= t
           /\ \A s \in Server : First \in Server /\ First <= s /\ Last \in Server /\ s <= Last
<1>1. \A s, t \in Server : s \in Nat /\ (s < t \/ s = t \/ t < s)
  BY ChainAssumption
<1>2. ASSUME NEW s \in Server
      PROVE  First \in Server /\ First <= s /\ Last \in Server /\ s <= Last
  BY HeadIsLeast, TailIsGreatest DEF First, Last, Steady
<1>3. ASSUME NEW s \in Server
      PROVE  \/ next[s] = Null /\ s = Last /\ \A t \in Server : t <= s
             \/ /\ next[s] \in Server /\ next[s] # Null /\ s # Last
                /\ s < next[s] /\ \A t \in Server : s < t => next[s] <= t
  <2> PICK n : n = zk_closest_node(s, Server)
    OBVIOUS
  <2>1. \/ n = Null /\ \A t \in Server : t <= s
        \/ n \in Server /\ n > s /\ \A t \in Server : t > s => n <= t
    BY ClosestIsNearest
  <2>2. next[s] = n
    BY DEF Steady
  <2>3. CASE n = Null
    <3>1. \A t \in Server : t <= s
      BY <2>1, <2>3, NullIsNoServer
    <3>2. s = Last
      BY <1>1, <1>2, <3>1
    <3> QED
      BY <2>2, <2>3, <3>1, <3>2
  <2>4. CASE n # Null
    <3>1. n \in Server /\ n > s /\ \A t \in Server : t > s => n <= t
      BY <2>1, <2>4
    <3>2. n <= Last /\ n \in Nat /\ s \in Nat /\ Last \in Nat
      BY <1>1, <1>2, <3>1
    <3>3. s # Last
      BY <3>1, <3>2
    <3>4. s < n /\ \A t \in Server : s < t => n <= t
      BY <1>1, <3>1
    <3> QED
      BY <2>2, <2>4, <3>1, <3>3, <3>4
  <2> QED
    BY <2>3, <2>4
<1> QED
  BY <1>1, <1>2, <1>3

LEMMA NextIsOneToOne ==
    ASSUME Steady, NEW s \in Server, NEW t \in Server, next[s] = next[t], next[s] # Null
    PROVE  s = t
<1>1. next[s] \in Server /\ s < next[s] /\ t < next[s]
      /\ (s < t => next[s] <= t) /\ (t < s => next[s] <= s)
  BY ChainOrder, NullIsNoServer
<1>2. s \in Nat /\ t \in Nat /\ next[s] \in Nat
  BY <1>1, ChainOrder
<1> QED
  BY <1>1, <1>2

LEMMA SteadySteps ==
    ASSUME TypeOK, Shape, Steady, Calls, Next, MaxCrashes = 0
    PROVE  /\ UNCHANGED <<zkVars, mainVars, nextVars>>
           /\ \/ \E c \in Client : IssueUpdate(c) \/ IssueGet(c) \/ Finish(c)
              \/ \E x \in Caller, s \in Server : Begin(x, s) \/ BeginMissing(x, s) \/ Get(x, s)
              \/ \E s \in Server : Forward(s) \/ ReplyIn(s) \/ Reply(s)
<1>1. ASSUME NEW s \in Server PROVE ~Main(s) /\ ~Register(s) /\ ~Expire(s) /\ ~Watcher(s)
  BY DEF Steady, Main, List, ListNothingBelow, Fetch, Fill, FetchLost, Register, Expire, Watcher,
         Notice, Disconnect, DoubleDisconnect, Connect
<1>2. ASSUME NEW s \in Server PROVE ~Crash(s)
  <2>1. crashes \in Nat /\ ~(crashes < 0)
    BY DEF TypeOK
  <2> QED
    BY <2>1 DEF Crash
<1>3. ASSUME NEW x \in Caller, call[x] # Null PROVE Alive(call[x].to) /\ phase[call[x].to] # "crashed"
  BY <1>3 DEF TypeOK, Call, Steady, Alive
<1>4. ASSUME NEW c \in Client PROVE ~ClientLost(c)
  BY <1>3 DEF ClientLost, Caller
<1>5. ASSUME NEW x \in Caller PROVE ~AnswerLost(x)
  BY <1>3 DEF AnswerLost
<1>6. ASSUME NEW s \in Server PROVE ~ForwardLost(s) /\ ~PeerLost(s)
  <2>1. ~PeerLost(s)
    BY <1>3 DEF PeerLost, Shape, CallShape, Caller
  <2>2. link[s].to # Null => link[s].open /\ Alive(link[s].to)
    BY DEF Steady, TypeOK, Alive
  <2> QED
    BY <2>1, <2>2 DEF ForwardLost
<1>7. ASSUME NEW x \in Caller, NEW s \in Server PROVE ~GetTable(x, s)
  <2> SUFFICES ASSUME GetTable(x, s) PROVE FALSE
    OBVIOUS
  <2>1. call[x] # Null /\ call[x].req.op = "gettable"
    BY DEF GetTable, At
  <2>2. CASE x \in Client
    BY <2>1, <2>2 DEF Calls, IsUpdate
  <2>3. CASE x \in Server
    <3>1. stage[x] = "wait" /\ lock[x] # Null /\ call[x].req = Current(x)
      BY <2>1, <2>3 DEF Shape, CallShape, LockShape, Steady
    <3> QED
      BY <2>1, <2>3, <3>1 DEF Shape, LockShape, Current, IsUpdate
  <2> QED
    BY <2>2, <2>3 DEF Caller
<1>8. \/ \E c \in Client : IssueUpdate(c) \/ IssueGet(c) \/ Finish(c)
      \/ \E x \in Caller, s \in Server : Begin(x, s) \/ BeginMissing(x, s) \/ Get(x, s)
      \/ \E s \in Server : Forward(s) \/ ReplyIn(s) \/ Reply(s)
  BY <1>1, <1>2, <1>4, <1>5, <1>6, <1>7 DEF Next, Handler
<1> QED
  BY <1>8 DEF IssueUpdate, IssueGet, Finish, Begin, BeginMissing, Get, Forward, ReplyIn, Reply

LEMMA SteadyStays ==
    ASSUME Steady, UNCHANGED <<zkVars, mainVars, nextVars>>
    PROVE  Steady' /\ Last' = Last
BY DEF Steady, Last, zkVars, mainVars, nextVars

\* Nobody asks the head but clients.
LEMMA AtWork ==
    ASSUME TypeOK, Shape, Steady, Calls, Cascade, NEW s \in Server, lock[s] # Null
    PROVE  /\ lock[First] \in Client /\ Pending(lock[First])
           /\ call[lock[First]].answer = Null
           /\ call[lock[First]].req = Current(s)
<1>1. First \in Server /\ First <= s /\ First \in Nat /\ s \in Nat
  BY ChainOrder
<1>2. lock[First] # Null /\ Current(First) = Current(s)
  <2>1. CASE First = s
    BY <2>1
  <2>2. CASE First < s
    BY <1>1, <2>2 DEF Cascade, Shape, LockShape
  <2> QED
    BY <1>1, <2>1, <2>2
<1>3. lock[First] \in Caller /\ call[lock[First]] # Null /\ call[lock[First]].to = First
      /\ call[lock[First]].answer = Null /\ IsUpdate(call[lock[First]].req)
  BY <1>1, <1>2 DEF Shape, LockShape, TypeOK
<1>4. ASSUME NEW x \in Server, lock[First] = x PROVE FALSE
  <2>1. next[x] = First
    BY <1>3, <1>4 DEF Calls
  <2>2. x < First /\ First <= x /\ x \in Nat
    BY <1>1, <2>1, ChainOrder, NullIsNoServer
  <2> QED
    BY <1>1, <2>2
<1> QED
  BY <1>2, <1>3, <1>4 DEF Caller, Pending, Current

\* What holds when s takes up the update of x.
LEMMA TakingUp ==
    ASSUME TypeOK, Shape, OneUpdate, NEW x \in Caller, NEW s \in Server,
           At(x, s), lock[s] = Null, IsUpdate(call[x].req)
    PROVE  /\ ~Holds(Last, call[x].req)
           /\ \A t \in Server : s <= t => lock[t] = Null
           /\ \A r \in Server : r < s =>
                 /\ stage[r] = "wait" /\ call[r].answer = Null
                 /\ Current(r) = call[x].req /\ lock[r] # Null
                 /\ IF next[r] = s THEN x = r ELSE lock[next[r]] = r
           /\ x \in Client => s = First
           /\ x \notin Client => x \in Server /\ x < s
<1> USE DEF OneUpdate
<1>0. \A t \in Server : s <= t => lock[t] = Null
  BY ChainOrder DEF Cascade, Shape, LockShape
<1>1. CASE x \in Client
  <2>1. s = First
    BY <1>1 DEF At, Calls, IsUpdate
  <2>2. ~Holds(Last, call[x].req)
    BY <1>1, <2>1, NullIsNoServer DEF At, NotYet, Pending
  <2>3. \A r \in Server : ~(r < s)
    BY <2>1, ChainOrder
  <2> QED
    BY <1>0, <1>1, <2>1, <2>2, <2>3
<1>2. CASE x \notin Client
  <2>1. x \in Server
    BY <1>2 DEF Caller
  <2>2. stage[x] = "wait" /\ lock[x] # Null /\ call[x].req = Current(x)
        /\ next[x] = s /\ call[x].answer = Null /\ lock[s] # x
    BY <2>1 DEF At, Shape, CallShape, LockShape, Steady, Calls
  <2>3. ~Holds(Last, call[x].req)
    BY <2>1, <2>2 DEF Stages
  <2>4. x < s /\ s # Null
    BY <2>1, <2>2, ChainOrder, NullIsNoServer
  <2>5. ASSUME NEW r \in Server, r < s, r # x
        PROVE  /\ stage[r] = "wait" /\ call[r].answer = Null
               /\ Current(r) = call[x].req /\ lock[r] # Null
               /\ next[r] # s /\ lock[next[r]] = r
    <3>1. r < x
      <4>1. ~(x < r)
        <5>1. x < r => s <= r
          BY <2>1, <2>2, <2>4, ChainOrder
        <5>2. r \in Nat /\ s \in Nat
          BY ChainOrder
        <5> QED
          BY <2>5, <5>1, <5>2
      <4> QED
        BY <2>1, <2>5, <4>1, ChainOrder
    <3>2. /\ stage[r] = "wait" /\ call[r].answer = Null /\ lock[next[r]] = r
          /\ Current(r) = Current(x)
      BY <2>1, <2>2, <3>1 DEF Cascade
    <3>3. lock[r] # Null
      BY <3>2 DEF Shape, LockShape
    <3>4. next[r] # s
      BY <2>1, <2>2, <2>4, <2>5, NextIsOneToOne
    <3> QED
      BY <2>2, <3>2, <3>3, <3>4
  <2> QED
    BY <1>0, <1>2, <2>1, <2>2, <2>3, <2>4, <2>5
<1> QED
  BY <1>1, <1>2
-----------------------------------------------------------------------------

LEMMA InitialOneUpdate ==
    ASSUME Server = Founders, Server # {}, Init
    PROVE  OneUpdate
<1>1. Steady
  <2>1. ASSUME NEW s \in Server, next[s] # Null PROVE link[s].open
    <3>1. link[s].open = (next[s] # Null)
      BY Zenon DEF Init
    <3> QED
      BY <2>1, <3>1
  <2> QED
    BY <2>1 DEF Init, Steady
<1>2. Last \in Server
  BY <1>1, ChainOrder
<1>3. Calls /\ Cascade /\ Stages /\ NotYet
  BY DEF Init, Calls, Cascade, Stages, NotYet, Pending, Caller
<1>4. Absorbed /\ InStep
  BY <1>2 DEF Init, Absorbed, InStep
<1> QED
  BY <1>1, <1>3, <1>4 DEF OneUpdate

-----------------------------------------------------------------------------
(* The steps.                                                              *)

\* Nothing is absorbed, and who works on what stays.
LEMMA CurrentKept ==
    ASSUME TypeOK, Shape, NEW x \in Caller, \A t \in Server : lock[t] # x,
           \A y \in Caller : y # x => call'[y] = call[y], UNCHANGED lock
    PROVE  \A t \in Server : lock[t] # Null => Current(t)' = Current(t)
BY DEF TypeOK, Current

LEMMA LogKept ==
    ASSUME UNCHANGED <<znodes, log>>
    PROVE  Last' = Last /\ \A s, u : Holds(s, u)' = Holds(s, u)
BY DEF Last, Holds

LEMMA BeginKeeps ==
    ASSUME TypeOK, Shape, OneUpdate, NEW x \in Caller, NEW s \in Server, Begin(x, s)
    PROVE  OneUpdate'
<1> DEFINE u == call[x].req
<1> USE DEF OneUpdate
<1>1. /\ UNCHANGED <<zkVars, mainVars, nextVars, call, issued>>
      /\ At(x, s) /\ lock[s] = Null /\ IsUpdate(u)
      /\ u.op = "del" => table[s][u.key] # Null
      /\ table'[s] = Apply(table[s], u) /\ log'[s] = Append(log[s], u)
      /\ lock'[s] = x /\ stage'[s] = (IF next[s] = Null THEN "ok" ELSE "forward")
      /\ \A t \in Server : t # s => /\ table'[t] = table[t] /\ log'[t] = log[t]
                                    /\ lock'[t] = lock[t] /\ stage'[t] = stage[t]
  BY DEF Begin, TypeOK, history
<1>2. u \in Update /\ x # Null
  BY <1>1, AtType, UpdateRequest, NullIsNoServer
<1>3. /\ ~Holds(Last, u)
      /\ \A t \in Server : s <= t => lock[t] = Null
      /\ \A r \in Server : r < s =>
            /\ stage[r] = "wait" /\ call[r].answer = Null
            /\ Current(r) = u /\ lock[r] # Null
            /\ IF next[r] = s THEN x = r ELSE lock[next[r]] = r
      /\ x \in Client => s = First
      /\ x \notin Client => x \in Server /\ x < s
  BY <1>1, TakingUp
<1>4. /\ \A r, t \in Server : r \in Nat /\ (r < t \/ r = t \/ t < r)
      /\ \A r \in Server :
            \/ next[r] = Null /\ r = Last /\ \A t \in Server : t <= r
            \/ /\ next[r] \in Server /\ next[r] # Null /\ r # Last
               /\ r < next[r] /\ \A t \in Server : r < t => next[r] <= t
      /\ First \in Server /\ First <= s /\ Last \in Server
  BY ChainOrder
<1>5. Steady' /\ Last' = Last
  BY <1>1, SteadyStays
<1>6. /\ Current(s)' = u
      /\ \A t \in Server : t # s => Current(t)' = Current(t)
  BY <1>1 DEF Current
<1>7. /\ log[s] = log[Last] /\ table[s] = table[Last]
      /\ log[Last] \in Seq(Update)
  BY <1>1, <1>4 DEF InStep, TypeOK
<1>8. PICK c \in Client : /\ Pending(c) /\ call[c].req = u
                          /\ (IF s = First THEN x ELSE lock[First]) = c
  <2>1. CASE x \in Client
    BY <1>1, <1>3, <2>1 DEF At, Pending
  <2>2. CASE x \notin Client
    <3>1. x \in Server /\ x < s /\ lock[x] # Null /\ Current(x) = u /\ First <= x
      BY <1>3, <2>2, ChainOrder
    <3>2. First # s
      BY <1>4, <3>1
    <3> QED
      BY <3>1, <3>2, AtWork
  <2> QED
    BY <2>1, <2>2
<1>9. ASSUME NEW v PROVE Holds(Last, v)' <=> Holds(Last, v) \/ (s = Last /\ v = u)
  <2>1. CASE s # Last
    BY <1>1, <1>4, <1>5, <2>1 DEF Holds
  <2>2. CASE s = Last
    <3>1. /\ DOMAIN log[Last] = 1 .. Len(log[Last]) /\ Len(log[Last]) \in Nat
          /\ DOMAIN Append(log[Last], u) = 1 .. Len(log[Last]) + 1
          /\ \A i \in 1 .. Len(log[Last]) : Append(log[Last], u)[i] = log[Last][i]
          /\ Append(log[Last], u)[Len(log[Last]) + 1] = u
      BY <1>2, <1>7, AppendProperties, LenProperties
    <3>2. log'[Last] = Append(log[Last], u)
      BY <1>1, <2>2
    <3> QED
      BY <1>5, <2>2, <3>1, <3>2 DEF Holds
  <2> QED
    BY <2>1, <2>2
<1>10. Calls'
  BY <1>1, <1>5 DEF Calls, Pending, nextVars
<1>11. Absorbed'
  <2>1. CASE s # Last
    BY <1>1, <1>4, <1>5, <2>1 DEF Absorbed
  <2>2. CASE s = Last
    <3>1. /\ DOMAIN log[Last] = 1 .. Len(log[Last]) /\ Len(log[Last]) \in Nat
          /\ DOMAIN Append(log[Last], u) = 1 .. Len(log[Last]) + 1
          /\ \A i \in 1 .. Len(log[Last]) : Append(log[Last], u)[i] = log[Last][i]
          /\ Append(log[Last], u)[Len(log[Last]) + 1] = u
      BY <1>2, <1>7, AppendProperties, LenProperties
    <3>2. log'[Last'] = Append(log[Last], u) /\ issued' = issued
      BY <1>1, <1>5, <2>2
    <3>3. u.id <= issued
      BY <1>8 DEF Calls, Pending, IsUpdate
    <3>4. \A i \in DOMAIN log[Last] : log[Last][i] # u
      BY <1>3 DEF Holds
    <3>5. \A i \in DOMAIN Append(log[Last], u) :
             i \in DOMAIN log[Last] \/ i = Len(log[Last]) + 1
      BY <3>1
    <3>6. \A i \in DOMAIN Append(log[Last], u) : Append(log[Last], u)[i].id <= issued
      BY <3>1, <3>3, <3>5 DEF Absorbed
    <3>7. \A i, j \in DOMAIN Append(log[Last], u) :
             Append(log[Last], u)[i] = Append(log[Last], u)[j] => i = j
      BY <3>1, <3>4, <3>5 DEF Absorbed
    <3> QED
      BY <3>2, <3>6, <3>7 DEF Absorbed
  <2> QED
    BY <2>1, <2>2
<1>12. Cascade'
  <2> SUFFICES ASSUME NEW t \in Server, lock'[t] # Null, NEW r \in Server, r < t
               PROVE  /\ stage'[r] = "wait" /\ call'[r].answer = Null
                      /\ lock'[next'[r]] = r
                      /\ Current(r)' = Current(t)'
    BY DEF Cascade
  <2>1. t = s \/ t < s
    BY <1>1, <1>3, <1>4
  <2>2. r < s /\ r # s
    BY <1>4, <2>1
  <2>3. /\ stage'[r] = "wait" /\ call'[r].answer = Null
        /\ Current(r)' = u /\ next'[r] = next[r]
    BY <1>1, <1>3, <1>6, <2>2 DEF nextVars
  <2>4. Current(t)' = u
    BY <1>3, <1>6, <2>1
  <2>5. next[r] \in Server
    BY <1>4, <2>2
  <2>6. lock'[next[r]] = r
    BY <1>1, <1>3, <2>2, <2>5
  <2> QED
    BY <2>3, <2>4, <2>6
<1>13. InStep'
  <2>1. ASSUME s = Last, NEW t \in Server
        PROVE  log'[t] = log'[Last] /\ table'[t] = table'[Last]
    <3>1. CASE t = s
      BY <2>1, <3>1
    <3>2. CASE t # s
      <4>1. t < s
        BY <1>4, <2>1, <3>2, ChainOrder
      <4>2. lock[t] # Null /\ Current(t) = u
        BY <1>3, <4>1
      <4>3. log[t] = Append(log[Last], u) /\ table[t] = Apply(table[Last], u)
        BY <1>3, <4>2 DEF InStep
      <4> QED
        BY <1>1, <1>7, <2>1, <3>2, <4>3
    <3> QED
      BY <3>1, <3>2
  <2>2. CASE s = Last
    <3>1. ASSUME NEW t \in Server, lock'[t] # Null PROVE Holds(Last, Current(t))'
      <4>1. Current(t)' = u
        BY <1>1, <1>3, <1>4, <1>6, <3>1
      <4> QED
        BY <1>5, <1>9, <2>2, <4>1
    <3> QED
      BY <1>5, <2>1, <2>2, <3>1 DEF InStep
  <2>3. CASE s # Last
    <3>1. log'[Last] = log[Last] /\ table'[Last] = table[Last] /\ ~Holds(Last, u)'
      BY <1>1, <1>3, <1>4, <1>9, <2>3
    <3>2. ASSUME NEW t \in Server, t # s
          PROVE  Holds(Last, Current(t))' <=> Holds(Last, Current(t))
      BY <1>5, <1>6, <1>9, <2>3, <3>2
    <3>3. ~Holds(Last, Current(s))'
      BY <1>1, <1>6, <3>1 DEF Holds
    <3>4. InStep!(s)'
      BY <1>1, <1>2, <1>5, <1>6, <1>7, <3>1, <3>3
    <3>5. ASSUME NEW t \in Server, t # s PROVE InStep!(t)'
      BY <1>1, <1>5, <1>6, <3>1, <3>2, <3>5 DEF InStep
    <3> QED
      BY <3>4, <3>5 DEF InStep
  <2> QED
    BY <2>2, <2>3
<1>14. Stages'
  <2>1. Stages!(s)'
    <3>1. CASE next[s] = Null
      BY <1>1, <1>4, <1>5, <1>6, <1>9, <3>1 DEF nextVars
    <3>2. CASE next[s] # Null
      BY <1>1, <1>3, <1>4, <1>5, <1>6, <1>9, <3>2 DEF nextVars
    <3> QED
      BY <3>1, <3>2
  <2>2. ASSUME NEW t \in Server, t # s, t < s PROVE Stages!(t)'
    <3>1. /\ stage'[t] = "wait" /\ call'[t].answer = Null /\ next'[t] = next[t]
          /\ next[t] \in Server /\ next[t] # Null
      BY <1>1, <1>3, <1>4, <2>2 DEF nextVars
    <3>2. lock'[next[t]] = t
      BY <1>1, <1>3, <2>2, <3>1
    <3> QED
      BY <3>1, <3>2
  <2>3. ASSUME NEW t \in Server, t # s, ~(t < s) PROVE Stages!(t)'
    <3>1. lock[t] = Null
      BY <1>3, <1>4, <2>3
    <3>2. stage'[t] = "idle"
      BY <1>1, <2>3, <3>1 DEF Shape, LockShape
    <3> QED
      BY <3>2
  <2> QED
    BY <2>1, <2>2, <2>3 DEF Stages
<1>15. NotYet'
  <2> SUFFICES ASSUME NEW d \in Client, Pending(d), call[d].answer = Null, lock'[First] # d
               PROVE  ~Holds(Last, call[d].req)'
    BY <1>1, <1>5 DEF NotYet, Pending
  <2>1. lock[First] # d
    BY <1>1, <1>4, NullIsNoServer
  <2>2. ~Holds(Last, call[d].req)
    BY <2>1 DEF NotYet
  <2>3. d # c
    BY <1>1, <1>4, <1>8
  <2>4. call[d].req # u
    BY <1>8, <2>3 DEF Calls
  <2> QED
    BY <1>1, <1>5, <1>9, <2>2, <2>4
<1> QED
  BY <1>5, <1>10, <1>11, <1>12, <1>13, <1>14, <1>15

LEMMA ElementsOfLast ==
    ASSUME TypeOK, Last \in Server
    PROVE  \A i \in DOMAIN log[Last] : log[Last][i] \in Update
<1>1. log[Last] \in Seq(Update)
  BY DEF TypeOK
<1> QED
  BY <1>1, ElementOfSeq, LenProperties

LEMMA PendingIsUpdate ==
    ASSUME TypeOK, NEW c \in Caller, Pending(c)
    PROVE  call[c].req \in Update
<1>1. call[c] \in Call
  BY DEF TypeOK, Pending
<1> QED
  BY <1>1, UpdateRequest DEF Call, Pending

\* A client calls, or is done.
LEMMA ClientKeeps ==
    ASSUME TypeOK, Shape, OneUpdate, Server # {}, NEW c \in Client,
           IssueUpdate(c) \/ IssueGet(c) \/ Finish(c),
           UNCHANGED <<zkVars, mainVars, nextVars>>
    PROVE  OneUpdate'
<1> USE DEF OneUpdate
<1>1. /\ UNCHANGED <<znodes, table, log, lock, stage, next>>
      /\ \A y \in Caller : y # c => call'[y] = call[y]
      /\ c \in Caller /\ c \notin Server
  BY ChainAssumption DEF IssueUpdate, IssueGet, Finish, Send, tableVars, TypeOK, Caller,
     zkVars, nextVars
<1>2. \A t \in Server : lock[t] # c
  BY NullIsNoServer DEF IssueUpdate, IssueGet, Finish, Shape, LockShape
<1>3. \A t \in Server : lock[t] # Null => Current(t)' = Current(t)
  BY <1>1, <1>2, CurrentKept
<1>4. Steady' /\ Last' = Last /\ \A t, u : Holds(t, u)' = Holds(t, u)
  BY <1>1, SteadyStays, LogKept
<1>5. \A t \in Server : t # c /\ t \in Caller /\ call'[t] = call[t]
  BY <1>1 DEF Caller
<1>6. Cascade'
  BY <1>1, <1>3, <1>5 DEF Cascade, Shape, LockShape
<1>7. InStep'
  BY <1>1, <1>3, <1>4 DEF InStep, Holds
<1>8. Stages'
  BY <1>1, <1>3, <1>4, <1>5 DEF Stages, Shape, LockShape, Holds
<1>9. Last \in Server
  BY ChainOrder, HeadIsLeast
<1>10. Calls' /\ Absorbed' /\ NotYet'
  <2>1. CASE IssueUpdate(c)
    <3>1. PICK o \in Kinds \ {"get"}, k \in Key, v \in Value \cup {Null} :
             Send(c, zk_get_head(znodes), [op |-> o, id |-> issued', key |-> k, val |-> v])
      BY <2>1 DEF IssueUpdate
    <3> DEFINE u == [op |-> o, id |-> issued', key |-> k, val |-> v]
    <3>2. call'[c] = [to |-> First, req |-> u, answer |-> Null]
      BY <1>1, <3>1 DEF Send, TypeOK, Steady, First
    <3>3. issued' = issued + 1 /\ issued \in Nat /\ IsUpdate(u) /\ u.id = issued'
      BY <2>1, ChainAssumption DEF IssueUpdate, TypeOK, IsUpdate
    <3> HIDE DEF u
    <3>4. \A i \in DOMAIN log[Last] : log[Last][i].id <= issued /\ log[Last][i] \in Update
      BY <1>9, ElementsOfLast DEF Absorbed
    <3>5. \A i \in DOMAIN log[Last] : log[Last][i].id <= issued' /\ log[Last][i] # u
      BY <3>3, <3>4 DEF Update
    <3>6. Absorbed'
      BY <1>1, <1>4, <3>5 DEF Absorbed
    <3>7. \A d \in Client : Pending(d) => call[d].req.id \in Nat /\ call[d].req.id <= issued
      <4> SUFFICES ASSUME NEW d \in Client, Pending(d)
                   PROVE  call[d].req.id \in Nat /\ call[d].req.id <= issued
        OBVIOUS
      <4>1. call[d].req \in Update
        BY PendingIsUpdate DEF Caller
      <4>2. call[d].req.id <= issued
        BY DEF Calls, Pending, IsUpdate
      <4> QED
        BY <4>1, <4>2 DEF Update
    <3>8. Calls'
      <4>1. \A d \in Client : d # c => call'[d] = call[d] /\ d \in Caller
        BY <1>1 DEF Caller
      <4>2. \A d \in Client : d # c => (Pending(d)' <=> Pending(d))
        BY <4>1 DEF Pending
      <4>3. \A d \in Client : d # c /\ Pending(d) => call'[d].req.id # u.id
        BY <3>3, <3>7, <4>1
      <4>4. ASSUME NEW d \in Client, NEW e \in Client, Pending(d)', Pending(e)',
                   call'[d].req.id = call'[e].req.id
            PROVE  d = e
        BY <3>2, <4>1, <4>2, <4>3, <4>4 DEF Calls
      <4>5. ASSUME NEW d \in Client, call'[d] # Null
            PROVE  \/ IsUpdate(call'[d].req) /\ call'[d].to = First /\ call'[d].req.id <= issued'
                   \/ call'[d].req.op = "get" /\ call'[d].to = Last
        <5>1. CASE d = c
          BY <3>2, <3>3, <5>1
        <5>2. CASE d # c /\ Pending(d)
          BY <3>3, <3>7, <4>1, <5>2 DEF Calls, Pending, IsUpdate
        <5>3. CASE d # c /\ ~Pending(d)
          BY <4>1, <4>5, <5>3 DEF Calls, Pending
        <5> QED
          BY <5>1, <5>2, <5>3
      <4>6. \A t \in Server : call'[t] # Null => call'[t].to = next'[t]
        BY <1>1, <1>5 DEF Calls
      <4> QED
        BY <1>4, <4>4, <4>5, <4>6 DEF Calls
    <3>9. NotYet'
      <4> SUFFICES ASSUME NEW d \in Client, Pending(d)', call'[d].answer = Null, lock[First] # d
                   PROVE  ~Holds(Last, call'[d].req)
        BY <1>1, <1>4 DEF NotYet, Holds
      <4>1. CASE d = c
        BY <3>2, <3>5, <4>1 DEF Holds
      <4>2. CASE d # c
        <5>1. call'[d] = call[d]
          BY <1>1, <4>2 DEF Caller
        <5> QED
          BY <5>1 DEF NotYet, Pending
      <4> QED
        BY <4>1, <4>2
    <3> QED
      BY <3>6, <3>8, <3>9
  <2>2. CASE IssueGet(c)
    <3>1. PICK k \in Key : Send(c, zk_get_tail(znodes), [op |-> "get", key |-> k])
      BY <2>2 DEF IssueGet
    <3>2. /\ call'[c] = [to |-> Last, req |-> [op |-> "get", key |-> k], answer |-> Null]
          /\ issued' = issued
      BY <1>1, <2>2, <3>1 DEF IssueGet, Send, TypeOK, Last, history
    <3>3. call'[c].to = Last /\ call'[c].req.op = "get" /\ ~IsUpdate(call'[c].req)
      BY <3>2 DEF IsUpdate
    <3> QED
      BY <1>1, <1>4, <1>5, <3>2, <3>3 DEF Calls, Absorbed, NotYet, Pending, Holds, Caller
  <2>3. CASE Finish(c)
    <3>1. call'[c] = Null /\ issued' = issued
      BY <1>1, <2>3 DEF Finish, TypeOK
    <3> QED
      BY <1>1, <1>4, <1>5, <3>1 DEF Calls, Absorbed, NotYet, Pending, Holds, Caller
  <2> QED
    BY <2>1, <2>2, <2>3
<1> QED
  BY <1>4, <1>6, <1>7, <1>8, <1>10

\* A read, or a delete that finds nothing: only clients get these answers.
LEMMA AnswersClient ==
    ASSUME TypeOK, Shape, OneUpdate, Server # {}, NEW x \in Caller, NEW s \in Server,
           BeginMissing(x, s) \/ Get(x, s)
    PROVE  /\ x \in Client
           /\ BeginMissing(x, s) => /\ ~Holds(Last, call[x].req)
                                    /\ table[Last][call[x].req.key] = Null
           /\ Get(x, s) => s = Last
<1> USE DEF OneUpdate
<1>1. At(x, s) /\ lock[s] = Null /\ call[x] # Null /\ phase[s] = "serving"
  BY DEF BeginMissing, Get, At
<1>2. CASE BeginMissing(x, s)
  <2>1. IsUpdate(call[x].req) /\ ~Holds(Last, call[x].req)
    BY <1>1, <1>2, TakingUp DEF BeginMissing, IsUpdate
  <2>2. table[s] = table[Last] /\ table[s][call[x].req.key] = Null /\ call[x].req.op = "del"
    BY <1>1, <1>2 DEF BeginMissing, InStep
  <2>3. ASSUME x \notin Client PROVE FALSE
    <3>1. x \in Server /\ x < s
      BY <1>1, <2>1, <2>3, TakingUp
    <3>2. Current(x) = call[x].req /\ lock[x] # Null
      BY <1>1, <2>1, <3>1, TakingUp
    <3> QED
      BY <2>1, <2>2, <3>1, <3>2 DEF InStep
  <2>4. ~Get(x, s)
    BY <1>2 DEF BeginMissing, Get
  <2> QED
    BY <2>1, <2>2, <2>3, <2>4
<1>3. CASE Get(x, s)
  <2>1. call[x].req.op = "get" /\ ~BeginMissing(x, s)
    BY <1>3 DEF Get, BeginMissing
  <2>2. ASSUME x \notin Client PROVE FALSE
    <3>1. x \in Server /\ phase[x] = "serving"
      BY <2>2 DEF Caller, Steady
    <3>2. stage[x] = "wait" /\ call[x].req = Current(x) /\ lock[x] # Null
      BY <1>1, <3>1 DEF Shape, CallShape, LockShape
    <3> QED
      BY <2>1, <3>1, <3>2 DEF Shape, LockShape, Current, IsUpdate
  <2>3. x \in Client => s = Last
    BY <1>1, <2>1 DEF Calls, IsUpdate, At
  <2> QED
    BY <2>1, <2>2, <2>3
<1> QED
  BY <1>2, <1>3

\* An answer to a client whose update is not at work.
LEMMA AnswerKeeps ==
    ASSUME TypeOK, Shape, OneUpdate, Server # {}, NEW x \in Caller, NEW s \in Server,
           BeginMissing(x, s) \/ Get(x, s)
    PROVE  OneUpdate'
<1> USE DEF OneUpdate
<1>1. /\ UNCHANGED <<zkVars, mainVars, nextVars, table, log, lock, stage, issued>>
      /\ call[x] # Null /\ call[x].to = s /\ lock[s] # x
      /\ x \in Client /\ x \notin Server
  BY AnswersClient, ChainAssumption DEF BeginMissing, Get, At, tableVars, history
<1>2. \A t \in Server : lock[t] # x
  BY <1>1, NullIsNoServer DEF Shape, LockShape
<1>3. PICK a \in Answer : Respond(x, a)
  <2>1. CASE BeginMissing(x, s)
    BY <2>1, AnswerTypes DEF BeginMissing
  <2>2. CASE Get(x, s)
    <3>1. call[x] \in Call /\ call[x].req \in Request /\ call[x].req.op = "get"
      BY <1>1, <2>2 DEF TypeOK, Call, Get
    <3>2. call[x].req.key \in Key
      BY <3>1 DEF Request, Update
    <3>3. table[s][call[x].req.key] \in Value \cup {Null}
      BY <3>2 DEF TypeOK, Table
    <3> QED
      BY <2>2, <3>3, AnswerTypes DEF Get
  <2> QED
    BY <2>1, <2>2
<1>4. /\ \A y \in Caller : y # x => call'[y] = call[y]
      /\ call'[x] # Null /\ call'[x].req = call[x].req /\ call'[x].answer = a
      /\ call'[x].to = call[x].to
  <2>1. ~Dead(x) /\ call[x] \in Call
    BY <1>1 DEF Dead, TypeOK
  <2>2. call'[x] = [call[x] EXCEPT !.answer = a]
    BY <1>3, <2>1 DEF Respond, TypeOK
  <2> QED
    BY <1>1, <1>3, <2>1, <2>2, RespondCall DEF Call
<1>5. \A t \in Server : lock[t] # Null => Current(t)' = Current(t)
  BY <1>1, <1>2, <1>4, CurrentKept
<1>6. Steady' /\ Last' = Last /\ \A t, u : Holds(t, u)' = Holds(t, u)
  BY <1>1, SteadyStays, LogKept DEF zkVars
<1>7. \A t \in Server : t # x /\ t \in Caller /\ call'[t] = call[t]
  BY <1>1, <1>4 DEF Caller
<1>8. Cascade'
  BY <1>1, <1>5, <1>7 DEF Cascade, Shape, LockShape, nextVars
<1>9. InStep'
  BY <1>1, <1>5, <1>6 DEF InStep, Holds
<1>10. Stages'
  BY <1>1, <1>5, <1>6, <1>7 DEF Stages, Shape, LockShape, Holds, nextVars
<1>11. \A c \in Client : /\ c \in Caller /\ (Pending(c)' <=> Pending(c))
                         /\ call'[c] # Null <=> call[c] # Null
                         /\ call[c] # Null => call'[c].req = call[c].req /\ call'[c].to = call[c].to
  BY <1>1, <1>4 DEF Pending, Caller
<1>12. Calls'
  BY <1>1, <1>6, <1>7, <1>11 DEF Calls, nextVars
<1>13. NotYet'
  BY <1>1, <1>3, <1>4, <1>6, <1>11, NullAssumption DEF NotYet, Pending, Holds
<1>14. Absorbed'
  BY <1>1, <1>6 DEF Absorbed
<1> QED
  BY <1>6, <1>8, <1>9, <1>10, <1>12, <1>13, <1>14

\* A server sends its update on, or has the answer of its successor: no
\* server beyond it is at work.
LEMMA CallerKeeps ==
    ASSUME TypeOK, Shape, OneUpdate, Server # {}, NEW s \in Server, Forward(s) \/ ReplyIn(s)
    PROVE  OneUpdate'
<1> USE DEF OneUpdate
<1>1. /\ UNCHANGED <<zkVars, mainVars, nextVars, table, log, lock, issued>>
      /\ stage[s] \in {"forward", "wait"} /\ lock[s] # Null /\ s \in Caller
      /\ stage[s] = "wait" => call[s] # Null /\ call[s].answer # Null
      /\ \A t \in Server : t # s => stage'[t] = stage[t]
      /\ \A y \in Caller : y # s => call'[y] = call[y]
  BY DEF Forward, ReplyIn, Send, history, Shape, LockShape, CallShape, TypeOK, Caller
<1>2. \A t \in Server : lock[t] # s
  BY <1>1, NotWorkedOn DEF Forward, ReplyIn
<1>3. \A t \in Server : s < t => lock[t] = Null
  BY <1>1 DEF Cascade
<1>4. \A t \in Server : lock[t] # Null => Current(t)' = Current(t)
  BY <1>1, <1>2, CurrentKept
<1>5. Steady' /\ Last' = Last /\ \A t, u : Holds(t, u)' = Holds(t, u)
  BY <1>1, SteadyStays, LogKept DEF zkVars
<1>6. \A c \in Client : c \in Caller /\ c # s /\ call'[c] = call[c]
  BY <1>1, ChainAssumption DEF Caller
<1>7. Cascade'
  <2> SUFFICES ASSUME NEW t \in Server, lock[t] # Null, NEW r \in Server, r < t
               PROVE  /\ stage'[r] = "wait" /\ call'[r].answer = Null
                      /\ lock[next[r]] = r /\ Current(r)' = Current(t)'
    BY <1>1 DEF Cascade, nextVars
  <2>1. r # s /\ r \in Caller
    BY <1>3 DEF Caller
  <2>2. /\ stage[r] = "wait" /\ call[r].answer = Null
        /\ lock[next[r]] = r /\ Current(r) = Current(t)
    BY DEF Cascade
  <2>3. lock[r] # Null
    BY <2>2 DEF Shape, LockShape
  <2> QED
    BY <1>1, <1>4, <2>1, <2>2, <2>3
<1>8. InStep'
  BY <1>1, <1>4, <1>5 DEF InStep, Holds
<1>9. NotYet' /\ Absorbed'
  BY <1>1, <1>5, <1>6 DEF NotYet, Pending, Absorbed, Holds
<1>10. Stages!(s)'
  <2>1. Current(s)' = Current(s) /\ next'[s] = next[s]
    BY <1>1, <1>4 DEF nextVars
  <2>2. CASE Forward(s)
    <3>1. link[s].to = next[s] /\ next[s] # Null /\ ~Holds(Last, Current(s))
      BY <2>2 DEF Forward, Steady, Stages
    <3>2. stage'[s] = "wait" /\ Send(s, next[s], Current(s))
      BY <2>2, <3>1 DEF Forward, TypeOK
    <3>3. call'[s].answer = Null
      BY <1>1, <3>2 DEF Send, TypeOK
    <3>4. ~Holds(Last, Current(s))'
      BY <1>1, <1>5, <2>1, <3>1 DEF Holds
    <3> QED
      BY <2>1, <3>1, <3>2, <3>3, <3>4
  <2>3. CASE ReplyIn(s)
    <3>1. call[s].answer = Ok /\ Holds(Last, Current(s))
      BY <1>1, <2>3 DEF ReplyIn, Stages
    <3>2. stage'[s] = "ok"
      BY <2>3, <3>1 DEF ReplyIn, TypeOK
    <3>3. Holds(Last, Current(s))'
      BY <1>1, <1>5, <2>1, <3>1 DEF Holds
    <3> QED
      BY <3>2, <3>3
  <2> QED
    BY <2>2, <2>3
<1>11. Stages'
  <2>1. ASSUME NEW t \in Server, t # s PROVE Stages!(t)'
    <3>1. stage'[t] = stage[t] /\ call'[t] = call[t] /\ next'[t] = next[t]
      BY <1>1, <2>1 DEF Caller, nextVars
    <3>2. stage[t] # "idle" => Current(t)' = Current(t)
      BY <1>4 DEF Shape, LockShape
    <3> QED
      BY <1>1, <1>5, <3>1, <3>2 DEF Stages, Holds
  <2> QED
    BY <1>10, <2>1 DEF Stages
<1>12. call'[s] # Null => call'[s].to = next[s]
  <2>1. CASE Forward(s)
    BY <1>1, <2>1 DEF Forward, Send, TypeOK, Steady, Stages
  <2>2. CASE ReplyIn(s)
    BY <1>1, <2>2 DEF ReplyIn, TypeOK
  <2> QED
    BY <2>1, <2>2
<1>13. Calls'
  <2>1. \A t \in Server : call'[t] # Null => call'[t].to = next[t]
    BY <1>1, <1>12 DEF Calls, Caller
  <2> QED
    BY <1>1, <1>5, <1>6, <2>1 DEF Calls, Pending, nextVars
<1> QED
  BY <1>5, <1>7, <1>8, <1>9, <1>11, <1>13

\* leaveWrite and the answer: what is answered with success is at the tail.
LEMMA ReplyKeeps ==
    ASSUME TypeOK, Shape, OneUpdate, Server # {}, NEW s \in Server, Reply(s)
    PROVE  OneUpdate' /\ stage[s] = "ok" /\ Holds(Last, Current(s))
<1> USE DEF OneUpdate
<1> DEFINE x == lock[s]
<1>1. /\ stage[s] = "ok" /\ Holds(Last, Current(s))
      /\ Respond(x, Ok)
  BY DEF Reply, Stages
<1>2. /\ UNCHANGED <<zkVars, mainVars, nextVars, table, log, issued>>
      /\ lock'[s] = Null /\ stage'[s] = "idle"
      /\ \A t \in Server : t # s => lock'[t] = lock[t] /\ stage'[t] = stage[t]
  BY DEF Reply, history, TypeOK
<1>3. /\ x \in Caller /\ x # Null /\ call[x] # Null /\ call[x].to = s /\ call[x].answer = Null
      /\ call[x].req = Current(s) /\ \A t \in Server : t # s => lock[t] # x
  BY <1>1 DEF Shape, LockShape, TypeOK, Current
<1>4. /\ \A y \in Caller : y # x => call'[y] = call[y]
      /\ call'[x] # Null /\ call'[x].req = call[x].req /\ call'[x].answer = Ok
      /\ call'[x].to = call[x].to
  <2>1. ~Dead(x) /\ call[x] \in Call
    BY <1>3 DEF Dead, TypeOK, Steady
  <2>2. call'[x] = [call[x] EXCEPT !.answer = Ok]
    BY <1>1, <1>3, <2>1 DEF Respond, TypeOK
  <2> QED
    BY <1>1, <1>3, <2>1, <2>2, RespondCall, AnswerTypes DEF Call
<1>5. \A t \in Server : s < t => lock[t] = Null
  BY <1>1 DEF Cascade
<1>6. \A t \in Server : t # s /\ lock[t] # Null => Current(t)' = Current(t)
  BY <1>2, <1>3, <1>4 DEF Current, TypeOK
<1>7. Steady' /\ Last' = Last /\ \A t, u : Holds(t, u)' = Holds(t, u)
  BY <1>2, SteadyStays, LogKept DEF zkVars
<1>8. /\ \A y \in Caller : (call'[y] # Null <=> call[y] # Null) /\ (Pending(y)' <=> Pending(y))
      /\ \A y \in Caller : call'[y].req = call[y].req /\ call'[y].to = call[y].to
  BY <1>3, <1>4 DEF Pending
<1>9. \A t \in Server : t \in Caller
  BY DEF Caller
<1>10. Calls'
  BY <1>2, <1>7, <1>8, <1>9 DEF Calls, nextVars, Caller
<1>11. Absorbed'
  BY <1>2, <1>7 DEF Absorbed
<1>12. Cascade'
  <2> SUFFICES ASSUME NEW t \in Server, lock'[t] # Null, NEW r \in Server, r < t
               PROVE  /\ stage'[r] = "wait" /\ call'[r].answer = Null
                      /\ lock'[next[r]] = r /\ Current(r)' = Current(t)'
    BY <1>2 DEF Cascade, nextVars
  <2>1. t # s /\ lock[t] # Null
    BY <1>2
  <2>2. /\ stage[r] = "wait" /\ call[r].answer = Null
        /\ lock[next[r]] = r /\ Current(r) = Current(t)
    BY <2>1 DEF Cascade
  <2>3. r # s /\ lock[r] # Null /\ ~(s < t)
    BY <1>1, <1>5, <2>1, <2>2 DEF Shape, LockShape
  <2>4. next[r] \in Server /\ next[r] <= t /\ r \in Nat /\ t \in Nat /\ s \in Nat
        /\ next[r] \in Nat
    BY ChainOrder
  <2>5. next[r] # s
    BY <2>1, <2>3, <2>4, ChainOrder
  <2>6. r # x
    BY <1>3, <2>2, <2>4, <2>5
  <2> QED
    BY <1>2, <1>4, <1>6, <1>9, <2>1, <2>2, <2>3, <2>4, <2>5, <2>6
<1>13. InStep'
  <2>1. log[s] = log[Last] /\ table[s] = table[Last]
    BY <1>1 DEF InStep
  <2>2. ASSUME NEW t \in Server, t # s PROVE InStep!(t)'
    BY <1>2, <1>6, <1>7, <2>2 DEF InStep, Holds
  <2>3. InStep!(s)'
    BY <1>2, <1>7, <2>1
  <2> QED
    BY <2>2, <2>3 DEF InStep
<1>14. Stages'
  <2> SUFFICES ASSUME NEW t \in Server, t # s PROVE Stages!(t)'
    BY <1>2 DEF Stages
  <2>1. stage'[t] = stage[t] /\ next'[t] = next[t] /\ lock'[t] = lock[t]
    BY <1>2 DEF nextVars
  <2>2. stage[t] # "idle" => /\ Current(t)' = Current(t)
                             /\ Holds(Last, Current(t))' = Holds(Last, Current(t))
    BY <1>2, <1>6, <1>7 DEF Shape, LockShape, Holds
  <2>3. CASE t # x
    <3>1. call'[t] = call[t]
      BY <1>4, <1>9, <2>3
    <3>2. stage[t] = "wait" /\ lock'[next[t]] # t => lock[next[t]] # t
      BY <1>2, <2>3, ChainOrder DEF Stages
    <3> QED
      BY <2>1, <2>2, <3>1, <3>2 DEF Stages
  <2>4. CASE t = x
    <3>1. /\ stage[t] = "wait" /\ call[t].req = Current(t)
      BY <1>3, <2>4 DEF Shape, CallShape, Steady
    <3>2. Holds(Last, Current(t))
      BY <1>1, <1>3, <2>4, <3>1
    <3>3. call'[t].answer = Ok
      BY <1>4, <2>4
    <3>4. stage'[t] = "wait" /\ next'[t] # Null /\ call'[t].answer = Ok
      BY <2>1, <3>1, <3>3 DEF Stages
    <3>5. Holds(Last, Current(t))' /\ Ok # Null
      BY <2>2, <3>1, <3>2, NullAssumption, AnswerTypes
    <3> QED
      BY <3>4, <3>5
  <2> QED
    BY <2>3, <2>4
<1>15. NotYet'
  <2> SUFFICES ASSUME NEW c \in Client, Pending(c)', call'[c].answer = Null, lock'[First] # c
               PROVE  ~Holds(Last, call[c].req)'
    BY DEF NotYet, First
  <2>1. c # x /\ c \in Caller
    BY <1>4, NullAssumption, AnswerTypes DEF Caller
  <2>2. First \in Server
    BY ChainOrder
  <2>3. lock[First] # c
    BY <1>2, <2>1, <2>2
  <2>4. call'[c] = call[c] /\ Pending(c)
    BY <1>4, <1>8, <2>1
  <2>5. ~Holds(Last, call[c].req)
    BY <2>3, <2>4 DEF NotYet
  <2> QED
    BY <1>2, <1>7, <2>4, <2>5 DEF Holds
<1> QED
  BY <1>1, <1>7, <1>10, <1>11, <1>12, <1>13, <1>14, <1>15

LEMMA OneUpdateStep ==
    ASSUME TypeOK, Shape, OneUpdate, Server # {}, MaxCrashes = 0, [Next]_vars
    PROVE  OneUpdate'
<1>1. CASE Next
  <2>1. /\ UNCHANGED <<zkVars, mainVars, nextVars>>
        /\ \/ \E c \in Client : IssueUpdate(c) \/ IssueGet(c) \/ Finish(c)
           \/ \E x \in Caller, s \in Server : Begin(x, s) \/ BeginMissing(x, s) \/ Get(x, s)
           \/ \E s \in Server : Forward(s) \/ ReplyIn(s) \/ Reply(s)
    BY <1>1, SteadySteps DEF OneUpdate
  <2> QED
    BY <2>1, ClientKeeps, BeginKeeps, AnswerKeeps, CallerKeeps, ReplyKeeps
<1>2. CASE UNCHANGED vars
  <2>1. UNCHANGED <<znodes, notified, phase, watcher, next, link, call, issued, log, lock,
                    stage, table>>
    BY <1>2 DEF vars, zkVars, mainVars, nextVars, tableVars, history
  <2> QED
    BY <2>1 DEF OneUpdate, Steady, Calls, Absorbed, Cascade, InStep, Stages, NotYet, Last,
                Pending, Holds, Current
<1> QED
  BY <1>1, <1>2

LEMMA OneUpdateAlways ==
    ASSUME Server = Founders, Server # {}, MaxCrashes = 0
    PROVE  Spec => [](TypeOK /\ Shape /\ OneUpdate)
<1>1. Init => TypeOK /\ Shape /\ OneUpdate
  BY InitialState, InitialOneUpdate
<1>2. TypeOK /\ Shape /\ OneUpdate /\ [Next]_vars => (TypeOK /\ Shape /\ OneUpdate)'
  BY TypeStep, ShapeStep, OneUpdateStep
<1> QED
  BY <1>1, <1>2, PTL DEF Spec

-----------------------------------------------------------------------------
(* What follows from OneUpdate.                                            *)

\* A log is that of the tail, or one update longer.
LEMMA LogOf ==
    ASSUME TypeOK, Shape, OneUpdate, Server # {}, NEW s \in Server, NEW i \in DOMAIN log[s]
    PROVE  \/ i \in DOMAIN log[Last] /\ log[s][i] = log[Last][i]
           \/ /\ i = Len(log[Last]) + 1 /\ log[s][i] = Current(s)
              /\ lock[s] # Null /\ ~Holds(Last, Current(s))
<1> USE DEF OneUpdate
<1>1. CASE lock[s] # Null /\ ~Holds(Last, Current(s))
  <2>1. log[s] = Append(log[Last], Current(s))
    BY <1>1 DEF InStep
  <2>2. Last \in Server /\ log[Last] \in Seq(Update) /\ Current(s) \in Update
    BY <1>1, ChainOrder, CurrentType DEF TypeOK, Shape, LockShape
  <2>3. /\ DOMAIN log[Last] = 1 .. Len(log[Last]) /\ Len(log[Last]) \in Nat
        /\ DOMAIN Append(log[Last], Current(s)) = 1 .. Len(log[Last]) + 1
        /\ \A j \in 1 .. Len(log[Last]) : Append(log[Last], Current(s))[j] = log[Last][j]
        /\ Append(log[Last], Current(s))[Len(log[Last]) + 1] = Current(s)
    BY <2>2, AppendProperties, LenProperties
  <2>4. i \in DOMAIN log[Last] \/ i = Len(log[Last]) + 1
    BY <2>1, <2>3
  <2> QED
    BY <1>1, <2>1, <2>3, <2>4
<1>2. CASE ~(lock[s] # Null /\ ~Holds(Last, Current(s)))
  BY <1>2 DEF InStep
<1> QED
  BY <1>1, <1>2

\* An update has the same place in every log it is in.
LEMMA SamePlace ==
    ASSUME TypeOK, Shape, OneUpdate, Server # {}, NEW s \in Server, NEW t \in Server,
           NEW i \in DOMAIN log[s], NEW k \in DOMAIN log[t], log[s][i] = log[t][k]
    PROVE  i = k
<1>1. CASE i \in DOMAIN log[Last] /\ log[s][i] = log[Last][i]
  <2>1. Holds(Last, log[t][k])
    BY <1>1 DEF Holds
  <2>2. k \in DOMAIN log[Last] /\ log[t][k] = log[Last][k]
    BY <2>1, LogOf
  <2> QED
    BY <1>1, <2>2 DEF OneUpdate, Absorbed
<1>2. CASE /\ i = Len(log[Last]) + 1 /\ log[s][i] = Current(s)
           /\ lock[s] # Null /\ ~Holds(Last, Current(s))
  <2>1. ~(k \in DOMAIN log[Last] /\ log[t][k] = log[Last][k])
    BY <1>2 DEF Holds
  <2> QED
    BY <1>2, <2>1, LogOf
<1> QED
  BY <1>1, <1>2, LogOf

\* Neighbours differ by the update that holds the lock.
LEMMA Neighbours ==
    ASSUME TypeOK, Shape, OneUpdate, Server # {}
    PROVE  UpstreamPrefix
<1> USE DEF OneUpdate
<1> SUFFICES ASSUME NEW s \in Server, NEW t \in Server, t = next[s]
             PROVE  \/ log[s] = log[t]
                    \/ lock[s] # Null /\ log[s] = Append(log[t], Current(s))
  BY DEF UpstreamPrefix, Serving
<1>1. s < t
  BY ChainOrder, NullIsNoServer
<1>2. lock[t] # Null => lock[s] # Null /\ Current(s) = Current(t)
  BY <1>1 DEF Cascade, Shape, LockShape
<1> QED
  BY <1>2 DEF InStep

\* When nobody waits nobody works.
LEMMA NoWork ==
    ASSUME TypeOK, Shape, OneUpdate, Server # {}, NoPendingOps
    PROVE  \A s \in Server : table[s] = table[Last]
<1>1. ASSUME NEW s \in Server, lock[s] # Null PROVE FALSE
  <2>1. lock[s] \in Caller /\ call[lock[s]] # Null /\ IsUpdate(call[lock[s]].req)
    BY <1>1 DEF Shape, LockShape, TypeOK
  <2> QED
    BY <2>1 DEF NoPendingOps, IsUpdate
<1> QED
  BY <1>1 DEF OneUpdate, InStep

\* Synchronous replication: in a chain that nobody joins or leaves, a table
\* lags behind its predecessor's by the update that holds the predecessor's
\* lock, at most (invoke answers only after the answer of the successor).
THEOREM Synchronous ==
    ASSUME Server = Founders, Server # {}, MaxCrashes = 0
    PROVE  Spec => []UpstreamPrefix
BY OneUpdateAlways, Neighbours, PTL

\* One order: whatever the clients and the handler threads do, no two
\* servers of such a chain absorb two updates in different orders, and none
\* absorbs an update twice.
THEOREM OneOrder ==
    ASSUME Server = Founders, Server # {}, MaxCrashes = 0
    PROVE  Spec => []SameOrder
<1>1. TypeOK /\ Shape /\ OneUpdate => SameOrder
  <2> SUFFICES ASSUME TypeOK, Shape, OneUpdate, NEW s \in Server, NEW t \in Server,
                      NEW i \in DOMAIN log[s], NEW j \in DOMAIN log[s],
                      NEW k \in DOMAIN log[t], NEW l \in DOMAIN log[t],
                      log[s][i] = log[t][k], log[s][j] = log[t][l], i < j
               PROVE  k < l
    BY DEF SameOrder
  <2>1. i = k
    BY SamePlace
  <2>2. j = l
    BY SamePlace
  <2> QED
    BY <2>1, <2>2
<1> QED
  BY <1>1, OneUpdateAlways, PTL

\* When all is quiet, all servers of such a chain have the same table.
THEOREM AgreeWhenQuiet ==
    ASSUME Server = Founders, Server # {}, MaxCrashes = 0
    PROVE  Spec => []ReplicasAgree
<1>1. TypeOK /\ Shape /\ OneUpdate => ReplicasAgree
  BY NoWork DEF ReplicasAgree, Serving
<1> QED
  BY <1>1, OneUpdateAlways, PTL

-----------------------------------------------------------------------------
(* The chain implements one table.                                         *)

Asked == [c \in Client |-> IF call[c] = Null THEN Null ELSE call[c].req]
Seen == [c \in Client |->
            IF call[c] = Null THEN Null
            ELSE IF call[c].answer = Null /\ IsUpdate(call[c].req)
                    /\ Holds(Last, call[c].req)
                 THEN Ok
                 ELSE call[c].answer]

\* A step that concerns one client.
LEMMA OneSeen ==
    ASSUME NEW c \in Client, UNCHANGED znodes,
           \A d \in Client : d # c =>
              /\ call'[d] = call[d]
              /\ Pending(d) => (Holds(Last, call[d].req)' <=> Holds(Last, call[d].req))
    PROVE  /\ Asked' = [Asked EXCEPT ![c] = Asked'[c]]
           /\ Seen' = [Seen EXCEPT ![c] = Seen'[c]]
<1>1. ASSUME NEW d \in Client, d # c PROVE Asked'[d] = Asked[d]
  BY <1>1 DEF Asked
<1>2. ASSUME NEW d \in Client, d # c PROVE Seen'[d] = Seen[d]
  <2>1. call'[d] = call[d]
    BY <1>2
  <2>2. Pending(d) => (Holds(Last, call[d].req)' <=> Holds(Last, call[d].req))
    BY <1>2
  <2>3. CASE Pending(d)
    BY <2>1, <2>2, <2>3 DEF Seen, Holds, Pending
  <2>4. CASE ~Pending(d)
    BY <2>1, <2>4 DEF Seen, Pending
  <2> QED
    BY <2>3, <2>4
<1>3. /\ Asked = [d \in Client |-> Asked[d]] /\ Asked' = [d \in Client |-> Asked'[d]]
      /\ Seen = [d \in Client |-> Seen[d]] /\ Seen' = [d \in Client |-> Seen'[d]]
  BY DEF Asked, Seen
<1> QED
  BY <1>1, <1>2, <1>3

\* Nothing that clients can tell.
LEMMA NothingSeen ==
    ASSUME UNCHANGED <<znodes, table, log>>, \A d \in Client : call'[d] = call[d]
    PROVE  UNCHANGED Promise!vars
<1>1. Last' = Last /\ \A s, u : Holds(s, u)' = Holds(s, u)
  BY LogKept
<1>2. Asked' = Asked
  BY DEF Asked
<1>3. Seen' = Seen
  BY <1>1 DEF Seen, Holds
<1> QED
  BY <1>1, <1>2, <1>3 DEF Promise!vars, Asked, Seen

LEMMA SomeoneMoves ==
    ASSUME NEW c \in Client,
           \/ Promise!Invoke(c) \/ Promise!Return(c) \/ Promise!Put(c) \/ Promise!Del(c)
           \/ Promise!DelMissing(c) \/ Promise!Get(c)
    PROVE  Promise!Next
BY DEF Promise!Next

\* Only what a client sees could change, and it does not.
LEMMA SeenUnmoved ==
    ASSUME NEW c \in Client, Seen' = [Seen EXCEPT ![c] = Seen'[c]], Seen'[c] = Seen[c]
    PROVE  Seen' = Seen
<1>1. PICK f : f = Seen
  OBVIOUS
<1>2. f = [d \in Client |-> f[d]]
  BY <1>1 DEF Seen
<1>3. [f EXCEPT ![c] = f[c]] = f
  BY <1>2
<1> QED
  BY Zenon, <1>1, <1>3

\* The operations of clients begin and end.
LEMMA ClientRefines ==
    ASSUME TypeOK, Shape, OneUpdate, Server # {}, NEW c \in Client,
           IssueUpdate(c) \/ IssueGet(c) \/ Finish(c)
    PROVE  Promise!Next
<1> USE DEF OneUpdate
<1>1. /\ UNCHANGED <<znodes, table, log>> /\ c \in Caller
      /\ \A y \in Caller : y # c => call'[y] = call[y]
  BY DEF IssueUpdate, IssueGet, Finish, Send, tableVars, TypeOK, Caller, zkVars
<1>2. Last' = Last /\ \A s, u : Holds(s, u)' = Holds(s, u)
  BY <1>1, LogKept
<1>3. /\ Asked' = [Asked EXCEPT ![c] = Asked'[c]] /\ Seen' = [Seen EXCEPT ![c] = Seen'[c]]
      /\ UNCHANGED table[Last]
  <2>1. \A d \in Client : d \in Caller
    BY DEF Caller
  <2>2. \A d \in Client : Holds(Last, call[d].req)' <=> Holds(Last, call'[d].req)
    BY <1>1, <1>2 DEF Holds
  <2> QED
    BY <1>1, <1>2, <2>1, <2>2, OneSeen
<1>4. CASE IssueUpdate(c)
  <2>1. PICK o \in Kinds \ {"get"}, k \in Key, v \in Value \cup {Null} :
           Send(c, zk_get_head(znodes), [op |-> o, id |-> issued', key |-> k, val |-> v])
    BY <1>4 DEF IssueUpdate
  <2> DEFINE u == [op |-> o, id |-> issued', key |-> k, val |-> v]
  <2>2. call'[c] = [to |-> First, req |-> u, answer |-> Null]
    BY <1>1, <2>1 DEF Send, TypeOK, Steady, First
  <2>3. issued' = issued + 1 /\ issued \in Nat /\ issued < MaxUpdates /\ MaxUpdates \in Nat
        /\ o \in {"put", "del"} /\ call[c] = Null
    BY <1>4, ChainAssumption DEF IssueUpdate, TypeOK
  <2>4. issued' \in 1 .. MaxUpdates
    BY <2>3
  <2>5. u \in [op : {"put", "del"}, id : 1 .. MaxUpdates, key : Key, val : Value \cup {Null}]
    BY <2>3, <2>4
  <2>6. \A i \in DOMAIN log[Last] : log[Last][i].id <= issued /\ log[Last][i] \in Update
    BY ChainOrder, HeadIsLeast, ElementsOfLast DEF Absorbed
  <2>7. ~Holds(Last, u)
    BY <2>3, <2>6 DEF Holds, Update
  <2>12. u \in Request /\ First \in Server
    BY <2>3, ChainOrder, HeadIsLeast DEF Request, Update, First
  <2> HIDE DEF u
  <2>8. call'[c] # Null
    BY <2>2, <2>12, NullAssumption DEF Call
  <2>9. Asked[c] = Null /\ Seen[c] = Null /\ Asked'[c] = u /\ Seen'[c] = Null
    <3>1. ~Holds(Last, call[c].req)'
      BY <1>1, <1>2, <2>2, <2>7 DEF Holds
    <3> QED
      BY <2>2, <2>3, <2>8, <3>1 DEF Asked, Seen
  <2>10. Seen' = Seen
    BY Zenon, <1>3, <2>9, SeenUnmoved
  <2>11. Promise!Invoke(c)
    BY <1>3, <2>5, <2>9, <2>10 DEF Promise!Invoke, Asked, Seen
  <2> QED
    BY <2>11, SomeoneMoves
<1>5. CASE IssueGet(c)
  <2>1. PICK k \in Key : Send(c, zk_get_tail(znodes), [op |-> "get", key |-> k])
    BY <1>5 DEF IssueGet
  <2> DEFINE q == [op |-> "get", key |-> k]
  <2>2. call'[c] = [to |-> Last, req |-> q, answer |-> Null] /\ call[c] = Null
    BY <1>1, <1>5, <2>1 DEF IssueGet, Send, TypeOK, Last
  <2>3. q \in Request /\ Last \in Server /\ ~IsUpdate(q) /\ q \in [op : {"get"}, key : Key]
    BY ChainOrder, HeadIsLeast DEF Request, IsUpdate
  <2> HIDE DEF q
  <2>4. call'[c] # Null
    BY <2>2, <2>3, NullAssumption DEF Call
  <2>5. Asked[c] = Null /\ Seen[c] = Null /\ Asked'[c] = q /\ Seen'[c] = Null
    BY <2>2, <2>3, <2>4 DEF Asked, Seen
  <2>6. Seen' = Seen
    BY Zenon, <1>3, <2>5, SeenUnmoved
  <2>7. Promise!Invoke(c)
    BY <1>3, <2>3, <2>5, <2>6 DEF Promise!Invoke, Asked, Seen
  <2> QED
    BY <2>7, SomeoneMoves
<1>6. CASE Finish(c)
  <2>1. call[c] # Null /\ call[c].answer # Null /\ call'[c] = Null
    BY <1>1, <1>6 DEF Finish, TypeOK
  <2>2. Asked'[c] = Null /\ Seen'[c] = Null /\ Seen[c] # Null
    BY <2>1 DEF Asked, Seen
  <2>3. Promise!Return(c)
    BY <1>3, <2>2 DEF Promise!Return, Asked, Seen
  <2> QED
    BY <2>3, SomeoneMoves
<1> QED
  BY <1>4, <1>5, <1>6

\* A delete that finds nothing is answered by the head, a read by the tail.
LEMMA AnswerRefines ==
    ASSUME TypeOK, Shape, OneUpdate, Server # {}, NEW x \in Caller, NEW s \in Server,
           BeginMissing(x, s) \/ Get(x, s)
    PROVE  Promise!Next
<1>1. /\ UNCHANGED <<znodes, table, log>> /\ x \in Client
      /\ call[x] # Null /\ call[x].answer = Null
  BY AnswersClient DEF BeginMissing, Get, At, tableVars, zkVars
<1>2. Last' = Last /\ \A t, u : Holds(t, u)' = Holds(t, u)
  BY <1>1, LogKept
<1>3. ~Dead(x) /\ call[x] \in Call
  BY <1>1, ChainAssumption DEF Dead, TypeOK
<1>4. ASSUME NEW a \in Answer, Respond(x, a)
      PROVE  /\ Asked' = Asked /\ Seen' = [Seen EXCEPT ![x] = a]
             /\ UNCHANGED table[Last]
  <2>1. /\ \A y \in Caller : y # x => call'[y] = call[y]
        /\ call'[x] # Null /\ call'[x].req = call[x].req /\ call'[x].answer = a
    BY <1>1, <1>3, <1>4, RespondCall
  <2>2. \A d \in Client : d \in Caller
    BY DEF Caller
  <2>3. \A d \in Client : d # x => (Holds(Last, call[d].req)' <=> Holds(Last, call[d].req))
    BY <1>1, <1>2, <2>1, <2>2 DEF Holds
  <2>4. /\ Asked' = [Asked EXCEPT ![x] = Asked'[x]] /\ Seen' = [Seen EXCEPT ![x] = Seen'[x]]
    BY <1>1, <2>1, <2>2, <2>3, OneSeen
  <2>5. a # Null
    BY NullAssumption
  <2>6. Asked'[x] = Asked[x] /\ Seen'[x] = a
    BY <1>1, <2>1, <2>5 DEF Asked, Seen
  <2>7. Asked' = Asked
    BY <2>4, <2>6 DEF Asked
  <2> QED
    BY <1>1, <1>2, <2>4, <2>6, <2>7
<1>5. CASE BeginMissing(x, s)
  <2>1. /\ ~Holds(Last, call[x].req) /\ table[Last][call[x].req.key] = Null
        /\ call[x].req.op = "del" /\ Respond(x, Error) /\ Error \in Answer
    BY <1>5, AnswersClient, AnswerTypes DEF BeginMissing
  <2>2. Asked[x] = call[x].req /\ Seen[x] = Null
    BY <1>1, <2>1 DEF Asked, Seen
  <2>3. Asked[x] # Null
    BY <1>3, <2>2, NullAssumption DEF Call
  <2>4. Promise!DelMissing(x)
    BY <1>4, <2>1, <2>2, <2>3
       DEF Promise!DelMissing, Promise!TakesEffect, Asked, Seen, Promise!Error, Error
  <2> QED
    BY <1>1, <2>4, SomeoneMoves
<1>6. CASE Get(x, s)
  <2> DEFINE a == [value |-> table[Last][call[x].req.key]]
  <2>1. call[x].req.op = "get" /\ Respond(x, a) /\ ~IsUpdate(call[x].req)
    BY <1>6, AnswersClient DEF Get, IsUpdate
  <2>2. call[x].req.key \in Key
    BY <1>3, <2>1 DEF Call, Request, Update
  <2>3. a \in Answer
    <3>1. Last \in Server
      BY ChainOrder, HeadIsLeast DEF OneUpdate
    <3>2. table[Last][call[x].req.key] \in Value \cup {Null}
      BY <2>2, <3>1 DEF TypeOK, Table
    <3> QED
      BY <3>2, AnswerTypes
  <2>4. Asked[x] = call[x].req /\ Seen[x] = Null
    BY <1>1, <2>1 DEF Asked, Seen
  <2>5. Asked[x] # Null
    BY <1>3, <2>4, NullAssumption DEF Call
  <2>6. Promise!Get(x)
    BY <1>4, <2>1, <2>3, <2>4, <2>5
       DEF Promise!Get, Promise!TakesEffect, Asked, Seen
  <2> QED
    BY <1>1, <2>6, SomeoneMoves
<1> QED
  BY <1>5, <1>6

\* An update takes effect when the tail absorbs it.
LEMMA BeginRefines ==
    ASSUME TypeOK, Shape, OneUpdate, Server # {}, NEW x \in Caller, NEW s \in Server, Begin(x, s)
    PROVE  [Promise!Next]_(Promise!vars)
<1> USE DEF OneUpdate
<1> DEFINE u == call[x].req
<1>1. /\ UNCHANGED <<znodes, call>> /\ call[x] # Null
      /\ At(x, s) /\ lock[s] = Null /\ IsUpdate(u) /\ u.op \in {"put", "del"}
      /\ u.op = "del" => table[s][u.key] # Null
      /\ table'[s] = Apply(table[s], u) /\ log'[s] = Append(log[s], u)
      /\ \A t \in Server : t # s => table'[t] = table[t] /\ log'[t] = log[t]
  BY DEF Begin, At, IsUpdate, TypeOK, zkVars
<1>2. Last' = Last /\ Last \in Server
  BY <1>1, ChainOrder, HeadIsLeast DEF Last
<1>3. \A d \in Client : call'[d] = call[d]
  BY <1>1
<1>4. CASE s # Last
  <2>1. table'[Last] = table[Last] /\ log'[Last] = log[Last]
    BY <1>1, <1>2, <1>4
  <2>2. \A v : Holds(Last, v)' <=> Holds(Last, v)
    BY <1>2, <2>1 DEF Holds
  <2>3. Asked' = Asked
    BY <1>3 DEF Asked
  <2>4. Seen' = Seen
    BY <1>2, <1>3, <2>1 DEF Seen, Holds
  <2> QED
    BY <1>2, <2>1, <2>3, <2>4 DEF Promise!vars, Asked, Seen
<1>5. CASE s = Last
  <2>1. PICK c \in Client : Pending(c) /\ call[c].answer = Null /\ call[c].req = u
    <3>1. CASE x \in Client
      BY <1>1, <3>1 DEF At, Pending
    <3>2. CASE x \notin Client
      <4>1. x \in Server /\ lock[x] # Null /\ Current(x) = u
        BY <1>1, <3>2, TakingUp
      <4> QED
        BY <4>1, AtWork
    <3> QED
      BY <3>1, <3>2
  <2>2. u \in Update /\ c \in Caller
    BY <1>1, AtType, UpdateRequest DEF Caller
  <2>3. ~Holds(Last, u) /\ log[s] \in Seq(Update)
    BY <1>1, TakingUp DEF TypeOK
  <2>4. \A v : Holds(Last, v)' <=> Holds(Last, v) \/ v = u
    <3>1. /\ DOMAIN log[s] = 1 .. Len(log[s]) /\ Len(log[s]) \in Nat
          /\ DOMAIN Append(log[s], u) = 1 .. Len(log[s]) + 1
          /\ \A i \in 1 .. Len(log[s]) : Append(log[s], u)[i] = log[s][i]
          /\ Append(log[s], u)[Len(log[s]) + 1] = u
      BY <2>2, <2>3, AppendProperties, LenProperties
    <3>2. log'[Last] = Append(log[s], u)
      BY <1>1, <1>5
    <3> QED
      BY <1>2, <1>5, <3>1, <3>2 DEF Holds
  <2>5. \A d \in Client : d # c /\ Pending(d) => call[d].req # u
    BY <2>1 DEF Calls
  <2>6. \A d \in Client : d # c /\ Pending(d) =>
            (Holds(Last, call[d].req)' <=> Holds(Last, call[d].req))
    BY <1>1, <1>2, <2>4, <2>5 DEF Holds
  <2>7. Asked' = Asked /\ Seen' = [Seen EXCEPT ![c] = Seen'[c]]
    <3>1. Asked' = Asked
      BY <1>3 DEF Asked
    <3> QED
      BY <1>1, <1>3, <2>6, <3>1, OneSeen
  <2>8. Holds(Last, call[c].req)'
    BY <1>1, <1>2, <2>1, <2>4 DEF Holds
  <2>9. Asked[c] = u /\ Asked[c] # Null /\ Seen[c] = Null /\ Seen'[c] = Ok
    <3>1. Asked[c] = u /\ Seen[c] = Null
      BY <1>1, <2>1, <2>3 DEF Asked, Seen, Pending
    <3>2. Seen'[c] = Ok
      BY <1>1, <1>3, <2>1, <2>8 DEF Seen, Pending
    <3>3. u # Null
      BY <1>1, AtType, NullAssumption
    <3> QED
      BY <3>1, <3>2, <3>3
  <2>10. (table[Last])' = Apply(table[Last], u)
    BY <1>1, <1>2, <1>5
  <2>11. CASE u.op = "put"
    <3>1. (table[Last])' = [table[Last] EXCEPT ![Asked[c].key] = Asked[c].val]
      BY <2>9, <2>10, <2>11 DEF Apply
    <3>2. Promise!TakesEffect(c, [table[Last] EXCEPT ![Asked[c].key] = Asked[c].val], Ok)
      BY <2>7, <2>9, <3>1 DEF Promise!TakesEffect, Asked, Seen
    <3>3. Promise!Put(c)
      BY <2>9, <2>11, <3>2 DEF Promise!Put, Promise!Ok, Ok, Asked
    <3> QED
      BY <3>3, SomeoneMoves
  <2>12. CASE u.op = "del"
    <3>1. /\ (table[Last])' = [table[Last] EXCEPT ![Asked[c].key] = Null]
          /\ table[Last][Asked[c].key] # Null
      BY <1>1, <1>5, <2>9, <2>10, <2>12 DEF Apply
    <3>2. Promise!TakesEffect(c, [table[Last] EXCEPT ![Asked[c].key] = Null], Ok)
      BY <2>7, <2>9, <3>1 DEF Promise!TakesEffect, Asked, Seen
    <3>3. Promise!Del(c)
      BY <2>9, <2>12, <3>1, <3>2 DEF Promise!Del, Promise!Ok, Ok, Asked
    <3> QED
      BY <3>3, SomeoneMoves
  <2> QED
    BY <1>1, <2>11, <2>12
<1> QED
  BY <1>4, <1>5

\* What servers say to each other, and that an update is answered, clients
\* cannot tell: its answer is the one that the tail's absorbing it promised.
LEMMA ServerRefines ==
    ASSUME TypeOK, Shape, OneUpdate, Server # {}, NEW s \in Server,
           Forward(s) \/ ReplyIn(s) \/ Reply(s)
    PROVE  UNCHANGED Promise!vars
<1> USE DEF OneUpdate
<1>1. UNCHANGED <<znodes, table, log>>
  BY DEF Forward, ReplyIn, Reply, zkVars
<1>2. CASE Forward(s) \/ ReplyIn(s)
  <2>1. \A d \in Client : d # s /\ d \in Caller
    BY ChainAssumption DEF Caller
  <2>2. \A d \in Client : call'[d] = call[d]
    BY <1>2, <2>1 DEF Forward, ReplyIn, Send, TypeOK
  <2> QED
    BY <1>1, <2>2, NothingSeen
<1>3. CASE Reply(s)
  <2> DEFINE x == lock[s]
  <2>1. stage[s] = "ok" /\ Holds(Last, Current(s)) /\ Respond(x, Ok)
    BY <1>3, ReplyKeeps DEF Reply
  <2>2. /\ x \in Caller /\ call[x] # Null /\ call[x].answer = Null
        /\ IsUpdate(call[x].req) /\ call[x].req = Current(s)
    BY <2>1 DEF Shape, LockShape, TypeOK, Current
  <2>3. ~Dead(x)
    BY <2>2 DEF Dead, Steady
  <2>4. /\ \A y \in Caller : y # x => call'[y] = call[y]
        /\ call'[x] # Null /\ call'[x].req = call[x].req /\ call'[x].answer = Ok
    BY <2>1, <2>2, <2>3, RespondCall, AnswerTypes
  <2>5. Last' = Last /\ \A t, u : Holds(t, u)' = Holds(t, u)
    BY <1>1, LogKept
  <2>6. Ok # Null
    BY AnswerTypes, NullAssumption
  <2>7. ASSUME NEW d \in Client PROVE Asked'[d] = Asked[d] /\ Seen'[d] = Seen[d]
    <3>1. CASE d = x
      BY <2>1, <2>2, <2>4, <2>6, <3>1 DEF Asked, Seen
    <3>2. CASE d # x
      <4>1. call'[d] = call[d]
        BY <2>4, <3>2 DEF Caller
      <4> QED
        BY <2>5, <4>1 DEF Asked, Seen, Holds
    <3> QED
      BY <3>1, <3>2
  <2>8. /\ Asked = [d \in Client |-> Asked[d]] /\ Asked' = [d \in Client |-> Asked'[d]]
        /\ Seen = [d \in Client |-> Seen[d]] /\ Seen' = [d \in Client |-> Seen'[d]]
    BY DEF Asked, Seen
  <2>9. Asked' = Asked /\ Seen' = Seen
    BY <2>7, <2>8
  <2> QED
    BY <1>1, <2>5, <2>9 DEF Promise!vars, Asked, Seen
<1> QED
  BY <1>2, <1>3

LEMMA StepRefines ==
    ASSUME TypeOK, Shape, OneUpdate, Server # {}, MaxCrashes = 0, [Next]_vars
    PROVE  [Promise!Next]_(Promise!vars)
<1>1. CASE Next
  <2>1. \/ \E c \in Client : IssueUpdate(c) \/ IssueGet(c) \/ Finish(c)
        \/ \E x \in Caller, s \in Server : Begin(x, s) \/ BeginMissing(x, s) \/ Get(x, s)
        \/ \E s \in Server : Forward(s) \/ ReplyIn(s) \/ Reply(s)
    BY <1>1, SteadySteps DEF OneUpdate
  <2> QED
    BY <2>1, ClientRefines, AnswerRefines, BeginRefines, ServerRefines
<1>2. CASE UNCHANGED vars
  BY <1>2, NothingSeen DEF vars, zkVars, tableVars
<1> QED
  BY <1>1, <1>2

LEMMA InitRefines ==
    ASSUME Init, Last \in Server
    PROVE  Promise!Init
BY DEF Init, Promise!Init, EmptyTable, Caller

\* Linearizability: to the clients of a chain that nobody joins or leaves,
\* all its tables are one.  An update takes effect when the tail absorbs it,
\* though it is the head that answers it, several answers later.
THEOREM ChainLinearizable ==
    ASSUME Server = Founders, Server # {}, MaxCrashes = 0
    PROVE  Spec => Linearizable
<1>1. Init => Promise!Init
  BY InitialOneUpdate, ChainOrder, HeadIsLeast, InitRefines DEF OneUpdate
<1>2. TypeOK /\ Shape /\ OneUpdate /\ [Next]_vars => [Promise!Next]_(Promise!vars)
  BY StepRefines
<1> QED
  BY <1>1, <1>2, OneUpdateAlways, PTL DEF Spec, Linearizable, Promise!Spec

-----------------------------------------------------------------------------
(* 4. While servers start and fail one at a time: the invariant.           *)

\* Whatever changes the membership waits for the last change to be seen and
\* for the pending operations.
OneAtATime == FaultsWhenIdle /\ StartsWhenIdle /\ WhenSettled

\* next_node is what the handler would find now.
Knows(s) == next[s] = zk_closest_node(s, znodes)

AllUp == \A s \in znodes : Alive(s)

\* At most one session is about to expire.
Members ==
    /\ \A s \in Server : Alive(s) => s \in znodes
    /\ \A s \in znodes : phase[s] # "off"
    /\ \A s, t \in znodes : Alive(s) \/ Alive(t) \/ s = t
    /\ \A s \in watching \cup notified : Alive(s)
    /\ \A s \in Founders : phase[s] # "off"

Joining(s) == phase[s] \in {"registered", "listed", "fetching"}

Unlinked(s) == next[s] = Null /\ link[s] = NoLink /\ watcher[s] = "idle"

\* At most one server is starting, and nobody started after it.
Newest == \A s \in Server :
    /\ Joining(s) => \A t \in Server : phase[t] # "off" => t <= s
    /\ Joining(s) \/ ~Alive(s) => Unlinked(s)

\* A server has seen the last change or will be told of it, and while one
\* has not, no other change is due.
Told == \A s \in Server : Alive(s) =>
    /\ Knows(s) \/ (s \in notified)
    /\ phase[s] = "registered" \/ (s \in watching) \/ (s \in notified)
    /\ AllUp \/ (Knows(s) /\ watcher[s] = "idle")

\* What the handler has done so far.
Handling == \A s \in Server : Alive(s) =>
    /\ watcher[s] = "idle" => IF next[s] = Null THEN ~link[s].open
                              ELSE link[s] = [to |-> next[s], open |-> TRUE]
    /\ watcher[s] = "drop" => next[s] = Null /\ link[s].open
    /\ watcher[s] = "swap" => link[s].to # Null
    /\ watcher[s] # "idle" => Knows(s)

\* The handler disconnected this connection and did not replace it.
Leftover(s) == link[s].to # Null /\ ~link[s].open /\ watcher[s] # "connect"

\* It led to a server that went down.
OldGone == \A s \in Server :
    Alive(s) /\ (Leftover(s) \/ watcher[s] = "drop") =>
        s < link[s].to /\ phase[link[s].to] = "crashed"

\* Its owner was the tail. If it has a successor again, that one has just
\* started, and nobody else has anything to do.
Replaced == \A s \in Server :
    LET new == zk_closest_node(s, znodes)
    IN  Alive(s) /\ Leftover(s) /\ new # Null =>
            /\ AllUp
            /\ \A t \in Server \ {s} : Alive(t) => Knows(t) /\ watcher[t] = "idle"
            /\ link[s].to < new /\ new \notin Founders

Linking == Members /\ Newest /\ Told /\ Handling /\ OldGone /\ Replaced

\* Updates are on their way only while every server is linked.
Busy(x) == call[x] # Null /\ IsUpdate(call[x].req)
Calm ==
    /\ \A x \in Caller : Busy(x) => Settled /\ Alive(call[x].to)
    /\ \A s \in Server : stage[s] = "forward" => next[s] # Null

-----------------------------------------------------------------------------
(* The successor when the membership changes.                              *)

LEMMA ClosestAfterStart ==
    ASSUME NEW S, S \subseteq Server, NEW u \in Server, \A t \in S : t < u,
           NEW s \in Server, s < u
    PROVE  zk_closest_node(s, S \cup {u}) =
             IF zk_closest_node(s, S) = Null THEN u ELSE zk_closest_node(s, S)
<1> PICK old : old = zk_closest_node(s, S)
  OBVIOUS
<1> PICK new : new = zk_closest_node(s, S \cup {u})
  OBVIOUS
<1>1. \/ old = Null /\ \A t \in S : t <= s
      \/ old \in S /\ old > s /\ \A t \in S : t > s => old <= t
  BY ClosestIsNearest
<1>2. \/ new = Null /\ \A t \in S \cup {u} : t <= s
      \/ new \in S \cup {u} /\ new > s /\ \A t \in S \cup {u} : t > s => new <= t
  <2> S \cup {u} \subseteq Server
    OBVIOUS
  <2> QED
    BY ClosestIsNearest
<1>3. u \in Nat /\ s \in Nat /\ u \in Server /\ \A t \in S : t \in Nat /\ t \in Server
  BY ChainAssumption
<1>4. new # Null /\ new \in S \cup {u} /\ new > s /\ new <= u /\ new \in Nat
  <2>1. ~(u <= s) /\ u > s
    BY <1>3
  <2>2. new # Null /\ new \in S \cup {u} /\ new > s /\ new <= u
    <3>1. u \in S \cup {u}
      OBVIOUS
    <3>2. ~(new = Null /\ \A t \in S \cup {u} : t <= s)
      BY <2>1, <3>1
    <3>3. new \in S \cup {u} /\ new > s /\ \A t \in S \cup {u} : t > s => new <= t
      BY <1>2, <3>2
    <3>4. new <= u
      BY <2>1, <3>1, <3>3
    <3>5. new # Null
      BY <3>3, <1>3, NullIsNoServer
    <3> QED
      BY <3>3, <3>4, <3>5
  <2> QED
    BY <1>3, <2>2
<1>5. CASE old = Null
  BY <1>1, <1>3, <1>4, <1>5, NullIsNoServer
<1>6. CASE old # Null
  <2>1. old \in S /\ old > s /\ old \in Nat /\ old < u /\ \A t \in S : t > s => old <= t
    BY <1>1, <1>3, <1>6
  <2>2. new <= old
    BY <1>2, <1>4, <2>1
  <2>3. new \in S
    BY <1>3, <1>4, <2>1, <2>2
  <2>4. old <= new
    BY <1>4, <2>1, <2>3
  <2> QED
    BY <1>4, <1>6, <2>1, <2>2, <2>4
<1> QED
  BY <1>5, <1>6

LEMMA NoneAbove ==
    ASSUME NEW S, S \subseteq Server, NEW s \in Server, \A t \in S : t <= s
    PROVE  zk_closest_node(s, S) = Null
<1> PICK n : n = zk_closest_node(s, S)
  OBVIOUS
<1>1. \/ n = Null
      \/ n \in S /\ n > s
  BY ClosestIsNearest
<1>2. n \in S => n \in Nat /\ s \in Nat /\ n <= s
  BY ChainAssumption
<1> QED
  BY <1>1, <1>2

LEMMA ClosestAfterExpiry ==
    ASSUME NEW S, S \subseteq Server, NEW q \in Server, NEW s \in Server,
           zk_closest_node(s, S) = Null
    PROVE  zk_closest_node(s, S \ {q}) = Null
<1>1. \A t \in S : t <= s
  BY ClosestIsNearest, NullIsNoServer
<1> QED
  BY <1>1, NoneAbove

LEMMA ClosestIsMember ==
    ASSUME NEW S, S \subseteq Server, NEW s \in Server, zk_closest_node(s, S) # Null
    PROVE  zk_closest_node(s, S) \in S /\ zk_closest_node(s, S) > s
BY ClosestIsNearest

-----------------------------------------------------------------------------
(* What a step does to the links.                                          *)

\* Nothing: the handler threads, the clients, and main once it is listed.
Elsewhere ==
    /\ UNCHANGED <<znodes, notified, cause, nextVars>>
    /\ watching \subseteq watching'
    /\ watching' \subseteq watching \cup {s \in Server : Alive(s)}
    /\ \A s \in Server :
        \/ phase'[s] = phase[s]
        \/ /\ Joining(s)
           /\ phase'[s] \in {"listed", "fetching", "serving"}
           /\ phase[s] = "registered" => s \in watching'

LEMMA LinkedServer ==
    ASSUME TypeOK, Shape, Handling
    PROVE  \A s \in Server : Alive(s) /\ (Leftover(s) \/ watcher[s] = "drop") =>
                              link[s].to \in Server
<1>1. \A s \in Server : link[s].to \in Server \cup {Null}
  BY DEF TypeOK, Link
<1>2. \A s \in Server : Alive(s) /\ (Leftover(s) \/ watcher[s] = "drop") =>
                         link[s].to # Null
  BY DEF Shape, LinkShape, Leftover, Handling
<1> QED
  BY <1>1, <1>2

\* With a leftover connection and nothing to do, a server is the tail.
LEMMA LeftoverAtRest ==
    ASSUME Handling, NEW s \in Server, Alive(s), Leftover(s), watcher[s] = "idle", Knows(s)
    PROVE  next[s] = Null /\ zk_closest_node(s, znodes) = Null
<1>1. ~link[s].open
  BY DEF Leftover
<1>2. next[s] # Null => link[s] = [to |-> next[s], open |-> TRUE]
  BY DEF Handling
<1> QED
  BY <1>1, <1>2 DEF Knows

LEMMA ElsewhereLinking ==
    ASSUME TypeOK, Shape, Linking, Elsewhere
    PROVE  Linking'
<1> USE DEF Linking, nextVars
<1>1. /\ \A s \in Server : Alive(s)' = Alive(s)
      /\ \A s \in Server : (phase'[s] = "off") = (phase[s] = "off")
      /\ \A s \in Server : Joining(s)' => Joining(s)
      /\ \A s \in Server : phase'[s] = "registered" \/ s \in watching' \/
                             (phase[s] # "registered" /\ s \notin watching)
      /\ \A s \in Server : phase[s] = "crashed" => phase'[s] = "crashed"
      /\ UNCHANGED <<znodes, notified, next, link, watcher>>
  BY DEF Elsewhere, Alive, Joining
<1>2. znodes \subseteq Server
  BY DEF TypeOK
<1>3. AllUp' = AllUp
  BY <1>1, <1>2 DEF AllUp
<1>4. \A s \in Server : Knows(s)' = Knows(s) /\ Leftover(s)' = Leftover(s)
  BY <1>1 DEF Knows, Leftover
<1>5. Members'
  <2>1. watching \cup notified \subseteq Server /\ Founders \subseteq Server
    BY ChainAssumption DEF TypeOK
  <2>2. \A s \in watching' \cup notified' : s \in Server /\ Alive(s)
    BY <1>1, <2>1 DEF Elsewhere, Members
  <2> QED
    BY <1>1, <1>2, <2>1, <2>2 DEF Members
<1>6. Newest'
  BY <1>1 DEF Newest, Unlinked
<1>7. Told'
  BY <1>1, <1>3, <1>4 DEF Told
<1>8. Handling'
  BY <1>1, <1>4 DEF Handling
<1>9. OldGone'
  <2>1. \A s \in Server : Alive(s) /\ (Leftover(s) \/ watcher[s] = "drop") =>
                           link[s].to \in Server
    BY LinkedServer
  <2> QED
    BY <1>1, <1>4, <2>1 DEF OldGone
<1>10. Replaced'
  BY <1>1, <1>3, <1>4 DEF Replaced
<1> QED
  BY <1>5, <1>6, <1>7, <1>8, <1>9, <1>10

\* A server goes down when all the others are linked.
LEMMA DownLinking ==
    ASSUME TypeOK, Shape, Linking, NEW s \in Server, NEW why, Alive(s), Down(s, why),
           AllUp, \A t \in Server \ {s} : Alive(t) => Knows(t) /\ watcher[t] = "idle"
    PROVE  Linking'
<1> USE DEF Linking
<1>0. znodes \subseteq Server /\ watching \cup notified \subseteq Server
      /\ Founders \subseteq Server
  BY ChainAssumption DEF TypeOK
<1>1. /\ \A t \in Server : phase'[t] = IF t = s THEN "crashed" ELSE phase[t]
      /\ \A t \in Server : Alive(t)' = (t # s /\ Alive(t))
      /\ \A t \in Server : Joining(t)' => t # s /\ Joining(t)
      /\ znodes' = znodes /\ watching' = watching \ {s} /\ notified' = notified \ {s}
      /\ \A t \in Server \ {s} : next'[t] = next[t] /\ link'[t] = link[t] /\ watcher'[t] = watcher[t]
      /\ Unlinked(s)'
  BY DEF Down, TypeOK, Alive, Joining, Unlinked
<1>2. \A t \in Server \ {s} : Knows(t)' = Knows(t) /\ Leftover(t)' = Leftover(t)
                           /\ Unlinked(t)' = Unlinked(t)
  BY <1>1 DEF Knows, Leftover, Unlinked
<1>3. Members'
  BY <1>0, <1>1 DEF Members, AllUp
<1>4. Newest'
  <2>1. \A t \in Server : phase'[t] # "off" => t = s \/ phase[t] # "off"
    BY <1>1
  <2> QED
    <3>1. phase[s] # "off"
      BY DEF Alive
    <3>2. \A t \in Server : phase'[t] # "off" => phase[t] # "off"
      BY <2>1, <3>1
    <3>3. ASSUME NEW t \in Server PROVE Newest!(t)'
      <4>1. Joining(t)' => \A r \in Server : phase'[r] # "off" => r <= t
        BY <1>1, <3>2 DEF Newest
      <4>2. Joining(t)' \/ ~Alive(t)' => Unlinked(t)'
        BY <1>1, <1>2 DEF Newest
      <4> QED
        BY <4>1, <4>2
    <3> QED
      BY <3>3 DEF Newest
<1>5. Told'
  BY <1>1, <1>2 DEF Told
<1>6. Handling'
  BY <1>1, <1>2 DEF Handling
<1>7. OldGone'
  <2>1. ASSUME NEW t \in Server, Alive(t)', Leftover(t)' \/ watcher'[t] = "drop"
        PROVE  t < link'[t].to /\ phase'[link'[t].to] = "crashed"
    <3>1. t # s /\ Alive(t) /\ (Leftover(t) \/ watcher[t] = "drop") /\ link'[t] = link[t]
      BY <1>1, <1>2, <2>1
    <3>2. t < link[t].to /\ phase[link[t].to] = "crashed" /\ link[t].to \in Server
      BY <3>1, LinkedServer DEF OldGone
    <3> QED
      BY <1>1, <3>1, <3>2
  <2> QED
    BY <2>1 DEF OldGone
<1>8. Replaced'
  <2>1. ASSUME NEW t \in Server, t # s, Alive(t), Leftover(t)
        PROVE  zk_closest_node(t, znodes) = Null
    BY <2>1, LeftoverAtRest
  <2> QED
    BY <1>1, <1>2, <2>1 DEF Replaced
<1> QED
  BY <1>3, <1>4, <1>5, <1>6, <1>7, <1>8

LEMMA SettledLinks ==
    ASSUME TypeOK, Linking, Settled
    PROVE  /\ AllUp
           /\ \A s \in Server : Alive(s) => Knows(s) /\ watcher[s] = "idle"
           /\ \A s \in Serving : Linked(s)
<1>1. AllUp
  BY DEF AllUp, TypeOK, Linking, Members, Settled, Alive
<1>2. \A s \in Server : Alive(s) => Knows(s) /\ watcher[s] = "idle"
  BY DEF Linking, Told, Settled
<1>3. \A s \in Serving : Linked(s)
  BY <1>2 DEF Linking, Handling, Linked, Knows, Serving, Alive
<1> QED
  BY <1>1, <1>2, <1>3

LEMMA CrashLinking ==
    ASSUME TypeOK, Shape, Linking, OneAtATime, NEW s \in Server,
           Crash(s) \/ DoubleDisconnect(s)
    PROVE  Linking'
<1>1. CASE Crash(s)
  BY <1>1, SettledLinks, DownLinking DEF Crash, OneAtATime
<1>2. CASE DoubleDisconnect(s)
  <2>1. Alive(s) /\ Leftover(s) /\ zk_closest_node(s, znodes) # Null
    <3>1. Alive(s) /\ Leftover(s)
      BY <1>2 DEF DoubleDisconnect, Linking, Newest, Unlinked, Leftover
    <3>2. watcher[s] = "swap"
      BY <1>2, <3>1 DEF DoubleDisconnect, Linking, Handling
    <3>3. Knows(s) /\ next[s] # Null
      BY <3>1, <3>2 DEF Linking, Handling, Shape, LinkShape
    <3> QED
      BY <3>1, <3>3 DEF Knows
  <2>2. AllUp /\ \A t \in Server \ {s} : Alive(t) => Knows(t) /\ watcher[t] = "idle"
    BY <2>1 DEF Linking, Replaced
  <2> QED
    BY <1>2, <2>1, <2>2, DownLinking DEF DoubleDisconnect
<1> QED
  BY <1>1, <1>2

LEMMA ExpireLinking ==
    ASSUME TypeOK, Shape, Linking, NEW q \in Server, Expire(q)
    PROVE  Linking'
<1> USE DEF Linking
<1>0. znodes \subseteq Server /\ watching \cup notified \subseteq Server
      /\ Founders \subseteq Server
  BY ChainAssumption DEF TypeOK
<1>1. /\ phase[q] = "crashed" /\ q \in znodes
      /\ znodes' = znodes \ {q} /\ watching' = {} /\ notified' = notified \cup watching
      /\ UNCHANGED <<phase, next, link, watcher>>
  BY DEF Expire, FireWatches, mainVars, nextVars
<1>2. \A s \in Server : /\ Alive(s)' = Alive(s) /\ Joining(s)' = Joining(s)
                       /\ Unlinked(s)' = Unlinked(s) /\ Leftover(s)' = Leftover(s)
  BY <1>1 DEF Alive, Joining, Unlinked, Leftover
<1>3. ~AllUp /\ AllUp'
  <2>1. ~Alive(q)
    BY <1>1 DEF Alive
  <2>2. \A s \in znodes \ {q} : Alive(s)
    BY <1>1, <2>1 DEF Members
  <2> QED
    BY <1>0, <1>1, <1>2, <2>1, <2>2 DEF AllUp
<1>4. \A s \in Server : Alive(s) => Knows(s) /\ watcher[s] = "idle"
  BY <1>3 DEF Told
<1>5. Members'
  BY <1>0, <1>1, <1>2 DEF Members, Alive
<1>6. Newest'
  BY <1>1, <1>2 DEF Newest
<1>7. Told'
  <2>1. ASSUME NEW s \in Server, Alive(s), s \notin watching \cup notified
        PROVE  phase[s] = "registered" /\ Knows(s)'
    <3>1. phase[s] = "registered"
      BY <2>1 DEF Told
    <3>2. \A t \in znodes : t <= s
      BY <1>0, <3>1 DEF Newest, Joining, Members
    <3>3. zk_closest_node(s, znodes) = Null /\ zk_closest_node(s, znodes') = Null
      BY <1>0, <1>1, <3>2, NoneAbove, ClosestAfterExpiry
    <3> QED
      BY <1>1, <1>4, <2>1, <3>1, <3>3 DEF Knows
  <2> QED
    BY <1>1, <1>2, <1>3, <2>1 DEF Told
<1>8. Handling'
  BY <1>1, <1>2, <1>4 DEF Handling
<1>9. OldGone'
  BY <1>1, <1>2 DEF OldGone
<1>10. Replaced'
  <2>1. ASSUME NEW s \in Server, Alive(s), Leftover(s)
        PROVE  zk_closest_node(s, znodes') = Null
    BY <1>0, <1>1, <1>4, <2>1, LeftoverAtRest, ClosestAfterExpiry
  <2> QED
    BY <1>2, <2>1 DEF Replaced
<1> QED
  BY <1>5, <1>6, <1>7, <1>8, <1>9, <1>10

LEMMA RegisterLinking ==
    ASSUME TypeOK, Shape, Linking, OneAtATime, NEW u \in Server, Register(u)
    PROVE  Linking'
<1> USE DEF Linking
<1>0. znodes \subseteq Server /\ watching \cup notified \subseteq Server
      /\ Founders \subseteq Server
  BY ChainAssumption DEF TypeOK
<1>1. /\ phase[u] = "off" /\ Settled
      /\ znodes' = znodes \cup {u} /\ watching' = {} /\ notified' = notified \cup watching
      /\ \A s \in Server : phase'[s] = IF s = u THEN "registered" ELSE phase[s]
      /\ \A s \in Server : phase[s] # "off" => s < u
      /\ UNCHANGED <<next, link, watcher>>
  <2>1. \A s \in Server : phase[s] = "off" <=> s >= u
    BY DEF Register
  <2>2. \A s \in Server : s \in Nat
    BY ChainAssumption
  <2>3. \A s \in Server : phase[s] # "off" => s < u
    BY <2>1, <2>2
  <2> QED
    BY <2>3 DEF Register, FireWatches, nextVars, OneAtATime, TypeOK
<1>2. /\ \A s \in Server : Alive(s)' = (s = u \/ Alive(s))
      /\ \A s \in Server : ~(s # u /\ Joining(s)) /\ (Joining(s)' = (s = u))
      /\ \A s \in Server : Unlinked(s)' = Unlinked(s) /\ Leftover(s)' = Leftover(s)
      /\ ~Alive(u) /\ Unlinked(u) /\ ~Leftover(u)
  <2>1. ~Alive(u) /\ Unlinked(u)
    BY <1>1 DEF Alive, Newest
  <2>2. ~Leftover(u)
    BY <2>1 DEF Unlinked, Leftover, NoLink
  <2>3. \A s \in Server : ~(s # u /\ Joining(s))
    BY <1>1 DEF Settled, Alive, Joining
  <2> QED
    BY <1>1, <2>1, <2>2, <2>3 DEF Alive, Joining, Unlinked, Leftover
<1>3. AllUp /\ AllUp' /\ \A s \in Server : Alive(s) => Knows(s) /\ watcher[s] = "idle"
  BY <1>0, <1>1, <1>2, SettledLinks DEF AllUp
<1>4. \A t \in znodes : t < u
  BY <1>0, <1>1 DEF Members
<1>5. Knows(u)'
  <2>1. \A t \in znodes \cup {u} : t <= u
    BY <1>0, <1>4, ChainAssumption
  <2>2. zk_closest_node(u, znodes') = Null
    BY <1>0, <1>1, <2>1, NoneAbove
  <2> QED
    BY <1>1, <1>2, <2>2 DEF Knows, Unlinked
<1>6. Members'
  BY <1>0, <1>1, <1>2, <1>3 DEF Members, AllUp
<1>7. Newest'
  <2>1. \A s \in Server : phase'[s] # "off" => s <= u
    BY <1>1, ChainAssumption
  <2> QED
    BY <1>1, <1>2, <2>1 DEF Newest
<1>8. Told'
  <2>1. ASSUME NEW s \in Server, Alive(s) PROVE s \in notified'
    <3>1. phase[s] # "registered"
      BY <1>1, <2>1 DEF Settled
    <3> QED
      BY <1>1, <2>1, <3>1 DEF Told
  <2>2. phase'[u] = "registered"
    BY <1>1
  <2> QED
    BY <1>2, <1>3, <1>5, <2>1, <2>2 DEF Told
<1>9. Handling'
  <2>1. ASSUME NEW s \in Server, s # u PROVE Handling!(s)'
    BY <1>1, <1>2, <1>3, <2>1 DEF Handling
  <2>2. Handling!(u)'
    BY <1>1, <1>2 DEF Unlinked, NoLink
  <2> QED
    BY <2>1, <2>2 DEF Handling
<1>10. OldGone'
  BY <1>1, <1>2, LinkedServer DEF OldGone, Unlinked
<1>11. Replaced'
  <2> SUFFICES ASSUME NEW s \in Server, Alive(s)', Leftover(s)'
               PROVE  Replaced!(s)'
    BY DEF Replaced
  <2>1. s # u /\ Alive(s) /\ Leftover(s) /\ s < u /\ s \in znodes
    BY <1>1, <1>2 DEF Alive, Members
  <2>2. zk_closest_node(s, znodes) = Null /\ \A t \in znodes : t <= s
    BY <1>0, <1>3, <2>1, LeftoverAtRest, ClosestIsNearest, NullIsNoServer
  <2>3. zk_closest_node(s, znodes') = u
    BY <1>0, <1>1, <1>4, <2>1, <2>2, ClosestAfterStart
  <2>4. link[s].to \in Server /\ link[s].to < u
    BY <1>1, <2>1, LinkedServer DEF OldGone
  <2>5. u \notin Founders
    BY <1>1 DEF Members
  <2>6. ASSUME NEW t \in Server, t # s, t # u, Alive(t)
        PROVE  Knows(t)' /\ watcher'[t] = "idle"
    <3>1. t \in znodes /\ t < u /\ t <= s /\ t \in Nat /\ s \in Nat
      BY <1>4, <2>2, <2>6, ChainAssumption DEF Members
    <3>2. ~(s <= t)
      BY <2>6, <3>1
    <3>3. zk_closest_node(t, znodes) # Null
      BY <1>0, <2>1, <3>2, ClosestIsNearest, NullIsNoServer
    <3>4. zk_closest_node(t, znodes') = zk_closest_node(t, znodes)
      BY <1>0, <1>1, <1>4, <3>1, <3>3, ClosestAfterStart
    <3> QED
      BY <1>1, <1>3, <2>6, <3>4 DEF Knows
  <2> QED
    BY <1>1, <1>2, <1>3, <1>5, <2>3, <2>4, <2>5, <2>6 DEF Unlinked
<1> QED
  BY <1>6, <1>7, <1>8, <1>9, <1>10, <1>11

LEMMA NoticeLinking ==
    ASSUME TypeOK, Shape, NextIsClosest, Started, Linking, NEW s \in Server, Notice(s)
    PROVE  Linking'
<1> USE DEF Linking
<1> PICK new : new = zk_closest_node(s, znodes)
  OBVIOUS
<1>0. znodes \subseteq Server /\ watching \cup notified \subseteq Server
      /\ Founders \subseteq Server /\ s \in notified /\ watcher[s] = "idle"
  BY ChainAssumption DEF TypeOK, Notice
<1>1. /\ next' = [next EXCEPT ![s] = new]
      /\ watcher' = [watcher EXCEPT ![s] =
                         IF new = next[s] THEN "idle"
                         ELSE IF new = Null THEN "drop"
                         ELSE IF link[s].to = Null THEN "connect" ELSE "swap"]
      /\ watching' = watching \cup {s} /\ notified' = notified \ {s}
      /\ UNCHANGED <<znodes, phase, link>>
  BY DEF Notice, mainVars
<1>2. /\ Alive(s)
      /\ \A t \in Server : Alive(t)' = Alive(t) /\ Joining(t)' = Joining(t)
      /\ AllUp' = AllUp
  BY <1>0, <1>1 DEF Alive, Joining, Members, AllUp
<1>3. /\ next'[s] = new /\ Knows(s)'
      /\ watcher'[s] = IF new = next[s] THEN "idle"
                       ELSE IF new = Null THEN "drop"
                       ELSE IF link[s].to = Null THEN "connect" ELSE "swap"
      /\ \A t \in Server \ {s} : /\ next'[t] = next[t] /\ watcher'[t] = watcher[t]
                              /\ Knows(t)' = Knows(t) /\ Leftover(t)' = Leftover(t)
                              /\ Unlinked(t)' = Unlinked(t)
  BY <1>1 DEF TypeOK, Knows, Leftover, Unlinked
<1>4. Members'
  BY <1>0, <1>1, <1>2 DEF Members
<1>5. Newest'
  <2>1. ASSUME Joining(s) PROVE Unlinked(s)'
    <3>1. \A t \in znodes : t <= s
      BY <1>0, <2>1 DEF Newest, Members
    <3>2. new = Null
      BY <1>0, <3>1, NoneAbove
    <3> QED
      BY <1>1, <1>3, <2>1, <3>2 DEF Newest, Unlinked
  <2> QED
    BY <1>1, <1>2, <1>3, <2>1 DEF Newest
<1>6. Told'
  <2>1. new # next[s] => AllUp
    BY <1>2 DEF Told, Knows
  <2> QED
    BY <1>0, <1>1, <1>2, <1>3, <2>1 DEF Told
<1>7. Handling'
  <2>1. ASSUME NEW t \in Server, t # s PROVE Handling!(t)'
    BY <1>1, <1>2, <1>3, <2>1 DEF Handling
  <2>2. next[s] # Null => link[s] = [to |-> next[s], open |-> TRUE]
    BY <1>0, <1>2 DEF Handling
  <2>3. CASE new = next[s]
    BY <1>0, <1>1, <1>2, <1>3, <2>3, <2>1 DEF Handling
  <2>4. CASE new # next[s]
    <3>1. Handling!(s)'
      BY <1>1, <1>3, <2>2, <2>4
    <3> QED
      BY <2>1, <3>1 DEF Handling
  <2> QED
    BY <2>3, <2>4
<1>8. OldGone'
  <2>1. ASSUME watcher'[s] = "drop"
        PROVE  s < link[s].to /\ phase[link[s].to] = "crashed"
    <3>1. new = Null /\ next[s] # Null
      BY <1>3, <2>1
    <3>2. link[s].to = next[s] /\ next[s] \in Server
      BY <1>0, <1>2, <3>1 DEF Handling, TypeOK
    <3>3. next[s] > s /\ phase[next[s]] # "off"
      BY <3>1 DEF NextIsClosest, Started
    <3>4. next[s] \notin znodes
      <4>1. \A t \in znodes : t <= s
        <5>1. \/ new = Null /\ \A t \in znodes : t <= s
              \/ new \in znodes
          BY <1>0, ClosestIsNearest
        <5> QED
          BY <1>0, <3>1, <5>1, NullIsNoServer
      <4>2. ~(next[s] <= s)
        <5>1. next[s] \in Nat /\ s \in Nat
          BY <3>2, ChainAssumption
        <5> QED
          BY <3>3, <5>1
      <4> QED
        BY <4>1, <4>2
    <3>5. ~Alive(next[s])
      BY <3>2, <3>4 DEF Members
    <3>6. s < next[s]
      BY <3>2, <3>3, ChainAssumption
    <3> QED
      BY <3>2, <3>3, <3>5, <3>6 DEF Alive
  <2>2. Leftover(s)' => Leftover(s)
    BY <1>0, <1>1 DEF Leftover
  <2>3. ASSUME NEW t \in Server, Alive(t), Leftover(t)' \/ watcher'[t] = "drop"
        PROVE  t < link[t].to /\ phase[link[t].to] = "crashed"
    BY <1>1, <1>2, <1>3, <2>1, <2>2, <2>3 DEF OldGone
  <2> QED
    BY <1>1, <1>2, <2>3 DEF OldGone
<1>9. Replaced'
  <2> SUFFICES ASSUME NEW t \in Server, Alive(t), Leftover(t)', zk_closest_node(t, znodes) # Null
               PROVE  Replaced!(t)'
    BY <1>1, <1>2 DEF Replaced
  <2>1. Leftover(t)
    BY <1>0, <1>1, <1>3 DEF Leftover
  <2>2. /\ AllUp /\ link[t].to < zk_closest_node(t, znodes)
        /\ zk_closest_node(t, znodes) \notin Founders
        /\ \A r \in Server \ {t} : Alive(r) => Knows(r) /\ watcher[r] = "idle"
    BY <2>1 DEF Replaced
  <2>3. t # s => new = next[s]
    BY <1>2, <2>2 DEF Knows
  <2>4. \A r \in Server \ {t} : Alive(r) => Knows(r)' /\ watcher'[r] = "idle"
    BY <1>3, <2>2, <2>3
  <2> QED
    BY <1>1, <1>2, <2>2, <2>4
<1> QED
  BY <1>4, <1>5, <1>6, <1>7, <1>8, <1>9

LEMMA DisconnectLinking ==
    ASSUME TypeOK, Shape, Linking, NEW s \in Server, Disconnect(s) \/ Connect(s)
    PROVE  Linking'
<1> USE DEF Linking
<1>0. znodes \subseteq Server /\ watching \cup notified \subseteq Server
      /\ Founders \subseteq Server
  BY ChainAssumption DEF TypeOK
<1>1. /\ watcher[s] # "idle" /\ Alive(s)
      /\ UNCHANGED <<znodes, watching, notified, phase, next>>
      /\ \A t \in Server \ {s} : link'[t] = link[t] /\ watcher'[t] = watcher[t]
  <2>1. watcher[s] # "idle"
    BY DEF Disconnect, Connect
  <2> QED
    BY <2>1 DEF Disconnect, Connect, Newest, Unlinked, zkVars, mainVars, TypeOK
<1>2. /\ \A t \in Server : Alive(t)' = Alive(t) /\ Joining(t)' = Joining(t)
                          /\ Knows(t)' = Knows(t)
      /\ AllUp' = AllUp
      /\ \A t \in Server \ {s} : Leftover(t)' = Leftover(t) /\ Unlinked(t)' = Unlinked(t)
  BY <1>0, <1>1 DEF Alive, Joining, Knows, AllUp, Leftover, Unlinked
<1>3. AllUp /\ Knows(s) /\ ~Joining(s)
  BY <1>1 DEF Told, Handling, Newest, Unlinked
<1>4. \/ /\ watcher[s] = "swap" /\ watcher'[s] = "connect"
         /\ next[s] # Null
      \/ /\ watcher[s] = "drop" /\ watcher'[s] = "idle" /\ next[s] = Null
         /\ link'[s].to = link[s].to /\ ~link'[s].open
      \/ /\ watcher[s] = "connect" /\ watcher'[s] = "idle"
         /\ next[s] # Null /\ link'[s] = [to |-> next[s], open |-> TRUE]
  <2>1. CASE Disconnect(s)
    <3>1. link'[s] = [link[s] EXCEPT !.open = FALSE] /\ link[s] \in Link
      BY <2>1 DEF Disconnect, TypeOK
    <3>2. link'[s].to = link[s].to /\ ~link'[s].open
      BY <3>1 DEF Link
    <3>3. /\ watcher[s] \in {"swap", "drop"}
          /\ watcher'[s] = IF watcher[s] = "swap" THEN "connect" ELSE "idle"
      BY <2>1 DEF Disconnect, TypeOK
    <3> QED
      BY <1>1, <3>2, <3>3 DEF Handling, Shape, LinkShape
  <2>2. CASE Connect(s)
    <3>1. next[s] # Null /\ watcher[s] = "connect"
      BY <2>2 DEF Connect, Shape, LinkShape
    <3>2. next[s] \in znodes
      BY <1>0, <1>3, <3>1, ClosestIsMember DEF Knows
    <3>3. Alive(next[s])
      BY <1>3, <3>2 DEF AllUp
    <3> QED
      BY <2>2, <3>1, <3>3 DEF Connect, TypeOK
  <2> QED
    BY <2>1, <2>2
<1>5. Members'
  BY <1>0, <1>1, <1>2 DEF Members
<1>6. Newest'
  BY <1>1, <1>2, <1>3 DEF Newest
<1>7. Told'
  BY <1>1, <1>2, <1>3 DEF Told
<1>8. Handling'
  <2>1. ASSUME NEW t \in Server, t # s PROVE Handling!(t)'
    BY <1>1, <1>2, <2>1 DEF Handling
  <2>2. Handling!(s)'
    BY <1>1, <1>2, <1>3, <1>4
  <2> QED
    BY <2>1, <2>2 DEF Handling
<1>9. OldGone'
  <2>1. ASSUME NEW t \in Server, t # s PROVE OldGone!(t)'
    BY <1>1, <1>2, <2>1 DEF OldGone
  <2>2. OldGone!(s)'
    BY <1>1, <1>4 DEF OldGone, Leftover
  <2> QED
    BY <2>1, <2>2 DEF OldGone
<1>10. Replaced'
  <2>1. ASSUME NEW t \in Server, t # s PROVE Replaced!(t)'
    BY <1>1, <1>2, <2>1 DEF Replaced
  <2>2. Replaced!(s)'
    BY <1>1, <1>2, <1>3, <1>4 DEF Leftover, Knows
  <2> QED
    BY <2>1, <2>2 DEF Replaced
<1> QED
  BY <1>5, <1>6, <1>7, <1>8, <1>9, <1>10

-----------------------------------------------------------------------------
(* Which steps there are.                                                  *)

\* A step that is nobody's start, failure or change of successor.
LEMMA SteadyHandlers ==
    ASSUME TypeOK, Shape, Linking, Calm, NEW s \in Server
    PROVE  ~ForwardLost(s) /\ ~PeerLost(s) /\ ~ListNothingBelow(s)
<1> USE DEF Linking
<1>0. znodes \subseteq Server
  BY DEF TypeOK
<1>1. ~ForwardLost(s)
  <2> SUFFICES ASSUME stage[s] = "forward"
               PROVE  link[s].open /\ Alive(link[s].to)
    BY DEF ForwardLost
  <2>1. s \in Serving /\ lock[s] \in Caller /\ Busy(lock[s])
    BY DEF Shape, LockShape, Serving, Busy, TypeOK
  <2>2. Settled /\ next[s] # Null
    BY <2>1 DEF Calm
  <2>3. AllUp /\ Linked(s)
    BY <2>1, <2>2, SettledLinks
  <2>4. next[s] \in znodes
    BY <1>0, <2>1, <2>2, <2>3, ClosestIsMember DEF Linked, Serving
  <2> QED
    BY <2>2, <2>3, <2>4 DEF Linked, AllUp
<1>2. ~PeerLost(s)
  <2> SUFFICES ASSUME stage[s] = "wait" PROVE Alive(call[s].to)
    BY DEF PeerLost
  <2>1. s \in Caller /\ call[s] # Null /\ call[s].req = Current(s) /\ IsUpdate(Current(s))
    BY DEF Shape, LockShape, CallShape, Current, Caller
  <2> QED
    BY <2>1 DEF Calm, Busy
<1>3. ~ListNothingBelow(s)
  <2> SUFFICES ASSUME phase[s] = "registered", get_second_highest_id(znodes, s) = Null
               PROVE  ~(Cardinality(znodes) > 1)
    BY DEF ListNothingBelow
  <2>1. s \in znodes /\ \A t \in znodes : t <= s
    BY <1>0 DEF Members, Newest, Joining, Alive
  <2>2. \A t \in znodes : ~(t < s)
    <3> DEFINE B == {t \in znodes : t < s}
    <3>1. B # {} => zk_get_tail(B) \in Server
      BY <1>0, TailIsGreatest
    <3>2. B # {} => get_second_highest_id(znodes, s) \in Server
      BY <3>1 DEF get_second_highest_id
    <3> QED
      BY <3>2, NullIsNoServer
  <2>3. znodes = {s}
    <3>1. ASSUME NEW t \in znodes PROVE t = s
      <4>1. t \in Nat /\ s \in Nat /\ t <= s /\ ~(t < s)
        BY <1>0, <2>1, <2>2, ChainAssumption
      <4> QED
        BY <4>1
    <3> QED
      BY <2>1, <3>1
  <2> QED
    BY <2>3, FS_Singleton
<1> QED
  BY <1>1, <1>2, <1>3

LEMMA LinkingStep ==
    ASSUME TypeOK, Shape, NextIsClosest, Started, Linking, Calm, OneAtATime, [Next]_vars
    PROVE  Linking'
<1> USE DEF zkVars, mainVars, nextVars, tableVars, history
<1>1. ASSUME NEW c \in Client, IssueUpdate(c) \/ IssueGet(c) \/ Finish(c) \/ ClientLost(c)
      PROVE  Elsewhere
  BY <1>1 DEF IssueUpdate, IssueGet, Finish, ClientLost, Elsewhere
<1>2. ASSUME NEW x \in Caller, AnswerLost(x) PROVE Elsewhere
  BY <1>2 DEF AnswerLost, Elsewhere
<1>3. ASSUME NEW s \in Server, Handler(s) PROVE Elsewhere
  BY <1>3, SteadyHandlers DEF Handler, Begin, BeginMissing, Get, GetTable, Forward, ReplyIn,
                              Reply, Elsewhere
<1>4. ASSUME NEW s \in Server, Main(s) PROVE Elsewhere
  <2>1. /\ UNCHANGED <<znodes, notified, cause, nextVars>>
        /\ \/ phase[s] \in {"listed", "fetching"} /\ UNCHANGED watching
           \/ phase[s] = "registered" /\ watching' = watching \cup {s}
        /\ \E p \in {"listed", "fetching", "serving"} : phase' = [phase EXCEPT ![s] = p]
    BY <1>4, SteadyHandlers DEF Main, List, Fetch, Fill, FetchLost
  <2> QED
    BY <2>1 DEF Elsewhere, Joining, Alive, TypeOK
<1>5. ASSUME UNCHANGED vars PROVE Elsewhere
  BY <1>5 DEF vars, Elsewhere
<1> QED
  BY <1>1, <1>2, <1>3, <1>4, <1>5, ElsewhereLinking, CrashLinking, ExpireLinking,
     RegisterLinking, NoticeLinking, DisconnectLinking DEF Next, Watcher

-----------------------------------------------------------------------------
(* Updates and changes of the membership do not meet.                      *)

\* While an update is on its way, only handlers and clients take steps.
LEMMA BusyBlocks ==
    ASSUME TypeOK, Shape, Linking, Calm, OneAtATime, NEW y \in Caller, Busy(y)
    PROVE  \A s \in Server :
              ~Main(s) /\ ~Watcher(s) /\ ~Register(s) /\ ~Crash(s) /\ ~Expire(s)
<1> SUFFICES ASSUME NEW s \in Server
             PROVE  ~Main(s) /\ ~Watcher(s) /\ ~Register(s) /\ ~Crash(s) /\ ~Expire(s)
  OBVIOUS
<1>1. Settled /\ ~NoPendingOps
  BY DEF Calm, Busy, NoPendingOps, IsUpdate
<1>2. phase[s] \notin {"registered", "listed", "fetching"} /\ ~(phase[s] = "crashed" /\ s \in znodes)
  BY <1>1 DEF Settled, Alive
<1>3. s \notin notified /\ watcher[s] = "idle"
  BY <1>1 DEF Settled, Linking, Members, Newest, Unlinked
<1> QED
  BY <1>1, <1>2, <1>3
     DEF Main, List, ListNothingBelow, Fetch, Fill, FetchLost, Watcher, Notice, Disconnect,
         DoubleDisconnect, Connect, Register, Crash, Expire, OneAtATime

LEMMA BusyStays ==
    ASSUME TypeOK, Shape, Linking, Calm, OneAtATime, Next, NEW y \in Caller, Busy(y)
    PROVE  UNCHANGED <<zkVars, mainVars, nextVars>>
<1>1. ASSUME NEW s \in Server, Handler(s) PROVE UNCHANGED <<zkVars, mainVars, nextVars>>
  BY <1>1, SteadyHandlers DEF Handler, Begin, BeginMissing, Get, GetTable, Forward, ReplyIn, Reply
<1> QED
  BY <1>1, BusyBlocks DEF Next, IssueUpdate, IssueGet, Finish, ClientLost, AnswerLost

\* An update is on its way because it was before, a client has sent it to
\* the head, or a server that works on it has sent it on.
LEMMA WhoIsBusy ==
    ASSUME TypeOK, Shape, Linking, Calm, OneAtATime, Next, NEW x \in Caller, Busy(x)'
    PROVE  \/ Busy(x) /\ call'[x].to = call[x].to
           \/ /\ Settled /\ UNCHANGED <<zkVars, mainVars, nextVars>>
              /\ call'[x].to \in Server /\ Alive(call'[x].to)
<1> DEFINE Goal == \/ Busy(x) /\ call'[x].to = call[x].to
                   \/ /\ Settled /\ UNCHANGED <<zkVars, mainVars, nextVars>>
                      /\ call'[x].to \in Server /\ Alive(call'[x].to)
<1>0. call'[x] # Null /\ IsUpdate(call'[x].req) /\ \A s \in Server : s \in Caller
  BY DEF Busy, Caller
<1>1. ASSUME call'[x] = call[x] PROVE Goal
  BY <1>0, <1>1 DEF Busy
<1>2. ASSUME NEW y \in Caller, call[y] # Null, NEW a, Respond(y, a) PROVE Goal
  <2>1. call[y] \in Call /\ (y # x => call'[x] = call[x])
    BY <1>2 DEF Respond, TypeOK
  <2>2. y = x => call'[x] = [call[x] EXCEPT !.answer = a]
    BY <1>0, <1>2 DEF Respond, TypeOK
  <2>3. y = x => call'[x].to = call[x].to /\ call'[x].req = call[x].req
    BY <2>1, <2>2 DEF Call
  <2> QED
    BY <1>0, <1>1, <1>2, <2>1, <2>3 DEF Busy
<1>3. ASSUME NEW c \in Client, IssueUpdate(c) \/ IssueGet(c) \/ Finish(c) \/ ClientLost(c)
      PROVE  Goal
  <2>1. c \in Caller
    BY DEF Caller
  <2>2. CASE c # x
    BY <1>1, <1>3, <2>1, <2>2 DEF IssueUpdate, IssueGet, Finish, ClientLost, Send, TypeOK
  <2>3. CASE c = x /\ IssueUpdate(c)
    <3>1. zk_get_head(znodes) \in Server /\ call'[x].to = zk_get_head(znodes)
      <4>1. znodes \subseteq Server /\ znodes # {}
        BY <2>3 DEF IssueUpdate, TypeOK
      <4>2. zk_get_head(znodes) \in Server
        BY <4>1, HeadIsLeast
      <4>3. call'[x].to = zk_get_head(znodes)
        BY <2>1, <2>3 DEF IssueUpdate, Send, TypeOK
      <4> QED
        BY <4>2, <4>3
    <3> QED
      BY <2>3, <3>1 DEF IssueUpdate, OneAtATime
  <2>4. CASE c = x /\ ~IssueUpdate(c)
    BY <1>0, <1>3, <2>1, <2>4 DEF IssueGet, Finish, ClientLost, Send, TypeOK, IsUpdate
  <2> QED
    BY <2>2, <2>3, <2>4
<1>4. ASSUME NEW y \in Caller, AnswerLost(y) PROVE Goal
  <2>1. call[y] # Null /\ call[y] \in Call /\ call' = [call EXCEPT ![y].answer = Null]
    BY <1>4 DEF AnswerLost, TypeOK
  <2>2. y # x => call'[x] = call[x]
    BY <2>1 DEF TypeOK
  <2>3. y = x => call'[x] = [call[x] EXCEPT !.answer = Null]
    BY <2>1 DEF TypeOK
  <2>4. y = x => call'[x].to = call[x].to /\ call'[x].req = call[x].req
    BY <2>1, <2>3 DEF Call
  <2> QED
    BY <1>0, <1>1, <2>1, <2>2, <2>4 DEF Busy
<1>5. ASSUME NEW s \in Server, NEW why, Down(s, why) PROVE Goal
  BY <1>0, <1>1, <1>5 DEF Down, CallsWithout
<1>6. ASSUME NEW s \in Server, Handler(s) PROVE Goal
  <2>1. ASSUME NEW y \in Caller, BeginMissing(y, s) \/ Get(y, s) \/ GetTable(y, s) PROVE Goal
    BY <1>2, <2>1 DEF BeginMissing, Get, GetTable, At
  <2>2. ASSUME NEW y \in Caller, Begin(y, s) PROVE Goal
    BY <1>1, <2>2 DEF Begin
  <2>3. CASE Forward(s)
    <3>1. CASE call'[x] = call[x]
      BY <1>1, <3>1
    <3>2. CASE call'[x] # call[x]
      <4>1. x = s /\ Alive(link[s].to) /\ link[s].to # Null /\ call'[x].to = link[s].to
        BY <1>0, <2>3, <3>2 DEF Forward, Send, TypeOK, Shape, LinkShape
      <4>2. lock[s] \in Caller /\ Busy(lock[s])
        BY <2>3 DEF Forward, Shape, LockShape, Busy, TypeOK
      <4>3. link[s].to \in Server
        BY <4>1 DEF TypeOK, Link
      <4> QED
        BY <2>3, <4>1, <4>2, <4>3 DEF Calm, Forward
    <3> QED
      BY <3>1, <3>2
  <2>4. CASE ReplyIn(s)
    BY <1>0, <1>1, <2>4 DEF ReplyIn, TypeOK
  <2>5. CASE Reply(s)
    <3>1. lock[s] \in Caller /\ call[lock[s]] # Null
      BY <2>5 DEF Reply, Shape, LockShape, TypeOK
    <3> QED
      BY <1>2, <2>5, <3>1 DEF Reply
  <2> QED
    BY <1>6, <2>1, <2>2, <2>3, <2>4, <2>5, SteadyHandlers DEF Handler
<1>7. ASSUME NEW s \in Server, Main(s) PROVE Goal
  BY <1>0, <1>1, <1>7, SteadyHandlers DEF Main, List, Fetch, Fill, FetchLost, Send, IsUpdate, TypeOK
<1>8. ASSUME NEW s \in Server, Watcher(s) \/ Register(s) \/ Crash(s) \/ Expire(s) PROVE Goal
  BY <1>1, <1>5, <1>8 DEF Watcher, Notice, Disconnect, DoubleDisconnect, Connect, Register,
                          Crash, Expire
<1> QED
  BY <1>3, <1>4, <1>6, <1>7, <1>8 DEF Next

LEMMA OnlyBeginForwards ==
    ASSUME TypeOK, Shape, Linking, Calm, Next, NEW s \in Server,
           stage[s] # "forward", stage'[s] = "forward"
    PROVE  \E x \in Caller : Begin(x, s)
<1> USE DEF zkVars, mainVars, nextVars, tableVars, history
<1>1. ASSUME UNCHANGED stage PROVE FALSE
  BY <1>1
<1>2. ASSUME NEW t \in Server, NEW why, Down(t, why) PROVE FALSE
  BY <1>2 DEF Down, TypeOK
<1>3. ASSUME NEW t \in Server, Handler(t) PROVE \E x \in Caller : Begin(x, s)
  <2>1. ASSUME NEW y \in Caller, BeginMissing(y, t) \/ Get(y, t) \/ GetTable(y, t) PROVE FALSE
    BY <2>1 DEF BeginMissing, Get, GetTable
  <2>2. ASSUME NEW y \in Caller, Begin(y, t) PROVE \E x \in Caller : Begin(x, s)
    BY <2>2 DEF Begin, TypeOK
  <2>3. ASSUME Forward(t) \/ ReplyIn(t) \/ Reply(t) PROVE FALSE
    BY <2>3 DEF Forward, ReplyIn, Reply, TypeOK
  <2> QED
    BY <1>3, <2>1, <2>2, <2>3, SteadyHandlers DEF Handler
<1>4. ASSUME NEW t \in Server, Main(t) \/ Watcher(t) \/ Register(t) \/ Crash(t) \/ Expire(t)
      PROVE  FALSE
  BY <1>1, <1>2, <1>4, SteadyHandlers
     DEF Main, List, Fetch, Fill, FetchLost, Watcher, Notice, Disconnect, DoubleDisconnect,
         Connect, Register, Crash, Expire
<1>5. ASSUME NEW c \in Client, IssueUpdate(c) \/ IssueGet(c) \/ Finish(c) \/ ClientLost(c)
      PROVE  FALSE
  BY <1>1, <1>5 DEF IssueUpdate, IssueGet, Finish, ClientLost
<1> QED
  BY <1>1, <1>3, <1>4, <1>5 DEF Next, AnswerLost

LEMMA CalmStep ==
    ASSUME TypeOK, Shape, Linking, Calm, OneAtATime, [Next]_vars
    PROVE  Calm'
<1>1. CASE UNCHANGED vars
  BY <1>1 DEF vars, zkVars, mainVars, nextVars, tableVars, Calm, Busy, Settled, Alive
<1>2. CASE Next
  <2>1. ASSUME NEW x \in Caller, Busy(x)' PROVE (Settled /\ Alive(call[x].to))'
    <3>1. Settled /\ UNCHANGED <<zkVars, mainVars, nextVars>> /\ Alive(call'[x].to)
      BY <1>2, <2>1, WhoIsBusy, BusyStays DEF Calm
    <3> QED
      BY <3>1 DEF Settled, Alive, zkVars, mainVars, nextVars
  <2>2. ASSUME NEW s \in Server, stage'[s] = "forward" PROVE next'[s] # Null
    <3>1. CASE stage[s] = "forward"
      <4>1. lock[s] \in Caller /\ Busy(lock[s])
        BY <3>1 DEF Shape, LockShape, Busy, TypeOK
      <4> QED
        BY <1>2, <3>1, <4>1, BusyStays DEF Calm, nextVars
    <3>2. CASE stage[s] # "forward"
      <4>1. \E x \in Caller : Begin(x, s)
        BY <1>2, <2>2, <3>2, OnlyBeginForwards
      <4> QED
        BY <2>2, <4>1 DEF Begin, nextVars, TypeOK
    <3> QED
      BY <3>1, <3>2
  <2> QED
    BY <2>1, <2>2 DEF Calm
<1> QED
  BY <1>1, <1>2

LEMMA InitialLinking ==
    ASSUME Init
    PROVE  Linking /\ Calm
<1>0. Founders \subseteq Server /\ Null \notin Server
  BY ChainAssumption
<1>1. /\ znodes = Founders /\ watching = Founders /\ notified = {}
      /\ \A s \in Server : phase[s] = IF s \in Founders THEN "serving" ELSE "off"
      /\ \A s \in Server : next[s] = IF s \in Founders THEN zk_closest_node(s, Founders) ELSE Null
      /\ \A s \in Server : link[s] = IF next[s] = Null THEN NoLink
                                     ELSE [to |-> next[s], open |-> TRUE]
      /\ \A s \in Server : watcher[s] = "idle" /\ stage[s] = "idle"
      /\ \A x \in Caller : call[x] = Null
  <2>1. \A s \in Server : link[s] = [to |-> next[s], open |-> next[s] # Null]
    BY DEF Init
  <2>2. ASSUME NEW s \in Server
        PROVE  link[s] = IF next[s] = Null THEN NoLink ELSE [to |-> next[s], open |-> TRUE]
    <3>1. CASE next[s] = Null
      <4>1. (next[s] # Null) = FALSE
        BY <3>1
      <4> QED
        BY <2>1, <3>1, <4>1 DEF NoLink
    <3>2. CASE next[s] # Null
      <4>1. (next[s] # Null) = TRUE
        BY <3>2
      <4> QED
        BY <2>1, <3>2, <4>1
    <3> QED
      BY <3>1, <3>2
  <2> QED
    BY <2>2 DEF Init
<1>2. /\ \A s \in Server : Alive(s) = (s \in Founders)
      /\ \A s \in Server : ~Joining(s) /\ ~Leftover(s)
      /\ \A s \in Server \ Founders : Unlinked(s)
      /\ \A s \in Founders : Knows(s)
      /\ AllUp
  <2>1. \A s \in Server : Alive(s) = (s \in Founders) /\ ~Joining(s)
    BY <1>1 DEF Alive, Joining
  <2>2. \A s \in Server : ~Leftover(s)
    <3> SUFFICES ASSUME NEW s \in Server PROVE ~Leftover(s)
      OBVIOUS
    <3>1. CASE next[s] = Null
      <4>1. link[s] = [to |-> Null, open |-> FALSE]
        BY <1>1, <3>1 DEF NoLink
      <4>2. link[s].to = Null
        BY <4>1
      <4> QED
        BY <4>2 DEF Leftover
    <3>2. CASE next[s] # Null
      <4>1. link[s] = [to |-> next[s], open |-> TRUE]
        BY <1>1, <3>2
      <4>2. link[s].open
        BY <4>1
      <4> QED
        BY <4>2 DEF Leftover
    <3> QED
      BY <3>1, <3>2
  <2>3. \A s \in Server \ Founders : Unlinked(s)
    BY <1>1 DEF Unlinked
  <2>4. \A s \in Founders : Knows(s)
    BY <1>0, <1>1 DEF Knows
  <2> QED
    BY <1>0, <1>1, <2>1, <2>2, <2>3, <2>4 DEF AllUp
<1>3. Members
  BY <1>0, <1>1, <1>2 DEF Members
<1>4. Newest
  BY <1>2 DEF Newest
<1>5. Told
  BY <1>0, <1>1, <1>2 DEF Told
<1>6. Handling
  BY <1>1 DEF Handling, NoLink
<1>7. OldGone /\ Replaced
  BY <1>1, <1>2 DEF OldGone, Replaced
<1>8. Calm
  BY <1>1 DEF Calm, Busy
<1> QED
  BY <1>3, <1>4, <1>5, <1>6, <1>7, <1>8 DEF Linking

\* While the servers are linked, only the handler of the old tail fails: its
\* successor went down before, and another server has started since.
LEMMA OnlyTailStops ==
    ASSUME TypeOK, Shape, Linking, Calm, OneAtATime, [Next]_vars, NoOtherCascade
    PROVE  NoOtherCascade'
<1> USE DEF zkVars, mainVars, nextVars, tableVars, history
<1> DEFINE Kept == UNCHANGED cause /\ \A t \in Server :
                     /\ phase[t] = "crashed" => phase'[t] = "crashed"
                     /\ phase[t] # "off" => phase'[t] # "off"
<1>1. ASSUME Kept PROVE NoOtherCascade'
  BY <1>1 DEF NoOtherCascade, StopsWhenTailReplaced
<1>2. ASSUME NEW s \in Server, NEW why, Down(s, why), why = "fault" \/ StopsWhenTailReplaced(s)'
      PROVE  NoOtherCascade'
  <2>1. /\ \A t \in Server : phase'[t] = IF t = s THEN "crashed" ELSE phase[t]
        /\ \A t \in Server : cause'[t] = IF t = s THEN why ELSE cause[t]
    BY <1>2 DEF Down, TypeOK
  <2>2. ASSUME NEW t \in Server, t # s, StopsWhenTailReplaced(t) PROVE StopsWhenTailReplaced(t)'
    BY <2>1, <2>2 DEF StopsWhenTailReplaced
  <2> QED
    BY <1>2, <2>1, <2>2 DEF NoOtherCascade
<1>3. ASSUME NEW s \in Server, DoubleDisconnect(s) PROVE NoOtherCascade'
  <2>1. Down(s, "double_disconnect") /\ Alive(s) /\ Leftover(s)
    BY <1>3 DEF DoubleDisconnect, Linking, Newest, Unlinked, Leftover
  <2>2. watcher[s] = "swap"
    BY <1>3, <2>1 DEF DoubleDisconnect, Linking, Handling, Leftover
  <2>3. zk_closest_node(s, znodes) # Null
    BY <2>1, <2>2 DEF Linking, Handling, Knows, Shape, LinkShape
  <2> PICK new : new = zk_closest_node(s, znodes)
    OBVIOUS
  <2>4. new \in znodes /\ new \in Server
    BY <2>3, ClosestIsMember DEF TypeOK
  <2>5. link[s].to < new /\ new \notin Founders
    BY <2>1, <2>3 DEF Linking, Replaced
  <2>6. link[s].to \in Server /\ s < link[s].to /\ phase[link[s].to] = "crashed"
    BY <2>1, LinkedServer DEF Linking, OldGone
  <2>7. phase[new] # "off"
    BY <2>4 DEF Linking, Members
  <2>8. StopsWhenTailReplaced(s)'
    BY <2>1, <2>4, <2>5, <2>6, <2>7 DEF Down, TypeOK, StopsWhenTailReplaced
  <2> QED
    BY <1>2, <2>1, <2>8
<1>4. ASSUME NEW s \in Server, Crash(s) PROVE NoOtherCascade'
  BY <1>2, <1>4 DEF Crash
<1>5. ASSUME NEW s \in Server, Handler(s) PROVE NoOtherCascade'
  BY <1>1, <1>5, SteadyHandlers DEF Handler, Begin, BeginMissing, Get, GetTable, Forward,
                                    ReplyIn, Reply
<1>6. ASSUME NEW s \in Server, Main(s) \/ Register(s) PROVE NoOtherCascade'
  BY <1>1, <1>6, SteadyHandlers DEF Main, List, Fetch, Fill, FetchLost, Register, TypeOK
<1>7. ASSUME NEW s \in Server, Notice(s) \/ Disconnect(s) \/ Connect(s) \/ Expire(s)
      PROVE  NoOtherCascade'
  BY <1>1, <1>7 DEF Notice, Disconnect, Connect, Expire
<1>8. ASSUME NEW c \in Client, IssueUpdate(c) \/ IssueGet(c) \/ Finish(c) \/ ClientLost(c)
      PROVE  NoOtherCascade'
  BY <1>1, <1>8 DEF IssueUpdate, IssueGet, Finish, ClientLost
<1>9. ASSUME NEW x \in Caller, AnswerLost(x) PROVE NoOtherCascade'
  BY <1>1, <1>9 DEF AnswerLost
<1>10. CASE UNCHANGED vars
  BY <1>1, <1>10 DEF vars
<1> QED
  BY <1>3, <1>4, <1>5, <1>6, <1>7, <1>8, <1>9, <1>10 DEF Next, Watcher

OneChange == /\ TypeOK /\ Shape /\ NextIsClosest /\ Started
             /\ Linking /\ Calm /\ NoOtherCascade

LEMMA OneChangeAlways ==
    ASSUME OneAtATime
    PROVE  Spec => []OneChange
<1>1. Init => OneChange
  <2>1. Init => NoOtherCascade
    BY DEF Init, NoOtherCascade
  <2> QED
    BY <2>1, InitialState, InitialNext, InitialLinking DEF OneChange
<1>2. OneChange /\ [Next]_vars => OneChange'
  BY TypeStep, ShapeStep, NextIsClosestStep, LinkingStep, CalmStep, OnlyTailStops DEF OneChange
<1> QED
  BY <1>1, <1>2, PTL DEF Spec

\* When servers start and fail one at a time, and the clients wait meanwhile,
\* every server is linked to its successor once its handler has run
\* (zk_children_handler, rtable_connect).
THEOREM LinkedWhenSettled ==
    ASSUME OneAtATime
    PROVE  Spec => []ChainLinked
<1>1. OneChange => ChainLinked
  BY SettledLinks DEF OneChange, ChainLinked
<1> QED
  BY <1>1, OneChangeAlways, PTL

\* When servers start and fail one at a time, and the clients wait meanwhile,
\* no server that was not stopped goes down, but for the tail whose lost
\* successor is replaced (zk_children_handler disconnects rtable twice).
THEOREM OnlyReplacedTailStops ==
    ASSUME OneAtATime
    PROVE  Spec => []NoOtherCascade
<1>1. OneChange => NoOtherCascade
  BY DEF OneChange
<1> QED
  BY <1>1, OneChangeAlways, PTL
-----------------------------------------------------------------------------
(* 5. While servers start and fail one at a time: the tables.              *)

Up == \A s \in Server : phase[s] # "crashed" => cause[s] = "none"

\* Its update is not yet in the table of its successor.
Ahead(s) ==
    \/ stage[s] = "forward"
    \/ stage[s] = "wait" /\ call[s].answer = Null /\ lock[next[s]] # s

\* Updates are sent to the head and by servers to their successor.
Sent == \A x \in Caller : Busy(x) =>
    \/ x \in Client /\ call[x].to = zk_get_head(znodes)
    \/ x \in Server /\ stage[x] = "wait" /\ call[x].to = next[x]

NoneFails == \A s \in Server :
    /\ stage[s] # "failed"
    /\ stage[s] = "wait" /\ call[s].answer # Null => call[s].answer = Ok

\* The table of s is that of t with the update that t has not got, if any.
OneStep(s, t) ==
    IF Ahead(s)
    THEN /\ table[s] = Apply(table[t], Current(s))
         /\ Current(s).op = "del" => table[t][Current(s).key] # Null
    ELSE table[s] = table[t]
StepAhead == \A s, t \in Serving : next[s] = t => OneStep(s, t)

NobodyBusy == \A x \in Caller : ~Busy(x)
Alike == \A s, t \in Serving : table[s] = table[t]

\* A server that starts copies the table of one that serves.
Copying == \A s \in Server :
    /\ Joining(s) => AllUp
    /\ phase[s] \in {"listed", "fetching"} => source[s] \in Serving
    /\ phase[s] = "fetching" =>
        /\ call[s].to \in Serving
        /\ call[s].answer # Null => \A t \in Serving : call[s].answer.table = table[t]

Replicated == Sent /\ NoneFails /\ StepAhead /\ (NobodyBusy => Alike) /\ Copying

-----------------------------------------------------------------------------
(* The chain at rest.                                                      *)

\* The servers that serve are those that have a z-node, each linked to the
\* next.
LEMMA RestingChain ==
    ASSUME TypeOK, Linking, Settled
    PROVE  /\ Serving = znodes /\ Serving \subseteq Server
           /\ \A s \in Server : Alive(s) <=> s \in Serving
           /\ \A s \in Serving : Linked(s) /\ next[s] = zk_closest_node(s, Serving)
<1>1. AllUp /\ \A s \in Serving : Linked(s)
  BY SettledLinks
<1>2. \A s \in Server : Alive(s) <=> s \in Serving
  BY DEF Settled, Serving, Alive
<1>3. Serving = znodes /\ Serving \subseteq Server
  BY <1>1, <1>2 DEF AllUp, Linking, Members, TypeOK, Serving
<1> QED
  BY <1>1, <1>2, <1>3 DEF Linked

LEMMA SuccessorServes ==
    ASSUME TypeOK, Linking, Settled, NEW s \in Serving, next[s] # Null
    PROVE  /\ next[s] \in Serving /\ next[s] # s
           /\ link[s].open /\ link[s].to = next[s] /\ Alive(next[s])
<1>1. /\ Serving \subseteq Server /\ next[s] = zk_closest_node(s, Serving) /\ Linked(s)
      /\ \A t \in Server : Alive(t) <=> t \in Serving
  BY RestingChain
<1>2. next[s] \in Serving /\ next[s] > s
  BY <1>1, ClosestIsMember
<1>3. next[s] # s
  BY <1>1, <1>2, ChainAssumption
<1> QED
  BY <1>1, <1>2, <1>3 DEF Linked

\* No two servers have the same successor, and the head is nobody's.
LEMMA OneBefore ==
    ASSUME TypeOK, Linking, Settled, NEW s \in Serving, next[s] # Null
    PROVE  /\ next[s] # zk_get_head(znodes)
           /\ \A r \in Serving : next[r] = next[s] => r = s
<1>1. Serving = znodes /\ Serving \subseteq Server
      /\ \A r \in Serving : next[r] = zk_closest_node(r, Serving)
  BY RestingChain
<1>2. ASSUME NEW r \in Serving, next[r] # Null
      PROVE  next[r] \in Serving /\ next[r] > r /\ \A t \in Serving : t > r => next[r] <= t
  <2> PICK n : n = zk_closest_node(r, Serving)
    OBVIOUS
  <2>1. \/ n = Null /\ \A t \in Serving : t <= r
        \/ n \in Serving /\ n > r /\ \A t \in Serving : t > r => n <= t
    BY <1>1, ClosestIsNearest
  <2> QED
    BY <1>1, <1>2, <2>1
<1>3. \A r \in Serving : r \in Nat
  BY <1>1, ChainAssumption
<1>4. next[s] # zk_get_head(znodes)
  <2>1. zk_get_head(znodes) <= s /\ zk_get_head(znodes) \in Serving
    BY <1>1, HeadIsLeast
  <2> QED
    BY <1>2, <1>3, <2>1
<1>5. ASSUME NEW r \in Serving, next[r] = next[s], r # s PROVE FALSE
  <2>1. next[s] \in Nat /\ next[s] > s /\ next[s] > r
        /\ (s > r => next[s] <= s) /\ (r > s => next[s] <= r)
    BY <1>2, <1>3, <1>5
  <2>2. r \in Nat /\ s \in Nat
    BY <1>3
  <2> QED
    BY <1>5, <2>1, <2>2
<1> QED
  BY <1>4, <1>5

\* Tables that are the same from each server to the next are all the same.
LEMMA AlikeAtRest ==
    ASSUME TypeOK, Shape, Linking, Settled, StepAhead, NobodyBusy
    PROVE  Alike
<1>1. /\ Serving = znodes /\ Serving \subseteq Server
      /\ \A s \in Serving : next[s] = zk_closest_node(s, Serving)
  BY RestingChain
<1>2. \A s \in Serving : ~Ahead(s)
  <2>1. \A s \in Serving : lock[s] = Null
    BY <1>1 DEF NobodyBusy, Busy, Shape, LockShape, TypeOK
  <2> QED
    BY <1>1, <2>1 DEF Ahead, Shape, LockShape
<1>3. \A s, t \in Serving : next[s] = t => table[s] = table[t]
  BY <1>2 DEF StepAhead, OneStep
<1> DEFINE last == zk_get_tail(Serving)
           D == {s \in Serving : table[s] # table[last]}
           m == zk_get_tail(D)
<1>4. D = {}
  <2> SUFFICES ASSUME D # {} PROVE FALSE
    OBVIOUS
  <2>1. D \subseteq Server /\ D \subseteq Serving
    BY <1>1
  <2>2. m \in D /\ \A t \in D : t <= m
    <3> HIDE DEF D
    <3> QED
      BY <2>1, TailIsGreatest
  <2>3. last \in Serving /\ m <= last
    BY <1>1, <2>1, <2>2, TailIsGreatest
  <2>4. m # last /\ m \in Nat /\ last \in Nat
    BY <1>1, <2>2, <2>3, ChainAssumption
  <2> HIDE DEF D, m, last
  <2> PICK n : n = zk_closest_node(m, Serving)
    OBVIOUS
  <2>5. \/ n = Null /\ \A t \in Serving : t <= m
        \/ n \in Serving /\ n > m /\ \A t \in Serving : t > m => n <= t
    BY <1>1, <2>1, <2>2, ClosestIsNearest
  <2>6. n \in Serving /\ n > m
    BY <2>3, <2>4, <2>5
  <2>7. table[m] = table[n]
    BY <1>1, <1>3, <2>1, <2>2, <2>6
  <2>8. n \in D
    BY <2>2, <2>6, <2>7 DEF D
  <2>9. n \in Nat /\ n <= m
    BY <1>1, <2>2, <2>6, <2>8, ChainAssumption
  <2> QED
    BY <2>4, <2>6, <2>9
<1> QED
  BY <1>4 DEF Alike

-----------------------------------------------------------------------------
(* The steps while an update is on its way.                                *)

\* Nobody but the clients and those that have sent a read notices.
LEMMA NobodyAhead ==
    ASSUME TypeOK, Shape, NoneFails, StepAhead,
           UNCHANGED <<phase, next, table, lock, stage>>,
           \A s \in Server : stage[s] = "wait" => call'[s] = call[s],
           \A s \in Server : lock[s] # Null => Current(s)' = Current(s)
    PROVE  NoneFails' /\ StepAhead'
<1>1. NoneFails'
  BY DEF NoneFails
<1>2. Serving' = Serving /\ Serving \subseteq Server
  BY DEF Serving
<1>3. \A s \in Serving : Ahead(s)' = Ahead(s)
  BY <1>2 DEF Ahead
<1>4. ASSUME NEW s \in Serving, Ahead(s) PROVE Current(s)' = Current(s)
  BY <1>2, <1>4 DEF Ahead, Shape, LockShape
<1> QED
  BY <1>1, <1>2, <1>3, <1>4 DEF StepAhead, OneStep

LEMMA SentStays ==
    ASSUME Sent, UNCHANGED <<znodes, next>>,
           \A x \in Caller : Busy(x)' => Busy(x) /\ call'[x].to = call[x].to,
           \A x \in Server : Busy(x)' => stage'[x] = stage[x]
    PROVE  Sent'
BY DEF Sent

\* The update that arrives at s comes from its predecessor, if there is one.
LEMMA FromPredecessor ==
    ASSUME TypeOK, Shape, Linking, Settled, Sent, NEW x \in Caller, NEW s \in Server,
           Busy(x), call[x].to = s
    PROVE  /\ x \in Server => x \in Serving /\ stage[x] = "wait" /\ next[x] = s
           /\ \A a \in Serving : next[a] = s => x = a
<1>1. x \in Server => x \in Serving /\ stage[x] = "wait" /\ next[x] = s
  BY ChainAssumption DEF Sent, Shape, LockShape, Serving
<1>2. ASSUME NEW a \in Serving, next[a] = s PROVE x = a
  <2>1. s # Null
    BY NullIsNoServer
  <2>2. s # zk_get_head(znodes) /\ \A r \in Serving : next[r] = s => r = a
    BY <1>2, <2>1, OneBefore
  <2>3. x \in Server
    BY <2>2 DEF Sent
  <2> QED
    BY <1>1, <2>2, <2>3
<1> QED
  BY <1>1, <1>2

LEMMA BeginReplicates ==
    ASSUME TypeOK, Shape, Linking, Settled, Sent, NoneFails, StepAhead,
           NEW x \in Caller, NEW s \in Server, Begin(x, s)
    PROVE  (Sent /\ NoneFails /\ StepAhead)'
<1> DEFINE u == call[x].req
<1>1. /\ UNCHANGED <<znodes, phase, next, call>>
      /\ At(x, s) /\ lock[s] = Null /\ IsUpdate(u) /\ Busy(x) /\ call[x].to = s
      /\ s \in Serving /\ stage[s] = "idle"
      /\ u.op = "del" => table[s][u.key] # Null
      /\ table'[s] = Apply(table[s], u) /\ lock'[s] = x
      /\ stage'[s] = (IF next[s] = Null THEN "ok" ELSE "forward")
      /\ \A t \in Server : t # s => table'[t] = table[t] /\ lock'[t] = lock[t] /\ stage'[t] = stage[t]
  BY DEF Begin, At, Busy, TypeOK, zkVars, mainVars, nextVars, Serving, Shape, LockShape
<1>2. Sent'
  <2>1. \A y \in Server : Busy(y) => y # s
    BY <1>1, ChainAssumption DEF Sent, Caller
  <2> QED
    BY <1>1, <2>1, SentStays DEF Busy
<1>3. NoneFails'
  BY <1>1 DEF NoneFails
<1>4. Serving' = Serving /\ Serving \subseteq Server
  BY <1>1 DEF Serving
<1>5. \A a \in Serving : next[a] # a
  BY SuccessorServes, <1>4, NullIsNoServer
<1>6. ASSUME NEW b \in Serving, next[s] = b PROVE OneStep(s, b)'
  <2>1. b # s /\ table[s] = table[b] /\ table'[b] = table[b]
    BY <1>1, <1>4, <1>5, <1>6 DEF StepAhead, OneStep, Ahead
  <2>2. Ahead(s)' /\ Current(s)' = u
    BY <1>1, <1>4, <1>6, NullIsNoServer DEF Ahead, Current
  <2> QED
    BY <1>1, <2>1, <2>2 DEF OneStep
<1>7. ASSUME NEW a \in Serving, next[a] = s PROVE OneStep(a, s)'
  <2>1. x = a /\ a # s /\ stage[a] = "wait" /\ call[a].answer = Null /\ lock[s] # a
    BY <1>1, <1>4, <1>5, <1>7, FromPredecessor DEF At
  <2>2. Ahead(a) /\ Current(a) = u
    BY <1>4, <1>7, <2>1 DEF Ahead, Shape, CallShape
  <2>3. table[a] = Apply(table[s], u)
    BY <1>1, <1>7, <2>2 DEF StepAhead, OneStep
  <2>4. ~Ahead(a)'
    BY <1>1, <1>4, <1>7, <2>1 DEF Ahead
  <2> QED
    BY <1>1, <1>4, <2>1, <2>3, <2>4 DEF OneStep
<1>8. ASSUME NEW a \in Serving, NEW b \in Serving, next[a] = b, a # s, b # s PROVE OneStep(a, b)'
  <2>1. Ahead(a)' = Ahead(a) /\ Current(a)' = Current(a) /\ table'[a] = table[a] /\ table'[b] = table[b]
    BY <1>1, <1>4, <1>8 DEF Ahead, Current
  <2> QED
    BY <1>8, <2>1 DEF StepAhead, OneStep
<1>9. StepAhead'
  BY <1>1, <1>4, <1>6, <1>7, <1>8 DEF StepAhead
<1> QED
  BY <1>2, <1>3, <1>9

\* A delete that its server does not find is a client's.
LEMMA MissingReplicates ==
    ASSUME TypeOK, Shape, Linking, Settled, Sent, NoneFails, StepAhead,
           NEW x \in Caller, NEW s \in Server, BeginMissing(x, s)
    PROVE  (Sent /\ NoneFails /\ StepAhead)'
<1>1. /\ UNCHANGED <<znodes, phase, next, table, lock, stage>> /\ At(x, s) /\ lock[s] = Null
      /\ Busy(x) /\ call[x].req.op = "del" /\ call[x].to = s /\ s \in Serving
      /\ table[s][call[x].req.key] = Null /\ Respond(x, Error)
  BY DEF BeginMissing, At, Busy, IsUpdate, zkVars, mainVars, nextVars, tableVars, Serving
<1>2. x \notin Server
  <2> SUFFICES ASSUME x \in Server PROVE FALSE
    OBVIOUS
  <2>1. x \in Serving /\ stage[x] = "wait" /\ next[x] = s /\ lock[s] # x /\ call[x].answer = Null
    BY <1>1, FromPredecessor DEF At
  <2>2. Ahead(x) /\ Current(x) = call[x].req
    BY <2>1 DEF Ahead, Shape, CallShape, Serving
  <2> QED
    BY <1>1, <2>1, <2>2 DEF StepAhead, OneStep
<1>3. /\ \A y \in Caller : y # x => call'[y] = call[y]
      /\ call'[x].req = call[x].req
  BY <1>1, <1>2, RespondCall, AnswerTypes DEF At, Dead
<1>4. call'[x].to = call[x].to
  BY <1>1, <1>2 DEF Respond, Dead, TypeOK, Call, At
<1>5. NoneFails' /\ StepAhead'
  <2>1. \A t \in Server : t \in Caller /\ call'[t] = call[t]
    BY <1>2, <1>3 DEF Caller
  <2>2. \A t \in Server : lock[t] # Null => Current(t)' = Current(t)
    BY <1>1, <1>3 DEF Current, TypeOK
  <2> QED
    BY <1>1, <2>1, <2>2, NobodyAhead
<1>6. Sent'
  BY <1>1, <1>2, <1>3, <1>4, SentStays DEF Busy
<1> QED
  BY <1>5, <1>6

LEMMA ForwardReplicates ==
    ASSUME TypeOK, Shape, Linking, Calm, Settled, Sent, NoneFails, StepAhead,
           NEW s \in Server, Forward(s)
    PROVE  (Sent /\ NoneFails /\ StepAhead)'
<1>1. stage[s] = "forward" /\ s \in Serving /\ next[s] # Null /\ call[s] = Null
  BY DEF Forward, Shape, LockShape, CallShape, Serving, Calm
<1>2. /\ UNCHANGED <<znodes, phase, next, table, lock>>
      /\ stage' = [stage EXCEPT ![s] = "wait"] /\ Send(s, next[s], Current(s))
  BY <1>1, SuccessorServes DEF Forward, zkVars, mainVars, nextVars, NoLink
<1>3. /\ \A y \in Caller : y # s => call'[y] = call[y]
      /\ s \in Caller /\ call'[s] = [to |-> next[s], req |-> Current(s), answer |-> Null]
      /\ \A t \in Server : stage'[t] = IF t = s THEN "wait" ELSE stage[t]
  BY <1>2 DEF Send, Caller, TypeOK
<1>4. \A t \in Server : lock[t] # s
  BY <1>1, NullIsNoServer DEF Shape, LockShape
<1>5. Serving' = Serving /\ Serving \subseteq Server
  BY <1>2 DEF Serving
<1>6. Sent'
  <2>1. ASSUME NEW x \in Caller, x # s, Busy(x)'
        PROVE  Sent!(x)'
    BY <1>1, <1>2, <1>3, <2>1 DEF Sent, Busy
  <2> QED
    BY <1>2, <1>3, <2>1 DEF Sent
<1>7. NoneFails'
  <2>1. \A t \in Server : t \in Caller
    BY DEF Caller
  <2> QED
    BY <1>3, <2>1 DEF NoneFails
<1>8. \A t \in Server : lock[t] # Null => Current(t)' = Current(t)
  BY <1>2, <1>3, <1>4 DEF Current, TypeOK
<1>9. \A t \in Serving : Ahead(t) => lock[t] # Null
  BY <1>5 DEF Ahead, Shape, LockShape
<1>10. \A t \in Serving : Ahead(t)' <=> Ahead(t)
  <2>1. \A t \in Serving : t # s => Ahead(t)' <=> Ahead(t)
    <3>1. \A t \in Serving : t \in Server /\ t \in Caller
      BY <1>5 DEF Caller
    <3> QED
      BY <1>2, <1>3, <3>1 DEF Ahead
  <2>2. Ahead(s) /\ Ahead(s)'
    <3>1. next[s] \in Server
      BY <1>1, <1>5, SuccessorServes
    <3> QED
      BY <1>1, <1>2, <1>3, <1>4, <3>1 DEF Ahead
  <2> QED
    BY <2>1, <2>2
<1>11. StepAhead'
  BY <1>2, <1>5, <1>8, <1>9, <1>10 DEF StepAhead, OneStep
<1> QED
  BY <1>6, <1>7, <1>11

LEMMA ReplyInReplicates ==
    ASSUME TypeOK, Shape, Sent, NoneFails, StepAhead, NEW s \in Server, ReplyIn(s)
    PROVE  (Sent /\ NoneFails /\ StepAhead)'
<1>1. stage[s] = "wait" /\ call[s] # Null /\ call[s].answer = Ok /\ Ok # Null
  BY NullAssumption, AnswerTypes DEF ReplyIn, Shape, CallShape, NoneFails
<1>2. /\ UNCHANGED <<znodes, phase, next, table, lock>>
      /\ \A t \in Server : stage'[t] = IF t = s THEN "ok" ELSE stage[t]
      /\ \A y \in Caller : y # s => call'[y] = call[y]
      /\ s \in Caller /\ call'[s] = Null
  BY <1>1 DEF ReplyIn, zkVars, mainVars, nextVars, Caller, TypeOK
<1>3. Serving' = Serving /\ Serving \subseteq Server
  BY <1>2 DEF Serving
<1>4. Sent'
  BY <1>2 DEF Sent, Busy
<1>5. NoneFails'
  <2>1. \A t \in Server : t \in Caller
    BY DEF Caller
  <2> QED
    BY <1>2, <2>1 DEF NoneFails
<1>6. \A t \in Server : lock[t] # Null => Current(t)' = Current(t)
  <2>1. \A t \in Server : lock[t] # s
    BY <1>1, NullIsNoServer DEF Shape, LockShape
  <2> QED
    BY <1>2, <2>1 DEF Current, TypeOK
<1>7. \A t \in Serving : Ahead(t)' <=> Ahead(t)
  <2>1. \A t \in Serving : t \in Server /\ t \in Caller
    BY <1>3 DEF Caller
  <2>2. ~Ahead(s) /\ ~Ahead(s)'
    BY <1>1, <1>2 DEF Ahead
  <2> QED
    BY <1>2, <2>1, <2>2 DEF Ahead
<1>8. \A t \in Serving : Ahead(t) => lock[t] # Null
  BY <1>3 DEF Ahead, Shape, LockShape
<1>9. StepAhead'
  BY <1>2, <1>3, <1>6, <1>7, <1>8 DEF StepAhead, OneStep
<1> QED
  BY <1>4, <1>5, <1>9

LEMMA ReplyReplicates ==
    ASSUME TypeOK, Shape, Linking, Settled, Sent, NoneFails, StepAhead,
           NEW s \in Server, Reply(s)
    PROVE  (Sent /\ NoneFails /\ StepAhead)'
<1>0. PICK x : x = lock[s]
  OBVIOUS
<1>1. /\ stage[s] = "ok" /\ s \in Serving /\ x \in Caller /\ Busy(x)
      /\ call[x].to = s /\ call[x].answer = Null /\ call[x] # Null
  BY <1>0 DEF Reply, NoneFails, Shape, LockShape, Serving, Busy, TypeOK
<1>2. /\ x \in Server => x \in Serving /\ stage[x] = "wait" /\ next[x] = s
      /\ \A a \in Serving : next[a] = s => x = a
  BY <1>1, FromPredecessor
<1>3. ~Dead(x)
  BY <1>2 DEF Dead, Serving
<1>4. /\ UNCHANGED <<znodes, phase, next, table>> /\ Respond(x, Ok)
      /\ \A t \in Server : /\ stage'[t] = IF t = s THEN "idle" ELSE stage[t]
                           /\ lock'[t] = IF t = s THEN Null ELSE lock[t]
  BY <1>0, <1>1 DEF Reply, zkVars, mainVars, nextVars, TypeOK
<1>5. /\ \A y \in Caller : y # x => call'[y] = call[y]
      /\ call'[x] # Null /\ call'[x].req = call[x].req /\ call'[x].answer = Ok
  BY <1>1, <1>3, <1>4, RespondCall, AnswerTypes
<1>6. call'[x].to = call[x].to
  BY <1>1, <1>3, <1>4 DEF Respond, TypeOK, Call
<1>7. Serving' = Serving /\ Serving \subseteq Server /\ \A t \in Serving : t \in Caller /\ next[t] # t
  BY <1>4, SuccessorServes, NullIsNoServer DEF Serving, Caller
<1>8. x # s
  BY <1>1, <1>2, <1>7
<1>9. Sent'
  <2>1. \A y \in Server : Busy(y) => y # s
    BY <1>1, ChainAssumption DEF Sent, Caller
  <2>2. \A y \in Caller : Busy(y)' => Busy(y) /\ call'[y].to = call[y].to
    BY <1>5, <1>6, <1>1 DEF Busy
  <2> QED
    BY <1>4, <2>1, <2>2, SentStays DEF Caller
<1>10. NoneFails'
  <2>1. \A t \in Server : t \in Caller
    BY DEF Caller
  <2> QED
    BY <1>4, <1>5, <2>1 DEF NoneFails
<1>11. ASSUME NEW a \in Serving, a # s, a # x
       PROVE  /\ Ahead(a)' <=> Ahead(a)
              /\ Ahead(a) => Current(a)' = Current(a)
  <2>1. next[a] # s
    BY <1>2, <1>11
  <2>2. lock[a] # x \/ lock[a] = Null
    <3>1. lock[a] # Null => call[lock[a]].to = a
      BY <1>7 DEF Shape, LockShape
    <3> QED
      BY <1>1, <1>11, <3>1
  <2>3. call'[a] = call[a] /\ stage'[a] = stage[a] /\ lock'[a] = lock[a]
    BY <1>4, <1>5, <1>7, <1>11
  <2>4. Ahead(a)' <=> Ahead(a)
    <3>1. stage[a] = "wait" => lock'[next[a]] = lock[next[a]]
      <4>1. next[a] # Null => next[a] \in Server
        BY <1>7, SuccessorServes
      <4>2. stage[a] = "wait" => Busy(a)
        BY <1>7 DEF Shape, CallShape, LockShape, Busy, Current
      <4>3. stage[a] = "wait" => next[a] # Null
        BY <1>7, <4>2, NullIsNoServer, ChainAssumption DEF Sent, TypeOK, Call, Busy
      <4> QED
        BY <1>4, <2>1, <4>1, <4>3
    <3> QED
      BY <1>4, <2>3, <3>1 DEF Ahead
  <2>5. Ahead(a) => lock[a] # Null /\ lock[a] \in Caller
    BY <1>7 DEF Ahead, Shape, LockShape, TypeOK
  <2> QED
    BY <1>5, <2>2, <2>3, <2>4, <2>5 DEF Current
<1>12. ~Ahead(s) /\ ~Ahead(s)'
  BY <1>1, <1>4 DEF Ahead
<1>13. x \in Server => ~Ahead(x) /\ ~Ahead(x)'
  <2> SUFFICES ASSUME x \in Server PROVE ~Ahead(x) /\ ~Ahead(x)'
    OBVIOUS
  <2>1. stage[x] = "wait" /\ lock[next[x]] = x
    BY <1>0, <1>2
  <2>2. stage'[x] = "wait" /\ call'[x].answer # Null
    BY <1>4, <1>5, <1>8, <2>1, NullAssumption, AnswerTypes
  <2> QED
    BY <2>1, <2>2 DEF Ahead
<1>14. ASSUME NEW a \in Serving, NEW b \in Serving, next[a] = b PROVE OneStep(a, b)'
  <2>1. CASE a = s \/ a = x
    <3>1. ~Ahead(a) /\ ~Ahead(a)'
      BY <1>7, <1>12, <1>13, <2>1
    <3> QED
      BY <1>4, <1>14, <3>1 DEF StepAhead, OneStep
  <2>2. CASE a # s /\ a # x
    <3>1. /\ Ahead(a)' <=> Ahead(a)
          /\ Ahead(a) => Current(a)' = Current(a)
      BY <1>11, <2>2
    <3>2. OneStep(a, b)
      BY <1>14 DEF StepAhead
    <3> QED
      BY <1>4, <3>1, <3>2 DEF OneStep
  <2> QED
    BY <2>1, <2>2
<1>15. StepAhead'
  BY <1>4, <1>7, <1>14 DEF StepAhead
<1> QED
  BY <1>9, <1>10, <1>15

\* A call that is not an update of a server, nor one that is worked on.
LEMMA OthersReplicate ==
    ASSUME TypeOK, Shape, Sent, NoneFails, StepAhead, NEW x \in Caller,
           UNCHANGED <<znodes, phase, next, table, lock, stage>>,
           \A y \in Caller : y # x => call'[y] = call[y],
           ~Busy(x) \/ (x \in Client /\ \A t \in Server : lock[t] # x),
           Busy(x)' => x \in Client /\ call'[x].to = zk_get_head(znodes)
    PROVE  (Sent /\ NoneFails /\ StepAhead)'
<1>1. Sent'
  <2>1. \A y \in Caller : y # x => (Busy(y)' <=> Busy(y))
    BY DEF Busy
  <2>2. ASSUME NEW y \in Caller, Busy(y)' PROVE Sent!(y)'
    <3>1. CASE y = x
      BY <2>2, <3>1
    <3>2. CASE y # x
      BY <2>1, <2>2, <3>2 DEF Sent
    <3> QED
      BY <3>1, <3>2
  <2> QED
    BY <2>2 DEF Sent
<1>2. \A t \in Server : lock[t] # Null => lock[t] \in Caller /\ lock[t] # x
  BY DEF Shape, LockShape, TypeOK, Busy
<1>3. \A t \in Server : stage[t] = "wait" => t # x /\ t \in Caller
  BY <1>2, ChainAssumption DEF Shape, LockShape, CallShape, Current, Busy, Caller
<1>4. NoneFails' /\ StepAhead'
  <2>1. \A t \in Server : lock[t] # Null => Current(t)' = Current(t)
    BY <1>2 DEF Current
  <2> QED
    BY <1>3, <2>1, NobodyAhead
<1> QED
  BY <1>1, <1>4

LEMMA ClientReplicates ==
    ASSUME TypeOK, Shape, Calm, Sent, NoneFails, StepAhead, NEW c \in Client,
           IssueUpdate(c) \/ IssueGet(c) \/ Finish(c) \/ ClientLost(c)
    PROVE  (Sent /\ NoneFails /\ StepAhead)'
<1> USE DEF zkVars, mainVars, nextVars, tableVars
<1>0. c \in Caller
  BY DEF Caller
<1>1. /\ UNCHANGED <<znodes, phase, next, table, lock, stage>>
      /\ \A y \in Caller : y # c => call'[y] = call[y]
  BY DEF IssueUpdate, IssueGet, Finish, ClientLost, Send, TypeOK
<1>2. \A t \in Server : lock[t] # c
  BY <1>0, NullIsNoServer DEF IssueUpdate, IssueGet, Finish, ClientLost, Shape, LockShape, Calm,
                              Busy, Alive
<1>3. Busy(c)' => call'[c].to = zk_get_head(znodes)
  <2>1. CASE IssueUpdate(c)
    BY <1>0, <2>1 DEF IssueUpdate, Send, TypeOK
  <2>2. CASE IssueGet(c)
    BY <1>0, <2>2 DEF IssueGet, Send, TypeOK, Busy, IsUpdate
  <2>3. CASE Finish(c) \/ ClientLost(c)
    BY <1>0, <2>3 DEF Finish, ClientLost, TypeOK, Busy
  <2> QED
    BY <2>1, <2>2, <2>3
<1> QED
  BY <1>0, <1>1, <1>2, <1>3, OthersReplicate

LEMMA ReadReplicates ==
    ASSUME TypeOK, Shape, Calm, Sent, NoneFails, StepAhead, NEW x \in Caller,
           AnswerLost(x) \/ \E s \in Server : Get(x, s) \/ GetTable(x, s)
    PROVE  /\ (Sent /\ NoneFails /\ StepAhead)'
           /\ ~Busy(x) /\ ~Busy(x)'
<1> USE DEF zkVars, mainVars, nextVars, tableVars
<1>1. call[x] # Null /\ ~Busy(x)
  BY DEF AnswerLost, Get, GetTable, At, Busy, IsUpdate, Calm, Alive
<1>2. /\ UNCHANGED <<znodes, phase, next, table, lock, stage>>
      /\ AnswerLost(x) \/ \E a : Respond(x, a)
  BY DEF AnswerLost, Get, GetTable
<1>3. \A y \in Caller : y # x => call'[y] = call[y]
  BY <1>2 DEF AnswerLost, Respond, TypeOK
<1>4. ~Busy(x)'
  <2>1. CASE AnswerLost(x)
    BY <1>1, <2>1 DEF AnswerLost, Busy, TypeOK, Call
  <2>2. ASSUME NEW a, Respond(x, a) PROVE ~Busy(x)'
    BY <1>1, <2>2 DEF Respond, Busy, TypeOK, Call
  <2> QED
    BY <1>2, <2>1, <2>2
<1> QED
  BY <1>1, <1>2, <1>3, <1>4, OthersReplicate

\* While an update is on its way: every step.
LEMMA BusyReplicates ==
    ASSUME TypeOK, Shape, Linking, Calm, OneAtATime, Sent, NoneFails, StepAhead,
           NEW y \in Caller, Busy(y), Next
    PROVE  (Sent /\ NoneFails /\ StepAhead)'
<1>1. Settled
  BY DEF Calm
<1>2. ASSUME NEW s \in Server, Handler(s) PROVE (Sent /\ NoneFails /\ StepAhead)'
  BY <1>1, <1>2, SteadyHandlers, BeginReplicates, MissingReplicates, ReadReplicates,
     ForwardReplicates, ReplyInReplicates, ReplyReplicates DEF Handler
<1> QED
  BY <1>2, BusyBlocks, ClientReplicates, ReadReplicates DEF Next

\* While there is none, nobody works.
LEMMA QuietReplicates ==
    ASSUME TypeOK, Shape, NobodyBusy
    PROVE  /\ Sent /\ NoneFails
           /\ Alike => StepAhead
           /\ \A s \in Server : stage[s] = "idle" /\ lock[s] = Null
<1>1. \A s \in Server : stage[s] = "idle" /\ lock[s] = Null
  BY DEF NobodyBusy, Busy, Shape, LockShape, TypeOK
<1>2. Sent /\ NoneFails
  BY <1>1 DEF NobodyBusy, Sent, NoneFails
<1>3. Alike => StepAhead
  BY <1>1 DEF Alike, StepAhead, OneStep, Ahead, Serving
<1> QED
  BY <1>1, <1>2, <1>3
-----------------------------------------------------------------------------
(* The steps while no update is on its way.                                *)

\* Only the newest server starts; the others that have a z-node serve.
LEMMA OthersServe ==
    ASSUME TypeOK, Linking, Copying, NEW s \in Server, Joining(s)
    PROVE  /\ s \in znodes /\ znodes \subseteq Server /\ Serving \subseteq znodes \ {s}
           /\ \A t \in znodes : t # s => t \in Serving
           /\ \A t \in Server : Joining(t) => t = s
<1>1. s \in znodes /\ znodes \subseteq Server /\ Serving \subseteq znodes \ {s}
  BY DEF Linking, Members, TypeOK, Joining, Alive, Serving
<1>2. \A t \in Server : Joining(t) => t = s
  <2>1. \A t \in Server : t \in Nat
    BY ChainAssumption
  <2>2. \A t \in Server : Joining(t) => t <= s /\ s <= t
    BY DEF Linking, Newest, Joining
  <2> QED
    BY <2>1, <2>2
<1>3. \A t \in znodes : t # s => t \in Serving
  <2>1. \A t \in znodes : t \in Server /\ Alive(t)
    BY <1>1 DEF Copying, AllUp
  <2>2. \A t \in Server : Alive(t) => Joining(t) \/ t \in Serving
    BY DEF TypeOK, Alive, Joining, Serving
  <2> QED
    BY <1>2, <2>1, <2>2
<1> QED
  BY <1>1, <1>2, <1>3

LEMMA NobodyCopies ==
    ASSUME \A s \in Server : ~Joining(s)'
    PROVE  Copying'
BY DEF Copying, Joining

LEMMA CopyingStays ==
    ASSUME TypeOK, Copying, UNCHANGED <<znodes, phase, source, table>>,
           \A s \in Server : phase[s] = "fetching" =>
               /\ call'[s].to = call[s].to
               /\ \/ call'[s].answer \in {call[s].answer, Null}
                  \/ \A t \in Serving : call'[s].answer.table = table[t]
    PROVE  Copying'
<1>1. Serving' = Serving /\ AllUp' = AllUp /\ \A s \in Server : Joining(s)' <=> Joining(s)
  BY DEF Serving, AllUp, Alive, Joining
<1> QED
  BY <1>1 DEF Copying

LEMMA ListCopies ==
    ASSUME TypeOK, Linking, Copying, Alike, NEW s \in Server, List(s)
    PROVE  Alike' /\ Copying'
<1>1. /\ UNCHANGED <<znodes, table, call>> /\ Joining(s) /\ ~(s \in Serving)
      /\ \A t \in Server : t # s => phase'[t] = phase[t]
      /\ \/ Cardinality(znodes) <= 1 /\ phase'[s] = "serving"
         \/ /\ get_second_highest_id(znodes, s) # Null /\ phase'[s] = "listed"
            /\ source'[s] = get_second_highest_id(znodes, s)
  BY DEF List, Joining, Serving, tableVars, TypeOK
<1>2. /\ s \in znodes /\ znodes \subseteq Server /\ Serving \subseteq znodes \ {s}
      /\ \A t \in znodes : t # s => t \in Serving
      /\ \A t \in Server : Joining(t) => t = s
  BY <1>1, OthersServe
<1>3. \A t \in Server : t # s => ~Joining(t)'
  BY <1>1, <1>2 DEF Joining
<1>4. CASE Cardinality(znodes) <= 1 /\ phase'[s] = "serving"
  <2>1. IsFiniteSet(znodes)
    BY <1>2, FS_Subset, ChainAssumption
  <2>2. znodes \ {s} = {}
    <3>1. /\ IsFiniteSet(znodes \ {s}) /\ Cardinality(znodes \ {s}) = Cardinality(znodes) - 1
          /\ Cardinality(znodes) \in Nat
      BY <1>2, <2>1, FS_RemoveElement, FS_CardinalityType
    <3>2. Cardinality(znodes \ {s}) \in Nat
      BY <3>1, FS_CardinalityType
    <3>3. Cardinality(znodes \ {s}) = 0
      BY <1>4, <3>1, <3>2
    <3> QED
      BY <3>1, <3>3, FS_EmptySet
  <2>3. Serving' = {s}
    BY <1>1, <1>2, <1>4, <2>2 DEF Serving
  <2>4. Alike'
    BY <2>3 DEF Alike
  <2>5. ~Joining(s)'
    BY <1>4 DEF Joining
  <2> QED
    BY <1>3, <2>4, <2>5, NobodyCopies
<1>5. CASE /\ get_second_highest_id(znodes, s) # Null /\ phase'[s] = "listed"
           /\ source'[s] = get_second_highest_id(znodes, s)
  <2> DEFINE B == {t \in znodes : t < s}
  <2>1. B # {} /\ get_second_highest_id(znodes, s) = zk_get_tail(B)
    BY <1>5 DEF get_second_highest_id
  <2>2. zk_get_tail(B) \in B
    <3>1. B \subseteq Server
      BY <1>2
    <3> HIDE DEF B
    <3> QED
      BY <2>1, <3>1, TailIsGreatest
  <2>3. source'[s] \in znodes /\ source'[s] < s /\ source'[s] # s
    <3>1. \A t \in znodes : t < s => t # s
      BY <1>2, ChainAssumption
    <3> QED
      BY <1>5, <2>1, <2>2, <3>1
  <2>4. Serving' = Serving
    BY <1>1, <1>5 DEF Serving
  <2>5. AllUp' /\ AllUp
    <3>1. AllUp
      BY <1>1 DEF Copying
    <3> QED
      BY <1>1, <1>2, <1>5, <3>1 DEF AllUp, Alive
  <2>6. Alike'
    BY <1>1, <2>4 DEF Alike
  <2>7. Copying'
    <3>1. \A t \in Server : t # s => phase'[t] \notin {"listed", "fetching"}
      BY <1>3 DEF Joining
    <3> QED
      BY <1>2, <1>3, <1>5, <2>3, <2>4, <2>5, <3>1 DEF Copying
  <2> QED
    BY <2>6, <2>7
<1> QED
  BY <1>1, <1>4, <1>5

LEMMA FetchCopies ==
    ASSUME TypeOK, Linking, Copying, Alike, NEW s \in Server,
           Fetch(s) \/ Fill(s) \/ FetchLost(s)
    PROVE  Alike' /\ Copying'
<1>1. /\ phase[s] \in {"listed", "fetching"} /\ Joining(s) /\ ~(s \in Serving)
      /\ UNCHANGED znodes
      /\ \A t \in Server : t # s => phase'[t] = phase[t]
      /\ source[s] \in Serving
  BY DEF Fetch, Fill, FetchLost, Joining, Serving, zkVars, TypeOK, Copying
<1>2. /\ s \in znodes /\ znodes \subseteq Server /\ Serving \subseteq znodes \ {s}
      /\ \A t \in Server : Joining(t) => t = s
  BY <1>1, OthersServe
<1>3. \A t \in Server : t # s => ~Joining(t)'
  BY <1>1, <1>2 DEF Joining
<1>4. CASE Fetch(s)
  <2>1. /\ phase'[s] = "fetching" /\ UNCHANGED <<source, table>>
        /\ call'[s] = [to |-> source[s], req |-> [op |-> "gettable"], answer |-> Null]
    BY <1>4 DEF Fetch, Send, tableVars, TypeOK, Caller
  <2>2. Serving' = Serving
    BY <1>1, <2>1 DEF Serving
  <2>3. AllUp'
    <3>1. AllUp
      BY <1>1 DEF Copying
    <3> QED
      BY <1>1, <1>2, <2>1, <3>1 DEF AllUp, Alive
  <2>4. Alike'
    BY <2>1, <2>2 DEF Alike
  <2>5. \A t \in Server : t # s => phase'[t] \notin {"listed", "fetching"}
    BY <1>3 DEF Joining
  <2> QED
    BY <1>1, <1>3, <2>1, <2>2, <2>3, <2>4, <2>5 DEF Copying
<1>5. CASE Fill(s)
  <2>1. /\ phase[s] = "fetching" /\ phase'[s] = "serving" /\ call[s].answer # Null
        /\ table'[s] = call[s].answer.table
        /\ \A t \in Server : t # s => table'[t] = table[t]
    BY <1>5 DEF Fill, TypeOK
  <2>2. Serving' = Serving \cup {s}
    BY <1>1, <2>1 DEF Serving
  <2>3. \A t \in Serving : table'[t] = table[t] /\ table'[s] = table[t]
    BY <1>1, <1>2, <2>1 DEF Copying, Serving
  <2>4. Alike'
    BY <2>2, <2>3 DEF Alike
  <2>5. ~Joining(s)'
    BY <2>1 DEF Joining
  <2> QED
    BY <1>3, <2>4, <2>5, NobodyCopies
<1>6. ~FetchLost(s)
  <2>1. phase[s] = "fetching" => Alive(call[s].to)
    BY DEF Copying, Serving, Alive
  <2>2. Alive(source[s])
    BY <1>1 DEF Serving, Alive
  <2> QED
    BY <2>1, <2>2 DEF FetchLost
<1> QED
  BY <1>4, <1>5, <1>6

\* No operation is pending when the membership changes.
LEMMA ChangeCopies ==
    ASSUME TypeOK, Linking, Copying, Alike, OneAtATime, NEW s \in Server,
           Register(s) \/ Expire(s) \/ Crash(s)
    PROVE  Alike' /\ Copying'
<1>1. CASE Register(s)
  <2>1. /\ Settled /\ phase[s] = "off" /\ phase'[s] = "registered" /\ znodes' = znodes \cup {s}
        /\ UNCHANGED table
        /\ \A t \in Server : t # s => phase'[t] = phase[t]
    BY <1>1 DEF Register, OneAtATime, tableVars, TypeOK
  <2>2. Serving' = Serving
    BY <2>1 DEF Serving
  <2>3. AllUp'
    <3>1. AllUp /\ znodes \subseteq Server
      BY <2>1, SettledLinks DEF TypeOK
    <3> QED
      BY <2>1, <3>1 DEF AllUp, Alive
  <2>4. \A t \in Server : phase'[t] \notin {"listed", "fetching"}
    BY <2>1 DEF Settled, Alive
  <2> QED
    BY <2>1, <2>2, <2>3, <2>4 DEF Alike, Copying
<1>2. CASE Expire(s)
  <2>1. UNCHANGED <<phase, table>> /\ s \in znodes /\ ~Alive(s)
    BY <1>2 DEF Expire, mainVars, tableVars, Alive
  <2>2. \A t \in Server : ~Joining(t)
    BY <2>1 DEF Copying, AllUp
  <2>3. \A t \in Server : ~Joining(t)'
    BY <2>1, <2>2 DEF Joining
  <2> QED
    BY <2>1, <2>3, NobodyCopies DEF Alike, Serving
<1>3. CASE Crash(s)
  <2>1. /\ Settled /\ phase'[s] = "crashed"
        /\ \A t \in Server : t # s => phase'[t] = phase[t] /\ table'[t] = table[t]
    BY <1>3 DEF Crash, Down, OneAtATime, TypeOK
  <2>2. \A t \in Server : ~Joining(t)'
    BY <2>1 DEF Settled, Alive, Joining
  <2>3. Alike'
    BY <2>1 DEF Alike, Serving
  <2> QED
    BY <2>2, <2>3, NobodyCopies
<1> QED
  BY <1>1, <1>2, <1>3

\* Reads, lost answers and the handler of the membership: what a server that
\* starts has asked for is lost, or it is the table of a server that serves.
ReadStep ==
    \/ \E c \in Client : IssueGet(c) \/ Finish(c) \/ ClientLost(c)
    \/ \E x \in Caller : AnswerLost(x)
    \/ \E x \in Caller, s \in Server : Get(x, s) \/ GetTable(x, s)
    \/ \E s \in Server : Notice(s) \/ Disconnect(s) \/ Connect(s)

LEMMA CopyInHand ==
    ASSUME TypeOK, Shape, Copying, ReadStep, NEW s \in Server, phase[s] = "fetching"
    PROVE  /\ call'[s].to = call[s].to
           /\ \/ call'[s].answer \in {call[s].answer, Null}
              \/ \E r \in Serving : call'[s].answer = [table |-> table[r], log |-> log[r]]
<1> USE DEF zkVars, mainVars, tableVars
<1> DEFINE Goal == /\ call'[s].to = call[s].to
                   /\ \/ call'[s].answer \in {call[s].answer, Null}
                      \/ \E r \in Serving :
                            call'[s].answer = [table |-> table[r], log |-> log[r]]
<1>1. s \in Caller /\ call[s] \in Call /\ call[s].req.op = "gettable" /\ call[s].to \in Serving
  BY DEF Shape, CallShape, TypeOK, Caller, Copying
<1>2. ASSUME call'[s] = call[s] PROVE Goal
  BY <1>2
<1>3. ASSUME NEW c \in Client, IssueGet(c) \/ Finish(c) \/ ClientLost(c) PROVE Goal
  <2>1. c # s /\ c \in Caller
    BY ChainAssumption DEF Caller
  <2> QED
    BY <1>1, <1>2, <1>3, <2>1 DEF IssueGet, Finish, ClientLost, Send, TypeOK
<1>4. ASSUME NEW x \in Caller, AnswerLost(x) PROVE Goal
  <2>1. x # s
    BY <1>1, <1>4 DEF AnswerLost, Serving
  <2> QED
    BY <1>1, <1>2, <1>4, <2>1 DEF AnswerLost, TypeOK
<1>5. ASSUME NEW x \in Caller, NEW r \in Server, Get(x, r) PROVE Goal
  <2>1. x # s
    BY <1>1, <1>5 DEF Get
  <2> QED
    BY <1>1, <1>2, <1>5, <2>1 DEF Get, Respond, TypeOK
<1>6. ASSUME NEW x \in Caller, NEW r \in Server, GetTable(x, r) PROVE Goal
  <2>1. CASE x # s
    BY <1>1, <1>2, <1>6, <2>1 DEF GetTable, Respond, TypeOK
  <2>2. CASE x = s
    <3>1. ~Dead(s) /\ r \in Serving
      BY <1>6 DEF Dead, GetTable, At, Serving
    <3>2. call'[s] = [call[s] EXCEPT !.answer = [table |-> table[r], log |-> log[r]]]
      BY <1>1, <1>6, <2>2, <3>1 DEF GetTable, Respond, TypeOK
    <3>3. /\ call'[s].to = call[s].to
          /\ call'[s].answer = [table |-> table[r], log |-> log[r]]
      BY <1>1, <3>2 DEF Call
    <3> QED
      BY <3>1, <3>3
  <2> QED
    BY <2>1, <2>2
<1>7. ASSUME NEW r \in Server, Notice(r) \/ Disconnect(r) \/ Connect(r) PROVE Goal
  BY <1>2, <1>7 DEF Notice, Disconnect, Connect
<1> QED
  BY <1>3, <1>4, <1>5, <1>6, <1>7 DEF ReadStep

LEMMA ReadCopies ==
    ASSUME TypeOK, Shape, Copying, Alike, ReadStep
    PROVE  Alike' /\ Copying'
<1>1. UNCHANGED <<znodes, phase, source, table>>
  BY DEF ReadStep, IssueGet, Finish, ClientLost, AnswerLost, Get, GetTable, Notice, Disconnect,
         Connect, zkVars, mainVars, tableVars
<1>2. Alike'
  BY <1>1 DEF Alike, Serving
<1>3. ASSUME NEW s \in Server, phase[s] = "fetching"
      PROVE  /\ call'[s].to = call[s].to
             /\ \/ call'[s].answer \in {call[s].answer, Null}
                \/ \A t \in Serving : call'[s].answer.table = table[t]
  <2>1. ASSUME NEW r \in Serving, call'[s].answer = [table |-> table[r], log |-> log[r]]
        PROVE  \A t \in Serving : call'[s].answer.table = table[t]
    <3>1. call'[s].answer.table = table[r]
      BY <2>1
    <3> QED
      BY <3>1 DEF Alike
  <2> QED
    BY <1>3, <2>1, CopyInHand
<1> QED
  BY <1>1, <1>2, <1>3, CopyingStays

\* While no update is on its way, handlers answer reads.
LEMMA QuietHandlers ==
    ASSUME TypeOK, Shape, Linking, Calm, NobodyBusy, NEW s \in Server, Handler(s)
    PROVE  \E x \in Caller : Get(x, s) \/ GetTable(x, s)
<1>1. stage[s] = "idle" /\ ~ForwardLost(s) /\ ~PeerLost(s)
  BY QuietReplicates, SteadyHandlers
<1>2. \A x \in Caller : ~Begin(x, s) /\ ~BeginMissing(x, s)
  BY DEF NobodyBusy, Busy, Begin, BeginMissing, At, IsUpdate
<1> QED
  BY <1>1, <1>2 DEF Handler, Forward, ReplyIn, Reply

\* The steps while no update is on its way.
LEMMA QuietSteps ==
    ASSUME TypeOK, Shape, Linking, Calm, NobodyBusy, Next,
           \A c \in Client : ~IssueUpdate(c), \A s \in Server : ~DoubleDisconnect(s)
    PROVE  \/ ReadStep
           \/ \E s \in Server : List(s) \/ Fetch(s) \/ Fill(s) \/ FetchLost(s)
           \/ \E s \in Server : Register(s) \/ Expire(s) \/ Crash(s)
BY QuietHandlers, SteadyHandlers DEF Next, ReadStep, Main, Watcher

LEMMA QuietStays ==
    ASSUME TypeOK, Shape, Linking, Calm, OneAtATime, Copying, Alike, NobodyBusy, Next,
           \A c \in Client : ~IssueUpdate(c), \A s \in Server : ~DoubleDisconnect(s)
    PROVE  NobodyBusy' /\ Alike' /\ Copying'
<1> USE DEF zkVars, mainVars, nextVars, tableVars
<1>1. ReadStep \/ \E s \in Server : List(s) \/ Fetch(s) \/ Fill(s) \/ FetchLost(s)
                                  \/ Register(s) \/ Expire(s) \/ Crash(s)
  BY QuietSteps
<1>2. Alike' /\ Copying'
  BY <1>1, ReadCopies, ListCopies, FetchCopies, ChangeCopies
<1>3. NobodyBusy'
  <2>1. ASSUME NEW c \in Client, IssueGet(c) \/ Finish(c) \/ ClientLost(c) PROVE NobodyBusy'
    <3>1. c \in Caller /\ \A y \in Caller : y # c => call'[y] = call[y]
      BY <2>1 DEF IssueGet, Finish, ClientLost, Send, TypeOK, Caller
    <3>2. call'[c] = Null \/ call'[c].req.op = "get"
      BY <2>1, <3>1 DEF IssueGet, Finish, ClientLost, Send, TypeOK
    <3> QED
      BY <3>1, <3>2 DEF NobodyBusy, Busy, IsUpdate
  <2>2. ASSUME NEW x \in Caller, AnswerLost(x) \/ \E s \in Server : Get(x, s) \/ GetTable(x, s)
        PROVE NobodyBusy'
    <3>1. call[x] # Null /\ call[x] \in Call /\ ~IsUpdate(call[x].req)
      BY <2>2 DEF AnswerLost, Get, GetTable, At, NobodyBusy, Busy, TypeOK
    <3>2. \A y \in Caller : y # x => call'[y] = call[y]
      BY <2>2 DEF AnswerLost, Get, GetTable, Respond, TypeOK
    <3>3. AnswerLost(x) \/ \E a : Respond(x, a)
      BY <2>2 DEF Get, GetTable
    <3>4. call'[x] = Null \/ call'[x].req = call[x].req
      BY <3>1, <3>3 DEF AnswerLost, Respond, TypeOK, Call
    <3> QED
      BY <3>1, <3>2, <3>4 DEF NobodyBusy, Busy
  <2>3. ASSUME NEW s \in Server, List(s) \/ Fetch(s) \/ Fill(s) \/ FetchLost(s)
        PROVE  NobodyBusy'
    <3>1. s \in Caller /\ \A y \in Caller : y # s => call'[y] = call[y]
      BY <2>3 DEF List, Fetch, Fill, FetchLost, Send, TypeOK, Caller
    <3>2. call'[s] = Null \/ call'[s] = call[s] \/ call'[s].req.op = "gettable"
      BY <2>3, <3>1 DEF List, Fetch, Fill, FetchLost, Send, TypeOK
    <3> QED
      BY <3>1, <3>2 DEF NobodyBusy, Busy, IsUpdate
  <2>4. ASSUME NEW s \in Server, Crash(s) PROVE NobodyBusy'
    <3>1. call' = CallsWithout(s)
      BY <2>4 DEF Crash, Down
    <3> QED
      BY <3>1 DEF CallsWithout, NobodyBusy, Busy
  <2>5. ASSUME UNCHANGED call PROVE NobodyBusy'
    BY <2>5 DEF NobodyBusy, Busy
  <2> QED
    BY <1>1, <2>1, <2>2, <2>3, <2>4, <2>5
       DEF ReadStep, Notice, Disconnect, Connect, Register, Expire
<1> QED
  BY <1>2, <1>3

\* A server that went down for another reason than a fault is not forgotten.
LEMMA CauseStep ==
    ASSUME TypeOK, Shape, Linking, Calm, Up, [Next]_vars
    PROVE  /\ Up'
           /\ NoCascade' => NoCascade /\ \A s \in Server : ~DoubleDisconnect(s)
<1> USE DEF zkVars, mainVars, nextVars, tableVars
<1>1. ASSUME UNCHANGED cause, \A s \in Server : phase[s] = "crashed" => phase'[s] = "crashed"
      PROVE  Up' /\ (NoCascade' => NoCascade)
  BY <1>1 DEF Up, NoCascade
<1>2. ASSUME NEW s \in Server, NEW why, Alive(s), Down(s, why)
      PROVE  Up' /\ (NoCascade' => NoCascade /\ why \in {"none", "fault"})
  <2>1. /\ \A t \in Server : phase'[t] = IF t = s THEN "crashed" ELSE phase[t]
        /\ \A t \in Server : cause'[t] = IF t = s THEN why ELSE cause[t]
    BY <1>2 DEF Down, TypeOK
  <2> QED
    BY <1>2, <2>1 DEF Up, NoCascade, Alive
<1>3. ASSUME NEW s \in Server, DoubleDisconnect(s) PROVE Up' /\ ~NoCascade'
  <2>1. Alive(s) /\ Down(s, "double_disconnect")
    BY <1>3 DEF DoubleDisconnect, Linking, Newest, Unlinked
  <2> QED
    BY <1>2, <2>1
<1>4. CASE \E s \in Server : DoubleDisconnect(s)
  BY <1>3, <1>4
<1>5. CASE \A s \in Server : ~DoubleDisconnect(s)
  <2>1. ASSUME NEW s \in Server, Crash(s) PROVE Up' /\ (NoCascade' => NoCascade)
    BY <1>2, <2>1 DEF Crash
  <2>2. ASSUME NEW s \in Server, Handler(s)
        PROVE  UNCHANGED <<cause, phase>>
    BY <2>2, SteadyHandlers DEF Handler, Begin, BeginMissing, Get, GetTable, Forward, ReplyIn,
                                Reply
  <2>3. ASSUME NEW s \in Server, Main(s) \/ Register(s)
        PROVE  UNCHANGED cause /\ \A t \in Server : phase[t] = "crashed" => phase'[t] = "crashed"
    BY <2>3, SteadyHandlers DEF Main, List, Fetch, Fill, FetchLost, Register, TypeOK
  <2>4. ASSUME NEW s \in Server, Notice(s) \/ Disconnect(s) \/ Connect(s) \/ Expire(s)
        PROVE  UNCHANGED <<cause, phase>>
    BY <2>4 DEF Notice, Disconnect, Connect, Expire
  <2>5. ASSUME \/ \E c \in Client : IssueUpdate(c) \/ IssueGet(c) \/ Finish(c) \/ ClientLost(c)
               \/ \E x \in Caller : AnswerLost(x)
               \/ UNCHANGED vars
        PROVE  UNCHANGED <<cause, phase>>
    BY <2>5 DEF IssueUpdate, IssueGet, Finish, ClientLost, AnswerLost, vars
  <2> QED
    BY <1>1, <1>5, <2>1, <2>2, <2>3, <2>4, <2>5 DEF Next, Watcher
<1> QED
  BY <1>4, <1>5

LEMMA AtRestNext ==
    (TypeOK /\ Shape /\ Linking /\ Settled /\ StepAhead /\ NobodyBusy => Alike)'
<1>1. TypeOK /\ Shape /\ Linking /\ Settled /\ StepAhead /\ NobodyBusy => Alike
  BY AlikeAtRest
<1> QED
  BY <1>1, PTL

LEMMA QuietNext ==
    (TypeOK /\ Shape /\ NobodyBusy /\ Alike => Sent /\ NoneFails /\ StepAhead)'
<1>1. TypeOK /\ Shape /\ NobodyBusy /\ Alike => Sent /\ NoneFails /\ StepAhead
  BY QuietReplicates
<1> QED
  BY <1>1, PTL

LEMMA ReplicatedStep ==
    ASSUME TypeOK, Shape, Linking, Calm, (TypeOK /\ Shape /\ Linking)', OneAtATime,
           Replicated, Next, \A s \in Server : ~DoubleDisconnect(s)
    PROVE  Replicated'
<1> USE DEF Replicated
\* While an update is on its way, or when one is issued, all have settled.
<1>1. ASSUME Settled, UNCHANGED <<zkVars, mainVars, nextVars>>, (Sent /\ NoneFails /\ StepAhead)'
      PROVE  Replicated'
  <2>1. Settled'
    BY <1>1 DEF Settled, Alive, zkVars, mainVars, nextVars
  <2>2. NobodyBusy' => Alike'
    BY <1>1, <2>1, AtRestNext
  <2>3. \A s \in Server : ~Joining(s)'
    BY <1>1 DEF Settled, Alive, Joining, mainVars
  <2> QED
    BY <1>1, <2>2, <2>3, NobodyCopies
<1>2. CASE \E y \in Caller : Busy(y)
  <2>1. Settled
    BY <1>2 DEF Calm
  <2> QED
    BY <1>1, <1>2, <2>1, BusyStays, BusyReplicates
<1>3. CASE \E c \in Client : IssueUpdate(c)
  BY <1>1, <1>3, ClientReplicates DEF IssueUpdate, OneAtATime
<1>4. CASE NobodyBusy /\ \A c \in Client : ~IssueUpdate(c)
  <2>1. NobodyBusy' /\ Alike' /\ Copying'
    BY <1>4, QuietStays
  <2> QED
    BY <2>1, QuietNext
<1> QED
  BY <1>2, <1>3, <1>4 DEF NobodyBusy

Agreement == Up /\ (NoCascade => Replicated)

LEMMA AgreementStep ==
    ASSUME OneChange, OneChange', OneAtATime, Agreement, [Next]_vars
    PROVE  Agreement'
<1> USE DEF OneChange, Agreement
<1>1. Up' /\ (NoCascade' => NoCascade /\ \A s \in Server : ~DoubleDisconnect(s))
  BY CauseStep
<1>2. CASE Next
  BY <1>1, <1>2, ReplicatedStep
<1>3. CASE UNCHANGED vars
  <2>1. Replicated' <=> Replicated
    BY <1>3 DEF vars, zkVars, mainVars, nextVars, tableVars, Replicated, Sent, NoneFails,
                StepAhead, OneStep, Ahead, Current, NobodyBusy, Busy, Alike, Copying, Joining,
                AllUp, Alive, Serving
  <2> QED
    BY <1>1, <2>1
<1> QED
  BY <1>2, <1>3

LEMMA InitialAgreement == Init => Agreement
<1> SUFFICES ASSUME Init PROVE Agreement
  OBVIOUS
<1>1. Up
  BY DEF Init, Up
<1>2. NobodyBusy /\ Alike
  BY DEF Init, NobodyBusy, Busy, Alike, Serving, Caller
<1>3. Sent /\ NoneFails /\ StepAhead
  BY <1>2, InitialState, QuietReplicates
<1>4. \A s \in Server : ~Joining(s)
  BY DEF Init, Joining
<1>5. Copying
  BY <1>4 DEF Copying, Joining
<1> QED
  BY <1>1, <1>2, <1>3, <1>5 DEF Agreement, Replicated

\* When servers start and fail one at a time, and the clients wait meanwhile,
\* all tables are the same whenever all is quiet: updates reach every server
\* (invoke), and one that starts copies them (fill_table).
THEOREM AgreeAfterChanges ==
    ASSUME OneAtATime
    PROVE  Spec => []ReplicasAgree
<1>1. OneChange /\ Agreement => ReplicasAgree
  BY DEF Agreement, Replicated, Alike, ReplicasAgree, NoPendingOps, NobodyBusy, Busy, IsUpdate
<1>2. Init => Agreement
  BY InitialAgreement
<1>3. OneChange /\ OneChange' /\ Agreement /\ [Next]_vars => Agreement'
  BY AgreementStep
<1> QED
  BY <1>1, <1>2, <1>3, OneChangeAlways, PTL DEF Spec
-----------------------------------------------------------------------------
(* 6. Servers start and fail at any moment, and nothing is deleted: the     *)
(* order of the updates.                                                   *)

\* t has started, and no server between p and t is alive.
NoneBetween(p, t) ==
    /\ p < t /\ phase[t] # "off"
    /\ \A r \in Server : p < r /\ r < t => ~Alive(r)

InChain == \A s \in Server : Alive(s) => s \in znodes

Puts == \A x \in Caller : Busy(x) => call[x].req.op = "put"

\* Nobody alive is passed over, by whatever may be outdated.
CallPoints(s) == call[s] # Null =>
    IF IsUpdate(call[s].req) THEN NoneBetween(s, call[s].to) ELSE NoneBetween(call[s].to, s)
PassesNobody == \A s \in Server :
    /\ next[s] # Null => NoneBetween(s, next[s])
    /\ link[s].to # Null => NoneBetween(s, link[s].to)
    /\ source[s] # Null => NoneBetween(source[s], s)
    /\ CallPoints(s)

\* Requests are at servers that have started.
Addressed == \A x \in Caller : call[x] # Null => phase[call[x].to] # "off"

Placed == InChain /\ Puts /\ Addressed /\ PassesNobody

\* Only a new server, above all others, comes to life.
OnlyNewStarts ==
    /\ \A t \in Server : phase[t] # "off" => phase'[t] # "off"
    /\ \A r \in Server : Alive(r)' => Alive(r) \/ \A t \in Server : phase[t] # "off" => t < r

LEMMA DownPhases ==
    ASSUME TypeOK, NEW s \in Server, NEW why, Down(s, why)
    PROVE  /\ \A t \in Server : phase'[t] = IF t = s THEN "crashed" ELSE phase[t]
           /\ OnlyNewStarts /\ ~Alive(s)' /\ \A t \in Server : t # s => (Alive(t)' <=> Alive(t))
<1>1. \A t \in Server : phase'[t] = IF t = s THEN "crashed" ELSE phase[t]
  BY DEF Down, TypeOK
<1> QED
  BY <1>1 DEF OnlyNewStarts, Alive

\* The steps when nothing is deleted.
LEMMA PutSteps ==
    ASSUME TypeOK, Shape, Puts, Next
    PROVE  \/ \E c \in Client : IssueUpdate(c) \/ IssueGet(c) \/ Finish(c) \/ ClientLost(c)
           \/ \E x \in Caller : AnswerLost(x)
           \/ \E s \in Server : \E why : Down(s, why)
           \/ \E s \in Server, x \in Caller : Begin(x, s) \/ Get(x, s) \/ GetTable(x, s)
           \/ \E s \in Server : Forward(s) \/ ReplyIn(s) \/ Reply(s)
           \/ \E s \in Server : List(s) \/ Fetch(s) \/ Fill(s) \/ FetchLost(s)
           \/ \E s \in Server : Notice(s) \/ Disconnect(s) \/ Connect(s)
           \/ \E s \in Server : Register(s) \/ Expire(s)
<1>1. ASSUME NEW s \in Server, ForwardLost(s) \/ PeerLost(s)
      PROVE  \E why : Down(s, why)
  <2>1. stage[s] \in {"forward", "wait"} /\ \E why : NoReply(s, why)
    BY <1>1 DEF ForwardLost, PeerLost
  <2>2. lock[s] \in Caller /\ Busy(lock[s])
    BY <2>1 DEF Shape, LockShape, Busy, TypeOK
  <2>3. Current(s).op = "put"
    BY <2>2 DEF Puts, Current
  <2> QED
    BY <2>1, <2>3 DEF NoReply
<1>2. ASSUME NEW s \in Server, NEW x \in Caller PROVE ~BeginMissing(x, s)
  BY DEF BeginMissing, At, Puts, Busy, IsUpdate
<1> QED
  BY <1>1, <1>2 DEF Next, Handler, Main, Watcher, DoubleDisconnect, Crash, ListNothingBelow

LEMMA StartsStep ==
    ASSUME TypeOK, Shape, Puts, Next
    PROVE  OnlyNewStarts
<1> USE DEF zkVars, mainVars, nextVars, tableVars, history
<1>1. ASSUME UNCHANGED phase PROVE OnlyNewStarts
  BY <1>1 DEF OnlyNewStarts, Alive
<1>2. ASSUME NEW s \in Server, NEW x \in Caller, Begin(x, s) \/ Get(x, s) \/ GetTable(x, s)
      PROVE  UNCHANGED phase
  BY <1>2 DEF Begin, Get, GetTable
<1>3. ASSUME NEW s \in Server, List(s) \/ Fetch(s) \/ Fill(s) \/ FetchLost(s)
      PROVE  OnlyNewStarts
  <2>1. Alive(s) /\ Alive(s)' /\ \A t \in Server : t # s => phase'[t] = phase[t]
    BY <1>3 DEF List, Fetch, Fill, FetchLost, Alive, TypeOK
  <2> QED
    BY <2>1 DEF OnlyNewStarts, Alive
<1>4. ASSUME NEW s \in Server, Register(s) PROVE OnlyNewStarts
  <2>1. /\ \A t \in Server : phase'[t] = IF t = s THEN "registered" ELSE phase[t]
        /\ \A t \in Server : phase[t] = "off" <=> t >= s
    BY <1>4 DEF Register, TypeOK
  <2>2. \A t \in Server : phase[t] # "off" => t < s
    BY <2>1, ChainAssumption
  <2> QED
    BY <2>1, <2>2 DEF OnlyNewStarts, Alive
<1> QED
  BY <1>1, <1>2, <1>3, <1>4, PutSteps, DownPhases
     DEF IssueUpdate, IssueGet, Finish, ClientLost, AnswerLost, Forward, ReplyIn, Reply,
         Notice, Disconnect, Connect, Expire

LEMMA NoneComesBetween ==
    ASSUME OnlyNewStarts, NEW p \in Server, NEW t \in Server, NoneBetween(p, t)
    PROVE  NoneBetween(p, t)'
<1>1. p < t /\ phase'[t] # "off"
  BY DEF NoneBetween, OnlyNewStarts
<1>2. ASSUME NEW r \in Server, p < r, r < t PROVE ~Alive(r)'
  <2>1. ~Alive(r) /\ ~(t < r)
    BY <1>2, ChainAssumption DEF NoneBetween
  <2> QED
    BY <2>1 DEF OnlyNewStarts, NoneBetween
<1> QED
  BY <1>1, <1>2 DEF NoneBetween

\* A call keeps its server and its request; the new ones.
LEMMA CallSteps ==
    ASSUME TypeOK, Shape, Puts, Next, NEW y \in Caller, call'[y] # Null
    PROVE  \/ call[y] # Null /\ call'[y].to = call[y].to /\ call'[y].req = call[y].req
           \/ call[y] = Null /\ y \in Client /\ (IssueUpdate(y) \/ IssueGet(y))
           \/ call[y] = Null /\ y \in Server /\ (Forward(y) \/ Fetch(y))
<1> USE DEF zkVars, mainVars, nextVars, tableVars, history
<1> DEFINE Old == call[y] # Null /\ call'[y].to = call[y].to /\ call'[y].req = call[y].req
           New == \/ call[y] = Null /\ y \in Client /\ (IssueUpdate(y) \/ IssueGet(y))
                  \/ call[y] = Null /\ y \in Server /\ (Forward(y) \/ Fetch(y))
<1>0. \A s \in Server : s \in Caller
  BY DEF Caller
<1>1. ASSUME call'[y] = call[y] PROVE Old
  BY <1>1
<1>2. ASSUME NEW x \in Caller, call[x] # Null, NEW a, Respond(x, a) PROVE Old
  <2>1. call[x] \in Call /\ \A z \in Caller : z # x => call'[z] = call[z]
    BY <1>2 DEF Respond, TypeOK
  <2>2. call'[x] = Null \/ call'[x] = [call[x] EXCEPT !.answer = a]
    BY <1>2 DEF Respond, TypeOK
  <2>3. CASE y = x
    BY <1>2, <2>1, <2>2, <2>3 DEF Call
  <2> QED
    BY <1>1, <2>1, <2>3
<1>3. ASSUME NEW c \in Client, IssueUpdate(c) \/ IssueGet(c) \/ Finish(c) \/ ClientLost(c)
      PROVE  Old \/ New
  <2>1. c \in Caller
    BY DEF Caller
  <2>2. \A z \in Caller : z # c => call'[z] = call[z]
    BY <1>3, <2>1 DEF IssueUpdate, IssueGet, Finish, ClientLost, Send, TypeOK
  <2>3. call'[c] = Null \/ (call[c] = Null /\ (IssueUpdate(c) \/ IssueGet(c)))
    BY <1>3, <2>1 DEF IssueUpdate, IssueGet, Finish, ClientLost, TypeOK
  <2> QED
    BY <1>1, <2>2, <2>3
<1>4. ASSUME NEW x \in Caller, AnswerLost(x) PROVE Old
  <2>1. call[x] \in Call /\ \A z \in Caller : z # x => call'[z] = call[z]
    BY <1>4 DEF AnswerLost, TypeOK
  <2>2. call'[x] = [call[x] EXCEPT !.answer = Null] /\ call[x] # Null
    BY <1>4 DEF AnswerLost, TypeOK
  <2> QED
    BY <2>1, <2>2 DEF Call
<1>5. ASSUME NEW s \in Server, NEW why, Down(s, why) PROVE Old
  BY <1>5 DEF Down, CallsWithout
<1>6. ASSUME NEW s \in Server, NEW x \in Caller, Begin(x, s) \/ Get(x, s) \/ GetTable(x, s)
      PROVE  Old
  BY <1>1, <1>2, <1>6 DEF Begin, Get, GetTable, At
<1>7. ASSUME NEW s \in Server, Forward(s) \/ Fetch(s) PROVE Old \/ New
  <2>1. call[s] = Null
    BY <1>7 DEF Forward, Fetch, Shape, LockShape, CallShape
  <2>2. \A z \in Caller : z # s => call'[z] = call[z]
    BY <1>0, <1>7 DEF Forward, Fetch, Send, TypeOK
  <2> QED
    BY <1>0, <1>1, <1>7, <2>1, <2>2
<1>8. ASSUME NEW s \in Server, ReplyIn(s) \/ Fill(s) \/ FetchLost(s) PROVE Old
  <2>1. call' = [call EXCEPT ![s] = Null]
    BY <1>8 DEF ReplyIn, Fill, FetchLost
  <2>2. call'[s] = Null /\ \A z \in Caller : z # s => call'[z] = call[z]
    BY <1>0, <2>1 DEF TypeOK
  <2> QED
    BY <2>2
<1>9. ASSUME NEW s \in Server, Reply(s) PROVE Old
  <2>1. lock[s] \in Caller /\ call[lock[s]] # Null
    BY <1>9 DEF Reply, Shape, LockShape, TypeOK
  <2> QED
    BY <1>2, <1>9, <2>1 DEF Reply
<1>10. ASSUME UNCHANGED call PROVE Old
  BY <1>1, <1>10
<1> QED
  BY <1>3, <1>4, <1>5, <1>6, <1>7, <1>8, <1>9, <1>10, PutSteps
     DEF List, Notice, Disconnect, Connect, Register, Expire

LEMMA InChainStep ==
    ASSUME TypeOK, Shape, Puts, InChain, Next
    PROVE  InChain'
<1> USE DEF zkVars, mainVars, nextVars, tableVars, history
<1>1. ASSUME \A t \in Server : Alive(t)' => Alive(t), UNCHANGED znodes PROVE InChain'
  BY <1>1 DEF InChain
<1>2. ASSUME UNCHANGED phase PROVE \A t \in Server : Alive(t)' => Alive(t)
  BY <1>2 DEF Alive
<1>3. ASSUME NEW s \in Server, List(s) \/ Fetch(s) \/ Fill(s) \/ FetchLost(s)
      PROVE  InChain'
  <2>1. Alive(s) /\ UNCHANGED znodes /\ \A t \in Server : t # s => phase'[t] = phase[t]
    BY <1>3 DEF List, Fetch, Fill, FetchLost, Alive, TypeOK
  <2> QED
    BY <1>1, <2>1 DEF Alive
<1>4. ASSUME NEW s \in Server, Register(s) PROVE InChain'
  <2>1. /\ \A t \in Server : t # s => phase'[t] = phase[t]
        /\ znodes' = znodes \cup {s}
    BY <1>4 DEF Register, TypeOK
  <2> QED
    BY <2>1 DEF InChain, Alive
<1>5. ASSUME NEW s \in Server, Expire(s) PROVE InChain'
  BY <1>5 DEF Expire, InChain, Alive
<1>6. ASSUME NEW s \in Server, NEW why, Down(s, why) PROVE InChain'
  BY <1>1, <1>6, DownPhases DEF Down
<1> QED
  BY <1>1, <1>2, <1>3, <1>4, <1>5, <1>6, PutSteps
     DEF IssueUpdate, IssueGet, Finish, ClientLost, AnswerLost, Begin, Get, GetTable, Forward,
         ReplyIn, Reply, Notice, Disconnect, Connect

LEMMA PutsStep ==
    ASSUME "del" \notin Kinds, TypeOK, Shape, Puts, Next
    PROVE  Puts'
<1> SUFFICES ASSUME NEW y \in Caller, Busy(y)' PROVE call'[y].req.op = "put"
  BY DEF Puts
<1>1. call'[y] # Null /\ IsUpdate(call'[y].req)
  BY DEF Busy, IsUpdate
<1>2. CASE call[y] # Null /\ call'[y].req = call[y].req
  BY <1>1, <1>2 DEF Puts, Busy
<1>3. CASE y \in Client /\ IssueUpdate(y)
  <2>1. call'[y].req.op \in Kinds \ {"get"}
    BY <1>3 DEF IssueUpdate, Send, TypeOK
  <2> QED
    BY <2>1, ChainAssumption
<1>4. CASE y \in Client /\ IssueGet(y)
  <2>1. call'[y].req.op = "get"
    BY <1>4 DEF IssueGet, Send, TypeOK
  <2> QED
    BY <1>1, <2>1 DEF IsUpdate
<1>5. CASE y \in Server /\ Fetch(y)
  <2>1. call'[y].req.op = "gettable"
    BY <1>5 DEF Fetch, Send, TypeOK
  <2> QED
    BY <1>1, <2>1 DEF IsUpdate
<1>6. CASE y \in Server /\ Forward(y) /\ call[y] = Null
  <2>1. call'[y].req = Current(y)
    BY <1>1, <1>6 DEF Forward, Send, TypeOK
  <2>2. lock[y] \in Caller /\ Busy(lock[y])
    BY <1>6 DEF Forward, Shape, LockShape, Busy, TypeOK
  <2> QED
    BY <2>1, <2>2 DEF Puts, Current
<1> QED
  BY <1>1, <1>2, <1>3, <1>4, <1>5, <1>6, CallSteps

\* get_second_highest_id finds the nearest server below, if there is one.
LEMMA SecondHighestIsNearest ==
    ASSUME NEW S, S \subseteq Server, NEW s \in Server
    PROVE  LET n == get_second_highest_id(S, s)
           IN  \/ n = Null
               \/ n \in S /\ n < s /\ \A t \in S : t < s => t <= n
<1> DEFINE B == {t \in S : t < s}
<1>1. CASE B = {}
  BY <1>1 DEF get_second_highest_id
<1>2. CASE B # {}
  <2>1. zk_get_tail(B) \in B /\ \A t \in B : t <= zk_get_tail(B)
    BY <1>2, TailIsGreatest
  <2> QED
    BY <1>2, <2>1 DEF get_second_highest_id
<1> QED
  BY <1>1, <1>2

LEMMA ClosestPassesNobody ==
    ASSUME TypeOK, Started, InChain, NEW s \in Server, NEW n, n = zk_closest_node(s, znodes),
           n # Null
    PROVE  NoneBetween(s, n)
<1>1. n \in znodes /\ n > s /\ \A t \in znodes : t > s => n <= t
  BY ClosestIsNearest DEF TypeOK
<1>2. n \in Server /\ phase[n] # "off"
  BY <1>1 DEF TypeOK, Started
<1>3. ASSUME NEW r \in Server, s < r, r < n PROVE ~Alive(r)
  <2>1. r \notin znodes
    BY <1>1, <1>2, <1>3, ChainAssumption
  <2> QED
    BY <2>1 DEF InChain
<1>4. s < n
  BY <1>1, <1>2, ChainAssumption
<1> QED
  BY <1>2, <1>3, <1>4 DEF NoneBetween

LEMMA SecondHighestPassesNobody ==
    ASSUME TypeOK, Started, InChain, NEW s \in Server, phase[s] # "off", NEW n,
           n = get_second_highest_id(znodes, s), n # Null
    PROVE  NoneBetween(n, s)
<1>1. n \in znodes /\ n < s /\ \A t \in znodes : t < s => t <= n
  BY SecondHighestIsNearest DEF TypeOK
<1>2. n \in Server
  BY <1>1 DEF TypeOK
<1>3. ASSUME NEW r \in Server, n < r, r < s PROVE ~Alive(r)
  <2>1. r \notin znodes
    BY <1>1, <1>2, <1>3, ChainAssumption
  <2> QED
    BY <2>1 DEF InChain
<1> QED
  BY <1>1, <1>3 DEF NoneBetween

\* Where the pointers get new values.
LEMMA LinkSteps ==
    ASSUME TypeOK, Shape, Puts, Next, NEW t \in Server
    PROVE  \/ link'[t].to \in {link[t].to, Null}
           \/ link'[t].to = next[t] /\ next[t] # Null
<1> USE DEF zkVars, mainVars, nextVars, tableVars, history
<1> DEFINE Goal == \/ link'[t].to \in {link[t].to, Null}
                   \/ link'[t].to = next[t] /\ next[t] # Null
<1>1. ASSUME UNCHANGED link PROVE Goal
  BY <1>1
<1>2. ASSUME NEW s \in Server, NEW why, Down(s, why) PROVE Goal
  BY <1>2 DEF Down, NoLink, TypeOK
<1>3. ASSUME NEW s \in Server, Disconnect(s) PROVE Goal
  <2>1. link' = [link EXCEPT ![s].open = FALSE] /\ link[s] \in Link
    BY <1>3 DEF Disconnect, TypeOK
  <2>2. t # s => link'[t] = link[t]
    BY <2>1 DEF TypeOK
  <2>3. link'[s].to = link[s].to
    BY <2>1 DEF TypeOK, Link
  <2> QED
    BY <2>2, <2>3
<1>4. ASSUME NEW s \in Server, Connect(s) PROVE Goal
  BY <1>4 DEF Connect, NoLink, TypeOK, Shape, LinkShape
<1> QED
  BY <1>1, <1>2, <1>3, <1>4, PutSteps
     DEF IssueUpdate, IssueGet, Finish, ClientLost, AnswerLost, Begin, Get, GetTable, Forward,
         ReplyIn, Reply, List, Fetch, Fill, FetchLost, Notice, Register, Expire

LEMMA SourceSteps ==
    ASSUME TypeOK, Shape, Puts, Next, NEW t \in Server
    PROVE  \/ source'[t] \in {source[t], Null}
           \/ phase[t] # "off" /\ source'[t] = get_second_highest_id(znodes, t)
<1> USE DEF zkVars, mainVars, nextVars, tableVars, history
<1>1. ASSUME NEW s \in Server, NEW why, Down(s, why) PROVE source'[t] \in {source[t], Null}
  BY <1>1 DEF Down, TypeOK
<1>2. ASSUME NEW s \in Server, List(s)
      PROVE  \/ source'[t] \in {source[t], Null}
             \/ phase[t] # "off" /\ source'[t] = get_second_highest_id(znodes, t)
  BY <1>2 DEF List, TypeOK
<1>3. ASSUME NEW s \in Server, Fill(s) \/ FetchLost(s) PROVE source'[t] \in {source[t], Null}
  BY <1>3 DEF Fill, FetchLost, TypeOK
<1> QED
  BY <1>1, <1>2, <1>3, PutSteps
     DEF IssueUpdate, IssueGet, Finish, ClientLost, AnswerLost, Begin, Get, GetTable, Forward,
         ReplyIn, Reply, Fetch, Notice, Disconnect, Connect, Register, Expire

LEMMA PassesNobodyStep ==
    ASSUME TypeOK, TypeOK', Shape, Started, Placed, Next
    PROVE  PassesNobody'
<1> USE DEF Placed
<1>0. OnlyNewStarts
  BY StartsStep
<1> SUFFICES ASSUME NEW s \in Server PROVE PassesNobody!(s)'
  BY DEF PassesNobody
<1>1. ASSUME next'[s] # Null PROVE NoneBetween(s, next[s])'
  <2> PICK n : n = next'[s]
    OBVIOUS
  <2>1. n \in Server
    BY <1>1 DEF TypeOK
  <2>2. NoneBetween(s, n)
    <3>1. CASE n = next[s]
      BY <1>1, <3>1 DEF PassesNobody
    <3>2. ASSUME NEW t \in Server, NEW why, Down(t, why) PROVE n = next[s]
      BY <1>1, <3>2 DEF Down, TypeOK
    <3>3. ASSUME NEW t \in Server, Notice(t), n # next[s]
          PROVE  n = zk_closest_node(s, znodes)
      BY <3>3 DEF Notice, TypeOK
    <3>4. ASSUME NEW t \in Server, Register(t) PROVE n = next[s]
      BY <3>4 DEF Register, nextVars
    <3> QED
      BY <1>1, <3>1, <3>2, <3>3, <3>4, NextSteps, ClosestPassesNobody
  <2>3. NoneBetween(s, n)'
    BY <1>0, <2>1, <2>2, NoneComesBetween
  <2> QED
    BY <2>3 DEF NoneBetween
<1>2. ASSUME link'[s].to # Null PROVE NoneBetween(s, link[s].to)'
  <2> PICK n : n = link'[s].to
    OBVIOUS
  <2>1. n \in Server
    BY <1>2 DEF TypeOK, Link
  <2>2. NoneBetween(s, n)
    BY <1>2, LinkSteps DEF PassesNobody
  <2>3. NoneBetween(s, n)'
    BY <1>0, <2>1, <2>2, NoneComesBetween
  <2> QED
    BY <2>3 DEF NoneBetween
<1>3. ASSUME source'[s] # Null PROVE NoneBetween(source[s], s)'
  <2> PICK n : n = source'[s]
    OBVIOUS
  <2>1. n \in Server
    BY <1>3 DEF TypeOK
  <2>2. NoneBetween(n, s)
    BY <1>3, SourceSteps, SecondHighestPassesNobody DEF PassesNobody
  <2>3. NoneBetween(n, s)'
    BY <1>0, <2>1, <2>2, NoneComesBetween
  <2> QED
    BY <2>3 DEF NoneBetween
<1>4. CallPoints(s)'
  <2> SUFFICES ASSUME call'[s] # Null PROVE CallPoints(s)'
    BY DEF CallPoints
  <2> PICK n, r : n = call'[s].to /\ r = call'[s].req
    OBVIOUS
  <2>0. s \in Caller /\ s \notin Client
    BY ChainAssumption DEF Caller
  <2>1. n \in Server
    BY <2>0 DEF TypeOK, Call
  <2>2. IF IsUpdate(r) THEN NoneBetween(s, n) ELSE NoneBetween(n, s)
    <3>1. CASE call[s] # Null /\ n = call[s].to /\ r = call[s].req
      BY <3>1 DEF PassesNobody, CallPoints
    <3>2. CASE Forward(s) /\ call[s] = Null
      <4>1. call' = [call EXCEPT ![s] = [to |-> link[s].to, req |-> Current(s), answer |-> Null]]
        BY <2>0, <3>2 DEF Forward, Send, TypeOK
      <4>2. r = Current(s) /\ n = link[s].to /\ link[s].to # Null
        BY <2>0, <2>1, <4>1, NullIsNoServer DEF TypeOK
      <4>3. IsUpdate(Current(s))
        BY <3>2 DEF Forward, Shape, LockShape, Current
      <4> QED
        BY <4>2, <4>3 DEF PassesNobody
    <3>3. CASE Fetch(s)
      <4>1. r.op = "gettable" /\ n = source[s] /\ source[s] # Null
        BY <2>0, <3>3 DEF Fetch, Send, TypeOK, Shape, LinkShape
      <4> QED
        BY <4>1 DEF PassesNobody, IsUpdate
    <3> QED
      BY <2>0, <3>1, <3>2, <3>3, CallSteps
  <2>3. IF IsUpdate(r) THEN NoneBetween(s, n)' ELSE NoneBetween(n, s)'
    BY <1>0, <2>1, <2>2, NoneComesBetween
  <2> QED
    BY <2>3 DEF CallPoints, NoneBetween
<1> QED
  BY <1>1, <1>2, <1>3, <1>4 DEF PassesNobody

LEMMA AddressedStep ==
    ASSUME TypeOK, Shape, Puts, Addressed, Next
    PROVE  Addressed'
<1> SUFFICES ASSUME NEW x \in Caller, call'[x] # Null
             PROVE  phase'[call'[x].to] # "off"
  BY DEF Addressed
<1> PICK n : n = call'[x].to
  OBVIOUS
<1>1. CASE call[x] # Null /\ n = call[x].to
  <2>1. n \in Server /\ phase[n] # "off"
    BY <1>1 DEF Addressed, TypeOK, Call
  <2> QED
    BY <2>1, StartsStep DEF OnlyNewStarts
<1>2. CASE IssueUpdate(x) \/ IssueGet(x) \/ (x \in Server /\ Forward(x) /\ call[x] = Null)
  <2>1. Alive(n) /\ UNCHANGED phase
    BY <1>2 DEF IssueUpdate, IssueGet, Forward, Send, TypeOK, mainVars
  <2> QED
    BY <2>1 DEF Alive
<1>3. CASE x \in Server /\ Fetch(x)
  <2>1. Alive(n) /\ phase' = [phase EXCEPT ![x] = "fetching"]
    BY <1>3 DEF Fetch, Send, TypeOK
  <2>2. n = x \/ phase'[n] = phase[n]
    BY <1>3, <2>1 DEF TypeOK
  <2> QED
    BY <1>3, <2>1, <2>2 DEF Alive, TypeOK
<1> QED
  BY <1>1, <1>2, <1>3, CallSteps

LEMMA PlacedStep ==
    ASSUME "del" \notin Kinds, TypeOK, TypeOK', Shape, Started, Placed, Next
    PROVE  Placed'
BY PutsStep, InChainStep, AddressedStep, PassesNobodyStep DEF Placed

-----------------------------------------------------------------------------
(* What is where.                                                          *)

\* The updates that t has, those that fill_table is about to put included.
Own(t) ==
    IF phase[t] = "fetching" /\ call[t].answer # Null THEN call[t].answer.log ELSE log[t]

In(u, q) == \E i \in DOMAIN q : q[i] = u

\* No element twice, and the common elements in the same order.
InOrder(p, q) == \A i, j \in DOMAIN p, k, l \in DOMAIN q :
    (p[i] = q[k] /\ p[j] = q[l] /\ i < j) => k < l

Unanswered(x) == Busy(x) /\ call[x].answer = Null /\ Alive(call[x].to)

Waiting(x) == Unanswered(x) /\ lock[call[x].to] # x

AwaitsAnswer(r, u) == stage[r] = "wait" /\ call[r].answer = Null /\ Current(r) = u

\* Before the server that works on an update, everybody who is alive waits
\* for the answer to it.
Upstream == \A x \in Caller : Unanswered(x) =>
    \A r \in Server : Alive(r) /\ r < call[x].to => AwaitsAnswer(r, call[x].req)

\* Who is alive has all the updates of those after it, once it serves;
\* before that they have none.
Contained(s, t) == \A i \in DOMAIN Own(t) : In(Own(t)[i], log[s])
Grown == \A s, t \in Server : Alive(s) /\ Alive(t) /\ s < t => Contained(s, t)
Fresh ==
    /\ \A s, t \in Server : Joining(s) /\ Alive(t) /\ s < t => Own(t) = <<>>
    /\ \A s \in Server : phase[s] # "serving" => log[s] = <<>>

Ordered == \A s, t \in Server : InOrder(Own(s), Own(t))

\* The update in invoke is the last one absorbed.
AtEnd == \A s \in Server :
    lock[s] # Null => log[s] # <<>> /\ log[s][Len(log[s])] = Current(s)

\* An update that was not sent, or not taken up, is not further on.
Unabsorbed ==
    /\ \A s, t \in Server : stage[s] = "forward" /\ Alive(t) /\ s < t => ~In(Current(s), Own(t))
    /\ \A x \in Caller, t \in Server :
          Waiting(x) /\ Alive(t) /\ call[x].to <= t => ~In(call[x].req, Own(t))
Distinct == \A x, y \in Caller :
    Waiting(x) /\ Waiting(y) /\ call[x].to = call[y].to /\ call[x].req = call[y].req => x = y

Numbered ==
    /\ \A x \in Caller : Busy(x) => call[x].req.id <= issued
    /\ \A t \in Server : \A i \in DOMAIN Own(t) : Own(t)[i].id <= issued

Logs == Grown /\ Fresh /\ Ordered /\ AtEnd /\ Unabsorbed /\ Distinct /\ Numbered

LEMMA OwnType ==
    ASSUME TypeOK, Shape, NEW t \in Server
    PROVE  Own(t) \in Seq(Update)
<1>1. CASE phase[t] = "fetching" /\ call[t].answer # Null
  <2>1. t \in Caller /\ call[t] # Null /\ call[t].req.op = "gettable"
    BY <1>1 DEF Shape, CallShape, Caller
  <2>2. call[t].answer \in Copy
    BY <1>1, <2>1 DEF Shape, AnswerShape
  <2> QED
    BY <1>1, <2>2 DEF Own, Copy
<1>2. CASE ~(phase[t] = "fetching" /\ call[t].answer # Null)
  BY <1>2 DEF Own, TypeOK
<1> QED
  BY <1>1, <1>2

\* A step in which no server absorbs an update, copies a table or sends.
SameBusy(x) == Busy(x)' =>
    /\ Busy(x) /\ call'[x].to = call[x].to /\ call'[x].req = call[x].req
    /\ Unanswered(x)' => Unanswered(x)
    /\ Waiting(x)' => Waiting(x)
SameWork(s) == lock'[s] # Null =>
    /\ lock[s] # Null /\ Current(s)' = Current(s) /\ log'[s] = log[s]
    /\ stage'[s] = "forward" => stage[s] = "forward"
SameLog(t) ==
    /\ Own(t)' = Own(t) \/ Own(t)' = <<>>
    /\ Alive(t)' => log'[t] = log[t] \/ (Joining(t) /\ log'[t] = Own(t))
    /\ phase'[t] # "serving" =>
          log'[t] = <<>> \/ (phase[t] # "serving" /\ log'[t] = log[t])
    /\ Joining(t)' => Joining(t) \/ phase[t] = "off"
NothingNew ==
    /\ \A t \in Server : SameLog(t) /\ SameWork(t)
    /\ \A x \in Caller : SameBusy(x)
    /\ issued' = issued

LEMMA EmptyInOrder ==
    ASSUME NEW p, NEW q, p = <<>> \/ q = <<>>
    PROVE  InOrder(p, q)
BY DEF InOrder

LEMMA NothingNewKeeps ==
    ASSUME TypeOK, TypeOK', Shape, Shape', OnlyNewStarts, Logs, NothingNew
    PROVE  Logs'
<1> USE DEF Logs
<1>0. \A s, t \in Server : s \in Nat /\ t \in Nat /\ ~(s < t /\ t < s) /\ ~(s < s)
  BY ChainAssumption
<1>1. ASSUME NEW t \in Server, phase[t] = "off" PROVE Own(t)' = <<>>
  <2>1. Own(t) = <<>>
    BY <1>1 DEF Own, Fresh
  <2> QED
    BY <2>1 DEF NothingNew, SameLog
<1>2. ASSUME NEW t \in Server, Alive(t)', Own(t)' # <<>> PROVE Alive(t) /\ Own(t)' = Own(t)
  <2>1. phase[t] # "off"
    BY <1>1, <1>2
  <2>2. Alive(t)
    BY <1>0, <1>2, <2>1 DEF OnlyNewStarts
  <2> QED
    BY <1>2, <2>2 DEF NothingNew, SameLog
<1>3. ASSUME NEW s \in Server, NEW t \in Server, Alive(s)', Alive(t), s < t PROVE Alive(s)
  BY <1>0, <1>3 DEF OnlyNewStarts, Alive
<1>4. Grown'
  <2> SUFFICES ASSUME NEW s \in Server, NEW t \in Server, Alive(s)', Alive(t)', s < t
               PROVE  Contained(s, t)'
    BY DEF Grown
  <2>1. CASE Own(t)' = <<>>
    BY <2>1 DEF Contained
  <2>2. CASE Own(t)' # <<>>
    <3>1. Alive(t) /\ Own(t)' = Own(t) /\ Alive(s)
      BY <1>2, <1>3, <2>2
    <3>2. ~Joining(s)
      BY <2>2, <3>1 DEF Fresh
    <3>3. log'[s] = log[s]
      BY <3>2 DEF NothingNew, SameLog
    <3> QED
      BY <3>1, <3>3 DEF Grown, Contained, In
  <2> QED
    BY <2>1, <2>2
<1>5. Fresh'
  <2>1. ASSUME NEW s \in Server, NEW t \in Server, Joining(s)', Alive(t)', s < t
        PROVE  Own(t)' = <<>>
    <3> SUFFICES ASSUME Own(t)' # <<>> PROVE FALSE
      OBVIOUS
    <3>1. Alive(t) /\ Own(t)' = Own(t)
      BY <1>2, <2>1
    <3>2. Alive(s)
      BY <1>3, <2>1, <3>1 DEF Joining, Alive
    <3>3. Joining(s)
      BY <2>1, <3>2 DEF NothingNew, SameLog, Alive
    <3> QED
      BY <2>1, <3>1, <3>3 DEF Fresh
  <2>2. ASSUME NEW s \in Server, phase'[s] # "serving" PROVE log'[s] = <<>>
    BY <2>2 DEF NothingNew, SameLog, Fresh
  <2> QED
    BY <2>1, <2>2 DEF Fresh
<1>6. Ordered'
  <2> SUFFICES ASSUME NEW s \in Server, NEW t \in Server PROVE InOrder(Own(s), Own(t))'
    BY DEF Ordered
  <2>1. CASE Own(s)' = <<>> \/ Own(t)' = <<>>
    BY <2>1 DEF InOrder
  <2>2. CASE Own(s)' # <<>> /\ Own(t)' # <<>>
    <3>1. Own(s)' = Own(s) /\ Own(t)' = Own(t)
      BY <2>2 DEF NothingNew, SameLog
    <3>2. InOrder(Own(s), Own(t))
      BY DEF Ordered
    <3> QED
      BY <3>1, <3>2 DEF InOrder
  <2> QED
    BY <2>1, <2>2
<1>7. AtEnd'
  <2> SUFFICES ASSUME NEW s \in Server, lock'[s] # Null
               PROVE  log'[s] # <<>> /\ log'[s][Len(log'[s])] = Current(s)'
    BY DEF AtEnd
  <2>1. lock[s] # Null /\ Current(s)' = Current(s) /\ log'[s] = log[s]
    BY DEF NothingNew, SameWork
  <2> QED
    BY <2>1 DEF AtEnd
<1>8. Unabsorbed'
  <2>1. ASSUME NEW s \in Server, NEW t \in Server, stage'[s] = "forward", Alive(t)', s < t
        PROVE  ~In(Current(s), Own(t))'
    <3>1. CASE Own(t)' = <<>>
      BY <3>1 DEF In
    <3>2. CASE Own(t)' # <<>>
      <4>1. Alive(t) /\ Own(t)' = Own(t)
        BY <1>2, <2>1, <3>2
      <4>2. stage[s] = "forward" /\ Current(s)' = Current(s)
        BY <2>1 DEF Shape, LockShape, NothingNew, SameWork
      <4>3. ~In(Current(s), Own(t))
        BY <2>1, <4>1, <4>2 DEF Unabsorbed
      <4> QED
        BY <4>1, <4>2, <4>3 DEF In
    <3> QED
      BY <3>1, <3>2
  <2>2. ASSUME NEW x \in Caller, NEW t \in Server, Waiting(x)', Alive(t)', call'[x].to <= t
        PROVE  ~In(call[x].req, Own(t))'
    <3>1. CASE Own(t)' = <<>>
      BY <3>1 DEF In
    <3>2. CASE Own(t)' # <<>>
      <4>1. Alive(t) /\ Own(t)' = Own(t)
        BY <1>2, <2>2, <3>2
      <4>2. Waiting(x) /\ call'[x].to = call[x].to /\ call'[x].req = call[x].req
        BY <2>2 DEF NothingNew, SameBusy, Waiting, Unanswered
      <4>3. ~In(call[x].req, Own(t))
        BY <2>2, <4>1, <4>2 DEF Unabsorbed
      <4> QED
        BY <4>1, <4>2, <4>3 DEF In
    <3> QED
      BY <3>1, <3>2
  <2> QED
    BY <2>1, <2>2 DEF Unabsorbed
<1>9. Distinct'
  <2>1. \A x \in Caller : Waiting(x)' =>
            Waiting(x) /\ call'[x].to = call[x].to /\ call'[x].req = call[x].req
    BY DEF NothingNew, SameBusy, Waiting, Unanswered
  <2> QED
    BY <2>1 DEF Distinct
<1>10. Numbered'
  <2>1. \A x \in Caller : Busy(x)' => call'[x].req.id <= issued'
    BY DEF NothingNew, SameBusy, Numbered
  <2>2. ASSUME NEW t \in Server PROVE (\A i \in DOMAIN Own(t) : Own(t)[i].id <= issued)'
    <3>1. CASE Own(t)' = <<>>
      BY <3>1
    <3>2. CASE Own(t)' = Own(t)
      BY <3>2 DEF NothingNew, Numbered
    <3> QED
      BY <3>1, <3>2 DEF NothingNew, SameLog
  <2> QED
    BY <2>1, <2>2 DEF Numbered
<1> QED
  BY <1>4, <1>5, <1>6, <1>7, <1>8, <1>9, <1>10

-----------------------------------------------------------------------------
(* The steps that take nothing up.                                         *)

\* A step of one caller that no server works for leaves the work of all.
LEMMA OthersWork ==
    ASSUME TypeOK, Shape, Upstream, NEW x \in Caller,
           UNCHANGED <<lock, stage, issued>>,
           \A y \in Caller : y # x => call'[y] = call[y],
           \A t \in Server : t # x => phase'[t] = phase[t] /\ log'[t] = log[t],
           \A t \in Server : Alive(t)' <=> Alive(t),
           \A t \in Server : lock[t] # x,
           Busy(x)' => /\ Busy(x) /\ call'[x].to = call[x].to /\ call'[x].req = call[x].req
                       /\ ~Unanswered(x)',
           x \in Server => /\ log'[x] = log[x] \/ lock[x] = Null
                           /\ ~(stage[x] = "wait" /\ call[x].answer = Null)
    PROVE  /\ \A t \in Server : t # x => SameLog(t)
           /\ \A t \in Server : SameWork(t)
           /\ \A y \in Caller : SameBusy(y)
           /\ Upstream'
<1>0. \A t \in Server : t \in Caller
  BY DEF Caller
<1>1. \A t \in Server : lock[t] # Null => lock[t] \in Caller /\ call'[lock[t]] = call[lock[t]]
  BY DEF TypeOK
<1>2. \A t \in Server : lock[t] # Null => Current(t)' = Current(t)
  BY <1>1 DEF Current
<1>3. ASSUME NEW t \in Server, t # x PROVE SameLog(t)
  BY <1>0, <1>3 DEF SameLog, Own, Joining
<1>4. ASSUME NEW t \in Server PROVE SameWork(t)
  BY <1>2 DEF SameWork
<1>5. ASSUME NEW y \in Caller, y # x, call[y] # Null
      PROVE  /\ Busy(y)' <=> Busy(y)
             /\ Unanswered(y)' <=> Unanswered(y)
             /\ Waiting(y)' <=> Waiting(y)
  <2>1. call[y].to \in Server
    BY <1>5 DEF TypeOK, Call
  <2> QED
    BY <1>5, <2>1 DEF Busy, Unanswered, Waiting, Alive
<1>6. ASSUME NEW y \in Caller PROVE SameBusy(y)
  <2>1. CASE y # x
    BY <1>5, <2>1 DEF SameBusy, Busy
  <2>2. CASE y = x
    BY <2>2 DEF SameBusy, Waiting
  <2> QED
    BY <2>1, <2>2
<1>7. Upstream'
  <2> SUFFICES ASSUME NEW y \in Caller, Unanswered(y)',
                      NEW r \in Server, Alive(r)', r < call'[y].to
               PROVE  AwaitsAnswer(r, call[y].req)'
    BY DEF Upstream
  <2>1. y # x /\ call'[y] = call[y] /\ Unanswered(y)
    BY <1>6 DEF SameBusy, Unanswered
  <2>2. AwaitsAnswer(r, call[y].req) /\ r # x
    BY <2>1 DEF Upstream, AwaitsAnswer
  <2>3. lock[r] # Null
    BY <2>2 DEF AwaitsAnswer, Shape, LockShape
  <2> QED
    BY <1>0, <1>2, <2>1, <2>2, <2>3 DEF AwaitsAnswer
<1> QED
  BY <1>3, <1>4, <1>6, <1>7

LEMMA OtherCaller ==
    ASSUME TypeOK, Shape, Upstream, NEW x \in Caller,
           UNCHANGED <<lock, stage, issued>>,
           \A y \in Caller : y # x => call'[y] = call[y],
           \A t \in Server : t # x => phase'[t] = phase[t] /\ log'[t] = log[t],
           \A t \in Server : Alive(t)' <=> Alive(t),
           \A t \in Server : lock[t] # x,
           Busy(x)' => /\ Busy(x) /\ call'[x].to = call[x].to /\ call'[x].req = call[x].req
                       /\ ~Unanswered(x)',
           x \in Server => /\ SameLog(x) /\ (log'[x] = log[x] \/ lock[x] = Null)
                           /\ ~(stage[x] = "wait" /\ call[x].answer = Null)
    PROVE  NothingNew /\ Upstream'
BY OthersWork DEF NothingNew

LEMMA ClientSteps ==
    ASSUME TypeOK, Shape, Upstream, NEW c \in Client, IssueGet(c) \/ Finish(c) \/ ClientLost(c)
    PROVE  NothingNew /\ Upstream'
<1> USE DEF zkVars, mainVars, nextVars, tableVars, history
<1>1. c \in Caller /\ c \notin Server
  BY ChainAssumption DEF Caller
<1>2. UNCHANGED <<lock, stage, issued, phase, log>>
  BY DEF IssueGet, Finish, ClientLost
<1>3. \A y \in Caller : y # c => call'[y] = call[y]
  BY <1>1 DEF IssueGet, Finish, ClientLost, Send, TypeOK
<1>4. \A t \in Server : lock[t] # c
  BY <1>1, NullIsNoServer DEF IssueGet, Finish, ClientLost, Shape, LockShape
<1>5. call'[c] = Null \/ call'[c].req.op = "get"
  BY <1>1 DEF IssueGet, Finish, ClientLost, Send, TypeOK
<1>6. ~Busy(c)'
  BY <1>5 DEF Busy, IsUpdate
<1>7. \A t \in Server : Alive(t)' <=> Alive(t)
  BY <1>2 DEF Alive
<1>8. \A t \in Server : t # c => phase'[t] = phase[t] /\ log'[t] = log[t]
  BY <1>2
<1> QED
  BY <1>1, <1>2, <1>3, <1>4, <1>6, <1>7, <1>8, OtherCaller

\* An answer that is read or given to nobody's update.
LEMMA ReadSteps ==
    ASSUME TypeOK, Shape, Upstream, Fresh, NEW x \in Caller,
           \/ AnswerLost(x)
           \/ \E s \in Server : Get(x, s)
           \/ x \notin Server /\ \E s \in Server : GetTable(x, s)
    PROVE  NothingNew /\ Upstream'
<1> USE DEF zkVars, mainVars, nextVars, tableVars, history
<1>1. UNCHANGED <<lock, stage, issued, phase, log>>
  BY DEF AnswerLost, Get, GetTable
<1>2. call[x] # Null /\ call[x] \in Call
  BY DEF AnswerLost, Get, GetTable, At, TypeOK
<1>3. \A y \in Caller : y # x => call'[y] = call[y]
  BY DEF AnswerLost, Get, GetTable, Respond, TypeOK
<1>4. \A t \in Server : lock[t] # x
  <2>1. call[x].answer # Null \/ ~IsUpdate(call[x].req)
    BY DEF AnswerLost, Get, GetTable, IsUpdate
  <2> QED
    BY <2>1, NullIsNoServer DEF Shape, LockShape
<1>5. AnswerLost(x) => call'[x] = [call[x] EXCEPT !.answer = Null]
  BY DEF AnswerLost, TypeOK
<1>6. AnswerLost(x) => /\ call'[x].to = call[x].to /\ call'[x].req = call[x].req
                       /\ call'[x].answer = Null /\ call[x].answer # Null
                       /\ phase[call[x].to] = "crashed"
  BY <1>2, <1>5 DEF AnswerLost, Call
<1>7. ~AnswerLost(x) => /\ call[x].req.op \in {"get", "gettable"}
                        /\ x \in Server => call[x].req.op = "get"
                        /\ call'[x] = Null \/ call'[x].req = call[x].req
  <2>1. ASSUME NEW a, Respond(x, a) PROVE call'[x] = Null \/ call'[x].req = call[x].req
    BY <1>2, <2>1 DEF Respond, TypeOK, Call
  <2> QED
    BY <2>1 DEF Get, GetTable
<1>8. Busy(x)' => /\ Busy(x) /\ call'[x].to = call[x].to /\ call'[x].req = call[x].req
                  /\ ~Unanswered(x)'
  <2>1. CASE AnswerLost(x)
    BY <1>1, <1>2, <1>6, <2>1 DEF Busy, Unanswered, Alive
  <2>2. CASE ~AnswerLost(x)
    BY <1>7, <2>2 DEF Busy, IsUpdate
  <2> QED
    BY <2>1, <2>2
<1>9. \A t \in Server : Alive(t)' <=> Alive(t)
  BY <1>1 DEF Alive
<1>10. ASSUME x \in Server
       PROVE  /\ SameLog(x) /\ log'[x] = log[x]
              /\ ~(stage[x] = "wait" /\ call[x].answer = Null)
  <2>1. CASE AnswerLost(x)
    BY <1>1, <1>6, <1>10, <2>1 DEF SameLog, Own, Joining, Fresh
  <2>2. CASE ~AnswerLost(x)
    <3>1. phase[x] # "fetching" /\ stage[x] # "wait"
      <4>1. call[x].req.op = "get"
        BY <1>7, <1>10, <2>2
      <4>2. stage[x] = "wait" => IsUpdate(call[x].req)
        BY <1>10 DEF Shape, LockShape, CallShape, Current
      <4> QED
        BY <1>10, <4>1, <4>2 DEF Shape, CallShape, IsUpdate
    <3> QED
      BY <1>1, <1>10, <3>1 DEF SameLog, Own, Joining
  <2> QED
    BY <1>1, <2>1, <2>2
<1>11. \A t \in Server : t # x => phase'[t] = phase[t] /\ log'[t] = log[t]
  BY <1>1
<1> QED
  BY <1>1, <1>3, <1>4, <1>8, <1>9, <1>10, <1>11, OtherCaller

LEMMA MainSteps ==
    ASSUME TypeOK, Shape, Upstream, Fresh, NEW s \in Server,
           List(s) \/ Fetch(s) \/ Fill(s) \/ FetchLost(s)
    PROVE  NothingNew /\ Upstream'
<1> USE DEF zkVars, mainVars, nextVars, tableVars, history
<1>0. s \in Caller
  BY DEF Caller
<1>1. /\ UNCHANGED <<lock, stage, issued>> /\ Joining(s) /\ Alive(s) /\ Alive(s)'
      /\ \A t \in Server : t # s => phase'[t] = phase[t] /\ log'[t] = log[t]
  BY DEF List, Fetch, Fill, FetchLost, Alive, Joining, TypeOK
<1>2. \A y \in Caller : y # s => call'[y] = call[y]
  BY <1>0 DEF List, Fetch, Fill, FetchLost, Send, TypeOK
<1>3. lock[s] = Null /\ stage[s] # "wait"
  BY <1>1 DEF Shape, LockShape, Joining
<1>4. call[s] # Null => ~IsUpdate(call[s].req)
  BY <1>1, <1>3 DEF Shape, CallShape, Joining, IsUpdate
<1>5. \A t \in Server : lock[t] # s
  BY <1>4, NullIsNoServer DEF Shape, LockShape
<1>6. ~Busy(s)'
  <2>1. call'[s] = Null \/ call'[s] = call[s] \/ call'[s].req.op = "gettable"
    BY <1>0 DEF List, Fetch, Fill, FetchLost, Send, TypeOK
  <2> QED
    BY <1>4, <2>1 DEF Busy, IsUpdate
<1>7. SameLog(s)
  <2>1. log[s] = <<>>
    BY <1>1 DEF Joining, Fresh
  <2>2. CASE Fill(s)
    BY <1>1, <2>1, <2>2 DEF Fill, SameLog, Own, Joining, TypeOK
  <2>3. CASE List(s) \/ Fetch(s) \/ FetchLost(s)
    <3>1. log'[s] = log[s]
      BY <2>3 DEF List, Fetch, FetchLost
    <3>2. phase'[s] = "fetching" => call'[s].answer = Null
      BY <1>0, <2>3 DEF List, Fetch, FetchLost, Send, TypeOK
    <3> QED
      BY <1>1, <2>1, <3>1, <3>2 DEF SameLog, Own
  <2> QED
    BY <2>2, <2>3
<1>8. \A t \in Server : Alive(t)' <=> Alive(t)
  BY <1>1 DEF Alive
<1> QED
  BY <1>0, <1>1, <1>2, <1>3, <1>5, <1>6, <1>7, <1>8, OtherCaller

LEMMA SameState ==
    ASSUME TypeOK, Shape, Upstream, UNCHANGED <<phase, log, lock, stage, call, issued>>
    PROVE  NothingNew /\ Upstream'
<1>1. \A t \in Server : SameLog(t) /\ SameWork(t)
  BY DEF SameLog, SameWork, Own, Joining, Current
<1>2. \A x \in Caller : SameBusy(x)
  BY DEF SameBusy, Busy, Unanswered, Waiting, Alive
<1>3. Upstream'
  BY DEF Upstream, AwaitsAnswer, Unanswered, Busy, Alive, Current
<1> QED
  BY <1>1, <1>2, <1>3 DEF NothingNew

LEMMA WatcherSteps ==
    ASSUME TypeOK, Shape, Upstream, NEW s \in Server,
           Notice(s) \/ Disconnect(s) \/ Connect(s) \/ Expire(s)
    PROVE  NothingNew /\ Upstream'
BY SameState DEF Notice, Disconnect, Connect, Expire, mainVars, tableVars, history

LEMMA RegisterSteps ==
    ASSUME TypeOK, Shape, Placed, Upstream, Fresh, NEW s \in Server, Register(s)
    PROVE  NothingNew /\ Upstream'
<1>0. \A t \in Server : t \in Caller
  BY DEF Caller
<1>1. /\ UNCHANGED <<log, lock, stage, call, issued>>
      /\ phase[s] = "off" /\ phase'[s] = "registered"
      /\ \A t \in Server : t # s => phase'[t] = phase[t]
      /\ \A t \in Server : phase[t] = "off" <=> t >= s
  BY DEF Register, tableVars, history, TypeOK
<1>2. \A t \in Server : phase[t] # "off" => t < s
  BY <1>1, ChainAssumption
<1>3. ASSUME NEW x \in Caller, call[x] # Null
      PROVE  /\ call[x].to \in Server /\ call[x].to < s
             /\ Unanswered(x)' <=> Unanswered(x)
             /\ Waiting(x)' <=> Waiting(x)
  <2>1. call[x].to \in Server /\ phase[call[x].to] # "off"
    BY <1>3 DEF Placed, Addressed, TypeOK, Call
  <2>2. call[x].to < s /\ (Alive(call[x].to)' <=> Alive(call[x].to))
    BY <1>1, <1>2, <2>1 DEF Alive
  <2> QED
    BY <1>1, <1>3, <2>1, <2>2 DEF Unanswered, Waiting, Busy
<1>4. ASSUME NEW t \in Server PROVE SameLog(t) /\ SameWork(t)
  <2>1. SameLog(t)
    BY <1>1 DEF SameLog, Own, Joining
  <2>2. SameWork(t)
    BY <1>1 DEF SameWork, Current
  <2> QED
    BY <2>1, <2>2
<1>5. ASSUME NEW x \in Caller PROVE SameBusy(x)
  BY <1>1, <1>3 DEF SameBusy, Busy
<1>6. Upstream'
  <2> SUFFICES ASSUME NEW y \in Caller, Unanswered(y)',
                      NEW r \in Server, Alive(r)', r < call'[y].to
               PROVE  AwaitsAnswer(r, call[y].req)'
    BY DEF Upstream
  <2>1. call'[y] = call[y] /\ call[y] # Null /\ Unanswered(y) /\ call[y].to < s
        /\ call[y].to \in Server
    BY <1>1, <1>3 DEF Unanswered, Busy
  <2>2. r # s
    <3>1. s \in Nat /\ call[y].to \in Nat
      BY <2>1, ChainAssumption
    <3> QED
      BY <2>1, <3>1
  <2>3. AwaitsAnswer(r, call[y].req)
    BY <1>1, <2>1, <2>2 DEF Upstream, Alive
  <2> QED
    BY <1>1, <2>3 DEF AwaitsAnswer, Current
<1> QED
  BY <1>1, <1>4, <1>5, <1>6 DEF NothingNew

LEMMA DownSteps ==
    ASSUME TypeOK, Shape, Upstream, NEW s \in Server, NEW why, Down(s, why)
    PROVE  NothingNew /\ Upstream'
<1>0. \A t \in Server : t \in Caller
  BY DEF Caller
<1>1. /\ \A t \in Server : phase'[t] = IF t = s THEN "crashed" ELSE phase[t]
      /\ \A t \in Server : t # s => log'[t] = log[t] /\ lock'[t] = lock[t] /\ stage'[t] = stage[t]
      /\ log'[s] = <<>> /\ lock'[s] = Null /\ stage'[s] = "idle"
      /\ issued' = issued
  BY DEF Down, TypeOK
<1>2. \A x \in Caller : call'[x] = Null \/ call'[x] = call[x]
  BY DEF Down, CallsWithout
<1>3. \A t \in Server : t # s /\ Alive(t) => call'[t] = call[t]
  BY <1>0 DEF Down, CallsWithout, Dead, Alive
<1>4. ASSUME NEW t \in Server, t # s, lock[t] # Null
      PROVE  call'[lock[t]] = call[lock[t]]
  <2>1. phase[t] = "serving" /\ lock[t] \in Caller
    BY <1>4 DEF Shape, LockShape, TypeOK
  <2> QED
    BY <1>4, <2>1 DEF Shape, LockShape, Down, CallsWithout, Alive, Dead
<1>5. ASSUME NEW t \in Server PROVE SameLog(t) /\ SameWork(t)
  <2>1. SameLog(t)
    <3>1. CASE t = s
      BY <1>1, <3>1 DEF SameLog, Own, Joining, Alive
    <3>2. CASE t # s
      <4>1. Own(t)' = Own(t)
        BY <1>1, <1>3, <3>2 DEF Own, Alive
      <4> QED
        BY <1>1, <3>2, <4>1 DEF SameLog, Joining
    <3> QED
      BY <3>1, <3>2
  <2>2. SameWork(t)
    BY <1>1, <1>4 DEF SameWork, Current
  <2> QED
    BY <2>1, <2>2
<1>6. ASSUME NEW x \in Caller, Busy(x)'
      PROVE  /\ SameBusy(x) /\ call'[x] = call[x] /\ Busy(x)
             /\ Unanswered(x)' => Unanswered(x)
  <2>1. call'[x] = call[x] /\ call[x].to \in Server /\ Busy(x)
    BY <1>2, <1>6 DEF Busy, TypeOK, Call
  <2>2. Alive(call[x].to)' => Alive(call[x].to) /\ call[x].to # s
    BY <1>1, <2>1 DEF Alive
  <2>3. Unanswered(x)' => Unanswered(x)
    BY <2>1, <2>2 DEF Unanswered
  <2>4. Waiting(x)' => Waiting(x)
    BY <1>1, <2>1, <2>2, <2>3 DEF Waiting, Unanswered
  <2> QED
    BY <2>1, <2>3, <2>4 DEF SameBusy
<1>7. \A x \in Caller : SameBusy(x)
  BY <1>6 DEF SameBusy
<1>8. Upstream'
  <2> SUFFICES ASSUME NEW y \in Caller, Unanswered(y)',
                      NEW r \in Server, Alive(r)', r < call'[y].to
               PROVE  AwaitsAnswer(r, call[y].req)'
    BY DEF Upstream
  <2>1. call'[y] = call[y] /\ Unanswered(y)
    BY <1>6 DEF Unanswered
  <2>2. r # s /\ Alive(r)
    BY <1>1 DEF Alive
  <2>3. AwaitsAnswer(r, call[y].req)
    BY <2>1, <2>2 DEF Upstream
  <2>4. lock[r] # Null
    BY <2>3 DEF AwaitsAnswer, Shape, LockShape
  <2> QED
    BY <1>1, <1>3, <1>4, <2>1, <2>2, <2>3, <2>4 DEF AwaitsAnswer, Current
<1> QED
  BY <1>1, <1>5, <1>7, <1>8 DEF NothingNew

LEMMA ReplyInSteps ==
    ASSUME TypeOK, Shape, Upstream, NEW s \in Server, ReplyIn(s)
    PROVE  NothingNew /\ Upstream'
<1>0. s \in Caller
  BY DEF Caller
<1>1. /\ UNCHANGED <<phase, log, lock, issued>>
      /\ stage[s] = "wait" /\ stage'[s] # "forward"
      /\ \A t \in Server : t # s => stage'[t] = stage[t]
      /\ call[s] # Null /\ call[s].answer # Null /\ call'[s] = Null
      /\ \A y \in Caller : y # s => call'[y] = call[y]
  BY <1>0 DEF ReplyIn, TypeOK, mainVars, history, Shape, CallShape
<1>2. \A t \in Server : lock[t] # s
  BY <1>1, NotWorkedOn
<1>3. \A t \in Server : lock[t] # Null => Current(t)' = Current(t)
  BY <1>1, <1>2 DEF Current, TypeOK
<1>4. phase[s] = "serving"
  BY <1>1 DEF Shape, LockShape
<1>5. ASSUME NEW t \in Server PROVE SameLog(t) /\ SameWork(t)
  <2>1. Own(t)' = Own(t)
    BY <1>1, <1>4 DEF Own, Caller
  <2> QED
    BY <1>1, <1>3, <2>1 DEF SameLog, SameWork, Joining
<1>6. ASSUME NEW x \in Caller PROVE SameBusy(x)
  BY <1>1 DEF SameBusy, Busy, Unanswered, Waiting, Alive
<1>7. Upstream'
  <2> SUFFICES ASSUME NEW y \in Caller, Unanswered(y)',
                      NEW r \in Server, Alive(r)', r < call'[y].to
               PROVE  AwaitsAnswer(r, call[y].req)'
    BY DEF Upstream
  <2>1. y # s /\ call'[y] = call[y] /\ Unanswered(y) /\ Alive(r)
    BY <1>1 DEF Unanswered, Busy, Alive
  <2>2. AwaitsAnswer(r, call[y].req)
    BY <2>1 DEF Upstream
  <2>3. r # s /\ lock[r] # Null
    BY <1>1, <2>2 DEF AwaitsAnswer, Shape, LockShape
  <2> QED
    BY <1>1, <1>3, <2>1, <2>2, <2>3 DEF AwaitsAnswer, Caller
<1> QED
  BY <1>1, <1>5, <1>6, <1>7 DEF NothingNew

LEMMA ReplySteps ==
    ASSUME TypeOK, Shape, Placed, Upstream, AtEnd, Unabsorbed, NEW s \in Server, Reply(s)
    PROVE  NothingNew /\ Upstream'
<1> PICK x : x = lock[s]
  OBVIOUS
<1>1. /\ UNCHANGED <<phase, log, issued>>
      /\ stage[s] \in {"ok", "failed"} /\ stage'[s] = "idle" /\ lock'[s] = Null
      /\ \A t \in Server : t # s => stage'[t] = stage[t] /\ lock'[t] = lock[t]
  BY DEF Reply, TypeOK, mainVars, history
<1>2. /\ x \in Caller /\ x # Null /\ call[x] # Null /\ call[x].to = s /\ call[x].answer = Null
      /\ IsUpdate(call[x].req) /\ phase[s] = "serving"
  BY <1>1 DEF Shape, LockShape, TypeOK
<1>3. /\ \A y \in Caller : y # x => call'[y] = call[y]
      /\ call'[x] = Null \/ (call'[x].req = call[x].req /\ call'[x].answer # Null)
  <2>1. PICK a \in {Ok, Error} : Respond(x, a)
    BY DEF Reply
  <2>2. a \in Answer /\ a # Null
    BY <2>1, AnswerTypes, NullAssumption
  <2> QED
    BY <1>2, <2>1, <2>2, RespondCall
<1>4. \A t \in Server : t # s => lock[t] # x
  BY <1>2 DEF Shape, LockShape
<1>5. \A t \in Server : t # s /\ lock[t] # Null => Current(t)' = Current(t)
  BY <1>1, <1>3, <1>4 DEF Current, TypeOK
<1>6. x \in Server => phase[x] # "fetching"
  BY <1>2 DEF Shape, CallShape, IsUpdate
<1>7. ASSUME NEW t \in Server PROVE SameLog(t) /\ SameWork(t)
  <2>1. Own(t)' = Own(t)
    BY <1>1, <1>3, <1>6 DEF Own, Caller
  <2> QED
    BY <1>1, <1>5, <2>1 DEF SameLog, SameWork, Joining
<1>8. ~Unanswered(x)'
  BY <1>3 DEF Unanswered, Busy
<1>9. ASSUME NEW y \in Caller, y # x
      PROVE  /\ Busy(y)' <=> Busy(y)
             /\ Unanswered(y)' <=> Unanswered(y)
             /\ Waiting(y)' => Waiting(y)
  <2>1. call'[y] = call[y] /\ (call[y] # Null => call[y].to \in Server)
    BY <1>3, <1>9 DEF TypeOK, Call
  <2> QED
    BY <1>1, <1>9, <2>1 DEF Busy, Unanswered, Waiting, Alive
<1>10. ASSUME NEW y \in Caller PROVE SameBusy(y)
  <2>1. CASE y # x
    BY <1>3, <1>9, <2>1 DEF SameBusy
  <2>2. CASE y = x
    <3>1. Busy(x)' => call'[x] # Null
      BY DEF Busy
    <3>2. Busy(x)' => call'[x].to = call[x].to
      <4>1. \A a : Respond(x, a) => call'[x] = Null \/ call'[x].to = call[x].to
        BY <1>2 DEF Respond, TypeOK, Call
      <4> QED
        BY <3>1, <4>1 DEF Reply
    <3> QED
      BY <1>2, <1>3, <1>8, <2>2, <3>1, <3>2 DEF SameBusy, Busy, Waiting
  <2> QED
    BY <2>1, <2>2
<1>11. Upstream'
  <2> SUFFICES ASSUME NEW y \in Caller, Unanswered(y)',
                      NEW r \in Server, Alive(r)', r < call'[y].to
               PROVE  AwaitsAnswer(r, call[y].req)'
    BY DEF Upstream
  <2>1. y # x /\ call'[y] = call[y] /\ Unanswered(y) /\ Alive(r)
    BY <1>1, <1>3, <1>8, <1>9 DEF Alive
  <2>2. AwaitsAnswer(r, call[y].req)
    BY <2>1 DEF Upstream
  <2>3. r # s /\ lock[r] # Null
    BY <1>1, <2>2 DEF AwaitsAnswer, Shape, LockShape
  <2>4. r # x
    <3> SUFFICES ASSUME r = x PROVE FALSE
      OBVIOUS
    <3>1. call[y].to \in Server /\ Alive(call[y].to) /\ Alive(s)
      BY <1>2, <2>1 DEF Unanswered, Busy, Alive, TypeOK, Call
    <3>2. NoneBetween(r, s)
      BY <1>2 DEF Placed, PassesNobody, CallPoints
    <3>3. ~(s < call[y].to)
      BY <1>1, <2>1, <3>1 DEF Upstream, AwaitsAnswer
    <3>4. ~(call[y].to < s)
      BY <2>1, <3>1, <3>2 DEF NoneBetween
    <3>5. call[y].to = s
      <4>1. s \in Nat /\ call[y].to \in Nat
        BY <3>1, ChainAssumption
      <4> QED
        BY <3>3, <3>4, <4>1
    <3>6. Waiting(y)
      BY <2>1, <3>5 DEF Waiting
    <3>7. Own(s) = log[s]
      BY <1>2 DEF Own
    <3>8. ~In(call[y].req, log[s])
      BY <3>1, <3>5, <3>6, <3>7, ChainAssumption DEF Unabsorbed
    <3>9. call[y].req = Current(s)
      BY <2>2 DEF AwaitsAnswer, Shape, CallShape, Current
    <3>10. log[s] # <<>> /\ log[s][Len(log[s])] = Current(s) /\ log[s] \in Seq(Update)
      BY <1>2 DEF AtEnd, TypeOK
    <3>11. Len(log[s]) \in DOMAIN log[s]
      BY <3>10
    <3> QED
      BY <3>8, <3>9, <3>10, <3>11 DEF In
  <2> QED
    BY <1>1, <1>3, <1>5, <2>1, <2>2, <2>3, <2>4 DEF AwaitsAnswer, Caller
<1> QED
  BY <1>1, <1>7, <1>10, <1>11 DEF NothingNew

-----------------------------------------------------------------------------
(* A copy, a new update, an update sent on.                                *)

\* fill_table gets the table of its predecessor, with the updates in it.
LEMMA CopySteps ==
    ASSUME TypeOK, TypeOK', Shape, Shape', Placed, Upstream, Logs,
           NEW s \in Server, NEW x \in Server, GetTable(x, s)
    PROVE  Logs' /\ Upstream'
<1> USE DEF Logs
<1>0. \A t \in Server : t \in Caller
  BY DEF Caller
<1>1. /\ UNCHANGED <<phase, log, lock, stage, issued>>
      /\ phase[s] = "serving" /\ lock[s] = Null /\ call[x] # Null /\ call[x].to = s
      /\ call[x].req.op = "gettable" /\ call[x].answer = Null
  BY DEF GetTable, At, mainVars, tableVars, history
<1>2. phase[x] = "fetching" /\ ~Dead(x) /\ stage[x] # "wait"
  <2>1. ~IsUpdate(call[x].req)
    BY <1>1 DEF IsUpdate
  <2>2. stage[x] = "wait" => IsUpdate(call[x].req)
    BY DEF Shape, LockShape, CallShape, Current
  <2> QED
    BY <1>1, <2>1, <2>2 DEF Shape, CallShape, Dead
<1>3. /\ \A y \in Caller : y # x => call'[y] = call[y]
      /\ call'[x] # Null /\ call'[x].req = call[x].req
      /\ call'[x].answer = [table |-> table[s], log |-> log[s]]
  <2>1. [table |-> table[s], log |-> log[s]] \in Answer
    BY AnswerTypes DEF TypeOK, Copy
  <2> QED
    BY <1>0, <1>1, <1>2, <2>1, RespondCall DEF GetTable
<1>4. Own(x)' = Own(s) /\ \A t \in Server : t # x => Own(t)' = Own(t)
  <2>1. Own(s) = log[s]
    BY <1>1 DEF Own
  <2>2. call'[x].answer # Null /\ call'[x].answer.log = log[s]
    <3>1. [table |-> table[s], log |-> log[s]] \in Answer
      BY AnswerTypes DEF TypeOK, Copy
    <3> QED
      BY <1>3, <3>1, NullAssumption
  <2> QED
    BY <1>0, <1>1, <1>2, <1>3, <2>1, <2>2 DEF Own
<1>5. /\ \A t \in Server : SameWork(t)
      /\ \A y \in Caller : SameBusy(y)
      /\ Upstream'
  <2>1. \A t \in Server : lock[t] # x
    BY <1>1, NullIsNoServer, <1>0 DEF Shape, LockShape, IsUpdate
  <2>2. ~Busy(x)'
    BY <1>1, <1>3 DEF Busy, IsUpdate
  <2>3. \A t \in Server : Alive(t)' <=> Alive(t)
    BY <1>1 DEF Alive
  <2>4. \A t \in Server : t # x => phase'[t] = phase[t] /\ log'[t] = log[t]
    BY <1>1
  <2> QED
    BY <1>0, <1>1, <1>2, <1>3, <2>1, <2>2, <2>3, <2>4, OthersWork
<1>6. \A t \in Server : Alive(t)' <=> Alive(t)
  BY <1>1 DEF Alive
<1>7. s < x /\ Alive(s) /\ \A r \in Server : Alive(r) /\ r < x => r = s \/ r < s
  <2>1. NoneBetween(s, x)
    BY <1>1 DEF Placed, PassesNobody, CallPoints, IsUpdate
  <2>2. \A r \in Server : r \in Nat
    BY ChainAssumption
  <2> QED
    BY <1>1, <2>1, <2>2 DEF NoneBetween, Alive
<1>8. Grown'
  <2> SUFFICES ASSUME NEW r \in Server, NEW t \in Server, Alive(r), Alive(t), r < t
               PROVE  Contained(r, t)'
    BY <1>6 DEF Grown
  <2>1. CASE t # x
    BY <1>1, <1>4, <2>1 DEF Grown, Contained, In
  <2>2. CASE t = x /\ r = s
    BY <1>1, <1>4, <2>2 DEF Contained, In, Own
  <2>3. CASE t = x /\ r < s
    BY <1>1, <1>4, <1>7, <2>3 DEF Grown, Contained, In
  <2> QED
    BY <1>7, <2>1, <2>2, <2>3
<1>9. Fresh'
  <2>1. ASSUME NEW r \in Server, NEW t \in Server, Joining(r)', Alive(t)', r < t
        PROVE  Own(t)' = <<>>
    <3>1. Joining(r) /\ Alive(r) /\ Alive(t) /\ r # s
      BY <1>1, <2>1 DEF Joining, Alive
    <3>2. CASE t # x
      BY <1>4, <2>1, <3>1, <3>2 DEF Fresh
    <3>3. CASE t = x
      BY <1>4, <1>7, <2>1, <3>1, <3>3 DEF Fresh
    <3> QED
      BY <3>2, <3>3
  <2> QED
    BY <1>1, <2>1 DEF Fresh
<1>10. Ordered'
  <2> SUFFICES ASSUME NEW r \in Server, NEW t \in Server PROVE InOrder(Own(r), Own(t))'
    BY DEF Ordered
  <2>1. PICK a \in Server : Own(r)' = Own(a)
    BY <1>4
  <2>2. PICK b \in Server : Own(t)' = Own(b)
    BY <1>4
  <2>3. InOrder(Own(a), Own(b))
    BY DEF Ordered
  <2> QED
    BY <2>1, <2>2, <2>3 DEF InOrder
<1>11. AtEnd'
  BY <1>5 DEF AtEnd, SameWork
<1>12. Unabsorbed'
  <2>1. ASSUME NEW r \in Server, NEW t \in Server, stage'[r] = "forward", Alive(t)', r < t
        PROVE  ~In(Current(r), Own(t))'
    <3>1. /\ stage[r] = "forward" /\ Alive(t) /\ Alive(r) /\ r # s
          /\ Current(r)' = Current(r)
      BY <1>1, <1>5, <1>6, <2>1 DEF Shape, LockShape, SameWork, Alive
    <3>2. CASE t # x
      BY <1>4, <2>1, <3>1, <3>2 DEF Unabsorbed, In
    <3>3. CASE t = x
      <4>1. r < s /\ ~In(Current(r), Own(s))
        BY <1>7, <2>1, <3>1, <3>3 DEF Unabsorbed
      <4> QED
        BY <1>4, <3>1, <3>3, <4>1 DEF In
    <3> QED
      BY <3>2, <3>3
  <2>2. ASSUME NEW y \in Caller, NEW t \in Server, Waiting(y)', Alive(t)', call'[y].to <= t
        PROVE  ~In(call[y].req, Own(t))'
    <3>1. /\ Waiting(y) /\ call'[y].to = call[y].to /\ call'[y].req = call[y].req
          /\ Unanswered(y) /\ Alive(t)
      BY <1>5, <1>6, <2>2 DEF SameBusy, Waiting, Unanswered
    <3>2. CASE t # x
      BY <1>4, <2>2, <3>1, <3>2 DEF Unabsorbed, In
    <3>3. CASE t = x
      <4>1. call[y].to \in Server /\ Alive(call[y].to) /\ call[y].to <= x
        BY <2>2, <3>1, <3>3 DEF Unanswered, Busy, TypeOK, Call
      <4>2. ~(s < call[y].to)
        BY <1>1, <1>7, <3>1 DEF Upstream, AwaitsAnswer, Shape, LockShape
      <4>3. call[y].to <= s
        <5>1. call[y].to \in Nat /\ s \in Nat
          BY <4>1, ChainAssumption
        <5> QED
          BY <4>2, <5>1
      <4>4. ~In(call[y].req, Own(s))
        BY <1>7, <3>1, <4>3 DEF Unabsorbed
      <4> QED
        BY <1>4, <3>1, <3>3, <4>4 DEF In
    <3> QED
      BY <3>2, <3>3
  <2> QED
    BY <2>1, <2>2 DEF Unabsorbed
<1>13. Distinct'
  <2>1. \A y \in Caller : Waiting(y)' =>
            Waiting(y) /\ call'[y].to = call[y].to /\ call'[y].req = call[y].req
    BY <1>5 DEF SameBusy, Waiting, Unanswered
  <2> QED
    BY <2>1 DEF Distinct
<1>14. Numbered'
  <2>1. \A y \in Caller : Busy(y)' => call'[y].req.id <= issued'
    BY <1>1, <1>5 DEF SameBusy, Numbered
  <2>2. ASSUME NEW t \in Server PROVE (\A i \in DOMAIN Own(t) : Own(t)[i].id <= issued)'
    BY <1>1, <1>4 DEF Numbered
  <2> QED
    BY <2>1, <2>2 DEF Numbered
<1> QED
  BY <1>5, <1>8, <1>9, <1>10, <1>11, <1>12, <1>13, <1>14

\* A client sends a new update to the head.
LEMMA IssueSteps ==
    ASSUME TypeOK, TypeOK', Shape, Shape', Placed, Upstream, Logs,
           NEW c \in Client, IssueUpdate(c)
    PROVE  Logs' /\ Upstream'
<1> USE DEF Logs
<1>0. c \in Caller /\ c \notin Server /\ \A t \in Server : t \in Caller /\ t # c
  BY ChainAssumption DEF Caller
<1> PICK h : h = zk_get_head(znodes)
  OBVIOUS
<1>1. /\ UNCHANGED <<phase, log, lock, stage>> /\ issued' = issued + 1
      /\ call[c] = Null /\ znodes # {}
  BY DEF IssueUpdate, mainVars, tableVars
<1>2. PICK u : /\ u.id = issued + 1
               /\ call' = [call EXCEPT ![c] = [to |-> h, req |-> u, answer |-> Null]]
  BY <1>1 DEF IssueUpdate, Send
<1>3. /\ call'[c] = [to |-> h, req |-> u, answer |-> Null]
      /\ \A y \in Caller : y # c => call'[y] = call[y]
  BY <1>0, <1>2 DEF TypeOK
<1>4. \A t \in Server : Alive(t) => h <= t
  BY <1>1, HeadIsLeast DEF Placed, InChain, TypeOK
<1>5. \A t \in Server : lock[t] # c
  BY <1>1, NullIsNoServer DEF Shape, LockShape
<1>6. \A t \in Server : lock[t] # Null => Current(t)' = Current(t)
  BY <1>1, <1>3, <1>5 DEF Current, TypeOK
<1>7. \A t \in Server : Own(t)' = Own(t) /\ (Alive(t)' <=> Alive(t))
  BY <1>0, <1>1, <1>3 DEF Own, Alive
<1>8. ASSUME NEW y \in Caller, y # c, call[y] # Null
      PROVE  /\ Busy(y)' <=> Busy(y)
             /\ Unanswered(y)' <=> Unanswered(y)
             /\ Waiting(y)' <=> Waiting(y)
  <2>1. call[y].to \in Server /\ call'[y] = call[y]
    BY <1>3, <1>8 DEF TypeOK, Call
  <2> QED
    BY <1>1, <1>8, <2>1 DEF Busy, Unanswered, Waiting, Alive
<1>9. \A y \in Caller : y # c /\ Busy(y)' => call[y] # Null
  BY <1>3 DEF Busy
<1>10. Upstream'
  <2> SUFFICES ASSUME NEW y \in Caller, Unanswered(y)',
                      NEW r \in Server, Alive(r)', r < call'[y].to
               PROVE  AwaitsAnswer(r, call[y].req)'
    BY DEF Upstream
  <2>1. y # c
    <3> SUFFICES ASSUME y = c PROVE FALSE
      OBVIOUS
    <3>1. call'[c].to = h /\ h <= r /\ r < h
      BY <1>3, <1>4, <1>7
    <3>2. h \in Nat /\ r \in Nat
      BY <1>1, HeadIsLeast, ChainAssumption DEF TypeOK
    <3> QED
      BY <3>1, <3>2
  <2>2. call'[y] = call[y] /\ Unanswered(y)
    BY <1>3, <1>8, <1>9, <2>1 DEF Unanswered
  <2>3. AwaitsAnswer(r, call[y].req)
    BY <1>7, <2>2 DEF Upstream
  <2>4. lock[r] # Null
    BY <2>3 DEF AwaitsAnswer, Shape, LockShape
  <2> QED
    BY <1>0, <1>1, <1>3, <1>6, <2>2, <2>3, <2>4 DEF AwaitsAnswer
<1>11. Grown'
  BY <1>1, <1>7 DEF Grown, Contained, In
<1>12. Fresh'
  BY <1>1, <1>7 DEF Fresh, Joining
<1>13. Ordered'
  BY <1>7 DEF Ordered, InOrder
<1>14. AtEnd'
  BY <1>1, <1>6 DEF AtEnd
<1>15. ASSUME NEW t \in Server PROVE ~In(u, Own(t))
  <2>1. \A i \in DOMAIN Own(t) : Own(t)[i].id <= issued /\ Own(t)[i].id \in Nat
    <3>1. Own(t) \in Seq(Update)
      BY OwnType
    <3>2. \A i \in DOMAIN Own(t) : Own(t)[i] \in Update
      BY <3>1
    <3> QED
      BY <3>2 DEF Numbered, Update
  <2>2. issued \in Nat
    BY DEF TypeOK
  <2> QED
    BY <1>2, <2>1, <2>2 DEF In
<1>16. Unabsorbed'
  <2>1. ASSUME NEW r \in Server, NEW t \in Server, stage'[r] = "forward", Alive(t)', r < t
        PROVE  ~In(Current(r), Own(t))'
    <3>1. stage[r] = "forward" /\ Alive(t) /\ Current(r)' = Current(r) /\ Own(t)' = Own(t)
      BY <1>1, <1>6, <1>7, <2>1 DEF Shape, LockShape
    <3>2. ~In(Current(r), Own(t))
      BY <2>1, <3>1 DEF Unabsorbed
    <3> QED
      BY <3>1, <3>2 DEF In
  <2>2. ASSUME NEW y \in Caller, NEW t \in Server, Waiting(y)', Alive(t)', call'[y].to <= t
        PROVE  ~In(call[y].req, Own(t))'
    <3>1. CASE y = c
      <4>1. call'[y].req = u
        BY <1>3, <3>1
      <4> QED
        BY <1>7, <1>15, <4>1 DEF In
    <3>2. CASE y # c
      <4>1. call'[y] = call[y] /\ Waiting(y) /\ Alive(t)
        BY <1>3, <1>7, <1>8, <1>9, <2>2, <3>2 DEF Waiting, Unanswered
      <4>2. ~In(call[y].req, Own(t))
        BY <2>2, <4>1 DEF Unabsorbed
      <4> QED
        BY <1>7, <4>1, <4>2 DEF In
    <3> QED
      BY <3>1, <3>2
  <2> QED
    BY <2>1, <2>2 DEF Unabsorbed
<1>17. ASSUME NEW y \in Caller, y # c, Busy(y)' PROVE call'[y].req # u
  <2>1. Busy(y) /\ call'[y] = call[y]
    BY <1>3, <1>8, <1>9, <1>17
  <2>2. call[y].req \in Update
    BY <2>1, UpdateRequest DEF Busy, TypeOK, Call
  <2>3. call[y].req.id <= issued /\ call[y].req.id \in Nat /\ issued \in Nat
    BY <2>1, <2>2 DEF Numbered, Update, TypeOK
  <2> QED
    BY <1>2, <2>1, <2>3
<1>18. Distinct'
  <2> SUFFICES ASSUME NEW y \in Caller, NEW z \in Caller, Waiting(y)', Waiting(z)',
                      call'[y].to = call'[z].to, call'[y].req = call'[z].req
               PROVE  y = z
    BY DEF Distinct
  <2>1. CASE y = c \/ z = c
    <3>1. Busy(y)' /\ Busy(z)' /\ call'[c].req = u
      BY <1>3 DEF Waiting, Unanswered
    <3> QED
      BY <1>17, <2>1, <3>1
  <2>2. CASE y # c /\ z # c
    <3>1. /\ call'[y] = call[y] /\ Waiting(y)
          /\ call'[z] = call[z] /\ Waiting(z)
      BY <1>3, <1>8, <1>9, <2>2 DEF Waiting, Unanswered
    <3> QED
      BY <3>1 DEF Distinct
  <2> QED
    BY <2>1, <2>2
<1>19. Numbered'
  <2>0. issued \in Nat /\ issued' = issued + 1
    BY <1>1 DEF TypeOK
  <2>1. ASSUME NEW y \in Caller, Busy(y)' PROVE call'[y].req.id <= issued'
    <3>1. CASE y = c
      BY <1>2, <1>3, <2>0, <3>1
    <3>2. CASE y # c
      <4>1. Busy(y) /\ call'[y] = call[y]
        BY <1>3, <1>8, <1>9, <2>1, <3>2
      <4>2. call[y].req \in Update
        BY <4>1, UpdateRequest DEF Busy, TypeOK, Call
      <4>3. call[y].req.id <= issued /\ call[y].req.id \in Nat
        BY <4>1, <4>2 DEF Numbered, Update
      <4> QED
        BY <2>0, <4>1, <4>3
    <3> QED
      BY <3>1, <3>2
  <2>2. ASSUME NEW t \in Server PROVE (\A i \in DOMAIN Own(t) : Own(t)[i].id <= issued)'
    <3>1. Own(t) \in Seq(Update)
      BY OwnType
    <3>2. \A i \in DOMAIN Own(t) : Own(t)[i] \in Update /\ Own(t)[i].id <= issued
      BY <3>1 DEF Numbered
    <3>3. \A i \in DOMAIN Own(t) : Own(t)[i].id <= issued + 1
      BY <2>0, <3>2 DEF Update
    <3> QED
      BY <1>7, <2>0, <3>3
  <2> QED
    BY <2>1, <2>2 DEF Numbered
<1> QED
  BY <1>10, <1>11, <1>12, <1>13, <1>14, <1>16, <1>18, <1>19

\* A server does not send: it has no connection.
LEMMA UnlinkedSteps ==
    ASSUME TypeOK, Shape, Upstream, NEW s \in Server, Forward(s), call' = call
    PROVE  NothingNew /\ Upstream'
<1>1. /\ UNCHANGED <<phase, log, lock, issued, call>>
      /\ stage[s] = "forward" /\ stage'[s] # "forward"
      /\ \A t \in Server : t # s => stage'[t] = stage[t]
  BY DEF Forward, TypeOK, mainVars, history
<1>2. \A t \in Server : SameLog(t) /\ SameWork(t)
  BY <1>1 DEF SameLog, SameWork, Own, Joining, Current
<1>3. \A y \in Caller : SameBusy(y)
  BY <1>1 DEF SameBusy, Busy, Unanswered, Waiting, Alive
<1>4. Upstream'
  BY <1>1 DEF Upstream, AwaitsAnswer, Unanswered, Busy, Alive, Current
<1> QED
  BY <1>1, <1>2, <1>3, <1>4 DEF NothingNew

\* A server sends its update on.
LEMMA SendOnSteps ==
    ASSUME TypeOK, TypeOK', Shape, Shape', Placed, Upstream, Logs,
           NEW s \in Server, Forward(s), call' # call
    PROVE  Logs' /\ Upstream'
<1> USE DEF Logs
<1>0. s \in Caller /\ \A t \in Server : t \in Caller
  BY DEF Caller
<1> PICK n, u : n = link[s].to /\ u = Current(s)
  OBVIOUS
<1>1. /\ UNCHANGED <<phase, log, lock, issued>>
      /\ stage[s] = "forward" /\ stage'[s] = "wait"
      /\ \A t \in Server : t # s => stage'[t] = stage[t]
      /\ call'[s] = [to |-> n, req |-> u, answer |-> Null]
      /\ \A y \in Caller : y # s => call'[y] = call[y]
      /\ n \in Server /\ Alive(n)
  <2>1. /\ link[s].open /\ Alive(n)
        /\ stage' = [stage EXCEPT ![s] = "wait"] /\ Send(s, n, u)
    BY DEF Forward
  <2>2. n \in Server
    BY <2>1 DEF Shape, LinkShape, TypeOK, Link
  <2> QED
    BY <1>0, <2>1, <2>2 DEF Forward, Send, TypeOK, mainVars, history
<1>2. \A t \in Server : lock[t] # s
  BY <1>1, NotWorkedOn
<1>3. \A t \in Server : lock[t] # Null => Current(t)' = Current(t)
  BY <1>1, <1>2 DEF Current, TypeOK
<1>4. \A t \in Server : Own(t)' = Own(t) /\ (Alive(t)' <=> Alive(t))
  <2>1. phase[s] # "fetching"
    BY <1>1 DEF Shape, LockShape
  <2> QED
    BY <1>0, <1>1, <2>1 DEF Own, Alive
<1>5. ASSUME NEW y \in Caller, y # s, call[y] # Null
      PROVE  /\ Busy(y)' <=> Busy(y)
             /\ Unanswered(y)' <=> Unanswered(y)
             /\ Waiting(y)' <=> Waiting(y)
  <2>1. call[y].to \in Server /\ call'[y] = call[y]
    BY <1>1, <1>5 DEF TypeOK, Call
  <2> QED
    BY <1>1, <1>5, <2>1 DEF Busy, Unanswered, Waiting, Alive
<1>6. \A y \in Caller : y # s /\ Busy(y)' => call[y] # Null
  BY <1>1 DEF Busy
<1>7. PICK z \in Caller : /\ z = lock[s] /\ z # Null /\ Unanswered(z) /\ Busy(z)
                          /\ call[z].to = s /\ call[z].req = u
  BY <1>1 DEF Shape, LockShape, Unanswered, Busy, Current, Alive, TypeOK
<1>8. Alive(s) /\ s < n /\ \A r \in Server : Alive(r) /\ r < n => r = s \/ r < s
  <2>1. NoneBetween(s, n)
    BY <1>1, NullIsNoServer DEF Placed, PassesNobody
  <2>2. \A r \in Server : r \in Nat
    BY ChainAssumption
  <2>3. Alive(s)
    BY <1>7 DEF Unanswered
  <2> QED
    BY <1>1, <2>1, <2>2, <2>3 DEF NoneBetween
<1>9. ASSUME NEW y \in Caller, Unanswered(y), NEW r \in Server, Alive(r), r < call[y].to
      PROVE  r # s /\ AwaitsAnswer(r, call[y].req)'
  <2>1. AwaitsAnswer(r, call[y].req)
    BY <1>9 DEF Upstream
  <2>2. r # s /\ lock[r] # Null
    BY <1>1, <2>1 DEF AwaitsAnswer, Shape, LockShape
  <2>3. y # s
    BY <1>0, <1>1, <1>9 DEF Shape, LockShape, CallShape, Unanswered, Busy
  <2> QED
    BY <1>0, <1>1, <1>3, <2>1, <2>2, <2>3 DEF AwaitsAnswer
<1>10. Upstream'
  <2> SUFFICES ASSUME NEW y \in Caller, Unanswered(y)',
                      NEW r \in Server, Alive(r)', r < call'[y].to
               PROVE  AwaitsAnswer(r, call[y].req)'
    BY DEF Upstream
  <2>1. CASE y # s
    <3>1. call'[y] = call[y] /\ Unanswered(y) /\ Alive(r)
      BY <1>1, <1>4, <1>5, <1>6, <2>1 DEF Unanswered
    <3>2. AwaitsAnswer(r, call[y].req)'
      BY <1>9, <3>1
    <3> QED
      BY <3>1, <3>2 DEF AwaitsAnswer
  <2>2. CASE y = s /\ r = s
    <3>1. Current(s)' = u /\ call'[s].req = u /\ call'[s].answer = Null
      BY <1>1, <1>3, <1>7
    <3> QED
      BY <1>1, <2>2, <3>1 DEF AwaitsAnswer
  <2>3. CASE y = s /\ r # s
    <3>1. r < s /\ Alive(r) /\ call'[y].req = u
      BY <1>1, <1>4, <1>8, <2>3
    <3>2. AwaitsAnswer(r, call[z].req)'
      BY <1>7, <1>9, <3>1
    <3>3. z # s
      BY <1>2, <1>7
    <3> QED
      BY <1>1, <1>7, <3>1, <3>2, <3>3 DEF AwaitsAnswer
  <2> QED
    BY <2>1, <2>2, <2>3
<1>11. Grown'
  BY <1>1, <1>4 DEF Grown, Contained, In
<1>12. Fresh'
  BY <1>1, <1>4 DEF Fresh, Joining
<1>13. Ordered'
  BY <1>4 DEF Ordered, InOrder
<1>14. AtEnd'
  BY <1>1, <1>3 DEF AtEnd
<1>15. Unabsorbed'
  <2>1. ASSUME NEW r \in Server, NEW t \in Server, stage'[r] = "forward", Alive(t)', r < t
        PROVE  ~In(Current(r), Own(t))'
    <3>1. stage[r] = "forward" /\ Alive(t) /\ Current(r)' = Current(r) /\ Own(t)' = Own(t)
      BY <1>1, <1>3, <1>4, <2>1 DEF Shape, LockShape
    <3>2. ~In(Current(r), Own(t))
      BY <2>1, <3>1 DEF Unabsorbed
    <3> QED
      BY <3>1, <3>2 DEF In
  <2>2. ASSUME NEW y \in Caller, NEW t \in Server, Waiting(y)', Alive(t)', call'[y].to <= t
        PROVE  ~In(call[y].req, Own(t))'
    <3>1. CASE y = s
      <4>1. call'[y].req = u /\ n <= t
        BY <1>1, <2>2, <3>1
      <4>2. s < t
        <5>1. s \in Nat /\ n \in Nat /\ t \in Nat
          BY <1>1, ChainAssumption
        <5> QED
          BY <1>8, <4>1, <5>1
      <4>3. ~In(u, Own(t))
        BY <1>1, <1>4, <2>2, <4>2 DEF Unabsorbed
      <4> QED
        BY <1>4, <4>1, <4>3 DEF In
    <3>2. CASE y # s
      <4>1. call'[y] = call[y] /\ Waiting(y) /\ Alive(t)
        BY <1>1, <1>4, <1>5, <1>6, <2>2, <3>2 DEF Waiting, Unanswered
      <4>2. ~In(call[y].req, Own(t))
        BY <2>2, <4>1 DEF Unabsorbed
      <4> QED
        BY <1>4, <4>1, <4>2 DEF In
    <3> QED
      BY <3>1, <3>2
  <2> QED
    BY <2>1, <2>2 DEF Unabsorbed
<1>16. Distinct'
  <2>1. ASSUME NEW y \in Caller, y # s, Waiting(y)'
        PROVE  Waiting(y) /\ call'[y] = call[y] /\ call'[y].to # n
    <3>1. Waiting(y) /\ call'[y] = call[y]
      BY <1>1, <1>5, <1>6, <2>1 DEF Waiting, Unanswered
    <3>2. ~(s < call[y].to)
      BY <1>8, <1>9, <3>1 DEF Waiting
    <3> QED
      BY <1>8, <3>1, <3>2
  <2>2. call'[s].to = n
    BY <1>1
  <2> QED
    BY <2>1, <2>2 DEF Distinct
<1>17. Numbered'
  <2>1. ASSUME NEW y \in Caller, Busy(y)' PROVE call'[y].req.id <= issued'
    <3>1. CASE y = s
      BY <1>1, <1>7, <3>1 DEF Numbered
    <3>2. CASE y # s
      BY <1>1, <1>5, <1>6, <2>1, <3>2 DEF Numbered
    <3> QED
      BY <3>1, <3>2
  <2>2. ASSUME NEW t \in Server PROVE (\A i \in DOMAIN Own(t) : Own(t)[i].id <= issued)'
    BY <1>1, <1>4 DEF Numbered
  <2> QED
    BY <2>1, <2>2 DEF Numbered
<1> QED
  BY <1>10, <1>11, <1>12, <1>13, <1>14, <1>15, <1>16, <1>17

-----------------------------------------------------------------------------
(* An update taken up.                                                     *)

\* What Append does, place by place.
LEMMA AppendPlaces ==
    ASSUME NEW S, NEW p \in Seq(S), NEW e \in S
    PROVE  /\ DOMAIN p = 1 .. Len(p) /\ Len(p) \in Nat
           /\ DOMAIN Append(p, e) = 1 .. Len(p) + 1
           /\ \A i \in DOMAIN Append(p, e) :
                 \/ i \in DOMAIN p /\ Append(p, e)[i] = p[i]
                 \/ i = Len(p) + 1 /\ Append(p, e)[i] = e
           /\ Append(p, e) # <<>> /\ Append(p, e)[Len(Append(p, e))] = e
<1>1. /\ DOMAIN p = 1 .. Len(p) /\ Len(p) \in Nat
      /\ DOMAIN Append(p, e) = 1 .. Len(p) + 1 /\ Len(Append(p, e)) = Len(p) + 1
      /\ \A i \in 1 .. Len(p) : Append(p, e)[i] = p[i]
      /\ Append(p, e)[Len(p) + 1] = e
  BY AppendProperties, LenProperties
<1>2. \A i \in 1 .. Len(p) + 1 : i \in 1 .. Len(p) \/ i = Len(p) + 1
  BY <1>1
<1>3. Append(p, e) # <<>>
  <2>1. 1 \in DOMAIN Append(p, e)
    BY <1>1
  <2> QED
    BY <2>1
<1> QED
  BY <1>1, <1>2, <1>3

LEMMA AppendContains ==
    ASSUME NEW S, NEW p \in Seq(S), NEW e \in S, NEW v
    PROVE  In(v, Append(p, e)) <=> In(v, p) \/ v = e
<1> PICK q : q = Append(p, e)
  OBVIOUS
<1>1. /\ \A i \in DOMAIN q : (i \in DOMAIN p /\ q[i] = p[i]) \/ q[i] = e
      /\ \A i \in DOMAIN p : i \in DOMAIN q /\ q[i] = p[i]
      /\ \E i \in DOMAIN q : q[i] = e
  BY AppendPlaces, AppendHolds
<1>2. In(v, q) <=> In(v, p) \/ v = e
  BY <1>1 DEF In
<1> QED
  BY <1>2

\* A new element at the end of p is in order with q, if q does not have it,
\* or has it at its end.
LEMMA AppendInOrder ==
    ASSUME NEW S, NEW p \in Seq(S), NEW q \in Seq(S), NEW e \in S,
           InOrder(p, p), InOrder(p, q), InOrder(q, p), InOrder(q, q), ~In(e, p),
           ~In(e, q) \/ (q # <<>> /\ q[Len(q)] = e)
    PROVE  InOrder(Append(p, e), q) /\ InOrder(q, Append(p, e))
<1> PICK a, n : a = Append(p, e) /\ n = Len(p)
  OBVIOUS
<1>1. /\ DOMAIN p = 1 .. n /\ n \in Nat /\ DOMAIN a = 1 .. n + 1
      /\ \A i \in DOMAIN a : (i \in DOMAIN p /\ a[i] = p[i]) \/ (i = n + 1 /\ a[i] = e)
  BY AppendPlaces
<1>2. DOMAIN q = 1 .. Len(q) /\ Len(q) \in Nat
  BY LenProperties
<1>3. ASSUME NEW i \in DOMAIN p PROVE p[i] # e
  BY DEF In
\* The element is the last of q, wherever it is.
<1>4. ASSUME NEW l \in DOMAIN q, q[l] = e PROVE l = Len(q)
  <2>1. In(e, q)
    BY <1>4 DEF In
  <2>2. q[Len(q)] = e /\ Len(q) \in DOMAIN q
    BY <1>2, <2>1
  <2>3. ~(l < Len(q))
    BY <1>4, <2>2 DEF InOrder
  <2> QED
    BY <1>2, <1>4, <2>3
<1>5. ASSUME NEW i \in DOMAIN a, NEW j \in DOMAIN a, NEW k \in DOMAIN q, NEW l \in DOMAIN q,
             a[i] = q[k], a[j] = q[l], i < j
      PROVE  k < l
  <2>1. i \in DOMAIN p /\ a[i] = p[i]
    BY <1>1, <1>5
  <2>2. CASE j \in DOMAIN p /\ a[j] = p[j]
    BY <1>5, <2>1, <2>2 DEF InOrder
  <2>3. CASE a[j] = e
    <3>1. l = Len(q) /\ q[k] # e
      BY <1>3, <1>4, <1>5, <2>1, <2>3
    <3>2. k # l
      BY <1>5, <2>3, <3>1
    <3> QED
      BY <1>2, <3>1, <3>2
  <2> QED
    BY <1>1, <2>2, <2>3
<1>6. ASSUME NEW i \in DOMAIN q, NEW j \in DOMAIN q, NEW k \in DOMAIN a, NEW l \in DOMAIN a,
             q[i] = a[k], q[j] = a[l], i < j
      PROVE  k < l
  <2>1. q[i] # e
    BY <1>2, <1>4, <1>6
  <2>2. k \in DOMAIN p /\ a[k] = p[k]
    BY <1>1, <1>6, <2>1
  <2>3. CASE l \in DOMAIN p /\ a[l] = p[l]
    BY <1>6, <2>2, <2>3 DEF InOrder
  <2>4. CASE l = n + 1
    BY <1>1, <2>2, <2>4
  <2> QED
    BY <1>1, <2>3, <2>4
<1> QED
  BY <1>5, <1>6 DEF InOrder

LEMMA AppendOnce ==
    ASSUME NEW S, NEW p \in Seq(S), NEW e \in S, InOrder(p, p), ~In(e, p)
    PROVE  InOrder(Append(p, e), Append(p, e))
<1> PICK a, n : a = Append(p, e) /\ n = Len(p)
  OBVIOUS
<1>1. /\ DOMAIN p = 1 .. n /\ n \in Nat /\ DOMAIN a = 1 .. n + 1
      /\ \A i \in DOMAIN a : (i \in DOMAIN p /\ a[i] = p[i]) \/ (i = n + 1 /\ a[i] = e)
  BY AppendPlaces
<1>2. ASSUME NEW i \in DOMAIN p PROVE p[i] # e
  BY DEF In
<1>3. ASSUME NEW i \in DOMAIN a, NEW j \in DOMAIN a, NEW k \in DOMAIN a, NEW l \in DOMAIN a,
             a[i] = a[k], a[j] = a[l], i < j
      PROVE  k < l
  <2>1. i \in DOMAIN p /\ a[i] = p[i]
    BY <1>1, <1>3
  <2>2. k \in DOMAIN p /\ a[k] = p[k]
    BY <1>1, <1>2, <1>3, <2>1
  <2>3. CASE l = n + 1
    BY <1>1, <2>2, <2>3
  <2>4. CASE l \in DOMAIN p /\ a[l] = p[l]
    <3>1. j \in DOMAIN p /\ a[j] = p[j]
      BY <1>1, <1>2, <1>3, <2>4
    <3> QED
      BY <1>3, <2>1, <2>2, <2>4, <3>1 DEF InOrder
  <2> QED
    BY <1>1, <2>3, <2>4
<1> QED
  BY <1>3 DEF InOrder

\* A server takes up an update.
LEMMA BeginSteps ==
    ASSUME TypeOK, TypeOK', Shape, Shape', Placed, Upstream, Logs,
           NEW s \in Server, NEW x \in Caller, Begin(x, s)
    PROVE  Logs' /\ Upstream'
<1> USE DEF Logs
<1> PICK u : u = call[x].req
  OBVIOUS
<1>1. /\ UNCHANGED <<phase, call, issued>>
      /\ phase[s] = "serving" /\ lock[s] = Null /\ call[x] # Null /\ call[x].to = s
      /\ call[x].answer = Null /\ IsUpdate(u)
      /\ log'[s] = Append(log[s], u) /\ lock'[s] = x
      /\ \A t \in Server : t # s => /\ log'[t] = log[t] /\ lock'[t] = lock[t]
                                    /\ stage'[t] = stage[t]
  BY DEF Begin, At, TypeOK, mainVars, history
<1>2. u \in Update /\ log[s] \in Seq(Update) /\ x # Null
  BY <1>1, UpdateRequest, NullIsNoServer DEF TypeOK, Call
<1>3. Unanswered(x) /\ Waiting(x) /\ Busy(x) /\ Alive(s)
  BY <1>1, <1>2 DEF Waiting, Unanswered, Busy, Alive
<1>4. /\ Current(s)' = u
      /\ \A t \in Server : t # s => Current(t)' = Current(t)
  BY <1>1 DEF Current
<1>5. ASSUME NEW r \in Server, Alive(r), r < s
      PROVE  /\ AwaitsAnswer(r, u) /\ lock[r] # Null /\ phase[r] = "serving"
             /\ Own(r) = log[r] /\ log[r] # <<>> /\ log[r][Len(log[r])] = u
  <2>1. AwaitsAnswer(r, u)
    BY <1>1, <1>3, <1>5 DEF Upstream
  <2>2. lock[r] # Null /\ phase[r] = "serving"
    BY <2>1 DEF AwaitsAnswer, Shape, LockShape
  <2> QED
    BY <2>1, <2>2 DEF Own, AtEnd, AwaitsAnswer
<1>6. ASSUME NEW y \in Caller, Unanswered(y) PROVE ~(s < call[y].to)
  BY <1>1, <1>3, <1>6 DEF Upstream, AwaitsAnswer, Shape, LockShape
<1>7. ASSUME NEW t \in Server, Alive(t), s <= t PROVE ~In(u, Own(t))
  BY <1>1, <1>3, <1>7 DEF Unabsorbed
<1>8. /\ Own(s) = log[s] /\ Own(s)' = Append(log[s], u)
      /\ \A t \in Server : t # s => Own(t)' = Own(t)
      /\ \A t \in Server : Alive(t)' <=> Alive(t)
  BY <1>1 DEF Own, Alive
<1>9. ~In(u, log[s])
  <2>1. s <= s
    BY ChainAssumption
  <2> QED
    BY <1>3, <1>7, <1>8, <2>1
<1>10. \A v : In(v, Append(log[s], u)) <=> In(v, log[s]) \/ v = u
  BY <1>2, AppendContains
<1>11. ASSUME NEW y \in Caller
       PROVE  /\ Unanswered(y)' <=> Unanswered(y)
              /\ Waiting(y)' => Waiting(y) /\ y # x
  <2>1. Unanswered(y)' <=> Unanswered(y)
    BY <1>1 DEF Unanswered, Busy, Alive
  <2>2. Unanswered(y) => call[y].to \in Server
    BY DEF Unanswered, Busy, TypeOK, Call
  <2>3. ASSUME Waiting(y)' PROVE Waiting(y) /\ y # x
    <3>1. Unanswered(y) /\ lock'[call[y].to] # y
      BY <1>1, <2>1, <2>3 DEF Waiting
    <3>2. y # x
      BY <1>1, <3>1
    <3>3. lock[call[y].to] # y
      <4>1. CASE call[y].to = s
        BY <1>1, <4>1, NullIsNoServer
      <4>2. CASE call[y].to # s
        BY <1>1, <2>2, <3>1, <4>2
      <4> QED
        BY <4>1, <4>2
    <3> QED
      BY <3>1, <3>2, <3>3 DEF Waiting
  <2> QED
    BY <2>1, <2>3
<1>12. Upstream'
  <2> SUFFICES ASSUME NEW y \in Caller, Unanswered(y)',
                      NEW r \in Server, Alive(r)', r < call'[y].to
               PROVE  AwaitsAnswer(r, call[y].req)'
    BY DEF Upstream
  <2>1. Unanswered(y) /\ Alive(r) /\ call'[y] = call[y]
    BY <1>1, <1>8, <1>11
  <2>2. AwaitsAnswer(r, call[y].req) /\ r # s
    BY <1>6, <2>1 DEF Upstream
  <2> QED
    BY <1>1, <1>4, <2>1, <2>2 DEF AwaitsAnswer
<1>13. Grown'
  <2> SUFFICES ASSUME NEW r \in Server, NEW t \in Server, Alive(r), Alive(t), r < t
               PROVE  Contained(r, t)'
    BY <1>8 DEF Grown
  <2>1. CASE t = s
    <3>1. r # s /\ log'[r] = log[r] /\ Contained(r, s)
      BY <1>1, <2>1, ChainAssumption DEF Grown
    <3>2. In(u, log[r])
      <4>1. log[r] \in Seq(Update) /\ log[r] # <<>> /\ log[r][Len(log[r])] = u
        BY <1>5, <2>1 DEF TypeOK
      <4>2. Len(log[r]) \in DOMAIN log[r]
        BY <4>1
      <4> QED
        BY <4>1, <4>2 DEF In
    <3>3. \A v : In(v, log[s]) => In(v, log[r])
      BY <1>8, <3>1 DEF Contained, In
    <3>4. \A v : In(v, Append(log[s], u)) => In(v, log[r])
      BY <1>10, <3>2, <3>3
    <3> QED
      BY <1>8, <2>1, <3>1, <3>4 DEF Contained, In
  <2>2. CASE t # s
    <3>1. Contained(r, t) /\ Own(t)' = Own(t)
      BY <1>8, <2>2 DEF Grown
    <3>2. \A v : In(v, log[r]) => In(v, log'[r])
      BY <1>1, <1>10
    <3> QED
      BY <3>1, <3>2 DEF Contained, In
  <2> QED
    BY <2>1, <2>2
<1>14. Fresh'
  <2>1. ASSUME NEW r \in Server, NEW t \in Server, Joining(r)', Alive(t)', r < t
        PROVE  Own(t)' = <<>>
    <3>1. Joining(r) /\ Alive(r) /\ Alive(t)
      BY <1>1, <2>1 DEF Joining, Alive
    <3>2. t # s
      BY <1>5, <2>1, <3>1 DEF Joining
    <3> QED
      BY <1>8, <2>1, <3>1, <3>2 DEF Fresh
  <2>2. ASSUME NEW r \in Server, phase'[r] # "serving" PROVE log'[r] = <<>>
    BY <1>1, <2>2 DEF Fresh
  <2> QED
    BY <2>1, <2>2 DEF Fresh
<1>15. ASSUME NEW t \in Server, t # s
       PROVE  ~In(u, Own(t)) \/ (Own(t) # <<>> /\ Own(t)[Len(Own(t))] = u)
  <2>1. CASE ~Alive(t)
    <3>1. Own(t) = <<>>
      BY <2>1 DEF Own, Fresh, Alive
    <3> QED
      BY <3>1 DEF In
  <2>2. CASE Alive(t) /\ t < s
    BY <1>5, <2>2
  <2>3. CASE Alive(t) /\ s <= t
    BY <1>7, <2>3
  <2>4. t < s \/ s <= t
    BY ChainAssumption
  <2> QED
    BY <2>1, <2>2, <2>3, <2>4
<1>16. Ordered'
  <2>0. \A t \in Server : Own(t) \in Seq(Update)
    BY OwnType
  <2>1. InOrder(log[s], log[s])
    BY <1>8 DEF Ordered
  <2>2. ASSUME NEW t \in Server, t # s
        PROVE  InOrder(Append(log[s], u), Own(t)) /\ InOrder(Own(t), Append(log[s], u))
    <3> PICK p, q : p = log[s] /\ q = Own(t)
      OBVIOUS
    <3>1. InOrder(p, p) /\ InOrder(p, q) /\ InOrder(q, p) /\ InOrder(q, q)
      BY <1>8 DEF Ordered
    <3>2. ~In(u, p) /\ (~In(u, q) \/ (q # <<>> /\ q[Len(q)] = u))
      <4>1. ~In(u, p)
        BY <1>9
      <4>2. ~In(u, Own(t)) \/ (Own(t) # <<>> /\ Own(t)[Len(Own(t))] = u)
        BY <1>15, <2>2
      <4> QED
        BY <4>1, <4>2
    <3>3. p \in Seq(Update) /\ q \in Seq(Update) /\ u \in Update
      BY <1>2, <2>0
    <3>4. InOrder(Append(p, u), q) /\ InOrder(q, Append(p, u))
      BY <3>1, <3>2, <3>3, AppendInOrder
    <3> QED
      BY <3>4
  <2>3. InOrder(Append(log[s], u), Append(log[s], u))
    BY <1>2, <1>9, <2>1, AppendOnce
  <2> SUFFICES ASSUME NEW r \in Server, NEW t \in Server PROVE InOrder(Own(r), Own(t))'
    BY DEF Ordered
  <2> PICK p, q : p = Own(r)' /\ q = Own(t)'
    OBVIOUS
  <2>4. InOrder(p, q)
    <3>1. CASE r = s /\ t = s
      BY <1>8, <2>3, <3>1
    <3>2. CASE r = s /\ t # s
      BY <1>8, <2>2, <3>2
    <3>3. CASE r # s /\ t = s
      BY <1>8, <2>2, <3>3
    <3>4. CASE r # s /\ t # s
      BY <1>8, <3>4 DEF Ordered
    <3> QED
      BY <3>1, <3>2, <3>3, <3>4
  <2> QED
    BY <2>4 DEF InOrder
<1>17. AtEnd'
  <2> SUFFICES ASSUME NEW t \in Server, lock'[t] # Null
               PROVE  log'[t] # <<>> /\ log'[t][Len(log'[t])] = Current(t)'
    BY DEF AtEnd
  <2>1. CASE t = s
    BY <1>1, <1>2, <1>4, <2>1, AppendPlaces
  <2>2. CASE t # s
    BY <1>1, <1>4, <2>2 DEF AtEnd
  <2> QED
    BY <2>1, <2>2
<1>18. Unabsorbed'
  <2>1. ASSUME NEW r \in Server, NEW t \in Server, stage'[r] = "forward", Alive(t)', r < t
        PROVE  ~In(Current(r), Own(t))'
    <3>1. CASE r = s
      <4>1. t # s /\ s <= t
        <5>1. s \in Nat /\ t \in Nat
          BY ChainAssumption
        <5> QED
          BY <2>1, <3>1, <5>1
      <4>2. ~In(u, Own(t))
        BY <1>7, <1>8, <2>1, <4>1
      <4> QED
        BY <1>4, <1>8, <3>1, <4>1, <4>2 DEF In
    <3>2. CASE r # s
      <4>1. stage[r] = "forward" /\ Alive(t) /\ Alive(r)
        BY <1>1, <1>8, <2>1, <3>2 DEF Shape, LockShape, Alive
      <4>2. ~(r < s)
        BY <1>5, <4>1 DEF AwaitsAnswer
      <4>3. t # s
        BY <2>1, <4>2
      <4>4. ~In(Current(r), Own(t))
        BY <2>1, <4>1 DEF Unabsorbed
      <4> QED
        BY <1>4, <1>8, <3>2, <4>3, <4>4 DEF In
    <3> QED
      BY <3>1, <3>2
  <2>2. ASSUME NEW y \in Caller, NEW t \in Server, Waiting(y)', Alive(t)', call'[y].to <= t
        PROVE  ~In(call[y].req, Own(t))'
    <3>0. Waiting(y) /\ y # x /\ Alive(t) /\ call'[y] = call[y]
      BY <1>1, <1>8, <1>11, <2>2
    <3>1. /\ Waiting(y) /\ y # x /\ Unanswered(y) /\ Alive(t) /\ call'[y] = call[y]
          /\ call[y].to \in Server /\ call[y].to <= t
      BY <2>2, <3>0 DEF Waiting, Unanswered, Busy, TypeOK, Call
    <3>2. ~In(call[y].req, Own(t))
      BY <3>1 DEF Unabsorbed
    <3>3. CASE t # s
      BY <1>8, <3>1, <3>2, <3>3 DEF In
    <3>4. CASE t = s
      <4>1. call[y].req # u
        <5>1. CASE call[y].to = s
          BY <1>1, <1>3, <3>1, <5>1 DEF Distinct
        <5>2. CASE call[y].to # s
          <6> PICK r \in Server : r = call[y].to
            BY <3>1
          <6>1. r \in Nat /\ s \in Nat
            BY ChainAssumption
          <6>2. r < s /\ Alive(r) /\ r <= r
            BY <3>1, <3>4, <5>2, <6>1 DEF Unanswered
          <6>3. ~In(call[y].req, log[r])
            BY <1>5, <3>1, <6>2 DEF Unabsorbed
          <6>4. log[r] \in Seq(Update) /\ log[r] # <<>> /\ log[r][Len(log[r])] = u
            BY <1>5, <6>2 DEF TypeOK
          <6>5. Len(log[r]) \in DOMAIN log[r]
            BY <6>4
          <6> QED
            BY <6>3, <6>4, <6>5 DEF In
        <5> QED
          BY <5>1, <5>2
      <4>2. ~In(call[y].req, Append(log[s], u))
        BY <1>8, <1>10, <3>2, <3>4, <4>1
      <4> QED
        BY <1>8, <3>1, <3>4, <4>2 DEF In
    <3> QED
      BY <3>3, <3>4
  <2> QED
    BY <2>1, <2>2 DEF Unabsorbed
<1>19. Distinct'
  BY <1>1, <1>11 DEF Distinct
<1>20. Numbered'
  <2>1. \A y \in Caller : Busy(y)' => call'[y].req.id <= issued'
    BY <1>1 DEF Numbered, Busy
  <2>2. ASSUME NEW t \in Server PROVE (\A i \in DOMAIN Own(t) : Own(t)[i].id <= issued)'
    <3>1. CASE t = s
      <4>1. u.id <= issued
        BY <1>3 DEF Numbered
      <4>2. \A i \in DOMAIN log[s] : log[s][i].id <= issued
        BY <1>8 DEF Numbered
      <4>3. \A i \in DOMAIN Append(log[s], u) : Append(log[s], u)[i].id <= issued
        <5>1. \A i \in DOMAIN Append(log[s], u) :
                 \/ i \in DOMAIN log[s] /\ Append(log[s], u)[i] = log[s][i]
                 \/ Append(log[s], u)[i] = u
          BY <1>2, AppendPlaces
        <5> QED
          BY <4>1, <4>2, <5>1
      <4> QED
        BY <1>1, <1>8, <3>1, <4>3
    <3>2. CASE t # s
      BY <1>1, <1>8, <3>2 DEF Numbered
    <3> QED
      BY <3>1, <3>2
  <2> QED
    BY <2>1, <2>2 DEF Numbered
<1> QED
  BY <1>12, <1>13, <1>14, <1>16, <1>17, <1>18, <1>19, <1>20

-----------------------------------------------------------------------------
(* The invariant is kept.                                                  *)

PutsInOrder ==
    /\ TypeOK /\ Shape /\ NextIsClosest /\ Started
    /\ Placed /\ Upstream /\ Logs

LEMMA LogsStep ==
    ASSUME TypeOK, TypeOK', Shape, Shape', Placed, Upstream, Logs, Next
    PROVE  Logs' /\ Upstream'
<1>1. ASSUME NothingNew /\ Upstream' PROVE Logs' /\ Upstream'
  <2>1. OnlyNewStarts
    BY StartsStep DEF Placed
  <2> QED
    BY <1>1, <2>1, NothingNewKeeps
<1>2. Fresh /\ AtEnd /\ Unabsorbed /\ Puts
  BY DEF Logs, Placed
<1>3. ASSUME NEW c \in Client, IssueUpdate(c) \/ IssueGet(c) \/ Finish(c) \/ ClientLost(c)
      PROVE  Logs' /\ Upstream'
  BY <1>1, <1>3, ClientSteps, IssueSteps
<1>4. ASSUME NEW x \in Caller, AnswerLost(x) PROVE Logs' /\ Upstream'
  BY <1>1, <1>2, <1>4, ReadSteps
<1>5. ASSUME NEW s \in Server, NEW why, Down(s, why) PROVE Logs' /\ Upstream'
  BY <1>1, <1>5, DownSteps
<1>6. ASSUME NEW s \in Server, NEW x \in Caller, Begin(x, s) \/ Get(x, s) \/ GetTable(x, s)
      PROVE  Logs' /\ Upstream'
  <2>1. CASE Begin(x, s)
    BY <2>1, BeginSteps
  <2>2. CASE GetTable(x, s) /\ x \in Server
    BY <2>2, CopySteps
  <2>3. CASE Get(x, s) \/ (GetTable(x, s) /\ x \notin Server)
    BY <1>1, <1>2, <2>3, ReadSteps
  <2> QED
    BY <1>6, <2>1, <2>2, <2>3
<1>7. ASSUME NEW s \in Server, Forward(s) \/ ReplyIn(s) \/ Reply(s)
      PROVE  Logs' /\ Upstream'
  <2>1. CASE Forward(s)
    BY <1>1, <2>1, UnlinkedSteps, SendOnSteps
  <2>2. CASE ReplyIn(s)
    BY <1>1, <2>2, ReplyInSteps
  <2>3. CASE Reply(s)
    BY <1>1, <1>2, <2>3, ReplySteps
  <2> QED
    BY <1>7, <2>1, <2>2, <2>3
<1>8. ASSUME NEW s \in Server, List(s) \/ Fetch(s) \/ Fill(s) \/ FetchLost(s)
      PROVE  Logs' /\ Upstream'
  BY <1>1, <1>2, <1>8, MainSteps
<1>9. ASSUME NEW s \in Server, Notice(s) \/ Disconnect(s) \/ Connect(s) \/ Expire(s)
      PROVE  Logs' /\ Upstream'
  BY <1>1, <1>9, WatcherSteps
<1>10. ASSUME NEW s \in Server, Register(s) PROVE Logs' /\ Upstream'
  BY <1>1, <1>2, <1>10, RegisterSteps
<1> QED
  BY <1>2, <1>3, <1>4, <1>5, <1>6, <1>7, <1>8, <1>9, <1>10, PutSteps

LEMMA PutsInOrderStep ==
    ASSUME "del" \notin Kinds, PutsInOrder, [Next]_vars
    PROVE  PutsInOrder'
<1> USE DEF PutsInOrder
<1>1. (TypeOK /\ Shape /\ NextIsClosest /\ Started)'
  BY TypeStep, ShapeStep, NextIsClosestStep
<1>2. CASE Next
  BY <1>1, <1>2, PlacedStep, LogsStep
<1>3. CASE UNCHANGED vars
  <2>1. Placed'
    BY <1>3 DEF vars, zkVars, mainVars, nextVars, tableVars, Placed, InChain, Puts, Addressed,
                PassesNobody, CallPoints, NoneBetween, Busy, Alive
  <2>2. NothingNew /\ Upstream'
    BY <1>3, SameState DEF vars, zkVars, mainVars, nextVars, tableVars, history
  <2>3. OnlyNewStarts
    BY <1>3 DEF vars, mainVars, OnlyNewStarts, Alive
  <2> QED
    BY <1>1, <2>1, <2>2, <2>3, NothingNewKeeps
<1> QED
  BY <1>2, <1>3

LEMMA InitialPutsInOrder == Init => PutsInOrder
<1> SUFFICES ASSUME Init PROVE PutsInOrder
  OBVIOUS
<1>1. TypeOK /\ Shape /\ NextIsClosest /\ Started
  BY InitialState, InitialNext
<1>2. /\ \A x \in Caller : call[x] = Null
      /\ \A s \in Server : /\ log[s] = <<>> /\ lock[s] = Null /\ stage[s] = "idle"
                           /\ source[s] = Null /\ link[s].to = next[s]
                           /\ next[s] # Null => next[s] = zk_closest_node(s, znodes)
                           /\ phase[s] \in {"serving", "off"}
                           /\ phase[s] = "serving" <=> s \in znodes
  BY ChainAssumption DEF Init
<1>3. InChain /\ Puts /\ Addressed
  BY <1>2 DEF InChain, Puts, Addressed, Busy, Alive
<1>4. PassesNobody
  <2>1. ASSUME NEW s \in Server, next[s] # Null PROVE NoneBetween(s, next[s])
    BY <1>1, <1>2, <1>3, <2>1, ClosestPassesNobody
  <2> QED
    BY <1>2, <2>1 DEF PassesNobody, CallPoints, Caller
<1>5. \A x \in Caller : ~Busy(x) /\ ~Unanswered(x) /\ ~Waiting(x)
  BY <1>2 DEF Busy, Unanswered, Waiting
<1>6. \A s \in Server : Own(s) = <<>>
  BY <1>2 DEF Own
<1>7. Upstream /\ Unabsorbed /\ Distinct
  BY <1>2, <1>5 DEF Upstream, Unabsorbed, Distinct
<1>8. Grown /\ Fresh /\ Ordered /\ Numbered
  BY <1>2, <1>5, <1>6 DEF Grown, Contained, Fresh, Ordered, InOrder, Numbered
<1>9. AtEnd
  BY <1>2 DEF AtEnd
<1> QED
  BY <1>1, <1>3, <1>4, <1>7, <1>8, <1>9 DEF PutsInOrder, Placed, Logs

\* When nothing is deleted, the servers absorb updates in one order, and none
\* of them twice, whenever servers start and fail: an update is forwarded
\* under the lock of table_put (invoke), and fill_table copies a table under it.
THEOREM OneOrderOfPuts ==
    ASSUME "del" \notin Kinds
    PROVE  Spec => []SameOrder
<1>1. PutsInOrder => SameOrder
  <2> SUFFICES ASSUME PutsInOrder, NEW s \in Server, NEW t \in Server
               PROVE  InOrder(log[s], log[t])
    BY DEF SameOrder, InOrder
  <2>1. CASE log[s] = <<>> \/ log[t] = <<>>
    BY <2>1 DEF InOrder
  <2>2. CASE log[s] # <<>> /\ log[t] # <<>>
    <3>1. Own(s) = log[s] /\ Own(t) = log[t]
      BY <2>2 DEF PutsInOrder, Logs, Fresh, Own
    <3> QED
      BY <3>1 DEF PutsInOrder, Logs, Ordered
  <2> QED
    BY <2>1, <2>2
<1>2. Init => PutsInOrder
  BY InitialPutsInOrder
<1>3. PutsInOrder /\ [Next]_vars => PutsInOrder'
  BY PutsInOrderStep
<1> QED
  BY <1>1, <1>2, <1>3, PTL DEF Spec
-----------------------------------------------------------------------------
(* 7. While servers start and fail one at a time: what a client was told.  *)

\* What a server copies has every update that a client was told of.
CopiesHold == \A s \in Server : phase[s] = "fetching" /\ call[s].answer # Null =>
    \A u \in acked : In(u, call[s].answer.log)

Remembered == UpdateHeld /\ AnswerHeld /\ AckedEverywhere /\ CopiesHold

\* A founder that is up serves, from the beginning.
FoundersServe == \A f \in Founders : phase[f] \in {"serving", "crashed"}
FounderLeft == Founders \cap Serving # {}

-----------------------------------------------------------------------------
(* The steps when all have seen the last change.                           *)

\* A chain at rest has the shape that the argument of part 2 needs.
LEMMA RestingSuccessors ==
    ASSUME TypeOK, Linking, Settled
    PROVE  Registered /\ SuccessorShape
<1>1. /\ Serving = znodes /\ Serving \subseteq Server
      /\ \A s \in Server : Alive(s) <=> s \in Serving
      /\ \A s \in Serving : Linked(s) /\ next[s] = zk_closest_node(s, Serving)
  BY RestingChain
<1>2. \A s \in Server : s \in Nat
  BY ChainAssumption
<1>3. ASSUME NEW s \in Serving PROVE SuccessorShape!(s)
  <2> PICK n : n = zk_closest_node(s, Serving)
    OBVIOUS
  <2>1. \/ n = Null /\ \A t \in Serving : t <= s
        \/ n \in Serving /\ n > s /\ \A t \in Serving : t > s => n <= t
    BY <1>1, ClosestIsNearest
  <2>2. next[s] = n
    BY <1>1
  <2>3. CASE n = Null
    <3>1. \A t \in Serving : t <= s
      BY <1>1, <2>1, <2>3, NullIsNoServer
    <3>2. watcher[s] = "idle" /\ ~link[s].open
      BY <1>1, <2>2, <2>3 DEF Settled, Linking, Handling
    <3>3. ASSUME link[s].to # Null PROVE link[s].to \in Server /\ s < link[s].to
      <4>1. Leftover(s)
        BY <3>2, <3>3 DEF Leftover
      <4> QED
        BY <1>1, <3>3, <4>1 DEF Linking, OldGone, TypeOK, Link
    <3>4. ASSUME link[s].to # Null PROVE Reaches(s, link[s].to)
      <4> PICK l \in Server : l = link[s].to /\ s < l
        BY <3>3, <3>4
      <4> QED
        BY <1>1, <1>2, <3>1 DEF Reaches
    <3> QED
      BY <2>2, <2>3, <3>1, <3>4
  <2>4. CASE n # Null
    <3>1. Reaches(s, n)
      BY <2>1, <2>4 DEF Reaches
    <3>2. link[s].to = n
      <4>1. link[s] = [to |-> n, open |-> TRUE]
        BY <1>1, <2>2, <2>4 DEF Linked
      <4> QED
        BY <4>1
    <3> QED
      BY <2>2, <2>4, <3>1, <3>2
  <2> QED
    BY <2>3, <2>4
<1>4. Registered
  BY <1>1 DEF Registered
<1> QED
  BY <1>3, <1>4 DEF SuccessorShape

LEMMA RestingRemembers ==
    ASSUME TypeOK, Shape, Linking, Settled, Remembered, Next, UNCHANGED phase
    PROVE  Remembered'
<1>1. Registered /\ SuccessorShape
  BY RestingSuccessors
<1>2. \A s \in Server : phase[s] \notin {"registered", "listed", "fetching"}
  BY DEF Settled, Alive
<1>3. NobodyStarts
  <2>1. \A s \in Server : ~Main(s)
    BY <1>2 DEF Main, List, ListNothingBelow, Fetch, Fill, FetchLost
  <2>2. \A s \in Server : ~Register(s)
    BY DEF Register, TypeOK
  <2> QED
    BY <2>1, <2>2 DEF NobodyStarts
<1>4. UpdateHeld' /\ AnswerHeld' /\ AckedEverywhere'
  BY <1>1, <1>3, UpdateHeldStep, AnswerHeldStep, AckedStep DEF Remembered
<1>5. CopiesHold'
  BY <1>2 DEF CopiesHold
<1> QED
  BY <1>4, <1>5 DEF Remembered

-----------------------------------------------------------------------------
(* The steps while no update is on its way.                                *)

LEMMA AckedStays ==
    ASSUME UNCHANGED acked, AckedEverywhere,
           \A t \in Serving' : t \in Serving /\ log'[t] = log[t]
    PROVE  AckedEverywhere'
BY DEF AckedEverywhere, Holds

LEMMA CopiesStay ==
    ASSUME UNCHANGED acked, CopiesHold,
           \A t \in Server : phase'[t] = "fetching" /\ call'[t].answer # Null =>
               phase[t] = "fetching" /\ call'[t].answer = call[t].answer
    PROVE  CopiesHold'
BY DEF CopiesHold

\* A table that is copied now comes from a server that serves.
LEMMA ReadRemembers ==
    ASSUME TypeOK, Shape, Copying, NobodyBusy, AckedEverywhere, CopiesHold, ReadStep
    PROVE  AckedEverywhere' /\ CopiesHold'
<1> USE DEF zkVars, mainVars, nextVars, tableVars, history
<1>1. UNCHANGED <<phase, log>>
  BY DEF ReadStep, IssueGet, Finish, ClientLost, AnswerLost, Get, GetTable, Notice, Disconnect,
         Connect
<1>2. UNCHANGED acked
  <2>1. ASSUME NEW c \in Client, Finish(c) PROVE UNCHANGED acked
    BY <2>1 DEF Finish, NobodyBusy, Busy, Caller
  <2> QED
    BY <2>1 DEF ReadStep, IssueGet, ClientLost, AnswerLost, Get, GetTable, Notice, Disconnect,
                Connect
<1>3. AckedEverywhere'
  BY <1>1, <1>2, AckedStays DEF Serving
<1>4. ASSUME NEW s \in Server, phase[s] = "fetching", call'[s].answer # Null, NEW u \in acked
      PROVE  In(u, call'[s].answer.log)
  <2>1. CASE call'[s].answer = call[s].answer
    BY <1>4, <2>1 DEF CopiesHold
  <2>2. ASSUME NEW r \in Serving, call'[s].answer = [table |-> table[r], log |-> log[r]]
        PROVE  In(u, call'[s].answer.log)
    <3>1. call'[s].answer.log = log[r]
      BY <2>2
    <3>2. Holds(r, u)
      BY DEF AckedEverywhere
    <3> QED
      BY <3>1, <3>2 DEF Holds, In
  <2> QED
    BY <1>4, <2>1, <2>2, CopyInHand
<1>5. CopiesHold'
  BY <1>1, <1>2, <1>4 DEF CopiesHold
<1> QED
  BY <1>3, <1>5

\* A server that starts has somebody to copy from, and copies.
LEMMA StartRemembers ==
    ASSUME TypeOK, Linking, Copying, FounderLeft, AckedEverywhere, CopiesHold,
           NEW s \in Server, List(s) \/ Fetch(s) \/ Fill(s) \/ FetchLost(s)
    PROVE  AckedEverywhere' /\ CopiesHold'
<1> USE DEF zkVars, mainVars, nextVars, tableVars, history
<1>1. /\ phase[s] \in {"registered", "listed", "fetching"} /\ Joining(s) /\ s \in Caller
      /\ UNCHANGED acked
      /\ \A t \in Server : t # s => phase'[t] = phase[t]
  BY DEF List, Fetch, Fill, FetchLost, Joining, TypeOK, Caller
<1>2. CASE List(s)
  <2>1. UNCHANGED <<log, call>>
    BY <1>2 DEF List
  <2>2. phase'[s] = "listed"
    <3> PICK f \in Founders : f \in Serving
      BY DEF FounderLeft
    <3>1. /\ s \in znodes /\ znodes \subseteq Server /\ f \in znodes /\ f # s
      BY <1>1, OthersServe
    <3>2. IsFiniteSet(znodes)
      BY <3>1, FS_Subset, ChainAssumption
    <3>3. ~(Cardinality(znodes) <= 1)
      <4>1. IsFiniteSet({s, f}) /\ {s, f} \subseteq znodes /\ Cardinality({s}) = 1
            /\ {s, f} = {s} \cup {f} /\ IsFiniteSet({s}) /\ f \notin {s}
        BY <3>1, <3>2, FS_Subset, FS_Singleton
      <4>2. Cardinality({s, f}) = 2
        BY <4>1, FS_AddElement
      <4>3. Cardinality({s, f}) <= Cardinality(znodes) /\ Cardinality(znodes) \in Nat
        BY <3>2, <4>1, FS_Subset, FS_CardinalityType
      <4> QED
        BY <4>2, <4>3
    <3> QED
      BY <1>2, <3>3 DEF List, TypeOK
  <2> QED
    BY <1>1, <2>1, <2>2, AckedStays, CopiesStay DEF Serving
<1>3. CASE Fetch(s)
  <2>1. /\ UNCHANGED log /\ phase'[s] = "fetching"
        /\ call'[s] = [to |-> source[s], req |-> [op |-> "gettable"], answer |-> Null]
        /\ \A t \in Server : t # s => call'[t] = call[t]
    BY <1>1, <1>3 DEF Fetch, Send, TypeOK, Caller
  <2>2. call'[s].answer = Null
    BY <2>1
  <2> QED
    BY <1>1, <2>1, <2>2, AckedStays, CopiesStay DEF Serving
<1>4. CASE Fill(s)
  <2>1. /\ phase[s] = "fetching" /\ call[s].answer # Null /\ phase'[s] = "serving"
        /\ log'[s] = call[s].answer.log
        /\ \A t \in Server : t # s => log'[t] = log[t] /\ call'[t] = call[t]
    BY <1>1, <1>4 DEF Fill, TypeOK, Caller
  <2>2. ASSUME NEW u \in acked, NEW t \in Serving' PROVE Holds(t, u)'
    <3>1. CASE t = s
      BY <2>1, <2>2, <3>1 DEF CopiesHold, In, Holds
    <3>2. CASE t # s
      BY <1>1, <2>1, <2>2, <3>2 DEF Serving, AckedEverywhere, Holds
    <3> QED
      BY <3>1, <3>2
  <2>3. AckedEverywhere'
    BY <1>1, <2>2 DEF AckedEverywhere
  <2>4. CopiesHold'
    BY <1>1, <2>1, CopiesStay
  <2> QED
    BY <2>3, <2>4
<1>5. ~FetchLost(s)
  <2>1. phase[s] = "fetching" => Alive(call[s].to)
    BY DEF Copying, Serving, Alive
  <2>2. phase[s] = "listed" => Alive(source[s])
    BY DEF Copying, Serving, Alive
  <2> QED
    BY <2>1, <2>2 DEF FetchLost
<1> QED
  BY <1>2, <1>3, <1>4, <1>5

LEMMA ChangeRemembers ==
    ASSUME TypeOK, OneAtATime, AckedEverywhere, CopiesHold, NEW s \in Server,
           Register(s) \/ Expire(s) \/ Crash(s)
    PROVE  AckedEverywhere' /\ CopiesHold'
<1> USE DEF zkVars, mainVars, nextVars, tableVars, history
<1>1. CASE Register(s) \/ Expire(s)
  <2>1. /\ UNCHANGED <<acked, log, call>>
        /\ \A t \in Server : phase'[t] \in {phase[t], "registered"}
    BY <1>1 DEF Register, Expire, TypeOK
  <2> QED
    BY <2>1, AckedStays, CopiesStay DEF Serving
<1>2. CASE Crash(s)
  <2>1. /\ Settled /\ phase'[s] = "crashed" /\ UNCHANGED acked
        /\ \A t \in Server : t # s => phase'[t] = phase[t] /\ log'[t] = log[t]
    BY <1>2 DEF Crash, Down, OneAtATime, TypeOK
  <2>2. \A t \in Server : phase'[t] # "fetching"
    BY <2>1 DEF Settled, Alive
  <2> QED
    BY <2>1, <2>2, AckedStays, CopiesStay DEF Serving
<1> QED
  BY <1>1, <1>2

\* Nobody works on an update then, nor has one been answered.
LEMMA NothingHeldNext ==
    (TypeOK /\ Shape /\ NobodyBusy => UpdateHeld /\ AnswerHeld)'
<1>1. ASSUME TypeOK, Shape, NobodyBusy PROVE UpdateHeld /\ AnswerHeld
  BY <1>1, QuietReplicates DEF UpdateHeld, AnswerHeld, NobodyBusy, Busy, Serving
<1> QED
  BY <1>1, PTL

LEMMA RememberedStep ==
    ASSUME TypeOK, Shape, Linking, Calm, (TypeOK /\ Shape)', OneAtATime, Replicated,
           FounderLeft, Remembered, Next, \A s \in Server : ~DoubleDisconnect(s)
    PROVE  Remembered'
<1>1. CASE \E y \in Caller : Busy(y)
  <2>1. Settled
    BY <1>1 DEF Calm
  <2>2. UNCHANGED phase
    BY <1>1, BusyStays DEF mainVars
  <2> QED
    BY <2>1, <2>2, RestingRemembers
<1>2. CASE \E c \in Client : IssueUpdate(c)
  BY <1>2, RestingRemembers DEF IssueUpdate, OneAtATime, mainVars
<1>3. CASE NobodyBusy /\ \A c \in Client : ~IssueUpdate(c)
  <2>1. Alike /\ Copying
    BY <1>3 DEF Replicated
  <2>2. NobodyBusy'
    BY <1>3, <2>1, QuietStays
  <2>3. UpdateHeld' /\ AnswerHeld'
    BY <2>2, NothingHeldNext
  <2>4. AckedEverywhere' /\ CopiesHold'
    BY <1>3, <2>1, QuietSteps, ReadRemembers, StartRemembers, ChangeRemembers DEF Remembered
  <2> QED
    BY <2>3, <2>4 DEF Remembered
<1> QED
  BY <1>1, <1>2, <1>3 DEF NobodyBusy

-----------------------------------------------------------------------------
(* The invariant.                                                          *)

LEMMA FoundersStay ==
    ASSUME TypeOK, Shape, Linking, Calm, FoundersServe, [Next]_vars
    PROVE  FoundersServe' /\ (FounderLeft' => FounderLeft)
<1> USE DEF zkVars, mainVars, nextVars, tableVars, history
<1> DEFINE Stay == \A f \in Founders : phase'[f] \in {phase[f], "crashed"}
<1>0. Founders \subseteq Server
  BY ChainAssumption
<1>1. ASSUME NEW s \in Server, Handler(s) PROVE Stay
  BY <1>1, SteadyHandlers DEF Handler, Begin, BeginMissing, Get, GetTable, Forward, ReplyIn, Reply
<1>2. ASSUME NEW s \in Server, Main(s) \/ Register(s) PROVE Stay
  <2>1. s \notin Founders /\ \A t \in Server : t # s => phase'[t] = phase[t]
    BY <1>2, SteadyHandlers
       DEF FoundersServe, Main, List, Fetch, Fill, FetchLost, Register, TypeOK
  <2> QED
    BY <1>0, <2>1
<1>3. ASSUME NEW s \in Server, DoubleDisconnect(s) \/ Crash(s) PROVE Stay
  BY <1>0, <1>3, DownPhases DEF DoubleDisconnect, Crash
<1>4. ASSUME \/ \E c \in Client : IssueUpdate(c) \/ IssueGet(c) \/ Finish(c) \/ ClientLost(c)
             \/ \E x \in Caller : AnswerLost(x)
             \/ \E s \in Server : Notice(s) \/ Disconnect(s) \/ Connect(s) \/ Expire(s)
             \/ UNCHANGED vars
      PROVE  Stay
  BY <1>4 DEF IssueUpdate, IssueGet, Finish, ClientLost, AnswerLost, Notice, Disconnect, Connect,
              Expire, vars
<1>5. Stay
  BY <1>1, <1>2, <1>3, <1>4 DEF Next, Watcher
<1> QED
  BY <1>0, <1>5 DEF FoundersServe, FounderLeft, Serving

Memory == FoundersServe /\ (NoCascade /\ FounderLeft => Remembered)

LEMMA MemoryStep ==
    ASSUME OneChange, OneChange', OneAtATime, Agreement, Memory, [Next]_vars
    PROVE  Memory'
<1> USE DEF OneChange, Agreement, Memory
<1>1. FoundersServe' /\ (FounderLeft' => FounderLeft)
  BY FoundersStay
<1>2. NoCascade' => NoCascade /\ \A s \in Server : ~DoubleDisconnect(s)
  BY CauseStep
<1>3. CASE Next
  BY <1>1, <1>2, <1>3, RememberedStep
<1>4. CASE UNCHANGED vars
  <2>1. Remembered' <=> Remembered
    BY <1>4 DEF vars, zkVars, mainVars, nextVars, tableVars, history, Remembered, UpdateHeld,
                AnswerHeld, AckedEverywhere, CopiesHold, HeldFrom, Reaches, Holds, Current, Serving
  <2> QED
    BY <1>1, <1>2, <2>1
<1> QED
  BY <1>3, <1>4

LEMMA InitialMemory == Init => Memory
<1> SUFFICES ASSUME Init PROVE Memory
  OBVIOUS
<1>1. FoundersServe
  BY ChainAssumption DEF Init, FoundersServe
<1>2. UpdateHeld /\ AnswerHeld /\ AckedEverywhere
  BY DEF Init, UpdateHeld, AnswerHeld, AckedEverywhere, Serving
<1>3. CopiesHold
  BY DEF Init, CopiesHold
<1> QED
  BY <1>1, <1>2, <1>3 DEF Memory, Remembered

LEMMA MemoryAlways ==
    ASSUME OneAtATime
    PROVE  Spec => [](OneChange /\ Agreement /\ Memory)
<1>1. Init => Agreement /\ Memory
  BY InitialAgreement, InitialMemory
<1>2. OneChange /\ OneChange' /\ Agreement /\ Memory /\ [Next]_vars => Agreement' /\ Memory'
  BY AgreementStep, MemoryStep
<1> QED
  BY <1>1, <1>2, OneChangeAlways, PTL DEF Spec

\* When servers start and fail one at a time, and the clients wait meanwhile,
\* what a client was told has succeeded is in every table that serves, that
\* of a server that has just started too (invoke, fill_table): as long as one
\* of the first servers is left to copy from, and none was stopped by the
\* second disconnection of its successor.
THEOREM AckedAfterChanges ==
    ASSUME OneAtATime
    PROVE  Spec => []AckedUnlessStopped
<1>1. Memory => AckedUnlessStopped
  BY DEF Memory, FounderLeft, Remembered, AckedUnlessStopped
<1> QED
  BY <1>1, MemoryAlways, PTL
-----------------------------------------------------------------------------
(* With fewer faults than founders, one of these is left.                  *)

Crashed == {s \in Server : phase[s] = "crashed"}
FaultsCounted == crashes <= MaxCrashes /\ (NoCascade => Cardinality(Crashed) <= crashes)

LEMMA FaultsStep ==
    ASSUME TypeOK, TypeOK', Shape, Linking, Calm, Up, FaultsCounted, [Next]_vars
    PROVE  FaultsCounted'
<1> USE DEF zkVars, mainVars, nextVars, tableVars, history
<1>0. /\ IsFiniteSet(Crashed) /\ Cardinality(Crashed) \in Nat
      /\ MaxCrashes \in Nat /\ crashes \in Nat
  BY FS_Subset, FS_CardinalityType, ChainAssumption DEF Crashed, TypeOK
<1>1. NoCascade' => NoCascade /\ \A s \in Server : ~DoubleDisconnect(s)
  BY CauseStep
<1>2. ASSUME UNCHANGED crashes, \A t \in Server : phase'[t] = "crashed" <=> phase[t] = "crashed"
      PROVE  FaultsCounted'
  <2>1. Crashed' = Crashed
    BY <1>2 DEF Crashed
  <2> QED
    BY <1>1, <1>2, <2>1 DEF FaultsCounted
<1>3. ASSUME NEW s \in Server, Crash(s) PROVE FaultsCounted'
  <2>1. crashes < MaxCrashes /\ crashes' = crashes + 1
    BY <1>3 DEF Crash
  <2>2. Crashed' = Crashed \cup {s}
    BY <1>3, DownPhases DEF Crash, Crashed
  <2>3. Cardinality(Crashed') <= Cardinality(Crashed) + 1
    BY <1>0, <2>2, FS_AddElement
  <2>4. Cardinality(Crashed') \in Nat
    BY <1>0, <2>2, FS_AddElement, FS_CardinalityType
  <2>5. NoCascade => Cardinality(Crashed') <= crashes'
    BY <1>0, <2>1, <2>3, <2>4 DEF FaultsCounted
  <2> QED
    BY <1>0, <1>1, <2>1, <2>5 DEF FaultsCounted
<1>4. ASSUME NEW s \in Server, DoubleDisconnect(s) PROVE FaultsCounted'
  BY <1>1, <1>4 DEF DoubleDisconnect, Down, FaultsCounted
<1>5. ASSUME NEW s \in Server, Handler(s) PROVE UNCHANGED <<crashes, phase>>
  BY <1>5, SteadyHandlers DEF Handler, Begin, BeginMissing, Get, GetTable, Forward, ReplyIn, Reply
<1>6. ASSUME NEW s \in Server, Main(s) \/ Register(s)
      PROVE  /\ UNCHANGED crashes
             /\ \A t \in Server : phase'[t] = "crashed" <=> phase[t] = "crashed"
  BY <1>6, SteadyHandlers DEF Main, List, Fetch, Fill, FetchLost, Register, TypeOK
<1>7. ASSUME \/ \E c \in Client : IssueUpdate(c) \/ IssueGet(c) \/ Finish(c) \/ ClientLost(c)
             \/ \E x \in Caller : AnswerLost(x)
             \/ \E s \in Server : Notice(s) \/ Disconnect(s) \/ Connect(s) \/ Expire(s)
             \/ UNCHANGED vars
      PROVE  UNCHANGED <<crashes, phase>>
  BY <1>7 DEF IssueUpdate, IssueGet, Finish, ClientLost, AnswerLost, Notice, Disconnect, Connect,
              Expire, vars
<1> QED
  BY <1>2, <1>3, <1>4, <1>5, <1>6, <1>7 DEF Next, Watcher

\* The same, whatever happens to the founders, when there are more of them
\* than servers that fail.
THEOREM AckedWithFewFaults ==
    ASSUME OneAtATime, MaxCrashes < Cardinality(Founders)
    PROVE  Spec => [](NoCascade => AckedEverywhere)
<1> DEFINE Goal == NoCascade => AckedEverywhere
<1>1. Init => FaultsCounted
  <2> SUFFICES ASSUME Init PROVE FaultsCounted
    OBVIOUS
  <2>1. Crashed = {} /\ crashes = 0
    BY DEF Init, Crashed
  <2> QED
    BY <2>1, FS_EmptySet, ChainAssumption DEF FaultsCounted
<1>2. OneChange /\ OneChange' /\ Agreement /\ FaultsCounted /\ [Next]_vars => FaultsCounted'
  BY FaultsStep DEF OneChange, Agreement
<1>3. OneChange /\ Memory /\ FaultsCounted => Goal
  <2> SUFFICES ASSUME OneChange, Memory, FaultsCounted, NoCascade PROVE FounderLeft
    BY DEF Memory, Remembered
  <2> SUFFICES ASSUME ~FounderLeft PROVE FALSE
    OBVIOUS
  <2>1. Founders \subseteq Crashed /\ IsFiniteSet(Crashed)
    BY FS_Subset, ChainAssumption DEF FounderLeft, Memory, FoundersServe, Serving, Crashed
  <2>2. Cardinality(Founders) <= Cardinality(Crashed)
    BY <2>1, FS_Subset
  <2>3. /\ Cardinality(Founders) \in Nat /\ Cardinality(Crashed) \in Nat
        /\ MaxCrashes \in Nat /\ crashes \in Nat
    BY <2>1, FS_Subset, FS_CardinalityType, ChainAssumption DEF OneChange, TypeOK
  <2> QED
    BY <2>2, <2>3 DEF FaultsCounted
<1> HIDE DEF Goal
<1>4. Spec => []Goal
  BY <1>1, <1>2, <1>3, MemoryAlways, PTL DEF Spec
<1> QED
  BY <1>4 DEF Goal
==============================================================================
