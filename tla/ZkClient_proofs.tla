-------------------------- MODULE ZkClient_proofs --------------------------
(***************************************************************************)
(* The proof that the client, whatever the servers, ZooKeeper and its two  *)
(* threads do, leaks no connection and always has a descriptor for the     *)
(* next, when the chain does not change during zk_init. In the other case  *)
(* both threads may be in make_connections, and they do leak.              *)
(***************************************************************************)
EXTENDS ZkClient, WellFoundedInduction, FiniteSetTheorems, TLAPS

\* A set of natural numbers that is not empty has a least element.
LEMMA LeastExists ==
    ASSUME NEW S, S \subseteq Nat, S # {}
    PROVE  \E m \in S : \A n \in S : m <= n
<1> DEFINE R == OpToRel(<, Nat)
<1>1. IsWellFoundedOn(R, Nat)
  BY NatLessThanWellFounded, Zenon
<1> HIDE DEF R
<1>2. PICK m \in S : \A n \in S : ~ (<<n, m>> \in R)
  BY <1>1, WFMin
<1>3. ASSUME NEW n \in S PROVE m <= n
  <2>1. ~ (<<n, m>> \in R)
    BY <1>2
  <2>2. n \in Nat /\ m \in Nat
    OBVIOUS
  <2>3. n < m => <<n, m>> \in R
    BY <2>2 DEF R, OpToRel
  <2> QED
    BY <2>1, <2>2, <2>3
<1> QED
  BY <1>3

\* In a finite set, by an element with the fewest elements above it.
LEMMA GreatestExists ==
    ASSUME NEW S, S \subseteq Nat, S # {}, IsFiniteSet(S)
    PROVE  \E m \in S : \A n \in S : n <= m
<1> DEFINE Above(m) == {n \in S : n > m}
           T == {Above(m) : m \in S}
           R == StrictSubsetOrdering(S)
<1>1. IsWellFoundedOn(R, FiniteSubsetsOf(S))
  BY FS_StrictSubsetOrderingWellFounded
<1>2. T # {} /\ T \subseteq FiniteSubsetsOf(S)
  <2>1. ASSUME NEW m \in S PROVE Above(m) \in FiniteSubsetsOf(S)
    BY FS_Subset DEF FiniteSubsetsOf
  <2> QED
    BY <2>1
<1>3. PICK U \in T : \A V \in T : ~ (<<V, U>> \in R)
  <2> HIDE DEF T, R
  <2> QED
    BY <1>1, <1>2, WFMin
<1>4. PICK m \in S : U = Above(m)
  OBVIOUS
<1>5. ASSUME NEW n \in S, n > m PROVE FALSE
  <2> HIDE DEF T, R
  <2>0. n \in Nat /\ m \in Nat
    OBVIOUS
  <2>1. Above(n) \subseteq Above(m) /\ n \in Above(m) /\ n \notin Above(n)
    <3>1. \A k \in Above(n) : k > m
      BY <1>5, <2>0
    <3>2. n \in Above(m) /\ n \notin Above(n)
      BY <1>5, <2>0
    <3> QED
      BY <3>1, <3>2
  <2>2. <<Above(n), U>> \in R
    BY <2>1, <1>4 DEF R, StrictSubsetOrdering
  <2>3. Above(n) \in T
    BY DEF T
  <2> QED
    BY <2>2, <2>3, <1>3
<1> QED
  BY <1>5

LEMMA LowestIn ==
    ASSUME NEW S, S \subseteq Nat, S # {}
    PROVE  Lowest(S) \in S
BY LeastExists DEF Lowest

LEMMA HighestIn ==
    ASSUME NEW S, S \subseteq Server, S # {}
    PROVE  Highest(S) \in S
<1>1. IsFiniteSet(S) /\ S \subseteq Nat
  BY FS_Subset, ZkClientAssumption
<1>2. PICK m \in S : \A n \in S : n <= m
  BY <1>1, GreatestExists
<1>3. \A n \in S : m >= n
  BY <1>1, <1>2
<1> QED
  BY <1>3 DEF Highest

-----------------------------------------------------------------------------
(* The invariant.                                                          *)

MainPcs == {"start", "compare", "data", "disconnect", "connect", "ready", "send",
            "receive", "quit", "quit_write", "destroy", "destroy_write", "ended"}
WatcherPcs == {"idle", "compare", "data", "disconnect", "connect"}

Typed ==
    /\ pc["main"] \in MainPcs /\ pc["watcher"] \in WatcherPcs
    /\ pc \in [Thread -> MainPcs \cup WatcherPcs]
    /\ side \in [Thread -> Side]
    /\ \A t \in Thread, s \in Side : listed[t][s] \in Server \cup {Null}
    /\ DOMAIN listed = Thread /\ DOMAIN address = Thread
    /\ serial \in Nat

\* The main thread is in make_connections before there is anything to watch.
OneAtATime == Starting => pc["watcher"] = "idle" /\ watch # "fired"

\* An open connection belongs to an rtable, an rtable is one of the pair,
\* and the one that is about to be replaced is gone.
Owned ==
    /\ \A f \in Fd : files[f] # Null => \E r \in live : r.fd = f
    /\ \A r \in live : \E s \in Side : pair[s] = r
    /\ \A t \in Thread : pc[t] = "connect" => pair[side[t]] \notin live

IInv == TypeOK /\ Typed /\ OneAtATime /\ Owned

LEMMA InitInv == Init => IInv
<1> SUFFICES ASSUME Init PROVE IInv
  OBVIOUS
<1>1. TypeOK
  BY ZkClientAssumption DEF Init, TypeOK, Rtables, Side
<1>2. Typed
  BY DEF Init, Typed, Thread, Side, MainPcs, WatcherPcs
<1>3. OneAtATime /\ Owned
  BY DEF Init, OneAtATime, Owned, Starting, Thread
<1> QED
  BY <1>1, <1>2, <1>3 DEF IInv

-----------------------------------------------------------------------------
(* The steps.                                                              *)

\* Nothing but the programs and the lists of the threads.
LEMMA PairKept ==
    ASSUME IInv, UNCHANGED pairVars,
           znodes' \subseteq joined', alive' \subseteq joined', joined' \subseteq Server,
           watch' \in {"none", "armed", "fired"},
           Typed', OneAtATime',
           \A t \in Thread : pc'[t] = "connect" => pair[side'[t]] \notin live
    PROVE  IInv'
BY DEF IInv, TypeOK, Rtables, Owned, pairVars

\* Two allocated rtables have different descriptors.
LEMMA OneRtable ==
    ASSUME TypeOK, NEW q \in live, NEW r \in live, q.fd = r.fd
    PROVE  q = r
BY DEF TypeOK, Rtables

\* rtable_disconnect closes what it frees, and the pointer is not to an
\* allocated rtable any more.
LEMMA Closing ==
    ASSUME IInv, NEW r, r \in Rtables \cup {Null},
           IF r = Null THEN UNCHANGED <<live, files>> ELSE rtable_disconnect(r)
    PROVE  /\ live' \subseteq live /\ r \notin live'
           /\ files' \in [Fd -> [no : 1..serial, server : Server] \cup {Null}]
           /\ \A q \in live' : files'[q.fd] # Null /\ files'[q.fd].no = q.no
           /\ \A f \in Fd : files'[f] # Null => \E q \in live' : q.fd = f
<1> USE DEF IInv
<1>1. Null \notin live /\ serial \in Nat
  BY ZkClientAssumption DEF TypeOK, Typed, Rtables
<1>2. CASE r = Null
  BY <1>1, <1>2 DEF TypeOK, Owned
<1>3. CASE r # Null
  <2>1. PICK target \in Pointed(r) :
           /\ live' = live \ {target}
           /\ files' = IF target = Null THEN files ELSE [files EXCEPT ![target.fd] = Null]
    BY <1>3 DEF rtable_disconnect
  <2>2. target \in live \cup {Null} /\ r \notin live'
    BY <2>1 DEF Pointed
  <2>3. CASE target = Null
    BY <1>1, <2>1, <2>2, <2>3 DEF TypeOK, Owned
  <2>4. CASE target # Null
    <3>1. target \in live /\ target.fd \in Fd
      BY <2>2, <2>4 DEF TypeOK, Rtables
    <3>2. files' = [files EXCEPT ![target.fd] = Null]
      BY <2>1, <2>4
    <3>3. files' \in [Fd -> [no : 1..serial, server : Server] \cup {Null}]
      BY <3>2 DEF TypeOK
    <3>4. ASSUME NEW q \in live' PROVE q \in live /\ q.fd # target.fd /\ q.fd \in Fd
      BY <2>1, <3>1, OneRtable DEF TypeOK, Rtables
    <3>5. \A q \in live' : files'[q.fd] = files[q.fd]
      BY <3>2, <3>4 DEF TypeOK
    <3>6. ASSUME NEW f \in Fd, files'[f] # Null PROVE \E q \in live' : q.fd = f
      <4>1. f # target.fd /\ files[f] # Null
        BY <3>2, <3>6 DEF TypeOK
      <4> QED
        BY <2>1, <4>1 DEF Owned
    <3> QED
      BY <2>1, <2>2, <3>3, <3>4, <3>5, <3>6 DEF TypeOK
  <2> QED
    BY <2>3, <2>4
<1> QED
  BY <1>2, <1>3

\* The chain changes, or the session ends.
LEMMA EnvironmentStep ==
    ASSUME IInv, StartsWhenIdle,
           (\E s \in Server : Join(s) \/ Crash(s) \/ Expire(s)) \/ LoseSession
    PROVE  IInv'
<1> USE DEF IInv
<1>1. /\ UNCHANGED <<pairVars, threadVars>>
      /\ znodes' \subseteq joined' /\ alive' \subseteq joined' /\ joined' \subseteq Server
      /\ watch' \in {"none", "armed", "fired"} /\ (watch' = watch \/ ~Starting)
  BY DEF Join, Crash, Expire, LoseSession, Fires, MayChange, TypeOK
<1>2. Typed' /\ OneAtATime'
  BY <1>1 DEF pairVars, threadVars, Typed, OneAtATime, Starting
<1> QED
  BY <1>1, <1>2, PairKept DEF threadVars, Owned

Ends == [write |-> Lowest(znodes), read |-> Highest(znodes)]

\* A thread goes on to something other than a new connection.
LEMMA ThreadKept ==
    ASSUME IInv, NEW t \in Thread, UNCHANGED <<znodes, alive, joined, pairVars>>,
           watch' \in {"none", "armed", "fired"},
           NEW to, pc' = [pc EXCEPT ![t] = to], to # "connect",
           to \in (IF t = "main" THEN MainPcs ELSE WatcherPcs),
           side' = side \/ \E s \in Side : side' = [side EXCEPT ![t] = s],
           listed' = listed \/ (listed' = [listed EXCEPT ![t] = Ends] /\ znodes # {}),
           DOMAIN address' = Thread,
           OneAtATime'
    PROVE  IInv'
<1> USE DEF IInv
<1>1. /\ pc'[t] = to /\ pc' \in [Thread -> MainPcs \cup WatcherPcs]
      /\ \A u \in Thread : u # t => pc'[u] = pc[u] /\ side'[u] = side[u]
      /\ side' \in [Thread -> Side]
  BY DEF Typed
<1>2. pc'["main"] \in MainPcs /\ pc'["watcher"] \in WatcherPcs
  BY <1>1 DEF Typed, Thread
<1>3. DOMAIN listed' = Thread /\ \A u \in Thread, s \in Side : listed'[u][s] \in Server \cup {Null}
  <2>1. CASE listed' = listed
    BY <2>1 DEF Typed
  <2>2. CASE /\ listed' = [listed EXCEPT ![t] = Ends]
             /\ znodes # {}
    <3>1. Lowest(znodes) \in Server /\ Highest(znodes) \in Server
      BY <2>2, LowestIn, HighestIn, ZkClientAssumption DEF TypeOK
    <3>2. listed'[t]["write"] \in Server /\ listed'[t]["read"] \in Server
      BY <2>2, <3>1 DEF Typed, Ends
    <3> QED
      BY <2>2, <3>2 DEF Typed, Side
  <2> QED
    BY <2>1, <2>2
<1>4. Typed'
  BY <1>1, <1>2, <1>3 DEF Typed, pairVars
<1>5. \A u \in Thread : pc'[u] = "connect" => pair[side'[u]] \notin live
  BY <1>1 DEF Owned
<1> QED
  BY <1>4, <1>5, PairKept DEF TypeOK

\* The steps of the main thread that are not make_connections.
LEMMA MainKeeps ==
    ASSUME IInv, zk_init \/ Send \/ Receive \/ Answered \/ quit \/ \E s \in Side : Call(s)
    PROVE  IInv'
<1> USE DEF IInv
<1>0. "main" \in Thread /\ "watcher" \in Thread /\ "main" # "watcher"
  BY DEF Thread
<1>1. CASE zk_init
  <2>1. PICK to \in {"compare", "ended"} :
          /\ pc' = [pc EXCEPT !["main"] = to]
          /\ \/ to = "compare" /\ znodes # {} /\ Lists("main")
                /\ side' = [side EXCEPT !["main"] = "write"]
             \/ UNCHANGED <<watch, side, listed>>
    BY <1>1 DEF zk_init, BeginConnections
  <2>2. /\ watch' \in {"none", "armed", "fired"}
        /\ side' = side \/ \E s \in Side : side' = [side EXCEPT !["main"] = s]
        /\ listed' = listed \/ (listed' = [listed EXCEPT !["main"] = Ends] /\ znodes # {})
    <3>1. CASE UNCHANGED <<watch, side, listed>>
      BY <3>1 DEF TypeOK
    <3>2. CASE znodes # {} /\ Lists("main") /\ side' = [side EXCEPT !["main"] = "write"]
      <4>1. \E s \in Side : side' = [side EXCEPT !["main"] = s]
        BY <3>2 DEF Side
      <4> QED
        BY <3>2, <4>1 DEF Lists, Ends
    <3> QED
      BY <2>1, <3>1, <3>2
  <2>3. OneAtATime'
    <3>1. pc["watcher"] = "idle" /\ watch # "fired" /\ pc'["watcher"] = pc["watcher"]
      BY <1>0, <1>1, <2>1 DEF zk_init, OneAtATime, Starting, Typed
    <3> QED
      BY <2>1, <3>1 DEF Lists, OneAtATime
  <2>4. UNCHANGED <<znodes, alive, joined, pairVars, address>>
    BY <1>1 DEF zk_init, zkVars
  <2>5. to \in MainPcs /\ to # "connect" /\ DOMAIN address' = Thread
    BY <2>4 DEF MainPcs, Typed
  <2> QED
    BY <1>0, <2>1, <2>2, <2>3, <2>4, <2>5, ThreadKept
<1>2. CASE Send \/ Receive \/ Answered \/ quit \/ \E s \in Side : Call(s)
  <2>5. UNCHANGED <<znodes, alive, joined, pairVars>>
    BY <1>2 DEF Send, Receive, Answered, quit, Call, zkVars
  <2>1. /\ UNCHANGED <<watch, side, listed, address>>
        /\ \E to \in {"ready", "send", "receive", "quit"} : pc' = [pc EXCEPT !["main"] = to]
    <3>1. pc = [pc EXCEPT !["main"] = pc["main"]]
      BY DEF Typed
    <3> QED
      BY <1>2, <3>1 DEF Send, Receive, Answered, quit, Call, Return, zkVars
  <2>2. PICK to \in {"ready", "send", "receive", "quit"} : pc' = [pc EXCEPT !["main"] = to]
    BY <2>1
  <2>3. OneAtATime'
    <3>1. pc'["main"] = to
      BY <1>0, <2>2 DEF Typed
    <3> QED
      BY <3>1 DEF OneAtATime, Starting
  <2>4. to \in MainPcs /\ to # "connect" /\ DOMAIN address' = Thread
        /\ watch' \in {"none", "armed", "fired"}
    BY <2>1 DEF MainPcs, Typed, TypeOK
  <2> QED
    BY <1>0, <2>1, <2>2, <2>3, <2>4, <2>5, ThreadKept
<1> QED
  BY <1>1, <1>2

LEMMA HandlerKeeps ==
    ASSUME IInv, zk_children_handler
    PROVE  IInv'
<1> USE DEF IInv
<1>0. "main" \in Thread /\ "watcher" \in Thread /\ "main" # "watcher"
  BY DEF Thread
<1>1. /\ UNCHANGED <<znodes, alive, joined, pairVars, address>>
      /\ watch = "fired" /\ pc["watcher"] = "idle"
  BY DEF zk_children_handler, zkVars
<1>2. PICK to \in {"compare", "idle"} :
          /\ pc' = [pc EXCEPT !["watcher"] = to]
          /\ watch' \in {"none", "armed", "fired"}
          /\ side' = side \/ \E s \in Side : side' = [side EXCEPT !["watcher"] = s]
          /\ listed' = listed \/ (listed' = [listed EXCEPT !["watcher"] = Ends] /\ znodes # {})
  <2>1. CASE Lists("watcher") /\ BeginConnections("watcher") /\ znodes # {}
    BY <2>1 DEF Lists, BeginConnections, Side, Ends
  <2>2. CASE watch' = (IF session THEN "armed" ELSE "none") /\ UNCHANGED <<pc, side, listed>>
    <3>1. pc = [pc EXCEPT !["watcher"] = "idle"]
      BY <1>1 DEF Typed
    <3>2. pc' = [pc EXCEPT !["watcher"] = "idle"] /\ side' = side /\ listed' = listed
          /\ watch' \in {"none", "armed", "fired"}
      BY <2>2, <3>1
    <3> QED
      BY <3>2
  <2> QED
    BY <2>1, <2>2 DEF zk_children_handler
<1>3. ~Starting'
  <2>1. pc'["main"] = pc["main"]
    BY <1>0, <1>2 DEF Typed
  <2> QED
    BY <1>1, <2>1 DEF OneAtATime, Starting
<1>4. to \in WatcherPcs /\ to # "connect" /\ DOMAIN address' = Thread /\ OneAtATime'
  BY <1>1, <1>3 DEF WatcherPcs, Typed, OneAtATime
<1> QED
  BY <1>0, <1>1, <1>2, <1>4, ThreadKept

\* make_connections runs in one thread at a time.
LEMMA Alone ==
    ASSUME IInv, NEW t \in Thread, pc[t] \in {"compare", "data", "disconnect", "connect"}
    PROVE  /\ \A u \in Thread : u # t => pc[u] # "connect"
           /\ \A to : (pc' = [pc EXCEPT ![t] = to] /\ watch' = watch) => OneAtATime'
<1> USE DEF IInv
<1>1. CASE t = "main"
  <2>1. pc["watcher"] = "idle" /\ watch # "fired"
    BY <1>1 DEF OneAtATime, Starting
  <2> QED
    BY <1>1, <2>1 DEF Typed, OneAtATime, Thread
<1>2. CASE t = "watcher"
  <2>1. ~Starting
    BY <1>2 DEF OneAtATime
  <2> QED
    BY <1>2, <2>1 DEF Typed, OneAtATime, Starting, Thread
<1> QED
  BY <1>1, <1>2 DEF Thread

\* What NextSide and Finish do.
LEMMA NextSideGoes ==
    ASSUME IInv, NEW t \in Thread, NextSide(t) \/ (Finish(t, FALSE) /\ UNCHANGED side)
    PROVE  \E to \in (IF t = "main" THEN MainPcs ELSE WatcherPcs) :
             /\ to # "connect" /\ pc' = [pc EXCEPT ![t] = to]
             /\ side' = side \/ \E s \in Side : side' = [side EXCEPT ![t] = s]
<1>1. CASE t = "main"
  <2>1. \E to \in {"compare", "ready", "ended"} :
             /\ pc' = [pc EXCEPT ![t] = to]
             /\ side' = side \/ side' = [side EXCEPT ![t] = "read"]
    BY <1>1 DEF NextSide, Finish
  <2> QED
    BY <1>1, <2>1 DEF MainPcs, Side
<1>2. CASE t = "watcher"
  <2>1. \E to \in {"compare", "idle"} :
             /\ pc' = [pc EXCEPT ![t] = to]
             /\ side' = side \/ side' = [side EXCEPT ![t] = "read"]
    BY <1>2 DEF NextSide, Finish
  <2> QED
    BY <1>2, <2>1 DEF WatcherPcs, Side
<1> QED
  BY <1>1, <1>2 DEF Thread

LEMMA LooksKeep ==
    ASSUME IInv, NEW t \in Thread, Compare(t) \/ zk_get_data(t)
    PROVE  IInv'
<1> USE DEF IInv
<1>1. /\ UNCHANGED <<znodes, alive, joined, pairVars, listed>> /\ watch' = watch
      /\ pc[t] \in {"compare", "data", "disconnect", "connect"}
      /\ DOMAIN address' = Thread
  BY DEF Compare, zk_get_data, zkVars, Typed
<1>2. \E to \in (IF t = "main" THEN MainPcs ELSE WatcherPcs) :
             /\ to # "connect" /\ pc' = [pc EXCEPT ![t] = to]
             /\ side' = side \/ \E s \in Side : side' = [side EXCEPT ![t] = s]
  <2>1. CASE Compare(t) /\ NextSide(t)
    BY <2>1, NextSideGoes
  <2>2. CASE \E to \in {"data", "disconnect"} : pc' = [pc EXCEPT ![t] = to] /\ side' = side
    BY <2>2 DEF MainPcs, WatcherPcs
  <2> QED
    BY <2>1, <2>2 DEF Compare, zk_get_data
<1>3. PICK to \in (IF t = "main" THEN MainPcs ELSE WatcherPcs) :
             /\ to # "connect" /\ pc' = [pc EXCEPT ![t] = to]
             /\ side' = side \/ \E s \in Side : side' = [side EXCEPT ![t] = s]
  BY <1>2
<1>4. OneAtATime' /\ watch' \in {"none", "armed", "fired"}
  BY <1>1, <1>3, Alone DEF TypeOK
<1> QED
  BY <1>1, <1>3, <1>4, ThreadKept

\* A thread goes on and the pair changes.
LEMMA PairChanged ==
    ASSUME IInv, NEW t \in Thread, UNCHANGED <<znodes, alive, joined, watch, listed, address>>,
           NEW to, pc' = [pc EXCEPT ![t] = to],
           to \in (IF t = "main" THEN MainPcs ELSE WatcherPcs),
           side' = side \/ \E s \in Side : side' = [side EXCEPT ![t] = s],
           serial' \in Nat
    PROVE  Typed'
<1>1. pc' \in [Thread -> MainPcs \cup WatcherPcs] /\ side' \in [Thread -> Side]
  BY DEF IInv, Typed
<1>2. pc'["main"] \in MainPcs /\ pc'["watcher"] \in WatcherPcs
  BY DEF IInv, Typed, Thread
<1> QED
  BY <1>1, <1>2 DEF IInv, Typed

\* disconnect, in make_connections or in quit.
LEMMA DisconnectKeeps ==
    ASSUME IInv, NEW t \in Thread, NEW s \in Side,
           IF pair[s] = Null THEN UNCHANGED <<live, files>> ELSE rtable_disconnect(pair[s]),
           UNCHANGED <<zkVars, watch, side, listed, address, names, pair, serial>>,
           NEW to \in (IF t = "main" THEN MainPcs ELSE WatcherPcs),
           pc' = [pc EXCEPT ![t] = to],
           to = "connect" => side[t] = s,
           OneAtATime'
    PROVE  IInv'
<1> USE DEF IInv
<1>1. pair[s] \in Rtables \cup {Null}
  BY DEF TypeOK
<1>2. /\ live' \subseteq live /\ pair[s] \notin live'
      /\ files' \in [Fd -> [no : 1..serial, server : Server] \cup {Null}]
      /\ \A q \in live' : files'[q.fd] # Null /\ files'[q.fd].no = q.no
      /\ \A f \in Fd : files'[f] # Null => \E q \in live' : q.fd = f
  BY <1>1, Closing
<1>3. Typed'
  BY PairChanged DEF zkVars, Typed
<1>4. TypeOK'
  BY <1>2 DEF TypeOK, Rtables, zkVars
<1>5. Owned'
  <2>1. \A u \in Thread : pc'[u] = "connect" => pair[side[u]] \notin live'
    BY <1>2 DEF Typed, Owned
  <2> QED
    BY <1>2, <2>1 DEF Owned
<1> QED
  BY <1>3, <1>4, <1>5

LEMMA MakingDisconnects ==
    ASSUME IInv, NEW t \in Thread, Disconnect(t)
    PROVE  IInv'
<1>1. /\ pc[t] = "disconnect" /\ pc' = [pc EXCEPT ![t] = "connect"]
      /\ IF pair[side[t]] = Null THEN UNCHANGED <<live, files>>
         ELSE rtable_disconnect(pair[side[t]])
      /\ UNCHANGED <<zkVars, watch, side, listed, address, names, pair, serial>>
  BY DEF Disconnect
<1>2. side[t] \in Side /\ "connect" \in (IF t = "main" THEN MainPcs ELSE WatcherPcs)
  BY DEF IInv, Typed, MainPcs, WatcherPcs
<1>3. OneAtATime'
  BY <1>1, Alone
<1> QED
  BY <1>1, <1>2, <1>3, DisconnectKeeps

LEMMA QuitKeeps ==
    ASSUME IInv, NEW i \in 1 .. 4, QuitStep(i)
    PROVE  IInv'
<1> DEFINE s == IF i \in {1, 3} THEN "read" ELSE "write"
<1>1. /\ pc' = [pc EXCEPT !["main"] = QuitSteps[i + 1]]
      /\ IF pair[s] = Null THEN UNCHANGED <<live, files>> ELSE rtable_disconnect(pair[s])
      /\ UNCHANGED <<zkVars, watch, side, listed, address, names, pair, serial>>
  BY DEF QuitStep
<1>2. s \in Side /\ "main" \in Thread
  BY DEF Side, Thread
<1>3. QuitSteps[i + 1] \in {"quit_write", "destroy", "destroy_write", "ended"}
  <2>1. i = 1 \/ i = 2 \/ i = 3 \/ i = 4
    OBVIOUS
  <2> QED
    BY <2>1 DEF QuitSteps
<1>4. QuitSteps[i + 1] \in MainPcs /\ QuitSteps[i + 1] # "connect"
  BY <1>3 DEF MainPcs
<1>5. pc'["main"] = QuitSteps[i + 1]
  BY <1>1, <1>2 DEF IInv, Typed
<1>6. OneAtATime'
  BY <1>3, <1>5 DEF OneAtATime, Starting
<1> HIDE DEF s
<1> QED
  BY <1>1, <1>2, <1>4, <1>6, DisconnectKeeps

LEMMA ConnectKeeps ==
    ASSUME IInv, NEW t \in Thread, Connect(t)
    PROVE  IInv'
<1> USE DEF IInv
<1> DEFINE s == side[t]
           fd == Lowest({f \in Fd : files[f] = Null})
           r == [no |-> serial + 1, fd |-> fd]
           file == [no |-> serial + 1, server |-> address[t]]
<1>1. /\ pc[t] = "connect" /\ UNCHANGED <<zkVars, watch, listed, address>>
      /\ names' = [names EXCEPT ![s] = listed[t][s]]
      /\ s \in Side /\ serial \in Nat /\ pair[s] \notin live
  BY DEF Connect, Typed, Owned
<1>2. PICK to \in (IF t = "main" THEN MainPcs ELSE WatcherPcs) :
             /\ to # "connect" /\ pc' = [pc EXCEPT ![t] = to]
             /\ side' = side \/ \E z \in Side : side' = [side EXCEPT ![t] = z]
  BY NextSideGoes DEF Connect
<1>3. \A u \in Thread : pc'[u] # "connect"
  BY <1>1, <1>2, Alone DEF Typed
<1>4. OneAtATime'
  BY <1>1, <1>2, Alone
<1>5. names' \in [Side -> Server \cup {Null}]
  <2>1. listed[t][s] \in Server \cup {Null}
    BY <1>1 DEF Typed
  <2> QED
    BY <1>1, <2>1 DEF TypeOK
<1>6. CASE address[t] \in alive
  <2>1. /\ pair' = [pair EXCEPT ![s] = r] /\ serial' = serial + 1
        /\ live' = live \cup {r} /\ files' = [files EXCEPT ![fd] = file]
    BY <1>6 DEF Connect
  <2>2. fd \in Fd /\ files[fd] = Null
    <3> DEFINE free == {f \in Fd : files[f] = Null}
    <3>1. free # {}
      <4>1. PICK f \in Fd, g \in Fd : f # g
        BY ZkClientAssumption
      <4>2. ASSUME files[f] # Null, files[g] # Null PROVE FALSE
        <5>1. PICK p \in live : p.fd = f
          BY <4>2 DEF Owned
        <5>2. PICK q \in live : q.fd = g
          BY <4>2 DEF Owned
        <5>3. \E z \in Side : pair[z] = p
          BY <5>1 DEF Owned
        <5>4. \E z \in Side : pair[z] = q
          BY <5>2 DEF Owned
        <5>5. p = q
          BY <1>1, <5>1, <5>2, <5>3, <5>4 DEF Side
        <5> QED
          BY <4>1, <5>1, <5>2, <5>5
      <4> QED
        BY <4>1, <4>2
    <3>2. free \subseteq Nat
      BY ZkClientAssumption
    <3> QED
      BY <3>1, <3>2, LowestIn
  <2> HIDE DEF fd
  <2>3. r \in [no : 1 .. serial', fd : Fd] /\ file \in [no : 1 .. serial', server : Server]
    <3>1. serial + 1 \in 1 .. serial' /\ address[t] \in Server
      BY <1>1, <1>6, <2>1 DEF TypeOK
    <3> QED
      BY <2>2, <3>1
  <2>4. r # Null /\ file # Null /\ r.fd = fd /\ r.no = serial + 1 /\ file.no = serial + 1
    <3>1. r \in [no : Nat, fd : Fd] /\ file \in [no : Nat, server : Server]
      BY <1>1, <1>6, <2>2 DEF TypeOK
    <3> QED
      BY <3>1, ZkClientAssumption
  <2>5. 1 .. serial \subseteq 1 .. serial' /\ serial' \in Nat
    BY <1>1, <2>1
  <2> HIDE DEF r, file
  <2>6. /\ live' \subseteq [no : 1 .. serial', fd : Fd]
        /\ pair' \in [Side -> [no : 1 .. serial', fd : Fd] \cup {Null}]
        /\ files' \in [Fd -> [no : 1 .. serial', server : Server] \cup {Null}]
    BY <1>1, <2>1, <2>2, <2>3, <2>5 DEF TypeOK, Rtables
  <2>7. ASSUME NEW q \in live' PROVE files'[q.fd] # Null /\ files'[q.fd].no = q.no
    <3>1. CASE q = r
      BY <2>1, <2>2, <2>4, <3>1 DEF TypeOK
    <3>2. CASE q \in live
      <4>1. q.fd \in Fd /\ q.fd # fd
        BY <2>2, <3>2 DEF TypeOK, Rtables
      <4> QED
        BY <2>1, <2>2, <3>2, <4>1 DEF TypeOK
    <3> QED
      BY <2>1, <2>7, <3>1, <3>2
  <2>8. TypeOK'
    BY <1>1, <1>5, <2>6, <2>7 DEF TypeOK, Rtables, zkVars
  <2>9. Typed'
    BY <1>1, <1>2, <2>5, PairChanged DEF zkVars
  <2>10. Owned'
    <3>1. ASSUME NEW f \in Fd, files'[f] # Null PROVE \E q \in live' : q.fd = f
      BY <2>1, <2>2, <2>4, <3>1 DEF TypeOK, Owned
    <3>2. ASSUME NEW q \in live' PROVE \E z \in Side : pair'[z] = q
      <4>1. CASE q = r
        BY <1>1, <2>1, <4>1 DEF TypeOK
      <4>2. CASE q \in live
        <5>1. PICK z \in Side : pair[z] = q
          BY <4>2 DEF Owned
        <5>2. z # s
          BY <1>1, <4>2, <5>1
        <5> QED
          BY <2>1, <5>1, <5>2 DEF TypeOK
      <4> QED
        BY <2>1, <3>2, <4>1, <4>2
    <3> QED
      BY <1>3, <3>1, <3>2 DEF Owned
  <2> QED
    BY <1>4, <2>8, <2>9, <2>10
<1>7. CASE address[t] \notin alive
  <2>1. /\ pair' = [pair EXCEPT ![s] = Null] /\ UNCHANGED <<serial, live, files>>
    BY <1>7 DEF Connect
  <2>2. Typed'
    BY <1>1, <1>2, <2>1, PairChanged DEF zkVars
  <2>3. TypeOK'
    BY <1>1, <1>5, <2>1 DEF TypeOK, Rtables, zkVars
  <2>4. ASSUME NEW q \in live PROVE \E z \in Side : pair'[z] = q
    <3>1. PICK z \in Side : pair[z] = q
      BY <2>4 DEF Owned
    <3>2. z # s
      BY <1>1, <2>4, <3>1
    <3> QED
      BY <2>1, <3>1, <3>2 DEF TypeOK
  <2>5. Owned'
    BY <1>3, <2>1, <2>4 DEF Owned
  <2> QED
    BY <1>4, <2>2, <2>3, <2>5
<1> QED
  BY <1>6, <1>7

LEMMA Step ==
    ASSUME IInv, StartsWhenIdle, [Next]_vars
    PROVE  IInv'
<1>1. CASE UNCHANGED vars
  BY <1>1 DEF vars, zkVars, pairVars, threadVars, IInv, TypeOK, Typed, OneAtATime, Owned,
     Rtables, Starting
<1>2. CASE Next
  <2>1. "main" \in Thread /\ "watcher" \in Thread
    BY DEF Thread
  <2> QED
    BY <1>2, <2>1, EnvironmentStep, MainKeeps, HandlerKeeps, LooksKeep, MakingDisconnects,
       ConnectKeeps, QuitKeeps DEF Next, MainStep, WatcherStep, make_connections
<1> QED
  BY <1>1, <1>2

LEMMA Invariance ==
    ASSUME StartsWhenIdle
    PROVE  Spec => []IInv
<1>1. IInv /\ [Next]_vars => IInv'
  BY Step
<1> QED
  BY <1>1, InitInv, PTL DEF Spec

\* Variables have their types. In particular an allocated rtable has the
\* descriptor of its own connection, and rtable_connect finds a free one.
THEOREM TypeCorrect ==
    ASSUME StartsWhenIdle
    PROVE  Spec => []TypeOK
BY Invariance, PTL DEF IInv

\* make_connections leaks nothing, whatever fails in it, however often the
\* chain changes, and although the completion thread may run it while the
\* main thread is in a call or disconnects in quit.
THEOREM NoConnectionLost ==
    ASSUME StartsWhenIdle
    PROVE  Spec => []NoLeak
<1>1. IInv => NoLeak
  <2> SUFFICES ASSUME IInv, NEW f \in Fd, files[f] # Null
               PROVE  \E s \in Side : pair[s] # Null /\ pair[s].fd = f
    BY DEF NoLeak
  <2>1. PICK r \in live : r.fd = f
    BY DEF IInv, Owned
  <2>2. PICK s \in Side : pair[s] = r
    BY DEF IInv, Owned
  <2>3. r # Null
    BY ZkClientAssumption DEF IInv, TypeOK, Typed, Rtables
  <2> QED
    BY <2>1, <2>2, <2>3
<1> QED
  BY <1>1, Invariance, PTL
=============================================================================
