------------------------- MODULE Connections_proofs -------------------------
(***************************************************************************)
(* Theorems about Connections for any number of clients, descriptors and   *)
(* threads.                                                                *)
(***************************************************************************)
EXTENDS Connections, WellFoundedInduction, TLAPS

\* A set of natural numbers that is not empty has a least element.
LEMMA LeastExists ==
    ASSUME NEW S, S \subseteq Nat, S # {}
    PROVE  \E m \in S : \A n \in S : m <= n
<1> DEFINE R == OpToRel(<, Nat)
<1>1. IsWellFoundedOn(R, Nat)
  BY NatLessThanWellFounded, Zenon
<1> HIDE DEF R
<1>2. PICK m \in S : \A n \in S : ~ (<<n, m>> \in R)
  BY <1>1, WFMin
<1>3. ASSUME NEW n \in S PROVE m <= n
  <2>1. ~ (<<n, m>> \in R)
    BY <1>2
  <2>2. n \in Nat /\ m \in Nat
    OBVIOUS
  <2>3. n < m => <<n, m>> \in R
    BY <2>2 DEF R, OpToRel
  <2> QED
    BY <2>1, <2>2, <2>3
<1> QED
  BY <1>3

Typed ==
    /\ client \in [Client -> {"off", "idle", "waiting", "gone"}]
    /\ files \in [Fd -> Client \cup {Null}]
    /\ pc \in [Client -> {"none", "refused", "receive", "read", "invoke", "send",
                          "close", "close_again", "gone"}]
    /\ socket \in [Client -> Fd \cup {Null}]
    /\ \A c \in Client : pc[c] # "none" => socket[c] \in Fd

\* A descriptor refers to the connection whose thread has it as its socket
\* and has not closed it. The first close of a thread is of its own
\* connection; the second may be of another's.
OwnDescriptor ==
    \A f \in Fd : files[f] # Null =>
        /\ socket[files[f]] = f
        /\ pc[files[f]] \notin {"none", "close_again", "gone"}

\* Who is not accepted yet has no thread.
Waiting ==
    /\ \A c \in backlog : c \in Client /\ client[c] # "off" /\ pc[c] = "none"
    /\ \A c \in Client : client[c] = "off" => pc[c] = "none"

IInv == Typed /\ OwnDescriptor /\ Waiting

\* The number that accept takes: the least of those that are free.
LEMMA LeastFree ==
    ASSUME Free # {}
    PROVE  (CHOOSE f \in Free : \A g \in Free : f <= g) \in Free
<1>1. Free \subseteq Nat
  BY ConnectionsAssumption DEF Free
<1> QED
  BY <1>1, LeastExists

LEMMA InitInv == Init => IInv
BY DEF Init, IInv, Typed, OwnDescriptor, Waiting

LEMMA StepInv == IInv /\ [Next]_vars => IInv'
<1> SUFFICES ASSUME IInv, [Next]_vars PROVE IInv'
  OBVIOUS
<1> USE ConnectionsAssumption DEF IInv, Typed, OwnDescriptor, Waiting, vars, Goto, Closes
<1>0. CASE UNCHANGED vars
  BY <1>0
<1>1. ASSUME NEW c \in Client, Connect(c) PROVE IInv'
  BY <1>1 DEF Connect
<1>2. ASSUME NEW c \in Client, Ask(c) PROVE IInv'
  BY <1>2 DEF Ask
<1>3. ASSUME NEW c \in Client, HangUp(c) PROVE IInv'
  BY <1>3 DEF HangUp
<1>4. ASSUME NEW c \in Client, accept(c) PROVE IInv'
  <2> DEFINE fd == CHOOSE f \in Free : \A g \in Free : f <= g
  <2>1. fd \in Fd /\ files[fd] = Null
    BY <1>4, LeastFree DEF accept, Free
  <2>2. /\ backlog' = backlog \ {c}
        /\ files' = [files EXCEPT ![fd] = c]
        /\ socket' = [socket EXCEPT ![c] = fd]
        /\ \/ pc' = [pc EXCEPT ![c] = "receive"]
           \/ pc' = [pc EXCEPT ![c] = "refused"]
        /\ client' = client /\ pc[c] = "none" /\ client[c] # "off"
    BY <1>4 DEF accept
  <2> HIDE DEF fd
  <2>3. \A f \in Fd : files[f] # c
    BY <2>2
  <2> QED
    BY <2>1, <2>2, <2>3
<1>5. ASSUME NEW c \in Client, AcceptFails(c) PROVE IInv'
  BY <1>5 DEF AcceptFails, ProcessEnds
<1>6. ASSUME NEW t \in Client, Receive(t) PROVE IInv'
  BY <1>6 DEF Receive
<1>7. ASSUME NEW t \in Client, Read(t) PROVE IInv'
  BY <1>7 DEF Read
<1>8. ASSUME NEW t \in Client, Invoke(t) PROVE IInv'
  BY <1>8 DEF Invoke
<1>9. ASSUME NEW t \in Client, Send(t) PROVE IInv'
  <2>1. /\ \A c \in Client : client'[c] = "off" => client[c] = "off"
        /\ \A c \in Client : client[c] # "off" => client'[c] # "off"
        /\ client' \in [Client -> {"off", "idle", "waiting", "gone"}]
    BY <1>9 DEF Send
  <2>2. /\ pc' = [pc EXCEPT ![t] = "receive"] /\ pc[t] = "send"
        /\ UNCHANGED <<files, socket, backlog>>
    BY <1>9 DEF Send
  <2>3. Typed'
    BY <2>1, <2>2
  <2>4. OwnDescriptor'
    BY <2>2
  <2>5. Waiting'
    BY <2>1, <2>2
  <2> QED
    BY <2>3, <2>4, <2>5
<1>10. ASSUME NEW t \in Client, Close(t) PROVE IInv'
  BY <1>10 DEF Close
<1>11. ASSUME NEW t \in Client, CloseAgain(t) PROVE IInv'
  BY <1>11 DEF CloseAgain
<1>12. CASE Exit
  BY <1>12 DEF Exit, ProcessEnds
<1> QED
  BY <1>0, <1>1, <1>2, <1>3, <1>4, <1>5, <1>6, <1>7, <1>8, <1>9, <1>10, <1>11, <1>12
     DEF Next, Handle

LEMMA Invariance == Spec => []IInv
BY InitInv, StepInv, PTL DEF Spec

\* A thread has a socket, and a client is at one descriptor at most.
THEOREM TypeCorrect == Spec => []TypeOK
<1>1. IInv => TypeOK
  BY ConnectionsAssumption DEF IInv, Typed, OwnDescriptor, Waiting, TypeOK, Threads
<1> QED
  BY Invariance, <1>1, PTL

\* However many clients come and go, and although each thread closes its
\* socket twice, a thread that has ended leaves no descriptor open.
THEOREM NoDescriptorLost == Spec => []DescriptorsReturned
<1>1. IInv => DescriptorsReturned
  BY DEF IInv, OwnDescriptor, DescriptorsReturned
<1> QED
  BY Invariance, <1>1, PTL
=============================================================================
