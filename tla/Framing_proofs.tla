--------------------------- MODULE Framing_proofs ---------------------------
(***************************************************************************)
(* The proof that read_all and write_all, with a length in front of every  *)
(* message, make a connection where a request is handled at most once, as  *)
(* it was sent, and answered to the call that made it: for any sizes of    *)
(* the pieces, any moment at which one side stops, all messages whose      *)
(* length fits in the two bytes of a length, and whatever there is no      *)
(* memory for, up to the first body of an answer that is left unread.      *)
(***************************************************************************)
EXTENDS Framing, SequenceTheorems, TLAPS

\* The lengths that two bytes can hold.
LengthsFit == \A len \in RequestLength \cup ResponseLength : len < Base * Base

\* A client has memory for the body of every answer.
BodiesRead == "answer body" \notin Failing

-----------------------------------------------------------------------------
(* Pieces of a message.                                                    *)

\* The bytes a .. b - 1 of a message.
Piece(m, a, b) == [i \in 1 .. (b - a) |-> [of |-> m, at |-> a + i - 1]]

Bytes(m) == {[of |-> m, at |-> k] : k \in Int}

LEMMA PieceIsSeq ==
    ASSUME NEW m, NEW a \in Nat, NEW b \in Nat, a <= b
    PROVE  /\ Piece(m, a, b) \in Seq(Bytes(m)) /\ Len(Piece(m, a, b)) = b - a
           /\ \A i \in 1 .. (b - a) : Piece(m, a, b)[i] = [of |-> m, at |-> a + i - 1]
<1>1. b - a \in Nat
  OBVIOUS
<1>2. Piece(m, a, b) \in [1 .. (b - a) -> Bytes(m)]
  BY DEF Piece, Bytes
<1>3. Piece(m, a, b) \in Seq(Bytes(m))
  <2>1. PICK n \in Nat : n = b - a
    BY <1>1
  <2>2. Piece(m, a, b) \in [1 .. n -> Bytes(m)]
    BY <1>2, <2>1
  <2> QED
    BY Zenon, <2>2, SeqDef
<1>4. DOMAIN Piece(m, a, b) = 1 .. (b - a)
  BY DEF Piece
<1>5. Len(Piece(m, a, b)) \in Nat /\ DOMAIN Piece(m, a, b) = 1 .. Len(Piece(m, a, b))
  BY <1>3, LenProperties
<1>6. Len(Piece(m, a, b)) = b - a
  <2> DEFINE l == Len(Piece(m, a, b))
             n == b - a
  <2>1. l \in Nat /\ n \in Nat /\ 1 .. l = 1 .. n
    BY <1>1, <1>4, <1>5
  <2> HIDE DEF l, n
  <2> QED
    BY <2>1 DEF l, n
<1> QED
  BY <1>3, <1>6 DEF Piece

\* The bytes of a body.
LEMMA BodyBytes ==
    ASSUME NEW m, NEW p \in Nat, p >= 2
    PROVE  /\ Len(Piece(m, 2, p)) = p - 2
           /\ \A i \in 1 .. (p - 2) : Piece(m, 2, p)[i] = [of |-> m, at |-> 2 + i - 1]
<1>1. 2 \in Nat /\ 2 <= p
  OBVIOUS
<1> QED
  BY <1>1, PieceIsSeq

LEMMA NoPiece ==
    ASSUME NEW m, NEW a \in Nat
    PROVE  Piece(m, a, a) = <<>>
<1>1. Piece(m, a, a) \in Seq(Bytes(m)) /\ Len(Piece(m, a, a)) = 0
  <2>1. a <= a /\ a - a = 0
    OBVIOUS
  <2> QED
    BY <2>1, PieceIsSeq
<1> QED
  BY <1>1, EmptySeq

LEMMA Joined ==
    ASSUME NEW m, NEW a \in Nat, NEW b \in Nat, NEW c \in Nat, a <= b, b <= c
    PROVE  Piece(m, a, b) \o Piece(m, b, c) = Piece(m, a, c)
<1> DEFINE p == Piece(m, a, b)
           q == Piece(m, b, c)
           r == Piece(m, a, c)
<1>1. /\ p \in Seq(Bytes(m)) /\ Len(p) = b - a
      /\ \A i \in 1 .. (b - a) : p[i] = [of |-> m, at |-> a + i - 1]
  BY PieceIsSeq
<1>2. /\ q \in Seq(Bytes(m)) /\ Len(q) = c - b
      /\ \A i \in 1 .. (c - b) : q[i] = [of |-> m, at |-> b + i - 1]
  BY PieceIsSeq
<1>3. /\ r \in Seq(Bytes(m)) /\ Len(r) = c - a
      /\ \A i \in 1 .. (c - a) : r[i] = [of |-> m, at |-> a + i - 1]
  <2>1. a <= c
    OBVIOUS
  <2> QED
    BY <2>1, PieceIsSeq
<1> HIDE DEF p, q, r
<1>4. /\ p \o q \in Seq(Bytes(m)) /\ Len(p \o q) = Len(p) + Len(q)
      /\ \A i \in 1 .. Len(p) + Len(q) :
            (p \o q)[i] = IF i <= Len(p) THEN p[i] ELSE q[i - Len(p)]
  BY <1>1, <1>2, ConcatProperties
<1>5. Len(p \o q) = Len(r) /\ Len(r) = c - a
  BY <1>1, <1>2, <1>3, <1>4
<1>6. ASSUME NEW i \in 1 .. (c - a) PROVE (p \o q)[i] = r[i]
  <2>1. i \in 1 .. Len(p) + Len(q) /\ i \in Int /\ Len(p) = b - a
    BY <1>1, <1>2
  <2>2. CASE i <= b - a
    <3>1. i \in 1 .. (b - a) /\ (p \o q)[i] = p[i]
      BY <1>4, <2>1, <2>2
    <3> QED
      BY <1>1, <1>3, <3>1
  <2>3. CASE ~(i <= b - a)
    <3>1. i - (b - a) \in 1 .. (c - b)
      BY <2>1, <2>3
    <3>2. (p \o q)[i] = q[i - (b - a)]
      BY <1>4, <2>1, <2>3
    <3>3. q[i - (b - a)] = [of |-> m, at |-> b + (i - (b - a)) - 1]
      BY <1>2, <3>1
    <3>4. b + (i - (b - a)) - 1 = a + i - 1
      BY <2>1
    <3> QED
      BY <1>3, <3>2, <3>3, <3>4
  <2> QED
    BY <2>2, <2>3
<1> QED
  BY <1>3, <1>4, <1>5, <1>6, SeqEqual DEF p, q, r

\* What read and write take from the start of a sequence, and what they leave.
Taken(s, n) == SubSeq(s, 1, n)

Left(s, n) == SubSeq(s, n + 1, Len(s))

LEMMA Cut ==
    ASSUME NEW m, NEW a \in Nat, NEW b \in Nat, NEW n \in Nat, a + n <= b
    PROVE  /\ Taken(Piece(m, a, b), n) = Piece(m, a, a + n)
           /\ Left(Piece(m, a, b), n) = Piece(m, a + n, b)
<1> DEFINE p == Piece(m, a, b)
<1>1. /\ p \in Seq(Bytes(m)) /\ Len(p) = b - a
      /\ \A i \in 1 .. (b - a) : p[i] = [of |-> m, at |-> a + i - 1]
  <2>1. a <= b
    OBVIOUS
  <2> QED
    BY <2>1, PieceIsSeq
<1>2. ASSUME NEW j \in Nat, NEW k \in Nat, j <= k, k <= b - a
      PROVE  SubSeq(p, j + 1, k) = Piece(m, a + j, a + k)
  <2> DEFINE r == Piece(m, a + j, a + k)
             s == SubSeq(p, j + 1, k)
  <2>1. /\ r \in Seq(Bytes(m)) /\ Len(r) = k - j
        /\ \A i \in 1 .. (k - j) : r[i] = [of |-> m, at |-> a + j + i - 1]
    <3>1. a + j \in Nat /\ a + k \in Nat /\ a + j <= a + k /\ (a + k) - (a + j) = k - j
      BY <1>2
    <3>2. /\ r \in Seq(Bytes(m)) /\ Len(r) = (a + k) - (a + j)
          /\ \A i \in 1 .. ((a + k) - (a + j)) : r[i] = [of |-> m, at |-> (a + j) + i - 1]
      <4> DEFINE from == a + j
                 to == a + k
      <4>1. from \in Nat /\ to \in Nat /\ from <= to
        BY <3>1
      <4> HIDE DEF from, to, p
      <4>2. /\ Piece(m, from, to) \in Seq(Bytes(m)) /\ Len(Piece(m, from, to)) = to - from
            /\ \A i \in 1 .. (to - from) :
                  Piece(m, from, to)[i] = [of |-> m, at |-> from + i - 1]
        BY ZenonT(60), <4>1, PieceIsSeq
      <4> QED
        BY Zenon, <4>2 DEF from, to
    <3> QED
      BY <3>1, <3>2
  <2> HIDE DEF p, r
  <2>2. \A i \in (j + 1) .. k : i \in 1 .. (b - a) /\ p[i] \in Bytes(m)
    BY <1>1, <1>2 DEF Bytes
  <2>3. /\ s \in Seq(Bytes(m)) /\ Len(s) = (IF j + 1 <= k THEN k - (j + 1) + 1 ELSE 0)
        /\ \A i \in 1 .. k - (j + 1) + 1 : s[i] = p[(j + 1) + i - 1]
    BY <1>2, <2>2, SubSeqProperties
  <2> HIDE DEF s
  <2>4. Len(s) = k - j /\ k - (j + 1) + 1 = k - j
    BY <1>2, <2>3
  <2>5. ASSUME NEW i \in 1 .. (k - j) PROVE s[i] = r[i]
    <3>1. j + i \in 1 .. (b - a) /\ (j + 1) + i - 1 = j + i /\ a + (j + i) - 1 = a + j + i - 1
      BY <1>2
    <3>2. s[i] = p[j + i]
      BY <2>3, <2>4, <3>1
    <3> QED
      BY <1>1, <2>1, <3>1, <3>2
  <2> QED
    BY <2>1, <2>3, <2>4, <2>5, SeqEqual DEF s, r, p
<1> HIDE DEF p
<1>3. SubSeq(p, 1, n) = Piece(m, a, a + n)
  <2>1. 0 \in Nat /\ 0 <= n /\ n <= b - a /\ 0 + 1 = 1 /\ a + 0 = a
    OBVIOUS
  <2>2. SubSeq(p, 0 + 1, n) = Piece(m, a + 0, a + n)
    BY <1>2, <2>1
  <2> QED
    BY <2>1, <2>2
<1>4. SubSeq(p, n + 1, b - a) = Piece(m, a + n, b)
  <2>1. PICK k \in Nat : k = b - a
    OBVIOUS
  <2>2. n <= k /\ k <= b - a /\ b = a + k
    BY <2>1
  <2>3. SubSeq(p, n + 1, k) = Piece(m, a + n, a + k)
    BY <1>2, <2>2
  <2> QED
    BY <2>1, <2>2, <2>3
<1> QED
  BY <1>1, <1>3, <1>4 DEF p, Taken, Left

-----------------------------------------------------------------------------
(* The inductive invariant.                                                *)

\* A side has read p bytes of a message, and the next q - p are in flight.
Reading(pc, buf, len, stream, m, p, q) ==
    /\ p <= q
    /\ \/ pc = "length" /\ p <= 2 /\ buf = Piece(m, 0, p)
       \/ pc = "body" /\ p >= 2 /\ len = m.len /\ buf = Piece(m, 2, p)
    /\ stream = Piece(m, p, q)

\* The client waits and nothing is on its way to it.
Silent == clientPc = "length" /\ clientBuf = <<>> /\ toClient = <<>>

\* The request, of len bytes, is on its way: its sender still writes it, waits
\* for the answer or is gone.
AskingAt(len, p, q) ==
    LET m == Message("request", call, len) IN
    /\ handled # call /\ call > 0 /\ q <= len + 2
    /\ Reading(serverPc, serverBuf, serverLen, toServer, m, p, q)
    /\ \/ /\ clientPc = "write" /\ toClient = <<>>
          /\ q # len + 2 /\ clientOut = Piece(m, q, len + 2)
       \/ Silent /\ q = len + 2
       \/ clientPc = "gone"

Asking == \E len \in RequestLength, p, q \in Nat : AskingAt(len, p, q)

\* The answer is on its way.
AnsweringAt(len, p, q) ==
    LET m == Message("response", call, len) IN
    /\ handled = call /\ call > 0 /\ q <= len + 2
    /\ Reading(clientPc, clientBuf, clientLen, toClient, m, p, q)
    /\ \/ serverPc = "write" /\ q # len + 2 /\ serverOut = Piece(m, q, len + 2)
       \/ serverPc = "length" /\ q = len + 2
       \/ ~ServerOpen

Answering == \E len \in ResponseLength, p, q \in Nat : AnsweringAt(len, p, q)

\* The server has taken all that was sent.
Served ==
    /\ handled = call /\ toServer = <<>> /\ serverBuf = <<>>
    /\ \/ serverPc = "length" /\ clientPc = "idle" /\ toClient = <<>>
       \/ serverPc \in {"length", "invoke"} /\ call > 0 /\ Silent
       \/ serverPc \in {"length", "write"} /\ Answering
       \/ serverPc \in {"length", "invoke", "write"} /\ clientPc = "gone"

InOrder ==
    /\ ServerOpen => Asking \/ Served
    /\ (~ServerOpen /\ clientPc \in {"length", "body"}) => Silent \/ Answering

IInv == TypeOK /\ RefusedOnlyHighBit /\ InOrder

-----------------------------------------------------------------------------
(* What the parts of message.c do to a message that is on its way.         *)

LEMMA FrameIsPiece ==
    ASSUME NEW m, m.len \in Nat
    PROVE  Frame(m) = Piece(m, 0, m.len + 2)
<1>1. (m.len + 2) - 0 = m.len + 2 /\ \A i \in 1 .. (m.len + 2) : 0 + i - 1 = i - 1
  OBVIOUS
<1> QED
  BY <1>1 DEF Frame, Piece

LEMMA NothingRead ==
    ASSUME NEW m, m.len \in Nat, NEW len
    PROVE  Reading("length", <<>>, len, <<>>, m, 0, 0)
<1>1. Piece(m, 0, 0) = <<>>
  BY NoPiece
<1> QED
  BY <1>1 DEF Reading

\* read_all takes the bytes that come next.
LEMMA ReadOn ==
    ASSUME NEW m, m.len \in Nat, NEW pc, NEW len, NEW buf, NEW stream,
           NEW p \in Nat, NEW q \in Nat, Reading(pc, buf, len, stream, m, p, q),
           NEW n \in 1 .. (Wanted(pc, len) - Len(buf)), n <= Len(stream)
    PROVE  /\ Reading(pc, buf \o SubSeq(stream, 1, n), len,
                      SubSeq(stream, n + 1, Len(stream)), m, p + n, q)
           /\ p + n \in Nat
           /\ Len(SubSeq(stream, n + 1, Len(stream))) <= Len(stream)
           /\ Len(buf \o SubSeq(stream, 1, n)) <= Wanted(pc, len)
<1>1. p <= q /\ stream = Piece(m, p, q)
  BY DEF Reading
<1>2. Len(stream) = q - p
  BY <1>1, PieceIsSeq
<1>3. n \in Nat /\ p + n <= q /\ p + n \in Nat
  <2>1. n \in Int /\ n >= 1
    OBVIOUS
  <2> QED
    BY <1>2, <2>1
<1>4. /\ SubSeq(stream, 1, n) = Piece(m, p, p + n)
      /\ SubSeq(stream, n + 1, Len(stream)) = Piece(m, p + n, q)
  <2>1. /\ Taken(Piece(m, p, q), n) = Piece(m, p, p + n)
        /\ Left(Piece(m, p, q), n) = Piece(m, p + n, q)
    BY <1>3, Cut
  <2> QED
    BY <1>1, <2>1 DEF Taken, Left
<1>5. Len(Piece(m, p + n, q)) = q - (p + n)
  BY <1>3, PieceIsSeq
<1>6. CASE pc = "length" /\ p <= 2 /\ buf = Piece(m, 0, p)
  <2>1. buf \o Piece(m, p, p + n) = Piece(m, 0, p + n)
    <3> DEFINE r == p + n
    <3>1. 0 \in Nat /\ 0 <= p /\ r \in Nat /\ p <= r
      BY <1>3
    <3> HIDE DEF r
    <3>2. Piece(m, 0, p) \o Piece(m, p, r) = Piece(m, 0, r)
      BY Zenon, <3>1, Joined
    <3> QED
      BY Zenon, <1>6, <3>2 DEF r
  <2>2. Len(buf) = p /\ Len(Piece(m, 0, p + n)) = p + n
    <3>1. /\ 0 \in Nat /\ 0 <= p /\ p - 0 = p
          /\ 0 <= p + n /\ (p + n) - 0 = p + n
      BY <1>3
    <3>2. Len(Piece(m, 0, p)) = p - 0
      BY <3>1, PieceIsSeq
    <3>3. Len(Piece(m, 0, p + n)) = (p + n) - 0
      BY <1>3, <3>1, PieceIsSeq
    <3> QED
      BY <1>6, <3>1, <3>2, <3>3
  <2>3. Wanted(pc, len) = 2
    BY <1>6 DEF Wanted
  <2>4. p + n <= 2
    BY <1>3, <2>2, <2>3
  <2> QED
    BY <1>1, <1>2, <1>3, <1>4, <1>5, <1>6, <2>1, <2>2, <2>3, <2>4 DEF Reading
<1>7. CASE pc = "body" /\ p >= 2 /\ len = m.len /\ buf = Piece(m, 2, p)
  <2>1. buf \o Piece(m, p, p + n) = Piece(m, 2, p + n)
    <3> DEFINE r == p + n
    <3>1. 2 \in Nat /\ 2 <= p /\ r \in Nat /\ p <= r
      BY <1>3, <1>7
    <3> HIDE DEF r
    <3>2. Piece(m, 2, p) \o Piece(m, p, r) = Piece(m, 2, r)
      BY Zenon, <3>1, Joined
    <3> QED
      BY Zenon, <1>7, <3>2 DEF r
  <2>2. Len(buf) = p - 2 /\ Len(Piece(m, 2, p + n)) = (p + n) - 2
    <3> DEFINE r == p + n
    <3>1. 2 \in Nat /\ 2 <= p /\ r \in Nat /\ 2 <= r
      BY <1>3, <1>7
    <3> HIDE DEF r
    <3>2. Len(Piece(m, 2, p)) = p - 2 /\ Len(Piece(m, 2, r)) = r - 2
      BY Zenon, <3>1, PieceIsSeq
    <3> QED
      BY Zenon, <1>7, <3>2 DEF r
  <2>3. Wanted(pc, len) = m.len
    BY <1>7 DEF Wanted
  <2>4. Len(Piece(m, 2, p + n)) <= m.len /\ p + n >= 2
    BY <1>3, <1>7, <2>2, <2>3
  <2>5. buf \o SubSeq(stream, 1, n) = Piece(m, 2, p + n)
    BY <1>4, <2>1
  <2>6. Reading(pc, buf \o SubSeq(stream, 1, n), len,
                SubSeq(stream, n + 1, Len(stream)), m, p + n, q)
    BY <1>3, <1>4, <1>7, <2>4, <2>5 DEF Reading
  <2> QED
    BY <1>2, <1>3, <1>4, <1>5, <2>3, <2>4, <2>5, <2>6
<1> QED
  BY <1>6, <1>7 DEF Reading

\* write_all adds the bytes that come next.
LEMMA WriteOn ==
    ASSUME NEW m, NEW pc, NEW len, NEW buf, NEW stream,
           NEW p \in Nat, NEW q \in Nat, Reading(pc, buf, len, stream, m, p, q),
           NEW end \in Nat, q <= end, NEW out, out = Piece(m, q, end),
           NEW n \in 1 .. Len(out), n <= Capacity - Len(stream)
    PROVE  /\ Reading(pc, buf, len, stream \o Taken(out, n), m, p, q + n)
           /\ Left(out, n) = Piece(m, q + n, end)
           /\ q + n \in Nat /\ q + n <= end
           /\ AllBytes(Len(out) - Len(Left(out, n)), Len(out)) <=> q + n = end
           /\ Len(stream \o Taken(out, n)) <= Capacity
<1>1. p <= q /\ stream = Piece(m, p, q)
  BY DEF Reading
<1>2. Len(out) = end - q /\ Len(stream) = q - p
  BY <1>1, PieceIsSeq
<1>3. n \in Nat /\ q + n <= end /\ q + n \in Nat /\ q <= q + n /\ p <= q + n
  <2>1. n \in Int /\ n >= 1 /\ n <= Len(out)
    BY <1>2
  <2> QED
    BY <1>1, <1>2, <2>1
<1>4. Taken(out, n) = Piece(m, q, q + n) /\ Left(out, n) = Piece(m, q + n, end)
  BY <1>2, <1>3, Cut
<1>5. stream \o Piece(m, q, q + n) = Piece(m, p, q + n)
  BY <1>1, <1>3, Joined
<1>6. Len(Piece(m, q + n, end)) = end - (q + n) /\ Len(Piece(m, p, q + n)) = (q + n) - p
  BY <1>2, <1>3, PieceIsSeq
<1>7. Reading(pc, buf, len, stream \o Taken(out, n), m, p, q + n)
  BY <1>1, <1>3, <1>4, <1>5 DEF Reading
<1>8. AllBytes(Len(out) - Len(Left(out, n)), Len(out)) <=> q + n = end
  <2> DEFINE rest == Len(Left(out, n))
             whole == Len(out)
  <2>1. whole = end - q /\ rest = end - (q + n)
    BY <1>2, <1>4, <1>6
  <2> HIDE DEF rest, whole
  <2>2. whole - rest = whole <=> q + n = end
    BY <1>2, <1>3, <2>1
  <2> QED
    BY <2>2 DEF rest, whole, AllBytes
<1>9. Len(stream \o Taken(out, n)) <= Capacity
  <2>1. Capacity \in Nat
    BY FramingAssumption
  <2> QED
    BY <1>1, <1>2, <1>3, <1>4, <1>5, <1>6, <2>1
<1> QED
  BY <1>3, <1>4, <1>7, <1>8, <1>9

\* Two bytes hold a length, and their values give it back.
LEMMA TwoBytes ==
    ASSUME NEW len \in Nat, len < Base * Base,
           NEW high, high = (len \div Base) % Base, NEW low, low = len % Base
    PROVE  high \in Nat /\ low \in Nat /\ Base * high + low = len
<1> DEFINE quotient == len \div Base
<1>1. Base \in Nat /\ Base > 1
  BY FramingAssumption
<1>2. quotient \in Int /\ low \in Int /\ len = Base * quotient + low /\ 0 <= low /\ low < Base
  BY <1>1
<1>3. high = quotient % Base
  OBVIOUS
<1> HIDE DEF quotient
<1>4. quotient >= 0
  <2>1. SUFFICES ASSUME quotient <= -1 PROVE FALSE
    BY <1>2
  <2>2. Base * quotient <= Base * (-1)
    BY <1>1, <1>2, <2>1
  <2> QED
    BY <1>1, <1>2, <2>2
<1>5. quotient < Base
  <2>1. SUFFICES ASSUME quotient >= Base PROVE FALSE
    BY <1>1, <1>2
  <2>2. Base * quotient >= Base * Base
    BY <1>1, <1>2, <2>1
  <2> QED
    BY <1>1, <1>2, <2>2
<1>6. quotient % Base = quotient
  BY <1>1, <1>2, <1>4, <1>5
<1> QED
  BY <1>2, <1>3, <1>4, <1>6

\* A side that has read the length of a message knows it, and goes on to the
\* body.
LEMMA LengthRead ==
    ASSUME NEW m, m.len \in Nat, m.len < Base * Base,
           NEW len, NEW buf, NEW stream,
           NEW p \in Nat, NEW q \in Nat, Reading("length", buf, len, stream, m, p, q),
           Len(buf) = 2,
           NEW high \in Values(buf[1]), NEW low \in Values(buf[2])
    PROVE  /\ high \in Nat /\ low \in Nat /\ low = m.len % Base
           /\ Base * high + low = m.len
           /\ Reading("body", <<>>, m.len, stream, m, p, q)
<1>1. p <= q /\ stream = Piece(m, p, q) /\ p <= 2 /\ buf = Piece(m, 0, p)
  BY DEF Reading
<1>2. 0 \in Nat /\ 0 <= p /\ p - 0 = p
  OBVIOUS
<1>3. Len(buf) = p - 0 /\ \A i \in 1 .. (p - 0) : buf[i] = [of |-> m, at |-> 0 + i - 1]
  BY <1>1, <1>2, PieceIsSeq
<1>4. p = 2
  BY <1>2, <1>3
<1>5. buf[1].at = 0 /\ buf[1].of = m /\ buf[2].at = 1 /\ buf[2].of = m
  <2>1. 1 \in 1 .. (p - 0) /\ 2 \in 1 .. (p - 0) /\ 0 + 1 - 1 = 0 /\ 0 + 2 - 1 = 1
    BY <1>4
  <2>2. buf[1] = [of |-> m, at |-> 0] /\ buf[2] = [of |-> m, at |-> 1]
    BY <1>3, <2>1
  <2> QED
    BY <2>2
<1>6. high = (m.len \div Base) % Base /\ low = m.len % Base
  <2>1. Values(buf[1]) = {(m.len \div Base) % Base}
    BY <1>5 DEF Values
  <2>2. Values(buf[2]) = {m.len % Base}
    BY <1>5 DEF Values
  <2> QED
    BY <2>1, <2>2
<1>7. Piece(m, 2, p) = <<>>
  BY <1>4, NoPiece
<1>8. high \in Nat /\ low \in Nat /\ Base * high + low = m.len
  BY <1>6, TwoBytes
<1>9. Reading("body", <<>>, m.len, stream, m, p, q)
  BY <1>1, <1>4, <1>7 DEF Reading
<1> QED
  BY <1>6, <1>8, <1>9

\* A side that has read all of a body unpacks the message it was written for.
LEMMA BodyRead ==
    ASSUME NEW m, m.len \in Nat \ {0}, NEW len, NEW buf, NEW stream,
           NEW p \in Nat, NEW q \in Nat, q <= m.len + 2, Reading("body", buf, len, stream, m, p, q),
           Len(buf) = len
    PROVE  /\ Unpack(buf) = {m.call}
           /\ q = m.len + 2 /\ stream = <<>>
<1>1. /\ p <= q /\ stream = Piece(m, p, q)
      /\ p >= 2 /\ len = m.len /\ buf = Piece(m, 2, p)
  BY DEF Reading
<1>2. Len(buf) = p - 2 /\ \A i \in 1 .. (p - 2) : buf[i] = [of |-> m, at |-> 2 + i - 1]
  <2>1. /\ Len(Piece(m, 2, p)) = p - 2
        /\ \A i \in 1 .. (p - 2) : Piece(m, 2, p)[i] = [of |-> m, at |-> 2 + i - 1]
    BY <1>1, BodyBytes
  <2> QED
    BY <1>1, <2>1
<1>3. p = m.len + 2 /\ q = m.len + 2
  BY <1>1, <1>2
<1>4. stream = <<>>
  BY <1>1, <1>3, NoPiece
<1>5. buf = Body(m)
  <2>1. p - 2 = m.len /\ \A i \in 1 .. m.len : 2 + i - 1 = i + 1
    BY <1>3
  <2>2. Piece(m, 2, p) = Body(m)
    BY <2>1 DEF Piece, Body
  <2> QED
    BY <1>1, <2>2
<1>6. buf # <<>> /\ buf[1].of = m
  <2>1. 1 \in 1 .. (p - 2) /\ p - 2 # 0
    BY <1>3
  <2>2. buf[1] = [of |-> m, at |-> 2 + 1 - 1] /\ Len(buf) # 0
    BY <1>2, <2>1
  <2>3. Len(<<>>) = 0
    OBVIOUS
  <2> QED
    BY <2>2, <2>3
<1> QED
  BY <1>3, <1>4, <1>5, <1>6 DEF Unpack

-----------------------------------------------------------------------------
(* What each side can be reading.                                          *)

LEMMA MessageFields ==
    ASSUME LengthsFit, NEW kind, NEW c, NEW len \in RequestLength \cup ResponseLength
    PROVE  /\ Message(kind, c, len).len = len /\ Message(kind, c, len).call = c
           /\ Message(kind, c, len).len \in Nat \ {0}
           /\ Message(kind, c, len).len \in Nat
           /\ Message(kind, c, len).len < Base * Base
<1>1. len \in Nat \ {0}
  BY FramingAssumption
<1>2. len < Base * Base
  BY DEF LengthsFit
<1>3. Message(kind, c, len).len = len /\ Message(kind, c, len).call = c
  BY DEF Message
<1> QED
  BY <1>1, <1>2, <1>3

LEMMA BufferFits ==
    ASSUME NEW m, m.len \in Nat, NEW pc, NEW len, NEW buf, NEW stream,
           NEW p \in Nat, NEW q \in Nat, q <= m.len + 2,
           Reading(pc, buf, len, stream, m, p, q)
    PROVE  /\ pc = "length" => Len(buf) <= 2
           /\ pc = "body" => Len(buf) <= len
           /\ pc \in {"length", "body"}
<1>1. CASE pc = "length" /\ p <= 2 /\ buf = Piece(m, 0, p)
  <2>1. 0 \in Nat /\ 0 <= p /\ p - 0 = p
    OBVIOUS
  <2>2. Len(Piece(m, 0, p)) = p - 0
    BY <2>1, PieceIsSeq
  <2> QED
    BY <1>1, <2>1, <2>2
<1>2. CASE pc = "body" /\ p >= 2 /\ len = m.len /\ buf = Piece(m, 2, p)
  <2>1. 2 \in Nat /\ 2 <= p
    BY <1>2
  <2>2. Len(Piece(m, 2, p)) = p - 2
    BY <2>1, PieceIsSeq
  <2>3. p <= q
    BY DEF Reading
  <2> QED
    BY <1>2, <2>2, <2>3
<1> QED
  BY <1>1, <1>2 DEF Reading

\* A server that reads has all that was sent or reads the request.
LEMMA ServerReads ==
    ASSUME IInv, serverPc \in {"length", "body"}
    PROVE  Asking \/ (serverPc = "length" /\ serverBuf = <<>> /\ toServer = <<>>)
BY DEF IInv, InOrder, Served, ServerOpen

\* A client that reads has nothing to read or reads the answer.
LEMMA ClientReads ==
    ASSUME IInv, clientPc \in {"length", "body"}
    PROVE  \/ Silent
           \/ /\ Answering
              /\ ServerOpen => /\ serverPc \in {"length", "write"} /\ handled = call
                               /\ toServer = <<>> /\ serverBuf = <<>>
<1>1. CASE ~ServerOpen
  BY <1>1 DEF IInv, InOrder
<1>2. CASE ServerOpen /\ Asking
  BY <1>2 DEF Asking, AskingAt
<1>3. CASE ServerOpen /\ Served
  BY <1>3 DEF Served
<1> QED
  BY <1>1, <1>2, <1>3 DEF IInv, InOrder

\* A client that writes writes the request.
LEMMA ClientWrites ==
    ASSUME IInv, clientPc = "write", ServerOpen
    PROVE  Asking
<1>1. ASSUME Answering PROVE FALSE
  BY <1>1 DEF Answering, AnsweringAt, Reading
<1> QED
  BY <1>1 DEF IInv, InOrder, Served, Silent

\* A server that does not read has taken all that was sent.
LEMMA ServerWrites ==
    ASSUME IInv, serverPc \in {"invoke", "write"}
    PROVE  Served
<1>1. ASSUME Asking PROVE FALSE
  BY <1>1 DEF Asking, AskingAt, Reading
<1> QED
  BY <1>1 DEF IInv, InOrder, ServerOpen

LEMMA NothingMissing ==
    /\ Len(<<>>) = 0
    /\ \A n \in Int : n >= 1 => ~(n <= Len(<<>>))
BY EmptySeq

-----------------------------------------------------------------------------
(* Every step of the client keeps the invariant.                           *)

LEMMA CallStep ==
    ASSUME LengthsFit, IInv, network_send_receive
    PROVE  IInv'
<1> USE DEF network_send_receive
<1>1. PICK len \in RequestLength :
        clientOut' = Frame(Message("request", call + 1, len))
  OBVIOUS
<1> DEFINE m == Message("request", call + 1, len)
<1>2. m.len = len /\ len \in Nat /\ m.len \in Nat /\ 0 < len + 2
  BY MessageFields
<1>3. call \in 0 .. MaxCalls /\ call + 1 \in 0 .. MaxCalls /\ call + 1 > 0 /\ call' # call
  BY FramingAssumption DEF IInv, TypeOK
<1>4. ServerOpen => handled = call /\ toServer = <<>> /\ serverBuf = <<>>
                    /\ serverPc = "length" /\ toClient = <<>>
  <2>1. ~Asking
    BY DEF Asking, AskingAt, Silent
  <2>2. ~Answering
    BY DEF Answering, AnsweringAt, Reading
  <2> QED
    BY <2>1, <2>2 DEF IInv, InOrder, Served, Silent
<1>5. ServerOpen' => AskingAt(len, 0, 0)'
  <2>1. SUFFICES ASSUME ServerOpen' PROVE AskingAt(len, 0, 0)'
    OBVIOUS
  <2>2. ServerOpen
    BY <2>1 DEF ServerOpen, serverVars
  <2>3. Reading("length", <<>>, serverLen, <<>>, m, 0, 0)
    BY <1>2, NothingRead
  <2>4. clientOut' = Piece(m, 0, len + 2)
    BY <1>1, <1>2, FrameIsPiece
  <2>5. Message("request", call', len) = m
    OBVIOUS
  <2> HIDE DEF m
  <2> QED
    BY <1>2, <1>3, <1>4, <2>2, <2>3, <2>4, <2>5 DEF AskingAt, serverVars
<1>6. InOrder'
  <2>1. 0 \in Nat
    OBVIOUS
  <2> QED
    BY <1>5, <2>1 DEF InOrder, Asking
<1>7. TypeOK'
  BY <1>3, FramingAssumption DEF IInv, TypeOK, serverVars, Null
<1>8. RefusedOnlyHighBit'
  BY DEF IInv, RefusedOnlyHighBit, serverVars
<1> QED
  BY <1>6, <1>7, <1>8 DEF IInv

LEMMA RequestNotPackedStep ==
    ASSUME IInv, RequestNotPacked
    PROVE  IInv'
<1> USE DEF RequestNotPacked
<1>1. Asking' <=> Asking
  BY DEF Asking, AskingAt, Silent, serverVars
<1>2. Answering' <=> Answering
  BY DEF Answering, AnsweringAt, ServerOpen, serverVars
<1>3. InOrder'
  BY <1>1, <1>2 DEF IInv, InOrder, Served, Silent, ServerOpen, serverVars
<1>4. TypeOK'
  <2>1. returned' \in -1 .. MaxCalls
    <3>1. MaxCalls \in Nat
      BY FramingAssumption
    <3>2. returned' = 0
      BY DEF Null
    <3> QED
      BY ONLY <3>1, <3>2
  <2>2. /\ UNCHANGED <<clientPc, clientBuf, clientLen, call, toServer, toClient>>
        /\ UNCHANGED <<serverPc, serverBuf, serverLen, handled>>
    BY DEF serverVars
  <2> HIDE DEF RequestNotPacked
  <2> QED
    BY <2>1, <2>2 DEF IInv, TypeOK
<1>5. RefusedOnlyHighBit'
  BY DEF IInv, RefusedOnlyHighBit, serverVars
<1> QED
  BY <1>3, <1>4, <1>5 DEF IInv

LEMMA ClientWriteStep ==
    ASSUME LengthsFit, IInv, ClientWrite
    PROVE  IInv'
<1> USE DEF ClientWrite
<1>1. PICK len \in RequestLength, p \in Nat, q \in Nat : AskingAt(len, p, q)
  BY ClientWrites DEF Asking
<1> DEFINE m == Message("request", call, len)
<1>2. m.len = len /\ len \in Nat /\ m.len \in Nat
  BY MessageFields
<1>3. /\ Reading(serverPc, serverBuf, serverLen, toServer, m, p, q)
      /\ toClient = <<>> /\ q <= len + 2 /\ clientOut = Piece(m, q, m.len + 2)
      /\ handled # call /\ call > 0
  BY <1>1, <1>2 DEF AskingAt, Silent
<1>4. PICK n \in 1 .. Len(clientOut) :
        /\ n <= Capacity - Len(toServer)
        /\ toServer' = toServer \o Taken(clientOut, n)
        /\ clientOut' = Left(clientOut, n)
  BY DEF write_all, Taken, Left
<1>5. /\ Reading(serverPc, serverBuf, serverLen, toServer', m, p, q + n)
      /\ clientOut' = Piece(m, q + n, m.len + 2)
      /\ q + n \in Nat /\ q + n <= m.len + 2
      /\ AllBytes(Len(clientOut) - Len(clientOut'), Len(clientOut))
         <=> q + n = m.len + 2
      /\ Len(toServer') <= Capacity
  <2> HIDE DEF m
  <2> DEFINE end == m.len + 2
  <2>1. end \in Nat /\ q <= end /\ clientOut = Piece(m, q, end)
    BY <1>2, <1>3
  <2> HIDE DEF end
  <2>2. /\ Reading(serverPc, serverBuf, serverLen, toServer \o Taken(clientOut, n),
                   m, p, q + n)
        /\ Left(clientOut, n) = Piece(m, q + n, end)
        /\ q + n \in Nat /\ q + n <= end
        /\ AllBytes(Len(clientOut) - Len(Left(clientOut, n)), Len(clientOut))
           <=> q + n = end
        /\ Len(toServer \o Taken(clientOut, n)) <= Capacity
    BY ZenonT(60), <1>3, <1>4, <2>1, WriteOn
  <2> QED
    BY <1>4, <2>2 DEF end
<1> DEFINE r == q + n
<1>6. /\ clientPc' = "length" => Silent' /\ r = len + 2
      /\ clientPc' # "length" => clientPc' = "write" /\ r # len + 2
  BY <1>2, <1>3, <1>5 DEF Silent
<1>7. AskingAt(len, p, r)'
  <2>1. Message("request", call', len) = m
    OBVIOUS
  <2> HIDE DEF m, r
  <2>2. /\ Reading(serverPc, serverBuf, serverLen, toServer', m, p, r)
        /\ r <= m.len + 2 /\ clientOut' = Piece(m, r, m.len + 2)
    BY <1>5 DEF r
  <2> QED
    BY <1>2, <1>3, <1>6, <2>1, <2>2 DEF AskingAt, serverVars
<1>8. InOrder'
  <2>1. r \in Nat
    BY <1>5
  <2> HIDE DEF r
  <2>2. Asking'
    BY <1>7, <2>1 DEF Asking
  <2>3. ServerOpen'
    BY DEF ServerOpen, serverVars
  <2> QED
    BY <2>2, <2>3 DEF InOrder
<1>9. TypeOK'
  <2>1. clientPc' \in {"length", "write"} /\ Len(clientBuf') = 0
    BY NothingMissing
  <2> QED
    BY <1>5, <2>1, FramingAssumption DEF IInv, TypeOK, serverVars
<1>10. RefusedOnlyHighBit'
  BY DEF IInv, RefusedOnlyHighBit, serverVars
<1> QED
  BY <1>8, <1>9, <1>10 DEF IInv

LEMMA ClientReadStep ==
    ASSUME LengthsFit, IInv, ClientRead
    PROVE  IInv'
<1> USE DEF ClientRead
<1>1. PICK n \in 1 .. (Wanted(clientPc, clientLen) - Len(clientBuf)) :
        /\ n <= Len(toClient)
        /\ clientBuf' = clientBuf \o SubSeq(toClient, 1, n)
        /\ toClient' = SubSeq(toClient, n + 1, Len(toClient))
  BY DEF read_all
<1>2. ~Silent
  <2>1. n \in Int /\ n >= 1
    OBVIOUS
  <2> QED
    BY <1>1, <2>1, NothingMissing DEF Silent
<1>3. /\ Answering
      /\ ServerOpen => /\ serverPc \in {"length", "write"} /\ handled = call
                       /\ toServer = <<>> /\ serverBuf = <<>>
  BY <1>2, ClientReads
<1>4. PICK len \in ResponseLength, p \in Nat, q \in Nat : AnsweringAt(len, p, q)
  BY <1>3 DEF Answering
<1> DEFINE m == Message("response", call, len)
<1>5. m.len = len /\ len \in Nat /\ m.len \in Nat
  BY MessageFields
<1>6. /\ Reading(clientPc, clientBuf, clientLen, toClient, m, p, q)
      /\ handled = call /\ call > 0 /\ q <= len + 2
      /\ \/ serverPc = "write" /\ q # len + 2 /\ serverOut = Piece(m, q, len + 2)
         \/ serverPc = "length" /\ q = len + 2
         \/ ~ServerOpen
  BY <1>4 DEF AnsweringAt
<1> DEFINE r == p + n
<1>7. /\ Reading(clientPc, clientBuf', clientLen, toClient', m, r, q) /\ r \in Nat
      /\ Len(toClient') <= Len(toClient)
  <2> HIDE DEF m
  <2> QED
    BY <1>1, <1>5, <1>6, ReadOn
<1> HIDE DEF r
<1>8. AnsweringAt(len, r, q)'
  <2>1. Message("response", call', len) = m
    OBVIOUS
  <2> HIDE DEF m
  <2> QED
    BY <1>6, <1>7, <2>1 DEF AnsweringAt, serverVars, ServerOpen
<1>9. InOrder'
  <2>1. Answering'
    BY <1>7, <1>8 DEF Answering
  <2>2. ServerOpen' <=> ServerOpen
    BY DEF ServerOpen, serverVars
  <2> QED
    BY <1>3, <2>1, <2>2 DEF InOrder, Served, serverVars
<1>10. TypeOK'
  <2>1. /\ clientPc = "length" => Len(clientBuf') <= 2
        /\ clientPc = "body" => Len(clientBuf') <= clientLen
    <3> HIDE DEF m
    <3> QED
      BY <1>5, <1>6, <1>7, BufferFits
  <2>2. Len(toClient') <= Capacity
    <3>1. Len(toClient) \in Int /\ Len(toClient') \in Int
      <4> HIDE DEF m
      <4>1. p <= q /\ r <= q /\ toClient = Piece(m, p, q) /\ toClient' = Piece(m, r, q)
        BY <1>6, <1>7 DEF Reading
      <4>2. Len(toClient) = q - p /\ Len(toClient') = q - r
        BY <1>7, <4>1, PieceIsSeq
      <4> QED
        BY <1>7, <4>2
    <3> QED
      BY <1>7, <3>1, FramingAssumption DEF IInv, TypeOK
  <2> QED
    BY <2>1, <2>2 DEF IInv, TypeOK, serverVars
<1>11. RefusedOnlyHighBit'
  BY DEF IInv, RefusedOnlyHighBit, serverVars
<1> QED
  BY <1>9, <1>10, <1>11 DEF IInv

LEMMA ClientLengthStep ==
    ASSUME LengthsFit, IInv, ClientLength
    PROVE  IInv'
<1> USE DEF ClientLength, AllBytes
<1>1. PICK high \in Values(clientBuf[1]), low \in Values(clientBuf[2]) :
        clientLen' = Base * high + low
  OBVIOUS
<1>2. ~Silent
  <2>1. clientBuf # <<>>
    <3>1. Len(clientBuf) = 2
      OBVIOUS
    <3>2. Len(<<>>) = 0
      BY NothingMissing
    <3> QED
      BY ONLY <3>1, <3>2
  <2> QED
    BY <2>1 DEF Silent
<1>3. /\ Answering
      /\ ServerOpen => /\ serverPc \in {"length", "write"} /\ handled = call
                       /\ toServer = <<>> /\ serverBuf = <<>>
  BY <1>2, ClientReads
<1>4. PICK len \in ResponseLength, p \in Nat, q \in Nat : AnsweringAt(len, p, q)
  BY <1>3 DEF Answering
<1> DEFINE m == Message("response", call, len)
<1>5. m.len = len /\ m.len \in Nat /\ m.len < Base * Base
  BY MessageFields
<1>6. /\ Reading(clientPc, clientBuf, clientLen, toClient, m, p, q)
      /\ handled = call /\ call > 0 /\ q <= len + 2
      /\ \/ serverPc = "write" /\ q # len + 2 /\ serverOut = Piece(m, q, len + 2)
         \/ serverPc = "length" /\ q = len + 2
         \/ ~ServerOpen
  BY <1>4 DEF AnsweringAt
<1>7. clientLen' = m.len /\ Reading("body", <<>>, m.len, toClient, m, p, q)
  <2>1. Reading("length", clientBuf, clientLen, toClient, m, p, q) /\ Len(clientBuf) = 2
    BY <1>6
  <2> HIDE DEF m
  <2>2. /\ Base * high + low = m.len
        /\ Reading("body", <<>>, m.len, toClient, m, p, q)
    BY <1>5, <2>1, LengthRead
  <2> QED
    BY <1>1, <2>2
<1>8. AnsweringAt(len, p, q)'
  <2>1. Message("response", call', len) = m
    OBVIOUS
  <2> HIDE DEF m
  <2> QED
    BY <1>6, <1>7, <2>1 DEF AnsweringAt, serverVars, ServerOpen
<1>9. InOrder'
  <2>1. Answering'
    BY <1>8 DEF Answering
  <2>2. ServerOpen' <=> ServerOpen
    BY DEF ServerOpen, serverVars
  <2> QED
    BY <1>3, <2>1, <2>2 DEF InOrder, Served, serverVars
<1>10. TypeOK'
  <2>1. Len(clientBuf') = 0 /\ 0 <= clientLen'
    BY <1>5, <1>7, NothingMissing
  <2> QED
    BY <2>1 DEF IInv, TypeOK, serverVars
<1>11. RefusedOnlyHighBit'
  BY DEF IInv, RefusedOnlyHighBit, serverVars
<1> QED
  BY <1>9, <1>10, <1>11 DEF IInv

\* A client that has all of a body has read the whole answer.
LEMMA AnswerAllRead ==
    ASSUME LengthsFit, Answering, ServerOpen, clientPc = "body",
           Len(clientBuf) = clientLen
    PROVE  serverPc = "length" /\ toClient = <<>>
<1>1. PICK len \in ResponseLength, p \in Nat, q \in Nat : AnsweringAt(len, p, q)
  BY DEF Answering
<1> DEFINE m == Message("response", call, len)
<1>2. m.len = len /\ m.len \in Nat \ {0}
  BY MessageFields
<1>3. /\ Reading("body", clientBuf, clientLen, toClient, m, p, q) /\ q <= m.len + 2
      /\ \/ serverPc = "write" /\ q # len + 2
         \/ serverPc = "length"
  BY <1>1, <1>2 DEF AnsweringAt
<1>4. Unpack(clientBuf) = {m.call} /\ q = m.len + 2 /\ toClient = <<>>
  <2>1. q <= m.len + 2 /\ Reading("body", clientBuf, clientLen, toClient, m, p, q)
    BY <1>3
  <2> HIDE DEF m
  <2> QED
    BY <1>2, <2>1, BodyRead
<1> QED
  BY <1>2, <1>3, <1>4

\* A call returns the answer to its own request.
LEMMA ClientUnpackStep ==
    ASSUME LengthsFit, IInv, ClientUnpack
    PROVE  IInv' /\ handled = call /\ returned' = call
<1> USE DEF ClientUnpack, AllBytes
<1>1. /\ Answering
      /\ ServerOpen => /\ serverPc \in {"length", "write"} /\ handled = call
                       /\ toServer = <<>> /\ serverBuf = <<>>
  BY ClientReads DEF Silent
<1>2. PICK len \in ResponseLength, p \in Nat, q \in Nat : AnsweringAt(len, p, q)
  BY <1>1 DEF Answering
<1> DEFINE m == Message("response", call, len)
<1>3. m.len = len /\ m.len \in Nat \ {0} /\ m.call = call
  BY MessageFields
<1>4. /\ Reading(clientPc, clientBuf, clientLen, toClient, m, p, q)
      /\ handled = call /\ call > 0 /\ q <= len + 2
      /\ \/ serverPc = "write" /\ q # len + 2 /\ serverOut = Piece(m, q, len + 2)
         \/ serverPc = "length" /\ q = len + 2
         \/ ~ServerOpen
  BY <1>2 DEF AnsweringAt
<1>5. Unpack(clientBuf) = {m.call} /\ q = m.len + 2 /\ toClient = <<>>
  <2>1. Reading("body", clientBuf, clientLen, toClient, m, p, q) /\ q <= m.len + 2
    BY <1>3, <1>4
  <2> HIDE DEF m
  <2> QED
    BY <1>3, <2>1, BodyRead
<1>6. returned' = call
  BY <1>3, <1>5
<1>7. ServerOpen' => Served'
  <2>1. ServerOpen' <=> ServerOpen
    BY DEF ServerOpen, serverVars
  <2>2. ServerOpen => serverPc = "length"
    BY <1>3, <1>4, <1>5
  <2> QED
    BY <1>1, <1>5, <2>1, <2>2 DEF Served, serverVars
<1>8. TypeOK'
  BY <1>4, <1>6 DEF IInv, TypeOK, serverVars
<1>9. RefusedOnlyHighBit'
  BY DEF IInv, RefusedOnlyHighBit, serverVars
<1> QED
  BY <1>4, <1>6, <1>7, <1>8, <1>9 DEF IInv, InOrder

LEMMA ClientFailsStep ==
    ASSUME LengthsFit, IInv, ClientFails
    PROVE  IInv'
<1> USE DEF ClientFails
<1>1. CASE ~ServerOpen
  <2>1. ~ServerOpen'
    BY <1>1 DEF ServerOpen, serverVars
  <2> QED
    BY <2>1 DEF InOrder, IInv, TypeOK, RefusedOnlyHighBit, serverVars
<1>2. CASE ServerOpen
  <2>1. clientPc = "body" /\ Len(clientBuf) = clientLen
    BY <1>2 DEF Ended, AllBytes
  <2>2. /\ Answering /\ serverPc \in {"length", "write"} /\ handled = call
        /\ toServer = <<>> /\ serverBuf = <<>>
    BY <1>2, <2>1, ClientReads DEF Silent
  <2>3. serverPc = "length" /\ toClient = <<>>
    BY <1>2, <2>1, <2>2, AnswerAllRead
  <2>4. Served'
    BY <2>2, <2>3 DEF Served, serverVars
  <2> QED
    BY <2>3, <2>4 DEF InOrder, IInv, TypeOK, RefusedOnlyHighBit, serverVars
<1> QED
  BY <1>1, <1>2

LEMMA CloseStep ==
    ASSUME IInv, network_close
    PROVE  IInv'
<1> USE DEF network_close
<1>1. Asking => Asking'
  BY DEF Asking, AskingAt, serverVars
<1>2. ServerOpen /\ Served => Served'
  BY DEF Served, serverVars
<1>3. InOrder'
  BY <1>1, <1>2 DEF IInv, InOrder, ServerOpen, serverVars
<1>4. TypeOK'
  BY DEF IInv, TypeOK, serverVars
<1>5. RefusedOnlyHighBit'
  BY DEF IInv, RefusedOnlyHighBit, serverVars
<1> QED
  BY <1>3, <1>4, <1>5 DEF IInv

-----------------------------------------------------------------------------
(* Every step of the server keeps the invariant.                           *)

LEMMA ServerReadStep ==
    ASSUME LengthsFit, IInv, ServerRead
    PROVE  IInv'
<1> USE DEF ServerRead
<1>1. PICK n \in 1 .. (Wanted(serverPc, serverLen) - Len(serverBuf)) :
        /\ n <= Len(toServer)
        /\ serverBuf' = serverBuf \o SubSeq(toServer, 1, n)
        /\ toServer' = SubSeq(toServer, n + 1, Len(toServer))
  BY DEF read_all
<1>2. Asking
  <2>1. n \in Int /\ n >= 1
    OBVIOUS
  <2>2. toServer # <<>>
    BY <1>1, <2>1, NothingMissing
  <2> QED
    BY <2>2, ServerReads
<1>3. PICK len \in RequestLength, p \in Nat, q \in Nat : AskingAt(len, p, q)
  BY <1>2 DEF Asking
<1> DEFINE m == Message("request", call, len)
<1>4. m.len = len /\ len \in Nat /\ m.len \in Nat
  BY MessageFields
<1>5. /\ Reading(serverPc, serverBuf, serverLen, toServer, m, p, q)
      /\ handled # call /\ call > 0 /\ q <= len + 2
      /\ \/ /\ clientPc = "write" /\ toClient = <<>>
            /\ q # len + 2 /\ clientOut = Piece(m, q, len + 2)
         \/ Silent /\ q = len + 2
         \/ clientPc = "gone"
  BY <1>3 DEF AskingAt
<1> DEFINE r == p + n
<1>6. /\ Reading(serverPc, serverBuf', serverLen, toServer', m, r, q) /\ r \in Nat
      /\ Len(toServer') <= Len(toServer)
  <2> HIDE DEF m
  <2> QED
    BY <1>1, <1>4, <1>5, ReadOn
<1> HIDE DEF r
<1>7. AskingAt(len, r, q)'
  <2>1. Message("request", call', len) = m
    BY DEF clientVars
  <2> HIDE DEF m
  <2> QED
    BY <1>5, <1>6, <2>1 DEF AskingAt, clientVars, Silent
<1>8. InOrder'
  <2>1. Asking'
    BY <1>6, <1>7 DEF Asking
  <2>2. ServerOpen'
    BY DEF ServerOpen
  <2> QED
    BY <2>1, <2>2 DEF InOrder
<1>9. TypeOK'
  <2>1. /\ serverPc = "length" => Len(serverBuf') <= 2
        /\ serverPc = "body" => Len(serverBuf') <= serverLen
    <3> HIDE DEF m
    <3> QED
      BY <1>4, <1>5, <1>6, BufferFits
  <2>2. Len(toServer') <= Capacity
    <3>1. Len(toServer) \in Int /\ Len(toServer') \in Int
      <4> HIDE DEF m
      <4>1. p <= q /\ r <= q /\ toServer = Piece(m, p, q) /\ toServer' = Piece(m, r, q)
        BY <1>5, <1>6 DEF Reading
      <4>2. Len(toServer) = q - p /\ Len(toServer') = q - r
        BY <1>6, <4>1, PieceIsSeq
      <4> QED
        BY <1>6, <4>2
    <3> QED
      BY <1>6, <3>1, FramingAssumption DEF IInv, TypeOK
  <2> QED
    BY <2>1, <2>2 DEF IInv, TypeOK, clientVars
<1>10. RefusedOnlyHighBit'
  BY DEF IInv, RefusedOnlyHighBit
<1> QED
  BY <1>8, <1>9, <1>10 DEF IInv

\* A length that is refused is the one that was sent, and low in it has its
\* high bit set.
LEMMA ServerLengthStep ==
    ASSUME LengthsFit, IInv, ServerLength
    PROVE  IInv'
<1> USE DEF ServerLength, AllBytes
<1>1. PICK high \in Values(serverBuf[1]), low \in Values(serverBuf[2]) :
        /\ serverLen' = Base * high + low
        /\ serverPc' = IF Refuses(high, low) THEN "refused" ELSE "body"
  OBVIOUS
<1>2. PICK len \in RequestLength, p \in Nat, q \in Nat : AskingAt(len, p, q)
  <2>1. serverBuf # <<>>
    <3>1. Len(serverBuf) = 2
      OBVIOUS
    <3>2. Len(<<>>) = 0
      BY NothingMissing
    <3> QED
      BY ONLY <3>1, <3>2
  <2> QED
    BY <2>1, ServerReads DEF Asking
<1> DEFINE m == Message("request", call, len)
<1>3. m.len = len /\ m.len \in Nat /\ m.len \in Nat \ {0} /\ m.len < Base * Base
  BY MessageFields
<1>4. /\ Reading(serverPc, serverBuf, serverLen, toServer, m, p, q)
      /\ handled # call /\ call > 0 /\ q <= len + 2
      /\ \/ /\ clientPc = "write" /\ toClient = <<>>
            /\ q # len + 2 /\ clientOut = Piece(m, q, len + 2)
         \/ Silent /\ q = len + 2
         \/ clientPc = "gone"
  BY <1>2 DEF AskingAt
<1>5. /\ high \in Nat /\ low \in Nat /\ low = m.len % Base
      /\ Base * high + low = m.len
      /\ Reading("body", <<>>, m.len, toServer, m, p, q)
  <2>1. Reading("length", serverBuf, serverLen, toServer, m, p, q) /\ Len(serverBuf) = 2
    BY <1>4
  <2> HIDE DEF m
  <2> QED
    BY <1>3, <2>1, LengthRead
<1>6. serverLen' = len
  BY <1>1, <1>3, <1>5
<1>7. CASE serverPc' = "refused"
  <2>1. Refuses(high, low)
    BY <1>1, <1>7
  <2>2. ~(high = 0 /\ low = 0)
    <3>1. Base * 0 + 0 = 0
      BY FramingAssumption
    <3> QED
      BY <1>3, <1>5, <3>1
  <2>3. len % Base >= Base \div 2
    BY <1>3, <1>5, <2>1, <2>2 DEF Refuses
  <2>4. RefusedOnlyHighBit'
    BY <1>6, <2>3 DEF RefusedOnlyHighBit
  <2>5. TypeOK'
    BY <1>7 DEF IInv, TypeOK, clientVars
  <2>6. InOrder'
    BY <1>4, <1>7 DEF InOrder, ServerOpen, Silent, clientVars
  <2> QED
    BY <2>4, <2>5, <2>6 DEF IInv
<1>8. CASE serverPc' = "body"
  <2>1. AskingAt(len, p, q)'
    <3>1. Message("request", call', len) = m
      BY DEF clientVars
    <3>2. Reading(serverPc', serverBuf', serverLen', toServer', m, p, q)
      BY <1>3, <1>5, <1>6, <1>8
    <3> HIDE DEF m
    <3> QED
      BY <1>4, <3>1, <3>2 DEF AskingAt, clientVars, Silent
  <2>2. InOrder'
    BY <1>8, <2>1 DEF InOrder, Asking, ServerOpen
  <2>3. TypeOK'
    <3>1. Len(serverBuf') = 0 /\ 0 <= serverLen'
      BY <1>3, <1>6, NothingMissing
    <3> QED
      BY <1>8, <3>1 DEF IInv, TypeOK, clientVars
  <2>4. RefusedOnlyHighBit'
    BY <1>8 DEF RefusedOnlyHighBit
  <2> QED
    BY <2>2, <2>3, <2>4 DEF IInv
<1> QED
  BY <1>1, <1>7, <1>8

\* The server handles the request that was sent, which it had not handled, or
\* ends.
LEMMA ServerUnpackStep ==
    ASSUME LengthsFit, IInv, ServerUnpack
    PROVE  IInv' /\ handled # call /\ handled' \in {handled, call}
<1> USE DEF ServerUnpack, AllBytes
<1>1. PICK len \in RequestLength, p \in Nat, q \in Nat : AskingAt(len, p, q)
  BY ServerReads DEF Asking
<1> DEFINE m == Message("request", call, len)
<1>2. m.len = len /\ m.len \in Nat \ {0} /\ m.call = call
  BY MessageFields
<1>3. /\ Reading(serverPc, serverBuf, serverLen, toServer, m, p, q)
      /\ handled # call /\ call > 0 /\ q <= len + 2
      /\ \/ /\ clientPc = "write" /\ toClient = <<>>
            /\ q # len + 2 /\ clientOut = Piece(m, q, len + 2)
         \/ Silent /\ q = len + 2
         \/ clientPc = "gone"
  BY <1>1 DEF AskingAt
<1>4. Unpack(serverBuf) = {m.call} /\ q = m.len + 2 /\ toServer = <<>>
  <2>1. Reading("body", serverBuf, serverLen, toServer, m, p, q) /\ q <= m.len + 2
    BY <1>2, <1>3
  <2>2. Len(serverBuf) = serverLen /\ m.len \in Nat \ {0} /\ p \in Nat /\ q \in Nat
    BY <1>2
  <2> HIDE DEF m, ServerUnpack
  <2> QED
    BY ONLY <2>1, <2>2, BodyRead
<1>5. call # Null
  BY <1>3 DEF Null
<1>6. \/ serverPc' = "invoke" /\ handled' = call
      \/ serverPc' = "crashed" /\ handled' = handled
  <2>1. PICK c \in Unpack(serverBuf) \cup {Null} :
          /\ serverPc' = IF c = Null THEN "crashed" ELSE "invoke"
          /\ handled' = IF c = Null THEN handled ELSE c
    BY <1>4
  <2> QED
    BY <1>2, <1>4, <1>5, <2>1
<1>7. Silent \/ clientPc = "gone"
  BY <1>2, <1>3, <1>4
<1>8. InOrder'
  <2>1. CASE serverPc' = "invoke" /\ handled' = call
    <3>1. Served'
      BY <1>3, <1>4, <1>7, <2>1 DEF Served, Silent, clientVars
    <3> QED
      BY <2>1, <3>1 DEF InOrder, ServerOpen
  <2>2. CASE serverPc' = "crashed"
    BY <1>7, <2>2 DEF InOrder, ServerOpen, Silent, clientVars
  <2> QED
    BY <1>6, <2>1, <2>2
<1>9. TypeOK'
  BY <1>3, <1>6 DEF IInv, TypeOK, clientVars
<1>10. RefusedOnlyHighBit'
  BY <1>6 DEF RefusedOnlyHighBit
<1> QED
  BY <1>3, <1>6, <1>8, <1>9, <1>10 DEF IInv

LEMMA SendStep ==
    ASSUME LengthsFit, IInv, network_send
    PROVE  IInv'
<1> USE DEF network_send
<1>1. Served /\ handled = call /\ toServer = <<>> /\ serverBuf = <<>>
  BY ServerWrites DEF Served
<1>2. PICK len \in ResponseLength :
        serverOut' = Frame(Message("response", handled, len))
  OBVIOUS
<1> DEFINE m == Message("response", call, len)
<1>3. m.len = len /\ len \in Nat /\ m.len \in Nat /\ 0 # len + 2 /\ 0 <= len + 2
  BY MessageFields
<1>4. /\ serverPc' = "write" /\ ServerOpen' /\ clientPc' = clientPc
      /\ handled' = call' /\ toServer' = <<>> /\ serverBuf' = <<>>
  BY <1>1 DEF ServerOpen, clientVars
<1>5. ASSUME call > 0, Silent PROVE Served'
  <2>1. AnsweringAt(len, 0, 0)'
    <3>1. Reading("length", <<>>, clientLen, <<>>, m, 0, 0)
      BY <1>3, NothingRead
    <3>2. serverOut' = Piece(m, 0, len + 2)
      BY <1>1, <1>2, <1>3, FrameIsPiece
    <3>3. Message("response", call', len) = m
      BY DEF clientVars
    <3>4. Reading(clientPc', clientBuf', clientLen', toClient', m, 0, 0)
      BY <1>5, <3>1 DEF Silent, clientVars
    <3> HIDE DEF m
    <3> QED
      BY <1>1, <1>3, <1>4, <1>5, <3>2, <3>3, <3>4 DEF AnsweringAt, clientVars
  <2>2. Answering'
    <3>1. 0 \in Nat
      OBVIOUS
    <3> QED
      BY <2>1, <3>1 DEF Answering
  <2> QED
    BY ONLY <1>4, <2>2 DEF Served
<1>6. ASSUME clientPc = "gone" PROVE Served'
  BY ONLY <1>4, <1>6 DEF Served
<1>7. Served'
  <2>1. (call > 0 /\ Silent) \/ clientPc = "gone"
    BY <1>1 DEF Served
  <2> QED
    BY <1>5, <1>6, <2>1
<1>8. InOrder'
  BY <1>4, <1>7 DEF InOrder
<1>9. TypeOK'
  BY DEF IInv, TypeOK, clientVars
<1>10. RefusedOnlyHighBit'
  BY <1>4 DEF RefusedOnlyHighBit
<1> QED
  BY <1>8, <1>9, <1>10 DEF IInv

LEMMA AnswerNotPackedStep ==
    ASSUME IInv, AnswerNotPacked
    PROVE  IInv'
<1> USE DEF AnswerNotPacked
<1>1. /\ handled = call /\ toServer = <<>> /\ serverBuf = <<>>
      /\ (call > 0 /\ Silent) \/ clientPc = "gone"
  BY ServerWrites DEF Served
<1>2. Served'
  BY <1>1 DEF Served, Silent, clientVars
<1>3. InOrder'
  BY <1>2 DEF InOrder, ServerOpen
<1>4. TypeOK'
  <2>1. Len(serverBuf') = 0
    BY <1>1, NothingMissing
  <2>2. /\ UNCHANGED <<clientPc, clientBuf, clientLen, call, returned>>
        /\ serverPc' = "length" /\ UNCHANGED <<handled, toServer, toClient>>
    BY DEF clientVars
  <2> HIDE DEF AnswerNotPacked
  <2> QED
    BY <2>1, <2>2 DEF IInv, TypeOK
<1>5. RefusedOnlyHighBit'
  BY DEF RefusedOnlyHighBit
<1> QED
  BY <1>3, <1>4, <1>5 DEF IInv

LEMMA ServerWriteStep ==
    ASSUME LengthsFit, IInv, ServerWrite
    PROVE  IInv'
<1> USE DEF ServerWrite
<1>1. Answering /\ handled = call /\ toServer = <<>> /\ serverBuf = <<>>
  BY ServerWrites DEF Served, ClientOpen
<1>2. PICK len \in ResponseLength, p \in Nat, q \in Nat : AnsweringAt(len, p, q)
  BY <1>1 DEF Answering
<1> DEFINE m == Message("response", call, len)
<1>3. m.len = len /\ len \in Nat /\ m.len \in Nat
  BY MessageFields
<1>4. /\ Reading(clientPc, clientBuf, clientLen, toClient, m, p, q)
      /\ call > 0 /\ q <= len + 2 /\ serverOut = Piece(m, q, len + 2)
  BY <1>2 DEF AnsweringAt, ServerOpen
<1>5. PICK n \in 1 .. Len(serverOut) :
        /\ n <= Capacity - Len(toClient)
        /\ toClient' = toClient \o Taken(serverOut, n)
        /\ serverOut' = Left(serverOut, n)
  BY DEF write_all, Taken, Left
<1> DEFINE r == q + n
           end == len + 2
<1>6. /\ Reading(clientPc, clientBuf, clientLen, toClient', m, p, r)
      /\ serverOut' = Piece(m, r, end)
      /\ r \in Nat /\ r <= end
      /\ AllBytes(Len(serverOut) - Len(serverOut'), Len(serverOut)) <=> r = end
      /\ Len(toClient') <= Capacity
  <2>1. end \in Nat /\ q <= end /\ serverOut = Piece(m, q, end)
    BY <1>3, <1>4
  <2> HIDE DEF end, m
  <2>2. /\ Reading(clientPc, clientBuf, clientLen, toClient \o Taken(serverOut, n),
                   m, p, q + n)
        /\ Left(serverOut, n) = Piece(m, q + n, end)
        /\ q + n \in Nat /\ q + n <= end
        /\ AllBytes(Len(serverOut) - Len(Left(serverOut, n)), Len(serverOut))
           <=> q + n = end
        /\ Len(toClient \o Taken(serverOut, n)) <= Capacity
    BY ZenonT(60), <1>4, <1>5, <2>1, WriteOn
  <2> QED
    BY <1>5, <2>2
<1> HIDE DEF r
<1>7. \/ serverPc' = "length" /\ r = end
      \/ serverPc' = "write" /\ r # end
  BY <1>6
<1>8. AnsweringAt(len, p, r)'
  <2>1. Message("response", call', len) = m
    BY DEF clientVars
  <2> HIDE DEF m
  <2> QED
    BY <1>1, <1>3, <1>4, <1>6, <1>7, <2>1 DEF AnsweringAt, clientVars
<1>9. InOrder'
  <2>1. Answering'
    BY <1>6, <1>8 DEF Answering
  <2> QED
    BY <1>1, <1>7, <2>1 DEF InOrder, Served, ServerOpen, clientVars
<1>10. TypeOK'
  <2>1. Len(serverBuf') = 0
    BY <1>1, NothingMissing
  <2> QED
    BY <1>6, <1>7, <2>1 DEF IInv, TypeOK, clientVars
<1>11. RefusedOnlyHighBit'
  BY <1>7 DEF RefusedOnlyHighBit
<1> QED
  BY <1>9, <1>10, <1>11 DEF IInv

LEMMA ServerWriteFailsStep ==
    ASSUME IInv, ServerWriteFails
    PROVE  IInv'
<1> USE DEF ServerWriteFails
<1>1. /\ handled = call /\ toServer = <<>> /\ serverBuf = <<>>
      /\ clientPc = "gone"
  BY ServerWrites DEF Served, ClientOpen
<1>2. Served'
  BY <1>1 DEF Served, clientVars
<1>3. InOrder'
  BY <1>1, <1>2 DEF InOrder, clientVars
<1>4. TypeOK'
  <2>1. Len(serverBuf') = 0
    BY <1>1, NothingMissing
  <2> QED
    BY <2>1 DEF IInv, TypeOK, clientVars
<1>5. RefusedOnlyHighBit'
  BY DEF RefusedOnlyHighBit
<1> QED
  BY <1>3, <1>4, <1>5 DEF IInv

LEMMA ServerEndsStep ==
    ASSUME IInv, ServerEnds
    PROVE  IInv'
<1> USE DEF ServerEnds, Ended
<1>1. clientPc' = "gone" /\ ~ServerOpen'
  BY DEF ServerOpen, ClientOpen, clientVars
<1>2. InOrder'
  BY <1>1 DEF InOrder
<1>3. TypeOK'
  BY DEF IInv, TypeOK, clientVars
<1>4. RefusedOnlyHighBit'
  BY DEF RefusedOnlyHighBit
<1> QED
  BY <1>2, <1>3, <1>4 DEF IInv

\* A reset leaves the client with the part of the answer that it has read.
LEMMA ServerClosesStep ==
    ASSUME LengthsFit, IInv, ServerCloses
    PROVE  IInv'
<1> USE DEF ServerCloses
<1>1. ~ServerOpen'
  BY DEF ServerOpen
<1>2. Silent => Silent'
  BY DEF Silent, clientVars
<1>3. Answering => Answering'
  <2> SUFFICES ASSUME Answering PROVE Answering'
    OBVIOUS
  <2>1. PICK len \in ResponseLength, p \in Nat, q \in Nat : AnsweringAt(len, p, q)
    BY DEF Answering
  <2> DEFINE m == Message("response", call, len)
  <2>2. /\ Reading(clientPc, clientBuf, clientLen, toClient, m, p, q)
        /\ handled = call /\ call > 0 /\ q <= len + 2
    BY <2>1 DEF AnsweringAt
  <2>3. Message("response", call', len) = m
    BY DEF clientVars
  <2>4. CASE toClient' = toClient
    <3>1. AnsweringAt(len, p, q)'
      <4> HIDE DEF m
      <4> QED
        BY <1>1, <2>2, <2>3, <2>4 DEF AnsweringAt, clientVars
    <3> QED
      BY <3>1 DEF Answering
  <2>5. CASE toClient' = <<>>
    <3>1. Reading(clientPc, clientBuf, clientLen, <<>>, m, p, p) /\ p <= q
      <4> HIDE DEF m
      <4>1. Piece(m, p, p) = <<>>
        BY NoPiece
      <4> QED
        BY <2>2, <4>1 DEF Reading
    <3>2. len \in Nat
      BY FramingAssumption
    <3>3. p <= len + 2
      BY <2>2, <3>1, <3>2
    <3>4. AnsweringAt(len, p, p)'
      <4> HIDE DEF m
      <4> QED
        BY <1>1, <2>2, <2>3, <2>5, <3>1, <3>3 DEF AnsweringAt, clientVars
    <3> QED
      BY <3>4 DEF Answering
  <2> QED
    BY <2>4, <2>5
<1>4. InOrder'
  <2>1. clientPc \in {"length", "body"} => Silent \/ Answering
    BY ClientReads
  <2> QED
    BY <1>1, <1>2, <1>3, <2>1 DEF InOrder, clientVars
<1>5. TypeOK'
  <2>1. Len(toClient') <= Capacity
    BY NothingMissing, FramingAssumption DEF IInv, TypeOK
  <2> QED
    BY <2>1 DEF IInv, TypeOK, clientVars
<1>6. RefusedOnlyHighBit'
  BY DEF RefusedOnlyHighBit
<1> QED
  BY <1>4, <1>5, <1>6 DEF IInv

LEMMA Initially ==
    ASSUME Init
    PROVE  IInv
<1> USE DEF Init
<1>1. Served
  BY DEF Served
<1>2. InOrder
  BY <1>1 DEF InOrder
<1>3. TypeOK
  BY NothingMissing, FramingAssumption DEF TypeOK
<1>4. RefusedOnlyHighBit
  BY DEF RefusedOnlyHighBit
<1> QED
  BY <1>2, <1>3, <1>4 DEF IInv

LEMMA StepKeeps ==
    ASSUME LengthsFit, IInv, [Next]_vars
    PROVE  unread' \/ IInv'
<1>1. CASE UNCHANGED vars
  <2> USE <1>1 DEF vars, clientVars, serverVars
  <2>1. Asking' <=> Asking
    BY DEF Asking, AskingAt, Silent
  <2>2. Answering' <=> Answering
    BY DEF Answering, AnsweringAt, ServerOpen
  <2>3. InOrder'
    BY <2>1, <2>2 DEF IInv, InOrder, Served, Silent, ServerOpen
  <2>4. TypeOK' /\ RefusedOnlyHighBit'
    BY DEF IInv, TypeOK, RefusedOnlyHighBit
  <2> QED
    BY <2>3, <2>4 DEF IInv
<1>2. CASE AnswerNotRead
  BY <1>2 DEF AnswerNotRead
<1> QED
  BY <1>1, <1>2, CallStep, RequestNotPackedStep, ClientWriteStep, ClientReadStep, ClientLengthStep,
     ClientUnpackStep, ClientFailsStep, CloseStep, ServerReadStep,
     ServerLengthStep, ServerUnpackStep, SendStep, AnswerNotPackedStep, ServerWriteStep,
     ServerWriteFailsStep, ServerEndsStep, ServerClosesStep
  DEF Next, ClientStep, ServerStep

LEMMA Invariance ==
    ASSUME LengthsFit
    PROVE  Spec => [](unread \/ IInv)
<1>1. Init => IInv
  BY Initially
<1>2. (unread \/ IInv) /\ [Next]_vars => (unread \/ IInv)'
  <2>1. ASSUME unread, [Next]_vars PROVE unread'
    BY <2>1 DEF Next, ClientStep, ServerStep, network_send_receive, RequestNotPacked,
       ClientWrite, ClientRead, ClientLength, AnswerNotRead, ClientUnpack, ClientFails,
       network_close, ServerRead, ServerLength, ServerUnpack, network_send,
       AnswerNotPacked, ServerWrite, ServerWriteFails, ServerEnds, ServerCloses,
       vars, clientVars
  <2> QED
    BY <2>1, StepKeeps
<1> QED
  BY <1>1, <1>2, PTL DEF Spec

LEMMA NothingLeft ==
    ASSUME BodiesRead
    PROVE  Spec => []~unread
<1>1. Init => ~unread
  BY DEF Init
<1>2. ~unread /\ [Next]_vars => ~unread'
  BY DEF BodiesRead, Next, ClientStep, ServerStep, network_send_receive, RequestNotPacked,
     ClientWrite, ClientRead, ClientLength, AnswerNotRead, ClientUnpack, ClientFails,
     network_close, ServerRead, ServerLength, ServerUnpack, network_send,
     AnswerNotPacked, ServerWrite, ServerWriteFails, ServerEnds, ServerCloses,
     vars, clientVars
<1> QED
  BY <1>1, <1>2, PTL DEF Spec

-----------------------------------------------------------------------------

\* The buffers of read_all hold no more than it was asked for and the
\* connection no more than its capacity, for messages of any length that two
\* bytes can hold and pieces of any size, when no body of an answer is left
\* unread.
THEOREM TypeCorrect ==
    ASSUME LengthsFit, BodiesRead
    PROVE  Spec => []TypeOK
<1>1. IInv => TypeOK
  BY DEF IInv
<1> QED
  BY <1>1, Invariance, NothingLeft, PTL

\* The server refuses no message but one whose length has a low byte with its
\* high bit set: it never takes other bytes for a length.
THEOREM RefusesOnlyHighBit ==
    ASSUME LengthsFit, BodiesRead
    PROVE  Spec => []RefusedOnlyHighBit
<1>1. IInv => RefusedOnlyHighBit
  BY DEF IInv
<1> QED
  BY <1>1, Invariance, NothingLeft, PTL

-----------------------------------------------------------------------------
(* The refinement of Rpc.                                                  *)

LEMMA InitRefines ==
    ASSUME Init
    PROVE  R!Init
BY DEF Init, R!Init

LEMMA StepRefines ==
    ASSUME LengthsFit, IInv, [Next]_vars
    PROVE  [R!Next]_R!vars
<1> DEFINE waiting == clientPc \in {"write", "length", "body"}
<1>1. CASE network_send_receive
  <2>1. ~waiting /\ waiting' = TRUE /\ call' = call + 1 /\ returned' = 0 /\ handled' = handled
    BY <1>1 DEF network_send_receive, serverVars, Null
  <2> QED
    BY <2>1 DEF R!Next, R!Send
<1>2. CASE ServerUnpack
  <2>1. /\ handled # call /\ handled' \in {handled, call}
        /\ UNCHANGED <<call, clientPc, returned>>
    BY <1>2, ServerUnpackStep DEF ServerUnpack, clientVars
  <2> QED
    BY <2>1 DEF R!Next, R!Handle, R!vars
<1>3. CASE ClientUnpack
  <2>1. /\ waiting /\ handled = call /\ waiting' = FALSE
        /\ returned' = call /\ UNCHANGED <<call, handled>>
    BY <1>3, ClientUnpackStep DEF ClientUnpack, serverVars
  <2> QED
    BY <2>1 DEF R!Next, R!Return
<1>4. CASE ClientFails
  <2>1. /\ waiting /\ waiting' = FALSE /\ UNCHANGED <<call, handled, returned>>
    BY <1>4 DEF ClientFails, serverVars
  <2> QED
    BY <2>1 DEF R!Next, R!Fail
<1>5. CASE network_close
  <2>1. waiting' = FALSE /\ UNCHANGED <<call, handled, returned>>
    BY <1>5 DEF network_close, serverVars
  <2>2. CASE waiting
    BY <2>1, <2>2 DEF R!Next, R!Fail
  <2>3. CASE ~waiting
    <3>1. waiting' = waiting
      BY <2>1, <2>3
    <3> QED
      BY <2>1, <3>1 DEF R!vars
  <2> QED
    BY <2>2, <2>3
<1>6. CASE ClientWrite \/ ClientRead \/ ClientLength
  <2>1. waiting /\ waiting' /\ UNCHANGED <<call, handled, returned>>
    BY <1>6 DEF ClientWrite, ClientRead, ClientLength, serverVars
  <2>2. waiting' = waiting
    BY <2>1
  <2> QED
    BY <2>1, <2>2 DEF R!vars
<1>7. CASE \/ ServerRead \/ ServerLength \/ network_send \/ AnswerNotPacked
           \/ ServerWrite \/ ServerWriteFails \/ ServerEnds \/ ServerCloses \/ UNCHANGED vars
  <2>1. UNCHANGED <<call, clientPc, handled, returned>>
    BY <1>7 DEF ServerRead, ServerLength, network_send, AnswerNotPacked,
                ServerWrite, ServerWriteFails, ServerEnds, ServerCloses, vars, clientVars,
                serverVars
  <2> QED
    BY <2>1 DEF R!vars
<1>8. CASE RequestNotPacked
  <2>1. ~waiting /\ returned' = 0 /\ UNCHANGED <<call, clientPc, handled>>
    BY <1>8 DEF RequestNotPacked, serverVars, Null
  <2> QED
    BY <2>1 DEF R!Next, R!Refuse
<1>9. CASE AnswerNotRead
  <2>1. /\ clientPc = "length" /\ clientPc' = "idle"
        /\ UNCHANGED <<call, handled, returned>>
    BY <1>9, Zenon DEF AnswerNotRead, serverVars
  <2>2. waiting /\ waiting' = FALSE
    BY <2>1
  <2> QED
    BY <2>1, <2>2 DEF R!Next, R!Fail
<1> QED
  BY <1>1, <1>2, <1>3, <1>4, <1>5, <1>6, <1>7, <1>8, <1>9
  DEF Next, ClientStep, ServerStep

\* Whatever the sizes of the pieces, whenever one side stops and whatever there
\* is no memory for, the server handles a request at most once, whole and as it
\* was sent, and network_send_receive returns the answer to its own request or
\* NULL, for the lengths that two bytes can hold and up to the first body of an
\* answer that is left in the stream (network_client.c:116).
THEOREM Refinement ==
    ASSUME LengthsFit
    PROVE  Spec => ImplementsRpcUntilUnread
<1>1. Init => R!Init
  BY InitRefines
<1>2. (unread \/ IInv) /\ [Next]_vars => [R!Next \/ unread]_(R!vars)
  BY StepRefines
<1> QED
  BY <1>1, <1>2, Invariance, PTL DEF Spec, ImplementsRpcUntilUnread

\* A client that always has memory for the body of an answer,
\* gets what network_client.h promises from every call.
THEOREM RefinementWithMemory ==
    ASSUME LengthsFit, BodiesRead
    PROVE  Spec => ImplementsRpc
<1>1. Init => R!Init
  BY InitRefines
<1>2. ~unread /\ (unread \/ IInv) /\ [Next]_vars => [R!Next]_(R!vars)
  BY StepRefines
<1> QED
  BY <1>1, <1>2, Invariance, NothingLeft, PTL DEF Spec, ImplementsRpc, R!Spec
=============================================================================
