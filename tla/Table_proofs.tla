---------------------------- MODULE Table_proofs ----------------------------
(***************************************************************************)
(* Theorems about Table for every set of keys and values, every number of  *)
(* lists, and lists of any length, whichever allocations fail.             *)
(***************************************************************************)
EXTENDS Table, FiniteSetTheorems, SequenceTheorems, WellFoundedInduction, TLAPS

\* A set of natural numbers that is not empty has a least element.
LEMMA LeastExists ==
    ASSUME NEW S, S \subseteq Nat, S # {}
    PROVE  \E m \in S : \A n \in S : m <= n
<1> DEFINE R == OpToRel(<, Nat)
<1>1. IsWellFoundedOn(R, Nat)
  BY NatLessThanWellFounded, Zenon
<1> HIDE DEF R
<1>2. PICK m \in S : \A n \in S : ~ (<<n, m>> \in R)
  BY <1>1, WFMin
<1>3. ASSUME NEW n \in S PROVE m <= n
  <2>1. ~ (<<n, m>> \in R)
    BY <1>2
  <2>2. n \in Nat /\ m \in Nat
    OBVIOUS
  <2>3. n < m => <<n, m>> \in R
    BY <2>2 DEF R, OpToRel
  <2> QED
    BY <2>1, <2>2, <2>3
<1> QED
  BY <1>3

Entry == [key : Key, value : Value]

InOrder(s) == \A p, q \in DOMAIN s : p < q => Less(s[p].key, s[q].key)

GoodList(list) ==
    /\ list \in [head : Seq(Entry), size : Nat]
    /\ list.size = Len(list.head)
    /\ InOrder(list.head)

IInv ==
    /\ lists \in [Index -> [head : Seq(Entry), size : Nat]]
    /\ running \in BOOLEAN
    /\ \A i \in Index : GoodList(lists[i])

-----------------------------------------------------------------------------
(* strcmp is a strict total order of the keys.                             *)

\* Less, of keys as functions with their lengths.
Below(a, m, b, n) ==
    \E i \in 1..n :
        /\ i <= m + 1
        /\ \A j \in 1..(i - 1) : a[j] = b[j]
        /\ i <= m => a[i] < b[i]

LEMMA BelowTransitive ==
    ASSUME NEW m \in Nat, NEW n \in Nat, NEW p \in Nat,
           NEW a \in [1..m -> Int], NEW b \in [1..n -> Int], NEW c \in [1..p -> Int],
           Below(a, m, b, n), Below(b, n, c, p)
    PROVE  Below(a, m, c, p)
<1>1. PICK i \in 1..n : /\ i <= m + 1
                        /\ \A k \in 1..(i - 1) : a[k] = b[k]
                        /\ i <= m => a[i] < b[i]
  BY DEF Below
<1>2. PICK j \in 1..p : /\ j <= n + 1
                        /\ \A k \in 1..(j - 1) : b[k] = c[k]
                        /\ j <= n => b[j] < c[j]
  BY DEF Below
<1>3. CASE i < j
  <2>1. i \in 1..p /\ b[i] = c[i] /\ \A k \in 1..(i - 1) : a[k] = c[k]
    BY <1>1, <1>2, <1>3
  <2> QED
    BY <1>1, <2>1 DEF Below
<1>4. CASE i = j
  <2>1. \A k \in 1..(i - 1) : a[k] = c[k]
    BY <1>1, <1>2, <1>4
  <2>2. i <= m => a[i] < c[i]
    BY <1>1, <1>2, <1>4
  <2> QED
    BY <1>1, <1>2, <1>4, <2>1, <2>2 DEF Below
<1>5. CASE j < i
  <2>1. j <= m /\ j <= n /\ a[j] = b[j] /\ \A k \in 1..(j - 1) : a[k] = c[k]
    BY <1>1, <1>2, <1>5
  <2>2. j <= m + 1 /\ (j <= m => a[j] < c[j])
    BY <1>2, <2>1
  <2> QED
    BY <2>1, <2>2 DEF Below
<1> QED
  BY <1>3, <1>4, <1>5

LEMMA BelowTotal ==
    ASSUME NEW m \in Nat, NEW n \in Nat,
           NEW a \in [1..m -> Int], NEW b \in [1..n -> Int],
           ~Below(a, m, b, n), ~Below(b, n, a, m)
    PROVE  m = n /\ a = b
<1> DEFINE Differ == {i \in Nat \ {0} : /\ i <= m + 1 /\ i <= n + 1
                                        /\ (i > m \/ i > n \/ a[i] # b[i])}
<1>1. Differ # {} /\ Differ \subseteq Nat
  <2>1. CASE m <= n
    BY <2>1, m + 1 \in Differ
  <2>2. CASE n <= m
    BY <2>2, n + 1 \in Differ
  <2> QED
    BY <2>1, <2>2
<1>2. PICK i \in Differ : \A k \in Differ : i <= k
  <2> HIDE DEF Differ
  <2> QED
    BY <1>1, LeastExists
<1>3. \A k \in 1..(i - 1) : a[k] = b[k]
  BY <1>2
<1>4. i > m /\ i > n
  <2>1. CASE i <= m /\ i <= n
    <3>1. a[i] \in Int /\ b[i] \in Int /\ a[i] # b[i] /\ i \in 1..m /\ i \in 1..n
      BY <2>1
    <3>2. a[i] < b[i] \/ b[i] < a[i]
      BY <3>1
    <3> HIDE DEF Differ
    <3> QED
      BY <1>3, <2>1, <3>1, <3>2 DEF Below
  <2>2. CASE i > m /\ i <= n
    BY <1>3, <2>2 DEF Below
  <2>3. CASE i > n /\ i <= m
    BY <1>3, <2>3 DEF Below
  <2> QED
    BY <2>1, <2>2, <2>3
<1>5. m = n /\ i = m + 1
  BY <1>4
<1> QED
  BY <1>3, <1>5

LEMMA KeyIsFunction ==
    ASSUME NEW k \in Key
    PROVE  Len(k) \in Nat /\ k \in [1..Len(k) -> Int]
<1>1. Len(k) \in Nat /\ k \in [1..Len(k) -> 1..255]
  BY TableAssumption, LenProperties
<1>2. \A b \in 1..255 : b \in Int
  OBVIOUS
<1> QED
  BY <1>1, <1>2, Zenon

LEMMA LessTransitive ==
    ASSUME NEW a \in Key, NEW b \in Key, NEW c \in Key, Less(a, b), Less(b, c)
    PROVE  Less(a, c)
<1>1. Below(a, Len(a), b, Len(b)) /\ Below(b, Len(b), c, Len(c))
  BY DEF Less, Below
<1>2. Below(a, Len(a), c, Len(c))
  BY <1>1, KeyIsFunction, BelowTransitive
<1> QED
  BY <1>2 DEF Less, Below

LEMMA LessTotal ==
    ASSUME NEW a \in Key, NEW b \in Key, a # b, ~Less(a, b)
    PROVE  Less(b, a)
<1>1. ~Below(a, Len(a), b, Len(b))
  BY DEF Less, Below
<1>2. Below(b, Len(b), a, Len(a))
  BY <1>1, KeyIsFunction, BelowTotal
<1> QED
  BY <1>2 DEF Less, Below

-----------------------------------------------------------------------------
(* What the operations of a list make of a sorted one.                      *)

\* t is s with e at a place.
Inserted(t, s, at, e) ==
    /\ t \in Seq(Entry) /\ Len(t) = Len(s) + 1
    /\ \A p \in 1..(Len(s) + 1) :
         t[p] = IF p < at THEN s[p] ELSE IF p = at THEN e ELSE s[p - 1]

\* Cutting a list in two and putting an entry in between inserts it.
LEMMA InsertAtPlaces ==
    ASSUME NEW s \in Seq(Entry), NEW e \in Entry, NEW at \in 1..(Len(s) + 1)
    PROVE  Inserted(InsertAt(s, at, e), s, at, e)
<1> DEFINE left == SubSeq(s, 1, at - 1)
           right == SubSeq(s, at, Len(s))
<1>0. Len(s) \in Nat /\ \A p \in 1..Len(s) : s[p] \in Entry
  BY LenProperties, ElementOfSeq
<1>1. /\ left \in Seq(Entry) /\ Len(left) = at - 1
      /\ \A p \in 1..(at - 1) : left[p] = s[p]
  <2>1. at - 1 \in Int /\ \A p \in 1..(at - 1) : s[p] \in Entry
    BY <1>0
  <2>2. /\ left \in Seq(Entry) /\ Len(left) = (IF 1 <= at - 1 THEN at - 1 - 1 + 1 ELSE 0)
        /\ \A p \in 1..(at - 1 - 1 + 1) : left[p] = s[1 + p - 1]
    BY <2>1, SubSeqProperties
  <2> HIDE DEF left
  <2>3. at \in Int /\ at >= 1
    BY <1>0
  <2>4. Len(left) = at - 1
    BY <2>2, <2>3
  <2>5. \A p \in 1..(at - 1) : left[p] = s[p]
    <3> TAKE p \in 1..(at - 1)
    <3>1. p \in 1..(at - 1 - 1 + 1) /\ 1 + p - 1 = p
      BY <2>3
    <3> QED
      BY <2>2, <3>1
  <2> QED
    BY <2>2, <2>4, <2>5
<1>2. /\ right \in Seq(Entry) /\ Len(right) = Len(s) - at + 1
      /\ \A p \in 1..(Len(s) - at + 1) : right[p] = s[at + p - 1]
  <2>1. at \in Int /\ Len(s) \in Int /\ \A p \in at..Len(s) : s[p] \in Entry
    BY <1>0
  <2>2. /\ right \in Seq(Entry)
        /\ Len(right) = (IF at <= Len(s) THEN Len(s) - at + 1 ELSE 0)
        /\ \A p \in 1..(Len(s) - at + 1) : right[p] = s[at + p - 1]
    BY <2>1, SubSeqProperties
  <2> HIDE DEF right
  <2> QED
    BY <1>0, <2>2
<1> DEFINE middle == <<e>>
<1>3. middle \in Seq(Entry) /\ Len(middle) = 1 /\ middle[1] = e
  OBVIOUS
<1> HIDE DEF left, right, middle
<1>4. /\ left \o middle \in Seq(Entry) /\ Len(left \o middle) = at
      /\ \A p \in 1..at : (left \o middle)[p] = IF p < at THEN s[p] ELSE e
  <2>1. /\ left \o middle \in Seq(Entry) /\ Len(left \o middle) = Len(left) + Len(middle)
        /\ \A p \in 1..(Len(left) + Len(middle)) : (left \o middle)[p] =
             IF p <= Len(left) THEN left[p] ELSE middle[p - Len(left)]
    BY <1>1, <1>3, ConcatProperties
  <2> QED
    BY <1>0, <1>1, <1>3, <2>1
<1> DEFINE before == left \o middle
           whole == before \o right
<1>5. /\ before \in Seq(Entry) /\ Len(before) = at
      /\ \A p \in 1..at : before[p] = IF p < at THEN s[p] ELSE e
  BY <1>4
<1> HIDE DEF before
<1>6. /\ whole \in Seq(Entry) /\ Len(whole) = Len(s) + 1
      /\ \A p \in 1..(Len(s) + 1) :
            whole[p] = IF p <= at THEN before[p] ELSE right[p - at]
  <2>1. /\ whole \in Seq(Entry) /\ Len(whole) = Len(before) + Len(right)
        /\ \A p \in 1..(Len(before) + Len(right)) :
              whole[p] = IF p <= Len(before) THEN before[p] ELSE right[p - Len(before)]
    BY <1>2, <1>5, ConcatProperties
  <2> QED
    BY <1>0, <1>2, <1>5, <2>1
<1> HIDE DEF whole
<1>7. \A p \in 1..(Len(s) + 1) : whole[p] =
            IF p < at THEN s[p] ELSE IF p = at THEN e ELSE s[p - 1]
  <2> TAKE p \in 1..(Len(s) + 1)
  <2>1. CASE p <= at
    BY <1>0, <1>5, <1>6, <2>1
  <2>2. CASE p > at
    <3>1. p - at \in 1..(Len(s) - at + 1) /\ at + (p - at) - 1 = p - 1
      BY <1>0, <2>2
    <3>2. right[p - at] = s[p - 1]
      BY <1>2, <3>1
    <3>3. whole[p] = right[p - at] /\ ~(p < at) /\ p # at
      BY <1>0, <1>6, <2>2
    <3> QED
      BY <3>2, <3>3
  <2> QED
    BY <1>0, <2>1, <2>2
<1>8. InsertAt(s, at, e) = whole
  BY DEF InsertAt, whole, before, left, middle, right
<1> QED
  BY <1>6, <1>7, <1>8 DEF Inserted

LEMMA InsertInOrder ==
    ASSUME NEW s \in Seq(Entry), InOrder(s), NEW e \in Entry,
           NEW at \in 1..(Len(s) + 1),
           \A p \in 1..Len(s) : IF p < at THEN Less(s[p].key, e.key)
                                          ELSE Less(e.key, s[p].key)
    PROVE  InOrder(InsertAt(s, at, e))
<1> DEFINE t == InsertAt(s, at, e)
<1>1. /\ t \in Seq(Entry) /\ Len(t) = Len(s) + 1
      /\ \A p \in 1..(Len(s) + 1) : t[p] =
            IF p < at THEN s[p] ELSE IF p = at THEN e ELSE s[p - 1]
  <2>1. Inserted(t, s, at, e)
    BY InsertAtPlaces
  <2> QED
    BY Zenon, <2>1 DEF Inserted
<1> HIDE DEF t
<1>2. Len(s) \in Nat /\ DOMAIN t = 1..(Len(s) + 1) /\ DOMAIN s = 1..Len(s)
  BY <1>1, LenProperties
<1>3. ASSUME NEW p \in 1..(Len(s) + 1), NEW q \in 1..(Len(s) + 1), p < q
      PROVE  Less(t[p].key, t[q].key)
  <2>1. CASE q < at
    <3>1. p \in DOMAIN s /\ q \in DOMAIN s /\ t[p] = s[p] /\ t[q] = s[q]
      BY <1>1, <1>2, <1>3, <2>1
    <3> QED
      BY <1>3, <3>1 DEF InOrder
  <2>2. CASE q = at
    <3>1. p \in 1..Len(s) /\ p < at /\ t[p] = s[p] /\ t[q] = e
      BY <1>1, <1>2, <1>3, <2>2
    <3> QED
      BY <3>1
  <2>3. CASE q > at /\ p < at
    <3>1. p \in DOMAIN s /\ q - 1 \in DOMAIN s /\ p < q - 1 /\ t[p] = s[p] /\ t[q] = s[q - 1]
      BY <1>1, <1>2, <1>3, <2>3
    <3> QED
      BY <3>1 DEF InOrder
  <2>4. CASE q > at /\ p = at
    <3>1. q - 1 \in 1..Len(s) /\ ~ (q - 1 < at) /\ t[p] = e /\ t[q] = s[q - 1]
      BY <1>1, <1>2, <1>3, <2>4
    <3> QED
      BY <3>1
  <2>5. CASE q > at /\ p > at
    <3>1. /\ p - 1 \in DOMAIN s /\ q - 1 \in DOMAIN s /\ p - 1 < q - 1
          /\ t[p] = s[p - 1] /\ t[q] = s[q - 1]
      BY <1>1, <1>2, <1>3, <2>5
    <3> QED
      BY <3>1 DEF InOrder
  <2> QED
    BY <1>2, <2>1, <2>2, <2>3, <2>4, <2>5
<1>4. InOrder(t)
  BY <1>2, <1>3 DEF InOrder
<1> QED
  BY <1>4 DEF t

LEMMA RemoveAtPlaces ==
    ASSUME NEW s \in Seq(Entry), NEW at \in 1..Len(s)
    PROVE  /\ RemoveAt(s, at) \in Seq(Entry)
           /\ Len(RemoveAt(s, at)) = Len(s) - 1
           /\ \A p \in 1..(Len(s) - 1) :
                RemoveAt(s, at)[p] = IF p < at THEN s[p] ELSE s[p + 1]
<1> DEFINE left == SubSeq(s, 1, at - 1)
           right == SubSeq(s, at + 1, Len(s))
           whole == left \o right
<1>0. Len(s) \in Nat /\ \A p \in 1..Len(s) : s[p] \in Entry
  BY LenProperties, ElementOfSeq
<1>1. /\ left \in Seq(Entry) /\ Len(left) = at - 1
      /\ \A p \in 1..(at - 1) : left[p] = s[p]
  <2>1. at - 1 \in Int /\ \A p \in 1..(at - 1) : s[p] \in Entry
    BY <1>0
  <2>2. /\ left \in Seq(Entry) /\ Len(left) = (IF 1 <= at - 1 THEN at - 1 - 1 + 1 ELSE 0)
        /\ \A p \in 1..(at - 1 - 1 + 1) : left[p] = s[1 + p - 1]
    BY <2>1, SubSeqProperties
  <2> HIDE DEF left
  <2>3. at \in Int /\ at >= 1
    BY <1>0
  <2>4. Len(left) = at - 1
    BY <2>2, <2>3
  <2>5. \A p \in 1..(at - 1) : left[p] = s[p]
    <3> TAKE p \in 1..(at - 1)
    <3>1. p \in 1..(at - 1 - 1 + 1) /\ 1 + p - 1 = p
      BY <2>3
    <3> QED
      BY <2>2, <3>1
  <2> QED
    BY <2>2, <2>4, <2>5
<1>2. /\ right \in Seq(Entry) /\ Len(right) = Len(s) - at
      /\ \A p \in 1..(Len(s) - at) : right[p] = s[at + p]
  <2>1. at + 1 \in Int /\ Len(s) \in Int /\ \A p \in (at + 1)..Len(s) : s[p] \in Entry
    BY <1>0
  <2>2. /\ right \in Seq(Entry)
        /\ Len(right) = (IF at + 1 <= Len(s) THEN Len(s) - (at + 1) + 1 ELSE 0)
        /\ \A p \in 1..(Len(s) - (at + 1) + 1) : right[p] = s[at + 1 + p - 1]
    BY <2>1, SubSeqProperties
  <2> HIDE DEF right
  <2>3. Len(right) = Len(s) - at
    BY <1>0, <2>2
  <2>4. \A p \in 1..(Len(s) - at) : right[p] = s[at + p]
    <3> TAKE p \in 1..(Len(s) - at)
    <3>1. p \in 1..(Len(s) - (at + 1) + 1) /\ at + 1 + p - 1 = at + p
      BY <1>0
    <3> QED
      BY <2>2, <3>1
  <2> QED
    BY <2>2, <2>3, <2>4
<1> HIDE DEF left, right
<1>3. /\ whole \in Seq(Entry) /\ Len(whole) = Len(left) + Len(right)
      /\ \A p \in 1..(Len(left) + Len(right)) :
            whole[p] = IF p <= Len(left) THEN left[p] ELSE right[p - Len(left)]
  BY <1>1, <1>2, ConcatProperties
<1> HIDE DEF whole
<1>4. Len(whole) = Len(s) - 1
  BY <1>0, <1>1, <1>2, <1>3
<1>5. \A p \in 1..(Len(s) - 1) : whole[p] = IF p < at THEN s[p] ELSE s[p + 1]
  <2> TAKE p \in 1..(Len(s) - 1)
  <2>1. whole[p] = IF p <= at - 1 THEN left[p] ELSE right[p - (at - 1)]
    BY <1>0, <1>1, <1>2, <1>3
  <2>2. CASE p < at
    BY <1>0, <1>1, <2>1, <2>2
  <2>3. CASE ~ (p < at)
    <3>1. p - (at - 1) \in 1..(Len(s) - at) /\ at + (p - (at - 1)) = p + 1 /\ ~ (p <= at - 1)
      BY <1>0, <2>3
    <3> QED
      BY <1>2, <2>1, <2>3, <3>1
  <2> QED
    BY <2>2, <2>3
<1>6. RemoveAt(s, at) = whole
  BY DEF RemoveAt, whole, left, right
<1> QED
  BY <1>3, <1>4, <1>5, <1>6

LEMMA RemoveInOrder ==
    ASSUME NEW s \in Seq(Entry), InOrder(s), NEW at \in 1..Len(s)
    PROVE  InOrder(RemoveAt(s, at))
<1> DEFINE t == RemoveAt(s, at)
           Old(p) == IF p < at THEN p ELSE p + 1
<1>1. /\ t \in Seq(Entry) /\ Len(t) = Len(s) - 1
      /\ \A p \in 1..(Len(s) - 1) : t[p] = IF p < at THEN s[p] ELSE s[p + 1]
  BY RemoveAtPlaces
<1> HIDE DEF t
<1>2. Len(s) \in Nat /\ DOMAIN t = 1..(Len(s) - 1) /\ DOMAIN s = 1..Len(s)
  BY <1>1, LenProperties
<1>3. ASSUME NEW p \in 1..(Len(s) - 1), NEW q \in 1..(Len(s) - 1), p < q
      PROVE  Less(t[p].key, t[q].key)
  <2>1. t[p] = s[Old(p)] /\ t[q] = s[Old(q)]
    BY <1>1
  <2>2. Old(p) \in DOMAIN s /\ Old(q) \in DOMAIN s /\ Old(p) < Old(q)
    BY <1>2, <1>3
  <2> QED
    BY <2>1, <2>2 DEF InOrder
<1>4. InOrder(t)
  BY <1>2, <1>3 DEF InOrder
<1> QED
  BY <1>4 DEF t

\* list_add replaces the value of a key that is in the list, and puts a new
\* one before the first key that is larger.
LEMMA AddIsGood ==
    ASSUME NEW list, GoodList(list), NEW e \in Entry
    PROVE  GoodList(list_add(list, e))
<1> DEFINE s == list.head
           stop == {i \in DOMAIN s : ~Less(s[i].key, e.key)}
           at == CHOOSE i \in stop : \A j \in stop : i <= j
<1>0. /\ s \in Seq(Entry) /\ Len(s) \in Nat /\ DOMAIN s = 1..Len(s) /\ InOrder(s)
      /\ list.size = Len(s) /\ list = [head |-> s, size |-> Len(s)]
  BY LenProperties DEF GoodList
<1>1. \A i \in DOMAIN s : s[i] \in Entry /\ s[i].key \in Key
  <2> TAKE i \in DOMAIN s
  <2>1. s[i] \in Entry
    BY <1>0, ElementOfSeq, Zenon
  <2> QED
    BY <2>1 DEF Entry
<1>2. e.key \in Key
  BY DEF Entry
<1>3. CASE list.size = 0
  <2>1. list_add(list, e) = [head |-> <<e>>, size |-> 1]
    BY <1>3 DEF list_add
  <2>2. <<e>> \in Seq(Entry) /\ Len(<<e>>) = 1 /\ InOrder(<<e>>)
    BY DEF InOrder
  <2> QED
    BY <2>1, <2>2 DEF GoodList
<1>4. CASE list.size # 0 /\ stop = {}
  <2> DEFINE t == Append(s, e)
  <2>1. list_add(list, e) = [head |-> t, size |-> list.size + 1]
    BY <1>4 DEF list_add
  <2>2. /\ t \in Seq(Entry) /\ Len(t) = Len(s) + 1
        /\ \A i \in 1..Len(s) : t[i] = s[i]
        /\ t[Len(s) + 1] = e
    BY <1>0, AppendProperties
  <2> HIDE DEF t
  <2>3. DOMAIN t = 1..(Len(s) + 1)
    BY <2>2, LenProperties
  <2>4. InOrder(t)
    <3> SUFFICES ASSUME NEW p \in 1..(Len(s) + 1), NEW q \in 1..(Len(s) + 1), p < q
                 PROVE  Less(t[p].key, t[q].key)
      BY <2>3 DEF InOrder
    <3>1. p \in 1..Len(s) /\ t[p] = s[p]
      BY <1>0, <2>2
    <3>2. CASE q = Len(s) + 1
      BY <1>0, <1>4, <2>2, <3>1, <3>2
    <3>3. CASE q \in 1..Len(s)
      BY <1>0, <2>2, <3>1, <3>3 DEF InOrder
    <3> QED
      BY <1>0, <3>2, <3>3
  <2> QED
    BY <1>0, <2>1, <2>2, <2>4 DEF GoodList
<1>5. CASE list.size # 0 /\ stop # {}
  <2>1. at \in stop /\ \A j \in stop : at <= j
    <3>1. stop \subseteq Nat
      BY <1>0
    <3> HIDE DEF stop
    <3>2. \E i \in stop : \A j \in stop : i <= j
      BY <1>5, <3>1, LeastExists
    <3> QED
      BY <3>2
  <2>2. /\ list_add(list, e) = IF s[at].key = e.key
                                THEN [list EXCEPT !.head[at] = e]
                                ELSE [head |-> InsertAt(s, at, e), size |-> list.size + 1]
    BY <1>5 DEF list_add
  <2> HIDE DEF at
  <2>3. at \in 1..Len(s) /\ ~Less(s[at].key, e.key)
    BY <1>0, <2>1
  <2>4. \A p \in 1..Len(s) : p < at => Less(s[p].key, e.key)
    BY <1>0, <2>1
  <2>5. CASE s[at].key = e.key
    <3> DEFINE t == [s EXCEPT ![at] = e]
    <3>1. list_add(list, e) = [head |-> t, size |-> Len(s)]
      BY <1>0, <2>2, <2>5
    <3>2. t \in Seq(Entry) /\ Len(t) = Len(s)
      BY <1>0, <2>3, ExceptSeq
    <3>3. \A p \in DOMAIN s : t[p].key = s[p].key
      BY <1>0, <2>3, <2>5
    <3>4. DOMAIN t = DOMAIN s
      OBVIOUS
    <3>5. InOrder(t)
      BY <1>0, <3>3, <3>4 DEF InOrder
    <3> QED
      BY <1>0, <3>1, <3>2, <3>5 DEF GoodList
  <2>6. CASE s[at].key # e.key
    <3> DEFINE t == InsertAt(s, at, e)
    <3>1. list_add(list, e) = [head |-> t, size |-> Len(s) + 1]
      BY <1>0, <2>2, <2>6
    <3>2. Less(e.key, s[at].key)
      BY <1>0, <1>1, <1>2, <2>3, <2>6, LessTotal
    <3>3. ASSUME NEW p \in 1..Len(s), ~ (p < at)
          PROVE  Less(e.key, s[p].key)
      <4>1. CASE p = at
        BY <3>2, <4>1
      <4>2. CASE p > at
        <5>1. Less(s[at].key, s[p].key)
          BY <1>0, <2>3, <4>2 DEF InOrder
        <5> QED
          BY <1>0, <1>1, <1>2, <2>3, <3>2, <5>1, LessTransitive
      <4> QED
        BY <1>0, <2>3, <3>3, <4>1, <4>2
    <3>4. at \in 1..(Len(s) + 1)
      BY <1>0, <2>3
    <3>5. t \in Seq(Entry) /\ Len(t) = Len(s) + 1 /\ InOrder(t)
      BY <1>0, <2>4, <3>3, <3>4, InsertAtPlaces, InsertInOrder DEF Inserted
    <3> QED
      BY <1>0, <3>1, <3>5 DEF GoodList
  <2> QED
    BY <2>5, <2>6
<1> QED
  BY <1>3, <1>4, <1>5

LEMMA RemoveIsGood ==
    ASSUME NEW list, GoodList(list), NEW k, Holds(list, k)
    PROVE  GoodList(list_remove(list, k))
<1> DEFINE at == Place(list, k)
<1>1. /\ list.head \in Seq(Entry) /\ Len(list.head) \in Nat
      /\ DOMAIN list.head = 1..Len(list.head) /\ InOrder(list.head)
  BY LenProperties DEF GoodList
<1>2. at \in 1..Len(list.head)
  BY <1>1 DEF Holds, Place
<1> HIDE DEF at
<1>3. list_remove(list, k) = [head |-> RemoveAt(list.head, at), size |-> list.size - 1]
  BY DEF list_remove, at
<1>4. /\ RemoveAt(list.head, at) \in Seq(Entry)
      /\ Len(RemoveAt(list.head, at)) = Len(list.head) - 1
      /\ InOrder(RemoveAt(list.head, at))
  BY <1>1, <1>2, RemoveAtPlaces, RemoveInOrder
<1>5. list.size - 1 \in Nat /\ list.size = Len(list.head)
  BY <1>1, <1>2 DEF GoodList
<1> QED
  BY <1>3, <1>4, <1>5 DEF GoodList

-----------------------------------------------------------------------------
(* The invariant, and the theorems.                                         *)

LEMMA InitInv == Init => IInv
<1> SUFFICES ASSUME Init PROVE IInv
  OBVIOUS
<1>1. GoodList(Empty)
  BY DEF GoodList, Empty, InOrder
<1> QED
  BY <1>1 DEF Init, IInv, GoodList, Empty

LEMMA StepInv == IInv /\ [Next]_vars => IInv'
<1> SUFFICES ASSUME IInv, [Next]_vars PROVE IInv'
  OBVIOUS
<1>1. CASE lists' = lists /\ running' \in BOOLEAN
  BY <1>1 DEF IInv
<1>2. ASSUME NEW i \in Index, NEW list, GoodList(list),
             lists' = [lists EXCEPT ![i] = list], running' = running
      PROVE  IInv'
  BY <1>2 DEF IInv, GoodList
<1>3. ASSUME NEW k \in Key, NEW v \in Value \cup {Null}, table_put(k, v)
      PROVE  IInv'
  <2>1. CASE lists' = lists
    BY <1>1, <1>3, <2>1 DEF table_put, PutFails, OutOfBounds, Returns, IInv
  <2>2. CASE /\ v # Null /\ hash_code(k, N) \in Index /\ running' = running
             /\ lists' = [lists EXCEPT ![hash_code(k, N)] = list_add(@, [key |-> k, value |-> v])]
    <3>1. [key |-> k, value |-> v] \in Entry
      BY <2>2 DEF Entry
    <3>2. GoodList(lists[hash_code(k, N)])
      BY <2>2 DEF IInv
    <3>3. GoodList(list_add(lists[hash_code(k, N)], [key |-> k, value |-> v]))
      BY <3>1, <3>2, AddIsGood
    <3> QED
      BY <1>2, <2>2, <3>3
  <2> QED
    BY <1>3, <2>1, <2>2 DEF table_put, PutFails, OutOfBounds, Returns, IsData
<1>4. ASSUME NEW k \in Key, table_get(k) PROVE IInv'
  BY <1>1, <1>4 DEF table_get, OutOfBounds, Returns, IInv
<1>5. ASSUME NEW k \in Key, table_remove(k) PROVE IInv'
  <2>1. CASE lists' = lists
    BY <1>1, <1>5, <2>1 DEF table_remove, OutOfBounds, Returns, IInv
  <2>2. CASE /\ hash_code(k, N) \in Index /\ Holds(lists[hash_code(k, N)], k)
             /\ lists' = [lists EXCEPT ![hash_code(k, N)] = list_remove(@, k)]
             /\ running' = running
    <3>1. GoodList(list_remove(lists[hash_code(k, N)], k))
      BY <2>2, RemoveIsGood DEF IInv
    <3> QED
      BY <1>2, <2>2, <3>1
  <2> QED
    BY <1>5, <2>1, <2>2 DEF table_remove, OutOfBounds, Returns
<1>6. CASE table_size
  <2>1. lists' = lists /\ running' = running
    BY <1>6, Zenon DEF table_size, Returns
  <2> QED
    BY <1>1, <2>1 DEF IInv
<1>7. CASE table_get_keys
  BY <1>1, <1>7 DEF table_get_keys, Returns, IInv
<1>8. CASE UNCHANGED vars
  BY <1>1, <1>8 DEF vars, IInv
<1> QED
  BY <1>3, <1>4, <1>5, <1>6, <1>7, <1>8 DEF Next

LEMMA Invariance == Spec => []IInv
BY InitInv, StepInv, PTL DEF Spec

\* Every list stays sorted with no key twice, whatever the keys, the number
\* of lists and the calls.
THEOREM ListsStaySorted == Spec => []SortedLists
<1>1. IInv => SortedLists
  BY DEF IInv, GoodList, InOrder, SortedLists
<1> QED
  BY Invariance, <1>1, PTL

\* The count beside a list stays its length.
THEOREM SizesStayExact == Spec => []SizesExact
<1>1. IInv => SizesExact
  BY DEF IInv, GoodList, SizesExact
<1> QED
  BY Invariance, <1>1, PTL

-----------------------------------------------------------------------------
(* What is in a list.                                                       *)

Has(list, k, v) == \E p \in DOMAIN list.head : list.head[p] = [key |-> k, value |-> v]

LEMMA GoodHead ==
    ASSUME NEW list, GoodList(list)
    PROVE  /\ list.head \in Seq(Entry) /\ Len(list.head) \in Nat
           /\ DOMAIN list.head = 1..Len(list.head)
           /\ list.size = Len(list.head)
           /\ \A p \in 1..Len(list.head) :
                /\ list.head[p] \in Entry
                /\ list.head[p].key \in Key /\ list.head[p].value \in Value
                /\ list.head[p] = [key |-> list.head[p].key, value |-> list.head[p].value]
<1>1. list.head \in Seq(Entry) /\ list.size = Len(list.head)
  BY DEF GoodList
<1>2. Len(list.head) \in Nat /\ DOMAIN list.head = 1..Len(list.head)
  BY <1>1, LenProperties
<1>3. \A p \in 1..Len(list.head) : list.head[p] \in Entry
  BY <1>1, ElementOfSeq, Zenon
<1> QED
  BY <1>1, <1>2, <1>3 DEF Entry

LEMMA LessIrreflexive ==
    ASSUME NEW a \in Key PROVE ~Less(a, a)
<1>1. Len(a) \in Nat /\ a \in [1..Len(a) -> Int]
  BY KeyIsFunction
<1> QED
  BY <1>1 DEF Less

LEMMA KeysApart ==
    ASSUME NEW list, GoodList(list), NEW p \in DOMAIN list.head, NEW q \in DOMAIN list.head,
           list.head[p].key = list.head[q].key
    PROVE  p = q
<1>1. ~(p < q) /\ ~(q < p)
  BY GoodHead, LessIrreflexive DEF GoodList, InOrder
<1> QED
  BY <1>1, GoodHead

LEMMA OneValue ==
    ASSUME NEW list, GoodList(list), NEW k, NEW v, NEW w, Has(list, k, v), Has(list, k, w)
    PROVE  v = w
<1>1. PICK p \in DOMAIN list.head : list.head[p] = [key |-> k, value |-> v]
  BY DEF Has
<1>2. PICK q \in DOMAIN list.head : list.head[q] = [key |-> k, value |-> w]
  BY DEF Has
<1>3. p = q
  BY <1>1, <1>2, KeysApart
<1> QED
  BY <1>1, <1>2, <1>3

LEMMA HasTypes ==
    ASSUME NEW list, GoodList(list), NEW k, NEW v, Has(list, k, v)
    PROVE  k \in Key /\ v \in Value /\ Holds(list, k)
<1>1. PICK p \in DOMAIN list.head : list.head[p] = [key |-> k, value |-> v]
  BY DEF Has
<1> QED
  BY <1>1, GoodHead DEF Holds

LEMMA HeldHas ==
    ASSUME NEW list, GoodList(list), NEW k, Holds(list, k)
    PROVE  /\ Place(list, k) \in DOMAIN list.head
           /\ list.head[Place(list, k)].key = k
           /\ Has(list, k, list.head[Place(list, k)].value)
<1>1. Place(list, k) \in DOMAIN list.head /\ list.head[Place(list, k)].key = k
  BY DEF Holds, Place
<1> QED
  BY <1>1, GoodHead DEF Has

\* list_add replaces the entry of its key, or makes room for one more.
LEMMA AddCases ==
    ASSUME NEW list, GoodList(list), NEW e \in Entry
    PROVE  \/ \E at \in DOMAIN list.head :
                /\ list.head[at].key = e.key
                /\ list_add(list, e).head = [list.head EXCEPT ![at] = e]
           \/ /\ ~Holds(list, e.key)
              /\ \E at \in 1..(Len(list.head) + 1) :
                   /\ DOMAIN list_add(list, e).head = 1..(Len(list.head) + 1)
                   /\ \A p \in 1..(Len(list.head) + 1) : list_add(list, e).head[p] =
                        IF p < at THEN list.head[p]
                        ELSE IF p = at THEN e ELSE list.head[p - 1]
<1> DEFINE s == list.head
           stop == {i \in DOMAIN s : ~Less(s[i].key, e.key)}
           at == CHOOSE i \in stop : \A j \in stop : i <= j
<1>0. /\ s \in Seq(Entry) /\ Len(s) \in Nat /\ DOMAIN s = 1..Len(s) /\ InOrder(s)
      /\ list.size = Len(s) /\ list = [head |-> s, size |-> Len(s)]
      /\ \A i \in DOMAIN s : s[i].key \in Key
      /\ e.key \in Key
  BY GoodHead DEF GoodList, Entry
<1>1. CASE list.size = 0
  <2>1. list_add(list, e).head = <<e>>
    BY <1>1 DEF list_add
  <2>2. ~Holds(list, e.key)
    BY <1>0, <1>1 DEF Holds
  <2> QED
    BY <1>0, <1>1, <2>1, <2>2
<1>2. CASE list.size # 0 /\ stop = {}
  <2>1. list_add(list, e).head = Append(s, e)
    BY <1>2 DEF list_add
  <2>2. /\ Append(s, e) \in Seq(Entry) /\ Len(Append(s, e)) = Len(s) + 1
        /\ \A i \in 1..Len(s) : Append(s, e)[i] = s[i]
        /\ Append(s, e)[Len(s) + 1] = e
    BY <1>0, AppendProperties
  <2>3. DOMAIN Append(s, e) = 1..(Len(s) + 1)
    BY <2>2, LenProperties
  <2>4. ~Holds(list, e.key)
    BY <1>0, <1>2, LessIrreflexive DEF Holds
  <2>5. \A p \in 1..(Len(s) + 1) : Append(s, e)[p] =
          IF p < Len(s) + 1 THEN s[p] ELSE IF p = Len(s) + 1 THEN e ELSE s[p - 1]
    BY <1>0, <2>2
  <2>6. Len(s) + 1 \in 1..(Len(s) + 1)
    BY <1>0
  <2> QED
    BY <2>1, <2>3, <2>4, <2>5, <2>6
<1>3. CASE list.size # 0 /\ stop # {}
  <2>1. at \in stop /\ \A j \in stop : at <= j
    <3>1. stop \subseteq Nat
      BY <1>0
    <3> HIDE DEF stop
    <3>2. \E i \in stop : \A j \in stop : i <= j
      BY <1>3, <3>1, LeastExists
    <3> QED
      BY <3>2
  <2>2. /\ list_add(list, e) = IF s[at].key = e.key
                                THEN [list EXCEPT !.head[at] = e]
                                ELSE [head |-> InsertAt(s, at, e), size |-> list.size + 1]
    BY <1>3 DEF list_add
  <2> HIDE DEF at
  <2>3. at \in 1..Len(s) /\ ~Less(s[at].key, e.key)
    BY <1>0, <2>1
  <2>4. \A p \in 1..Len(s) : p < at => Less(s[p].key, e.key)
    BY <1>0, <2>1
  <2>5. CASE s[at].key = e.key
    <3>1. list_add(list, e) = [head |-> [s EXCEPT ![at] = e], size |-> Len(s)]
      BY <1>0, <2>2, <2>5
    <3>2. list_add(list, e).head = [s EXCEPT ![at] = e]
      BY <3>1
    <3>3. at \in DOMAIN list.head /\ list.head[at].key = e.key
      BY <1>0, <2>3, <2>5
    <3> QED
      BY <3>2, <3>3
  <2>6. CASE s[at].key # e.key
    <3>1. list_add(list, e).head = InsertAt(s, at, e)
      BY <1>0, <2>2, <2>6
    <3>2. Less(e.key, s[at].key)
      BY <1>0, <2>3, <2>6, LessTotal
    <3>3. ASSUME NEW p \in 1..Len(s), s[p].key = e.key PROVE FALSE
      <4>1. ~(p < at) /\ p # at
        BY <1>0, <2>4, <2>6, <3>3, LessIrreflexive
      <4>2. Less(s[at].key, s[p].key)
        BY <1>0, <2>3, <4>1 DEF InOrder
      <4> QED
        BY <2>3, <3>3, <4>2
    <3>4. ~Holds(list, e.key)
      BY <1>0, <3>3 DEF Holds
    <3>5. at \in 1..(Len(s) + 1)
      BY <1>0, <2>3
    <3>6. /\ InsertAt(s, at, e) \in Seq(Entry)
          /\ Len(InsertAt(s, at, e)) = Len(s) + 1
          /\ \A p \in 1..(Len(s) + 1) : InsertAt(s, at, e)[p] =
                IF p < at THEN s[p] ELSE IF p = at THEN e ELSE s[p - 1]
      <4>1. Inserted(InsertAt(s, at, e), s, at, e)
        BY <1>0, <3>5, InsertAtPlaces
      <4> QED
        BY Zenon, <4>1 DEF Inserted
    <3>7. DOMAIN InsertAt(s, at, e) = 1..(Len(s) + 1)
      BY <3>6, LenProperties
    <3> QED
      BY <3>1, <3>4, <3>5, <3>6, <3>7
  <2> QED
    BY <2>5, <2>6
<1> QED
  BY <1>0, <1>1, <1>2, <1>3

\* list_add gives its key its value, and leaves every other key alone.
LEMMA AddHas ==
    ASSUME NEW list, GoodList(list), NEW e \in Entry, NEW k \in Key, NEW v \in Value
    PROVE  Has(list_add(list, e), k, v)
             <=> IF k = e.key THEN v = e.value ELSE Has(list, k, v)
<1> DEFINE s == list.head
           t == list_add(list, e).head
           kv == [key |-> k, value |-> v]
<1>0. /\ Len(s) \in Nat /\ DOMAIN s = 1..Len(s)
      /\ e = [key |-> e.key, value |-> e.value]
  BY GoodHead DEF Entry
<1>1. ASSUME NEW at \in DOMAIN s, s[at].key = e.key, t = [s EXCEPT ![at] = e]
      PROVE  Has(list_add(list, e), k, v)
               <=> IF k = e.key THEN v = e.value ELSE Has(list, k, v)
  <2>1. DOMAIN t = DOMAIN s /\ t[at] = e /\ \A p \in DOMAIN s \ {at} : t[p] = s[p]
    BY <1>1
  <2>2. \A p \in DOMAIN s \ {at} : s[p].key # e.key
    BY <1>1, KeysApart
  <2>3. CASE k = e.key
    BY <1>0, <2>1, <2>2, <2>3 DEF Has
  <2>4. CASE k # e.key
    <3>1. s[at] # kv /\ t[at] # kv
      BY <1>0, <1>1, <2>1, <2>4
    <3> QED
      BY <2>1, <2>4, <3>1 DEF Has
  <2> QED
    BY <2>3, <2>4
<1>2. ASSUME ~Holds(list, e.key), NEW at \in 1..(Len(s) + 1), DOMAIN t = 1..(Len(s) + 1),
             \A p \in 1..(Len(s) + 1) :
                t[p] = IF p < at THEN s[p] ELSE IF p = at THEN e ELSE s[p - 1]
      PROVE  Has(list_add(list, e), k, v)
               <=> IF k = e.key THEN v = e.value ELSE Has(list, k, v)
  <2> HIDE DEF t
  <2>1. \A p \in 1..Len(s) : s[p].key # e.key
    BY <1>0, <1>2 DEF Holds
  <2>2. t[at] = e /\ at \in DOMAIN t
    BY <1>0, <1>2
  <2>3. ASSUME NEW p \in DOMAIN t, p # at PROVE \E q \in DOMAIN s : t[p] = s[q]
    <3>1. CASE p < at
      BY <1>0, <1>2, <2>3, <3>1
    <3>2. CASE p > at
      <4>1. p - 1 \in DOMAIN s /\ t[p] = s[p - 1]
        BY <1>0, <1>2, <2>3, <3>2
      <4> QED
        BY <4>1
    <3> QED
      BY <1>0, <1>2, <2>3, <3>1, <3>2
  <2>4. ASSUME NEW q \in DOMAIN s PROVE \E p \in DOMAIN t : t[p] = s[q]
    <3>1. CASE q < at
      BY <1>0, <1>2, <2>4, <3>1
    <3>2. CASE q >= at
      <4>1. q + 1 \in DOMAIN t /\ t[q + 1] = s[q + 1 - 1] /\ q + 1 - 1 = q
        BY <1>0, <1>2, <2>4, <3>2
      <4> QED
        BY <4>1
    <3> QED
      BY <1>0, <1>2, <2>4, <3>1, <3>2
  <2>5. CASE k = e.key
    <3>1. (\E p \in DOMAIN t : t[p] = kv) <=> v = e.value
      BY <1>0, <2>1, <2>2, <2>3, <2>5
    <3> QED
      BY <2>5, <3>1 DEF Has, t
  <2>6. CASE k # e.key
    <3>1. (\E p \in DOMAIN t : t[p] = kv) <=> (\E q \in DOMAIN s : s[q] = kv)
      <4>1. ASSUME NEW p \in DOMAIN t, t[p] = kv PROVE \E q \in DOMAIN s : s[q] = kv
        <5>1. p # at
          BY <1>0, <2>2, <2>6, <4>1
        <5> QED
          BY Zenon, <2>3, <4>1, <5>1
      <4> QED
        BY Zenon, <2>4, <4>1
    <3> QED
      BY <2>6, <3>1 DEF Has, t
  <2> QED
    BY <2>5, <2>6
<1> QED
  BY <1>1, <1>2, AddCases

\* list_remove takes its key away, and leaves every other key alone.
LEMMA RemoveHas ==
    ASSUME NEW list, GoodList(list), NEW d, Holds(list, d), NEW k \in Key, NEW v \in Value
    PROVE  Has(list_remove(list, d), k, v) <=> k # d /\ Has(list, k, v)
<1> DEFINE s == list.head
           at == Place(list, d)
           t == RemoveAt(s, at)
           kv == [key |-> k, value |-> v]
<1>0. /\ s \in Seq(Entry) /\ Len(s) \in Nat /\ DOMAIN s = 1..Len(s)
      /\ at \in 1..Len(s) /\ s[at].key = d
  BY GoodHead, HeldHas
<1>1. list_remove(list, d).head = t
  BY DEF list_remove
<1> HIDE DEF at
<1>2. /\ t \in Seq(Entry) /\ Len(t) = Len(s) - 1
      /\ \A p \in 1..(Len(s) - 1) : t[p] = IF p < at THEN s[p] ELSE s[p + 1]
  BY <1>0, RemoveAtPlaces
<1> HIDE DEF t
<1>3. DOMAIN t = 1..(Len(s) - 1)
  BY <1>2, LenProperties
<1>4. \A p \in DOMAIN s : p # at => s[p].key # d
  BY <1>0, KeysApart
<1>5. ASSUME NEW p \in DOMAIN t PROVE \E q \in DOMAIN s : q # at /\ t[p] = s[q]
  <2>1. CASE p < at
    BY <1>0, <1>2, <1>3, <1>5, <2>1
  <2>2. CASE p >= at
    <3>1. p + 1 \in DOMAIN s /\ p + 1 # at /\ t[p] = s[p + 1]
      BY <1>0, <1>2, <1>3, <1>5, <2>2
    <3> QED
      BY <3>1
  <2> QED
    BY <1>0, <1>3, <1>5, <2>1, <2>2
<1>6. ASSUME NEW q \in DOMAIN s, q # at PROVE \E p \in DOMAIN t : t[p] = s[q]
  <2>1. CASE q < at
    BY <1>0, <1>2, <1>3, <1>6, <2>1
  <2>2. CASE q > at
    <3>1. q - 1 \in DOMAIN t /\ t[q - 1] = s[q - 1 + 1] /\ q - 1 + 1 = q
      BY <1>0, <1>2, <1>3, <1>6, <2>2
    <3> QED
      BY <3>1
  <2> QED
    BY <1>0, <1>6, <2>1, <2>2
<1>7. (\E p \in DOMAIN t : t[p] = kv) <=> k # d /\ (\E q \in DOMAIN s : s[q] = kv)
  BY <1>0, <1>4, <1>5, <1>6
<1> QED
  BY <1>1, <1>7 DEF Has

-----------------------------------------------------------------------------
(* The table implements Dictionary.                                         *)

TheValue(values) == IF values = {} THEN Null ELSE CHOOSE v \in values : TRUE
Dict == [k \in Key |-> TheValue(Stored(k))]
Present == {k \in Key : Dict[k] # Null}

\* Every entry is in the list that hash_code gives its key.
Placed == \A i \in Index, k \in Key, v \in Value :
            Has(lists[i], k, v) => i = hash_code(k, N)

\* k has the value v.
Maps(k, v) == hash_code(k, N) \in Index /\ Has(lists[hash_code(k, N)], k, v)

LEMMA StoredIs ==
    ASSUME IInv, Placed, NEW k \in Key
    PROVE  Stored(k) = {v \in Value : Maps(k, v)}
<1>1. Stored(k) = {v \in Value : \E i \in Index : Has(lists[i], k, v)}
  BY Zenon DEF Stored, Has
<1> QED
  BY <1>1 DEF Placed, Maps

LEMMA DictIs ==
    ASSUME IInv, Placed, NEW k \in Key
    PROVE  /\ \A v \in Value : Maps(k, v) <=> Dict[k] = v
           /\ Dict[k] \in Value \cup {Null}
           /\ (Dict[k] # Null) <=> hash_code(k, N) \in Index /\ Holds(lists[hash_code(k, N)], k)
<1>1. Dict[k] = IF Stored(k) = {} THEN Null ELSE CHOOSE v \in Stored(k) : TRUE
  BY DEF Dict, TheValue
<1>2. Stored(k) = {v \in Value : Maps(k, v)}
  BY StoredIs
<1>3. \A v, w \in Value : Maps(k, v) /\ Maps(k, w) => v = w
  BY OneValue DEF Maps, IInv
<1>4. (\E v \in Value : Maps(k, v)) <=>
        hash_code(k, N) \in Index /\ Holds(lists[hash_code(k, N)], k)
  BY HasTypes, HeldHas DEF Maps, IInv
<1>5. CASE Stored(k) = {}
  BY <1>1, <1>2, <1>4, <1>5, TableAssumption
<1>6. CASE Stored(k) # {}
  <2>1. Dict[k] \in Stored(k)
    BY <1>1, <1>6
  <2> QED
    BY <1>2, <1>3, <1>4, <2>1, TableAssumption
<1> QED
  BY <1>5, <1>6

LEMMA InitRefines == Init => Placed /\ D!Init
<1> SUFFICES ASSUME Init PROVE Placed /\ D!Init
  OBVIOUS
<1>1. \A i \in Index : lists[i] = Empty /\ \A k, v : ~Has(lists[i], k, v)
  BY DEF Init, Empty, Has
<1>2. \A k \in Key : Stored(k) = {}
  BY <1>1, Zenon DEF Stored, Has
<1>3. Dict = [k \in Key |-> Null]
  BY <1>2 DEF Dict, TheValue
<1>4. Described = [op |-> "create", ret |-> 0]
  BY DEF Init, Described
<1> QED
  BY <1>1, <1>3, <1>4, Zenon DEF Placed, D!Init, Dict, TheValue

-----------------------------------------------------------------------------
(* The operations of Dictionary.                                            *)

LEMMA IsPut ==
    ASSUME NEW k \in Key, NEW v \in Value, Dict' = [Dict EXCEPT ![k] = v],
           \/ result' = [op |-> "put", ret |-> 0]
           \/ result' = [op |-> "put", ret |-> 1]
    PROVE  D!Next
<1>0. Described' = [op |-> "put", ret |-> 0]
  BY DEF Described
<1>1. D!Put(k, v)
  BY <1>0, Zenon DEF D!Put, D!Returns, D!Present, Dict, Present, TheValue
<1> QED
  BY <1>1, Zenon DEF D!Next

LEMMA IsGet ==
    ASSUME NEW k \in Key, Dict' = Dict, result' = [op |-> "get", ret |-> Dict[k]]
    PROVE  D!Next
<1>0. Described' = [op |-> "get", ret |-> Dict[k]]
  BY DEF Described
<1>1. D!Get(k)
  BY <1>0, Zenon DEF D!Get, D!Returns, Dict, TheValue
<1> QED
  BY <1>1, Zenon DEF D!Next

LEMMA IsRemove ==
    ASSUME NEW k \in Key, Dict' = [Dict EXCEPT ![k] = Null],
           result' = [op |-> "remove", ret |-> IF k \in Present THEN 0 ELSE 1]
    PROVE  D!Next
<1>0. Described' = [op |-> "remove", ret |-> IF k \in Present THEN 0 ELSE 1]
  BY DEF Described
<1>1. D!Remove(k)
  BY <1>0, Zenon DEF D!Remove, D!Returns, D!Present, Dict, Present, TheValue
<1> QED
  BY <1>1, Zenon DEF D!Next

LEMMA IsFail ==
    ASSUME Dict' = Dict,
           \/ result' = [op |-> "put", ret |-> -1]
           \/ result' = [op |-> "get", ret |-> Null]
           \/ result' = [op |-> "get_keys", ret |-> Null]
    PROVE  D!Next
<1>0. \/ Described' = [op |-> "put", ret |-> -1]
      \/ Described' = [op |-> "get", ret |-> Null]
      \/ Described' = [op |-> "get_keys", ret |-> Null]
  BY DEF Described
<1>1. D!Fail
  BY <1>0, Zenon DEF D!Fail, D!Returns, Dict, TheValue
<1> QED
  BY <1>1, Zenon DEF D!Next

LEMMA IsSize ==
    ASSUME Dict' = Dict, result' = [op |-> "size", ret |-> Cardinality(Present)]
    PROVE  D!Next
<1>0. Described' = [op |-> "size", ret |-> Cardinality(Present)]
  BY DEF Described
<1>1. D!Size
  BY <1>0, Zenon DEF D!Size, D!Returns, D!Present, Dict, Present, TheValue,
      Cardinality, D!Cardinality
<1> QED
  BY <1>1, Zenon DEF D!Next

LEMMA IsGetKeys ==
    ASSUME Dict' = Dict, NEW keys \in [1..Cardinality(Present) -> Present],
           \A k \in Present : \E i \in DOMAIN keys : keys[i] = k,
           result' = [op |-> "get_keys", ret |-> keys]
    PROVE  D!Next
<1>0. Described' = [op |-> "get_keys", ret |-> keys]
  BY DEF Described
<1>1. D!GetKeys
  BY <1>0, Zenon DEF D!GetKeys, D!Returns, D!Present, Dict, Present, TheValue,
      Cardinality, D!Cardinality
<1> QED
  BY <1>1, Zenon DEF D!Next

-----------------------------------------------------------------------------
(* The calls for one key.                                                   *)

\* A call that changes one list, and in it one key.
LEMMA OneKeyChanges ==
    ASSUME IInv, Placed, NEW k \in Key, hash_code(k, N) \in Index, NEW new \in Value \cup {Null},
           NEW list, GoodList(list), lists' = [lists EXCEPT ![hash_code(k, N)] = list],
           \A l \in Key, v \in Value : Has(list, l, v)
              <=> IF l = k THEN v = new ELSE Has(lists[hash_code(k, N)], l, v)
    PROVE  Placed' /\ Dict' = [Dict EXCEPT ![k] = new]
<1> DEFINE h == hash_code(k, N)
<1>1. /\ lists'[h] = list /\ \A i \in Index \ {h} : lists'[i] = lists[i]
  BY DEF IInv
<1>2. \A i \in Index, l \in Key, v \in Value : Has(lists'[i], l, v) <=>
        IF l = k THEN i = h /\ v = new ELSE Has(lists[i], l, v)
  <2> SUFFICES ASSUME NEW i \in Index, NEW l \in Key, NEW v \in Value
               PROVE  Has(lists'[i], l, v) <=>
                         IF l = k THEN i = h /\ v = new ELSE Has(lists[i], l, v)
    OBVIOUS
  <2>1. CASE i = h
    BY <1>1, <2>1
  <2>2. CASE i # h
    BY <1>1, <2>2 DEF Placed
  <2> QED
    BY <2>1, <2>2
<1>3. Placed'
  <2>1. \A i \in Index, l \in Key, v \in Value :
            Has(lists'[i], l, v) => i = hash_code(l, N)
    BY <1>2 DEF Placed
  <2> QED
    BY <2>1 DEF Placed
<1>4. ASSUME NEW l \in Key
      PROVE  Stored(l)' = IF l = k THEN {new} \cap Value ELSE Stored(l)
  <2>1. Stored(l)' = {v \in Value : \E i \in Index : Has(lists'[i], l, v)}
    BY Zenon DEF Stored, Has
  <2>2. Stored(l) = {v \in Value : \E i \in Index : Has(lists[i], l, v)}
    BY Zenon DEF Stored, Has
  <2> QED
    BY <1>2, <2>1, <2>2
<1>5. \A l \in Key : Dict'[l] = IF l = k THEN new ELSE Dict[l]
  <2> SUFFICES ASSUME NEW l \in Key PROVE Dict'[l] = IF l = k THEN new ELSE Dict[l]
    OBVIOUS
  <2>1. /\ Dict'[l] = IF Stored(l)' = {} THEN Null ELSE CHOOSE v \in Stored(l)' : TRUE
        /\ Dict'[l] = TheValue(Stored(l)') /\ Dict[l] = TheValue(Stored(l))
    BY DEF Dict, TheValue
  <2>2. CASE l # k
    <3>1. Stored(l)' = Stored(l)
      BY <1>4, <2>2
    <3> QED
      BY <2>1, <2>2, <3>1
  <2>3. CASE l = k /\ new = Null
    <3>1. Stored(l)' = {}
      BY <1>4, <2>3, TableAssumption
    <3> QED
      BY <2>1, <2>3, <3>1
  <2>4. CASE l = k /\ new \in Value
    <3>1. Stored(l)' = {new}
      BY <1>4, <2>4
    <3> QED
      BY <2>1, <2>4, <3>1
  <2> QED
    BY <2>2, <2>3, <2>4
<1>6. Dict = [l \in Key |-> Dict[l]] /\ Dict' = [l \in Key |-> Dict'[l]]
  BY DEF Dict
<1> QED
  BY <1>3, <1>5, <1>6

LEMMA SameLists ==
    ASSUME Placed, lists' = lists PROVE Placed' /\ Dict' = Dict
<1>1. \A k : Stored(k)' = Stored(k)
  BY Zenon DEF Stored
<1>2. Dict' = Dict
  BY <1>1 DEF Dict
<1> QED
  BY <1>2 DEF Placed

Refines == Placed' /\ (D!Next \/ UNCHANGED <<Dict, result>>)

LEMMA PutRefines ==
    ASSUME IInv, Placed, NEW k \in Key, NEW v \in Value \cup {Null}, table_put(k, v)
    PROVE  Refines
<1>1. CASE PutFails(k, v)
  BY <1>1, SameLists, IsFail DEF PutFails, Returns, Refines
<1>2. CASE OutOfBounds("put", -1)
  BY <1>2, SameLists, IsFail DEF OutOfBounds, Returns, Refines
<1>3. CASE /\ v # Null /\ hash_code(k, N) \in Index
           /\ lists' = [lists EXCEPT ![hash_code(k, N)] = list_add(@, [key |-> k, value |-> v])]
           /\ Returns("put", IF Holds(lists[hash_code(k, N)], k) THEN 1 ELSE 0)
  <2> DEFINE list == list_add(lists[hash_code(k, N)], [key |-> k, value |-> v])
             e == [key |-> k, value |-> v]
  <2>1. e \in Entry /\ v \in Value /\ e.key = k /\ e.value = v
    BY <1>3 DEF Entry
  <2>2. GoodList(lists[hash_code(k, N)])
    BY <1>3 DEF IInv
  <2>3. GoodList(list)
    BY <2>1, <2>2, AddIsGood
  <2>4. \A l \in Key, w \in Value : Has(list, l, w)
              <=> IF l = k THEN w = v ELSE Has(lists[hash_code(k, N)], l, w)
    <3> HIDE DEF e
    <3> QED
      BY <2>1, <2>2, AddHas DEF e
  <2>5. lists' = [lists EXCEPT ![hash_code(k, N)] = list]
    BY <1>3
  <2> HIDE DEF list, e
  <2>6. Placed' /\ Dict' = [Dict EXCEPT ![k] = v]
    BY ZenonT(60), <1>3, <2>1, <2>3, <2>4, <2>5, OneKeyChanges
  <2>7. \/ result' = [op |-> "put", ret |-> 0]
        \/ result' = [op |-> "put", ret |-> 1]
    BY <1>3 DEF Returns
  <2> QED
    BY <2>1, <2>6, <2>7, IsPut DEF Refines
<1> QED
  BY <1>1, <1>2, <1>3 DEF table_put, IsData

LEMMA GetRefines ==
    ASSUME IInv, Placed, NEW k \in Key, table_get(k)
    PROVE  Refines
<1>1. CASE OutOfBounds("get", Null)
  BY <1>1, SameLists, IsFail DEF OutOfBounds, Returns, Refines
<1>2. CASE lists' = lists /\ Returns("get", Null)
  BY <1>2, SameLists, IsFail DEF Returns, Refines
<1>3. CASE /\ lists' = lists /\ hash_code(k, N) \in Index /\ Holds(lists[hash_code(k, N)], k)
           /\ Returns("get", lists[hash_code(k, N)].head[Place(lists[hash_code(k, N)], k)].value)
  <2> DEFINE v == lists[hash_code(k, N)].head[Place(lists[hash_code(k, N)], k)].value
  <2>1. GoodList(lists[hash_code(k, N)])
    BY <1>3 DEF IInv
  <2>2. Has(lists[hash_code(k, N)], k, v)
    BY <1>3, <2>1, HeldHas
  <2>3. result' = [op |-> "get", ret |-> v]
    BY <1>3 DEF Returns
  <2> HIDE DEF v
  <2>4. v \in Value /\ Maps(k, v)
    BY <1>3, <2>1, <2>2, HasTypes DEF Maps
  <2>5. Dict[k] = v
    BY <2>4, DictIs
  <2> QED
    BY <1>3, <2>3, <2>5, SameLists, IsGet DEF Refines
<1> QED
  BY <1>1, <1>2, <1>3 DEF table_get

LEMMA RemoveRefines ==
    ASSUME IInv, Placed, NEW k \in Key, table_remove(k)
    PROVE  Refines
<1>1. ASSUME lists' = lists, result' = [op |-> "remove", ret |-> 1], Dict[k] = Null
      PROVE  Refines
  <2>1. Placed' /\ Dict' = Dict
    BY <1>1, SameLists
  <2>2. Dict = [Dict EXCEPT ![k] = Null]
    <3>1. Dict = [l \in Key |-> Dict[l]]
      BY DEF Dict
    <3> HIDE DEF Dict
    <3> QED
      BY <1>1, <3>1
  <2>3. result' = [op |-> "remove", ret |-> IF k \in Present THEN 0 ELSE 1]
    BY <1>1 DEF Present
  <2>4. Dict' = [Dict EXCEPT ![k] = Null]
    BY <2>1, <2>2
  <2> QED
    BY <2>1, <2>3, <2>4, IsRemove DEF Refines
<1>2. CASE hash_code(k, N) \notin Index /\ OutOfBounds("remove", 1)
  <2>1. Dict[k] = Null
    BY <1>2, DictIs
  <2>2. CASE result' = result
    BY <1>2, <2>2, SameLists DEF OutOfBounds, Returns, Refines
  <2>3. CASE result' = [op |-> "remove", ret |-> 1]
    BY <1>1, <1>2, <2>1, <2>3 DEF OutOfBounds
  <2> QED
    BY <1>2, <2>2, <2>3 DEF OutOfBounds, Returns
<1>3. CASE ~Holds(lists[hash_code(k, N)], k) /\ lists' = lists /\ Returns("remove", 1)
  <2>1. Dict[k] = Null
    BY <1>3, DictIs
  <2> QED
    BY <1>1, <1>3, <2>1 DEF Returns
<1>4. CASE /\ hash_code(k, N) \in Index /\ Holds(lists[hash_code(k, N)], k)
           /\ lists' = [lists EXCEPT ![hash_code(k, N)] = list_remove(@, k)]
           /\ Returns("remove", 0)
  <2> DEFINE list == list_remove(lists[hash_code(k, N)], k)
  <2>1. GoodList(lists[hash_code(k, N)])
    BY <1>4 DEF IInv
  <2>2. GoodList(list)
    BY <1>4, <2>1, RemoveIsGood
  <2>3. \A l \in Key, w \in Value : Has(list, l, w)
              <=> IF l = k THEN w = Null ELSE Has(lists[hash_code(k, N)], l, w)
    BY <1>4, <2>1, RemoveHas, TableAssumption
  <2>4. lists' = [lists EXCEPT ![hash_code(k, N)] = list]
    BY <1>4
  <2> HIDE DEF list
  <2>5. Placed' /\ Dict' = [Dict EXCEPT ![k] = Null]
    BY <1>4, <2>2, <2>3, <2>4, OneKeyChanges
  <2>6. k \in Present
    BY <1>4, DictIs DEF Present
  <2>7. result' = [op |-> "remove", ret |-> IF k \in Present THEN 0 ELSE 1]
    BY <1>4, <2>6 DEF Returns
  <2> QED
    BY <2>5, <2>7, IsRemove DEF Refines
<1> QED
  BY <1>2, <1>3, <1>4 DEF table_remove

-----------------------------------------------------------------------------
(* Sums. The sum of g over a finite set is the number of its units: a unit *)
(* is an element with a number up to what g gives it. The recursive        *)
(* function of a fold is some function that satisfies its equation; the    *)
(* number of units satisfies it, and, since a smallest set on which two    *)
(* solutions differ cannot exist, nothing else does.                       *)

Chosen(s) == CHOOSE x \in s : TRUE

IsSum(f, g, S) == f = [s \in SUBSET S |->
    IF s = {} THEN 0 ELSE g[Chosen(s)] + f[s \ {Chosen(s)}]]

Units(g, s) == UNION {{x} \X (1 .. g[x]) : x \in s}

LEMMA SumIsRecursive ==
    ASSUME NEW S, NEW g, DOMAIN g = S
    PROVE  FoldFunction(+, 0, g) = (CHOOSE f : IsSum(f, g, S))[S]
BY Zenon DEF FoldFunction, FoldFunctionOnSet, MapThenFoldSet, IsSum, Chosen

LEMMA UnitsOfOne ==
    ASSUME NEW x, NEW n \in Nat
    PROVE  IsFiniteSet({x} \X (1 .. n)) /\ Cardinality({x} \X (1 .. n)) = n
<1>1. IsFiniteSet({x}) /\ Cardinality({x}) = 1
  BY FS_Singleton
<1>2. IsFiniteSet(1 .. n) /\ Cardinality(1 .. n) = n
  BY FS_Interval
<1>3. /\ IsFiniteSet({x} \X (1 .. n))
      /\ Cardinality({x} \X (1 .. n)) = Cardinality({x}) * Cardinality(1 .. n)
  BY Zenon, <1>1, <1>2, FS_Product
<1>4. Cardinality({x} \X (1 .. n)) = 1 * n
  BY Zenon, <1>1, <1>2, <1>3
<1> QED
  BY <1>3, <1>4

LEMMA UnitsAdd ==
    ASSUME NEW S, IsFiniteSet(S), NEW g \in [S -> Nat], NEW s \in SUBSET S
    PROVE  /\ IsFiniteSet(Units(g, s))
           /\ \A x \in s : Cardinality(Units(g, s)) = g[x] + Cardinality(Units(g, s \ {x}))
<1>1. ASSUME NEW r \in SUBSET S PROVE IsFiniteSet(Units(g, r))
  <2>1. IsFiniteSet(r)
    BY FS_Subset
  <2> DEFINE All == {{x} \X (1 .. g[x]) : x \in r}
             h == [x \in r |-> {x} \X (1 .. g[x])]
  <2>2. h \in Surjection(r, All)
    BY DEF Surjection
  <2>3. ASSUME NEW T \in All PROVE IsFiniteSet(T)
    <3>1. PICK x \in r : T = {x} \X (1 .. g[x])
      OBVIOUS
    <3>2. g[x] \in Nat
      OBVIOUS
    <3> QED
      BY <3>1, <3>2, UnitsOfOne
  <2> HIDE DEF All, h
  <2>4. IsFiniteSet(All)
    BY <2>1, <2>2, FS_Surjection
  <2>5. IsFiniteSet(UNION All)
    BY <2>3, <2>4, FS_UNION
  <2> QED
    BY <2>5 DEF Units, All
<1>2. ASSUME NEW x \in s
      PROVE  Cardinality(Units(g, s)) = g[x] + Cardinality(Units(g, s \ {x}))
  <2> DEFINE A == {x} \X (1 .. g[x])
             B == Units(g, s \ {x})
  <2>1. Units(g, s) = A \cup B
    BY DEF Units
  <2>2. A \cap B = {}
    BY DEF Units
  <2>3. IsFiniteSet(A) /\ Cardinality(A) = g[x] /\ IsFiniteSet(B) /\ g[x] \in Nat
    <3>1. s \ {x} \in SUBSET S /\ g[x] \in Nat
      OBVIOUS
    <3> QED
      BY <1>1, <3>1, UnitsOfOne
  <2> HIDE DEF A, B
  <2>4. Cardinality(A \cup B) = Cardinality(A) + Cardinality(B) - Cardinality({})
    BY <2>2, <2>3, FS_Union
  <2>5. Cardinality(B) \in Nat
    BY <2>3, FS_CardinalityType
  <2> QED
    BY <2>1, <2>3, <2>4, <2>5, FS_EmptySet DEF B
<1> QED
  BY <1>1, <1>2

LEMMA SumExists ==
    ASSUME NEW S, IsFiniteSet(S), NEW g \in [S -> Nat]
    PROVE  \E f : IsSum(f, g, S)
<1> DEFINE f == [s \in SUBSET S |-> Cardinality(Units(g, s))]
<1>1. ASSUME NEW s \in SUBSET S
      PROVE  f[s] = IF s = {} THEN 0 ELSE g[Chosen(s)] + f[s \ {Chosen(s)}]
  <2>1. CASE s = {}
    <3>1. Units(g, s) = {}
      BY <2>1 DEF Units
    <3> QED
      BY <2>1, <3>1, FS_EmptySet
  <2>2. CASE s # {}
    <3>1. Chosen(s) \in s
      BY <2>2 DEF Chosen
    <3>2. s \ {Chosen(s)} \in SUBSET S
      OBVIOUS
    <3> QED
      BY <2>2, <3>1, <3>2, UnitsAdd
  <2> QED
    BY <2>1, <2>2
<1>2. IsSum(f, g, S)
  BY <1>1, Zenon DEF IsSum
<1> QED
  BY <1>2

LEMMA SumIsUnique ==
    ASSUME NEW S, IsFiniteSet(S), NEW g \in [S -> Nat], NEW f, IsSum(f, g, S)
    PROVE  f[S] = Cardinality(Units(g, S))
<1> DEFINE T == {s \in SUBSET S : f[s] # Cardinality(Units(g, s))}
           R == StrictSubsetOrdering(S)
<1> SUFFICES ASSUME T # {} PROVE FALSE
  OBVIOUS
<1>1. IsWellFoundedOn(R, FiniteSubsetsOf(S))
  BY FS_StrictSubsetOrderingWellFounded
<1>2. T \subseteq FiniteSubsetsOf(S)
  BY FS_FiniteSubsetsOfFinite
<1>3. PICK s \in T : \A r \in T : ~ (<<r, s>> \in R)
  <2> HIDE DEF T, R
  <2> QED
    BY <1>1, <1>2, WFMin
<1>4. f[s] = IF s = {} THEN 0 ELSE g[Chosen(s)] + f[s \ {Chosen(s)}]
  BY Zenon DEF IsSum
<1>5. CASE s = {}
  <2>1. Units(g, s) = {}
    BY <1>5 DEF Units
  <2> QED
    BY <1>4, <1>5, <2>1, FS_EmptySet
<1>6. CASE s # {}
  <2> DEFINE r == s \ {Chosen(s)}
  <2>1. Chosen(s) \in s /\ r \in SUBSET S
    BY <1>6 DEF Chosen
  <2>2. <<r, s>> \in R
    BY <2>1 DEF StrictSubsetOrdering
  <2>3. f[r] = Cardinality(Units(g, r))
    BY <1>3, <2>1, <2>2
  <2>4. Cardinality(Units(g, s)) = g[Chosen(s)] + Cardinality(Units(g, r))
    BY <2>1, UnitsAdd
  <2> QED
    BY <1>4, <1>6, <2>3, <2>4
<1> QED
  BY <1>5, <1>6

LEMMA SumCountsUnits ==
    ASSUME NEW S, IsFiniteSet(S), NEW g \in [S -> Nat]
    PROVE  FoldFunction(+, 0, g) = Cardinality(Units(g, S))
BY SumIsRecursive, SumExists, SumIsUnique

-----------------------------------------------------------------------------
(* table_size.                                                              *)

Sizes == [i \in Index |-> lists[i].size]

LEMMA IndexFinite == IsFiniteSet(Index)
BY FS_Interval, TableAssumption DEF Index

LEMMA UnitsAreKeys ==
    ASSUME IInv, Placed
    PROVE  /\ IsFiniteSet(Units(Sizes, Index))
           /\ Cardinality(Units(Sizes, Index)) = Cardinality(Present)
<1> DEFINE U == Units(Sizes, Index)
           f == [u \in U |-> lists[u[1]].head[u[2]].key]
<1>1. Sizes \in [Index -> Nat]
  BY DEF Sizes, IInv
<1>2. IsFiniteSet(U)
  BY <1>1, IndexFinite, UnitsAdd
<1>3. \A u : u \in U <=> \E i \in Index : \E p \in 1..Len(lists[i].head) : u = <<i, p>>
  BY DEF Units, Sizes, IInv, GoodList
<1> HIDE DEF U
<1>4. ASSUME NEW i \in Index, NEW p \in 1..Len(lists[i].head)
      PROVE  /\ f[<<i, p>>] = lists[i].head[p].key
             /\ f[<<i, p>>] \in Key
             /\ hash_code(f[<<i, p>>], N) = i
             /\ f[<<i, p>>] \in Present
  <2>1. <<i, p>> \in U /\ GoodList(lists[i])
    BY <1>3 DEF IInv
  <2>2. f[<<i, p>>] = lists[i].head[p].key
    BY <2>1
  <2> HIDE DEF f
  <2> DEFINE k == lists[i].head[p].key
             v == lists[i].head[p].value
  <2>3. k \in Key /\ v \in Value /\ Has(lists[i], k, v)
    BY <2>1, GoodHead DEF Has
  <2> HIDE DEF k, v
  <2>4. hash_code(k, N) = i /\ Maps(k, v)
    BY <2>3 DEF Placed, Maps
  <2>5. k \in Present
    BY <2>3, <2>4, DictIs, TableAssumption DEF Present
  <2> QED
    BY <2>2, <2>3, <2>4, <2>5 DEF k
<1>5. f \in [U -> Present]
  <2>1. f = [u \in U |-> f[u]]
    OBVIOUS
  <2> HIDE DEF f
  <2>2. \A u \in U : f[u] \in Present
    BY <1>3, <1>4
  <2> QED
    BY <2>1, <2>2
<1>6. ASSUME NEW u \in U, NEW w \in U, f[u] = f[w] PROVE u = w
  <2>1. PICK i \in Index : \E p \in 1..Len(lists[i].head) : u = <<i, p>>
    BY <1>3
  <2>2. PICK p \in 1..Len(lists[i].head) : u = <<i, p>>
    BY <2>1
  <2>3. PICK j \in Index : \E q \in 1..Len(lists[j].head) : w = <<j, q>>
    BY <1>3
  <2>4. PICK q \in 1..Len(lists[j].head) : w = <<j, q>>
    BY <2>3
  <2> HIDE DEF f
  <2>5. i = j
    BY <1>4, <1>6, <2>2, <2>4
  <2>6. lists[i].head[p].key = lists[i].head[q].key
    BY <1>4, <1>6, <2>2, <2>4, <2>5
  <2>7. GoodList(lists[i]) /\ p \in DOMAIN lists[i].head /\ q \in DOMAIN lists[i].head
    BY <2>5, GoodHead DEF IInv
  <2>8. p = q
    BY <2>6, <2>7, KeysApart
  <2> QED
    BY <2>2, <2>4, <2>5, <2>8
<1>7. ASSUME NEW k \in Present PROVE \E u \in U : f[u] = k
  <2>1. k \in Key /\ Dict[k] # Null
    BY DEF Present
  <2> DEFINE i == hash_code(k, N)
  <2>2. i \in Index /\ Holds(lists[i], k)
    BY <2>1, DictIs
  <2> HIDE DEF i
  <2>3. GoodList(lists[i])
    BY <2>2 DEF IInv
  <2>4. PICK p \in 1..Len(lists[i].head) : lists[i].head[p].key = k
    BY <2>2, <2>3, GoodHead DEF Holds
  <2>5. <<i, p>> \in U /\ f[<<i, p>>] = k
    BY <1>3, <1>4, <2>2, <2>4
  <2> QED
    BY <2>5
<1> HIDE DEF f
<1>8. f \in Bijection(U, Present)
  BY <1>5, <1>6, <1>7 DEF Bijection, Injection, Surjection, IsInjective
<1>9. Cardinality(Present) = Cardinality(U)
  BY <1>2, <1>8, FS_Bijection DEF ExistsBijection
<1> QED
  BY <1>2, <1>9 DEF U

LEMMA SizeRefines ==
    ASSUME IInv, Placed, table_size
    PROVE  Refines
<1>1. lists' = lists /\ result' = [op |-> "size", ret |-> FoldFunction(+, 0, Sizes)]
  BY Zenon DEF table_size, Returns, Sizes
<1>2. Sizes \in [Index -> Nat]
  BY DEF Sizes, IInv
<1>3. FoldFunction(+, 0, Sizes) = Cardinality(Units(Sizes, Index))
  BY <1>2, IndexFinite, SumCountsUnits
<1>4. result' = [op |-> "size", ret |-> Cardinality(Present)]
  BY <1>1, <1>3, UnitsAreKeys, Zenon
<1>5. Placed' /\ Dict' = Dict
  BY <1>1, SameLists
<1> QED
  BY <1>4, <1>5, IsSize DEF Refines

-----------------------------------------------------------------------------
(* table_get_keys.                                                          *)

Cat(a, b) == a \o b
Elements(s) == {s[q] : q \in 1..Len(s)}
IsFlat(f, seqs, n) == f = [i \in 1..n |->
    IF i = 1 THEN seqs[i] ELSE Cat(f[i - 1], seqs[i])]

LEMMA FlatIsRecursive ==
    ASSUME NEW seqs, Len(seqs) # 0
    PROVE  FlattenSeq(seqs) = (CHOOSE f : IsFlat(f, seqs, Len(seqs)))[Len(seqs)]
BY Zenon DEF FlattenSeq, IsFlat, Cat

\* A shortest sequence of sequences that has none cannot exist.
LEMMA FlatExists ==
    ASSUME NEW n \in Nat, NEW seqs
    PROVE  \E f : IsFlat(f, seqs, n)
<1> DEFINE T == {m \in Nat : ~\E f : IsFlat(f, seqs, m)}
<1> SUFFICES ASSUME T # {} PROVE FALSE
  OBVIOUS
<1>1. PICK m \in T : \A l \in T : m <= l
  <2>1. T \subseteq Nat
    OBVIOUS
  <2> HIDE DEF T
  <2> QED
    BY <2>1, LeastExists
<1>2. CASE m = 0
  <2>1. IsFlat([i \in 1..0 |-> 0], seqs, 0)
    BY DEF IsFlat
  <2> QED
    BY <1>2, <2>1
<1>3. CASE m # 0
  <2>1. m - 1 \in Nat /\ m - 1 \notin T
    BY <1>1, <1>3
  <2>2. PICK g : IsFlat(g, seqs, m - 1)
    BY <2>1
  <2> DEFINE f == [i \in 1..m |-> IF i = 1 THEN seqs[i]
                                  ELSE IF i = m THEN Cat(g[m - 1], seqs[i]) ELSE g[i]]
  <2>3. \A i \in 1..(m - 1) : g[i] = IF i = 1 THEN seqs[i] ELSE Cat(g[i - 1], seqs[i])
    BY <2>2 DEF IsFlat
  <2>4. \A i \in 1..(m - 1) : f[i] = g[i]
    BY <2>1, <2>3
  <2>5. ASSUME NEW i \in 1..m
        PROVE  f[i] = IF i = 1 THEN seqs[i] ELSE Cat(f[i - 1], seqs[i])
    <3>1. CASE i = 1
      BY <3>1
    <3>2. CASE i # 1 /\ i = m
      <4>1. f[i] = Cat(g[m - 1], seqs[i])
        BY <3>2
      <4>2. f[m - 1] = g[m - 1]
        <5>1. m - 1 \in 1..(m - 1)
          BY <2>1, <3>2
        <5> HIDE DEF f
        <5> QED
          BY <2>4, <5>1
      <4> QED
        BY <3>2, <4>1, <4>2
    <3>3. CASE i # 1 /\ i # m
      <4>1. i \in 1..(m - 1) /\ i - 1 \in 1..(m - 1)
        BY <2>1, <3>3
      <4> QED
        BY <2>3, <2>4, <3>3, <4>1
    <3> QED
      BY <3>1, <3>2, <3>3
  <2>6. f = [i \in 1..m |-> f[i]]
    OBVIOUS
  <2> HIDE DEF f
  <2>7. IsFlat(f, seqs, m)
    BY <2>5, <2>6 DEF IsFlat
  <2> QED
    BY <2>7
<1> QED
  BY <1>2, <1>3

LEMMA ConcatHolds ==
    ASSUME NEW S, NEW a \in Seq(S), NEW b \in Seq(S)
    PROVE  /\ Cat(a, b) \in Seq(S) /\ Len(Cat(a, b)) = Len(a) + Len(b)
           /\ Len(a) \in Nat /\ Len(b) \in Nat
           /\ Elements(Cat(a, b)) = Elements(a) \cup Elements(b)
<1> DEFINE c == Cat(a, b)
<1>1. Len(a) \in Nat /\ Len(b) \in Nat
  BY LenProperties
<1>2. /\ c \in Seq(S) /\ Len(c) = Len(a) + Len(b)
      /\ \A q \in 1..(Len(a) + Len(b)) : c[q] =
            IF q <= Len(a) THEN a[q] ELSE b[q - Len(a)]
  BY ConcatProperties DEF Cat
<1> HIDE DEF c
<1>3. ASSUME NEW q \in 1..Len(c)
      PROVE  (\E r \in 1..Len(a) : a[r] = c[q]) \/ (\E p \in 1..Len(b) : b[p] = c[q])
  <2>1. CASE q <= Len(a)
    BY <1>1, <1>2, <1>3, <2>1
  <2>2. CASE q > Len(a)
    <3>1. q - Len(a) \in 1..Len(b) /\ b[q - Len(a)] = c[q]
      BY <1>1, <1>2, <1>3, <2>2
    <3> QED
      BY <3>1
  <2> QED
    BY <1>1, <1>2, <1>3, <2>1, <2>2
<1>4. ASSUME NEW q \in 1..Len(a) PROVE \E r \in 1..Len(c) : c[r] = a[q]
  BY <1>1, <1>2, <1>4
<1>5. ASSUME NEW p \in 1..Len(b) PROVE \E r \in 1..Len(c) : c[r] = b[p]
  <2>1. Len(a) + p \in 1..Len(c) /\ ~(Len(a) + p <= Len(a)) /\ Len(a) + p - Len(a) = p
    BY <1>1, <1>2, <1>5
  <2>2. c[Len(a) + p] = b[p]
    BY <1>2, <2>1
  <2> QED
    BY <2>1, <2>2
<1>6. Elements(c) = Elements(a) \cup Elements(b)
  <2>1. Elements(c) \subseteq Elements(a) \cup Elements(b)
    BY <1>3 DEF Elements
  <2>2. Elements(a) \subseteq Elements(c)
    BY <1>4 DEF Elements
  <2>3. Elements(b) \subseteq Elements(c)
    BY <1>5 DEF Elements
  <2> QED
    BY <2>1, <2>2, <2>3
<1> QED
  BY <1>1, <1>2, <1>6 DEF c

\* f is made of n sequences over S, whose lengths are in g.
FlatOf(f, seqs, n, S, g) ==
    /\ seqs \in [1..n -> Seq(S)] /\ IsFlat(f, seqs, n)
    /\ g \in [0..(n - 1) -> Nat] /\ \A j \in 1..n : Len(seqs[j]) = g[j - 1]

\* The first i sequences are together in f[i].
Together(f, seqs, S, g, i) ==
    /\ f[i] \in Seq(S)
    /\ Len(f[i]) = Cardinality(Units(g, 0..(i - 1)))
    /\ Elements(f[i]) = UNION {Elements(seqs[j]) : j \in 1..i}

LEMMA FlatHolds ==
    ASSUME NEW n \in Nat, NEW S, NEW seqs, NEW f, NEW g, FlatOf(f, seqs, n, S, g),
           NEW i \in 1..n
    PROVE  Together(f, seqs, S, g, i)
<1> DEFINE Good(m) == Together(f, seqs, S, g, m)
           T == {m \in 1..n : ~Good(m)}
<1> USE DEF FlatOf
<1> SUFFICES ASSUME T # {} PROVE FALSE
  OBVIOUS
<1>1. PICK m \in T : \A l \in T : m <= l
  <2>1. T \subseteq Nat
    OBVIOUS
  <2> HIDE DEF T
  <2> QED
    BY <2>1, LeastExists
<1>2. m \in 1..n /\ ~Good(m) /\ (m - 1 \in 1..n => Good(m - 1))
  <2> HIDE DEF Good
  <2> QED
    BY <1>1
<1>3. f[m] = IF m = 1 THEN seqs[m] ELSE Cat(f[m - 1], seqs[m])
  BY <1>2 DEF IsFlat
<1>4. /\ seqs[m] \in Seq(S) /\ Len(seqs[m]) = g[m - 1]
      /\ g[m - 1] \in Nat /\ m \in Nat
  BY <1>2
<1> HIDE DEF T, Good
<1>5. IsFiniteSet(0..(n - 1)) /\ 0..(m - 1) \in SUBSET (0..(n - 1)) /\ m - 1 \in 0..(m - 1)
  BY <1>2, FS_Interval
<1>6. Cardinality(Units(g, 0..(m - 1))) = g[m - 1] + Cardinality(Units(g, 0..(m - 1 - 1)))
  <2> DEFINE s == 0..(m - 1)
             S0 == 0..(n - 1)
  <2>1. s \ {m - 1} = 0..(m - 1 - 1)
    BY <1>4
  <2>2. IsFiniteSet(S0) /\ g \in [S0 -> Nat] /\ s \in SUBSET S0 /\ m - 1 \in s
    BY <1>5
  <2> HIDE DEF s, S0
  <2>3. \A x \in s : Cardinality(Units(g, s)) = g[x] + Cardinality(Units(g, s \ {x}))
    BY SMTT(30), <2>2, UnitsAdd
  <2>4. Cardinality(Units(g, s)) = g[m - 1] + Cardinality(Units(g, s \ {m - 1}))
    BY <2>2, <2>3
  <2> QED
    BY <2>1, <2>4 DEF s
<1>7. CASE m = 1
  <2>1. f[m] = seqs[m] /\ 1..m = {m}
    BY <1>3, <1>7
  <2>2. Units(g, 0..(m - 1 - 1)) = {}
    <3>1. 0..(m - 1 - 1) = {}
      BY <1>7
    <3> QED
      BY <3>1 DEF Units
  <2>3. Cardinality(Units(g, 0..(m - 1 - 1))) = 0
    BY <2>2, FS_EmptySet
  <2>4. Len(f[m]) = Cardinality(Units(g, 0..(m - 1)))
    BY <1>4, <1>6, <2>1, <2>3
  <2>5. Elements(f[m]) = UNION {Elements(seqs[j]) : j \in 1..m}
    BY <2>1
  <2>6. f[m] \in Seq(S)
    BY <1>4, <2>1
  <2> QED
    BY <1>2, <2>4, <2>5, <2>6 DEF Good, Together
<1>8. CASE m # 1
  <2> DEFINE a == f[m - 1]
             b == seqs[m]
             c == Cat(a, b)
  <2>1. m - 1 \in 1..n /\ Good(m - 1)
    BY <1>2, <1>4, <1>8
  <2>2. f[m] = c
    BY <1>3, <1>8
  <2>3. a \in Seq(S) /\ b \in Seq(S)
    BY <1>4, <2>1 DEF Good, Together
  <2>4. Len(a) = Cardinality(Units(g, 0..(m - 1 - 1))) /\ Len(b) = g[m - 1]
    BY <1>4, <2>1 DEF Good, Together
  <2>5. Elements(a) = UNION {Elements(seqs[j]) : j \in 1..(m - 1)}
    BY <2>1 DEF Good, Together
  <2>6. Elements(b) = Elements(seqs[m])
    OBVIOUS
  <2> HIDE DEF a, b
  <2>7. /\ c \in Seq(S) /\ Len(c) = Len(a) + Len(b)
        /\ Len(a) \in Nat /\ Len(b) \in Nat
        /\ Elements(c) = Elements(a) \cup Elements(b)
    BY <2>3, ConcatHolds
  <2> HIDE DEF c
  <2>8. Len(f[m]) = Cardinality(Units(g, 0..(m - 1)))
    BY <1>4, <1>6, <2>2, <2>4, <2>7
  <2>9. Elements(f[m]) = UNION {Elements(seqs[j]) : j \in 1..m}
    <3>1. 1..m = (1..(m - 1)) \cup {m}
      BY <1>4, <2>1
    <3>2. Elements(f[m]) = Elements(a) \cup Elements(seqs[m])
      BY <2>2, <2>6, <2>7
    <3> QED
      BY <2>5, <3>1, <3>2
  <2> QED
    BY <1>2, <2>2, <2>7, <2>8, <2>9 DEF Good, Together
<1> QED
  BY <1>7, <1>8

LEMMA WholeFlatHolds ==
    ASSUME NEW seqs \in [1..N -> Seq(Key)], NEW f, IsFlat(f, seqs, N),
           Sizes \in [Index -> Nat], \A j \in 1..N : Len(seqs[j]) = Sizes[j - 1]
    PROVE  /\ f[N] \in Seq(Key)
           /\ Len(f[N]) = Cardinality(Units(Sizes, Index))
           /\ Elements(f[N]) = UNION {Elements(seqs[j]) : j \in 1..N}
<1>1. N \in Nat /\ N \in 1..N /\ Index = 0..(N - 1)
  BY TableAssumption DEF Index
<1>a. FlatOf(f, seqs, N, Key, Sizes)
  BY <1>1 DEF FlatOf
<1>2. Together(f, seqs, Key, Sizes, N)
  BY <1>1, <1>a, FlatHolds, Zenon
<1> QED
  BY <1>1, <1>2 DEF Together

LEMMA KeysRefine ==
    ASSUME IInv, Placed, table_get_keys, "list_keys" \notin Failing
    PROVE  Refines
<1>1. CASE lists' = lists /\ Returns("get_keys", Null)
  BY <1>1, SameLists, IsFail DEF Returns, Refines
<1> DEFINE seqs == [i \in 1..N |-> IF lists[i - 1].size = 0 \/ i - 1 \in {} THEN <<>>
                                   ELSE list_get_keys(lists[i - 1])]
<1>2. CASE lists' = lists /\ Returns("get_keys", FlattenSeq(seqs))
  <2>1. N \in Nat /\ N # 0 /\ Index = 0..(N - 1)
    BY TableAssumption DEF Index
  <2>2. ASSUME NEW i \in 1..N
        PROVE  /\ seqs[i] \in Seq(Key) /\ Len(seqs[i]) = Sizes[i - 1]
               /\ \A p \in 1..Len(seqs[i]) : seqs[i][p] = lists[i - 1].head[p].key
    <3>1. i - 1 \in Index /\ GoodList(lists[i - 1])
      BY <2>1 DEF IInv
    <3> DEFINE s == lists[i - 1].head
    <3>2. /\ Len(s) \in Nat /\ DOMAIN s = 1..Len(s) /\ lists[i - 1].size = Len(s)
          /\ \A p \in 1..Len(s) : s[p].key \in Key
      BY <3>1, GoodHead
    <3>3. Sizes[i - 1] = Len(s)
      BY <3>1, <3>2 DEF Sizes
    <3>4. CASE Len(s) = 0
      <4>1. seqs[i] = <<>>
        BY <3>2, <3>4
      <4> HIDE DEF s, seqs
      <4> QED
        BY <3>3, <3>4, <4>1
    <3>5. CASE Len(s) # 0
      <4>1. seqs[i] = [p \in 1..Len(s) |-> s[p].key]
        BY <3>2, <3>5 DEF list_get_keys
      <4> HIDE DEF s, seqs
      <4>2. seqs[i] \in Seq(Key)
        BY <3>2, <4>1
      <4>3. Len(seqs[i]) = Len(s)
        BY <3>2, <4>1
      <4>4. \A p \in 1..Len(s) : seqs[i][p] = s[p].key
        BY <4>1
      <4> QED
        BY <3>3, <4>2, <4>3, <4>4 DEF s
    <3> QED
      BY <3>4, <3>5
  <2>3. seqs \in [1..N -> Seq(Key)] /\ Len(seqs) = N
    <3>1. DOMAIN seqs = 1..N
      OBVIOUS
    <3>2. seqs \in [1..N -> Seq(Key)]
      <4>1. seqs = [i \in 1..N |-> seqs[i]]
        OBVIOUS
      <4> HIDE DEF seqs
      <4> QED
        BY <2>2, <4>1
    <3> HIDE DEF seqs
    <3>3. seqs \in Seq(Seq(Key))
      BY <2>1, <3>2
    <3> QED
      BY <2>1, <3>1, <3>2, <3>3, LenProperties
  <2>4. result' = [op |-> "get_keys", ret |-> FlattenSeq(seqs)] /\ Placed' /\ Dict' = Dict
    BY <1>2, SameLists DEF Returns
  <2> HIDE DEF seqs
  <2> DEFINE f == CHOOSE h : IsFlat(h, seqs, N)
             keys == f[N]
  <2>5. IsFlat(f, seqs, N)
    BY <2>1, FlatExists
  <2>6. FlattenSeq(seqs) = keys
    BY <2>1, <2>3, FlatIsRecursive
  <2> HIDE DEF f
  <2>7. Sizes \in [Index -> Nat]
    BY DEF Sizes, IInv
  <2>8. /\ keys \in Seq(Key)
        /\ Len(keys) = Cardinality(Units(Sizes, Index))
        /\ Elements(keys) = UNION {Elements(seqs[j]) : j \in 1..N}
    <3>1. \A j \in 1..N : Len(seqs[j]) = Sizes[j - 1]
      BY <2>2
    <3> QED
      BY <2>3, <2>5, <2>7, <3>1, WholeFlatHolds
  <2> HIDE DEF keys
  <2>9. Len(keys) = Cardinality(Present)
    BY <2>8, UnitsAreKeys
  <2>10. ASSUME NEW k
         PROVE  k \in Elements(keys) <=> k \in Present
    <3>1. ASSUME k \in Present
          PROVE  \E j \in 1..N : \E p \in 1..Len(seqs[j]) : seqs[j][p] = k
      <4>1. k \in Key /\ hash_code(k, N) \in Index /\ Holds(lists[hash_code(k, N)], k)
        BY <3>1, DictIs DEF Present
      <4>2. PICK j \in 1..N : j - 1 = hash_code(k, N)
        <5> DEFINE h == hash_code(k, N)
        <5>1. h \in 0..(N - 1)
          BY <2>1, <4>1
        <5> DEFINE j == h + 1
        <5> HIDE DEF h
        <5>2. j \in 1..N /\ j - 1 = h
          BY <2>1, <5>1
        <5> HIDE DEF j
        <5>3. \E i \in 1..N : i - 1 = h
          BY <5>2
        <5> QED
          BY <5>3 DEF h
      <4>3. GoodList(lists[j - 1]) /\ j - 1 \in Index
        BY <4>1, <4>2 DEF IInv
      <4>4. PICK p \in DOMAIN lists[j - 1].head : lists[j - 1].head[p].key = k
        BY <4>1, <4>2 DEF Holds
      <4>5. p \in 1..Len(seqs[j])
        BY ZenonT(60), <2>2, <4>3, <4>4, GoodHead DEF Sizes
      <4>6. seqs[j][p] = k
        BY <2>2, <4>4, <4>5
      <4> QED
        BY <4>5, <4>6
    <3>2. ASSUME NEW j \in 1..N, NEW p \in 1..Len(seqs[j]), seqs[j][p] = k
          PROVE  k \in Present
      <4>1. j - 1 \in Index /\ GoodList(lists[j - 1])
        BY <2>1 DEF IInv
      <4>2. p \in 1..Len(lists[j - 1].head) /\ lists[j - 1].head[p].key = k
        BY <2>2, <3>2, <4>1, GoodHead DEF Sizes
      <4> DEFINE v == lists[j - 1].head[p].value
      <4>3. k \in Key /\ v \in Value /\ Has(lists[j - 1], k, v)
        BY <4>1, <4>2, GoodHead DEF Has
      <4> HIDE DEF v
      <4>4. Maps(k, v)
        BY <4>1, <4>3 DEF Placed, Maps
      <4> QED
        BY <4>3, <4>4, DictIs, TableAssumption DEF Present
    <3>3. k \in Elements(keys) <=> \E j \in 1..N : k \in Elements(seqs[j])
      BY <2>8
    <3>4. \A j : k \in Elements(seqs[j]) <=> \E p \in 1..Len(seqs[j]) : seqs[j][p] = k
      BY DEF Elements
    <3> QED
      BY <3>1, <3>2, <3>3, <3>4
  <2>11. DOMAIN keys = 1..Cardinality(Present) /\ keys \in [1..Cardinality(Present) -> Present]
    <3>1. keys \in [1..Len(keys) -> Key] /\ DOMAIN keys = 1..Len(keys)
      BY <2>8, LenProperties
    <3>2. \A q \in 1..Len(keys) : keys[q] \in Present
      BY <2>10 DEF Elements
    <3> QED
      BY <2>9, <3>1, <3>2
  <2>12. \A k \in Present : \E i \in DOMAIN keys : keys[i] = k
    BY <2>9, <2>10, <2>11 DEF Elements
  <2>13. D!Next
    BY <2>4, <2>6, <2>11, <2>12, IsGetKeys
  <2> QED
    BY <2>4, <2>13 DEF Refines
<1>3. MayFail({"list_keys"}) = FALSE
  BY DEF MayFail
<1> QED
  BY <1>1, <1>2, <1>3 DEF table_get_keys

\* The hash table of sorted lists is a map, whatever its keys, the number of
\* its lists and the allocations that fail, but that of the keys of one list
\* (list_get_keys). A call returns what the map says, once 1 is read as success
\* of a put.
THEOREM Refinement ==
    ASSUME "list_keys" \notin Failing
    PROVE  Spec => ImplementsDictionaryIf1IsOk
<1>1. IInv /\ Placed /\ [Next]_vars => Placed' /\ [D!Next]_(D!vars)
  <2> SUFFICES ASSUME IInv, Placed, [Next]_vars PROVE Placed' /\ [D!Next]_(D!vars)
    OBVIOUS
  <2>1. CASE UNCHANGED vars
    <3>1. lists' = lists /\ result' = result
      BY <2>1 DEF vars
    <3> QED
      BY <3>1, SameLists, Zenon DEF D!vars, Dict, TheValue, Described
  <2>2. CASE Next
    <3>1. Refines
      BY <2>2, PutRefines, GetRefines, RemoveRefines, SizeRefines, KeysRefine, Zenon DEF Next
    <3> QED
      BY <3>1, Zenon DEF Refines, D!vars, Dict, TheValue, Described
  <2> QED
    BY <2>1, <2>2
<1>2. Init => Placed /\ D!Init
  BY InitRefines
<1> QED
  BY Invariance, <1>1, <1>2, PTL DEF Spec, ImplementsDictionaryIf1IsOk, D!Spec
=============================================================================
