------------------------------- MODULE Table -------------------------------
(***************************************************************************)
(* The hash table of a server (table.c) over its sorted lists (list.c):    *)
(* N lists, each sorted by strcmp, each with a count kept beside it. A     *)
(* call is one step: the callers hold the readers-writer lock of the       *)
(* table. A key is the sequence of its bytes, 1 to 255, without the final  *)
(* zero.                                                                   *)
(***************************************************************************)
EXTENDS Integers, FiniteSets, SequencesExt

CONSTANTS Key, Value,
          Null,      \* the C NULL
          N,         \* the number of lists
          Failing    \* the allocations that may fail

Allocation == {"entry", "node", "value", "keys", "list_keys"}

ASSUME TableAssumption ==
    /\ N \in Nat \ {0}
    /\ \A k \in Key : k \in Seq(1..255)
    /\ Null \notin Value
    /\ Failing \subseteq Allocation

VARIABLES lists,    \* the lists of the table
          result,   \* the last call and what it returned
          running   \* FALSE when an access to memory ended the process

vars == <<lists, result, running>>

Index == 0..N-1
Empty == [head |-> <<>>, size |-> 0]

\* The remainder of C, whose sign is that of the dividend.
CRemainder(a, n) == IF a >= 0 THEN a % n ELSE -((-a) % n)

\* char is signed on the platforms of the Makefile.
SignedChar(b) == IF b > 127 THEN b - 256 ELSE b

\* Mutant: the remainder starts at 1.
OneBasedHash(key, n) ==
    1 + CRemainder(FoldLeft(LAMBDA count, b : count + SignedChar(b), 0, key), n)

hash_code(key, n) ==
    CRemainder(FoldLeft(LAMBDA count, b : count + SignedChar(b), 0, key), n)

-----------------------------------------------------------------------------
(* The lists. *)

\* strcmp(a, b) < 0
Less(a, b) ==
    \E i \in 1..Len(b) :
        /\ i <= Len(a) + 1
        /\ \A j \in 1..(i - 1) : a[j] = b[j]
        /\ i <= Len(a) => a[i] < b[i]

Holds(list, key) == \E i \in DOMAIN list.head : list.head[i].key = key

Place(list, key) == CHOOSE i \in DOMAIN list.head : list.head[i].key = key

\* Mutant: a new entry goes to the end of the list.
AppendEntry(list, entry) ==
    IF Holds(list, entry.key)
    THEN [list EXCEPT !.head[Place(list, entry.key)] = entry]
    ELSE [head |-> Append(list.head, entry), size |-> list.size + 1]

\* Mutant: the entry of a key that is there is not looked for.
AddWithoutReplace(list, entry) ==
    LET below == {i \in DOMAIN list.head : Less(list.head[i].key, entry.key)}
    IN [head |-> InsertAt(list.head, Cardinality(below) + 1, entry),
        size |-> list.size + 1]

\* The entry goes before the first one that strcmp puts after it, or in the
\* place of the one with its key. A list whose size is 0 gets a new head.
list_add(list, entry) ==
    LET stop == {i \in DOMAIN list.head : ~Less(list.head[i].key, entry.key)}
        at == CHOOSE i \in stop : \A j \in stop : i <= j
    IN CASE list.size = 0 -> [head |-> <<entry>>, size |-> 1]
         [] list.size # 0 /\ stop = {} ->
                [head |-> Append(list.head, entry), size |-> list.size + 1]
         [] list.size # 0 /\ stop # {} /\ list.head[at].key = entry.key ->
                [list EXCEPT !.head[at] = entry]
         [] OTHER ->
                [head |-> InsertAt(list.head, at, entry), size |-> list.size + 1]

\* Mutant: the count of the list is not updated.
RemoveWithoutCount(list, key) ==
    [list EXCEPT !.head = RemoveAt(@, Place(list, key))]

list_remove(list, key) ==
    [head |-> RemoveAt(list.head, Place(list, key)), size |-> list.size - 1]

list_get_keys(list) == [i \in DOMAIN list.head |-> list.head[i].key]

-----------------------------------------------------------------------------
(* The calls. *)

Init ==
    /\ lists = [i \in Index |-> Empty]
    /\ result = [op |-> "create", ret |-> 0]
    /\ running = TRUE

Returns(op, ret) ==
    /\ result' = [op |-> op, ret |-> ret]
    /\ UNCHANGED running

\* lists[index] outside the array is a word of the heap before it: a null
\* pointer, which each function answers as missing, or one whose
\* dereference ends the process.
OutOfBounds(op, missing) ==
    /\ \/ Returns(op, missing)
       \/ running' = FALSE /\ UNCHANGED result
    /\ UNCHANGED lists

MayFail(allocations) == Failing \cap allocations # {}

\* Mutant: data_create's NULL is not tested.
AnyData(v) == TRUE

\* data_create gives NULL for an empty value.
IsData(v) == v # Null

\* table_put copies the key and the value before it looks for the list.
PutFails(k, v) ==
    /\ \/ ~IsData(v)
       \/ MayFail({"entry"})
       \/ MayFail({"node"}) /\ hash_code(k, N) \in Index
    /\ Returns("put", -1)
    /\ UNCHANGED lists

table_put(k, v) ==
    LET index == hash_code(k, N) IN
    \/ PutFails(k, v)
    \/ /\ IsData(v) /\ index \notin Index
       /\ OutOfBounds("put", -1)
    \/ /\ IsData(v) /\ index \in Index
       /\ lists' = [lists EXCEPT ![index] = list_add(@, [key |-> k, value |-> v])]
       /\ Returns("put", IF Holds(lists[index], k) THEN 1 ELSE 0)

table_get(k) ==
    LET index == hash_code(k, N) IN
    \/ /\ index \notin Index
       /\ OutOfBounds("get", Null)
    \/ /\ index \in Index
       /\ \/ /\ ~Holds(lists[index], k) \/ MayFail({"value"})
             /\ Returns("get", Null)
          \/ /\ Holds(lists[index], k)
             /\ Returns("get", lists[index].head[Place(lists[index], k)].value)
       /\ UNCHANGED lists

table_remove(k) ==
    LET index == hash_code(k, N) IN
    \/ /\ index \notin Index
       /\ OutOfBounds("remove", 1)
    \/ /\ index \in Index /\ ~Holds(lists[index], k)
       /\ Returns("remove", 1)
       /\ UNCHANGED lists
    \/ /\ index \in Index /\ Holds(lists[index], k)
       /\ lists' = [lists EXCEPT ![index] = list_remove(@, k)]
       /\ Returns("remove", 0)

table_size ==
    /\ Returns("size", FoldFunction(+, 0, [i \in Index |-> lists[i].size]))
    /\ UNCHANGED lists

\* A list whose array of keys could not be allocated is left out. The room
\* for the keys of the table is what table_size says.
table_get_keys ==
    /\ \/ /\ MayFail({"keys"})
          /\ Returns("get_keys", Null)
       \/ \E lost \in SUBSET {i \in Index : lists[i].size > 0} :
            /\ lost # {} => MayFail({"list_keys"})
            /\ Returns("get_keys",
                 FlattenSeq([i \in 1..N |->
                    IF lists[i - 1].size = 0 \/ i - 1 \in lost THEN <<>>
                    ELSE list_get_keys(lists[i - 1])]))
    /\ UNCHANGED lists

Next ==
    /\ running
    /\ \/ \E k \in Key, v \in Value \cup {Null} : table_put(k, v)
       \/ \E k \in Key : table_get(k) \/ table_remove(k)
       \/ table_size \/ table_get_keys

Spec == Init /\ [][Next]_vars

-----------------------------------------------------------------------------
(* Properties. *)

\* The lists hold entries, and their sizes are numbers.
TypeOK ==
    /\ lists \in [Index -> [head : Seq([key : Key, value : Value]), size : Nat]]
    /\ running \in BOOLEAN

\* Every list is sorted by strcmp with no key twice: list_add stops at the
\* first larger entry, so an entry out of place would be stored again
\* instead of replaced, and a removed key would come back.
SortedLists ==
    \A i \in Index : \A p, q \in DOMAIN lists[i].head :
        p < q => Less(lists[i].head[p].key, lists[i].head[q].key)

\* The count beside a list is its length. The count, and not the pointer to
\* the head, tells list_add that a list is empty, and list_get_keys how much
\* to allocate before it writes a key for every node.
SizesExact == \A i \in Index : lists[i].size = Len(lists[i].head)

\* A call returns: it reads no list outside the table.
CallsReturn == running

\* The entries of all the lists as one map.
Stored(k) == {v \in Value : \E i \in Index : \E p \in DOMAIN lists[i].head :
                lists[i].head[p] = [key |-> k, value |-> v]}

\* What a call returned, with 1 for a put read as success: list_add tells by
\* it that an entry was replaced, and table_put hands it on.
Described ==
    IF result.op = "put" /\ result.ret = 1 THEN [op |-> "put", ret |-> 0]
    ELSE result

D == INSTANCE Dictionary WITH
        dict <- [k \in Key |-> IF Stored(k) = {} THEN Null
                               ELSE CHOOSE v \in Stored(k) : TRUE],
        result <- Described

\* The table is the map that table.h describes, if a caller takes table_put's
\* 1 for success: what a call returns is what the map of the entries says, no
\* entry is lost, found in another list or returned twice, and a call that
\* cannot allocate changes nothing.
ImplementsDictionaryIf1IsOk == D!Spec

\* table_put returns what table.h says, 0 or -1. It does not for a key that
\* was there (table.c:88-95).
PutReturnsAsDescribed == result.op = "put" => result.ret \in {0, -1}
=============================================================================
