----------------------------- MODULE Dictionary -----------------------------
(***************************************************************************)
(* What table.h promises: a table is a map from keys to values. A call     *)
(* that cannot get memory may fail, and then changes nothing.              *)
(***************************************************************************)
EXTENDS Integers, FiniteSets, Sequences

CONSTANTS Key, Value,
          Null      \* the C NULL

VARIABLES dict,     \* the value of each key, Null when it has none
          result    \* the last call and what it returned

vars == <<dict, result>>

Present == {k \in Key : dict[k] # Null}

Returns(op, ret) == result' = [op |-> op, ret |-> ret]

Init ==
    /\ dict = [k \in Key |-> Null]
    /\ result = [op |-> "create", ret |-> 0]

Put(k, v) ==
    /\ dict' = [dict EXCEPT ![k] = v]
    /\ Returns("put", 0)

Get(k) ==
    /\ Returns("get", dict[k])
    /\ UNCHANGED dict

Remove(k) ==
    /\ dict' = [dict EXCEPT ![k] = Null]
    /\ Returns("remove", IF k \in Present THEN 0 ELSE 1)

Size ==
    /\ Returns("size", Cardinality(Present))
    /\ UNCHANGED dict

\* The keys come in an order of the table's own, each once.
GetKeys ==
    /\ \E keys \in [1..Cardinality(Present) -> Present] :
        /\ \A k \in Present : \E i \in DOMAIN keys : keys[i] = k
        /\ Returns("get_keys", keys)
    /\ UNCHANGED dict

Fail ==
    /\ \/ Returns("put", -1)
       \/ Returns("get", Null)
       \/ Returns("get_keys", Null)
    /\ UNCHANGED dict

Next ==
    \/ \E k \in Key, v \in Value : Put(k, v)
    \/ \E k \in Key : Get(k) \/ Remove(k)
    \/ Size \/ GetKeys \/ Fail

Spec == Init /\ [][Next]_vars
=============================================================================
