------------------------------- MODULE KVStore -------------------------------
(***************************************************************************)
(* What the replicated table promises to its clients while no server joins *)
(* or fails: it looks like one table, and every operation takes effect at  *)
(* one instant between its call and its return (linearizability). One that *)
(* finds no memory is an error and changes nothing.                        *)
(***************************************************************************)
EXTENDS FiniteSets

CONSTANTS Client, Key, Null,
          Operation, \* records with op, key and, in a put, val
          Fallible   \* allocations may fail

VARIABLES store,    \* the table
          pending,  \* the operation each client waits for
          result    \* its result, once it has taken effect

Ok == [status |-> "ok"]
Error == [status |-> "error"]
Failed == [status |-> "failed"]    \* no answer: the connection is closed

vars == <<store, pending, result>>

Init ==
    /\ store = [k \in Key |-> Null]
    /\ pending = [c \in Client |-> Null]
    /\ result = [c \in Client |-> Null]

Invoke(c) ==
    /\ pending[c] = Null
    /\ \E o \in Operation : pending' = [pending EXCEPT ![c] = o]
    /\ UNCHANGED <<store, result>>

TakesEffect(c, newStore, res) ==
    /\ pending[c] # Null /\ result[c] = Null
    /\ store' = newStore
    /\ result' = [result EXCEPT ![c] = res]
    /\ UNCHANGED pending

Put(c) ==
    /\ pending[c] # Null /\ pending[c].op = "put"
    /\ TakesEffect(c, [store EXCEPT ![pending[c].key] = pending[c].val], Ok)

Del(c) ==
    /\ pending[c] # Null /\ pending[c].op = "del"
    /\ store[pending[c].key] # Null
    /\ TakesEffect(c, [store EXCEPT ![pending[c].key] = Null], Ok)

\* A delete of a key that is not there is an error, and changes nothing.
DelMissing(c) ==
    /\ pending[c] # Null /\ pending[c].op = "del"
    /\ store[pending[c].key] = Null
    /\ TakesEffect(c, store, Error)

Get(c) ==
    /\ pending[c] # Null /\ pending[c].op = "get"
    /\ TakesEffect(c, store, [value |-> store[pending[c].key]])

\* The number of keys, the keys, or all the entries.
Read(c) ==
    LET present == {k \in Key : store[k] # Null} IN
    /\ pending[c] # Null
    /\ \/ /\ pending[c].op = "size"
          /\ TakesEffect(c, store, [size |-> Cardinality(present)])
       \/ /\ pending[c].op = "keys"
          /\ TakesEffect(c, store, [keys |-> present])
       \/ /\ pending[c].op = "table"
          /\ TakesEffect(c, store, [table |-> store])

Fail(c) ==
    /\ Fallible
    /\ \E res \in {Error, Failed} : TakesEffect(c, store, res)

Return(c) ==
    /\ result[c] # Null
    /\ pending' = [pending EXCEPT ![c] = Null]
    /\ result' = [result EXCEPT ![c] = Null]
    /\ UNCHANGED store

Next == \E c \in Client :
    \/ Invoke(c) \/ Return(c)
    \/ Put(c) \/ Del(c) \/ DelMissing(c) \/ Get(c) \/ Read(c) \/ Fail(c)

Spec == Init /\ [][Next]_vars
=============================================================================
