-------------------------------- MODULE Rpc --------------------------------
(***************************************************************************)
(* What network_send_receive promises the client stub: the server handles  *)
(* a request at most once and as it was sent, and the call returns the     *)
(* answer to that very request, or an error.                               *)
(***************************************************************************)
EXTENDS Naturals

VARIABLES call,      \* the number of the last call
          waiting,   \* it has not returned
          handled,   \* the last request the server handled, 0 for none
          returned   \* the call whose answer the last call returned,
                     \* 0 for an error

vars == <<call, waiting, handled, returned>>

Init == call = 0 /\ waiting = FALSE /\ handled = 0 /\ returned = 0

Send ==
    /\ ~waiting
    /\ call' = call + 1
    /\ waiting' = TRUE
    /\ returned' = 0
    /\ UNCHANGED handled

\* No request could be made.
Refuse ==
    /\ ~waiting
    /\ returned' = 0
    /\ UNCHANGED <<call, waiting, handled>>

\* A client that has given up does not take its request back.
Handle ==
    /\ handled # call
    /\ handled' = call
    /\ UNCHANGED <<call, waiting, returned>>

Return ==
    /\ waiting /\ handled = call
    /\ waiting' = FALSE
    /\ returned' = call
    /\ UNCHANGED <<call, handled>>

Fail ==
    /\ waiting
    /\ waiting' = FALSE
    /\ UNCHANGED <<call, handled, returned>>

Next == Send \/ Refuse \/ Handle \/ Return \/ Fail

Spec == Init /\ [][Next]_vars
=============================================================================
