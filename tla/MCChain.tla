------------------------------ MODULE MCChain ------------------------------
(***************************************************************************)
(* Chain on small instances.  Clients are interchangeable and so are the   *)
(* values they write; keys and servers are not (servers are numbers).      *)
(***************************************************************************)
EXTENDS Chain, TLC

Symmetry == Permutations(Client) \cup Permutations(Value)
=============================================================================
