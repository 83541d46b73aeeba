---------------------------- MODULE MCListServer ----------------------------
(* ListServer with its interchangeable values and clients.                 *)
EXTENDS ListServer, TLC

Interchangeable == Permutations(Values) \cup Permutations(Clients \ Transactors)
=============================================================================
