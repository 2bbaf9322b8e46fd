--------------------------- MODULE MCQueriesStore ---------------------------
(* QueriesStore with two interchangeable callers. *)
EXTENDS QueriesStore, TLC

Callers == Permutations(Clients)
=============================================================================
