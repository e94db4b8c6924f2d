------------------------------- MODULE MCPool -------------------------------
(* Small pools: clients and workers are interchangeable.  Callers open one   *)
(* pool; clients and workers are model values.                               *)
EXTENDS Pool, TLC

Symmetry == Permutations(Client) \cup Permutations(Worker)
=============================================================================
