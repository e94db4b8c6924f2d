----------------------------- MODULE MCObjects -----------------------------
(* An instance of Objects: a class with attributes and an object of it, two sessions. *)
EXTENDS Objects, TLC

CONSTANTS s1, s2, c1, o1, i1, i2, i3

MCClassOf == o1 :> c1

Symmetry == Permutations({s1, s2}) \cup Permutations({i1, i2, i3})
=============================================================================
