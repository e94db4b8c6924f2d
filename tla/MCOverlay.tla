----------------------------- MODULE MCOverlay -----------------------------
(* A file beside a directory that holds a directory with a file: every       *)
(* filesystem below on these names, and whatever the sandbox makes of them.   *)
EXTENDS Overlay, TLC

f   == << "f" >>
d   == << "d" >>
de  == << "d", "e" >>
dey == << "d", "e", "y" >>

MCPath == { f, d, de, dey }

Old == File(<< "old" >>)

MCBases == { b \in [Path -> {Absent, Folder, Old}] : Shaped(b) }

Symmetry == Permutations(Remover)
=============================================================================
