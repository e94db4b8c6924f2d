------------------------------ MODULE MCMount ------------------------------
(* A file beside a directory with a file: every tree on these names. *)
EXTENDS Mount, TLC

f  == << "f" >>
d  == << "d" >>
de == << "d", "e" >>

MCPath == { f, d, de }

Old == File(<< "new" >>)

MCTrees == { t \in [Path -> {Absent, Folder, Old}] : Shaped(t) }

All == {"write", "append", "mkdir", "remove", "rename"}

\* ReadOnly hides them all; without AppendFileFS an append rewrites.
MCInterfaces == { All, All \ {"append"}, {} }

Symmetry == Permutations(Sandbox)
=============================================================================
