------------------------------- MODULE Paths -------------------------------
(***************************************************************************)
(* Names and nodes of the filesystems that serve a sandbox (fs.go,         *)
(* fs_extra.go).  A name is the sequence of its elements, relative to the  *)
(* mount; the mount itself, "." in the code, is the empty sequence.        *)
(***************************************************************************)
EXTENDS Integers, Sequences

CONSTANT Path   \* the names in play, the mount excluded

Root == << >>

\* path.Dir
Dir(p) == SubSeq(p, 1, Len(p) - 1)

\* p and the directories above it, the mount excluded.
Chain(p) == { SubSeq(p, 1, i) : i \in 1..Len(p) }

ASSUME PathAssumption ==
  \A p \in Path :
    /\ p \in Seq({ p[i] : i \in 1..Len(p) })
    /\ Len(p) > 0
    /\ Chain(p) \subseteq Path

Children(p) == { q \in Path : Dir(q) = p }

Below(q, p) == Len(q) > Len(p) /\ SubSeq(q, 1, Len(p)) = p

\* What a name stands for; data is the chunks written to a file.
File(data) == [ kind |-> "file", data |-> data ]
Folder     == [ kind |-> "dir",  data |-> << >> ]
Absent     == [ kind |-> "none", data |-> << >> ]

IsFile(node) == node.kind = "file"
IsNode(node) == node \in {Absent, Folder} \/ node = File(node.data)

\* The tree has no hole: what exists has directories above it.
Shaped(t) ==
  \A p \in Path : t[p] # Absent => \A n \in Chain(Dir(p)) : t[n] = Folder
=============================================================================
