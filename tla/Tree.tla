-------------------------------- MODULE Tree --------------------------------
(***************************************************************************)
(* What sandbox code may expect of a writable filesystem: a tree of files  *)
(* and directories, in which every operation takes effect at once or not   *)
(* at all.  Module Overlay implements it; module Mount stands on it.       *)
(***************************************************************************)
EXTENDS Paths

CONSTANT Chunk   \* what code writes

VARIABLE tree

At(t, p) == IF p = Root THEN Folder ELSE t[p]

InFolder(t, p) == At(t, Dir(p)) = Folder

\* When an operation succeeds.
CanWrite(t, p)  == t[p] # Folder /\ InFolder(t, p)
CanMkdir(t, p)  == t[p] = Absent /\ InFolder(t, p)
CanRemove(t, p) == t[p] # Absent /\ \A q \in Children(p) : t[q] = Absent
CanRename(t, p, q) == p # q /\ IsFile(t[p]) /\ CanWrite(t, q)

Write(p, data) ==
  /\ CanWrite(tree, p)
  /\ tree' = [tree EXCEPT ![p] = File(data)]

AppendTo(p, x) ==
  /\ CanWrite(tree, p)
  /\ tree' = [tree EXCEPT ![p] = File(@.data \o << x >>)]

Mkdir(p) ==
  /\ CanMkdir(tree, p)
  /\ tree' = [tree EXCEPT ![p] = Folder]

Remove(p) ==
  /\ CanRemove(tree, p)
  /\ tree' = [tree EXCEPT ![p] = Absent]

Rename(p, q) ==
  /\ CanRename(tree, p, q)
  /\ tree' = [tree EXCEPT ![q] = tree[p], ![p] = Absent]

TreeInit == Shaped(tree)

\* A write of what is already there is a stuttering step.
TreeNext ==
  /\ tree' # tree
  /\ \E p \in Path :
       \/ \E x \in Chunk : Write(p, << x >>) \/ AppendTo(p, x)
       \/ Mkdir(p)
       \/ Remove(p)
       \/ \E q \in Path : Rename(p, q)

TreeSpec == TreeInit /\ [][TreeNext]_tree
=============================================================================
