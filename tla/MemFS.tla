------------------------------- MODULE MemFS -------------------------------
(***************************************************************************)
(* MemFS (fs.go): an in-memory filesystem over the map type fstest.MapFS.  *)
(* m gives each name its entry.  An operation returns the error it would   *)
(* (ok) and the map after it.                                              *)
(***************************************************************************)
EXTENDS Paths

Done(m)   == [ ok |-> TRUE,  m |-> m ]
Failed(m) == [ ok |-> FALSE, m |-> m ]

\* MapFS reports a directory for a name that only has entries below it.
Stat(m, p) ==
  IF p = Root THEN Folder
  ELSE IF m[p] # Absent THEN m[p]
  ELSE IF \E q \in Path : Below(q, p) /\ m[q] # Absent THEN Folder
  ELSE Absent

ReadDir(m, p) == { q \in Children(p) : Stat(m, q) # Absent }

WriteFile(m, p, data) ==
  IF m[p] # Folder /\ Stat(m, Dir(p)) = Folder
  THEN Done([m EXCEPT ![p] = File(data)])
  ELSE Failed(m)

Mkdir(m, p) ==
  IF Stat(m, p) = Absent /\ Stat(m, Dir(p)) = Folder
  THEN Done([m EXCEPT ![p] = Folder])
  ELSE Failed(m)

Remove(m, p) ==
  IF Stat(m, p) # Absent /\ (Stat(m, p) = Folder => ReadDir(m, p) = {})
  THEN Done([m EXCEPT ![p] = Absent])
  ELSE Failed(m)
=============================================================================
