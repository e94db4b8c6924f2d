------------------------------ MODULE Overlay ------------------------------
(***************************************************************************)
(* Overlay (fs_extra.go): a copy-on-write filesystem.  Reads fall through  *)
(* to Base; writes go to a MemFS above it; what is deleted from Base is    *)
(* noted in a whiteout.  The sandboxes that share an Overlay call it       *)
(* concurrently.                                                           *)
(*                                                                         *)
(* Every method holds Overlay.mu from its first line to its last and is    *)
(* one action, but for Remove: it lets the lock go to read a directory.    *)
(***************************************************************************)
EXTENDS Paths

CONSTANTS
  Bases,        \* what the filesystem below may hold
  Chunk,        \* what code writes
  MaxChunks,    \* bound: chunks in a file
  Remover,      \* goroutines that may be in Remove at a time
  NotExistOnly, \* Base reports absence by fs.ErrNotExist itself, as fstest does,
                \* not by an errno that only errors.Is equates with it
  WildRenames   \* code renames onto itself, or onto a directory

ASSUME OverlayAssumption ==
  /\ \A b \in Bases :
       b = [p \in Path |-> b[p]] /\ (\A p \in Path : IsNode(b[p])) /\ Shaped(b)
  /\ MaxChunks \in Nat
  /\ NotExistOnly \in BOOLEAN
  /\ WildRenames \in BOOLEAN

VARIABLES
  base,      \* Base, which never changes
  o,         \* the Overlay: its upper layer, whiteout and opaque sets
  removing   \* per goroutine: where it is in Remove, and the name

vars == << base, o, removing >>

Mem == INSTANCE MemFS

Outside == [ at |-> "rest", path |-> Root ]

NoEntries == [p \in Path |-> Absent]

\* An operation returns whether it succeeded and the Overlay after it.
Done(ov)   == [ ok |-> TRUE,  o |-> ov ]
Failed(ov) == [ ok |-> FALSE, o |-> ov ]

InUpper(ov, p) == Mem!Stat(ov.upper, p) # Absent

(***************************************************************************)
(* Reading                                                                 *)
(***************************************************************************)

\* A whiteout that nothing in the upper layer covers, or an opaque directory.
hidden(ov, p) ==
  \E n \in Chain(p) :
    \/ n \in ov.whiteout /\ ~InUpper(ov, n)
    \/ n \in ov.opaque /\ n # p

gone(ov, p) == hidden(ov, p) \/ p \in ov.whiteout

stat(ov, p) ==
  IF InUpper(ov, p) THEN Mem!Stat(ov.upper, p)
  ELSE IF gone(ov, p) THEN Absent
  ELSE base[p]

\* readFile: the node it reads; Folder and Absent are its errors.
readFile(ov, p) ==
  IF IsFile(Mem!Stat(ov.upper, p)) THEN Mem!Stat(ov.upper, p)
  ELSE IF gone(ov, p) THEN Absent
  ELSE base[p]

\* Mutant: deleted names are listed.
ReadDirAll(ov, p) ==
  IF stat(ov, p) # Folder THEN {}
  ELSE (IF p \in ov.opaque \/ hidden(ov, p) THEN {}
        ELSE { q \in Children(p) : base[q] # Absent })
       \cup Mem!ReadDir(ov.upper, p)

\* ReadDir: empty also where it fails.
ReadDir(ov, p) ==
  IF stat(ov, p) # Folder THEN {}
  ELSE (IF p \in ov.opaque \/ hidden(ov, p) THEN {}
        ELSE { q \in Children(p) : base[q] # Absent /\ q \notin ov.whiteout })
       \cup Mem!ReadDir(ov.upper, p)

Deleted(ov) == { p \in ov.whiteout : base[p] # Absent }

(***************************************************************************)
(* Writing                                                                 *)
(***************************************************************************)

\* The directories from the mount to d, as far as the upper layer lacks them.
ensureUpperDir(ov, d) ==
  IF \A n \in Chain(d) : stat(ov, n) = Folder
  THEN Done([ov EXCEPT !.upper =
         [p \in Path |-> IF p \in Chain(d) /\ ~InUpper(ov, p) THEN Folder ELSE @[p]]])
  ELSE Failed(ov)

\* The write that ends WriteFile and AppendFile.
store(ov, p, data) ==
  LET e == ensureUpperDir(ov, Dir(p))
      w == Mem!WriteFile(e.o.upper, p, data)
  IN IF e.ok
     THEN [ ok |-> w.ok,
            o  |-> [ upper    |-> w.m,
                     whiteout |-> ov.whiteout \ {p},
                     opaque   |-> ov.opaque ] ]
     ELSE Failed(ov)

\* Mutant: a directory is not refused.
WriteFileOver(ov, p, data) == store(ov, p, data)

WriteFile(ov, p, data) ==
  IF stat(ov, p) = Folder THEN Failed(ov) ELSE store(ov, p, data)

\* isNotExist compares errors with ==: of what Base reports, only the very
\* fs.ErrNotExist passes.
isNotExist(ov, p) == readFile(ov, p) = Absent /\ (gone(ov, p) \/ NotExistOnly)

AppendFile(ov, p, x) ==
  IF IsFile(readFile(ov, p)) \/ isNotExist(ov, p)
  THEN store(ov, p, readFile(ov, p).data \o << x >>)
  ELSE Failed(ov)

Mkdir(ov, p) ==
  LET e == ensureUpperDir(ov, Dir(p))
      u == Mem!Mkdir(e.o.upper, p)
  IN IF stat(ov, p) = Absent /\ e.ok
     THEN [ ok |-> u.ok,
            o  |-> [ upper    |-> u.m,
                     whiteout |-> ov.whiteout \ {p},
                     opaque   |-> ov.opaque \cup ({p} \cap ov.whiteout) ] ]
     ELSE Failed(ov)

\* Mutant: what is only in Base is not noted.
finishRemoveForgets(ov, p) ==
  LET u == Mem!Remove(ov.upper, p) IN
  IF InUpper(ov, p) /\ ~u.ok THEN Failed(ov)
  ELSE Done([ov EXCEPT !.upper = IF InUpper(ov, p) THEN u.m ELSE @,
                       !.opaque = @ \ {p}])

\* Remove, once the name was found and, if a directory, found empty.
finishRemove(ov, p) ==
  LET u == Mem!Remove(ov.upper, p) IN
  IF InUpper(ov, p) /\ ~u.ok THEN Failed(ov)
  ELSE Done([ upper    |-> IF InUpper(ov, p) THEN u.m ELSE ov.upper,
              whiteout |-> IF base[p] # Absent THEN ov.whiteout \cup {p}
                                               ELSE ov.whiteout,
              opaque   |-> ov.opaque \ {p} ])

\* Directories are not renamed.  Copies the file, then takes the old one away.
Rename(ov, p, q) ==
  LET e == ensureUpperDir(ov, Dir(q))
      w == Mem!WriteFile(e.o.upper, q, readFile(ov, p).data)
      u == Mem!Remove(w.m, p)
  IN IF ~IsFile(stat(ov, p)) \/ ~e.ok THEN Failed(ov)
     ELSE IF ~w.ok THEN Failed(e.o)
     ELSE Done([ upper    |-> IF Mem!Stat(w.m, p) # Absent THEN u.m ELSE w.m,
                 whiteout |-> IF base[p] # Absent THEN (ov.whiteout \ {q}) \cup {p}
                                                  ELSE ov.whiteout \ {q},
                 opaque   |-> ov.opaque ])

(***************************************************************************)
(* The specification                                                       *)
(***************************************************************************)

Init ==
  /\ base \in Bases
  /\ o = [ upper |-> NoEntries, whiteout |-> {}, opaque |-> {} ]
  /\ removing = [r \in Remover |-> Outside]

Write(p) ==
  /\ \E x \in Chunk : o' = WriteFile(o, p, << x >>).o
  /\ UNCHANGED << base, removing >>

AppendTo(p) ==
  /\ Len(readFile(o, p).data) < MaxChunks
  /\ \E x \in Chunk : o' = AppendFile(o, p, x).o
  /\ UNCHANGED << base, removing >>

MakeDir(p) ==
  /\ o' = Mkdir(o, p).o
  /\ UNCHANGED << base, removing >>

Wild(p, q) == p = q \/ stat(o, q) = Folder

Move(p, q) ==
  /\ Wild(p, q) => WildRenames
  /\ o' = Rename(o, p, q).o
  /\ UNCHANGED << base, removing >>

\* Remove of a file, or of nothing, is over in one critical section.
RemoveFile(p) ==
  /\ IsFile(stat(o, p))
  /\ o' = finishRemove(o, p).o
  /\ UNCHANGED << base, removing >>

RemoveBegin(r, p) ==
  /\ removing[r] = Outside
  /\ stat(o, p) = Folder
  /\ removing' = [removing EXCEPT ![r] = [ at |-> "list", path |-> p ]]
  /\ UNCHANGED << base, o >>

\* Mutant: nobody asks whether the directory is empty.
RemoveListBlind(r) ==
  /\ removing[r].at = "list"
  /\ removing' = [removing EXCEPT ![r].at = "finish"]
  /\ UNCHANGED << base, o >>

\* readDirLocked; a directory that is gone by now reads as empty.
RemoveList(r) ==
  /\ removing[r].at = "list"
  /\ removing' = [removing EXCEPT ![r] =
       IF ReadDir(o, @.path) = {} THEN [ at |-> "finish", path |-> @.path ]
                                  ELSE Outside]
  /\ UNCHANGED << base, o >>

RemoveFinish(r) ==
  /\ removing[r].at = "finish"
  /\ o' = finishRemove(o, removing[r].path).o
  /\ removing' = [removing EXCEPT ![r] = Outside]
  /\ UNCHANGED base

Next ==
  \/ \E p \in Path :
       \/ Write(p) \/ AppendTo(p) \/ MakeDir(p) \/ RemoveFile(p)
       \/ \E q \in Path : Move(p, q)
       \/ \E r \in Remover : RemoveBegin(r, p)
  \/ \E r \in Remover : RemoveList(r) \/ RemoveFinish(r)

Spec == Init /\ [][Next]_vars

(***************************************************************************)
(* Properties                                                              *)
(***************************************************************************)

\* The type invariant.  The upper layer is a tree of its own, with an entry for
\* every directory that something was written below.
TypeOK ==
  /\ base \in Bases
  /\ DOMAIN o.upper = Path
  /\ Shaped(o.upper)
  /\ o.whiteout \in SUBSET Path
  /\ o.opaque \in SUBSET Path
  /\ removing \in [Remover -> [ at : {"rest", "list", "finish"},
                                path : Path \cup {Root} ]]

\* What the sandbox sees.
seen == [p \in Path |-> stat(o, p)]

\* Listing a directory and looking a name up never disagree, whichever layer,
\* whiteout or opaque mark decides.
ListingAgrees ==
  \A d \in Path \cup {Root} :
    stat(o, d) = Folder =>
      ReadDir(o, d) = { q \in Children(d) : seen[q] # Absent }

\* Upper and Deleted tell the whole story: whoever takes the deleted names from
\* Base, and puts the upper layer over it, gets what the sandbox saw.
ChangesComplete ==
  \A p \in Path :
    seen[p] = IF o.upper[p] # Absent THEN o.upper[p]
              ELSE IF p \in Deleted(o) THEN Absent
              ELSE base[p]

PlainFS == INSTANCE Tree WITH tree <- seen

\* Every operation succeeds exactly when a plain filesystem would allow it.
AnswersAgree ==
  \A p \in Path :
    /\ \A x \in Chunk :
         /\ WriteFile(o, p, << x >>).ok <=> PlainFS!CanWrite(seen, p)
         /\ AppendFile(o, p, x).ok <=> PlainFS!CanWrite(seen, p)
    /\ Mkdir(o, p).ok <=> PlainFS!CanMkdir(seen, p)
    /\ \A q \in Path : ~Wild(p, q) =>
         (Rename(o, p, q).ok <=> PlainFS!CanRename(seen, p, q))

\* An Overlay is a plain filesystem: also when several goroutines write, create
\* and delete at the same time, each operation takes effect at once or not at
\* all, on what the sandbox sees.
ImplementsTree == PlainFS!TreeSpec

(***************************************************************************)
(* What the code says and does not do                                      *)
(***************************************************************************)

\* Rename "renames a file" (fs.go, RenameFS): one that succeeds leaves the file
\* under its new name.
RenameArrives ==
  [][ \A p, q \in Path :
        Move(p, q) /\ Rename(o, p, q).ok => stat(o', q) = stat(o, p) ]_vars

\* "Recreating a deleted base directory: its old contents stay gone"
\* (fs_extra.go, Mkdir): ReadFile reads nothing where the sandbox sees no file.
OldStaysGone ==
  \A p \in Path : IsFile(readFile(o, p)) => IsFile(seen[p])
=============================================================================
