------------------------------- MODULE Mount -------------------------------
(***************************************************************************)
(* FS (fs.go): how the pathlib and open() calls of sandboxes are served    *)
(* from a Go filesystem.  Most calls look at a name first and act on it    *)
(* then, and nothing is locked in between: here the sandboxes that share a *)
(* filesystem take their steps in any order.  The filesystem itself is a   *)
(* Tree, whose operations are atomic; the quota has a lock of its own.     *)
(***************************************************************************)
EXTENDS Tree, FiniteSets

CONSTANTS
  Sandbox,     \* sandboxes with a call on its way
  Interfaces,  \* what filesystems may implement beyond fs.FS
  Limit,       \* WriteQuota.Limit, in chunks
  Trees,       \* what a filesystem may hold at first
  MaxSize      \* bound: chunks in a file, up to which the quota is reset

ASSUME MountAssumption ==
  /\ Interfaces \subseteq SUBSET {"write", "append", "mkdir", "remove", "rename"}
  /\ IsFiniteSet(Sandbox)
  /\ Limit \in Nat \ {0}
  /\ MaxSize \in Nat
  /\ \A t \in Trees :
       t = [p \in Path |-> t[p]] /\ (\A p \in Path : IsNode(t[p])) /\ Shaped(t)

VARIABLES
  can,      \* the optional interfaces of FS.FS
  written,  \* WriteQuota.written
  put,      \* chunks that calls wrote since the quota was reset
  job       \* per sandbox: its call, and how far handle is with it

vars == << tree, can, written, put, job >>

(***************************************************************************)
(* Calls                                                                   *)
(***************************************************************************)

Writing  == {"write", "append", "open_w"}
Looking  == {"read", "open_r", "open_a", "unlink", "rmdir", "mkdir"}

Ask(op, path, dest, parents, existOK) ==
  [ op |-> op, path |-> path, dest |-> dest, parents |-> parents, existOK |-> existOK ]

NoCall == Ask("none", Root, Root, FALSE, FALSE)

Call ==
  { Ask(op, p, Root, FALSE, FALSE) : op \in (Writing \cup Looking) \ {"mkdir"}, p \in Path }
  \cup { Ask("mkdir", p, Root, b, e) : p \in Path, b \in BOOLEAN, e \in BOOLEAN }
  \cup { Ask("rename", p, q, FALSE, FALSE) : p, q \in Path }

\* What a call writes.  To open a file is to write nothing.
Word == CHOOSE x \in Chunk : TRUE
Data(c) == IF c.op \in {"write", "append"} THEN << Word >> ELSE << >>

Exists(p) == At(tree, p) # Absent

(***************************************************************************)
(* What a call does if nobody interferes                                   *)
(***************************************************************************)

Outcome(ok, t) == [ ok |-> ok, tree |-> IF ok THEN t ELSE tree ]

Fits(c) == written + Len(Data(c)) <= Limit

Expected(c) ==
  LET p == c.path
      fresh == [tree EXCEPT ![p] = File(Data(c))]
  IN
  CASE c.op \in {"read", "open_r"} -> Outcome(IsFile(tree[p]), tree)
    [] c.op = "open_a" ->
         Outcome(Exists(p) \/ ("write" \in can /\ CanWrite(tree, p)),
                 IF Exists(p) THEN tree ELSE fresh)
    [] c.op \in {"write", "open_w"} ->
         Outcome("write" \in can /\ Fits(c) /\ CanWrite(tree, p), fresh)
    [] c.op = "append" ->
         Outcome(can \cap {"append", "write"} # {} /\ Fits(c) /\ CanWrite(tree, p),
                 [tree EXCEPT ![p] = File(@.data \o Data(c))])
    [] c.op = "mkdir" ->
         Outcome(\/ c.existOK /\ tree[p] = Folder
                 \/ /\ "mkdir" \in can
                    /\ IF c.parents THEN /\ ~Exists(p)
                                         /\ \A q \in Chain(p) : ~IsFile(tree[q])
                                    ELSE CanMkdir(tree, p),
                 [q \in Path |-> IF q \in Chain(p) THEN Folder ELSE tree[q]])
    [] c.op \in {"unlink", "rmdir"} ->
         Outcome(/\ "remove" \in can
                 /\ CanRemove(tree, p)
                 /\ IsFile(tree[p]) <=> c.op = "unlink",
                 [tree EXCEPT ![p] = Absent])
    [] c.op = "rename" ->
         Outcome("rename" \in can /\ CanRename(tree, p, c.dest),
                 [tree EXCEPT ![c.dest] = tree[p], ![p] = Absent])

\* Somebody interfered: anything may come of the call.
Anything == [ ok |-> FALSE, tree |-> << >> ]

(***************************************************************************)
(* Steps of handle                                                         *)
(***************************************************************************)

Rest(ok) == [ call |-> NoCall, at |-> "rest", ok |-> ok, names |-> << >>, found |-> << >>,
              want |-> Anything ]

\* s goes on with job j; the others are disturbed if something changed.
Becomes(s, j) ==
  job' = [i \in Sandbox |->
    IF i = s THEN j
    ELSE IF tree' = tree /\ written' = written THEN job[i]
    ELSE [job[i] EXCEPT !.want = Anything]]

GoTo(s, at) == Becomes(s, [job[s] EXCEPT !.at = at])
Answer(s, ok) == Becomes(s, Rest(ok))

Begin(s, c) ==
  /\ job[s].at = "rest"
  /\ UNCHANGED << tree, can, written, put >>
  /\ Becomes(s, [ call |-> c, ok |-> FALSE, names |-> << c.path >>, found |-> << >>,
                  want |-> Expected(c),
                  at |-> IF c.op \in Writing THEN "charge"
                         ELSE IF c.op \in Looking THEN "look"
                         ELSE "rename" ])

\* Mutant: the bytes are checked, but not counted.
chargeNot(s) ==
  LET n == Len(Data(job[s].call)) IN
  /\ job[s].at = "charge"
  /\ UNCHANGED << tree, can, put, written >>
  /\ IF written + n > Limit THEN Answer(s, FALSE) ELSE GoTo(s, "write")

\* WriteQuota.charge, with which writeFile begins.
charge(s) ==
  LET n == Len(Data(job[s].call)) IN
  /\ job[s].at = "charge"
  /\ UNCHANGED << tree, can, put >>
  /\ IF written + n > Limit
     THEN written' = written /\ Answer(s, FALSE)
     ELSE written' = written + n /\ GoTo(s, "write")

\* The write; an append without AppendFileFS reads first and rewrites then.
writeFile(s) ==
  LET c == job[s].call
      native == c.op = "append" /\ "append" \in can
  IN
  /\ job[s].at = "write"
  /\ UNCHANGED << can, written >>
  /\ \/ /\ native
        /\ AppendTo(c.path, Word)
        /\ put' = put + 1
        /\ Answer(s, TRUE)
     \/ /\ c.op = "append" /\ ~native /\ "write" \in can
        /\ UNCHANGED << tree, put >>
        /\ GoTo(s, "reread")
     \/ /\ c.op # "append" /\ "write" \in can
        /\ Write(c.path, Data(c))
        /\ put' = put + Len(Data(c))
        /\ Answer(s, TRUE)
     \/ /\ \/ c.op = "append" /\ can \cap {"append", "write"} = {}
           \/ c.op # "append" /\ "write" \notin can
           \/ (native \/ c.op # "append") /\ ~CanWrite(tree, c.path)
        /\ UNCHANGED << tree, put >>
        /\ Answer(s, FALSE)

rewriteRead(s) ==
  LET p == job[s].call.path IN
  /\ job[s].at = "reread"
  /\ UNCHANGED << tree, can, written, put >>
  /\ IF tree[p] = Folder THEN Answer(s, FALSE)
     ELSE Becomes(s, [job[s] EXCEPT !.at = "rewrite", !.found = tree[p].data])

rewrite(s) ==
  LET c == job[s].call IN
  /\ job[s].at = "rewrite"
  /\ UNCHANGED << can, written >>
  /\ \/ /\ Write(c.path, job[s].found \o Data(c))
        /\ put' = put + Len(Data(c))
        /\ Answer(s, TRUE)
     \/ /\ ~CanWrite(tree, c.path)
        /\ UNCHANGED << tree, put >>
        /\ Answer(s, FALSE)

\* readFile, and open for reading: Stat, and no directory.
lookFile(s) ==
  LET c == job[s].call IN
  /\ job[s].at = "look"
  /\ c.op \in {"read", "open_r"}
  /\ UNCHANGED << tree, can, written, put >>
  /\ IF c.op = "read" /\ IsFile(tree[c.path]) THEN GoTo(s, "read")
     ELSE Answer(s, IsFile(tree[c.path]))

\* open for appending creates a file only where it found nothing.
lookAppend(s) ==
  /\ job[s].at = "look"
  /\ job[s].call.op = "open_a"
  /\ UNCHANGED << tree, can, written, put >>
  /\ IF Exists(job[s].call.path) THEN Answer(s, TRUE) ELSE GoTo(s, "charge")

\* unlink and rmdir find out what they are to remove.
lookRemove(s) ==
  LET c == job[s].call IN
  /\ job[s].at = "look"
  /\ c.op \in {"unlink", "rmdir"}
  /\ UNCHANGED << tree, can, written, put >>
  /\ IF /\ Exists(c.path)
        /\ IsFile(tree[c.path]) <=> c.op = "unlink"
        /\ "remove" \in can
     THEN GoTo(s, "remove")
     ELSE Answer(s, FALSE)

readFile(s) ==
  /\ job[s].at = "read"
  /\ UNCHANGED << tree, can, written, put >>
  /\ Answer(s, IsFile(tree[job[s].call.path]))

remove(s) ==
  LET p == job[s].call.path IN
  /\ job[s].at = "remove"
  /\ UNCHANGED << can, written, put >>
  /\ \/ Remove(p) /\ Answer(s, TRUE)
     \/ ~CanRemove(tree, p) /\ UNCHANGED tree /\ Answer(s, FALSE)

rename(s) ==
  LET c == job[s].call IN
  /\ job[s].at = "rename"
  /\ UNCHANGED << can, written, put >>
  /\ \/ "rename" \in can /\ Rename(c.path, c.dest) /\ Answer(s, TRUE)
     \/ /\ ~("rename" \in can /\ CanRename(tree, c.path, c.dest))
        /\ UNCHANGED tree
        /\ Answer(s, FALSE)

\* mkdir calls itself for a parent that is missing: names is what it is to make,
\* the name it is at in front.
Making(s) == Head(job[s].names)

\* This name is there: the mkdir that wanted it goes on.
Made(s) ==
  IF Len(job[s].names) = 1 THEN Answer(s, TRUE)
  ELSE Becomes(s, [job[s] EXCEPT !.at = "make", !.names = Tail(@)])

\* Mutant: a file in the way passes for the directory.
mkdirLookLoose(s) ==
  LET n == Making(s) IN
  /\ job[s].at = "look"
  /\ job[s].call.op = "mkdir"
  /\ UNCHANGED << tree, can, written, put >>
  /\ IF Exists(n)
     THEN IF job[s].call.existOK \/ n # job[s].call.path THEN Made(s) ELSE Answer(s, FALSE)
     ELSE IF "mkdir" \notin can THEN Answer(s, FALSE)
     ELSE GoTo(s, IF job[s].call.parents /\ Dir(n) # Root THEN "parent" ELSE "make")

mkdirLook(s) ==
  LET n == Making(s)
      existOK == job[s].call.existOK \/ n # job[s].call.path
  IN
  /\ job[s].at = "look"
  /\ job[s].call.op = "mkdir"
  /\ UNCHANGED << tree, can, written, put >>
  /\ IF Exists(n)
     THEN IF existOK /\ tree[n] = Folder THEN Made(s) ELSE Answer(s, FALSE)
     ELSE IF "mkdir" \notin can THEN Answer(s, FALSE)
     ELSE GoTo(s, IF job[s].call.parents /\ Dir(n) # Root THEN "parent" ELSE "make")

mkdirParent(s) ==
  /\ job[s].at = "parent"
  /\ UNCHANGED << tree, can, written, put >>
  /\ IF Exists(Dir(Making(s))) THEN GoTo(s, "make")
     ELSE Becomes(s, [job[s] EXCEPT !.at = "look", !.names = << Dir(Making(s)) >> \o @])

mkdirMake(s) ==
  /\ job[s].at = "make"
  /\ UNCHANGED << can, written, put >>
  /\ \/ Mkdir(Making(s)) /\ Made(s)
     \/ ~CanMkdir(tree, Making(s)) /\ UNCHANGED tree /\ Answer(s, FALSE)

\* WriteQuota.Reset: between runs.
Reset ==
  /\ \A s \in Sandbox : job[s].at = "rest"
  /\ written # 0
  /\ \A p \in Path : Len(tree[p].data) < MaxSize
  /\ written' = 0
  /\ put' = 0
  /\ UNCHANGED << tree, can, job >>

(***************************************************************************)
(* The specification                                                       *)
(***************************************************************************)

Init ==
  /\ tree \in Trees
  /\ can \in Interfaces
  /\ written = 0
  /\ put = 0
  /\ job = [s \in Sandbox |-> Rest(TRUE)]

Next ==
  \/ Reset
  \/ \E s \in Sandbox :
       \/ \E c \in Call : Begin(s, c)
       \/ charge(s) \/ writeFile(s) \/ rewriteRead(s) \/ rewrite(s)
       \/ lookFile(s) \/ readFile(s) \/ lookAppend(s)
       \/ lookRemove(s) \/ remove(s) \/ rename(s)
       \/ mkdirLook(s) \/ mkdirParent(s) \/ mkdirMake(s)

Spec == Init /\ [][Next]_vars

(***************************************************************************)
(* Properties                                                              *)
(***************************************************************************)

\* The type invariant.  The names mkdir is at lead down to the one it was asked
\* for.
TypeOK ==
  /\ Shaped(tree)
  /\ can \in Interfaces
  /\ written \in Nat /\ put \in Nat
  /\ \A s \in Sandbox :
       /\ job[s].call \in Call \cup {NoCall}
       /\ job[s].at = "rest" <=> job[s].call = NoCall
       /\ job[s].call.op = "mkdir" =>
            /\ job[s].names[Len(job[s].names)] = job[s].call.path
            /\ \A i \in 1..Len(job[s].names) - 1 :
                 job[s].names[i] = Dir(job[s].names[i + 1])

\* A call that nobody interferes with does all it is to do and says so, or does
\* nothing and raises: the steps of handle, with the recursion of mkdir and the
\* append that reads and rewrites, come to what one atomic operation would do.
LoneCallsAgree ==
  [][ \A s \in Sandbox :
        job[s].at # "rest" /\ job'[s].at = "rest" /\ job[s].want # Anything
          => job'[s].ok = job[s].want.ok /\ tree' = job[s].want.tree ]_vars

\* The quota caps what is written through the mount, also when several calls
\* are between their charge and their write.
QuotaHolds == put <= written /\ written <= Limit

(***************************************************************************)
(* What the code says and does not do                                      *)
(***************************************************************************)

\* "AppendFileFS appends to a file, creating it if missing" (fs.go): to open a
\* file for appending takes nothing away from it.
AppendModeKeeps ==
  [][ \A s \in Sandbox :
        job[s].call.op = "open_a" /\ job[s].at # "rest" /\ job'[s].at = "rest"
          => \A p \in Path : IsFile(tree[p]) => tree'[p] = tree[p] ]_vars
=============================================================================
