---------------------------- MODULE MountProofs ----------------------------
(***************************************************************************)
(* Safety of a mount, for any number of sandboxes, names and interfaces:   *)
(* the quota holds although each call is charged in one step and writes in *)
(* a later one, the filesystem keeps the shape of a tree although calls    *)
(* look first and act then, and a call that nobody interferes with is as   *)
(* good as atomic although it takes many steps.                            *)
(***************************************************************************)
EXTENDS Mount, PathProofs, FiniteSetTheorems

\* A call that was charged for a chunk it has not written yet.
Owes(j) == j.at \in {"write", "reread", "rewrite"} /\ Len(Data(j.call)) = 1

Owing == { s \in Sandbox : Owes(job[s]) }

Fields == {"call", "at", "ok", "names", "found", "want"}

IsJob(j) == /\ DOMAIN j = Fields
            /\ j.at \in {"reread", "rewrite"} => j.call.op = "append"

Jobs == \A s \in Sandbox : IsJob(job[s])

Paid == /\ written \in Nat /\ put \in Nat
        /\ put + Cardinality(Owing) <= written
        /\ written <= Limit

QInv == Jobs /\ Paid

(***************************************************************************)
(* Counting the calls that owe                                             *)
(***************************************************************************)

LEMMA DataLen == \A c : Len(Data(c)) \in {0, 1}
BY DEF Data

LEMMA OwingFinite == IsFiniteSet(Owing) /\ Cardinality(Owing) \in Nat
<1>1. Owing \subseteq Sandbox /\ IsFiniteSet(Sandbox)
  BY MountAssumption DEF Owing
<1> QED BY <1>1, FS_Subset, FS_CardinalityType

\* The other calls owe what they owed.
LEMMA OthersOwe ==
  ASSUME Jobs, NEW s \in Sandbox, NEW j, Becomes(s, j)
  PROVE  /\ Owing' \ {s} = Owing \ {s}
         /\ job'[s] = j
         /\ \A i \in Sandbox \ {s} : /\ DOMAIN job'[i] = Fields
                                     /\ job'[i].at = job[i].at
                                     /\ job'[i].call = job[i].call
<1>1. job'[s] = j
  BY DEF Becomes
<1>2. ASSUME NEW i \in Sandbox, i # s
      PROVE  /\ DOMAIN job'[i] = Fields
             /\ job'[i].at = job[i].at
             /\ job'[i].call = job[i].call
  <2>1. job'[i] = job[i] \/ job'[i] = [job[i] EXCEPT !.want = Anything]
    BY <1>2 DEF Becomes
  <2>2. DOMAIN job[i] = Fields
    BY DEF Jobs, IsJob
  <2> QED BY <2>1, <2>2 DEF Fields
<1>3. ASSUME NEW i \in Sandbox, i # s PROVE i \in Owing' <=> i \in Owing
  BY <1>2, <1>3 DEF Owing, Owes
<1> QED BY <1>1, <1>2, <1>3 DEF Owing

\* A call that is charged begins to owe, one that writes owes no more.
LEMMA Borrow ==
  ASSUME NEW s \in Sandbox, s \notin Owing, Owing' \ {s} = Owing \ {s}
  PROVE  Cardinality(Owing') \in Nat /\ Cardinality(Owing') <= Cardinality(Owing) + 1
<1>1. Owing' = Owing \/ Owing' = Owing \cup {s}
  OBVIOUS
<1> QED BY <1>1, OwingFinite, FS_AddElement

LEMMA Repay ==
  ASSUME NEW s \in Sandbox, s \in Owing, s \notin Owing', Owing' \ {s} = Owing \ {s}
  PROVE  Cardinality(Owing') \in Nat /\ Cardinality(Owing') + 1 = Cardinality(Owing)
<1>1. Owing' = Owing \ {s}
  OBVIOUS
<1>2. /\ IsFiniteSet(Owing \ {s})
      /\ Cardinality(Owing \ {s}) = Cardinality(Owing) - 1
  BY OwingFinite, FS_RemoveElement
<1>3. Cardinality(Owing \ {s}) \in Nat
  BY <1>2, FS_CardinalityType
<1> QED BY <1>1, <1>2, <1>3, OwingFinite

LEMMA Keep ==
  ASSUME NEW s \in Sandbox, s \in Owing' => s \in Owing, Owing' \ {s} = Owing \ {s}
  PROVE  Cardinality(Owing') \in Nat /\ Cardinality(Owing') <= Cardinality(Owing)
<1>1. Owing' \subseteq Owing
  OBVIOUS
<1> QED BY <1>1, OwingFinite, FS_Subset, FS_CardinalityType

\* What a step may do to the books.
LEMMA StepKeeps ==
  ASSUME QInv, NEW s \in Sandbox, NEW j, Becomes(s, j), IsJob(j),
         \/ UNCHANGED << written, put >> /\ (Owes(j) => Owes(job[s]))
         \/ /\ put' = put /\ written' = written + 1 /\ written' <= Limit
            /\ ~Owes(job[s])
         \/ /\ put' = put + 1 /\ written' = written
            /\ Owes(job[s]) /\ ~Owes(j)
  PROVE  QInv'
<1> USE DEF QInv, Paid
<1>1. /\ Owing' \ {s} = Owing \ {s}
      /\ s \in Owing' <=> Owes(j)
      /\ s \in Owing <=> Owes(job[s])
      /\ Jobs'
  <2>1. Jobs'
    BY OthersOwe DEF Jobs, IsJob
  <2> QED BY <2>1, OthersOwe DEF Owing, Owes
<1>2. Cardinality(Owing) \in Nat
  BY OwingFinite
<1>3. CASE UNCHANGED << written, put >> /\ (Owes(j) => Owes(job[s]))
  BY <1>1, <1>2, <1>3, Keep
<1>4. CASE put' = put /\ written' = written + 1 /\ written' <= Limit /\ ~Owes(job[s])
  BY <1>1, <1>2, <1>4, Borrow
<1>5. CASE put' = put + 1 /\ written' = written /\ Owes(job[s]) /\ ~Owes(j)
  BY <1>1, <1>2, <1>5, Repay
<1> QED BY <1>3, <1>4, <1>5

LEMMA RestIsJob == \A ok : IsJob(Rest(ok)) /\ ~Owes(Rest(ok))
BY DEF IsJob, Rest, Fields, Owes

\* Most steps neither charge nor write, and end in an answer or in a place
\* where nothing is owed.
LEMMA FreeStep ==
  ASSUME QInv, NEW s \in Sandbox, UNCHANGED << written, put >>,
         \/ \E ok : Answer(s, ok)
         \/ \E at \in {"charge", "read", "remove", "make", "parent"} : GoTo(s, at)
  PROVE  QInv'
<1>1. ASSUME NEW ok, Answer(s, ok) PROVE QInv'
  BY <1>1, RestIsJob, StepKeeps DEF Answer
<1>2. ASSUME NEW at \in {"charge", "read", "remove", "make", "parent"}, GoTo(s, at)
      PROVE  QInv'
  <2> DEFINE j == [job[s] EXCEPT !.at = at]
  <2>1. IsJob(job[s])
    BY DEF QInv, Jobs
  <2>2. IsJob(j) /\ ~Owes(j)
    BY <2>1 DEF IsJob, Fields, Owes
  <2> QED BY <1>2, <2>2, StepKeeps DEF GoTo
<1> QED BY <1>1, <1>2

LEMMA BeginQuota ==
  ASSUME QInv, NEW s \in Sandbox, NEW c, Begin(s, c) PROVE QInv'
<1> DEFINE j == [ call |-> c, ok |-> FALSE, names |-> << c.path >>, found |-> << >>,
                  want |-> Expected(c),
                  at |-> IF c.op \in Writing THEN "charge"
                         ELSE IF c.op \in Looking THEN "look"
                         ELSE "rename" ]
<1>1. IsJob(j) /\ ~Owes(j)
  BY DEF IsJob, Fields, Owes
<1> QED BY <1>1, StepKeeps DEF Begin

LEMMA chargeQuota ==
  ASSUME QInv, NEW s \in Sandbox, charge(s) PROVE QInv'
<1> DEFINE n == Len(Data(job[s].call))
           j == [job[s] EXCEPT !.at = "write"]
<1>1. job[s].at = "charge" /\ put' = put
  BY DEF charge
<1>2. IsJob(job[s]) /\ ~Owes(job[s]) /\ IsJob(j)
  BY <1>1 DEF QInv, Jobs, IsJob, Fields, Owes
<1>3. CASE written + n > Limit
  BY <1>1, <1>3, FreeStep DEF charge
<1>4. CASE ~(written + n > Limit)
  <2>1. written' = written + n /\ Becomes(s, j)
    BY <1>4 DEF charge, GoTo
  <2>2. n = 0 => ~Owes(j)
    BY <1>2 DEF Owes, IsJob, Fields
  <2>3. written \in Nat /\ n \in {0, 1} /\ Limit \in Nat
    BY DataLen, MountAssumption DEF QInv, Paid
  <2>4. CASE n = 0
    BY <1>1, <1>2, <2>1, <2>2, <2>3, <2>4, StepKeeps
  <2>5. CASE n = 1
    BY <1>1, <1>2, <1>4, <2>1, <2>3, <2>5, StepKeeps
  <2> QED BY <2>3, <2>4, <2>5
<1> QED BY <1>3, <1>4

\* A call at its write owes what it is charged for, and pays it with the write.
LEMMA WriteQuota ==
  ASSUME QInv, NEW s \in Sandbox, job[s].at \in {"write", "reread", "rewrite"},
         written' = written, put' = put + Len(Data(job[s].call)), Answer(s, TRUE)
  PROVE  QInv'
<1> DEFINE n == Len(Data(job[s].call))
<1>1. n \in {0, 1} /\ put \in Nat
  BY DataLen DEF QInv, Paid
<1>2. CASE n = 0
  <2>1. UNCHANGED << written, put >>
    BY <1>1, <1>2
  <2> QED BY <2>1, FreeStep
<1>3. CASE n = 1
  <2>1. Owes(job[s])
    BY <1>3 DEF Owes
  <2> QED BY <1>3, <2>1, RestIsJob, StepKeeps DEF Answer
<1> QED BY <1>1, <1>2, <1>3

LEMMA writeFileQuota ==
  ASSUME QInv, NEW s \in Sandbox, writeFile(s) PROVE QInv'
<1> DEFINE c == job[s].call
           native == c.op = "append" /\ "append" \in can
           j == [job[s] EXCEPT !.at = "reread"]
<1>1. job[s].at = "write" /\ written' = written /\ IsJob(job[s])
  BY DEF writeFile, QInv, Jobs
<1>2. CASE native /\ put' = put + 1 /\ Answer(s, TRUE)
  <2>1. Len(Data(c)) = 1
    BY <1>2 DEF Data
  <2> QED BY <1>1, <1>2, <2>1, WriteQuota
<1>3. CASE c.op = "append" /\ put' = put /\ GoTo(s, "reread")
  <2>1. IsJob(j) /\ Owes(job[s])
    BY <1>1, <1>3 DEF IsJob, Fields, Owes, Data
  <2> QED BY <1>1, <1>3, <2>1, StepKeeps DEF GoTo
<1>4. CASE put' = put + Len(Data(c)) /\ Answer(s, TRUE)
  BY <1>1, <1>4, WriteQuota
<1>5. CASE put' = put /\ Answer(s, FALSE)
  BY <1>1, <1>5, FreeStep
<1> QED BY <1>2, <1>3, <1>4, <1>5 DEF writeFile

LEMMA rewriteReadQuota ==
  ASSUME QInv, NEW s \in Sandbox, rewriteRead(s) PROVE QInv'
<1> DEFINE p == job[s].call.path
           j == [job[s] EXCEPT !.at = "rewrite", !.found = tree[p].data]
<1>1. /\ job[s].at = "reread" /\ UNCHANGED << written, put >>
      /\ IsJob(job[s])
  BY DEF rewriteRead, QInv, Jobs
<1>2. IsJob(j) /\ (Owes(j) => Owes(job[s]))
  BY <1>1 DEF IsJob, Fields, Owes
<1>3. Answer(s, FALSE) \/ Becomes(s, j)
  BY DEF rewriteRead
<1> QED BY <1>1, <1>2, <1>3, FreeStep, StepKeeps

LEMMA rewriteQuota ==
  ASSUME QInv, NEW s \in Sandbox, rewrite(s) PROVE QInv'
<1>1. job[s].at = "rewrite" /\ written' = written
  BY DEF rewrite
<1>2. CASE put' = put + Len(Data(job[s].call)) /\ Answer(s, TRUE)
  BY <1>1, <1>2, WriteQuota
<1>3. CASE put' = put /\ Answer(s, FALSE)
  BY <1>1, <1>3, FreeStep
<1> QED BY <1>2, <1>3 DEF rewrite

LEMMA lookQuota ==
  ASSUME QInv, NEW s \in Sandbox,
         \/ lookFile(s) \/ lookAppend(s) \/ lookRemove(s)
         \/ readFile(s) \/ remove(s) \/ rename(s)
  PROVE  QInv'
<1>1. UNCHANGED << written, put >>
  BY DEF lookFile, lookAppend, lookRemove, readFile, remove, rename
<1>2. \/ \E ok : Answer(s, ok)
      \/ \E at \in {"charge", "read", "remove", "make", "parent"} : GoTo(s, at)
  BY DEF lookFile, lookAppend, lookRemove, readFile, remove, rename
<1> QED BY <1>1, <1>2, FreeStep

LEMMA mkdirQuota ==
  ASSUME QInv, NEW s \in Sandbox, mkdirLook(s) \/ mkdirParent(s) \/ mkdirMake(s)
  PROVE  QInv'
<1>1. UNCHANGED << written, put >>
  BY DEF mkdirLook, mkdirParent, mkdirMake
<1>2. \/ \E ok : Answer(s, ok)
      \/ \E at \in {"charge", "read", "remove", "make", "parent"} : GoTo(s, at)
      \/ \E at \in {"make", "look"} : \E names :
           Becomes(s, [job[s] EXCEPT !.at = at, !.names = names])
  BY DEF mkdirLook, mkdirParent, mkdirMake, Made
<1>3. ASSUME NEW at \in {"make", "look"}, NEW names,
             Becomes(s, [job[s] EXCEPT !.at = at, !.names = names])
      PROVE  QInv'
  <2> DEFINE j == [job[s] EXCEPT !.at = at, !.names = names]
  <2>1. IsJob(job[s])
    BY DEF QInv, Jobs
  <2>2. IsJob(j) /\ ~Owes(j)
    BY <2>1 DEF IsJob, Fields, Owes
  <2> QED BY <1>1, <1>3, <2>2, StepKeeps
<1> QED BY <1>1, <1>2, <1>3, FreeStep

LEMMA ResetQuota ==
  ASSUME QInv, Reset PROVE QInv'
<1>1. Owing' = {}
  BY DEF Reset, Owing, Owes
<1>2. Jobs'
  BY DEF QInv, Jobs, Reset
<1> QED BY <1>1, <1>2, FS_EmptySet, MountAssumption DEF QInv, Paid, Reset

LEMMA InitQuota == Init => QInv
<1> SUFFICES ASSUME Init PROVE QInv
  OBVIOUS
<1>1. Owing = {} /\ Jobs
  BY RestIsJob DEF Init, Owing, Owes, Jobs, Rest, IsJob, Fields
<1> QED BY <1>1, FS_EmptySet, MountAssumption DEF Init, QInv, Paid

LEMMA NextQuota == QInv /\ [Next]_vars => QInv'
<1> SUFFICES ASSUME QInv, [Next]_vars PROVE QInv'
  OBVIOUS
<1>1. ASSUME NEW s \in Sandbox, NEW c \in Call, Begin(s, c) PROVE QInv'
  BY <1>1, BeginQuota
<1>2. ASSUME NEW s \in Sandbox, charge(s) \/ writeFile(s) \/ rewriteRead(s) \/ rewrite(s)
      PROVE  QInv'
  BY <1>2, chargeQuota, writeFileQuota, rewriteReadQuota, rewriteQuota
<1>3. ASSUME NEW s \in Sandbox,
             \/ lookFile(s) \/ readFile(s) \/ lookAppend(s)
             \/ lookRemove(s) \/ remove(s) \/ rename(s)
      PROVE  QInv'
  BY <1>3, lookQuota
<1>4. ASSUME NEW s \in Sandbox, mkdirLook(s) \/ mkdirParent(s) \/ mkdirMake(s)
      PROVE  QInv'
  BY <1>4, mkdirQuota
<1>5. CASE UNCHANGED vars
  BY <1>5 DEF vars, QInv, Jobs, Paid, Owing
<1> QED BY <1>1, <1>2, <1>3, <1>4, <1>5, ResetQuota DEF Next

\* However many sandboxes share a mount, and whatever happens between the charge
\* of a call and its write: what was written is covered by what was charged, and
\* no more is charged than Limit.
THEOREM QuotaIsKept == Spec => []QuotaHolds
<1>1. QInv => QuotaHolds
  BY OwingFinite DEF QInv, Paid, QuotaHolds
<1> QED BY <1>1, InitQuota, NextQuota, PTL DEF Spec

(***************************************************************************)
(* The shape of the tree                                                   *)
(***************************************************************************)

SInv == tree = [p \in Path |-> tree[p]] /\ Shaped(tree)

LEMMA NodesDiffer ==
  /\ Absent # Folder
  /\ \A d : File(d) # Absent /\ File(d) # Folder
  /\ ~IsFile(Absent) /\ ~IsFile(Folder)
BY DEF Absent, Folder, File, IsFile

\* A name is not its own directory.
LEMMA DirDiffers == \A p \in Path : Dir(p) # p
BY DirChain

\* In a tree the directory decides for all that is above a name.
LEMMA FoldersAbove ==
  ASSUME SInv, NEW p \in Path, InFolder(tree, p)
  PROVE  \A n \in Above(p) : tree[n] = Folder
<1>1. CASE Dir(p) = Root
  <2>1. Chain(Root) = {}
    BY DEF Chain, Root
  <2> QED BY <1>1, <2>1, DirChain
<1>2. CASE Dir(p) # Root
  <2>1. Dir(p) \in Path /\ tree[Dir(p)] = Folder /\ Chain(Dir(p)) = Above(p)
    BY <1>2, DirChain DEF InFolder, At
  <2>2. \A n \in Above(Dir(p)) : tree[n] = Folder
    BY <2>1, ShapedAbove, NodesDiffer DEF SInv
  <2>3. \A n \in Above(p) : n = Dir(p) \/ n \in Above(Dir(p))
    BY <2>1 DEF Above
  <2> QED BY <2>1, <2>2, <2>3
<1> QED BY <1>1, <1>2

\* What may be put into a tree without making a hole.
LEMMA PutKeepsShape ==
  ASSUME SInv, NEW p \in Path, NEW node, InFolder(tree, p),
         node = Folder \/ tree[p] # Folder,
         tree' = [tree EXCEPT ![p] = node]
  PROVE  SInv'
<1>1. tree' = [q \in Path |-> IF q = p THEN node ELSE tree[q]]
  BY DEF SInv
<1>2. ASSUME NEW q \in Path, tree'[q] # Absent, NEW n \in Above(q)
      PROVE  tree'[n] = Folder
  <2>1. n \in Path /\ n # q
    BY AboveOrder
  <2>2. tree[n] = Folder
    BY <1>1, <1>2, FoldersAbove, ShapedAbove DEF SInv
  <2> QED BY <1>1, <2>1, <2>2
<1>3. Shaped(tree')
  BY <1>2, ShapedAbove
<1> QED BY <1>1, <1>3 DEF SInv, Shaped

\* What may be taken out of it.
LEMMA TakeKeepsShape ==
  ASSUME SInv, NEW p \in Path, \A q \in Children(p) : tree[q] = Absent,
         tree' = [tree EXCEPT ![p] = Absent]
  PROVE  SInv'
<1>1. tree' = [q \in Path |-> IF q = p THEN Absent ELSE tree[q]]
  BY DEF SInv
<1>2. ASSUME NEW q \in Path, tree'[q] # Absent, NEW n \in Above(q)
      PROVE  tree'[n] = Folder
  <2>1. n \in Path /\ q # p /\ tree[q] # Absent
    BY <1>1, <1>2, AboveOrder
  <2>2. \A m \in Above(q) : tree[m] = Folder
    BY <2>1, ShapedAbove DEF SInv
  <2>3. ASSUME p \in Above(q) PROVE FALSE
    <3>1. PICK c \in Chain(q) : c \in Children(p)
      BY <2>3, StepDown
    <3>2. tree[c] # Absent
      BY <2>1, <2>2, <3>1, NodesDiffer DEF Above
    <3> QED BY <3>1, <3>2
  <2> QED BY <1>1, <1>2, <2>1, <2>2, <2>3
<1>3. Shaped(tree')
  BY <1>2, ShapedAbove
<1> QED BY <1>1, <1>3 DEF SInv, Shaped

LEMMA RenameKeepsShape ==
  ASSUME SInv, NEW p \in Path, NEW q \in Path, Rename(p, q)
  PROVE  SInv'
<1>1. /\ tree' = [x \in Path |-> IF x = p THEN Absent ELSE IF x = q THEN tree[p] ELSE tree[x]]
      /\ tree[p] # Folder /\ tree[q] # Folder /\ InFolder(tree, q)
  BY NodesDiffer DEF SInv, Rename, CanRename, CanWrite
<1>2. ASSUME NEW x \in Path, tree'[x] # Absent, NEW n \in Above(x)
      PROVE  tree'[n] = Folder
  <2>1. n \in Path
    BY AboveOrder
  <2>2. tree[n] = Folder
    BY <1>1, <1>2, FoldersAbove, ShapedAbove DEF SInv
  <2> QED BY <1>1, <2>1, <2>2
<1>3. Shaped(tree')
  BY <1>2, ShapedAbove
<1> QED BY <1>1, <1>3 DEF SInv, Shaped

\* Every operation of the filesystem leaves a tree.
LEMMA TreeKeepsShape ==
  ASSUME SInv, NEW p \in Path,
         \/ \E d : Write(p, d)
         \/ \E x : AppendTo(p, x)
         \/ Mkdir(p)
         \/ Remove(p)
         \/ \E q \in Path : Rename(p, q)
  PROVE  SInv'
<1>1. ASSUME NEW d, Write(p, d) PROVE SInv'
  BY <1>1, PutKeepsShape DEF Write, CanWrite
<1>2. ASSUME NEW x, AppendTo(p, x) PROVE SInv'
  <2>1. tree' = [tree EXCEPT ![p] = File(tree[p].data \o << x >>)]
    BY <1>2 DEF AppendTo, SInv
  <2> QED BY <1>2, <2>1, PutKeepsShape DEF AppendTo, CanWrite
<1>3. CASE Mkdir(p)
  BY <1>3, PutKeepsShape DEF Mkdir, CanMkdir
<1>4. CASE Remove(p)
  BY <1>4, TakeKeepsShape DEF Remove, CanRemove
<1> QED BY <1>1, <1>2, <1>3, <1>4, RenameKeepsShape

(***************************************************************************)
(* Calls                                                                   *)
(***************************************************************************)

\* A job has a call while it is not at rest, and mkdir a chain of names.
Chained(j) ==
  /\ j.names \in Seq(Path) /\ j.names # << >>
  /\ j.names[Len(j.names)] = j.call.path
  /\ \A i \in 1..Len(j.names) - 1 : j.names[i] = Dir(j.names[i + 1])
  /\ j.at = "parent" => Dir(j.names[1]) # Root

Called(j) ==
  /\ j.call \in Call \cup {NoCall}
  /\ j.at = "rest" <=> j.call = NoCall
  /\ j.at \in {"parent", "make"} => j.call.op = "mkdir"
  /\ j.at = "rename" => j.call.op = "rename"
  /\ j.call.op = "mkdir" => Chained(j)

TInv ==
  /\ SInv
  /\ can \in Interfaces
  /\ \A s \in Sandbox : DOMAIN job[s] = Fields /\ Called(job[s])

\* What a call is made of.
LEMMA CallShape ==
  ASSUME NEW c \in Call
  PROVE  /\ c.op \in Writing \cup Looking \cup {"rename"}
         /\ c.path \in Path
         /\ c.op = "rename" => c.dest \in Path
BY DEF Call, Ask, Writing, Looking

LEMMA NoCallIsNone == NoCall \notin Call /\ NoCall.op = "none"
<1>1. NoCall.op = "none"
  BY DEF NoCall, Ask
<1> QED BY <1>1, CallShape DEF Writing, Looking

LEMMA OthersCalled ==
  ASSUME TInv, NEW s \in Sandbox, NEW j, Becomes(s, j), DOMAIN j = Fields, Called(j)
  PROVE  \A i \in Sandbox : DOMAIN job'[i] = Fields /\ Called(job'[i])
<1>1. job'[s] = j
  BY DEF Becomes
<1>2. ASSUME NEW i \in Sandbox, i # s
      PROVE  DOMAIN job'[i] = Fields /\ Called(job'[i])
  <2>1. job'[i] = job[i] \/ job'[i] = [job[i] EXCEPT !.want = Anything]
    BY <1>2 DEF Becomes
  <2>2. DOMAIN job[i] = Fields /\ Called(job[i])
    BY DEF TInv
  <2>3. DOMAIN job'[i] = Fields /\ job'[i].call = job[i].call
        /\ job'[i].at = job[i].at /\ job'[i].names = job[i].names
    BY <2>1, <2>2 DEF Fields
  <2> QED BY <2>2, <2>3 DEF Called, Chained
<1> QED BY <1>1, <1>2

LEMMA RestCalled == \A ok : DOMAIN Rest(ok) = Fields /\ Called(Rest(ok))
BY NoCallIsNone DEF Rest, Fields, Called

\* What a step may do to a call.
LEMMA CallStep ==
  ASSUME TInv, SInv', NEW s \in Sandbox, NEW j, Becomes(s, j), can' = can,
         DOMAIN j = Fields, Called(j)
  PROVE  TInv'
BY OthersCalled DEF TInv

LEMMA AnswerStep ==
  ASSUME TInv, SInv', NEW s \in Sandbox, can' = can, NEW ok, Answer(s, ok)
  PROVE  TInv'
BY RestCalled, CallStep DEF Answer

\* The call goes to another place, and what was found may change with it.
LEMMA GoToStep ==
  ASSUME TInv, SInv', NEW s \in Sandbox, can' = can, job[s].at # "rest",
         NEW at \in {"charge", "write", "reread", "rewrite", "read", "remove", "make", "parent"},
         at \in {"make", "parent"} => job[s].call.op = "mkdir",
         at = "parent" => Dir(job[s].names[1]) # Root,
         NEW found, \/ GoTo(s, at)
                    \/ Becomes(s, [job[s] EXCEPT !.at = at, !.found = found])
  PROVE  TInv'
<1>1. DOMAIN job[s] = Fields /\ Called(job[s])
  BY DEF TInv
<1>2. PICK j : /\ Becomes(s, j)
               /\ \/ j = [job[s] EXCEPT !.at = at]
                  \/ j = [job[s] EXCEPT !.at = at, !.found = found]
  BY DEF GoTo
<1>3. DOMAIN j = Fields /\ j.at = at /\ j.call = job[s].call /\ j.names = job[s].names
  BY <1>1, <1>2 DEF Fields
<1>4. Called(j)
  BY <1>1, <1>3 DEF Called, Chained
<1> QED BY <1>2, <1>3, <1>4, CallStep

\* What is left of the names when the first one is made.
LEMMA TailShape ==
  ASSUME NEW n \in Seq(Path), n # << >>, Len(n) # 1
  PROVE  /\ Len(n) \in Nat /\ Len(n) > 1
         /\ Tail(n) \in Seq(Path) /\ Tail(n) # << >> /\ Len(Tail(n)) = Len(n) - 1
         /\ \A i \in 1..Len(n) - 1 : Tail(n)[i] = n[i + 1]
<1>1. Len(n) \in Nat \ {0}
  BY EmptySeq
<1>2. Tail(n) \in Seq(Path) /\ Len(Tail(n)) = Len(n) - 1
  BY HeadTailProperties
<1>3. \A i \in 1..Len(n) - 1 : Tail(n)[i] = n[i + 1]
  BY <1>1, <1>2, HeadTailProperties
<1>4. Len(Tail(n)) # 0
  BY <1>1, <1>2
<1>5. Tail(n) # << >>
  BY <1>4, EmptySeq
<1> QED BY <1>1, <1>2, <1>3, <1>5

\* mkdir is done with a name, or needs the one above it.
LEMMA MadeStep ==
  ASSUME TInv, SInv', NEW s \in Sandbox, can' = can, job[s].call.op = "mkdir", Made(s)
  PROVE  TInv'
<1> DEFINE n == job[s].names
           j == [job[s] EXCEPT !.at = "make", !.names = Tail(@)]
<1>1. DOMAIN job[s] = Fields /\ Called(job[s]) /\ Chained(job[s])
  BY DEF TInv, Called
<1>2. CASE Answer(s, TRUE)
  BY <1>2, AnswerStep
<1>3. CASE Len(n) # 1 /\ Becomes(s, j)
  <2>1. /\ DOMAIN j = Fields /\ j.at = "make" /\ j.call = job[s].call
        /\ j.names = Tail(n)
    BY <1>1 DEF Fields
  <2>2. n \in Seq(Path) /\ n # << >>
    BY <1>1 DEF Chained
  <2>a. /\ Len(n) \in Nat /\ Len(n) > 1
        /\ Tail(n) \in Seq(Path) /\ Tail(n) # << >> /\ Len(Tail(n)) = Len(n) - 1
        /\ \A i \in 1..Len(n) - 1 : Tail(n)[i] = n[i + 1]
    <3>1. Len(n) # 1
      BY <1>3, Zenon
    <3> HIDE DEF n
    <3> QED BY <2>2, <3>1, TailShape
  <2> HIDE DEF j
  <2>3. Chained(j)
    <3>1. j.names \in Seq(Path) /\ j.names # << >> /\ Len(j.names) = Len(n) - 1
      BY <2>1, <2>a
    <3>2. j.names[Len(j.names)] = job[s].call.path
      <4>1. Len(n) - 1 \in 1..Len(n) - 1 /\ (Len(n) - 1) + 1 = Len(n)
        BY <2>a
      <4> QED BY <1>1, <2>1, <2>a, <4>1 DEF Chained
    <3>3. ASSUME NEW i \in 1..Len(j.names) - 1 PROVE j.names[i] = Dir(j.names[i + 1])
      <4>1. /\ i + 1 \in 1..Len(n) - 1
            /\ j.names[i] = n[i + 1] /\ j.names[i + 1] = n[(i + 1) + 1]
        BY <2>1, <2>a
      <4> QED BY <1>1, <4>1 DEF Chained
    <3> QED BY <2>1, <3>1, <3>2, <3>3 DEF Chained
  <2>4. Called(j)
    BY <1>1, <2>1, <2>3, NoCallIsNone DEF Called
  <2> QED BY <1>3, <2>1, <2>4, CallStep DEF j
<1> QED BY <1>2, <1>3 DEF Made

LEMMA ParentStep ==
  ASSUME TInv, SInv', NEW s \in Sandbox, mkdirParent(s)
  PROVE  TInv'
<1> DEFINE n == job[s].names
           j == [job[s] EXCEPT !.at = "look", !.names = << Dir(Making(s)) >> \o @]
<1>1. /\ DOMAIN job[s] = Fields /\ Called(job[s]) /\ Chained(job[s])
      /\ job[s].at = "parent" /\ job[s].call.op = "mkdir"
  BY DEF TInv, Called, mkdirParent
<1>2. /\ n \in Seq(Path) /\ Len(n) \in Nat \ {0} /\ Making(s) = n[1] /\ n[1] \in Path
  BY <1>1 DEF Chained, Making
<1>3. CASE GoTo(s, "make")
  BY <1>1, <1>3, GoToStep DEF mkdirParent
<1>4. CASE Becomes(s, j)
  <2>1. Dir(n[1]) \in Path
    BY <1>1, <1>2, DirChain DEF Chained
  <2> DEFINE m == << Dir(n[1]) >> \o n
  <2>2. /\ m \in Seq(Path) /\ Len(m) = Len(n) + 1 /\ m[1] = Dir(n[1])
        /\ \A i \in 1..Len(n) : m[i + 1] = n[i]
    BY <1>2, <2>1
  <2>3. DOMAIN j = Fields /\ j.at = "look" /\ j.call = job[s].call /\ j.names = m
    BY <1>1, <1>2 DEF Fields
  <2> HIDE DEF m, j
  <2>4. m[Len(m)] = job[s].call.path
    BY <1>1, <1>2, <2>2 DEF Chained
  <2>5. ASSUME NEW i \in 1..Len(m) - 1 PROVE m[i] = Dir(m[i + 1])
    <3>1. CASE i = 1
      BY <1>2, <2>2, <3>1
    <3>2. CASE i # 1
      <4>1. i - 1 \in 1..Len(n) - 1 /\ m[(i - 1) + 1] = n[i - 1] /\ m[i + 1] = n[i]
        BY <1>2, <2>2, <3>2
      <4>2. n[i - 1] = Dir(n[(i - 1) + 1])
        BY <1>1, <4>1 DEF Chained
      <4> QED BY <4>1, <4>2
    <3> QED BY <3>1, <3>2
  <2>6. Chained(j)
    BY <1>2, <2>2, <2>3, <2>4, <2>5 DEF Chained
  <2>7. Called(j)
    BY <1>1, <2>3, <2>6, NoCallIsNone DEF Called
  <2> QED BY <1>4, <2>3, <2>7, CallStep DEF mkdirParent, j
<1> QED BY <1>3, <1>4 DEF mkdirParent

(***************************************************************************)
(* Each action keeps the types                                             *)
(***************************************************************************)

LEMMA StillShape == SInv /\ tree' = tree => SInv'
BY DEF SInv, Shaped

LEMMA BeginCalled ==
  ASSUME TInv, NEW s \in Sandbox, NEW c \in Call, Begin(s, c) PROVE TInv'
<1> DEFINE j == [ call |-> c, ok |-> FALSE, names |-> << c.path >>, found |-> << >>,
                  want |-> Expected(c),
                  at |-> IF c.op \in Writing THEN "charge"
                         ELSE IF c.op \in Looking THEN "look"
                         ELSE "rename" ]
<1>1. /\ DOMAIN j = Fields /\ j.call = c /\ j.names = << c.path >>
      /\ j.at \in {"charge", "look", "rename"}
      /\ j.at = "rename" => c.op = "rename"
  BY CallShape DEF Fields
<1> HIDE DEF j
<1>2. c.path \in Path /\ << c.path >> \in Seq(Path)
  BY CallShape
<1>3. Chained(j)
  BY <1>1, <1>2 DEF Chained
<1>4. Called(j)
  BY <1>1, <1>3, NoCallIsNone DEF Called
<1> QED BY <1>1, <1>4, CallStep, StillShape DEF Begin, TInv, j

\* The calls but mkdir.
LEMMA SimpleCalled ==
  ASSUME TInv, NEW s \in Sandbox,
         \/ charge(s) \/ writeFile(s) \/ rewriteRead(s) \/ rewrite(s)
         \/ lookFile(s) \/ readFile(s) \/ lookAppend(s)
         \/ lookRemove(s) \/ remove(s) \/ rename(s)
  PROVE  TInv'
<1> DEFINE c == job[s].call
<1>1. /\ job[s].at # "rest" /\ can' = can /\ SInv
      /\ DOMAIN job[s] = Fields /\ Called(job[s])
  BY DEF TInv, charge, writeFile, rewriteRead, rewrite, lookFile, readFile, lookAppend,
         lookRemove, remove, rename
<1>2. c \in Call /\ c.path \in Path
  BY <1>1, CallShape DEF Called
<1>3. SInv'
  <2>1. CASE tree' = tree
    BY <1>1, <2>1, StillShape
  <2>2. CASE \/ \E d : Write(c.path, d)
             \/ \E x : AppendTo(c.path, x)
             \/ Remove(c.path)
    BY <1>1, <1>2, <2>2, TreeKeepsShape
  <2>3. CASE rename(s)
    <3>1. CASE Rename(c.path, c.dest) /\ job[s].at = "rename"
      <4>1. c.dest \in Path
        BY <1>1, <1>2, <3>1, CallShape DEF Called
      <4> QED BY <1>1, <1>2, <3>1, <4>1, TreeKeepsShape
    <3> QED BY <2>1, <2>3, <3>1 DEF rename
  <2> QED BY <2>1, <2>2, <2>3 DEF charge, writeFile, rewriteRead, rewrite, lookFile,
               readFile, lookAppend, lookRemove, remove
<1>4. \/ \E ok : Answer(s, ok)
      \/ \E at \in {"charge", "write", "reread", "read", "remove"} : GoTo(s, at)
      \/ \E found : Becomes(s, [job[s] EXCEPT !.at = "rewrite", !.found = found])
  BY DEF charge, writeFile, rewriteRead, rewrite, lookFile, readFile, lookAppend,
         lookRemove, remove, rename
<1> QED BY <1>1, <1>3, <1>4, AnswerStep, GoToStep

LEMMA mkdirCalled ==
  ASSUME TInv, NEW s \in Sandbox, mkdirLook(s) \/ mkdirMake(s) PROVE TInv'
<1> DEFINE n == Making(s)
<1>1. /\ job[s].at \in {"look", "make"} /\ job[s].call.op = "mkdir" /\ can' = can
      /\ SInv /\ Called(job[s])
  BY DEF TInv, Called, mkdirLook, mkdirMake
<1>2. n \in Path /\ n = job[s].names[1]
  BY <1>1 DEF Called, Chained, Making
<1>3. SInv'
  <2>1. tree' = tree \/ Mkdir(n)
    BY DEF mkdirLook, mkdirMake
  <2> QED BY <1>1, <1>2, <2>1, StillShape, TreeKeepsShape
<1>4. \/ \E ok : Answer(s, ok)
      \/ Made(s)
      \/ GoTo(s, "make")
      \/ GoTo(s, "parent") /\ Dir(n) # Root
  BY DEF mkdirLook, mkdirMake
<1> QED BY <1>1, <1>2, <1>3, <1>4, AnswerStep, MadeStep, GoToStep

LEMMA NextCalled == TInv /\ [Next]_vars => TInv'
<1> SUFFICES ASSUME TInv, [Next]_vars PROVE TInv'
  OBVIOUS
<1>1. ASSUME NEW s \in Sandbox, NEW c \in Call, Begin(s, c) PROVE TInv'
  BY <1>1, BeginCalled
<1>2. ASSUME NEW s \in Sandbox,
             \/ charge(s) \/ writeFile(s) \/ rewriteRead(s) \/ rewrite(s)
             \/ lookFile(s) \/ readFile(s) \/ lookAppend(s)
             \/ lookRemove(s) \/ remove(s) \/ rename(s)
      PROVE  TInv'
  BY <1>2, SimpleCalled
<1>3. ASSUME NEW s \in Sandbox, mkdirLook(s) \/ mkdirMake(s) PROVE TInv'
  BY <1>3, mkdirCalled
<1>4. ASSUME NEW s \in Sandbox, mkdirParent(s) PROVE TInv'
  <2>1. SInv'
    BY <1>4, StillShape DEF TInv, mkdirParent
  <2> QED BY <1>4, <2>1, ParentStep
<1>5. CASE Reset
  BY <1>5, StillShape DEF Reset, TInv
<1>6. CASE UNCHANGED vars
  BY <1>6, StillShape DEF vars, TInv
<1> QED BY <1>1, <1>2, <1>3, <1>4, <1>5, <1>6 DEF Next

LEMMA InitCalled == Init => TInv
<1> SUFFICES ASSUME Init PROVE TInv
  OBVIOUS
<1>1. SInv
  BY MountAssumption DEF Init, SInv
<1> QED BY <1>1, RestCalled DEF Init, TInv

\* The filesystem is a tree at every step of every call, and a call at a step
\* knows what it was asked for: the names mkdir is at lead down to its own.
THEOREM TypeCorrect == Spec => []TypeOK
<1>1. TInv /\ QInv => TypeOK
  BY DEF TInv, SInv, QInv, Paid, Called, Chained, TypeOK
<1> QED BY <1>1, InitCalled, NextCalled, InitQuota, NextQuota, PTL DEF Spec

(***************************************************************************)
(* What an undisturbed call comes to                                       *)
(***************************************************************************)

NInv == \A p \in Path : IsNode(tree[p])

\* What a call that is charged comes to.
Charged == {"write", "reread", "rewrite"}

Pledge(c) ==
  Outcome(/\ CanWrite(tree, c.path)
          /\ IF c.op = "append" THEN can \cap {"append", "write"} # {} ELSE "write" \in can,
          IF c.op = "append" THEN [tree EXCEPT ![c.path] = File(@.data \o Data(c))]
                             ELSE [tree EXCEPT ![c.path] = File(Data(c))])

\* The names of a mkdir: each is above the next, and once there are two, or the
\* first was looked at, none of them is there.
Descends(j) ==
  \A i \in 1..Len(j.names), k \in 1..Len(j.names) :
    i < k => j.names[i] \in Above(j.names[k])

Missing(j) ==
  "mkdir" \in can /\ \A i \in 1..Len(j.names) : tree[j.names[i]] = Absent

Stacked(j) ==
  /\ j.at \in {"look", "parent", "make"}
  /\ Descends(j)
  /\ j.at # "look" \/ Len(j.names) # 1 => Missing(j)
  /\ j.at = "parent" \/ Len(j.names) # 1 => j.call.parents
  /\ j.at = "make" /\ j.call.parents => At(tree, Dir(j.names[1])) # Absent

\* What the state says of a call that is still to have its expected outcome.
Noted(j) ==
  LET c == j.call IN
  /\ j.at \in {"charge", "write"} => c.op \in Writing \cup {"open_a"}
  /\ j.at = "charge" /\ c.op = "open_a" => ~Exists(c.path)
  /\ j.at \in {"reread", "rewrite"} => c.op = "append" /\ "write" \in can /\ "append" \notin can
  /\ j.at = "rewrite" => j.found = tree[c.path].data
  /\ j.at = "read" => c.op = "read"
  /\ j.at = "remove" => /\ c.op \in {"unlink", "rmdir"}
                        /\ "remove" \in can /\ Exists(c.path)
                        /\ IsFile(tree[c.path]) <=> c.op = "unlink"

Foretold(j) ==
  /\ j.want = IF j.at \in Charged THEN Pledge(j.call) ELSE Expected(j.call)
  /\ Noted(j)
  /\ j.call.op = "mkdir" => Stacked(j)

WInv == \A s \in Sandbox : job[s].at # "rest" /\ job[s].want # Anything => Foretold(job[s])

AInv == TInv /\ QInv /\ NInv /\ WInv

\* What LoneCallsAgree says of one sandbox.
Agrees(s) ==
  job[s].at # "rest" /\ job'[s].at = "rest" /\ job[s].want # Anything
    => job'[s].ok = job[s].want.ok /\ tree' = job[s].want.tree

LEMMA OutcomeIs ==
  \A t : /\ Outcome(TRUE, t) = [ok |-> TRUE, tree |-> t]
         /\ Outcome(FALSE, t) = [ok |-> FALSE, tree |-> tree]
BY DEF Outcome

\* Expected, call by call.
LEMMA ExpectedIs ==
  ASSUME NEW c
  PROVE  /\ c.op \in {"read", "open_r"} => Expected(c) = Outcome(IsFile(tree[c.path]), tree)
         /\ c.op = "open_a" /\ Exists(c.path) => Expected(c) = Outcome(TRUE, tree)
         /\ c.op = "open_a" /\ ~Exists(c.path) => Expected(c) = Pledge(c)
         /\ c.op \in Writing /\ Fits(c) => Expected(c) = Pledge(c)
         /\ c.op \in Writing /\ ~Fits(c) => Expected(c) = [ok |-> FALSE, tree |-> tree]
         /\ c.op \in {"unlink", "rmdir"} =>
              Expected(c) = Outcome(/\ "remove" \in can
                                    /\ CanRemove(tree, c.path)
                                    /\ IsFile(tree[c.path]) <=> c.op = "unlink",
                                    [tree EXCEPT ![c.path] = Absent])
         /\ c.op = "rename" =>
              Expected(c) = Outcome("rename" \in can /\ CanRename(tree, c.path, c.dest),
                                    [tree EXCEPT ![c.dest] = tree[c.path], ![c.path] = Absent])
<1>1. c.op \in {"read", "open_r"} => Expected(c) = Outcome(IsFile(tree[c.path]), tree)
  BY DEF Expected
<1>2. c.op = "open_a" =>
        Expected(c) = Outcome(Exists(c.path) \/ ("write" \in can /\ CanWrite(tree, c.path)),
                              IF Exists(c.path) THEN tree
                              ELSE [tree EXCEPT ![c.path] = File(Data(c))])
  BY DEF Expected
<1>3. c.op = "open_a" /\ Exists(c.path) => Expected(c) = Outcome(TRUE, tree)
  BY <1>2 DEF Outcome
<1>4. c.op = "open_a" /\ ~Exists(c.path) => Expected(c) = Pledge(c)
  BY <1>2 DEF Outcome, Pledge
<1>5. c.op \in {"write", "open_w"} =>
        Expected(c) = Outcome("write" \in can /\ Fits(c) /\ CanWrite(tree, c.path),
                              [tree EXCEPT ![c.path] = File(Data(c))])
  BY DEF Expected
<1>6. c.op = "append" =>
        Expected(c) = Outcome(can \cap {"append", "write"} # {} /\ Fits(c) /\ CanWrite(tree, c.path),
                              [tree EXCEPT ![c.path] = File(@.data \o Data(c))])
  BY DEF Expected
<1>7. c.op \in Writing /\ Fits(c) => Expected(c) = Pledge(c)
  BY <1>5, <1>6 DEF Outcome, Pledge, Writing
<1>8. c.op \in Writing /\ ~Fits(c) => Expected(c) = [ok |-> FALSE, tree |-> tree]
  BY <1>5, <1>6 DEF Outcome, Writing
<1>9. c.op \in {"unlink", "rmdir"} =>
        Expected(c) = Outcome(/\ "remove" \in can
                              /\ CanRemove(tree, c.path)
                              /\ IsFile(tree[c.path]) <=> c.op = "unlink",
                              [tree EXCEPT ![c.path] = Absent])
  BY DEF Expected
<1>10. c.op = "rename" =>
        Expected(c) = Outcome("rename" \in can /\ CanRename(tree, c.path, c.dest),
                              [tree EXCEPT ![c.dest] = tree[c.path], ![c.path] = Absent])
  BY DEF Expected
<1> QED BY <1>1, <1>3, <1>4, <1>7, <1>8, <1>9, <1>10

\* Nothing but the tree, the quota and the interfaces decides.
LEMMA SameForetold ==
  ASSUME NEW j, tree' = tree, can' = can, written' = written
  PROVE  /\ Pledge(j.call)' = Pledge(j.call)
         /\ Expected(j.call)' = Expected(j.call)
         /\ Noted(j)' <=> Noted(j)
         /\ Stacked(j)' <=> Stacked(j)
         /\ Foretold(j)' <=> Foretold(j)
<1>1. Pledge(j.call)' = Pledge(j.call)
  BY DEF Pledge, Outcome
<1>2. Expected(j.call)' = Expected(j.call)
  BY DEF Expected, Outcome, Fits, Exists
<1>3. Noted(j)' <=> Noted(j)
  BY DEF Noted, Exists
<1>4. Stacked(j)' <=> Stacked(j)
  BY DEF Stacked, Missing, Descends
<1> QED BY <1>1, <1>2, <1>3, <1>4 DEF Foretold

\* What a step may do to what is foretold.
LEMMA ForetoldStep ==
  ASSUME AInv, NEW s \in Sandbox, NEW j, Becomes(s, j), can' = can,
         j.at # "rest" /\ j.want # Anything => Foretold(j)'
  PROVE  WInv'
<1>1. job'[s] = j
  BY DEF Becomes
<1>2. ASSUME NEW i \in Sandbox, i # s, job'[i].at # "rest", job'[i].want # Anything
      PROVE  Foretold(job[i])'
  <2>1. DOMAIN job[i] = Fields
    BY DEF AInv, TInv
  <2>2. CASE tree' = tree /\ written' = written
    <3>1. job'[i] = job[i]
      BY <1>2, <2>2 DEF Becomes
    <3>2. Foretold(job[i])
      BY <1>2, <3>1 DEF AInv, WInv
    <3> QED BY <2>2, <3>1, <3>2, SameForetold
  <2>3. CASE ~(tree' = tree /\ written' = written)
    <3>1. job'[i] = [job[i] EXCEPT !.want = Anything]
      BY <1>2, <2>3 DEF Becomes
    <3>2. job'[i].want = Anything
      BY <2>1, <3>1 DEF Fields
    <3> QED BY <1>2, <3>2
  <2> QED BY <2>2, <2>3
<1>3. job'[s].at # "rest" /\ job'[s].want # Anything => Foretold(job[s])'
  BY <1>1
<1> QED BY <1>2, <1>3 DEF WInv

\* An answer, and a step on the way to one.
LEMMA AnswerAgrees ==
  ASSUME AInv, NEW s \in Sandbox, can' = can, NEW ok, Answer(s, ok),
         job[s].want # Anything => ok = job[s].want.ok /\ tree' = job[s].want.tree
  PROVE  WInv' /\ Agrees(s)
<1>1. Becomes(s, Rest(ok)) /\ job'[s] = Rest(ok)
  BY DEF Answer, Becomes
<1>2. Rest(ok).at = "rest" /\ Rest(ok).ok = ok
  BY DEF Rest
<1>3. WInv'
  BY <1>1, <1>2, ForetoldStep
<1> QED BY <1>1, <1>2, <1>3 DEF Agrees

LEMMA Succeeds ==
  ASSUME AInv, NEW s \in Sandbox, can' = can, Answer(s, TRUE),
         job[s].want # Anything => job[s].want = [ok |-> TRUE, tree |-> tree']
  PROVE  WInv' /\ Agrees(s)
<1>1. job[s].want # Anything => TRUE = job[s].want.ok
  OBVIOUS
<1>2. job[s].want # Anything => tree' = job[s].want.tree
  OBVIOUS
<1> QED BY <1>1, <1>2, AnswerAgrees

LEMMA Fails ==
  ASSUME AInv, NEW s \in Sandbox, can' = can, Answer(s, FALSE),
         job[s].want # Anything => job[s].want = [ok |-> FALSE, tree |-> tree']
  PROVE  WInv' /\ Agrees(s)
<1>1. job[s].want # Anything => FALSE = job[s].want.ok
  OBVIOUS
<1>2. job[s].want # Anything => tree' = job[s].want.tree
  OBVIOUS
<1> QED BY <1>1, <1>2, AnswerAgrees

LEMMA MoveAgrees ==
  ASSUME AInv, NEW s \in Sandbox, can' = can, NEW j, Becomes(s, j),
         j.at # "rest", j.want = job[s].want,
         job[s].want # Anything => Foretold(j)'
  PROVE  WInv' /\ Agrees(s)
<1>1. job'[s] = j
  BY DEF Becomes
<1>2. WInv'
  BY ForetoldStep
<1> QED BY <1>1, <1>2 DEF Agrees

(***************************************************************************)
(* Each action keeps its promise                                           *)
(***************************************************************************)

\* A call on its way is what TInv and WInv say.
LEMMA OnTheWay ==
  ASSUME AInv, NEW s \in Sandbox, job[s].at # "rest"
  PROVE  /\ DOMAIN job[s] = Fields /\ Called(job[s])
         /\ job[s].call \in Call /\ job[s].call.path \in Path
         /\ job[s].want # Anything => Foretold(job[s])
<1>1. DOMAIN job[s] = Fields /\ Called(job[s])
  BY DEF AInv, TInv
<1>2. job[s].call \in Call
  BY <1>1 DEF Called
<1> QED BY <1>1, <1>2, CallShape DEF AInv, WInv

\* A call goes to another place and keeps what it expects, in a step that
\* changes neither the tree nor the quota.
LEMMA PlainMove ==
  ASSUME AInv, NEW s \in Sandbox, UNCHANGED << tree, can, written >>,
         job[s].at \notin Charged \cup {"rest"}, job[s].call.op # "mkdir",
         NEW at \in {"charge", "read", "remove"}, GoTo(s, at),
         job[s].want # Anything => Noted([job[s] EXCEPT !.at = at])
  PROVE  WInv' /\ Agrees(s)
<1>1. PICK j : j = [job[s] EXCEPT !.at = at]
  OBVIOUS
<1>2. /\ j.at = at /\ j.call = job[s].call /\ j.want = job[s].want
      /\ Becomes(s, j)
  BY <1>1, OnTheWay DEF GoTo, Fields
<1>3. ASSUME job[s].want # Anything PROVE Foretold(j)'
  <2>1. Foretold(job[s]) /\ Noted(j)
    BY <1>1, <1>3, OnTheWay
  <2>2. Foretold(j)
    BY <1>2, <2>1 DEF Foretold, Charged
  <2> QED BY <2>2, SameForetold
<1> QED BY <1>2, <1>3, MoveAgrees

LEMMA BeginAgrees ==
  ASSUME AInv, NEW s \in Sandbox, NEW c \in Call, Begin(s, c)
  PROVE  WInv' /\ Agrees(s)
<1>1. PICK j : j = [ call |-> c, ok |-> FALSE, names |-> << c.path >>, found |-> << >>,
                     want |-> Expected(c),
                     at |-> IF c.op \in Writing THEN "charge"
                            ELSE IF c.op \in Looking THEN "look"
                            ELSE "rename" ]
  OBVIOUS
<1>2. /\ Becomes(s, j) /\ UNCHANGED << tree, can, written >> /\ job[s].at = "rest"
  BY <1>1 DEF Begin
<1>3. /\ j.call = c /\ j.want = Expected(c) /\ j.names = << c.path >>
      /\ j.at = "charge" => c.op \in Writing
      /\ c.op = "mkdir" => j.at = "look"
      /\ j.at \in {"charge", "look", "rename"}
  BY <1>1 DEF Writing, Looking
<1>4. Noted(j)
  BY <1>3 DEF Noted, Writing
<1>5. Stacked(j) \/ c.op # "mkdir"
  BY <1>3 DEF Stacked, Descends
<1>6. Foretold(j)
  BY <1>3, <1>4, <1>5 DEF Foretold, Charged
<1>7. Foretold(j)'
  BY <1>2, <1>6, SameForetold
<1> QED BY <1>2, <1>7, ForetoldStep DEF Agrees

LEMMA chargeAgrees ==
  ASSUME AInv, NEW s \in Sandbox, charge(s)
  PROVE  WInv' /\ Agrees(s)
<1> DEFINE c == job[s].call
<1>1. /\ job[s].at = "charge" /\ UNCHANGED << tree, can >>
      /\ DOMAIN job[s] = Fields
      /\ job[s].want # Anything => Foretold(job[s])
  BY OnTheWay DEF charge
<1>2. /\ job[s].want # Anything =>
           /\ job[s].want = Expected(c)
           /\ c.op \in Writing \cup {"open_a"}
           /\ c.op = "open_a" => ~Exists(c.path)
  BY <1>1 DEF Foretold, Noted, Charged
<1>3. Len(Data(c)) \in {0, 1} /\ (c.op = "open_a" => Len(Data(c)) = 0)
  BY DataLen DEF Data
<1>4. written \in Nat /\ written <= Limit /\ Limit \in Nat
  BY OwingFinite, MountAssumption DEF AInv, QInv, Paid
<1>5. CASE ~Fits(c)
  <2>1. Answer(s, FALSE)
    <3>1. written + Len(Data(c)) > Limit
      BY <1>3, <1>4, <1>5 DEF Fits
    <3> QED BY <3>1 DEF charge
  <2>2. c.op # "open_a"
    BY <1>3, <1>4, <1>5 DEF Fits
  <2>3. job[s].want # Anything => job[s].want = [ok |-> FALSE, tree |-> tree]
    BY <1>1, <1>2, <1>5, <2>2, ExpectedIs
  <2> QED BY <1>1, <2>1, <2>3, Fails
<1>6. CASE Fits(c)
  <2>1. GoTo(s, "write")
    <3>1. ~(written + Len(Data(c)) > Limit)
      BY <1>3, <1>4, <1>6 DEF Fits
    <3> QED BY <3>1 DEF charge
  <2>2. PICK j : j = [job[s] EXCEPT !.at = "write"]
    OBVIOUS
  <2>3. /\ Becomes(s, j) /\ j.at = "write" /\ j.call = c /\ j.want = job[s].want
    BY <1>1, <2>1, <2>2 DEF GoTo, Fields
  <2>4. ASSUME job[s].want # Anything PROVE Foretold(j)'
    <3>1. j.want = Pledge(j.call)
      BY <1>2, <1>6, <2>3, <2>4, ExpectedIs
    <3>2. Pledge(j.call)' = Pledge(j.call)
      BY <1>1 DEF Pledge, Outcome
    <3>3. Noted(j)'
      BY <1>2, <2>3, <2>4 DEF Noted
    <3>4. j.call.op # "mkdir"
      BY <1>2, <2>3, <2>4 DEF Writing
    <3> QED BY <2>3, <3>1, <3>2, <3>3, <3>4 DEF Foretold, Charged
  <2> QED BY <1>1, <2>3, <2>4, MoveAgrees
<1> QED BY <1>5, <1>6

\* The promise at the write.
LEMMA PledgeHeld ==
  ASSUME AInv, NEW s \in Sandbox, job[s].at \in Charged, job[s].want # Anything
  PROVE  /\ job[s].want = Pledge(job[s].call)
         /\ Noted(job[s])
BY OnTheWay DEF Foretold, Charged

LEMMA writeFileAgrees ==
  ASSUME AInv, NEW s \in Sandbox, writeFile(s)
  PROVE  WInv' /\ Agrees(s)
<1> DEFINE c == job[s].call
           native == c.op = "append" /\ "append" \in can
<1>1. /\ job[s].at = "write" /\ UNCHANGED << can, written >> /\ job[s].at \in Charged
      /\ DOMAIN job[s] = Fields
  BY OnTheWay DEF writeFile, Charged
<1>2. CASE native /\ AppendTo(c.path, Word) /\ Answer(s, TRUE)
  <2>1. Data(c) = << Word >>
    BY <1>2 DEF Data
  <2>2. tree' = [tree EXCEPT ![c.path] = File(@.data \o Data(c))] /\ CanWrite(tree, c.path)
    BY <1>2, <2>1 DEF AppendTo
  <2>3. Pledge(c) = [ok |-> TRUE, tree |-> tree']
    BY <1>2, <2>2 DEF Pledge, Outcome
  <2> QED BY <1>1, <1>2, <2>3, PledgeHeld, Succeeds
<1>3. CASE c.op = "append" /\ ~native /\ "write" \in can /\ tree' = tree /\ GoTo(s, "reread")
  <2>1. PICK j : j = [job[s] EXCEPT !.at = "reread"]
    OBVIOUS
  <2>2. Becomes(s, j) /\ j.at = "reread" /\ j.call = c /\ j.want = job[s].want
    BY <1>1, <1>3, <2>1 DEF GoTo, Fields
  <2>3. ASSUME job[s].want # Anything PROVE Foretold(j)'
    <3>1. Noted(j)
      BY <1>3, <2>2 DEF Noted
    <3>2. Foretold(j)
      BY <1>1, <1>3, <2>2, <2>3, <3>1, PledgeHeld DEF Foretold, Charged
    <3> QED BY <1>1, <1>3, <3>2, SameForetold
  <2> QED BY <1>1, <2>2, <2>3, MoveAgrees
<1>4. CASE c.op # "append" /\ "write" \in can /\ Write(c.path, Data(c)) /\ Answer(s, TRUE)
  <2>1. Pledge(c) = [ok |-> TRUE, tree |-> tree']
    BY <1>4 DEF Pledge, Outcome, Write
  <2> QED BY <1>1, <1>4, <2>1, PledgeHeld, Succeeds
<1>5. CASE /\ \/ c.op = "append" /\ can \cap {"append", "write"} = {}
              \/ c.op # "append" /\ "write" \notin can
              \/ (native \/ c.op # "append") /\ ~CanWrite(tree, c.path)
           /\ tree' = tree
           /\ Answer(s, FALSE)
  <2>1. Pledge(c) = [ok |-> FALSE, tree |-> tree']
    BY <1>5 DEF Pledge, Outcome
  <2> QED BY <1>1, <1>5, <2>1, PledgeHeld, Fails
<1> QED BY <1>2, <1>3, <1>4, <1>5 DEF writeFile

LEMMA rewriteReadAgrees ==
  ASSUME AInv, NEW s \in Sandbox, rewriteRead(s)
  PROVE  WInv' /\ Agrees(s)
<1> DEFINE c == job[s].call
<1>1. /\ job[s].at = "reread" /\ UNCHANGED << tree, can, written >> /\ job[s].at \in Charged
      /\ DOMAIN job[s] = Fields
      /\ job[s].want # Anything =>
           c.op = "append" /\ "write" \in can /\ "append" \notin can
  BY OnTheWay, PledgeHeld DEF rewriteRead, Charged, Noted
<1>2. CASE tree[c.path] = Folder
  <2>1. Answer(s, FALSE)
    BY <1>2 DEF rewriteRead
  <2>2. Pledge(c) = [ok |-> FALSE, tree |-> tree']
    BY <1>1, <1>2 DEF Pledge, Outcome, CanWrite
  <2> QED BY <1>1, <2>1, <2>2, PledgeHeld, Fails
<1>3. CASE tree[c.path] # Folder
  <2>1. PICK j : j = [job[s] EXCEPT !.at = "rewrite", !.found = tree[c.path].data]
    OBVIOUS
  <2>2. Becomes(s, j)
    BY <1>3, <2>1 DEF rewriteRead
  <2>3. /\ j.at = "rewrite" /\ j.call = c /\ j.want = job[s].want
        /\ j.found = tree[c.path].data
    BY <1>1, <2>1 DEF Fields
  <2>4. ASSUME job[s].want # Anything PROVE Foretold(j)'
    <3>1. Noted(j)
      BY <1>1, <2>3, <2>4 DEF Noted
    <3>2. Foretold(j)
      BY <1>1, <2>3, <2>4, <3>1, PledgeHeld DEF Foretold, Charged
    <3> QED BY <1>1, <3>2, SameForetold
  <2> QED BY <1>1, <2>2, <2>3, <2>4, MoveAgrees
<1> QED BY <1>2, <1>3

LEMMA rewriteAgrees ==
  ASSUME AInv, NEW s \in Sandbox, rewrite(s)
  PROVE  WInv' /\ Agrees(s)
<1> DEFINE c == job[s].call
<1>1. /\ job[s].at = "rewrite" /\ UNCHANGED << can, written >> /\ job[s].at \in Charged
      /\ job[s].want # Anything =>
           /\ c.op = "append" /\ "write" \in can
           /\ job[s].found = tree[c.path].data
  BY PledgeHeld DEF rewrite, Charged, Noted
<1>2. CASE Write(c.path, job[s].found \o Data(c)) /\ Answer(s, TRUE)
  <2>1. job[s].want # Anything => Pledge(c) = [ok |-> TRUE, tree |-> tree']
    BY <1>1, <1>2 DEF Pledge, Outcome, Write
  <2> QED BY <1>1, <1>2, <2>1, PledgeHeld, Succeeds
<1>3. CASE ~CanWrite(tree, c.path) /\ tree' = tree /\ Answer(s, FALSE)
  <2>1. Pledge(c) = [ok |-> FALSE, tree |-> tree']
    BY <1>3 DEF Pledge, Outcome
  <2> QED BY <1>1, <1>3, <2>1, PledgeHeld, Fails
<1> QED BY <1>2, <1>3 DEF rewrite

\* Before the charge, what is foretold is what was expected.
LEMMA ExpectationHeld ==
  ASSUME AInv, NEW s \in Sandbox, job[s].at \notin Charged \cup {"rest"},
         job[s].want # Anything
  PROVE  job[s].want = Expected(job[s].call) /\ Noted(job[s])
BY OnTheWay DEF Foretold, Charged

LEMMA lookAgrees ==
  ASSUME AInv, NEW s \in Sandbox,
         lookFile(s) \/ readFile(s) \/ lookAppend(s) \/ lookRemove(s)
  PROVE  WInv' /\ Agrees(s)
<1> DEFINE c == job[s].call
           Wanted == job[s].want # Anything
<1>1. /\ UNCHANGED << tree, can, written >> /\ DOMAIN job[s] = Fields
      /\ job[s].at \in {"look", "read"} /\ job[s].at \notin Charged \cup {"rest"}
      /\ Wanted => job[s].want = Expected(c) /\ Noted(job[s])
  BY OnTheWay, ExpectationHeld DEF lookFile, readFile, lookAppend, lookRemove, Charged
<1>2. CASE lookFile(s)
  <2>1. c.op \in {"read", "open_r"}
    BY <1>2 DEF lookFile
  <2>2. CASE c.op = "read" /\ IsFile(tree[c.path])
    <3>1. GoTo(s, "read")
      BY <1>2, <2>2 DEF lookFile
    <3>2. Noted([job[s] EXCEPT !.at = "read"])
      BY <1>1, <2>2 DEF Noted, Fields
    <3> QED BY <1>1, <2>2, <3>1, <3>2, PlainMove
  <2>3. CASE ~(c.op = "read" /\ IsFile(tree[c.path]))
    <3>1. Answer(s, IsFile(tree[c.path]))
      BY <1>2, <2>3 DEF lookFile
    <3>2. IsFile(tree[c.path]) \in BOOLEAN
      BY DEF IsFile
    <3>3. Expected(c).ok = IsFile(tree[c.path]) /\ Expected(c).tree = tree
      BY <2>1, ExpectedIs DEF Outcome
    <3> QED BY <1>1, <3>1, <3>3, AnswerAgrees
  <2> QED BY <2>2, <2>3
<1>3. CASE readFile(s)
  <2>1. Answer(s, IsFile(tree[c.path])) /\ job[s].at = "read"
    BY <1>3 DEF readFile
  <2>2. Wanted => c.op = "read"
    BY <1>1, <2>1 DEF Noted
  <2>3. Wanted => Expected(c).ok = IsFile(tree[c.path]) /\ Expected(c).tree = tree
    BY <2>2, ExpectedIs DEF Outcome
  <2> QED BY <1>1, <2>1, <2>3, AnswerAgrees
<1>4. CASE lookAppend(s)
  <2>1. c.op = "open_a"
    BY <1>4 DEF lookAppend
  <2>2. CASE Exists(c.path)
    <3>1. Answer(s, TRUE)
      BY <1>4, <2>2 DEF lookAppend
    <3>2. Expected(c) = [ok |-> TRUE, tree |-> tree]
      BY <2>1, <2>2, ExpectedIs DEF Outcome
    <3> QED BY <1>1, <3>1, <3>2, Succeeds
  <2>3. CASE ~Exists(c.path)
    <3>1. GoTo(s, "charge")
      BY <1>4, <2>3 DEF lookAppend
    <3>2. Noted([job[s] EXCEPT !.at = "charge"])
      BY <1>1, <2>1, <2>3 DEF Noted, Fields
    <3> QED BY <1>1, <2>1, <3>1, <3>2, PlainMove
  <2> QED BY <2>2, <2>3
<1>5. CASE lookRemove(s)
  <2> DEFINE Ready == /\ Exists(c.path)
                      /\ IsFile(tree[c.path]) <=> c.op = "unlink"
                      /\ "remove" \in can
  <2>1. c.op \in {"unlink", "rmdir"}
    BY <1>5 DEF lookRemove
  <2>2. CASE Ready
    <3>1. GoTo(s, "remove")
      BY <1>5, <2>2 DEF lookRemove
    <3>2. Noted([job[s] EXCEPT !.at = "remove"])
      BY <1>1, <2>1, <2>2 DEF Noted, Fields
    <3> QED BY <1>1, <2>1, <3>1, <3>2, PlainMove
  <2>3. CASE ~Ready
    <3>1. Answer(s, FALSE)
      BY <1>5, <2>3 DEF lookRemove
    <3>2. CanRemove(tree, c.path) => Exists(c.path)
      BY PathLen, OnTheWay, <1>1 DEF CanRemove, Exists, At
    <3>3. Expected(c) = [ok |-> FALSE, tree |-> tree]
      BY <2>1, <2>3, <3>2, ExpectedIs DEF Outcome
    <3> QED BY <1>1, <3>1, <3>3, Fails
  <2> QED BY <2>2, <2>3
<1> QED BY <1>2, <1>3, <1>4, <1>5

LEMMA removeAgrees ==
  ASSUME AInv, NEW s \in Sandbox, remove(s)
  PROVE  WInv' /\ Agrees(s)
<1> DEFINE c == job[s].call
<1>1. /\ UNCHANGED << can, written >> /\ job[s].at = "remove"
      /\ job[s].at \notin Charged \cup {"rest"}
      /\ job[s].want # Anything =>
           /\ job[s].want = Expected(c)
           /\ c.op \in {"unlink", "rmdir"} /\ "remove" \in can
           /\ IsFile(tree[c.path]) <=> c.op = "unlink"
  BY ExpectationHeld DEF remove, Charged, Noted
<1>2. CASE Remove(c.path) /\ Answer(s, TRUE)
  <2>1. job[s].want # Anything => Expected(c) = [ok |-> TRUE, tree |-> tree']
    BY <1>1, <1>2, ExpectedIs DEF Outcome, Remove
  <2> QED BY <1>1, <1>2, <2>1, Succeeds
<1>3. CASE ~CanRemove(tree, c.path) /\ tree' = tree /\ Answer(s, FALSE)
  <2>1. job[s].want # Anything => Expected(c) = [ok |-> FALSE, tree |-> tree']
    BY <1>1, <1>3, ExpectedIs DEF Outcome
  <2> QED BY <1>1, <1>3, <2>1, Fails
<1> QED BY <1>2, <1>3 DEF remove

LEMMA renameAgrees ==
  ASSUME AInv, NEW s \in Sandbox, rename(s)
  PROVE  WInv' /\ Agrees(s)
<1> DEFINE c == job[s].call
<1>1. /\ UNCHANGED << can, written >> /\ job[s].at = "rename"
      /\ job[s].at \notin Charged \cup {"rest"}
      /\ job[s].want # Anything => job[s].want = Expected(c)
      /\ c.op = "rename"
  BY ExpectationHeld, OnTheWay DEF rename, Charged, Called
<1>2. CASE "rename" \in can /\ Rename(c.path, c.dest) /\ Answer(s, TRUE)
  <2>1. Expected(c) = [ok |-> TRUE, tree |-> tree']
    BY <1>1, <1>2, ExpectedIs DEF Outcome, Rename
  <2> QED BY <1>1, <1>2, <2>1, Succeeds
<1>3. CASE /\ ~("rename" \in can /\ CanRename(tree, c.path, c.dest))
           /\ tree' = tree /\ Answer(s, FALSE)
  <2>1. Expected(c) = [ok |-> FALSE, tree |-> tree']
    BY <1>1, <1>3, ExpectedIs DEF Outcome
  <2> QED BY <1>1, <1>3, <2>1, Fails
<1> QED BY <1>2, <1>3 DEF rename

(***************************************************************************)
(* mkdir                                                                   *)
(***************************************************************************)

\* The tree with p and all that is above it.
WithChain(p) == [q \in Path |-> IF q \in Chain(p) THEN Folder ELSE tree[q]]

LEMMA ExpectedMkdir ==
  ASSUME NEW c, c.op = "mkdir"
  PROVE  /\ c.existOK /\ tree[c.path] = Folder =>
              Expected(c) = [ok |-> TRUE, tree |-> WithChain(c.path)]
         /\ ~(c.existOK /\ tree[c.path] = Folder) =>
              Expected(c) = Outcome(/\ "mkdir" \in can
                                    /\ IF c.parents
                                       THEN /\ ~Exists(c.path)
                                            /\ \A q \in Chain(c.path) : ~IsFile(tree[q])
                                       ELSE CanMkdir(tree, c.path),
                                    WithChain(c.path))
<1>1. Expected(c) =
        Outcome(\/ c.existOK /\ tree[c.path] = Folder
                \/ /\ "mkdir" \in can
                   /\ IF c.parents
                      THEN /\ ~Exists(c.path)
                           /\ \A q \in Chain(c.path) : ~IsFile(tree[q])
                      ELSE CanMkdir(tree, c.path),
                WithChain(c.path))
  BY DEF Expected, WithChain
<1> QED BY <1>1 DEF Outcome

\* What is there has all that is above it.
LEMMA ChainThere ==
  ASSUME SInv, NEW p \in Path
  PROVE  /\ tree[p] = Folder => WithChain(p) = tree
         /\ InFolder(tree, p) => WithChain(p) = [tree EXCEPT ![p] = Folder]
<1>1. \A q \in Chain(p) : q = p \/ q \in Above(p)
  BY DEF Above
<1>2. ASSUME tree[p] = Folder PROVE WithChain(p) = tree
  <2>1. \A n \in Above(p) : tree[n] = Folder
    BY <1>2, ShapedAbove, NodesDiffer DEF SInv
  <2>2. \A q \in Path : WithChain(p)[q] = tree[q]
    BY <1>1, <1>2, <2>1 DEF WithChain
  <2>3. WithChain(p) = [q \in Path |-> tree[q]]
    BY <2>2 DEF WithChain
  <2> QED BY <2>3 DEF SInv
<1>3. ASSUME InFolder(tree, p)
      PROVE  WithChain(p) = [tree EXCEPT ![p] = Folder]
  <2>1. \A n \in Above(p) : tree[n] = Folder
    BY <1>3, FoldersAbove
  <2>2. p \in Chain(p)
    BY PathLen
  <2>3. \A q \in Path : (IF q \in Chain(p) THEN Folder ELSE tree[q])
                         = (IF q = p THEN Folder ELSE tree[q])
    BY <1>1, <2>1, <2>2
  <2> QED BY <1>3, <2>3 DEF SInv, WithChain
<1> QED BY <1>2, <1>3

\* The file system is made of files, directories and nothing else.
LEMMA Kinds ==
  ASSUME NInv, NEW p \in Path
  PROVE  tree[p] = Absent \/ tree[p] = Folder \/ (IsFile(tree[p]) /\ tree[p] # Folder /\ tree[p] # Absent)
<1>1. IsNode(tree[p])
  BY DEF NInv
<1>2. \A d : IsFile(File(d))
  BY DEF IsFile, File
<1> QED BY <1>1, <1>2, NodesDiffer DEF IsNode

\* What is below a name that is missing is missing.
LEMMA MissingBelow ==
  ASSUME SInv, NEW q \in Path, NEW n \in Above(q), tree[n] = Absent
  PROVE  tree[q] = Absent
BY ShapedAbove, NodesDiffer DEF SInv

\* mkdir with parents comes to its end where the next directory can be made, and
\* nowhere else.
LEMMA ParentsDecide ==
  ASSUME SInv, NInv, NEW c, c.op = "mkdir", c.path \in Path, "mkdir" \in can,
         NEW n \in Chain(c.path), tree[n] = Absent, tree[c.path] = Absent,
         c.parents
  PROVE  /\ InFolder(tree, n) => Expected(c) = [ok |-> TRUE, tree |-> WithChain(c.path)]
         /\ At(tree, Dir(n)) # Absent /\ ~InFolder(tree, n) =>
              Expected(c) = [ok |-> FALSE, tree |-> tree]
<1> DEFINE p == c.path
<1>1. /\ ~Exists(p) /\ p # Root /\ n \in Path /\ n # Root
  BY InChain, PathLen DEF Exists, At
<1>2. Expected(c) = Outcome(\A q \in Chain(p) : ~IsFile(tree[q]), WithChain(p))
  <2>1. ~(c.existOK /\ tree[p] = Folder)
    BY NodesDiffer
  <2>2. Expected(c) = Outcome(/\ "mkdir" \in can
                              /\ IF c.parents
                                 THEN /\ ~Exists(c.path)
                                      /\ \A q \in Chain(c.path) : ~IsFile(tree[q])
                                 ELSE CanMkdir(tree, c.path),
                              WithChain(c.path))
    BY <2>1, ExpectedMkdir
  <2> QED BY <1>1, <2>2 DEF Outcome
<1>3. ASSUME InFolder(tree, n), NEW q \in Chain(p) PROVE ~IsFile(tree[q])
  <2>1. q \in Path
    BY InChain
  <2>2. CASE q = n
    BY <2>2, NodesDiffer
  <2>3. CASE q \in Above(n)
    BY <1>1, <1>3, <2>3, FoldersAbove, NodesDiffer
  <2>4. CASE n \in Above(q)
    BY <2>1, <2>4, MissingBelow, NodesDiffer
  <2> QED BY <2>2, <2>3, <2>4, ChainLinear
<1>4. ASSUME At(tree, Dir(n)) # Absent, ~InFolder(tree, n)
      PROVE  \E q \in Chain(p) : IsFile(tree[q])
  <2>1. Dir(n) # Root /\ tree[Dir(n)] # Absent /\ tree[Dir(n)] # Folder
    BY <1>4 DEF At, InFolder
  <2>2. Dir(n) \in Path /\ Dir(n) \in Chain(n)
    BY <1>1, <2>1, DirChain DEF Above
  <2>3. Dir(n) \in Chain(p)
    BY <2>2, InChain
  <2> QED BY <2>1, <2>2, <2>3, Kinds
<1> QED BY <1>2, <1>3, <1>4 DEF Outcome

\* So also after the next step.
Decided ==
  \A c, n :
    /\ SInv /\ NInv /\ c.op = "mkdir" /\ c.path \in Path /\ "mkdir" \in can
    /\ n \in Chain(c.path) /\ tree[n] = Absent /\ tree[c.path] = Absent
    /\ c.parents /\ InFolder(tree, n)
    => Expected(c) = [ok |-> TRUE, tree |-> WithChain(c.path)]

LEMMA ThenDecided == Decided'
<1>1. Decided
  BY ParentsDecide DEF Decided
<1> QED BY <1>1, PTL

\* A call that was interfered with owes nothing.
LEMMA MkdirDisturbed ==
  ASSUME AInv, NEW s \in Sandbox, job[s].want = Anything,
         mkdirLook(s) \/ mkdirParent(s) \/ mkdirMake(s)
  PROVE  WInv' /\ Agrees(s)
<1>1. can' = can /\ job[s].at # "rest" /\ DOMAIN job[s] = Fields
  BY OnTheWay DEF mkdirLook, mkdirParent, mkdirMake
<1>2. \/ \E ok : Answer(s, ok)
      \/ \E at \in {"make", "parent"} : GoTo(s, at)
      \/ \E at \in {"make", "look"} : \E names :
           Becomes(s, [job[s] EXCEPT !.at = at, !.names = names])
  BY DEF mkdirLook, mkdirParent, mkdirMake, Made
<1>3. ASSUME NEW ok, Answer(s, ok) PROVE WInv' /\ Agrees(s)
  BY <1>1, <1>3, AnswerAgrees
<1>4. ASSUME NEW at \in {"make", "parent"}, GoTo(s, at) PROVE WInv' /\ Agrees(s)
  <2>1. PICK j : j = [job[s] EXCEPT !.at = at]
    OBVIOUS
  <2>2. Becomes(s, j) /\ j.at # "rest" /\ j.want = job[s].want
    BY <1>1, <1>4, <2>1 DEF GoTo, Fields
  <2> QED BY <1>1, <2>2, MoveAgrees
<1>5. ASSUME NEW at \in {"make", "look"}, NEW names,
             Becomes(s, [job[s] EXCEPT !.at = at, !.names = names])
      PROVE  WInv' /\ Agrees(s)
  <2>1. PICK j : j = [job[s] EXCEPT !.at = at, !.names = names]
    OBVIOUS
  <2>2. Becomes(s, j) /\ j.at # "rest" /\ j.want = job[s].want
    BY <1>1, <1>5, <2>1 DEF Fields
  <2> QED BY <1>1, <2>2, MoveAgrees
<1> QED BY <1>2, <1>3, <1>4, <1>5

\* What the state says of a mkdir on its way.
LEMMA MkdirHeld ==
  ASSUME AInv, NEW s \in Sandbox, job[s].call.op = "mkdir", job[s].want # Anything
  PROVE  /\ job[s].want = Expected(job[s].call)
         /\ Stacked(job[s]) /\ Chained(job[s])
         /\ DOMAIN job[s] = Fields
         /\ job[s].call.path \in Path
         /\ Len(job[s].names) \in Nat \ {0}
         /\ \A i \in 1..Len(job[s].names) : job[s].names[i] \in Path
         /\ Making(s) = job[s].names[1]
         /\ Making(s) \in Path /\ Making(s) # Root
         /\ Making(s) \in Chain(job[s].call.path)
         /\ Len(job[s].names) = 1 => Making(s) = job[s].call.path
         /\ Missing(job[s]) => tree[Making(s)] = Absent /\ tree[job[s].call.path] = Absent
<1> DEFINE n == job[s].names
           p == job[s].call.path
<1>1. job[s].at # "rest"
  BY NoCallIsNone DEF AInv, TInv, Called
<1>2. /\ Foretold(job[s]) /\ Called(job[s]) /\ p \in Path /\ DOMAIN job[s] = Fields
  BY <1>1, OnTheWay
<1>3. Stacked(job[s]) /\ Chained(job[s]) /\ job[s].want = Expected(job[s].call)
  BY <1>2 DEF Foretold, Called, Stacked, Charged
<1>4. n \in Seq(Path) /\ n # << >> /\ n[Len(n)] = p
  BY <1>3 DEF Chained
<1>5. Len(n) \in Nat \ {0} /\ \A i \in 1..Len(n) : n[i] \in Path
  BY <1>4
<1>6. Making(s) = n[1]
  BY <1>4 DEF Making
<1>7. n[1] \in Path /\ n[1] # Root
  BY <1>5, PathLen
<1>8. n[1] \in Chain(p)
  <2>1. CASE Len(n) = 1
    BY <1>2, <1>4, <2>1, PathLen
  <2>2. CASE Len(n) # 1
    <3>1. 1 \in 1..Len(n) /\ Len(n) \in 1..Len(n) /\ 1 < Len(n)
      <4>1. \A k \in Nat \ {0} : k # 1 => 1 \in 1..k /\ k \in 1..k /\ 1 < k
        OBVIOUS
      <4> QED BY <1>5, <2>2, <4>1, Zenon
    <3>2. n[1] \in Above(n[Len(n)])
      BY <1>3, <3>1 DEF Stacked, Descends
    <3> QED BY <1>4, <3>2 DEF Above
  <2> QED BY <2>1, <2>2
<1>9. Missing(job[s]) => tree[n[1]] = Absent /\ tree[p] = Absent
  <2>1. 1 \in 1..Len(n) /\ Len(n) \in 1..Len(n)
    BY <1>5
  <2> QED BY <1>4, <2>1 DEF Missing
<1>10. Len(n) = 1 => n[1] = p
  BY <1>4
<1> QED BY <1>2, <1>3, <1>5, <1>6, <1>7, <1>8, <1>9, <1>10

LEMMA mkdirLookAgrees ==
  ASSUME AInv, NEW s \in Sandbox, mkdirLook(s), job[s].want # Anything
  PROVE  WInv' /\ Agrees(s)
<1> DEFINE c == job[s].call
           n == Making(s)
           existOK == c.existOK \/ n # c.path
<1>1. /\ job[s].at = "look" /\ c.op = "mkdir" /\ UNCHANGED << tree, can, written >>
      /\ SInv /\ NInv
  BY DEF mkdirLook, AInv, TInv
<1>2. /\ job[s].want = Expected(c) /\ Stacked(job[s]) /\ DOMAIN job[s] = Fields
      /\ c.path \in Path /\ Len(job[s].names) \in Nat \ {0} /\ n \in Path /\ n # Root
      /\ n \in Chain(c.path)
      /\ Len(job[s].names) = 1 => n = c.path
      /\ Missing(job[s]) => tree[n] = Absent /\ tree[c.path] = Absent
      /\ n = job[s].names[1]
  BY <1>1, MkdirHeld
<1>3. Exists(n) <=> tree[n] # Absent
  BY <1>2 DEF Exists, At
<1>4. Len(job[s].names) # 1 => Missing(job[s]) /\ c.parents
  BY <1>2 DEF Stacked
<1>5. CASE Exists(n)
  <2>1. Len(job[s].names) = 1 /\ n = c.path
    BY <1>2, <1>3, <1>4, <1>5
  <2>2. CASE existOK /\ tree[n] = Folder
    <3>1. Made(s)
      BY <1>5, <2>2 DEF mkdirLook
    <3>2. Answer(s, TRUE)
      BY <2>1, <3>1 DEF Made
    <3>3. Expected(c) = [ok |-> TRUE, tree |-> WithChain(c.path)]
      <4>1. c.existOK /\ tree[c.path] = Folder
        BY <2>1, <2>2
      <4> QED BY <1>1, <4>1, ExpectedMkdir
    <3>4. WithChain(c.path) = tree'
      BY <1>1, <1>2, <2>1, <2>2, ChainThere
    <3> QED BY <1>1, <1>2, <3>2, <3>3, <3>4, Succeeds
  <2>3. CASE ~(existOK /\ tree[n] = Folder)
    <3>1. Answer(s, FALSE)
      BY <1>5, <2>3 DEF mkdirLook
    <3>2. ~CanMkdir(tree, c.path) /\ Exists(c.path)
      BY <1>3, <1>5, <2>1 DEF CanMkdir
    <3>3. Expected(c) = [ok |-> FALSE, tree |-> tree']
      BY <1>1, <2>1, <2>3, <3>2, ExpectedMkdir DEF Outcome
    <3> QED BY <1>1, <1>2, <3>1, <3>3, Fails
  <2> QED BY <2>2, <2>3
<1>6. CASE ~Exists(n) /\ "mkdir" \notin can
  <2>1. Answer(s, FALSE)
    BY <1>6 DEF mkdirLook
  <2>2. tree[c.path] = Absent
    BY <1>2, <1>3, <1>4, <1>6
  <2>3. Expected(c) = [ok |-> FALSE, tree |-> tree']
    BY <1>1, <1>6, <2>2, ExpectedMkdir, NodesDiffer DEF Outcome
  <2> QED BY <1>1, <1>2, <2>1, <2>3, Fails
<1>7. CASE ~Exists(n) /\ "mkdir" \in can
  <2>1. PICK at \in {"parent", "make"} :
          /\ GoTo(s, at)
          /\ at = "parent" => c.parents
          /\ at = "make" => ~c.parents \/ Dir(n) = Root
    BY <1>7 DEF mkdirLook
  <2>2. PICK j : j = [job[s] EXCEPT !.at = at]
    OBVIOUS
  <2>3. /\ Becomes(s, j) /\ j.at = at /\ j.call = c /\ j.want = job[s].want
        /\ j.names = job[s].names
    BY <1>2, <2>1, <2>2 DEF GoTo, Fields
  <2>4. Missing(job[s])
    <3>1. CASE Len(job[s].names) = 1
      BY <1>2, <1>3, <1>7, <3>1 DEF Missing
    <3> QED BY <1>4, <3>1
  <2>5. Stacked(j)
    <3>1. Descends(j) /\ Missing(j)
      BY <1>2, <2>3, <2>4 DEF Stacked, Descends, Missing
    <3>2. j.at = "make" /\ j.call.parents => At(tree, Dir(j.names[1])) # Absent
      BY <1>2, <2>1, <2>3, NodesDiffer DEF At
    <3> QED BY <1>4, <2>1, <2>3, <3>1, <3>2 DEF Stacked
  <2>6. Noted(j)
    BY <1>1, <2>1, <2>3 DEF Noted
  <2>7. Foretold(j)'
    <3>1. Foretold(j)
      BY <1>2, <2>1, <2>3, <2>5, <2>6 DEF Foretold, Charged
    <3> QED BY <1>1, <3>1, SameForetold
  <2> QED BY <1>1, <2>1, <2>3, <2>7, MoveAgrees
<1> QED BY <1>5, <1>6, <1>7

LEMMA mkdirParentAgrees ==
  ASSUME AInv, NEW s \in Sandbox, mkdirParent(s), job[s].want # Anything
  PROVE  WInv' /\ Agrees(s)
<1> DEFINE c == job[s].call
           n == Making(s)
           names == job[s].names
<1>1. /\ job[s].at = "parent" /\ UNCHANGED << tree, can, written >> /\ SInv
      /\ c.op = "mkdir" /\ Dir(n) # Root
  <2>1. job[s].at = "parent" /\ UNCHANGED << tree, can, written >> /\ SInv
    BY DEF mkdirParent, AInv, TInv
  <2>2. c.op = "mkdir" /\ Chained(job[s])
    BY <2>1 DEF AInv, TInv, Called
  <2>3. Making(s) = names[1]
    BY <2>2, MkdirHeld
  <2> QED BY <2>1, <2>2, <2>3 DEF Chained
<1>2. /\ job[s].want = Expected(c) /\ Stacked(job[s]) /\ DOMAIN job[s] = Fields
      /\ Len(names) \in Nat \ {0} /\ n \in Path
      /\ \A i \in 1..Len(names) : names[i] \in Path
      /\ n = names[1]
  BY <1>1, MkdirHeld
<1>3. names \in Seq(Path) /\ Missing(job[s]) /\ Descends(job[s]) /\ c.parents
  <2>1. Chained(job[s])
    BY <1>1, MkdirHeld
  <2> QED BY <1>1, <1>2, <2>1 DEF Stacked, Chained
<1>4. /\ Dir(n) \in Path /\ Dir(n) \in Above(n)
  BY <1>1, <1>2, DirChain
<1>5. CASE Exists(Dir(n))
  <2>1. PICK j : j = [job[s] EXCEPT !.at = "make"]
    OBVIOUS
  <2>2. /\ Becomes(s, j) /\ j.at = "make" /\ j.call = c /\ j.want = job[s].want
        /\ j.names = names
    BY <1>2, <1>5, <2>1 DEF mkdirParent, GoTo, Fields
  <2>3. Stacked(j)
    <3>1. Descends(j) /\ Missing(j)
      BY <1>3, <2>2 DEF Descends, Missing
    <3> QED BY <1>2, <1>3, <1>5, <2>2, <3>1 DEF Stacked, Exists
  <2>4. Foretold(j)'
    <3>1. Noted(j)
      BY <1>1, <2>2 DEF Noted
    <3>2. Foretold(j)
      BY <1>2, <2>2, <2>3, <3>1 DEF Foretold, Charged
    <3> QED BY <1>1, <3>2, SameForetold
  <2> QED BY <1>1, <2>2, <2>4, MoveAgrees
<1>6. CASE ~Exists(Dir(n))
  <2>1. PICK j : j = [job[s] EXCEPT !.at = "look", !.names = << Dir(Making(s)) >> \o @]
    OBVIOUS
  <2>2. PICK m : m = << Dir(n) >> \o names
    OBVIOUS
  <2>3. /\ Len(m) = Len(names) + 1 /\ m[1] = Dir(n)
        /\ \A i \in 1..Len(names) : m[i + 1] = names[i]
    BY <1>2, <1>3, <1>4, <2>2
  <2>4. /\ Becomes(s, j) /\ j.at = "look" /\ j.call = c /\ j.want = job[s].want
        /\ j.names = m
    BY <1>2, <1>6, <2>1, <2>2 DEF mkdirParent, Fields
  <2>5. ASSUME NEW i \in 1..Len(m), i # 1 PROVE i - 1 \in 1..Len(names) /\ m[i] = names[i - 1]
    <3>1. i - 1 \in 1..Len(names) /\ (i - 1) + 1 = i
      BY <1>2, <2>3, <2>5
    <3> QED BY <2>3, <3>1
  <2>6. Missing(j)
    <3>1. tree[Dir(n)] = Absent
      BY <1>1, <1>6 DEF Exists, At
    <3>2. ASSUME NEW i \in 1..Len(m) PROVE tree[m[i]] = Absent
      BY <1>3, <2>3, <2>5, <3>1 DEF Missing
    <3> QED BY <1>3, <2>4, <3>2 DEF Missing
  <2>7. Descends(j)
    <3>1. ASSUME NEW i \in 1..Len(m), NEW k \in 1..Len(m), i < k PROVE m[i] \in Above(m[k])
      <4>1. k # 1 /\ k - 1 \in 1..Len(names) /\ m[k] = names[k - 1]
        <5>1. k # 1
          BY <1>2, <2>3, <3>1
        <5> QED BY <2>5, <5>1
      <4>2. CASE i = 1
        <5>1. CASE k - 1 = 1
          BY <1>2, <1>4, <2>3, <4>1, <4>2, <5>1
        <5>2. CASE k - 1 # 1
          <6>1. 1 \in 1..Len(names) /\ 1 < k - 1
            BY <1>2, <4>1, <5>2
          <6>2. names[1] \in Above(names[k - 1])
            BY <1>3, <4>1, <6>1 DEF Descends
          <6>3. Above(names[1]) \subseteq Above(names[k - 1])
            BY <1>2, <4>1, <6>2, AboveOrder
          <6> QED BY <1>2, <1>4, <2>3, <4>1, <4>2, <6>3
        <5> QED BY <5>1, <5>2
      <4>3. CASE i # 1
        <5>1. i - 1 \in 1..Len(names) /\ m[i] = names[i - 1] /\ i - 1 < k - 1
          BY <1>2, <2>3, <2>5, <3>1, <4>3
        <5> QED BY <1>3, <4>1, <5>1 DEF Descends
      <4> QED BY <4>2, <4>3
    <3> QED BY <2>4, <3>1 DEF Descends
  <2>8. Foretold(j)'
    <3>1. Noted(j)
      BY <1>1, <2>4 DEF Noted
    <3>2. Stacked(j)
      BY <1>3, <2>4, <2>6, <2>7 DEF Stacked
    <3>3. Foretold(j)
      BY <1>2, <2>4, <3>1, <3>2 DEF Foretold, Charged
    <3> QED BY <1>1, <3>3, SameForetold
  <2> QED BY <1>1, <2>4, <2>8, MoveAgrees
<1> QED BY <1>5, <1>6

\* To make a directory that was foretold changes nothing in what is foretold.
LEMMA mkdirMakeAgrees ==
  ASSUME AInv, NEW s \in Sandbox, mkdirMake(s), job[s].want # Anything
  PROVE  WInv' /\ Agrees(s)
<1> DEFINE c == job[s].call
           n == Making(s)
           names == job[s].names
<1>1. /\ job[s].at = "make" /\ UNCHANGED << can, written >> /\ SInv /\ NInv
      /\ c.op = "mkdir"
  BY DEF mkdirMake, AInv, TInv, Called
<1>2. /\ job[s].want = Expected(c) /\ Stacked(job[s]) /\ DOMAIN job[s] = Fields
      /\ c.path \in Path /\ Len(names) \in Nat \ {0} /\ n \in Path /\ n # Root
      /\ n \in Chain(c.path)
      /\ \A i \in 1..Len(names) : names[i] \in Path
      /\ Len(names) = 1 => n = c.path
      /\ Missing(job[s]) => tree[n] = Absent /\ tree[c.path] = Absent
      /\ n = names[1]
  BY <1>1, MkdirHeld
<1>3. /\ Missing(job[s]) /\ Descends(job[s]) /\ "mkdir" \in can
      /\ tree[n] = Absent /\ tree[c.path] = Absent
      /\ Len(names) # 1 => c.parents
      /\ c.parents => At(tree, Dir(n)) # Absent
  BY <1>1, <1>2 DEF Stacked, Missing
<1>4. ~c.parents =>
        /\ InFolder(tree, n) => Expected(c) = [ok |-> TRUE, tree |-> WithChain(c.path)]
        /\ ~InFolder(tree, n) => Expected(c) = [ok |-> FALSE, tree |-> tree]
  <2>1. n = c.path \/ c.parents
    BY <1>2, <1>3
  <2>2. ASSUME ~c.parents
        PROVE  Expected(c) = Outcome("mkdir" \in can /\ CanMkdir(tree, c.path),
                                     WithChain(c.path))
    BY <1>1, <1>3, <2>2, ExpectedMkdir, NodesDiffer
  <2>3. n = c.path => (CanMkdir(tree, c.path) <=> InFolder(tree, n))
    BY <1>3 DEF CanMkdir
  <2>4. CASE ~c.parents /\ InFolder(tree, n)
    <3>1. "mkdir" \in can /\ CanMkdir(tree, c.path)
      BY <1>3, <2>1, <2>3, <2>4
    <3> QED BY <2>2, <2>4, <3>1 DEF Outcome
  <2>5. CASE ~c.parents /\ ~InFolder(tree, n)
    <3>1. ~CanMkdir(tree, c.path)
      BY <2>1, <2>3, <2>5
    <3> QED BY <2>2, <2>5, <3>1 DEF Outcome
  <2> QED BY <2>4, <2>5
<1>5. CASE ~InFolder(tree, n)
  <2>1. Answer(s, FALSE) /\ tree' = tree
    BY <1>5 DEF mkdirMake, Mkdir, CanMkdir
  <2>2. Expected(c) = [ok |-> FALSE, tree |-> tree']
    <3>1. CASE c.parents
      BY <1>1, <1>2, <1>3, <1>5, <2>1, <3>1, ParentsDecide
    <3>2. CASE ~c.parents
      BY <1>4, <1>5, <2>1, <3>2
    <3> QED BY <3>1, <3>2
  <2> QED BY <1>1, <1>2, <2>1, <2>2, Fails
<1>6. CASE InFolder(tree, n)
  <2>1. tree' = [tree EXCEPT ![n] = Folder] /\ Made(s)
    BY <1>3, <1>6 DEF mkdirMake, Mkdir, CanMkdir
  <2>2. Expected(c) = [ok |-> TRUE, tree |-> WithChain(c.path)]
    <3>1. CASE c.parents
      BY <1>1, <1>2, <1>3, <1>6, <3>1, ParentsDecide
    <3>2. CASE ~c.parents
      BY <1>4, <1>6, <3>2
    <3> QED BY <3>1, <3>2
  <2>3. CASE Len(names) = 1
    <3>1. Answer(s, TRUE)
      BY <2>1, <2>3 DEF Made
    <3>2. n = c.path
      BY <1>2, <2>3
    <3>3. WithChain(c.path) = tree'
      BY <1>1, <1>2, <1>6, <2>1, <3>2, ChainThere
    <3> QED BY <1>1, <1>2, <2>2, <3>1, <3>3, Succeeds
  <2>4. CASE Len(names) # 1
    <3>1. PICK j : j = [job[s] EXCEPT !.at = "make", !.names = Tail(@)]
      OBVIOUS
    <3>2. PICK m : m = Tail(names)
      OBVIOUS
    <3>3. /\ Becomes(s, j) /\ j.at = "make" /\ j.call = c /\ j.want = job[s].want
          /\ j.names = m
      BY <1>2, <2>1, <2>4, <3>1, <3>2 DEF Made, Fields
    <3>4. /\ Len(names) \in Nat /\ Len(names) > 1 /\ Len(m) = Len(names) - 1
          /\ \A i \in 1..Len(names) - 1 : m[i] = names[i + 1]
      <4>1. names \in Seq(Path) /\ names # << >>
        BY <1>1, MkdirHeld DEF Chained
      <4> HIDE DEF names
      <4> QED BY <2>4, <3>2, <4>1, TailShape
    <3>5. ASSUME NEW i \in 1..Len(m)
          PROVE  /\ i + 1 \in 1..Len(names) /\ m[i] = names[i + 1]
                 /\ m[i] \in Path /\ m[i] # n /\ tree[m[i]] = Absent /\ n \in Above(m[i])
      <4>1. i + 1 \in 1..Len(names) /\ 1 \in 1..Len(names) /\ 1 < i + 1 /\ m[i] = names[i + 1]
        BY <3>4
      <4>2. m[i] \in Path /\ n \in Above(m[i])
        BY <1>2, <1>3, <4>1 DEF Descends
      <4>3. m[i] # n
        BY <4>2, AboveOrder
      <4>4. tree[m[i]] = Absent
        BY <1>3, <4>1 DEF Missing
      <4> QED BY <4>1, <4>2, <4>3, <4>4
    <3>6. \A q \in Path : tree'[q] = IF q = n THEN Folder ELSE tree[q]
      BY <1>1, <2>1 DEF SInv
    <3>7. Missing(j)'
      BY <1>1, <1>3, <3>3, <3>5, <3>6 DEF Missing
    <3>8. Descends(j)'
      <4>1. ASSUME NEW i \in 1..Len(m), NEW k \in 1..Len(m), i < k PROVE m[i] \in Above(m[k])
        <5>1. i + 1 < k + 1
          BY <3>4, <4>1
        <5> QED BY <1>3, <3>5, <5>1 DEF Descends
      <4> QED BY <3>3, <4>1 DEF Descends
    <3>9. At(tree, Dir(m[1]))' # Absent
      <4>1. 1 \in 1..Len(names) - 1 /\ m[1] = names[2] /\ names[1] = Dir(names[1 + 1])
        <5>1. Chained(job[s])
          BY <1>1, MkdirHeld
        <5> QED BY <3>4, <5>1 DEF Chained
      <4>2. Dir(m[1]) = n
        BY <1>2, <4>1
      <4> QED BY <1>2, <3>6, <4>2, NodesDiffer DEF At
    <3>10. Stacked(j)'
      BY <1>3, <2>4, <3>3, <3>7, <3>8, <3>9 DEF Stacked
    <3>11. m[1] \in Chain(c.path) /\ tree'[c.path] = Absent
      <4>1. Chained(job[s]) /\ names[Len(names)] = c.path
        BY <1>1, MkdirHeld DEF Chained
      <4>2. /\ 2 \in 1..Len(names) /\ Len(names) \in 1..Len(names) /\ 1 \in 1..Len(m)
            /\ 1 \in 1..Len(names) /\ 1 < Len(names) /\ 1 + 1 = 2
            /\ 2 < Len(names) \/ 2 = Len(names)
        <5>1. \A l \in Nat : l > 1 =>
                /\ 2 \in 1..l /\ l \in 1..l /\ 1 \in 1..l - 1 /\ 1 \in 1..l /\ 1 < l
                /\ 2 < l \/ 2 = l
          OBVIOUS
        <5>2. 1 + 1 = 2
          OBVIOUS
        <5> QED BY <3>4, <5>1, <5>2
      <4>3. m[1] = names[2]
        BY <3>5, <4>2
      <4>4. names[2] = c.path \/ names[2] \in Above(c.path)
        BY <1>3, <4>1, <4>2 DEF Descends
      <4>5. c.path # n
        <5>1. n \in Above(c.path)
          BY <1>2, <1>3, <4>1, <4>2 DEF Descends
        <5> QED BY <1>2, <5>1, AboveOrder
      <4> QED BY <1>2, <1>3, <3>6, <4>3, <4>4, <4>5, PathLen DEF Above
    <3>12. SInv' /\ NInv'
      <4>1. SInv'
        BY <1>1, <1>2, <1>3, <1>6, <2>1, TreeKeepsShape DEF Mkdir, CanMkdir
      <4> QED BY <1>1, <3>6, <4>1 DEF NInv, IsNode
    <3>13. (InFolder(tree, m[1]))'
      <4>1. Dir(m[1]) = n
        BY <1>2, <3>4, <1>1, MkdirHeld DEF Chained
      <4> QED BY <1>2, <3>6, <4>1 DEF InFolder, At
    <3>14. WithChain(c.path) = WithChain(j.call.path)'
      BY <1>2, <3>3, <3>6 DEF WithChain
    <3>15. Expected(j.call)' = [ok |-> TRUE, tree |-> WithChain(j.call.path)']
      <4>1. tree'[m[1]] = Absent /\ c.parents
        <5>1. 1 \in 1..Len(m)
          BY <3>4
        <5>2. m[1] \in Path /\ m[1] # n /\ tree[m[1]] = Absent
          BY <3>5, <5>1
        <5> QED BY <1>3, <2>4, <3>6, <5>2
      <4> QED BY <1>1, <1>2, <1>3, <3>3, <3>11, <3>12, <3>13, <4>1, ThenDecided DEF Decided
    <3>16. Foretold(j)'
      <4>1. Noted(j)'
        BY <1>1, <3>3 DEF Noted
      <4>2. j.want = Expected(j.call)'
        BY <1>2, <2>2, <3>3, <3>14, <3>15
      <4> QED BY <3>3, <3>10, <4>1, <4>2 DEF Foretold, Charged
    <3> QED BY <1>1, <3>3, <3>16, MoveAgrees
  <2> QED BY <2>3, <2>4
<1> QED BY <1>5, <1>6

LEMMA mkdirAgrees ==
  ASSUME AInv, NEW s \in Sandbox, mkdirLook(s) \/ mkdirParent(s) \/ mkdirMake(s)
  PROVE  WInv' /\ Agrees(s)
BY MkdirDisturbed, mkdirLookAgrees, mkdirParentAgrees, mkdirMakeAgrees

(***************************************************************************)
(* A lone call is atomic                                                   *)
(***************************************************************************)

\* The filesystem stays made of files and directories.
LEMMA OperationNodes ==
  ASSUME SInv, NInv, NEW p \in Path,
         \/ \E d : Write(p, d)
         \/ \E x : AppendTo(p, x)
         \/ Mkdir(p)
         \/ Remove(p)
         \/ \E q \in Path : Rename(p, q)
  PROVE  NInv'
<1>1. IsNode(Folder) /\ IsNode(Absent) /\ \A d : IsNode(File(d))
  BY DEF IsNode, File
<1>2. \A q \in Path : tree'[q] \in {Folder, Absent, tree[q], tree[p]} \/ \E d : tree'[q] = File(d)
  BY DEF SInv, Write, AppendTo, Mkdir, Remove, Rename
<1>3. \A q \in Path : IsNode(tree[q])
  BY DEF NInv
<1>4. \A q \in Path : IsNode(tree'[q])
  BY <1>1, <1>2, <1>3
<1> QED BY <1>4 DEF NInv

\* A step of a call changes the tree by one operation, or not at all.
LEMMA TreeStep ==
  ASSUME AInv, NEW s \in Sandbox,
         \/ \E c \in Call : Begin(s, c)
         \/ charge(s) \/ writeFile(s) \/ rewriteRead(s) \/ rewrite(s)
         \/ lookFile(s) \/ readFile(s) \/ lookAppend(s)
         \/ lookRemove(s) \/ remove(s) \/ rename(s)
         \/ mkdirLook(s) \/ mkdirParent(s) \/ mkdirMake(s)
  PROVE  NInv'
<1> DEFINE c == job[s].call
<1>1. SInv /\ NInv
  BY DEF AInv, TInv
<1>2. CASE tree' = tree
  BY <1>1, <1>2 DEF NInv
<1>3. CASE tree' # tree
  <2>1. /\ job[s].at # "rest"
        /\ \/ \E d : Write(c.path, d)
           \/ \E x : AppendTo(c.path, x)
           \/ Remove(c.path)
           \/ Rename(c.path, c.dest) /\ job[s].at = "rename"
           \/ Mkdir(Making(s)) /\ job[s].at = "make"
    BY <1>3 DEF Begin, charge, writeFile, rewriteRead, rewrite, lookFile, readFile,
                lookAppend, lookRemove, remove, rename, mkdirLook, mkdirParent, mkdirMake
  <2>2. Called(job[s]) /\ c \in Call /\ c.path \in Path
    BY <2>1, OnTheWay
  <2>3. job[s].at = "rename" => c.dest \in Path
    BY <2>2, CallShape DEF Called
  <2>4. job[s].at = "make" => Making(s) \in Path
    BY <2>2 DEF Called, Chained, Making
  <2> QED BY <1>1, <2>1, <2>2, <2>3, <2>4, OperationNodes
<1> QED BY <1>2, <1>3

\* A step is a step of one sandbox: what the others are told does not change.
LEMMA OnlyOneAnswers ==
  ASSUME AInv, NEW s \in Sandbox, NEW j, Becomes(s, j), Agrees(s)
  PROVE  \A i \in Sandbox : Agrees(i)
<1>1. ASSUME NEW i \in Sandbox, i # s PROVE job'[i].at = job[i].at
  <2>1. Jobs
    BY DEF AInv, QInv
  <2> QED BY <1>1, <2>1, OthersOwe
<1>2. ASSUME NEW i \in Sandbox, i # s PROVE Agrees(i)
  BY <1>1, <1>2 DEF Agrees
<1> QED BY <1>2

LEMMA StepBecomes ==
  ASSUME NEW s \in Sandbox,
         \/ \E c \in Call : Begin(s, c)
         \/ charge(s) \/ writeFile(s) \/ rewriteRead(s) \/ rewrite(s)
         \/ lookFile(s) \/ readFile(s) \/ lookAppend(s)
         \/ lookRemove(s) \/ remove(s) \/ rename(s)
         \/ mkdirLook(s) \/ mkdirParent(s) \/ mkdirMake(s)
  PROVE  \E j : Becomes(s, j)
<1>1. ASSUME NEW c \in Call, Begin(s, c) PROVE \E j : Becomes(s, j)
  BY <1>1 DEF Begin
<1>2. ASSUME charge(s) \/ writeFile(s) \/ rewriteRead(s) \/ rewrite(s)
      PROVE  \E j : Becomes(s, j)
  BY <1>2 DEF charge, writeFile, rewriteRead, rewrite, GoTo, Answer
<1>3. ASSUME lookFile(s) \/ readFile(s) \/ lookAppend(s) \/ lookRemove(s) \/ remove(s) \/ rename(s)
      PROVE  \E j : Becomes(s, j)
  BY <1>3 DEF lookFile, readFile, lookAppend, lookRemove, remove, rename, GoTo, Answer
<1>4. ASSUME mkdirLook(s) \/ mkdirParent(s) \/ mkdirMake(s)
      PROVE  \E j : Becomes(s, j)
  BY <1>4 DEF mkdirLook, mkdirParent, mkdirMake, Made, GoTo, Answer
<1> QED BY <1>1, <1>2, <1>3, <1>4

LEMMA NextAgrees == AInv /\ [Next]_vars => NInv' /\ WInv' /\ \A s \in Sandbox : Agrees(s)
<1> SUFFICES ASSUME AInv, [Next]_vars
             PROVE  NInv' /\ WInv' /\ \A s \in Sandbox : Agrees(s)
  OBVIOUS
<1>1. CASE Reset
  <2>1. /\ \A s \in Sandbox : job[s].at = "rest"
        /\ tree' = tree /\ job' = job
    BY <1>1 DEF Reset
  <2>2. WInv'
    BY <2>1 DEF WInv
  <2> QED BY <2>1, <2>2 DEF AInv, NInv, Agrees
<1>2. CASE UNCHANGED vars
  <2>1. tree' = tree /\ can' = can /\ written' = written /\ job' = job
    BY <1>2 DEF vars
  <2>2. ASSUME NEW s \in Sandbox, job'[s].at # "rest", job'[s].want # Anything
        PROVE  Foretold(job[s])'
    <3>1. Foretold(job[s])
      BY <2>1, <2>2 DEF AInv, WInv
    <3> QED BY <2>1, <3>1, SameForetold
  <2>3. WInv'
    BY <2>2 DEF WInv
  <2> QED BY <2>1, <2>3 DEF AInv, NInv, Agrees
<1>3. ASSUME NEW s \in Sandbox,
             \/ \E c \in Call : Begin(s, c)
             \/ charge(s) \/ writeFile(s) \/ rewriteRead(s) \/ rewrite(s)
             \/ lookFile(s) \/ readFile(s) \/ lookAppend(s)
             \/ lookRemove(s) \/ remove(s) \/ rename(s)
             \/ mkdirLook(s) \/ mkdirParent(s) \/ mkdirMake(s)
      PROVE  NInv' /\ WInv' /\ \A i \in Sandbox : Agrees(i)
  <2>1. WInv' /\ Agrees(s)
    BY <1>3, BeginAgrees, chargeAgrees, writeFileAgrees, rewriteReadAgrees, rewriteAgrees,
       lookAgrees, removeAgrees, renameAgrees, mkdirAgrees
  <2>2. NInv'
    BY <1>3, TreeStep
  <2>3. PICK j : Becomes(s, j)
    BY <1>3, StepBecomes
  <2> QED BY <2>1, <2>2, <2>3, OnlyOneAnswers
<1> QED BY <1>1, <1>2, <1>3 DEF Next

LEMMA InitAgrees == Init => AInv
<1> SUFFICES ASSUME Init PROVE AInv
  OBVIOUS
<1>1. NInv
  BY MountAssumption DEF Init, NInv
<1>2. WInv
  BY DEF Init, WInv, Rest
<1> QED BY <1>1, <1>2, InitCalled, InitQuota DEF AInv

\* A call that nobody interferes with answers what one atomic operation would
\* have answered when the call began, and leaves the tree that operation leaves:
\* for any names, sandboxes, interfaces and limit, with the charge that comes a
\* step before the write, the append that reads and rewrites, and the mkdir that
\* climbs to what is there and comes down again.
THEOREM LoneCallsAreAtomic == Spec => LoneCallsAgree
<1>1. Init => AInv
  BY InitAgrees
<1>2. AInv /\ [Next]_vars => AInv'
  BY NextAgrees, NextCalled, NextQuota DEF AInv
<1>3. AInv /\ [Next]_vars =>
        [\A s \in Sandbox :
           job[s].at # "rest" /\ job'[s].at = "rest" /\ job[s].want # Anything
             => job'[s].ok = job[s].want.ok /\ tree' = job[s].want.tree]_vars
  BY NextAgrees DEF Agrees
<1> QED BY <1>1, <1>2, <1>3, PTL DEF Spec, LoneCallsAgree
=============================================================================
