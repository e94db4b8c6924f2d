--------------------------- MODULE OverlayProofs ---------------------------
(***************************************************************************)
(* What a sandbox sees through an Overlay is a plain filesystem, for any   *)
(* names, any Base and any number of goroutines in Remove.  The invariant  *)
(* says that the two layers fit: whatever hides a name of Base (a deleted  *)
(* directory above it, one made anew, a file of the upper layer) finds it  *)
(* already deleted or replaced for itself.  Thus each name can be judged   *)
(* alone, and the ancestors that hidden walks through decide nothing.      *)
(***************************************************************************)
EXTENDS Overlay, PathProofs

(***************************************************************************)
(* Nodes and trees                                                         *)
(***************************************************************************)

IsTree(t) ==
  /\ t = [p \in Path |-> t[p]]
  /\ \A p \in Path : IsNode(t[p])
  /\ Shaped(t)

LEMMA NodeKinds ==
  /\ Absent # Folder /\ ~IsFile(Absent) /\ ~IsFile(Folder)
  /\ \A data : /\ IsFile(File(data)) /\ IsNode(File(data)) /\ File(data).data = data
               /\ File(data) # Absent /\ File(data) # Folder
  /\ IsNode(Absent) /\ IsNode(Folder)
  /\ \A x : IsNode(x) /\ x # Absent /\ x # Folder => IsFile(x) /\ x = File(x.data)
  /\ Absent.data = << >>
<1>1. Absent # Folder /\ ~IsFile(Absent) /\ ~IsFile(Folder) /\ Absent.data = << >>
  BY DEF Absent, Folder, IsFile
<1>2. ASSUME NEW data
      PROVE  /\ IsFile(File(data)) /\ File(data).data = data
             /\ File(data) # Absent /\ File(data) # Folder
  BY DEF Absent, Folder, IsFile, File
<1>3. ASSUME NEW data PROVE IsNode(File(data))
  BY <1>2 DEF IsNode
<1>4. IsNode(Absent) /\ IsNode(Folder)
  BY DEF IsNode
<1>5. \A x : IsNode(x) /\ x # Absent /\ x # Folder => IsFile(x) /\ x = File(x.data)
  <2> SUFFICES ASSUME NEW x, IsNode(x), x # Absent, x # Folder
               PROVE  IsFile(x) /\ x = File(x.data)
    OBVIOUS
  <2>1. x = File(x.data)
    BY DEF IsNode
  <2> QED BY <2>1, <1>2
<1> QED BY <1>1, <1>2, <1>3, <1>4, <1>5

\* The instance has the names of this module.
LEMMA SameNames ==
  /\ Mem!Absent = Absent /\ Mem!Folder = Folder /\ Mem!Root = Root
  /\ \A data : Mem!File(data) = File(data)
  /\ \A p : Mem!Dir(p) = Dir(p) /\ Mem!Children(p) = Children(p)
  /\ \A p, q : Mem!Below(q, p) <=> Below(q, p)
BY DEF Mem!Absent, Mem!Folder, Mem!Root, Mem!File, Mem!Dir, Mem!Children, Mem!Below,
       Absent, Folder, Root, File, Dir, Children, Below

\* MemFS over a tree has no synthetic directories.
LEMMA UpperStat ==
  ASSUME NEW m, Shaped(m)
  PROVE  /\ \A p \in Path : Mem!Stat(m, p) = m[p]
         /\ Mem!Stat(m, Root) = Folder
         /\ \A d : Mem!ReadDir(m, d) = { q \in Children(d) : m[q] # Absent }
<1>1. ASSUME NEW p \in Path PROVE Mem!Stat(m, p) = m[p]
  <2>1. p # Root
    BY PathLen
  <2>2. ASSUME m[p] = Absent, NEW q \in Path, Below(q, p), m[q] # Absent PROVE FALSE
    <3>1. p \in Above(q)
      BY <2>2, BelowAbove
    <3> QED BY <2>2, <3>1, ShapedAbove, NodeKinds
  <2> QED BY <2>1, <2>2, SameNames DEF Mem!Stat
<1>2. Mem!Stat(m, Root) = Folder
  BY SameNames DEF Mem!Stat
<1>3. ASSUME NEW d PROVE Mem!ReadDir(m, d) = { q \in Children(d) : m[q] # Absent }
  <2>1. \A q \in Children(d) : q \in Path
    BY DEF Children
  <2> QED BY <1>1, <2>1, SameNames DEF Mem!ReadDir
<1> QED BY <1>1, <1>2, <1>3

(***************************************************************************)
(* The invariant of an Overlay                                             *)
(***************************************************************************)

\* The name's own state decides: it is not in Base, was deleted, or replaced.
Touched(ov, q) == base[q] # Absent => q \in ov.whiteout \/ ov.upper[q] # Absent

\* All that Base has below n was touched.
Covered(ov, n) == \A q \in Path : n \in Above(q) => Touched(ov, q)

Blocks(ov, n) == n \in ov.whiteout \/ n \in ov.opaque \/ IsFile(ov.upper[n])

Fields(ov) ==
  /\ ov = [ upper |-> ov.upper, whiteout |-> ov.whiteout, opaque |-> ov.opaque ]
  /\ IsTree(ov.upper)
  /\ ov.whiteout \subseteq Path
  /\ ov.opaque \subseteq Path
  /\ \A p \in ov.whiteout : base[p] # Absent /\ ov.upper[p] = Absent

Layered(ov) == Fields(ov) /\ \A n \in Path : Blocks(ov, n) => Covered(ov, n)

\* Each name by itself.
View(ov, p) ==
  IF ov.upper[p] # Absent THEN ov.upper[p]
  ELSE IF p \in ov.whiteout THEN Absent
  ELSE base[p]

LEMMA BaseTree == ASSUME base \in Bases PROVE IsTree(base)
BY OverlayAssumption DEF IsTree

LEMMA Sight ==
  ASSUME NEW ov, Layered(ov), base \in Bases, NEW p \in Path
  PROVE  /\ stat(ov, p) = View(ov, p)
         /\ InUpper(ov, p) <=> ov.upper[p] # Absent
         /\ IsNode(View(ov, p))
         /\ gone(ov, p) /\ ov.upper[p] = Absent => View(ov, p) = Absent
         /\ gone(ov, p) => p \in ov.whiteout \/ hidden(ov, p)
         /\ hidden(ov, p) => Touched(ov, p)
<1> USE DEF Layered, Fields, IsTree
<1>1. \A n \in Path : InUpper(ov, n) <=> ov.upper[n] # Absent
  BY UpperStat DEF InUpper
<1>2. ASSUME hidden(ov, p) PROVE Touched(ov, p)
  <2>1. PICK n \in Chain(p) : \/ n \in ov.whiteout /\ ~InUpper(ov, n)
                              \/ n \in ov.opaque /\ n # p
    BY <1>2 DEF hidden
  <2>2. CASE n = p
    BY <2>1, <2>2 DEF Touched
  <2>3. CASE n # p
    <3>1. n \in Above(p) /\ n \in Path
      BY <2>3, InChain DEF Above
    <3>2. Blocks(ov, n)
      BY <2>1 DEF Blocks
    <3> QED BY <3>1, <3>2 DEF Covered
  <2> QED BY <2>2, <2>3
<1>3. ASSUME gone(ov, p), ov.upper[p] = Absent PROVE View(ov, p) = Absent
  BY <1>2, <1>3 DEF gone, View, Touched
<1>4. stat(ov, p) = View(ov, p)
  <2>1. ov.upper[p] # Absent => stat(ov, p) = ov.upper[p]
    BY <1>1, UpperStat DEF stat
  <2>2. ASSUME ov.upper[p] = Absent PROVE stat(ov, p) = View(ov, p)
    <3>1. p \in ov.whiteout => gone(ov, p)
      BY DEF gone
    <3> QED BY <1>1, <1>3, <2>2, <3>1 DEF stat, View
  <2> QED BY <2>1, <2>2 DEF View
<1>5. IsNode(View(ov, p))
  BY BaseTree, NodeKinds DEF View
<1> QED BY <1>1, <1>2, <1>3, <1>4, <1>5 DEF gone

LEMMA RootIsFolder ==
  ASSUME NEW ov, Layered(ov)
  PROVE  stat(ov, Root) = Folder /\ Chain(Root) = {} /\ Root \notin Path
<1>1. Mem!Stat(ov.upper, Root) = Folder
  BY SameNames DEF Mem!Stat
<1>2. Chain(Root) = {}
  BY DEF Chain, Root
<1> QED BY <1>1, <1>2, NodeKinds, PathLen DEF stat, InUpper

Sees(ov) == [p \in Path |-> View(ov, p)]

\* What is seen is a tree.
LEMMA SeenTree ==
  ASSUME NEW ov, Layered(ov), base \in Bases
  PROVE  IsTree(Sees(ov))
<1> USE DEF Layered, Fields
<1>1. \A p \in Path : IsNode(View(ov, p))
  BY Sight
<1>2. ASSUME NEW p \in Path, View(ov, p) # Absent, NEW n \in Above(p)
      PROVE  View(ov, n) = Folder
  <2>1. n \in Path
    BY AboveOrder
  <2>2. CASE ov.upper[p] # Absent
    <3>1. ov.upper[n] = Folder
      BY <2>2, ShapedAbove DEF IsTree
    <3> QED BY <3>1, NodeKinds DEF View
  <2>3. CASE ov.upper[p] = Absent
    <3>1. base[p] # Absent /\ p \notin ov.whiteout
      BY <1>2, <2>3 DEF View
    <3>2. base[n] = Folder
      BY <3>1, ShapedAbove, BaseTree DEF IsTree
    <3>3. ~Touched(ov, p)
      BY <2>3, <3>1 DEF Touched
    <3>4. ~Blocks(ov, n)
      BY <2>1, <3>3 DEF Covered
    <3>5. ov.upper[n] \in {Absent, Folder}
      BY <2>1, <3>4, NodeKinds DEF Blocks, IsTree
    <3> QED BY <3>2, <3>4, <3>5, NodeKinds DEF Blocks, View
  <2> QED BY <2>2, <2>3
<1>3. Shaped(Sees(ov))
  <2>1. \A p \in Path : \A n \in Above(p) : n \in Path
    BY AboveOrder
  <2> QED BY <1>2, <2>1, ShapedAbove DEF Sees
<1> QED BY <1>1, <1>3 DEF IsTree, Sees

(***************************************************************************)
(* Steps between Overlays                                                  *)
(***************************************************************************)

Parent(ov, p) == Dir(p) = Root \/ View(ov, Dir(p)) = Folder

Grows(ov, ov2) == \A q \in Path : Touched(ov, q) => Touched(ov2, q)

\* Where no directory is seen, nothing of Base below is left.
LEMMA NoFolderCovers ==
  ASSUME NEW ov, Layered(ov), base \in Bases, NEW n \in Path, View(ov, n) # Folder
  PROVE  Covered(ov, n)
<1> SUFFICES ASSUME NEW q \in Path, n \in Above(q), base[q] # Absent PROVE Touched(ov, q)
  BY DEF Covered, Touched
<1>1. base[n] = Folder
  BY BaseTree, ShapedAbove DEF IsTree
<1>2. Blocks(ov, n)
  BY <1>1, NodeKinds DEF View, Blocks, Layered, Fields, IsTree
<1> QED BY <1>2 DEF Layered, Covered

LEMMA LayeredStep ==
  ASSUME NEW ov, Layered(ov), NEW ov2, Fields(ov2), Grows(ov, ov2),
         \A n \in Path : Blocks(ov2, n) => Blocks(ov, n) \/ Covered(ov, n)
  PROVE  Layered(ov2)
BY DEF Layered, Covered, Grows

\* Every directory above p is seen if the one it lies in is.
LEMMA ParentSeen ==
  ASSUME NEW ov, Layered(ov), base \in Bases, NEW p \in Path
  PROVE  /\ Parent(ov, p) <=> \A n \in Chain(Dir(p)) : stat(ov, n) = Folder
         /\ \A n \in Above(p) : n \in Path /\ stat(ov, n) = View(ov, n)
<1>1. \A n \in Above(p) : n \in Path /\ stat(ov, n) = View(ov, n)
  BY AboveOrder, Sight
<1>2. ASSUME Parent(ov, p), NEW n \in Above(p) PROVE View(ov, n) = Folder
  <2>1. Dir(p) # Root
    <3>1. ASSUME Dir(p) = Root PROVE FALSE
      <4>1. Chain(Root) = Above(p)
        BY <3>1, DirChain
      <4> QED BY <4>1, RootIsFolder
    <3> QED BY <3>1
  <2>2. Dir(p) \in Path /\ View(ov, Dir(p)) = Folder /\ Chain(Dir(p)) = Above(p)
    BY <1>2, <2>1, DirChain DEF Parent
  <2>3. n = Dir(p) \/ n \in Above(Dir(p))
    BY <2>2 DEF Above
  <2>4. IsTree(Sees(ov)) /\ n \in Path
    BY SeenTree, AboveOrder
  <2>5. Sees(ov)[Dir(p)] = Folder /\ Sees(ov)[n] = View(ov, n)
    BY <2>2, <2>4 DEF Sees
  <2> QED BY <2>2, <2>3, <2>4, <2>5, ShapedAbove, NodeKinds DEF IsTree
<1>3. ASSUME \A n \in Above(p) : View(ov, n) = Folder PROVE Parent(ov, p)
  BY <1>3, DirChain DEF Parent
<1> QED BY <1>1, <1>2, <1>3, DirChain

(***************************************************************************)
(* ensureUpperDir and store                                                *)
(***************************************************************************)

Up(ov, p) == ensureUpperDir(ov, Dir(p))

LEMMA Ensured ==
  ASSUME NEW ov, Layered(ov), base \in Bases, NEW p \in Path
  PROVE  /\ Up(ov, p).ok <=> Parent(ov, p)
         /\ Up(ov, p).ok \in BOOLEAN
         /\ Up(ov, p).ok =>
              /\ Up(ov, p).o = [ upper |-> Up(ov, p).o.upper, whiteout |-> ov.whiteout, opaque |-> ov.opaque ]
              /\ Up(ov, p).o.whiteout = ov.whiteout /\ Up(ov, p).o.opaque = ov.opaque
              /\ Layered(Up(ov, p).o)
              /\ \A n \in Above(p) : Up(ov, p).o.upper[n] = Folder
              /\ \A n \in Path \ Above(p) : Up(ov, p).o.upper[n] = ov.upper[n]
              /\ \A n \in Path : View(Up(ov, p).o, n) = View(ov, n)
              /\ Grows(ov, Up(ov, p).o)
              /\ Mem!Stat(Up(ov, p).o.upper, Dir(p)) = Folder
<1>0. Fields(ov)
  BY DEF Layered
<1>1. \A n \in Path : InUpper(ov, n) <=> ov.upper[n] # Absent
  BY Sight
<1>2. CASE ~Parent(ov, p)
  BY <1>2, ParentSeen DEF Up, ensureUpperDir, Failed
<1>3. CASE Parent(ov, p)
  <2> DEFINE E == [n \in Path |-> IF n \in Chain(Dir(p)) /\ ~InUpper(ov, n)
                                  THEN Folder ELSE ov.upper[n]]
  <2>1. Up(ov, p) = Done([ov EXCEPT !.upper = E])
    BY <1>3, ParentSeen DEF Up, ensureUpperDir
  <2>a. [ov EXCEPT !.upper = E] = [ upper |-> E, whiteout |-> ov.whiteout, opaque |-> ov.opaque ]
    BY <1>0 DEF Fields
  <2>2. /\ Up(ov, p).ok = TRUE
        /\ Up(ov, p).o = [ upper |-> E, whiteout |-> ov.whiteout, opaque |-> ov.opaque ]
        /\ Up(ov, p).o.upper = E /\ Up(ov, p).o.whiteout = ov.whiteout /\ Up(ov, p).o.opaque = ov.opaque
    BY <2>1, <2>a DEF Done
  <2>3. /\ Chain(Dir(p)) = Above(p)
        /\ \A n \in Above(p) : n \in Path /\ View(ov, n) = Folder
    BY <1>3, ParentSeen, DirChain
  <2>4. \A n \in Path : E[n] = IF n \in Above(p) THEN Folder ELSE ov.upper[n]
    BY <1>1, <2>3 DEF View
  <2>5. \A n \in Above(p) : n \notin ov.whiteout
    BY <1>0, <2>3, NodeKinds DEF View, Fields
  <2> HIDE DEF E
  <2>6. Shaped(E)
    <3>1. ASSUME NEW q \in Path, E[q] # Absent, NEW n \in Above(q) PROVE E[n] = Folder
      <4>1. n \in Path /\ Above(n) \subseteq Above(q)
        BY AboveOrder
      <4>2. CASE q \in Above(p)
        <5>1. n \in Above(p)
          BY <4>2, AboveOrder
        <5> QED BY <4>1, <5>1, <2>4
      <4>3. CASE q \notin Above(p)
        <5>1. ov.upper[n] = Folder
          BY <1>0, <2>4, <3>1, <4>3, ShapedAbove DEF Fields, IsTree
        <5> QED BY <4>1, <5>1, <2>4
      <4> QED BY <4>2, <4>3
    <3> QED BY <3>1, ShapedAbove
  <2>7. IsTree(E)
    <3>1. E = [n \in Path |-> E[n]]
      BY DEF E
    <3>2. \A n \in Path : IsNode(E[n])
      BY <1>0, <2>4, NodeKinds DEF Fields, IsTree
    <3> QED BY <2>6, <3>1, <3>2 DEF IsTree
  <2>8. Fields(Up(ov, p).o)
    <3>1. \A n \in ov.whiteout : base[n] # Absent /\ E[n] = Absent
      BY <1>0, <2>4, <2>5 DEF Fields
    <3> QED BY <1>0, <2>2, <2>7, <3>1 DEF Fields
  <2>9. \A n \in Path : View(Up(ov, p).o, n) = View(ov, n)
    <3>1. \A n \in Above(p) : View(Up(ov, p).o, n) = Folder
      BY <2>2, <2>3, <2>4, NodeKinds DEF View
    <3>2. \A n \in Path \ Above(p) : View(Up(ov, p).o, n) = View(ov, n)
      BY <2>2, <2>4 DEF View
    <3> QED BY <2>3, <3>1, <3>2
  <2>10. Grows(ov, Up(ov, p).o)
    BY <2>2, <2>4, NodeKinds DEF Grows, Touched
  <2>11. \A n \in Path : Blocks(Up(ov, p).o, n) => Blocks(ov, n)
    BY <2>2, <2>4, NodeKinds DEF Blocks
  <2>12. Layered(Up(ov, p).o)
    BY <2>8, <2>10, <2>11, LayeredStep
  <2>13. Mem!Stat(E, Dir(p)) = Folder
    <3>1. Dir(p) = Root \/ (Dir(p) \in Path /\ Dir(p) \in Above(p))
      BY DirChain
    <3> QED BY <2>4, <2>6, <3>1, UpperStat
  <2> QED BY <1>3, <2>2, <2>3, <2>4, <2>9, <2>10, <2>12, <2>13
<1> QED BY <1>2, <1>3

\* What a write leaves, where no directory is in the way.
After(ov, p, data) ==
  [ upper    |-> [Up(ov, p).o.upper EXCEPT ![p] = File(data)],
    whiteout |-> ov.whiteout \ {p},
    opaque   |-> ov.opaque ]

LEMMA Written ==
  ASSUME NEW ov, Layered(ov), base \in Bases, NEW p \in Path, NEW data,
         Parent(ov, p), View(ov, p) # Folder
  PROVE  /\ Layered(After(ov, p, data))
         /\ Grows(ov, After(ov, p, data))
         /\ \A q \in Path : View(After(ov, p, data), q) = IF q = p THEN File(data) ELSE View(ov, q)
         /\ Mem!WriteFile(Up(ov, p).o.upper, p, data) = Mem!Done(After(ov, p, data).upper)
<1> DEFINE ov2 == After(ov, p, data)
<1>e. Up(ov, p).ok
  BY Ensured
<1>f. Layered(Up(ov, p).o) /\ Up(ov, p).o.whiteout = ov.whiteout /\ Up(ov, p).o.opaque = ov.opaque
  BY <1>e, Ensured
<1>g. \A n \in Above(p) : Up(ov, p).o.upper[n] = Folder
  BY <1>e, Ensured
<1>h. \A n \in Path \ Above(p) : Up(ov, p).o.upper[n] = ov.upper[n]
  BY <1>e, Ensured
<1>i. \A n \in Path : View(Up(ov, p).o, n) = View(ov, n)
  BY <1>e, Ensured
<1>j. Grows(ov, Up(ov, p).o) /\ Mem!Stat(Up(ov, p).o.upper, Dir(p)) = Folder
  BY <1>e, Ensured
<1> DEFINE E == Up(ov, p).o.upper
           W == ov2.upper
<1>1. /\ Layered(Up(ov, p).o) /\ Up(ov, p).o.whiteout = ov.whiteout /\ Up(ov, p).o.opaque = ov.opaque
      /\ \A n \in Above(p) : E[n] = Folder
      /\ \A n \in Path \ Above(p) : E[n] = ov.upper[n]
      /\ \A n \in Path : View(Up(ov, p).o, n) = View(ov, n)
      /\ Grows(ov, Up(ov, p).o)
      /\ Mem!Stat(E, Dir(p)) = Folder
  BY <1>f, <1>g, <1>h, <1>i, <1>j
<1>2. IsTree(E) /\ IsTree(ov.upper)
  BY <1>1 DEF Layered, Fields
<1>3. p \notin Above(p)
  BY DEF Above
<1>4. \A n \in Path : W[n] = IF n = p THEN File(data) ELSE E[n]
  BY <1>2 DEF IsTree, After
<1>5. E[p] # Folder /\ E[p] = ov.upper[p]
  BY <1>1, <1>3, NodeKinds DEF View
<1>6. W = [n \in Path |-> W[n]]
  BY <1>2 DEF IsTree, After
<1>a. /\ ov2 = [ upper |-> W, whiteout |-> ov.whiteout \ {p}, opaque |-> ov.opaque ]
      /\ ov2.upper = W /\ ov2.whiteout = ov.whiteout \ {p} /\ ov2.opaque = ov.opaque
      /\ Up(ov, p).o.upper = E
  BY DEF After
<1>b. W = [E EXCEPT ![p] = File(data)]
  BY DEF After
<1> HIDE DEF E, W, ov2
<1>7. Shaped(W)
  <2>1. ASSUME NEW q \in Path, W[q] # Absent, NEW n \in Above(q) PROVE W[n] = Folder
    <3>1. n \in Path /\ n # q
      BY AboveOrder
    <3>2. CASE q = p
      BY <1>1, <1>4, <3>1, <3>2 DEF E
    <3>3. CASE q # p
      <4>1. E[n] = Folder
        BY <1>2, <1>4, <2>1, <3>3, ShapedAbove DEF IsTree
      <4> QED BY <1>4, <1>5, <3>1, <4>1
    <3> QED BY <3>2, <3>3
  <2> QED BY <2>1, ShapedAbove
<1>8. IsTree(W)
  <2>1. \A n \in Path : IsNode(W[n])
    BY <1>2, <1>4, NodeKinds DEF IsTree
  <2> QED BY <1>6, <1>7, <2>1 DEF IsTree
<1>9. Fields(ov2)
  <2>1. \A n \in ov.whiteout \ {p} : base[n] # Absent /\ W[n] = Absent /\ n \in Path
    BY <1>1, <1>4 DEF Layered, Fields, E
  <2>2. ov.whiteout \subseteq Path /\ ov.opaque \subseteq Path
    BY DEF Layered, Fields
  <2> QED BY <1>a, <1>8, <2>1, <2>2 DEF Fields
<1>10. \A q \in Path : View(ov2, q) = IF q = p THEN File(data) ELSE View(ov, q)
  <2>1. View(ov2, p) = File(data)
    BY <1>a, <1>4, NodeKinds DEF View
  <2>2. \A q \in Path \ {p} : View(ov2, q) = View(Up(ov, p).o, q)
    BY <1>a, <1>1, <1>4 DEF View
  <2> QED BY <1>1, <2>1, <2>2
<1>11. Grows(ov, ov2)
  <2>1. \A q \in Path : Touched(Up(ov, p).o, q) => Touched(ov2, q)
    BY <1>a, <1>1, <1>4, NodeKinds DEF Touched, E
  <2> QED BY <1>1, <2>1 DEF Grows
<1>12. ASSUME NEW n \in Path, Blocks(ov2, n) PROVE Blocks(Up(ov, p).o, n) \/ Covered(Up(ov, p).o, n)
  <2>1. CASE n = p
    <3>1. Covered(Up(ov, p).o, p)
      BY <1>1, NoFolderCovers
    <3> QED BY <2>1, <3>1
  <2>2. CASE n # p
    BY <1>a, <1>1, <1>4, <1>12, <2>2 DEF Blocks, E
  <2> QED BY <2>1, <2>2
<1>13. Grows(Up(ov, p).o, ov2)
  BY <1>a, <1>1, <1>4, NodeKinds DEF Grows, Touched, E
<1>14. Layered(ov2)
  BY <1>1, <1>9, <1>12, <1>13, LayeredStep
<1>15. Mem!WriteFile(E, p, data) = Mem!Done(W)
  <2>1. Mem!Stat(E, Mem!Dir(p)) = Mem!Folder /\ E[p] # Mem!Folder
    BY <1>1, <1>5, SameNames DEF E
  <2>2. W = [E EXCEPT ![p] = Mem!File(data)]
    BY <1>b, SameNames
  <2> QED BY <2>1, <2>2 DEF Mem!WriteFile
<1> QED BY <1>10, <1>11, <1>14, <1>15 DEF E, W, ov2

LEMMA Stored ==
  ASSUME NEW ov, Layered(ov), base \in Bases, NEW p \in Path, NEW data,
         View(ov, p) # Folder \/ ov.upper[p] = Folder,
         NEW s, s = store(ov, p, data)
  PROVE  /\ s.ok <=> Parent(ov, p) /\ View(ov, p) # Folder
         /\ s.ok \in BOOLEAN
         /\ Layered(s.o)
         /\ Grows(ov, s.o)
         /\ \A q \in Path :
              View(s.o, q) = IF s.ok /\ q = p THEN File(data) ELSE View(ov, q)
<1> DEFINE e == Up(ov, p)
           w == Mem!WriteFile(e.o.upper, p, data)
<1>0. s = IF e.ok
          THEN [ ok |-> w.ok,
                 o  |-> [ upper |-> w.m, whiteout |-> ov.whiteout \ {p}, opaque |-> ov.opaque ] ]
          ELSE Failed(ov)
  BY DEF store, Up
<1>1. CASE ~Parent(ov, p)
  <2>1. ~e.ok
    BY <1>1, Ensured
  <2>2. s.ok = FALSE /\ s.o = ov
    BY <1>0, <2>1 DEF Failed
  <2> QED BY <1>1, <2>2 DEF Grows
<1>2. CASE Parent(ov, p) /\ View(ov, p) # Folder
  <2>1. e.ok
    BY <1>2, Ensured
  <2>2. w = Mem!Done(After(ov, p, data).upper)
    BY <1>2, Written
  <2>3. w.ok = TRUE /\ w.m = [e.o.upper EXCEPT ![p] = File(data)]
    BY <2>2 DEF Mem!Done, After
  <2> HIDE DEF e, w
  <2>4. s.ok = TRUE /\ s.o = After(ov, p, data)
    BY <1>0, <2>1, <2>3 DEF After, e
  <2>5. Layered(After(ov, p, data)) /\ Grows(ov, After(ov, p, data))
    BY <1>2, Written
  <2>6. \A q \in Path : View(After(ov, p, data), q) = IF q = p THEN File(data) ELSE View(ov, q)
    BY <1>2, Written
  <2> QED BY <1>2, <2>4, <2>5, <2>6
<1>3. CASE Parent(ov, p) /\ View(ov, p) = Folder
  <2>1. e.ok /\ Layered(e.o) /\ Grows(ov, e.o)
    BY <1>3, Ensured
  <2>2. e.o = [ upper |-> e.o.upper, whiteout |-> ov.whiteout, opaque |-> ov.opaque ]
    BY <1>3, Ensured
  <2>3. \A n \in Path : View(e.o, n) = View(ov, n)
    BY <1>3, Ensured
  <2>4. \A n \in Path \ Above(p) : e.o.upper[n] = ov.upper[n]
    BY <1>3, Ensured
  <2>5. ov.upper[p] = Folder /\ e.o.upper[p] = Folder
    BY <1>3, <2>4 DEF Above
  <2>6. ov.whiteout \ {p} = ov.whiteout
    BY <2>5, NodeKinds DEF Layered, Fields
  <2>7. w = Mem!Failed(e.o.upper)
    BY <2>5, SameNames DEF Mem!WriteFile
  <2>8. w.ok = FALSE /\ w.m = e.o.upper
    BY <2>7 DEF Mem!Failed
  <2> HIDE DEF e, w
  <2>9. s.ok = FALSE /\ s.o = e.o
    BY <1>0, <2>1, <2>2, <2>6, <2>8
  <2> QED BY <1>3, <2>1, <2>3, <2>9
<1> QED BY <1>1, <1>2, <1>3

(***************************************************************************)
(* Removal                                                                 *)
(***************************************************************************)

Without(ov, p, opaque) ==
  [ upper    |-> [ov.upper EXCEPT ![p] = Absent],
    whiteout |-> IF base[p] # Absent THEN ov.whiteout \cup {p} ELSE ov.whiteout,
    opaque   |-> opaque ]

LEMMA Erased ==
  ASSUME NEW ov, Layered(ov), base \in Bases, NEW p \in Path, Covered(ov, p),
         \A q \in Path : p \in Above(q) => ov.upper[q] = Absent,
         NEW opaque, opaque \subseteq ov.opaque
  PROVE  /\ Layered(Without(ov, p, opaque))
         /\ Grows(ov, Without(ov, p, opaque))
         /\ \A q \in Path : View(Without(ov, p, opaque), q) = IF q = p THEN Absent ELSE View(ov, q)
         /\ \A q \in Children(p) : View(ov, q) = Absent
<1> DEFINE ov2 == Without(ov, p, opaque)
           U == ov.upper
           V == ov2.upper
<1>1. Fields(ov) /\ IsTree(U)
  BY DEF Layered, Fields
<1>2. /\ ov2 = [ upper |-> V, whiteout |-> ov2.whiteout, opaque |-> opaque ]
      /\ ov2.opaque = opaque
      /\ \A q \in Path : q \in ov2.whiteout <=> q \in ov.whiteout \/ (q = p /\ base[p] # Absent)
      /\ ov2.whiteout \subseteq ov.whiteout \cup {p}
  BY DEF Without
<1>3. /\ \A q \in Path : V[q] = IF q = p THEN Absent ELSE U[q]
      /\ V = [q \in Path |-> V[q]]
  BY <1>1 DEF IsTree, Without
<1>a. ov2.upper = V
  OBVIOUS
<1> HIDE DEF V, ov2
<1>4. IsTree(V)
  <2>1. \A q \in Path : IsNode(V[q])
    BY <1>1, <1>3, NodeKinds DEF IsTree
  <2>2. ASSUME NEW q \in Path, V[q] # Absent, NEW n \in Above(q) PROVE V[n] = Folder
    <3>1. n \in Path /\ U[q] # Absent
      BY <1>3, <2>2, AboveOrder
    <3>2. U[n] = Folder /\ n # p
      BY <1>1, <2>2, <3>1, ShapedAbove DEF IsTree
    <3> QED BY <1>3, <3>1, <3>2
  <2> QED BY <1>3, <2>1, <2>2, ShapedAbove DEF IsTree
<1>5. Fields(ov2)
  <2>1. \A q \in ov2.whiteout : base[q] # Absent /\ V[q] = Absent
    BY <1>1, <1>2, <1>3 DEF Fields
  <2>2. ov2.whiteout \subseteq Path /\ opaque \subseteq Path
    BY <1>1, <1>2 DEF Fields
  <2> QED BY <1>2, <1>4, <1>a, <2>1, <2>2 DEF Fields
<1>6. Grows(ov, ov2)
  BY <1>2, <1>3, <1>a DEF Grows, Touched
<1>7. \A q \in Path : Blocks(ov2, q) => Blocks(ov, q) \/ Covered(ov, q)
  BY <1>2, <1>3, <1>a, NodeKinds DEF Blocks
<1>8. Layered(ov2)
  BY <1>5, <1>6, <1>7, LayeredStep
<1>9. \A q \in Path : View(ov2, q) = IF q = p THEN Absent ELSE View(ov, q)
  <2>1. View(ov2, p) = Absent
    BY <1>2, <1>3, <1>a DEF View
  <2>2. \A q \in Path \ {p} : View(ov2, q) = View(ov, q)
    BY <1>2, <1>3, <1>a DEF View
  <2> QED BY <2>1, <2>2
<1>10. \A q \in Children(p) : View(ov, q) = Absent
  <2>1. ASSUME NEW q \in Children(p) PROVE View(ov, q) = Absent
    <3>1. q \in Path /\ p \in Above(q)
      BY ChildAbove
    <3>2. Touched(ov, q) /\ U[q] = Absent
      BY <3>1 DEF Covered
    <3> QED BY <3>2 DEF Touched, View
  <2> QED BY <2>1
<1> QED BY <1>6, <1>8, <1>9, <1>10 DEF ov2

\* Of the upper layer only what has nothing below it is taken away.
LEMMA NothingBelow ==
  ASSUME NEW m, IsTree(m), NEW p \in Path,
         m[p] # Absent => Mem!Remove(m, p).ok
  PROVE  /\ \A q \in Path : p \in Above(q) => m[q] = Absent
         /\ m[p] # Absent => Mem!Remove(m, p).m = [m EXCEPT ![p] = Absent]
         /\ m[p] = Absent => m = [m EXCEPT ![p] = Absent]
<1>1. /\ \A q \in Path : Mem!Stat(m, q) = m[q]
      /\ Mem!ReadDir(m, p) = { q \in Children(p) : m[q] # Absent }
  BY UpperStat DEF IsTree
<1>2. ASSUME m[p] # Absent
      PROVE  /\ m[p] = Folder => \A q \in Children(p) : m[q] = Absent
             /\ Mem!Remove(m, p).m = [m EXCEPT ![p] = Absent]
  <2>1. \/ /\ m[p] = Folder => Mem!ReadDir(m, p) = {}
           /\ Mem!Remove(m, p) = Mem!Done([m EXCEPT ![p] = Absent])
        \/ Mem!Remove(m, p) = Mem!Failed(m)
    BY <1>1, SameNames DEF Mem!Remove
  <2>2. Mem!Failed(m).ok = FALSE
    BY DEF Mem!Failed
  <2>3. Mem!Done([m EXCEPT ![p] = Absent]).m = [m EXCEPT ![p] = Absent]
    BY DEF Mem!Done
  <2> QED BY <1>1, <1>2, <2>1, <2>2, <2>3
<1>3. ASSUME NEW q \in Path, p \in Above(q), m[q] # Absent PROVE FALSE
  <2>1. m[p] = Folder
    BY <1>3, ShapedAbove DEF IsTree
  <2>2. PICK c \in Chain(q) : c \in Children(p)
    BY <1>3, StepDown
  <2>3. c = q \/ m[c] = Folder
    BY <1>3, <2>2, ShapedAbove DEF IsTree, Above
  <2> QED BY <1>2, <1>3, <2>1, <2>2, <2>3, NodeKinds
<1>4. ASSUME m[p] = Absent PROVE m = [m EXCEPT ![p] = Absent]
  BY <1>4 DEF IsTree
<1> QED BY <1>2, <1>3, <1>4

LEMMA Finished ==
  ASSUME NEW ov, Layered(ov), base \in Bases, NEW p \in Path, Covered(ov, p),
         NEW f, f = finishRemove(ov, p)
  PROVE  /\ Layered(f.o)
         /\ Grows(ov, f.o)
         /\ \/ \A q \in Path : View(f.o, q) = View(ov, q)
            \/ /\ View(ov, p) # Absent
               /\ \A q \in Children(p) : View(ov, q) = Absent
               /\ \A q \in Path : View(f.o, q) = IF q = p THEN Absent ELSE View(ov, q)
<1> DEFINE U == ov.upper
           u == Mem!Remove(U, p)
<1>1. IsTree(U)
  BY DEF Layered, Fields
<1>2. InUpper(ov, p) <=> U[p] # Absent
  BY Sight
<1>3. CASE U[p] # Absent /\ ~u.ok
  <2>1. f.o = ov
    BY <1>2, <1>3 DEF finishRemove, Failed
  <2> QED BY <2>1 DEF Grows
<1>4. CASE U[p] # Absent => u.ok
  <2>5. ov.opaque \ {p} \subseteq ov.opaque
    OBVIOUS
  <2>a. \A q \in Path : p \in Above(q) => ov.upper[q] = Absent
    BY <1>1, <1>4, NothingBelow
  <2>6. /\ Layered(Without(ov, p, ov.opaque \ {p}))
        /\ Grows(ov, Without(ov, p, ov.opaque \ {p}))
        /\ \A q \in Path : View(Without(ov, p, ov.opaque \ {p}), q) = IF q = p THEN Absent ELSE View(ov, q)
    BY <2>5, <2>a, Erased
  <2>8. \A q \in Children(p) : View(ov, q) = Absent
    BY <2>5, <2>a, Erased
  <2>1. /\ U[p] # Absent => u.m = [U EXCEPT ![p] = Absent]
        /\ U[p] = Absent => U = [U EXCEPT ![p] = Absent]
    BY <1>1, <1>4, NothingBelow
  <2>2. (IF InUpper(ov, p) THEN u.m ELSE U) = [U EXCEPT ![p] = Absent]
    BY <1>2, <2>1
  <2>3. f.o = [ upper    |-> IF InUpper(ov, p) THEN u.m ELSE U,
                whiteout |-> IF base[p] # Absent THEN ov.whiteout \cup {p}
                                                 ELSE ov.whiteout,
                opaque   |-> ov.opaque \ {p} ]
    BY <1>2, <1>4 DEF finishRemove, Done
  <2>b. f.o = [ upper    |-> [U EXCEPT ![p] = Absent],
                whiteout |-> IF base[p] # Absent THEN ov.whiteout \cup {p}
                                                 ELSE ov.whiteout,
                opaque   |-> ov.opaque \ {p} ]
    BY <2>2, <2>3
  <2>4. f.o = Without(ov, p, ov.opaque \ {p})
    BY <2>b DEF Without
  <2> QED BY <2>4, <2>6, <2>8
<1> QED BY <1>3, <1>4

(***************************************************************************)
(* Mkdir and Rename                                                        *)
(***************************************************************************)

\* The fields that Mkdir leaves.
Made(ov, p) ==
  [ upper    |-> [Up(ov, p).o.upper EXCEPT ![p] = Folder],
    whiteout |-> ov.whiteout \ {p},
    opaque   |-> ov.opaque \cup ({p} \cap ov.whiteout) ]

LEMMA UpFolders ==
  ASSUME NEW ov, Layered(ov), base \in Bases, NEW p \in Path, Parent(ov, p)
  PROVE  \A n \in Above(p) : Up(ov, p).o.upper[n] = Folder
<1>1. Up(ov, p).ok
  BY Ensured
<1>2. Up(ov, p).ok => (\A n \in Above(p) : Up(ov, p).o.upper[n] = Folder)
  BY Ensured, ZenonT(60)
<1> QED BY <1>1, <1>2

LEMMA MadeLayered ==
  ASSUME NEW ov, Layered(ov), base \in Bases, NEW p \in Path,
         Parent(ov, p), View(ov, p) = Absent
  PROVE  /\ Layered(Made(ov, p))
         /\ Grows(ov, Made(ov, p))
         /\ \A q \in Path : View(Made(ov, p), q) = IF q = p THEN Folder ELSE View(ov, q)
         /\ Mem!Mkdir(Up(ov, p).o.upper, p) = Mem!Done(Made(ov, p).upper)
<1>1. Up(ov, p).ok
  BY Ensured
<1>e. \A n \in Above(p) : Up(ov, p).o.upper[n] = Folder
  BY UpFolders
<1> DEFINE ov2 == Made(ov, p)
           e == Up(ov, p)
           E == e.o.upper
           W == ov2.upper
<1>2. Layered(e.o) /\ e.o.whiteout = ov.whiteout /\ e.o.opaque = ov.opaque
  BY <1>1, Ensured
<1>3. \A n \in Above(p) : E[n] = Folder
  BY <1>e
<1>4. \A n \in Path \ Above(p) : E[n] = ov.upper[n]
  BY <1>1, Ensured
<1>5. \A n \in Path : View(e.o, n) = View(ov, n)
  BY <1>1, Ensured
<1>6. Grows(ov, e.o) /\ Mem!Stat(E, Dir(p)) = Folder
  BY <1>1, Ensured
<1>7. IsTree(E)
  BY <1>2 DEF Layered, Fields
<1>8. /\ W = [E EXCEPT ![p] = Folder]
      /\ ov2 = [ upper |-> W, whiteout |-> ov2.whiteout, opaque |-> ov2.opaque ]
      /\ ov2.whiteout = ov.whiteout \ {p}
      /\ ov2.opaque = ov.opaque \cup ({p} \cap ov.whiteout)
      /\ ov2.upper = W
  BY DEF Made
<1> HIDE DEF ov2, W, E
<1>a. e.o.upper = E
  BY DEF E
<1>9. E[p] = Absent
  BY <1>4, NodeKinds DEF View, Above
<1>10. /\ \A q \in Path : W[q] = IF q = p THEN Folder ELSE E[q]
       /\ W = [q \in Path |-> W[q]]
  BY <1>7, <1>8 DEF IsTree
<1>11. IsTree(W)
  <2>1. \A q \in Path : IsNode(W[q])
    BY <1>7, <1>10, NodeKinds DEF IsTree
  <2>2. ASSUME NEW q \in Path, W[q] # Absent, NEW n \in Above(q) PROVE W[n] = Folder
    <3>1. n \in Path
      BY AboveOrder
    <3>2. q # p => E[n] = Folder
      BY <1>7, <1>10, <2>2, ShapedAbove DEF IsTree
    <3> QED BY <1>3, <1>10, <3>1, <3>2
  <2> QED BY <1>10, <2>1, <2>2, ShapedAbove DEF IsTree
<1>12. Fields(ov2)
  <2>1. \A q \in ov2.whiteout : base[q] # Absent /\ W[q] = Absent
    BY <1>2, <1>8, <1>10, <1>a DEF Layered, Fields
  <2>2. ov2.whiteout \subseteq Path /\ ov2.opaque \subseteq Path
    BY <1>8 DEF Layered, Fields
  <2> QED BY <1>8, <1>11, <2>1, <2>2 DEF Fields
<1>13. Grows(e.o, ov2)
  BY <1>2, <1>8, <1>10, <1>a, NodeKinds DEF Grows, Touched
<1>14. \A q \in Path : Blocks(ov2, q) => Blocks(e.o, q)
  BY <1>2, <1>8, <1>10, <1>a, NodeKinds DEF Blocks
<1>15. Layered(ov2)
  BY <1>2, <1>12, <1>13, <1>14, LayeredStep
<1>16. Grows(ov, ov2)
  BY <1>6, <1>13 DEF Grows
<1>17. \A q \in Path : View(ov2, q) = IF q = p THEN Folder ELSE View(ov, q)
  <2>1. View(ov2, p) = Folder
    BY <1>8, <1>10, NodeKinds DEF View
  <2>2. \A q \in Path \ {p} : View(ov2, q) = View(e.o, q)
    BY <1>2, <1>8, <1>10, <1>a DEF View
  <2> QED BY <1>5, <2>1, <2>2
<1>18. Mem!Mkdir(E, p) = Mem!Done(W)
  <2>1. Mem!Stat(E, p) = Mem!Absent /\ Mem!Stat(E, Mem!Dir(p)) = Mem!Folder
    BY <1>6, <1>7, <1>9, UpperStat, SameNames DEF IsTree, E
  <2>2. W = [E EXCEPT ![p] = Mem!Folder]
    BY <1>8, SameNames
  <2> QED BY <2>1, <2>2 DEF Mem!Mkdir
<1> QED BY <1>15, <1>16, <1>17, <1>18 DEF ov2, W, E

LEMMA MkdirDone ==
  ASSUME NEW ov, Layered(ov), base \in Bases, NEW p \in Path,
         NEW r, r = Mkdir(ov, p)
  PROVE  /\ r.ok <=> Parent(ov, p) /\ View(ov, p) = Absent
         /\ r.ok \in BOOLEAN
         /\ Layered(r.o)
         /\ Grows(ov, r.o)
         /\ \A q \in Path : View(r.o, q) = IF r.ok /\ q = p THEN Folder ELSE View(ov, q)
<1> DEFINE e == Up(ov, p)
           u == Mem!Mkdir(e.o.upper, p)
<1>0. r = IF stat(ov, p) = Absent /\ e.ok
          THEN [ ok |-> u.ok,
                 o  |-> [ upper    |-> u.m,
                          whiteout |-> ov.whiteout \ {p},
                          opaque   |-> ov.opaque \cup ({p} \cap ov.whiteout) ] ]
          ELSE Failed(ov)
  BY DEF Mkdir, Up
<1>1. stat(ov, p) = View(ov, p)
  BY Sight
<1>2. CASE ~(Parent(ov, p) /\ View(ov, p) = Absent)
  <2>1. ~(stat(ov, p) = Absent /\ e.ok)
    BY <1>1, <1>2, Ensured
  <2>2. r.ok = FALSE /\ r.o = ov
    BY <1>0, <2>1 DEF Failed
  <2> QED BY <1>2, <2>2 DEF Grows
<1>3. CASE Parent(ov, p) /\ View(ov, p) = Absent
  <2>1. e.ok
    BY <1>3, Ensured
  <2>2. u = Mem!Done(Made(ov, p).upper)
    BY <1>3, MadeLayered
  <2>3. u.ok = TRUE /\ u.m = [e.o.upper EXCEPT ![p] = Folder]
    BY <2>2 DEF Mem!Done, Made
  <2> HIDE DEF e, u
  <2>4. r.ok = TRUE /\ r.o = Made(ov, p)
    BY <1>0, <1>1, <1>3, <2>1, <2>3 DEF Made, e
  <2>5. Layered(Made(ov, p)) /\ Grows(ov, Made(ov, p))
    BY <1>3, MadeLayered
  <2>6. \A q \in Path : View(Made(ov, p), q) = IF q = p THEN Folder ELSE View(ov, q)
    BY <1>3, MadeLayered
  <2> QED BY <1>3, <2>4, <2>5, <2>6
<1> QED BY <1>2, <1>3

\* Where the upper layer has no directory, reading a name and asking what it
\* is look at the same node.
LEMMA Reads ==
  ASSUME NEW ov, Layered(ov), base \in Bases, NEW p \in Path, ov.upper[p] # Folder
  PROVE  readFile(ov, p) = View(ov, p)
<1>1. IsTree(ov.upper)
  BY DEF Layered, Fields
<1>2. Mem!Stat(ov.upper, p) = ov.upper[p]
  BY <1>1, UpperStat DEF IsTree
<1>3. CASE ov.upper[p] # Absent
  <2>1. IsFile(ov.upper[p])
    BY <1>1, <1>3, NodeKinds DEF IsTree
  <2> QED BY <1>2, <1>3, <2>1 DEF readFile, View
<1>4. CASE ov.upper[p] = Absent
  <2>1. ~IsFile(Mem!Stat(ov.upper, p))
    BY <1>2, <1>4, NodeKinds
  <2>2. gone(ov, p) => View(ov, p) = Absent
    BY <1>4, Sight
  <2>3. ~gone(ov, p) => View(ov, p) = base[p]
    BY <1>4 DEF gone, View
  <2> QED BY <2>1, <2>2, <2>3 DEF readFile
<1> QED BY <1>3, <1>4

LEMMA WrittenFile ==
  ASSUME NEW ov, Layered(ov), base \in Bases, NEW p \in Path, NEW data,
         NEW s, s = WriteFile(ov, p, data)
  PROVE  /\ s.ok <=> Parent(ov, p) /\ View(ov, p) # Folder
         /\ s.ok \in BOOLEAN
         /\ Layered(s.o)
         /\ Grows(ov, s.o)
         /\ \A q \in Path :
              View(s.o, q) = IF s.ok /\ q = p THEN File(data) ELSE View(ov, q)
<1>1. stat(ov, p) = View(ov, p)
  BY Sight
<1>2. CASE View(ov, p) = Folder
  <2>1. s.ok = FALSE /\ s.o = ov
    BY <1>1, <1>2 DEF WriteFile, Failed
  <2> QED BY <1>2, <2>1 DEF Grows
<1>3. CASE View(ov, p) # Folder
  <2>1. s = store(ov, p, data)
    BY <1>1, <1>3 DEF WriteFile
  <2> QED BY <1>3, <2>1, Stored
<1> QED BY <1>2, <1>3

\* An append that fails where a plain filesystem would not is the one that
\* isNotExist misjudges.
LEMMA Appended ==
  ASSUME NEW ov, Layered(ov), base \in Bases, NEW p \in Path, NEW x,
         NEW s, s = AppendFile(ov, p, x)
  PROVE  /\ s.ok => Parent(ov, p) /\ View(ov, p) # Folder
         /\ NotExistOnly /\ Parent(ov, p) /\ View(ov, p) # Folder => s.ok
         /\ s.ok \in BOOLEAN
         /\ Layered(s.o)
         /\ Grows(ov, s.o)
         /\ \A q \in Path :
              View(s.o, q) = IF s.ok /\ q = p THEN File(View(ov, p).data \o << x >>)
                                              ELSE View(ov, q)
<1> DEFINE Reaches == IsFile(readFile(ov, p)) \/ isNotExist(ov, p)
<1>1. IsTree(ov.upper) /\ IsNode(View(ov, p))
  BY Sight DEF Layered, Fields
<1>2. CASE ~Reaches
  <2>1. s.ok = FALSE /\ s.o = ov
    BY <1>2 DEF AppendFile, Failed
  <2>2. NotExistOnly => View(ov, p) = Folder
    <3>1. ASSUME NotExistOnly, View(ov, p) # Folder PROVE FALSE
      <4>1. ov.upper[p] # Folder
        BY <3>1, NodeKinds DEF View
      <4>2. readFile(ov, p) = View(ov, p)
        BY <4>1, Reads
      <4>3. IsFile(View(ov, p)) \/ View(ov, p) = Absent
        BY <1>1, <3>1, NodeKinds
      <4> QED BY <1>2, <3>1, <4>2, <4>3 DEF isNotExist
    <3> QED BY <3>1
  <2> QED BY <2>1, <2>2 DEF Grows
<1>3. CASE Reaches
  <2>1. s = store(ov, p, readFile(ov, p).data \o << x >>)
    BY <1>3 DEF AppendFile
  <2>2. View(ov, p) # Folder \/ ov.upper[p] = Folder
    <3>1. ASSUME View(ov, p) = Folder, ov.upper[p] # Folder PROVE FALSE
      <4>1. readFile(ov, p) = Folder
        BY <3>1, Reads
      <4> QED BY <1>3, <4>1, NodeKinds DEF isNotExist
    <3> QED BY <3>1
  <2>3. View(ov, p) # Folder => readFile(ov, p) = View(ov, p)
    <3>1. ASSUME View(ov, p) # Folder PROVE readFile(ov, p) = View(ov, p)
      <4>1. ov.upper[p] # Folder
        BY <3>1, NodeKinds DEF View
      <4> QED BY <4>1, Reads
    <3> QED BY <3>1
  <2> DEFINE data == readFile(ov, p).data \o << x >>
  <2>4. /\ s.ok <=> Parent(ov, p) /\ View(ov, p) # Folder
        /\ s.ok \in BOOLEAN
        /\ Layered(s.o)
        /\ Grows(ov, s.o)
        /\ \A q \in Path : View(s.o, q) = IF s.ok /\ q = p THEN File(data) ELSE View(ov, q)
    BY <2>1, <2>2, Stored
  <2>5. s.ok => data = View(ov, p).data \o << x >>
    BY <2>3, <2>4
  <2> HIDE DEF data
  <2> QED BY <2>4, <2>5
<1> QED BY <1>2, <1>3

\* A rename that is neither onto itself nor onto a directory.
LEMMA Renamed ==
  ASSUME NEW ov, Layered(ov), base \in Bases, NEW p \in Path, NEW q \in Path,
         p # q, View(ov, q) # Folder,
         NEW r, r = Rename(ov, p, q)
  PROVE  /\ r.ok <=> IsFile(View(ov, p)) /\ Parent(ov, q)
         /\ r.ok \in BOOLEAN
         /\ Layered(r.o)
         /\ Grows(ov, r.o)
         /\ \A n \in Path :
              View(r.o, n) = IF r.ok /\ n = p THEN Absent
                             ELSE IF r.ok /\ n = q THEN View(ov, p)
                             ELSE View(ov, n)
<1> DEFINE data == readFile(ov, p).data
           w == Mem!WriteFile(Up(ov, q).o.upper, q, data)
           u == Mem!Remove(w.m, p)
           ov2 == After(ov, q, data)
<1>1. stat(ov, p) = View(ov, p) /\ IsNode(View(ov, p))
  BY Sight
<1>2. CASE ~(IsFile(View(ov, p)) /\ Parent(ov, q))
  <2>1. ~IsFile(stat(ov, p)) \/ ~Up(ov, q).ok
    BY <1>1, <1>2, Ensured
  <2>2. r.ok = FALSE /\ r.o = ov
    BY <2>1 DEF Rename, Up, Failed
  <2> QED BY <1>2, <2>2 DEF Grows
<1>3. CASE IsFile(View(ov, p)) /\ Parent(ov, q)
  <2>1. View(ov, p) # Folder /\ View(ov, p) # Absent /\ View(ov, p) = File(View(ov, p).data)
    BY <1>1, <1>3, NodeKinds
  <2>2. File(data) = View(ov, p)
    <3>1. ov.upper[p] # Folder
      BY <2>1, NodeKinds DEF View
    <3>2. readFile(ov, p) = View(ov, p)
      BY <3>1, Reads
    <3> QED BY <2>1, <3>2
  <2>3. Up(ov, q).ok
    BY <1>3, Ensured
  <2> HIDE DEF data
  <2>4. /\ Layered(ov2)
        /\ Grows(ov, ov2)
        /\ \A n \in Path : View(ov2, n) = IF n = q THEN File(data) ELSE View(ov, n)
        /\ w = Mem!Done(ov2.upper)
    BY <1>3, Written
  <2>5. /\ ov2.upper = [Up(ov, q).o.upper EXCEPT ![q] = File(data)]
        /\ ov2.whiteout = ov.whiteout \ {q}
        /\ ov2.opaque = ov.opaque
    BY DEF After
  <2> HIDE DEF ov2
  <2>6. w.ok = TRUE /\ w.m = ov2.upper
    BY <2>4 DEF Mem!Done
  <2> HIDE DEF w
  <2>7. IsTree(ov2.upper)
    BY <2>4 DEF Layered, Fields
  <2>8. View(ov2, p) = View(ov, p)
    BY <2>4
  <2>9. ov2.upper[p] # Folder /\ Mem!Stat(ov2.upper, p) = ov2.upper[p]
    BY <2>1, <2>7, <2>8, NodeKinds, UpperStat DEF View, IsTree
  <2>10. Covered(ov2, p)
    BY <2>1, <2>4, <2>8, NoFolderCovers
  <2>11. ov2.upper[p] # Absent => Mem!Remove(ov2.upper, p).ok
    <3>1. ASSUME ov2.upper[p] # Absent PROVE Mem!Remove(ov2.upper, p).ok = TRUE
      BY <2>9, <3>1, SameNames DEF Mem!Remove, Mem!Done
    <3> QED BY <3>1
  <2>a. \A n \in Path : p \in Above(n) => ov2.upper[n] = Absent
    BY <2>7, <2>11, NothingBelow
  <2>b. /\ ov2.upper[p] # Absent => Mem!Remove(ov2.upper, p).m = [ov2.upper EXCEPT ![p] = Absent]
        /\ ov2.upper[p] = Absent => ov2.upper = [ov2.upper EXCEPT ![p] = Absent]
    BY <2>7, <2>11, NothingBelow
  <2>12. u = Mem!Remove(ov2.upper, p)
    BY <2>6
  <2>13. (IF Mem!Stat(w.m, p) # Absent THEN u.m ELSE w.m) = [ov2.upper EXCEPT ![p] = Absent]
    BY <2>6, <2>9, <2>b, <2>12
  <2>14. r.ok = TRUE
    BY <1>1, <1>3, <2>3, <2>6 DEF Rename, Up, Done, w, data
  <2>15. r.o = [ upper    |-> IF Mem!Stat(w.m, p) # Absent THEN u.m ELSE w.m,
                 whiteout |-> IF base[p] # Absent THEN (ov.whiteout \ {q}) \cup {p}
                                                  ELSE ov.whiteout \ {q},
                 opaque   |-> ov.opaque ]
    BY <1>1, <1>3, <2>3, <2>6 DEF Rename, Up, Done, w, data
  <2>16. r.o = [ upper    |-> [ov2.upper EXCEPT ![p] = Absent],
                 whiteout |-> IF base[p] # Absent THEN (ov.whiteout \ {q}) \cup {p}
                                                  ELSE ov.whiteout \ {q},
                 opaque   |-> ov.opaque ]
    BY <2>13, <2>15
  <2>17. r.o = Without(ov2, p, ov2.opaque)
    BY <2>5, <2>16 DEF Without
  <2>18. /\ Layered(Without(ov2, p, ov2.opaque))
         /\ Grows(ov2, Without(ov2, p, ov2.opaque))
         /\ \A n \in Path : View(Without(ov2, p, ov2.opaque), n)
                              = IF n = p THEN Absent ELSE View(ov2, n)
    BY <2>4, <2>10, <2>a, Erased
  <2>19. Grows(ov, r.o)
    BY <2>4, <2>17, <2>18 DEF Grows
  <2>20. \A n \in Path : View(r.o, n) = IF n = p THEN Absent ELSE View(ov2, n)
    BY <2>17, <2>18
  <2>21. Layered(r.o)
    BY <2>17, <2>18
  <2> QED BY <1>3, <2>2, <2>4, <2>14, <2>19, <2>20, <2>21
<1> QED BY <1>2, <1>3

(***************************************************************************)
(* What is listed                                                          *)
(***************************************************************************)

LEMMA Listed ==
  ASSUME NEW ov, Layered(ov), base \in Bases, NEW d \in Path \cup {Root},
         stat(ov, d) = Folder
  PROVE  ReadDir(ov, d) = { q \in Children(d) : View(ov, q) # Absent }
<1>1. IsTree(ov.upper) /\ ov.opaque \subseteq Path
  BY DEF Layered, Fields
<1>2. Mem!ReadDir(ov.upper, d) = { q \in Children(d) : ov.upper[q] # Absent }
  BY <1>1, UpperStat DEF IsTree
<1>3. ASSUME NEW q \in Children(d), ~Touched(ov, q) PROVE d \notin ov.opaque /\ ~hidden(ov, d)
  <2>1. q \in Path /\ Chain(d) = Above(q) /\ (d \in Path => d \in Above(q))
    BY DirChain, RootIsFolder DEF Children
  <2>2. \A n \in Above(q) : n \in Path /\ ~Blocks(ov, n)
    BY <1>3, <2>1, AboveOrder DEF Layered, Covered
  <2>3. ~hidden(ov, d)
    BY <2>1, <2>2 DEF hidden, Blocks
  <2>4. d \notin ov.opaque
    BY <1>1, <2>1, <2>2 DEF Blocks
  <2> QED BY <2>3, <2>4
<1>4. ASSUME NEW q \in Children(d)
      PROVE  View(ov, q) # Absent
               <=> \/ /\ ~(d \in ov.opaque \/ hidden(ov, d))
                      /\ base[q] # Absent /\ q \notin ov.whiteout
                   \/ ov.upper[q] # Absent
  BY <1>3 DEF View, Touched
<1>5. ReadDir(ov, d)
        = (IF d \in ov.opaque \/ hidden(ov, d) THEN {}
           ELSE { q \in Children(d) : base[q] # Absent /\ q \notin ov.whiteout })
          \cup { q \in Children(d) : ov.upper[q] # Absent }
  BY <1>2 DEF ReadDir
<1> QED BY <1>4, <1>5

\* Remove may finish with a directory that read as empty: Base has nothing more
\* to show below it.
LEMMA EmptyCovers ==
  ASSUME NEW ov, Layered(ov), base \in Bases, NEW n \in Path, ReadDir(ov, n) = {}
  PROVE  Covered(ov, n)
<1>1. stat(ov, n) = View(ov, n)
  BY Sight
<1>2. CASE View(ov, n) # Folder
  BY <1>2, NoFolderCovers
<1>3. CASE View(ov, n) = Folder
  <2>1. \A c \in Children(n) : View(ov, c) = Absent
    BY <1>1, <1>3, Listed
  <2>2. ASSUME NEW q \in Path, n \in Above(q) PROVE Touched(ov, q)
    <3>1. PICK c \in Chain(q) : c \in Children(n)
      BY <2>2, StepDown
    <3>2. c \in Path /\ View(ov, c) = Absent
      BY <2>1, <3>1, InChain
    <3>3. CASE c = q
      BY <3>2, <3>3, NodeKinds DEF View, Touched
    <3>4. CASE c # q
      <4>1. c \in Above(q)
        BY <3>4 DEF Above
      <4>2. Covered(ov, c)
        BY <3>2, NodeKinds, NoFolderCovers
      <4> QED BY <4>1, <4>2 DEF Covered
    <3> QED BY <3>3, <3>4
  <2> QED BY <2>2 DEF Covered
<1> QED BY <1>2, <1>3

(***************************************************************************)
(* The inductive invariant                                                 *)
(***************************************************************************)

\* A directory that Remove found empty keeps nothing of Base to show, whatever
\* the other goroutines have made of it since.
Committed ==
  \A r \in Remover :
    /\ removing[r].at # "rest" => removing[r].path \in Path
    /\ removing[r].at = "finish" => Covered(o, removing[r].path)

Places == [ at : {"rest", "list", "finish"}, path : Path \cup {Root} ]

IInv ==
  /\ base \in Bases
  /\ Layered(o)
  /\ removing \in [Remover -> Places]
  /\ Committed

LEMMA InitInv == Init => IInv
<1> SUFFICES ASSUME Init PROVE IInv
  OBVIOUS
<1>1. \A p \in Path : NoEntries[p] = Absent
  BY DEF NoEntries
<1>2. IsTree(NoEntries)
  BY <1>1, NodeKinds DEF IsTree, NoEntries, Shaped
<1>3. o.upper = NoEntries /\ o.whiteout = {} /\ o.opaque = {}
  BY DEF Init
<1>4. o = [ upper |-> o.upper, whiteout |-> o.whiteout, opaque |-> o.opaque ]
  BY DEF Init
<1>5. Fields(o)
  BY <1>2, <1>3, <1>4 DEF Fields
<1>6. Layered(o)
  BY <1>1, <1>3, <1>5, NodeKinds DEF Layered, Blocks
<1>7. removing \in [Remover -> Places] /\ \A r \in Remover : removing[r].at = "rest"
  BY DEF Init, Outside, Places
<1> QED BY <1>6, <1>7 DEF Init, IInv, Committed

\* A step of the layers keeps what was committed.
LEMMA LayersStep ==
  ASSUME IInv, base' = base, Layered(o'), Grows(o, o'),
         removing' \in [Remover -> Places],
         \A r \in Remover : removing'[r] = removing[r] \/ removing'[r].at = "rest"
  PROVE  IInv'
<1>1. Layered(o)'
  BY DEF Layered, Fields, Covered, Touched, Blocks
<1>2. Committed'
  <2> SUFFICES ASSUME NEW r \in Remover
               PROVE  /\ removing'[r].at # "rest" => removing'[r].path \in Path
                      /\ removing'[r].at = "finish" => Covered(o, removing[r].path)'
    BY DEF Committed
  <2>1. CASE removing'[r].at = "rest"
    BY <2>1
  <2>2. CASE removing'[r] = removing[r]
    BY <2>2 DEF IInv, Committed, Covered, Touched, Grows
  <2> QED BY <2>1, <2>2
<1> QED BY <1>1, <1>2 DEF IInv

(***************************************************************************)
(* What is seen is a plain filesystem                                      *)
(***************************************************************************)

LEMMA PlainNames ==
  /\ PlainFS!Absent = Absent /\ PlainFS!Folder = Folder /\ PlainFS!Root = Root
  /\ \A data : PlainFS!File(data) = File(data)
  /\ \A p : /\ PlainFS!Dir(p) = Dir(p) /\ PlainFS!Children(p) = Children(p)
            /\ PlainFS!Chain(p) = Chain(p)
  /\ \A n : PlainFS!IsFile(n) <=> IsFile(n)
BY DEF PlainFS!Absent, PlainFS!Folder, PlainFS!Root, PlainFS!File, PlainFS!Dir,
       PlainFS!Children, PlainFS!Chain, PlainFS!IsFile,
       Absent, Folder, Root, File, Dir, Children, Chain, IsFile

LEMMA SeenNow == IInv => seen = Sees(o)
BY Sight DEF IInv, seen, Sees

LEMMA SeenNext ==
  ASSUME base \in Bases, base' = base, Layered(o')
  PROVE  seen' = Sees(o')
<1>1. seen' = [p \in Path |-> stat(o', p)]
  BY DEF seen, stat
<1> QED BY <1>1, Sight DEF Sees

\* What a plain filesystem would allow, in terms of the layers.
LEMMA Allowed ==
  ASSUME IInv, NEW p \in Path
  PROVE  /\ seen[p] = View(o, p)
         /\ PlainFS!CanWrite(seen, p) <=> Parent(o, p) /\ View(o, p) # Folder
         /\ PlainFS!CanMkdir(seen, p) <=> Parent(o, p) /\ View(o, p) = Absent
         /\ PlainFS!CanRemove(seen, p)
              <=> View(o, p) # Absent /\ \A q \in Children(p) : View(o, q) = Absent
         /\ \A q \in Path :
              PlainFS!CanRename(seen, p, q)
                <=> p # q /\ IsFile(View(o, p)) /\ Parent(o, q) /\ View(o, q) # Folder
<1>1. \A q \in Path : seen[q] = View(o, q)
  BY SeenNow DEF Sees
<1>2. ASSUME NEW q \in Path PROVE PlainFS!InFolder(seen, q) <=> Parent(o, q)
  <2>1. Dir(q) = Root \/ Dir(q) \in Path
    BY DirChain
  <2> QED BY <1>1, <2>1, PlainNames DEF PlainFS!InFolder, PlainFS!At, Parent
<1>3. \A q \in Path : PlainFS!CanWrite(seen, q) <=> Parent(o, q) /\ View(o, q) # Folder
  BY <1>1, <1>2, PlainNames DEF PlainFS!CanWrite
<1>4. PlainFS!CanMkdir(seen, p) <=> Parent(o, p) /\ View(o, p) = Absent
  BY <1>1, <1>2, PlainNames DEF PlainFS!CanMkdir
<1>5. PlainFS!CanRemove(seen, p)
        <=> View(o, p) # Absent /\ \A q \in Children(p) : View(o, q) = Absent
  BY <1>1, PlainNames DEF PlainFS!CanRemove, Children
<1>6. \A q \in Path :
        PlainFS!CanRename(seen, p, q)
          <=> p # q /\ IsFile(View(o, p)) /\ Parent(o, q) /\ View(o, q) # Folder
  BY <1>1, <1>3, PlainNames DEF PlainFS!CanRename
<1> QED BY <1>1, <1>3, <1>4, <1>5, <1>6

\* Each operation keeps the invariant, and is one of the plain filesystem or
\* changes nothing that can be seen.
LEMMA Step ==
  ASSUME ~WildRenames, IInv, [Next]_vars
  PROVE  /\ IInv'
         /\ PlainFS!TreeNext \/ seen' = seen
<1> DEFINE Goal == IInv' /\ (PlainFS!TreeNext \/ seen' = seen)
<1>1. base \in Bases /\ Layered(o) /\ removing \in [Remover -> Places]
  BY DEF IInv
<1>2. seen = Sees(o) /\ \A p \in Path : seen[p] = View(o, p)
  BY SeenNow, Allowed
<1>3. ASSUME base' = base, removing' = removing, Layered(o'), Grows(o, o')
      PROVE  IInv' /\ seen' = Sees(o')
  BY <1>1, <1>3, LayersStep, SeenNext
<1>4. ASSUME NEW p \in Path, Write(p) PROVE Goal
  <2>1. PICK x \in Chunk : o' = WriteFile(o, p, << x >>).o
    BY <1>4 DEF Write
  <2>2. PICK s : s = WriteFile(o, p, << x >>)
    OBVIOUS
  <2>3. /\ s.ok <=> Parent(o, p) /\ View(o, p) # Folder
        /\ Layered(o') /\ Grows(o, o')
        /\ \A q \in Path : View(o', q) = IF s.ok /\ q = p THEN File(<< x >>) ELSE View(o, q)
    BY <1>1, <2>1, <2>2, WrittenFile
  <2>4. IInv' /\ seen' = Sees(o')
    BY <1>3, <1>4, <2>3 DEF Write
  <2>5. CASE ~s.ok
    BY <1>2, <2>3, <2>4, <2>5 DEF Sees
  <2>6. CASE s.ok
    <3>1. PlainFS!CanWrite(seen, p)
      BY <2>3, <2>6, Allowed
    <3>2. seen' = [seen EXCEPT ![p] = File(<< x >>)]
      BY <1>2, <2>3, <2>4, <2>6 DEF Sees
    <3>3. PlainFS!Write(p, << x >>)
      BY <3>1, <3>2, PlainNames DEF PlainFS!Write
    <3> QED BY <2>4, <3>3 DEF PlainFS!TreeNext
  <2> QED BY <2>5, <2>6
<1>5. ASSUME NEW p \in Path, AppendTo(p) PROVE Goal
  <2>1. PICK x \in Chunk : o' = AppendFile(o, p, x).o
    BY <1>5 DEF AppendTo
  <2>2. PICK s : s = AppendFile(o, p, x)
    OBVIOUS
  <2>3. /\ s.ok => Parent(o, p) /\ View(o, p) # Folder
        /\ Layered(o') /\ Grows(o, o')
        /\ \A q \in Path : View(o', q) = IF s.ok /\ q = p THEN File(View(o, p).data \o << x >>)
                                                          ELSE View(o, q)
    BY <1>1, <2>1, <2>2, Appended
  <2>4. IInv' /\ seen' = Sees(o')
    BY <1>3, <1>5, <2>3 DEF AppendTo
  <2>5. CASE ~s.ok
    BY <1>2, <2>3, <2>4, <2>5 DEF Sees
  <2>6. CASE s.ok
    <3>1. PlainFS!CanWrite(seen, p)
      BY <2>3, <2>6, Allowed
    <3>2. seen' = [seen EXCEPT ![p] = File(@.data \o << x >>)]
      BY <1>2, <2>3, <2>4, <2>6 DEF Sees
    <3>3. PlainFS!AppendTo(p, x)
      BY <3>1, <3>2, PlainNames DEF PlainFS!AppendTo
    <3> QED BY <2>4, <3>3 DEF PlainFS!TreeNext
  <2> QED BY <2>5, <2>6
<1>6. ASSUME NEW p \in Path, MakeDir(p) PROVE Goal
  <2>1. PICK s : s = Mkdir(o, p)
    OBVIOUS
  <2>2. /\ s.ok <=> Parent(o, p) /\ View(o, p) = Absent
        /\ Layered(o') /\ Grows(o, o')
        /\ \A q \in Path : View(o', q) = IF s.ok /\ q = p THEN Folder ELSE View(o, q)
    BY <1>1, <1>6, <2>1, MkdirDone DEF MakeDir
  <2>3. IInv' /\ seen' = Sees(o')
    BY <1>3, <1>6, <2>2 DEF MakeDir
  <2>4. CASE ~s.ok
    BY <1>2, <2>2, <2>3, <2>4 DEF Sees
  <2>5. CASE s.ok
    <3>1. PlainFS!CanMkdir(seen, p)
      BY <2>2, <2>5, Allowed
    <3>2. seen' = [seen EXCEPT ![p] = Folder]
      BY <1>2, <2>2, <2>3, <2>5 DEF Sees
    <3>3. PlainFS!Mkdir(p)
      BY <3>1, <3>2, PlainNames DEF PlainFS!Mkdir
    <3> QED BY <2>3, <3>3 DEF PlainFS!TreeNext
  <2> QED BY <2>4, <2>5
<1>7. ASSUME NEW p \in Path, NEW q \in Path, Move(p, q) PROVE Goal
  <2>1. PICK s : s = Rename(o, p, q)
    OBVIOUS
  <2>2. p # q /\ View(o, q) # Folder
    BY <1>1, <1>7, Sight DEF Move, Wild
  <2>3. /\ s.ok <=> IsFile(View(o, p)) /\ Parent(o, q)
        /\ Layered(o') /\ Grows(o, o')
        /\ \A n \in Path : View(o', n) = IF s.ok /\ n = p THEN Absent
                                         ELSE IF s.ok /\ n = q THEN View(o, p)
                                         ELSE View(o, n)
    BY <1>1, <1>7, <2>1, <2>2, Renamed DEF Move
  <2>4. IInv' /\ seen' = Sees(o')
    BY <1>3, <1>7, <2>3 DEF Move
  <2>5. CASE ~s.ok
    BY <1>2, <2>3, <2>4, <2>5 DEF Sees
  <2>6. CASE s.ok
    <3>1. PlainFS!CanRename(seen, p, q)
      BY <2>2, <2>3, <2>6, Allowed
    <3>2. seen' = [seen EXCEPT ![q] = seen[p], ![p] = Absent]
      BY <1>2, <2>2, <2>3, <2>4, <2>6 DEF Sees
    <3>3. PlainFS!Rename(p, q)
      BY <3>1, <3>2, PlainNames DEF PlainFS!Rename
    <3> QED BY <2>4, <3>3 DEF PlainFS!TreeNext
  <2> QED BY <2>5, <2>6
<1>8. ASSUME NEW p \in Path, Covered(o, p), base' = base, o' = finishRemove(o, p).o,
             removing' \in [Remover -> Places],
             \A r \in Remover : removing'[r] = removing[r] \/ removing'[r].at = "rest"
      PROVE  Goal
  <2>1. /\ Layered(o')
        /\ Grows(o, o')
        /\ \/ \A q \in Path : View(o', q) = View(o, q)
           \/ /\ View(o, p) # Absent
              /\ \A q \in Children(p) : View(o, q) = Absent
              /\ \A q \in Path : View(o', q) = IF q = p THEN Absent ELSE View(o, q)
    BY <1>1, <1>8, Finished
  <2>2. IInv'
    BY <1>8, <2>1, LayersStep
  <2>3. seen' = Sees(o')
    BY <1>1, <1>8, <2>1, SeenNext
  <2>4. CASE \A q \in Path : View(o', q) = View(o, q)
    BY <1>2, <2>2, <2>3, <2>4 DEF Sees
  <2>5. CASE /\ View(o, p) # Absent
             /\ \A q \in Children(p) : View(o, q) = Absent
             /\ \A q \in Path : View(o', q) = IF q = p THEN Absent ELSE View(o, q)
    <3>1. PlainFS!CanRemove(seen, p)
      BY <2>5, Allowed
    <3>2. seen' = [seen EXCEPT ![p] = Absent]
      BY <1>2, <2>3, <2>5 DEF Sees
    <3>3. PlainFS!Remove(p)
      BY <3>1, <3>2, PlainNames DEF PlainFS!Remove
    <3> QED BY <2>2, <3>3 DEF PlainFS!TreeNext
  <2> QED BY <2>1, <2>4, <2>5
<1>9. ASSUME NEW p \in Path, RemoveFile(p) PROVE Goal
  <2>1. Covered(o, p)
    BY <1>1, <1>9, Sight, NodeKinds, NoFolderCovers DEF RemoveFile
  <2> QED BY <1>1, <1>8, <1>9, <2>1 DEF RemoveFile
<1>10. ASSUME base' = base, o' = o, NEW r \in Remover, NEW t \in Places,
              removing' = [removing EXCEPT ![r] = t],
              t.at # "rest" => t.path \in Path,
              t.at = "finish" => Covered(o, t.path)
       PROVE  Goal
  <2>1. Layered(o') /\ Layered(o)'
    BY <1>1, <1>10 DEF Layered, Fields, Covered, Touched, Blocks
  <2>2. seen' = seen
    BY <1>1, <1>2, <1>10, <2>1, SeenNext
  <2>3. \A q \in Remover : removing'[q] = IF q = r THEN t ELSE removing[q]
    BY <1>1, <1>10
  <2>4. Committed'
    BY <1>10, <2>3 DEF IInv, Committed, Covered, Touched
  <2>5. removing' \in [Remover -> Places]
    BY <1>1, <1>10
  <2> QED BY <1>1, <1>10, <2>1, <2>2, <2>4, <2>5 DEF IInv
<1>11. ASSUME NEW r \in Remover, NEW p \in Path, RemoveBegin(r, p) PROVE Goal
  <2>1. [ at |-> "list", path |-> p ] \in Places
    BY DEF Places
  <2> QED BY <1>10, <1>11, <2>1 DEF RemoveBegin
<1>12. ASSUME NEW r \in Remover, RemoveList(r) PROVE Goal
  <2>1. removing[r].path \in Path
    BY <1>12 DEF IInv, Committed, RemoveList
  <2>2. CASE ReadDir(o, removing[r].path) = {}
    <3> DEFINE t == [ at |-> "finish", path |-> removing[r].path ]
    <3>1. Covered(o, removing[r].path)
      BY <1>1, <2>1, <2>2, EmptyCovers
    <3>2. t \in Places /\ t.path \in Path /\ Covered(o, t.path)
      BY <2>1, <3>1 DEF Places
    <3>3. removing' = [removing EXCEPT ![r] = t]
      BY <1>1, <1>12, <2>2 DEF RemoveList
    <3> QED BY <1>10, <1>12, <3>2, <3>3 DEF RemoveList
  <2>3. CASE ReadDir(o, removing[r].path) # {}
    <3>1. removing' = [removing EXCEPT ![r] = Outside]
      BY <1>1, <1>12, <2>3 DEF RemoveList
    <3>2. Outside \in Places /\ Outside.at = "rest"
      BY DEF Outside, Places
    <3> QED BY <1>10, <1>12, <3>1, <3>2 DEF RemoveList
  <2> QED BY <2>2, <2>3
<1>13. ASSUME NEW r \in Remover, RemoveFinish(r) PROVE Goal
  <2>1. removing[r].path \in Path /\ Covered(o, removing[r].path)
    BY <1>13 DEF IInv, Committed, RemoveFinish
  <2>2. Outside \in Places /\ Outside.at = "rest"
    BY DEF Outside, Places
  <2>3. /\ removing' \in [Remover -> Places]
        /\ \A q \in Remover : removing'[q] = removing[q] \/ removing'[q].at = "rest"
    BY <1>1, <1>13, <2>2 DEF RemoveFinish
  <2> QED BY <1>8, <1>13, <2>1, <2>3 DEF RemoveFinish
<1>14. ASSUME UNCHANGED vars PROVE Goal
  <2>1. base' = base /\ o' = o /\ removing' = removing
    BY <1>14 DEF vars
  <2>2. Layered(o') /\ Grows(o, o')
    BY <1>1, <2>1 DEF Grows
  <2>3. IInv' /\ seen' = Sees(o')
    BY <1>3, <2>1, <2>2
  <2> QED BY <1>2, <2>1, <2>3
<1> QED BY <1>4, <1>5, <1>6, <1>7, <1>9, <1>11, <1>12, <1>13, <1>14 DEF Next

(***************************************************************************)
(* The theorems                                                            *)
(***************************************************************************)

\* As long as code neither renames a file onto itself nor onto a directory, the
\* layers of an Overlay fit together.
THEOREM Invariant ==
  ASSUME ~WildRenames PROVE Spec => []IInv
<1>1. Init => IInv
  BY InitInv
<1>2. IInv /\ [Next]_vars => IInv'
  BY Step
<1> QED BY <1>1, <1>2, PTL DEF Spec

\* The upper layer is always a tree of its own, and the whiteout and opaque marks
\* name paths.
THEOREM TypeCorrect ==
  ASSUME ~WildRenames PROVE Spec => []TypeOK
<1>i. Spec => []IInv
  BY Invariant
<1>1. IInv => TypeOK
  BY DEF IInv, TypeOK, Layered, Fields, IsTree, Places
<1> QED BY <1>1, <1>i, PTL

\* readDirLocked and statLocked, which walk through the layers each in its own
\* way, agree on every directory.
THEOREM ListingsAgree ==
  ASSUME ~WildRenames PROVE Spec => []ListingAgrees
<1>i. Spec => []IInv
  BY Invariant
<1>1. IInv => ListingAgrees
  <2> SUFFICES ASSUME IInv, NEW d \in Path \cup {Root}, stat(o, d) = Folder
               PROVE  ReadDir(o, d) = { q \in Children(d) : seen[q] # Absent }
    BY DEF ListingAgrees
  <2>1. ReadDir(o, d) = { q \in Children(d) : View(o, q) # Absent }
    BY Listed DEF IInv
  <2>2. \A q \in Children(d) : seen[q] = View(o, q)
    BY Allowed DEF Children
  <2> QED BY <2>1, <2>2
<1> QED BY <1>1, <1>i, PTL

\* Upper and Deleted, put over Base, give back what the sandbox sees.
THEOREM ChangesAreComplete ==
  ASSUME ~WildRenames PROVE Spec => []ChangesComplete
<1>i. Spec => []IInv
  BY Invariant
<1>1. IInv => ChangesComplete
  <2> SUFFICES ASSUME IInv, NEW p \in Path
               PROVE  seen[p] = IF o.upper[p] # Absent THEN o.upper[p]
                                ELSE IF p \in Deleted(o) THEN Absent
                                ELSE base[p]
    BY DEF ChangesComplete
  <2>1. p \in Deleted(o) <=> p \in o.whiteout
    BY DEF IInv, Layered, Fields, Deleted
  <2> QED BY <2>1, Allowed DEF View
<1> QED BY <1>1, <1>i, PTL

\* Over a Base that reports absence by fs.ErrNotExist itself, an operation is
\* refused only where a plain filesystem would refuse it.
THEOREM AnswersAgreeAlways ==
  ASSUME NotExistOnly, ~WildRenames PROVE Spec => []AnswersAgree
<1>i. Spec => []IInv
  BY Invariant
<1>1. IInv => AnswersAgree
  <2> SUFFICES ASSUME IInv, NEW p \in Path
               PROVE  /\ \A x \in Chunk :
                           /\ WriteFile(o, p, << x >>).ok <=> PlainFS!CanWrite(seen, p)
                           /\ AppendFile(o, p, x).ok <=> PlainFS!CanWrite(seen, p)
                      /\ Mkdir(o, p).ok <=> PlainFS!CanMkdir(seen, p)
                      /\ \A q \in Path : ~Wild(p, q) =>
                           (Rename(o, p, q).ok <=> PlainFS!CanRename(seen, p, q))
    BY DEF AnswersAgree
  <2>1. base \in Bases /\ Layered(o)
    BY DEF IInv
  <2>2. ASSUME NEW x \in Chunk PROVE WriteFile(o, p, << x >>).ok <=> PlainFS!CanWrite(seen, p)
    BY <2>1, WrittenFile, Allowed
  <2>3. ASSUME NEW x \in Chunk PROVE AppendFile(o, p, x).ok <=> PlainFS!CanWrite(seen, p)
    BY <2>1, Appended, Allowed
  <2>4. Mkdir(o, p).ok <=> PlainFS!CanMkdir(seen, p)
    BY <2>1, MkdirDone, Allowed
  <2>5. ASSUME NEW q \in Path, ~Wild(p, q)
        PROVE  Rename(o, p, q).ok <=> PlainFS!CanRename(seen, p, q)
    <3>1. p # q /\ View(o, q) # Folder
      BY <2>1, <2>5, Sight DEF Wild
    <3> QED BY <2>1, <3>1, Renamed, Allowed
  <2> QED BY <2>2, <2>3, <2>4, <2>5
<1> QED BY <1>1, <1>i, PTL

\* An Overlay implements a plain filesystem: every critical section is one of its
\* operations or invisible, those of a Remove that gave up the lock included.
THEOREM ImplementsATree ==
  ASSUME ~WildRenames PROVE Spec => ImplementsTree
<1>i. Spec => []IInv
  BY Invariant
<1>1. Init => PlainFS!TreeInit
  <2> SUFFICES ASSUME Init PROVE PlainFS!TreeInit
    OBVIOUS
  <2>1. IInv
    BY InitInv
  <2>2. Shaped(seen)
    BY <2>1, SeenNow, SeenTree DEF IInv, IsTree
  <2> QED BY <2>2, PlainNames DEF PlainFS!TreeInit, PlainFS!Shaped, Shaped
<1>2. IInv /\ [Next]_vars => [PlainFS!TreeNext]_seen
  BY Step
<1> QED BY <1>1, <1>2, <1>i, PTL DEF Spec, ImplementsTree, PlainFS!TreeSpec
=============================================================================
