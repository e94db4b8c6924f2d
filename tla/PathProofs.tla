---------------------------- MODULE PathProofs ----------------------------
(***************************************************************************)
(* Lemmas about names: the directories above one, and the steps on the way *)
(* down to it.  With them the proofs about filesystems need no induction   *)
(* over the length of a name.                                              *)
(***************************************************************************)
EXTENDS Paths, SequenceTheorems, TLAPS

\* The directories above p, the mount excluded.
Above(p) == Chain(p) \ {p}

LEMMA PathLen ==
  ASSUME NEW p \in Path
  PROVE  Len(p) \in Nat /\ Len(p) > 0 /\ p # Root /\ p \in Chain(p)
<1> DEFINE S == { p[i] : i \in 1..Len(p) }
<1>1. p \in Seq(S) /\ Len(p) > 0
  BY PathAssumption
<1>2. Len(p) \in Nat
  BY <1>1, LenProperties
<1>3. SubSeq(p, 1, Len(p)) = p
  BY <1>1, SubSeqFull
<1>4. p \in Chain(p)
  <2>1. Len(p) \in 1..Len(p)
    BY <1>1, <1>2
  <2> QED BY <1>3, <2>1 DEF Chain
<1>5. p # Root
  BY <1>1, EmptySeq DEF Root
<1> QED BY <1>1, <1>2, <1>4, <1>5

\* An element of a chain, by its length.
LEMMA Prefix ==
  ASSUME NEW p \in Path, NEW i \in 1..Len(p)
  PROVE  /\ SubSeq(p, 1, i) \in Path
         /\ SubSeq(p, 1, i) \in Chain(p)
         /\ Len(SubSeq(p, 1, i)) = i
         /\ \A j \in 1..i : SubSeq(SubSeq(p, 1, i), 1, j) = SubSeq(p, 1, j)
<1> DEFINE S == { p[k] : k \in 1..Len(p) }
<1>1. p \in Seq(S) /\ Len(p) \in Nat
  BY PathAssumption, PathLen
<1>2. SubSeq(p, 1, i) \in Chain(p)
  BY DEF Chain
<1>3. SubSeq(p, 1, i) \in Path
  BY <1>2, PathAssumption
<1>4. Len(SubSeq(p, 1, i)) = i
  <2>1. \A k \in 1..i : p[k] \in S
    BY <1>1
  <2> QED BY <1>1, <2>1, SubSeqProperties
<1>5. ASSUME NEW j \in 1..i PROVE SubSeq(SubSeq(p, 1, i), 1, j) = SubSeq(p, 1, j)
  <2>1. /\ 1 \in 1..Len(p) /\ 1 \in 1..(i - 1 + 1) /\ j \in 1..(i - 1 + 1)
        /\ 1 + 1 - 1 = 1 /\ 1 + j - 1 = j
    BY <1>1
  <2>2. SubSeq(SubSeq(p, 1, i), 1, j) = SubSeq(p, 1 + 1 - 1, 1 + j - 1)
    BY <1>1, <2>1, SubSeqOfSubSeq
  <2> QED BY <2>1, <2>2
<1> QED BY <1>2, <1>3, <1>4, <1>5

LEMMA InChain ==
  ASSUME NEW p \in Path, NEW n \in Chain(p)
  PROVE  /\ n \in Path
         /\ Len(n) \in 1..Len(p)
         /\ n = SubSeq(p, 1, Len(n))
         /\ n # p => Len(n) < Len(p)
         /\ Chain(n) \subseteq Chain(p)
<1>1. PICK i \in 1..Len(p) : n = SubSeq(p, 1, i)
  BY DEF Chain
<1>2. n \in Path /\ Len(n) = i /\ \A j \in 1..i : SubSeq(n, 1, j) = SubSeq(p, 1, j)
  BY <1>1, Prefix
<1>3. Len(p) \in Nat
  BY PathLen
<1>4. SubSeq(p, 1, Len(p)) = p
  BY PathAssumption, SubSeqFull
<1>5. Chain(n) \subseteq Chain(p)
  BY <1>2, <1>3 DEF Chain
<1>6. n # p => Len(n) < Len(p)
  <2>1. i = Len(p) => n = p
    BY <1>1, <1>4
  <2> QED BY <1>1, <1>2, <1>3, <2>1
<1>7. n = SubSeq(p, 1, Len(n)) /\ Len(n) \in 1..Len(p)
  BY <1>1, <1>2
<1> QED BY <1>2, <1>5, <1>6, <1>7

\* Above is transitive and has no cycle.
LEMMA AboveOrder ==
  ASSUME NEW p \in Path, NEW n \in Above(p)
  PROVE  /\ n \in Path /\ n # p
         /\ Above(n) \subseteq Above(p)
         /\ p \notin Chain(n)
<1>1. n \in Path /\ n # p /\ Len(n) < Len(p) /\ Chain(n) \subseteq Chain(p) /\ n \in Chain(p)
  BY InChain DEF Above
<1>2. p \notin Chain(n)
  <2>1. Len(n) \in Nat /\ Len(p) \in Nat
    BY <1>1, PathLen
  <2> QED BY <1>1, <2>1, InChain
<1> QED BY <1>1, <1>2 DEF Above

\* Of two names on the way to a third, one is above the other.
LEMMA ChainLinear ==
  ASSUME NEW p \in Path, NEW n \in Chain(p), NEW q \in Chain(p), q # n
  PROVE  q \in Above(n) \/ n \in Above(q)
<1>1. /\ n \in Path /\ Len(n) \in 1..Len(p) /\ n = SubSeq(p, 1, Len(n))
      /\ q \in Path /\ Len(q) \in 1..Len(p) /\ q = SubSeq(p, 1, Len(q))
  BY InChain
<1>2. Len(p) \in Nat
  BY PathLen
<1>3. CASE Len(q) <= Len(n)
  <2>1. Len(q) \in 1..Len(n) /\ SubSeq(n, 1, Len(q)) = SubSeq(p, 1, Len(q))
    BY <1>1, <1>2, <1>3, Prefix
  <2>2. q = SubSeq(n, 1, Len(q))
    BY <1>1, <2>1
  <2> QED BY <2>1, <2>2 DEF Above, Chain
<1>4. CASE Len(n) <= Len(q)
  <2>1. Len(n) \in 1..Len(q) /\ SubSeq(q, 1, Len(n)) = SubSeq(p, 1, Len(n))
    BY <1>1, <1>2, <1>4, Prefix
  <2>2. n = SubSeq(q, 1, Len(n))
    BY <1>1, <2>1
  <2> QED BY <2>1, <2>2 DEF Above, Chain
<1> QED BY <1>1, <1>2, <1>3, <1>4

\* The directory of a name, and what is above that.
LEMMA DirChain ==
  ASSUME NEW p \in Path
  PROVE  /\ Dir(p) \in Path \cup {Root}
         /\ Dir(p) # p
         /\ Chain(Dir(p)) = Above(p)
         /\ Dir(p) # Root => Dir(p) \in Above(p)
<1>1. Len(p) \in Nat /\ Len(p) > 0 /\ p # Root
  BY PathLen
<1>2. CASE Len(p) = 1
  <2>1. Dir(p) = Root
    BY <1>2, SubSeqEmpty DEF Dir, Root
  <2>2. Chain(Dir(p)) = {}
    BY <2>1, EmptySeq DEF Chain, Root
  <2>3. SubSeq(p, 1, 1) = p
    BY <1>2, PathAssumption, SubSeqFull
  <2>4. Chain(p) = {p}
    BY <1>2, <2>3 DEF Chain
  <2> QED BY <1>1, <2>1, <2>2, <2>4 DEF Above
<1>3. CASE Len(p) > 1
  <2> DEFINE d == SubSeq(p, 1, Len(p) - 1)
  <2>1. Len(p) - 1 \in 1..Len(p)
    BY <1>1, <1>3
  <2>2. /\ d \in Path /\ d \in Chain(p) /\ Len(d) = Len(p) - 1
        /\ \A j \in 1..(Len(p) - 1) : SubSeq(d, 1, j) = SubSeq(p, 1, j)
    BY <2>1, Prefix
  <2>3. d # p
    BY <1>1, <2>2
  <2>4. SubSeq(p, 1, Len(p)) = p
    BY PathAssumption, SubSeqFull
  <2>5. Chain(d) \subseteq Above(p)
    BY <1>1, <2>2, <2>3, InChain, AboveOrder DEF Above
  <2>6. ASSUME NEW n \in Above(p) PROVE n \in Chain(d)
    <3>1. /\ n \in Chain(p) /\ n # p
      BY DEF Above
    <3>2. Len(n) \in 1..(Len(p) - 1) /\ n = SubSeq(p, 1, Len(n))
      BY <1>1, <3>1, InChain
    <3>3. n = SubSeq(d, 1, Len(n)) /\ Len(n) \in 1..Len(d)
      BY <2>2, <3>2
    <3> QED BY <3>3 DEF Chain
  <2>7. d \in Above(p)
    BY <2>2, <2>3 DEF Above
  <2>8. Dir(p) = d
    BY DEF Dir
  <2> QED BY <2>2, <2>3, <2>5, <2>6, <2>7, <2>8
<1> QED BY <1>1, <1>2, <1>3

\* From a directory to a name below it there is a first step.
LEMMA StepDown ==
  ASSUME NEW p \in Path, NEW n \in Above(p)
  PROVE  \E c \in Chain(p) : c \in Children(n)
<1>1. n \in Path /\ n \in Chain(p) /\ Len(n) < Len(p) /\ n = SubSeq(p, 1, Len(n))
  BY InChain DEF Above
<1>2. Len(n) \in Nat /\ Len(n) > 0 /\ Len(p) \in Nat
  BY <1>1, PathLen
<1>3. Len(n) + 1 \in 1..Len(p) /\ Len(n) \in 1..(Len(n) + 1) /\ Len(n) + 1 - 1 = Len(n)
  BY <1>1, <1>2
<1> DEFINE c == SubSeq(p, 1, Len(n) + 1)
<1>4. /\ c \in Path /\ c \in Chain(p) /\ Len(c) = Len(n) + 1
      /\ SubSeq(c, 1, Len(n)) = SubSeq(p, 1, Len(n))
  BY <1>3, Prefix
<1>5. Dir(c) = n
  BY <1>1, <1>3, <1>4 DEF Dir
<1> QED BY <1>4, <1>5 DEF Children

\* Below, as a matter of chains.
LEMMA BelowAbove ==
  ASSUME NEW q \in Path, NEW p \in Path
  PROVE  Below(q, p) <=> p \in Above(q)
<1>1. Len(p) \in Nat /\ Len(p) > 0 /\ Len(q) \in Nat
  BY PathLen
<1>2. ASSUME Below(q, p) PROVE p \in Above(q)
  <2>1. Len(q) > Len(p) /\ SubSeq(q, 1, Len(p)) = p
    BY <1>2 DEF Below
  <2>2. Len(p) \in 1..Len(q) /\ p # q
    BY <1>1, <2>1
  <2>3. p \in Chain(q)
    BY <2>1, <2>2 DEF Chain
  <2> QED BY <2>2, <2>3 DEF Above
<1>3. ASSUME p \in Above(q) PROVE Below(q, p)
  BY <1>3, InChain DEF Above, Below
<1> QED BY <1>2, <1>3

\* The parent of a child is above it.
LEMMA ChildAbove ==
  ASSUME NEW d \in Path, NEW q \in Children(d)
  PROVE  q \in Path /\ d \in Above(q)
<1>1. q \in Path /\ Dir(q) = d
  BY DEF Children
<1>2. d # Root
  BY PathLen
<1> QED BY <1>1, <1>2, DirChain

\* In a tree, what is above something is a directory.
LEMMA ShapedAbove ==
  ASSUME NEW t
  PROVE  Shaped(t) <=> \A p \in Path : t[p] # Absent => \A n \in Above(p) : t[n] = Folder
BY DirChain DEF Shaped
=============================================================================
