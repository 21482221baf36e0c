----------------------- MODULE SparseMerkleTreeProofs -----------------------
(* Proofs about SparseMerkleTree for any depth, any hashes and any leaves.    *)
(* The recursive functions of the model are shown to exist first, then what   *)
(* they compute is shown level by level.                                      *)
EXTENDS SparseMerkleTree, Integers, FiniteSetTheorems, TLAPS

-----------------------------------------------------------------------------
(* From level to level *)

\* A set of natural numbers that is not empty has a least element.
LEMMA LeastLevel ==
  ASSUME NEW S, S \subseteq Nat, S # {}
  PROVE  \E m \in S : \A n \in S : m <= n
<1> DEFINE Below == {0 .. n : n \in S}
           Smaller == StrictSubsetOrdering(Nat)
<1>1. Below \subseteq FiniteSubsetsOf(Nat) /\ Below # {}
  <2> SUFFICES ASSUME NEW n \in S PROVE 0 .. n \in FiniteSubsetsOf(Nat)
    OBVIOUS
  <2>1. IsFiniteSet(0 .. n)
    BY FS_Interval
  <2> QED BY <2>1 DEF FiniteSubsetsOf
<1>2. PICK I \in Below : \A J \in Below : ~ (<<J, I>> \in Smaller)
  <2> HIDE DEF Below, Smaller
  <2>1. IsWellFoundedOn(Smaller, FiniteSubsetsOf(Nat))
    BY FS_StrictSubsetOrderingWellFounded DEF Smaller
  <2> QED BY <1>1, <2>1, WFMin
<1>3. PICK m \in S : I = 0 .. m
  OBVIOUS
<1>4. ASSUME NEW n \in S, n < m PROVE FALSE
  <2>1. /\ 0 .. n \subseteq 0 .. m /\ 0 .. n # 0 .. m
        /\ 0 .. n \in SUBSET Nat /\ 0 .. m \in SUBSET Nat
    BY <1>4
  <2>2. <<0 .. n, 0 .. m>> \in Smaller
    BY <2>1 DEF StrictSubsetOrdering
  <2> HIDE DEF Smaller
  <2> QED BY <1>2, <1>3, <2>2
<1> QED BY <1>4

\* What holds of the leaves, and of a level when it does of the one below,
\* holds of every level.
LEMMA LevelByLevel ==
  ASSUME NEW n \in Nat, NEW S, 0 \in S, \A m \in 0 .. (n - 1) : m \in S => m + 1 \in S
  PROVE  0 .. n \subseteq S
<1> DEFINE Bad == (0 .. n) \ S
<1> SUFFICES ASSUME Bad # {} PROVE FALSE
  OBVIOUS
<1>1. PICK m \in Bad : \A l \in Bad : m <= l
  <2>1. Bad \subseteq Nat
    OBVIOUS
  <2> HIDE DEF Bad
  <2> QED BY <2>1, LeastLevel
<1>2. m \in 0 .. n /\ m \notin S /\ m # 0
  OBVIOUS
<1>3. m - 1 \in 0 .. (n - 1) /\ m - 1 \in 0 .. n /\ (m - 1) + 1 = m /\ ~ (m <= m - 1)
  BY <1>2
<1>4. m - 1 \in S
  BY <1>1, <1>3
<1> QED BY <1>2, <1>3, <1>4

\* g with one more level.
OneMore(g, m, v) == [level \in 0 .. (m + 1) |-> IF level = m + 1 THEN v ELSE g[level]]

LEMMA OneMoreIs ==
  ASSUME NEW m \in Nat, NEW g, NEW v, NEW h, h = OneMore(g, m, v)
  PROVE  /\ h = [level \in 0 .. (m + 1) |-> h[level]]
         /\ h[m + 1] = v
         /\ \A level \in 0 .. m : h[level] = g[level]
         /\ \A level \in 0 .. (m + 1) : \/ level \in 0 .. m /\ (level # 0 => level - 1 \in 0 .. m)
                                        \/ level = m + 1 /\ level # 0 /\ level - 1 = m /\ m \in 0 .. m
BY DEF OneMore

-----------------------------------------------------------------------------
(* The recursive functions *)

WidthTo(g, n) == g = [level \in 0 .. n |-> IF level = 0 THEN 1 ELSE 2 * g[level - 1]]

LEMMA WidthIs ==
  /\ Width[0] = 1
  /\ \A level \in 1 .. Depth : Width[level] = 2 * Width[level - 1]
<1> DEFINE Good == {n \in Nat : \E g : WidthTo(g, n)}
<1>1. 0 \in Good
  <2>1. WidthTo([level \in 0 .. 0 |-> 1], 0)
    BY DEF WidthTo
  <2> QED BY <2>1
<1>2. ASSUME NEW m \in 0 .. (Depth - 1), m \in Good PROVE m + 1 \in Good
  <2>1. PICK g : WidthTo(g, m)
    BY <1>2
  <2>2. m \in Nat
    BY TreeAssumption
  <2>3. PICK h : h = OneMore(g, m, 2 * g[m])
    OBVIOUS
  <2>4. ASSUME NEW level \in 0 .. (m + 1)
        PROVE  h[level] = IF level = 0 THEN 1 ELSE 2 * h[level - 1]
    <3>1. ASSUME level \in 0 .. m, level # 0 => level - 1 \in 0 .. m
          PROVE  h[level] = IF level = 0 THEN 1 ELSE 2 * h[level - 1]
      <4>1. g[level] = IF level = 0 THEN 1 ELSE 2 * g[level - 1]
        BY <2>1, <3>1 DEF WidthTo
      <4> QED BY <2>2, <2>3, <3>1, <4>1, OneMoreIs
    <3> QED BY <2>2, <2>3, <3>1, OneMoreIs
  <2>5. WidthTo(h, m + 1)
    <3>1. h = [level \in 0 .. (m + 1) |-> h[level]]
      BY <2>2, <2>3, OneMoreIs
    <3> QED BY <2>4, <3>1 DEF WidthTo
  <2> QED BY <2>2, <2>5
<1>3. \E g : WidthTo(g, Depth)
  <2> HIDE DEF Good
  <2>1. Depth \in 0 .. Depth /\ Depth \in Nat
    BY TreeAssumption
  <2>2. 0 .. Depth \subseteq Good
    BY <1>1, <1>2, <2>1, LevelByLevel
  <2> QED BY <2>1, <2>2 DEF Good
<1>4. Width = [level \in 0 .. Depth |-> IF level = 0 THEN 1 ELSE 2 * Width[level - 1]]
  BY <1>3 DEF Width, WidthTo
<1>5. 0 \in 0 .. Depth /\ \A level \in 1 .. Depth : level \in 0 .. Depth /\ level # 0
  BY TreeAssumption
<1> QED BY <1>4, <1>5

DefaultsTo(g, n) == g = [level \in 0 .. n |-> IF level = 0 THEN Empty ELSE Sha3(g[level - 1], g[level - 1])]

LEMMA DefaultNodesIs ==
  /\ DefaultNodes[0] = Empty
  /\ \A level \in 1 .. Depth : DefaultNodes[level] = Sha3(DefaultNodes[level - 1], DefaultNodes[level - 1])
<1> DEFINE Good == {n \in Nat : \E g : DefaultsTo(g, n)}
<1>1. 0 \in Good
  <2>1. DefaultsTo([level \in 0 .. 0 |-> Empty], 0)
    BY DEF DefaultsTo
  <2> QED BY <2>1
<1>2. ASSUME NEW m \in 0 .. (Depth - 1), m \in Good PROVE m + 1 \in Good
  <2>1. PICK g : DefaultsTo(g, m)
    BY <1>2
  <2>2. m \in Nat
    BY TreeAssumption
  <2>3. PICK h : h = OneMore(g, m, Sha3(g[m], g[m]))
    OBVIOUS
  <2>4. ASSUME NEW level \in 0 .. (m + 1)
        PROVE  h[level] = IF level = 0 THEN Empty ELSE Sha3(h[level - 1], h[level - 1])
    <3>1. ASSUME level \in 0 .. m, level # 0 => level - 1 \in 0 .. m
          PROVE  h[level] = IF level = 0 THEN Empty ELSE Sha3(h[level - 1], h[level - 1])
      <4>1. g[level] = IF level = 0 THEN Empty ELSE Sha3(g[level - 1], g[level - 1])
        BY <2>1, <3>1 DEF DefaultsTo
      <4> QED BY <2>2, <2>3, <3>1, <4>1, OneMoreIs
    <3> QED BY <2>2, <2>3, <3>1, OneMoreIs
  <2>5. DefaultsTo(h, m + 1)
    <3>1. h = [level \in 0 .. (m + 1) |-> h[level]]
      BY <2>2, <2>3, OneMoreIs
    <3> QED BY <2>4, <3>1 DEF DefaultsTo
  <2> QED BY <2>2, <2>5
<1>3. \E g : DefaultsTo(g, Depth)
  <2> HIDE DEF Good
  <2>1. Depth \in 0 .. Depth /\ Depth \in Nat
    BY TreeAssumption
  <2>2. 0 .. Depth \subseteq Good
    BY <1>1, <1>2, <2>1, LevelByLevel
  <2> QED BY <2>1, <2>2 DEF Good
<1>4. DefaultNodes = [level \in 0 .. Depth |->
                        IF level = 0 THEN Empty ELSE Sha3(DefaultNodes[level - 1], DefaultNodes[level - 1])]
  BY <1>3 DEF DefaultNodes, DefaultsTo
<1>5. 0 \in 0 .. Depth /\ \A level \in 1 .. Depth : level \in 0 .. Depth /\ level # 0
  BY TreeAssumption
<1> QED BY <1>4, <1>5

TreeTo(g, n) == g = [level \in 0 .. n |-> IF level = 0 THEN leaves ELSE NextLevel(g[level - 1], level - 1)]

LEMMA CreateTreeIs ==
  /\ CreateTree[0] = leaves
  /\ \A level \in 1 .. Depth : CreateTree[level] = NextLevel(CreateTree[level - 1], level - 1)
<1> DEFINE Good == {n \in Nat : \E g : TreeTo(g, n)}
<1>1. 0 \in Good
  <2>1. TreeTo([level \in 0 .. 0 |-> leaves], 0)
    BY DEF TreeTo
  <2> QED BY <2>1
<1>2. ASSUME NEW m \in 0 .. (Depth - 1), m \in Good PROVE m + 1 \in Good
  <2>1. PICK g : TreeTo(g, m)
    BY <1>2
  <2>2. m \in Nat
    BY TreeAssumption
  <2>3. PICK h : h = OneMore(g, m, NextLevel(g[m], m))
    OBVIOUS
  <2>4. ASSUME NEW level \in 0 .. (m + 1)
        PROVE  h[level] = IF level = 0 THEN leaves ELSE NextLevel(h[level - 1], level - 1)
    <3>1. ASSUME level \in 0 .. m, level # 0 => level - 1 \in 0 .. m
          PROVE  h[level] = IF level = 0 THEN leaves ELSE NextLevel(h[level - 1], level - 1)
      <4>1. g[level] = IF level = 0 THEN leaves ELSE NextLevel(g[level - 1], level - 1)
        BY <2>1, <3>1 DEF TreeTo
      <4> QED BY <2>2, <2>3, <3>1, <4>1, OneMoreIs
    <3> QED BY <2>2, <2>3, <3>1, OneMoreIs
  <2>5. TreeTo(h, m + 1)
    <3>1. h = [level \in 0 .. (m + 1) |-> h[level]]
      BY <2>2, <2>3, OneMoreIs
    <3> QED BY <2>4, <3>1 DEF TreeTo
  <2> QED BY <2>2, <2>5
<1>3. \E g : TreeTo(g, Depth)
  <2> HIDE DEF Good
  <2>1. Depth \in 0 .. Depth /\ Depth \in Nat
    BY TreeAssumption
  <2>2. 0 .. Depth \subseteq Good
    BY <1>1, <1>2, <2>1, LevelByLevel
  <2> QED BY <2>1, <2>2 DEF Good
<1>4. CreateTree = [level \in 0 .. Depth |->
                      IF level = 0 THEN leaves ELSE NextLevel(CreateTree[level - 1], level - 1)]
  BY <1>3 DEF CreateTree, TreeTo
<1>5. 0 \in 0 .. Depth /\ \A level \in 1 .. Depth : level \in 0 .. Depth /\ level # 0
  BY TreeAssumption
<1> QED BY <1>4, <1>5

DenseLevel(below, level) ==
  [index \in 0 .. (Width[Depth - level] - 1) |->
     IF level = 0 THEN IF index \in DOMAIN leaves THEN leaves[index] ELSE Empty
     ELSE Sha3(below[2 * index], below[2 * index + 1])]
DenseTo(g, n) == g = [level \in 0 .. n |-> DenseLevel(g[level - 1], level)]

LEMMA DenseTreeIs ==
  /\ DenseTree[0] = [index \in Slots |-> IF index \in DOMAIN leaves THEN leaves[index] ELSE Empty]
  /\ \A level \in 1 .. Depth :
       DenseTree[level] = [index \in 0 .. (Width[Depth - level] - 1) |->
                             Sha3(DenseTree[level - 1][2 * index], DenseTree[level - 1][2 * index + 1])]
<1> DEFINE Good == {n \in Nat : \E g : DenseTo(g, n)}
<1>1. 0 \in Good
  <2>1. DenseTo([level \in 0 .. 0 |-> DenseLevel(leaves, 0)], 0)
    BY DEF DenseTo, DenseLevel
  <2> QED BY <2>1
<1>2. ASSUME NEW m \in 0 .. (Depth - 1), m \in Good PROVE m + 1 \in Good
  <2>1. PICK g : DenseTo(g, m)
    BY <1>2
  <2>2. m \in Nat
    BY TreeAssumption
  <2>3. PICK h : h = OneMore(g, m, DenseLevel(g[m], m + 1))
    OBVIOUS
  <2>4. ASSUME NEW level \in 0 .. (m + 1)
        PROVE  h[level] = DenseLevel(h[level - 1], level)
    <3>1. ASSUME level \in 0 .. m, level # 0 => level - 1 \in 0 .. m
          PROVE  h[level] = DenseLevel(h[level - 1], level)
      <4>1. g[level] = DenseLevel(g[level - 1], level)
        BY <2>1, <3>1 DEF DenseTo
      <4>2. CASE level = 0
        <5>1. DenseLevel(g[level - 1], 0) = DenseLevel(h[level - 1], 0)
          BY DEF DenseLevel
        <5> QED BY <2>2, <2>3, <3>1, <4>1, <4>2, <5>1, OneMoreIs
      <4>3. CASE level # 0
        BY <2>2, <2>3, <3>1, <4>1, <4>3, OneMoreIs
      <4> QED BY <4>2, <4>3
    <3> QED BY <2>2, <2>3, <3>1, OneMoreIs
  <2>5. DenseTo(h, m + 1)
    <3>1. h = [level \in 0 .. (m + 1) |-> h[level]]
      BY <2>2, <2>3, OneMoreIs
    <3> QED BY <2>4, <3>1 DEF DenseTo
  <2> QED BY <2>2, <2>5
<1>3. \E g : DenseTo(g, Depth)
  <2> HIDE DEF Good
  <2>1. Depth \in 0 .. Depth /\ Depth \in Nat
    BY TreeAssumption
  <2>2. 0 .. Depth \subseteq Good
    BY <1>1, <1>2, <2>1, LevelByLevel
  <2> QED BY <2>1, <2>2 DEF Good
<1>4. DenseTree = [level \in 0 .. Depth |-> DenseLevel(DenseTree[level - 1], level)]
  BY <1>3 DEF DenseTree, DenseTo, DenseLevel
<1>5. /\ 0 \in 0 .. Depth /\ Depth - 0 = Depth
      /\ \A level \in 1 .. Depth : level \in 0 .. Depth /\ level # 0
  BY TreeAssumption
<1>6. DenseTree[0] = DenseLevel(DenseTree[0 - 1], 0)
  BY <1>4, <1>5
<1>7. \A level \in 1 .. Depth : DenseTree[level] = DenseLevel(DenseTree[level - 1], level)
  BY <1>4, <1>5
<1> QED BY <1>5, <1>6, <1>7 DEF DenseLevel, Slots

AboveTo(slot, g, n) == g = [level \in 0 .. n |-> IF level = 0 THEN slot ELSE g[level - 1] \div 2]

LEMMA AboveIs ==
  ASSUME NEW slot
  PROVE  /\ Above(slot)[0] = slot
         /\ \A level \in 1 .. Depth : Above(slot)[level] = Above(slot)[level - 1] \div 2
<1> DEFINE Good == {n \in Nat : \E g : AboveTo(slot, g, n)}
<1>1. 0 \in Good
  <2>1. AboveTo(slot, [level \in 0 .. 0 |-> slot], 0)
    BY DEF AboveTo
  <2> QED BY <2>1
<1>2. ASSUME NEW m \in 0 .. (Depth - 1), m \in Good PROVE m + 1 \in Good
  <2>1. PICK g : AboveTo(slot, g, m)
    BY <1>2
  <2>2. m \in Nat
    BY TreeAssumption
  <2>3. PICK h : h = OneMore(g, m, g[m] \div 2)
    OBVIOUS
  <2>4. ASSUME NEW level \in 0 .. (m + 1)
        PROVE  h[level] = IF level = 0 THEN slot ELSE h[level - 1] \div 2
    <3>1. ASSUME level \in 0 .. m, level # 0 => level - 1 \in 0 .. m
          PROVE  h[level] = IF level = 0 THEN slot ELSE h[level - 1] \div 2
      <4>1. g[level] = IF level = 0 THEN slot ELSE g[level - 1] \div 2
        BY <2>1, <3>1 DEF AboveTo
      <4> QED BY <2>2, <2>3, <3>1, <4>1, OneMoreIs
    <3> QED BY <2>2, <2>3, <3>1, OneMoreIs
  <2>5. AboveTo(slot, h, m + 1)
    <3>1. h = [level \in 0 .. (m + 1) |-> h[level]]
      BY <2>2, <2>3, OneMoreIs
    <3> QED BY <2>4, <3>1 DEF AboveTo
  <2> QED BY <2>2, <2>5
<1>3. \E g : AboveTo(slot, g, Depth)
  <2> HIDE DEF Good
  <2>1. Depth \in 0 .. Depth /\ Depth \in Nat
    BY TreeAssumption
  <2>2. 0 .. Depth \subseteq Good
    BY <1>1, <1>2, <2>1, LevelByLevel
  <2> QED BY <2>1, <2>2 DEF Good
<1>4. Above(slot) = [level \in 0 .. Depth |-> IF level = 0 THEN slot ELSE Above(slot)[level - 1] \div 2]
  <2> DEFINE index == CHOOSE g : g = [level \in 0 .. Depth |-> IF level = 0 THEN slot ELSE g[level - 1] \div 2]
  <2>1. Above(slot) = index
    BY DEF Above
  <2>2. index = [level \in 0 .. Depth |-> IF level = 0 THEN slot ELSE index[level - 1] \div 2]
    BY <1>3 DEF AboveTo
  <2> HIDE DEF index
  <2> QED BY <2>1, <2>2
<1>5. 0 \in 0 .. Depth /\ \A level \in 1 .. Depth : level \in 0 .. Depth /\ level # 0
  BY TreeAssumption
<1> QED BY <1>4, <1>5

-----------------------------------------------------------------------------
(* Widths and indices *)

LEMMA HalvesAndSiblings ==
  ASSUME NEW w \in Nat, NEW i \in 0 .. (2 * w - 1)
  PROVE  /\ i \div 2 \in 0 .. (w - 1) /\ Sibling(i) \in 0 .. (2 * w - 1)
         /\ i % 2 = 0 => i = 2 * (i \div 2) /\ Sibling(i) = 2 * (i \div 2) + 1
         /\ i % 2 # 0 => i = 2 * (i \div 2) + 1 /\ Sibling(i) = 2 * (i \div 2)
BY DEF Sibling

LEMMA Doubles ==
  ASSUME NEW w \in Nat, NEW h \in 0 .. (w - 1)
  PROVE  /\ 2 * h \in 0 .. (2 * w - 1) /\ (2 * h) \div 2 = h
         /\ 2 * h + 1 \in 0 .. (2 * w - 1) /\ (2 * h + 1) \div 2 = h
OBVIOUS

LEMMA WidthsHalve ==
  \A level \in 0 .. Depth :
     /\ Width[level] \in Nat \ {0}
     /\ level # 0 => Width[Depth - (level - 1)] = 2 * Width[Depth - level]
<1> DEFINE Good == {n \in Nat : Width[n] \in Nat \ {0}}
<1>1. 0 \in Good
  BY WidthIs
<1>2. ASSUME NEW m \in 0 .. (Depth - 1), m \in Good PROVE m + 1 \in Good
  <2>1. Width[m + 1] = 2 * Width[m]
    <3>1. m + 1 \in 1 .. Depth /\ (m + 1) - 1 = m
      BY TreeAssumption
    <3> QED BY <3>1, WidthIs
  <2>2. Width[m] \in Nat \ {0} /\ m + 1 \in Nat
    BY <1>2
  <2>3. 2 * Width[m] \in Nat \ {0}
    BY <2>2
  <2> QED BY <2>1, <2>2, <2>3
<1>3. \A level \in 0 .. Depth : Width[level] \in Nat \ {0}
  <2>1. 0 .. Depth \subseteq Good
    <3> HIDE DEF Good
    <3> QED BY <1>1, <1>2, LevelByLevel, TreeAssumption
  <2> QED BY <2>1
<1>4. ASSUME NEW level \in 0 .. Depth, level # 0
      PROVE  Width[Depth - (level - 1)] = 2 * Width[Depth - level]
  <2>1. Depth - (level - 1) \in 1 .. Depth /\ (Depth - (level - 1)) - 1 = Depth - level
    BY <1>4, TreeAssumption
  <2> QED BY <2>1, WidthIs
<1> QED BY <1>3, <1>4

\* The nodes above a slot are within their levels, the last is the root.
LEMMA AboveInside ==
  ASSUME NEW slot \in Slots
  PROVE  \A level \in 0 .. Depth : Above(slot)[level] \in 0 .. (Width[Depth - level] - 1)
<1> DEFINE Good == {n \in Nat : Above(slot)[n] \in 0 .. (Width[Depth - n] - 1)}
<1>1. 0 \in Good
  <2>1. Depth - 0 = Depth
    BY TreeAssumption
  <2> QED BY <2>1, AboveIs DEF Slots
<1>2. ASSUME NEW m \in 0 .. (Depth - 1), m \in Good PROVE m + 1 \in Good
  <2>1. m + 1 \in 1 .. Depth /\ m + 1 \in 0 .. Depth /\ m + 1 # 0 /\ (m + 1) - 1 = m /\ Depth - (m + 1) \in 0 .. Depth
    BY TreeAssumption
  <2>2. Above(slot)[m + 1] = Above(slot)[m] \div 2
    BY <2>1, AboveIs
  <2>3. Width[Depth - m] = 2 * Width[Depth - (m + 1)] /\ Width[Depth - (m + 1)] \in Nat
    BY <2>1, WidthsHalve
  <2>4. Above(slot)[m] \in 0 .. (Width[Depth - m] - 1)
    BY <1>2
  <2>5. PICK w \in Nat : w = Width[Depth - (m + 1)]
    BY <2>3
  <2>6. Above(slot)[m] \in 0 .. (2 * w - 1)
    BY <2>3, <2>4, <2>5
  <2>7. Above(slot)[m] \div 2 \in 0 .. (w - 1)
    BY <2>6, HalvesAndSiblings
  <2> QED BY <2>1, <2>2, <2>5, <2>7
<1>3. 0 .. Depth \subseteq Good
  <2> HIDE DEF Good
  <2> QED BY <1>1, <1>2, LevelByLevel, TreeAssumption
<1> QED BY <1>3

-----------------------------------------------------------------------------
(* The root *)

\* The hash of a node: the one stored, or the default.
Node(treeLevel, level, i) == IF i \in DOMAIN treeLevel THEN treeLevel[i] ELSE DefaultNodes[level]

\* The parent of a stored node hashes both children, whichever was taken.
LEMMA ParentHashesBoth ==
  ASSUME NEW treeLevel, NEW level, NEW w \in Nat, NEW i \in 0 .. (2 * w - 1), i \in DOMAIN treeLevel
  PROVE  Parent(treeLevel, level, i) =
           Sha3(Node(treeLevel, level, 2 * (i \div 2)), Node(treeLevel, level, 2 * (i \div 2) + 1))
<1>1. CASE i % 2 = 0
  <2>1. i = 2 * (i \div 2) /\ Sibling(i) = 2 * (i \div 2) + 1
    BY <1>1, HalvesAndSiblings
  <2> QED BY <1>1, <2>1 DEF Parent, Node
<1>2. CASE i % 2 # 0
  <2>1. i = 2 * (i \div 2) + 1 /\ Sibling(i) = 2 * (i \div 2)
    BY <1>2, HalvesAndSiblings
  <2> QED BY <1>2, <2>1 DEF Parent, Node
<1> QED BY <1>1, <1>2

LEMMA NextLevelIs ==
  ASSUME NEW treeLevel, NEW level, NEW w \in Nat, DOMAIN treeLevel \subseteq 0 .. (2 * w - 1)
  PROVE  /\ DOMAIN NextLevel(treeLevel, level) \subseteq 0 .. (w - 1)
         /\ DOMAIN treeLevel = {} <=> DOMAIN NextLevel(treeLevel, level) = {}
         /\ \A h \in 0 .. (w - 1) :
              /\ h \in DOMAIN NextLevel(treeLevel, level) <=>
                   2 * h \in DOMAIN treeLevel \/ 2 * h + 1 \in DOMAIN treeLevel
              /\ h \in DOMAIN NextLevel(treeLevel, level) =>
                   NextLevel(treeLevel, level)[h] =
                     Sha3(Node(treeLevel, level, 2 * h), Node(treeLevel, level, 2 * h + 1))
<1> DEFINE next == NextLevel(treeLevel, level)
<1>1. DOMAIN next = {i \div 2 : i \in DOMAIN treeLevel}
  BY DEF NextLevel
<1>2. ASSUME NEW i \in DOMAIN treeLevel
      PROVE  i \div 2 \in 0 .. (w - 1) /\ (i = 2 * (i \div 2) \/ i = 2 * (i \div 2) + 1)
  <2>1. i \in 0 .. (2 * w - 1)
    OBVIOUS
  <2> QED BY <2>1, HalvesAndSiblings
<1>3. ASSUME NEW h \in DOMAIN next
      PROVE  next[h] = Sha3(Node(treeLevel, level, 2 * h), Node(treeLevel, level, 2 * h + 1))
  <2> DEFINE i == CHOOSE index \in DOMAIN treeLevel : index \div 2 = h
  <2>1. i \in DOMAIN treeLevel /\ i \div 2 = h
    BY <1>1
  <2>2. next[h] = Parent(treeLevel, level, i)
    BY <1>1 DEF NextLevel
  <2> HIDE DEF i, next
  <2>3. i \in 0 .. (2 * w - 1)
    BY <2>1
  <2> QED BY <2>1, <2>2, <2>3, ParentHashesBoth
<1>4. ASSUME NEW h \in 0 .. (w - 1)
      PROVE  h \in DOMAIN next <=> 2 * h \in DOMAIN treeLevel \/ 2 * h + 1 \in DOMAIN treeLevel
  <2>1. (2 * h) \div 2 = h /\ (2 * h + 1) \div 2 = h
    BY Doubles
  <2> HIDE DEF next
  <2>2. ASSUME h \in DOMAIN next PROVE 2 * h \in DOMAIN treeLevel \/ 2 * h + 1 \in DOMAIN treeLevel
    <3>1. PICK i \in DOMAIN treeLevel : h = i \div 2
      BY <1>1, <2>2
    <3> QED BY <1>2, <3>1
  <2>3. ASSUME 2 * h \in DOMAIN treeLevel \/ 2 * h + 1 \in DOMAIN treeLevel PROVE h \in DOMAIN next
    <3>1. CASE 2 * h \in DOMAIN treeLevel
      BY <1>1, <2>1, <3>1
    <3>2. CASE 2 * h + 1 \in DOMAIN treeLevel
      BY <1>1, <2>1, <3>2
    <3> QED BY <2>3, <3>1, <3>2
  <2> QED BY <2>2, <2>3
<1>5. DOMAIN treeLevel = {} <=> DOMAIN next = {}
  BY <1>1
<1>6. DOMAIN next \subseteq 0 .. (w - 1)
  BY <1>1, <1>2
<1> HIDE DEF next
<1>7. /\ DOMAIN next \subseteq 0 .. (w - 1)
      /\ DOMAIN treeLevel = {} <=> DOMAIN next = {}
      /\ \A h \in 0 .. (w - 1) :
           /\ h \in DOMAIN next <=> 2 * h \in DOMAIN treeLevel \/ 2 * h + 1 \in DOMAIN treeLevel
           /\ h \in DOMAIN next =>
                next[h] = Sha3(Node(treeLevel, level, 2 * h), Node(treeLevel, level, 2 * h + 1))
  BY <1>3, <1>4, <1>5, <1>6
<1> QED BY <1>7 DEF next

\* What is stored of a level, with its defaults, is the dense tree's level.
LevelIsDense(level) ==
  /\ DOMAIN CreateTree[level] \subseteq 0 .. (Width[Depth - level] - 1)
  /\ DOMAIN CreateTree[level] = {} <=> DOMAIN leaves = {}
  /\ \A i \in 0 .. (Width[Depth - level] - 1) :
       DenseTree[level][i] = Node(CreateTree[level], level, i)

LEMMA LevelsAreDense ==
  ASSUME DOMAIN leaves \subseteq Slots
  PROVE  \A level \in 0 .. Depth : LevelIsDense(level)
<1> DEFINE Good == {n \in Nat : LevelIsDense(n)}
<1>1. 0 \in Good
  <2>1. Depth - 0 = Depth
    BY TreeAssumption
  <2>2. CreateTree[0] = leaves /\ DefaultNodes[0] = Empty
    BY CreateTreeIs, DefaultNodesIs
  <2>3. \A i \in Slots : DenseTree[0][i] = Node(leaves, 0, i)
    BY <2>2, DenseTreeIs DEF Node
  <2> QED BY <2>1, <2>2, <2>3 DEF LevelIsDense, Slots
<1>2. ASSUME NEW m \in 0 .. (Depth - 1), m \in Good PROVE m + 1 \in Good
  <2>1. m + 1 \in 1 .. Depth /\ m + 1 \in 0 .. Depth /\ m + 1 # 0 /\ (m + 1) - 1 = m
    BY TreeAssumption
  <2> DEFINE w == Width[Depth - (m + 1)]
             t == CreateTree[m]
             next == CreateTree[m + 1]
  <2>2. Width[Depth - m] = 2 * w /\ w \in Nat
    <3>1. Depth - (m + 1) \in 0 .. Depth
      BY TreeAssumption
    <3> QED BY <2>1, <3>1, WidthsHalve
  <2>3. /\ DOMAIN t \subseteq 0 .. (2 * w - 1) /\ (DOMAIN t = {} <=> DOMAIN leaves = {})
        /\ \A i \in 0 .. (2 * w - 1) : DenseTree[m][i] = Node(t, m, i)
    BY <1>2, <2>2 DEF LevelIsDense
  <2>4. next = NextLevel(t, m)
    BY <2>1, CreateTreeIs
  <2>5. \A h \in 0 .. (w - 1) : DenseTree[m + 1][h] = Sha3(DenseTree[m][2 * h], DenseTree[m][2 * h + 1])
    <3>1. DenseTree[m + 1] = [h \in 0 .. (w - 1) |->
                                Sha3(DenseTree[(m + 1) - 1][2 * h], DenseTree[(m + 1) - 1][2 * h + 1])]
      BY <2>1, DenseTreeIs
    <3> HIDE DEF w
    <3> QED BY <2>1, <3>1
  <2>6. DefaultNodes[m + 1] = Sha3(DefaultNodes[m], DefaultNodes[m])
    BY <2>1, DefaultNodesIs
  <2> HIDE DEF w, t, next
  <2>7. /\ DOMAIN next \subseteq 0 .. (w - 1)
        /\ DOMAIN t = {} <=> DOMAIN next = {}
        /\ \A h \in 0 .. (w - 1) :
             /\ h \in DOMAIN next <=> 2 * h \in DOMAIN t \/ 2 * h + 1 \in DOMAIN t
             /\ h \in DOMAIN next => next[h] = Sha3(Node(t, m, 2 * h), Node(t, m, 2 * h + 1))
    <3>1. PICK s : s = NextLevel(t, m)
      OBVIOUS
    <3>2. /\ DOMAIN s \subseteq 0 .. (w - 1)
          /\ DOMAIN t = {} <=> DOMAIN s = {}
          /\ \A h \in 0 .. (w - 1) :
               /\ h \in DOMAIN s <=> 2 * h \in DOMAIN t \/ 2 * h + 1 \in DOMAIN t
               /\ h \in DOMAIN s => s[h] = Sha3(Node(t, m, 2 * h), Node(t, m, 2 * h + 1))
      <4>1. DOMAIN t \subseteq 0 .. (2 * w - 1)
        BY <2>3
      <4> HIDE DEF NextLevel, Node, Sha3
      <4> QED BY <2>2, <3>1, <4>1, NextLevelIs
    <3> QED BY <2>4, <3>1, <3>2
  <2>8. ASSUME NEW h \in 0 .. (w - 1)
        PROVE  DenseTree[m + 1][h] = Node(next, m + 1, h)
    <3>1. DenseTree[m + 1][h] = Sha3(Node(t, m, 2 * h), Node(t, m, 2 * h + 1))
      <4>1. 2 * h \in 0 .. (2 * w - 1) /\ 2 * h + 1 \in 0 .. (2 * w - 1)
        BY <2>2, Doubles
      <4> QED BY <2>3, <2>5, <4>1
    <3>2. CASE h \in DOMAIN next
      BY <2>7, <3>1, <3>2 DEF Node
    <3>3. CASE h \notin DOMAIN next
      <4>1. 2 * h \notin DOMAIN t /\ 2 * h + 1 \notin DOMAIN t
        BY <2>7, <3>3
      <4> QED BY <2>6, <3>1, <3>3, <4>1 DEF Node
    <3> QED BY <3>2, <3>3
  <2>9. LevelIsDense(m + 1)
    BY <2>3, <2>7, <2>8 DEF LevelIsDense, w, next
  <2> QED BY <2>1, <2>9
<1>3. 0 .. Depth \subseteq Good
  <2> HIDE DEF Good
  <2> QED BY <1>1, <1>2, LevelByLevel, TreeAssumption
<1> QED BY <1>3

LEMMA DenseRoot ==
  ASSUME DOMAIN leaves \subseteq Slots
  PROVE  Root = DenseTree[Depth][0]
<1>1. Depth \in 0 .. Depth /\ Depth - Depth = 0
  BY TreeAssumption
<1>2. LevelIsDense(Depth) /\ 0 .. (Width[Depth - Depth] - 1) = {0}
  BY <1>1, LevelsAreDense, WidthIs
<1>3. DenseTree[Depth][0] = Node(CreateTree[Depth], Depth, 0)
  BY <1>2 DEF LevelIsDense
<1>4. 0 \in DOMAIN CreateTree[Depth] <=> DOMAIN leaves # {}
  BY <1>2 DEF LevelIsDense
<1> QED BY <1>3, <1>4 DEF Root, Node

\* The block's txs are in slots of the tree.
LeavesInv == DOMAIN leaves \subseteq Slots

LEMMA LeavesInSlots == Spec => []LeavesInv
<1>1. Init => LeavesInv
  BY DEF Init, LeavesInv
<1>2. LeavesInv /\ [Next]_leaves => LeavesInv'
  BY DEF LeavesInv, Next, AddLeaf, Slots
<1> QED BY <1>1, <1>2, PTL DEF Spec

\* For every depth and every block, the root made of the stored nodes and the
\* defaults of _createTree is the root of the tree with every leaf.
THEOREM SparseRootIsDense == Spec => []RootIsDense
<1>1. LeavesInv => RootIsDense
  BY DenseRoot DEF LeavesInv, RootIsDense
<1> QED BY <1>1, LeavesInSlots, PTL

-----------------------------------------------------------------------------
(* The proofs *)

\* Where a hash is in a proof tells the level it is of.
LEMMA PositionsDiffer ==
  ASSUME NEW bits, bits \subseteq 0 .. (Depth - 1)
  PROVE  /\ Cardinality(bits) \in Nat
         /\ \A l \in bits : Position(bits, l) \in 1 .. Cardinality(bits)
         /\ \A l, m \in bits : Position(bits, l) = Position(bits, m) => l = m
<1>1. IsFiniteSet(bits) /\ bits \subseteq Nat
  <2>1. IsFiniteSet(0 .. (Depth - 1))
    BY FS_Interval, TreeAssumption
  <2>2. IsFiniteSet(bits)
    BY <2>1, FS_Subset
  <2>3. bits \subseteq Nat
    BY TreeAssumption
  <2> QED BY <2>2, <2>3
<1> DEFINE upTo(l) == {b \in bits : b <= l}
<1>2. \A l \in bits : IsFiniteSet(upTo(l)) /\ upTo(l) \subseteq bits /\ l \in upTo(l)
  BY <1>1, FS_Subset
<1>3. \A l \in bits : Cardinality(upTo(l)) \in Nat /\ Cardinality(upTo(l)) <= Cardinality(bits)
  <2> HIDE DEF upTo
  <2> QED BY <1>1, <1>2, FS_Subset, FS_CardinalityType
<1>4. \A l \in bits : Cardinality(upTo(l)) # 0
  <2> HIDE DEF upTo
  <2> QED BY <1>2, FS_EmptySet
<1>5. ASSUME NEW l \in bits, NEW m \in bits, l < m
      PROVE  Cardinality(upTo(l)) < Cardinality(upTo(m))
  <2>1. upTo(l) \subseteq upTo(m) /\ m \notin upTo(l) /\ m \in upTo(m)
    <3>1. l \in Nat /\ m \in Nat /\ \A b \in bits : b \in Nat
      BY <1>1
    <3>2. \A b \in bits : b <= l => b <= m
      BY <1>5, <3>1
    <3>3. ~ (m <= l) /\ m <= m
      BY <1>5, <3>1
    <3> QED BY <3>2, <3>3
  <2> HIDE DEF upTo
  <2>2. Cardinality(upTo(l)) # Cardinality(upTo(m)) /\ Cardinality(upTo(l)) <= Cardinality(upTo(m))
    BY <1>2, <2>1, FS_Subset
  <2> QED BY <1>3, <2>2
<1>6. Cardinality(bits) \in Nat
  BY <1>1, FS_CardinalityType
<1>7. \A l \in bits : Position(bits, l) = Cardinality(upTo(l))
  BY DEF Position
<1> HIDE DEF upTo
<1>8. \A l \in bits : Position(bits, l) \in 1 .. Cardinality(bits)
  BY <1>3, <1>4, <1>6, <1>7
<1>9. ASSUME NEW l \in bits, NEW m \in bits, Position(bits, l) = Position(bits, m) PROVE l = m
  <2>1. l \in Nat /\ m \in Nat
    BY <1>1
  <2>2. ~ (l < m) /\ ~ (m < l)
    BY <1>3, <1>5, <1>7, <1>9
  <2> QED BY <2>1, <2>2
<1> QED BY <1>6, <1>8, <1>9

\* The hash the check takes for the sibling of a level.
SiblingIn(proof, level) ==
  IF level \in proof.bits THEN proof.hashes[Position(proof.bits, level)] ELSE DefaultNodes[level]

\* The check's step from a node of a level to the node above.
UpFrom(node, slot, proof, level) ==
  IF Above(slot)[level] % 2 = 0 THEN Sha3(node, SiblingIn(proof, level))
                                ELSE Sha3(SiblingIn(proof, level), node)

PathTo(leaf, slot, proof, g, n) ==
  g = [level \in 0 .. n |-> IF level = 0 THEN leaf ELSE UpFrom(g[level - 1], slot, proof, level - 1)]

\* The nodes the check computes from a leaf.
Path(leaf, slot, proof) ==
  CHOOSE g : g = [level \in 0 .. Depth |->
                    IF level = 0 THEN leaf ELSE UpFrom(g[level - 1], slot, proof, level - 1)]

LEMMA PathIs ==
  ASSUME NEW leaf, NEW slot, NEW proof
  PROVE  /\ Verifies(leaf, slot, proof) <=> Path(leaf, slot, proof)[Depth] = Root
         /\ Path(leaf, slot, proof)[0] = leaf
         /\ \A level \in 1 .. Depth :
              Path(leaf, slot, proof)[level] =
                UpFrom(Path(leaf, slot, proof)[level - 1], slot, proof, level - 1)
<1> DEFINE Good == {n \in Nat : \E g : PathTo(leaf, slot, proof, g, n)}
<1>1. 0 \in Good
  <2>1. PathTo(leaf, slot, proof, [level \in 0 .. 0 |-> leaf], 0)
    BY DEF PathTo
  <2> QED BY <2>1
<1>2. ASSUME NEW m \in 0 .. (Depth - 1), m \in Good PROVE m + 1 \in Good
  <2>1. PICK g : PathTo(leaf, slot, proof, g, m)
    BY <1>2
  <2>2. m \in Nat
    BY TreeAssumption
  <2>3. PICK h : h = OneMore(g, m, UpFrom(g[m], slot, proof, m))
    OBVIOUS
  <2>4. ASSUME NEW level \in 0 .. (m + 1)
        PROVE  h[level] = IF level = 0 THEN leaf ELSE UpFrom(h[level - 1], slot, proof, level - 1)
    <3>1. ASSUME level \in 0 .. m, level # 0 => level - 1 \in 0 .. m
          PROVE  h[level] = IF level = 0 THEN leaf ELSE UpFrom(h[level - 1], slot, proof, level - 1)
      <4>1. g[level] = IF level = 0 THEN leaf ELSE UpFrom(g[level - 1], slot, proof, level - 1)
        BY <2>1, <3>1 DEF PathTo
      <4> QED BY <2>2, <2>3, <3>1, <4>1, OneMoreIs
    <3> QED BY <2>2, <2>3, <3>1, OneMoreIs
  <2>5. PathTo(leaf, slot, proof, h, m + 1)
    <3>1. h = [level \in 0 .. (m + 1) |-> h[level]]
      BY <2>2, <2>3, OneMoreIs
    <3> QED BY <2>4, <3>1 DEF PathTo
  <2> QED BY <2>2, <2>5
<1>3. \E g : PathTo(leaf, slot, proof, g, Depth)
  <2> HIDE DEF Good
  <2>1. Depth \in 0 .. Depth /\ Depth \in Nat
    BY TreeAssumption
  <2>2. 0 .. Depth \subseteq Good
    BY <1>1, <1>2, <2>1, LevelByLevel
  <2> QED BY <2>1, <2>2 DEF Good
<1> DEFINE path == Path(leaf, slot, proof)
<1>4. path = [level \in 0 .. Depth |-> IF level = 0 THEN leaf ELSE UpFrom(path[level - 1], slot, proof, level - 1)]
  BY <1>3 DEF PathTo, Path
<1>5. Verifies(leaf, slot, proof) <=> path[Depth] = Root
  BY DEF Verifies, Path, UpFrom, SiblingIn
<1>6. 0 \in 0 .. Depth /\ \A level \in 1 .. Depth : level \in 0 .. Depth /\ level # 0
  BY TreeAssumption
<1> QED BY <1>4, <1>5, <1>6

\* A proof of createMerkleProof has the sibling on every level.
LEMMA SiblingsOfProof ==
  ASSUME DOMAIN leaves \subseteq Slots, NEW slot \in Slots, NEW level \in 0 .. (Depth - 1)
  PROVE  SiblingIn(CreateMerkleProof(slot), level) = DenseTree[level][Sibling(Above(slot)[level])]
<1> DEFINE sibling(l) == Sibling(Above(slot)[l])
           bits == {l \in 0 .. (Depth - 1) : sibling(l) \in DOMAIN CreateTree[l]}
           at(i) == CHOOSE l \in bits : Position(bits, l) = i
           hashes == [i \in 1 .. Cardinality(bits) |-> CreateTree[at(i)][sibling(at(i))]]
<1>1. /\ CreateMerkleProof(slot).bits = bits
      /\ CreateMerkleProof(slot).hashes = hashes
  BY DEF CreateMerkleProof
<1>2. level \in 0 .. Depth /\ level + 1 \in 0 .. Depth /\ level + 1 # 0 /\ (level + 1) - 1 = level
  BY TreeAssumption
<1>3. DenseTree[level][sibling(level)] = Node(CreateTree[level], level, sibling(level))
  <2>1. Width[Depth - level] = 2 * Width[Depth - (level + 1)]
    BY <1>2, WidthsHalve
  <2>2. Depth - (level + 1) \in 0 .. Depth
    BY TreeAssumption
  <2>3. PICK w \in Nat : w = Width[Depth - (level + 1)]
    BY <2>2, WidthsHalve
  <2>4. Above(slot)[level] \in 0 .. (2 * w - 1)
    BY <1>2, <2>1, <2>3, AboveInside
  <2>5. Sibling(Above(slot)[level]) \in 0 .. (Width[Depth - level] - 1)
    BY <2>1, <2>3, <2>4, HalvesAndSiblings
  <2> QED BY <1>2, <2>5, LevelsAreDense DEF LevelIsDense
<1>4. level \in bits <=> sibling(level) \in DOMAIN CreateTree[level]
  OBVIOUS
<1>5. bits \subseteq 0 .. (Depth - 1)
  OBVIOUS
<1> HIDE DEF sibling, bits
<1>6. CASE level \in bits
  <2>1. Position(bits, level) \in 1 .. Cardinality(bits)
    BY <1>5, <1>6, PositionsDiffer
  <2>2. at(Position(bits, level)) = level
    BY <1>5, <1>6, PositionsDiffer
  <2> HIDE DEF at
  <2>3. hashes[Position(bits, level)] = CreateTree[level][sibling(level)]
    BY <2>1, <2>2
  <2> HIDE DEF hashes
  <2> QED BY <1>1, <1>3, <1>4, <1>6, <2>3 DEF SiblingIn, Node, sibling
<1>7. CASE level \notin bits
  <2> HIDE DEF hashes
  <2> QED BY <1>1, <1>3, <1>4, <1>7 DEF SiblingIn, Node, sibling
<1> QED BY <1>6, <1>7

\* With the siblings of the dense tree the check computes its nodes from the
\* leaf that is there, and others from any other.
LEMMA PathIsOfLeaf ==
  ASSUME DOMAIN leaves \subseteq Slots, NEW slot \in Slots, NEW leaf
  PROVE  \A level \in 0 .. Depth :
           Path(leaf, slot, CreateMerkleProof(slot))[level] = DenseTree[level][Above(slot)[level]]
             <=> leaf = DenseTree[0][slot]
<1> DEFINE proof == CreateMerkleProof(slot)
           path == Path(leaf, slot, proof)
           index == Above(slot)
           Good == {n \in Nat : path[n] = DenseTree[n][index[n]] <=> leaf = DenseTree[0][slot]}
<1>1. 0 \in Good
  BY AboveIs, PathIs
<1>2. ASSUME NEW m \in 0 .. (Depth - 1), m \in Good PROVE m + 1 \in Good
  <2>1. m + 1 \in 1 .. Depth /\ m \in 0 .. Depth /\ m + 1 \in 0 .. Depth /\ m + 1 # 0 /\ (m + 1) - 1 = m
    BY TreeAssumption
  <2>2. path[m + 1] = UpFrom(path[m], slot, proof, m)
    <3>1. path[m + 1] = UpFrom(path[(m + 1) - 1], slot, proof, (m + 1) - 1)
      BY <2>1, PathIs
    <3> HIDE DEF path
    <3> QED BY <2>1, <3>1
  <2>3. index[m + 1] = index[m] \div 2
    BY <2>1, AboveIs
  <2>4. SiblingIn(proof, m) = DenseTree[m][Sibling(index[m])]
    BY SiblingsOfProof
  <2>5. path[m] = DenseTree[m][index[m]] <=> leaf = DenseTree[0][slot]
    BY <1>2
  <2>6. Width[Depth - m] = 2 * Width[Depth - (m + 1)]
    BY <2>1, WidthsHalve
  <2>7. PICK w \in Nat : w = Width[Depth - (m + 1)]
    <3>1. Depth - (m + 1) \in 0 .. Depth
      BY TreeAssumption
    <3> QED BY <3>1, WidthsHalve
  <2>8. index[m] \in 0 .. (2 * w - 1)
    BY <2>1, <2>6, <2>7, AboveInside
  <2>9. PICK i \in 0 .. (2 * w - 1) : i = index[m]
    BY <2>8
  <2>10. /\ i \div 2 \in 0 .. (w - 1)
         /\ i % 2 = 0 => i = 2 * (i \div 2) /\ Sibling(i) = 2 * (i \div 2) + 1
         /\ i % 2 # 0 => i = 2 * (i \div 2) + 1 /\ Sibling(i) = 2 * (i \div 2)
    BY HalvesAndSiblings
  <2>11. DenseTree[m + 1][i \div 2] = Sha3(DenseTree[m][2 * (i \div 2)], DenseTree[m][2 * (i \div 2) + 1])
    <3>1. DenseTree[m + 1] = [h \in 0 .. (w - 1) |->
                                Sha3(DenseTree[(m + 1) - 1][2 * h], DenseTree[(m + 1) - 1][2 * h + 1])]
      BY <2>1, <2>7, DenseTreeIs
    <3>2. DenseTree[m + 1] = [h \in 0 .. (w - 1) |-> Sha3(DenseTree[m][2 * h], DenseTree[m][2 * h + 1])]
      BY <2>1, <3>1
    <3> QED BY <2>10, <3>2
  <2> HIDE DEF path, proof, index
  <2>12. CASE i % 2 = 0
    <3>1. DenseTree[m + 1][i \div 2] = Sha3(DenseTree[m][i], DenseTree[m][Sibling(i)])
      BY <2>10, <2>11, <2>12
    <3>2. path[m + 1] = Sha3(path[m], DenseTree[m][Sibling(i)])
      BY <2>2, <2>4, <2>9, <2>12 DEF UpFrom, index
    <3>3. path[m + 1] = DenseTree[m + 1][i \div 2] <=> path[m] = DenseTree[m][i]
      BY <3>1, <3>2 DEF Sha3
    <3> QED BY <2>1, <2>3, <2>5, <2>9, <3>3
  <2>13. CASE i % 2 # 0
    <3>1. DenseTree[m + 1][i \div 2] = Sha3(DenseTree[m][Sibling(i)], DenseTree[m][i])
      BY <2>10, <2>11, <2>13
    <3>2. path[m + 1] = Sha3(DenseTree[m][Sibling(i)], path[m])
      BY <2>2, <2>4, <2>9, <2>13 DEF UpFrom, index
    <3>3. path[m + 1] = DenseTree[m + 1][i \div 2] <=> path[m] = DenseTree[m][i]
      BY <3>1, <3>2 DEF Sha3
    <3> QED BY <2>1, <2>3, <2>5, <2>9, <3>3
  <2> QED BY <2>12, <2>13
<1>3. 0 .. Depth \subseteq Good
  <2> HIDE DEF Good
  <2> QED BY <1>1, <1>2, LevelByLevel, TreeAssumption
<1> QED BY <1>3

\* For every depth and every block with a tx, the proof of a slot passes the
\* check for what the block holds there, a tx or nothing, and for nothing else.
THEOREM ProofsProveWhatIsThere == Spec => []ProofsAreExact
<1>1. ASSUME LeavesInv, NEW slot \in Slots, NEW leaf
      PROVE  Verifies(leaf, slot, CreateMerkleProof(slot))
               <=> leaf = IF slot \in DOMAIN leaves THEN leaves[slot] ELSE Empty
  <2>1. Depth \in 0 .. Depth /\ Depth - Depth = 0
    BY TreeAssumption
  <2>2. Above(slot)[Depth] = 0
    <3>1. Above(slot)[Depth] \in 0 .. (Width[0] - 1)
      BY <2>1, AboveInside
    <3> QED BY <3>1, WidthIs
  <2>3. Root = DenseTree[Depth][0]
    BY <1>1, DenseRoot DEF LeavesInv
  <2>4. DenseTree[0][slot] = IF slot \in DOMAIN leaves THEN leaves[slot] ELSE Empty
    BY DenseTreeIs
  <2>5. Path(leaf, slot, CreateMerkleProof(slot))[Depth] = Root <=> leaf = DenseTree[0][slot]
    BY <1>1, <2>1, <2>2, <2>3, PathIsOfLeaf DEF LeavesInv
  <2> QED BY <2>4, <2>5, PathIs
<1>2. LeavesInv => ProofsAreExact
  BY <1>1 DEF ProofsAreExact
<1> QED BY <1>2, LeavesInSlots, PTL
=============================================================================
