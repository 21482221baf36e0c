-------------------------- MODULE SparseMerkleTree --------------------------
(* The sparse Merkle tree of a plasma block: only nodes above a leaf are      *)
(* stored, every other node is the default of its level, and a proof carries  *)
(* the stored siblings with a bit per level that says which were. Hashes are  *)
(* terms: two are equal only when they hash the same things.                  *)
EXTENDS Naturals, FiniteSets

CONSTANTS Depth,   \* number of levels
          Hashes   \* hashes a leaf can have

ASSUME TreeAssumption == Depth \in Nat \ {0}

\* The nodes of a tree of so many levels, 2 ^ level.
Width[level \in 0 .. Depth] == IF level = 0 THEN 1 ELSE 2 * Width[level - 1]

Slots == 0 .. (Width[Depth] - 1)

VARIABLE leaves  \* the block's leaves, as the block's txs are added: slot -> hash

Empty == <<"leaf", "empty">>
Sha3(left, right) == <<"node", left, right>>

DefaultNodes[level \in 0 .. Depth] ==
  IF level = 0 THEN Empty ELSE Sha3(DefaultNodes[level - 1], DefaultNodes[level - 1])

Sibling(index) == IF index % 2 = 0 THEN index + 1 ELSE index - 1

\* mutant: the default on the wrong side
ParentUnordered(treeLevel, level, index) ==
  LET node(i) == IF i \in DOMAIN treeLevel THEN treeLevel[i] ELSE DefaultNodes[level]
  IN  Sha3(treeLevel[index], node(Sibling(index)))

\* A stored node with its sibling, or with the level's default on the side
\* where no sibling is stored.
Parent(treeLevel, level, index) ==
  LET node(i) == IF i \in DOMAIN treeLevel THEN treeLevel[i] ELSE DefaultNodes[level]
  IN  IF index % 2 = 0 THEN Sha3(treeLevel[index], node(Sibling(index)))
                       ELSE Sha3(node(Sibling(index)), treeLevel[index])

NextLevel(treeLevel, level) ==
  [half \in {index \div 2 : index \in DOMAIN treeLevel} |->
     Parent(treeLevel, level,
            CHOOSE index \in DOMAIN treeLevel : index \div 2 = half)]

CreateTree[level \in 0 .. Depth] ==
  IF level = 0 THEN leaves ELSE NextLevel(CreateTree[level - 1], level - 1)

Root == IF DOMAIN leaves = {} THEN DefaultNodes[Depth] ELSE CreateTree[Depth][0]

\* The index on each level of the node above a slot, halved from level to level.
Above(slot) ==
  LET index[level \in 0 .. Depth] == IF level = 0 THEN slot ELSE index[level - 1] \div 2
  IN  index

\* Where the hash of a level is among the hashes of a proof.
Position(bits, level) == Cardinality({b \in bits : b <= level})

\* mutant: the index is not halved from level to level
CreateFlatMerkleProof(slot) ==
  LET bits == {level \in 0 .. (Depth - 1) : Sibling(slot) \in DOMAIN CreateTree[level]}
  IN  [bits   |-> bits,
       hashes |-> [i \in 1 .. Cardinality(bits) |->
                     LET level == CHOOSE l \in bits : Position(bits, l) = i
                     IN  CreateTree[level][Sibling(slot)]]]

\* The siblings of the path that are stored, from the leaf up, and the levels
\* they are at. A tree without leaves has no levels to take them from.
CreateMerkleProof(slot) ==
  LET sibling(level) == Sibling(Above(slot)[level])
      bits == {level \in 0 .. (Depth - 1) : sibling(level) \in DOMAIN CreateTree[level]}
  IN  [bits   |-> bits,
       hashes |-> [i \in 1 .. Cardinality(bits) |->
                     LET level == CHOOSE l \in bits : Position(bits, l) = i
                     IN  CreateTree[level][sibling(level)]]]

\* The check of the Ethereum contract, which is external: from the leaf up, the
\* next hash of the proof where the bit is set, the default elsewhere.
Verifies(leaf, slot, proof) ==
  LET sibling(level) == IF level \in proof.bits
                        THEN proof.hashes[Position(proof.bits, level)] ELSE DefaultNodes[level]
      path[level \in 0 .. Depth] ==
        IF level = 0 THEN leaf
        ELSE IF Above(slot)[level - 1] % 2 = 0
             THEN Sha3(path[level - 1], sibling(level - 1))
             ELSE Sha3(sibling(level - 1), path[level - 1])
  IN  path[Depth] = Root

Init == leaves = <<>>

\* PlasmaCashBlock puts the tx of one more slot into the tree.
AddLeaf(slot, hash) ==
  /\ slot \notin DOMAIN leaves
  /\ leaves' = [s \in DOMAIN leaves \cup {slot} |-> IF s = slot THEN hash ELSE leaves[s]]

Next == \E slot \in Slots, hash \in Hashes : AddLeaf(slot, <<"leaf", hash>>)

Spec == Init /\ [][Next]_leaves

-----------------------------------------------------------------------------
(* Properties *)

\* What the root stands for: the tree with every leaf, stored or empty.
DenseTree[level \in 0 .. Depth] ==
  [index \in 0 .. (Width[Depth - level] - 1) |->
     IF level = 0 THEN IF index \in DOMAIN leaves THEN leaves[index] ELSE Empty
     ELSE Sha3(DenseTree[level - 1][2 * index], DenseTree[level - 1][2 * index + 1])]

\* The sparse construction computes the root of the dense tree.
RootIsDense == Root = DenseTree[Depth][0]

\* In a block with a tx, the proof of every slot proves what the block holds
\* there, a tx or nothing, and proves nothing else: inclusion and exclusion
\* proofs of a coin never both pass.
ProofsAreExact ==
  DOMAIN leaves # {} =>
    \A slot \in Slots : \A leaf \in {Empty} \cup {<<"leaf", h>> : h \in Hashes} :
       Verifies(leaf, slot, CreateMerkleProof(slot))
         <=> leaf = IF slot \in DOMAIN leaves THEN leaves[slot] ELSE Empty
=============================================================================
