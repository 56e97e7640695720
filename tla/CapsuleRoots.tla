---------------------------- MODULE CapsuleRoots ----------------------------
(***************************************************************************)
(* The two Merkle commitments a context capsule carries:                   *)
(*                                                                         *)
(*  - merkleRoot, merkleProof and verifyMerkleProof of                     *)
(*    packages/source-records/src/hash.ts: leaves are sorted, the last     *)
(*    node of an odd level is paired with itself;                          *)
(*  - buildFixedTree, fixedTreeProof and verifyZkMerkleProof of            *)
(*    packages/source-records/src/zk-hash.ts: a tree of a fixed depth over *)
(*    the leaves in insertion order, empty slots hold the zero leaf.       *)
(*                                                                         *)
(* A hash function is a constructor: H(x, y) is the pair <<x, y>>, a leaf  *)
(* hash h is <<h>>, so two hashes are equal only when their inputs are     *)
(* (collision resistance).  Leaf hashes are naturals, whose order stands   *)
(* for the order of the hexadecimal strings; 0 is the zero leaf.           *)
(* Positions are 0-based as in the code: s[i] there is At(s, i) here.      *)
(***************************************************************************)
EXTENDS Integers, Sequences, SequencesExt

CONSTANT ZkDepth      \* depth of the zk tree: ZK_MERKLE_DEPTH

ASSUME ZkDepthAssumption == ZkDepth \in Nat

At(s, i) == s[i + 1]

LeafHash(h) == <<h>>
H(l, r)     == <<l, r>>
EmptyRoot   == <<>>             \* sha256 of the empty string
Null        == "null"           \* what merkleProof returns for no leaf
Overflow    == <<"overflow", "", "">>  \* buildFixedTree throws

-----------------------------------------------------------------------------
(* hash.ts: sorted leaves, last node duplicated.                           *)

\* The position of s[i] once s is sorted; equal hashes keep their order.
Rank(s, i) == Cardinality({j \in DOMAIN s : s[j] < s[i] \/ (s[j] = s[i] /\ j <= i)})

\* [...leafHashes].sort(); SubSeq only makes TLC sort once.
Sorted(s) ==
  SubSeq([k \in DOMAIN s |-> s[CHOOSE i \in DOMAIN s : Rank(s, i) = k]], 1, Len(s))

SortedLeaves(hashes) ==
  LET sorted == Sorted(hashes)
  IN  [i \in DOMAIN sorted |-> LeafHash(sorted[i])]

\* The right child of position i - 1: an odd last node is its own sibling.
RightOf(level, i) == IF i < Len(level) THEN At(level, i) ELSE At(level, i - 1)

NextLevel(level) ==
  [i \in 1..((Len(level) + 1) \div 2) |->
     H(At(level, 2 * (i - 1)), RightOf(level, 2 * (i - 1) + 1))]

\* The levels from the leaves up; n levels always suffice for n leaves.
Levels(hashes) ==
  LET up[k \in 0..Len(hashes)] ==
        IF k = 0 THEN SortedLeaves(hashes)
        ELSE IF Len(up[k - 1]) > 1 THEN NextLevel(up[k - 1]) ELSE up[k - 1]
  IN  up

Height(levels) ==
  CHOOSE k \in DOMAIN levels :
    /\ Len(levels[k]) = 1
    /\ \A j \in DOMAIN levels : j < k => Len(levels[j]) > 1

MerkleRoot(hashes) ==
  IF hashes = <<>> THEN EmptyRoot
  ELSE LET levels == Levels(hashes) IN levels[Height(levels)][1]

\* The sibling of position index in a level (merkleProof's loop body).
MutSiblingOf(level, index) ==
  IF index + 1 < Len(level) THEN At(level, index + 1) ELSE At(level, index)

SiblingOf(level, index) ==
  LET pair == IF index % 2 = 1 THEN index - 1 ELSE index + 1
  IN  IF pair < Len(level) THEN At(level, pair) ELSE At(level, index)

\* index = Math.floor(index / 2), k times.
Halves(index, n) ==
  LET at[k \in 0..n] == IF k = 0 THEN index ELSE at[k - 1] \div 2 IN at

MerkleProof(hashes, leaf) ==
  IF ~ Contains(hashes, leaf) THEN Null
  ELSE LET levels == Levels(hashes)
           first  == SelectInSeq(Sorted(hashes), LAMBDA h : h = leaf) - 1
           index  == Halves(first, Height(levels))
       IN  [leaf      |-> leaf,
            leafIndex |-> first,
            siblings  |-> [k \in 1..Height(levels) |-> SiblingOf(levels[k - 1], index[k - 1])],
            root      |-> MerkleRoot(hashes)]

VerifyMerkleProof(proof) ==
  LET index == Halves(proof.leafIndex, Len(proof.siblings))
      climb[k \in 0..Len(proof.siblings)] ==
        IF k = 0 THEN LeafHash(proof.leaf)
        ELSE IF index[k - 1] % 2 = 1
             THEN H(proof.siblings[k], climb[k - 1])
             ELSE H(climb[k - 1], proof.siblings[k])
  IN  climb[Len(proof.siblings)] = proof.root

-----------------------------------------------------------------------------
(* zk-hash.ts: fixed depth, insertion order, zero-padded.                  *)

EmptySubtree[k \in 0..ZkDepth] ==
  IF k = 0 THEN LeafHash(0) ELSE H(EmptySubtree[k - 1], EmptySubtree[k - 1])

MutZkNextLevel(level, k) == NextLevel(level)

\* One level of the populated prefix; a missing right child is empty[k].
ZkNextLevel(level, k) ==
  [i \in 1..((Len(level) + 1) \div 2) |->
     H(At(level, 2 * (i - 1)),
       IF 2 * i <= Len(level) THEN level[2 * i] ELSE EmptySubtree[k])]

ZkLeaves(leaves) ==
  IF leaves = <<>> THEN <<LeafHash(0)>>
  ELSE [i \in DOMAIN leaves |-> LeafHash(leaves[i])]

\* 2^k, the leaves under a node of level k; a tree holds Capacity[ZkDepth].
Capacity[k \in 0..ZkDepth] == IF k = 0 THEN 1 ELSE 2 * Capacity[k - 1]

\* buildFixedTree: the levels of the sparse tree, level 0 first.
FixedTree(leaves) ==
  LET up[k \in 0..ZkDepth] ==
        IF k = 0 THEN ZkLeaves(leaves) ELSE ZkNextLevel(up[k - 1], k - 1)
  IN  up

ZkRoot(leaves) ==
  IF Len(leaves) > Capacity[ZkDepth] THEN Overflow ELSE FixedTree(leaves)[ZkDepth][1]

ZkSibling(level, idx, k) ==
  LET sib == IF idx % 2 = 1 THEN idx - 1 ELSE idx + 1
  IN  IF sib < Len(level) THEN At(level, sib) ELSE EmptySubtree[k]

\* fixedTreeProof for the 0-based position index.
FixedTreeProof(leaves, index) ==
  LET tree == FixedTree(leaves)
      idx  == Halves(index, ZkDepth)
  IN  [leaf     |-> IF index < Len(leaves) THEN At(leaves, index) ELSE 0,
       siblings |-> [k \in 1..ZkDepth |-> ZkSibling(tree[k - 1], idx[k - 1], k - 1)],
       bits     |-> [k \in 1..ZkDepth |-> idx[k - 1] % 2],
       root     |-> tree[ZkDepth][1]]

VerifyZkMerkleProof(proof) ==
  LET climb[k \in 0..Len(proof.siblings)] ==
        IF k = 0 THEN LeafHash(proof.leaf)
        ELSE IF proof.bits[k] = 0
             THEN H(climb[k - 1], proof.siblings[k])
             ELSE H(proof.siblings[k], climb[k - 1])
  IN  climb[Len(proof.siblings)] = proof.root

\* Reference: the root of the full tree over the Capacity[ZkDepth] zero-padded leaves.
DenseZkRoot(leaves) ==
  LET full == [i \in 1..Capacity[ZkDepth] |->
                 LeafHash(IF i <= Len(leaves) THEN leaves[i] ELSE 0)]
      up[k \in 0..ZkDepth] ==
        IF k = 0 THEN full
        ELSE [i \in 1..Capacity[ZkDepth - k] |->
                H(up[k - 1][2 * i - 1], up[k - 1][2 * i])]
  IN  up[ZkDepth][1]
=============================================================================
