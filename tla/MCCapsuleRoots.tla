--------------------------- MODULE MCCapsuleRoots ---------------------------
(***************************************************************************)
(* Bounded inputs for CapsuleRoots: left grows, then right up to the       *)
(* length of left, so every pair of sequences within the bounds is reached *)
(* once.                                                                   *)
(***************************************************************************)
EXTENDS CapsuleRoots

CONSTANTS Hashes,     \* the leaf hashes, positive naturals
          MaxLeft,    \* bound on the length of left when right is empty
          MaxPair     \* bound on the length of left when it is not

ASSUME HashesAssumption == Hashes \subseteq Nat \ {0}

VARIABLES left, right

leafVars == <<left, right>>

LeavesInit == left = <<>> /\ right = <<>>

AddLeft(h) ==
  /\ right = <<>> /\ Len(left) < MaxLeft
  /\ left' = Append(left, h)
  /\ UNCHANGED right

AddRight(h) ==
  /\ Len(left) <= MaxPair /\ Len(right) < Len(left)
  /\ right' = Append(right, h)
  /\ UNCHANGED left

LeavesNext == \E h \in Hashes : AddLeft(h) \/ AddRight(h)

LeavesSpec == LeavesInit /\ [][LeavesNext]_leafVars

-----------------------------------------------------------------------------

NoDuplicates(s) == \A i, j \in DOMAIN s : s[i] = s[j] => i = j

\* hash.ts: "order-independent".  The sorted commitment is one of the bag of
\* leaves: source records that come back in another order keep their
\* sourceRoot.  It binds the set of leaves, and the leaves themselves when they
\* are distinct, but not how often the last one occurs: <<1, 2, 3>> and
\* <<1, 2, 3, 3>> share a root.
SortedRootBindsLeaves ==
  /\ ToBag(left) = ToBag(right) => MerkleRoot(left) = MerkleRoot(right)
  /\ MerkleRoot(left) = MerkleRoot(right)
       => /\ ToSet(left) = ToSet(right)
          /\ NoDuplicates(left) /\ NoDuplicates(right)
               => Len(left) = Len(right)

\* The zk commitment is one of the sequence: it fixes every leaf, the number
\* of leaves and their order.  The sparse tree has the root of the zero-padded
\* full tree (the comment at zk-hash.ts 162-169, and what the circuits' Merkle
\* gadget computes).
ZkRootBindsSequence ==
  /\ (ZkRoot(left) = ZkRoot(right) /\ ZkRoot(left) # Overflow) => left = right
  /\ (right = <<>> /\ Len(left) <= Capacity[ZkDepth]) => ZkRoot(left) = DenseZkRoot(left)

\* Equal roots mean equal leaves: what a capsule's five roots are compared for.
RootsBindLeaves == SortedRootBindsLeaves /\ ZkRootBindsSequence

\* Every leaf has a proof, it verifies, no other leaf verifies with its path,
\* and the proof's root is the root of the sequence.
MerkleProofSoundAndComplete ==
  right = <<>> => \A h \in Hashes :
    LET p == MerkleProof(left, h)
    IN  IF h \in ToSet(left)
        THEN /\ VerifyMerkleProof(p)
             /\ p.root = MerkleRoot(left)
             /\ \A g \in Hashes \ {h} : ~ VerifyMerkleProof([p EXCEPT !.leaf = g])
        ELSE p = Null

\* The inclusion proof of every slot, an empty one included, verifies, and
\* with another leaf it does not.
ZkProofSoundAndComplete ==
  right = <<>> /\ Len(left) <= Capacity[ZkDepth] =>
    \A index \in 0..(Capacity[ZkDepth] - 1) :
      LET p == FixedTreeProof(left, index)
      IN  /\ VerifyZkMerkleProof(p)
          /\ p.root = ZkRoot(left)
          /\ \A g \in (Hashes \cup {0}) \ {p.leaf} :
               ~ VerifyZkMerkleProof([p EXCEPT !.leaf = g])

\* Inclusion proofs of both trees are sound and complete.
InclusionProofs == MerkleProofSoundAndComplete /\ ZkProofSoundAndComplete
=============================================================================
