\* Every sequence of up to 7 leaves (an odd node at every level, an empty zk
\* slot), and every pair of sequences of up to 4.
CONSTANTS
  ZkDepth = 3
  Hashes = {1, 2, 3}
  MaxLeft = 7
  MaxPair = 4
SPECIFICATION LeavesSpec
INVARIANTS
  RootsBindLeaves
  InclusionProofs
CHECK_DEADLOCK FALSE
