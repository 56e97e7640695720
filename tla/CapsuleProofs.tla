--------------------------- MODULE CapsuleProofs ---------------------------
(***************************************************************************)
(* Theorems about the roots of a capsule (CapsuleRoots), the properties of *)
(* MCCapsuleRoots among them, for every depth and every sequence of        *)
(* leaves, and what the proofs about both stores need of them.  They rest  *)
(* on induction over the naturals, stated for a set of counterexamples, so *)
(* that it can be applied to what a recursive function computes.           *)
(***************************************************************************)
EXTENDS CapsulePlan, MCCapsuleRoots, FiniteSetTheorems, WellFoundedInduction,
        SequenceTheorems, TLAPS

-----------------------------------------------------------------------------
(* Induction over the naturals.                                            *)

\* Every non-empty set of naturals has a least element.
LEMMA Minimum ==
  ASSUME NEW T \in SUBSET Nat, T # {}
  PROVE  \E m \in T : \A n \in T : m <= n
<1> DEFINE Below(m) == {n \in T : n <= m}
           R == StrictSubsetOrdering(Nat)
           W == {Below(m) : m \in T}
<1>1. \A m \in T : m \in Nat
  OBVIOUS
<1>2. ASSUME NEW m \in T PROVE Below(m) \in FiniteSubsetsOf(Nat)
  <2>1. m \in Nat /\ IsFiniteSet(0..m)
    BY <1>1, FS_Interval
  <2>2. ASSUME NEW n \in Below(m) PROVE n \in 0..m
    <3>1. n \in Nat /\ n <= m
      BY <1>1
    <3> QED
      BY <2>1, <3>1
  <2>3. IsFiniteSet(Below(m))
    BY <2>1, <2>2, FS_Subset
  <2> QED
    BY <2>3 DEF FiniteSubsetsOf
<1>3. W \subseteq FiniteSubsetsOf(Nat) /\ W # {}
  BY <1>2
<1>4. IsWellFoundedOn(R, FiniteSubsetsOf(Nat))
  BY FS_StrictSubsetOrderingWellFounded
<1>5. \E B \in W : \A C \in W : ~ (<<C, B>> \in R)
  <2> HIDE DEF W, R
  <2> QED
    BY <1>3, <1>4, WFMin
<1>6. PICK m \in T : \A n \in T : ~ (<<Below(n), Below(m)>> \in R)
  BY <1>5
<1>7. ASSUME NEW n \in T, n < m PROVE FALSE
  <2>1. m \in Nat /\ n \in Nat
    BY <1>1
  <2>2. ASSUME NEW k \in Below(n) PROVE k \in Below(m)
    <3>1. k \in T /\ k \in Nat /\ k <= n
      BY <1>1
    <3> QED
      BY <1>7, <2>1, <3>1
  <2>3. m \in Below(m)
    BY <2>1
  <2>4. m \notin Below(n)
    BY <1>7, <2>1
  <2>5. Below(n) \subseteq Below(m) /\ m \in Below(m) /\ m \notin Below(n)
    BY <2>2, <2>3, <2>4
  <2>6. Below(n) # Below(m) /\ Below(n) \in SUBSET Nat /\ Below(m) \in SUBSET Nat
    BY <2>5
  <2>7. <<Below(n), Below(m)>> \in R
    BY <2>5, <2>6 DEF StrictSubsetOrdering
  <2> QED
    BY <1>6, <2>7
<1> QED
  BY <1>1, <1>7

\* Induction: T holds the naturals at which the claim fails.
LEMMA NoCounterexample ==
  ASSUME NEW T \in SUBSET Nat, 0 \notin T, \A n \in Nat : n + 1 \in T => n \in T
  PROVE  T = {}
<1> SUFFICES ASSUME T # {} PROVE FALSE
  OBVIOUS
<1>1. PICK m \in T : \A n \in T : m <= n
  BY Minimum
<1>2. m - 1 \in Nat /\ m = (m - 1) + 1
  BY <1>1
<1> QED
  BY <1>1, <1>2

-----------------------------------------------------------------------------
(* What the recursive functions compute: each exists, one level at a time, *)
(* and so satisfies its equation.                                          *)

\* The roots of the empty subtrees.
LEMMA EmptySubtreeRecursion ==
  /\ EmptySubtree[0] = LeafHash(0)
  /\ \A k \in 1..ZkDepth : EmptySubtree[k] = H(EmptySubtree[k - 1], EmptySubtree[k - 1])
<1> DEFINE Base == LeafHash(0)
           Step(x, k) == H(x, x)
           Is(f, n) == f = [k \in 0..n |-> IF k = 0 THEN Base ELSE Step(f[k - 1], k)]
           T == {n \in Nat : ~ \E f : Is(f, n)}
<1> HIDE DEF Base, Step
<1>1. ASSUME NEW f, NEW n \in Nat, Is(f, n), NEW k \in 0..n
      PROVE  f[k] = IF k = 0 THEN Base ELSE Step(f[k - 1], k)
  <2>1. f[k] = [j \in 0..n |-> IF j = 0 THEN Base ELSE Step(f[j - 1], j)][k]
    BY <1>1, Zenon
  <2> QED
    BY <2>1, Zenon
<1>2. 0 \notin T
  <2>1. Is([k \in 0..0 |-> Base], 0)
    OBVIOUS
  <2> QED
    BY <2>1
<1>3. ASSUME NEW n \in Nat, n \notin T PROVE n + 1 \notin T
  <2>1. PICK f : Is(f, n)
    BY <1>3
  <2> DEFINE g == [k \in 0..(n + 1) |-> IF k <= n THEN f[k] ELSE Step(f[n], k)]
  <2>2. ASSUME NEW k \in 0..(n + 1)
        PROVE  g[k] = IF k = 0 THEN Base ELSE Step(g[k - 1], k)
    <3>1. k # 0 => g[k - 1] = f[k - 1]
      OBVIOUS
    <3>2. CASE k <= n
      <4>1. f[k] = IF k = 0 THEN Base ELSE Step(f[k - 1], k)
        <5> k \in 0..n
          BY <3>2
        <5> HIDE DEF Is
        <5> QED
          BY <1>1, <2>1
      <4>2. g[k] = f[k]
        BY <3>2
      <4> HIDE DEF g
      <4> QED
        BY <3>1, <4>1, <4>2
    <3>3. CASE k = n + 1
      <4>1. g[k] = Step(f[n], k) /\ k # 0 /\ k - 1 = n
        BY <3>3
      <4> HIDE DEF g
      <4> QED
        BY <3>1, <4>1
    <3> QED
      BY <3>2, <3>3
  <2>3. Is(g, n + 1)
    <3> HIDE DEF g
    <3>1. g = [k \in 0..(n + 1) |-> g[k]]
      BY DEF g
    <3> QED
      BY <2>2, <3>1
  <2> QED
    BY <2>3
<1>4. T = {}
  <2> HIDE DEF T
  <2> T \in SUBSET Nat
    BY DEF T
  <2> QED
    BY <1>2, <1>3, NoCounterexample
<1>5. ZkDepth \in Nat /\ \E f : Is(f, ZkDepth)
  BY <1>4, ZkDepthAssumption
<1>6. EmptySubtree = CHOOSE f : Is(f, ZkDepth)
  BY DEF EmptySubtree, Base, Step
<1>7. Is(EmptySubtree, ZkDepth)
  BY <1>5, <1>6
<1>8. \A k \in 0..ZkDepth : EmptySubtree[k] = IF k = 0 THEN Base ELSE Step(EmptySubtree[k - 1], k)
  <2> HIDE DEF Is
  <2> QED
    BY <1>1, <1>5, <1>7
<1> QED
  BY <1>5, <1>8 DEF Base, Step

\* The capacities of the levels.
LEMMA CapacityRecursion ==
  Capacity[0] = 1 /\ \A k \in 1..ZkDepth : Capacity[k] = 2 * Capacity[k - 1]
<1> DEFINE Base == 1
           Step(x, k) == 2 * x
           Is(f, n) == f = [k \in 0..n |-> IF k = 0 THEN Base ELSE Step(f[k - 1], k)]
           T == {n \in Nat : ~ \E f : Is(f, n)}
<1> HIDE DEF Base, Step
<1>1. ASSUME NEW f, NEW n \in Nat, Is(f, n), NEW k \in 0..n
      PROVE  f[k] = IF k = 0 THEN Base ELSE Step(f[k - 1], k)
  <2>1. f[k] = [j \in 0..n |-> IF j = 0 THEN Base ELSE Step(f[j - 1], j)][k]
    BY <1>1, Zenon
  <2> QED
    BY <2>1, Zenon
<1>2. 0 \notin T
  <2>1. Is([k \in 0..0 |-> Base], 0)
    OBVIOUS
  <2> QED
    BY <2>1
<1>3. ASSUME NEW n \in Nat, n \notin T PROVE n + 1 \notin T
  <2>1. PICK f : Is(f, n)
    BY <1>3
  <2> DEFINE g == [k \in 0..(n + 1) |-> IF k <= n THEN f[k] ELSE Step(f[n], k)]
  <2>2. ASSUME NEW k \in 0..(n + 1)
        PROVE  g[k] = IF k = 0 THEN Base ELSE Step(g[k - 1], k)
    <3>1. k # 0 => g[k - 1] = f[k - 1]
      OBVIOUS
    <3>2. CASE k <= n
      <4>1. f[k] = IF k = 0 THEN Base ELSE Step(f[k - 1], k)
        <5> k \in 0..n
          BY <3>2
        <5> HIDE DEF Is
        <5> QED
          BY <1>1, <2>1
      <4>2. g[k] = f[k]
        BY <3>2
      <4> HIDE DEF g
      <4> QED
        BY <3>1, <4>1, <4>2
    <3>3. CASE k = n + 1
      <4>1. g[k] = Step(f[n], k) /\ k # 0 /\ k - 1 = n
        BY <3>3
      <4> HIDE DEF g
      <4> QED
        BY <3>1, <4>1
    <3> QED
      BY <3>2, <3>3
  <2>3. Is(g, n + 1)
    <3> HIDE DEF g
    <3>1. g = [k \in 0..(n + 1) |-> g[k]]
      BY DEF g
    <3> QED
      BY <2>2, <3>1
  <2> QED
    BY <2>3
<1>4. T = {}
  <2> HIDE DEF T
  <2> T \in SUBSET Nat
    BY DEF T
  <2> QED
    BY <1>2, <1>3, NoCounterexample
<1>5. ZkDepth \in Nat /\ \E f : Is(f, ZkDepth)
  BY <1>4, ZkDepthAssumption
<1>6. Capacity = CHOOSE f : Is(f, ZkDepth)
  BY DEF Capacity, Base, Step
<1>7. Is(Capacity, ZkDepth)
  BY <1>5, <1>6
<1>8. \A k \in 0..ZkDepth : Capacity[k] = IF k = 0 THEN Base ELSE Step(Capacity[k - 1], k)
  <2> HIDE DEF Is
  <2> QED
    BY <1>1, <1>5, <1>7
<1> QED
  BY <1>5, <1>8 DEF Base, Step

-----------------------------------------------------------------------------
\* The levels of the sparse tree.
LEMMA FixedTreeRecursion ==
  ASSUME NEW leaves
  PROVE  /\ FixedTree(leaves)[0] = ZkLeaves(leaves)
         /\ \A k \in 1..ZkDepth :
              FixedTree(leaves)[k] = ZkNextLevel(FixedTree(leaves)[k - 1], k - 1)
<1> DEFINE Base == ZkLeaves(leaves)
           Step(x, k) == ZkNextLevel(x, k - 1)
           Is(f, n) == f = [k \in 0..n |-> IF k = 0 THEN Base ELSE Step(f[k - 1], k)]
           T == {n \in Nat : ~ \E f : Is(f, n)}
<1> HIDE DEF Base, Step
<1>1. ASSUME NEW f, NEW n \in Nat, Is(f, n), NEW k \in 0..n
      PROVE  f[k] = IF k = 0 THEN Base ELSE Step(f[k - 1], k)
  <2>1. f[k] = [j \in 0..n |-> IF j = 0 THEN Base ELSE Step(f[j - 1], j)][k]
    BY <1>1, Zenon
  <2> QED
    BY <2>1, Zenon
<1>2. 0 \notin T
  <2>1. Is([k \in 0..0 |-> Base], 0)
    OBVIOUS
  <2> QED
    BY <2>1
<1>3. ASSUME NEW n \in Nat, n \notin T PROVE n + 1 \notin T
  <2>1. PICK f : Is(f, n)
    BY <1>3
  <2> DEFINE g == [k \in 0..(n + 1) |-> IF k <= n THEN f[k] ELSE Step(f[n], k)]
  <2>2. ASSUME NEW k \in 0..(n + 1)
        PROVE  g[k] = IF k = 0 THEN Base ELSE Step(g[k - 1], k)
    <3>1. k # 0 => g[k - 1] = f[k - 1]
      OBVIOUS
    <3>2. CASE k <= n
      <4>1. f[k] = IF k = 0 THEN Base ELSE Step(f[k - 1], k)
        <5> k \in 0..n
          BY <3>2
        <5> HIDE DEF Is
        <5> QED
          BY <1>1, <2>1
      <4>2. g[k] = f[k]
        BY <3>2
      <4> HIDE DEF g
      <4> QED
        BY <3>1, <4>1, <4>2
    <3>3. CASE k = n + 1
      <4>1. g[k] = Step(f[n], k) /\ k # 0 /\ k - 1 = n
        BY <3>3
      <4> HIDE DEF g
      <4> QED
        BY <3>1, <4>1
    <3> QED
      BY <3>2, <3>3
  <2>3. Is(g, n + 1)
    <3> HIDE DEF g
    <3>1. g = [k \in 0..(n + 1) |-> g[k]]
      BY DEF g
    <3> QED
      BY <2>2, <3>1
  <2> QED
    BY <2>3
<1>4. T = {}
  <2> HIDE DEF T
  <2> T \in SUBSET Nat
    BY DEF T
  <2> QED
    BY <1>2, <1>3, NoCounterexample
<1>5. ZkDepth \in Nat /\ \E f : Is(f, ZkDepth)
  BY <1>4, ZkDepthAssumption
<1>6. FixedTree(leaves) = CHOOSE f : Is(f, ZkDepth)
  BY DEF FixedTree, Base, Step
<1>7. Is(FixedTree(leaves), ZkDepth)
  BY <1>5, <1>6
<1>8. \A k \in 0..ZkDepth :
        FixedTree(leaves)[k] = IF k = 0 THEN Base ELSE Step(FixedTree(leaves)[k - 1], k)
  <2> HIDE DEF Is
  <2> QED
    BY <1>1, <1>5, <1>7
<1> QED
  BY <1>5, <1>8 DEF Base, Step

\* The hashes a verification climbs through.
LEMMA ClimbRecursion ==
  ASSUME NEW proof, Len(proof.siblings) \in Nat
  PROVE  \E climb :
           /\ climb[0] = LeafHash(proof.leaf)
           /\ \A k \in 1..Len(proof.siblings) :
                climb[k] = IF proof.bits[k] = 0
                           THEN H(climb[k - 1], proof.siblings[k])
                           ELSE H(proof.siblings[k], climb[k - 1])
           /\ VerifyZkMerkleProof(proof) <=> climb[Len(proof.siblings)] = proof.root
<1> DEFINE Base == LeafHash(proof.leaf)
           Step(x, k) == IF proof.bits[k] = 0
                         THEN H(x, proof.siblings[k]) ELSE H(proof.siblings[k], x)
           Is(f, n) == f = [k \in 0..n |-> IF k = 0 THEN Base ELSE Step(f[k - 1], k)]
           T == {n \in Nat : ~ \E f : Is(f, n)}
           depth == Len(proof.siblings)
           climb == CHOOSE f : Is(f, depth)
<1> HIDE DEF Base, Step
<1>1. ASSUME NEW f, NEW n \in Nat, Is(f, n), NEW k \in 0..n
      PROVE  f[k] = IF k = 0 THEN Base ELSE Step(f[k - 1], k)
  <2>1. f[k] = [j \in 0..n |-> IF j = 0 THEN Base ELSE Step(f[j - 1], j)][k]
    BY <1>1, Zenon
  <2> QED
    BY <2>1, Zenon
<1>2. 0 \notin T
  <2>1. Is([k \in 0..0 |-> Base], 0)
    OBVIOUS
  <2> QED
    BY <2>1
<1>3. ASSUME NEW n \in Nat, n \notin T PROVE n + 1 \notin T
  <2>1. PICK f : Is(f, n)
    BY <1>3
  <2> DEFINE g == [k \in 0..(n + 1) |-> IF k <= n THEN f[k] ELSE Step(f[n], k)]
  <2>2. ASSUME NEW k \in 0..(n + 1)
        PROVE  g[k] = IF k = 0 THEN Base ELSE Step(g[k - 1], k)
    <3>1. k # 0 => g[k - 1] = f[k - 1]
      OBVIOUS
    <3>2. CASE k <= n
      <4>1. f[k] = IF k = 0 THEN Base ELSE Step(f[k - 1], k)
        <5> k \in 0..n
          BY <3>2
        <5> HIDE DEF Is
        <5> QED
          BY <1>1, <2>1
      <4>2. g[k] = f[k]
        BY <3>2
      <4> HIDE DEF g
      <4> QED
        BY <3>1, <4>1, <4>2
    <3>3. CASE k = n + 1
      <4>1. g[k] = Step(f[n], k) /\ k # 0 /\ k - 1 = n
        BY <3>3
      <4> HIDE DEF g
      <4> QED
        BY <3>1, <4>1
    <3> QED
      BY <3>2, <3>3
  <2>3. Is(g, n + 1)
    <3> HIDE DEF g
    <3>1. g = [k \in 0..(n + 1) |-> g[k]]
      BY DEF g
    <3> QED
      BY <2>2, <3>1
  <2> QED
    BY <2>3
<1>4. T = {}
  <2> HIDE DEF T
  <2> T \in SUBSET Nat
    BY DEF T
  <2> QED
    BY <1>2, <1>3, NoCounterexample
<1>5. \E f : Is(f, depth)
  BY <1>4
<1>6. Is(climb, depth)
  BY <1>5
<1>7. \A k \in 0..depth : climb[k] = IF k = 0 THEN Base ELSE Step(climb[k - 1], k)
  <2> HIDE DEF Is, climb
  <2> QED
    BY <1>1, <1>6
<1>8. VerifyZkMerkleProof(proof) <=> climb[depth] = proof.root
  BY DEF VerifyZkMerkleProof, Base, Step
<1> QED
  <2> HIDE DEF climb, Is
  <2> QED
    BY <1>7, <1>8 DEF Base, Step

-----------------------------------------------------------------------------
(* The nodes of the zero-padded tree, of which a level of the sparse tree  *)
(* holds the prefix that is not empty.                                     *)

Node(leaves, k, i) ==
  IF i <= Len(FixedTree(leaves)[k]) THEN FixedTree(leaves)[k][i] ELSE EmptySubtree[k]

LEMMA LenOfFunction ==
  ASSUME NEW n \in Nat, NEW f, f = [i \in 1..n |-> f[i]]
  PROVE  Len(f) = n
<1> DEFINE S == {f[i] : i \in 1..n}
<1>1. f \in [1..n -> S]
  OBVIOUS
<1>2. f \in Seq(S) /\ DOMAIN f = 1..n
  BY <1>1, IsASeq
<1> HIDE DEF S
<1> QED
  BY <1>2, LenProperties

\* A parent level is the pairs of its children.
LEMMA NextLevelLength ==
  ASSUME NEW level, NEW k, Len(level) \in Nat \ {0}
  PROVE  Len(ZkNextLevel(level, k)) = (Len(level) + 1) \div 2
<1> DEFINE m == (Len(level) + 1) \div 2
           f == ZkNextLevel(level, k)
<1>1. m \in Nat
  OBVIOUS
<1>2. f = [i \in 1..m |-> f[i]]
  BY DEF ZkNextLevel
<1> HIDE DEF f, m
<1> QED
  BY <1>1, <1>2, LenOfFunction DEF f, m

\* No level of the sparse tree is empty.
LEMMA LevelLength ==
  ASSUME NEW leaves \in Seq(Nat)
  PROVE  /\ \A k \in 0..ZkDepth : Len(FixedTree(leaves)[k]) \in Nat \ {0}
         /\ \A k \in 1..ZkDepth :
              Len(FixedTree(leaves)[k]) = (Len(FixedTree(leaves)[k - 1]) + 1) \div 2
<1> DEFINE L == FixedTree(leaves)
           T == {n \in Nat : n <= ZkDepth /\ Len(L[n]) \notin Nat \ {0}}
<1> ZkDepth \in Nat
  BY ZkDepthAssumption
<1>1. Len(L[0]) \in Nat \ {0}
  <2>1. CASE leaves = <<>>
    <3>1. L[0] = <<LeafHash(0)>>
      BY <2>1, FixedTreeRecursion DEF ZkLeaves
    <3>2. Len(<<LeafHash(0)>>) = 1
      OBVIOUS
    <3> HIDE DEF L
    <3> QED
      BY <3>1, <3>2
  <2>2. CASE leaves # <<>>
    <3>1. Len(leaves) \in Nat \ {0} /\ DOMAIN leaves = 1..Len(leaves)
      BY <2>2, EmptySeq, LenProperties
    <3>2. L[0] = [i \in 1..Len(leaves) |-> LeafHash(leaves[i])]
      BY <2>2, <3>1, FixedTreeRecursion DEF ZkLeaves
    <3>3. L[0] = [i \in 1..Len(leaves) |-> L[0][i]]
      BY <3>2
    <3> HIDE DEF L
    <3>4. Len(L[0]) = Len(leaves)
      BY <3>1, <3>3, LenOfFunction
    <3> QED
      BY <3>1, <3>4
  <2> QED
    BY <2>1, <2>2
<1>2. \A k \in 1..ZkDepth : L[k] = ZkNextLevel(L[k - 1], k - 1)
  BY FixedTreeRecursion
<1> HIDE DEF L
<1>3. ASSUME NEW k \in 1..ZkDepth, Len(L[k - 1]) \in Nat \ {0}
      PROVE  /\ Len(L[k]) = (Len(L[k - 1]) + 1) \div 2
             /\ Len(L[k]) \in Nat \ {0}
  <2> DEFINE below == L[k - 1]
             n == Len(below)
  <2>1. L[k] = ZkNextLevel(below, k - 1) /\ n \in Nat \ {0}
    BY <1>2, <1>3
  <2> HIDE DEF below
  <2>2. Len(L[k]) = (n + 1) \div 2
    BY <2>1, NextLevelLength
  <2> HIDE DEF n
  <2>3. (n + 1) \div 2 \in Nat \ {0}
    BY <2>1
  <2> QED
    BY <2>2, <2>3 DEF n, below
<1>4. T = {}
  <2>1. 0 \notin T
    BY <1>1
  <2>2. ASSUME NEW n \in Nat, n + 1 \in T PROVE n \in T
    <3>1. n + 1 \in 1..ZkDepth /\ (n + 1) - 1 = n /\ Len(L[n + 1]) \notin Nat \ {0}
      BY <2>2
    <3>2. Len(L[n]) \notin Nat \ {0}
      BY <1>3, <3>1
    <3> QED
      BY <3>1, <3>2
  <2>3. T \in SUBSET Nat
    OBVIOUS
  <2> HIDE DEF T
  <2> QED
    BY <2>1, <2>2, <2>3, NoCounterexample
<1>5. \A k \in 0..ZkDepth : Len(L[k]) \in Nat \ {0}
  BY <1>4
<1>6. ASSUME NEW k \in 1..ZkDepth PROVE Len(L[k]) = (Len(L[k - 1]) + 1) \div 2
  <2>1. k - 1 \in 0..ZkDepth
    OBVIOUS
  <2> QED
    BY <1>3, <1>5, <2>1
<1> QED
  BY <1>5, <1>6 DEF L

\* The leaves: those of the sequence, then zero leaves.
LEMMA LeafNodes ==
  ASSUME NEW leaves \in Seq(Nat), NEW i \in Nat \ {0}
  PROVE  Node(leaves, 0, i) = LeafHash(IF i <= Len(leaves) THEN leaves[i] ELSE 0)
<1>1. FixedTree(leaves)[0] = ZkLeaves(leaves) /\ EmptySubtree[0] = LeafHash(0)
  BY FixedTreeRecursion, EmptySubtreeRecursion
<1>2. CASE leaves = <<>>
  <2>1. ZkLeaves(leaves) = <<LeafHash(0)>> /\ Len(leaves) = 0
    BY <1>2 DEF ZkLeaves
  <2>2. Len(<<LeafHash(0)>>) = 1 /\ <<LeafHash(0)>>[1] = LeafHash(0)
    OBVIOUS
  <2> QED
    BY <1>1, <2>1, <2>2 DEF Node
<1>3. CASE leaves # <<>>
  <2> DEFINE f == ZkLeaves(leaves)
  <2>1. Len(leaves) \in Nat /\ DOMAIN leaves = 1..Len(leaves)
    BY LenProperties
  <2>2. f = [j \in 1..Len(leaves) |-> LeafHash(leaves[j])]
    BY <1>3, <2>1 DEF ZkLeaves
  <2>3. f = [j \in 1..Len(leaves) |-> f[j]]
    BY <2>2
  <2>4. i <= Len(leaves) => f[i] = LeafHash(leaves[i])
    BY <2>1, <2>2
  <2> HIDE DEF f
  <2>5. Len(f) = Len(leaves)
    BY <2>1, <2>3, LenOfFunction
  <2> QED
    BY <1>1, <2>4, <2>5 DEF Node, f
<1> QED
  BY <1>2, <1>3

\* Every node is the hash of its two children, in the empty part too.
LEMMA NodeStep ==
  ASSUME NEW leaves \in Seq(Nat), NEW k \in 1..ZkDepth, NEW i \in Nat \ {0}
  PROVE  Node(leaves, k, i)
           = H(Node(leaves, k - 1, 2 * i - 1), Node(leaves, k - 1, 2 * i))
<1> DEFINE below == FixedTree(leaves)[k - 1]
           level == FixedTree(leaves)[k]
<1> ZkDepth \in Nat /\ k - 1 \in 0..ZkDepth
  BY ZkDepthAssumption
<1>1. level = ZkNextLevel(below, k - 1) /\ EmptySubtree[k] = H(EmptySubtree[k - 1], EmptySubtree[k - 1])
  BY FixedTreeRecursion, EmptySubtreeRecursion
<1>2. Len(below) \in Nat \ {0} /\ Len(level) = (Len(below) + 1) \div 2
  BY LevelLength
<1>3. /\ Node(leaves, k, i) = IF i <= Len(level) THEN level[i] ELSE EmptySubtree[k]
      /\ \A j : Node(leaves, k - 1, j) = IF j <= Len(below) THEN below[j] ELSE EmptySubtree[k - 1]
  BY DEF Node
<1> HIDE DEF below, level
<1>4. CASE i <= Len(level)
  <2>1. i \in 1..((Len(below) + 1) \div 2) /\ 2 * i - 1 <= Len(below) /\ 2 * (i - 1) + 1 = 2 * i - 1
    BY <1>2, <1>4
  <2>2. level[i] = H(At(below, 2 * (i - 1)),
                     IF 2 * i <= Len(below) THEN below[2 * i] ELSE EmptySubtree[k - 1])
    BY <1>1, <2>1 DEF ZkNextLevel
  <2> QED
    BY <1>3, <1>4, <2>1, <2>2 DEF At
<1>5. CASE ~ (i <= Len(level))
  <2>1. ~ (2 * i - 1 <= Len(below)) /\ ~ (2 * i <= Len(below))
    BY <1>2, <1>5
  <2> QED
    BY <1>1, <1>3, <1>5, <2>1
<1> QED
  BY <1>4, <1>5

LEMMA CapacityPositive == \A k \in 0..ZkDepth : Capacity[k] \in Nat \ {0}
<1> DEFINE T == {n \in Nat : n <= ZkDepth /\ Capacity[n] \notin Nat \ {0}}
<1> ZkDepth \in Nat
  BY ZkDepthAssumption
<1>1. 0 \notin T
  BY CapacityRecursion
<1>2. ASSUME NEW n \in Nat, n + 1 \in T PROVE n \in T
  <2>1. n + 1 \in 1..ZkDepth /\ (n + 1) - 1 = n /\ Capacity[n + 1] \notin Nat \ {0}
    BY <1>2
  <2>2. Capacity[n + 1] = 2 * Capacity[n]
    BY <2>1, CapacityRecursion
  <2>3. Capacity[n] \notin Nat \ {0}
    BY <2>1, <2>2
  <2> QED
    BY <2>1, <2>3
<1>3. T = {}
  <2> T \in SUBSET Nat
    OBVIOUS
  <2> HIDE DEF T
  <2> QED
    BY <1>1, <1>2, NoCounterexample
<1> QED
  BY <1>3

\* A root that is not the overflow error is the top node.
LEMMA RootNode ==
  ASSUME NEW leaves \in Seq(Nat), ZkRoot(leaves) # Overflow
  PROVE  Len(leaves) <= Capacity[ZkDepth] /\ ZkRoot(leaves) = Node(leaves, ZkDepth, 1)
<1>1. ZkDepth \in Nat
  BY ZkDepthAssumption
<1>2. Len(leaves) \in Nat /\ Capacity[ZkDepth] \in Nat
  BY <1>1, LenProperties, CapacityPositive
<1>3. ~ (Len(leaves) > Capacity[ZkDepth])
  BY DEF ZkRoot
<1>4. ZkRoot(leaves) = FixedTree(leaves)[ZkDepth][1]
  BY <1>3 DEF ZkRoot
<1>5. Len(FixedTree(leaves)[ZkDepth]) \in Nat \ {0}
  <2> ZkDepth \in 0..ZkDepth
    BY <1>1
  <2> QED
    BY LevelLength
<1>6. Node(leaves, ZkDepth, 1) = FixedTree(leaves)[ZkDepth][1]
  BY <1>5 DEF Node
<1> QED
  BY <1>2, <1>3, <1>4, <1>6

LEMMA HashInjective == \A x, y, u, v : H(x, y) = H(u, v) => x = u /\ y = v
  BY DEF H

\* The zk root commits to the sequence: no other sequence of leaf hashes, of
\* whatever length or order, has it (buildFixedTree, zk-hash.ts).
THEOREM ZkRootBinds ==
  \A a, b \in Seq(Nat \ {0}) : ZkRoot(a) = ZkRoot(b) /\ ZkRoot(a) # Overflow => a = b
<1> SUFFICES ASSUME NEW a \in Seq(Nat \ {0}), NEW b \in Seq(Nat \ {0}),
                    ZkRoot(a) = ZkRoot(b), ZkRoot(a) # Overflow
             PROVE  a = b
  OBVIOUS
<1> DEFINE Differ(n) == \E i \in 1..Capacity[n] :
                          Node(a, ZkDepth - n, i) # Node(b, ZkDepth - n, i)
           T == {n \in Nat : n <= ZkDepth /\ Differ(n)}
<1>1. a \in Seq(Nat) /\ b \in Seq(Nat) /\ ZkDepth \in Nat
  BY SeqMonotonic, ZkDepthAssumption
<1>2. 0 \notin T
  <2>1. Node(a, ZkDepth, 1) = Node(b, ZkDepth, 1)
    BY <1>1, RootNode
  <2>2. Capacity[0] = 1 /\ ZkDepth - 0 = ZkDepth
    BY <1>1, CapacityRecursion
  <2> QED
    BY <2>1, <2>2
<1>3. ASSUME NEW n \in Nat, n + 1 \in T PROVE n \in T
  <2>1. n + 1 \in 1..ZkDepth /\ n \in 0..ZkDepth /\ Capacity[n] \in Nat \ {0}
    BY <1>1, <1>3, CapacityPositive
  <2>2. Capacity[n + 1] = 2 * Capacity[n]
    BY <2>1, CapacityRecursion
  <2> DEFINE k == ZkDepth - n
  <2>3. k \in 1..ZkDepth /\ k - 1 = ZkDepth - (n + 1)
    BY <1>1, <2>1
  <2>4. PICK i \in 1..Capacity[n + 1] : Node(a, k - 1, i) # Node(b, k - 1, i)
    BY <1>3, <2>3
  <2>5. PICK j \in 1..Capacity[n] : i = 2 * j - 1 \/ i = 2 * j
    <3>1. i \in Nat \ {0}
      BY <2>1, <2>2
    <3>2. (i + 1) \div 2 \in 1..Capacity[n]
      BY <2>1, <2>2, <3>1
    <3>3. i = 2 * ((i + 1) \div 2) - 1 \/ i = 2 * ((i + 1) \div 2)
      BY <3>1
    <3> QED
      BY <3>2, <3>3
  <2> HIDE DEF k
  <2>6. \A s \in {a, b} : Node(s, k, j) = H(Node(s, k - 1, 2 * j - 1), Node(s, k - 1, 2 * j))
    <3> j \in Nat \ {0}
      BY <2>1
    <3> QED
      BY <1>1, <2>3, NodeStep
  <2>7. Node(a, k, j) # Node(b, k, j)
    <3>1. \/ Node(a, k - 1, 2 * j - 1) # Node(b, k - 1, 2 * j - 1)
          \/ Node(a, k - 1, 2 * j) # Node(b, k - 1, 2 * j)
      <4>1. CASE i = 2 * j - 1
        BY <2>4, <4>1, Zenon
      <4>2. CASE i = 2 * j
        BY <2>4, <4>2, Zenon
      <4> QED
        BY <2>5, <4>1, <4>2
    <3> QED
      BY <2>6, <3>1, HashInjective
  <2> QED
    BY <2>1, <2>7 DEF k
<1>4. T = {}
  <2> T \in SUBSET Nat
    OBVIOUS
  <2> HIDE DEF T
  <2> QED
    BY <1>2, <1>3, NoCounterexample
<1>5. \A i \in 1..Capacity[ZkDepth] : Node(a, 0, i) = Node(b, 0, i)
  <2>1. ~ (ZkDepth \in T)
    <3> HIDE DEF T
    <3> QED
      BY <1>4
  <2>2. ZkDepth - ZkDepth = 0
    BY <1>1
  <2> QED
    BY <1>1, <2>1, <2>2
<1> DEFINE LeafAt(s, i) == IF i <= Len(s) THEN s[i] ELSE 0
<1>6. \A i \in 1..Capacity[ZkDepth] : LeafAt(a, i) = LeafAt(b, i)
  <2> SUFFICES ASSUME NEW i \in 1..Capacity[ZkDepth] PROVE LeafAt(a, i) = LeafAt(b, i)
    OBVIOUS
  <2>1. i \in Nat \ {0}
    BY <1>1, CapacityPositive
  <2>2. LeafHash(LeafAt(a, i)) = LeafHash(LeafAt(b, i))
    BY <1>1, <1>5, <2>1, LeafNodes
  <2> QED
    BY <2>2 DEF LeafHash
<1>7. /\ Len(a) \in 0..Capacity[ZkDepth] /\ Len(b) \in 0..Capacity[ZkDepth] /\ Capacity[ZkDepth] \in Nat
      /\ \A i \in 1..Len(a) : a[i] \in Nat \ {0}
      /\ \A i \in 1..Len(b) : b[i] \in Nat \ {0}
  BY <1>1, RootNode, LenProperties, CapacityPositive, ElementOfSeq
<1>8. Len(a) = Len(b)
  <2>1. CASE Len(a) < Len(b)
    <3>1. Len(b) \in 1..Capacity[ZkDepth] /\ LeafAt(b, Len(b)) # 0 /\ LeafAt(a, Len(b)) = 0
      BY <1>7, <2>1
    <3> QED
      BY <1>6, <3>1
  <2>2. CASE Len(b) < Len(a)
    <3>1. Len(a) \in 1..Capacity[ZkDepth] /\ LeafAt(a, Len(a)) # 0 /\ LeafAt(b, Len(a)) = 0
      BY <1>7, <2>2
    <3> QED
      BY <1>6, <3>1
  <2> QED
    BY <1>7, <2>1, <2>2
<1>9. \A i \in 1..Len(a) : a[i] = b[i]
  BY <1>6, <1>7, <1>8
<1> QED
  BY <1>8, <1>9, SeqEqual

\* An inclusion proof that verifies against a sequence's root proves one of
\* its leaves, or an empty slot, whatever siblings and bits it carries
\* (verifyZkMerkleProof, zk-hash.ts).
THEOREM ZkProofSound ==
  ASSUME NEW leaves \in Seq(Nat), ZkRoot(leaves) # Overflow,
         NEW proof, Len(proof.siblings) = ZkDepth, proof.root = ZkRoot(leaves),
         VerifyZkMerkleProof(proof)
  PROVE  proof.leaf = 0 \/ \E i \in 1..Len(leaves) : proof.leaf = leaves[i]
<1>1. ZkDepth \in Nat /\ Len(leaves) \in Nat
  BY ZkDepthAssumption, LenProperties
<1>2. PICK climb :
        /\ climb[0] = LeafHash(proof.leaf)
        /\ \A k \in 1..ZkDepth :
             climb[k] = IF proof.bits[k] = 0
                        THEN H(climb[k - 1], proof.siblings[k])
                        ELSE H(proof.siblings[k], climb[k - 1])
        /\ climb[ZkDepth] = ZkRoot(leaves)
  BY <1>1, ClimbRecursion
<1> DEFINE OnPath(n) == \E i \in Nat \ {0} : climb[ZkDepth - n] = Node(leaves, ZkDepth - n, i)
           T == {n \in Nat : n <= ZkDepth /\ ~ OnPath(n)}
<1>3. 0 \notin T
  <2>1. climb[ZkDepth] = Node(leaves, ZkDepth, 1) /\ ZkDepth - 0 = ZkDepth
    BY <1>1, <1>2, RootNode
  <2> QED
    BY <2>1
<1>4. ASSUME NEW n \in Nat, n + 1 \in T PROVE n \in T
  <2> DEFINE k == ZkDepth - n
  <2>1. n <= ZkDepth /\ k \in 1..ZkDepth /\ k - 1 = ZkDepth - (n + 1)
    BY <1>1, <1>4
  <2>2. ~ OnPath(n + 1)
    BY <1>4
  <2>3. ASSUME NEW i \in Nat \ {0}, climb[k] = Node(leaves, k, i) PROVE FALSE
    <3>1. Node(leaves, k, i) = H(Node(leaves, k - 1, 2 * i - 1), Node(leaves, k - 1, 2 * i))
      BY <2>1, NodeStep
    <3>2. \/ climb[k] = H(climb[k - 1], proof.siblings[k])
          \/ climb[k] = H(proof.siblings[k], climb[k - 1])
      BY <1>2, <2>1
    <3>3. \/ climb[k - 1] = Node(leaves, k - 1, 2 * i - 1)
          \/ climb[k - 1] = Node(leaves, k - 1, 2 * i)
      BY <2>3, <3>1, <3>2, HashInjective
    <3>4. 2 * i - 1 \in Nat \ {0} /\ 2 * i \in Nat \ {0}
      OBVIOUS
    <3> QED
      BY <2>1, <2>2, <3>3, <3>4
  <2> QED
    BY <2>1, <2>3
<1>5. T = {}
  <2> T \in SUBSET Nat
    OBVIOUS
  <2> HIDE DEF T
  <2> QED
    BY <1>3, <1>4, NoCounterexample
<1>6. PICK i \in Nat \ {0} : climb[0] = Node(leaves, 0, i)
  <2>1. ~ (ZkDepth \in T)
    <3> HIDE DEF T
    <3> QED
      BY <1>5
  <2>2. ZkDepth - ZkDepth = 0
    BY <1>1
  <2> QED
    BY <1>1, <2>1, <2>2
<1>7. LeafHash(proof.leaf) = LeafHash(IF i <= Len(leaves) THEN leaves[i] ELSE 0)
  BY <1>2, <1>6, LeafNodes
<1>8. proof.leaf = IF i <= Len(leaves) THEN leaves[i] ELSE 0
  BY <1>7 DEF LeafHash
<1> QED
  BY <1>1, <1>8

-----------------------------------------------------------------------------
\* The levels of the full tree.
LEMMA DenseRecursion ==
  ASSUME NEW leaves
  PROVE  \E full :
           /\ full[0] = [i \in 1..Capacity[ZkDepth] |->
                           LeafHash(IF i <= Len(leaves) THEN leaves[i] ELSE 0)]
           /\ \A k \in 1..ZkDepth :
                full[k] = [i \in 1..Capacity[ZkDepth - k] |->
                             H(full[k - 1][2 * i - 1], full[k - 1][2 * i])]
           /\ DenseZkRoot(leaves) = full[ZkDepth][1]
<1> DEFINE Base == [i \in 1..Capacity[ZkDepth] |->
                      LeafHash(IF i <= Len(leaves) THEN leaves[i] ELSE 0)]
           Step(x, k) == [i \in 1..Capacity[ZkDepth - k] |-> H(x[2 * i - 1], x[2 * i])]
           Is(f, n) == f = [k \in 0..n |-> IF k = 0 THEN Base ELSE Step(f[k - 1], k)]
           T == {n \in Nat : ~ \E f : Is(f, n)}
           full == CHOOSE f : Is(f, ZkDepth)
<1> HIDE DEF Base, Step
<1>1. ASSUME NEW f, NEW n \in Nat, Is(f, n), NEW k \in 0..n
      PROVE  f[k] = IF k = 0 THEN Base ELSE Step(f[k - 1], k)
  <2>1. f[k] = [j \in 0..n |-> IF j = 0 THEN Base ELSE Step(f[j - 1], j)][k]
    BY <1>1, Zenon
  <2> QED
    BY <2>1, Zenon
<1>2. 0 \notin T
  <2>1. Is([k \in 0..0 |-> Base], 0)
    OBVIOUS
  <2> QED
    BY <2>1
<1>3. ASSUME NEW n \in Nat, n \notin T PROVE n + 1 \notin T
  <2>1. PICK f : Is(f, n)
    BY <1>3
  <2> DEFINE g == [k \in 0..(n + 1) |-> IF k <= n THEN f[k] ELSE Step(f[n], k)]
  <2>2. ASSUME NEW k \in 0..(n + 1)
        PROVE  g[k] = IF k = 0 THEN Base ELSE Step(g[k - 1], k)
    <3>1. k # 0 => g[k - 1] = f[k - 1]
      OBVIOUS
    <3>2. CASE k <= n
      <4>1. f[k] = IF k = 0 THEN Base ELSE Step(f[k - 1], k)
        <5> k \in 0..n
          BY <3>2
        <5> HIDE DEF Is
        <5> QED
          BY <1>1, <2>1
      <4>2. g[k] = f[k]
        BY <3>2
      <4> HIDE DEF g
      <4> QED
        BY <3>1, <4>1, <4>2
    <3>3. CASE k = n + 1
      <4>1. g[k] = Step(f[n], k) /\ k # 0 /\ k - 1 = n
        BY <3>3
      <4> HIDE DEF g
      <4> QED
        BY <3>1, <4>1
    <3> QED
      BY <3>2, <3>3
  <2>3. Is(g, n + 1)
    <3> HIDE DEF g
    <3>1. g = [k \in 0..(n + 1) |-> g[k]]
      BY DEF g
    <3> QED
      BY <2>2, <3>1
  <2> QED
    BY <2>3
<1>4. T = {}
  <2> HIDE DEF T
  <2> T \in SUBSET Nat
    BY DEF T
  <2> QED
    BY <1>2, <1>3, NoCounterexample
<1>5. ZkDepth \in Nat /\ \E f : Is(f, ZkDepth)
  BY <1>4, ZkDepthAssumption
<1>6. Is(full, ZkDepth)
  BY <1>5
<1>7. \A k \in 0..ZkDepth : full[k] = IF k = 0 THEN Base ELSE Step(full[k - 1], k)
  <2> HIDE DEF Is, full
  <2> QED
    BY <1>1, <1>5, <1>6
<1>8. DenseZkRoot(leaves) = full[ZkDepth][1]
  BY DEF DenseZkRoot, Base, Step
<1>9. full[0] = Base /\ \A k \in 1..ZkDepth : full[k] = Step(full[k - 1], k)
  <2> HIDE DEF full, Is
  <2> QED
    BY <1>5, <1>7
<1> HIDE DEF full
<1>10. \A k \in 1..ZkDepth :
         full[k] = [i \in 1..Capacity[ZkDepth - k] |->
                      H(full[k - 1][2 * i - 1], full[k - 1][2 * i])]
  BY <1>9, Zenon DEF Step
<1>11. full[0] = [i \in 1..Capacity[ZkDepth] |->
                    LeafHash(IF i <= Len(leaves) THEN leaves[i] ELSE 0)]
  BY <1>9, Zenon DEF Base
<1> HIDE DEF Is
<1> QED
  BY <1>8, <1>10, <1>11, Zenon

\* Hashing the populated prefix alone gives the root of the tree over all the
\* slots, the empty ones holding the zero leaf ("sparse", zk-hash.ts 162-169).
THEOREM SparseIsDense ==
  ASSUME NEW leaves \in Seq(Nat), ZkRoot(leaves) # Overflow
  PROVE  ZkRoot(leaves) = DenseZkRoot(leaves)
<1>1. ZkDepth \in Nat /\ ZkDepth \in 0..ZkDepth
  BY ZkDepthAssumption
<1>2. PICK full :
        /\ full[0] = [i \in 1..Capacity[ZkDepth] |->
                        LeafHash(IF i <= Len(leaves) THEN leaves[i] ELSE 0)]
        /\ \A k \in 1..ZkDepth :
             full[k] = [i \in 1..Capacity[ZkDepth - k] |->
                          H(full[k - 1][2 * i - 1], full[k - 1][2 * i])]
        /\ DenseZkRoot(leaves) = full[ZkDepth][1]
  BY DenseRecursion
<1> DEFINE Same(k) == \A i \in 1..Capacity[ZkDepth - k] : full[k][i] = Node(leaves, k, i)
           T == {k \in Nat : k <= ZkDepth /\ ~ Same(k)}
<1>3. 0 \notin T
  <2> SUFFICES ASSUME NEW i \in 1..Capacity[ZkDepth] PROVE full[0][i] = Node(leaves, 0, i)
    <3> ZkDepth - 0 = ZkDepth
      BY <1>1
    <3> QED
      OBVIOUS
  <2>1. i \in Nat \ {0}
    BY <1>1, CapacityPositive
  <2>2. full[0][i] = LeafHash(IF i <= Len(leaves) THEN leaves[i] ELSE 0)
    BY <1>2
  <2> QED
    BY <2>1, <2>2, LeafNodes
<1>4. ASSUME NEW n \in Nat, n + 1 \in T PROVE n \in T
  <2> DEFINE k == n + 1
  <2>1. k \in 1..ZkDepth /\ k - 1 = n /\ ZkDepth - k \in 0..ZkDepth
    BY <1>1, <1>4
  <2>2. PICK i \in 1..Capacity[ZkDepth - k] : full[k][i] # Node(leaves, k, i)
    BY <1>4
  <2> HIDE DEF k
  <2>3. Capacity[ZkDepth - n] = 2 * Capacity[ZkDepth - k] /\ Capacity[ZkDepth - k] \in Nat \ {0}
    <3>1. ZkDepth - n \in 1..ZkDepth /\ (ZkDepth - n) - 1 = ZkDepth - k
      BY <1>1, <2>1
    <3>2. Capacity[ZkDepth - n] = 2 * Capacity[(ZkDepth - n) - 1]
      BY <3>1, CapacityRecursion
    <3> QED
      BY <2>1, <3>1, <3>2, CapacityPositive
  <2>4. /\ i \in Nat \ {0}
        /\ 2 * i - 1 \in 1..Capacity[ZkDepth - n] /\ 2 * i \in 1..Capacity[ZkDepth - n]
    BY <2>3
  <2>5. full[k][i] = H(full[n][2 * i - 1], full[n][2 * i])
    <3>1. full[k] = [j \in 1..Capacity[ZkDepth - k] |->
                       H(full[k - 1][2 * j - 1], full[k - 1][2 * j])]
      BY <1>2, <2>1, Zenon
    <3>2. full[k][i] = H(full[k - 1][2 * i - 1], full[k - 1][2 * i])
      BY <3>1, Zenon
    <3> QED
      BY <2>1, <3>2, Zenon
  <2>6. Node(leaves, k, i) = H(Node(leaves, n, 2 * i - 1), Node(leaves, n, 2 * i))
    BY <2>1, <2>4, NodeStep
  <2>7. ~ Same(n)
    BY <2>2, <2>4, <2>5, <2>6
  <2> QED
    BY <1>1, <2>1, <2>7
<1>5. T = {}
  <2> T \in SUBSET Nat
    OBVIOUS
  <2> HIDE DEF T
  <2> QED
    BY <1>3, <1>4, NoCounterexample
<1>6. Same(ZkDepth)
  <2>1. ~ (ZkDepth \in T)
    <3> HIDE DEF T
    <3> QED
      BY <1>5
  <2> QED
    BY <1>1, <2>1
<1>7. ZkDepth - ZkDepth = 0 /\ Capacity[0] = 1
  BY <1>1, CapacityRecursion
<1>8. full[ZkDepth][1] = Node(leaves, ZkDepth, 1)
  BY <1>6, <1>7
<1> QED
  BY <1>2, <1>8, RootNode

-----------------------------------------------------------------------------
(* FlattenSeq and StoredRows, for every sequence.                          *)

LEMMA FlattenRecursion ==
  ASSUME NEW S, NEW ss \in Seq(Seq(S)), Len(ss) > 0
  PROVE  \E f : /\ \A i \in 1..Len(ss) : f[i] = IF i = 1 THEN ss[i] ELSE f[i - 1] \o ss[i]
                /\ FlattenSeq(ss) = f[Len(ss)]
<1> DEFINE Is(f, n) == f = [i \in 1..n |-> IF i = 1 THEN ss[i] ELSE f[i - 1] \o ss[i]]
           T == {n \in Nat : ~ \E f : Is(f, n)}
<1>a. ASSUME NEW f, NEW n \in Nat, Is(f, n), NEW i \in 1..n
      PROVE  f[i] = IF i = 1 THEN ss[i] ELSE f[i - 1] \o ss[i]
  <2>1. f[i] = [j \in 1..n |-> IF j = 1 THEN ss[j] ELSE f[j - 1] \o ss[j]][i]
    BY <1>a, Zenon
  <2> QED
    BY <2>1, Zenon
<1>1. 0 \notin T
  <2>1. Is([i \in {} |-> {}], 0)
    OBVIOUS
  <2> QED
    BY <2>1
<1>2. ASSUME NEW n \in Nat, n \notin T PROVE n + 1 \notin T
  <2>1. PICK f : Is(f, n)
    BY <1>2
  <2> DEFINE g == [i \in 1..(n + 1) |->
                     IF i <= n THEN f[i] ELSE IF i = 1 THEN ss[i] ELSE f[i - 1] \o ss[i]]
  <2>2. \A i \in 1..(n + 1) : g[i] = IF i = 1 THEN ss[i] ELSE g[i - 1] \o ss[i]
    <3> TAKE i \in 1..(n + 1)
    <3>1. CASE i <= n
      <4>1. f[i] = IF i = 1 THEN ss[i] ELSE f[i - 1] \o ss[i]
        <5> i \in 1..n
          BY <3>1
        <5> HIDE DEF Is
        <5> QED
          BY <1>a, <2>1
      <4>2. g[i] = f[i] /\ (i # 1 => g[i - 1] = f[i - 1])
        BY <3>1
      <4> QED
        BY <4>1, <4>2
    <3>2. CASE i = n + 1
      <4>1. i # 1 => g[i - 1] = f[i - 1]
        BY <3>2
      <4>2. g[i] = IF i = 1 THEN ss[i] ELSE f[i - 1] \o ss[i]
        BY <3>2
      <4> QED
        BY <4>1, <4>2
    <3> QED
      BY <3>1, <3>2
  <2>3. Is(g, n + 1)
    <3> HIDE DEF g
    <3>1. g = [i \in 1..(n + 1) |-> g[i]]
      BY DEF g
    <3> QED
      BY <2>2, <3>1
  <2> QED
    BY <2>3
<1>3. T = {}
  <2> HIDE DEF T
  <2> T \in SUBSET Nat
    BY DEF T
  <2> QED
    BY <1>1, <1>2, NoCounterexample
<1> DEFINE flatten[i \in 1..Len(ss)] == IF i = 1 THEN ss[i] ELSE flatten[i - 1] \o ss[i]
<1>4. Len(ss) \in Nat
  BY LenProperties
<1>5. \E f : Is(f, Len(ss))
  BY <1>3, <1>4
<1>6. flatten = CHOOSE f : Is(f, Len(ss))
  OBVIOUS
<1>7. Is(flatten, Len(ss))
  BY <1>5, <1>6
<1>8. FlattenSeq(ss) = flatten[Len(ss)]
  BY <1>4 DEF FlattenSeq
<1> HIDE DEF flatten
<1> QED
  BY <1>4, <1>7, <1>8, <1>a

\* Flattening sequences over S gives a sequence over S.
LEMMA FlattenType ==
  ASSUME NEW S, NEW ss \in Seq(Seq(S))
  PROVE  FlattenSeq(ss) \in Seq(S)
<1>1. CASE Len(ss) = 0
  <2>1. FlattenSeq(ss) = ss /\ ss = <<>>
    BY <1>1, EmptySeq DEF FlattenSeq
  <2> QED
    BY <2>1
<1>2. CASE Len(ss) # 0
  <2>1. Len(ss) \in Nat /\ \A i \in 1..Len(ss) : ss[i] \in Seq(S)
    BY LenProperties, ElementOfSeq
  <2>2. Len(ss) > 0
    BY <1>2, <2>1
  <2>3. PICK f : /\ \A i \in 1..Len(ss) : f[i] = IF i = 1 THEN ss[i] ELSE f[i - 1] \o ss[i]
                 /\ FlattenSeq(ss) = f[Len(ss)]
    BY <2>2, FlattenRecursion
  <2> DEFINE T == {n \in Nat : n \in 1..Len(ss) /\ f[n] \notin Seq(S)}
  <2>4. ASSUME NEW n \in Nat, n + 1 \in T PROVE n \in T
    <3>1. n + 1 \in 1..Len(ss) /\ f[n + 1] \notin Seq(S)
      BY <2>4
    <3>2. ss[n + 1] \in Seq(S)
      BY <2>1, <3>1
    <3>3. f[n + 1] = IF n + 1 = 1 THEN ss[n + 1] ELSE f[(n + 1) - 1] \o ss[n + 1]
      BY <2>3, <3>1
    <3>4. n # 0 /\ f[n + 1] = f[n] \o ss[n + 1]
      <4>1. n # 0
        BY <3>1, <3>2, <3>3
      <4>2. n + 1 # 1 /\ (n + 1) - 1 = n
        BY <4>1
      <4> QED
        BY <3>3, <4>1, <4>2, Zenon
    <3>5. f[n] \notin Seq(S)
      BY <3>1, <3>2, <3>4, ConcatProperties
    <3> QED
      BY <2>1, <3>1, <3>4, <3>5
  <2>5. T = {}
    <3>1. T \in SUBSET Nat /\ 0 \notin T
      OBVIOUS
    <3> HIDE DEF T
    <3> QED
      BY <2>4, <3>1, NoCounterexample
  <2> QED
    BY <2>1, <2>2, <2>3, <2>5
<1> QED
  BY <1>1, <1>2

LEMMA ConcatElements ==
  ASSUME NEW S, NEW s \in Seq(S), NEW t \in Seq(S)
  PROVE  s \o t \in Seq(S) /\ ToSet(s \o t) = ToSet(s) \cup ToSet(t)
<1>1. /\ s \o t \in Seq(S) /\ Len(s \o t) = Len(s) + Len(t)
      /\ \A i \in 1..(Len(s) + Len(t)) :
           (s \o t)[i] = IF i <= Len(s) THEN s[i] ELSE t[i - Len(s)]
      /\ Len(s) \in Nat /\ Len(t) \in Nat /\ DOMAIN s = 1..Len(s) /\ DOMAIN t = 1..Len(t)
      /\ DOMAIN (s \o t) = 1..(Len(s) + Len(t))
  BY ConcatProperties, LenProperties
<1>2. ASSUME NEW x \in ToSet(s) \cup ToSet(t) PROVE x \in ToSet(s \o t)
  <2>1. CASE x \in ToSet(s)
    BY <1>1, <2>1 DEF ToSet
  <2>2. CASE x \in ToSet(t)
    <3>1. PICK i \in 1..Len(t) : x = t[i]
      BY <1>1, <2>2 DEF ToSet
    <3>2. /\ Len(s) + i \in 1..(Len(s) + Len(t)) /\ (Len(s) + i) - Len(s) = i
          /\ ~ (Len(s) + i <= Len(s))
      BY <1>1
    <3>3. (s \o t)[Len(s) + i] = x
      BY <1>1, <3>1, <3>2
    <3> QED
      BY <1>1, <3>2, <3>3 DEF ToSet
  <2> QED
    BY <2>1, <2>2
<1>3. ASSUME NEW x \in ToSet(s \o t) PROVE x \in ToSet(s) \cup ToSet(t)
  <2>1. PICK i \in 1..(Len(s) + Len(t)) : x = (s \o t)[i]
    BY <1>1, <1>3 DEF ToSet
  <2>2. i <= Len(s) => i \in 1..Len(s)
    BY <1>1
  <2>3. ~ (i <= Len(s)) => i - Len(s) \in 1..Len(t)
    BY <1>1
  <2> QED
    BY <1>1, <2>1, <2>2, <2>3 DEF ToSet
<1> QED
  BY <1>1, <1>2, <1>3

\* The elements of a flattened sequence are those of its parts.
LEMMA FlattenElements ==
  ASSUME NEW S, NEW ss \in Seq(Seq(S))
  PROVE  ToSet(FlattenSeq(ss)) = UNION {ToSet(ss[i]) : i \in DOMAIN ss}
<1>1. /\ Len(ss) \in Nat /\ DOMAIN ss = 1..Len(ss)
      /\ \A i \in 1..Len(ss) : ss[i] \in Seq(S)
  BY LenProperties, ElementOfSeq
<1>2. CASE Len(ss) = 0
  <2>1. FlattenSeq(ss) = <<>> /\ DOMAIN ss = {}
    <3>1. ss = <<>> /\ 1..0 = {}
      BY <1>2, EmptySeq
    <3> QED
      BY <1>1, <1>2, <3>1 DEF FlattenSeq
  <2>2. ToSet(<<>>) = {}
    BY DEF ToSet
  <2> QED
    BY <2>1, <2>2
<1>3. CASE Len(ss) # 0
  <2>1. PICK f : /\ \A i \in 1..Len(ss) : f[i] = IF i = 1 THEN ss[i] ELSE f[i - 1] \o ss[i]
                 /\ FlattenSeq(ss) = f[Len(ss)]
    <3>1. Len(ss) > 0
      BY <1>1, <1>3
    <3> QED
      BY <3>1, FlattenRecursion
  <2> DEFINE Held(n) == UNION {ToSet(ss[i]) : i \in 1..n}
             T == {n \in Nat : n \in 1..Len(ss) /\ ~ (f[n] \in Seq(S) /\ ToSet(f[n]) = Held(n))}
  <2>2. ASSUME NEW n \in Nat, n + 1 \in T PROVE n \in T
    <3>1. n + 1 \in 1..Len(ss) /\ ~ (f[n + 1] \in Seq(S) /\ ToSet(f[n + 1]) = Held(n + 1))
      BY <2>2
    <3>2. ss[n + 1] \in Seq(S)
      BY <1>1, <3>1
    <3>3. Held(n + 1) = Held(n) \cup ToSet(ss[n + 1])
      <4>1. \A i : i \in 1..(n + 1) <=> i \in 1..n \/ i = n + 1
        OBVIOUS
      <4> QED
        BY <4>1
    <3>4. CASE n = 0
      <4>1. f[n + 1] = ss[n + 1]
        BY <2>1, <3>1, <3>4
      <4>2. Held(n) = {}
        <5> 1..0 = {}
          OBVIOUS
        <5> QED
          BY <3>4
      <4>3. ToSet(f[n + 1]) = Held(n + 1)
        BY <3>3, <4>1, <4>2
      <4> HIDE DEF Held
      <4>4. f[n + 1] \in Seq(S)
        BY <3>2, <4>1
      <4> QED
        BY <3>1, <4>3, <4>4
    <3>5. CASE n # 0 /\ f[n] \in Seq(S) /\ ToSet(f[n]) = Held(n)
      <4>1. f[n + 1] = f[n] \o ss[n + 1]
        <5>1. f[n + 1] = IF n + 1 = 1 THEN ss[n + 1] ELSE f[(n + 1) - 1] \o ss[n + 1]
          BY <2>1, <3>1
        <5>2. n + 1 # 1 /\ (n + 1) - 1 = n
          BY <3>5
        <5> QED
          BY <5>1, <5>2, Zenon
      <4>2. f[n + 1] \in Seq(S) /\ ToSet(f[n + 1]) = ToSet(f[n]) \cup ToSet(ss[n + 1])
        BY <3>2, <3>5, <4>1, ConcatElements
      <4> HIDE DEF Held
      <4> QED
        BY <3>1, <3>3, <3>5, <4>2
    <3> QED
      BY <1>1, <3>1, <3>4, <3>5
  <2>3. T = {}
    <3>1. T \in SUBSET Nat /\ 0 \notin T
      OBVIOUS
    <3> HIDE DEF T
    <3> QED
      BY <2>2, <3>1, NoCounterexample
  <2>4. ToSet(f[Len(ss)]) = Held(Len(ss))
    <3>1. Len(ss) \in 1..Len(ss) /\ Len(ss) \notin T
      <4> HIDE DEF T
      <4> QED
        BY <1>1, <1>3, <2>3
    <3> QED
      BY <1>1, <3>1
  <2>5. Held(Len(ss)) = UNION {ToSet(ss[i]) : i \in DOMAIN ss}
    BY <1>1
  <2> HIDE DEF Held
  <2> QED
    BY <2>1, <2>4, <2>5
<1> QED
  BY <1>1, <1>2, <1>3

-----------------------------------------------------------------------------
(* What a capsule is built from.                                           *)

LEMMA PartType ==
  ASSUME NEW c \in Capsules
  PROVE  /\ Parts[c] \in Seq([sources : Seq(Sources), facts : Seq(Facts)])
         /\ Len(Parts[c]) \in Nat
         /\ DOMAIN Parts[c] = 1..Len(Parts[c])
         /\ \A p \in DOMAIN Parts[c] : /\ Parts[c][p].sources \in Seq(Sources)
                                       /\ Parts[c][p].facts \in Seq(Facts)
<1> DEFINE Part == [sources : Seq(Sources), facts : Seq(Facts)]
<1>1. Parts[c] \in Seq(Part)
  BY PartsAssumption
<1> HIDE DEF Part
<1>2. DOMAIN Parts[c] = 1..Len(Parts[c]) /\ Len(Parts[c]) \in Nat
  BY <1>1, LenProperties
<1>3. \A p \in DOMAIN Parts[c] : Parts[c][p] \in Part
  BY <1>1, <1>2, ElementOfSeq
<1> QED
  BY <1>1, <1>2, <1>3 DEF Part

\* The facts of a capsule whose parts hold facts of S.
LEMMA CapsuleFactsType ==
  ASSUME NEW c \in Capsules, NEW S, \A p \in DOMAIN Parts[c] : Parts[c][p].facts \in Seq(S)
  PROVE  CapsuleFacts(c) \in Seq(S)
<1> DEFINE ss == [p \in DOMAIN Parts[c] |-> Parts[c][p].facts]
<1>1. ss \in Seq(Seq(S))
  <2>1. ss \in [1..Len(Parts[c]) -> Seq(S)] /\ Len(Parts[c]) \in Nat
    BY PartType
  <2> HIDE DEF ss
  <2> QED
    BY <2>1, SeqDef
<1>2. FlattenSeq(ss) \in Seq(S)
  <2> HIDE DEF ss
  <2> QED
    BY <1>1, FlattenType
<1> QED
  BY <1>2 DEF CapsuleFacts

\* composeContexts keeps every fact of every part, and adds none.
LEMMA CapsuleFactsAre ==
  ASSUME NEW c \in Capsules
  PROVE  ToSet(CapsuleFacts(c)) = FactsOf(c)
<1> DEFINE ss == [p \in DOMAIN Parts[c] |-> Parts[c][p].facts]
<1>1. ss \in Seq(Seq(Facts)) /\ DOMAIN ss = DOMAIN Parts[c]
  <2>1. ss \in [1..Len(Parts[c]) -> Seq(Facts)] /\ Len(Parts[c]) \in Nat
    BY PartType
  <2>2. DOMAIN ss = DOMAIN Parts[c]
    OBVIOUS
  <2> HIDE DEF ss
  <2> QED
    BY <2>1, <2>2, SeqDef
<1>2. ToSet(FlattenSeq(ss)) = UNION {ToSet(ss[p]) : p \in DOMAIN ss}
  <2> HIDE DEF ss
  <2> QED
    BY <1>1, FlattenElements
<1>3. {ToSet(ss[p]) : p \in DOMAIN ss} = {ToSet(Parts[c][p].facts) : p \in DOMAIN Parts[c]}
  BY <1>1
<1> QED
  BY <1>2, <1>3 DEF CapsuleFacts, FactsOf

-----------------------------------------------------------------------------
(* Sorting.                                                                *)

\* The positions of s that come before i once s is sorted, i included.
UpTo(s, i) == {j \in DOMAIN s : s[j] < s[i] \/ (s[j] = s[i] /\ j <= i)}

\* Sorting numbers the positions: no two share a rank, and a smaller rank is
\* a smaller or an equal hash.
LEMMA RankProperties ==
  ASSUME NEW s \in Seq(Int)
  PROVE  /\ \A i \in 1..Len(s) : Rank(s, i) \in 1..Len(s)
         /\ \A i, j \in 1..Len(s) : Rank(s, i) = Rank(s, j) => i = j
         /\ \A i, j \in 1..Len(s) : Rank(s, i) <= Rank(s, j) => s[i] <= s[j]
<1>1. /\ Len(s) \in Nat /\ DOMAIN s = 1..Len(s)
      /\ \A i \in 1..Len(s) : s[i] \in Int
      /\ IsFiniteSet(1..Len(s)) /\ Cardinality(1..Len(s)) = Len(s)
  BY LenProperties, ElementOfSeq, FS_Interval, SMTT(30)
<1>2. ASSUME NEW i \in 1..Len(s)
      PROVE  /\ IsFiniteSet(UpTo(s, i)) /\ Cardinality(UpTo(s, i)) \in 1..Len(s)
             /\ Rank(s, i) = Cardinality(UpTo(s, i)) /\ i \in UpTo(s, i)
  <2>1. UpTo(s, i) \subseteq 1..Len(s) /\ i \in UpTo(s, i)
    BY <1>1 DEF UpTo
  <2>2. IsFiniteSet(UpTo(s, i)) /\ Cardinality(UpTo(s, i)) <= Len(s)
    BY <1>1, <2>1, FS_Subset
  <2>3. Cardinality(UpTo(s, i)) \in Nat /\ Cardinality(UpTo(s, i)) # 0
    BY <2>1, <2>2, FS_CardinalityType, FS_EmptySet
  <2>4. Rank(s, i) = Cardinality(UpTo(s, i))
    BY DEF Rank, UpTo
  <2> QED
    BY <1>1, <2>1, <2>2, <2>3, <2>4
<1>3. ASSUME NEW i \in 1..Len(s), NEW j \in 1..Len(s), i # j,
             s[j] < s[i] \/ (s[j] = s[i] /\ j <= i)
      PROVE  Rank(s, j) < Rank(s, i)
  <2>1. UpTo(s, j) \subseteq UpTo(s, i) /\ i \notin UpTo(s, j)
    BY <1>1, <1>3 DEF UpTo
  <2>2. UpTo(s, j) # UpTo(s, i)
    BY <1>2, <2>1
  <2>3. /\ Cardinality(UpTo(s, j)) <= Cardinality(UpTo(s, i))
        /\ Cardinality(UpTo(s, j)) # Cardinality(UpTo(s, i))
    BY <1>2, <2>1, <2>2, FS_Subset
  <2> QED
    BY <1>1, <1>2, <2>3
<1>4. \A i \in 1..Len(s) : Rank(s, i) \in 1..Len(s) /\ Rank(s, i) \in Int
  BY <1>1, <1>2
<1>5. \A i, j \in 1..Len(s) : i # j =>
        \/ s[j] < s[i] \/ (s[j] = s[i] /\ j <= i)
        \/ s[i] < s[j] \/ (s[i] = s[j] /\ i <= j)
  BY <1>1
<1>6. ASSUME NEW i \in 1..Len(s), NEW j \in 1..Len(s)
      PROVE  /\ Rank(s, i) = Rank(s, j) => i = j
             /\ Rank(s, i) <= Rank(s, j) => s[i] <= s[j]
  <2>0. Rank(s, i) \in Int /\ Rank(s, j) \in Int /\ s[i] \in Int /\ s[j] \in Int
    BY <1>1, <1>4
  <2>1. CASE i = j
    BY <2>0, <2>1
  <2>2. CASE i # j /\ (s[j] < s[i] \/ (s[j] = s[i] /\ j <= i))
    <3>1. Rank(s, j) < Rank(s, i)
      BY <1>3, <2>2
    <3> QED
      BY <2>0, <3>1
  <2>3. CASE i # j /\ (s[i] < s[j] \/ (s[i] = s[j] /\ i <= j))
    <3>1. Rank(s, i) < Rank(s, j)
      BY <1>3, <2>3
    <3> QED
      BY <2>0, <2>3, <3>1
  <2> QED
    BY <1>5, <2>1, <2>2, <2>3
<1> QED
  BY <1>4, <1>6

\* Sorting moves the hash at position i to its rank.
LEMMA SortedProperties ==
  ASSUME NEW s \in Seq(Int)
  PROVE  /\ Len(Sorted(s)) = Len(s) /\ Sorted(s) \in Seq(Int)
         /\ \A i \in 1..Len(s) : Sorted(s)[Rank(s, i)] = s[i]
         /\ \A k \in 1..Len(s) : \E i \in 1..Len(s) : Rank(s, i) = k
         /\ \A k, l \in 1..Len(s) : k <= l => Sorted(s)[k] <= Sorted(s)[l]
<1>1. /\ Len(s) \in Nat /\ DOMAIN s = 1..Len(s)
      /\ \A i \in 1..Len(s) : s[i] \in Int
      /\ IsFiniteSet(1..Len(s)) /\ Cardinality(1..Len(s)) = Len(s)
  BY LenProperties, ElementOfSeq, FS_Interval, SMTT(30)
<1> DEFINE rank == [i \in 1..Len(s) |-> Rank(s, i)]
           t    == [k \in 1..Len(s) |-> s[CHOOSE i \in 1..Len(s) : Rank(s, i) = k]]
<1>2. rank \in Injection(1..Len(s), 1..Len(s))
  BY RankProperties DEF Injection, IsInjective
<1>3. rank \in Surjection(1..Len(s), 1..Len(s))
  <2> HIDE DEF rank
  <2> QED
    BY <1>1, <1>2, FS_Injection
<1>4. \A k \in 1..Len(s) : \E i \in 1..Len(s) : Rank(s, i) = k
  BY <1>3 DEF Surjection
<1>5. \A k \in 1..Len(s) : \E i \in 1..Len(s) : Rank(s, i) = k /\ t[k] = s[i]
  BY <1>4
<1>6. t \in Seq(Int) /\ Len(t) = Len(s)
  <2>1. t \in [1..Len(s) -> Int]
    BY <1>1, <1>5
  <2> HIDE DEF t
  <2> QED
    BY <1>1, <2>1, IsASeq, LenProperties
<1>7. Sorted(s) = t
  <2>1. Sorted(s) = SubSeq(t, 1, Len(s))
    BY <1>1 DEF Sorted
  <2> HIDE DEF t
  <2>2. SubSeq(t, 1, Len(t)) = t
    BY <1>6, SubSeqFull
  <2> QED
    BY <1>6, <2>1, <2>2
<1>8. \A i \in 1..Len(s) : t[Rank(s, i)] = s[i]
  <2> HIDE DEF t
  <2> TAKE i \in 1..Len(s)
  <2>1. PICK j \in 1..Len(s) : Rank(s, j) = Rank(s, i) /\ t[Rank(s, i)] = s[j]
    BY <1>5, RankProperties
  <2>2. j = i
    BY <2>1, RankProperties
  <2> QED
    BY <2>1, <2>2
<1>9. \A k, l \in 1..Len(s) : k <= l => t[k] <= t[l]
  <2> HIDE DEF t
  <2> QED
    BY <1>5, RankProperties, SMTT(30)
<1> HIDE DEF t
<1> QED
  BY <1>4, <1>6, <1>7, <1>8, <1>9

\* As many positions need as many ranks.
LEMMA PigeonHole ==
  ASSUME NEW m \in Int, NEW n \in Int, m <= n, NEW k \in Int, NEW l \in Int, NEW f,
         \A i \in m..n : f[i] \in k..l,
         \A i, j \in m..n : f[i] = f[j] => i = j
  PROVE  n - m <= l - k
<1> SUFFICES ASSUME ~ (n - m <= l - k) PROVE FALSE
  OBVIOUS
<1> DEFINE S == m..n
           T == k..l
           g == [i \in S |-> f[i]]
<1>1. IsFiniteSet(S) /\ Cardinality(S) = n - m + 1
  BY FS_Interval
<1>2. IsFiniteSet(T) /\ Cardinality(T) = IF k > l THEN 0 ELSE l - k + 1
  BY FS_Interval
<1>3. g \in [S -> T] /\ \A i, j \in S : g[i] = g[j] => i = j
  OBVIOUS
<1>4. Cardinality(T) < Cardinality(S)
  BY <1>1, <1>2
<1> HIDE DEF S, T, g
<1>5. \E i, j \in S : i # j /\ g[i] = g[j]
  BY <1>1, <1>2, <1>3, <1>4, FS_PigeonHole
<1> QED
  BY <1>3, <1>5

\* Sequences that hold the same hashes in another order sort alike.
LEMMA SortedPermuted ==
  ASSUME NEW a \in Seq(Int), NEW b \in Seq(Int), Len(a) = Len(b),
         NEW p \in [1..Len(a) -> 1..Len(a)],
         \A i, j \in 1..Len(a) : p[i] = p[j] => i = j,
         \A i \in 1..Len(a) : a[i] = b[p[i]]
  PROVE  Sorted(a) = Sorted(b)
<1> DEFINE n == Len(a)
           A == Sorted(a)
           B == Sorted(b)
           at == [k \in 1..n |-> CHOOSE i \in 1..n : Rank(a, i) = k]
           to == [k \in 1..n |-> Rank(b, p[at[k]])]
<1>1. n \in Nat
  BY LenProperties
<1>a. /\ \A i \in 1..n : Rank(b, i) \in 1..n /\ A[Rank(a, i)] = a[i] /\ B[Rank(b, i)] = b[i]
      /\ \A i, j \in 1..n : Rank(b, i) = Rank(b, j) => i = j
      /\ \A k \in 1..n : \E i \in 1..n : Rank(a, i) = k
  BY RankProperties, SortedProperties
<1>2. \A k \in 1..n : at[k] \in 1..n /\ Rank(a, at[k]) = k
  BY <1>a
<1>3. \A k \in 1..n : to[k] \in 1..n
  <2> HIDE DEF at
  <2> QED
    BY <1>2, <1>a
<1>4. \A k, l \in 1..n : to[k] = to[l] => k = l
  <2> SUFFICES ASSUME NEW k \in 1..n, NEW l \in 1..n, to[k] = to[l] PROVE k = l
    OBVIOUS
  <2>1. Rank(b, p[at[k]]) = Rank(b, p[at[l]])
    OBVIOUS
  <2> HIDE DEF at, to
  <2>2. at[k] \in 1..n /\ at[l] \in 1..n /\ p[at[k]] \in 1..n /\ p[at[l]] \in 1..n
    BY <1>2
  <2>3. p[at[k]] = p[at[l]]
    <3> DEFINE i == p[at[k]]
               j == p[at[l]]
    <3> HIDE DEF n, A, B, i, j
    <3>1. i \in 1..n /\ j \in 1..n /\ Rank(b, i) = Rank(b, j)
      BY <2>1, <2>2 DEF i, j
    <3>2. i = j
      BY <1>a, <3>1
    <3> QED
      BY <3>2 DEF i, j
  <2>4. at[k] = at[l]
    BY <2>2, <2>3
  <2> QED
    BY <1>2, <2>4
<1>5. \A k \in 1..n : A[k] = B[to[k]]
  <2> SUFFICES ASSUME NEW k \in 1..n PROVE A[k] = B[to[k]]
    OBVIOUS
  <2> HIDE DEF at
  <2>1. A[Rank(a, at[k])] = a[at[k]]
    BY <1>2, <1>a
  <2>2. B[Rank(b, p[at[k]])] = b[p[at[k]]]
    BY <1>2, <1>a
  <2> QED
    BY <1>2, <2>1, <2>2
<1>6. /\ A \in Seq(Int) /\ B \in Seq(Int) /\ Len(A) = n /\ Len(B) = n
      /\ \A k, l \in 1..n : k <= l => A[k] <= A[l] /\ B[k] <= B[l]
      /\ \A k \in 1..n : A[k] \in Int /\ B[k] \in Int
  BY SortedProperties, ElementOfSeq
<1> HIDE DEF n, A, B, at, to
\* The hashes from k on are larger than B[k] in A, and there are too few of
\* those in B; the hashes up to k are smaller than B[k], with the same result.
<1>7. ASSUME NEW k \in 1..n, B[k] < A[k] PROVE FALSE
  <2>1. ASSUME NEW i \in k..n PROVE to[i] \in (k + 1)..n
    <3>1. i \in 1..n /\ k <= i /\ to[i] \in 1..n
      BY <1>1, <1>3
    <3>2. B[k] < B[to[i]]
      BY <1>5, <1>6, <1>7, <3>1
    <3>3. ~ (to[i] <= k)
      BY <1>6, <3>1, <3>2, SMTT(30)
    <3> QED
      BY <1>1, <3>1, <3>3
  <2>2. k \in Int /\ n \in Int /\ k + 1 \in Int /\ k <= n
    BY <1>1
  <2>3. \A i, j \in k..n : to[i] = to[j] => i = j
    BY <1>1, <1>4
  <2>4. n - k <= n - (k + 1)
    BY <2>1, <2>2, <2>3, PigeonHole
  <2> QED
    BY <2>2, <2>4
<1>8. ASSUME NEW k \in 1..n, A[k] < B[k] PROVE FALSE
  <2>1. ASSUME NEW i \in 1..k PROVE to[i] \in 1..(k - 1)
    <3>1. i \in 1..n /\ i <= k /\ to[i] \in 1..n
      BY <1>1, <1>3
    <3>2. B[to[i]] < B[k]
      BY <1>5, <1>6, <1>8, <3>1
    <3>3. ~ (k <= to[i])
      BY <1>6, <3>1, <3>2, SMTT(30)
    <3> QED
      BY <1>1, <3>1, <3>3
  <2>2. k \in Int /\ 1 \in Int /\ k - 1 \in Int /\ 1 <= k
    BY <1>1
  <2>3. \A i, j \in 1..k : to[i] = to[j] => i = j
    BY <1>1, <1>4
  <2>4. k - 1 <= (k - 1) - 1
    BY <2>1, <2>2, <2>3, PigeonHole
  <2> QED
    BY <2>2, <2>4
<1>9. \A k \in 1..n : A[k] = B[k]
  <2> TAKE k \in 1..n
  <2>1. A[k] \in Int /\ B[k] \in Int
    BY <1>6
  <2>2. ~ (B[k] < A[k]) /\ ~ (A[k] < B[k])
    BY <1>7, <1>8
  <2> HIDE DEF A, B
  <2> QED
    BY <2>1, <2>2
<1>10. A = B
  BY <1>6, <1>9, SeqEqual
<1> QED
  BY <1>10 DEF A, B

\* hash.ts 41-43: the root does not depend on the order of the leaves.
THEOREM RootIgnoresOrder ==
  ASSUME NEW a \in Seq(Int), NEW b \in Seq(Int), Len(a) = Len(b),
         NEW p \in [1..Len(a) -> 1..Len(a)],
         \A i, j \in 1..Len(a) : p[i] = p[j] => i = j,
         \A i \in 1..Len(a) : a[i] = b[p[i]]
  PROVE  MerkleRoot(a) = MerkleRoot(b)
<1>1. SortedLeaves(a) = SortedLeaves(b)
  BY SortedPermuted, Zenon DEF SortedLeaves
<1>2. Levels(a) = Levels(b)
  BY <1>1, Zenon DEF Levels
<1>3. a = <<>> <=> b = <<>>
  BY EmptySeq
<1> QED
  BY <1>2, <1>3, Zenon DEF MerkleRoot

-----------------------------------------------------------------------------
(* The sorted tree: a root fixes its leaves.                               *)

\* The levels of the sorted tree.
LEMMA LevelsRecursion ==
  ASSUME NEW hashes, Len(hashes) \in Nat
  PROVE  /\ DOMAIN Levels(hashes) = 0..Len(hashes)
         /\ Levels(hashes)[0] = SortedLeaves(hashes)
         /\ \A k \in 1..Len(hashes) :
              Levels(hashes)[k] = IF Len(Levels(hashes)[k - 1]) > 1
                                  THEN NextLevel(Levels(hashes)[k - 1])
                                  ELSE Levels(hashes)[k - 1]
<1> DEFINE Base == SortedLeaves(hashes)
           Step(x, k) == IF Len(x) > 1 THEN NextLevel(x) ELSE x
           Is(f, n) == f = [k \in 0..n |-> IF k = 0 THEN Base ELSE Step(f[k - 1], k)]
           T == {n \in Nat : ~ \E f : Is(f, n)}
           size == Len(hashes)
<1> HIDE DEF Base, Step
<1>1. ASSUME NEW f, NEW n \in Nat, Is(f, n), NEW k \in 0..n
      PROVE  f[k] = IF k = 0 THEN Base ELSE Step(f[k - 1], k)
  <2>1. f[k] = [j \in 0..n |-> IF j = 0 THEN Base ELSE Step(f[j - 1], j)][k]
    BY <1>1, Zenon
  <2> QED
    BY <2>1, Zenon
<1>2. 0 \notin T
  <2>1. Is([k \in 0..0 |-> Base], 0)
    OBVIOUS
  <2> QED
    BY <2>1
<1>3. ASSUME NEW n \in Nat, n \notin T PROVE n + 1 \notin T
  <2>1. PICK f : Is(f, n)
    BY <1>3
  <2> DEFINE g == [k \in 0..(n + 1) |-> IF k <= n THEN f[k] ELSE Step(f[n], k)]
  <2>2. ASSUME NEW k \in 0..(n + 1)
        PROVE  g[k] = IF k = 0 THEN Base ELSE Step(g[k - 1], k)
    <3>1. k # 0 => g[k - 1] = f[k - 1]
      OBVIOUS
    <3>2. CASE k <= n
      <4>1. f[k] = IF k = 0 THEN Base ELSE Step(f[k - 1], k)
        <5> k \in 0..n
          BY <3>2
        <5> HIDE DEF Is
        <5> QED
          BY <1>1, <2>1
      <4>2. g[k] = f[k]
        BY <3>2
      <4> HIDE DEF g
      <4> QED
        BY <3>1, <4>1, <4>2
    <3>3. CASE k = n + 1
      <4>1. g[k] = Step(f[n], k) /\ k # 0 /\ k - 1 = n
        BY <3>3
      <4> HIDE DEF g
      <4> QED
        BY <3>1, <4>1
    <3> QED
      BY <3>2, <3>3
  <2>3. Is(g, n + 1)
    <3> HIDE DEF g
    <3>1. g = [k \in 0..(n + 1) |-> g[k]]
      BY DEF g
    <3> QED
      BY <2>2, <3>1
  <2> QED
    BY <2>3
<1>4. T = {}
  <2> HIDE DEF T
  <2> T \in SUBSET Nat
    BY DEF T
  <2> QED
    BY <1>2, <1>3, NoCounterexample
<1>5. \E f : Is(f, size)
  BY <1>4
<1>6. Levels(hashes) = CHOOSE f : Is(f, size)
  BY DEF Levels, Base, Step
<1>7. Is(Levels(hashes), size)
  BY <1>5, <1>6
<1>8. DOMAIN Levels(hashes) = 0..size
  BY <1>7, Zenon
<1>9. \A k \in 0..size :
        Levels(hashes)[k] = IF k = 0 THEN Base ELSE Step(Levels(hashes)[k - 1], k)
  <2> HIDE DEF Is
  <2> QED
    BY <1>1, <1>7
<1> QED
  BY <1>8, <1>9 DEF Base, Step

\* The lowest level holds the leaves.
LEMMA SortedLevel ==
  ASSUME NEW s \in Seq(Int)
  PROVE  /\ SortedLeaves(s) = [i \in 1..Len(s) |-> LeafHash(Sorted(s)[i])]
         /\ Len(SortedLeaves(s)) = Len(s)
         /\ ToSet(SortedLeaves(s)) = {LeafHash(h) : h \in ToSet(s)}
<1> DEFINE t == Sorted(s)
           f == SortedLeaves(s)
<1>1. Len(s) \in Nat /\ DOMAIN s = 1..Len(s)
  BY LenProperties
<1>2. t \in Seq(Int) /\ Len(t) = Len(s) /\ DOMAIN t = 1..Len(s)
  BY SortedProperties, LenProperties
<1>3. /\ \A i \in 1..Len(s) : Rank(s, i) \in 1..Len(s) /\ t[Rank(s, i)] = s[i]
      /\ \A k \in 1..Len(s) : \E i \in 1..Len(s) : Rank(s, i) = k
  BY RankProperties, SortedProperties
<1> HIDE DEF t
<1>4. f = [i \in 1..Len(s) |-> LeafHash(t[i])]
  BY <1>2 DEF SortedLeaves, t
<1>5. Len(f) = Len(s)
  <2>1. f = [i \in 1..Len(s) |-> f[i]]
    BY <1>4
  <2> HIDE DEF f
  <2> QED
    BY <1>1, <2>1, LenOfFunction
<1>6. ToSet(f) = {LeafHash(h) : h \in ToSet(s)}
  <2> HIDE DEF f
  <2>1. ToSet(f) = {LeafHash(t[i]) : i \in 1..Len(s)}
    BY <1>4 DEF ToSet
  <2>2. {t[i] : i \in 1..Len(s)} = {s[i] : i \in 1..Len(s)}
    <3>1. \A k \in 1..Len(s) : \E i \in 1..Len(s) : t[k] = s[i]
      BY <1>3
    <3>2. \A i \in 1..Len(s) : \E k \in 1..Len(s) : t[k] = s[i]
      BY <1>3
    <3> DEFINE A == {t[i] : i \in 1..Len(s)}
               B == {s[i] : i \in 1..Len(s)}
    <3>3. A \subseteq B
      BY <3>1
    <3>4. B \subseteq A
      BY <3>2
    <3> QED
      BY <3>3, <3>4
  <2> QED
    BY <1>1, <2>1, <2>2, ZenonT(30) DEF ToSet
<1> QED
  BY <1>4, <1>5, <1>6 DEF t

\* A parent level is the pairs of its children, and holds every child.
LEMMA ParentLevel ==
  ASSUME NEW level, Len(level) \in Nat \ {0}, DOMAIN level = 1..Len(level)
  PROVE  /\ Len(NextLevel(level)) = (Len(level) + 1) \div 2
         /\ DOMAIN NextLevel(level) = 1..((Len(level) + 1) \div 2)
         /\ \A x \in ToSet(NextLevel(level)) : \E l, r : x = H(l, r)
         /\ ToSet(level) = UNION {{x[1], x[2]} : x \in ToSet(NextLevel(level))}
<1> DEFINE n == Len(level)
           m == (n + 1) \div 2
           f == NextLevel(level)
<1>1. m \in Nat /\ n \in Nat \ {0}
  OBVIOUS
<1>2. f = [i \in 1..m |-> H(level[2 * i - 1], IF 2 * i <= n THEN level[2 * i] ELSE level[2 * i - 1])]
  <2>1. ASSUME NEW i \in 1..m
        PROVE  H(At(level, 2 * (i - 1)), RightOf(level, 2 * (i - 1) + 1))
                 = H(level[2 * i - 1], IF 2 * i <= n THEN level[2 * i] ELSE level[2 * i - 1])
    <3>1. 2 * (i - 1) + 1 = 2 * i - 1 /\ (2 * i - 1) + 1 = 2 * i /\ (2 * i - 1) - 1 + 1 = 2 * i - 1
      BY <1>1
    <3>2. 2 * i - 1 < n <=> 2 * i <= n
      BY <1>1
    <3> QED
      BY <3>1, <3>2 DEF At, RightOf
  <2> QED
    BY <2>1 DEF NextLevel
<1>3. f = [i \in 1..m |-> f[i]] /\ DOMAIN f = 1..m
  BY <1>2
<1>4. \A i \in 1..m : f[i] = H(level[2 * i - 1], IF 2 * i <= n THEN level[2 * i] ELSE level[2 * i - 1])
  BY <1>2
<1> HIDE DEF f
<1>5. Len(f) = m
  BY <1>1, <1>3, LenOfFunction
<1>6. \A x \in ToSet(f) : \E l, r : x = H(l, r)
  BY <1>3, <1>4 DEF ToSet
<1>7. ASSUME NEW i \in 1..n PROVE \E x \in ToSet(f) : level[i] \in {x[1], x[2]}
  <2>1. (i + 1) \div 2 \in 1..m /\ (i = 2 * ((i + 1) \div 2) - 1 \/ i = 2 * ((i + 1) \div 2))
    BY <1>1
  <2>2. PICK j \in 1..m : i = 2 * j - 1 \/ i = 2 * j
    BY <2>1
  <2>3. f[j] \in ToSet(f)
    BY <1>3 DEF ToSet
  <2>4. CASE i = 2 * j - 1
    <3>1. f[j][1] = level[i]
      BY <1>4, <2>4 DEF H
    <3> QED
      BY <2>3, <3>1
  <2>5. CASE i = 2 * j
    <3>1. f[j][2] = level[i]
      BY <1>4, <2>5 DEF H
    <3> QED
      BY <2>3, <3>1
  <2> QED
    BY <2>2, <2>4, <2>5
<1>8. ASSUME NEW x \in ToSet(f) PROVE {x[1], x[2]} \subseteq ToSet(level)
  <2>1. PICK j \in 1..m : x = f[j]
    BY <1>3 DEF ToSet
  <2>2. 2 * j - 1 \in 1..n /\ (2 * j <= n => 2 * j \in 1..n)
    BY <1>1
  <2>3. x[1] = level[2 * j - 1] /\ x[2] \in {level[2 * j], level[2 * j - 1]}
        /\ (~ (2 * j <= n) => x[2] = level[2 * j - 1])
    BY <1>4, <2>1 DEF H
  <2> QED
    BY <2>2, <2>3 DEF ToSet
<1>9. ToSet(level) = UNION {{x[1], x[2]} : x \in ToSet(f)}
  <2>1. \A y \in ToSet(level) : \E i \in 1..n : y = level[i]
    BY DEF ToSet
  <2> QED
    BY <1>7, <1>8, <2>1
<1> QED
  BY <1>3, <1>5, <1>6, <1>9 DEF f

\* The tree of a sequence that is not empty: its height, its levels, its root.
LEMMA SortedTree ==
  ASSUME NEW s \in Seq(Int), s # <<>>
  PROVE  LET L == Levels(s)
             h == Height(Levels(s))
         IN  /\ h \in Nat /\ h <= Len(s) /\ L[0] = SortedLeaves(s)
             /\ \A k \in 0..h : Len(L[k]) \in Nat \ {0} /\ DOMAIN L[k] = 1..Len(L[k])
             /\ \A k \in 1..h : L[k] = NextLevel(L[k - 1])
             /\ Len(L[h]) = 1 /\ MerkleRoot(s) = L[h][1]
<1> DEFINE L == Levels(s)
           n == Len(s)
           Size(k) == Len(L[k])
           Fine(k) == /\ Size(k) \in Nat \ {0} /\ DOMAIN L[k] = 1..Size(k)
                      /\ Size(k) = 1 \/ Size(k) <= n - k
           T == {k \in Nat : k <= n /\ ~ Fine(k)}
<1>1. n \in Nat \ {0}
  BY LenProperties, EmptySeq
<1>2. /\ DOMAIN L = 0..n /\ L[0] = SortedLeaves(s)
      /\ \A k \in 1..n : L[k] = IF Size(k - 1) > 1 THEN NextLevel(L[k - 1]) ELSE L[k - 1]
  BY <1>1, LevelsRecursion
<1>3. Fine(0)
  <2>1. SortedLeaves(s) = [i \in 1..n |-> LeafHash(Sorted(s)[i])] /\ Len(SortedLeaves(s)) = n
    BY SortedLevel
  <2>2. DOMAIN SortedLeaves(s) = 1..n
    BY <2>1
  <2> HIDE DEF L
  <2> QED
    BY <1>1, <1>2, <2>1, <2>2
<1>a. ASSUME NEW m \in Nat, NEW p \in Nat, NEW k \in Nat, m > 1, m <= p - k
      PROVE  (m + 1) \div 2 \in Nat \ {0} /\ (m + 1) \div 2 <= p - (k + 1)
  <2> DEFINE q == (m + 1) \div 2
  <2>1. 2 * q <= m + 1 /\ q \in Nat \ {0}
    BY <1>a
  <2> HIDE DEF q
  <2>2. q <= p - (k + 1)
    BY <1>a, <2>1
  <2> QED
    BY <2>1, <2>2 DEF q
<1> HIDE DEF L, Size
<1>4. ASSUME NEW k \in Nat, k + 1 \in T PROVE k \in T
  <2>1. k + 1 \in 1..n /\ (k + 1) - 1 = k /\ ~ Fine(k + 1)
    BY <1>1, <1>4
  <2>2. L[k + 1] = IF Size(k) > 1 THEN NextLevel(L[k]) ELSE L[k]
    BY <1>2, <2>1
  <2> SUFFICES ASSUME Fine(k) PROVE FALSE
    BY <2>1
  <2> DEFINE m == Size(k)
  <2>3. CASE m > 1
    <3>1. L[k + 1] = NextLevel(L[k]) /\ m \in Nat \ {0} /\ m = Len(L[k]) /\ DOMAIN L[k] = 1..Len(L[k])
      BY <2>2, <2>3 DEF Size
    <3>2. Size(k + 1) = (m + 1) \div 2 /\ DOMAIN L[k + 1] = 1..((m + 1) \div 2)
      BY <3>1, ParentLevel DEF Size
    <3>3. m <= n - k
      BY <1>1, <2>3
    <3> HIDE DEF m
    <3>4. (m + 1) \div 2 \in Nat \ {0} /\ (m + 1) \div 2 <= n - (k + 1)
      BY <1>1, <1>a, <2>3, <3>1, <3>3
    <3> QED
      BY <2>1, <3>2, <3>4
  <2>4. CASE ~ (m > 1)
    <3>1. L[k + 1] = L[k] /\ Size(k) = 1
      BY <1>1, <2>2, <2>4
    <3> QED
      BY <2>1, <3>1 DEF Size
  <2> QED
    BY <2>3, <2>4
<1>5. T = {}
  <2>1. T \in SUBSET Nat /\ 0 \notin T
    BY <1>3
  <2> HIDE DEF T
  <2> QED
    BY <1>4, <2>1, NoCounterexample
<1>6. \A k \in 0..n : Fine(k)
  BY <1>5
<1> HIDE DEF T
<1> DEFINE One == {k \in Nat : k <= n /\ Size(k) = 1}
<1>7. PICK h \in One : \A k \in One : h <= k
  <2>1. n \in One
    <3> n \in 0..n
      BY <1>1
    <3>1. Fine(n)
      BY <1>6
    <3> QED
      BY <1>1, <3>1
  <2>2. One \in SUBSET Nat /\ One # {}
    BY <2>1
  <2> HIDE DEF One
  <2> QED
    BY <2>2, Minimum
<1>8. h \in 0..n /\ Size(h) = 1 /\ \A k \in 0..n : k < h => Size(k) > 1
  <2>1. h \in 0..n /\ Size(h) = 1
    BY <1>1, <1>7
  <2>2. ASSUME NEW k \in 0..n, k < h PROVE Size(k) > 1
    <3>1. Size(k) \in Nat \ {0}
      BY <1>6
    <3>2. k \notin One
      BY <1>1, <1>7, <2>2
    <3>3. Size(k) # 1
      BY <1>1, <3>2
    <3> QED
      BY <3>1, <3>3
  <2> QED
    BY <2>1, <2>2
<1>9. Height(L) = h
  <2>1. \A k \in 0..n : Size(k) = 1 /\ (\A j \in 0..n : j < k => Size(j) > 1) => k = h
    <3> SUFFICES ASSUME NEW k \in 0..n, Size(k) = 1, \A j \in 0..n : j < k => Size(j) > 1
                 PROVE  k = h
      OBVIOUS
    <3>1. ~ (k < h)
      BY <1>1, <1>8
    <3>2. ~ (h < k)
      BY <1>1, <1>8
    <3> QED
      BY <1>1, <1>8, <3>1, <3>2
  <2> HIDE DEF Fine, One
  <2> QED
    BY <1>2, <1>8, <2>1 DEF Height, Size
<1>10. \A k \in 1..h : L[k] = NextLevel(L[k - 1])
  <2> SUFFICES ASSUME NEW k \in 1..h PROVE L[k] = NextLevel(L[k - 1])
    OBVIOUS
  <2>1. k \in 1..n /\ k - 1 \in 0..n /\ k - 1 < h
    BY <1>1, <1>8
  <2>2. Size(k - 1) > 1
    BY <1>8, <2>1
  <2> QED
    BY <1>2, <2>1, <2>2
<1>11. MerkleRoot(s) = L[h][1]
  BY <1>9 DEF MerkleRoot, L
<1>12. \A k \in 0..h : Size(k) \in Nat \ {0} /\ DOMAIN L[k] = 1..Size(k)
  <2>1. \A k \in 0..h : k \in 0..n
    BY <1>1, <1>8
  <2> QED
    BY <1>6, <2>1
<1> HIDE DEF Fine, One
<1> QED
  BY <1>1, <1>2, <1>8, <1>9, <1>10, <1>11, <1>12 DEF L, Size

\* A root fixes its level from above: equal roots have equal levels, and a leaf
\* is no pair, so that the lower tree cannot end before the higher one.
LEMMA LevelsAgree ==
  ASSUME NEW a \in Seq(Int), NEW b \in Seq(Int), a # <<>>, b # <<>>,
         MerkleRoot(a) = MerkleRoot(b), Height(Levels(a)) <= Height(Levels(b))
  PROVE  ToSet(a) = ToSet(b)
<1> DEFINE A == Levels(a)
           B == Levels(b)
           m == Height(Levels(a))
           n == Height(Levels(b))
           T == {k \in Nat : k <= m /\ ToSet(A[m - k]) # ToSet(B[n - k])}
<1>1. /\ m \in Nat /\ A[0] = SortedLeaves(a)
      /\ \A k \in 0..m : Len(A[k]) \in Nat \ {0} /\ DOMAIN A[k] = 1..Len(A[k])
      /\ \A k \in 1..m : A[k] = NextLevel(A[k - 1])
      /\ Len(A[m]) = 1 /\ MerkleRoot(a) = A[m][1]
  BY SortedTree
<1>2. /\ n \in Nat /\ B[0] = SortedLeaves(b)
      /\ \A k \in 0..n : Len(B[k]) \in Nat \ {0} /\ DOMAIN B[k] = 1..Len(B[k])
      /\ \A k \in 1..n : B[k] = NextLevel(B[k - 1])
      /\ Len(B[n]) = 1 /\ MerkleRoot(b) = B[n][1]
  BY SortedTree
<1>3. m <= n
  OBVIOUS
<1> HIDE DEF A, B, m, n
<1>4. 0 \notin T
  <2>1. m - 0 = m /\ n - 0 = n /\ m \in 0..m /\ n \in 0..n /\ 1..1 = {1}
    BY <1>1, <1>2
  <2>2. DOMAIN A[m] = {1} /\ DOMAIN B[n] = {1}
    BY <1>1, <1>2, <2>1
  <2>3. ToSet(A[m]) = {A[m][1]} /\ ToSet(B[n]) = {B[n][1]}
    BY <2>2 DEF ToSet
  <2> QED
    BY <1>1, <1>2, <2>1, <2>3
<1>5. ASSUME NEW k \in Nat, k + 1 \in T PROVE k \in T
  <2> DEFINE x == A[m - (k + 1)]
             y == B[n - (k + 1)]
  <2>1. /\ k + 1 <= m /\ ToSet(x) # ToSet(y) /\ k <= m
        /\ m - k \in 1..m /\ (m - k) - 1 = m - (k + 1) /\ m - (k + 1) \in 0..m
        /\ n - k \in 1..n /\ (n - k) - 1 = n - (k + 1) /\ n - (k + 1) \in 0..n
    BY <1>1, <1>2, <1>3, <1>5
  <2>2. A[m - k] = NextLevel(x) /\ Len(x) \in Nat \ {0} /\ DOMAIN x = 1..Len(x)
    BY <1>1, <2>1
  <2>3. B[n - k] = NextLevel(y) /\ Len(y) \in Nat \ {0} /\ DOMAIN y = 1..Len(y)
    BY <1>2, <2>1
  <2> HIDE DEF x, y
  <2>4. /\ ToSet(x) = UNION {{v[1], v[2]} : v \in ToSet(A[m - k])}
        /\ ToSet(y) = UNION {{v[1], v[2]} : v \in ToSet(B[n - k])}
    BY <2>2, <2>3, ParentLevel
  <2>5. ToSet(A[m - k]) # ToSet(B[n - k])
    BY <2>1, <2>4
  <2> QED
    BY <2>1, <2>5
<1>6. \A k \in 0..m : ToSet(A[m - k]) = ToSet(B[n - k])
  <2>1. T = {}
    <3> T \in SUBSET Nat
      OBVIOUS
    <3> HIDE DEF T
    <3> QED
      BY <1>4, <1>5, NoCounterexample
  <2> QED
    BY <1>1, <2>1
<1>7. ToSet(A[0]) = ToSet(B[n - m])
  <2> m \in 0..m /\ m - m = 0
    BY <1>1
  <2> QED
    BY <1>6
<1>8. /\ ToSet(A[0]) = {LeafHash(h) : h \in ToSet(a)}
      /\ ToSet(B[0]) = {LeafHash(h) : h \in ToSet(b)}
  BY <1>1, <1>2, SortedLevel
<1>9. m = n
  <2> SUFFICES ASSUME m # n PROVE FALSE
    OBVIOUS
  <2> DEFINE k == n - m
             y == B[k - 1]
  <2>1. k \in 1..n /\ k - 1 \in 0..n /\ k \in 0..n
    BY <1>1, <1>2, <1>3
  <2>2. B[k] = NextLevel(y) /\ Len(y) \in Nat \ {0} /\ DOMAIN y = 1..Len(y)
    BY <1>2, <2>1
  <2>3. B[k][1] \in ToSet(B[k])
    <3>1. 1 \in DOMAIN B[k]
      BY <1>2, <2>1, SMTT(30)
    <3> QED
      BY <3>1 DEF ToSet
  <2> HIDE DEF y, k
  <2>4. PICK l, r : B[k][1] = H(l, r)
    BY <2>2, <2>3, ParentLevel
  <2>5. PICK h : B[k][1] = LeafHash(h)
    BY <1>7, <1>8, <2>3 DEF k
  <2>6. H(l, r) # LeafHash(h)
    BY DEF H, LeafHash
  <2> QED
    BY <2>4, <2>5, <2>6
<1>10. {LeafHash(h) : h \in ToSet(a)} = {LeafHash(h) : h \in ToSet(b)}
  <2> n - m = 0
    BY <1>2, <1>9
  <2> QED
    BY <1>7, <1>8
<1>11. \A h, g : LeafHash(h) = LeafHash(g) => h = g
  BY DEF LeafHash
<1>12. ASSUME NEW h PROVE h \in ToSet(a) <=> h \in ToSet(b)
  <2>1. h \in ToSet(a) <=> LeafHash(h) \in {LeafHash(g) : g \in ToSet(a)}
    BY <1>11
  <2>2. h \in ToSet(b) <=> LeafHash(h) \in {LeafHash(g) : g \in ToSet(b)}
    BY <1>11
  <2> QED
    BY <1>10, <2>1, <2>2
<1> QED
  BY <1>12

\* No leaf and no pair is the root of no leaves.
LEMMA RootIsNode ==
  ASSUME NEW s \in Seq(Int), s # <<>>
  PROVE  MerkleRoot(s) # EmptyRoot
<1> DEFINE L == Levels(s)
           h == Height(Levels(s))
<1>1. /\ h \in Nat /\ L[0] = SortedLeaves(s)
      /\ \A k \in 0..h : Len(L[k]) \in Nat \ {0} /\ DOMAIN L[k] = 1..Len(L[k])
      /\ \A k \in 1..h : L[k] = NextLevel(L[k - 1])
      /\ MerkleRoot(s) = L[h][1]
  BY SortedTree
<1>2. ToSet(L[0]) = {LeafHash(x) : x \in ToSet(s)}
  BY <1>1, SortedLevel
<1> HIDE DEF L, h
<1>3. L[h][1] \in ToSet(L[h])
  <2>1. 1 \in DOMAIN L[h]
    <3> h \in 0..h
      BY <1>1
    <3> QED
      BY <1>1
  <2> QED
    BY <2>1 DEF ToSet
<1>4. CASE h = 0
  <2>1. PICK x : L[h][1] = LeafHash(x)
    BY <1>2, <1>3, <1>4
  <2> QED
    BY <1>1, <2>1 DEF LeafHash, EmptyRoot
<1>5. CASE h # 0
  <2>1. h \in 1..h /\ h - 1 \in 0..h
    BY <1>1, <1>5
  <2> DEFINE y == L[h - 1]
  <2>2. L[h] = NextLevel(y) /\ Len(y) \in Nat \ {0} /\ DOMAIN y = 1..Len(y)
    BY <1>1, <2>1
  <2> HIDE DEF y
  <2>3. PICK l, r : L[h][1] = H(l, r)
    BY <1>3, <2>2, ParentLevel
  <2> QED
    BY <1>1, <2>3 DEF H, EmptyRoot
<1> QED
  BY <1>4, <1>5

\* The sorted root fixes the set of leaf hashes.
THEOREM RootBindsSet ==
  ASSUME NEW a \in Seq(Int), NEW b \in Seq(Int), MerkleRoot(a) = MerkleRoot(b)
  PROVE  ToSet(a) = ToSet(b)
<1>1. MerkleRoot(<<>>) = EmptyRoot
  BY DEF MerkleRoot
<1>2. CASE a = <<>> \/ b = <<>>
  <2>1. a = <<>> /\ b = <<>>
    BY <1>1, <1>2, RootIsNode
  <2> QED
    BY <2>1
<1>3. CASE a # <<>> /\ b # <<>>
  <2>1. Height(Levels(a)) \in Nat /\ Height(Levels(b)) \in Nat
    BY <1>3, SortedTree
  <2>2. Height(Levels(a)) <= Height(Levels(b)) \/ Height(Levels(b)) <= Height(Levels(a))
    BY <2>1
  <2> QED
    BY <1>3, <2>2, LevelsAgree
<1> QED
  BY <1>2, <1>3

\* A sequence without duplicates has as many positions as elements.
LEMMA DistinctLength ==
  ASSUME NEW s \in Seq(Int), NoDuplicates(s)
  PROVE  Len(s) = Cardinality(ToSet(s))
<1> DEFINE f == [i \in 1..Len(s) |-> s[i]]
<1>1. Len(s) \in Nat /\ DOMAIN s = 1..Len(s)
  BY LenProperties
<1>2. IsFiniteSet(1..Len(s)) /\ Cardinality(1..Len(s)) = Len(s)
  BY <1>1, FS_Interval, SMTT(30)
<1>3. f \in Bijection(1..Len(s), ToSet(s))
  BY <1>1 DEF NoDuplicates, ToSet, Bijection, Injection, Surjection, IsInjective
<1>4. ExistsBijection(1..Len(s), ToSet(s))
  BY <1>3 DEF ExistsBijection
<1> QED
  BY <1>2, <1>4, FS_Bijection

\* Sequences with the same bag of hashes hold them in another order: the
\* positions of each hash in one correspond to its positions in the other.
LEMMA BagInjects ==
  ASSUME NEW a \in Seq(Int), NEW b \in Seq(Int), ToBag(a) = ToBag(b)
  PROVE  \E p \in Injection(1..Len(a), 1..Len(b)) : \A i \in 1..Len(a) : a[i] = b[p[i]]
<1> DEFINE Places(s, x) == {i \in 1..Len(s) : s[i] = x}
           Match(x) == CHOOSE g : g \in Bijection(Places(a, x), Places(b, x))
           p == [i \in 1..Len(a) |-> Match(a[i])[i]]
<1>1. /\ Len(a) \in Nat /\ DOMAIN a = 1..Len(a) /\ IsFiniteSet(1..Len(a))
      /\ Len(b) \in Nat /\ DOMAIN b = 1..Len(b) /\ IsFiniteSet(1..Len(b))
  BY LenProperties, FS_Interval
<1>2. ASSUME NEW x \in ToSet(a)
      PROVE  Match(x) \in Bijection(Places(a, x), Places(b, x))
  <2>1. x \in Range(a) /\ DOMAIN ToBag(a) = Range(a)
    BY DEF ToSet, Range, ToBag
  <2>2. x \in Range(b)
    <3> DOMAIN ToBag(b) = Range(b)
      BY DEF ToBag
    <3> QED
      BY <2>1
  <2>3. ToBag(a)[x] = Cardinality(Places(a, x))
    BY <1>1, <2>1 DEF ToBag
  <2>4. ToBag(b)[x] = Cardinality(Places(b, x))
    BY <1>1, <2>2 DEF ToBag
  <2>5. IsFiniteSet(Places(a, x)) /\ IsFiniteSet(Places(b, x))
    <3> Places(a, x) \subseteq 1..Len(a) /\ Places(b, x) \subseteq 1..Len(b)
      OBVIOUS
    <3> HIDE DEF Places
    <3> QED
      BY <1>1, FS_Subset
  <2>6. ExistsBijection(Places(a, x), Places(b, x))
    <3> HIDE DEF Places
    <3> QED
      BY <2>3, <2>4, <2>5, FS_SameCardinalityBij
  <2> HIDE DEF Places
  <2> QED
    BY <2>6 DEF ExistsBijection
<1> HIDE DEF Match
<1>3. ASSUME NEW i \in 1..Len(a)
      PROVE  /\ a[i] \in ToSet(a) /\ i \in Places(a, a[i])
             /\ p[i] \in Places(b, a[i]) /\ p[i] = Match(a[i])[i]
  <2>1. a[i] \in ToSet(a) /\ i \in Places(a, a[i])
    BY <1>1 DEF ToSet
  <2>2. p[i] = Match(a[i])[i]
    OBVIOUS
  <2> HIDE DEF Places, p
  <2>3. Match(a[i])[i] \in Places(b, a[i])
    <3>1. Match(a[i]) \in Bijection(Places(a, a[i]), Places(b, a[i]))
      BY <1>2, <2>1
    <3> QED
      BY <2>1, <3>1 DEF Bijection, Injection
  <2> QED
    BY <2>1, <2>2, <2>3
<1>4. \A i \in 1..Len(a) : p[i] \in 1..Len(b) /\ a[i] = b[p[i]]
  <2> HIDE DEF p
  <2> QED
    BY <1>3
<1>5. ASSUME NEW i \in 1..Len(a), NEW j \in 1..Len(a), p[i] = p[j] PROVE i = j
  <2>1. a[i] = a[j]
    <3> HIDE DEF p
    <3> QED
      BY <1>4, <1>5
  <2> DEFINE x == a[i]
  <2>2. x \in ToSet(a) /\ i \in Places(a, x) /\ j \in Places(a, x) /\ Match(x)[i] = Match(x)[j]
    <3> HIDE DEF p, Places
    <3> QED
      BY <1>3, <1>5, <2>1
  <2>3. Match(x) \in Bijection(Places(a, x), Places(b, x))
    BY <1>2, <2>2
  <2> HIDE DEF x, Places
  <2> QED
    BY <2>2, <2>3 DEF Bijection, Injection, IsInjective
<1>6. p \in [1..Len(a) -> 1..Len(b)]
  <2>1. DOMAIN p = 1..Len(a) /\ p = [i \in 1..Len(a) |-> p[i]]
    OBVIOUS
  <2> HIDE DEF p
  <2> QED
    BY <1>4, <2>1
<1>7. p \in Injection(1..Len(a), 1..Len(b))
  <2> HIDE DEF p
  <2> QED
    BY <1>5, <1>6 DEF Injection, IsInjective
<1> HIDE DEF p
<1> QED
  BY <1>4, <1>7

LEMMA BagRoot ==
  ASSUME NEW a \in Seq(Int), NEW b \in Seq(Int), ToBag(a) = ToBag(b)
  PROVE  MerkleRoot(a) = MerkleRoot(b)
<1>1. PICK p \in Injection(1..Len(a), 1..Len(b)) : \A i \in 1..Len(a) : a[i] = b[p[i]]
  BY BagInjects
<1>2. PICK q \in Injection(1..Len(b), 1..Len(a)) : TRUE
  BY BagInjects
<1>3. /\ Len(a) \in Nat /\ IsFiniteSet(1..Len(a)) /\ Cardinality(1..Len(a)) = Len(a)
      /\ Len(b) \in Nat /\ IsFiniteSet(1..Len(b)) /\ Cardinality(1..Len(b)) = Len(b)
  <2>1. \A n \in Nat : IsFiniteSet(1..n) /\ Cardinality(1..n) = n
    BY FS_Interval
  <2> QED
    BY <2>1, LenProperties
<1>4. Len(a) <= Len(b) /\ Len(b) <= Len(a)
  <2>1. Cardinality(1..Len(a)) <= Cardinality(1..Len(b))
    BY <1>1, <1>3, FS_Injection
  <2>2. Cardinality(1..Len(b)) <= Cardinality(1..Len(a))
    BY <1>2, <1>3, FS_Injection
  <2> QED
    BY <1>3, <2>1, <2>2
<1>5. Len(a) = Len(b)
  BY <1>3, <1>4
<1>6. /\ p \in [1..Len(a) -> 1..Len(a)]
      /\ \A i, j \in 1..Len(a) : p[i] = p[j] => i = j
  BY <1>5, <1>1 DEF Injection, IsInjective
<1> QED
  BY <1>1, <1>5, <1>6, RootIgnoresOrder

\* A tree that fits does not overflow: its root is a leaf or a pair.
LEMMA FittingRoot ==
  ASSUME NEW leaves \in Seq(Nat), Len(leaves) <= Capacity[ZkDepth]
  PROVE  ZkRoot(leaves) # Overflow
<1>1. ZkDepth \in Nat /\ ZkDepth \in 0..ZkDepth
  BY ZkDepthAssumption
<1>2. ZkRoot(leaves) = Node(leaves, ZkDepth, 1)
  <2>1. ~ (Len(leaves) > Capacity[ZkDepth])
    BY <1>1, LenProperties, CapacityPositive
  <2>2. Len(FixedTree(leaves)[ZkDepth]) \in Nat \ {0}
    BY <1>1, LevelLength
  <2> QED
    BY <2>1, <2>2 DEF ZkRoot, Node
<1>3. CASE ZkDepth = 0
  <2>1. \E x : Node(leaves, ZkDepth, 1) = LeafHash(x)
    BY <1>3, LeafNodes
  <2>2. \A x : LeafHash(x) # Overflow
    BY DEF LeafHash, Overflow
  <2> QED
    BY <1>2, <2>1, <2>2
<1>4. CASE ZkDepth # 0
  <2>1. ZkDepth \in 1..ZkDepth
    BY <1>1, <1>4
  <2>2. \E l, r : Node(leaves, ZkDepth, 1) = H(l, r)
    BY <2>1, NodeStep
  <2>3. \A l, r : H(l, r) # Overflow
    BY DEF H, Overflow
  <2> QED
    BY <1>2, <2>2, <2>3
<1> QED
  BY <1>3, <1>4

\* The leaves of the bounded runs are sequences of positive hashes.
LeavesInv == left \in Seq(Hashes) /\ right \in Seq(Hashes)

LEMMA LeavesInvariance == LeavesSpec => []LeavesInv
<1>1. LeavesInit => LeavesInv
  BY DEF LeavesInit, LeavesInv
<1>2. LeavesInv /\ [LeavesNext]_leafVars => LeavesInv'
  <2> SUFFICES ASSUME LeavesInv, [LeavesNext]_leafVars PROVE LeavesInv'
    OBVIOUS
  <2>1. ASSUME NEW h \in Hashes, AddLeft(h) PROVE LeavesInv'
    BY <2>1, AppendProperties DEF LeavesInv, AddLeft
  <2>2. ASSUME NEW h \in Hashes, AddRight(h) PROVE LeavesInv'
    BY <2>2, AppendProperties DEF LeavesInv, AddRight
  <2>3. CASE UNCHANGED leafVars
    BY <2>3 DEF LeavesInv, leafVars
  <2> QED
    BY <2>1, <2>2, <2>3 DEF LeavesNext
<1> QED
  BY <1>1, <1>2, PTL DEF LeavesSpec

\* Equal roots mean equal leaves (RootsBindLeaves), for every depth and every
\* length: a sorted root fixes the set of leaf hashes and is fixed by their
\* bag, a zk root fixes the sequence and is that of the zero-padded full tree.
THEOREM RootsBind == LeavesSpec => []RootsBindLeaves
<1>1. LeavesInv => SortedRootBindsLeaves
  <2> SUFFICES ASSUME LeavesInv PROVE SortedRootBindsLeaves
    OBVIOUS
  <2>1. left \in Seq(Int) /\ right \in Seq(Int)
    <3> Hashes \subseteq Int
      BY HashesAssumption
    <3> QED
      BY SeqMonotonic DEF LeavesInv
  <2>2. ToBag(left) = ToBag(right) => MerkleRoot(left) = MerkleRoot(right)
    BY <2>1, BagRoot
  <2>3. MerkleRoot(left) = MerkleRoot(right) => ToSet(left) = ToSet(right)
    BY <2>1, RootBindsSet
  <2>4. NoDuplicates(left) /\ NoDuplicates(right) /\ ToSet(left) = ToSet(right)
          => Len(left) = Len(right)
    <3> SUFFICES ASSUME NoDuplicates(left), NoDuplicates(right), ToSet(left) = ToSet(right)
                 PROVE  Len(left) = Len(right)
      OBVIOUS
    <3>1. Len(left) = Cardinality(ToSet(left))
      BY <2>1, DistinctLength
    <3>2. Len(right) = Cardinality(ToSet(right))
      BY <2>1, DistinctLength
    <3> QED
      BY <3>1, <3>2
  <2> QED
    BY <2>2, <2>3, <2>4 DEF SortedRootBindsLeaves
<1>2. LeavesInv => ZkRootBindsSequence
  <2> SUFFICES ASSUME LeavesInv PROVE ZkRootBindsSequence
    OBVIOUS
  <2>1. left \in Seq(Nat \ {0}) /\ right \in Seq(Nat \ {0}) /\ left \in Seq(Nat)
    <3> Hashes \subseteq Nat \ {0} /\ Hashes \subseteq Nat
      BY HashesAssumption
    <3> QED
      BY SeqMonotonic DEF LeavesInv
  <2>2. (ZkRoot(left) = ZkRoot(right) /\ ZkRoot(left) # Overflow) => left = right
    BY <2>1, ZkRootBinds
  <2>3. Len(left) <= Capacity[ZkDepth] => ZkRoot(left) = DenseZkRoot(left)
    <3> SUFFICES ASSUME Len(left) <= Capacity[ZkDepth] PROVE ZkRoot(left) = DenseZkRoot(left)
      OBVIOUS
    <3>1. ZkRoot(left) # Overflow
      BY <2>1, FittingRoot
    <3> QED
      BY <2>1, <3>1, SparseIsDense
  <2> QED
    BY <2>2, <2>3 DEF ZkRootBindsSequence
<1> QED
  BY <1>1, <1>2, LeavesInvariance, PTL DEF RootsBindLeaves

-----------------------------------------------------------------------------
(* Inclusion proofs of both trees.                                         *)

\* The positions on the way from a leaf to the root.
LEMMA HalvesRecursion ==
  ASSUME NEW index \in Nat, NEW size \in Nat
  PROVE  /\ Halves(index, size)[0] = index
         /\ \A k \in 1..size : Halves(index, size)[k] = Halves(index, size)[k - 1] \div 2
         /\ \A k \in 0..size : Halves(index, size)[k] \in Nat
<1> DEFINE Base == index
           Step(x, k) == x \div 2
           Is(f, n) == f = [k \in 0..n |-> IF k = 0 THEN Base ELSE Step(f[k - 1], k)]
           T == {n \in Nat : ~ \E f : Is(f, n)}
           idx == Halves(index, size)
<1> HIDE DEF Base, Step
<1>1. ASSUME NEW f, NEW n \in Nat, Is(f, n), NEW k \in 0..n
      PROVE  f[k] = IF k = 0 THEN Base ELSE Step(f[k - 1], k)
  <2>1. f[k] = [j \in 0..n |-> IF j = 0 THEN Base ELSE Step(f[j - 1], j)][k]
    BY <1>1, Zenon
  <2> QED
    BY <2>1, Zenon
<1>2. 0 \notin T
  <2>1. Is([k \in 0..0 |-> Base], 0)
    OBVIOUS
  <2> QED
    BY <2>1
<1>3. ASSUME NEW n \in Nat, n \notin T PROVE n + 1 \notin T
  <2>1. PICK f : Is(f, n)
    BY <1>3
  <2> DEFINE g == [k \in 0..(n + 1) |-> IF k <= n THEN f[k] ELSE Step(f[n], k)]
  <2>2. ASSUME NEW k \in 0..(n + 1)
        PROVE  g[k] = IF k = 0 THEN Base ELSE Step(g[k - 1], k)
    <3>1. k # 0 => g[k - 1] = f[k - 1]
      OBVIOUS
    <3>2. CASE k <= n
      <4>1. f[k] = IF k = 0 THEN Base ELSE Step(f[k - 1], k)
        <5> k \in 0..n
          BY <3>2
        <5> HIDE DEF Is
        <5> QED
          BY <1>1, <2>1
      <4>2. g[k] = f[k]
        BY <3>2
      <4> HIDE DEF g
      <4> QED
        BY <3>1, <4>1, <4>2
    <3>3. CASE k = n + 1
      <4>1. g[k] = Step(f[n], k) /\ k # 0 /\ k - 1 = n
        BY <3>3
      <4> HIDE DEF g
      <4> QED
        BY <3>1, <4>1
    <3> QED
      BY <3>2, <3>3
  <2>3. Is(g, n + 1)
    <3> HIDE DEF g
    <3>1. g = [k \in 0..(n + 1) |-> g[k]]
      BY DEF g
    <3> QED
      BY <2>2, <3>1
  <2> QED
    BY <2>3
<1>4. T = {}
  <2> HIDE DEF T
  <2> T \in SUBSET Nat
    BY DEF T
  <2> QED
    BY <1>2, <1>3, NoCounterexample
<1>5. \E f : Is(f, size)
  BY <1>4
<1>6. idx = CHOOSE f : Is(f, size)
  BY DEF Halves, Base, Step
<1>7. Is(idx, size)
  BY <1>5, <1>6
<1>8. \A k \in 0..size : idx[k] = IF k = 0 THEN Base ELSE Step(idx[k - 1], k)
  <2> HIDE DEF Is, idx
  <2> QED
    BY <1>1, <1>7
<1> HIDE DEF T, idx
<1>9. idx[0] = index /\ \A k \in 1..size : idx[k] = idx[k - 1] \div 2
  BY <1>8 DEF Base, Step
<1> DEFINE U == {k \in Nat : k <= size /\ idx[k] \notin Nat}
<1>10. ASSUME NEW k \in Nat, k + 1 \in U PROVE k \in U
  <2>1. k + 1 \in 1..size /\ (k + 1) - 1 = k /\ idx[k + 1] \notin Nat
    BY <1>10
  <2>2. idx[k + 1] = idx[k] \div 2
    BY <1>9, <2>1
  <2>3. idx[k] \notin Nat
    BY <2>1, <2>2
  <2> QED
    BY <2>1, <2>3
<1>11. U = {}
  <2> U \in SUBSET Nat /\ 0 \notin U
    BY <1>9
  <2> HIDE DEF U
  <2> QED
    BY <1>10, NoCounterexample
<1> QED
  BY <1>9, <1>11 DEF idx

\* The hashes verifyMerkleProof climbs through.
LEMMA SortedClimb ==
  ASSUME NEW proof, Len(proof.siblings) \in Nat
  PROVE  \E climb :
           /\ climb[0] = LeafHash(proof.leaf)
           /\ \A k \in 1..Len(proof.siblings) :
                climb[k] = IF Halves(proof.leafIndex, Len(proof.siblings))[k - 1] % 2 = 1
                           THEN H(proof.siblings[k], climb[k - 1])
                           ELSE H(climb[k - 1], proof.siblings[k])
           /\ VerifyMerkleProof(proof) <=> climb[Len(proof.siblings)] = proof.root
<1> DEFINE Base == LeafHash(proof.leaf)
           Step(x, k) == IF Halves(proof.leafIndex, Len(proof.siblings))[k - 1] % 2 = 1
                         THEN H(proof.siblings[k], x) ELSE H(x, proof.siblings[k])
           Is(f, n) == f = [k \in 0..n |-> IF k = 0 THEN Base ELSE Step(f[k - 1], k)]
           T == {n \in Nat : ~ \E f : Is(f, n)}
           depth == Len(proof.siblings)
           climb == CHOOSE f : Is(f, depth)
<1> HIDE DEF Base, Step
<1>1. ASSUME NEW f, NEW n \in Nat, Is(f, n), NEW k \in 0..n
      PROVE  f[k] = IF k = 0 THEN Base ELSE Step(f[k - 1], k)
  <2>1. f[k] = [j \in 0..n |-> IF j = 0 THEN Base ELSE Step(f[j - 1], j)][k]
    BY <1>1, Zenon
  <2> QED
    BY <2>1, Zenon
<1>2. 0 \notin T
  <2>1. Is([k \in 0..0 |-> Base], 0)
    OBVIOUS
  <2> QED
    BY <2>1
<1>3. ASSUME NEW n \in Nat, n \notin T PROVE n + 1 \notin T
  <2>1. PICK f : Is(f, n)
    BY <1>3
  <2> DEFINE g == [k \in 0..(n + 1) |-> IF k <= n THEN f[k] ELSE Step(f[n], k)]
  <2>2. ASSUME NEW k \in 0..(n + 1)
        PROVE  g[k] = IF k = 0 THEN Base ELSE Step(g[k - 1], k)
    <3>1. k # 0 => g[k - 1] = f[k - 1]
      OBVIOUS
    <3>2. CASE k <= n
      <4>1. f[k] = IF k = 0 THEN Base ELSE Step(f[k - 1], k)
        <5> k \in 0..n
          BY <3>2
        <5> HIDE DEF Is
        <5> QED
          BY <1>1, <2>1
      <4>2. g[k] = f[k]
        BY <3>2
      <4> HIDE DEF g
      <4> QED
        BY <3>1, <4>1, <4>2
    <3>3. CASE k = n + 1
      <4>1. g[k] = Step(f[n], k) /\ k # 0 /\ k - 1 = n
        BY <3>3
      <4> HIDE DEF g
      <4> QED
        BY <3>1, <4>1
    <3> QED
      BY <3>2, <3>3
  <2>3. Is(g, n + 1)
    <3> HIDE DEF g
    <3>1. g = [k \in 0..(n + 1) |-> g[k]]
      BY DEF g
    <3> QED
      BY <2>2, <3>1
  <2> QED
    BY <2>3
<1>4. T = {}
  <2> HIDE DEF T
  <2> T \in SUBSET Nat
    BY DEF T
  <2> QED
    BY <1>2, <1>3, NoCounterexample
<1>5. \E f : Is(f, depth)
  BY <1>4
<1>6. Is(climb, depth)
  BY <1>5
<1>7. \A k \in 0..depth : climb[k] = IF k = 0 THEN Base ELSE Step(climb[k - 1], k)
  <2> HIDE DEF Is, climb
  <2> QED
    BY <1>1, <1>6
<1>8. VerifyMerkleProof(proof) <=> climb[depth] = proof.root
  BY DEF VerifyMerkleProof, Base, Step
<1> QED
  <2> HIDE DEF climb, Is
  <2> QED
    BY <1>7, <1>8 DEF Base, Step

\* With the siblings and the position of one leaf, no other leaf verifies.
LEMMA OneLeafPerPath ==
  ASSUME NEW p, NEW q, Len(p.siblings) \in Nat, VerifyMerkleProof(p),
         q.siblings = p.siblings, q.leafIndex = p.leafIndex, q.root = p.root, q.leaf # p.leaf
  PROVE  ~ VerifyMerkleProof(q)
<1> DEFINE n == Len(p.siblings)
           idx == Halves(p.leafIndex, n)
           sib == p.siblings
<1>1. PICK c : /\ c[0] = LeafHash(p.leaf)
               /\ \A k \in 1..n : c[k] = IF idx[k - 1] % 2 = 1 THEN H(sib[k], c[k - 1])
                                         ELSE H(c[k - 1], sib[k])
               /\ c[n] = p.root
  BY SortedClimb
<1>2. PICK d : /\ d[0] = LeafHash(q.leaf)
               /\ \A k \in 1..n : d[k] = IF idx[k - 1] % 2 = 1 THEN H(sib[k], d[k - 1])
                                         ELSE H(d[k - 1], sib[k])
               /\ VerifyMerkleProof(q) <=> d[n] = q.root
  <2>1. Len(q.siblings) \in Nat
    OBVIOUS
  <2>2. \E d : /\ d[0] = LeafHash(q.leaf)
               /\ \A k \in 1..Len(q.siblings) :
                    d[k] = IF Halves(q.leafIndex, Len(q.siblings))[k - 1] % 2 = 1
                           THEN H(q.siblings[k], d[k - 1]) ELSE H(d[k - 1], q.siblings[k])
               /\ VerifyMerkleProof(q) <=> d[Len(q.siblings)] = q.root
    BY <2>1, SortedClimb
  <2> QED
    BY <2>2
<1> DEFINE T == {k \in Nat : k <= n /\ c[k] = d[k]}
<1> HIDE DEF idx, sib
<1>3. ASSUME NEW k \in Nat, k + 1 \in T PROVE k \in T
  <2>1. k + 1 \in 1..n /\ (k + 1) - 1 = k /\ c[k + 1] = d[k + 1]
    BY <1>3
  <2>2. c[k + 1] = IF idx[k] % 2 = 1 THEN H(sib[k + 1], c[k]) ELSE H(c[k], sib[k + 1])
    BY <1>1, <2>1
  <2>3. d[k + 1] = IF idx[k] % 2 = 1 THEN H(sib[k + 1], d[k]) ELSE H(d[k], sib[k + 1])
    BY <1>2, <2>1
  <2>4. c[k] = d[k]
    <3>1. CASE idx[k] % 2 = 1
      <4> H(sib[k + 1], c[k]) = H(sib[k + 1], d[k])
        BY <2>1, <2>2, <2>3, <3>1
      <4> QED
        BY HashInjective
    <3>2. CASE ~ (idx[k] % 2 = 1)
      <4> H(c[k], sib[k + 1]) = H(d[k], sib[k + 1])
        BY <2>1, <2>2, <2>3, <3>2
      <4> QED
        BY HashInjective
    <3> QED
      BY <3>1, <3>2
  <2> QED
    BY <2>1, <2>4
<1>4. 0 \notin T
  BY <1>1, <1>2 DEF LeafHash
<1>5. T = {}
  <2> T \in SUBSET Nat
    OBVIOUS
  <2> HIDE DEF T
  <2> QED
    BY <1>3, <1>4, NoCounterexample
<1>6. c[n] # d[n]
  BY <1>5
<1> QED
  BY <1>1, <1>2, <1>6

\* The parent of position i is the hash of that node and its sibling.
LEMMA ParentOf ==
  ASSUME NEW level, Len(level) \in Nat \ {0}, NEW i \in 0..(Len(level) - 1)
  PROVE  At(NextLevel(level), i \div 2)
           = IF i % 2 = 1 THEN H(SiblingOf(level, i), At(level, i))
             ELSE H(At(level, i), SiblingOf(level, i))
<1> DEFINE n == Len(level)
           j == i \div 2
<1>1. n \in Nat \ {0} /\ i \in Nat /\ i < n /\ j \in Nat
  OBVIOUS
<1>2. /\ i % 2 \in {0, 1}
      /\ i % 2 = 1 => i = 2 * j + 1
      /\ i % 2 # 1 => i = 2 * j
  BY <1>1
<1>3. j + 1 \in 1..((n + 1) \div 2)
  BY <1>1, <1>2
<1> HIDE DEF j
<1>4. At(NextLevel(level), j) = H(At(level, 2 * ((j + 1) - 1)), RightOf(level, 2 * ((j + 1) - 1) + 1))
  BY <1>3 DEF NextLevel, At
<1>5. 2 * ((j + 1) - 1) = 2 * j
  BY <1>1
<1>6. At(NextLevel(level), j) = H(At(level, 2 * j), RightOf(level, 2 * j + 1))
  BY <1>4, <1>5
<1>7. CASE i % 2 = 1
  <2>1. 2 * j = i - 1 /\ 2 * j + 1 = i /\ i - 1 < n
    BY <1>1, <1>2, <1>7
  <2>2. SiblingOf(level, i) = At(level, i - 1)
    BY <1>7, <2>1 DEF SiblingOf
  <2>3. RightOf(level, i) = At(level, i)
    BY <1>1 DEF RightOf
  <2> QED
    BY <1>6, <1>7, <2>1, <2>2, <2>3 DEF j
<1>8. CASE i % 2 # 1
  <2>1. 2 * j = i /\ 2 * j + 1 = i + 1 /\ (i + 1) - 1 = i
    BY <1>1, <1>2, <1>8
  <2>2. SiblingOf(level, i) = IF i + 1 < n THEN At(level, i + 1) ELSE At(level, i)
    BY <1>8 DEF SiblingOf
  <2>3. RightOf(level, i + 1) = IF i + 1 < n THEN At(level, i + 1) ELSE At(level, i)
    BY <2>1 DEF RightOf
  <2> QED
    BY <1>6, <1>8, <2>1, <2>2, <2>3 DEF j
<1> QED
  BY <1>7, <1>8

\* indexOf finds a hash of the sequence.
LEMMA FirstIndex ==
  ASSUME NEW s \in Seq(Int), NEW h \in ToSet(s)
  PROVE  LET first == SelectInSeq(Sorted(s), LAMBDA x : x = h) - 1
         IN  first \in 0..(Len(s) - 1) /\ Sorted(s)[first + 1] = h
<1> DEFINE t == Sorted(s)
           I == {i \in 1..Len(t) : t[i] = h}
<1>1. Len(s) \in Nat /\ DOMAIN s = 1..Len(s) /\ Len(t) = Len(s)
  BY LenProperties, SortedProperties
<1>2. I # {}
  <2>1. PICK i \in 1..Len(s) : s[i] = h
    BY <1>1 DEF ToSet
  <2>2. Rank(s, i) \in 1..Len(s) /\ t[Rank(s, i)] = h
    BY <2>1, RankProperties, SortedProperties
  <2> QED
    BY <1>1, <2>2
<1>3. Min(I) \in I
  <2> I \in SUBSET Nat
    BY <1>1
  <2> HIDE DEF I
  <2>1. \E m \in I : \A n \in I : m <= n
    BY <1>2, Minimum
  <2> QED
    BY <2>1 DEF Min
<1>4. SelectInSeq(t, LAMBDA x : x = h) = Min(I)
  BY <1>2 DEF SelectInSeq
<1>5. Min(I) \in 1..Len(s) /\ t[Min(I)] = h
  BY <1>1, <1>3
<1> DEFINE m == Min(I)
<1> HIDE DEF t, I, m
<1>6. m \in 1..Len(s) /\ t[m] = h
  BY <1>5 DEF m
<1>7. m - 1 \in 0..(Len(s) - 1) /\ (m - 1) + 1 = m
  BY <1>1, <1>6
<1> QED
  BY <1>4, <1>6, <1>7 DEF m, t

\* The proof of a leaf climbs through the levels of the tree to its root, and
\* no other leaf does along the same path.
LEMMA SortedProof ==
  ASSUME NEW s \in Seq(Int), NEW h \in ToSet(s)
  PROVE  LET p == MerkleProof(s, h)
         IN  /\ VerifyMerkleProof(p) /\ p.root = MerkleRoot(s)
             /\ \A g : g # h => ~ VerifyMerkleProof([p EXCEPT !.leaf = g])
<1> DEFINE p == MerkleProof(s, h)
           L == Levels(s)
           n == Height(Levels(s))
           first == SelectInSeq(Sorted(s), LAMBDA x : x = h) - 1
           idx == Halves(first, n)
           sib == [k \in 1..n |-> SiblingOf(L[k - 1], idx[k - 1])]
<1>1. /\ DOMAIN s = 1..Len(s) /\ Len(s) \in Nat
      /\ s # <<>> /\ Contains(s, h)
  <2>1. DOMAIN s = 1..Len(s) /\ Len(s) \in Nat
    BY LenProperties
  <2>2. Contains(s, h)
    BY <2>1 DEF Contains, ToSet
  <2>3. s # <<>>
    BY <2>2 DEF Contains
  <2> QED
    BY <2>1, <2>2, <2>3
<1>2. p = [leaf |-> h, leafIndex |-> first, siblings |-> sib, root |-> MerkleRoot(s)]
  BY <1>1, Zenon DEF MerkleProof
<1>3. /\ n \in Nat /\ L[0] = SortedLeaves(s)
      /\ \A k \in 0..n : Len(L[k]) \in Nat \ {0}
      /\ \A k \in 1..n : L[k] = NextLevel(L[k - 1])
      /\ Len(L[n]) = 1 /\ MerkleRoot(s) = L[n][1]
      /\ \A k \in 0..n : DOMAIN L[k] = 1..Len(L[k])
  BY <1>1, SortedTree
<1>4. first \in 0..(Len(s) - 1) /\ Sorted(s)[first + 1] = h
  BY FirstIndex
<1> HIDE DEF L, n, first
<1>5. first \in Nat
  BY <1>1, <1>4
<1>6. /\ idx[0] = first
      /\ \A k \in 1..n : idx[k] = idx[k - 1] \div 2
      /\ \A k \in 0..n : idx[k] \in Nat
  BY <1>3, <1>5, HalvesRecursion
<1>7. sib \in [1..n -> {sib[k] : k \in 1..n}] /\ Len(sib) = n
  <2>1. sib = [k \in 1..n |-> sib[k]]
    OBVIOUS
  <2> HIDE DEF sib
  <2> QED
    BY <1>3, <2>1, LenOfFunction
<1>8. \A k \in 1..n : sib[k] = SiblingOf(L[k - 1], idx[k - 1])
  OBVIOUS
<1> HIDE DEF idx, sib, p
<1>9. /\ p.leaf = h /\ p.leafIndex = first /\ p.siblings = sib /\ p.root = MerkleRoot(s)
      /\ Len(p.siblings) = n
  BY <1>2, <1>7
<1>10. PICK climb :
         /\ climb[0] = LeafHash(h)
         /\ \A k \in 1..n : climb[k] = IF idx[k - 1] % 2 = 1
                                       THEN H(sib[k], climb[k - 1])
                                       ELSE H(climb[k - 1], sib[k])
         /\ VerifyMerkleProof(p) <=> climb[n] = MerkleRoot(s)
  <2>1. Len(p.siblings) \in Nat
    BY <1>3, <1>9
  <2>2. \E climb : /\ climb[0] = LeafHash(p.leaf)
                   /\ \A k \in 1..Len(p.siblings) :
                        climb[k] = IF Halves(p.leafIndex, Len(p.siblings))[k - 1] % 2 = 1
                                   THEN H(p.siblings[k], climb[k - 1])
                                   ELSE H(climb[k - 1], p.siblings[k])
                   /\ VerifyMerkleProof(p) <=> climb[Len(p.siblings)] = p.root
    BY <2>1, SortedClimb
  <2> QED
    BY <1>9, <2>2 DEF idx
<1> DEFINE On(k) == idx[k] \in 0..(Len(L[k]) - 1) /\ climb[k] = At(L[k], idx[k])
           T == {k \in Nat : k <= n /\ ~ On(k)}
<1>11. On(0)
  <2>1. L[0] = [i \in 1..Len(s) |-> LeafHash(Sorted(s)[i])] /\ Len(L[0]) = Len(s)
    BY <1>3, SortedLevel
  <2>2. first + 1 \in 1..Len(s)
    BY <1>1, <1>4
  <2>3. L[0][first + 1] = LeafHash(h)
    BY <1>4, <2>1, <2>2
  <2>4. first \in 0..(Len(L[0]) - 1)
    BY <1>4, <2>1
  <2>5. climb[0] = At(L[0], first)
    BY <1>10, <2>3 DEF At
  <2> QED
    BY <1>6, <2>4, <2>5
<1> HIDE DEF On
<1>12. ASSUME NEW k \in Nat, k + 1 \in T PROVE k \in T
  <2>1. k + 1 \in 1..n /\ (k + 1) - 1 = k /\ k \in 0..n /\ ~ On(k + 1)
    BY <1>3, <1>12
  <2> SUFFICES ASSUME On(k) PROVE FALSE
    BY <2>1
  <2> DEFINE level == L[k]
             i == idx[k]
             size == Len(L[k])
  <2>2. /\ L[k + 1] = NextLevel(level) /\ size \in Nat \ {0} /\ DOMAIN level = 1..size
        /\ idx[k + 1] = i \div 2 /\ i \in Nat
    BY <1>3, <1>6, <2>1
  <2>3. i \in 0..(size - 1) /\ climb[k] = At(level, i)
    BY DEF On
  <2>4. climb[k + 1] = IF i % 2 = 1 THEN H(SiblingOf(level, i), climb[k])
                       ELSE H(climb[k], SiblingOf(level, i))
    BY <1>8, <1>10, <2>1
  <2>5. At(NextLevel(level), i \div 2)
           = IF i % 2 = 1 THEN H(SiblingOf(level, i), At(level, i))
             ELSE H(At(level, i), SiblingOf(level, i))
    <3> HIDE DEF level, i
    <3> size = Len(level)
      BY DEF level
    <3> QED
      BY <2>2, <2>3, ParentOf
  <2>6. Len(L[k + 1]) = (size + 1) \div 2
    <3> HIDE DEF level
    <3> size = Len(level)
      BY DEF level
    <3> QED
      BY <2>2, ParentLevel
  <2> HIDE DEF level, i, size
  <2>7. i \div 2 \in 0..(((size + 1) \div 2) - 1)
    BY <2>2, <2>3
  <2>8. climb[k + 1] = At(L[k + 1], idx[k + 1])
    BY <2>2, <2>3, <2>4, <2>5, Zenon
  <2> QED
    BY <2>1, <2>2, <2>6, <2>7, <2>8 DEF On
<1>13. T = {}
  <2> T \in SUBSET Nat /\ 0 \notin T
    BY <1>11
  <2> HIDE DEF T
  <2> QED
    BY <1>12, NoCounterexample
<1>14. climb[n] = L[n][1]
  <2>1. On(n)
    <3>1. n \notin T
      <4> HIDE DEF T
      <4> QED
        BY <1>13
    <3>2. n \in Nat /\ n <= n
      BY <1>3
    <3> QED
      BY <3>1, <3>2
  <2>2. idx[n] = 0
    <3>1. idx[n] \in 0..(Len(L[n]) - 1) /\ Len(L[n]) = 1
      BY <1>3, <2>1 DEF On
    <3>2. idx[n] \in 0..0
      BY <3>1
    <3> QED
      BY <3>2
  <2> QED
    BY <2>1, <2>2 DEF At, On
<1>15. VerifyMerkleProof(p)
  BY <1>3, <1>10, <1>14
<1>16. ASSUME NEW g, g # h PROVE ~ VerifyMerkleProof([p EXCEPT !.leaf = g])
  <2> DEFINE q == [p EXCEPT !.leaf = g]
  <2>1. /\ q.leaf = g /\ q.leafIndex = p.leafIndex /\ q.siblings = p.siblings
        /\ q.root = p.root
    BY <1>2
  <2>2. Len(p.siblings) \in Nat /\ q.leaf # p.leaf
    BY <1>3, <1>9, <1>16, <2>1
  <2> HIDE DEF q
  <2> QED
    BY <1>15, <2>1, <2>2, OneLeafPerPath DEF q
<1> QED
  BY <1>9, <1>15, <1>16 DEF p

\* With the siblings and the bits of one slot, no other leaf verifies.
LEMMA OneLeafPerSlot ==
  ASSUME NEW p, NEW q, Len(p.siblings) \in Nat, VerifyZkMerkleProof(p),
         q.siblings = p.siblings, q.bits = p.bits, q.root = p.root, q.leaf # p.leaf
  PROVE  ~ VerifyZkMerkleProof(q)
<1> DEFINE n == Len(p.siblings)
           sib == p.siblings
<1>1. PICK c : /\ c[0] = LeafHash(p.leaf)
               /\ \A k \in 1..n : c[k] = IF p.bits[k] = 0 THEN H(c[k - 1], sib[k])
                                         ELSE H(sib[k], c[k - 1])
               /\ c[n] = p.root
  BY ClimbRecursion
<1>2. PICK d : /\ d[0] = LeafHash(q.leaf)
               /\ \A k \in 1..n : d[k] = IF p.bits[k] = 0 THEN H(d[k - 1], sib[k])
                                         ELSE H(sib[k], d[k - 1])
               /\ VerifyZkMerkleProof(q) <=> d[n] = q.root
  <2>1. Len(q.siblings) \in Nat
    OBVIOUS
  <2>2. \E d : /\ d[0] = LeafHash(q.leaf)
               /\ \A k \in 1..Len(q.siblings) :
                    d[k] = IF q.bits[k] = 0 THEN H(d[k - 1], q.siblings[k])
                           ELSE H(q.siblings[k], d[k - 1])
               /\ VerifyZkMerkleProof(q) <=> d[Len(q.siblings)] = q.root
    BY <2>1, ClimbRecursion
  <2> QED
    BY <2>2
<1> DEFINE T == {k \in Nat : k <= n /\ c[k] = d[k]}
<1> HIDE DEF sib
<1>3. ASSUME NEW k \in Nat, k + 1 \in T PROVE k \in T
  <2>1. k + 1 \in 1..n /\ (k + 1) - 1 = k /\ c[k + 1] = d[k + 1]
    BY <1>3
  <2>2. c[k + 1] = IF p.bits[k + 1] = 0 THEN H(c[k], sib[k + 1]) ELSE H(sib[k + 1], c[k])
    BY <1>1, <2>1
  <2>3. d[k + 1] = IF p.bits[k + 1] = 0 THEN H(d[k], sib[k + 1]) ELSE H(sib[k + 1], d[k])
    BY <1>2, <2>1
  <2>4. c[k] = d[k]
    <3>1. CASE p.bits[k + 1] = 0
      <4> H(c[k], sib[k + 1]) = H(d[k], sib[k + 1])
        BY <2>1, <2>2, <2>3, <3>1
      <4> QED
        BY HashInjective
    <3>2. CASE ~ (p.bits[k + 1] = 0)
      <4> H(sib[k + 1], c[k]) = H(sib[k + 1], d[k])
        BY <2>1, <2>2, <2>3, <3>2
      <4> QED
        BY HashInjective
    <3> QED
      BY <3>1, <3>2
  <2> QED
    BY <2>1, <2>4
<1>4. 0 \notin T
  BY <1>1, <1>2 DEF LeafHash
<1>5. T = {}
  <2> T \in SUBSET Nat
    OBVIOUS
  <2> HIDE DEF T
  <2> QED
    BY <1>3, <1>4, NoCounterexample
<1>6. c[n] # d[n]
  BY <1>5
<1> QED
  BY <1>1, <1>2, <1>6

\* A level of the sparse tree holds its nodes, and a slot its sibling.
LEMMA SiblingNode ==
  ASSUME NEW leaves \in Seq(Nat), NEW k \in 0..ZkDepth, NEW i \in Nat
  PROVE  ZkSibling(FixedTree(leaves)[k], i, k)
           = Node(leaves, k, IF i % 2 = 1 THEN i ELSE i + 2)
<1> DEFINE level == FixedTree(leaves)[k]
<1>1. Len(level) \in Nat
  BY LevelLength
<1> HIDE DEF level
<1>2. CASE i % 2 = 1
  <2>1. (i - 1) + 1 = i /\ (i - 1 < Len(level) <=> i <= Len(level))
    BY <1>1, <1>2
  <2> QED
    BY <1>2, <2>1 DEF ZkSibling, Node, At, level
<1>3. CASE ~ (i % 2 = 1)
  <2>1. (i + 1) + 1 = i + 2 /\ (i + 1 < Len(level) <=> i + 2 <= Len(level))
    BY <1>1, <1>3
  <2> QED
    BY <1>3, <2>1 DEF ZkSibling, Node, At, level
<1> QED
  BY <1>2, <1>3

\* The proof of a slot climbs through the nodes of the zero-padded tree to its
\* root, and no other leaf does along the same path.
LEMMA SlotProof ==
  ASSUME NEW leaves \in Seq(Nat), Len(leaves) <= Capacity[ZkDepth],
         NEW index \in 0..(Capacity[ZkDepth] - 1)
  PROVE  LET p == FixedTreeProof(leaves, index)
         IN  /\ VerifyZkMerkleProof(p) /\ p.root = ZkRoot(leaves)
             /\ \A g : g # p.leaf => ~ VerifyZkMerkleProof([p EXCEPT !.leaf = g])
<1> DEFINE p == FixedTreeProof(leaves, index)
           n == ZkDepth
           idx == Halves(index, ZkDepth)
           sib == [k \in 1..n |-> ZkSibling(FixedTree(leaves)[k - 1], idx[k - 1], k - 1)]
           bits == [k \in 1..n |-> idx[k - 1] % 2]
           leaf == IF index < Len(leaves) THEN At(leaves, index) ELSE 0
           root == FixedTree(leaves)[n][1]
<1>1. n \in Nat /\ n \in 0..n /\ index \in Nat /\ Len(leaves) \in Nat
      /\ Capacity[n] \in Nat \ {0}
  <2>1. n \in Nat /\ n \in 0..n
    BY ZkDepthAssumption
  <2>2. Capacity[n] \in Nat \ {0}
    BY <2>1, CapacityPositive
  <2> QED
    BY <2>1, <2>2, LenProperties
<1>2. p = [leaf |-> leaf, siblings |-> sib, bits |-> bits, root |-> root]
  BY DEF FixedTreeProof
<1>3. root = ZkRoot(leaves) /\ root = Node(leaves, n, 1)
  <2>1. ~ (Len(leaves) > Capacity[n])
    BY <1>1
  <2>2. ZkRoot(leaves) = root
    BY <2>1 DEF ZkRoot
  <2>3. ZkRoot(leaves) # Overflow
    BY FittingRoot
  <2> QED
    BY <2>2, <2>3, RootNode
<1>4. /\ idx[0] = index
      /\ \A k \in 1..n : idx[k] = idx[k - 1] \div 2
      /\ \A k \in 0..n : idx[k] \in Nat
  BY <1>1, HalvesRecursion
<1>5. Len(sib) = n
  <2>1. sib = [k \in 1..n |-> sib[k]]
    OBVIOUS
  <2> HIDE DEF sib
  <2> QED
    BY <1>1, <2>1, LenOfFunction
<1>6. \A k \in 1..n : sib[k] = ZkSibling(FixedTree(leaves)[k - 1], idx[k - 1], k - 1)
                      /\ bits[k] = idx[k - 1] % 2
  OBVIOUS
<1>7. LeafHash(leaf) = Node(leaves, 0, index + 1)
  <2>1. index + 1 \in Nat \ {0} /\ (index < Len(leaves) <=> index + 1 <= Len(leaves))
    BY <1>1
  <2> QED
    BY <2>1, LeafNodes DEF At
<1> HIDE DEF idx, sib, bits, leaf, root, p, n
<1>8. /\ p.leaf = leaf /\ p.siblings = sib /\ p.bits = bits /\ p.root = root
      /\ Len(p.siblings) = n
  BY <1>2, <1>5
<1>9. PICK climb :
        /\ climb[0] = LeafHash(leaf)
        /\ \A k \in 1..n : climb[k] = IF bits[k] = 0 THEN H(climb[k - 1], sib[k])
                                      ELSE H(sib[k], climb[k - 1])
        /\ VerifyZkMerkleProof(p) <=> climb[n] = root
  <2>1. \E climb : /\ climb[0] = LeafHash(p.leaf)
                   /\ \A k \in 1..Len(p.siblings) :
                        climb[k] = IF p.bits[k] = 0 THEN H(climb[k - 1], p.siblings[k])
                                   ELSE H(p.siblings[k], climb[k - 1])
                   /\ VerifyZkMerkleProof(p) <=> climb[Len(p.siblings)] = p.root
    BY <1>1, <1>8, ClimbRecursion
  <2> QED
    BY <1>8, <2>1
<1> DEFINE On(k) == idx[k] < Capacity[n - k] /\ climb[k] = Node(leaves, k, idx[k] + 1)
           T == {k \in Nat : k <= n /\ ~ On(k)}
<1>10. On(0)
  <2> n - 0 = n /\ index < Capacity[n]
    BY <1>1 DEF n
  <2> QED
    BY <1>4, <1>7, <1>9
<1> HIDE DEF On
<1>11. ASSUME NEW k \in Nat, k + 1 \in T PROVE k \in T
  <2>1. k + 1 \in 1..n /\ (k + 1) - 1 = k /\ k \in 0..n /\ ~ On(k + 1)
        /\ n - k \in 1..n /\ (n - k) - 1 = n - (k + 1) /\ k <= n
    BY <1>1, <1>11
  <2> SUFFICES ASSUME On(k) PROVE FALSE
    BY <2>1
  <2> DEFINE i == idx[k]
             j == i \div 2
             room == Capacity[n - (k + 1)]
  <2>2. /\ i \in Nat /\ idx[k + 1] = j /\ climb[k] = Node(leaves, k, i + 1)
        /\ sib[k + 1] = ZkSibling(FixedTree(leaves)[k], i, k) /\ bits[k + 1] = i % 2
        /\ climb[k + 1] = IF i % 2 = 0 THEN H(climb[k], sib[k + 1]) ELSE H(sib[k + 1], climb[k])
    <3>1. i \in Nat /\ idx[k + 1] = j
      BY <1>4, <2>1
    <3>2. climb[k] = Node(leaves, k, i + 1)
      BY DEF On
    <3>3. sib[k + 1] = ZkSibling(FixedTree(leaves)[k], i, k) /\ bits[k + 1] = i % 2
      BY <1>6, <2>1
    <3>4. climb[k + 1] = IF bits[k + 1] = 0 THEN H(climb[k], sib[k + 1]) ELSE H(sib[k + 1], climb[k])
      BY <1>9, <2>1
    <3> QED
      BY <3>1, <3>2, <3>3, <3>4
  <2>3. i < 2 * room /\ room \in Nat
    <3>1. Capacity[n - k] = 2 * Capacity[(n - k) - 1] /\ (n - k) - 1 \in 0..n
      <4>1. \A l \in 1..n : Capacity[l] = 2 * Capacity[l - 1]
        BY CapacityRecursion DEF n
      <4>2. n - k \in 1..n /\ (n - k) - 1 \in 0..n
        BY <1>1, <2>1
      <4> HIDE DEF i, room
      <4> QED
        BY <4>1, <4>2
    <3>2. Capacity[(n - k) - 1] \in Nat
      BY <3>1, CapacityPositive DEF n
    <3>3. idx[k] < Capacity[n - k]
      BY DEF On
    <3>4. (n - k) - 1 = n - (k + 1)
      BY <2>1
    <3> QED
      BY <3>1, <3>2, <3>3, <3>4
  <2> HIDE DEF i, room
  <2>4. /\ j \in Nat /\ j < room /\ i % 2 \in {0, 1}
        /\ i % 2 = 1 => i = 2 * (j + 1) - 1 /\ i + 1 = 2 * (j + 1)
        /\ i % 2 = 0 => i + 1 = 2 * (j + 1) - 1 /\ i + 2 = 2 * (j + 1)
    BY <2>2, <2>3
  <2>5. sib[k + 1] = Node(leaves, k, IF i % 2 = 1 THEN i ELSE i + 2)
    BY <2>1, <2>2, SiblingNode DEF n
  <2> HIDE DEF j
  <2>6. Node(leaves, k + 1, j + 1)
          = H(Node(leaves, k, 2 * (j + 1) - 1), Node(leaves, k, 2 * (j + 1)))
    <3> j + 1 \in Nat \ {0} /\ k + 1 \in 1..ZkDepth
      BY <2>1, <2>4 DEF n
    <3>1. Node(leaves, k + 1, j + 1)
            = H(Node(leaves, (k + 1) - 1, 2 * (j + 1) - 1), Node(leaves, (k + 1) - 1, 2 * (j + 1)))
      BY NodeStep
    <3> QED
      BY <2>1, <3>1
  <2>7. climb[k + 1] = Node(leaves, k + 1, j + 1)
    <3>1. CASE i % 2 = 1
      <4>1. climb[k + 1] = H(Node(leaves, k, i), Node(leaves, k, i + 1))
        BY <2>2, <2>5, <3>1
      <4> QED
        BY <2>4, <2>6, <3>1, <4>1
    <3>2. CASE i % 2 = 0
      <4>1. climb[k + 1] = H(Node(leaves, k, i + 1), Node(leaves, k, i + 2))
        BY <2>2, <2>5, <3>2
      <4> QED
        BY <2>4, <2>6, <3>2, <4>1
    <3> QED
      BY <2>4, <3>1, <3>2
  <2> QED
    BY <2>1, <2>2, <2>4, <2>7 DEF On, room
<1>12. T = {}
  <2> T \in SUBSET Nat /\ 0 \notin T
    BY <1>10
  <2> HIDE DEF T
  <2> QED
    BY <1>11, NoCounterexample
<1>13. climb[n] = Node(leaves, n, 1)
  <2>1. On(n)
    <3>1. n \notin T
      <4> HIDE DEF T
      <4> QED
        BY <1>12
    <3>2. n \in Nat /\ n <= n
      BY <1>1
    <3> QED
      BY <3>1, <3>2
  <2>2. idx[n] = 0
    <3> n - n = 0 /\ idx[n] \in Nat
      BY <1>1, <1>4
    <3> QED
      BY <2>1, CapacityRecursion DEF On
  <2> QED
    BY <2>1, <2>2 DEF On
<1>14. VerifyZkMerkleProof(p)
  BY <1>3, <1>9, <1>13
<1>15. ASSUME NEW g, g # p.leaf PROVE ~ VerifyZkMerkleProof([p EXCEPT !.leaf = g])
  <2> DEFINE q == [p EXCEPT !.leaf = g]
  <2>1. q.leaf = g /\ q.bits = p.bits /\ q.siblings = p.siblings /\ q.root = p.root
    BY <1>2
  <2>2. Len(p.siblings) \in Nat /\ q.leaf # p.leaf
    BY <1>1, <1>8, <1>15, <2>1
  <2> HIDE DEF q
  <2> QED
    BY <1>14, <2>1, <2>2, OneLeafPerSlot DEF q
<1> QED
  BY <1>3, <1>8, <1>14, <1>15 DEF p

\* Inclusion proofs are sound and complete (InclusionProofs), for every depth
\* and every length: merkleProof finds a proof exactly for the leaves, every
\* proof of either tree verifies against the root, and with no other leaf.
THEOREM ProofsInclude == LeavesSpec => []InclusionProofs
<1>1. LeavesInv => MerkleProofSoundAndComplete
  <2> SUFFICES ASSUME LeavesInv, NEW h \in Hashes
               PROVE  LET p == MerkleProof(left, h)
                      IN  IF h \in ToSet(left)
                          THEN /\ VerifyMerkleProof(p)
                               /\ p.root = MerkleRoot(left)
                               /\ \A g \in Hashes \ {h} : ~ VerifyMerkleProof([p EXCEPT !.leaf = g])
                          ELSE p = Null
    BY DEF MerkleProofSoundAndComplete
  <2>1. left \in Seq(Int)
    <3> Hashes \subseteq Int
      BY HashesAssumption
    <3> QED
      BY SeqMonotonic DEF LeavesInv
  <2>2. CASE h \in ToSet(left)
    BY <2>1, <2>2, SortedProof
  <2>3. CASE h \notin ToSet(left)
    <3>1. DOMAIN left = 1..Len(left)
      BY <2>1, LenProperties
    <3>2. ~ Contains(left, h)
      BY <2>3, <3>1 DEF Contains, ToSet
    <3>3. MerkleProof(left, h) = Null
      BY <3>2, Zenon DEF MerkleProof
    <3> QED
      BY <2>3, <3>3
  <2> QED
    BY <2>2, <2>3
<1>2. LeavesInv => ZkProofSoundAndComplete
  <2> SUFFICES ASSUME LeavesInv, Len(left) <= Capacity[ZkDepth],
                      NEW index \in 0..(Capacity[ZkDepth] - 1)
               PROVE  LET p == FixedTreeProof(left, index)
                      IN  /\ VerifyZkMerkleProof(p)
                          /\ p.root = ZkRoot(left)
                          /\ \A g \in (Hashes \cup {0}) \ {p.leaf} :
                               ~ VerifyZkMerkleProof([p EXCEPT !.leaf = g])
    BY DEF ZkProofSoundAndComplete
  <2>1. left \in Seq(Nat)
    <3> Hashes \subseteq Nat
      BY HashesAssumption
    <3> QED
      BY SeqMonotonic DEF LeavesInv
  <2> QED
    BY <2>1, SlotProof
<1> QED
  BY <1>1, <1>2, LeavesInvariance, PTL DEF InclusionProofs
=============================================================================
