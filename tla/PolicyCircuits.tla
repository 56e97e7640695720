--------------------------- MODULE PolicyCircuits ---------------------------
(***************************************************************************)
(* Witness generation for the four recipes (packages/proofs/witness.ts),   *)
(* the reference predicates beside it, and the circuits the witness is     *)
(* for.  A hash is injective: zkFactsRoot is the sequence of leaves and    *)
(* zkContextRoot the triple it commits to.                                 *)
(***************************************************************************)
EXTENDS PolicyFacts

CONSTANTS Span160, Span64, Span16   \* 2^160, 2^64 and 2^16

ASSUME SpanAssumption ==
  /\ Span160 \in Nat /\ Span64 \in Nat /\ Span16 \in Nat
  /\ 4 < Span16 /\ 0 < Span64 /\ 0 < Span160
  /\ 2 * Span160 < P /\ 2 * Span64 < P /\ 2 * Span16 < P

Recipes == {"blend", "aquarius", "sdex", "composite"}

\* RECIPE_SPECS: the fact path of every slot, the type of every threshold.
Slots ==
  [ blend     |-> [borrowed |-> "totalBorrowed", supplied |-> "totalSupplied",
                   oracle |-> "isFresh"],
    aquarius  |-> [out |-> "estimatedOut", hops |-> "routeHops"],
    sdex      |-> [available |-> "pathAvailable", path_out |-> "pathEstimatedOut",
                   spread |-> "spreadBps"],
    composite |-> [health |-> "healthAfterAction", out |-> "estimatedOut",
                   hops |-> "routeHops", available |-> "pathAvailable",
                   path_out |-> "pathEstimatedOut"] ]

\* By the DSL names that THRESHOLD_TO_DSL gives them.
Thresholds ==
  [ blend     |-> [maxUtilization |-> "fixed_1e6"],
    aquarius  |-> [minOut |-> "u128"],
    sdex      |-> [minReceive |-> "u128", maxSpreadBps |-> "u64"],
    composite |-> [minHealth |-> "fixed_1e6", minReceive |-> "u128"] ]

-----------------------------------------------------------------------------
(* The reference predicates, over slot values f and thresholds t.          *)

Denominator(supplied) == IF supplied = 0 THEN 1 ELSE supplied

BlendPredicate(f, t) ==
  /\ (f.borrowed * Scale) \div Denominator(f.supplied) < t.maxUtilization
  /\ f.oracle = 1
AquariusPredicate(f, t) == f.out >= t.minOut /\ f.hops <= 4
SdexPredicate(f, t) ==
  /\ f.available = 1
  /\ f.path_out >= t.minReceive \/ f.spread <= t.maxSpreadBps
CompositePredicate(f, t) ==
  /\ f.health > t.minHealth
  /\ \/ f.out >= t.minReceive /\ f.hops <= 4
     \/ f.available = 1 /\ f.path_out >= t.minReceive

Predicate(recipe, f, t) ==
  \/ recipe = "blend" /\ BlendPredicate(f, t)
  \/ recipe = "aquarius" /\ AquariusPredicate(f, t)
  \/ recipe = "sdex" /\ SdexPredicate(f, t)
  \/ recipe = "composite" /\ CompositePredicate(f, t)

-----------------------------------------------------------------------------
(* The witness.                                                            *)

\* normalizeThreshold.
MutNormalizeThreshold(v, type) == ToIntBig(v)
NormalizeThreshold(v, type) == IF type = "fixed_1e6" THEN ToFixed(v) ELSE ToIntBig(v)

\* A capsule's zk commitments, as buildCapsule computes them over its facts.
Leaves(facts) == [i \in DOMAIN facts |-> ZkFactLeaf(facts[i])]
ZkCapsule(facts, sourceRoot, adapterSet) ==
  [factsRoot |-> Leaves(facts), sourceRoot |-> sourceRoot, adapterSet |-> adapterSet,
   contextRoot |-> <<Leaves(facts), sourceRoot, adapterSet>>]

NoWitness == [thrown |-> TRUE]

\* buildWitness over the facts at hand, bound is the fact position compile
\* gave each path (0: no binding).  It throws for a slot without a binding and
\* a threshold that is missing or not a number.
BuildWitness(recipe, capsule, facts, bound, privates) ==
  LET slots == Slots[recipe]
      types == Thresholds[recipe]
      At(slot) == bound[slots[slot]]
      Given(name) == IF name \in DOMAIN privates
                     THEN NormalizeThreshold(privates[name], types[name]) ELSE Throw
  IN  IF \/ \E slot \in DOMAIN slots : slots[slot] \notin DOMAIN bound \/ At(slot) = 0
         \/ \E name \in DOMAIN types : Given(name).throws
      THEN NoWitness
      ELSE [thrown |-> FALSE, capsule |-> capsule,
            value |-> [slot \in DOMAIN slots |-> FactValueToFr(facts[At(slot)])],
            position |-> [slot \in DOMAIN slots |-> At(slot)],
            leaf |-> [slot \in DOMAIN slots |-> ZkFactLeaf(facts[At(slot)])],
            threshold |-> [name \in DOMAIN types |-> Given(name).n]]

\* What every circuit and referenceEvaluate check first: the context root
\* binds the facts root, and every slot's leaf is in it at its position.
ContextBound(w) ==
  w.capsule.contextRoot =
    <<w.capsule.factsRoot, w.capsule.sourceRoot, w.capsule.adapterSet>>
Included(w) ==
  \A slot \in DOMAIN w.leaf :
    /\ w.position[slot] \in DOMAIN w.capsule.factsRoot
    /\ w.capsule.factsRoot[w.position[slot]] = w.leaf[slot]

\* referenceEvaluate, the witness' revealed bit.
ReferenceEvaluate(recipe, w) ==
  ContextBound(w) /\ Included(w) /\ Predicate(recipe, w.value, w.threshold)

-----------------------------------------------------------------------------
(* The circom circuits.  A comparator over signals a and b decomposes      *)
(* a + 2^n - b into n + 1 bits: it has no satisfying assignment when the   *)
(* difference needs more, and its output is the complement of bit n.       *)

FrDec(v) == v % P
Diff(span, a, b) == (a + span - b) % P
Fits(span, a, b) == Diff(span, a, b) < 2 * span
LessThan(span, a, b) == Diff(span, a, b) < span

\* A circuit is satisfiable, and its output; f and t are field elements.
MutBlendCircuit(f, t) ==
  LET lhs == f.borrowed * Scale
  IN  [sat |-> Fits(Span160, lhs, t.maxUtilization) /\ f.oracle \in {0, 1},
       out |-> LessThan(Span160, lhs, t.maxUtilization) /\ f.oracle = 1]
BlendCircuit(f, t) ==
  LET lhs == f.borrowed * Scale
      rhs == t.maxUtilization * Denominator(f.supplied)
  IN  [sat |-> Fits(Span160, lhs, rhs) /\ f.oracle \in {0, 1},
       out |-> LessThan(Span160, lhs, rhs) /\ f.oracle = 1]

AquariusCircuit(f, t) ==
  [sat |-> Fits(Span160, t.minOut, f.out + 1) /\ Fits(Span16, f.hops, 5),
   out |-> LessThan(Span160, t.minOut, f.out + 1) /\ LessThan(Span16, f.hops, 5)]

SdexCircuit(f, t) ==
  [sat |-> /\ Fits(Span160, t.minReceive, f.path_out + 1)
           /\ Fits(Span64, f.spread, t.maxSpreadBps + 1)
           /\ f.available \in {0, 1},
   out |-> /\ f.available = 1
           /\ \/ LessThan(Span160, t.minReceive, f.path_out + 1)
              \/ LessThan(Span64, f.spread, t.maxSpreadBps + 1)]

CompositeCircuit(f, t) ==
  [sat |-> /\ Fits(Span160, t.minHealth, f.health)
           /\ Fits(Span160, t.minReceive, f.out + 1) /\ Fits(Span16, f.hops, 5)
           /\ Fits(Span160, t.minReceive, f.path_out + 1)
           /\ f.available \in {0, 1},
   out |-> /\ LessThan(Span160, t.minHealth, f.health)
           /\ \/ /\ LessThan(Span160, t.minReceive, f.out + 1)
                 /\ LessThan(Span16, f.hops, 5)
              \/ f.available = 1 /\ LessThan(Span160, t.minReceive, f.path_out + 1)]

Circuit(recipe, f, t) ==
  CASE recipe = "blend" -> BlendCircuit(f, t)
    [] recipe = "aquarius" -> AquariusCircuit(f, t)
    [] recipe = "sdex" -> SdexCircuit(f, t)
    [] recipe = "composite" -> CompositeCircuit(f, t)

\* witnessToCircomInput and the circuit run on it.
CircomInput(values) == [name \in DOMAIN values |-> FrDec(values[name])]
CircomRun(recipe, w) ==
  LET c == Circuit(recipe, CircomInput(w.value), CircomInput(w.threshold))
  IN  [sat |-> ContextBound(w) /\ Included(w) /\ c.sat, out |-> c.out]

-----------------------------------------------------------------------------
(* The Noir circuits: comparisons are of the low 64 bits of a field        *)
(* element, and / is the division of the field.                            *)

U64(x) == x % Span64
FieldDiv(a, b) == CHOOSE q \in 0..(P - 1) : (q * b) % P = a % P

NoirOutput(recipe, f, t) ==
  CASE recipe = "blend" ->
         /\ U64(FieldDiv(f.borrowed * Scale, Denominator(f.supplied))) < U64(t.maxUtilization)
         /\ f.oracle = 1
    [] recipe = "aquarius" -> U64(f.out) >= U64(t.minOut) /\ U64(f.hops) <= 4
    [] recipe = "sdex" ->
         /\ f.available = 1
         /\ U64(f.path_out) >= U64(t.minReceive) \/ U64(f.spread) <= U64(t.maxSpreadBps)
    [] recipe = "composite" ->
         /\ U64(f.health) > U64(t.minHealth)
         /\ \/ U64(f.out) >= U64(t.minReceive) /\ U64(f.hops) <= 4
            \/ f.available = 1 /\ U64(f.path_out) >= U64(t.minReceive)
=============================================================================
