----------------------------- MODULE CapsulePlan -----------------------------
(***************************************************************************)
(* What a context capsule is built from and what replay verification       *)
(* recomputes (packages/context-capsules/src/index.ts).                    *)
(*                                                                         *)
(* A capsule id is drawn at random for every build, so it stands for one   *)
(* build: Parts[c] are the protocol contexts composeContexts merges, in    *)
(* the order the adapters ran, each with its source records and its facts. *)
(*                                                                         *)
(* Roots are compared only for equality.  Hashing is injective, so         *)
(*  - the semantic-facts root, over leaves that differ from fact to fact,  *)
(*    is the set of its leaves (CapsuleRoots, RootBindsLeaves);            *)
(*  - the zk facts root is the sequence of its leaves (CapsuleRoots,       *)
(*    ZkRootBindsSequence);                                                *)
(*  - sourceRoot and factsRoot may have equal leaves (two reads with the   *)
(*    same response; several facts of one response), so they are computed; *)
(*  - compositeRoot, contextRoot and zkContextRoot are hashes of the roots *)
(*    and the adapter-set hash: they match when those match.               *)
(***************************************************************************)
EXTENDS CapsuleRoots, FiniteSets

CONSTANTS
  Sources,        \* ids of source records
  Facts,          \* ids of semantic facts
  Capsules,       \* ids of capsules
  Parts,          \* Parts[c]: sequence of [sources, facts] sequences
  Cites,          \* Cites[f]: sequence of source ids, fact.sourceRecordIds
  ResponseHash,   \* ResponseHash[s]: a natural
  AdapterHash,    \* AdapterHash[s]
  RawHash,        \* RawHash[f]: a natural
  ZkLeaf          \* ZkLeaf[f]: Poseidon leaf of the fact's path and value

ASSUME PartsAssumption ==
  Parts \in [Capsules -> Seq([sources : Seq(Sources), facts : Seq(Facts)])]
ASSUME FactsFinite == IsFiniteSet(Facts)
ASSUME CitesAssumption == Cites \in [Facts -> Seq(Sources)]
ASSUME RawHashAssumption == RawHash \in [Facts -> Nat]

\* composeContexts: the facts in adapter order, and the sources.
CapsuleFacts(c) == FlattenSeq([p \in DOMAIN Parts[c] |-> Parts[c][p].facts])
FactsOf(c)      == UNION {ToSet(Parts[c][p].facts)   : p \in DOMAIN Parts[c]}
SourcesOf(c)    == UNION {ToSet(Parts[c][p].sources) : p \in DOMAIN Parts[c]}

\* hashSemanticFact over every row: the fact and the records it cites.
SemanticLeaves(rows, cited) == {<<rows[i], cited[i]>> : i \in DOMAIN rows}

MutRootsNoSemantic(rows, cited, srcs) ==
  [sourceRoot        |-> MerkleRoot(
                           LET s == SetToSeq(srcs)
                           IN  [i \in DOMAIN s |-> ResponseHash[s[i]]]),
   factsRoot         |-> MerkleRoot([i \in DOMAIN rows |-> RawHash[rows[i]]]),
   semanticFactsRoot |-> {},
   zkFactsRoot       |-> <<>>,
   adapterSetHash    |-> {AdapterHash[s] : s \in srcs}]

\* Roots of the fact rows (with the citations read for each) and source rows.
RootsOf(rows, cited, srcs) ==
  [sourceRoot        |-> MerkleRoot(
                           LET s == SetToSeq(srcs)
                           IN  [i \in DOMAIN s |-> ResponseHash[s[i]]]),
   factsRoot         |-> MerkleRoot([i \in DOMAIN rows |-> RawHash[rows[i]]]),
   semanticFactsRoot |-> SemanticLeaves(rows, cited),
   zkFactsRoot       |-> [i \in DOMAIN rows |-> ZkLeaf[rows[i]]],
   adapterSetHash    |-> {AdapterHash[s] : s \in srcs}]

\* buildCapsule: the roots stored with the capsule.
BuildRoots == [c \in Capsules |->
  LET rows == CapsuleFacts(c)
  IN  RootsOf(rows, [i \in DOMAIN rows |-> ToSet(Cites[rows[i]])], SourcesOf(c))]

\* What a capsule says: its facts, each with the records it cites.
CapsuleContent == [c \in Capsules |->
  {<<f, ToSet(Cites[f])>> : f \in ToSet(CapsuleFacts(c))}]

\* buildCapsule throws in buildFixedTree.
BuildThrows(c) == Len(CapsuleFacts(c)) > Capacity[ZkDepth]

MutVerifyCapsule(roots, rows, cited, srcs) ==
  RootsOf(rows, cited, srcs).adapterSetHash \subseteq roots.adapterSetHash

\* verifyCapsule(...).ok
VerifyCapsule(roots, rows, cited, srcs) == RootsOf(rows, cited, srcs) = roots
==============================================================================
