\* Two overlapping calls, local checks, cleanup and a crash.
CONSTANTS
  p1 = p1
  p2 = p2
  c1 = c1
  c2 = c2
  v1 = v1
  k1 = k1
  k2 = k2
  cap = cap
  Proofs = {p1, p2}
  Groth16 = {p1}
  Consistent = {p1}
  Capsules = {cap}
  CapsuleOf <- MCCapsuleOf
  Calls = {c1, c2}
  Locals = {l1}
  Contract <- MCContract
  Posts <- MCPosts
  Verifiers = {v1}
  Keys = {k1, k2}
  CircuitKey <- MCCircuitKey
  NoKey = NoKey
  NoCall = NoCall
  NoProof = NoProof
  InMemory = TRUE
  MaxCrashes = 1
SYMMETRY AlikeCalls
SPECIFICATION LifecycleSpec
INVARIANTS
  RecordsAreOnChain
  CardUpgradedFirst
  EnvelopesStayBound
  LocalRefusalExplained
PROPERTIES
  ImplementsRecord
CHECK_DEADLOCK FALSE
