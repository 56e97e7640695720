\* Two builds, one load, crashes and cleanup anywhere, under the fairness of the cleanup job.
CONSTANTS
  s1 = s1
  s2 = s2
  s3 = s3
  s4 = s4
  f1 = f1
  f2 = f2
  f3 = f3
  f4 = f4
  ca = ca
  cb = cb
  NoCapsule = NoCapsule
  Sources = {s1, s2, s3, s4}
  Facts = {f1, f2, f3, f4}
  Capsules = {ca, cb}
  Readers = {r1}
  Parts <- MCParts
  Cites <- MCCites
  ResponseHash <- MCResponseHash
  AdapterHash <- MCAdapterHash
  RawHash <- MCRawHash
  ZkLeaf <- MCZkLeaf
  ZkDepth = 2
SPECIFICATION FairSpec
INVARIANTS
  ProvenanceBeforeCapsule
  VerifiedIsExact
  RefusedOnlyForOrder
PROPERTIES
  RetentionEnds
  ImplementsRegistry
CHECK_DEADLOCK FALSE
