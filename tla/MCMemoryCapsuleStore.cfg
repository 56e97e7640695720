\* Three builds, two concurrent loads, cleanup anywhere.
CONSTANTS
  s1 = s1
  s2 = s2
  s3 = s3
  f1 = f1
  f2 = f2
  f3 = f3
  f4 = f4
  f5 = f5
  f6 = f6
  ca = ca
  cb = cb
  cc = cc
  NoCapsule = NoCapsule
  Sources = {s1, s2, s3}
  Facts = {f1, f2, f3, f4, f5, f6}
  Capsules = {ca, cb, cc}
  Readers = {r1, r2}
  Parts <- MCParts
  Cites <- MCCites
  ResponseHash <- MCResponseHash
  AdapterHash <- MCAdapterHash
  RawHash <- MCRawHash
  ZkLeaf <- MCZkLeaf
  ZkDepth = 1
SPECIFICATION Spec
INVARIANTS
  CompleteCapsuleReplays
PROPERTIES
  ImplementsRegistry
CHECK_DEADLOCK FALSE
