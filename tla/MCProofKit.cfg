\* Two proofs and a check at once, with every backend, intent and artifact.
SPECIFICATION FairSpec
CONSTANTS
  Jobs = {j1, j2}
  Checks = {v1}
  Curves = {c1, c2, c3}
  NoCurve = NoCurve
  Absent = Absent
  Recipes = {"lend", "exit"}
  Intents <- SomeIntents
INVARIANTS
  VerdictMatchesProof
  CardsDoNotOverclaim
PROPERTY UndisturbedEnds
CHECK_DEADLOCK FALSE
