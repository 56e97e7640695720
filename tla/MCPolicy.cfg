\* Expressions of up to 7 tokens; every recipe with its private inputs typed.
CONSTANTS
  Unit = 8
  Scale = 4
  P = 1021
  Span160 = 256
  Span64 = 64
  Span16 = 8
  PrivatePaths <- MCPrivatePaths
  Names = {"x", "utilization", "safe", "routeAcceptable", "pathOk", "spreadOk", "exitOk", "blendSafe", "aquaExit", "sdexExit", "allowed"}
  Numerals <- MCNumerals
  Analysis <- Analyse
  Answers <- MCAnswers
  PrivateValues <- MCPrivateValues
  AmountIn = 3
  Ages <- MCAges
  MaxAges = {29, 30}
  MaxAmount = 30
  MaxRatio = 24
  MaxTokens = 7
  WithSchema = TRUE
SPECIFICATION Spec
INVARIANTS
  ParserRespectsPrecedence
  ProofAgreesWithEvaluator
  RefusedWithCause
  FactsCiteTheirContext
  AnswersAgree
CHECK_DEADLOCK FALSE
