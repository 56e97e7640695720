--------------------------- MODULE PolicyRecipes ---------------------------
(***************************************************************************)
(* The four recipes as programs (compute/recipes.ts), and one policy proof *)
(* from the capsule's facts to the bit the proof shows: compile, evaluate, *)
(* witness, circuit.                                                       *)
(***************************************************************************)
EXTENDS PolicyEvaluator, PolicyCircuits

Program ==
  [ blend |-> << "utilization", "=", "totalBorrowed", "*", "SCALE", "/",
                 "max", "(", "totalSupplied", ",", "1", ")", ";",
                 "safe", "=", "utilization", "<", "private.maxUtilization",
                 "&&", "isFresh", ";" >>,
    aquarius |-> << "routeAcceptable", "=", "estimatedOut", ">=", "private.minOut",
                    "&&", "routeHops", "<=", "4", ";" >>,
    sdex |-> << "pathOk", "=", "pathEstimatedOut", ">=", "private.minReceive", ";",
                "spreadOk", "=", "spreadBps", "<=", "private.maxSpreadBps", ";",
                "exitOk", "=", "pathAvailable", "&&", "(", "pathOk", "||", "spreadOk", ")", ";" >>,
    composite |-> << "blendSafe", "=", "healthAfterAction", ">", "private.minHealth", ";",
                     "aquaExit", "=", "estimatedOut", ">=", "private.minReceive",
                     "&&", "routeHops", "<=", "4", ";",
                     "sdexExit", "=", "pathAvailable", "&&", "pathEstimatedOut", ">=",
                     "private.minReceive", ";",
                     "allowed", "=", "blendSafe", "&&", "(", "aquaExit", "||", "sdexExit", ")", ";" >> ]

\* What the parser and the compiler make of the programs.
FactNode(path) == <<"fact", path>>
PrivateNode(name) == <<"private", name>>
VariableNode(name) == <<"identifier", name>>
LiteralNode(token) == <<"literal", token>>
BinaryNode(op, l, r) == <<"binary", op, l, r>>
Assign(name, nodes, expr) == [name |-> name, expr |-> expr, nodes |-> nodes \cup {expr}]

\* name = path op bound;
CompareStatement(name, op, path, bound) ==
  Assign(name, {FactNode(path), bound}, BinaryNode(op, FactNode(path), bound))

UtilizationStatement ==
  LET product == BinaryNode("*", FactNode("totalBorrowed"), VariableNode("SCALE"))
      floor == <<"call", "max", <<FactNode("totalSupplied"), LiteralNode("1")>>>>
  IN  Assign("utilization",
             {FactNode("totalBorrowed"), VariableNode("SCALE"), product,
              FactNode("totalSupplied"), LiteralNode("1"), floor},
             BinaryNode("/", product, floor))
SafeStatement ==
  LET below == BinaryNode("<", VariableNode("utilization"), PrivateNode("maxUtilization"))
  IN  Assign("safe",
             {VariableNode("utilization"), PrivateNode("maxUtilization"), below, FactNode("isFresh")},
             BinaryNode("&&", below, FactNode("isFresh")))
\* name = estimatedOut >= private.bound && routeHops <= 4;
RouteStatement(name, bound) ==
  LET enough == BinaryNode(">=", FactNode("estimatedOut"), PrivateNode(bound))
      short == BinaryNode("<=", FactNode("routeHops"), LiteralNode("4"))
  IN  Assign(name,
             {FactNode("estimatedOut"), PrivateNode(bound), enough,
              FactNode("routeHops"), LiteralNode("4"), short},
             BinaryNode("&&", enough, short))
\* name = first && (second || third);
EitherStatement(name, first, second, third) ==
  LET either == BinaryNode("||", second, third)
  IN  Assign(name, {first, second, third, either}, BinaryNode("&&", first, either))
SdexExitStatement ==
  LET enough == BinaryNode(">=", FactNode("pathEstimatedOut"), PrivateNode("minReceive"))
  IN  Assign("sdexExit",
             {FactNode("pathAvailable"), FactNode("pathEstimatedOut"), PrivateNode("minReceive"), enough},
             BinaryNode("&&", FactNode("pathAvailable"), enough))

Tree ==
  [ blend |-> [ast |-> <<UtilizationStatement, SafeStatement>>,
               facts |-> {"totalBorrowed", "totalSupplied", "isFresh"},
               types |-> [maxUtilization |-> "u128"]],
    aquarius |-> [ast |-> <<RouteStatement("routeAcceptable", "minOut")>>,
                  facts |-> {"estimatedOut", "routeHops"},
                  types |-> [minOut |-> "u128"]],
    sdex |-> [ast |-> << CompareStatement("pathOk", ">=", "pathEstimatedOut", PrivateNode("minReceive")),
                         CompareStatement("spreadOk", "<=", "spreadBps", PrivateNode("maxSpreadBps")),
                         EitherStatement("exitOk", FactNode("pathAvailable"),
                                         VariableNode("pathOk"), VariableNode("spreadOk")) >>,
              facts |-> {"pathEstimatedOut", "spreadBps", "pathAvailable"},
              types |-> [minReceive |-> "u128", maxSpreadBps |-> "u64"]],
    composite |-> [ast |-> << CompareStatement("blendSafe", ">", "healthAfterAction", PrivateNode("minHealth")),
                              RouteStatement("aquaExit", "minReceive"),
                              SdexExitStatement,
                              EitherStatement("allowed", VariableNode("blendSafe"),
                                              VariableNode("aquaExit"), VariableNode("sdexExit")) >>,
                   facts |-> {"healthAfterAction", "estimatedOut", "routeHops", "pathAvailable",
                              "pathEstimatedOut"},
                   types |-> [minHealth |-> "fixed_1e6", minReceive |-> "u128"]] ]

\* The programs have these trees: PolicyLanguage analyses them so.
ASSUME ProgramsAssumption ==
  /\ \A r \in Recipes : Analysis(Program[r]) = Tree[r]
  /\ Numerals["1"] = 1 /\ Numerals["4"] = 4

\* The one output each recipe reveals.
Decision ==
  [blend |-> "safe", aquarius |-> "routeAcceptable", sdex |-> "exitOk", composite |-> "allowed"]

\* No recipe reveals a private input.
ASSUME DecisionAssumption == \A r \in Recipes : Decision[r] \notin DOMAIN PrivatePaths

Intent(recipe, privates, schema) ==
  [program |-> Program[recipe], privates |-> privates, schema |-> schema,
   reveal |-> {Decision[recipe]}, hide |-> DOMAIN privates]

Refused == [refused |-> TRUE]

\* The element of a singleton: what a stage computes, for the later ones.
Only(S) == CHOOSE x \in S : TRUE

\* proveComputeIntent with the bn254-groth16 backend, up to the proof: the
\* evaluator's answer, the witness' and the circuit's.  proveGroth16 refuses a
\* witness whose roots do not check, and fullProve one that does not satisfy
\* the circuit.
Prove(recipe, intent, capsule, facts, maxAge) ==
  LET Shown(c, e, w, run) ==
        IF ~run.sat THEN Refused
        ELSE [refused |-> FALSE, compiled |-> c, witness |-> w,
              evaluated |-> AsBool(e.revealed[Decision[recipe]]),
              reference |-> ReferenceEvaluate(recipe, w),
              proved |-> run.out]
      Witnessed(c, e, w) ==
        IF w.thrown \/ ~(ContextBound(w) /\ Included(w)) THEN Refused
        ELSE Only({Shown(c, e, w, run) : run \in {CircomRun(recipe, w)}})
      Evaluated(c, e) ==
        IF e.throws THEN Refused
        ELSE Only({Witnessed(c, e, w) :
                     w \in {BuildWitness(recipe, capsule, facts, c.bound, intent.privates)}})
      Compiled(c) ==
        IF c.throws THEN Refused
        ELSE Only({Evaluated(c, e) : e \in {Evaluate(c, intent.privates, facts, maxAge)}})
  IN  Only({Compiled(c) : c \in {Compile(intent, facts)}})
=============================================================================
