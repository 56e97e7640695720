--------------------------- MODULE PolicyEvaluator ---------------------------
(***************************************************************************)
(* The ComputeIntent compiler and interpreter (packages/compute), behind   *)
(* the parser.  A node of a tree is <<kind, token, operands...>>.          *)
(***************************************************************************)
EXTENDS PolicyFacts, SequencesExt

CONSTANTS PrivatePaths,   \* [token -> name] for the tokens private.<name>
          Numerals,       \* [token -> Nat], the integer literals
          Analysis(_)     \* a program's statements, the facts it refers to and
                          \* the types its private inputs are used with

\* A map with one more entry, and the entries of f before those of g.
With(f, name, v) == [x \in DOMAIN f \cup {name} |-> IF x = name THEN v ELSE f[x]]
Over(f, g) == [x \in DOMAIN f \cup DOMAIN g |-> IF x \in DOMAIN f THEN f[x] ELSE g[x]]

-----------------------------------------------------------------------------
(* The interpreter.                                                        *)

Apply(op, l, r) ==
  CASE op = "+" -> Big(l + r)
    [] op = "-" -> Big(l - r)
    [] op = "*" -> Big(l * r)
    [] op = "/" -> IF r = 0 THEN Throw ELSE Big(TruncDiv(l, r))
    [] op = "<" -> Bool(l < r)
    [] op = "<=" -> Bool(l <= r)
    [] op = ">" -> Bool(l > r)
    [] op = ">=" -> Bool(l >= r)
    [] op = "==" -> Bool(l = r)
    [] op = "!=" -> Bool(l # r)

\* The reducers; max and min fold over the numbers, any and all over the
\* truth values.
Reduce(fn, args) ==
  LET ns == {args[i].n : i \in DOMAIN args}
  IN  CASE fn = "max" -> Big(CHOOSE m \in ns : \A n \in ns : n <= m)
        [] fn = "min" -> Big(CHOOSE m \in ns : \A n \in ns : m <= n)
        [] fn = "any" -> Bool(\E i \in DOMAIN args : AsBool(args[i]))
        [] fn = "all" -> Bool(\A i \in DOMAIN args : AsBool(args[i]))

Operands(node) ==
  CASE node[1] = "unary" -> <<node[3]>>
    [] node[1] = "binary" -> <<node[3], node[4]>>
    [] node[1] = "call" -> node[3]
    [] OTHER -> <<>>

\* The value of a node, v being those of its operands.  The logical operators
\* do not evaluate their right side when the left decides.  In env, facts,
\* privates and vars are functions from names to values.
NodeValue(node, v, env) ==
  LET At(f, k) == IF k \in DOMAIN f THEN f[k] ELSE Throw
      kind == node[1]
      op == node[2]
      l == v[1]
      r == v[2]
  IN
  CASE kind = "literal" -> IF op \in {"true", "false"} THEN Bool(op = "true") ELSE Big(Numerals[op])
    [] kind = "identifier" -> IF op = "SCALE" THEN Big(Scale) ELSE At(env.vars, op)
    [] kind = "fact" -> At(env.facts, op)
    [] kind = "private" -> At(env.privates, op)
    [] kind = "unary" ->
         IF l.throws THEN Throw ELSE IF op = "!" THEN Bool(~AsBool(l)) ELSE Big(-l.n)
    [] kind = "call" -> IF \E i \in DOMAIN v : v[i].throws THEN Throw ELSE Reduce(op, v)
    [] kind = "binary" ->
         IF l.throws THEN Throw
         ELSE IF op \in {"&&", "||"} /\ AsBool(l) = (op = "||") THEN Bool(AsBool(l))
         ELSE IF r.throws THEN Throw
         ELSE IF op \in {"&&", "||"} THEN Bool(AsBool(r))
         ELSE Apply(op, l.n, r.n)

\* evalNode of the nodes of a statement.
NodeValues(stmt, env) ==
  LET Value[node \in stmt.nodes] ==
        NodeValue(node, [k \in DOMAIN Operands(node) |-> Value[Operands(node)[k]]], env)
  IN  Value
EvalNode(stmt, env) == NodeValues(stmt, env)[stmt.expr]

\* A turn of the statement loop, before which `run` has the outputs.
NextOutput(stmt, run, facts, privates) ==
  LET v == EvalNode(stmt, [facts |-> facts, privates |-> privates, vars |-> run.vars])
  IN  IF ~run.ok \/ v.throws THEN [ok |-> FALSE, vars |-> <<>>]
      ELSE [ok |-> TRUE, vars |-> With(run.vars, stmt.name, v)]

\* The statement loop: every output, or the empty function once one throws.
Outputs(ast, facts, privates) ==
  LET Run[i \in 0..Len(ast)] ==
        IF i = 0 THEN [ok |-> TRUE, vars |-> <<>>]
        ELSE NextOutput(ast[i], Run[i - 1], facts, privates)
  IN  Run[Len(ast)]

-----------------------------------------------------------------------------
(* The compiler.                                                           *)

NotCompiled == [throws |-> TRUE]

\* compileIntent.  An intent has a program, the private inputs and the schema
\* given for them, and the sets of names to reveal and to hide.
Compile(intent, facts) ==
  LET program == Analysis(intent.program)
      ast == program.ast
      paths == program.facts
      names == DOMAIN program.types
      schema == Over(intent.schema, program.types)
  IN  IF \/ ast = <<>>
         \/ intent.reveal \cap DOMAIN PrivatePaths # {}
         \/ ~ names \subseteq DOMAIN intent.privates
         \/ \E p \in paths : ~ Binds(p, facts)
      THEN NotCompiled
      ELSE [throws |-> FALSE, ast |-> ast, schema |-> schema,
            bound |-> [p \in paths |-> Bind(p, facts)],
            reveal |-> intent.reveal, hide |-> intent.hide]

\* computeHash, injective in what it hashes; the privates are not in it.
ComputeHash(c, facts) ==
  <<c.ast, [p \in DOMAIN c.bound |-> <<facts[c.bound[p]], TypeOf(p)>>],
    c.schema, c.reveal, c.hide>>

-----------------------------------------------------------------------------
(* The evaluator.                                                          *)

NoAge == -1
NotEvaluated == [throws |-> TRUE]

\* evaluateCompute.  The freshness gate looks at every fact of the capsule
\* that shares a field with a bound one.
Evaluate(c, privates, facts, maxAge) ==
  LET fields == {facts[c.bound[p]].field : p \in DOMAIN c.bound}
      stale == maxAge # NoAge /\ StaleFields(facts, [f \in fields |-> maxAge]) # {}
      value == [p \in DOMAIN c.bound |-> NormalizeFact(p, facts[c.bound[p]])]
      given == [x \in DOMAIN c.schema |->
                  IF x \in DOMAIN privates THEN NormalizePrivate(privates[x], c.schema[x])
                  ELSE Throw]
      run == Outputs(c.ast, value, given)
  IN  IF \/ stale \/ ~run.ok
         \/ \E p \in DOMAIN value : value[p].throws
         \/ \E x \in DOMAIN given : given[x].throws
         \/ ~ c.reveal \subseteq DOMAIN run.vars
      THEN NotEvaluated
      ELSE [throws |-> FALSE, outputs |-> run.vars,
            revealed |-> [x \in c.reveal |-> run.vars[x]]]
=============================================================================
