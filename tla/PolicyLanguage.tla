--------------------------- MODULE PolicyLanguage ---------------------------
(***************************************************************************)
(* The text of the ComputeIntent language (packages/compute): the Pratt    *)
(* parser, and what the compiler reads off a program's tree.  A program is *)
(* a sequence of tokens, each the string the tokenizer cuts out; a fact    *)
(* path is one token.                                                      *)
(***************************************************************************)
EXTENDS PolicyEvaluator

CONSTANT Names          \* simple identifiers

Reducers == {"max", "min", "any", "all"}
Reserved == {"for", "while", "return", "let", "if", "eval"}
Variables == (Names \ Reserved) \cup Reducers \cup {"SCALE"}

Precedence ==
  [op \in {"||"} |-> 1] @@ [op \in {"&&"} |-> 2] @@ [op \in {"==", "!="} |-> 3] @@
  [op \in {"<", "<=", ">", ">="} |-> 4] @@ [op \in {"+", "-"} |-> 5] @@
  [op \in {"*", "/"} |-> 6]

-----------------------------------------------------------------------------
(* The parser.  A parse is a node and the position after it; Fail stands   *)
(* for every ParseError.                                                   *)

Fail == [node |-> <<"error">>, pos |-> 0]
Failed(r) == r.pos = 0
Peek(ts, i) == IF i \in DOMAIN ts THEN ts[i] ELSE "eof"
Expect(r, ts, tok) ==
  IF ~Failed(r) /\ Peek(ts, r.pos) = tok THEN [r EXCEPT !.pos = @ + 1] ELSE Fail

\* identToNode: literals, private inputs, fact paths, then variables.
IdentToNode(tok) ==
  CASE tok \in {"true", "false"} -> <<"literal", tok>>
    [] tok \in DOMAIN PrivatePaths -> <<"private", PrivatePaths[tok]>>
    [] tok \in FactPaths -> <<"fact", tok>>
    [] tok \in Variables -> <<"identifier", tok>>
    [] OTHER -> <<"error">>

RECURSIVE ParseExpr(_, _, _), ParseUnary(_, _), ParsePrimary(_, _),
          ParseArgs(_, _, _), Climb(_, _, _)

ParseArgs(ts, i, args) ==
  LET r == ParseExpr(ts, i, 0)
      so == Append(args, r.node)
  IN  IF Failed(r) THEN Fail
      ELSE IF Peek(ts, r.pos) = "," THEN ParseArgs(ts, r.pos + 1, so)
      ELSE [node |-> so, pos |-> r.pos]

ParseCall(ts, i) ==
  LET r == Expect(ParseArgs(ts, i + 2, <<>>), ts, ")")
  IN  IF Failed(r) \/ Len(r.node) < 2 THEN Fail
      ELSE [node |-> <<"call", ts[i], r.node>>, pos |-> r.pos]

ParsePrimary(ts, i) ==
  LET t == Peek(ts, i)
  IN  IF t = "(" THEN Expect(ParseExpr(ts, i + 1, 0), ts, ")")
      ELSE IF t \in DOMAIN Numerals THEN [node |-> <<"literal", t>>, pos |-> i + 1]
      ELSE IF Peek(ts, i + 1) = "("
           THEN IF t \in Reducers THEN ParseCall(ts, i) ELSE Fail
      ELSE IF IdentToNode(t) = <<"error">> THEN Fail
      ELSE [node |-> IdentToNode(t), pos |-> i + 1]

ParseUnary(ts, i) ==
  IF Peek(ts, i) \notin {"!", "-"} THEN ParsePrimary(ts, i)
  ELSE LET r == ParseUnary(ts, i + 1)
       IN  IF Failed(r) THEN Fail
           ELSE [node |-> <<"unary", ts[i], r.node>>, pos |-> r.pos]

\* The loop of parseExpr, with the left operand parsed.
MutClimb(ts, l, minPrec) ==
  LET op == Peek(ts, l.pos)
  IN  IF Failed(l) THEN Fail
      ELSE IF op \notin DOMAIN Precedence THEN l
      ELSE IF Precedence[op] <= minPrec THEN l
      ELSE LET r == ParseExpr(ts, l.pos + 1, Precedence[op] + 1)
           IN  IF Failed(r) THEN Fail
               ELSE Climb(ts, [node |-> <<"binary", op, l.node, r.node>>,
                               pos |-> r.pos], minPrec)
Climb(ts, l, minPrec) ==
  LET op == Peek(ts, l.pos)
  IN  IF Failed(l) THEN Fail
      ELSE IF op \notin DOMAIN Precedence THEN l
      ELSE IF Precedence[op] < minPrec THEN l
      ELSE LET r == ParseExpr(ts, l.pos + 1, Precedence[op] + 1)
           IN  IF Failed(r) THEN Fail
               ELSE Climb(ts, [node |-> <<"binary", op, l.node, r.node>>,
                               pos |-> r.pos], minPrec)

ParseExpr(ts, i, minPrec) == Climb(ts, ParseUnary(ts, i), minPrec)

\* name = expr ; where the name is a simple identifier that is not reserved
\* and does not start with "private".
ParseAssignment(ts, i) ==
  LET r == Expect(ParseExpr(ts, i + 2, 0), ts, ";")
  IN  IF Peek(ts, i) \in Variables /\ Peek(ts, i + 1) = "=" /\ ~Failed(r)
      THEN [node |-> [name |-> ts[i], expr |-> r.node], pos |-> r.pos]
      ELSE Fail

\* The statements from position i on, or <<>> for a program that is refused.
RECURSIVE ParseFrom(_, _)
ParseFrom(ts, i) ==
  LET r == ParseAssignment(ts, i)
      rest == ParseFrom(ts, r.pos)
  IN  IF Failed(r) THEN <<>>
      ELSE IF r.pos > Len(ts) THEN <<r.node>>
      ELSE IF rest = <<>> THEN <<>> ELSE <<r.node>> \o rest

ParseProgram(ts) == ParseFrom(ts, 1)

-----------------------------------------------------------------------------
(* What the compiler reads off the tree.                                   *)

\* The nodes of a program in the order collectRefs and inferPrivateTypes walk.
RECURSIVE NodeSeq(_)
NodeSeq(node) ==
  <<node>> \o
  CASE node[1] = "unary" -> NodeSeq(node[3])
    [] node[1] = "binary" -> NodeSeq(node[3]) \o NodeSeq(node[4])
    [] node[1] = "call" -> FlattenSeq([i \in DOMAIN node[3] |-> NodeSeq(node[3][i])])
    [] OTHER -> <<>>

ProgramNodes(ast) == FlattenSeq([i \in DOMAIN ast |-> NodeSeq(ast[i].expr)])
Refs(ast, kind) == {n[2] : n \in {m \in ToSet(ProgramNodes(ast)) : m[1] = kind}}

\* inferPrivateTypes: a private input takes the type of the fact it first
\* stands beside in a binary node; a variable has no type, and what has no
\* type is u128.
InferredType(ast, name) ==
  LET self == <<"private", name>>
      Beside(n) ==
        /\ n[1] = "binary"
        /\ (n[3] = self /\ n[4][1] = "fact") \/ (n[4] = self /\ n[3][1] = "fact")
      beside == SelectSeq(ProgramNodes(ast), Beside)
      n == Head(beside)
  IN  IF beside = <<>> THEN "u128" ELSE TypeOf(IF n[3] = self THEN n[4][2] ELSE n[3][2])

\* The nodes of a statement, with its name and expression.
Statement(s) == [name |-> s.name, expr |-> s.expr, nodes |-> ToSet(NodeSeq(s.expr))]

\* compileIntent up to the binding; a program that is refused has no statement.
Analyse(program) ==
  LET ast == ParseProgram(program)
      names == Refs(ast, "private")
  IN  [ast |-> [i \in DOMAIN ast |-> Statement(ast[i])],
       facts |-> Refs(ast, "fact"),
       types |-> [x \in names |-> InferredType(ast, x)]]
=============================================================================
