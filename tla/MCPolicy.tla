------------------------------ MODULE MCPolicy ------------------------------
(***************************************************************************)
(* Bounded inputs for the policy language, the adapters and the recipes.   *)
(* A behaviour either grows an expression token by token, or makes a       *)
(* request.                                                                *)
(***************************************************************************)
EXTENDS PolicyRequests, PolicyLanguage

CONSTANT MaxTokens      \* bound on the length of an expression

VARIABLE tokens         \* the expression

vars == <<policyVars, tokens>>

MCNumerals == [t \in {"1", "2", "4"} |-> CASE t = "1" -> 1 [] t = "2" -> 2 [] OTHER -> 4]
MCPrivatePaths ==
  [t \in {"private.maxUtilization", "private.minHealth", "private.minOut",
          "private.minReceive", "private.maxSpreadBps"} |->
     CASE t = "private.maxUtilization" -> "maxUtilization"
       [] t = "private.minHealth" -> "minHealth"
       [] t = "private.minOut" -> "minOut"
       [] t = "private.minReceive" -> "minReceive"
       [] OTHER -> "maxSpreadBps"]

MCPrivateValues ==
  [ maxUtilization |-> {Decimal(24)} \cup (IF WithSchema THEN {Decimal(6)} ELSE {}),
    minHealth |-> {Decimal(8), Decimal(10)},
    minOut |-> {Decimal(16), Decimal(17)},
    minReceive |-> {Decimal(16), Decimal(17)},
    maxSpreadBps |-> {Decimal(8)} ]

\* All facts new; the first five older, which are a pool's status and its
\* first reserve of two, a quote, or a path and a bid; every fact older.
MCAges == {<<>>, [i \in 1..5 |-> 30], [i \in 1..40 |-> 30]}

-----------------------------------------------------------------------------
(* What the chain may answer.                                              *)

Reserve(asset, borrowed, supplied) ==
  [asset |-> asset, borrowed |-> borrowed, supplied |-> supplied,
   utilization |-> Decimal(IF supplied.raw = 0 THEN 0 ELSE (borrowed.raw * Unit) \div supplied.raw),
   extras |-> << <<"reserve.borrowApr", Decimal(1)>> >>]
ReservesOf(usdc, others) == << <<usdc>>, <<Reserve("XLM", Decimal(0), Decimal(8)), usdc>> >> \o
  When(others, << <<usdc, Reserve("XLM", Decimal(15), Decimal(16))>>, <<>> >>)

Pools(usdc, others) ==
  [ok : {TRUE}, status : {1}, ledger : {2}, reserves : ToSet(ReservesOf(usdc, others)),
   registry : {{"USDC", "XLM"}}, oracle : {[ok |-> TRUE, ledger |-> 1], [ok |-> FALSE]},
   backstop : {[ok |-> TRUE, value |-> 8, queued |-> 0]}]
AllPools ==
  LET usual == Reserve("USDC", Decimal(8), Decimal(24))
      one == CHOOSE p \in Pools(usual, FALSE) : p.oracle.ok
      borrowed == {Decimal(x) : x \in {0, 7, 8, 12, 16, 24}} \cup {Word("exponent")}
      supplied == {Decimal(x) : x \in {0, 4, 8, 24, 30}}
  IN  UNION {Pools(Reserve("USDC", b, s), TRUE) : b \in borrowed, s \in supplied}
      \cup {[one EXCEPT !.backstop = [ok |-> FALSE]], [one EXCEPT !.registry = {}],
            [one EXCEPT !.status = 3, !.backstop = [ok |-> TRUE, value |-> 8, queued |-> 6]]}
MCLoads(pools) ==
  [v2 : pools, v1 : {Thrown}] \cup
  {[v2 |-> Thrown, v1 |-> v] : v \in {Thrown, CHOOSE p \in pools : TRUE}}

FewPools ==
  Pools(Reserve("USDC", Decimal(8), Decimal(24)), FALSE) \cup
  Pools(Reserve("USDC", Decimal(23), Decimal(24)), FALSE)
Positions == {[ok |-> FALSE], [ok |-> TRUE, collateral |-> 7, liabilities |-> 8],
              [ok |-> TRUE, collateral |-> 10, liabilities |-> 8],
              [ok |-> TRUE, collateral |-> 8, liabilities |-> 0]}

MCSwapPools ==
  LET quotes == {[ok |-> FALSE]} \cup [ok : {TRUE}, out : {0, 2, 3}, ledger : {3}]
      refs == {[ok |-> FALSE], [ok |-> TRUE, out |-> 1, ledger |-> 4]}
      info == [type |-> [ok |-> TRUE, value |-> "constant_product", fee |-> 30],
               reserves |-> [ok |-> TRUE, value |-> <<5, 5>>],
               shares |-> [ok |-> FALSE], ledger |-> 4]
      none == [info EXCEPT !.type = [ok |-> FALSE], !.reserves = [ok |-> FALSE]]
  IN  [quote : quotes, ref : refs, info : {info, none}]

MCBooks ==
  LET At(price) == [price |-> price, amount |-> 5]
      Trades == [ok |-> TRUE, volume |-> 8, count |-> 2, ledger |-> 3]
      full == {[bids |-> <<At(20000)>>, asks |-> <<At(a), At(20200)>>,
                trades |-> Trades, ledger |-> 3] : a \in {20000, 20002, 20004, 20121}}
      one == CHOOSE b \in full : TRUE
  IN  full \cup {[one EXCEPT !.trades = [ok |-> FALSE]], [one EXCEPT !.bids = <<>>],
                 [one EXCEPT !.asks = <<>>]}

\* Bound: a composite request meets at most one Aquarius pool.
MCAnswers ==
  LET reads == [paths : {<<>>} \cup {<<[out |-> x, between |-> 1]>> : x \in {15, 16, 20}}, ledger : {5}]
      none == {<<>>} \cup {<<p>> : p \in MCSwapPools}
      two == {<<p, q>> : p, q \in {x \in MCSwapPools : x.ref.ok}}
      users == {[pool |-> [v2 |-> p, v1 |-> Thrown],
                 user |-> [pool |-> [v2 |-> q, v1 |-> Thrown], position |-> x]] :
                  p \in FewPools, q \in {Thrown, CHOOSE y \in FewPools : y.oracle.ok}, x \in Positions}
      swaps == [pools : none \cup two, ledger : {3}]
  IN
  [ blend |-> <<[pool : MCLoads(AllPools)]>>, aquarius |-> <<swaps>>, sdex |-> <<reads, MCBooks>>,
    composite |-> <<users, [pools : none, ledger : {3}], reads>>,
    position |-> <<users>>, pools |-> <<swaps>>, receive |-> <<reads>>,
    offers |-> <<[offers : {0, 2}, ledger : {3}]>>,
    classic |-> <<[classic : {<<>>, <<[shares |-> 8, fee |-> 30, trustlines |-> 2,
                                       reserve |-> 8, modified |-> 2]>>}, ledger : {3}]>> ]

-----------------------------------------------------------------------------
Operators == {"||", "&&", "==", "<", "-", "*", "/"}

\* Operands and operators in turn; an operand may be negated.
AddToken(t) ==
  /\ request = None /\ Len(tokens) < MaxTokens
  /\ IF tokens # <<>> /\ Last(tokens) \in DOMAIN Numerals
     THEN t \in Operators
     ELSE \/ t \in DOMAIN Numerals
          \/ t \in {"!", "-"} /\ (tokens # <<>> => Last(tokens) \in Operators)
  /\ tokens' = Append(tokens, t)
  /\ UNCHANGED policyVars

Init == PolicyInit /\ tokens = <<>>
Next ==
  \/ \E t \in Operators \cup DOMAIN Numerals \cup {"!"} : AddToken(t)
  \/ tokens = <<>> /\ PolicyNext /\ UNCHANGED tokens

Spec == Init /\ [][Next]_vars
-----------------------------------------------------------------------------
\* A reference for the grammar: an expression without parentheses is split at
\* the rightmost operator of the lowest precedence, and a prefix operator
\* binds tighter than all of them.
Level ==
  LET Levels == <<{"||"}, {"&&"}, {"=="}, {"<"}, {"-"}, {"*", "/"}>>
  IN  [op \in Operators |-> CHOOSE n \in DOMAIN Levels : op \in Levels[n]]
Binary(ts) == {i \in 2..Len(ts) : ts[i] \in Operators /\ ts[i - 1] \in DOMAIN Numerals}
RECURSIVE Split(_)
Split(ts) ==
  LET ops == Binary(ts)
      i == CHOOSE j \in ops : \A k \in ops \ {j} :
             \/ Level[ts[j]] < Level[ts[k]]
             \/ Level[ts[j]] = Level[ts[k]] /\ k < j
  IN  IF ops # {}
      THEN <<"binary", ts[i], Split(SubSeq(ts, 1, i - 1)), Split(SubSeq(ts, i + 1, Len(ts)))>>
      ELSE IF Len(ts) = 1 THEN <<"literal", ts[1]>>
      ELSE <<"unary", ts[1], Split(Tail(ts))>>

Written(node) ==
  LET W[n \in ToSet(NodeSeq(node))] ==
        CASE n[1] = "literal" -> <<n[2]>>
          [] n[1] = "unary" -> <<n[2], "(">> \o W[n[3]] \o <<")">>
          [] n[1] = "binary" -> <<"(">> \o W[n[3]] \o <<n[2]>> \o W[n[4]] \o <<")">>
  IN  W[node]

\* The parser respects precedence and associates to the left: an expression
\* has the tree of the reference, and so has the same expression written with
\* every parenthesis (PRECEDENCE and parseExpr in parser.ts).
ParserRespectsPrecedence ==
  (tokens # <<>> /\ Last(tokens) \in DOMAIN Numerals) =>
    LET program == <<"x", "=">> \o tokens \o <<";">>
        written == <<"x", "=">> \o Written(Split(tokens)) \o <<";">>
    IN  /\ ParseProgram(program) = <<[name |-> "x", expr |-> Split(tokens)]>>
        /\ ParseProgram(written) = ParseProgram(program)
=============================================================================
