----------------------------- MODULE PolicyFacts -----------------------------
(***************************************************************************)
(* Semantic facts as a policy sees them: the selector table that binds a   *)
(* fact path to a capsule fact (compute/bindings.ts), the normalization    *)
(* the evaluator applies (compute/normalize.ts) and the one the zk leaf    *)
(* applies (source-records/zk-hash.ts).  A value of the interpreter is a   *)
(* number that may be a boolean: asBig(true) is 1, asBool(n) is n # 0.     *)
(***************************************************************************)
EXTENDS Integers, Sequences

CONSTANTS Unit,   \* decimals are multiples of 1/Unit (7 decimals: 10^7)
          Scale,  \* fixed point (10^6)
          P       \* the order of the scalar field

ASSUME FactsAssumption == Unit \in Nat \ {0} /\ Scale \in Nat \ {0} /\ P \in Nat \ {0}

-----------------------------------------------------------------------------
(* Values.                                                                 *)

\* Throw stands for every ComputeTypeError and ComputeEvalError.
Throw == [n |-> 0, bool |-> FALSE, throws |-> TRUE]
Big(k) == [n |-> k, bool |-> FALSE, throws |-> FALSE]
Bool(b) == [n |-> IF b THEN 1 ELSE 0, bool |-> TRUE, throws |-> FALSE]
AsBool(v) == v.n # 0

\* BigInt division truncates toward zero.
TruncDiv(a, b) ==
  LET Abs(x) == IF x < 0 THEN -x ELSE x
      q == Abs(a) \div Abs(b)
  IN  IF (a < 0) = (b < 0) THEN q ELSE -q

\* The value of a fact or of a private input: a decimal of raw/Unit, whole
\* when it has no point, a boolean, or a word.  A float below 10^-6 or from
\* 10^21 on prints with an exponent and is a word to every pattern here.
Decimal(raw) == [kind |-> "number", raw |-> raw]
Flag(b) == [kind |-> "boolean", raw |-> IF b THEN 1 ELSE 0]
Word(w) == [kind |-> w, raw |-> 0]

IsFlag(v) == v.kind = "boolean"
IsDecimal(v) == v.kind = "number"

-----------------------------------------------------------------------------
(* Binding.                                                                *)

Selector(protocol, entity, field, type) ==
  [protocol |-> protocol, entity |-> entity, field |-> field, type |-> type]

\* selectorFor, for the reserve the recipes name.
Selectors ==
  LET Blend(e, f, t) == Selector("blend", e, f, t)
      Aqua(f, t) == Selector("aquarius", "route", f, t)
      Sdex(e, f, t) == Selector("stellar_dex", e, f, t)
  IN
  [ totalSupplied     |-> Blend("reserve", "reserve.totalSupplied", "u128"),
    totalBorrowed     |-> Blend("reserve", "reserve.totalBorrowed", "u128"),
    poolUtilization   |-> Blend("reserve", "pool.utilization", "fixed_1e6"),
    isFresh           |-> Blend("oracle", "oracle.freshness", "bool"),
    healthAfterAction |-> Blend("position", "health.factor", "fixed_1e6"),
    borrowLimit       |-> Blend("position", "borrow.limit", "u128"),
    liabilityUsed     |-> Blend("position", "borrow.used", "u128"),
    estimatedOut      |-> Aqua("slippage.estimated_out", "u128"),
    slippageBps       |-> Aqua("slippage.estimated", "u64"),
    routeHops         |-> Aqua("route.hops", "u64"),
    routeAvailable    |-> Aqua("route.available", "bool"),
    pathAvailable     |-> Sdex("route", "path.available", "bool"),
    pathEstimatedOut  |-> Sdex("route", "path.estimated_out", "u128"),
    spreadBps         |-> Sdex("market", "market.spread_bps", "u64"),
    bestBid           |-> Sdex("market", "market.best_bid", "fixed_1e6"),
    bestAsk           |-> Sdex("market", "market.best_ask", "fixed_1e6") ]

FactPaths == DOMAIN Selectors
TypeOf(path) == Selectors[path].type

Selects(sel, fact) ==
  /\ fact.protocol = sel.protocol /\ fact.entity = sel.entity /\ fact.field = sel.field
  /\ sel.entity = "reserve" => fact.symbol = "USDC"

\* bindFact: the position of the first matching fact of the capsule, or 0
\* when there is none or it has no source record (both throw).
Bind(path, facts) ==
  LET hits == {i \in DOMAIN facts : Selects(Selectors[path], facts[i])}
      i == CHOOSE j \in hits : \A k \in hits : j <= k
  IN  IF hits = {} THEN 0 ELSE IF facts[i].cites # {} THEN i ELSE 0

Binds(path, facts) == Bind(path, facts) # 0
BoundFact(path, facts) == facts[Bind(path, facts)]

-----------------------------------------------------------------------------
(* Normalization for the evaluator.                                        *)

ToFixed(v) ==
  IF IsDecimal(v) THEN Big(TruncDiv(v.raw * Scale, Unit)) ELSE Throw
ToIntBig(v) == IF IsDecimal(v) THEN Big(TruncDiv(v.raw, Unit)) ELSE Throw
ToBool(v) ==
  CASE v.kind = "fresh" -> Bool(TRUE)
    [] v.kind \in {"stale", "unknown"} -> Bool(FALSE)
    [] OTHER -> Bool(v.kind \notin {"boolean", "number"} \/ v.raw # 0)

\* normalizeFactValue.
NormalizeFact(path, fact) ==
  LET v == fact.value
  IN  CASE fact.field = "route.available" -> Bool(v # Flag(FALSE))
        [] TypeOf(path) = "bool" /\ fact.field # "route.available" -> ToBool(v)
        [] TypeOf(path) = "fixed_1e6" -> IF IsFlag(v) THEN Big(v.raw * Scale) ELSE ToFixed(v)
        [] TypeOf(path) \in {"u64", "u128"} -> ToIntBig(v)

\* normalizePrivateInput.
NormalizePrivate(v, type) ==
  CASE type = "bool" -> ToBool(v)
    [] type = "fixed_1e6" -> ToFixed(v)
    [] type \in {"u64", "u128", "i128"} -> ToIntBig(v)

-----------------------------------------------------------------------------
(* Normalization for the zk leaf.                                          *)

\* FIXED_1E6_FIELDS.
FixedFields == {"pool.utilization", "health.factor", "market.best_bid", "market.best_ask"}

\* bytes32ToFr(hashSemanticFact(fact)): no number of the field is written so.
Hashed == P

\* factValueToFr.
FactValueToFr(fact) ==
  LET v == fact.value
  IN  CASE IsFlag(v) -> v.raw
        [] v.kind = "fresh" -> 1
        [] v.kind \in {"stale", "unknown"} -> 0
        [] IsDecimal(v) -> (IF fact.field \in FixedFields
                            THEN TruncDiv(v.raw * Scale, Unit) ELSE TruncDiv(v.raw, Unit)) % P
        [] OTHER -> Hashed

\* FACT_PATH_IDS and factPathId; 0 is an unregistered path.
PathIds ==
  [ totalBorrowed |-> 1001, totalSupplied |-> 1002, isFresh |-> 1003,
    healthAfterAction |-> 1004, estimatedOut |-> 2001, routeHops |-> 2002,
    routeAvailable |-> 2003, pathAvailable |-> 3001, pathEstimatedOut |-> 3002,
    spreadBps |-> 3003 ]

FactPathId(fact) ==
  LET hits == {p \in DOMAIN PathIds :
                 /\ Selectors[p].field = fact.field
                 /\ p \notin {"isFresh", "healthAfterAction"} =>
                      fact.protocol = Selectors[p].protocol
                 /\ Selectors[p].entity = "reserve" =>
                      fact.entity = "reserve" /\ fact.symbol = "USDC"}
  IN  IF hits = {} THEN 0 ELSE PathIds[CHOOSE p \in hits : TRUE]

\* zkFactLeaf; the leaf hash is injective in these four.
ZkFactLeaf(fact) == <<FactPathId(fact), FactValueToFr(fact), fact.adapter, fact.ledger>>

-----------------------------------------------------------------------------
(* Freshness (semantic-core/freshness.ts): the fields whose facts are      *)
(* older than the policy allows.                                           *)

DefaultFreshness ==
  LET Routes == {"slippage.estimated_out", "slippage.estimated",
                 "path.estimated_out", "path.source_amount"}
      Markets == {"market.best_bid", "market.best_ask", "market.spread_bps",
                  "liquidity.depth_1pct", "liquidity.depth_2pct"}
      Lending == {"pool.utilization", "health.factor", "reserve.totalBorrowed",
                  "reserve.totalSupplied", "oracle.freshness"}
  IN  [f \in Routes \cup Markets \cup Lending |->
         IF f \in Routes THEN 20 ELSE IF f \in Markets THEN 30 ELSE 60]

MutStaleFields(facts, policy) ==
  {facts[i].field : i \in {j \in DOMAIN facts :
     facts[j].field \in DOMAIN policy /\ facts[j].age >= policy[facts[j].field]}}
StaleFields(facts, policy) ==
  {facts[i].field : i \in {j \in DOMAIN facts :
     facts[j].field \in DOMAIN policy /\ facts[j].age > policy[facts[j].field]}}
=============================================================================
