-------------------------- MODULE ProtocolAdapters --------------------------
(***************************************************************************)
(* What the Blend, Aquarius and SDEX adapters make of the responses of the *)
(* chain, and the answers drawn from it (their ask, sdk-ts/reason.ts).     *)
(* A response is a record with a field ok; FALSE is an error the code      *)
(* catches, or throws on when it has no other way.  Facts are those of     *)
(* PolicyFacts with the source records they cite and their confidence.     *)
(***************************************************************************)
EXTENDS PolicyFacts, SequencesExt

NoLedger == 0
Record(call, n, adapter, ledger) == [id |-> <<call, n>>, adapter |-> adapter, ledger |-> ledger]
Ids(sources) == {sources[i].id : i \in DOMAIN sources}
When(condition, seq) == IF condition THEN seq ELSE <<>>

\* buildFact.  A fact without a ledger of its own takes that of the first
\* source which has one; its adapter is that of the first source.
BuildFact(protocol, entity, symbol, field, value, ledger, sources, confidence) ==
  LET dated == SelectSeq(sources, LAMBDA s : s.ledger # NoLedger)
  IN  [protocol |-> protocol, entity |-> entity, symbol |-> symbol, field |-> field,
       value |-> value, confidence |-> confidence, cites |-> Ids(sources), age |-> 0,
       adapter |-> IF sources = <<>> THEN "0x" ELSE sources[1].adapter,
       ledger |-> IF ledger # NoLedger \/ dated = <<>> THEN ledger ELSE dated[1].ledger]

\* Facts of one entity, from <<field, value>> pairs.
EntityFacts(protocol, entity, symbol, pairs, ledger, sources, confidence) ==
  [i \in DOMAIN pairs |->
     BuildFact(protocol, entity, symbol, pairs[i][1], pairs[i][2], ledger, sources, confidence)]

Thrown == [ok |-> FALSE]
Context(facts, sources, warnings) ==
  [ok |-> TRUE, facts |-> facts, sources |-> sources, warnings |-> warnings]

\* factValue: of the first fact with the field.
WithField(facts, field) == {i \in DOMAIN facts : facts[i].field = field}
HasFact(facts, field) == WithField(facts, field) # {}
FirstValue(facts, hits) == facts[CHOOSE i \in hits : \A j \in hits : i <= j].value
FactValue(facts, field) == FirstValue(facts, WithField(facts, field))
NumberOr(facts, field, default) ==
  IF HasFact(facts, field) THEN FactValue(facts, field).raw ELSE default

-----------------------------------------------------------------------------
(* Blend.                                                                  *)

\* SAFE_UTILIZATION is 0.8.
WithinSafe(utilization) == 10 * utilization <= 8 * Unit

MapStatus(status) ==
  IF status <= 1 THEN "active" ELSE IF status = 2 THEN "on_ice" ELSE "frozen"

\* loadPool: the second version is tried only when the first fails.
LoadPool(load) == IF load.v2.ok THEN load.v2 ELSE load.v1

BackstopStatus(b) ==
  IF ~b.ok THEN "unknown"
  ELSE IF b.value > 0 /\ 2 * b.queued < Unit THEN "healthy" ELSE "weak"

\* What else a reserve may report.
ExtraFields ==
  {"reserve.utilizationCap", "reserve.supplyCap", "reserve.collateralFactor",
   "reserve.liabilityFactor", "reserve.borrowApr", "reserve.supplyApr", "reward.claimable"}

\* poolFacts over fetchPool.  A reserve is labelled by its symbol when the
\* network's registry has the asset; extras are pairs of an extra field and
\* its value.
ReserveFacts(pool, sources) ==
  LET Label(asset) == IF asset \in pool.registry THEN asset ELSE "contract"
      Of(r) == EntityFacts("blend", "reserve", Label(r.asset),
        << <<"pool.utilization", r.utilization>>, <<"reserve.totalSupplied", r.supplied>>,
           <<"reserve.totalBorrowed", r.borrowed>> >> \o r.extras,
        pool.ledger, sources, "high")
  IN  FlattenSeq([i \in DOMAIN pool.reserves |-> Of(pool.reserves[i])])

PoolFacts(pool, sources) ==
  LET fresh == pool.oracle.ok
      status == BackstopStatus(pool.backstop)
      One(entity, field, value, ledger, confidence) ==
        EntityFacts("blend", entity, "", << <<field, value>> >>, ledger, sources, confidence)
  IN  One("pool", "pool.status", Word(MapStatus(pool.status)), pool.ledger, "high")
        \o ReserveFacts(pool, sources)
        \o One("oracle", "oracle.freshness", Word(IF fresh THEN "fresh" ELSE "unknown"),
               IF fresh THEN pool.oracle.ledger ELSE NoLedger, IF fresh THEN "high" ELSE "low")
        \o One("backstop", "backstop.status", Word(status), pool.ledger,
               IF status = "unknown" THEN "low" ELSE "high")
        \o When(pool.backstop.ok,
                One("backstop", "backstop.value", Decimal(pool.backstop.value), pool.ledger, "high"))

\* fetchUser loads the pool again, and the oracle and the position together.
FetchedUser(user) ==
  /\ LoadPool(user.pool).ok /\ LoadPool(user.pool).oracle.ok
  /\ user.position.ok

\* userFacts; the factor is rounded, and without debt it is the word Infinity.
UserFacts(user, sources) ==
  LET c == user.position.collateral
      l == user.position.liabilities
      health == IF l <= 0 THEN Word("infinite") ELSE Decimal((2 * c * Unit + l) \div (2 * l))
  IN  EntityFacts("blend", "position", "",
        << <<"health.factor", health>>, <<"borrow.limit", Decimal(c)>>, <<"borrow.used", Decimal(l)>> >>,
        LoadPool(user.pool).ledger, sources, "high")

\* getPoolContext; a missing position is a warning.
GetPoolContext(r, withWallet) ==
  LET pool == LoadPool(r.pool)
      sources == <<Record("PoolV2.load", 1, "blend", pool.ledger)>>
      known == withWallet /\ FetchedUser(r.user)
      own == <<Record("loadUser", 1, "blend", LoadPool(r.user.pool).ledger)>>
  IN  IF ~pool.ok THEN Thrown
      ELSE Context(PoolFacts(pool, sources) \o When(known, UserFacts(r.user, own)),
                   sources \o When(known, own),
                   IF withWallet /\ ~known THEN {"user position unavailable"} ELSE {})

\* getUserContext.
GetUserContext(r) ==
  LET own == <<Record("loadUser", 1, "blend", LoadPool(r.user.pool).ledger)>>
  IN  IF FetchedUser(r.user) THEN Context(UserFacts(r.user, own), own, {}) ELSE Thrown

-----------------------------------------------------------------------------
(* Aquarius.                                                               *)

\* fetchPoolInfo: three getters, each optional.
InfoSources(i, info) ==
  When(info.type.ok, <<Record("get_info", i, "aquarius", info.ledger)>>)
    \o When(info.reserves.ok, <<Record("get_reserves", i, "aquarius", info.ledger)>>)
    \o When(info.shares.ok, <<Record("get_total_shares", i, "aquarius", info.ledger)>>)

\* poolInfoFacts.
PoolInfoFacts(info, own) ==
  LET volatility == IF info.type.value = "stable_swap" THEN "stable" ELSE "volatile"
      tvl == FoldSeq(LAMBDA x, sum : x + sum, 0, info.reserves.value)
  IN  EntityFacts("aquarius", "pool", "",
        << <<"pool.exists", Flag(TRUE)>> >>
          \o When(info.type.ok,
                  << <<"pool.type", Word(info.type.value)>>, <<"pool.volatility", Word(volatility)>>,
                     <<"pool.fee_bps", Decimal(info.type.fee * Unit)>> >>)
          \o When(info.reserves.ok, << <<"liquidity.depth", Decimal(tvl * Unit)>> >>)
          \o When(info.shares.ok, << <<"pool.total_shares", Decimal(info.shares.value * Unit)>> >>),
        IF own = <<>> THEN NoLedger ELSE own[1].ledger, own, "high")

\* A pool that answers no getter is cited from the discovery.
MutCitedFrom(own, found) == own
CitedFrom(own, found) == IF own = <<>> THEN found ELSE own

\* getPools.
GetPools(r) ==
  LET found == <<Record("get_pools", 1, "aquarius", r.ledger)>>
      own == [i \in DOMAIN r.pools |-> InfoSources(i, r.pools[i].info)]
      Of(i) == PoolInfoFacts(r.pools[i].info, CitedFrom(own[i], found))
      facts == FlattenSeq([i \in DOMAIN r.pools |-> Of(i)])
  IN  IF r.pools = <<>>
      THEN Context(EntityFacts("aquarius", "route", "", << <<"pool.exists", Flag(FALSE)>> >>,
                               NoLedger, found, "high"),
                   found, {"no pool"})
      ELSE Context(facts, found \o FlattenSeq(own), {})

\* slippageBps of the quote against the price of a small trade, rounded.
Slippage(ideal, out) ==
  IF ideal <= 0 \/ out >= ideal THEN 0 ELSE (2 * 10000 * (ideal - out) + ideal) \div (2 * ideal)

RouteFacts(pairs, ledger, cited) ==
  EntityFacts("aquarius", "route", "", pairs, ledger, cited, "high")

\* What is stated of the route through `pool`; without a price for a small
\* trade its slippage is not.
QuotedRoute(pool, slip, sources) ==
  RouteFacts(<< <<"slippage.estimated_out", Decimal(pool.quote.out * Unit)>> >>,
             pool.quote.ledger, sources)
    \o RouteFacts(<< <<"route.hops", Decimal(Unit)>>, <<"route.pool_id", Word("pool")>> >>,
                  NoLedger, sources)
    \o When(pool.ref.ok /\ pool.ref.out > 0,
            RouteFacts(<< <<"slippage.estimated", Decimal(slip * Unit)>> >>,
                       pool.quote.ledger, sources))

\* The type and fee of the pool, when its getter answers.
RoutePool(info, own) ==
  When(info.type.ok,
       RouteFacts(<< <<"pool.type", Word(info.type.value)>>,
                     <<"pool.fee_bps", Decimal(info.type.fee * Unit)>> >>, NoLedger, own))

\* The first pool with the best output.
BestPool(pools, priced) ==
  CHOOSE i \in priced : \A j \in priced :
    \/ pools[i].quote.out > pools[j].quote.out
    \/ pools[i].quote.out = pools[j].quote.out /\ i <= j

\* estimateSwap: every pool is asked in turn, a thousandth of the amount
\* prices the slippage.  route.available is only ever stated as false.
EstimateSwap(r, amountIn) ==
  LET found == <<Record("get_pools", 1, "aquarius", r.ledger)>>
      priced == {i \in DOMAIN r.pools : r.pools[i].quote.ok}
      best == BestPool(r.pools, priced)
      pool == r.pools[best]
      Quote(i) == When(i \in priced,
                       <<Record("estimate_swap", i, "aquarius", r.pools[i].quote.ledger)>>)
      quotes == found \o FlattenSeq([i \in DOMAIN r.pools |-> Quote(i)])
      sources == quotes \o When(pool.ref.ok,
                   <<Record("estimate_swap:ref", best, "aquarius", pool.ref.ledger)>>)
      small == IF amountIn \div 1000 > 1 THEN amountIn \div 1000 ELSE 1
      slip == Slippage((amountIn * pool.ref.out) \div small, pool.quote.out)
      own == InfoSources(best, pool.info)
      failed == IF priced # DOMAIN r.pools THEN {"estimate failed"} ELSE {}
  IN  IF priced = {}
      THEN Context(RouteFacts(<< <<"route.available", Flag(FALSE)>> >>, NoLedger, quotes),
                   quotes, failed \cup {"no route"})
      ELSE Context(QuotedRoute(pool, slip, sources) \o RoutePool(pool.info, own),
                   sources \o own,
                   failed \cup (IF pool.ref.ok THEN {} ELSE {"no reference"}))

-----------------------------------------------------------------------------
(* Stellar DEX.                                                            *)

MarketFacts(pairs, ledger, sources) ==
  EntityFacts("stellar_dex", "market", "", pairs, ledger, sources, "medium")

\* depthWithin: the volume of the asks up to pct percent above the middle.
DepthWithin(asks, bid, pct) ==
  LET Above(i) == 200 * asks[i].price > (bid + asks[1].price) * (100 + pct)
      near == {i \in DOMAIN asks : \A j \in 1..i : ~Above(j)}
  IN  FoldSeq(LAMBDA level, sum : level.amount + sum, 0,
              SubSeq(asks, 1, Cardinality(near)))

\* spreadBps, rounded.
Spread(bid, ask) ==
  IF bid + ask <= 0 THEN 0 ELSE (4 * 10000 * (ask - bid) + bid + ask) \div (2 * (bid + ask))

\* getMarket: the book, then the recent trades, which are optional.
GetMarket(r) ==
  LET book == <<Record("order_book", 1, "sdex", r.ledger)>>
      sources == book \o When(r.trades.ok, <<Record("trades", 1, "sdex", r.trades.ledger)>>)
      bid == r.bids[1].price
      ask == r.asks[1].price
      both == r.bids # <<>> /\ r.asks # <<>>
  IN  Context(
        MarketFacts(
          When(r.bids # <<>>, << <<"market.best_bid", Decimal(bid)>> >>)
            \o When(r.asks # <<>>, << <<"market.best_ask", Decimal(ask)>> >>)
            \o When(both,
                 << <<"market.spread_bps", Decimal(Spread(bid, ask) * Unit)>>,
                    <<"liquidity.depth_1pct", Decimal(DepthWithin(r.asks, bid, 1))>>,
                    <<"liquidity.depth_2pct", Decimal(DepthWithin(r.asks, bid, 2))>> >>),
          r.ledger, book)
        \o When(r.trades.ok,
             MarketFacts(<< <<"market.recent_volume", Decimal(r.trades.volume)>>,
                            <<"market.recent_trades", Decimal(r.trades.count * Unit)>> >>,
                         r.ledger, sources)),
        sources, IF both THEN {} ELSE {"one-sided book"})

\* findPath; the first record of Horizon's answer is the best path.
FindPath(r) ==
  LET sources == <<Record("strict-send", 1, "sdex", r.ledger)>>
      available == r.paths # <<>>
      best == r.paths[1]
  IN  Context(
        EntityFacts("stellar_dex", "route", "",
          << <<"path.available", Flag(available)>> >>
            \o When(available, << <<"path.estimated_out", Decimal(best.out)>>,
                                  <<"route.hops", Decimal((best.between + 1) * Unit)>> >>),
          r.ledger, sources, "medium"),
        sources, IF available THEN {} ELSE {"no path"})

\* findPathStrictReceive.
FindPathStrictReceive(r) ==
  LET sources == <<Record("strict-receive", 1, "sdex", r.ledger)>>
      available == r.paths # <<>>
  IN  Context(
        EntityFacts("stellar_dex", "route", "",
          << <<"path.available", Flag(available)>> >>
            \o When(available, << <<"path.source_amount", Decimal(r.paths[1].out)>> >>),
          r.ledger, sources, "medium"),
        sources, IF available THEN {} ELSE {"no path"})

\* getLiquidityPools; the first pool carries the ledger of its last change.
GetLiquidityPools(r) ==
  LET sources == <<Record("liquidity_pools", 1, "sdex", r.ledger)>>
      top == r.classic[1]
      Pool(pairs, ledger) == EntityFacts("stellar_amm", "pool", "", pairs, ledger, sources, "medium")
  IN  Context(
        Pool(<< <<"liquidity.available", Decimal(Len(r.classic) * Unit)>> >>, r.ledger)
          \o When(r.classic # <<>>,
               Pool(<< <<"pool.id", Word("id")>>, <<"pool.total_shares", Decimal(top.shares)>>,
                       <<"pool.fee_bps", Decimal(top.fee * Unit)>>,
                       <<"pool.trustlines", Decimal(top.trustlines * Unit)>>,
                       <<"pool.reserve.XLM", Decimal(top.reserve)>> >>,
                    IF top.modified # NoLedger THEN top.modified ELSE r.ledger)),
        sources, IF r.classic = <<>> THEN {"no classic pool"} ELSE {})

\* getOffers.
GetOffers(r) ==
  LET sources == <<Record("offers", 1, "sdex", r.ledger)>>
  IN  Context(MarketFacts(<< <<"market.open_offers", Decimal(r.offers * Unit)>> >>, r.ledger, sources),
              sources, {})

-----------------------------------------------------------------------------
(* Composition (ContextModule.build).                                      *)

\* The adapters run one after the other; one that throws ends the build.
Compose(contexts) ==
  IF \E i \in DOMAIN contexts : ~contexts[i].ok THEN Thrown
  ELSE Context(FlattenSeq([i \in DOMAIN contexts |-> contexts[i].facts]),
               FlattenSeq([i \in DOMAIN contexts |-> contexts[i].sources]),
               UNION {contexts[i].warnings : i \in DOMAIN contexts})

-----------------------------------------------------------------------------
(* Answers.                                                                *)

ConfidenceRank == [high |-> 3, medium |-> 2, low |-> 1]

\* aggregateConfidence: that of the weakest fact.
AggregateConfidence(facts) ==
  IF facts = <<>> THEN "low"
  ELSE LET c == {facts[i].confidence : i \in DOMAIN facts}
       IN  CHOOSE x \in c : \A y \in c : ConfidenceRank[x] <= ConfidenceRank[y]

AssembleAnswer(decision, facts, warnings) ==
  [decision |-> decision, confidence |-> AggregateConfidence(facts),
   warnings |-> warnings \cup StaleFields(facts, DefaultFreshness)]

Utilizations(facts) ==
  {facts[i].value.raw : i \in {j \in DOMAIN facts : facts[j].field = "pool.utilization"}}

\* BlendAdapter.ask.
BlendAsk(c) ==
  AssembleAnswer(
    IF Utilizations(c.facts) = {} THEN "unknown"
    ELSE IF \A u \in Utilizations(c.facts) : WithinSafe(u) THEN "safe" ELSE "conditional",
    c.facts, c.warnings)

\* AquariusAdapter.ask.
AquariusAsk(c, maxSlippageBps) ==
  LET known == HasFact(c.facts, "slippage.estimated")
      slipOk == known /\ FactValue(c.facts, "slippage.estimated").raw <= maxSlippageBps * Unit
      hopsOk == NumberOr(c.facts, "route.hops", Unit) <= 4 * Unit
  IN  AssembleAnswer(
        IF HasFact(c.facts, "route.available") THEN "unsafe"
        ELSE IF slipOk /\ hopsOk THEN "safe" ELSE IF known THEN "conditional" ELSE "unknown",
        c.facts, c.warnings)

\* SdexAdapter.ask, over the path and the market of the opposite direction.
SdexContext(path, market) == Compose(<<path, market>>)
SdexAsk(path, market) ==
  LET c == SdexContext(path, market)
      wide == NumberOr(c.facts, "market.spread_bps", 0) > 50 * Unit
  IN  AssembleAnswer(
        IF FactValue(c.facts, "path.available") = Flag(FALSE) THEN "unsafe"
        ELSE IF wide THEN "conditional" ELSE "safe",
        c.facts, c.warnings)

\* reasonComposite; SefiClient.ask hands it no warnings of the contexts.
ReasonComposite(c) ==
  LET utils == Utilizations(c.facts)
      blendSafe == \A u \in utils : WithinSafe(u)
      aqua == {i \in WithField(c.facts, "slippage.estimated") : c.facts[i].protocol = "aquarius"}
      aquaOk == aqua # {} /\ FirstValue(c.facts, aqua).raw <= 100 * Unit
      sdexAvailable == \E i \in DOMAIN c.facts :
        c.facts[i].field = "path.available" /\ c.facts[i].value = Flag(TRUE)
  IN  AssembleAnswer(
        IF utils # {} /\ (aquaOk \/ sdexAvailable)
        THEN IF blendSafe /\ aquaOk THEN "safe" ELSE "conditional"
        ELSE IF blendSafe THEN "unknown" ELSE "unsafe",
        c.facts, {})
=============================================================================
