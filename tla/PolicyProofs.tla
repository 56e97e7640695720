---------------------------- MODULE PolicyProofs ----------------------------
EXTENDS PolicyRequests, CapsuleProofs

-----------------------------------------------------------------------------
(* The elements of the sequences the adapters put together.                *)

IsSeq(s) == s \in Seq(ToSet(s))

\* A sequence is the function of its positions, and each entry is an element.
LEMMA SeqDomain ==
  ASSUME NEW s, IsSeq(s)
  PROVE  /\ Len(s) \in Nat /\ DOMAIN s = 1..Len(s) /\ s = [i \in 1..Len(s) |-> s[i]]
         /\ \A i \in 1..Len(s) : s[i] \in ToSet(s)
<1>1. s \in Seq(ToSet(s))
  BY DEF IsSeq
<1> QED
  BY <1>1, LenProperties

\* A sequence over S has its elements in S.
LEMMA SeqOfSet ==
  ASSUME NEW S, NEW s \in Seq(S)
  PROVE  IsSeq(s) /\ ToSet(s) \subseteq S
<1>1. Len(s) \in Nat /\ DOMAIN s = 1..Len(s) /\ s \in [1..Len(s) -> S]
  BY LenProperties
<1>2. \A i \in 1..Len(s) : s[i] \in ToSet(s)
  BY <1>1 DEF ToSet
<1>3. s \in [1..Len(s) -> ToSet(s)]
  BY <1>1, <1>2
<1>4. s \in Seq(ToSet(s))
  BY <1>1, <1>3, IsASeq
<1> QED
  BY <1>1, <1>4 DEF IsSeq, ToSet

\* A function on 1..n is a sequence of n entries.
LEMMA FunctionIsSeq ==
  ASSUME NEW n \in Nat, NEW f, f = [i \in 1..n |-> f[i]]
  PROVE  IsSeq(f) /\ Len(f) = n /\ ToSet(f) = {f[i] : i \in 1..n}
<1>1. DOMAIN f = 1..n
  OBVIOUS
<1>2. ToSet(f) = {f[i] : i \in 1..n}
  BY <1>1 DEF ToSet
<1>3. f \in [1..n -> ToSet(f)]
  BY <1>2
<1>4. f \in Seq(ToSet(f))
  BY <1>3, IsASeq
<1> QED
  BY <1>2, <1>4, LenOfFunction DEF IsSeq

\* The elements of a concatenation are those of its parts.
LEMMA JoinSet ==
  ASSUME NEW s, NEW t, IsSeq(s), IsSeq(t)
  PROVE  IsSeq(s \o t) /\ ToSet(s \o t) = ToSet(s) \cup ToSet(t)
<1> DEFINE S == ToSet(s) \cup ToSet(t)
<1>1. s \in Seq(S) /\ t \in Seq(S)
  BY SeqDomain, IsASeq DEF IsSeq
<1> QED
  BY <1>1, ConcatElements DEF IsSeq

\* A conditional part contributes its elements when its condition holds.
LEMMA WhenSet ==
  ASSUME NEW s, NEW c, c \in BOOLEAN, c => IsSeq(s)
  PROVE  IsSeq(When(c, s)) /\ ToSet(When(c, s)) = IF c THEN ToSet(s) ELSE {}
  BY DEF When, IsSeq, ToSet

\* The elements of the tuples the adapters write out.
LEMMA TupleSet ==
  ASSUME NEW a, NEW b, NEW c, NEW d, NEW e
  PROVE  /\ IsSeq(<<>>) /\ ToSet(<<>>) = {}
         /\ IsSeq(<<a>>) /\ ToSet(<<a>>) = {a}
         /\ IsSeq(<<a, b>>) /\ ToSet(<<a, b>>) = {a, b}
         /\ IsSeq(<<a, b, c>>) /\ ToSet(<<a, b, c>>) = {a, b, c}
         /\ IsSeq(<<a, b, c, d, e>>) /\ ToSet(<<a, b, c, d, e>>) = {a, b, c, d, e}
<1>1. IsSeq(<<>>) /\ ToSet(<<>>) = {}
  BY DEF IsSeq, ToSet
<1>2. IsSeq(<<a>>) /\ ToSet(<<a>>) = {a}
  <2>1. <<a>> \in Seq({a})
    OBVIOUS
  <2>2. ToSet(<<a>>) = {a}
    BY DEF ToSet
  <2> QED
    BY <2>1, <2>2 DEF IsSeq
<1>3. IsSeq(<<a, b>>) /\ ToSet(<<a, b>>) = {a, b}
  <2>1. <<a, b>> \in Seq({a, b})
    OBVIOUS
  <2>2. ToSet(<<a, b>>) = {a, b}
    BY DEF ToSet
  <2> QED
    BY <2>1, <2>2 DEF IsSeq
<1>4. IsSeq(<<a, b, c>>) /\ ToSet(<<a, b, c>>) = {a, b, c}
  <2>1. <<a, b, c>> \in Seq({a, b, c})
    OBVIOUS
  <2>2. ToSet(<<a, b, c>>) = {a, b, c}
    BY DEF ToSet
  <2> QED
    BY <2>1, <2>2 DEF IsSeq
<1>5. IsSeq(<<a, b, c, d, e>>) /\ ToSet(<<a, b, c, d, e>>) = {a, b, c, d, e}
  <2>1. <<a, b, c, d, e>> \in Seq({a, b, c, d, e})
    OBVIOUS
  <2>2. ToSet(<<a, b, c, d, e>>) = {a, b, c, d, e}
    BY DEF ToSet
  <2> QED
    BY <2>1, <2>2 DEF IsSeq
<1> QED
  BY <1>1, <1>2, <1>3, <1>4, <1>5

\* The elements of a flattened list are those of its entries.
LEMMA FlattenedSet ==
  ASSUME NEW n \in Nat, NEW ss, ss = [i \in 1..n |-> ss[i]],
         \A i \in 1..n : IsSeq(ss[i])
  PROVE  /\ IsSeq(FlattenSeq(ss))
         /\ ToSet(FlattenSeq(ss)) = UNION {ToSet(ss[i]) : i \in 1..n}
<1> DEFINE S == UNION {ToSet(ss[i]) : i \in 1..n}
<1>1. \A i \in 1..n : ss[i] \in Seq(S)
  <2> TAKE i \in 1..n
  <2>1. Len(ss[i]) \in Nat /\ ss[i] \in [1..Len(ss[i]) -> S]
    BY SeqDomain
  <2> QED
    BY <2>1, IsASeq
<1>2. ss \in Seq(Seq(S)) /\ DOMAIN ss = 1..n
  <2>1. ss \in [1..n -> Seq(S)]
    BY <1>1
  <2> QED
    BY <2>1, IsASeq
<1> HIDE DEF S
<1>3. FlattenSeq(ss) \in Seq(S)
  BY <1>2, FlattenType
<1>4. IsSeq(FlattenSeq(ss))
  BY <1>3, SeqOfSet
<1>5. ToSet(FlattenSeq(ss)) = UNION {ToSet(ss[i]) : i \in DOMAIN ss}
  BY <1>2, FlattenElements
<1>6. UNION {ToSet(ss[i]) : i \in DOMAIN ss} = UNION {ToSet(ss[i]) : i \in 1..n}
  BY <1>2
<1> QED
  BY <1>4, <1>5, <1>6, Zenon

\* The facts of an entity are built from its pairs, one each.
LEMMA EntitySet ==
  ASSUME NEW protocol, NEW entity, NEW symbol, NEW pairs, NEW ledger, NEW sources,
         NEW confidence, IsSeq(pairs)
  PROVE  LET facts == EntityFacts(protocol, entity, symbol, pairs, ledger, sources, confidence)
         IN  /\ IsSeq(facts)
             /\ ToSet(facts) = {BuildFact(protocol, entity, symbol, p[1], p[2], ledger,
                                          sources, confidence) : p \in ToSet(pairs)}
<1> DEFINE facts == EntityFacts(protocol, entity, symbol, pairs, ledger, sources, confidence)
           Fact(p) == BuildFact(protocol, entity, symbol, p[1], p[2], ledger, sources, confidence)
<1>1. Len(pairs) \in Nat /\ DOMAIN pairs = 1..Len(pairs)
  BY SeqDomain
<1>2. facts = [i \in 1..Len(pairs) |-> Fact(pairs[i])]
  BY <1>1 DEF EntityFacts
<1> HIDE DEF facts, Fact
<1>3. facts = [i \in 1..Len(pairs) |-> facts[i]]
  BY <1>2
<1>4. IsSeq(facts) /\ ToSet(facts) = {facts[i] : i \in 1..Len(pairs)}
  BY <1>1, <1>3, FunctionIsSeq
<1>5. ToSet(facts) = {Fact(p) : p \in ToSet(pairs)}
  BY <1>1, <1>2, <1>4 DEF ToSet
<1> QED
  BY <1>4, <1>5 DEF facts, Fact

\* buildFact keeps what it is given, and its sources are the ids it is handed.
LEMMA FactFields ==
  ASSUME NEW protocol, NEW entity, NEW symbol, NEW field, NEW value, NEW ledger, NEW sources,
         NEW confidence
  PROVE  LET fact == BuildFact(protocol, entity, symbol, field, value, ledger, sources, confidence)
         IN  /\ fact.protocol = protocol /\ fact.entity = entity /\ fact.symbol = symbol
             /\ fact.field = field /\ fact.value = value /\ fact.confidence = confidence
             /\ fact.cites = Ids(sources) /\ fact.age = 0
  BY DEF BuildFact

-----------------------------------------------------------------------------
(* Facts cite the source records returned with them.                       *)

Cited(facts, ids) ==
  IsSeq(facts) /\ \A f \in ToSet(facts) : f.cites # {} /\ f.cites \subseteq ids

\* The ids of a list of sources are the ids of its elements.
LEMMA IdsOfElements ==
  ASSUME NEW s PROVE Ids(s) = {x.id : x \in ToSet(s)}
  BY DEF Ids, ToSet

\* Joining two lists of sources joins their ids.
LEMMA IdsJoin ==
  ASSUME NEW s, NEW t, IsSeq(s), IsSeq(t)
  PROVE  Ids(s \o t) = Ids(s) \cup Ids(t)
  BY JoinSet, IdsOfElements

\* A single source has one id, so the list of its ids is not empty.
LEMMA OneId ==
  ASSUME NEW x PROVE Ids(<<x>>) = {x.id} /\ Ids(<<x>>) # {}
<1>1. Ids(<<x>>) = {x.id}
  <2>1. ToSet(<<x>>) = {x}
    BY TupleSet
  <2> QED
    BY <2>1, IdsOfElements
<1> QED
  BY <1>1

\* The facts of one entity cite the sources they are built from.
LEMMA EntityCited ==
  ASSUME NEW protocol, NEW entity, NEW symbol, NEW pairs, NEW ledger, NEW sources,
         NEW confidence, NEW ids, IsSeq(pairs), Ids(sources) # {}, Ids(sources) \subseteq ids
  PROVE  Cited(EntityFacts(protocol, entity, symbol, pairs, ledger, sources, confidence), ids)
<1> DEFINE facts == EntityFacts(protocol, entity, symbol, pairs, ledger, sources, confidence)
           Fact(p) == BuildFact(protocol, entity, symbol, p[1], p[2], ledger, sources, confidence)
<1>1. IsSeq(facts) /\ ToSet(facts) = {Fact(p) : p \in ToSet(pairs)}
  BY EntitySet
<1>2. ASSUME NEW p PROVE Fact(p).cites = Ids(sources)
  BY FactFields
<1> HIDE DEF facts, Fact
<1>3. \A f \in ToSet(facts) : f.cites = Ids(sources)
  BY <1>1, <1>2
<1> QED
  BY <1>1, <1>3 DEF Cited, facts

\* Two lists of facts that cite ids within a set still do when joined.
LEMMA JoinCited ==
  ASSUME NEW s, NEW t, NEW ids, Cited(s, ids), Cited(t, ids)
  PROVE  Cited(s \o t, ids)
  BY JoinSet DEF Cited

\* So does a conditional part,
LEMMA WhenCited ==
  ASSUME NEW s, NEW c, NEW ids, c \in BOOLEAN, c => Cited(s, ids)
  PROVE  Cited(When(c, s), ids)
  BY WhenSet DEF Cited

\* and a flattened list of such lists.
LEMMA FlattenCited ==
  ASSUME NEW n \in Nat, NEW ss, NEW ids, ss = [i \in 1..n |-> ss[i]],
         \A i \in 1..n : Cited(ss[i], ids)
  PROVE  Cited(FlattenSeq(ss), ids)
<1>1. \A i \in 1..n : IsSeq(ss[i])
  BY DEF Cited
<1>2. IsSeq(FlattenSeq(ss)) /\ ToSet(FlattenSeq(ss)) = UNION {ToSet(ss[i]) : i \in 1..n}
  BY <1>1, FlattenedSet
<1> QED
  BY <1>2 DEF Cited

\* A sequence cites what a larger one returns.
LEMMA MoreCited ==
  ASSUME NEW s, NEW ids, NEW more, Cited(s, ids), ids \subseteq more
  PROVE  Cited(s, more)
  BY DEF Cited

-----------------------------------------------------------------------------
(* The adapters' answers.                                                  *)

LEMMA ThrownOrNot ==
  ASSUME NEW S, \A x \in S : x.ok = TRUE, NEW y \in OrThrown(S)
  PROVE  y.ok \in BOOLEAN /\ (y.ok => y \in S) /\ (~y.ok => y = Thrown)
<1>1. Thrown.ok = FALSE
  BY DEF Thrown
<1>2. CASE y \in S
  BY <1>2
<1>3. CASE y = Thrown
  BY <1>1, <1>3
<1> QED
  BY <1>2, <1>3 DEF OrThrown

\* A pool that loads is one of the pools the chain can answer with.
LEMMA LoadedPool ==
  ASSUME NEW load \in Loads, LoadPool(load).ok
  PROVE  LoadPool(load) \in PoolAnswers
  BY DEF Loads, LoadPool, OrThrown, Thrown

\* The shape of a Blend pool's answer.
LEMMA PoolParts ==
  ASSUME NEW pool \in PoolAnswers
  PROVE  /\ pool.reserves \in Seq(Reserves) /\ pool.oracle.ok \in BOOLEAN
         /\ pool.backstop.ok \in BOOLEAN
         /\ IsSeq(pool.reserves) /\ Len(pool.reserves) \in Nat
         /\ DOMAIN pool.reserves = 1..Len(pool.reserves)
         /\ \A i \in 1..Len(pool.reserves) : pool.reserves[i] \in Reserves
<1>1. /\ pool.reserves \in Seq(Reserves) /\ pool.oracle.ok \in BOOLEAN
      /\ pool.backstop.ok \in BOOLEAN
  <2>1. /\ pool.reserves \in Seq(Reserves)
        /\ pool.oracle \in OrThrown([ok : {TRUE}, ledger : Nat])
        /\ pool.backstop \in OrThrown([ok : {TRUE}, value : Nat, queued : Nat])
    BY DEF PoolAnswers
  <2>2. pool.oracle.ok \in BOOLEAN
    <3>1. \A x \in [ok : {TRUE}, ledger : Nat] : x.ok = TRUE
      OBVIOUS
    <3> QED
      BY <2>1, <3>1, ThrownOrNot
  <2>3. pool.backstop.ok \in BOOLEAN
    <3>1. \A x \in [ok : {TRUE}, value : Nat, queued : Nat] : x.ok = TRUE
      OBVIOUS
    <3> QED
      BY <2>1, <3>1, ThrownOrNot
  <2> QED
    BY <2>1, <2>2, <2>3
<1> QED
  BY <1>1, SeqOfSet, LenProperties

\* The optional fields of a reserve are a list of field and value pairs.
LEMMA ExtrasSeq ==
  ASSUME NEW r \in Reserves
  PROVE  IsSeq(r.extras) /\ ToSet(r.extras) \subseteq ExtraFields \X Printed
<1>1. r.extras \in Seq(ExtraFields \X Printed)
  BY DEF Reserves
<1> QED
  BY <1>1, SeqOfSet

ReservePairs(r) ==
  << <<"pool.utilization", r.utilization>>, <<"reserve.totalSupplied", r.supplied>>,
     <<"reserve.totalBorrowed", r.borrowed>> >> \o r.extras

\* The facts of a Blend pool cite the sources of the call.
LEMMA PoolFactsCited ==
  ASSUME NEW pool \in PoolAnswers, NEW sources, Ids(sources) # {}
  PROVE  Cited(PoolFacts(pool, sources), Ids(sources))
<1> DEFINE ids == Ids(sources)
           Label(asset) == IF asset \in pool.registry THEN asset ELSE "contract"
           Of(r) == EntityFacts("blend", "reserve", Label(r.asset), ReservePairs(r),
                                pool.ledger, sources, "high")
           n == Len(pool.reserves)
           parts == [i \in 1..n |-> Of(pool.reserves[i])]
           One(entity, field, value, ledger, confidence) ==
             EntityFacts("blend", entity, "", << <<field, value>> >>, ledger, sources, confidence)
<1>1. ASSUME NEW entity, NEW field, NEW value, NEW ledger, NEW confidence
      PROVE  Cited(One(entity, field, value, ledger, confidence), ids)
  <2>1. IsSeq(<< <<field, value>> >>)
    BY TupleSet
  <2> QED
    BY <2>1, EntityCited
<1>2. ASSUME NEW i \in 1..n PROVE Cited(Of(pool.reserves[i]), ids)
  <2>1. IsSeq(pool.reserves[i].extras)
    BY PoolParts, ExtrasSeq
  <2>2. IsSeq(ReservePairs(pool.reserves[i]))
    BY <2>1, JoinSet, TupleSet DEF ReservePairs
  <2> QED
    BY <2>2, EntityCited
<1>3. n \in Nat /\ pool.oracle.ok \in BOOLEAN /\ pool.backstop.ok \in BOOLEAN
  BY PoolParts
<1>4. ReserveFacts(pool, sources) = FlattenSeq(parts)
  BY PoolParts DEF ReserveFacts, ReservePairs
<1>5. Cited(ReserveFacts(pool, sources), ids)
  <2>1. parts = [i \in 1..n |-> parts[i]] /\ \A i \in 1..n : parts[i] = Of(pool.reserves[i])
    OBVIOUS
  <2> HIDE DEF parts, Of
  <2>2. \A i \in 1..n : Cited(parts[i], ids)
    BY <1>2, <2>1
  <2> QED
    BY <1>3, <1>4, <2>1, <2>2, FlattenCited
<1> DEFINE fresh == pool.oracle.ok
           status == BackstopStatus(pool.backstop)
           a == One("pool", "pool.status", Word(MapStatus(pool.status)), pool.ledger, "high")
           b == One("oracle", "oracle.freshness", Word(IF fresh THEN "fresh" ELSE "unknown"),
                    IF fresh THEN pool.oracle.ledger ELSE NoLedger, IF fresh THEN "high" ELSE "low")
           c == One("backstop", "backstop.status", Word(status), pool.ledger,
                    IF status = "unknown" THEN "low" ELSE "high")
           d == One("backstop", "backstop.value", Decimal(pool.backstop.value), pool.ledger, "high")
<1>6. PoolFacts(pool, sources)
        = (((a \o ReserveFacts(pool, sources)) \o b) \o c) \o When(pool.backstop.ok, d)
  BY DEF PoolFacts
<1>7. Cited(a, ids) /\ Cited(b, ids) /\ Cited(c, ids) /\ Cited(d, ids)
  BY <1>1
<1> HIDE DEF a, b, c, d, ids
<1>8. Cited(When(pool.backstop.ok, d), ids)
  BY <1>3, <1>7, WhenCited
<1>9. Cited((((a \o ReserveFacts(pool, sources)) \o b) \o c) \o When(pool.backstop.ok, d), ids)
  BY <1>5, <1>7, <1>8, JoinCited
<1> QED
  BY <1>6, <1>9 DEF ids

\* A context's facts cite its own records.
CitesOwn(c) == c.ok => Cited(c.facts, Ids(c.sources))

\* A context whose facts cite its sources cites its own.
LEMMA ContextCites ==
  ASSUME NEW facts, NEW sources, NEW warnings, Cited(facts, Ids(sources))
  PROVE  CitesOwn(Context(facts, sources, warnings))
<1> DEFINE c == Context(facts, sources, warnings)
<1>1. c.facts = facts /\ c.sources = sources
  BY DEF Context
<1> HIDE DEF c
<1> QED
  BY <1>1 DEF CitesOwn, c

\* A call that threw has no facts to cite.
LEMMA ThrownCites == CitesOwn(Thrown)
  BY DEF CitesOwn, Thrown

\* The facts of a Blend position cite the sources of the call.
LEMMA UserFactsCited ==
  ASSUME NEW user, NEW sources, Ids(sources) # {}
  PROVE  Cited(UserFacts(user, sources), Ids(sources))
<1> DEFINE c == user.position.collateral
           l == user.position.liabilities
           health == IF l <= 0 THEN Word("infinite") ELSE Decimal((2 * c * Unit + l) \div (2 * l))
           pairs == << <<"health.factor", health>>, <<"borrow.limit", Decimal(c)>>,
                       <<"borrow.used", Decimal(l)>> >>
<1>1. IsSeq(pairs)
  BY TupleSet
<1>2. UserFacts(user, sources)
        = EntityFacts("blend", "position", "", pairs, LoadPool(user.pool).ledger, sources, "high")
  BY DEF UserFacts
<1> HIDE DEF pairs
<1> QED
  BY <1>1, <1>2, EntityCited

\* getPoolContext cites its own sources, with a wallet or without one.
LEMMA PoolContextCites ==
  ASSUME NEW r, NEW withWallet \in BOOLEAN, r.pool \in Loads
  PROVE  CitesOwn(GetPoolContext(r, withWallet))
<1> DEFINE pool == LoadPool(r.pool)
           sources == <<Record("PoolV2.load", 1, "blend", pool.ledger)>>
           known == withWallet /\ FetchedUser(r.user)
           own == <<Record("loadUser", 1, "blend", LoadPool(r.user.pool).ledger)>>
           facts == PoolFacts(pool, sources) \o When(known, UserFacts(r.user, own))
           all == sources \o When(known, own)
           warnings == IF withWallet /\ ~known THEN {"user position unavailable"} ELSE {}
<1>1. GetPoolContext(r, withWallet) = IF ~pool.ok THEN Thrown ELSE Context(facts, all, warnings)
  BY DEF GetPoolContext
<1>2. CASE pool.ok
  <2>1. Ids(sources) # {} /\ Ids(own) # {} /\ IsSeq(sources) /\ IsSeq(own)
    BY OneId, TupleSet
  <2>2. pool \in PoolAnswers
    BY <1>2, LoadedPool
  <2> HIDE DEF sources, own, pool
  <2>3. IsSeq(When(known, own)) /\ (known => When(known, own) = own)
    BY <2>1, WhenSet DEF When
  <2>0. known \in BOOLEAN
    OBVIOUS
  <2> HIDE DEF known
  <2>4. Ids(all) = Ids(sources) \cup Ids(When(known, own))
    BY <2>1, <2>3, IdsJoin
  <2>5. Cited(PoolFacts(pool, sources), Ids(all))
    BY <2>1, <2>2, <2>4, PoolFactsCited, MoreCited
  <2>6. known => Cited(UserFacts(r.user, own), Ids(all))
    BY <2>1, <2>3, <2>4, UserFactsCited, MoreCited
  <2>7. Cited(When(known, UserFacts(r.user, own)), Ids(all))
    BY <2>0, <2>6, WhenCited
  <2>8. Cited(facts, Ids(all))
    BY <2>5, <2>7, JoinCited
  <2> HIDE DEF facts, all, warnings
  <2> QED
    BY <1>1, <1>2, <2>8, ContextCites DEF pool
<1>3. CASE ~pool.ok
  BY <1>1, <1>3, ThrownCites
<1> QED
  BY <1>2, <1>3

\* getUserContext cites its own sources.
LEMMA UserContextCites ==
  ASSUME NEW r
  PROVE  CitesOwn(GetUserContext(r))
<1> DEFINE own == <<Record("loadUser", 1, "blend", LoadPool(r.user.pool).ledger)>>
<1>1. Cited(UserFacts(r.user, own), Ids(own))
  <2>1. Ids(own) # {}
    BY OneId
  <2> HIDE DEF own
  <2> QED
    BY <2>1, UserFactsCited
<1>2. CitesOwn(Context(UserFacts(r.user, own), own, {}))
  <2> HIDE DEF own
  <2> QED
    BY <1>1, ContextCites
<1>3. GetUserContext(r)
        = IF FetchedUser(r.user) THEN Context(UserFacts(r.user, own), own, {}) ELSE Thrown
  BY DEF GetUserContext
<1> HIDE DEF own
<1> QED
  BY <1>2, <1>3, ThrownCites

\* The shape of one Aquarius pool of a swap's answer.
LEMMA SwapPoolParts ==
  ASSUME NEW p \in SwapPools
  PROVE  /\ p.quote \in Quotes /\ p.ref \in Quotes /\ p.quote.ok \in BOOLEAN /\ p.ref.ok \in BOOLEAN
         /\ p.info.type.ok \in BOOLEAN /\ p.info.reserves.ok \in BOOLEAN
         /\ p.info.shares.ok \in BOOLEAN
<1>1. /\ p.quote \in Quotes /\ p.ref \in Quotes
      /\ p.info.type \in OrThrown([ok : {TRUE}, value : STRING, fee : Nat])
      /\ p.info.reserves \in OrThrown([ok : {TRUE}, value : Seq(Nat)])
      /\ p.info.shares \in OrThrown([ok : {TRUE}, value : Nat])
  BY DEF SwapPools
<1>2. \A x \in [ok : {TRUE}, out : 0..(MaxAmount \div Unit), ledger : Nat] : x.ok = TRUE
  OBVIOUS
<1>3. \A x \in [ok : {TRUE}, value : STRING, fee : Nat] : x.ok = TRUE
  OBVIOUS
<1>4. \A x \in [ok : {TRUE}, value : Seq(Nat)] : x.ok = TRUE
  OBVIOUS
<1>5. \A x \in [ok : {TRUE}, value : Nat] : x.ok = TRUE
  OBVIOUS
<1>6. p.quote.ok \in BOOLEAN /\ p.ref.ok \in BOOLEAN
  BY <1>1, <1>2, ThrownOrNot DEF Quotes
<1>7. p.info.type.ok \in BOOLEAN
  BY <1>1, <1>3, ThrownOrNot
<1>8. p.info.reserves.ok \in BOOLEAN
  BY <1>1, <1>4, ThrownOrNot
<1>9. p.info.shares.ok \in BOOLEAN
  BY <1>1, <1>5, ThrownOrNot
<1> QED
  BY <1>1, <1>6, <1>7, <1>8, <1>9

\* The records of the getters that answer.
LEMMA InfoSourcesSeq ==
  ASSUME NEW i, NEW info, info.type.ok \in BOOLEAN, info.reserves.ok \in BOOLEAN,
         info.shares.ok \in BOOLEAN
  PROVE  /\ IsSeq(InfoSources(i, info))
         /\ InfoSources(i, info) # <<>> => Ids(InfoSources(i, info)) # {}
         /\ info.type.ok => Ids(InfoSources(i, info)) # {}
<1> DEFINE a == <<Record("get_info", i, "aquarius", info.ledger)>>
           b == <<Record("get_reserves", i, "aquarius", info.ledger)>>
           c == <<Record("get_total_shares", i, "aquarius", info.ledger)>>
           s == InfoSources(i, info)
<1>1. IsSeq(a) /\ IsSeq(b) /\ IsSeq(c) /\ Ids(a) # {}
  BY TupleSet, OneId
<1>2. s = (When(info.type.ok, a) \o When(info.reserves.ok, b)) \o When(info.shares.ok, c)
  BY DEF InfoSources
<1> HIDE DEF a, b, c, s
<1>3. IsSeq(When(info.type.ok, a)) /\ IsSeq(When(info.reserves.ok, b)) /\ IsSeq(When(info.shares.ok, c))
  BY <1>1, WhenSet
<1>4. IsSeq(When(info.type.ok, a) \o When(info.reserves.ok, b))
  BY <1>3, JoinSet
<1>5. IsSeq(s)
  BY <1>2, <1>3, <1>4, JoinSet
<1>6. info.type.ok => Ids(s) # {}
  <2>1. info.type.ok => Ids(When(info.type.ok, a)) # {}
    BY <1>1 DEF When
  <2>2. Ids(s) = (Ids(When(info.type.ok, a)) \cup Ids(When(info.reserves.ok, b)))
                   \cup Ids(When(info.shares.ok, c))
    BY <1>2, <1>3, <1>4, IdsJoin
  <2> QED
    BY <2>1, <2>2
<1>7. s # <<>> => Ids(s) # {}
  <2>1. Len(s) \in Nat /\ DOMAIN s = 1..Len(s) /\ s = [j \in 1..Len(s) |-> s[j]]
    BY <1>5, SeqDomain
  <2>2. s # <<>> => Len(s) # 0
    BY <2>1
  <2>3. s # <<>> => s[1].id \in Ids(s)
    BY <2>1, <2>2 DEF Ids
  <2> QED
    BY <2>3
<1> QED
  BY <1>5, <1>6, <1>7 DEF s

\* The facts of a route cite the sources of its pool.
LEMMA RouteFactsCited ==
  ASSUME NEW pairs, NEW ledger, NEW sources, NEW ids,
         IsSeq(pairs), Ids(sources) # {}, Ids(sources) \subseteq ids
  PROVE  Cited(RouteFacts(pairs, ledger, sources), ids)
  BY EntityCited DEF RouteFacts

\* So do the facts of a quoted route,
LEMMA QuotedRouteCited ==
  ASSUME NEW pool \in SwapPools, NEW slip, NEW sources, Ids(sources) # {}
  PROVE  Cited(QuotedRoute(pool, slip, sources), Ids(sources))
<1> DEFINE p == << <<"slippage.estimated_out", Decimal(pool.quote.out * Unit)>> >>
           q == << <<"route.hops", Decimal(Unit)>>, <<"route.pool_id", Word("pool")>> >>
           t == << <<"slippage.estimated", Decimal(slip * Unit)>> >>
           given == pool.ref.ok /\ pool.ref.out > 0
           a == RouteFacts(p, pool.quote.ledger, sources)
           b == RouteFacts(q, NoLedger, sources)
           c == RouteFacts(t, pool.quote.ledger, sources)
<1>1. IsSeq(p) /\ IsSeq(q) /\ IsSeq(t)
  BY TupleSet
<1>2. given \in BOOLEAN
  OBVIOUS
<1>3. QuotedRoute(pool, slip, sources) = (a \o b) \o When(given, c)
  BY DEF QuotedRoute
<1> HIDE DEF p, q, t, given
<1>4. Cited(a, Ids(sources)) /\ Cited(b, Ids(sources)) /\ Cited(c, Ids(sources))
  BY <1>1, RouteFactsCited
<1> HIDE DEF a, b, c
<1>5. Cited(When(given, c), Ids(sources))
  BY <1>2, <1>4, WhenCited
<1> QED
  BY <1>3, <1>4, <1>5, JoinCited

\* and those of the pool the route goes through, when its type was read.
LEMMA RoutePoolCited ==
  ASSUME NEW info, NEW own, info.type.ok \in BOOLEAN, info.type.ok => Ids(own) # {}
  PROVE  Cited(RoutePool(info, own), Ids(own))
<1> DEFINE pairs == << <<"pool.type", Word(info.type.value)>>,
                       <<"pool.fee_bps", Decimal(info.type.fee * Unit)>> >>
<1>1. IsSeq(pairs)
  BY TupleSet
<1>2. RoutePool(info, own) = When(info.type.ok, RouteFacts(pairs, NoLedger, own))
  BY DEF RoutePool
<1> HIDE DEF pairs
<1>3. info.type.ok => Cited(RouteFacts(pairs, NoLedger, own), Ids(own))
  BY <1>1, RouteFactsCited
<1> QED
  BY <1>2, <1>3, WhenCited

\* A quote that succeeded is within the largest amount.
LEMMA QuoteParts ==
  ASSUME NEW q \in Quotes, q.ok
  PROVE  q.out \in 0..(MaxAmount \div Unit)
<1>1. \A x \in [ok : {TRUE}, out : 0..(MaxAmount \div Unit), ledger : Nat] : x.ok = TRUE
  OBVIOUS
<1>2. q \in [ok : {TRUE}, out : 0..(MaxAmount \div Unit), ledger : Nat]
  BY <1>1, ThrownOrNot DEF Quotes
<1> QED
  BY <1>2

\* The pools that quote the swap, and the best of them.
Priced(r) == {i \in DOMAIN r.pools : r.pools[i].quote.ok}

\* The best pool is one that was priced.
LEMMA BestIsPriced ==
  ASSUME NEW r \in SwapCall, Priced(r) # {}
  PROVE  BestPool(r.pools, Priced(r)) \in Priced(r)
<1> DEFINE pools == r.pools
           priced == Priced(r)
           Out(i) == pools[i].quote.out
<1>1. /\ pools \in Seq(SwapPools) /\ Len(pools) \in Nat /\ DOMAIN pools = 1..Len(pools)
      /\ \A i \in 1..Len(pools) : pools[i] \in SwapPools
  BY LenProperties DEF SwapCall
<1>2. /\ priced \in SUBSET (1..Len(pools))
      /\ \A i \in priced : Out(i) \in 0..(MaxAmount \div Unit)
  BY <1>1, SwapPoolParts, QuoteParts DEF Priced
<1>3. PICK bound \in Nat : \A i \in priced : Out(i) \in Nat /\ bound - Out(i) \in Nat
  <2>1. MaxAmount \div Unit \in Nat
    BY RangeAssumption, FactsAssumption
  <2> DEFINE most == MaxAmount \div Unit
  <2>2. \A i \in priced : Out(i) \in 0..most
    BY <1>2
  <2> HIDE DEF Out, priced, most
  <2>3. most \in Nat
    BY <2>1 DEF most
  <2>4. \A i \in priced : Out(i) \in Nat /\ most - Out(i) \in Nat
    BY <2>2, <2>3
  <2> QED
    BY <2>3, <2>4
<1>a. priced \in SUBSET Nat
  <2>1. 1..Len(pools) \subseteq Nat
    BY <1>1
  <2> QED
    BY <1>2, <2>1
<1> HIDE DEF Out, priced, pools
<1>4. PICK m \in {bound - Out(i) : i \in priced} : \A n \in {bound - Out(i) : i \in priced} : m <= n
  <2>1. {bound - Out(i) : i \in priced} \in SUBSET Nat
    BY <1>3
  <2>2. {bound - Out(i) : i \in priced} # {}
    BY DEF priced
  <2> QED
    BY <2>1, <2>2, Minimum
<1>5. PICK b \in {i \in priced : bound - Out(i) = m} :
        \A i \in {i \in priced : bound - Out(i) = m} : b <= i
  <2>1. {i \in priced : bound - Out(i) = m} \in SUBSET Nat
    BY <1>a
  <2>2. {i \in priced : bound - Out(i) = m} # {}
    BY <1>4
  <2> QED
    BY <2>1, <2>2, Minimum
<1>6. \A j \in priced : Out(b) > Out(j) \/ (Out(b) = Out(j) /\ b <= j)
  <2> TAKE j \in priced
  <2>1. b \in priced /\ bound - Out(b) = m /\ m <= bound - Out(j)
    BY <1>4, <1>5
  <2>2. Out(b) \in Nat /\ Out(j) \in Nat
    BY <1>3, <2>1
  <2>3. CASE Out(b) = Out(j)
    BY <1>5, <2>1, <2>3
  <2>4. CASE Out(b) # Out(j)
    BY <2>1, <2>2, <2>4
  <2> QED
    BY <2>3, <2>4
<1>7. b \in priced
  BY <1>5
<1>8. BestPool(pools, priced)
        = CHOOSE i \in priced : \A j \in priced : Out(i) > Out(j) \/ (Out(i) = Out(j) /\ i <= j)
  BY DEF BestPool, Out
<1>9. BestPool(pools, priced) \in priced
  BY <1>6, <1>7, <1>8
<1> QED
  BY <1>9 DEF pools, priced

\* estimateSwap cites its own sources, whichever calls of it fail.
LEMMA SwapContextCites ==
  ASSUME NEW r \in SwapCall
  PROVE  CitesOwn(EstimateSwap(r, AmountIn))
<1> DEFINE found == <<Record("get_pools", 1, "aquarius", r.ledger)>>
           priced == Priced(r)
           best == BestPool(r.pools, priced)
           pool == r.pools[best]
           Quote(i) == When(i \in priced,
                            <<Record("estimate_swap", i, "aquarius", r.pools[i].quote.ledger)>>)
           n == Len(r.pools)
           asked == [i \in 1..n |-> Quote(i)]
           quotes == found \o FlattenSeq(asked)
           ref == <<Record("estimate_swap:ref", best, "aquarius", pool.ref.ledger)>>
           sources == quotes \o When(pool.ref.ok, ref)
           small == IF AmountIn \div 1000 > 1 THEN AmountIn \div 1000 ELSE 1
           slip == Slippage((AmountIn * pool.ref.out) \div small, pool.quote.out)
           own == InfoSources(best, pool.info)
           failed == IF priced # DOMAIN r.pools THEN {"estimate failed"} ELSE {}
           none == << <<"route.available", Flag(FALSE)>> >>
<1>1. n \in Nat /\ DOMAIN r.pools = 1..n /\ \A i \in 1..n : r.pools[i] \in SwapPools
  BY LenProperties DEF SwapCall
<1>2. EstimateSwap(r, AmountIn)
        = IF priced = {}
          THEN Context(RouteFacts(none, NoLedger, quotes), quotes, failed \cup {"no route"})
          ELSE Context(QuotedRoute(pool, slip, sources) \o RoutePool(pool.info, own),
                       sources \o own, failed \cup (IF pool.ref.ok THEN {} ELSE {"no reference"}))
  BY <1>1 DEF EstimateSwap, Priced
<1>3. IsSeq(quotes) /\ Ids(quotes) # {}
  <2>1. \A i \in 1..n : IsSeq(asked[i])
    <3> TAKE i \in 1..n
    <3>1. IsSeq(<<Record("estimate_swap", i, "aquarius", r.pools[i].quote.ledger)>>)
      BY TupleSet
    <3>2. asked[i] = Quote(i) /\ (i \in priced) \in BOOLEAN
      OBVIOUS
    <3>3. IsSeq(Quote(i))
      BY <3>1, <3>2, WhenSet
    <3> QED
      BY <3>2, <3>3
  <2>2. asked = [i \in 1..n |-> asked[i]]
    OBVIOUS
  <2>3. IsSeq(found) /\ Ids(found) # {}
    BY TupleSet, OneId
  <2> HIDE DEF asked, found
  <2>4. IsSeq(FlattenSeq(asked))
    BY <1>1, <2>1, <2>2, FlattenedSet
  <2> QED
    BY <2>3, <2>4, JoinSet, IdsJoin
<1> HIDE DEF quotes, found, asked
<1>4. CASE priced = {}
  <2>1. IsSeq(none)
    BY TupleSet
  <2> HIDE DEF none
  <2>2. Cited(RouteFacts(none, NoLedger, quotes), Ids(quotes))
    BY <1>3, <2>1, RouteFactsCited
  <2> QED
    BY <1>2, <1>4, <2>2, ContextCites
<1>5. CASE priced # {}
  <2>1. pool \in SwapPools
    BY <1>1, <1>5, BestIsPriced DEF Priced
  <2>2. /\ pool.ref.ok \in BOOLEAN /\ pool.info.type.ok \in BOOLEAN
        /\ pool.info.reserves.ok \in BOOLEAN /\ pool.info.shares.ok \in BOOLEAN
    BY <2>1, SwapPoolParts
  <2>3. IsSeq(ref)
    BY TupleSet
  <2> HIDE DEF ref, pool, best, priced
  <2>4. IsSeq(own) /\ (pool.info.type.ok => Ids(own) # {})
    BY <2>2, InfoSourcesSeq
  <2>5. IsSeq(When(pool.ref.ok, ref))
    BY <2>2, <2>3, WhenSet
  <2>6. IsSeq(sources) /\ Ids(sources) # {}
    BY <1>3, <2>5, JoinSet, IdsJoin
  <2> HIDE DEF own, sources, slip
  <2>7. Ids(sources \o own) = Ids(sources) \cup Ids(own)
    BY <2>4, <2>6, IdsJoin
  <2>8. Cited(QuotedRoute(pool, slip, sources), Ids(sources)) /\ Cited(RoutePool(pool.info, own), Ids(own))
    BY <2>1, <2>2, <2>4, <2>6, QuotedRouteCited, RoutePoolCited
  <2>9. /\ Cited(QuotedRoute(pool, slip, sources), Ids(sources \o own))
        /\ Cited(RoutePool(pool.info, own), Ids(sources \o own))
    BY <2>7, <2>8, MoreCited
  <2>10. Cited(QuotedRoute(pool, slip, sources) \o RoutePool(pool.info, own), Ids(sources \o own))
    BY <2>9, JoinCited
  <2> QED
    BY <1>2, <1>5, <2>10, ContextCites DEF priced
<1> QED
  BY <1>4, <1>5

\* The facts of an Aquarius pool cite the sources of that pool.
LEMMA PoolInfoCited ==
  ASSUME NEW info, NEW own, NEW ids, info.type.ok \in BOOLEAN, info.reserves.ok \in BOOLEAN,
         info.shares.ok \in BOOLEAN, Ids(own) # {}, Ids(own) \subseteq ids
  PROVE  Cited(PoolInfoFacts(info, own), ids)
<1> DEFINE volatility == IF info.type.value = "stable_swap" THEN "stable" ELSE "volatile"
           tvl == FoldSeq(LAMBDA x, sum : x + sum, 0, info.reserves.value)
           a == << <<"pool.exists", Flag(TRUE)>> >>
           b == << <<"pool.type", Word(info.type.value)>>, <<"pool.volatility", Word(volatility)>>,
                   <<"pool.fee_bps", Decimal(info.type.fee * Unit)>> >>
           c == << <<"liquidity.depth", Decimal(tvl * Unit)>> >>
           d == << <<"pool.total_shares", Decimal(info.shares.value * Unit)>> >>
           pairs == ((a \o When(info.type.ok, b)) \o When(info.reserves.ok, c)) \o When(info.shares.ok, d)
           ledger == IF own = <<>> THEN NoLedger ELSE own[1].ledger
<1>1. IsSeq(a) /\ IsSeq(b) /\ IsSeq(c) /\ IsSeq(d)
  <2> HIDE DEF volatility, tvl
  <2> QED
    BY TupleSet
<1>2. PoolInfoFacts(info, own) = EntityFacts("aquarius", "pool", "", pairs, ledger, own, "high")
  BY DEF PoolInfoFacts
<1> HIDE DEF a, b, c, d, ledger
<1>3. IsSeq(When(info.type.ok, b)) /\ IsSeq(When(info.reserves.ok, c)) /\ IsSeq(When(info.shares.ok, d))
  BY <1>1, WhenSet
<1>4. IsSeq(pairs)
  BY <1>1, <1>3, JoinSet
<1> HIDE DEF pairs
<1> QED
  BY <1>2, <1>4, EntityCited

\* getPools cites its own sources.
LEMMA PoolsCite ==
  ASSUME NEW r \in SwapCall
  PROVE  CitesOwn(GetPools(r))
<1> DEFINE found == <<Record("get_pools", 1, "aquarius", r.ledger)>>
           n == Len(r.pools)
           own == [i \in 1..n |-> InfoSources(i, r.pools[i].info)]
           cited(i) == CitedFrom(own[i], found)
           parts == [i \in 1..n |-> PoolInfoFacts(r.pools[i].info, cited(i))]
           all == found \o FlattenSeq(own)
           none == << <<"pool.exists", Flag(FALSE)>> >>
           sole == EntityFacts("aquarius", "route", "", none, NoLedger, found, "high")
<1>1. n \in Nat /\ DOMAIN r.pools = 1..n /\ \A i \in 1..n : r.pools[i] \in SwapPools
  BY LenProperties DEF SwapCall
<1>2. GetPools(r) = IF r.pools = <<>> THEN Context(sole, found, {"no pool"})
                    ELSE Context(FlattenSeq(parts), all, {})
  BY <1>1 DEF GetPools
<1>3. IsSeq(found) /\ Ids(found) # {} /\ IsSeq(none)
  BY TupleSet, OneId
<1>4. ASSUME NEW i \in 1..n
      PROVE  IsSeq(own[i]) /\ (own[i] # <<>> => Ids(own[i]) # {})
  <2>1. own[i] = InfoSources(i, r.pools[i].info)
    OBVIOUS
  <2>2. /\ r.pools[i].info.type.ok \in BOOLEAN /\ r.pools[i].info.reserves.ok \in BOOLEAN
        /\ r.pools[i].info.shares.ok \in BOOLEAN
    BY <1>1, SwapPoolParts
  <2> QED
    BY <2>1, <2>2, InfoSourcesSeq
<1>5. own = [i \in 1..n |-> own[i]]
  OBVIOUS
<1>6. parts = [i \in 1..n |-> parts[i]] /\ \A i \in 1..n : parts[i] = PoolInfoFacts(r.pools[i].info, cited(i))
  OBVIOUS
<1> HIDE DEF found, own, parts, none
<1>7. IsSeq(FlattenSeq(own)) /\ ToSet(FlattenSeq(own)) = UNION {ToSet(own[i]) : i \in 1..n}
  BY <1>1, <1>4, <1>5, FlattenedSet
<1>8. Ids(all) = Ids(found) \cup Ids(FlattenSeq(own))
  BY <1>3, <1>7, IdsJoin
<1>9. ASSUME NEW i \in 1..n PROVE Ids(own[i]) \subseteq Ids(all)
  <2>1. ToSet(own[i]) \subseteq ToSet(FlattenSeq(own))
    BY <1>7
  <2> QED
    BY <1>8, <2>1, IdsOfElements
<1>10. ASSUME NEW i \in 1..n PROVE Ids(cited(i)) # {} /\ Ids(cited(i)) \subseteq Ids(all)
  <2>1. CASE own[i] = <<>>
    BY <1>3, <1>8, <2>1 DEF CitedFrom
  <2>2. CASE own[i] # <<>>
    BY <1>4, <1>9, <2>2 DEF CitedFrom
  <2> QED
    BY <2>1, <2>2
<1> HIDE DEF all, cited
<1>11. ASSUME NEW i \in 1..n PROVE Cited(parts[i], Ids(all))
  <2>1. /\ r.pools[i].info.type.ok \in BOOLEAN /\ r.pools[i].info.reserves.ok \in BOOLEAN
        /\ r.pools[i].info.shares.ok \in BOOLEAN
    BY <1>1, SwapPoolParts
  <2>2. Cited(PoolInfoFacts(r.pools[i].info, cited(i)), Ids(all))
    BY <1>10, <2>1, PoolInfoCited
  <2> QED
    BY <1>6, <2>2
<1>12. Cited(FlattenSeq(parts), Ids(all))
  BY <1>1, <1>6, <1>11, FlattenCited
<1>13. Cited(sole, Ids(found))
  BY <1>3, EntityCited
<1> HIDE DEF sole
<1>14. CitesOwn(Context(FlattenSeq(parts), all, {})) /\ CitesOwn(Context(sole, found, {"no pool"}))
  BY <1>12, <1>13, ContextCites
<1> QED
  BY <1>2, <1>14

\* The facts of an order book cite the sources of the call.
LEMMA MarketFactsCited ==
  ASSUME NEW pairs, NEW ledger, NEW sources, NEW ids,
         IsSeq(pairs), Ids(sources) # {}, Ids(sources) \subseteq ids
  PROVE  Cited(MarketFacts(pairs, ledger, sources), ids)
  BY EntityCited DEF MarketFacts

\* The pairs of a book: what its sides are, and of both the spread and depth.
BookPairs(r) ==
  (When(r.bids # <<>>, << <<"market.best_bid", Decimal(r.bids[1].price)>> >>)
     \o When(r.asks # <<>>, << <<"market.best_ask", Decimal(r.asks[1].price)>> >>))
     \o When(r.bids # <<>> /\ r.asks # <<>>,
             << <<"market.spread_bps", Decimal(Spread(r.bids[1].price, r.asks[1].price) * Unit)>>,
                <<"liquidity.depth_1pct", Decimal(DepthWithin(r.asks, r.bids[1].price, 1))>>,
                <<"liquidity.depth_2pct", Decimal(DepthWithin(r.asks, r.bids[1].price, 2))>> >>)

TradePairs(r) ==
  << <<"market.recent_volume", Decimal(r.trades.volume)>>,
     <<"market.recent_trades", Decimal(r.trades.count * Unit)>> >>

\* The fields of an order book and of its trades are lists.
LEMMA BookPairsSeq ==
  ASSUME NEW r
  PROVE  IsSeq(BookPairs(r)) /\ IsSeq(TradePairs(r))
<1> DEFINE bid == r.bids[1].price
           ask == r.asks[1].price
           spread == Decimal(Spread(bid, ask) * Unit)
           near == Decimal(DepthWithin(r.asks, bid, 1))
           far == Decimal(DepthWithin(r.asks, bid, 2))
           a == << <<"market.best_bid", Decimal(bid)>> >>
           b == << <<"market.best_ask", Decimal(ask)>> >>
           c == << <<"market.spread_bps", spread>>, <<"liquidity.depth_1pct", near>>,
                   <<"liquidity.depth_2pct", far>> >>
           hasBids == r.bids # <<>>
           hasAsks == r.asks # <<>>
           both == hasBids /\ hasAsks
<1>1. BookPairs(r) = (When(hasBids, a) \o When(hasAsks, b)) \o When(both, c)
  BY DEF BookPairs
<1>2. hasBids \in BOOLEAN /\ hasAsks \in BOOLEAN /\ both \in BOOLEAN
  OBVIOUS
<1> HIDE DEF bid, ask, spread, near, far, hasBids, hasAsks
<1>3. IsSeq(a) /\ IsSeq(b) /\ IsSeq(c)
  BY TupleSet
<1> HIDE DEF a, b, c, both
<1>4. IsSeq(When(hasBids, a)) /\ IsSeq(When(hasAsks, b)) /\ IsSeq(When(both, c))
  BY <1>2, <1>3, WhenSet
<1>5. IsSeq(TradePairs(r))
  BY TupleSet DEF TradePairs
<1> QED
  BY <1>1, <1>4, <1>5, JoinSet

\* getMarketContext cites its own sources, with trades or without them.
LEMMA MarketCites ==
  ASSUME NEW r \in Books
  PROVE  CitesOwn(GetMarket(r))
<1> DEFINE book == <<Record("order_book", 1, "sdex", r.ledger)>>
           late == <<Record("trades", 1, "sdex", r.trades.ledger)>>
           sources == book \o When(r.trades.ok, late)
           facts == MarketFacts(BookPairs(r), r.ledger, book)
                      \o When(r.trades.ok, MarketFacts(TradePairs(r), r.ledger, sources))
           warnings == IF r.bids # <<>> /\ r.asks # <<>> THEN {} ELSE {"one-sided book"}
<1>1. GetMarket(r) = Context(facts, sources, warnings)
  BY DEF GetMarket, BookPairs, TradePairs
<1>2. r.trades.ok \in BOOLEAN
  <2>1. r.trades \in OrThrown([ok : {TRUE}, volume : Nat, count : Nat, ledger : Nat])
    BY DEF Books
  <2>2. \A x \in [ok : {TRUE}, volume : Nat, count : Nat, ledger : Nat] : x.ok = TRUE
    OBVIOUS
  <2> QED
    BY <2>1, <2>2, ThrownOrNot
<1>3. IsSeq(book) /\ IsSeq(late) /\ Ids(book) # {}
  BY TupleSet, OneId
<1> HIDE DEF book, late, warnings
<1>4. IsSeq(When(r.trades.ok, late))
  BY <1>2, <1>3, WhenSet
<1>5. Ids(sources) = Ids(book) \cup Ids(When(r.trades.ok, late))
  BY <1>3, <1>4, IdsJoin
<1> HIDE DEF sources
<1>6. Cited(MarketFacts(BookPairs(r), r.ledger, book), Ids(sources))
  BY <1>3, <1>5, BookPairsSeq, MarketFactsCited
<1>7. Cited(MarketFacts(TradePairs(r), r.ledger, sources), Ids(sources))
  BY <1>3, <1>5, BookPairsSeq, MarketFactsCited
<1>8. Cited(facts, Ids(sources))
  BY <1>2, <1>6, <1>7, WhenCited, JoinCited
<1> HIDE DEF facts
<1> QED
  BY <1>1, <1>8, ContextCites

\* A context made of one entity's facts and one source cites its own.
LEMMA EntityContextCites ==
  ASSUME NEW protocol, NEW entity, NEW pairs, NEW ledger, NEW source, NEW confidence, NEW warnings,
         IsSeq(pairs)
  PROVE  CitesOwn(Context(EntityFacts(protocol, entity, "", pairs, ledger, <<source>>, confidence),
                          <<source>>, warnings))
<1>1. Ids(<<source>>) # {}
  BY OneId
<1>2. Cited(EntityFacts(protocol, entity, "", pairs, ledger, <<source>>, confidence), Ids(<<source>>))
  BY <1>1, EntityCited
<1> QED
  BY <1>2, ContextCites

\* The pairs of a path search: whether there is a path, and of the first what
\* the search asks for.
PathPairs(r, found) ==
  << <<"path.available", Flag(r.paths # <<>>)>> >> \o When(r.paths # <<>>, found)

\* The fields of a path are a list.
LEMMA PathPairsSeq ==
  ASSUME NEW r, NEW found, IsSeq(found)
  PROVE  IsSeq(PathPairs(r, found))
<1> DEFINE a == << <<"path.available", Flag(r.paths # <<>>)>> >>
<1>1. IsSeq(a)
  BY TupleSet
<1>2. IsSeq(When(r.paths # <<>>, found))
  BY WhenSet
<1>3. PathPairs(r, found) = a \o When(r.paths # <<>>, found)
  BY DEF PathPairs
<1> HIDE DEF a
<1> QED
  BY <1>1, <1>2, <1>3, JoinSet

\* findPath cites its own sources in both directions,
LEMMA PathsCite ==
  ASSUME NEW r
  PROVE  CitesOwn(FindPath(r)) /\ CitesOwn(FindPathStrictReceive(r))
<1> DEFINE sent == << <<"path.estimated_out", Decimal(r.paths[1].out)>>,
                      <<"route.hops", Decimal((r.paths[1].between + 1) * Unit)>> >>
           received == << <<"path.source_amount", Decimal(r.paths[1].out)>> >>
           warnings == IF r.paths # <<>> THEN {} ELSE {"no path"}
           s == Record("strict-send", 1, "sdex", r.ledger)
           t == Record("strict-receive", 1, "sdex", r.ledger)
<1>1. IsSeq(sent) /\ IsSeq(received)
  BY TupleSet
<1>2. FindPath(r) = Context(EntityFacts("stellar_dex", "route", "", PathPairs(r, sent), r.ledger,
                                        <<s>>, "medium"), <<s>>, warnings)
  BY DEF FindPath, PathPairs
<1>3. FindPathStrictReceive(r)
        = Context(EntityFacts("stellar_dex", "route", "", PathPairs(r, received), r.ledger,
                              <<t>>, "medium"), <<t>>, warnings)
  BY DEF FindPathStrictReceive, PathPairs
<1> HIDE DEF sent, received, warnings, s, t
<1> QED
  BY <1>1, <1>2, <1>3, PathPairsSeq, EntityContextCites

\* and so do the offers of an account
LEMMA OffersCite ==
  ASSUME NEW r
  PROVE  CitesOwn(GetOffers(r))
<1> DEFINE pairs == << <<"market.open_offers", Decimal(r.offers * Unit)>> >>
           s == Record("offers", 1, "sdex", r.ledger)
<1>1. IsSeq(pairs)
  BY TupleSet
<1>2. GetOffers(r) = Context(EntityFacts("stellar_dex", "market", "", pairs, r.ledger, <<s>>, "medium"),
                             <<s>>, {})
  BY DEF GetOffers, MarketFacts
<1> HIDE DEF pairs, s
<1> QED
  BY <1>1, <1>2, EntityContextCites

\* and the liquidity pools of Horizon.
LEMMA ClassicPoolsCite ==
  ASSUME NEW r
  PROVE  CitesOwn(GetLiquidityPools(r))
<1> DEFINE sources == <<Record("liquidity_pools", 1, "sdex", r.ledger)>>
           top == r.classic[1]
           Pool(pairs, ledger) == EntityFacts("stellar_amm", "pool", "", pairs, ledger, sources, "medium")
           a == << <<"liquidity.available", Decimal(Len(r.classic) * Unit)>> >>
           b == << <<"pool.id", Word("id")>>, <<"pool.total_shares", Decimal(top.shares)>>,
                   <<"pool.fee_bps", Decimal(top.fee * Unit)>>,
                   <<"pool.trustlines", Decimal(top.trustlines * Unit)>>,
                   <<"pool.reserve.XLM", Decimal(top.reserve)>> >>
           some == r.classic # <<>>
           ledger == IF top.modified # NoLedger THEN top.modified ELSE r.ledger
           warnings == IF r.classic = <<>> THEN {"no classic pool"} ELSE {}
<1>1. IsSeq(a) /\ IsSeq(b) /\ Ids(sources) # {}
  BY TupleSet, OneId
<1>2. some \in BOOLEAN
  OBVIOUS
<1>3. GetLiquidityPools(r) = Context(Pool(a, r.ledger) \o When(some, Pool(b, ledger)), sources, warnings)
  BY DEF GetLiquidityPools
<1> HIDE DEF sources, a, b, some, ledger, warnings
<1>4. Cited(Pool(a, r.ledger), Ids(sources)) /\ Cited(Pool(b, ledger), Ids(sources))
  BY <1>1, EntityCited
<1> HIDE DEF Pool
<1>5. Cited(Pool(a, r.ledger) \o When(some, Pool(b, ledger)), Ids(sources))
  BY <1>2, <1>4, WhenCited, JoinCited
<1> QED
  BY <1>3, <1>5, ContextCites

-----------------------------------------------------------------------------
(* The state of a request.                                                 *)

\* The answers so far are those of the request's calls.
ChainInv ==
  /\ request \in Requests \cup {None}
  /\ request = None => chain = <<>>
  /\ request # None =>
       /\ IsSeq(chain) /\ Len(chain) <= Len(Calls[request])
       /\ \A k \in 1..Len(chain) : chain[k] \in Calls[request][k]
  /\ contexts = IF request # None /\ Len(chain) = Len(Calls[request])
                THEN ContextsOf(request, chain) ELSE <<>>

\* Only an answered recipe has private inputs, and its proofs are of them all.
PrivatesInv ==
  /\ privates # <<>> => request \in Recipes /\ Answered
  /\ request \in Recipes =>
       /\ DOMAIN privates \subseteq DOMAIN Thresholds[request]
       /\ \A name \in DOMAIN privates : privates[name] \in PrivateValues[name]
  /\ proofs # <<>> =>
       /\ request \in Recipes /\ Answered /\ Built.ok
       /\ DOMAIN privates = DOMAIN Thresholds[request]
       /\ proofs = [a \in MaxAges \cup {NoAge} |-> ProofOf(AgedFacts, privates, a)]

RequestInv == ChainInv /\ PrivatesInv

\* A recipe is a request, and a request asks for at least one context.
LEMMA RequestKinds ==
  /\ None \notin Requests /\ Recipes \subseteq Requests
  /\ \A r \in Requests : Len(Calls[r]) \in Nat \ {0} /\ DOMAIN Calls[r] = 1..Len(Calls[r])
<1>1. Requests = {"blend", "aquarius", "sdex", "composite", "position", "pools", "receive",
                  "offers", "classic"}
  BY DEF Requests, Calls
<1>2. /\ Len(Calls["blend"]) = 1 /\ Len(Calls["aquarius"]) = 1 /\ Len(Calls["sdex"]) = 2
      /\ Len(Calls["composite"]) = 3 /\ Len(Calls["position"]) = 1 /\ Len(Calls["pools"]) = 1
      /\ Len(Calls["receive"]) = 1 /\ Len(Calls["offers"]) = 1 /\ Len(Calls["classic"]) = 1
  BY DEF Calls
<1>3. /\ DOMAIN Calls["blend"] = 1..1 /\ DOMAIN Calls["aquarius"] = 1..1 /\ DOMAIN Calls["sdex"] = 1..2
      /\ DOMAIN Calls["composite"] = 1..3 /\ DOMAIN Calls["position"] = 1..1
      /\ DOMAIN Calls["pools"] = 1..1 /\ DOMAIN Calls["receive"] = 1..1
      /\ DOMAIN Calls["offers"] = 1..1 /\ DOMAIN Calls["classic"] = 1..1
  BY DEF Calls
<1>4. \A r \in Requests : Len(Calls[r]) \in Nat \ {0} /\ DOMAIN Calls[r] = 1..Len(Calls[r])
  <2> HIDE DEF Calls
  <2> TAKE r \in Requests
  <2> QED
    BY <1>1, <1>2, <1>3
<1>5. None \notin Requests /\ Recipes \subseteq Requests
  BY <1>1 DEF None, Recipes
<1> QED
  BY <1>4, <1>5

\* The invariant of a request holds before one is chosen,
LEMMA RequestInitInv == PolicyInit => RequestInv
<1> SUFFICES ASSUME PolicyInit PROVE RequestInv
  OBVIOUS
<1>1. ChainInv
  BY DEF PolicyInit, ChainInv
<1>2. PrivatesInv
  <2>1. None \notin Recipes
    BY DEF None, Recipes
  <2> QED
    BY <2>1 DEF PolicyInit, PrivatesInv
<1> QED
  BY <1>1, <1>2 DEF RequestInv

\* after a request is chosen,
LEMMA ChooseStep ==
  ASSUME RequestInv, NEW r \in Requests, Choose(r) PROVE RequestInv'
<1>1. /\ request = None /\ chain = <<>> /\ contexts = <<>> /\ privates = <<>> /\ proofs = <<>>
      /\ request' = r /\ age' \in Ages /\ chain' = <<>> /\ contexts' = <<>>
      /\ privates' = <<>> /\ proofs' = <<>>
  <2>1. request = None /\ chain = <<>> /\ contexts = <<>>
    BY DEF RequestInv, ChainInv, Choose
  <2>2. privates = <<>> /\ proofs = <<>>
    BY <2>1 DEF RequestInv, PrivatesInv, Answered
  <2> QED
    BY <2>1, <2>2 DEF Choose
<1>2. ChainInv'
  <2>1. IsSeq(<<>>) /\ Len(<<>>) = 0
    BY TupleSet
  <2>2. Len(Calls[r]) \in Nat \ {0}
    BY RequestKinds
  <2> QED
    BY <1>1, <2>1, <2>2, RequestKinds DEF ChainInv
<1>3. PrivatesInv'
  BY <1>1 DEF PrivatesInv
<1> QED
  BY <1>2, <1>3 DEF RequestInv

\* after a protocol's answer, whose context cites its own sources,
LEMMA RespondStep ==
  ASSUME RequestInv, Respond PROVE RequestInv'
<1> DEFINE n == Len(Calls[request])
           k == Len(chain) + 1
<1>1. PICK r \in Answers[request][k] : chain' = Append(chain, r)
  BY DEF Respond
<1>2. /\ request # None /\ request \in Requests /\ Len(chain) < n /\ n \in Nat
      /\ IsSeq(chain) /\ Len(chain) \in Nat /\ DOMAIN Calls[request] = 1..n
      /\ \A i \in 1..Len(chain) : chain[i] \in Calls[request][i]
      /\ contexts = <<>>
  <2>1. request # None /\ request \in Requests /\ Len(chain) < n /\ IsSeq(chain)
    BY DEF Respond, RequestInv, ChainInv
  <2>2. n \in Nat /\ DOMAIN Calls[request] = 1..n
    BY <2>1, RequestKinds
  <2>3. Len(chain) \in Nat
    BY <2>1, SeqDomain
  <2>4. contexts = <<>>
    BY <2>1, <2>2, <2>3 DEF RequestInv, ChainInv
  <2> QED
    BY <2>1, <2>2, <2>3, <2>4 DEF RequestInv, ChainInv
<1>3. r \in Calls[request][k]
  <2>1. k \in DOMAIN Calls[request]
    BY <1>2
  <2> QED
    BY <1>1, <1>2, <2>1, AnswersAssumption
<1>4. /\ IsSeq(chain') /\ Len(chain') = k
      /\ \A i \in 1..k : chain'[i] = IF i = k THEN r ELSE chain[i]
  <2> DEFINE S == ToSet(chain) \cup {r}
  <2>1. chain \in Seq(S)
    BY <1>2, SeqDomain, IsASeq
  <2>2. r \in S
    OBVIOUS
  <2> HIDE DEF S
  <2>3. chain' \in Seq(S) /\ Len(chain') = k /\ \A i \in 1..k : chain'[i] = IF i = k THEN r ELSE chain[i]
    BY <1>1, <1>2, <2>1, <2>2, AppendProperties
  <2> QED
    BY <2>3, SeqOfSet
<1>5. privates = <<>> /\ proofs = <<>>
  BY <1>2 DEF RequestInv, PrivatesInv, Answered
<1>6. /\ request' = request /\ age' = age /\ privates' = <<>> /\ proofs' = <<>>
      /\ contexts' = IF Len(chain') = n THEN ContextsOf(request, chain') ELSE <<>>
  BY <1>5 DEF Respond
<1>7. ChainInv'
  <2>1. \A i \in 1..k : chain'[i] \in Calls[request][i]
    <3> TAKE i \in 1..k
    <3>1. CASE i = k
      BY <1>3, <1>4, <3>1
    <3>2. CASE i # k
      <4>1. i \in 1..Len(chain)
        BY <1>2, <3>2
      <4> QED
        BY <1>2, <1>4, <3>2, <4>1
    <3> QED
      BY <3>1, <3>2
  <2>2. k <= n
    BY <1>2
  <2> QED
    BY <1>2, <1>4, <1>6, <2>1, <2>2 DEF ChainInv
<1>8. PrivatesInv'
  BY <1>6 DEF PrivatesInv
<1> QED
  BY <1>7, <1>8 DEF RequestInv

\* and after a private input is given.
LEMMA AddPrivateStep ==
  ASSUME RequestInv, AddPrivate PROVE RequestInv'
<1>1. PICK name \in DOMAIN Thresholds[request] \ DOMAIN privates :
        \E v \in PrivateValues[name] : privates' = With(privates, name, v)
  BY DEF AddPrivate
<1>2. PICK v \in PrivateValues[name] : privates' = With(privates, name, v)
  BY <1>1
<1>3. /\ request \in Recipes /\ Answered /\ Built.ok
      /\ request' = request /\ chain' = chain /\ contexts' = contexts /\ age' = age
      /\ Answered' /\ Built'.ok /\ AgedFacts' = AgedFacts
  BY DEF AddPrivate, Answered, Built, AgedFacts, AgeOf
<1>4. /\ DOMAIN privates' = DOMAIN privates \cup {name}
      /\ \A x \in DOMAIN privates' : privates'[x] = IF x = name THEN v ELSE privates[x]
  BY <1>2 DEF With
<1>5. /\ DOMAIN privates' \subseteq DOMAIN Thresholds[request]
      /\ \A x \in DOMAIN privates' : privates'[x] \in PrivateValues[x]
  <2>1. /\ DOMAIN privates \subseteq DOMAIN Thresholds[request]
        /\ \A x \in DOMAIN privates : privates[x] \in PrivateValues[x]
    BY <1>3 DEF RequestInv, PrivatesInv
  <2> QED
    BY <1>1, <1>2, <1>4, <2>1
<1>6. IF DOMAIN privates' # DOMAIN Thresholds[request] THEN proofs' = <<>>
      ELSE proofs' = [a \in MaxAges \cup {NoAge} |-> ProofOf(AgedFacts, privates', a)]
  BY DEF AddPrivate
<1>7. \A f, g, a : ProofOf(f, g, a)' = ProofOf(f, g, a)
  <2> TAKE f, g, a
  <2>1. Schema' = Schema
    BY <1>3 DEF Schema
  <2> QED
    BY <1>3, <2>1 DEF ProofOf
<1>8. PrivatesInv'
  BY <1>3, <1>5, <1>6, <1>7 DEF RequestInv, PrivatesInv
<1>9. ChainInv'
  BY <1>3 DEF RequestInv, ChainInv
<1> QED
  BY <1>8, <1>9 DEF RequestInv

\* The adapters see answers of the calls, and the proofs are of the contexts
\* they made.
LEMMA RequestInvariance == PolicySpec => []RequestInv
<1>1. RequestInv /\ [PolicyNext]_policyVars => RequestInv'
  <2> SUFFICES ASSUME RequestInv, [PolicyNext]_policyVars PROVE RequestInv'
    OBVIOUS
  <2>1. CASE PolicyNext
    BY <2>1, ChooseStep, RespondStep, AddPrivateStep DEF PolicyNext
  <2>2. CASE UNCHANGED policyVars
    BY <2>2 DEF policyVars, RequestInv, ChainInv, PrivatesInv, Answered, Built, AgedFacts, AgeOf, ProofOf,
                Schema
  <2> QED
    BY <2>1, <2>2
<1> QED
  BY <1>1, RequestInitInv, PTL DEF PolicySpec

\* An answered request's contexts are those of its answers.
LEMMA AnsweredChain ==
  ASSUME RequestInv, Answered
  PROVE  /\ request \in Requests /\ contexts = ContextsOf(request, chain)
         /\ \A k \in 1..Len(Calls[request]) : chain[k] \in Calls[request][k]
<1>1. request # None /\ Len(chain) = Len(Calls[request])
  BY DEF RequestInv, ChainInv, Answered
<1> QED
  BY <1>1 DEF RequestInv, ChainInv

-----------------------------------------------------------------------------
(* Facts cite the source records of their context.                         *)

LEMMA ContextsCite ==
  ASSUME RequestInv, Answered
  PROVE  \A c \in Range(contexts) : CitesOwn(c)
<1>1. /\ request \in Requests /\ contexts = ContextsOf(request, chain)
      /\ \A k \in 1..Len(Calls[request]) : chain[k] \in Calls[request][k]
  BY AnsweredChain
<1>2. CASE request = "blend"
  <2>1. chain[1] \in PoolCall
    BY <1>1, <1>2 DEF Calls
  <2>2. contexts = <<GetPoolContext(chain[1], FALSE)>>
    BY <1>1, <1>2 DEF ContextsOf
  <2>3. chain[1].pool \in Loads
    BY <2>1 DEF PoolCall
  <2> DEFINE c == GetPoolContext(chain[1], FALSE)
  <2>4. CitesOwn(c)
    BY <2>3, PoolContextCites
  <2>5. contexts = <<c>>
    BY <2>2
  <2> HIDE DEF c
  <2> QED
    BY <2>4, <2>5 DEF Range
<1>3. CASE request = "aquarius"
  <2>1. chain[1] \in SwapCall
    BY <1>1, <1>3 DEF Calls
  <2>2. contexts = <<EstimateSwap(chain[1], AmountIn)>>
    BY <1>1, <1>3 DEF ContextsOf
  <2>3. CitesOwn(EstimateSwap(chain[1], AmountIn))
    BY <2>1, SwapContextCites
  <2> QED
    BY <2>2, <2>3 DEF Range
<1>4. CASE request = "sdex"
  <2>1. chain[2] \in Books
    BY <1>1, <1>4 DEF Calls
  <2>2. contexts = <<FindPath(chain[1]), GetMarket(chain[2])>>
    BY <1>1, <1>4 DEF ContextsOf
  <2>3. CitesOwn(FindPath(chain[1])) /\ CitesOwn(GetMarket(chain[2]))
    BY <2>1, PathsCite, MarketCites
  <2> QED
    BY <2>2, <2>3 DEF Range
<1>5. CASE request = "composite"
  <2>1. chain[1] \in UserCall /\ chain[2] \in SwapCall
    BY <1>1, <1>5 DEF Calls
  <2>2. contexts = <<GetPoolContext(chain[1], TRUE), EstimateSwap(chain[2], AmountIn), FindPath(chain[3])>>
    BY <1>1, <1>5 DEF ContextsOf
  <2>3. chain[1].pool \in Loads
    BY <2>1 DEF UserCall
  <2> DEFINE a == GetPoolContext(chain[1], TRUE)
             b == EstimateSwap(chain[2], AmountIn)
             c == FindPath(chain[3])
  <2>4. CitesOwn(a) /\ CitesOwn(b) /\ CitesOwn(c)
    BY <2>1, <2>3, PoolContextCites, SwapContextCites, PathsCite
  <2>5. contexts = <<a, b, c>>
    BY <2>2
  <2> HIDE DEF a, b, c
  <2> QED
    BY <2>4, <2>5 DEF Range
<1>6. CASE request = "position"
  <2>1. contexts = <<GetUserContext(chain[1])>>
    BY <1>1, <1>6 DEF ContextsOf
  <2> QED
    BY <2>1, UserContextCites DEF Range
<1>7. CASE request = "pools"
  <2>1. chain[1] \in SwapCall
    BY <1>1, <1>7 DEF Calls
  <2>2. contexts = <<GetPools(chain[1])>>
    BY <1>1, <1>7 DEF ContextsOf
  <2>3. CitesOwn(GetPools(chain[1]))
    BY <2>1, PoolsCite
  <2> QED
    BY <2>2, <2>3 DEF Range
<1>8. CASE request = "receive"
  <2>1. contexts = <<FindPathStrictReceive(chain[1])>>
    BY <1>1, <1>8 DEF ContextsOf
  <2> QED
    BY <2>1, PathsCite DEF Range
<1>9. CASE request = "offers"
  <2>1. contexts = <<GetOffers(chain[1])>>
    BY <1>1, <1>9 DEF ContextsOf
  <2> QED
    BY <2>1, OffersCite DEF Range
<1>10. CASE request = "classic"
  <2>1. contexts = <<GetLiquidityPools(chain[1])>>
    BY <1>1, <1>10 DEF ContextsOf
  <2> QED
    BY <2>1, ClassicPoolsCite DEF Range
<1>11. Requests = {"blend", "aquarius", "sdex", "composite", "position", "pools", "receive",
                   "offers", "classic"}
  BY DEF Requests, Calls
<1> QED
  BY <1>1, <1>2, <1>3, <1>4, <1>5, <1>6, <1>7, <1>8, <1>9, <1>10, <1>11

\* Whatever the chain answers, in every context an adapter returns each fact
\* cites a source record, and only records returned with it.
THEOREM FactsCite == PolicySpec => []FactsCiteTheirContext
<1>1. RequestInv => FactsCiteTheirContext
  <2> SUFFICES ASSUME RequestInv, Answered, NEW c \in Range(contexts), c.ok,
                      NEW i \in DOMAIN c.facts
               PROVE  c.facts[i].cites # {} /\ c.facts[i].cites \subseteq Ids(c.sources)
    BY DEF FactsCiteTheirContext
  <2>1. Cited(c.facts, Ids(c.sources))
    BY ContextsCite DEF CitesOwn
  <2>2. c.facts[i] \in ToSet(c.facts)
    BY DEF ToSet
  <2> QED
    BY <2>1, <2>2 DEF Cited
<1> QED
  BY <1>1, RequestInvariance, PTL

-----------------------------------------------------------------------------
(* The circuits of the recipes.                                            *)

\* The slot values and thresholds the comparators of a circuit have room for.
BlendInRange(f, t) ==
  /\ f.borrowed \in Nat /\ f.supplied \in Nat /\ f.oracle \in {0, 1}
  /\ t.maxUtilization \in Nat
  /\ f.borrowed * Scale < Span160
  /\ t.maxUtilization * Denominator(f.supplied) < Span160
AquariusInRange(f, t) ==
  /\ f.out \in Nat /\ f.hops \in Nat /\ t.minOut \in Nat
  /\ f.out + 1 < Span160 /\ t.minOut < Span160 /\ f.hops < Span16
SdexInRange(f, t) ==
  /\ f.available \in {0, 1}
  /\ f.path_out \in Nat /\ f.path_out + 1 < Span160
  /\ t.minReceive \in Nat /\ t.minReceive < Span160
  /\ f.spread \in Nat /\ f.spread < Span64
  /\ t.maxSpreadBps \in Nat /\ t.maxSpreadBps + 1 < Span64
CompositeInRange(f, t) ==
  /\ f.available \in {0, 1}
  /\ f.health \in Nat /\ f.health < Span160
  /\ f.out \in Nat /\ f.out + 1 < Span160
  /\ f.hops \in Nat /\ f.hops < Span16
  /\ f.path_out \in Nat /\ f.path_out + 1 < Span160
  /\ t.minHealth \in Nat /\ t.minHealth < Span160
  /\ t.minReceive \in Nat /\ t.minReceive < Span160

InRange(recipe, f, t) ==
  /\ recipe = "blend" => BlendInRange(f, t)
  /\ recipe = "aquarius" => AquariusInRange(f, t)
  /\ recipe = "sdex" => SdexInRange(f, t)
  /\ recipe = "composite" => CompositeInRange(f, t)

\* circomlib's LessThan compares: two numbers below the span are decomposed,
\* and the bit is their order.
LEMMA ComparatorCompares ==
  ASSUME NEW span \in Nat, 2 * span < P, NEW a \in Nat, a < span, NEW b \in Nat, b <= span
  PROVE  Fits(span, a, b) /\ (LessThan(span, a, b) <=> a < b)
<1>1. a + span - b \in 0..(P - 1)
  BY FactsAssumption
<1>2. \A n \in 0..(P - 1) : n % P = n
  BY FactsAssumption
<1>3. Diff(span, a, b) = a + span - b
  BY <1>1, <1>2 DEF Diff
<1> QED  BY <1>3 DEF Fits, LessThan

\* The circuit avoids the division of the policy: floor(n / d) < m exactly
\* when n < m * d (blend_utilization.circom, "division-free").
LEMMA DivisionFree ==
  ASSUME NEW n \in Nat, NEW d \in Nat \ {0}, NEW m \in Nat
  PROVE  (n \div d) < m <=> n < m * d
<1> DEFINE q == n \div d
<1>1. q \in Nat /\ d * q <= n /\ n < d * q + d
  <2>1. q \in Nat /\ n % d \in 0..(d - 1) /\ n = d * q + (n % d)
    BY Z3
  <2>2. d * q \in Nat  BY <2>1
  <2> QED  BY <2>1, <2>2
<1> HIDE DEF q
<1>2. ASSUME q < m PROVE n < m * d
  <2>1. PICK k \in Nat : m = q + 1 + k
    <3>1. m - q - 1 \in Nat  BY <1>1, <1>2
    <3> QED  BY <3>1, <1>1
  <2>2. m * d = d * q + d + k * d  BY <2>1, <1>1
  <2>3. k * d \in Nat /\ d * q \in Nat  BY <2>1, <1>1
  <2> QED  BY <2>2, <2>3, <1>1
<1>3. ASSUME ~(q < m) PROVE ~(n < m * d)
  <2>1. PICK k \in Nat : q = m + k
    <3>1. q - m \in Nat  BY <1>1, <1>3
    <3> QED  BY <3>1, <1>1
  <2>2. d * q = m * d + k * d  BY <2>1
  <2>3. k * d \in Nat /\ m * d \in Nat  BY <2>1
  <2> QED  BY <2>2, <2>3, <1>1
<1> QED  BY <1>2, <1>3 DEF q

\* The utilization circuit has an assignment for every input in range, and
\* its output is the predicate of the witness generator.
THEOREM BlendCircuitIsPredicate ==
  ASSUME NEW f, NEW t, BlendInRange(f, t)
  PROVE  /\ BlendCircuit(f, t).sat
         /\ BlendCircuit(f, t).out <=> BlendPredicate(f, t)
<1> DEFINE lhs == f.borrowed * Scale
           d == Denominator(f.supplied)
           rhs == t.maxUtilization * d
<1>1. /\ f.borrowed \in Nat /\ f.supplied \in Nat /\ f.oracle \in {0, 1}
      /\ t.maxUtilization \in Nat /\ lhs < Span160 /\ rhs < Span160
  BY DEF BlendInRange
<1>2. d \in Nat \ {0}
  BY <1>1 DEF Denominator
<1>3. lhs \in Nat /\ rhs \in Nat
  BY <1>1, <1>2, FactsAssumption
<1>4. (lhs \div d) < t.maxUtilization <=> lhs < rhs
  <2> HIDE DEF lhs, d
  <2> QED  BY <1>1, <1>2, <1>3, DivisionFree
<1>5. Fits(Span160, lhs, rhs) /\ (LessThan(Span160, lhs, rhs) <=> lhs < rhs)
  <2> HIDE DEF lhs, rhs
  <2> QED  BY <1>1, <1>3, SpanAssumption, ComparatorCompares
<1>6. BlendCircuit(f, t).sat <=> Fits(Span160, lhs, rhs) /\ f.oracle \in {0, 1}
  BY DEF BlendCircuit
<1>7. BlendCircuit(f, t).out <=> LessThan(Span160, lhs, rhs) /\ f.oracle = 1
  BY DEF BlendCircuit
<1>8. BlendPredicate(f, t) <=> (lhs \div d) < t.maxUtilization /\ f.oracle = 1
  BY DEF BlendPredicate
<1> HIDE DEF lhs, d, rhs
<1> QED  BY <1>1, <1>4, <1>5, <1>6, <1>7, <1>8

\* The same comparisons at the boundary: amounts with >=, hops with <=.
LEMMA AmountCompares ==
  ASSUME NEW out \in Nat, out + 1 < Span160, NEW min \in Nat, min < Span160
  PROVE  /\ Fits(Span160, min, out + 1)
         /\ LessThan(Span160, min, out + 1) <=> out >= min
<1>1. /\ Fits(Span160, min, out + 1)
      /\ LessThan(Span160, min, out + 1) <=> min < out + 1
  BY ComparatorCompares, SpanAssumption
<1> QED  BY <1>1

\* At most four hops is what the circuit's comparison with five decides.
LEMMA HopsCompare ==
  ASSUME NEW hops \in Nat, hops < Span16
  PROVE  Fits(Span16, hops, 5) /\ (LessThan(Span16, hops, 5) <=> hops <= 4)
<1>1. Fits(Span16, hops, 5) /\ (LessThan(Span16, hops, 5) <=> hops < 5)
  BY ComparatorCompares, SpanAssumption
<1> QED  BY <1>1

\* The route circuit is the route predicate.
THEOREM AquariusCircuitIsPredicate ==
  ASSUME NEW f, NEW t, AquariusInRange(f, t)
  PROVE  /\ AquariusCircuit(f, t).sat
         /\ AquariusCircuit(f, t).out <=> AquariusPredicate(f, t)
<1>1. /\ f.out \in Nat /\ f.hops \in Nat /\ t.minOut \in Nat
      /\ f.out + 1 < Span160 /\ t.minOut < Span160 /\ f.hops < Span16
  BY DEF AquariusInRange
<1>2. /\ Fits(Span160, t.minOut, f.out + 1)
      /\ LessThan(Span160, t.minOut, f.out + 1) <=> f.out >= t.minOut
  BY <1>1, AmountCompares
<1>3. Fits(Span16, f.hops, 5) /\ (LessThan(Span16, f.hops, 5) <=> f.hops <= 4)
  BY <1>1, HopsCompare
<1> QED  BY <1>2, <1>3 DEF AquariusCircuit, AquariusPredicate

\* The exit circuit is the exit predicate.
THEOREM SdexCircuitIsPredicate ==
  ASSUME NEW f, NEW t, SdexInRange(f, t)
  PROVE  /\ SdexCircuit(f, t).sat
         /\ SdexCircuit(f, t).out <=> SdexPredicate(f, t)
<1>1. /\ f.available \in {0, 1}
      /\ f.path_out \in Nat /\ f.path_out + 1 < Span160
      /\ t.minReceive \in Nat /\ t.minReceive < Span160
      /\ f.spread \in Nat /\ f.spread < Span64
      /\ t.maxSpreadBps \in Nat /\ t.maxSpreadBps + 1 < Span64
  BY DEF SdexInRange
<1>2. /\ Fits(Span160, t.minReceive, f.path_out + 1)
      /\ LessThan(Span160, t.minReceive, f.path_out + 1) <=> f.path_out >= t.minReceive
  BY <1>1, AmountCompares
<1>3. /\ Fits(Span64, f.spread, t.maxSpreadBps + 1)
      /\ LessThan(Span64, f.spread, t.maxSpreadBps + 1) <=> f.spread < t.maxSpreadBps + 1
  BY <1>1, ComparatorCompares, SpanAssumption
<1>4. f.spread < t.maxSpreadBps + 1 <=> f.spread <= t.maxSpreadBps
  BY <1>1
<1> QED  BY <1>1, <1>2, <1>3, <1>4 DEF SdexCircuit, SdexPredicate

\* The composite circuit is the composite predicate.
THEOREM CompositeCircuitIsPredicate ==
  ASSUME NEW f, NEW t, CompositeInRange(f, t)
  PROVE  /\ CompositeCircuit(f, t).sat
         /\ CompositeCircuit(f, t).out <=> CompositePredicate(f, t)
<1>1. /\ f.available \in {0, 1}
      /\ f.health \in Nat /\ f.health < Span160
      /\ f.out \in Nat /\ f.out + 1 < Span160
      /\ f.hops \in Nat /\ f.hops < Span16
      /\ f.path_out \in Nat /\ f.path_out + 1 < Span160
      /\ t.minHealth \in Nat /\ t.minHealth < Span160
      /\ t.minReceive \in Nat /\ t.minReceive < Span160
  BY DEF CompositeInRange
<1>2. /\ Fits(Span160, t.minReceive, f.out + 1)
      /\ LessThan(Span160, t.minReceive, f.out + 1) <=> f.out >= t.minReceive
  BY <1>1, AmountCompares
<1>3. Fits(Span16, f.hops, 5) /\ (LessThan(Span16, f.hops, 5) <=> f.hops <= 4)
  BY <1>1, HopsCompare
<1>4. /\ Fits(Span160, t.minReceive, f.path_out + 1)
      /\ LessThan(Span160, t.minReceive, f.path_out + 1) <=> f.path_out >= t.minReceive
  BY <1>1, AmountCompares
<1>5. /\ Fits(Span160, t.minHealth, f.health)
      /\ LessThan(Span160, t.minHealth, f.health) <=> f.health > t.minHealth
  BY <1>1, ComparatorCompares, SpanAssumption
<1> QED  BY <1>1, <1>2, <1>3, <1>4, <1>5 DEF CompositeCircuit, CompositePredicate

\* Each of the four circuits accepts every input in range and outputs the
\* reference predicate: what referenceEvaluate promises of the proof.
THEOREM CircuitIsPredicate ==
  ASSUME NEW recipe \in Recipes, NEW f, NEW t, InRange(recipe, f, t)
  PROVE  /\ Circuit(recipe, f, t).sat
         /\ Circuit(recipe, f, t).out <=> Predicate(recipe, f, t)
<1>1. CASE recipe = "blend"
  <2>1. Circuit(recipe, f, t) = BlendCircuit(f, t)  BY <1>1, Zenon DEF Circuit
  <2>2. Predicate(recipe, f, t) <=> BlendPredicate(f, t)  BY <1>1 DEF Predicate
  <2> QED  BY <1>1, <2>1, <2>2, BlendCircuitIsPredicate DEF InRange
<1>2. CASE recipe = "aquarius"
  <2>1. Circuit(recipe, f, t) = AquariusCircuit(f, t)  BY <1>2, Zenon DEF Circuit
  <2>2. Predicate(recipe, f, t) <=> AquariusPredicate(f, t)  BY <1>2 DEF Predicate
  <2> QED  BY <1>2, <2>1, <2>2, AquariusCircuitIsPredicate DEF InRange
<1>3. CASE recipe = "sdex"
  <2>1. Circuit(recipe, f, t) = SdexCircuit(f, t)  BY <1>3, Zenon DEF Circuit
  <2>2. Predicate(recipe, f, t) <=> SdexPredicate(f, t)  BY <1>3 DEF Predicate
  <2> QED  BY <1>3, <2>1, <2>2, SdexCircuitIsPredicate DEF InRange
<1>4. CASE recipe = "composite"
  <2>1. Circuit(recipe, f, t) = CompositeCircuit(f, t)  BY <1>4, Zenon DEF Circuit
  <2>2. Predicate(recipe, f, t) <=> CompositePredicate(f, t)  BY <1>4 DEF Predicate
  <2> QED  BY <1>4, <2>1, <2>2, CompositeCircuitIsPredicate DEF InRange
<1> QED  BY <1>1, <1>2, <1>3, <1>4 DEF Recipes

-----------------------------------------------------------------------------

\* FIXED_1E6_FIELDS "MUST match the fixed_1e6 valueTypes used by the compute
\* bindings" (zk-hash.ts), and does.
LEMMA FixedFieldsMatch ==
  \A path \in FactPaths : TypeOf(path) = "fixed_1e6" <=> Selectors[path].field \in FixedFields
<1> SUFFICES ASSUME NEW path \in FactPaths
             PROVE  TypeOf(path) = "fixed_1e6" <=> Selectors[path].field \in FixedFields
  OBVIOUS
<1>1. path \in {"totalSupplied", "totalBorrowed", "poolUtilization", "isFresh",
                "healthAfterAction", "borrowLimit", "liabilityUsed", "estimatedOut",
                "slippageBps", "routeHops", "routeAvailable", "pathAvailable",
                "pathEstimatedOut", "spreadBps", "bestBid", "bestAsk"}
  BY DEF FactPaths, Selectors
<1> QED  BY <1>1 DEF TypeOf, Selectors, Selector, FixedFields

\* The value a leaf commits to is the number the evaluator compares, reduced
\* to the field, for every fact a numeric path binds that is a number at all.
THEOREM NumericLeafIsPredicateInput ==
  ASSUME NEW path \in FactPaths, NEW fact,
         Selects(Selectors[path], fact), IsDecimal(fact.value),
         TypeOf(path) \in {"u64", "u128", "fixed_1e6"},
         fact.field # "route.available"
  PROVE  FactValueToFr(fact) = NormalizeFact(path, fact).n % P
<1>1. fact.field = Selectors[path].field
  BY DEF Selects
<1>2. ~IsFlag(fact.value) /\ fact.value.kind = "number"
  BY DEF IsDecimal, IsFlag
<1>3. CASE TypeOf(path) = "fixed_1e6"
  <2>1. NormalizeFact(path, fact) = ToFixed(fact.value)
    BY <1>2, <1>3, Zenon DEF NormalizeFact
  <2>2. FactValueToFr(fact) = TruncDiv(fact.value.raw * Scale, Unit) % P
    BY <1>1, <1>2, <1>3, FixedFieldsMatch DEF FactValueToFr, IsDecimal
  <2> QED  BY <2>1, <2>2 DEF ToFixed, Big, IsDecimal
<1>4. CASE TypeOf(path) \in {"u64", "u128"}
  <2>1. NormalizeFact(path, fact) = ToIntBig(fact.value)
    BY <1>2, <1>4 DEF NormalizeFact
  <2>2. FactValueToFr(fact) = TruncDiv(fact.value.raw, Unit) % P
    BY <1>1, <1>2, <1>4, FixedFieldsMatch DEF FactValueToFr, IsDecimal
  <2> QED  BY <2>1, <2>2 DEF ToIntBig, Big, IsDecimal
<1> QED  BY <1>3, <1>4

-----------------------------------------------------------------------------
(* The interpreter on the trees of the recipes.                            *)

\* An operand is of a lower rank than its node.
NodeRank(node) ==
  IF node[1] \in {"literal", "identifier", "fact", "private"} THEN 0
  ELSE IF node[1] = "call" \/ node[2] \in {"*", "<", "<=", ">", ">="} THEN 1
  ELSE IF node[2] \in {"/", "||"} THEN 2 ELSE 3
Ranked(stmt) ==
  \A node \in stmt.nodes :
    /\ NodeRank(node) \in 0..3
    /\ \A k \in DOMAIN Operands(node) :
         Operands(node)[k] \in stmt.nodes /\ NodeRank(Operands(node)[k]) < NodeRank(node)

\* The value a node has when f has those of its operands.
ValueUnder(node, f, env) ==
  NodeValue(node, [k \in DOMAIN Operands(node) |-> f[Operands(node)[k]]], env)

\* The recursive function the interpreter is satisfies its equation: four
\* rounds over the nodes reach a fixed point.
LEMMA NodesHaveValues ==
  ASSUME NEW stmt, NEW env, Ranked(stmt), NEW node \in stmt.nodes
  PROVE  NodeValues(stmt, env)[node] = ValueUnder(node, NodeValues(stmt, env), env)
<1> DEFINE nodes == stmt.nodes
           Round(f) == [n \in nodes |-> ValueUnder(n, f, env)]
           f0 == Round(<<>>)
           f1 == Round(f0)
           f2 == Round(f1)
           f3 == Round(f2)
<1>1. ASSUME NEW f, NEW g, NEW n \in nodes,
             \A m \in nodes : NodeRank(m) < NodeRank(n) => f[m] = g[m]
      PROVE  ValueUnder(n, f, env) = ValueUnder(n, g, env)
  <2>1. \A k \in DOMAIN Operands(n) : f[Operands(n)[k]] = g[Operands(n)[k]]
    BY <1>1 DEF Ranked
  <2>2. [k \in DOMAIN Operands(n) |-> f[Operands(n)[k]]]
          = [k \in DOMAIN Operands(n) |-> g[Operands(n)[k]]]
    BY <2>1
  <2> QED
    BY <2>2 DEF ValueUnder
<1>2. ASSUME NEW f, NEW n \in nodes PROVE Round(f)[n] = ValueUnder(n, f, env)
  OBVIOUS
<1>3. \A n \in nodes : NodeRank(n) \in 0..3
  BY DEF Ranked
<1> HIDE DEF Round
<1>4. \A n \in nodes : NodeRank(n) < 1 => f1[n] = f0[n]
  <2> SUFFICES ASSUME NEW n \in nodes, NodeRank(n) < 1 PROVE f1[n] = f0[n]
    OBVIOUS
  <2>1. \A m \in nodes : ~(NodeRank(m) < NodeRank(n))
    BY <1>3
  <2>2. ValueUnder(n, f0, env) = ValueUnder(n, <<>>, env)
    BY <1>1, <2>1
  <2> QED
    BY <1>2, <2>2
<1>5. \A n \in nodes : NodeRank(n) < 2 => f2[n] = f1[n]
  <2> SUFFICES ASSUME NEW n \in nodes, NodeRank(n) < 2 PROVE f2[n] = f1[n]
    OBVIOUS
  <2>1. \A m \in nodes : NodeRank(m) < NodeRank(n) => f1[m] = f0[m]
    BY <1>3, <1>4
  <2> QED
    BY <1>1, <1>2, <2>1
<1>6. \A n \in nodes : NodeRank(n) < 3 => f3[n] = f2[n]
  <2> SUFFICES ASSUME NEW n \in nodes, NodeRank(n) < 3 PROVE f3[n] = f2[n]
    OBVIOUS
  <2>1. \A m \in nodes : NodeRank(m) < NodeRank(n) => f2[m] = f1[m]
    BY <1>3, <1>5
  <2> QED
    BY <1>1, <1>2, <2>1
<1>7. \A n \in nodes : f3[n] = ValueUnder(n, f3, env)
  <2> TAKE n \in nodes
  <2>1. \A m \in nodes : NodeRank(m) < NodeRank(n) => f3[m] = f2[m]
    BY <1>3, <1>6
  <2> QED
    BY <1>1, <1>2, <2>1
<1> DEFINE Value == NodeValues(stmt, env)
<1>8. Round(f3) = f3
  BY <1>7 DEF Round
<1>9. Value = CHOOSE f : f = Round(f)
  BY DEF NodeValues, Round, ValueUnder
<1>10. Value = Round(Value)
  BY <1>8, <1>9
<1> HIDE DEF Value
<1>11. Round(Value)[node] = ValueUnder(node, Value, env)
  BY <1>2
<1>12. Value[node] = ValueUnder(node, Value, env)
  BY <1>10, <1>11, Zenon
<1> QED
  BY <1>12 DEF Value

\* A value that is a number.
Good(v) == v.throws = FALSE /\ v.n \in Int

\* The numbers and the flags of the interpreter are values it can go on with.
LEMMA GoodValues ==
  /\ \A k \in Int : Good(Big(k)) /\ Big(k).n = k
  /\ \A b \in BOOLEAN : Good(Bool(b)) /\ (AsBool(Bool(b)) <=> b)
  BY DEF Good, Big, Bool, AsBool

\* The constants of the programs.
LEMMA ConstantValues ==
  ASSUME NEW f, NEW env
  PROVE  /\ ValueUnder(VariableNode("SCALE"), f, env) = Big(Scale)
         /\ ValueUnder(LiteralNode("1"), f, env) = Big(1)
         /\ ValueUnder(LiteralNode("4"), f, env) = Big(4)
<1>1. ValueUnder(VariableNode("SCALE"), f, env) = Big(Scale)
  BY DEF ValueUnder, VariableNode, NodeValue
<1>2. /\ ValueUnder(LiteralNode("1"), f, env) = Big(1)
      /\ ValueUnder(LiteralNode("4"), f, env) = Big(4)
  BY ProgramsAssumption DEF ValueUnder, LiteralNode, NodeValue
<1> QED
  BY <1>1, <1>2

\* The operands of a binary node.
LEMMA BinaryOperands ==
  ASSUME NEW op, NEW l, NEW r, NEW f, NEW env
  PROVE  ValueUnder(BinaryNode(op, l, r), f, env) = NodeValue(BinaryNode(op, l, r), <<f[l], f[r]>>, env)
<1> DEFINE node == BinaryNode(op, l, r)
           v == [k \in DOMAIN Operands(node) |-> f[Operands(node)[k]]]
<1>1. Operands(node) = <<l, r>>
  BY DEF Operands, BinaryNode
<1>2. v = <<f[l], f[r]>>
  <2>1. v = [k \in 1..2 |-> IF k = 1 THEN f[l] ELSE f[r]]
    BY <1>1
  <2> HIDE DEF v
  <2> QED
    BY <2>1
<1> HIDE DEF v
<1>3. ValueUnder(node, f, env) = NodeValue(node, v, env)
  BY DEF ValueUnder, v
<1> QED
  BY <1>2, <1>3

\* What each binary operator gives for two such values.
LEMMA BinaryValues ==
  ASSUME NEW l, NEW r, NEW f, NEW env, Good(f[l]), Good(f[r])
  PROVE  /\ ValueUnder(BinaryNode("<", l, r), f, env) = Bool(f[l].n < f[r].n)
         /\ ValueUnder(BinaryNode("<=", l, r), f, env) = Bool(f[l].n <= f[r].n)
         /\ ValueUnder(BinaryNode(">", l, r), f, env) = Bool(f[l].n > f[r].n)
         /\ ValueUnder(BinaryNode(">=", l, r), f, env) = Bool(f[l].n >= f[r].n)
         /\ ValueUnder(BinaryNode("*", l, r), f, env) = Big(f[l].n * f[r].n)
         /\ f[r].n # 0 => ValueUnder(BinaryNode("/", l, r), f, env) = Big(TruncDiv(f[l].n, f[r].n))
         /\ ValueUnder(BinaryNode("&&", l, r), f, env) = Bool(AsBool(f[l]) /\ AsBool(f[r]))
         /\ ValueUnder(BinaryNode("||", l, r), f, env) = Bool(AsBool(f[l]) \/ AsBool(f[r]))
<1>1. ASSUME NEW op, op \in {"<", "<=", ">", ">=", "*", "/"}
      PROVE  ValueUnder(BinaryNode(op, l, r), f, env) = Apply(op, f[l].n, f[r].n)
  <2>1. NodeValue(BinaryNode(op, l, r), <<f[l], f[r]>>, env) = Apply(op, f[l].n, f[r].n)
    BY <1>1 DEF NodeValue, BinaryNode, Good
  <2> QED
    BY <2>1, BinaryOperands
<1>2. ValueUnder(BinaryNode("&&", l, r), f, env) = Bool(AsBool(f[l]) /\ AsBool(f[r]))
  <2>1. NodeValue(BinaryNode("&&", l, r), <<f[l], f[r]>>, env) = Bool(AsBool(f[l]) /\ AsBool(f[r]))
    BY DEF NodeValue, BinaryNode, Good, Bool, AsBool
  <2> QED
    BY <2>1, BinaryOperands
<1>3. ValueUnder(BinaryNode("||", l, r), f, env) = Bool(AsBool(f[l]) \/ AsBool(f[r]))
  <2>1. NodeValue(BinaryNode("||", l, r), <<f[l], f[r]>>, env) = Bool(AsBool(f[l]) \/ AsBool(f[r]))
    BY DEF NodeValue, BinaryNode, Good, Bool, AsBool
  <2> QED
    BY <2>1, BinaryOperands
<1> DEFINE Value(op) == ValueUnder(BinaryNode(op, l, r), f, env)
<1>4. Value("<") = Bool(f[l].n < f[r].n) /\ Value("<=") = Bool(f[l].n <= f[r].n)
  BY <1>1 DEF Apply
<1>5. Value(">") = Bool(f[l].n > f[r].n) /\ Value(">=") = Bool(f[l].n >= f[r].n)
  BY <1>1 DEF Apply
<1>6. Value("*") = Big(f[l].n * f[r].n)
  BY <1>1 DEF Apply
<1>7. f[r].n # 0 => Value("/") = Big(TruncDiv(f[l].n, f[r].n))
  BY <1>1 DEF Apply
<1> QED
  BY <1>2, <1>3, <1>4, <1>5, <1>6, <1>7

-----------------------------------------------------------------------------
(* The statements of the recipes.                                          *)

\* The names of an environment have numbers.
GoodIn(f, names) == names \subseteq DOMAIN f /\ \A x \in names : Good(f[x])

\* The rank and the operands of each kind of node.
LEMMA NodeShapes ==
  ASSUME NEW p, NEW op, NEW l, NEW r
  PROVE  /\ NodeRank(FactNode(p)) = 0 /\ Operands(FactNode(p)) = <<>>
         /\ NodeRank(PrivateNode(p)) = 0 /\ Operands(PrivateNode(p)) = <<>>
         /\ NodeRank(VariableNode(p)) = 0 /\ Operands(VariableNode(p)) = <<>>
         /\ NodeRank(LiteralNode(p)) = 0 /\ Operands(LiteralNode(p)) = <<>>
         /\ Operands(BinaryNode(op, l, r)) = <<l, r>>
         /\ NodeRank(BinaryNode(op, l, r)) =
              IF op \in {"*", "<", "<=", ">", ">="} THEN 1 ELSE IF op \in {"/", "||"} THEN 2 ELSE 3
  BY DEF NodeRank, Operands, FactNode, PrivateNode, VariableNode, LiteralNode, BinaryNode

\* A node without operands, and the number it has.
GoodLeaf(node, v, env) ==
  /\ NodeRank(node) = 0 /\ Operands(node) = <<>> /\ Good(v)
  /\ \A f : ValueUnder(node, f, env) = v

\* A fact is read from the facts' values,
LEMMA FactLeaf ==
  ASSUME NEW env, NEW x, GoodIn(env.facts, {x})
  PROVE  GoodLeaf(FactNode(x), env.facts[x], env)
<1>1. NodeRank(FactNode(x)) = 0 /\ Operands(FactNode(x)) = <<>>
  BY NodeShapes
<1>2. \A f : ValueUnder(FactNode(x), f, env) = env.facts[x]
  <2> TAKE f
  <2>1. x \in DOMAIN env.facts
    BY DEF GoodIn
  <2> QED
    BY <2>1 DEF ValueUnder, FactNode, NodeValue
<1> QED
  BY <1>1, <1>2 DEF GoodLeaf, GoodIn

\* a private input from the inputs,
LEMMA PrivateLeaf ==
  ASSUME NEW env, NEW x, GoodIn(env.privates, {x})
  PROVE  GoodLeaf(PrivateNode(x), env.privates[x], env)
<1>1. NodeRank(PrivateNode(x)) = 0 /\ Operands(PrivateNode(x)) = <<>>
  BY NodeShapes
<1>2. \A f : ValueUnder(PrivateNode(x), f, env) = env.privates[x]
  <2> TAKE f
  <2>1. x \in DOMAIN env.privates
    BY DEF GoodIn
  <2> QED
    BY <2>1 DEF ValueUnder, PrivateNode, NodeValue
<1> QED
  BY <1>1, <1>2 DEF GoodLeaf, GoodIn

\* and a variable from the statements evaluated before.
LEMMA VariableLeaf ==
  ASSUME NEW env, NEW x, x # "SCALE", GoodIn(env.vars, {x})
  PROVE  GoodLeaf(VariableNode(x), env.vars[x], env)
<1>1. NodeRank(VariableNode(x)) = 0 /\ Operands(VariableNode(x)) = <<>>
  BY NodeShapes
<1>2. \A f : ValueUnder(VariableNode(x), f, env) = env.vars[x]
  <2> TAKE f
  <2>1. x \in DOMAIN env.vars
    BY DEF GoodIn
  <2> QED
    BY <2>1 DEF ValueUnder, VariableNode, NodeValue
<1> QED
  BY <1>1, <1>2 DEF GoodLeaf, GoodIn

\* The operands of a leaf and of a node with two.
Below(node, nodes) ==
  \A k \in DOMAIN Operands(node) :
    Operands(node)[k] \in nodes /\ NodeRank(Operands(node)[k]) < NodeRank(node)
\* A node without operands needs none of them among the nodes.
LEMMA LeafBelow ==
  ASSUME NEW node, NEW nodes, Operands(node) = <<>> PROVE Below(node, nodes)
  BY DEF Below
\* The operands of a binary node are nodes of a lower rank.
LEMMA PairBelow ==
  ASSUME NEW node, NEW nodes, NEW l \in nodes, NEW r \in nodes, Operands(node) = <<l, r>>,
         NodeRank(l) < NodeRank(node), NodeRank(r) < NodeRank(node)
  PROVE  Below(node, nodes)
<1>1. DOMAIN Operands(node) = 1..2 /\ Operands(node)[1] = l /\ Operands(node)[2] = r
  OBVIOUS
<1>2. \A k \in 1..2 : k = 1 \/ k = 2
  OBVIOUS
<1> QED
  BY <1>1, <1>2 DEF Below

\* A statement is ranked when the operands of each of its nodes are below it.
LEMMA RankedByBelow ==
  ASSUME NEW stmt, \A node \in stmt.nodes : NodeRank(node) \in 0..3 /\ Below(node, stmt.nodes)
  PROVE  Ranked(stmt)
  BY DEF Ranked, Below

\* A comparison of a fact with a bound.
LEMMA CompareValue ==
  ASSUME NEW name, NEW op \in {">", ">=", "<="}, NEW path, NEW bound, NEW env,
         GoodIn(env.facts, {path}), GoodIn(env.privates, {bound})
  PROVE  LET v == EvalNode(CompareStatement(name, op, path, PrivateNode(bound)), env)
             l == env.facts[path].n
             r == env.privates[bound].n
         IN  Good(v) /\ (AsBool(v) <=> \/ op = ">" /\ l > r
                                       \/ op = ">=" /\ l >= r
                                       \/ op = "<=" /\ l <= r)
<1> DEFINE stmt == CompareStatement(name, op, path, PrivateNode(bound))
           V == NodeValues(stmt, env)
           a == FactNode(path)
           b == PrivateNode(bound)
           c == BinaryNode(op, a, b)
<1> HIDE DEF V
<1>1. stmt.nodes = {a, b, c} /\ stmt.expr = c
  BY DEF CompareStatement, Assign
<1>2. Ranked(stmt)
  <2>a. NodeRank(a) = 0 /\ Operands(a) = <<>>
    BY NodeShapes
  <2>b. NodeRank(b) = 0 /\ Operands(b) = <<>>
    BY NodeShapes
  <2>c. NodeRank(c) = 1 /\ Operands(c) = <<a, b>>
    <3> HIDE DEF a, b
    <3> QED
      BY NodeShapes
  <2> HIDE DEF a, b, c, stmt
  <2>1. NodeRank(a) \in 0..3 /\ NodeRank(b) \in 0..3 /\ NodeRank(c) \in 0..3
    BY <2>a, <2>b, <2>c
  <2>2. Below(a, stmt.nodes) /\ Below(b, stmt.nodes)
    BY <2>a, <2>b, LeafBelow
  <2>3. Below(c, stmt.nodes)
    BY <1>1, <2>a, <2>b, <2>c, PairBelow
  <2>4. \A node \in stmt.nodes : NodeRank(node) \in 0..3 /\ Below(node, stmt.nodes)
    BY <1>1, <2>1, <2>2, <2>3
  <2> QED
    BY <2>4, RankedByBelow
<1>3. V[a] = env.facts[path] /\ V[b] = env.privates[bound]
  <2>1. V[a] = ValueUnder(a, V, env) /\ V[b] = ValueUnder(b, V, env)
    BY <1>1, <1>2, NodesHaveValues DEF V
  <2>2. GoodLeaf(a, env.facts[path], env) /\ GoodLeaf(b, env.privates[bound], env)
    BY FactLeaf, PrivateLeaf
  <2> HIDE DEF a, b
  <2> QED
    BY <2>1, <2>2 DEF GoodLeaf
<1>4. V[c] = ValueUnder(c, V, env) /\ EvalNode(stmt, env) = V[c]
  BY <1>1, <1>2, NodesHaveValues DEF EvalNode, V
<1>5. Good(V[a]) /\ Good(V[b])
  BY <1>3 DEF GoodIn
<1> HIDE DEF a, b
<1>6. /\ op = ">" => V[c] = Bool(V[a].n > V[b].n)
      /\ op = ">=" => V[c] = Bool(V[a].n >= V[b].n)
      /\ op = "<=" => V[c] = Bool(V[a].n <= V[b].n)
  BY <1>4, <1>5, BinaryValues DEF c
<1>7. /\ (V[a].n > V[b].n) \in BOOLEAN /\ (V[a].n >= V[b].n) \in BOOLEAN
      /\ (V[a].n <= V[b].n) \in BOOLEAN
  OBVIOUS
<1> HIDE DEF c, stmt
<1>8. Good(V[c]) /\ (AsBool(V[c]) <=> \/ op = ">" /\ V[a].n > V[b].n
                                      \/ op = ">=" /\ V[a].n >= V[b].n
                                      \/ op = "<=" /\ V[a].n <= V[b].n)
  BY <1>6, <1>7, GoodValues
<1> QED
  BY <1>3, <1>4, <1>8 DEF stmt

\* A route that pays the bound and is short.
LEMMA RouteValue ==
  ASSUME NEW name, NEW bound, NEW env,
         GoodIn(env.facts, {"estimatedOut", "routeHops"}), GoodIn(env.privates, {bound})
  PROVE  LET v == EvalNode(RouteStatement(name, bound), env)
         IN  Good(v) /\ (AsBool(v) <=> /\ env.facts["estimatedOut"].n >= env.privates[bound].n
                                       /\ env.facts["routeHops"].n <= 4)
<1> DEFINE stmt == RouteStatement(name, bound)
           V == NodeValues(stmt, env)
           a == FactNode("estimatedOut")
           b == PrivateNode(bound)
           c == BinaryNode(">=", a, b)
           d == FactNode("routeHops")
           e == LiteralNode("4")
           g == BinaryNode("<=", d, e)
           h == BinaryNode("&&", c, g)
<1> HIDE DEF V
<1>1. stmt.nodes = {a, b, c, d, e, g, h} /\ stmt.expr = h
  BY DEF RouteStatement, Assign
<1>2. Ranked(stmt)
  <2>a. NodeRank(a) = 0 /\ Operands(a) = <<>>
    BY NodeShapes
  <2>b. NodeRank(b) = 0 /\ Operands(b) = <<>>
    BY NodeShapes
  <2>d. NodeRank(d) = 0 /\ Operands(d) = <<>>
    BY NodeShapes
  <2>e. NodeRank(e) = 0 /\ Operands(e) = <<>>
    BY NodeShapes
  <2> HIDE DEF a, b, d, e
  <2>c. NodeRank(c) = 1 /\ Operands(c) = <<a, b>>
    BY NodeShapes
  <2>g. NodeRank(g) = 1 /\ Operands(g) = <<d, e>>
    BY NodeShapes
  <2> HIDE DEF c, g
  <2>h. NodeRank(h) = 3 /\ Operands(h) = <<c, g>>
    BY NodeShapes
  <2> HIDE DEF h, stmt
  <2>1. /\ NodeRank(a) \in 0..3 /\ NodeRank(b) \in 0..3 /\ NodeRank(c) \in 0..3
        /\ NodeRank(d) \in 0..3 /\ NodeRank(e) \in 0..3 /\ NodeRank(g) \in 0..3
        /\ NodeRank(h) \in 0..3
    BY <2>a, <2>b, <2>c, <2>d, <2>e, <2>g, <2>h
  <2>2. /\ Below(a, stmt.nodes) /\ Below(b, stmt.nodes) /\ Below(d, stmt.nodes)
        /\ Below(e, stmt.nodes)
    BY <2>a, <2>b, <2>d, <2>e, LeafBelow
  <2>3. Below(c, stmt.nodes)
    BY <1>1, <2>a, <2>b, <2>c, PairBelow
  <2>4. Below(g, stmt.nodes)
    BY <1>1, <2>d, <2>e, <2>g, PairBelow
  <2>5. Below(h, stmt.nodes)
    BY <1>1, <2>c, <2>g, <2>h, PairBelow
  <2>6. \A node \in stmt.nodes : NodeRank(node) \in 0..3 /\ Below(node, stmt.nodes)
    BY <1>1, <2>1, <2>2, <2>3, <2>4, <2>5
  <2> QED
    BY <2>6, RankedByBelow
<1>3. \A n \in {a, b, c, d, e, g, h} : V[n] = ValueUnder(n, V, env)
  BY <1>1, <1>2, NodesHaveValues DEF V
<1>4. EvalNode(stmt, env) = V[h]
  BY <1>1 DEF EvalNode, V
<1> HIDE DEF stmt
<1>5. V[a] = env.facts["estimatedOut"] /\ V[d] = env.facts["routeHops"] /\ V[e] = Big(4)
  <2>1. GoodIn(env.facts, {"estimatedOut"}) /\ GoodIn(env.facts, {"routeHops"})
    BY DEF GoodIn
  <2>2. GoodLeaf(a, env.facts["estimatedOut"], env) /\ GoodLeaf(d, env.facts["routeHops"], env)
    BY <2>1, FactLeaf
  <2>3. V[e] = Big(4)
    BY <1>3, ConstantValues
  <2> HIDE DEF a, d
  <2> QED
    BY <1>3, <2>2, <2>3 DEF GoodLeaf
<1>6. V[b] = env.privates[bound]
  <2>1. GoodLeaf(b, env.privates[bound], env)
    BY PrivateLeaf
  <2> HIDE DEF b
  <2> QED
    BY <1>3, <2>1 DEF GoodLeaf
<1>7. Good(V[a]) /\ Good(V[b]) /\ Good(V[d]) /\ Good(V[e]) /\ V[e].n = 4
  BY <1>5, <1>6, GoodValues DEF GoodIn
<1> HIDE DEF a, b, d, e
<1>8. V[c] = Bool(V[a].n >= V[b].n)
  BY <1>3, <1>7, BinaryValues DEF c
<1>9. V[g] = Bool(V[d].n <= V[e].n)
  BY <1>3, <1>7, BinaryValues DEF g
<1> HIDE DEF c, g
<1>10. /\ Good(V[c]) /\ (AsBool(V[c]) <=> V[a].n >= V[b].n)
       /\ Good(V[g]) /\ (AsBool(V[g]) <=> V[d].n <= 4)
  <2>1. (V[a].n >= V[b].n) \in BOOLEAN /\ (V[d].n <= V[e].n) \in BOOLEAN
    OBVIOUS
  <2> QED
    BY <1>7, <1>8, <1>9, <2>1, GoodValues
<1>11. V[h] = Bool(AsBool(V[c]) /\ AsBool(V[g]))
  BY <1>3, <1>10, BinaryValues DEF h
<1> HIDE DEF h
<1>12. Good(V[h]) /\ (AsBool(V[h]) <=> AsBool(V[c]) /\ AsBool(V[g]))
  <2>1. (AsBool(V[c]) /\ AsBool(V[g])) \in BOOLEAN
    OBVIOUS
  <2> QED
    BY <1>11, <2>1, GoodValues
<1> QED
  BY <1>4, <1>5, <1>6, <1>10, <1>12 DEF stmt

\* name = first && (second || third);
LEMMA EitherValue ==
  ASSUME NEW name, NEW a, NEW b, NEW c, NEW env, NEW va, NEW vb, NEW vc,
         GoodLeaf(a, va, env), GoodLeaf(b, vb, env), GoodLeaf(c, vc, env)
  PROVE  LET v == EvalNode(EitherStatement(name, a, b, c), env)
         IN  Good(v) /\ (AsBool(v) <=> AsBool(va) /\ (AsBool(vb) \/ AsBool(vc)))
<1> DEFINE stmt == EitherStatement(name, a, b, c)
           V == NodeValues(stmt, env)
           d == BinaryNode("||", b, c)
           e == BinaryNode("&&", a, d)
<1>1. stmt.nodes = {a, b, c, d, e} /\ stmt.expr = e
  BY DEF EitherStatement, Assign
<1>2. EvalNode(stmt, env) = V[e]
  BY <1>1 DEF EvalNode
<1> HIDE DEF stmt
<1>3. Ranked(stmt)
  <2>a. /\ NodeRank(a) = 0 /\ Operands(a) = <<>> /\ NodeRank(b) = 0 /\ Operands(b) = <<>>
        /\ NodeRank(c) = 0 /\ Operands(c) = <<>>
    BY DEF GoodLeaf
  <2>d. NodeRank(d) = 2 /\ Operands(d) = <<b, c>>
    BY NodeShapes
  <2> HIDE DEF d
  <2>e. NodeRank(e) = 3 /\ Operands(e) = <<a, d>>
    BY NodeShapes
  <2> HIDE DEF e
  <2>1. /\ NodeRank(a) \in 0..3 /\ NodeRank(b) \in 0..3 /\ NodeRank(c) \in 0..3
        /\ NodeRank(d) \in 0..3 /\ NodeRank(e) \in 0..3
    BY <2>a, <2>d, <2>e
  <2>2. Below(a, stmt.nodes) /\ Below(b, stmt.nodes) /\ Below(c, stmt.nodes)
    BY <2>a, LeafBelow
  <2>3. Below(d, stmt.nodes)
    BY <1>1, <2>a, <2>d, PairBelow
  <2>4. Below(e, stmt.nodes)
    BY <1>1, <2>a, <2>d, <2>e, PairBelow
  <2>5. \A node \in stmt.nodes : NodeRank(node) \in 0..3 /\ Below(node, stmt.nodes)
    BY <1>1, <2>1, <2>2, <2>3, <2>4
  <2> QED
    BY <2>5, RankedByBelow
<1> HIDE DEF d, e
<1>4. \A n \in {a, b, c, d, e} : V[n] = ValueUnder(n, V, env)
  BY <1>1, <1>3, NodesHaveValues
<1> HIDE DEF V
<1>5. V[a] = va /\ V[b] = vb /\ V[c] = vc /\ Good(va) /\ Good(vb) /\ Good(vc)
  BY <1>4 DEF GoodLeaf
<1>6. Good(V[d]) /\ (AsBool(V[d]) <=> AsBool(vb) \/ AsBool(vc))
  <2>1. V[d] = Bool(AsBool(vb) \/ AsBool(vc))
    BY <1>4, <1>5, BinaryValues DEF d
  <2>2. (AsBool(vb) \/ AsBool(vc)) \in BOOLEAN
    OBVIOUS
  <2> QED
    BY <2>1, <2>2, GoodValues
<1>7. Good(V[e]) /\ (AsBool(V[e]) <=> AsBool(va) /\ AsBool(V[d]))
  <2>1. V[e] = Bool(AsBool(va) /\ AsBool(V[d]))
    BY <1>4, <1>5, <1>6, BinaryValues DEF e
  <2>2. (AsBool(va) /\ AsBool(V[d])) \in BOOLEAN
    OBVIOUS
  <2> QED
    BY <2>1, <2>2, GoodValues
<1> QED
  BY <1>2, <1>6, <1>7 DEF stmt

\* A path that exists and pays the bound.
LEMMA SdexExitValue ==
  ASSUME NEW env, GoodIn(env.facts, {"pathAvailable", "pathEstimatedOut"}),
         GoodIn(env.privates, {"minReceive"})
  PROVE  LET v == EvalNode(SdexExitStatement, env)
         IN  Good(v) /\ (AsBool(v) <=> /\ AsBool(env.facts["pathAvailable"])
                                       /\ env.facts["pathEstimatedOut"].n >= env.privates["minReceive"].n)
<1> DEFINE stmt == SdexExitStatement
           V == NodeValues(stmt, env)
           a == FactNode("pathAvailable")
           b == FactNode("pathEstimatedOut")
           c == PrivateNode("minReceive")
           d == BinaryNode(">=", b, c)
           e == BinaryNode("&&", a, d)
           va == env.facts["pathAvailable"]
           vb == env.facts["pathEstimatedOut"]
           vc == env.privates["minReceive"]
<1>1. stmt.nodes = {a, b, c, d, e} /\ stmt.expr = e
  BY DEF SdexExitStatement, Assign
<1>2. EvalNode(stmt, env) = V[e]
  BY <1>1 DEF EvalNode
<1>0. GoodLeaf(a, va, env) /\ GoodLeaf(b, vb, env) /\ GoodLeaf(c, vc, env)
  <2>1. GoodIn(env.facts, {"pathAvailable"}) /\ GoodIn(env.facts, {"pathEstimatedOut"})
    BY DEF GoodIn
  <2> QED
    BY <2>1, FactLeaf, PrivateLeaf
<1> HIDE DEF stmt, a, b, c, va, vb, vc
<1>3. Ranked(stmt)
  <2>a. /\ NodeRank(a) = 0 /\ Operands(a) = <<>> /\ NodeRank(b) = 0 /\ Operands(b) = <<>>
        /\ NodeRank(c) = 0 /\ Operands(c) = <<>>
    BY <1>0 DEF GoodLeaf
  <2>d. NodeRank(d) = 1 /\ Operands(d) = <<b, c>>
    BY NodeShapes
  <2> HIDE DEF d
  <2>e. NodeRank(e) = 3 /\ Operands(e) = <<a, d>>
    BY NodeShapes
  <2> HIDE DEF e
  <2>1. /\ NodeRank(a) \in 0..3 /\ NodeRank(b) \in 0..3 /\ NodeRank(c) \in 0..3
        /\ NodeRank(d) \in 0..3 /\ NodeRank(e) \in 0..3
    BY <2>a, <2>d, <2>e
  <2>2. Below(a, stmt.nodes) /\ Below(b, stmt.nodes) /\ Below(c, stmt.nodes)
    BY <2>a, LeafBelow
  <2>3. Below(d, stmt.nodes)
    BY <1>1, <2>a, <2>d, PairBelow
  <2>4. Below(e, stmt.nodes)
    BY <1>1, <2>a, <2>d, <2>e, PairBelow
  <2>5. \A node \in stmt.nodes : NodeRank(node) \in 0..3 /\ Below(node, stmt.nodes)
    BY <1>1, <2>1, <2>2, <2>3, <2>4
  <2> QED
    BY <2>5, RankedByBelow
<1> HIDE DEF d, e
<1>4. \A n \in {a, b, c, d, e} : V[n] = ValueUnder(n, V, env)
  BY <1>1, <1>3, NodesHaveValues
<1> HIDE DEF V
<1>5. V[a] = va /\ V[b] = vb /\ V[c] = vc /\ Good(va) /\ Good(vb) /\ Good(vc)
  BY <1>0, <1>4 DEF GoodLeaf
<1>6. Good(V[d]) /\ (AsBool(V[d]) <=> vb.n >= vc.n)
  <2>1. V[d] = Bool(vb.n >= vc.n)
    BY <1>4, <1>5, BinaryValues DEF d
  <2>2. (vb.n >= vc.n) \in BOOLEAN
    OBVIOUS
  <2> QED
    BY <2>1, <2>2, GoodValues
<1>7. Good(V[e]) /\ (AsBool(V[e]) <=> AsBool(va) /\ AsBool(V[d]))
  <2>1. V[e] = Bool(AsBool(va) /\ AsBool(V[d]))
    BY <1>4, <1>5, <1>6, BinaryValues DEF e
  <2>2. (AsBool(va) /\ AsBool(V[d])) \in BOOLEAN
    OBVIOUS
  <2> QED
    BY <2>1, <2>2, GoodValues
<1> QED
  BY <1>2, <1>6, <1>7 DEF stmt, va, vb, vc

\* BigInt division rounds towards zero, which for naturals is the quotient.
LEMMA TruncOfNaturals ==
  ASSUME NEW a \in Nat, NEW b \in Nat \ {0} PROVE TruncDiv(a, b) = a \div b /\ a \div b \in Nat
  BY DEF TruncDiv

\* utilization = totalBorrowed * SCALE / max(totalSupplied, 1);
LEMMA UtilizationValue ==
  ASSUME NEW env, GoodIn(env.facts, {"totalBorrowed", "totalSupplied"}),
         env.facts["totalBorrowed"].n \in Nat, env.facts["totalSupplied"].n \in Nat
  PROVE  EvalNode(UtilizationStatement, env)
           = Big((env.facts["totalBorrowed"].n * Scale) \div Denominator(env.facts["totalSupplied"].n))
<1> DEFINE stmt == UtilizationStatement
           V == NodeValues(stmt, env)
           a == FactNode("totalBorrowed")
           b == VariableNode("SCALE")
           c == BinaryNode("*", a, b)
           d == FactNode("totalSupplied")
           e == LiteralNode("1")
           g == <<"call", "max", <<d, e>>>>
           h == BinaryNode("/", c, g)
           va == env.facts["totalBorrowed"]
           vd == env.facts["totalSupplied"]
<1>1. stmt.nodes = {a, b, c, d, e, g, h} /\ stmt.expr = h
  BY DEF UtilizationStatement, Assign
<1>2. EvalNode(stmt, env) = V[h]
  BY <1>1 DEF EvalNode
<1>0. GoodLeaf(a, va, env) /\ GoodLeaf(d, vd, env)
  <2>1. GoodIn(env.facts, {"totalBorrowed"}) /\ GoodIn(env.facts, {"totalSupplied"})
    BY DEF GoodIn
  <2> QED
    BY <2>1, FactLeaf
<1>b. GoodLeaf(b, Big(Scale), env)
  <2>1. NodeRank(b) = 0 /\ Operands(b) = <<>>
    BY NodeShapes
  <2>2. \A f : ValueUnder(b, f, env) = Big(Scale)
    BY ConstantValues
  <2> QED
    BY <2>1, <2>2, FactsAssumption DEF GoodLeaf, Good, Big
<1>e. GoodLeaf(e, Big(1), env)
  <2>1. NodeRank(e) = 0 /\ Operands(e) = <<>>
    BY NodeShapes
  <2>2. \A f : ValueUnder(e, f, env) = Big(1)
    BY ConstantValues
  <2> QED
    BY <2>1, <2>2 DEF GoodLeaf, Good, Big
<1> HIDE DEF stmt, a, b, d, e, va, vd
<1>g. /\ NodeRank(g) = 1 /\ Operands(g) = <<d, e>>
      /\ \A f : ValueUnder(g, f, env) = NodeValue(g, <<f[d], f[e]>>, env)
  <2>1. NodeRank(g) = 1 /\ Operands(g) = <<d, e>>
    BY DEF NodeRank, Operands
  <2> HIDE DEF g
  <2>2. ASSUME NEW f PROVE ValueUnder(g, f, env) = NodeValue(g, <<f[d], f[e]>>, env)
    <3> DEFINE v == [k \in DOMAIN Operands(g) |-> f[Operands(g)[k]]]
    <3>1. v = [k \in 1..2 |-> IF k = 1 THEN f[d] ELSE f[e]]
      BY <2>1
    <3> HIDE DEF v
    <3>2. v = <<f[d], f[e]>>
      BY <3>1
    <3>3. ValueUnder(g, f, env) = NodeValue(g, v, env)
      BY DEF ValueUnder, v
    <3> QED
      BY <3>2, <3>3
  <2> QED
    BY <2>1, <2>2
<1>3. Ranked(stmt)
  <2>a. /\ NodeRank(a) = 0 /\ Operands(a) = <<>> /\ NodeRank(b) = 0 /\ Operands(b) = <<>>
        /\ NodeRank(d) = 0 /\ Operands(d) = <<>> /\ NodeRank(e) = 0 /\ Operands(e) = <<>>
    BY <1>0, <1>b, <1>e DEF GoodLeaf
  <2>c. NodeRank(c) = 1 /\ Operands(c) = <<a, b>>
    BY NodeShapes
  <2> HIDE DEF c, g
  <2>h. NodeRank(h) = 2 /\ Operands(h) = <<c, g>>
    BY NodeShapes
  <2> HIDE DEF h
  <2>1. /\ NodeRank(a) \in 0..3 /\ NodeRank(b) \in 0..3 /\ NodeRank(c) \in 0..3
        /\ NodeRank(d) \in 0..3 /\ NodeRank(e) \in 0..3 /\ NodeRank(g) \in 0..3
        /\ NodeRank(h) \in 0..3
    BY <1>g, <2>a, <2>c, <2>h
  <2>2. /\ Below(a, stmt.nodes) /\ Below(b, stmt.nodes) /\ Below(d, stmt.nodes)
        /\ Below(e, stmt.nodes)
    BY <2>a, LeafBelow
  <2>3. Below(c, stmt.nodes)
    BY <1>1, <2>a, <2>c, PairBelow
  <2>4. Below(g, stmt.nodes)
    BY <1>1, <1>g, <2>a, PairBelow
  <2>5. Below(h, stmt.nodes)
    BY <1>1, <1>g, <2>c, <2>h, PairBelow
  <2>6. \A node \in stmt.nodes : NodeRank(node) \in 0..3 /\ Below(node, stmt.nodes)
    BY <1>1, <2>1, <2>2, <2>3, <2>4, <2>5
  <2> QED
    BY <2>6, RankedByBelow
<1> HIDE DEF c, h
<1>4. \A n \in {a, b, c, d, e, g, h} : V[n] = ValueUnder(n, V, env)
  BY <1>1, <1>3, NodesHaveValues
<1> HIDE DEF V
<1>5. /\ V[a] = va /\ V[b] = Big(Scale) /\ V[d] = vd /\ V[e] = Big(1)
      /\ Good(va) /\ Good(Big(Scale)) /\ Good(vd)
  BY <1>0, <1>b, <1>e, <1>4 DEF GoodLeaf
<1>6. V[c] = Big(va.n * Scale)
  <2>1. V[c] = Big(V[a].n * V[b].n)
    BY <1>4, <1>5, BinaryValues DEF c
  <2> QED
    BY <1>5, <2>1 DEF Big
<1>n. va.n \in Nat /\ vd.n \in Nat
  BY DEF va, vd
<1>7. V[g] = Big(Denominator(vd.n))
  <2> DEFINE args == <<vd, Big(1)>>
             ns == {args[i].n : i \in DOMAIN args}
  <2>1. V[g] = NodeValue(g, args, env)
    BY <1>4, <1>5, <1>g
  <2>2. NodeValue(g, args, env) = Reduce("max", args)
    BY <1>5 DEF NodeValue, Good, Big
  <2>3. Reduce("max", args) = Big(CHOOSE m \in ns : \A n \in ns : n <= m)
    BY DEF Reduce
  <2>4. ns = {vd.n, 1}
    BY DEF Big
  <2> HIDE DEF ns
  <2>5. \A m \in ns : (\A n \in ns : n <= m) <=> m = Denominator(vd.n)
    BY <1>n, <2>4 DEF Denominator
  <2>6. Denominator(vd.n) \in ns
    BY <1>n, <2>4 DEF Denominator
  <2>7. (CHOOSE m \in ns : \A n \in ns : n <= m) = Denominator(vd.n)
    BY <2>5, <2>6
  <2> QED
    BY <2>1, <2>2, <2>3, <2>7
<1>8. va.n * Scale \in Nat /\ Denominator(vd.n) \in Nat \ {0}
  BY <1>n, FactsAssumption DEF Denominator
<1>9. V[h] = Big(TruncDiv(va.n * Scale, Denominator(vd.n)))
  <2> DEFINE top == va.n * Scale
             low == Denominator(vd.n)
  <2>1. V[c] = Big(top) /\ V[g] = Big(low) /\ top \in Int /\ low \in Int /\ low # 0
    BY <1>6, <1>7, <1>8
  <2> HIDE DEF top, low
  <2>2. Good(V[c]) /\ V[c].n = top /\ Good(V[g]) /\ V[g].n = low
    BY <2>1, GoodValues
  <2>3. V[h] = Big(TruncDiv(V[c].n, V[g].n))
    <3> HIDE DEF g
    <3> QED
      BY <1>4, <2>1, <2>2, BinaryValues DEF h
  <2> QED
    BY <2>2, <2>3 DEF top, low
<1>10. TruncDiv(va.n * Scale, Denominator(vd.n)) = (va.n * Scale) \div Denominator(vd.n)
  BY <1>8, TruncOfNaturals
<1> QED
  BY <1>2, <1>9, <1>10 DEF stmt, va, vd

\* safe = utilization < private.maxUtilization && isFresh;
LEMMA SafeValue ==
  ASSUME NEW env, GoodIn(env.facts, {"isFresh"}), GoodIn(env.privates, {"maxUtilization"}),
         GoodIn(env.vars, {"utilization"})
  PROVE  LET v == EvalNode(SafeStatement, env)
         IN  Good(v) /\ (AsBool(v) <=> /\ env.vars["utilization"].n < env.privates["maxUtilization"].n
                                       /\ AsBool(env.facts["isFresh"]))
<1> DEFINE stmt == SafeStatement
           V == NodeValues(stmt, env)
           a == FactNode("isFresh")
           b == VariableNode("utilization")
           c == PrivateNode("maxUtilization")
           d == BinaryNode("<", b, c)
           e == BinaryNode("&&", d, a)
           va == env.facts["isFresh"]
           vb == env.vars["utilization"]
           vc == env.privates["maxUtilization"]
<1>1. stmt.nodes = {a, b, c, d, e} /\ stmt.expr = e
  BY DEF SafeStatement, Assign
<1>2. EvalNode(stmt, env) = V[e]
  BY <1>1 DEF EvalNode
<1>0. GoodLeaf(a, va, env) /\ GoodLeaf(b, vb, env) /\ GoodLeaf(c, vc, env)
  BY FactLeaf, PrivateLeaf, VariableLeaf
<1> HIDE DEF stmt, a, b, c, va, vb, vc
<1>3. Ranked(stmt)
  <2>a. /\ NodeRank(a) = 0 /\ Operands(a) = <<>> /\ NodeRank(b) = 0 /\ Operands(b) = <<>>
        /\ NodeRank(c) = 0 /\ Operands(c) = <<>>
    BY <1>0 DEF GoodLeaf
  <2>d. NodeRank(d) = 1 /\ Operands(d) = <<b, c>>
    BY NodeShapes
  <2> HIDE DEF d
  <2>e. NodeRank(e) = 3 /\ Operands(e) = <<d, a>>
    BY NodeShapes
  <2> HIDE DEF e
  <2>1. /\ NodeRank(a) \in 0..3 /\ NodeRank(b) \in 0..3 /\ NodeRank(c) \in 0..3
        /\ NodeRank(d) \in 0..3 /\ NodeRank(e) \in 0..3
    BY <2>a, <2>d, <2>e
  <2>2. Below(a, stmt.nodes) /\ Below(b, stmt.nodes) /\ Below(c, stmt.nodes)
    BY <2>a, LeafBelow
  <2>3. Below(d, stmt.nodes)
    BY <1>1, <2>a, <2>d, PairBelow
  <2>4. Below(e, stmt.nodes)
    BY <1>1, <2>a, <2>d, <2>e, PairBelow
  <2>5. \A node \in stmt.nodes : NodeRank(node) \in 0..3 /\ Below(node, stmt.nodes)
    BY <1>1, <2>1, <2>2, <2>3, <2>4
  <2> QED
    BY <2>5, RankedByBelow
<1> HIDE DEF d, e
<1>4. \A n \in {a, b, c, d, e} : V[n] = ValueUnder(n, V, env)
  BY <1>1, <1>3, NodesHaveValues
<1> HIDE DEF V
<1>5. V[a] = va /\ V[b] = vb /\ V[c] = vc /\ Good(va) /\ Good(vb) /\ Good(vc)
  BY <1>0, <1>4 DEF GoodLeaf
<1>6. Good(V[d]) /\ (AsBool(V[d]) <=> vb.n < vc.n)
  <2>1. V[d] = Bool(vb.n < vc.n)
    BY <1>4, <1>5, BinaryValues DEF d
  <2>2. (vb.n < vc.n) \in BOOLEAN
    OBVIOUS
  <2> QED
    BY <2>1, <2>2, GoodValues
<1>7. Good(V[e]) /\ (AsBool(V[e]) <=> AsBool(V[d]) /\ AsBool(va))
  <2>1. V[e] = Bool(AsBool(V[d]) /\ AsBool(va))
    BY <1>4, <1>5, <1>6, BinaryValues DEF e
  <2>2. (AsBool(V[d]) /\ AsBool(va)) \in BOOLEAN
    OBVIOUS
  <2> QED
    BY <2>1, <2>2, GoodValues
<1> QED
  BY <1>2, <1>6, <1>7 DEF stmt, va, vb, vc

-----------------------------------------------------------------------------
(* The statement loop on the recipes.                                      *)

\* The loop's state after each of the first four statements.
NoOutput == [ok |-> TRUE, vars |-> <<>>]
After1(ast, facts, inputs) == NextOutput(ast[1], NoOutput, facts, inputs)
After2(ast, facts, inputs) == NextOutput(ast[2], After1(ast, facts, inputs), facts, inputs)
After3(ast, facts, inputs) == NextOutput(ast[3], After2(ast, facts, inputs), facts, inputs)
After4(ast, facts, inputs) == NextOutput(ast[4], After3(ast, facts, inputs), facts, inputs)

\* The outputs of a program of up to four statements, statement by statement.
LEMMA RunOutputs ==
  ASSUME NEW ast, NEW facts, NEW inputs, Len(ast) \in 1..4
  PROVE  /\ Len(ast) = 1 => Outputs(ast, facts, inputs) = After1(ast, facts, inputs)
         /\ Len(ast) = 2 => Outputs(ast, facts, inputs) = After2(ast, facts, inputs)
         /\ Len(ast) = 3 => Outputs(ast, facts, inputs) = After3(ast, facts, inputs)
         /\ Len(ast) = 4 => Outputs(ast, facts, inputs) = After4(ast, facts, inputs)
<1>n. PICK n \in 1..4 : Len(ast) = n
  OBVIOUS
<1> DEFINE Turn(f) == [i \in 0..n |-> IF i = 0 THEN [ok |-> TRUE, vars |-> <<>>]
                                      ELSE NextOutput(ast[i], f[i - 1], facts, inputs)]
           s1 == After1(ast, facts, inputs)
           s2 == After2(ast, facts, inputs)
           s3 == After3(ast, facts, inputs)
           s4 == After4(ast, facts, inputs)
           StepAt(i) == IF i = 0 THEN NoOutput ELSE IF i = 1 THEN s1 ELSE IF i = 2 THEN s2
                    ELSE IF i = 3 THEN s3 ELSE s4
           g == [i \in 0..n |-> StepAt(i)]
           Run == CHOOSE f : f = Turn(f)
<1>0. /\ s1 = NextOutput(ast[1], NoOutput, facts, inputs)
      /\ s2 = NextOutput(ast[2], s1, facts, inputs)
      /\ s3 = NextOutput(ast[3], s2, facts, inputs)
      /\ s4 = NextOutput(ast[4], s3, facts, inputs)
  BY DEF After1, After2, After3, After4
<1> HIDE DEF s1, s2, s3, s4
<1>1. Outputs(ast, facts, inputs) = Run[n]
  BY <1>n DEF Outputs
<1>2. g = Turn(g)
  <2>1. \A i \in 0..n : StepAt(i) = IF i = 0 THEN NoOutput
                                ELSE NextOutput(ast[i], StepAt(i - 1), facts, inputs)
    <3> TAKE i \in 0..n
    <3>1. i = 0 \/ i = 1 \/ i = 2 \/ i = 3 \/ i = 4
      OBVIOUS
    <3> QED
      BY <1>0, <3>1
  <2>2. \A i \in 0..n : i # 0 => g[i - 1] = StepAt(i - 1)
    OBVIOUS
  <2> HIDE DEF At
  <2>3. \A i \in 0..n : g[i] = Turn(g)[i]
    BY <2>1, <2>2 DEF NoOutput
  <2> QED
    BY <2>3
<1> HIDE DEF Turn, g
<1>3. Run = Turn(Run)
  BY <1>2
<1> HIDE DEF Run
<1>a. \A i \in 0..n : Run[i] = IF i = 0 THEN NoOutput
                               ELSE NextOutput(ast[i], Run[i - 1], facts, inputs)
  <2> TAKE i \in 0..n
  <2>1. Turn(Run)[i] = IF i = 0 THEN NoOutput ELSE NextOutput(ast[i], Run[i - 1], facts, inputs)
    BY DEF Turn, NoOutput
  <2>2. Run[i] = Turn(Run)[i]
    BY <1>3, Zenon
  <2> QED
    BY <2>1, <2>2, Zenon
<1>4. Run[0] = NoOutput
  BY <1>a
<1>5. Run[1] = s1
  BY <1>0, <1>4, <1>a
<1>6. n >= 2 => Run[2] = s2
  BY <1>0, <1>5, <1>a
<1>7. n >= 3 => Run[3] = s3
  BY <1>0, <1>6, <1>a
<1>8. n >= 4 => Run[4] = s4
  BY <1>0, <1>7, <1>a
<1>9. n = 1 \/ n = 2 \/ n = 3 \/ n = 4
  OBVIOUS
<1> QED
  BY <1>n, <1>1, <1>5, <1>6, <1>7, <1>8, <1>9 DEF s1, s2, s3, s4

\* A statement with a number adds an output.
LEMMA TurnAdds ==
  ASSUME NEW stmt, NEW vars, NEW facts, NEW inputs, NEW v,
         v = EvalNode(stmt, [facts |-> facts, privates |-> inputs, vars |-> vars]), Good(v)
  PROVE  NextOutput(stmt, [ok |-> TRUE, vars |-> vars], facts, inputs)
           = [ok |-> TRUE, vars |-> With(vars, stmt.name, v)]
  BY DEF NextOutput, Good

\* A run that has decided.
Decides(run, name, verdict) ==
  /\ run.ok = TRUE /\ name \in DOMAIN run.vars /\ Good(run.vars[name])
  /\ AsBool(run.vars[name]) <=> verdict

\* The tree of the Blend policy decides utilisation and freshness,
LEMMA BlendDecides ==
  ASSUME NEW facts, NEW given,
         GoodIn(facts, {"totalBorrowed", "totalSupplied", "isFresh"}),
         facts["totalBorrowed"].n \in Nat, facts["totalSupplied"].n \in Nat,
         GoodIn(given, {"maxUtilization"})
  PROVE  Decides(Outputs(Tree["blend"].ast, facts, given), "safe",
                 /\ (facts["totalBorrowed"].n * Scale) \div Denominator(facts["totalSupplied"].n)
                      < given["maxUtilization"].n
                 /\ AsBool(facts["isFresh"]))
<1> DEFINE ast == Tree["blend"].ast
           env(vars) == [facts |-> facts, privates |-> given, vars |-> vars]
           u == (facts["totalBorrowed"].n * Scale) \div Denominator(facts["totalSupplied"].n)
           v1 == EvalNode(UtilizationStatement, env(<<>>))
           vars1 == With(<<>>, "utilization", v1)
           v2 == EvalNode(SafeStatement, env(vars1))
           vars2 == With(vars1, "safe", v2)
           s1 == [ok |-> TRUE, vars |-> vars1]
           s2 == [ok |-> TRUE, vars |-> vars2]
<1>1. ast = <<UtilizationStatement, SafeStatement>>
  BY DEF Tree
<1>2. UtilizationStatement.name = "utilization" /\ SafeStatement.name = "safe"
  BY DEF UtilizationStatement, SafeStatement, Assign
<1>3. v1 = Big(u) /\ Good(v1)
  <2>1. v1 = Big(u)
    <3>1. GoodIn(env(<<>>).facts, {"totalBorrowed", "totalSupplied"})
      BY DEF GoodIn
    <3>2. env(<<>>).facts = facts
      OBVIOUS
    <3> QED
      BY <3>1, <3>2, UtilizationValue
  <2>2. u \in Int
    <3>1. facts["totalBorrowed"].n * Scale \in Nat /\ Denominator(facts["totalSupplied"].n) \in Nat \ {0}
      BY FactsAssumption DEF Denominator
    <3> QED
      BY <3>1, TruncOfNaturals
  <2> HIDE DEF u, v1
  <2> QED
    BY <2>1, <2>2, GoodValues
<1>u. v1.n = u
  <2> HIDE DEF u, v1
  <2> QED
    BY <1>3 DEF Big
<1> HIDE DEF v1
<1>4. After1(ast, facts, given) = s1
  <2> HIDE DEF u
  <2> QED
    BY <1>1, <1>2, <1>3, TurnAdds DEF v1, After1, NoOutput
<1>5. GoodIn(vars1, {"utilization"}) /\ vars1["utilization"] = v1
  <2> HIDE DEF u
  <2>1. "utilization" \in DOMAIN vars1 /\ vars1["utilization"] = v1
    BY DEF With
  <2> HIDE DEF vars1
  <2> QED
    BY <1>3, <2>1 DEF GoodIn
<1> HIDE DEF vars1
<1>6. Good(v2) /\ (AsBool(v2) <=> u < given["maxUtilization"].n /\ AsBool(facts["isFresh"]))
  <2>1. GoodIn(facts, {"isFresh"})
    BY DEF GoodIn
  <2>2. env(vars1).facts = facts /\ env(vars1).privates = given /\ env(vars1).vars = vars1
    OBVIOUS
  <2> HIDE DEF u, env
  <2> QED
    BY <1>5, <1>u, <2>1, <2>2, SafeValue
<1> HIDE DEF u, v2
<1>7. After2(ast, facts, given) = s2
  BY <1>1, <1>2, <1>4, <1>6, TurnAdds DEF v2, After2
<1>8. Len(ast) = 2
  BY <1>1
<1> HIDE DEF ast, s1, s2
<1>9. Outputs(ast, facts, given) = s2
  <2>1. Len(ast) \in 1..4
    BY <1>8
  <2>2. Outputs(ast, facts, given) = After2(ast, facts, given)
    BY <1>8, <2>1, RunOutputs
  <2> QED
    BY <1>7, <2>2
<1>10. "safe" \in DOMAIN vars2 /\ vars2["safe"] = v2
  BY DEF With
<1> HIDE DEF vars2
<1> QED
  BY <1>6, <1>9, <1>10 DEF Decides, s2, ast, u

\* that of the Aquarius policy the output and the hops,
LEMMA AquariusDecides ==
  ASSUME NEW facts, NEW given, GoodIn(facts, {"estimatedOut", "routeHops"}), GoodIn(given, {"minOut"})
  PROVE  Decides(Outputs(Tree["aquarius"].ast, facts, given), "routeAcceptable",
                 facts["estimatedOut"].n >= given["minOut"].n /\ facts["routeHops"].n <= 4)
<1> DEFINE ast == Tree["aquarius"].ast
           env(vars) == [facts |-> facts, privates |-> given, vars |-> vars]
           stmt == RouteStatement("routeAcceptable", "minOut")
           v1 == EvalNode(stmt, env(<<>>))
           vars1 == With(<<>>, "routeAcceptable", v1)
           s1 == [ok |-> TRUE, vars |-> vars1]
           verdict == facts["estimatedOut"].n >= given["minOut"].n /\ facts["routeHops"].n <= 4
<1>1. ast = <<stmt>> /\ Len(ast) = 1 /\ ast[1] = stmt
  BY DEF Tree
<1>2. stmt.name = "routeAcceptable"
  BY DEF RouteStatement, Assign
<1> HIDE DEF stmt
<1>3. Good(v1) /\ (AsBool(v1) <=> verdict)
  <2>1. env(<<>>).facts = facts /\ env(<<>>).privates = given
    OBVIOUS
  <2> HIDE DEF env
  <2> QED
    BY <2>1, RouteValue DEF stmt
<1> HIDE DEF v1, verdict, ast
<1>4. After1(ast, facts, given) = s1
  BY <1>1, <1>2, <1>3, TurnAdds DEF v1, After1, NoOutput
<1> HIDE DEF s1
<1>5. Outputs(ast, facts, given) = s1
  <2>1. Len(ast) \in 1..4
    BY <1>1
  <2>2. Outputs(ast, facts, given) = After1(ast, facts, given)
    BY <1>1, <2>1, RunOutputs
  <2> QED
    BY <1>4, <2>2
<1>6. "routeAcceptable" \in DOMAIN vars1 /\ vars1["routeAcceptable"] = v1
  BY DEF With
<1> HIDE DEF vars1
<1> QED
  BY <1>3, <1>5, <1>6 DEF Decides, s1, ast, verdict

\* Three outputs, the last of them the conjunction of the first fact or output
\* and one of two others.
LEMMA SdexDecides ==
  ASSUME NEW facts, NEW given,
         GoodIn(facts, {"pathEstimatedOut", "spreadBps", "pathAvailable"}),
         GoodIn(given, {"minReceive", "maxSpreadBps"})
  PROVE  Decides(Outputs(Tree["sdex"].ast, facts, given), "exitOk",
                 /\ AsBool(facts["pathAvailable"])
                 /\ \/ facts["pathEstimatedOut"].n >= given["minReceive"].n
                    \/ facts["spreadBps"].n <= given["maxSpreadBps"].n)
<1> DEFINE ast == Tree["sdex"].ast
           env(vars) == [facts |-> facts, privates |-> given, vars |-> vars]
           t1 == CompareStatement("pathOk", ">=", "pathEstimatedOut", PrivateNode("minReceive"))
           t2 == CompareStatement("spreadOk", "<=", "spreadBps", PrivateNode("maxSpreadBps"))
           t3 == EitherStatement("exitOk", FactNode("pathAvailable"), VariableNode("pathOk"),
                                 VariableNode("spreadOk"))
           v1 == EvalNode(t1, env(<<>>))
           vars1 == With(<<>>, "pathOk", v1)
           v2 == EvalNode(t2, env(vars1))
           vars2 == With(vars1, "spreadOk", v2)
           v3 == EvalNode(t3, env(vars2))
           vars3 == With(vars2, "exitOk", v3)
           s1 == [ok |-> TRUE, vars |-> vars1]
           s2 == [ok |-> TRUE, vars |-> vars2]
           s3 == [ok |-> TRUE, vars |-> vars3]
           verdict == /\ AsBool(facts["pathAvailable"])
                      /\ \/ facts["pathEstimatedOut"].n >= given["minReceive"].n
                         \/ facts["spreadBps"].n <= given["maxSpreadBps"].n
<1>1. Len(ast) = 3 /\ ast[1] = t1 /\ ast[2] = t2 /\ ast[3] = t3
  BY DEF Tree
<1>2. t1.name = "pathOk" /\ t2.name = "spreadOk" /\ t3.name = "exitOk"
  BY DEF CompareStatement, EitherStatement, Assign
<1>e. ASSUME NEW vars
      PROVE  env(vars).facts = facts /\ env(vars).privates = given /\ env(vars).vars = vars
  OBVIOUS
<1>g. /\ GoodIn(facts, {"pathEstimatedOut"}) /\ GoodIn(facts, {"spreadBps"})
      /\ GoodIn(facts, {"pathAvailable"})
      /\ GoodIn(given, {"minReceive"}) /\ GoodIn(given, {"maxSpreadBps"})
  BY DEF GoodIn
<1> HIDE DEF env, ast
<1>3. Good(v1) /\ (AsBool(v1) <=> facts["pathEstimatedOut"].n >= given["minReceive"].n)
  <2>1. env(<<>>).facts = facts /\ env(<<>>).privates = given
    BY <1>e
  <2> DEFINE here == env(<<>>)
             path == "pathEstimatedOut"
             bound == "minReceive"
  <2> HIDE DEF here, path, bound
  <2>2. GoodIn(here.facts, {path}) /\ GoodIn(here.privates, {bound})
    BY <1>g, <2>1 DEF here, path, bound
  <2>3. LET v == EvalNode(CompareStatement("pathOk", ">=", path, PrivateNode(bound)), here)
        IN  Good(v) /\ (AsBool(v) <=> here.facts[path].n >= here.privates[bound].n)
    BY <2>2, CompareValue
  <2> QED
    BY <2>1, <2>3 DEF here, path, bound
<1>4. Good(v2) /\ (AsBool(v2) <=> facts["spreadBps"].n <= given["maxSpreadBps"].n)
  <2>1. env(vars1).facts = facts /\ env(vars1).privates = given
    BY <1>e
  <2> DEFINE here == env(vars1)
             path == "spreadBps"
             bound == "maxSpreadBps"
  <2> HIDE DEF here, path, bound
  <2>2. GoodIn(here.facts, {path}) /\ GoodIn(here.privates, {bound})
    BY <1>g, <2>1 DEF here, path, bound
  <2>3. LET v == EvalNode(CompareStatement("spreadOk", "<=", path, PrivateNode(bound)), here)
        IN  Good(v) /\ (AsBool(v) <=> here.facts[path].n <= here.privates[bound].n)
    BY <2>2, CompareValue
  <2> QED
    BY <2>1, <2>3 DEF here, path, bound
<1> HIDE DEF t1, t2
<1>5. After1(ast, facts, given) = s1
  <2>1. Good(EvalNode(t1, [facts |-> facts, privates |-> given, vars |-> <<>>]))
    BY <1>3 DEF env
  <2>2. NextOutput(t1, [ok |-> TRUE, vars |-> <<>>], facts, given) = s1
    BY <1>2, <2>1, TurnAdds DEF env
  <2> HIDE DEF s1
  <2> QED
    BY <1>1, <2>2 DEF After1, NoOutput
<1> HIDE DEF v1
<1>6. After2(ast, facts, given) = s2
  <2>1. Good(EvalNode(t2, [facts |-> facts, privates |-> given, vars |-> vars1]))
    BY <1>4 DEF env
  <2>2. NextOutput(t2, s1, facts, given) = s2
    <3> HIDE DEF vars1
    <3> QED
      BY <1>2, <2>1, TurnAdds DEF env
  <2> HIDE DEF s1, s2
  <2> QED
    BY <1>1, <1>5, <2>2 DEF After2
<1>7. /\ vars2["pathOk"] = v1 /\ vars2["spreadOk"] = v2
      /\ "pathOk" \in DOMAIN vars2 /\ "spreadOk" \in DOMAIN vars2
  <2> HIDE DEF v2
  <2> QED
    BY DEF With
<1> HIDE DEF v2, vars2
<1>8. Good(v3) /\ (AsBool(v3) <=> verdict)
  <2>1. GoodIn(vars2, {"pathOk"}) /\ GoodIn(vars2, {"spreadOk"})
    BY <1>3, <1>4, <1>7 DEF GoodIn
  <2>2. /\ GoodLeaf(FactNode("pathAvailable"), facts["pathAvailable"], env(vars2))
        /\ GoodLeaf(VariableNode("pathOk"), v1, env(vars2))
        /\ GoodLeaf(VariableNode("spreadOk"), v2, env(vars2))
    <3>1. GoodLeaf(FactNode("pathAvailable"), env(vars2).facts["pathAvailable"], env(vars2))
      BY <1>e, <1>g, FactLeaf
    <3>2. /\ GoodLeaf(VariableNode("pathOk"), env(vars2).vars["pathOk"], env(vars2))
          /\ GoodLeaf(VariableNode("spreadOk"), env(vars2).vars["spreadOk"], env(vars2))
      BY <1>e, <2>1, VariableLeaf
    <3> QED
      BY <1>e, <1>7, <3>1, <3>2
  <2>3. Good(v3) /\ (AsBool(v3) <=> AsBool(facts["pathAvailable"]) /\ (AsBool(v1) \/ AsBool(v2)))
    BY <2>2, EitherValue
  <2> QED
    BY <1>3, <1>4, <2>3
<1> HIDE DEF t3
<1>9. After3(ast, facts, given) = s3
  <2>1. Good(EvalNode(t3, [facts |-> facts, privates |-> given, vars |-> vars2]))
    BY <1>8 DEF env
  <2>2. NextOutput(t3, s2, facts, given) = s3
    BY <1>2, <2>1, TurnAdds DEF env
  <2> HIDE DEF s2, s3
  <2> QED
    BY <1>1, <1>6, <2>2 DEF After3
<1> HIDE DEF v3, verdict
<1>10. "exitOk" \in DOMAIN vars3 /\ vars3["exitOk"] = v3
  BY DEF With
<1> HIDE DEF vars3
<1>11. Outputs(ast, facts, given) = s3
  <2> HIDE DEF s3
  <2>1. Len(ast) \in 1..4
    BY <1>1
  <2>2. Outputs(ast, facts, given) = After3(ast, facts, given)
    BY <1>1, <2>1, RunOutputs
  <2> QED
    BY <1>9, <2>2
<1> QED
  BY <1>8, <1>10, <1>11 DEF Decides, ast, verdict

\* and that of the composite policy its five conditions.
LEMMA CompositeDecides ==
  ASSUME NEW facts, NEW given,
         GoodIn(facts, {"healthAfterAction", "estimatedOut", "routeHops", "pathAvailable",
                        "pathEstimatedOut"}),
         GoodIn(given, {"minHealth", "minReceive"})
  PROVE  Decides(Outputs(Tree["composite"].ast, facts, given), "allowed",
                 /\ facts["healthAfterAction"].n > given["minHealth"].n
                 /\ \/ facts["estimatedOut"].n >= given["minReceive"].n /\ facts["routeHops"].n <= 4
                    \/ /\ AsBool(facts["pathAvailable"])
                       /\ facts["pathEstimatedOut"].n >= given["minReceive"].n)
<1> DEFINE ast == Tree["composite"].ast
           env(vars) == [facts |-> facts, privates |-> given, vars |-> vars]
           t1 == CompareStatement("blendSafe", ">", "healthAfterAction", PrivateNode("minHealth"))
           t2 == RouteStatement("aquaExit", "minReceive")
           t3 == SdexExitStatement
           t4 == EitherStatement("allowed", VariableNode("blendSafe"), VariableNode("aquaExit"),
                                 VariableNode("sdexExit"))
           v1 == EvalNode(t1, env(<<>>))
           vars1 == With(<<>>, "blendSafe", v1)
           v2 == EvalNode(t2, env(vars1))
           vars2 == With(vars1, "aquaExit", v2)
           v3 == EvalNode(t3, env(vars2))
           vars3 == With(vars2, "sdexExit", v3)
           v4 == EvalNode(t4, env(vars3))
           vars4 == With(vars3, "allowed", v4)
           s1 == [ok |-> TRUE, vars |-> vars1]
           s2 == [ok |-> TRUE, vars |-> vars2]
           s3 == [ok |-> TRUE, vars |-> vars3]
           s4 == [ok |-> TRUE, vars |-> vars4]
           healthy == facts["healthAfterAction"].n > given["minHealth"].n
           aqua == facts["estimatedOut"].n >= given["minReceive"].n /\ facts["routeHops"].n <= 4
           sdex == /\ AsBool(facts["pathAvailable"])
                   /\ facts["pathEstimatedOut"].n >= given["minReceive"].n
<1>1. Len(ast) = 4 /\ ast[1] = t1 /\ ast[2] = t2 /\ ast[3] = t3 /\ ast[4] = t4
  BY DEF Tree
<1>2. t1.name = "blendSafe" /\ t2.name = "aquaExit" /\ t3.name = "sdexExit" /\ t4.name = "allowed"
  BY DEF CompareStatement, RouteStatement, SdexExitStatement, EitherStatement, Assign
<1>e. ASSUME NEW vars
      PROVE  env(vars).facts = facts /\ env(vars).privates = given /\ env(vars).vars = vars
  OBVIOUS
<1>g. /\ GoodIn(facts, {"healthAfterAction"}) /\ GoodIn(given, {"minHealth"})
      /\ GoodIn(facts, {"estimatedOut", "routeHops"}) /\ GoodIn(given, {"minReceive"})
      /\ GoodIn(facts, {"pathAvailable", "pathEstimatedOut"})
  BY DEF GoodIn
<1> HIDE DEF env, ast
<1>3. Good(v1) /\ (AsBool(v1) <=> healthy)
  <2>1. env(<<>>).facts = facts /\ env(<<>>).privates = given
    BY <1>e
  <2> DEFINE here == env(<<>>)
             path == "healthAfterAction"
             bound == "minHealth"
  <2> HIDE DEF here, path, bound
  <2>2. GoodIn(here.facts, {path}) /\ GoodIn(here.privates, {bound})
    BY <1>g, <2>1 DEF here, path, bound
  <2>3. LET v == EvalNode(CompareStatement("blendSafe", ">", path, PrivateNode(bound)), here)
        IN  Good(v) /\ (AsBool(v) <=> here.facts[path].n > here.privates[bound].n)
    BY <2>2, CompareValue
  <2> QED
    BY <2>1, <2>3 DEF here, path, bound
<1>4. Good(v2) /\ (AsBool(v2) <=> aqua)
  <2>1. env(vars1).facts = facts /\ env(vars1).privates = given
    BY <1>e
  <2> DEFINE here == env(vars1)
             bound == "minReceive"
  <2> HIDE DEF here, bound
  <2>2. GoodIn(here.facts, {"estimatedOut", "routeHops"}) /\ GoodIn(here.privates, {bound})
    BY <1>g, <2>1 DEF here, bound
  <2>3. LET v == EvalNode(RouteStatement("aquaExit", bound), here)
        IN  Good(v) /\ (AsBool(v) <=> /\ here.facts["estimatedOut"].n >= here.privates[bound].n
                                      /\ here.facts["routeHops"].n <= 4)
    BY <2>2, RouteValue
  <2> QED
    BY <2>1, <2>3 DEF here, bound
<1>5. Good(v3) /\ (AsBool(v3) <=> sdex)
  <2>1. env(vars2).facts = facts /\ env(vars2).privates = given
    BY <1>e
  <2> DEFINE here == env(vars2)
  <2> HIDE DEF here
  <2>2. GoodIn(here.facts, {"pathAvailable", "pathEstimatedOut"}) /\ GoodIn(here.privates, {"minReceive"})
    BY <1>g, <2>1 DEF here
  <2>3. LET v == EvalNode(SdexExitStatement, here)
        IN  Good(v) /\ (AsBool(v) <=> /\ AsBool(here.facts["pathAvailable"])
                                      /\ here.facts["pathEstimatedOut"].n >= here.privates["minReceive"].n)
    BY <2>2, SdexExitValue
  <2> QED
    BY <2>1, <2>3 DEF here
<1> HIDE DEF t1, t2, t3, healthy, aqua, sdex
<1>6. After1(ast, facts, given) = s1
  <2>1. Good(EvalNode(t1, [facts |-> facts, privates |-> given, vars |-> <<>>]))
    BY <1>3 DEF env
  <2>2. NextOutput(t1, [ok |-> TRUE, vars |-> <<>>], facts, given) = s1
    BY <1>2, <2>1, TurnAdds DEF env
  <2> HIDE DEF s1
  <2> QED
    BY <1>1, <2>2 DEF After1, NoOutput
<1> HIDE DEF v1
<1>7. After2(ast, facts, given) = s2
  <2>1. Good(EvalNode(t2, [facts |-> facts, privates |-> given, vars |-> vars1]))
    BY <1>4 DEF env
  <2>2. NextOutput(t2, s1, facts, given) = s2
    <3> HIDE DEF vars1
    <3> QED
      BY <1>2, <2>1, TurnAdds DEF env
  <2> HIDE DEF s1, s2
  <2> QED
    BY <1>1, <1>6, <2>2 DEF After2
<1> HIDE DEF v2
<1>8. After3(ast, facts, given) = s3
  <2>1. Good(EvalNode(t3, [facts |-> facts, privates |-> given, vars |-> vars2]))
    BY <1>5 DEF env
  <2>2. NextOutput(t3, s2, facts, given) = s3
    <3> HIDE DEF vars2
    <3> QED
      BY <1>2, <2>1, TurnAdds DEF env
  <2> HIDE DEF s2, s3
  <2> QED
    BY <1>1, <1>7, <2>2 DEF After3
<1> HIDE DEF v3
<1>9. /\ vars3["blendSafe"] = v1 /\ vars3["aquaExit"] = v2 /\ vars3["sdexExit"] = v3
      /\ {"blendSafe", "aquaExit", "sdexExit"} \subseteq DOMAIN vars3
  BY DEF With
<1> HIDE DEF vars3
<1>10. Good(v4) /\ (AsBool(v4) <=> healthy /\ (aqua \/ sdex))
  <2>1. GoodIn(vars3, {"blendSafe"}) /\ GoodIn(vars3, {"aquaExit"}) /\ GoodIn(vars3, {"sdexExit"})
    BY <1>3, <1>4, <1>5, <1>9 DEF GoodIn
  <2>2. /\ GoodLeaf(VariableNode("blendSafe"), v1, env(vars3))
        /\ GoodLeaf(VariableNode("aquaExit"), v2, env(vars3))
        /\ GoodLeaf(VariableNode("sdexExit"), v3, env(vars3))
    <3>1. /\ GoodLeaf(VariableNode("blendSafe"), env(vars3).vars["blendSafe"], env(vars3))
          /\ GoodLeaf(VariableNode("aquaExit"), env(vars3).vars["aquaExit"], env(vars3))
          /\ GoodLeaf(VariableNode("sdexExit"), env(vars3).vars["sdexExit"], env(vars3))
      BY <1>e, <2>1, VariableLeaf
    <3> QED
      BY <1>e, <1>9, <3>1
  <2>3. Good(v4) /\ (AsBool(v4) <=> AsBool(v1) /\ (AsBool(v2) \/ AsBool(v3)))
    BY <2>2, EitherValue
  <2> QED
    BY <1>3, <1>4, <1>5, <2>3
<1> HIDE DEF t4
<1>11. After4(ast, facts, given) = s4
  <2>1. Good(EvalNode(t4, [facts |-> facts, privates |-> given, vars |-> vars3]))
    BY <1>10 DEF env
  <2>2. NextOutput(t4, s3, facts, given) = s4
    BY <1>2, <2>1, TurnAdds DEF env
  <2> HIDE DEF s3, s4
  <2> QED
    BY <1>1, <1>8, <2>2 DEF After4
<1> HIDE DEF v4
<1>12. "allowed" \in DOMAIN vars4 /\ vars4["allowed"] = v4
  BY DEF With
<1> HIDE DEF vars4
<1>13. Outputs(ast, facts, given) = s4
  <2> HIDE DEF s4
  <2>1. Len(ast) \in 1..4
    BY <1>1
  <2>2. Outputs(ast, facts, given) = After4(ast, facts, given)
    BY <1>1, <2>1, RunOutputs
  <2> QED
    BY <1>11, <2>2
<1>14. Decides(s4, "allowed", healthy /\ (aqua \/ sdex))
  BY <1>10, <1>12 DEF Decides
<1> HIDE DEF s4
<1> QED
  BY <1>13, <1>14, Zenon DEF ast, healthy, aqua, sdex

-----------------------------------------------------------------------------
(* A policy proof, stage by stage.                                         *)

LEMMA OnlyOne == ASSUME NEW x PROVE Only({x}) = x
  BY DEF Only

\* What a proof shows: the answers of the three translations.
Shown(recipe, c, e, w) ==
  [refused |-> FALSE, compiled |-> c, witness |-> w,
   evaluated |-> AsBool(e.revealed[Decision[recipe]]),
   reference |-> ReferenceEvaluate(recipe, w),
   proved |-> CircomRun(recipe, w).out]

\* The stages of proveComputeNoir, each of which refuses or goes on.
LEMMA ProveStages ==
  ASSUME NEW recipe, NEW intent, NEW capsule, NEW facts, NEW maxAge, NEW c, NEW e, NEW w,
         c = Compile(intent, facts),
         e = Evaluate(c, intent.privates, facts, maxAge),
         w = BuildWitness(recipe, capsule, facts, c.bound, intent.privates)
  PROVE  Prove(recipe, intent, capsule, facts, maxAge)
           = IF c.throws THEN Refused ELSE IF e.throws THEN Refused
             ELSE IF w.thrown \/ ~(ContextBound(w) /\ Included(w)) THEN Refused
             ELSE IF ~CircomRun(recipe, w).sat THEN Refused ELSE Shown(recipe, c, e, w)
<1> DEFINE Final(c1, e1, w1, run) ==
             IF ~run.sat THEN Refused
             ELSE [refused |-> FALSE, compiled |-> c1, witness |-> w1,
                   evaluated |-> AsBool(e1.revealed[Decision[recipe]]),
                   reference |-> ReferenceEvaluate(recipe, w1),
                   proved |-> run.out]
           Witnessed(c1, e1, w1) ==
             IF w1.thrown \/ ~(ContextBound(w1) /\ Included(w1)) THEN Refused
             ELSE Only({Final(c1, e1, w1, run) : run \in {CircomRun(recipe, w1)}})
           Evaluated(c1, e1) ==
             IF e1.throws THEN Refused
             ELSE Only({Witnessed(c1, e1, w1) :
                          w1 \in {BuildWitness(recipe, capsule, facts, c1.bound, intent.privates)}})
           Compiled(c1) ==
             IF c1.throws THEN Refused
             ELSE Only({Evaluated(c1, e1) : e1 \in {Evaluate(c1, intent.privates, facts, maxAge)}})
<1>1. Prove(recipe, intent, capsule, facts, maxAge) = Only({Compiled(c1) : c1 \in {Compile(intent, facts)}})
  BY DEF Prove
<1>2. Only({Compiled(c1) : c1 \in {Compile(intent, facts)}}) = Compiled(c)
  <2> HIDE DEF Compiled
  <2>1. {Compiled(c1) : c1 \in {Compile(intent, facts)}} = {Compiled(c)}
    OBVIOUS
  <2> QED
    BY <2>1, OnlyOne
<1>3. Only({Evaluated(c, e1) : e1 \in {Evaluate(c, intent.privates, facts, maxAge)}}) = Evaluated(c, e)
  <2> HIDE DEF Evaluated
  <2>1. {Evaluated(c, e1) : e1 \in {Evaluate(c, intent.privates, facts, maxAge)}} = {Evaluated(c, e)}
    OBVIOUS
  <2> QED
    BY <2>1, OnlyOne
<1>4. Only({Witnessed(c, e, w1) :
              w1 \in {BuildWitness(recipe, capsule, facts, c.bound, intent.privates)}})
        = Witnessed(c, e, w)
  <2> HIDE DEF Witnessed
  <2>1. {Witnessed(c, e, w1) :
           w1 \in {BuildWitness(recipe, capsule, facts, c.bound, intent.privates)}} = {Witnessed(c, e, w)}
    OBVIOUS
  <2> QED
    BY <2>1, OnlyOne
<1> DEFINE last == CircomRun(recipe, w)
<1>5. Only({Final(c, e, w, run) : run \in {CircomRun(recipe, w)}}) = Final(c, e, w, last)
  <2> HIDE DEF Final
  <2>1. {Final(c, e, w, run) : run \in {CircomRun(recipe, w)}} = {Final(c, e, w, last)}
    OBVIOUS
  <2> QED
    BY <2>1, OnlyOne
<1>6. Final(c, e, w, last) = IF ~last.sat THEN Refused ELSE Shown(recipe, c, e, w)
  BY DEF Shown
<1> HIDE DEF Final
<1>7. Witnessed(c, e, w) = IF w.thrown \/ ~(ContextBound(w) /\ Included(w)) THEN Refused
                           ELSE Final(c, e, w, last)
  BY <1>5
<1> HIDE DEF Witnessed
<1>8. Evaluated(c, e) = IF e.throws THEN Refused ELSE Witnessed(c, e, w)
  BY <1>4
<1> HIDE DEF Evaluated
<1>9. Compiled(c) = IF c.throws THEN Refused ELSE Evaluated(c, e)
  BY <1>3
<1> HIDE DEF Compiled
<1> QED
  BY <1>1, <1>2, <1>6, <1>7, <1>8, <1>9

\* A fact path is bound to the first fact it selects.
LEMMA BindFirst ==
  ASSUME NEW path, NEW facts, NEW n \in Nat, DOMAIN facts = 1..n, Binds(path, facts)
  PROVE  /\ Bind(path, facts) \in 1..n /\ Selects(Selectors[path], BoundFact(path, facts))
         /\ BoundFact(path, facts).cites # {}
<1> DEFINE hits == {i \in DOMAIN facts : Selects(Selectors[path], facts[i])}
           first == CHOOSE j \in hits : \A k \in hits : j <= k
<1>1. Bind(path, facts) = IF hits = {} THEN 0 ELSE IF facts[first].cites # {} THEN first ELSE 0
  BY DEF Bind
<1>2. hits # {} /\ Bind(path, facts) = first /\ facts[first].cites # {}
  BY <1>1 DEF Binds
<1>3. hits \in SUBSET Nat
  OBVIOUS
<1>4. first \in hits
  <2> HIDE DEF hits
  <2> QED
    BY <1>2, <1>3, Minimum
<1> QED
  BY <1>2, <1>4 DEF BoundFact

\* With facts that cite a record, a path is bound if some fact has its selector.
LEMMA BindsSelected ==
  ASSUME NEW path, NEW facts, NEW n \in Nat, DOMAIN facts = 1..n, \A i \in 1..n : facts[i].cites # {}
  PROVE  Binds(path, facts) <=> \E i \in 1..n : Selects(Selectors[path], facts[i])
<1> DEFINE hits == {i \in DOMAIN facts : Selects(Selectors[path], facts[i])}
           first == CHOOSE j \in hits : \A k \in hits : j <= k
<1>1. Bind(path, facts) = IF hits = {} THEN 0 ELSE IF facts[first].cites # {} THEN first ELSE 0
  BY DEF Bind
<1>2. hits \in SUBSET Nat
  OBVIOUS
<1>3. hits # {} => first \in hits
  <2> HIDE DEF hits
  <2> QED
    BY <1>2, Minimum
<1>4. hits # {} => first \in 1..n /\ facts[first].cites # {}
  <2> HIDE DEF first
  <2> QED
    BY <1>3
<1>5. hits # {} <=> Binds(path, facts)
  <2> HIDE DEF hits, first
  <2> QED
    BY <1>1, <1>4 DEF Binds
<1> QED
  BY <1>5

-----------------------------------------------------------------------------
(* The values a recipe meets.                                              *)

RecipePaths == UNION {Tree[r].facts : r \in Recipes}
InputNames == UNION {DOMAIN Thresholds[r] : r \in Recipes}

\* What the adapters state of a fact path of the recipes.
FactRange(path) ==
  CASE path \in {"totalBorrowed", "totalSupplied"} -> Printed
    [] path = "isFresh" -> {Word("fresh"), Word("unknown")}
    [] path = "healthAfterAction" ->
         {Word("infinite")} \cup {Decimal(k) : k \in 0..(MaxAmount * Unit)}
    [] path = "estimatedOut" -> {Decimal(k * Unit) : k \in 0..(MaxAmount \div Unit)}
    [] path = "routeHops" -> {Decimal(Unit)}
    [] path = "pathAvailable" -> {Flag(TRUE), Flag(FALSE)}
    [] path = "pathEstimatedOut" -> Decimals
    [] path = "spreadBps" -> {Decimal(k * Unit) : k \in 0..(Span64 - 1)}

\* The numbers the evaluator makes of it.
NumberRange(path) ==
  CASE path \in {"totalBorrowed", "totalSupplied", "estimatedOut", "pathEstimatedOut"} ->
         0..(MaxAmount \div Unit)
    [] path \in {"isFresh", "pathAvailable"} -> 0..1
    [] path = "healthAfterAction" -> 0..(MaxAmount * Scale)
    [] path = "routeHops" -> {1}
    [] path = "spreadBps" -> 0..(Span64 - 1)

MaxBound == (MaxRatio * Scale) \div Unit
InputRange(name) ==
  CASE name \in {"maxUtilization", "minHealth"} -> 0..MaxBound
    [] name \in {"minOut", "minReceive"} -> 0..(MaxAmount \div Unit)
    [] name = "maxSpreadBps" -> 0..(Span64 - 2)

\* The facts and the private inputs the four recipes read.
LEMMA RecipeNames ==
  /\ RecipePaths = {"totalBorrowed", "totalSupplied", "isFresh", "healthAfterAction",
                    "estimatedOut", "routeHops", "pathAvailable", "pathEstimatedOut", "spreadBps"}
  /\ InputNames = {"maxUtilization", "minOut", "minReceive", "maxSpreadBps", "minHealth"}
<1>1. /\ Tree["blend"].facts = {"totalBorrowed", "totalSupplied", "isFresh"}
      /\ Tree["aquarius"].facts = {"estimatedOut", "routeHops"}
      /\ Tree["sdex"].facts = {"pathEstimatedOut", "spreadBps", "pathAvailable"}
      /\ Tree["composite"].facts = {"healthAfterAction", "estimatedOut", "routeHops", "pathAvailable",
                                    "pathEstimatedOut"}
  BY DEF Tree
<1>2. /\ DOMAIN Thresholds["blend"] = {"maxUtilization"}
      /\ DOMAIN Thresholds["aquarius"] = {"minOut"}
      /\ DOMAIN Thresholds["sdex"] = {"minReceive", "maxSpreadBps"}
      /\ DOMAIN Thresholds["composite"] = {"minHealth", "minReceive"}
  BY DEF Thresholds
<1> QED
  BY <1>1, <1>2 DEF RecipePaths, InputNames, Recipes

\* A quotient is monotone in its numerator and never above it.
LEMMA QuotientBounds ==
  ASSUME NEW a \in Nat, NEW b \in Nat, a <= b, NEW d \in Nat \ {0}
  PROVE  a \div d \in Nat /\ a \div d <= b \div d /\ a \div d <= a
<1> DEFINE p == a \div d
           q == b \div d
<1>1. p \in Nat /\ a = d * p + (a % d) /\ a % d \in 0..(d - 1)
  BY Z3
<1>2. q \in Nat /\ b = d * q + (b % d) /\ b % d \in 0..(d - 1)
  BY Z3
<1> DEFINE x == a % d
           y == b % d
<1>3. x \in 0..(d - 1) /\ y \in 0..(d - 1) /\ a = d * p + x /\ b = d * q + y
  BY <1>1, <1>2
<1> HIDE DEF p, q, x, y
<1>4. p <= q
  <2> SUFFICES ASSUME q < p PROVE FALSE
    BY <1>1, <1>2
  <2>1. PICK k \in Nat : p = q + 1 + k
    <3>1. p - q - 1 \in Nat
      BY <1>1, <1>2
    <3> QED
      BY <3>1, <1>1, <1>2
  <2>2. d * p = d * q + d + d * k
    BY <2>1, <1>2
  <2>3. d * k \in Nat /\ d * q \in Nat
    BY <2>1, <1>2
  <2> QED
    BY <1>3, <2>2, <2>3
<1>5. p <= a
  <2>1. p <= d * p
    <3>1. PICK k \in Nat : d = 1 + k
      <4>1. d - 1 \in Nat
        OBVIOUS
      <4> QED
        BY <4>1
    <3>2. d * p = p + k * p /\ k * p \in Nat
      BY <3>1, <1>1
    <3> QED
      BY <1>1, <3>2
  <2>2. d * p \in Nat
    BY <1>1
  <2> QED
    BY <1>1, <1>3, <2>1, <2>2
<1> QED
  BY <1>1, <1>4, <1>5 DEF p, q

\* A multiple of a divisor divides back exactly.
LEMMA MultipleDivides ==
  ASSUME NEW k \in Nat, NEW d \in Nat \ {0} PROVE k * d \in Nat /\ (k * d) \div d = k
<1> DEFINE a == k * d
           q == a \div d
<1>1. a \in Nat
  OBVIOUS
<1>2. q \in Nat /\ a = d * q + (a % d) /\ a % d \in 0..(d - 1)
  <2> HIDE DEF a
  <2> QED
    BY <1>1, Z3
<1> DEFINE x == a % d
<1> HIDE DEF q, x
<1>3. x \in 0..(d - 1) /\ k * d = d * q + x
  BY <1>2 DEF x
<1>4. q = k
  <2>1. CASE q < k
    <3>1. PICK j \in Nat : k = q + 1 + j
      <4>1. k - q - 1 \in Nat
        BY <1>2, <2>1
      <4> QED
        BY <4>1, <1>2
    <3>2. k * d = d * q + d + d * j /\ d * j \in Nat
      BY <3>1, <1>2
    <3> QED
      BY <1>2, <1>3, <3>2
  <2>2. CASE k < q
    <3>1. PICK j \in Nat : q = k + 1 + j
      <4>1. q - k - 1 \in Nat
        BY <1>2, <2>2
      <4> QED
        BY <4>1, <1>2
    <3>2. d * q = k * d + d + d * j /\ d * j \in Nat
      BY <3>1, <1>2
    <3> QED
      BY <1>2, <1>3, <3>2
  <2> QED
    BY <1>2, <2>1, <2>2
<1> QED
  BY <1>1, <1>4 DEF q

\* The field order is beyond every number the evaluator meets.
LEMMA RangesFit ==
  /\ MaxAmount \in Nat /\ MaxAmount * Scale \in Nat /\ MaxAmount * Scale + Scale < Span160
  /\ MaxAmount \div Unit \in Nat /\ MaxAmount \div Unit + 1 < Span160
  /\ MaxBound \in Nat /\ MaxBound * (MaxAmount \div Unit + 1) < Span160 /\ MaxBound < Span160
  /\ Span160 < P /\ Span64 < P /\ 1 < P
<1> DEFINE a == MaxAmount \div Unit
<1>1. MaxAmount \in Nat /\ MaxRatio \in Nat /\ Unit \in Nat \ {0} /\ Scale \in Nat \ {0}
  BY RangeAssumption, FactsAssumption
<1>2. a \in Nat /\ a <= MaxAmount
  BY <1>1, QuotientBounds
<1>3. /\ MaxAmount * Scale \in Nat /\ MaxAmount * Scale + Scale < Span160
      /\ MaxAmount + 1 < Span160
  BY <1>1, RangeAssumption
<1>4. MaxRatio * Scale \in Nat
  BY <1>1
<1>5. MaxBound \in Nat
  <2> DEFINE b == MaxRatio * Scale
  <2>1. b \in Nat /\ b <= b
    BY <1>4
  <2> HIDE DEF b
  <2>2. b \div Unit \in Nat
    BY <1>1, <2>1, QuotientBounds
  <2> QED
    BY <2>2 DEF MaxBound, b
<1>6. MaxBound * (a + 1) < Span160
  BY RangeAssumption DEF MaxBound
<1> HIDE DEF a
<1>7. MaxBound <= MaxBound * (a + 1)
  <2>1. MaxBound * (a + 1) = MaxBound * a + MaxBound /\ MaxBound * a \in Nat
    BY <1>2, <1>5
  <2> QED
    BY <1>5, <2>1
<1>8. MaxBound * (a + 1) \in Nat
  BY <1>2, <1>5
<1> QED
  BY <1>1, <1>2, <1>3, <1>5, <1>6, <1>7, <1>8, SpanAssumption, FactsAssumption DEF a

\* What a decimal is as an integer and as a fixed-point number.
LEMMA DecimalValues ==
  ASSUME NEW raw \in Nat
  PROVE  /\ Decimal(raw).raw = raw /\ IsDecimal(Decimal(raw)) /\ ~IsFlag(Decimal(raw))
         /\ ToIntBig(Decimal(raw)) = Big(raw \div Unit)
         /\ ToFixed(Decimal(raw)) = Big((raw * Scale) \div Unit)
         /\ raw \div Unit \in Nat /\ (raw * Scale) \div Unit \in Nat
<1>1. Decimal(raw).raw = raw /\ IsDecimal(Decimal(raw)) /\ ~IsFlag(Decimal(raw))
  BY DEF Decimal, IsDecimal, IsFlag
<1>2. TruncDiv(raw, Unit) = raw \div Unit /\ raw \div Unit \in Nat
  BY FactsAssumption, TruncOfNaturals
<1> DEFINE big == raw * Scale
<1>3. big \in Nat
  BY FactsAssumption
<1>4. TruncDiv(big, Unit) = big \div Unit /\ big \div Unit \in Nat
  <2> HIDE DEF big
  <2> QED
    BY <1>3, FactsAssumption, TruncOfNaturals
<1> QED
  BY <1>1, <1>2, <1>4 DEF ToIntBig, ToFixed

\* A value without digits, where a number is expected.
LEMMA WordValues ==
  ASSUME NEW w, w \notin {"number", "boolean"}
  PROVE  ToIntBig(Word(w)).throws /\ ToFixed(Word(w)).throws /\ ~IsFlag(Word(w))
  BY DEF ToIntBig, ToFixed, Word, IsDecimal, IsFlag, Throw

\* A number the evaluator meets, with the leaf of its fact.
Meets(path, fact) ==
  LET v == NormalizeFact(path, fact)
  IN  Good(v) /\ v.n \in NumberRange(path) /\ FactValueToFr(fact) = v.n

\* An integer fact in its range meets the circuit's slot,
LEMMA IntegerMeets ==
  ASSUME NEW path, NEW fact, NEW raw \in Nat, fact.value = Decimal(raw),
         TypeOf(path) \in {"u64", "u128"}, fact.field # "route.available",
         fact.field \notin FixedFields, raw \div Unit \in NumberRange(path), raw \div Unit < P
  PROVE  Meets(path, fact)
<1> DEFINE q == raw \div Unit
<1>1. q \in Nat /\ ToIntBig(Decimal(raw)) = Big(q) /\ IsDecimal(fact.value) /\ ~IsFlag(fact.value)
      /\ fact.value.raw = raw
  BY DecimalValues
<1>2. NormalizeFact(path, fact) = ToIntBig(fact.value)
  BY DEF NormalizeFact
<1>3. FactValueToFr(fact) = TruncDiv(raw, Unit) % P
  BY <1>1 DEF FactValueToFr, IsDecimal, IsFlag
<1>4. TruncDiv(raw, Unit) = q
  BY FactsAssumption, TruncOfNaturals
<1>5. q % P = q
  <2> HIDE DEF q
  <2> QED
    BY <1>1, FactsAssumption DEF q
<1>6. Good(Big(q)) /\ Big(q).n = q
  BY <1>1, GoodValues
<1> QED
  BY <1>1, <1>2, <1>3, <1>4, <1>5, <1>6 DEF Meets

\* and so does a fixed-point fact.
LEMMA FixedMeets ==
  ASSUME NEW path, NEW fact, NEW raw \in Nat, fact.value = Decimal(raw),
         TypeOf(path) = "fixed_1e6", fact.field # "route.available", fact.field \in FixedFields,
         (raw * Scale) \div Unit \in NumberRange(path), (raw * Scale) \div Unit < P
  PROVE  Meets(path, fact)
<1> DEFINE q == (raw * Scale) \div Unit
<1>1. q \in Nat /\ ToFixed(Decimal(raw)) = Big(q) /\ IsDecimal(fact.value) /\ ~IsFlag(fact.value)
      /\ fact.value.raw = raw
  BY DecimalValues
<1>2. NormalizeFact(path, fact) = ToFixed(fact.value)
  BY <1>1 DEF NormalizeFact
<1>3. FactValueToFr(fact) = TruncDiv(raw * Scale, Unit) % P
  BY <1>1 DEF FactValueToFr, IsDecimal, IsFlag
<1>4. TruncDiv(raw * Scale, Unit) = q
  <2> DEFINE big == raw * Scale
  <2>1. big \in Nat
    BY FactsAssumption
  <2> HIDE DEF big
  <2>2. TruncDiv(big, Unit) = big \div Unit
    BY <2>1, FactsAssumption, TruncOfNaturals
  <2> QED
    BY <2>2 DEF big
<1>5. q % P = q
  <2> HIDE DEF q
  <2> QED
    BY <1>1, FactsAssumption DEF q
<1>6. Good(Big(q)) /\ Big(q).n = q
  BY <1>1, GoodValues
<1> QED
  BY <1>1, <1>2, <1>3, <1>4, <1>5, <1>6 DEF Meets

\* A bound fact is refused for a word where a number is expected; every other
\* one is a number in range, and its zk leaf holds that number.
LEMMA BoundValue ==
  ASSUME NEW path \in RecipePaths, NEW fact, fact.field = Selectors[path].field,
         fact.value \in FactRange(path)
  PROVE  IF fact.value \in {Word("exponent"), Word("infinite")}
         THEN NormalizeFact(path, fact).throws ELSE Meets(path, fact)
<1>p. path \in {"totalBorrowed", "totalSupplied", "isFresh", "healthAfterAction",
                "estimatedOut", "routeHops", "pathAvailable", "pathEstimatedOut", "spreadBps"}
  BY RecipeNames
<1>w. ASSUME NEW raw, NEW w \in {"exponent", "infinite"} PROVE Decimal(raw) # Word(w)
  BY DEF Decimal, Word
<1>n. ASSUME NEW raw \in Nat, fact.value = Decimal(raw)
      PROVE  fact.value \notin {Word("exponent"), Word("infinite")}
  BY <1>n, <1>w
<1>1. CASE path \in {"totalBorrowed", "totalSupplied"}
  <2>1. /\ TypeOf(path) = "u128" /\ fact.field # "route.available" /\ fact.field \notin FixedFields
    BY <1>1 DEF TypeOf, Selectors, Selector, FixedFields
  <2>2. fact.value \in Printed /\ NumberRange(path) = 0..(MaxAmount \div Unit)
    BY <1>1 DEF FactRange, NumberRange
  <2>3. CASE fact.value = Word("exponent")
    <3>1. NormalizeFact(path, fact) = ToIntBig(fact.value)
      BY <2>1 DEF NormalizeFact
    <3> QED
      BY <2>3, <3>1, WordValues
  <2>4. CASE fact.value \in Decimals
    <3>1. PICK raw \in 0..MaxAmount : fact.value = Decimal(raw)
      BY <2>4 DEF Decimals, Decimal
    <3>2. raw \div Unit \in Nat /\ raw \div Unit <= MaxAmount \div Unit /\ raw \in Nat
      BY QuotientBounds, RangesFit, FactsAssumption
    <3> DEFINE q == raw \div Unit
               top == MaxAmount \div Unit
    <3>3. q \in Nat /\ q <= top /\ top \in Nat /\ top + 1 < Span160 /\ Span160 < P /\ Span160 \in Nat
      BY <3>2, RangesFit, SpanAssumption
    <3> HIDE DEF q, top
    <3>4. q \in 0..top /\ q < P
      BY <3>3, FactsAssumption
    <3>5. Meets(path, fact)
      BY <2>1, <2>2, <3>1, <3>2, <3>4, IntegerMeets DEF q, top
    <3> QED
      BY <1>n, <3>1, <3>2, <3>5
  <2> QED
    BY <2>2, <2>3, <2>4 DEF Printed
<1>2. CASE path = "isFresh"
  <2>1. TypeOf(path) = "bool" /\ fact.field = "oracle.freshness"
    BY <1>2 DEF TypeOf, Selectors, Selector
  <2>2. fact.value \in {Word("fresh"), Word("unknown")} /\ NumberRange(path) = 0..1
    BY <1>2 DEF FactRange, NumberRange
  <2>3. NormalizeFact(path, fact) = ToBool(fact.value)
    BY <2>1 DEF NormalizeFact
  <2>4. ToBool(Word("fresh")) = Bool(TRUE) /\ ToBool(Word("unknown")) = Bool(FALSE)
    BY DEF ToBool, Word
  <2>5. /\ Good(Bool(TRUE)) /\ Bool(TRUE).n = 1 /\ Good(Bool(FALSE)) /\ Bool(FALSE).n = 0
    BY DEF Good, Bool
  <2>6. CASE fact.value = Word("fresh")
    <3>1. FactValueToFr(fact) = 1
      <4>1. fact.value.kind = "fresh"
        BY <2>6 DEF Word
      <4> QED
        BY <4>1 DEF FactValueToFr, IsFlag, IsDecimal
    <3>2. NormalizeFact(path, fact) = Bool(TRUE) /\ fact.value \notin {Word("exponent"), Word("infinite")}
      BY <2>3, <2>4, <2>6 DEF Word
    <3>3. Meets(path, fact)
      <4> DEFINE v == NormalizeFact(path, fact)
      <4>1. Good(v) /\ v.n = FactValueToFr(fact)
        BY <2>5, <3>1, <3>2, Zenon
      <4>2. FactValueToFr(fact) \in NumberRange(path)
        BY <2>2, <3>1
      <4> QED
        BY <4>1, <4>2 DEF Meets
    <3> QED
      BY <3>2, <3>3
  <2>7. CASE fact.value = Word("unknown")
    <3>1. FactValueToFr(fact) = 0
      <4>1. fact.value.kind = "unknown"
        BY <2>7 DEF Word
      <4> QED
        BY <4>1 DEF FactValueToFr, IsFlag, IsDecimal
    <3>2. NormalizeFact(path, fact) = Bool(FALSE) /\ fact.value \notin {Word("exponent"), Word("infinite")}
      BY <2>3, <2>4, <2>7 DEF Word
    <3>3. Meets(path, fact)
      <4> DEFINE v == NormalizeFact(path, fact)
      <4>1. Good(v) /\ v.n = FactValueToFr(fact)
        BY <2>5, <3>1, <3>2, Zenon
      <4>2. FactValueToFr(fact) \in NumberRange(path)
        BY <2>2, <3>1
      <4> QED
        BY <4>1, <4>2 DEF Meets
    <3> QED
      BY <3>2, <3>3
  <2> QED
    BY <2>2, <2>6, <2>7
<1>3. CASE path = "healthAfterAction"
  <2>1. /\ TypeOf(path) = "fixed_1e6" /\ fact.field # "route.available" /\ fact.field \in FixedFields
    BY <1>3 DEF TypeOf, Selectors, Selector, FixedFields
  <2>2. /\ fact.value \in {Word("infinite")} \cup {Decimal(k) : k \in 0..(MaxAmount * Unit)}
        /\ NumberRange(path) = 0..(MaxAmount * Scale)
    BY <1>3 DEF FactRange, NumberRange
  <2>3. CASE fact.value = Word("infinite")
    <3>1. ~IsFlag(fact.value)
      BY <2>3, WordValues
    <3>2. NormalizeFact(path, fact) = ToFixed(fact.value)
      BY <2>1, <3>1 DEF NormalizeFact
    <3> QED
      BY <2>3, <3>2, WordValues
  <2>4. CASE fact.value \in {Decimal(k) : k \in 0..(MaxAmount * Unit)}
    <3>1. PICK raw \in 0..(MaxAmount * Unit) : fact.value = Decimal(raw)
      BY <2>4
    <3> DEFINE a == raw * Scale
               b == MaxAmount * Unit * Scale
               top == MaxAmount * Scale
               q == a \div Unit
    <3>2. raw \in Nat /\ raw <= MaxAmount * Unit /\ MaxAmount * Unit \in Nat
      BY RangesFit, FactsAssumption
    <3>3. a \in Nat /\ b \in Nat /\ a <= b
      <4>1. PICK k \in Nat : MaxAmount * Unit = raw + k
        <5>1. MaxAmount * Unit - raw \in Nat
          BY <3>2
        <5> QED
          BY <3>2, <5>1
      <4>2. b = raw * Scale + k * Scale
        BY <3>2, <4>1, FactsAssumption
      <4>3. raw * Scale \in Nat /\ k * Scale \in Nat
        BY <3>2, FactsAssumption
      <4> QED
        BY <4>2, <4>3
    <3>4. b = top * Unit
      BY RangesFit, FactsAssumption
    <3>5. top \in Nat /\ top < P /\ top + Scale < Span160
      BY RangesFit, FactsAssumption, SpanAssumption
    <3>6. b \div Unit = top
      <4> HIDE DEF top, b
      <4> QED
        BY <3>4, <3>5, FactsAssumption, MultipleDivides
    <3>7. q \in Nat /\ q <= top
      <4> HIDE DEF a, b, top
      <4> QED
        BY <3>3, <3>6, FactsAssumption, QuotientBounds
    <3> HIDE DEF q, top, a, b
    <3>8. q \in 0..top /\ q < P
      BY <3>5, <3>7, FactsAssumption
    <3>9. Meets(path, fact)
      BY <2>1, <2>2, <3>1, <3>2, <3>8, FixedMeets DEF q, top, a
    <3> QED
      BY <1>n, <3>1, <3>2, <3>9
  <2> QED
    BY <2>2, <2>3, <2>4
<1>4. CASE path \in {"estimatedOut", "spreadBps", "routeHops"}
  <2> DEFINE top == CASE path = "estimatedOut" -> MaxAmount \div Unit
                      [] path = "spreadBps" -> Span64 - 1
                      [] OTHER -> 1
  <2>1. /\ TypeOf(path) \in {"u64", "u128"} /\ fact.field # "route.available"
        /\ fact.field \notin FixedFields
    BY <1>4 DEF TypeOf, Selectors, Selector, FixedFields
  <2>2. top \in Nat /\ top < P
    BY RangesFit, SpanAssumption, FactsAssumption
  <2>3. PICK k \in 0..top : fact.value = Decimal(k * Unit) /\ k \in NumberRange(path)
    <3>1. CASE path = "estimatedOut"
      BY <3>1 DEF FactRange, NumberRange
    <3>2. CASE path = "spreadBps"
      BY <3>2 DEF FactRange, NumberRange
    <3>3. CASE path = "routeHops"
      <4>1. fact.value = Decimal(Unit) /\ NumberRange(path) = {1} /\ top = 1 /\ 1 * Unit = Unit
        BY <3>3, FactsAssumption DEF FactRange, NumberRange
      <4> QED
        BY <4>1
    <3> QED
      BY <1>4, <3>1, <3>2, <3>3
  <2> HIDE DEF top
  <2>4. k \in Nat /\ k < P
    BY <2>2, FactsAssumption
  <2>5. k * Unit \in Nat /\ (k * Unit) \div Unit = k
    BY <2>4, FactsAssumption, MultipleDivides
  <2> DEFINE raw == k * Unit
  <2>6. raw \in Nat /\ raw \div Unit = k /\ fact.value = Decimal(raw)
    BY <2>3, <2>5
  <2> HIDE DEF raw
  <2>7. Meets(path, fact)
    BY <2>1, <2>3, <2>4, <2>6, IntegerMeets
  <2> QED
    BY <1>n, <2>6, <2>7
<1>5. CASE path = "pathAvailable"
  <2>1. TypeOf(path) = "bool" /\ fact.field = "path.available"
    BY <1>5 DEF TypeOf, Selectors, Selector
  <2>2. fact.value \in {Flag(TRUE), Flag(FALSE)} /\ NumberRange(path) = 0..1
    BY <1>5 DEF FactRange, NumberRange
  <2>3. NormalizeFact(path, fact) = ToBool(fact.value)
    BY <2>1 DEF NormalizeFact
  <2>4. ToBool(Flag(TRUE)) = Bool(TRUE) /\ ToBool(Flag(FALSE)) = Bool(FALSE)
    BY DEF ToBool, Flag, Bool
  <2>5. /\ Good(Bool(TRUE)) /\ Bool(TRUE).n = 1 /\ Good(Bool(FALSE)) /\ Bool(FALSE).n = 0
    BY DEF Good, Bool
  <2>6. PICK b \in BOOLEAN : fact.value = Flag(b)
    BY <2>2
  <2>7. fact.value.raw = (IF b THEN 1 ELSE 0) /\ fact.value.kind = "boolean"
    BY <2>6 DEF Flag
  <2>8. FactValueToFr(fact) = IF b THEN 1 ELSE 0
    <3>1. FactValueToFr(fact) = fact.value.raw
      BY <2>7 DEF FactValueToFr, IsFlag, IsDecimal
    <3> QED
      BY <2>7, <3>1
  <2>9. fact.value \notin {Word("exponent"), Word("infinite")}
    BY <2>7 DEF Word
  <2>10. NormalizeFact(path, fact) = IF b THEN Bool(TRUE) ELSE Bool(FALSE)
    BY <2>3, <2>4, <2>6
  <2>11. Meets(path, fact)
    <3> DEFINE v == NormalizeFact(path, fact)
    <3>1. Good(v) /\ v.n = FactValueToFr(fact)
      <4>1. CASE b
        BY <2>5, <2>8, <2>10, <4>1, Zenon
      <4>2. CASE ~b
        BY <2>5, <2>8, <2>10, <4>2, Zenon
      <4> QED
        BY <4>1, <4>2
    <3>2. FactValueToFr(fact) \in NumberRange(path)
      BY <2>2, <2>8
    <3> QED
      BY <3>1, <3>2 DEF Meets
  <2> QED
    BY <2>9, <2>11
<1>6. CASE path = "pathEstimatedOut"
  <2>1. /\ TypeOf(path) = "u128" /\ fact.field # "route.available" /\ fact.field \notin FixedFields
    BY <1>6 DEF TypeOf, Selectors, Selector, FixedFields
  <2>2. fact.value \in Decimals /\ NumberRange(path) = 0..(MaxAmount \div Unit)
    BY <1>6 DEF FactRange, NumberRange
  <2>3. PICK raw \in 0..MaxAmount : fact.value = Decimal(raw)
    BY <2>2 DEF Decimals, Decimal
  <2>4. raw \div Unit \in Nat /\ raw \div Unit <= MaxAmount \div Unit /\ raw \in Nat
    BY QuotientBounds, RangesFit, FactsAssumption
  <2> DEFINE q == raw \div Unit
             top == MaxAmount \div Unit
  <2>5. q \in Nat /\ q <= top /\ top \in Nat /\ top + 1 < Span160 /\ Span160 < P /\ Span160 \in Nat
    BY <2>4, RangesFit, SpanAssumption
  <2> HIDE DEF q, top
  <2>6. q \in 0..top /\ q < P
    BY <2>5, FactsAssumption
  <2>7. Meets(path, fact)
    BY <2>1, <2>2, <2>3, <2>4, <2>6, IntegerMeets DEF q, top
  <2> QED
    BY <1>n, <2>3, <2>4, <2>7
<1> QED
  BY <1>p, <1>1, <1>2, <1>3, <1>4, <1>5, <1>6

\* A private input is a number to the evaluator and the same to the witness,
\* when the evaluator is given the types of the witness.
LEMMA GivenMeets ==
  ASSUME NEW r \in Recipes, NEW name \in DOMAIN Thresholds[r], NEW value \in PrivateValues[name]
  PROVE  LET v == NormalizePrivate(value, Thresholds[r][name])
         IN  Good(v) /\ v.n \in InputRange(name) /\ NormalizeThreshold(value, Thresholds[r][name]) = v
<1> DEFINE type == Thresholds[r][name]
<1>1. \/ name \in {"maxUtilization", "minHealth"} /\ type = "fixed_1e6"
      \/ name \in {"minOut", "minReceive"} /\ type = "u128"
      \/ name = "maxSpreadBps" /\ type = "u64"
  BY DEF Recipes, Thresholds
<1>2. value \in IF type = "fixed_1e6" THEN Ratios ELSE Decimals
  <2>1. PrivateValues[name] \subseteq IF type = "fixed_1e6" THEN Ratios ELSE Decimals
    BY PrivatesAssumption, Zenon
  <2> HIDE DEF type
  <2> QED
    BY <2>1
<1>3. PICK raw \in Nat :
        /\ value = Decimal(raw)
        /\ type = "fixed_1e6" => raw <= MaxRatio
        /\ type # "fixed_1e6" => raw <= MaxAmount
  <2>1. CASE type = "fixed_1e6"
    <3>1. value \in Ratios /\ MaxRatio \in Nat
      BY <1>2, <2>1, RangeAssumption
    <3>2. PICK raw \in 0..MaxRatio : value = Decimal(raw)
      BY <3>1 DEF Ratios, Decimal
    <3> QED
      BY <2>1, <3>1, <3>2
  <2>2. CASE type # "fixed_1e6"
    <3>1. value \in Decimals /\ MaxAmount \in Nat
      BY <1>2, <2>2, RangeAssumption
    <3>2. PICK raw \in 0..MaxAmount : value = Decimal(raw)
      BY <3>1 DEF Decimals, Decimal
    <3> QED
      BY <2>2, <3>1, <3>2
  <2> QED
    BY <2>1, <2>2
<1> DEFINE q == raw \div Unit
           f == (raw * Scale) \div Unit
<1>4. /\ ToIntBig(Decimal(raw)) = Big(q) /\ q \in Nat
      /\ ToFixed(Decimal(raw)) = Big(f) /\ f \in Nat
      /\ Decimal(raw).raw = raw
  BY DecimalValues
<1> HIDE DEF type
<1>5. CASE type = "fixed_1e6"
  <2>1. NormalizePrivate(value, type) = ToFixed(value) /\ NormalizeThreshold(value, type) = ToFixed(value)
    BY <1>5 DEF NormalizePrivate, NormalizeThreshold
  <2>2. f <= MaxBound
    <3>1. raw * Scale \in Nat /\ MaxRatio * Scale \in Nat /\ raw * Scale <= MaxRatio * Scale
      <4>1. PICK k \in Nat : MaxRatio = raw + k
        <5>1. MaxRatio - raw \in Nat
          BY <1>3, <1>5, RangeAssumption
        <5> QED
          BY <1>3, <5>1, RangeAssumption
      <4>2. MaxRatio * Scale = raw * Scale + k * Scale /\ k * Scale \in Nat /\ raw * Scale \in Nat
        BY <4>1, FactsAssumption
      <4> QED
        BY <4>2
    <3> DEFINE a == raw * Scale
               b == MaxRatio * Scale
    <3>2. a \in Nat /\ b \in Nat /\ a <= b
      BY <3>1
    <3> HIDE DEF a, b
    <3>3. a \div Unit <= b \div Unit
      BY <3>2, FactsAssumption, QuotientBounds
    <3> QED
      BY <3>3 DEF MaxBound, a, b
  <2> HIDE DEF f, q
  <2>3. f \in InputRange(name)
    BY <1>1, <1>4, <1>5, <2>2, RangesFit DEF InputRange
  <2>4. Good(Big(f)) /\ Big(f).n = f
    BY <1>4, GoodValues
  <2> QED
    BY <1>3, <1>4, <2>1, <2>3, <2>4 DEF type
<1>6. CASE type \in {"u128", "u64"}
  <2>1. NormalizePrivate(value, type) = ToIntBig(value) /\ NormalizeThreshold(value, type) = ToIntBig(value)
    BY <1>6 DEF NormalizePrivate, NormalizeThreshold
  <2>2. type = "u128" => q <= MaxAmount \div Unit
    BY <1>3, <1>6, RangeAssumption, FactsAssumption, QuotientBounds
  <2>3. name = "maxSpreadBps" => q + 1 < Span64
    <3> SUFFICES ASSUME name = "maxSpreadBps" PROVE q + 1 < Span64
      OBVIOUS
    <3>1. value.raw \div Unit + 1 < Span64
      BY RangeAssumption
    <3> QED
      BY <1>3, <1>4, <3>1
  <2> HIDE DEF f, q
  <2>4. q \in InputRange(name)
    <3>1. CASE name \in {"minOut", "minReceive"}
      <4> DEFINE top == MaxAmount \div Unit
      <4>1. q \in Nat /\ q <= top /\ top \in Nat
        BY <1>1, <1>4, <2>2, <3>1, RangesFit
      <4>2. InputRange(name) = 0..top
        BY <3>1 DEF InputRange
      <4> HIDE DEF top
      <4> QED
        BY <4>1, <4>2
    <3>2. CASE name = "maxSpreadBps"
      BY <1>4, <2>3, <3>2, SpanAssumption DEF InputRange
    <3> QED
      BY <1>1, <1>6, <3>1, <3>2
  <2>5. Good(Big(q)) /\ Big(q).n = q
    BY <1>4, GoodValues
  <2> QED
    BY <1>3, <1>4, <2>1, <2>4, <2>5 DEF type
<1> QED
  BY <1>1, <1>5, <1>6

-----------------------------------------------------------------------------
(* The three translations of a policy on one input.                        *)

\* The slots and thresholds of a witness, from the numbers of the evaluator.
SlotNumbers(r, value) == [slot \in DOMAIN Slots[r] |-> value[Slots[r][slot]].n]
InputNumbers(r, given) == [name \in DOMAIN Thresholds[r] |-> given[name].n]

NumbersIn(value, paths) == GoodIn(value, paths) /\ \A p \in paths : value[p].n \in NumberRange(p)
InputsIn(given, names) == GoodIn(given, names) /\ \A x \in names : given[x].n \in InputRange(x)

\* An amount of the chain fits the comparators of 160 bits,
LEMMA AmountsFit ==
  ASSUME NEW a \in 0..(MaxAmount \div Unit)
  PROVE  a \in Nat /\ a + 1 < Span160 /\ a * Scale \in Nat /\ a * Scale < Span160 /\ a < Span160
<1> DEFINE top == MaxAmount \div Unit
<1>1. top \in Nat /\ top <= MaxAmount /\ MaxAmount \in Nat
  BY RangesFit, FactsAssumption, QuotientBounds
<1>2. top + 1 < Span160
  BY RangesFit
<1>3. a \in Nat /\ a <= top
  <2> HIDE DEF top
  <2> QED
    BY <1>1 DEF top
<1> HIDE DEF top
<1>4. a * Scale \in Nat /\ a * Scale <= MaxAmount * Scale
  <2>1. PICK k \in Nat : MaxAmount = a + k
    <3>1. MaxAmount - a \in Nat
      BY <1>1, <1>3
    <3> QED
      BY <1>1, <1>3, <3>1
  <2>2. MaxAmount * Scale = a * Scale + k * Scale /\ k * Scale \in Nat /\ a * Scale \in Nat
    BY <1>3, <2>1, FactsAssumption
  <2> QED
    BY <2>2
<1>5. MaxAmount * Scale \in Nat /\ MaxAmount * Scale + Scale < Span160
  BY RangesFit
<1> QED
  BY <1>1, <1>2, <1>3, <1>4, <1>5, SpanAssumption, FactsAssumption

\* a private input fits the comparators it is sent to,
LEMMA InputsFit ==
  /\ \A b \in 0..MaxBound : b \in Nat /\ b < Span160
  /\ \A b \in 0..(Span64 - 2) : b \in Nat /\ b + 1 < Span64
  BY RangesFit, SpanAssumption

\* and so does its product with the supply of a pool.
LEMMA ProductFits ==
  ASSUME NEW b \in 0..MaxBound, NEW s \in 0..(MaxAmount \div Unit)
  PROVE  b * Denominator(s) < Span160
<1> DEFINE top == MaxAmount \div Unit
           d == Denominator(s)
<1>1. top \in Nat /\ MaxBound \in Nat /\ MaxBound * (top + 1) < Span160
  BY RangesFit
<1>2. s \in Nat /\ s <= top
  <2> HIDE DEF top
  <2> QED
    BY <1>1 DEF top
<1>3. d \in Nat /\ d <= top + 1
  <2> HIDE DEF top
  <2> QED
    BY <1>1, <1>2 DEF Denominator
<1>4. b \in Nat /\ b <= MaxBound
  BY <1>1
<1> HIDE DEF top, d
<1>5. PICK j \in Nat : MaxBound = b + j
  <2>1. MaxBound - b \in Nat
    BY <1>1, <1>4
  <2> QED
    BY <1>1, <1>4, <2>1
<1>6. PICK k \in Nat : top + 1 = d + k
  <2>1. top + 1 - d \in Nat
    BY <1>1, <1>3
  <2> QED
    BY <1>1, <1>3, <2>1
<1>7. MaxBound * (top + 1) = b * d + b * k + j * d + j * k
  <2>1. MaxBound * (top + 1) = (b + j) * (d + k)
    BY <1>5, <1>6
  <2>2. (b + j) * (d + k) = b * d + b * k + j * d + j * k
    BY <1>3, <1>4, <1>5, <1>6
  <2> QED
    BY <2>1, <2>2
<1>8. b * d \in Nat /\ b * k \in Nat /\ j * d \in Nat /\ j * k \in Nat
  BY <1>3, <1>4, <1>5, <1>6
<1>9. b * d < Span160
  <2> DEFINE w == b * d
             x == b * k
             y == j * d
             z == j * k
             m == MaxBound * (top + 1)
  <2>1. w \in Nat /\ x \in Nat /\ y \in Nat /\ z \in Nat /\ m = w + x + y + z /\ m < Span160
        /\ Span160 \in Nat
    BY <1>1, <1>7, <1>8, SpanAssumption
  <2> HIDE DEF w, x, y, z, m
  <2>2. w < Span160
    BY <2>1
  <2> QED
    BY <2>2 DEF w
<1> QED
  BY <1>9 DEF d

\* For values and inputs in their ranges the tree of the Blend policy decides
\* the circuit's predicate;
LEMMA BlendMeets ==
  ASSUME NEW value, NEW given,
         NumbersIn(value, Tree["blend"].facts), InputsIn(given, DOMAIN Thresholds["blend"])
  PROVE  LET f == SlotNumbers("blend", value)
             t == InputNumbers("blend", given)
         IN  /\ BlendInRange(f, t)
             /\ Decides(Outputs(Tree["blend"].ast, value, given), "safe", BlendPredicate(f, t))
<1> DEFINE f == SlotNumbers("blend", value)
           t == InputNumbers("blend", given)
<1>1. Tree["blend"].facts = {"totalBorrowed", "totalSupplied", "isFresh"}
  BY DEF Tree
<1>2. DOMAIN Thresholds["blend"] = {"maxUtilization"}
  BY DEF Thresholds
<1>3. /\ f.borrowed = value["totalBorrowed"].n /\ f.supplied = value["totalSupplied"].n
      /\ f.oracle = value["isFresh"].n
  BY DEF SlotNumbers, Slots
<1>4. t.maxUtilization = given["maxUtilization"].n
  BY DEF InputNumbers, Thresholds
<1>5. /\ GoodIn(value, {"totalBorrowed", "totalSupplied", "isFresh"})
      /\ f.borrowed \in 0..(MaxAmount \div Unit) /\ f.supplied \in 0..(MaxAmount \div Unit)
      /\ f.oracle \in 0..1
  <2>1. /\ value["totalBorrowed"].n \in NumberRange("totalBorrowed")
        /\ value["totalSupplied"].n \in NumberRange("totalSupplied")
        /\ value["isFresh"].n \in NumberRange("isFresh")
        /\ GoodIn(value, {"totalBorrowed", "totalSupplied", "isFresh"})
    BY <1>1 DEF NumbersIn
  <2>2. /\ NumberRange("totalBorrowed") = 0..(MaxAmount \div Unit)
        /\ NumberRange("totalSupplied") = 0..(MaxAmount \div Unit)
        /\ NumberRange("isFresh") = 0..1
    BY DEF NumberRange
  <2> HIDE DEF f
  <2> QED
    BY <1>3, <2>1, <2>2
<1>6. GoodIn(given, {"maxUtilization"}) /\ t.maxUtilization \in 0..MaxBound
  <2>1. InputRange("maxUtilization") = 0..MaxBound
    BY DEF InputRange
  <2> HIDE DEF t
  <2> QED
    BY <1>2, <1>4, <2>1 DEF InputsIn
<1> HIDE DEF f, t
<1>7. BlendInRange(f, t)
  <2>1. f.borrowed \in Nat /\ f.borrowed * Scale < Span160 /\ f.supplied \in Nat
    BY <1>5, AmountsFit
  <2>2. t.maxUtilization \in Nat
    BY <1>6, InputsFit
  <2>3. t.maxUtilization * Denominator(f.supplied) < Span160
    BY <1>5, <1>6, ProductFits
  <2>4. f.oracle \in {0, 1}
    BY <1>5
  <2> QED
    BY <2>1, <2>2, <2>3, <2>4 DEF BlendInRange
<1>8. value["totalBorrowed"].n \in Nat /\ value["totalSupplied"].n \in Nat
  BY <1>3, <1>5, AmountsFit
<1> DEFINE verdict == /\ (value["totalBorrowed"].n * Scale) \div Denominator(value["totalSupplied"].n)
                           < given["maxUtilization"].n
                      /\ AsBool(value["isFresh"])
<1>9. Decides(Outputs(Tree["blend"].ast, value, given), "safe", verdict)
  BY <1>5, <1>6, <1>8, BlendDecides
<1>10. verdict <=> BlendPredicate(f, t)
  <2>1. AsBool(value["isFresh"]) <=> f.oracle = 1
    BY <1>3, <1>5 DEF AsBool
  <2> QED
    BY <1>3, <1>4, <2>1 DEF BlendPredicate
<1> HIDE DEF verdict
<1> QED
  BY <1>7, <1>9, <1>10 DEF Decides, f, t

\* so does that of the Aquarius policy,
LEMMA AquariusMeets ==
  ASSUME NEW value, NEW given,
         NumbersIn(value, Tree["aquarius"].facts), InputsIn(given, DOMAIN Thresholds["aquarius"])
  PROVE  LET f == SlotNumbers("aquarius", value)
             t == InputNumbers("aquarius", given)
         IN  /\ AquariusInRange(f, t)
             /\ Decides(Outputs(Tree["aquarius"].ast, value, given), "routeAcceptable", AquariusPredicate(f, t))
<1> DEFINE f == SlotNumbers("aquarius", value)
           t == InputNumbers("aquarius", given)
<1>1. Tree["aquarius"].facts = {"estimatedOut", "routeHops"}
  BY DEF Tree
<1>2. DOMAIN Thresholds["aquarius"] = {"minOut"}
  BY DEF Thresholds
<1>3. /\ f.out = value["estimatedOut"].n
      /\ f.hops = value["routeHops"].n
  BY DEF SlotNumbers, Slots
<1>4. /\ t.minOut = given["minOut"].n
  BY DEF InputNumbers, Thresholds
<1>5. /\ GoodIn(value, {"estimatedOut", "routeHops"})
      /\ f.out \in 0..(MaxAmount \div Unit)
      /\ f.hops \in {1}
  <2>1. /\ value["estimatedOut"].n \in NumberRange("estimatedOut")
        /\ value["routeHops"].n \in NumberRange("routeHops")
        /\ GoodIn(value, {"estimatedOut", "routeHops"})
    BY <1>1 DEF NumbersIn
  <2>2. /\ NumberRange("estimatedOut") = 0..(MaxAmount \div Unit)
        /\ NumberRange("routeHops") = {1}
    BY DEF NumberRange
  <2> HIDE DEF f
  <2> QED
    BY <1>3, <2>1, <2>2
<1>6. /\ GoodIn(given, {"minOut"})
      /\ t.minOut \in 0..(MaxAmount \div Unit)
  <2>1. /\ InputRange("minOut") = 0..(MaxAmount \div Unit)
    BY DEF InputRange
  <2> HIDE DEF t
  <2> QED
    BY <1>2, <1>4, <2>1 DEF InputsIn
<1> HIDE DEF f, t
<1>7. AquariusInRange(f, t)
  <2>1. f.out \in Nat /\ f.out + 1 < Span160 /\ t.minOut \in Nat /\ t.minOut < Span160
    BY <1>5, <1>6, AmountsFit
  <2>2. f.hops \in Nat /\ f.hops < Span16
    BY <1>5, SpanAssumption
  <2> QED
    BY <2>1, <2>2 DEF AquariusInRange
<1> DEFINE verdict == value["estimatedOut"].n >= given["minOut"].n /\ value["routeHops"].n <= 4
<1>8. Decides(Outputs(Tree["aquarius"].ast, value, given), "routeAcceptable", verdict)
  BY <1>5, <1>6, AquariusDecides
<1>9. verdict <=> AquariusPredicate(f, t)
  BY <1>3, <1>4 DEF AquariusPredicate
<1> HIDE DEF verdict
<1> QED
  BY <1>7, <1>8, <1>9 DEF Decides, f, t

\* that of the SDEX policy,
LEMMA SdexMeets ==
  ASSUME NEW value, NEW given,
         NumbersIn(value, Tree["sdex"].facts), InputsIn(given, DOMAIN Thresholds["sdex"])
  PROVE  LET f == SlotNumbers("sdex", value)
             t == InputNumbers("sdex", given)
         IN  /\ SdexInRange(f, t)
             /\ Decides(Outputs(Tree["sdex"].ast, value, given), "exitOk", SdexPredicate(f, t))
<1> DEFINE f == SlotNumbers("sdex", value)
           t == InputNumbers("sdex", given)
<1>1. Tree["sdex"].facts = {"pathEstimatedOut", "spreadBps", "pathAvailable"}
  BY DEF Tree
<1>2. DOMAIN Thresholds["sdex"] = {"minReceive", "maxSpreadBps"}
  BY DEF Thresholds
<1>3. /\ f.available = value["pathAvailable"].n
      /\ f.path_out = value["pathEstimatedOut"].n
      /\ f.spread = value["spreadBps"].n
  BY DEF SlotNumbers, Slots
<1>4. /\ t.minReceive = given["minReceive"].n
      /\ t.maxSpreadBps = given["maxSpreadBps"].n
  BY DEF InputNumbers, Thresholds
<1>5. /\ GoodIn(value, {"pathEstimatedOut", "spreadBps", "pathAvailable"})
      /\ f.available \in 0..1
      /\ f.path_out \in 0..(MaxAmount \div Unit)
      /\ f.spread \in 0..(Span64 - 1)
  <2>1. /\ value["pathAvailable"].n \in NumberRange("pathAvailable")
        /\ value["pathEstimatedOut"].n \in NumberRange("pathEstimatedOut")
        /\ value["spreadBps"].n \in NumberRange("spreadBps")
        /\ GoodIn(value, {"pathEstimatedOut", "spreadBps", "pathAvailable"})
    BY <1>1 DEF NumbersIn
  <2>2. /\ NumberRange("pathAvailable") = 0..1
        /\ NumberRange("pathEstimatedOut") = 0..(MaxAmount \div Unit)
        /\ NumberRange("spreadBps") = 0..(Span64 - 1)
    BY DEF NumberRange
  <2> HIDE DEF f
  <2> QED
    BY <1>3, <2>1, <2>2
<1>6. /\ GoodIn(given, {"minReceive", "maxSpreadBps"})
      /\ t.minReceive \in 0..(MaxAmount \div Unit)
      /\ t.maxSpreadBps \in 0..(Span64 - 2)
  <2>1. /\ InputRange("minReceive") = 0..(MaxAmount \div Unit)
        /\ InputRange("maxSpreadBps") = 0..(Span64 - 2)
    BY DEF InputRange
  <2> HIDE DEF t
  <2> QED
    BY <1>2, <1>4, <2>1 DEF InputsIn
<1> HIDE DEF f, t
<1>7. SdexInRange(f, t)
  <2>1. f.path_out \in Nat /\ f.path_out + 1 < Span160 /\ t.minReceive \in Nat /\ t.minReceive < Span160
    BY <1>5, <1>6, AmountsFit
  <2>2. t.maxSpreadBps \in Nat /\ t.maxSpreadBps + 1 < Span64
    BY <1>6, InputsFit
  <2>3. f.spread \in Nat /\ f.spread < Span64 /\ f.available \in {0, 1}
    BY <1>5, SpanAssumption
  <2> QED
    BY <2>1, <2>2, <2>3 DEF SdexInRange
<1> DEFINE verdict == /\ AsBool(value["pathAvailable"])
                      /\ \/ value["pathEstimatedOut"].n >= given["minReceive"].n
                         \/ value["spreadBps"].n <= given["maxSpreadBps"].n
<1>8. Decides(Outputs(Tree["sdex"].ast, value, given), "exitOk", verdict)
  BY <1>5, <1>6, SdexDecides
<1>9. verdict <=> SdexPredicate(f, t)
  <2>1. AsBool(value["pathAvailable"]) <=> f.available = 1
    BY <1>3, <1>5 DEF AsBool
  <2> QED
    BY <1>3, <1>4, <2>1 DEF SdexPredicate
<1> HIDE DEF verdict
<1> QED
  BY <1>7, <1>8, <1>9 DEF Decides, f, t

\* and that of the composite policy,
LEMMA CompositeMeets ==
  ASSUME NEW value, NEW given,
         NumbersIn(value, Tree["composite"].facts), InputsIn(given, DOMAIN Thresholds["composite"])
  PROVE  LET f == SlotNumbers("composite", value)
             t == InputNumbers("composite", given)
         IN  /\ CompositeInRange(f, t)
             /\ Decides(Outputs(Tree["composite"].ast, value, given), "allowed", CompositePredicate(f, t))
<1> DEFINE f == SlotNumbers("composite", value)
           t == InputNumbers("composite", given)
<1>1. Tree["composite"].facts = {"healthAfterAction", "estimatedOut", "routeHops", "pathAvailable", "pathEstimatedOut"}
  BY DEF Tree
<1>2. DOMAIN Thresholds["composite"] = {"minHealth", "minReceive"}
  BY DEF Thresholds
<1>3. /\ f.health = value["healthAfterAction"].n
      /\ f.out = value["estimatedOut"].n
      /\ f.hops = value["routeHops"].n
      /\ f.available = value["pathAvailable"].n
      /\ f.path_out = value["pathEstimatedOut"].n
  BY DEF SlotNumbers, Slots
<1>4. /\ t.minHealth = given["minHealth"].n
      /\ t.minReceive = given["minReceive"].n
  BY DEF InputNumbers, Thresholds
<1>5. /\ GoodIn(value, {"healthAfterAction", "estimatedOut", "routeHops", "pathAvailable", "pathEstimatedOut"})
      /\ f.health \in 0..(MaxAmount * Scale)
      /\ f.out \in 0..(MaxAmount \div Unit)
      /\ f.hops \in {1}
      /\ f.available \in 0..1
      /\ f.path_out \in 0..(MaxAmount \div Unit)
  <2>1. /\ value["healthAfterAction"].n \in NumberRange("healthAfterAction")
        /\ value["estimatedOut"].n \in NumberRange("estimatedOut")
        /\ value["routeHops"].n \in NumberRange("routeHops")
        /\ value["pathAvailable"].n \in NumberRange("pathAvailable")
        /\ value["pathEstimatedOut"].n \in NumberRange("pathEstimatedOut")
        /\ GoodIn(value, {"healthAfterAction", "estimatedOut", "routeHops", "pathAvailable", "pathEstimatedOut"})
    BY <1>1 DEF NumbersIn
  <2>2. /\ NumberRange("healthAfterAction") = 0..(MaxAmount * Scale)
        /\ NumberRange("estimatedOut") = 0..(MaxAmount \div Unit)
        /\ NumberRange("routeHops") = {1}
        /\ NumberRange("pathAvailable") = 0..1
        /\ NumberRange("pathEstimatedOut") = 0..(MaxAmount \div Unit)
    BY DEF NumberRange
  <2> HIDE DEF f
  <2> QED
    BY <1>3, <2>1, <2>2
<1>6. /\ GoodIn(given, {"minHealth", "minReceive"})
      /\ t.minHealth \in 0..MaxBound
      /\ t.minReceive \in 0..(MaxAmount \div Unit)
  <2>1. /\ InputRange("minHealth") = 0..MaxBound
        /\ InputRange("minReceive") = 0..(MaxAmount \div Unit)
    BY DEF InputRange
  <2> HIDE DEF t
  <2> QED
    BY <1>2, <1>4, <2>1 DEF InputsIn
<1> HIDE DEF f, t
<1>7. CompositeInRange(f, t)
  <2>1. /\ f.path_out \in Nat /\ f.path_out + 1 < Span160 /\ f.out \in Nat /\ f.out + 1 < Span160
        /\ t.minReceive \in Nat /\ t.minReceive < Span160
    BY <1>5, <1>6, AmountsFit
  <2>2. t.minHealth \in Nat /\ t.minHealth < Span160
    BY <1>6, InputsFit
  <2>3. f.hops \in Nat /\ f.hops < Span16 /\ f.available \in {0, 1}
    BY <1>5, SpanAssumption
  <2>4. f.health \in Nat /\ f.health < Span160
    <3> DEFINE top == MaxAmount * Scale
    <3>1. top \in Nat /\ top + Scale < Span160
      BY RangesFit
    <3>2. f.health \in 0..top
      BY <1>5
    <3> HIDE DEF top
    <3> QED
      BY <3>1, <3>2, FactsAssumption, SpanAssumption
  <2> QED
    BY <2>1, <2>2, <2>3, <2>4 DEF CompositeInRange
<1> DEFINE verdict == /\ value["healthAfterAction"].n > given["minHealth"].n
                      /\ \/ /\ value["estimatedOut"].n >= given["minReceive"].n
                            /\ value["routeHops"].n <= 4
                         \/ /\ AsBool(value["pathAvailable"])
                            /\ value["pathEstimatedOut"].n >= given["minReceive"].n
<1>8. Decides(Outputs(Tree["composite"].ast, value, given), "allowed", verdict)
  BY <1>5, <1>6, CompositeDecides
<1>9. verdict <=> CompositePredicate(f, t)
  <2>1. AsBool(value["pathAvailable"]) <=> f.available = 1
    BY <1>3, <1>5 DEF AsBool
  <2> QED
    BY <1>3, <1>4, <2>1 DEF CompositePredicate
<1> HIDE DEF verdict
<1> QED
  BY <1>7, <1>8, <1>9 DEF Decides, f, t

\* and hence that of each recipe.
LEMMA RecipeMeets ==
  ASSUME NEW r \in Recipes, NEW value, NEW given,
         NumbersIn(value, Tree[r].facts), InputsIn(given, DOMAIN Thresholds[r])
  PROVE  LET f == SlotNumbers(r, value)
             t == InputNumbers(r, given)
         IN  /\ InRange(r, f, t)
             /\ Decides(Outputs(Tree[r].ast, value, given), Decision[r], Predicate(r, f, t))
<1>1. CASE r = "blend"
  <2> DEFINE f == SlotNumbers("blend", value)
             t == InputNumbers("blend", given)
  <2>1. BlendInRange(f, t) /\ Decides(Outputs(Tree["blend"].ast, value, given), "safe", BlendPredicate(f, t))
    BY <1>1, BlendMeets
  <2> HIDE DEF f, t
  <2>2. Decision["blend"] = "safe"
    BY DEF Decision
  <2>3. InRange("blend", f, t) /\ (Predicate("blend", f, t) <=> BlendPredicate(f, t))
    BY <2>1 DEF InRange, Predicate
  <2> QED
    BY <1>1, <2>1, <2>2, <2>3 DEF Decides, f, t
<1>2. CASE r = "aquarius"
  <2> DEFINE f == SlotNumbers("aquarius", value)
             t == InputNumbers("aquarius", given)
  <2>1. /\ AquariusInRange(f, t)
        /\ Decides(Outputs(Tree["aquarius"].ast, value, given), "routeAcceptable", AquariusPredicate(f, t))
    BY <1>2, AquariusMeets
  <2> HIDE DEF f, t
  <2>2. Decision["aquarius"] = "routeAcceptable"
    BY DEF Decision
  <2>3. InRange("aquarius", f, t) /\ (Predicate("aquarius", f, t) <=> AquariusPredicate(f, t))
    BY <2>1 DEF InRange, Predicate
  <2> QED
    BY <1>2, <2>1, <2>2, <2>3 DEF Decides, f, t
<1>3. CASE r = "sdex"
  <2> DEFINE f == SlotNumbers("sdex", value)
             t == InputNumbers("sdex", given)
  <2>1. SdexInRange(f, t) /\ Decides(Outputs(Tree["sdex"].ast, value, given), "exitOk", SdexPredicate(f, t))
    BY <1>3, SdexMeets
  <2> HIDE DEF f, t
  <2>2. Decision["sdex"] = "exitOk"
    BY DEF Decision
  <2>3. InRange("sdex", f, t) /\ (Predicate("sdex", f, t) <=> SdexPredicate(f, t))
    BY <2>1 DEF InRange, Predicate
  <2> QED
    BY <1>3, <2>1, <2>2, <2>3 DEF Decides, f, t
<1>4. CASE r = "composite"
  <2> DEFINE f == SlotNumbers("composite", value)
             t == InputNumbers("composite", given)
  <2>1. /\ CompositeInRange(f, t)
        /\ Decides(Outputs(Tree["composite"].ast, value, given), "allowed", CompositePredicate(f, t))
    BY <1>4, CompositeMeets
  <2> HIDE DEF f, t
  <2>2. Decision["composite"] = "allowed"
    BY DEF Decision
  <2>3. InRange("composite", f, t) /\ (Predicate("composite", f, t) <=> CompositePredicate(f, t))
    BY <2>1 DEF InRange, Predicate
  <2> QED
    BY <1>4, <2>1, <2>2, <2>3 DEF Decides, f, t
<1> QED
  BY <1>1, <1>2, <1>3, <1>4 DEF Recipes

\* Every number of a witness is below the field order.
LEMMA NumbersBelowOrder ==
  /\ \A path \in RecipePaths : NumberRange(path) \subseteq 0..(P - 1)
  /\ \A name \in InputNames : InputRange(name) \subseteq 0..(P - 1)
<1> DEFINE a == MaxAmount \div Unit
           b == MaxAmount * Scale
<1>1. a \in Nat /\ b \in Nat /\ MaxBound \in Nat /\ a + 1 < Span160 /\ b + Scale < Span160
      /\ MaxBound < Span160 /\ Span160 < P /\ Span64 < P /\ 1 < P /\ Span64 \in Nat /\ Span160 \in Nat
      /\ P \in Nat /\ Scale \in Nat
  BY RangesFit, SpanAssumption, FactsAssumption
<1> HIDE DEF a, b
<1>2. /\ 0..a \subseteq 0..(P - 1) /\ 0..b \subseteq 0..(P - 1) /\ 0..MaxBound \subseteq 0..(P - 1)
      /\ 0..1 \subseteq 0..(P - 1) /\ {1} \subseteq 0..(P - 1)
      /\ 0..(Span64 - 1) \subseteq 0..(P - 1) /\ 0..(Span64 - 2) \subseteq 0..(P - 1)
  BY <1>1
<1>3. ASSUME NEW path \in RecipePaths PROVE NumberRange(path) \subseteq 0..(P - 1)
  BY <1>2, RecipeNames DEF NumberRange, a, b
<1>4. ASSUME NEW name \in InputNames PROVE InputRange(name) \subseteq 0..(P - 1)
  BY <1>2, RecipeNames DEF InputRange, a
<1> QED
  BY <1>3, <1>4

\* What a bound input of a recipe is, over the facts at hand.
RecipeFacts(r, facts) ==
  \A path \in Tree[r].facts : \A i \in DOMAIN facts :
    Selects(Selectors[path], facts[i]) => facts[i].value \in FactRange(path)
RecipeInputs(r, inputs) ==
  /\ DOMAIN inputs = DOMAIN Thresholds[r]
  /\ \A name \in DOMAIN inputs : inputs[name] \in PrivateValues[name]

Numeric(path, facts) == BoundFact(path, facts).value \notin {Word("exponent"), Word("infinite")}
Gated(r, facts, maxAge) ==
  /\ maxAge # NoAge
  /\ StaleFields(facts, [f \in {facts[Bind(p, facts)].field : p \in Tree[r].facts} |-> maxAge]) # {}

\* The fact bound to a path is a number in the path's range, or normalising it
\* throws.
LEMMA BoundMeets ==
  ASSUME NEW r \in Recipes, NEW facts, NEW n \in Nat, DOMAIN facts = 1..n, RecipeFacts(r, facts),
         NEW path \in Tree[r].facts, Binds(path, facts)
  PROVE  /\ Bind(path, facts) \in 1..n
         /\ IF Numeric(path, facts) THEN Meets(path, BoundFact(path, facts))
            ELSE NormalizeFact(path, BoundFact(path, facts)).throws
<1> DEFINE fact == BoundFact(path, facts)
<1>1. Bind(path, facts) \in 1..n /\ Selects(Selectors[path], fact) /\ fact = facts[Bind(path, facts)]
  BY BindFirst DEF BoundFact
<1>2. fact.value \in FactRange(path)
  BY <1>1 DEF RecipeFacts
<1>3. fact.field = Selectors[path].field
  BY <1>1 DEF Selects
<1>4. path \in RecipePaths
  BY DEF RecipePaths
<1> HIDE DEF fact
<1>5. IF fact.value \in {Word("exponent"), Word("infinite")}
      THEN NormalizeFact(path, fact).throws ELSE Meets(path, fact)
  BY <1>2, <1>3, <1>4, BoundValue
<1> QED
  BY <1>1, <1>5 DEF Numeric, fact

Values(r, facts) == [p \in Tree[r].facts |-> NormalizeFact(p, BoundFact(p, facts))]
Givens(r, inputs) ==
  [x \in DOMAIN Thresholds[r] |-> NormalizePrivate(inputs[x], Thresholds[r][x])]
Bound(r, facts) == [p \in Tree[r].facts |-> Bind(p, facts)]
AllBind(r, facts) == \A p \in Tree[r].facts : Binds(p, facts)
AllNumeric(r, facts) == \A p \in Tree[r].facts : Numeric(p, facts)

\* A recipe has statements, declares the types of its thresholds, and its
\* slots are facts it reads.
LEMMA TreeShape ==
  ASSUME NEW r \in Recipes
  PROVE  /\ Tree[r].ast # <<>> /\ DOMAIN Tree[r].types = DOMAIN Thresholds[r]
         /\ \A slot \in DOMAIN Slots[r] : Slots[r][slot] \in Tree[r].facts
         /\ Over(Thresholds[r], Tree[r].types) = Thresholds[r]
<1>1. CASE r = "blend"
  <2>1. /\ Tree["blend"].ast # <<>> /\ Tree["blend"].types = [maxUtilization |-> "u128"]
        /\ Tree["blend"].facts = {"totalBorrowed", "totalSupplied", "isFresh"}
    BY DEF Tree
  <2>2. /\ Thresholds["blend"] = [maxUtilization |-> "fixed_1e6"]
        /\ Slots["blend"] = [borrowed |-> "totalBorrowed", supplied |-> "totalSupplied", oracle |-> "isFresh"]
    BY DEF Thresholds, Slots
  <2> QED
    BY <1>1, <2>1, <2>2 DEF Over
<1>2. CASE r = "aquarius"
  <2>1. /\ Tree["aquarius"].ast # <<>> /\ Tree["aquarius"].types = [minOut |-> "u128"]
        /\ Tree["aquarius"].facts = {"estimatedOut", "routeHops"}
    BY DEF Tree
  <2>2. /\ Thresholds["aquarius"] = [minOut |-> "u128"]
        /\ Slots["aquarius"] = [out |-> "estimatedOut", hops |-> "routeHops"]
    BY DEF Thresholds, Slots
  <2> QED
    BY <1>2, <2>1, <2>2 DEF Over
<1>3. CASE r = "sdex"
  <2>1. /\ Tree["sdex"].ast # <<>> /\ Tree["sdex"].types = [minReceive |-> "u128", maxSpreadBps |-> "u64"]
        /\ Tree["sdex"].facts = {"pathEstimatedOut", "spreadBps", "pathAvailable"}
    BY DEF Tree
  <2>2. /\ Thresholds["sdex"] = [minReceive |-> "u128", maxSpreadBps |-> "u64"]
        /\ Slots["sdex"] = [available |-> "pathAvailable", path_out |-> "pathEstimatedOut",
                            spread |-> "spreadBps"]
    BY DEF Thresholds, Slots
  <2> QED
    BY <1>3, <2>1, <2>2 DEF Over
<1>4. CASE r = "composite"
  <2>1. /\ Tree["composite"].ast # <<>>
        /\ Tree["composite"].types = [minHealth |-> "fixed_1e6", minReceive |-> "u128"]
        /\ Tree["composite"].facts = {"healthAfterAction", "estimatedOut", "routeHops", "pathAvailable",
                                      "pathEstimatedOut"}
    BY DEF Tree
  <2>2. /\ Thresholds["composite"] = [minHealth |-> "fixed_1e6", minReceive |-> "u128"]
        /\ Slots["composite"] = [health |-> "healthAfterAction", out |-> "estimatedOut",
                                 hops |-> "routeHops", available |-> "pathAvailable",
                                 path_out |-> "pathEstimatedOut"]
    BY DEF Thresholds, Slots
  <2> QED
    BY <1>4, <2>1, <2>2 DEF Over
<1> QED
  BY <1>1, <1>2, <1>3, <1>4 DEF Recipes

\* A recipe compiles when every path it refers to has a fact.
LEMMA RecipeCompiles ==
  ASSUME NEW r \in Recipes, NEW facts, NEW inputs, RecipeInputs(r, inputs)
  PROVE  Compile(Intent(r, inputs, Thresholds[r]), facts)
           = IF AllBind(r, facts)
             THEN [throws |-> FALSE, ast |-> Tree[r].ast, schema |-> Thresholds[r],
                   bound |-> Bound(r, facts), reveal |-> {Decision[r]}, hide |-> DOMAIN inputs]
             ELSE NotCompiled
<1> DEFINE intent == Intent(r, inputs, Thresholds[r])
           tree == Analysis(intent.program)
<1>1. /\ intent.program = Program[r] /\ intent.privates = inputs /\ intent.schema = Thresholds[r]
      /\ intent.reveal = {Decision[r]} /\ intent.hide = DOMAIN inputs
  BY DEF Intent
<1>2. tree = Tree[r]
  BY <1>1, ProgramsAssumption
<1>3. intent.reveal \cap DOMAIN PrivatePaths = {}
  BY <1>1, DecisionAssumption
<1> HIDE DEF intent
<1>4. DOMAIN tree.types \subseteq DOMAIN intent.privates
  BY <1>1, <1>2, TreeShape DEF RecipeInputs
<1>5. tree.ast # <<>> /\ Over(intent.schema, tree.types) = Thresholds[r]
  BY <1>1, <1>2, TreeShape
<1>6. Compile(intent, facts)
        = IF \/ tree.ast = <<>>
             \/ intent.reveal \cap DOMAIN PrivatePaths # {}
             \/ ~ DOMAIN tree.types \subseteq DOMAIN intent.privates
             \/ \E p \in tree.facts : ~ Binds(p, facts)
          THEN NotCompiled
          ELSE [throws |-> FALSE, ast |-> tree.ast, schema |-> Over(intent.schema, tree.types),
                bound |-> [p \in tree.facts |-> Bind(p, facts)],
                reveal |-> intent.reveal, hide |-> intent.hide]
  BY DEF Compile
<1> HIDE DEF tree
<1>7. Compile(intent, facts)
        = IF \E p \in tree.facts : ~ Binds(p, facts) THEN NotCompiled
          ELSE [throws |-> FALSE, ast |-> tree.ast, schema |-> Over(intent.schema, tree.types),
                bound |-> [p \in tree.facts |-> Bind(p, facts)],
                reveal |-> intent.reveal, hide |-> intent.hide]
  BY <1>3, <1>4, <1>5, <1>6, Zenon
<1>8. [p \in tree.facts |-> Bind(p, facts)] = Bound(r, facts)
  BY <1>2 DEF Bound
<1>9. AllBind(r, facts) <=> ~(\E p \in tree.facts : ~ Binds(p, facts))
  BY <1>2 DEF AllBind
<1> QED
  BY <1>1, <1>2, <1>5, <1>7, <1>8, <1>9 DEF intent

\* The thresholds of a recipe's inputs are in their ranges, and the circuit is
\* given the same numbers.
LEMMA GivensMeet ==
  ASSUME NEW r \in Recipes, NEW inputs, RecipeInputs(r, inputs)
  PROVE  /\ InputsIn(Givens(r, inputs), DOMAIN Thresholds[r])
         /\ \A x \in DOMAIN Thresholds[r] :
              NormalizeThreshold(inputs[x], Thresholds[r][x]) = Givens(r, inputs)[x]
<1>1. ASSUME NEW x \in DOMAIN Thresholds[r]
      PROVE  /\ Givens(r, inputs)[x] = NormalizePrivate(inputs[x], Thresholds[r][x])
             /\ Good(Givens(r, inputs)[x]) /\ Givens(r, inputs)[x].n \in InputRange(x)
             /\ NormalizeThreshold(inputs[x], Thresholds[r][x]) = Givens(r, inputs)[x]
  <2>1. inputs[x] \in PrivateValues[x]
    BY DEF RecipeInputs
  <2>2. Givens(r, inputs)[x] = NormalizePrivate(inputs[x], Thresholds[r][x])
    BY DEF Givens
  <2> QED
    BY <2>1, <2>2, GivenMeets
<1>2. DOMAIN Givens(r, inputs) = DOMAIN Thresholds[r]
  BY DEF Givens
<1> QED
  BY <1>1, <1>2 DEF InputsIn, GoodIn

\* When every fact binds and is numeric, the evaluator's values are in range
\* and equal to the witness's.
LEMMA ValuesMeet ==
  ASSUME NEW r \in Recipes, NEW facts, NEW n \in Nat, DOMAIN facts = 1..n, RecipeFacts(r, facts),
         AllBind(r, facts), AllNumeric(r, facts)
  PROVE  /\ NumbersIn(Values(r, facts), Tree[r].facts)
         /\ \A p \in Tree[r].facts : FactValueToFr(BoundFact(p, facts)) = Values(r, facts)[p].n
<1>1. ASSUME NEW p \in Tree[r].facts
      PROVE  Good(Values(r, facts)[p]) /\ Values(r, facts)[p].n \in NumberRange(p)
             /\ FactValueToFr(BoundFact(p, facts)) = Values(r, facts)[p].n
  <2>1. Meets(p, BoundFact(p, facts))
    BY BoundMeets DEF AllBind, AllNumeric
  <2>2. Values(r, facts)[p] = NormalizeFact(p, BoundFact(p, facts))
    BY DEF Values
  <2> QED
    BY <2>1, <2>2 DEF Meets
<1>2. DOMAIN Values(r, facts) = Tree[r].facts
  BY DEF Values
<1> QED
  BY <1>1, <1>2 DEF NumbersIn, GoodIn

\* A compiled recipe is evaluated unless a fact it uses is too old or is a
\* word, and the output it reveals is the predicate of its numbers.
LEMMA RecipeEvaluates ==
  ASSUME NEW r \in Recipes, NEW facts, NEW n \in Nat, DOMAIN facts = 1..n, RecipeFacts(r, facts),
         NEW inputs, RecipeInputs(r, inputs), NEW maxAge, AllBind(r, facts), NEW c,
         c = [throws |-> FALSE, ast |-> Tree[r].ast, schema |-> Thresholds[r],
              bound |-> Bound(r, facts), reveal |-> {Decision[r]}, hide |-> DOMAIN inputs]
  PROVE  LET e == Evaluate(c, inputs, facts, maxAge)
         IN  /\ e.throws <=> Gated(r, facts, maxAge) \/ ~AllNumeric(r, facts)
             /\ ~e.throws => (AsBool(e.revealed[Decision[r]])
                                <=> Predicate(r, SlotNumbers(r, Values(r, facts)),
                                              InputNumbers(r, Givens(r, inputs))))
<1> DEFINE e == Evaluate(c, inputs, facts, maxAge)
           value == Values(r, facts)
           given == Givens(r, inputs)
           run == Outputs(Tree[r].ast, value, given)
           verdict == Predicate(r, SlotNumbers(r, value), InputNumbers(r, given))
           dec == Decision[r]
           paths == Tree[r].facts
           stale == Gated(r, facts, maxAge)
<1>1. /\ c.ast = Tree[r].ast /\ c.schema = Thresholds[r] /\ c.bound = Bound(r, facts)
      /\ c.reveal = {dec} /\ DOMAIN c.bound = paths
  BY DEF Bound
<1>2. [p \in DOMAIN c.bound |-> NormalizeFact(p, facts[c.bound[p]])] = value
  BY <1>1 DEF Bound, Values, BoundFact
<1>3. [x \in DOMAIN c.schema |->
         IF x \in DOMAIN inputs THEN NormalizePrivate(inputs[x], c.schema[x]) ELSE Throw] = given
  <2>1. DOMAIN inputs = DOMAIN Thresholds[r]
    BY DEF RecipeInputs
  <2> QED
    BY <1>1, <2>1 DEF Givens
<1>4. (/\ maxAge # NoAge
       /\ StaleFields(facts, [f \in {facts[c.bound[p]].field : p \in DOMAIN c.bound} |-> maxAge]) # {})
      <=> stale
  <2>1. {facts[c.bound[p]].field : p \in DOMAIN c.bound} = {facts[Bind(p, facts)].field : p \in paths}
    BY <1>1 DEF Bound
  <2> QED
    BY <2>1 DEF Gated
<1>5. e = IF \/ (/\ maxAge # NoAge
                 /\ StaleFields(facts, [f \in {facts[c.bound[p]].field : p \in DOMAIN c.bound} |-> maxAge]) # {})
             \/ ~run.ok
             \/ \E p \in DOMAIN value : value[p].throws
             \/ \E x \in DOMAIN given : given[x].throws
             \/ ~ c.reveal \subseteq DOMAIN run.vars
          THEN NotEvaluated
          ELSE [throws |-> FALSE, outputs |-> run.vars,
                revealed |-> [x \in c.reveal |-> run.vars[x]]]
  <2> HIDE DEF value, given
  <2> QED
    BY <1>1, <1>2, <1>3 DEF Evaluate
<1>6. DOMAIN value = paths /\ DOMAIN given = DOMAIN Thresholds[r]
  BY DEF Values, Givens
<1>7. \A x \in DOMAIN given : ~given[x].throws
  <2>1. InputsIn(given, DOMAIN Thresholds[r])
    BY GivensMeet
  <2> HIDE DEF given
  <2> QED
    BY <1>6, <2>1 DEF InputsIn, GoodIn, Good
<1>8. (\E p \in DOMAIN value : value[p].throws) <=> ~AllNumeric(r, facts)
  <2>1. ASSUME NEW p \in paths PROVE value[p].throws <=> ~Numeric(p, facts)
    <3>1. Binds(p, facts)
      BY DEF AllBind
    <3>2. value[p] = NormalizeFact(p, BoundFact(p, facts))
      BY DEF Values
    <3>3. IF Numeric(p, facts) THEN Meets(p, BoundFact(p, facts))
          ELSE NormalizeFact(p, BoundFact(p, facts)).throws
      BY <3>1, BoundMeets
    <3> HIDE DEF value
    <3> QED
      BY <3>2, <3>3 DEF Meets, Good
  <2> HIDE DEF value, paths
  <2>2. (\E p \in paths : value[p].throws) <=> ~(\A p \in paths : Numeric(p, facts))
    BY <2>1
  <2> QED
    BY <1>6, <2>2 DEF AllNumeric, paths
<1>9. AllNumeric(r, facts) => Decides(run, dec, verdict)
  <2> SUFFICES ASSUME AllNumeric(r, facts) PROVE Decides(run, dec, verdict)
    OBVIOUS
  <2>1. NumbersIn(value, Tree[r].facts)
    BY ValuesMeet
  <2>2. InputsIn(given, DOMAIN Thresholds[r])
    BY GivensMeet
  <2> HIDE DEF value, given
  <2> QED
    BY <2>1, <2>2, RecipeMeets
<1> HIDE DEF stale, run, verdict, value, given, dec
<1>10. Decides(run, dec, verdict) => run.ok /\ c.reveal \subseteq DOMAIN run.vars
                                     /\ (AsBool(run.vars[dec]) <=> verdict)
  BY <1>1 DEF Decides
<1>11. CASE stale \/ ~AllNumeric(r, facts)
  <2>1. e = NotEvaluated
    BY <1>4, <1>5, <1>8, <1>11, Zenon
  <2> HIDE DEF e
  <2>2. e.throws
    BY <2>1 DEF NotEvaluated
  <2> QED
    BY <1>11, <2>2 DEF stale, e, dec, verdict, value, given
<1>12. CASE ~stale /\ AllNumeric(r, facts)
  <2>1. run.ok /\ c.reveal \subseteq DOMAIN run.vars /\ (AsBool(run.vars[dec]) <=> verdict)
    BY <1>9, <1>10, <1>12
  <2>2. e = [throws |-> FALSE, outputs |-> run.vars, revealed |-> [x \in c.reveal |-> run.vars[x]]]
    BY <1>4, <1>5, <1>7, <1>8, <1>12, <2>1, Zenon
  <2> HIDE DEF e
  <2>3. e.throws = FALSE /\ e.revealed[dec] = run.vars[dec]
    BY <1>1, <2>2
  <2> QED
    BY <1>12, <2>1, <2>3 DEF stale, e, dec, verdict, value, given
<1> QED
  BY <1>11, <1>12

\* The witness of a compiled recipe has its numbers, is of the capsule its
\* facts are in, and the circuit outputs the predicate.
LEMMA RecipeWitnessed ==
  ASSUME NEW r \in Recipes, NEW facts, NEW n \in Nat, DOMAIN facts = 1..n, RecipeFacts(r, facts),
         NEW inputs, RecipeInputs(r, inputs), AllBind(r, facts), AllNumeric(r, facts)
  PROVE  LET w == BuildWitness(r, ZkCapsule(facts, 0, 0), facts, Bound(r, facts), inputs)
             f == SlotNumbers(r, Values(r, facts))
             t == InputNumbers(r, Givens(r, inputs))
         IN  /\ w.thrown = FALSE /\ ContextBound(w) /\ Included(w)
             /\ w.value = f /\ w.threshold = t
             /\ CircomInput(f) = f /\ CircomInput(t) = t
             /\ CircomRun(r, w).sat /\ (CircomRun(r, w).out <=> Predicate(r, f, t))
<1> DEFINE capsule == ZkCapsule(facts, 0, 0)
           bound == Bound(r, facts)
           value == Values(r, facts)
           given == Givens(r, inputs)
           f == SlotNumbers(r, value)
           t == InputNumbers(r, given)
           w == BuildWitness(r, capsule, facts, bound, inputs)
           slots == Slots[r]
           types == Thresholds[r]
           made == [thrown |-> FALSE, capsule |-> capsule,
                    value |-> [slot \in DOMAIN slots |-> FactValueToFr(facts[bound[slots[slot]]])],
                    position |-> [slot \in DOMAIN slots |-> bound[slots[slot]]],
                    leaf |-> [slot \in DOMAIN slots |-> ZkFactLeaf(facts[bound[slots[slot]]])],
                    threshold |-> [name \in DOMAIN types |->
                      (IF name \in DOMAIN inputs
                       THEN NormalizeThreshold(inputs[name], types[name]) ELSE Throw).n]]
<1>1. ASSUME NEW slot \in DOMAIN slots
      PROVE  /\ slots[slot] \in DOMAIN bound /\ bound[slots[slot]] \in 1..n
             /\ facts[bound[slots[slot]]] = BoundFact(slots[slot], facts)
             /\ FactValueToFr(facts[bound[slots[slot]]]) = f[slot]
             /\ f[slot] \in 0..(P - 1)
  <2> DEFINE path == slots[slot]
  <2>1. path \in Tree[r].facts
    BY TreeShape
  <2>2. Binds(path, facts)
    BY <2>1 DEF AllBind
  <2>3. DOMAIN bound = Tree[r].facts /\ bound[path] = Bind(path, facts)
    BY <2>1 DEF Bound
  <2>4. Bind(path, facts) \in 1..n
    BY <2>1, <2>2, BoundMeets
  <2>5. facts[bound[path]] = BoundFact(path, facts)
    BY <2>3 DEF BoundFact
  <2>6. FactValueToFr(BoundFact(path, facts)) = value[path].n /\ value[path].n \in NumberRange(path)
    BY <2>1, ValuesMeet DEF NumbersIn
  <2>7. f[slot] = value[path].n
    BY DEF SlotNumbers
  <2>8. NumberRange(path) \subseteq 0..(P - 1)
    BY <2>1, NumbersBelowOrder DEF RecipePaths
  <2> HIDE DEF path, f, value, bound
  <2> QED
    BY <2>1, <2>3, <2>4, <2>5, <2>6, <2>7, <2>8 DEF path
<1>2. ASSUME NEW name \in DOMAIN types
      PROVE  /\ name \in DOMAIN inputs
             /\ NormalizeThreshold(inputs[name], types[name]) = given[name]
             /\ given[name].throws = FALSE /\ t[name] = given[name].n /\ t[name] \in 0..(P - 1)
  <2>1. name \in DOMAIN inputs
    BY DEF RecipeInputs
  <2>2. /\ NormalizeThreshold(inputs[name], types[name]) = given[name]
        /\ InputsIn(given, DOMAIN Thresholds[r])
    BY GivensMeet
  <2>3. t[name] = given[name].n
    BY DEF InputNumbers
  <2>4. InputRange(name) \subseteq 0..(P - 1)
    BY NumbersBelowOrder DEF InputNames
  <2> HIDE DEF t, given
  <2> QED
    BY <2>1, <2>2, <2>3, <2>4 DEF InputsIn, GoodIn, Good
<1>3. w = made
  <2>1. ~(\E slot \in DOMAIN slots : slots[slot] \notin DOMAIN bound \/ bound[slots[slot]] = 0)
    BY <1>1
  <2>2. ~(\E name \in DOMAIN types :
            (IF name \in DOMAIN inputs
             THEN NormalizeThreshold(inputs[name], types[name]) ELSE Throw).throws)
    <3> HIDE DEF given, t
    <3> QED
      BY <1>2
  <2> HIDE DEF bound, capsule
  <2> QED
    BY <2>1, <2>2 DEF BuildWitness
<1> HIDE DEF w
<1>4. w.thrown = FALSE /\ w.capsule = capsule
  <2> HIDE DEF capsule, bound
  <2> QED
    BY <1>3
<1>5. w.value = f
  <2>1. w.value = [slot \in DOMAIN slots |-> FactValueToFr(facts[bound[slots[slot]]])]
    BY <1>3
  <2>2. f = [slot \in DOMAIN slots |-> f[slot]]
    BY DEF SlotNumbers
  <2> HIDE DEF f, bound
  <2> QED
    BY <1>1, <2>1, <2>2
<1>6. w.threshold = t
  <2>1. w.threshold = [name \in DOMAIN types |->
                        (IF name \in DOMAIN inputs
                         THEN NormalizeThreshold(inputs[name], types[name]) ELSE Throw).n]
    BY <1>3
  <2>2. t = [name \in DOMAIN types |-> t[name]]
    BY DEF InputNumbers
  <2>3. \A name \in DOMAIN types :
          (IF name \in DOMAIN inputs
           THEN NormalizeThreshold(inputs[name], types[name]) ELSE Throw).n = t[name]
    <3>1. TAKE name \in DOMAIN types
    <3>2. /\ name \in DOMAIN inputs
          /\ NormalizeThreshold(inputs[name], types[name]) = given[name]
          /\ t[name] = given[name].n
      BY <1>2
    <3> HIDE DEF t, given, types
    <3> QED
      BY <3>2
  <2> HIDE DEF t, given, types
  <2> QED
    BY <2>1, <2>2, <2>3, Zenon
<1>7. ContextBound(w)
  <2>1. capsule.contextRoot = <<capsule.factsRoot, capsule.sourceRoot, capsule.adapterSet>>
    BY DEF ZkCapsule
  <2> QED
    BY <1>4, <2>1 DEF ContextBound
<1>8. Included(w)
  <2>1. /\ w.leaf = [slot \in DOMAIN slots |-> ZkFactLeaf(facts[bound[slots[slot]]])]
        /\ w.position = [slot \in DOMAIN slots |-> bound[slots[slot]]]
    BY <1>3
  <2>2. capsule.factsRoot = [i \in 1..n |-> ZkFactLeaf(facts[i])]
    BY DEF ZkCapsule, Leaves
  <2> HIDE DEF capsule, bound
  <2> QED
    BY <1>1, <1>4, <2>1, <2>2 DEF Included
<1>9. ASSUME NEW g, g = [x \in DOMAIN g |-> g[x]], \A x \in DOMAIN g : g[x] \in 0..(P - 1)
      PROVE  CircomInput(g) = g
  <2>1. \A v \in 0..(P - 1) : v % P = v
    BY FactsAssumption
  <2>2. \A x \in DOMAIN g : FrDec(g[x]) = g[x]
    BY <1>9, <2>1 DEF FrDec
  <2> QED
    BY <1>9, <2>2 DEF CircomInput
<1>10. CircomInput(f) = f
  <2>1. f = [slot \in DOMAIN f |-> f[slot]] /\ DOMAIN f = DOMAIN slots
    BY DEF SlotNumbers
  <2> HIDE DEF f
  <2> QED
    BY <1>1, <1>9, <2>1
<1>11. CircomInput(t) = t
  <2>1. t = [name \in DOMAIN t |-> t[name]] /\ DOMAIN t = DOMAIN types
    BY DEF InputNumbers
  <2> HIDE DEF t
  <2> QED
    BY <1>2, <1>9, <2>1
<1>12. Circuit(r, f, t).sat /\ (Circuit(r, f, t).out <=> Predicate(r, f, t))
  <2>1. NumbersIn(value, Tree[r].facts)
    BY ValuesMeet
  <2>2. InputsIn(given, DOMAIN Thresholds[r])
    BY GivensMeet
  <2>3. InRange(r, f, t)
    <3> HIDE DEF value, given
    <3> QED
      BY <2>1, <2>2, RecipeMeets
  <2> HIDE DEF f, t
  <2> QED
    BY <2>3, CircuitIsPredicate
<1> HIDE DEF f, t, capsule, bound
<1>13. CircomRun(r, w) = [sat |-> ContextBound(w) /\ Included(w) /\ Circuit(r, f, t).sat,
                          out |-> Circuit(r, f, t).out]
  BY <1>5, <1>6, <1>10, <1>11 DEF CircomRun
<1>14. CircomRun(r, w).sat /\ (CircomRun(r, w).out <=> Predicate(r, f, t))
  <2> DEFINE b == ContextBound(w) /\ Included(w) /\ Circuit(r, f, t).sat
             o == Circuit(r, f, t).out
  <2>1. b /\ (o <=> Predicate(r, f, t))
    BY <1>7, <1>8, <1>12
  <2>2. CircomRun(r, w) = [sat |-> b, out |-> o]
    BY <1>13
  <2> HIDE DEF b, o
  <2>3. CircomRun(r, w).sat = b /\ CircomRun(r, w).out = o
    BY <2>2
  <2> QED
    BY <2>1, <2>3, Zenon
<1> QED
  BY <1>4, <1>5, <1>6, <1>7, <1>8, <1>10, <1>11, <1>14 DEF f, t, w, capsule, bound

\* The proof of a recipe: refused for a fact that is missing, is a word or is
\* too old, and otherwise the predicate of its numbers, three times.
LEMMA PolicyProved ==
  ASSUME NEW r \in Recipes, NEW facts, NEW n \in Nat, DOMAIN facts = 1..n, RecipeFacts(r, facts),
         NEW inputs, RecipeInputs(r, inputs), NEW maxAge
  PROVE  LET p == Prove(r, Intent(r, inputs, Thresholds[r]), ZkCapsule(facts, 0, 0), facts, maxAge)
             f == SlotNumbers(r, Values(r, facts))
             t == InputNumbers(r, Givens(r, inputs))
         IN  /\ p.refused <=> ~AllBind(r, facts) \/ ~AllNumeric(r, facts) \/ Gated(r, facts, maxAge)
             /\ ~p.refused =>
                  /\ p.evaluated \in BOOLEAN /\ (p.evaluated <=> Predicate(r, f, t))
                  /\ p.reference \in BOOLEAN /\ (p.reference <=> Predicate(r, f, t))
                  /\ p.proved \in BOOLEAN /\ (p.proved <=> Predicate(r, f, t))
                  /\ p.witness.value = f /\ p.witness.threshold = t
                  /\ CircomInput(f) = f /\ CircomInput(t) = t
                  /\ p.compiled.bound = Bound(r, facts)
<1> DEFINE intent == Intent(r, inputs, Thresholds[r])
           capsule == ZkCapsule(facts, 0, 0)
           p == Prove(r, intent, capsule, facts, maxAge)
           f == SlotNumbers(r, Values(r, facts))
           t == InputNumbers(r, Givens(r, inputs))
           c == Compile(intent, facts)
           e == Evaluate(c, inputs, facts, maxAge)
           w == BuildWitness(r, capsule, facts, c.bound, inputs)
           binds == AllBind(r, facts)
           numeric == AllNumeric(r, facts)
           gated == Gated(r, facts, maxAge)
           verdict == Predicate(r, f, t)
           run == CircomRun(r, w)
<1>1. intent.privates = inputs
  BY DEF Intent
<1>2. p = IF c.throws THEN Refused ELSE IF e.throws THEN Refused
          ELSE IF w.thrown \/ ~(ContextBound(w) /\ Included(w)) THEN Refused
          ELSE IF ~run.sat THEN Refused ELSE Shown(r, c, e, w)
  <2> DEFINE e0 == Evaluate(c, intent.privates, facts, maxAge)
             w0 == BuildWitness(r, capsule, facts, c.bound, intent.privates)
  <2>1. e0 = e /\ w0 = w
    BY <1>1
  <2>2. c = Compile(intent, facts) /\ e0 = Evaluate(c, intent.privates, facts, maxAge)
        /\ w0 = BuildWitness(r, capsule, facts, c.bound, intent.privates)
    OBVIOUS
  <2> HIDE DEF c, e0, w0, intent, capsule
  <2>3. p = IF c.throws THEN Refused ELSE IF e0.throws THEN Refused
            ELSE IF w0.thrown \/ ~(ContextBound(w0) /\ Included(w0)) THEN Refused
            ELSE IF ~CircomRun(r, w0).sat THEN Refused ELSE Shown(r, c, e0, w0)
    BY <2>2, ProveStages
  <2> HIDE DEF e, w, p
  <2> QED
    BY <2>1, <2>3
<1>3. c = IF binds THEN [throws |-> FALSE, ast |-> Tree[r].ast, schema |-> Thresholds[r],
                         bound |-> Bound(r, facts), reveal |-> {Decision[r]}, hide |-> DOMAIN inputs]
          ELSE NotCompiled
  BY RecipeCompiles
<1>4. CASE ~binds
  <2>1. c.throws
    BY <1>3, <1>4 DEF NotCompiled
  <2>2. p = Refused
    BY <1>2, <2>1, Zenon
  <2> HIDE DEF p
  <2>3. p.refused
    BY <2>2 DEF Refused
  <2> QED
    BY <1>4, <2>3 DEF p, intent, capsule
<1>5. CASE binds
  <2>1. c = [throws |-> FALSE, ast |-> Tree[r].ast, schema |-> Thresholds[r],
             bound |-> Bound(r, facts), reveal |-> {Decision[r]}, hide |-> DOMAIN inputs]
    BY <1>3, <1>5, Zenon
  <2>2. /\ e.throws <=> gated \/ ~numeric
        /\ ~e.throws => (AsBool(e.revealed[Decision[r]]) <=> verdict)
    <3> HIDE DEF c
    <3> QED
      BY <1>5, <2>1, RecipeEvaluates
  <2>3. c.throws = FALSE /\ c.bound = Bound(r, facts)
    <3> HIDE DEF c
    <3> QED
      BY <2>1
  <2>4. CASE gated \/ ~numeric
    <3>1. e.throws
      BY <2>2, <2>4, Zenon
    <3>2. p = Refused
      BY <1>2, <2>3, <3>1, Zenon
    <3> HIDE DEF p
    <3>3. p.refused
      BY <3>2 DEF Refused
    <3> QED
      BY <2>4, <3>3 DEF p, intent, capsule
  <2>5. CASE ~gated /\ numeric
    <3>1. ~e.throws /\ (AsBool(e.revealed[Decision[r]]) <=> verdict)
      BY <2>2, <2>5, Zenon
    <3>2. w = BuildWitness(r, capsule, facts, Bound(r, facts), inputs)
      BY <2>3, Zenon
    <3>3. /\ w.thrown = FALSE /\ ContextBound(w) /\ Included(w) /\ w.value = f /\ w.threshold = t
          /\ CircomInput(f) = f /\ CircomInput(t) = t /\ run.sat /\ (run.out <=> verdict)
      <4> HIDE DEF w, f, t
      <4> QED
        BY <1>5, <2>5, <3>2, RecipeWitnessed DEF capsule, f, t
    <3>4. p = Shown(r, c, e, w)
      BY <1>2, <2>3, <3>1, <3>3, Zenon
    <3>5. run.out \in BOOLEAN
      <4>1. \A x, y : Circuit(r, x, y).out \in BOOLEAN
        <5> TAKE x, y
        <5>1. BlendCircuit(x, y).out \in BOOLEAN
          BY DEF BlendCircuit
        <5>2. AquariusCircuit(x, y).out \in BOOLEAN
          BY DEF AquariusCircuit
        <5>3. SdexCircuit(x, y).out \in BOOLEAN
          BY DEF SdexCircuit
        <5>4. CompositeCircuit(x, y).out \in BOOLEAN
          BY DEF CompositeCircuit
        <5> QED
          BY <5>1, <5>2, <5>3, <5>4 DEF Circuit, Recipes
      <4> HIDE DEF w
      <4>2. run.out = Circuit(r, CircomInput(w.value), CircomInput(w.threshold)).out
        BY DEF CircomRun
      <4> QED
        BY <4>1, <4>2
    <3> HIDE DEF c, e, w, p, f, t
    <3>6. /\ p.refused = FALSE /\ p.compiled = c /\ p.witness = w
          /\ p.evaluated = AsBool(e.revealed[Decision[r]])
          /\ p.reference = ReferenceEvaluate(r, w)
          /\ p.proved = run.out
      BY <3>4 DEF Shown
    <3>7. ReferenceEvaluate(r, w) <=> verdict
      BY <3>3 DEF ReferenceEvaluate
    <3>8. AsBool(e.revealed[Decision[r]]) \in BOOLEAN /\ ReferenceEvaluate(r, w) \in BOOLEAN
      BY DEF AsBool, ReferenceEvaluate
    <3>9. /\ p.evaluated \in BOOLEAN /\ (p.evaluated <=> verdict)
          /\ p.reference \in BOOLEAN /\ (p.reference <=> verdict)
          /\ p.proved \in BOOLEAN /\ (p.proved <=> verdict)
      <4> HIDE DEF run, verdict
      <4> QED
        BY <3>1, <3>3, <3>5, <3>6, <3>7, <3>8, Zenon
    <3>10. /\ p.witness.value = f /\ p.witness.threshold = t
           /\ p.compiled.bound = Bound(r, facts)
      BY <2>3, <3>3, <3>6
    <3>11. /\ p.refused <=> ~binds \/ ~numeric \/ gated
      BY <1>5, <2>5, <3>6
    <3> HIDE DEF verdict, binds, numeric, gated
    <3>12. /\ p.refused <=> ~binds \/ ~numeric \/ gated
           /\ ~p.refused =>
                  /\ p.evaluated \in BOOLEAN /\ (p.evaluated <=> verdict)
                  /\ p.reference \in BOOLEAN /\ (p.reference <=> verdict)
                  /\ p.proved \in BOOLEAN /\ (p.proved <=> verdict)
                  /\ p.witness.value = f /\ p.witness.threshold = t
                  /\ CircomInput(f) = f /\ CircomInput(t) = t
                  /\ p.compiled.bound = Bound(r, facts)
      BY <3>3, <3>9, <3>10, <3>11
    <3> QED
      BY <3>12, Zenon DEF p, f, t, intent, capsule, verdict, binds, numeric, gated
  <2> QED
    BY <2>4, <2>5, Zenon
<1> QED
  BY <1>4, <1>5, Zenon

-----------------------------------------------------------------------------
(* What the adapters state of the fact paths of the recipes.               *)

FactNames == {"protocol", "entity", "symbol", "field", "value", "confidence", "cites", "age",
              "adapter", "ledger"}
FactSeq(facts) == IsSeq(facts) /\ \A f \in ToSet(facts) : FactNames \subseteq DOMAIN f

\* The values that facts state of a path.
Said(facts, path) == {f.value : f \in {g \in ToSet(facts) : Selects(Selectors[path], g)}}

\* What a list of facts says of a path: of a concatenation,
LEMMA SaidJoin ==
  ASSUME NEW s, NEW t, FactSeq(s), FactSeq(t)
  PROVE  FactSeq(s \o t) /\ \A path : Said(s \o t, path) = Said(s, path) \cup Said(t, path)
<1>1. IsSeq(s \o t) /\ ToSet(s \o t) = ToSet(s) \cup ToSet(t)
  BY JoinSet DEF FactSeq
<1>2. FactSeq(s \o t)
  BY <1>1 DEF FactSeq
<1>3. \A path : Said(s \o t, path) = Said(s, path) \cup Said(t, path)
  BY <1>1 DEF Said
<1> QED
  BY <1>2, <1>3

\* of a conditional part,
LEMMA SaidWhen ==
  ASSUME NEW s, NEW c, c \in BOOLEAN, c => FactSeq(s)
  PROVE  FactSeq(When(c, s)) /\ \A path : Said(When(c, s), path) = IF c THEN Said(s, path) ELSE {}
<1>1. IsSeq(When(c, s)) /\ ToSet(When(c, s)) = IF c THEN ToSet(s) ELSE {}
  BY WhenSet DEF FactSeq
<1>2. FactSeq(When(c, s))
  BY <1>1 DEF FactSeq
<1>3. \A path : Said(When(c, s), path) = IF c THEN Said(s, path) ELSE {}
  BY <1>1 DEF Said
<1> QED
  BY <1>2, <1>3

\* of a flattened list,
LEMMA SaidFlatten ==
  ASSUME NEW n \in Nat, NEW ss, ss = [i \in 1..n |-> ss[i]], \A i \in 1..n : FactSeq(ss[i])
  PROVE  /\ FactSeq(FlattenSeq(ss))
         /\ \A path : Said(FlattenSeq(ss), path) = UNION {Said(ss[i], path) : i \in 1..n}
<1>1. \A i \in 1..n : IsSeq(ss[i])
  BY DEF FactSeq
<1>2. IsSeq(FlattenSeq(ss)) /\ ToSet(FlattenSeq(ss)) = UNION {ToSet(ss[i]) : i \in 1..n}
  BY <1>1, FlattenedSet
<1>3. FactSeq(FlattenSeq(ss))
  BY <1>2 DEF FactSeq
<1>4. ASSUME NEW path PROVE Said(FlattenSeq(ss), path) = UNION {Said(ss[i], path) : i \in 1..n}
  <2>1. ASSUME NEW v \in Said(FlattenSeq(ss), path) PROVE v \in UNION {Said(ss[i], path) : i \in 1..n}
    <3>1. PICK f \in ToSet(FlattenSeq(ss)) : Selects(Selectors[path], f) /\ v = f.value
      BY <2>1 DEF Said
    <3>2. PICK i \in 1..n : f \in ToSet(ss[i])
      BY <1>2, <3>1
    <3> QED
      BY <3>1, <3>2 DEF Said
  <2>2. ASSUME NEW v \in UNION {Said(ss[i], path) : i \in 1..n} PROVE v \in Said(FlattenSeq(ss), path)
    <3>1. PICK i \in 1..n : v \in Said(ss[i], path)
      BY <2>2
    <3>2. PICK f \in ToSet(ss[i]) : Selects(Selectors[path], f) /\ v = f.value
      BY <3>1 DEF Said
    <3>3. f \in ToSet(FlattenSeq(ss))
      BY <1>2, <3>2
    <3> QED
      BY <3>2, <3>3 DEF Said
  <2> QED
    BY <2>1, <2>2
<1> QED
  BY <1>3, <1>4

\* Of a path, the facts of an entity state the values of its field.
Of(pairs, field) == {p[2] : p \in {q \in ToSet(pairs) : q[1] = field}}

\* and of the facts of one entity, whose selector decides.
LEMMA SaidEntity ==
  ASSUME NEW protocol, NEW entity, NEW symbol, NEW pairs, NEW ledger, NEW sources, NEW confidence,
         IsSeq(pairs)
  PROVE  LET facts == EntityFacts(protocol, entity, symbol, pairs, ledger, sources, confidence)
         IN  /\ FactSeq(facts)
             /\ \A path : Said(facts, path)
                  = IF /\ Selectors[path].protocol = protocol /\ Selectors[path].entity = entity
                       /\ (entity = "reserve" => symbol = "USDC")
                    THEN Of(pairs, Selectors[path].field) ELSE {}
<1> DEFINE facts == EntityFacts(protocol, entity, symbol, pairs, ledger, sources, confidence)
           Fact(p) == BuildFact(protocol, entity, symbol, p[1], p[2], ledger, sources, confidence)
<1>1. IsSeq(facts) /\ ToSet(facts) = {Fact(p) : p \in ToSet(pairs)}
  BY EntitySet
<1>2. ASSUME NEW p
      PROVE  /\ Fact(p).protocol = protocol /\ Fact(p).entity = entity /\ Fact(p).symbol = symbol
             /\ Fact(p).field = p[1] /\ Fact(p).value = p[2]
             /\ FactNames \subseteq DOMAIN Fact(p)
  <2>1. FactNames \subseteq DOMAIN Fact(p)
    BY DEF BuildFact, FactNames
  <2> QED
    BY <2>1, FactFields
<1> HIDE DEF facts, Fact
<1>3. FactSeq(facts)
  BY <1>1, <1>2 DEF FactSeq
<1>4. ASSUME NEW path
      PROVE  Said(facts, path)
               = IF /\ Selectors[path].protocol = protocol /\ Selectors[path].entity = entity
                    /\ (entity = "reserve" => symbol = "USDC")
                 THEN Of(pairs, Selectors[path].field) ELSE {}
  <2> DEFINE sel == Selectors[path]
             meets == /\ sel.protocol = protocol /\ sel.entity = entity
                      /\ (entity = "reserve" => symbol = "USDC")
  <2>1. ASSUME NEW p PROVE Selects(sel, Fact(p)) <=> meets /\ p[1] = sel.field
    BY <1>2 DEF Selects
  <2> HIDE DEF sel, meets
  <2>2. {g \in ToSet(facts) : Selects(sel, g)} = {Fact(p) : p \in {q \in ToSet(pairs) : meets /\ q[1] = sel.field}}
    BY <1>1, <2>1
  <2>3. Said(facts, path) = {p[2] : p \in {q \in ToSet(pairs) : meets /\ q[1] = sel.field}}
    <3>1. Said(facts, path) = {f.value : f \in {g \in ToSet(facts) : Selects(sel, g)}}
      BY DEF Said, sel
    <3> QED
      BY <1>2, <2>2, <3>1
  <2>4. Said(facts, path) = IF meets THEN Of(pairs, sel.field) ELSE {}
    BY <2>3 DEF Of
  <2> QED
    BY <2>4 DEF meets, sel
<1> QED
  BY <1>3, <1>4 DEF facts

\* The values a list of pairs gives a field: of a concatenation,
LEMMA OfJoin ==
  ASSUME NEW s, NEW t, IsSeq(s), IsSeq(t), NEW field
  PROVE  Of(s \o t, field) = Of(s, field) \cup Of(t, field)
<1>1. ToSet(s \o t) = ToSet(s) \cup ToSet(t)
  BY JoinSet
<1> QED
  BY <1>1 DEF Of

\* of a conditional part,
LEMMA OfWhen ==
  ASSUME NEW s, NEW c, c \in BOOLEAN, IsSeq(s), NEW field
  PROVE  Of(When(c, s), field) = IF c THEN Of(s, field) ELSE {}
<1>1. ToSet(When(c, s)) = IF c THEN ToSet(s) ELSE {}
  BY WhenSet
<1> QED
  BY <1>1 DEF Of

\* The fact paths of the recipes, by protocol, entity and field.
LEMMA RecipeSelectors ==
  LET Is(path, protocol, entity, field) ==
        /\ Selectors[path].protocol = protocol /\ Selectors[path].entity = entity
        /\ Selectors[path].field = field
  IN  /\ Is("totalBorrowed", "blend", "reserve", "reserve.totalBorrowed")
      /\ Is("totalSupplied", "blend", "reserve", "reserve.totalSupplied")
      /\ Is("isFresh", "blend", "oracle", "oracle.freshness")
      /\ Is("healthAfterAction", "blend", "position", "health.factor")
      /\ Is("estimatedOut", "aquarius", "route", "slippage.estimated_out")
      /\ Is("routeHops", "aquarius", "route", "route.hops")
      /\ Is("pathAvailable", "stellar_dex", "route", "path.available")
      /\ Is("pathEstimatedOut", "stellar_dex", "route", "path.estimated_out")
      /\ Is("spreadBps", "stellar_dex", "market", "market.spread_bps")
  BY DEF Selectors, Selector

\* The health of a position, and its range.
Health(user) ==
  LET c == user.position.collateral
      l == user.position.liabilities
  IN  IF l <= 0 THEN Word("infinite") ELSE Decimal((2 * c * Unit + l) \div (2 * l))

\* of one pair,
LEMMA PairOf ==
  ASSUME NEW a, NEW x, NEW field
  PROVE  Of(<< <<a, x>> >>, field) = IF a = field THEN {x} ELSE {}
<1> DEFINE p == <<a, x>>
<1>1. p[1] = a /\ p[2] = x
  OBVIOUS
<1> HIDE DEF p
<1>2. ToSet(<<p>>) = {p}
  BY DEF ToSet
<1>3. Of(<<p>>, field) = IF a = field THEN {x} ELSE {}
  BY <1>1, <1>2 DEF Of
<1> QED
  BY <1>3 DEF p

\* of two
LEMMA TwoPairsOf ==
  ASSUME NEW a, NEW b, NEW x, NEW y, NEW field
  PROVE  Of(<< <<a, x>>, <<b, y>> >>, field)
           = (IF a = field THEN {x} ELSE {}) \cup (IF b = field THEN {y} ELSE {})
<1> DEFINE p == <<a, x>>
           q == <<b, y>>
<1>1. p[1] = a /\ p[2] = x /\ q[1] = b /\ q[2] = y
  OBVIOUS
<1> HIDE DEF p, q
<1>2. ToSet(<<p, q>>) = {p, q}
  BY DEF ToSet
<1>3. Of(<<p, q>>, field) = (IF a = field THEN {x} ELSE {}) \cup (IF b = field THEN {y} ELSE {})
  BY <1>1, <1>2 DEF Of
<1> QED
  BY <1>3 DEF p, q

\* and of three.
LEMMA ThreePairsOf ==
  ASSUME NEW a, NEW b, NEW c, NEW x, NEW y, NEW z, NEW field
  PROVE  Of(<< <<a, x>>, <<b, y>>, <<c, z>> >>, field)
           = (IF a = field THEN {x} ELSE {}) \cup (IF b = field THEN {y} ELSE {})
               \cup (IF c = field THEN {z} ELSE {})
<1> DEFINE p == <<a, x>>
           q == <<b, y>>
           r == <<c, z>>
<1>1. p[1] = a /\ p[2] = x /\ q[1] = b /\ q[2] = y /\ r[1] = c /\ r[2] = z
  OBVIOUS
<1> HIDE DEF p, q, r
<1>2. ToSet(<<p, q, r>>) = {p, q, r}
  BY DEF ToSet
<1>3. Of(<<p, q, r>>, field) = (IF a = field THEN {x} ELSE {}) \cup (IF b = field THEN {y} ELSE {})
                                 \cup (IF c = field THEN {z} ELSE {})
  BY <1>1, <1>2 DEF Of
<1> QED
  BY <1>3 DEF p, q, r

\* A Blend position says the health factor and nothing else a recipe reads.
LEMMA SaidUser ==
  ASSUME NEW user, NEW sources
  PROVE  /\ FactSeq(UserFacts(user, sources))
         /\ \A path \in RecipePaths :
              Said(UserFacts(user, sources), path) = IF path = "healthAfterAction" THEN {Health(user)} ELSE {}
<1> DEFINE c == Decimal(user.position.collateral)
           l == Decimal(user.position.liabilities)
           h == Health(user)
           pairs == << <<"health.factor", h>>, <<"borrow.limit", c>>, <<"borrow.used", l>> >>
           facts == UserFacts(user, sources)
<1>1. facts = EntityFacts("blend", "position", "", pairs, LoadPool(user.pool).ledger, sources, "high")
  BY DEF UserFacts, Health
<1> HIDE DEF c, l, h
<1>2. IsSeq(pairs)
  BY TupleSet
<1>3. \A field : Of(pairs, field) = (IF "health.factor" = field THEN {h} ELSE {})
                   \cup (IF "borrow.limit" = field THEN {c} ELSE {})
                   \cup (IF "borrow.used" = field THEN {l} ELSE {})
  <2> TAKE field
  <2> QED
    BY ThreePairsOf
<1> HIDE DEF pairs, facts
<1>4. FactSeq(facts) /\ \A path : Said(facts, path)
        = IF Selectors[path].protocol = "blend" /\ Selectors[path].entity = "position"
          THEN Of(pairs, Selectors[path].field) ELSE {}
  <2> DEFINE all == EntityFacts("blend", "position", "", pairs, LoadPool(user.pool).ledger, sources, "high")
  <2>1. /\ FactSeq(all)
        /\ \A path : Said(all, path)
             = IF /\ Selectors[path].protocol = "blend" /\ Selectors[path].entity = "position"
                  /\ ("position" = "reserve" => "" = "USDC")
               THEN Of(pairs, Selectors[path].field) ELSE {}
    BY <1>2, SaidEntity, Zenon
  <2> HIDE DEF all
  <2> QED
    BY <1>1, <2>1 DEF all
<1>5. \A path \in RecipePaths : Said(facts, path) = IF path = "healthAfterAction" THEN {h} ELSE {}
  BY <1>3, <1>4, RecipeSelectors, RecipeNames
<1> QED
  BY <1>4, <1>5 DEF facts, h

\* The health factor of a position that was read is in its range, or infinite.
LEMMA HealthRange ==
  ASSUME NEW user \in UserAnswers, FetchedUser(user)
  PROVE  Health(user) \in FactRange("healthAfterAction")
<1> DEFINE c == user.position.collateral
           l == user.position.liabilities
           x == c * Unit
           q == (2 * c * Unit + l) \div (2 * l)
<1>1. c \in 0..MaxAmount /\ l \in 0..MaxAmount
  <2>1. user.position \in OrThrown([ok : {TRUE}, collateral : 0..MaxAmount, liabilities : 0..MaxAmount])
    BY DEF UserAnswers
  <2>2. \A y \in [ok : {TRUE}, collateral : 0..MaxAmount, liabilities : 0..MaxAmount] : y.ok = TRUE
    OBVIOUS
  <2>3. user.position \in [ok : {TRUE}, collateral : 0..MaxAmount, liabilities : 0..MaxAmount]
    BY <2>1, <2>2, ThrownOrNot DEF FetchedUser
  <2> QED
    BY <2>3
<1>2. MaxAmount \in Nat /\ Unit \in Nat
  BY RangesFit, FactsAssumption
<1>3. FactRange("healthAfterAction")
        = {Word("infinite")} \cup {Decimal(k) : k \in 0..(MaxAmount * Unit)}
  BY DEF FactRange
<1>4. Health(user) = IF l <= 0 THEN Word("infinite") ELSE Decimal(q)
  BY DEF Health
<1>5. ASSUME l > 0 PROVE q \in 0..(MaxAmount * Unit)
  <2> DEFINE num == 2 * c * Unit + l
             den == 2 * l
  <2>1. x \in Nat /\ x <= MaxAmount * Unit /\ MaxAmount * Unit \in Nat
    <3>1. PICK d \in Nat : MaxAmount = c + d
      <4>1. MaxAmount - c \in Nat
        BY <1>1, <1>2
      <4> QED
        BY <4>1, <1>1, <1>2
    <3>2. MaxAmount * Unit = c * Unit + d * Unit /\ c * Unit \in Nat /\ d * Unit \in Nat
      BY <1>1, <1>2, <3>1
    <3> QED
      BY <3>2
  <2>2. num = 2 * x + l
    BY <1>1, <1>2
  <2>3. num \in Nat /\ den \in Nat \ {0}
    BY <1>1, <1>5, <2>1, <2>2
  <2> HIDE DEF num
  <2>4. q \in Nat /\ num = den * q + (num % den) /\ num % den \in 0..(den - 1)
    <3>1. q = num \div den
      BY DEF num
    <3> HIDE DEF q, den
    <3> QED
      BY <2>3, <3>1, Z3
  <2> DEFINE m == num % den
  <2>5. m \in Nat /\ 2 * x + l = den * q + m
    BY <2>2, <2>3, <2>4
  <2> HIDE DEF m, q, x, c
  <2>6. q <= x
    <3> SUFFICES ASSUME x < q PROVE FALSE
      BY <2>1, <2>4
    <3>1. PICK k \in Nat : q = x + 1 + k
      <4>1. q - x - 1 \in Nat
        BY <2>1, <2>4
      <4> QED
        BY <4>1, <2>1, <2>4
    <3>2. PICK j \in Nat : l = 1 + j
      <4>1. l - 1 \in Nat
        BY <1>1, <1>5
      <4> QED
        BY <4>1, <1>1
    <3>3. l * q = x + 1 + k + j * x + j + j * k /\ j * x \in Nat /\ j * k \in Nat
      BY <2>1, <3>1, <3>2
    <3>4. den * q = 2 * (l * q)
      BY <1>1, <2>4
    <3> DEFINE lq == l * q
               dq == den * q
               jx == j * x
               jk == j * k
    <3>5. lq = x + 1 + k + jx + j + jk /\ jx \in Nat /\ jk \in Nat
      BY <3>3
    <3>6. dq = 2 * lq /\ 2 * x + l = dq + m
      BY <2>5, <3>4
    <3> HIDE DEF den, l, lq, dq, jx, jk
    <3> QED
      BY <2>1, <2>5, <3>1, <3>2, <3>5, <3>6
  <2> QED
    BY <2>1, <2>4, <2>6
<1>6. CASE l <= 0
  BY <1>3, <1>4, <1>6
<1>7. CASE l > 0
  <2>1. Health(user) = Decimal(q) /\ q \in 0..(MaxAmount * Unit)
    BY <1>1, <1>2, <1>4, <1>5, <1>7
  <2> HIDE DEF q
  <2> QED
    BY <1>3, <2>1
<1> QED
  BY <1>1, <1>2, <1>6, <1>7

\* The USDC reserves of a pool whose network knows the asset.
UsdcReserves(pool) ==
  {r \in ToSet(pool.reserves) : r.asset = "USDC" /\ "USDC" \in pool.registry}
PoolSays(pool, path) ==
  CASE path = "totalBorrowed" -> {r.borrowed : r \in UsdcReserves(pool)}
    [] path = "totalSupplied" -> {r.supplied : r \in UsdcReserves(pool)}
    [] path = "isFresh" -> {Word(IF pool.oracle.ok THEN "fresh" ELSE "unknown")}
    [] OTHER -> {}

\* The reserve of USDC says what is borrowed and supplied; another reserve
\* says nothing a recipe reads.
LEMMA SaidReserve ==
  ASSUME NEW r \in Reserves, NEW symbol, NEW ledger, NEW sources
  PROVE  LET facts == EntityFacts("blend", "reserve", symbol, ReservePairs(r), ledger, sources, "high")
         IN  /\ FactSeq(facts)
             /\ \A path \in RecipePaths : Said(facts, path)
                  = IF symbol = "USDC" /\ path = "totalBorrowed" THEN {r.borrowed}
                    ELSE IF symbol = "USDC" /\ path = "totalSupplied" THEN {r.supplied} ELSE {}
<1> DEFINE facts == EntityFacts("blend", "reserve", symbol, ReservePairs(r), ledger, sources, "high")
           three == << <<"pool.utilization", r.utilization>>, <<"reserve.totalSupplied", r.supplied>>,
                       <<"reserve.totalBorrowed", r.borrowed>> >>
<1>1. IsSeq(r.extras) /\ ToSet(r.extras) \subseteq ExtraFields \X Printed
  BY ExtrasSeq
<1>2. IsSeq(three)
  BY TupleSet
<1>3. IsSeq(ReservePairs(r))
  BY <1>1, <1>2, JoinSet DEF ReservePairs
<1>4. \A field : Of(ReservePairs(r), field) = Of(three, field) \cup Of(r.extras, field)
  BY <1>1, <1>2, OfJoin DEF ReservePairs
<1>5. \A field : field \notin ExtraFields => Of(r.extras, field) = {}
  <2>1. \A p \in ToSet(r.extras) : p[1] \in ExtraFields
    BY <1>1
  <2> QED
    BY <2>1 DEF Of
<1>6. \A field : Of(three, field) = (IF "pool.utilization" = field THEN {r.utilization} ELSE {})
        \cup (IF "reserve.totalSupplied" = field THEN {r.supplied} ELSE {})
        \cup (IF "reserve.totalBorrowed" = field THEN {r.borrowed} ELSE {})
  <2> TAKE field
  <2> QED
    BY ThreePairsOf
<1> HIDE DEF three
<1>7. /\ Of(ReservePairs(r), "reserve.totalBorrowed") = {r.borrowed}
      /\ Of(ReservePairs(r), "reserve.totalSupplied") = {r.supplied}
  <2>1. "reserve.totalBorrowed" \notin ExtraFields /\ "reserve.totalSupplied" \notin ExtraFields
    BY DEF ExtraFields
  <2> QED
    BY <1>4, <1>5, <1>6, <2>1
<1>8. FactSeq(facts) /\ \A path : Said(facts, path)
        = IF /\ Selectors[path].protocol = "blend" /\ Selectors[path].entity = "reserve"
             /\ symbol = "USDC"
          THEN Of(ReservePairs(r), Selectors[path].field) ELSE {}
  BY <1>3, SaidEntity
<1> HIDE DEF facts
<1>9. \A path \in RecipePaths : Said(facts, path)
        = IF symbol = "USDC" /\ path = "totalBorrowed" THEN {r.borrowed}
          ELSE IF symbol = "USDC" /\ path = "totalSupplied" THEN {r.supplied} ELSE {}
  BY <1>7, <1>8, RecipeSelectors, RecipeNames
<1> QED
  BY <1>8, <1>9 DEF facts

\* A fact of one field states its value, and no path of a recipe but its own.
LEMMA SaidOne ==
  ASSUME NEW protocol, NEW entity, NEW field, NEW value, NEW ledger, NEW sources, NEW confidence,
         entity # "reserve"
  PROVE  LET facts == EntityFacts(protocol, entity, "", << <<field, value>> >>, ledger, sources, confidence)
         IN  /\ FactSeq(facts)
             /\ \A path : Said(facts, path)
                  = IF /\ Selectors[path].protocol = protocol /\ Selectors[path].entity = entity
                       /\ Selectors[path].field = field
                    THEN {value} ELSE {}
<1> DEFINE pairs == << <<field, value>> >>
           facts == EntityFacts(protocol, entity, "", pairs, ledger, sources, confidence)
<1>1. IsSeq(pairs)
  BY TupleSet
<1>2. \A name : Of(pairs, name) = IF field = name THEN {value} ELSE {}
  <2> TAKE name
  <2> QED
    BY PairOf
<1> HIDE DEF pairs
<1>3. FactSeq(facts) /\ \A path : Said(facts, path)
        = IF /\ Selectors[path].protocol = protocol /\ Selectors[path].entity = entity
             /\ (entity = "reserve" => "" = "USDC")
          THEN Of(pairs, Selectors[path].field) ELSE {}
  BY <1>1, SaidEntity, Zenon
<1> HIDE DEF facts
<1>4. \A path : Said(facts, path)
        = IF /\ Selectors[path].protocol = protocol /\ Selectors[path].entity = entity
             /\ Selectors[path].field = field
          THEN {value} ELSE {}
  BY <1>2, <1>3
<1> QED
  BY <1>3, <1>4 DEF facts, pairs

\* What a Blend pool's facts say of the paths of the recipes.
LEMMA SaidPool ==
  ASSUME NEW pool \in PoolAnswers, NEW sources
  PROVE  /\ FactSeq(PoolFacts(pool, sources))
         /\ \A path \in RecipePaths : Said(PoolFacts(pool, sources), path) = PoolSays(pool, path)
<1> DEFINE Label(asset) == IF asset \in pool.registry THEN asset ELSE "contract"
           Entity(r) == EntityFacts("blend", "reserve", Label(r.asset), ReservePairs(r),
                                    pool.ledger, sources, "high")
           n == Len(pool.reserves)
           parts == [i \in 1..n |-> Entity(pool.reserves[i])]
           One(entity, field, value, ledger, confidence) ==
             EntityFacts("blend", entity, "", << <<field, value>> >>, ledger, sources, confidence)
           fresh == pool.oracle.ok
           status == BackstopStatus(pool.backstop)
           a == One("pool", "pool.status", Word(MapStatus(pool.status)), pool.ledger, "high")
           w == Word(IF fresh THEN "fresh" ELSE "unknown")
           led == IF fresh THEN pool.oracle.ledger ELSE NoLedger
           con == IF fresh THEN "high" ELSE "low"
           b == One("oracle", "oracle.freshness", w, led, con)
           c == One("backstop", "backstop.status", Word(status), pool.ledger,
                    IF status = "unknown" THEN "low" ELSE "high")
           d == One("backstop", "backstop.value", Decimal(pool.backstop.value), pool.ledger, "high")
           all == ReserveFacts(pool, sources)
<1>1. /\ n \in Nat /\ pool.backstop.ok \in BOOLEAN
      /\ DOMAIN pool.reserves = 1..n /\ \A i \in 1..n : pool.reserves[i] \in Reserves
  BY PoolParts
<1>2. all = FlattenSeq(parts)
  BY PoolParts DEF ReserveFacts, ReservePairs
<1>3. ASSUME NEW i \in 1..n
      PROVE  /\ FactSeq(parts[i])
             /\ \A path \in RecipePaths : Said(parts[i], path)
                  = LET r == pool.reserves[i]
                        known == r.asset = "USDC" /\ "USDC" \in pool.registry
                    IN  IF known /\ path = "totalBorrowed" THEN {r.borrowed}
                        ELSE IF known /\ path = "totalSupplied" THEN {r.supplied} ELSE {}
  <2> DEFINE r == pool.reserves[i]
  <2>1. r \in Reserves /\ parts[i] = Entity(r)
    BY <1>1
  <2>2. Label(r.asset) = "USDC" <=> r.asset = "USDC" /\ "USDC" \in pool.registry
    OBVIOUS
  <2> HIDE DEF r, Label, parts
  <2>3. /\ FactSeq(Entity(r))
        /\ \A path \in RecipePaths : Said(Entity(r), path)
                  = IF Label(r.asset) = "USDC" /\ path = "totalBorrowed" THEN {r.borrowed}
                    ELSE IF Label(r.asset) = "USDC" /\ path = "totalSupplied" THEN {r.supplied} ELSE {}
    BY <2>1, SaidReserve, Zenon
  <2> HIDE DEF Entity
  <2>4. /\ FactSeq(parts[i])
        /\ \A path \in RecipePaths : Said(parts[i], path)
              = IF r.asset = "USDC" /\ "USDC" \in pool.registry /\ path = "totalBorrowed" THEN {r.borrowed}
                ELSE IF r.asset = "USDC" /\ "USDC" \in pool.registry /\ path = "totalSupplied"
                     THEN {r.supplied} ELSE {}
    BY <2>1, <2>2, <2>3
  <2> QED
    BY <2>4 DEF r
<1>4. parts = [i \in 1..n |-> parts[i]]
  OBVIOUS
<1>5. ToSet(pool.reserves) = {pool.reserves[i] : i \in 1..n}
  BY <1>1 DEF ToSet
<1> HIDE DEF parts, all
<1>6. FactSeq(all) /\ \A path : Said(all, path) = UNION {Said(parts[i], path) : i \in 1..n}
  BY <1>1, <1>2, <1>3, <1>4, SaidFlatten
<1> HIDE DEF n
<1>7. /\ Said(all, "totalBorrowed") = {r.borrowed : r \in UsdcReserves(pool)}
      /\ Said(all, "totalSupplied") = {r.supplied : r \in UsdcReserves(pool)}
  <2>1. "totalBorrowed" \in RecipePaths /\ "totalSupplied" \in RecipePaths
    BY RecipeNames
  <2> DEFINE Known(r) == r.asset = "USDC" /\ "USDC" \in pool.registry
  <2>2. \A i \in 1..n :
          /\ Said(parts[i], "totalBorrowed")
               = IF Known(pool.reserves[i]) THEN {pool.reserves[i].borrowed} ELSE {}
          /\ Said(parts[i], "totalSupplied")
               = IF Known(pool.reserves[i]) THEN {pool.reserves[i].supplied} ELSE {}
    <3> TAKE i \in 1..n
    <3>1. \A path \in RecipePaths : Said(parts[i], path)
            = IF Known(pool.reserves[i]) /\ path = "totalBorrowed" THEN {pool.reserves[i].borrowed}
              ELSE IF Known(pool.reserves[i]) /\ path = "totalSupplied"
                   THEN {pool.reserves[i].supplied} ELSE {}
      BY <1>3, Zenon
    <3> HIDE DEF Known
    <3> QED
      BY <2>1, <3>1
  <2>3. UsdcReserves(pool) = {pool.reserves[i] : i \in {j \in 1..n : Known(pool.reserves[j])}}
    BY <1>5 DEF UsdcReserves
  <2> HIDE DEF Known
  <2> DEFINE hits == {j \in 1..n : Known(pool.reserves[j])}
  <2>4. Said(all, "totalBorrowed") = {pool.reserves[i].borrowed : i \in hits}
    <3>1. Said(all, "totalBorrowed") = UNION {Said(parts[i], "totalBorrowed") : i \in 1..n}
      BY <1>6
    <3>2. ASSUME NEW v
          PROVE  v \in Said(all, "totalBorrowed") <=> \E i \in hits : v = pool.reserves[i].borrowed
      <4>1. v \in Said(all, "totalBorrowed") <=> \E i \in 1..n : v \in Said(parts[i], "totalBorrowed")
        BY <3>1
      <4>2. \A i \in 1..n :
              v \in Said(parts[i], "totalBorrowed") <=> i \in hits /\ v = pool.reserves[i].borrowed
        BY <2>2
      <4>3. hits \subseteq 1..n
        OBVIOUS
      <4> HIDE DEF hits
      <4> QED
        BY <4>1, <4>2, <4>3
    <3> HIDE DEF hits
    <3> QED
      BY <3>2
  <2>5. Said(all, "totalSupplied") = {pool.reserves[i].supplied : i \in hits}
    <3>1. Said(all, "totalSupplied") = UNION {Said(parts[i], "totalSupplied") : i \in 1..n}
      BY <1>6
    <3>2. ASSUME NEW v
          PROVE  v \in Said(all, "totalSupplied") <=> \E i \in hits : v = pool.reserves[i].supplied
      <4>1. v \in Said(all, "totalSupplied") <=> \E i \in 1..n : v \in Said(parts[i], "totalSupplied")
        BY <3>1
      <4>2. \A i \in 1..n :
              v \in Said(parts[i], "totalSupplied") <=> i \in hits /\ v = pool.reserves[i].supplied
        BY <2>2
      <4>3. hits \subseteq 1..n
        OBVIOUS
      <4> HIDE DEF hits
      <4> QED
        BY <4>1, <4>2, <4>3
    <3> HIDE DEF hits
    <3> QED
      BY <3>2
  <2> HIDE DEF hits
  <2>6. UsdcReserves(pool) = {pool.reserves[i] : i \in hits}
    BY <2>3 DEF hits
  <2>7. /\ {r.borrowed : r \in UsdcReserves(pool)} = {pool.reserves[i].borrowed : i \in hits}
        /\ {r.supplied : r \in UsdcReserves(pool)} = {pool.reserves[i].supplied : i \in hits}
    BY <2>6
  <2> QED
    BY <2>4, <2>5, <2>7
<1>8. \A path \in RecipePaths : path \notin {"totalBorrowed", "totalSupplied"} => Said(all, path) = {}
  <2> SUFFICES ASSUME NEW path \in RecipePaths, path \notin {"totalBorrowed", "totalSupplied"}
               PROVE  Said(all, path) = {}
    OBVIOUS
  <2>1. \A i \in 1..n : Said(parts[i], path) = {}
    BY <1>3, Zenon
  <2> QED
    BY <1>6, <2>1
<1>9. PoolFacts(pool, sources) = (((a \o all) \o b) \o c) \o When(pool.backstop.ok, d)
  BY DEF PoolFacts, all
<1>10. ASSUME NEW entity, NEW field, NEW value, NEW ledger, NEW confidence, entity # "reserve"
       PROVE  /\ FactSeq(One(entity, field, value, ledger, confidence))
              /\ \A path : Said(One(entity, field, value, ledger, confidence), path)
                   = IF /\ Selectors[path].protocol = "blend" /\ Selectors[path].entity = entity
                        /\ Selectors[path].field = field
                     THEN {value} ELSE {}
  BY <1>10, SaidOne, Zenon
<1> HIDE DEF One, status
<1>11. /\ FactSeq(a) /\ FactSeq(b) /\ FactSeq(c) /\ FactSeq(d)
       /\ \A path : Said(b, path) = IF /\ Selectors[path].protocol = "blend"
                                       /\ Selectors[path].entity = "oracle"
                                       /\ Selectors[path].field = "oracle.freshness"
                                    THEN {w} ELSE {}
       /\ \A path : Said(a, path) # {} => Selectors[path].entity = "pool"
       /\ \A path : Said(c, path) # {} => Selectors[path].entity = "backstop"
       /\ \A path : Said(d, path) # {} => Selectors[path].entity = "backstop"
  <2> HIDE DEF w, fresh, led, con
  <2>1. /\ FactSeq(a) /\ \A path : Said(a, path) # {} => Selectors[path].entity = "pool"
    BY <1>10
  <2>2. /\ FactSeq(c) /\ \A path : Said(c, path) # {} => Selectors[path].entity = "backstop"
    BY <1>10
  <2>3. /\ FactSeq(d) /\ \A path : Said(d, path) # {} => Selectors[path].entity = "backstop"
    BY <1>10
  <2>4. /\ FactSeq(b)
        /\ \A path : Said(b, path) = IF /\ Selectors[path].protocol = "blend"
                                        /\ Selectors[path].entity = "oracle"
                                        /\ Selectors[path].field = "oracle.freshness"
                                     THEN {w} ELSE {}
    BY <1>10
  <2> QED
    BY <2>1, <2>2, <2>3, <2>4
<1> HIDE DEF a, b, c, d
<1>12. \A path \in RecipePaths :
         /\ Said(a, path) = {} /\ Said(c, path) = {} /\ Said(d, path) = {}
         /\ Said(b, path) = IF path = "isFresh" THEN {w} ELSE {}
  <2>1. \A path \in RecipePaths :
          /\ Selectors[path].entity \notin {"pool", "backstop"}
          /\ (Selectors[path].protocol = "blend" /\ Selectors[path].entity = "oracle"
               /\ Selectors[path].field = "oracle.freshness") <=> path = "isFresh"
    BY RecipeSelectors, RecipeNames
  <2> HIDE DEF w
  <2> QED
    BY <1>11, <2>1
<1>13. FactSeq(When(pool.backstop.ok, d)) /\ \A path \in RecipePaths : Said(When(pool.backstop.ok, d), path) = {}
  BY <1>1, <1>11, <1>12, SaidWhen
<1> DEFINE e == When(pool.backstop.ok, d)
<1> HIDE DEF e
<1>14. FactSeq(a \o all) /\ \A path : Said(a \o all, path) = Said(a, path) \cup Said(all, path)
  BY <1>6, <1>11, SaidJoin
<1>15. /\ FactSeq((a \o all) \o b)
       /\ \A path : Said((a \o all) \o b, path) = Said(a, path) \cup Said(all, path) \cup Said(b, path)
  BY <1>11, <1>14, SaidJoin
<1>16. /\ FactSeq(((a \o all) \o b) \o c)
       /\ \A path : Said(((a \o all) \o b) \o c, path)
                      = Said(a, path) \cup Said(all, path) \cup Said(b, path) \cup Said(c, path)
  BY <1>11, <1>15, SaidJoin
<1>17. /\ FactSeq((((a \o all) \o b) \o c) \o e)
       /\ \A path : Said((((a \o all) \o b) \o c) \o e, path)
                      = Said(a, path) \cup Said(all, path) \cup Said(b, path) \cup Said(c, path) \cup Said(e, path)
  BY <1>13, <1>16, SaidJoin DEF e
<1>18. \A path \in RecipePaths : Said(PoolFacts(pool, sources), path)
                                   = Said(all, path) \cup Said(b, path)
  BY <1>9, <1>12, <1>13, <1>17 DEF e
<1>19. \A path \in RecipePaths : Said(PoolFacts(pool, sources), path) = PoolSays(pool, path)
  <2>1. Said(PoolFacts(pool, sources), "totalBorrowed") = PoolSays(pool, "totalBorrowed")
    BY <1>7, <1>12, <1>18, RecipeNames DEF PoolSays
  <2>2. Said(PoolFacts(pool, sources), "totalSupplied") = PoolSays(pool, "totalSupplied")
    BY <1>7, <1>12, <1>18, RecipeNames DEF PoolSays
  <2>3. Said(PoolFacts(pool, sources), "isFresh") = PoolSays(pool, "isFresh")
    BY <1>8, <1>12, <1>18, RecipeNames DEF PoolSays
  <2>4. \A path \in RecipePaths : path \notin {"totalBorrowed", "totalSupplied", "isFresh"} =>
          Said(PoolFacts(pool, sources), path) = {} /\ PoolSays(pool, path) = {}
    BY <1>8, <1>12, <1>18 DEF PoolSays
  <2> QED
    BY <2>1, <2>2, <2>3, <2>4
<1> QED
  BY <1>9, <1>17, <1>19 DEF e

\* What a swap's estimate, a path search and a book state.
BestQuote(r) == r.pools[BestPool(r.pools, Priced(r))].quote
SwapSays(r, path) ==
  CASE path = "estimatedOut" /\ Priced(r) # {} -> {Decimal(BestQuote(r).out * Unit)}
    [] path = "routeHops" /\ Priced(r) # {} -> {Decimal(Unit)}
    [] OTHER -> {}
PathSays(r, path) ==
  CASE path = "pathAvailable" -> {Flag(r.paths # <<>>)}
    [] path = "pathEstimatedOut" /\ r.paths # <<>> -> {Decimal(r.paths[1].out)}
    [] OTHER -> {}
BookSays(r, path) ==
  IF path = "spreadBps" /\ r.bids # <<>> /\ r.asks # <<>>
  THEN {Decimal(Spread(r.bids[1].price, r.asks[1].price) * Unit)} ELSE {}

\* What the facts of a route say,
LEMMA SaidRoute ==
  ASSUME NEW pairs, NEW ledger, NEW sources, IsSeq(pairs)
  PROVE  /\ FactSeq(RouteFacts(pairs, ledger, sources))
         /\ \A path \in RecipePaths : Said(RouteFacts(pairs, ledger, sources), path)
              = CASE path = "estimatedOut" -> Of(pairs, "slippage.estimated_out")
                  [] path = "routeHops" -> Of(pairs, "route.hops")
                  [] OTHER -> {}
<1> DEFINE facts == RouteFacts(pairs, ledger, sources)
<1>1. FactSeq(facts) /\ \A path : Said(facts, path)
        = IF /\ Selectors[path].protocol = "aquarius" /\ Selectors[path].entity = "route"
             /\ ("route" = "reserve" => "" = "USDC")
          THEN Of(pairs, Selectors[path].field) ELSE {}
  <2> DEFINE all == EntityFacts("aquarius", "route", "", pairs, ledger, sources, "high")
  <2>1. /\ FactSeq(all)
        /\ \A path : Said(all, path)
             = IF /\ Selectors[path].protocol = "aquarius" /\ Selectors[path].entity = "route"
                  /\ ("route" = "reserve" => "" = "USDC")
               THEN Of(pairs, Selectors[path].field) ELSE {}
    BY SaidEntity, Zenon
  <2>2. facts = all
    BY DEF RouteFacts
  <2> HIDE DEF all, facts
  <2> QED
    BY <2>1, <2>2
<1> HIDE DEF facts
<1>2. \A path \in RecipePaths : Said(facts, path)
              = CASE path = "estimatedOut" -> Of(pairs, "slippage.estimated_out")
                  [] path = "routeHops" -> Of(pairs, "route.hops")
                  [] OTHER -> {}
  BY <1>1, RecipeSelectors, RecipeNames
<1> QED
  BY <1>1, <1>2 DEF facts

\* what those of a quoted route say:
LEMMA SaidQuoted ==
  ASSUME NEW pool \in SwapPools, NEW slip, NEW sources
  PROVE  /\ FactSeq(QuotedRoute(pool, slip, sources))
         /\ \A path \in RecipePaths : Said(QuotedRoute(pool, slip, sources), path)
              = CASE path = "estimatedOut" -> {Decimal(pool.quote.out * Unit)}
                  [] path = "routeHops" -> {Decimal(Unit)}
                  [] OTHER -> {}
<1> DEFINE x == Decimal(pool.quote.out * Unit)
           y == Decimal(Unit)
           z == Word("pool")
           u == Decimal(slip * Unit)
           p == << <<"slippage.estimated_out", x>> >>
           q == << <<"route.hops", y>>, <<"route.pool_id", z>> >>
           t == << <<"slippage.estimated", u>> >>
           given == pool.ref.ok /\ pool.ref.out > 0
           a == RouteFacts(p, pool.quote.ledger, sources)
           b == RouteFacts(q, NoLedger, sources)
           c == RouteFacts(t, pool.quote.ledger, sources)
           all == QuotedRoute(pool, slip, sources)
<1>1. all = (a \o b) \o When(given, c)
  BY DEF QuotedRoute
<1>2. given \in BOOLEAN
  OBVIOUS
<1> HIDE DEF x, y, z, u, given, all
<1>3. IsSeq(p) /\ IsSeq(q) /\ IsSeq(t)
  BY TupleSet
<1>4. \A field : Of(p, field) = IF "slippage.estimated_out" = field THEN {x} ELSE {}
  <2> TAKE field
  <2> QED
    BY PairOf
<1>5. \A field : Of(q, field) = (IF "route.hops" = field THEN {y} ELSE {})
                                   \cup (IF "route.pool_id" = field THEN {z} ELSE {})
  <2> TAKE field
  <2> QED
    BY TwoPairsOf
<1>6. \A field : Of(t, field) = IF "slippage.estimated" = field THEN {u} ELSE {}
  <2> TAKE field
  <2> QED
    BY PairOf
<1> HIDE DEF p, q, t
<1>7. /\ FactSeq(a) /\ FactSeq(b) /\ FactSeq(c)
      /\ \A path \in RecipePaths :
           /\ Said(a, path) = IF path = "estimatedOut" THEN {x} ELSE {}
           /\ Said(b, path) = IF path = "routeHops" THEN {y} ELSE {}
           /\ Said(c, path) = {}
  <2>1. FactSeq(a) /\ \A path \in RecipePaths : Said(a, path) = IF path = "estimatedOut" THEN {x} ELSE {}
    BY <1>3, <1>4, SaidRoute
  <2>2. FactSeq(b) /\ \A path \in RecipePaths : Said(b, path) = IF path = "routeHops" THEN {y} ELSE {}
    BY <1>3, <1>5, SaidRoute
  <2>3. FactSeq(c) /\ \A path \in RecipePaths : Said(c, path) = {}
    BY <1>3, <1>6, SaidRoute
  <2> QED
    BY <2>1, <2>2, <2>3
<1> HIDE DEF a, b, c
<1>8. FactSeq(When(given, c)) /\ \A path \in RecipePaths : Said(When(given, c), path) = {}
  BY <1>2, <1>7, SaidWhen
<1>9. FactSeq(a \o b) /\ \A path : Said(a \o b, path) = Said(a, path) \cup Said(b, path)
  BY <1>7, SaidJoin
<1> DEFINE d == When(given, c)
           ab == a \o b
<1> HIDE DEF d, ab
<1>10. FactSeq(ab \o d) /\ \A path : Said(ab \o d, path) = Said(ab, path) \cup Said(d, path)
  BY <1>8, <1>9, SaidJoin DEF d, ab
<1>11. all = ab \o d
  BY <1>1 DEF d, ab
<1>12. \A path \in RecipePaths : Said(all, path) = Said(a, path) \cup Said(b, path)
  BY <1>8, <1>9, <1>10, <1>11 DEF d, ab
<1>13. \A path \in RecipePaths : Said(all, path)
         = CASE path = "estimatedOut" -> {x} [] path = "routeHops" -> {y} [] OTHER -> {}
  BY <1>7, <1>12
<1> QED
  BY <1>10, <1>11, <1>13 DEF all, x, y

\* the pool of the route says nothing a recipe reads.
LEMMA SaidRoutePool ==
  ASSUME NEW info, NEW own, info.type.ok \in BOOLEAN
  PROVE  /\ FactSeq(RoutePool(info, own))
         /\ \A path \in RecipePaths : Said(RoutePool(info, own), path) = {}
<1> DEFINE x == Word(info.type.value)
           y == Decimal(info.type.fee * Unit)
           pairs == << <<"pool.type", x>>, <<"pool.fee_bps", y>> >>
           facts == RouteFacts(pairs, NoLedger, own)
<1>1. RoutePool(info, own) = When(info.type.ok, facts)
  BY DEF RoutePool
<1> HIDE DEF x, y
<1>2. IsSeq(pairs)
  BY TupleSet
<1>3. \A field : Of(pairs, field) = (IF "pool.type" = field THEN {x} ELSE {})
                                       \cup (IF "pool.fee_bps" = field THEN {y} ELSE {})
  <2> TAKE field
  <2> QED
    BY TwoPairsOf
<1> HIDE DEF pairs
<1>4. FactSeq(facts) /\ \A path \in RecipePaths : Said(facts, path) = {}
  BY <1>2, <1>3, SaidRoute
<1> HIDE DEF facts
<1> QED
  BY <1>1, <1>4, SaidWhen

\* What estimateSwap's context says of the paths of the recipes.
LEMMA SaidSwap ==
  ASSUME NEW r \in SwapCall
  PROVE  LET c == EstimateSwap(r, AmountIn)
         IN  /\ c.ok = TRUE /\ FactSeq(c.facts)
             /\ \A path \in RecipePaths : Said(c.facts, path) = SwapSays(r, path)
<1> DEFINE found == <<Record("get_pools", 1, "aquarius", r.ledger)>>
           priced == Priced(r)
           best == BestPool(r.pools, priced)
           pool == r.pools[best]
           Quote(i) == When(i \in priced,
                            <<Record("estimate_swap", i, "aquarius", r.pools[i].quote.ledger)>>)
           quotes == found \o FlattenSeq([i \in DOMAIN r.pools |-> Quote(i)])
           sources == quotes \o When(pool.ref.ok,
                        <<Record("estimate_swap:ref", best, "aquarius", pool.ref.ledger)>>)
           small == IF AmountIn \div 1000 > 1 THEN AmountIn \div 1000 ELSE 1
           slip == Slippage((AmountIn * pool.ref.out) \div small, pool.quote.out)
           own == InfoSources(best, pool.info)
           failed == IF priced # DOMAIN r.pools THEN {"estimate failed"} ELSE {}
           flag == Flag(FALSE)
           none == << <<"route.available", flag>> >>
           c == EstimateSwap(r, AmountIn)
<1>1. c = IF priced = {}
          THEN Context(RouteFacts(none, NoLedger, quotes), quotes, failed \cup {"no route"})
          ELSE Context(QuotedRoute(pool, slip, sources) \o RoutePool(pool.info, own),
                       sources \o own, failed \cup (IF pool.ref.ok THEN {} ELSE {"no reference"}))
  BY DEF EstimateSwap, Priced
<1> HIDE DEF quotes, sources, slip, own, failed, flag
<1>2. CASE priced = {}
  <2> DEFINE e == RouteFacts(none, NoLedger, quotes)
             warned == failed \cup {"no route"}
  <2>0. c = Context(e, quotes, warned)
    BY <1>1, <1>2, Zenon
  <2>1. c.ok = TRUE /\ c.facts = RouteFacts(none, NoLedger, quotes)
    <3>1. c.ok = TRUE /\ c.facts = e
      <4> HIDE DEF c, e, warned
      <4> QED
        BY <2>0 DEF Context
    <3> QED
      BY <3>1
  <2>2. IsSeq(none)
    BY TupleSet
  <2>3. \A field : Of(none, field) = IF "route.available" = field THEN {flag} ELSE {}
    <3> TAKE field
    <3> QED
      BY PairOf
  <2> HIDE DEF none, c
  <2>4. FactSeq(c.facts) /\ \A path \in RecipePaths : Said(c.facts, path) = {}
    BY <2>1, <2>2, <2>3, SaidRoute
  <2>5. \A path : SwapSays(r, path) = {}
    BY <1>2 DEF SwapSays
  <2> QED
    BY <2>1, <2>4, <2>5 DEF c
<1>3. CASE priced # {}
  <2> DEFINE a == QuotedRoute(pool, slip, sources)
             b == RoutePool(pool.info, own)
  <2> DEFINE e == a \o b
             cited == sources \o own
             warned == failed \cup (IF pool.ref.ok THEN {} ELSE {"no reference"})
  <2>0. c = Context(e, cited, warned)
    BY <1>1, <1>3, Zenon
  <2>1. c.ok = TRUE /\ c.facts = a \o b
    <3>1. c.ok = TRUE /\ c.facts = e
      <4> HIDE DEF c, e, warned, cited
      <4> QED
        BY <2>0 DEF Context
    <3> QED
      BY <3>1
  <2>2. pool \in SwapPools
    <3>1. DOMAIN r.pools = 1..Len(r.pools) /\ \A i \in 1..Len(r.pools) : r.pools[i] \in SwapPools
      BY LenProperties DEF SwapCall
    <3> QED
      BY <1>3, <3>1, BestIsPriced DEF Priced
  <2>3. pool.info.type.ok \in BOOLEAN
    BY <2>2, SwapPoolParts
  <2>4. pool.quote = BestQuote(r)
    BY DEF BestQuote
  <2> HIDE DEF pool, c
  <2>5. /\ FactSeq(a)
        /\ \A path \in RecipePaths : Said(a, path)
              = CASE path = "estimatedOut" -> {Decimal(pool.quote.out * Unit)}
                  [] path = "routeHops" -> {Decimal(Unit)}
                  [] OTHER -> {}
    BY <2>2, SaidQuoted
  <2>6. FactSeq(b) /\ \A path \in RecipePaths : Said(b, path) = {}
    BY <2>3, SaidRoutePool
  <2> HIDE DEF a, b
  <2>7. FactSeq(a \o b) /\ \A path : Said(a \o b, path) = Said(a, path) \cup Said(b, path)
    BY <2>5, <2>6, SaidJoin
  <2>8. \A path \in RecipePaths : Said(c.facts, path) = Said(a, path)
    BY <2>1, <2>6, <2>7
  <2>9. \A path \in RecipePaths : Said(a, path) = SwapSays(r, path)
    BY <1>3, <2>4, <2>5 DEF SwapSays
  <2> QED
    BY <2>1, <2>7, <2>8, <2>9 DEF c
<1> QED
  BY <1>2, <1>3

\* What findPath's context says of them.
LEMMA SaidPath ==
  ASSUME NEW r
  PROVE  LET c == FindPath(r)
         IN  /\ c.ok = TRUE /\ FactSeq(c.facts)
             /\ \A path \in RecipePaths : Said(c.facts, path) = PathSays(r, path)
<1> DEFINE x == Decimal(r.paths[1].out)
           y == Decimal((r.paths[1].between + 1) * Unit)
           available == r.paths # <<>>
           z == Flag(available)
           sent == << <<"path.estimated_out", x>>, <<"route.hops", y>> >>
           first == << <<"path.available", z>> >>
           sources == <<Record("strict-send", 1, "sdex", r.ledger)>>
           warnings == IF available THEN {} ELSE {"no path"}
           pairs == first \o When(available, sent)
           facts == EntityFacts("stellar_dex", "route", "", pairs, r.ledger, sources, "medium")
           c == FindPath(r)
<1>1. c = Context(facts, sources, warnings)
  BY DEF FindPath
<1>2. available \in BOOLEAN
  OBVIOUS
<1>3. \A path : PathSays(r, path) = CASE path = "pathAvailable" -> {z}
                                      [] path = "pathEstimatedOut" /\ available -> {x}
                                      [] OTHER -> {}
  BY DEF PathSays
<1> HIDE DEF x, y, z, available, sources, warnings
<1>4. IsSeq(sent) /\ IsSeq(first)
  BY TupleSet
<1>5. \A field : Of(sent, field) = (IF "path.estimated_out" = field THEN {x} ELSE {})
                                      \cup (IF "route.hops" = field THEN {y} ELSE {})
  <2> TAKE field
  <2> QED
    BY TwoPairsOf
<1>6. \A field : Of(first, field) = IF "path.available" = field THEN {z} ELSE {}
  <2> TAKE field
  <2> QED
    BY PairOf
<1> HIDE DEF sent, first
<1>7. IsSeq(When(available, sent))
  BY <1>2, <1>4, WhenSet
<1>8. IsSeq(pairs)
  BY <1>4, <1>7, JoinSet
<1>9. \A field : Of(pairs, field) = Of(first, field) \cup (IF available THEN Of(sent, field) ELSE {})
  <2> TAKE field
  <2> QED
    BY <1>2, <1>4, <1>7, OfJoin, OfWhen
<1> HIDE DEF pairs
<1>10. FactSeq(facts) /\ \A path : Said(facts, path)
         = IF /\ Selectors[path].protocol = "stellar_dex" /\ Selectors[path].entity = "route"
              /\ ("route" = "reserve" => "" = "USDC")
           THEN Of(pairs, Selectors[path].field) ELSE {}
  BY <1>8, SaidEntity, Zenon
<1> HIDE DEF facts, c
<1>11. c.ok = TRUE /\ c.facts = facts
  BY <1>1 DEF Context
<1>12. \A path \in RecipePaths : Said(facts, path)
         = CASE path = "pathAvailable" -> Of(pairs, "path.available")
             [] path = "pathEstimatedOut" -> Of(pairs, "path.estimated_out")
             [] OTHER -> {}
  BY <1>10, RecipeSelectors, RecipeNames
<1>13. Of(pairs, "path.available") = {z} /\ Of(pairs, "path.estimated_out") = IF available THEN {x} ELSE {}
  BY <1>5, <1>6, <1>9
<1>14. \A path \in RecipePaths : Said(facts, path) = PathSays(r, path)
  BY <1>3, <1>12, <1>13
<1> QED
  BY <1>10, <1>11, <1>14 DEF c

\* An order book says the spread, when it has one;
LEMMA SaidMarket ==
  ASSUME NEW pairs, NEW ledger, NEW sources, IsSeq(pairs)
  PROVE  /\ FactSeq(MarketFacts(pairs, ledger, sources))
         /\ \A path \in RecipePaths : Said(MarketFacts(pairs, ledger, sources), path)
              = IF path = "spreadBps" THEN Of(pairs, "market.spread_bps") ELSE {}
<1> DEFINE facts == EntityFacts("stellar_dex", "market", "", pairs, ledger, sources, "medium")
<1>1. FactSeq(facts) /\ \A path : Said(facts, path)
        = IF /\ Selectors[path].protocol = "stellar_dex" /\ Selectors[path].entity = "market"
             /\ ("market" = "reserve" => "" = "USDC")
          THEN Of(pairs, Selectors[path].field) ELSE {}
  BY SaidEntity, Zenon
<1> HIDE DEF facts
<1>2. \A path \in RecipePaths : Said(facts, path)
              = IF path = "spreadBps" THEN Of(pairs, "market.spread_bps") ELSE {}
  BY <1>1, RecipeSelectors, RecipeNames
<1>3. MarketFacts(pairs, ledger, sources) = facts
  BY DEF MarketFacts, facts
<1> QED
  BY <1>1, <1>2, <1>3

\* that is all getMarketContext's context says of them.
LEMMA SaidBook ==
  ASSUME NEW r \in Books
  PROVE  LET c == GetMarket(r)
         IN  /\ c.ok = TRUE /\ FactSeq(c.facts)
             /\ \A path \in RecipePaths : Said(c.facts, path) = BookSays(r, path)
<1> DEFINE book == <<Record("order_book", 1, "sdex", r.ledger)>>
           late == <<Record("trades", 1, "sdex", r.trades.ledger)>>
           sources == book \o When(r.trades.ok, late)
           a == MarketFacts(BookPairs(r), r.ledger, book)
           b == MarketFacts(TradePairs(r), r.ledger, sources)
           facts == a \o When(r.trades.ok, b)
           warnings == IF r.bids # <<>> /\ r.asks # <<>> THEN {} ELSE {"one-sided book"}
           c == GetMarket(r)
<1>1. c = Context(facts, sources, warnings)
  BY DEF GetMarket, BookPairs, TradePairs
<1>2. r.trades.ok \in BOOLEAN
  <2>1. r.trades \in OrThrown([ok : {TRUE}, volume : Nat, count : Nat, ledger : Nat])
    BY DEF Books
  <2>2. \A x \in [ok : {TRUE}, volume : Nat, count : Nat, ledger : Nat] : x.ok = TRUE
    OBVIOUS
  <2> QED
    BY <2>1, <2>2, ThrownOrNot
<1> HIDE DEF sources, warnings, book
<1>3. Of(TradePairs(r), "market.spread_bps") = {}
  <2> DEFINE x == Decimal(r.trades.volume)
             y == Decimal(r.trades.count * Unit)
             name == "market.spread_bps"
  <2>1. TradePairs(r) = << <<"market.recent_volume", x>>, <<"market.recent_trades", y>> >>
    BY DEF TradePairs
  <2> HIDE DEF x, y, name
  <2>2. Of(TradePairs(r), name)
          = (IF "market.recent_volume" = name THEN {x} ELSE {})
              \cup (IF "market.recent_trades" = name THEN {y} ELSE {})
    BY <2>1, TwoPairsOf
  <2> QED
    BY <2>2 DEF name
<1>4. Of(BookPairs(r), "market.spread_bps") = BookSays(r, "spreadBps")
  <2> DEFINE bid == Decimal(r.bids[1].price)
             ask == Decimal(r.asks[1].price)
             spread == Decimal(Spread(r.bids[1].price, r.asks[1].price) * Unit)
             near == Decimal(DepthWithin(r.asks, r.bids[1].price, 1))
             far == Decimal(DepthWithin(r.asks, r.bids[1].price, 2))
             p == << <<"market.best_bid", bid>> >>
             q == << <<"market.best_ask", ask>> >>
             t == << <<"market.spread_bps", spread>>, <<"liquidity.depth_1pct", near>>,
                     <<"liquidity.depth_2pct", far>> >>
             hasBids == r.bids # <<>>
             hasAsks == r.asks # <<>>
             both == hasBids /\ hasAsks
  <2>1. BookPairs(r) = (When(hasBids, p) \o When(hasAsks, q)) \o When(both, t)
    BY DEF BookPairs
  <2>2. hasBids \in BOOLEAN /\ hasAsks \in BOOLEAN /\ both \in BOOLEAN
    OBVIOUS
  <2>3. BookSays(r, "spreadBps") = IF both THEN {spread} ELSE {}
    BY DEF BookSays
  <2> HIDE DEF bid, ask, spread, near, far, hasBids, hasAsks, both
  <2>4. IsSeq(p) /\ IsSeq(q) /\ IsSeq(t)
    BY TupleSet
  <2>5. \A field : Of(p, field) = IF "market.best_bid" = field THEN {bid} ELSE {}
    <3> TAKE field
    <3> QED
      BY PairOf
  <2>6. \A field : Of(q, field) = IF "market.best_ask" = field THEN {ask} ELSE {}
    <3> TAKE field
    <3> QED
      BY PairOf
  <2>7. \A field : Of(t, field) = (IF "market.spread_bps" = field THEN {spread} ELSE {})
          \cup (IF "liquidity.depth_1pct" = field THEN {near} ELSE {})
          \cup (IF "liquidity.depth_2pct" = field THEN {far} ELSE {})
    <3> TAKE field
    <3> QED
      BY ThreePairsOf
  <2> HIDE DEF p, q, t
  <2> DEFINE name == "market.spread_bps"
  <2>8. Of(p, name) = {} /\ Of(q, name) = {} /\ Of(t, name) = {spread}
    BY <2>5, <2>6, <2>7
  <2>9. IsSeq(When(hasBids, p)) /\ IsSeq(When(hasAsks, q)) /\ IsSeq(When(both, t))
    BY <2>2, <2>4, WhenSet
  <2> HIDE DEF name
  <2>10. /\ Of(When(hasBids, p), name) = {} /\ Of(When(hasAsks, q), name) = {}
         /\ Of(When(both, t), name) = IF both THEN {spread} ELSE {}
    BY <2>2, <2>4, <2>8, OfWhen
  <2>11. IsSeq(When(hasBids, p) \o When(hasAsks, q))
    BY <2>9, JoinSet
  <2>12. Of(When(hasBids, p) \o When(hasAsks, q), name) = {}
    BY <2>9, <2>10, OfJoin
  <2>13. Of(BookPairs(r), name) = IF both THEN {spread} ELSE {}
    BY <2>1, <2>9, <2>10, <2>11, <2>12, OfJoin
  <2> QED
    BY <2>3, <2>13 DEF name
<1>5. FactSeq(a) /\ \A path \in RecipePaths : Said(a, path) = BookSays(r, path)
  <2>1. \A path \in RecipePaths : path # "spreadBps" => BookSays(r, path) = {}
    BY DEF BookSays
  <2>2. /\ FactSeq(a)
        /\ \A path \in RecipePaths : Said(a, path)
             = IF path = "spreadBps" THEN Of(BookPairs(r), "market.spread_bps") ELSE {}
    BY BookPairsSeq, SaidMarket
  <2> HIDE DEF a
  <2> QED
    BY <1>4, <2>1, <2>2
<1>6. FactSeq(b) /\ \A path \in RecipePaths : Said(b, path) = {}
  <2>1. /\ FactSeq(b)
        /\ \A path \in RecipePaths : Said(b, path)
             = IF path = "spreadBps" THEN Of(TradePairs(r), "market.spread_bps") ELSE {}
    BY BookPairsSeq, SaidMarket
  <2> HIDE DEF b
  <2> QED
    BY <1>3, <2>1
<1> HIDE DEF a, b
<1>7. /\ FactSeq(When(r.trades.ok, b))
      /\ \A path \in RecipePaths : Said(When(r.trades.ok, b), path) = {}
  BY <1>2, <1>6, SaidWhen
<1>8. /\ FactSeq(facts)
      /\ \A path : Said(facts, path) = Said(a, path) \cup Said(When(r.trades.ok, b), path)
  BY <1>5, <1>7, SaidJoin
<1>9. \A path \in RecipePaths : Said(facts, path) = BookSays(r, path)
  BY <1>5, <1>7, <1>8
<1> HIDE DEF facts, c
<1>10. c.ok = TRUE /\ c.facts = facts
  BY <1>1 DEF Context
<1> QED
  BY <1>8, <1>9, <1>10 DEF c

\* What a pool's context states, with the position of a known wallet.
KnownUser(r, withWallet) == withWallet /\ FetchedUser(r.user)

\* What getPoolContext's context says, with the position of the wallet when it
\* was read.
LEMMA SaidPoolContext ==
  ASSUME NEW r, NEW withWallet \in BOOLEAN, r.pool \in Loads
  PROVE  LET c == GetPoolContext(r, withWallet)
         IN  /\ c.ok <=> LoadPool(r.pool).ok
             /\ c.ok =>
                  /\ LoadPool(r.pool) \in PoolAnswers /\ FactSeq(c.facts)
                  /\ \A path \in RecipePaths : Said(c.facts, path)
                       = PoolSays(LoadPool(r.pool), path)
                           \cup (IF KnownUser(r, withWallet) /\ path = "healthAfterAction"
                                 THEN {Health(r.user)} ELSE {})
<1> DEFINE pool == LoadPool(r.pool)
           sources == <<Record("PoolV2.load", 1, "blend", pool.ledger)>>
           known == withWallet /\ FetchedUser(r.user)
           own == <<Record("loadUser", 1, "blend", LoadPool(r.user.pool).ledger)>>
           a == PoolFacts(pool, sources)
           b == UserFacts(r.user, own)
           facts == a \o When(known, b)
           all == sources \o When(known, own)
           warnings == IF withWallet /\ ~known THEN {"user position unavailable"} ELSE {}
           c == GetPoolContext(r, withWallet)
<1>1. c = IF ~pool.ok THEN Thrown ELSE Context(facts, all, warnings)
  BY DEF GetPoolContext
<1>2. known \in BOOLEAN /\ known = KnownUser(r, withWallet)
  BY DEF KnownUser
<1> HIDE DEF sources, own, all, warnings, known
<1>3. CASE ~pool.ok
  <2>1. c = Thrown
    BY <1>1, <1>3, Zenon
  <2> HIDE DEF c
  <2>2. c.ok = FALSE
    BY <2>1 DEF Thrown
  <2> QED
    BY <1>3, <2>2 DEF c
<1>4. CASE pool.ok
  <2>1. pool \in PoolAnswers
    BY <1>4, LoadedPool
  <2>2. c = Context(facts, all, warnings)
    BY <1>1, <1>4, Zenon
  <2>3. c.ok = TRUE /\ c.facts = facts
    <3> HIDE DEF c, facts
    <3> QED
      BY <2>2 DEF Context
  <2>4. FactSeq(a) /\ \A path \in RecipePaths : Said(a, path) = PoolSays(pool, path)
    <3> HIDE DEF pool
    <3> QED
      BY <2>1, SaidPool
  <2>5. FactSeq(b) /\ \A path \in RecipePaths :
          Said(b, path) = IF path = "healthAfterAction" THEN {Health(r.user)} ELSE {}
    BY SaidUser
  <2> HIDE DEF c, a, b, pool
  <2>6. /\ FactSeq(When(known, b))
        /\ \A path : Said(When(known, b), path) = IF known THEN Said(b, path) ELSE {}
    BY <1>2, <2>5, SaidWhen
  <2>7. FactSeq(facts) /\ \A path : Said(facts, path) = Said(a, path) \cup Said(When(known, b), path)
    BY <2>4, <2>6, SaidJoin
  <2> HIDE DEF facts
  <2>8. \A path \in RecipePaths : Said(facts, path)
          = PoolSays(pool, path)
              \cup (IF known /\ path = "healthAfterAction" THEN {Health(r.user)} ELSE {})
    BY <2>4, <2>5, <2>6, <2>7
  <2>9. \A path \in RecipePaths : Said(facts, path)
          = PoolSays(pool, path)
              \cup (IF KnownUser(r, withWallet) /\ path = "healthAfterAction"
                    THEN {Health(r.user)} ELSE {})
    BY <1>2, <2>8, Zenon
  <2> QED
    BY <1>4, <2>1, <2>3, <2>7, <2>9 DEF c, pool
<1> QED
  BY <1>3, <1>4

-----------------------------------------------------------------------------
(* The facts of a recipe's capsule.                                        *)

LEMMA AgedFact ==
  ASSUME NEW f, FactNames \subseteq DOMAIN f, NEW a
  PROVE  LET g == [f EXCEPT !.age = a]
         IN  /\ FactNames \subseteq DOMAIN g /\ g.age = a /\ g.cites = f.cites /\ g.value = f.value
             /\ \A sel : Selects(sel, g) <=> Selects(sel, f)
<1> DEFINE g == [f EXCEPT !.age = a]
<1>1. DOMAIN g = DOMAIN f
  OBVIOUS
<1>2. /\ g.age = a /\ g.cites = f.cites /\ g.value = f.value /\ g.protocol = f.protocol
      /\ g.entity = f.entity /\ g.field = f.field /\ g.symbol = f.symbol
  <2>1. \A x \in FactNames : x \in DOMAIN f
    OBVIOUS
  <2>2. {"protocol", "entity", "symbol", "field", "value", "cites", "age"} \subseteq FactNames
    BY DEF FactNames
  <2> QED
    BY <2>1, <2>2
<1> HIDE DEF g
<1>3. \A sel : Selects(sel, g) <=> Selects(sel, f)
  BY <1>2 DEF Selects
<1> QED
  BY <1>1, <1>2, <1>3 DEF g

\* Giving facts their ages changes nothing they say.
LEMMA AgedSeq ==
  ASSUME NEW facts, FactSeq(facts)
  PROVE  LET aged == [i \in DOMAIN facts |-> [facts[i] EXCEPT !.age = AgeOf(i)]]
         IN  /\ FactSeq(aged)
             /\ \A g \in ToSet(aged) : \E f \in ToSet(facts) : \E a : g = [f EXCEPT !.age = a]
             /\ \A path : Said(aged, path) = Said(facts, path)
<1> DEFINE Old(i) == [facts[i] EXCEPT !.age = AgeOf(i)]
           aged == [i \in DOMAIN facts |-> Old(i)]
           n == Len(facts)
<1>1. n \in Nat /\ DOMAIN facts = 1..n
  BY SeqDomain DEF FactSeq
<1>2. ToSet(facts) = {facts[i] : i \in 1..n}
  BY <1>1 DEF ToSet
<1>3. \A i \in 1..n : /\ FactNames \subseteq DOMAIN Old(i) /\ Old(i).value = facts[i].value
                      /\ \A sel : Selects(sel, Old(i)) <=> Selects(sel, facts[i])
  <2> TAKE i \in 1..n
  <2>1. FactNames \subseteq DOMAIN facts[i]
    BY <1>2 DEF FactSeq
  <2> QED
    BY <2>1, AgedFact
<1>4. \A i \in 1..n : \E a : Old(i) = [facts[i] EXCEPT !.age = a]
  OBVIOUS
<1> HIDE DEF Old
<1>5. aged = [i \in 1..n |-> aged[i]] /\ \A i \in 1..n : aged[i] = Old(i)
  BY <1>1
<1> HIDE DEF aged, n
<1>6. IsSeq(aged) /\ ToSet(aged) = {Old(i) : i \in 1..n}
  <2>1. IsSeq(aged) /\ ToSet(aged) = {aged[i] : i \in 1..n}
    BY <1>1, <1>5, FunctionIsSeq
  <2> QED
    BY <1>5, <2>1
<1>7. FactSeq(aged)
  BY <1>3, <1>6 DEF FactSeq
<1>8. \A g \in ToSet(aged) : \E f \in ToSet(facts) : \E a : g = [f EXCEPT !.age = a]
  BY <1>2, <1>4, <1>6
<1>9. ASSUME NEW path PROVE Said(aged, path) = Said(facts, path)
  <2> DEFINE sel == Selectors[path]
  <2>1. ASSUME NEW v \in Said(aged, path) PROVE v \in Said(facts, path)
    <3>1. PICK i \in 1..n : Selects(sel, Old(i)) /\ v = Old(i).value
      BY <1>6, <2>1 DEF Said
    <3> QED
      BY <1>2, <1>3, <3>1 DEF Said
  <2>2. ASSUME NEW v \in Said(facts, path) PROVE v \in Said(aged, path)
    <3>1. PICK i \in 1..n : Selects(sel, facts[i]) /\ v = facts[i].value
      BY <1>2, <2>2 DEF Said
    <3>2. Selects(sel, Old(i)) /\ v = Old(i).value /\ Old(i) \in ToSet(aged)
      BY <1>3, <1>6, <3>1
    <3> QED
      BY <3>2 DEF Said
  <2> QED
    BY <2>1, <2>2
<1> QED
  BY <1>7, <1>8, <1>9 DEF aged, Old

\* The facts of a request say what its contexts say.
LEMMA AgedSaid ==
  ASSUME NEW n \in Nat, DOMAIN contexts = 1..n, \A k \in 1..n : FactSeq(contexts[k].facts)
  PROVE  /\ FactSeq(AgedFacts)
         /\ \A path : Said(AgedFacts, path) = UNION {Said(contexts[k].facts, path) : k \in 1..n}
         /\ \A g \in ToSet(AgedFacts) : \E k \in 1..n : \E f \in ToSet(contexts[k].facts) :
              \E a : g = [f EXCEPT !.age = a]
<1> DEFINE parts == [k \in DOMAIN contexts |-> contexts[k].facts]
           facts == FlattenSeq(parts)
<1>1. AgedFacts = [i \in DOMAIN facts |-> [facts[i] EXCEPT !.age = AgeOf(i)]]
  BY DEF AgedFacts
<1>2. parts = [k \in 1..n |-> parts[k]] /\ \A k \in 1..n : parts[k] = contexts[k].facts
  OBVIOUS
<1> HIDE DEF parts
<1>3. \A k \in 1..n : FactSeq(parts[k]) /\ IsSeq(parts[k])
  BY <1>2 DEF FactSeq
<1>4. /\ FactSeq(facts)
      /\ \A path : Said(facts, path) = UNION {Said(parts[k], path) : k \in 1..n}
      /\ ToSet(facts) = UNION {ToSet(parts[k]) : k \in 1..n}
  BY <1>2, <1>3, SaidFlatten, FlattenedSet
<1> HIDE DEF facts
<1>5. /\ FactSeq(AgedFacts)
      /\ \A g \in ToSet(AgedFacts) : \E f \in ToSet(facts) : \E a : g = [f EXCEPT !.age = a]
      /\ \A path : Said(AgedFacts, path) = Said(facts, path)
  BY <1>1, <1>4, AgedSeq
<1>6. ASSUME NEW path
      PROVE  UNION {Said(parts[k], path) : k \in 1..n} = UNION {Said(contexts[k].facts, path) : k \in 1..n}
  <2>1. \A k \in 1..n : Said(parts[k], path) = Said(contexts[k].facts, path)
    BY <1>2
  <2> QED
    BY <2>1
<1>7. \A f \in ToSet(facts) : \E k \in 1..n : f \in ToSet(contexts[k].facts)
  BY <1>2, <1>4
<1>8. ASSUME NEW g \in ToSet(AgedFacts)
      PROVE  \E k \in 1..n : \E f \in ToSet(contexts[k].facts) : \E a : g = [f EXCEPT !.age = a]
  <2>1. PICK f \in ToSet(facts) : \E a : g = [f EXCEPT !.age = a]
    BY <1>5
  <2> QED
    BY <1>7, <2>1, Zenon
<1>9. \A path : Said(AgedFacts, path) = UNION {Said(contexts[k].facts, path) : k \in 1..n}
  <2> TAKE path
  <2>1. Said(AgedFacts, path) = Said(facts, path)
    BY <1>5
  <2>2. Said(facts, path) = UNION {Said(parts[k], path) : k \in 1..n}
    BY <1>4
  <2> QED
    BY <1>6, <2>1, <2>2, Zenon
<1> QED
  BY <1>5, <1>8, <1>9

\* What the contexts of a recipe state of a path, by the chain's answers.
UserSays(r, path) ==
  IF KnownUser(r, TRUE) /\ path = "healthAfterAction" THEN {Health(r.user)} ELSE {}
RequestSays(path) ==
  CASE request = "blend" -> PoolSays(LoadPool(chain[1].pool), path)
    [] request = "aquarius" -> SwapSays(chain[1], path)
    [] request = "sdex" -> PathSays(chain[1], path) \cup BookSays(chain[2], path)
    [] request = "composite" -> (PoolSays(LoadPool(chain[1].pool), path) \cup UserSays(chain[1], path))
                                  \cup SwapSays(chain[2], path) \cup PathSays(chain[3], path)

\* The contexts of a recipe: what each states, and of which kind its answer is.
RecipeContexts ==
  LET n == Len(Calls[request])
  IN  /\ n \in Nat \ {0} /\ DOMAIN contexts = 1..n
      /\ \A k \in 1..n : contexts[k].ok /\ FactSeq(contexts[k].facts)
      /\ \A path \in RecipePaths :
           UNION {Said(contexts[k].facts, path) : k \in 1..n} = RequestSays(path)

\* A capsule is built only when every context was fetched.
LEMMA BuiltContexts ==
  ASSUME Built.ok, NEW k \in DOMAIN contexts
  PROVE  contexts[k].ok
<1>1. CASE \E i \in DOMAIN contexts : ~contexts[i].ok
  <2>1. Built = Thrown
    BY <1>1 DEF Built, Compose
  <2> QED
    BY <2>1 DEF Thrown
<1>2. CASE ~\E i \in DOMAIN contexts : ~contexts[i].ok
  BY <1>2
<1> QED
  BY <1>1, <1>2

\* The contexts of a recipe are the adapters' answers to its calls.
LEMMA RecipeAnswers ==
  ASSUME RequestInv, Answered, request \in Recipes, Built.ok
  PROVE  RecipeContexts
<1>1. /\ request \in Requests /\ contexts = ContextsOf(request, chain)
      /\ \A k \in 1..Len(Calls[request]) : chain[k] \in Calls[request][k]
  BY AnsweredChain
<1>2. \A k \in DOMAIN contexts : contexts[k].ok
  BY BuiltContexts
<1>4. CASE request = "blend"
  <2> DEFINE c == GetPoolContext(chain[1], FALSE)
             pool == LoadPool(chain[1].pool)
             known == KnownUser(chain[1], FALSE)
  <2>1. chain[1].pool \in Loads /\ Len(Calls[request]) = 1
    <3>1. chain[1] \in PoolCall /\ Len(Calls[request]) = 1
      BY <1>1, <1>4 DEF Calls
    <3> QED
      BY <3>1 DEF PoolCall
  <2>2. contexts = <<c>>
    BY <1>1, <1>4 DEF ContextsOf
  <2>3. c.ok => /\ FactSeq(c.facts)
                /\ \A path \in RecipePaths : Said(c.facts, path)
                     = PoolSays(pool, path)
                         \cup (IF known /\ path = "healthAfterAction"
                               THEN {Health(chain[1].user)} ELSE {})
    <3>1. FALSE \in BOOLEAN
      OBVIOUS
    <3> QED
      BY <2>1, <3>1, SaidPoolContext
  <2>4. ~known
    BY DEF KnownUser
  <2>5. \A path : RequestSays(path) = PoolSays(pool, path)
    BY <1>4 DEF RequestSays
  <2> HIDE DEF c, pool, known
  <2>6. DOMAIN contexts = 1..1 /\ contexts[1] = c
    BY <2>2
  <2>7. c.ok /\ FactSeq(c.facts)
        /\ \A path \in RecipePaths : Said(c.facts, path) = RequestSays(path)
    BY <1>2, <2>3, <2>4, <2>5, <2>6
  <2>8. \A path : UNION {Said(contexts[k].facts, path) : k \in 1..1} = Said(c.facts, path)
    BY <2>6
  <2> QED
    BY <2>1, <2>6, <2>7, <2>8 DEF RecipeContexts
<1>5. CASE request = "aquarius"
  <2> DEFINE c == EstimateSwap(chain[1], AmountIn)
  <2>1. chain[1] \in SwapCall /\ Len(Calls[request]) = 1
    BY <1>1, <1>5 DEF Calls
  <2>2. contexts = <<c>>
    BY <1>1, <1>5 DEF ContextsOf
  <2>3. /\ FactSeq(c.facts)
        /\ \A path \in RecipePaths : Said(c.facts, path) = SwapSays(chain[1], path)
    BY <2>1, SaidSwap
  <2>5. \A path : RequestSays(path) = SwapSays(chain[1], path)
    BY <1>5 DEF RequestSays
  <2> HIDE DEF c
  <2>6. DOMAIN contexts = 1..1 /\ contexts[1] = c
    BY <2>2
  <2>7. c.ok /\ FactSeq(c.facts)
        /\ \A path \in RecipePaths : Said(c.facts, path) = RequestSays(path)
    BY <1>2, <2>3, <2>5, <2>6
  <2>8. \A path : UNION {Said(contexts[k].facts, path) : k \in 1..1} = Said(c.facts, path)
    BY <2>6
  <2> QED
    BY <2>1, <2>6, <2>7, <2>8 DEF RecipeContexts
<1>6. CASE request = "sdex"
  <2> DEFINE c == FindPath(chain[1])
             d == GetMarket(chain[2])
  <2>1. chain[2] \in Books /\ Len(Calls[request]) = 2
    BY <1>1, <1>6 DEF Calls
  <2>2. contexts = <<c, d>>
    BY <1>1, <1>6 DEF ContextsOf
  <2>3. /\ FactSeq(c.facts)
        /\ \A path \in RecipePaths : Said(c.facts, path) = PathSays(chain[1], path)
    BY SaidPath
  <2>4. /\ FactSeq(d.facts)
        /\ \A path \in RecipePaths : Said(d.facts, path) = BookSays(chain[2], path)
    BY <2>1, SaidBook
  <2>5. \A path : RequestSays(path) = PathSays(chain[1], path) \cup BookSays(chain[2], path)
    BY <1>6 DEF RequestSays
  <2> HIDE DEF c, d
  <2>7. DOMAIN contexts = 1..2 /\ contexts[1] = c /\ contexts[2] = d
    BY <2>2
  <2>8. c.ok /\ d.ok
    BY <1>2, <2>7
  <2>9. \A path : UNION {Said(contexts[k].facts, path) : k \in 1..2} = Said(c.facts, path) \cup Said(d.facts, path)
    BY <2>7
  <2>10. \A path \in RecipePaths :
           UNION {Said(contexts[k].facts, path) : k \in 1..2} = RequestSays(path)
    BY <2>3, <2>4, <2>5, <2>9
  <2>12. \A k \in 1..2 : contexts[k].ok /\ FactSeq(contexts[k].facts)
    BY <2>3, <2>4, <2>7, <2>8
  <2> QED
    BY <2>1, <2>7, <2>10, <2>12 DEF RecipeContexts
<1>7. CASE request = "composite"
  <2> DEFINE c == GetPoolContext(chain[1], TRUE)
             d == EstimateSwap(chain[2], AmountIn)
             e == FindPath(chain[3])
             pool == LoadPool(chain[1].pool)
  <2>1. chain[1].pool \in Loads /\ chain[2] \in SwapCall /\ Len(Calls[request]) = 3
    <3>1. chain[1] \in UserCall /\ chain[2] \in SwapCall /\ Len(Calls[request]) = 3
      BY <1>1, <1>7 DEF Calls
    <3> QED
      BY <3>1 DEF UserCall
  <2>2. contexts = <<c, d, e>>
    BY <1>1, <1>7 DEF ContextsOf
  <2>3. c.ok => /\ FactSeq(c.facts)
                /\ \A path \in RecipePaths : Said(c.facts, path)
                     = PoolSays(pool, path)
                         \cup (IF KnownUser(chain[1], TRUE) /\ path = "healthAfterAction"
                               THEN {Health(chain[1].user)} ELSE {})
    <3>1. TRUE \in BOOLEAN
      OBVIOUS
    <3> QED
      BY <2>1, <3>1, SaidPoolContext
  <2>4. /\ FactSeq(d.facts)
        /\ \A path \in RecipePaths : Said(d.facts, path) = SwapSays(chain[2], path)
    BY <2>1, SaidSwap
  <2>5. /\ FactSeq(e.facts)
        /\ \A path \in RecipePaths : Said(e.facts, path) = PathSays(chain[3], path)
    BY SaidPath
  <2>6. \A path : RequestSays(path) = (PoolSays(pool, path) \cup UserSays(chain[1], path))
                                        \cup SwapSays(chain[2], path) \cup PathSays(chain[3], path)
    BY <1>7 DEF RequestSays
  <2> HIDE DEF c, d, e, pool
  <2>8. DOMAIN contexts = 1..3 /\ contexts[1] = c /\ contexts[2] = d /\ contexts[3] = e
    BY <2>2
  <2>9. c.ok /\ d.ok /\ e.ok
    BY <1>2, <2>8
  <2>10. \A path : UNION {Said(contexts[k].facts, path) : k \in 1..3}
                     = (Said(c.facts, path) \cup Said(d.facts, path)) \cup Said(e.facts, path)
    BY <2>8
  <2>11. \A path \in RecipePaths : Said(c.facts, path) = PoolSays(pool, path) \cup UserSays(chain[1], path)
    BY <2>3, <2>9 DEF UserSays
  <2>12. \A path \in RecipePaths :
           UNION {Said(contexts[k].facts, path) : k \in 1..3} = RequestSays(path)
    BY <2>4, <2>5, <2>6, <2>10, <2>11
  <2>14. \A k \in 1..3 : contexts[k].ok /\ FactSeq(contexts[k].facts)
    BY <2>3, <2>4, <2>5, <2>8, <2>9
  <2> QED
    BY <2>1, <2>8, <2>12, <2>14 DEF RecipeContexts
<1> QED
  BY <1>4, <1>5, <1>6, <1>7 DEF Recipes

\* What a Blend pool says is in range,
LEMMA PoolRange ==
  ASSUME NEW pool \in PoolAnswers,
         NEW path \in {"totalBorrowed", "totalSupplied", "isFresh"}
  PROVE  PoolSays(pool, path) \subseteq FactRange(path)
<1>1. \A r \in ToSet(pool.reserves) : r.borrowed \in Printed /\ r.supplied \in Printed
  <2> TAKE r \in ToSet(pool.reserves)
  <2>1. r \in Reserves
    BY PoolParts DEF ToSet
  <2> QED
    BY <2>1 DEF Reserves
<1>2. \A r \in UsdcReserves(pool) : r \in ToSet(pool.reserves)
  BY DEF UsdcReserves
<1>3. CASE path = "totalBorrowed"
  <2>1. FactRange(path) = Printed
    BY <1>3 DEF FactRange
  <2>2. PoolSays(pool, path) = {r.borrowed : r \in UsdcReserves(pool)}
    BY <1>3 DEF PoolSays
  <2> QED
    BY <1>1, <1>2, <2>1, <2>2
<1>4. CASE path = "totalSupplied"
  <2>1. FactRange(path) = Printed
    BY <1>4 DEF FactRange
  <2>2. PoolSays(pool, path) = {r.supplied : r \in UsdcReserves(pool)}
    BY <1>4 DEF PoolSays
  <2> QED
    BY <1>1, <1>2, <2>1, <2>2
<1>5. CASE path = "isFresh"
  <2>1. FactRange(path) = {Word("fresh"), Word("unknown")}
    BY <1>5 DEF FactRange
  <2>2. PoolSays(pool, path) = {Word(IF pool.oracle.ok THEN "fresh" ELSE "unknown")}
    BY <1>5 DEF PoolSays
  <2>3. CASE pool.oracle.ok
    <3>1. PoolSays(pool, path) = {Word("fresh")}
      BY <2>2, <2>3
    <3> QED
      BY <2>1, <3>1
  <2>4. CASE ~pool.oracle.ok
    <3>1. PoolSays(pool, path) = {Word("unknown")}
      BY <2>2, <2>4
    <3> QED
      BY <2>1, <3>1
  <2> QED
    BY <2>3, <2>4
<1> QED
  BY <1>3, <1>4, <1>5

\* and so is what a position says,
LEMMA UserRange ==
  ASSUME NEW r, r.user \in UserAnswers
  PROVE  UserSays(r, "healthAfterAction") \subseteq FactRange("healthAfterAction")
<1>1. CASE FetchedUser(r.user)
  <2>1. Health(r.user) \in FactRange("healthAfterAction")
    BY <1>1, HealthRange
  <2> QED
    BY <2>1 DEF UserSays
<1>2. CASE ~FetchedUser(r.user)
  BY <1>2 DEF UserSays, KnownUser
<1> QED
  BY <1>1, <1>2

\* an estimated swap,
LEMMA SwapRange ==
  ASSUME NEW r \in SwapCall, NEW path \in {"estimatedOut", "routeHops"}
  PROVE  SwapSays(r, path) \subseteq FactRange(path)
<1>1. CASE path = "estimatedOut"
  <2> DEFINE out == BestQuote(r).out
             most == MaxAmount \div Unit
  <2>1. FactRange(path) = {Decimal(k * Unit) : k \in 0..most}
    BY <1>1 DEF FactRange
  <2>2. SwapSays(r, path) = IF Priced(r) # {} THEN {Decimal(out * Unit)} ELSE {}
    BY <1>1 DEF SwapSays
  <2>3. Priced(r) # {} => out \in 0..most
    <3> SUFFICES ASSUME Priced(r) # {} PROVE out \in 0..most
      OBVIOUS
    <3> DEFINE best == BestPool(r.pools, Priced(r))
    <3>1. best \in Priced(r)
      BY BestIsPriced
    <3>2. best \in DOMAIN r.pools /\ r.pools[best].quote.ok
      BY <3>1 DEF Priced
    <3>3. r.pools[best] \in SwapPools
      <4>1. DOMAIN r.pools = 1..Len(r.pools) /\ \A i \in 1..Len(r.pools) : r.pools[i] \in SwapPools
        BY LenProperties DEF SwapCall
      <4> QED
        BY <3>2, <4>1
    <3>4. r.pools[best].quote \in Quotes
      BY <3>3, SwapPoolParts
    <3>5. r.pools[best].quote.out \in 0..most
      BY <3>2, <3>4, QuoteParts
    <3> QED
      BY <3>5 DEF BestQuote
  <2> HIDE DEF out, most
  <2> QED
    BY <2>1, <2>2, <2>3
<1>2. CASE path = "routeHops"
  <2>1. FactRange(path) = {Decimal(Unit)}
    BY <1>2 DEF FactRange
  <2>2. SwapSays(r, path) = IF Priced(r) # {} THEN {Decimal(Unit)} ELSE {}
    BY <1>2 DEF SwapSays
  <2> QED
    BY <2>1, <2>2
<1> QED
  BY <1>1, <1>2

\* a path
LEMMA PathRange ==
  ASSUME NEW r \in PathCall, NEW path \in {"pathAvailable", "pathEstimatedOut"}
  PROVE  PathSays(r, path) \subseteq FactRange(path)
<1>1. CASE path = "pathAvailable"
  <2> DEFINE some == r.paths # <<>>
  <2>1. FactRange(path) = {Flag(TRUE), Flag(FALSE)}
    BY <1>1 DEF FactRange
  <2>2. PathSays(r, path) = {Flag(some)}
    BY <1>1 DEF PathSays
  <2>3. some \in BOOLEAN
    OBVIOUS
  <2> HIDE DEF some
  <2>4. Flag(some) = Flag(TRUE) \/ Flag(some) = Flag(FALSE)
    BY <2>3 DEF Flag
  <2> QED
    BY <2>1, <2>2, <2>4
<1>2. CASE path = "pathEstimatedOut"
  <2> DEFINE out == r.paths[1].out
  <2>1. FactRange(path) = Decimals
    BY <1>2 DEF FactRange
  <2>2. PathSays(r, path) = IF r.paths # <<>> THEN {Decimal(out)} ELSE {}
    BY <1>2 DEF PathSays
  <2>3. r.paths # <<>> => out \in 0..MaxAmount
    <3>1. r.paths \in Seq(Paths)
      BY DEF PathCall
    <3>2. r.paths # <<>> => r.paths[1] \in Paths
      BY <3>1
    <3> QED
      BY <3>2 DEF Paths
  <2> HIDE DEF out
  <2>4. r.paths # <<>> => Decimal(out) \in Decimals
    BY <2>3 DEF Decimal, Decimals
  <2> QED
    BY <2>1, <2>2, <2>4
<1> QED
  BY <1>1, <1>2

\* and an order book.
LEMMA BookRange ==
  ASSUME NEW r \in Books
  PROVE  BookSays(r, "spreadBps") \subseteq FactRange("spreadBps")
<1> DEFINE k == Spread(r.bids[1].price, r.asks[1].price)
           both == r.bids # <<>> /\ r.asks # <<>>
<1>1. both => k \in 0..(Span64 - 1)
  BY DEF Books
<1>2. BookSays(r, "spreadBps") = IF both THEN {Decimal(k * Unit)} ELSE {}
  BY DEF BookSays
<1>3. FactRange("spreadBps") = {Decimal(j * Unit) : j \in 0..(Span64 - 1)}
  BY DEF FactRange
<1> HIDE DEF k, both
<1> QED
  BY <1>1, <1>2, <1>3

\* A pool that ended no build was loaded.
LEMMA ServedPool ==
  ASSUME RequestInv, Answered, request \in {"blend", "composite"}, Built.ok
  PROVE  LoadPool(chain[1].pool) \in PoolAnswers
<1>1. /\ request \in Requests /\ contexts = ContextsOf(request, chain)
      /\ \A k \in 1..Len(Calls[request]) : chain[k] \in Calls[request][k]
  BY AnsweredChain
<1>2. ASSUME NEW withWallet \in BOOLEAN, chain[1].pool \in Loads,
             GetPoolContext(chain[1], withWallet).ok
      PROVE  LoadPool(chain[1].pool) \in PoolAnswers
  <2>1. LoadPool(chain[1].pool).ok
    BY <1>2, SaidPoolContext
  <2> QED
    BY <1>2, <2>1, LoadedPool
<1>3. CASE request = "blend"
  <2> DEFINE c == GetPoolContext(chain[1], FALSE)
  <2>1. chain[1] \in PoolCall /\ contexts = <<c>>
    <3>1. chain[1] \in PoolCall
      BY <1>1, <1>3 DEF Calls
    <3>2. contexts = <<c>>
      BY <1>1, <1>3 DEF ContextsOf
    <3> QED
      BY <3>1, <3>2
  <2>2. 1 \in DOMAIN contexts /\ contexts[1] = c
    <3> HIDE DEF c
    <3> QED
      BY <2>1
  <2>3. c.ok
    <3>1. contexts[1].ok
      BY <2>2, BuiltContexts
    <3> HIDE DEF c
    <3> QED
      BY <2>2, <3>1
  <2>4. chain[1].pool \in Loads
    BY <2>1 DEF PoolCall
  <2>5. FALSE \in BOOLEAN
    OBVIOUS
  <2> QED
    BY <1>2, <2>3, <2>4, <2>5, Zenon
<1>4. CASE request = "composite"
  <2> DEFINE c == GetPoolContext(chain[1], TRUE)
             d == EstimateSwap(chain[2], AmountIn)
             e == FindPath(chain[3])
  <2>1. chain[1] \in UserCall /\ contexts = <<c, d, e>>
    <3>1. chain[1] \in UserCall
      BY <1>1, <1>4 DEF Calls
    <3>2. contexts = <<c, d, e>>
      BY <1>1, <1>4 DEF ContextsOf
    <3> QED
      BY <3>1, <3>2
  <2>2. 1 \in DOMAIN contexts /\ contexts[1] = c
    <3> HIDE DEF c, d, e
    <3> QED
      BY <2>1
  <2>3. c.ok
    <3>1. contexts[1].ok
      BY <2>2, BuiltContexts
    <3> HIDE DEF c
    <3> QED
      BY <2>2, <3>1
  <2>4. chain[1].pool \in Loads
    BY <2>1 DEF UserCall
  <2>5. TRUE \in BOOLEAN
    OBVIOUS
  <2> QED
    BY <1>2, <2>3, <2>4, <2>5, Zenon
<1> QED
  BY <1>3, <1>4

\* What the contexts of a recipe state of its fact paths is in their ranges.
LEMMA RequestRange ==
  ASSUME RequestInv, Answered, request \in Recipes, Built.ok, NEW path \in Tree[request].facts
  PROVE  RequestSays(path) \subseteq FactRange(path)
<1>1. /\ request \in Requests
      /\ \A k \in 1..Len(Calls[request]) : chain[k] \in Calls[request][k]
  BY AnsweredChain
<1>2. CASE request = "blend"
  <2> DEFINE pool == LoadPool(chain[1].pool)
  <2>1. path \in {"totalBorrowed", "totalSupplied", "isFresh"}
    BY <1>2 DEF Tree
  <2>2. RequestSays(path) = PoolSays(pool, path)
    BY <1>2 DEF RequestSays
  <2>3. pool \in PoolAnswers
    BY <1>2, ServedPool
  <2> HIDE DEF pool
  <2> QED
    BY <2>1, <2>2, <2>3, PoolRange
<1>3. CASE request = "aquarius"
  <2>1. path \in {"estimatedOut", "routeHops"}
    BY <1>3 DEF Tree
  <2>2. RequestSays(path) = SwapSays(chain[1], path)
    BY <1>3 DEF RequestSays
  <2>3. chain[1] \in SwapCall
    BY <1>1, <1>3 DEF Calls
  <2> QED
    BY <2>1, <2>2, <2>3, SwapRange
<1>4. CASE request = "sdex"
  <2>1. path \in {"pathEstimatedOut", "spreadBps", "pathAvailable"}
    BY <1>4 DEF Tree
  <2>2. RequestSays(path) = PathSays(chain[1], path) \cup BookSays(chain[2], path)
    BY <1>4 DEF RequestSays
  <2>3. chain[1] \in PathCall /\ chain[2] \in Books
    BY <1>1, <1>4 DEF Calls
  <2>4. CASE path = "spreadBps"
    <3>1. PathSays(chain[1], path) = {}
      BY <2>4 DEF PathSays
    <3> QED
      BY <2>2, <2>3, <2>4, <3>1, BookRange
  <2>5. CASE path # "spreadBps"
    <3>1. BookSays(chain[2], path) = {}
      BY <2>5 DEF BookSays
    <3> QED
      BY <2>1, <2>2, <2>3, <2>5, <3>1, PathRange
  <2> QED
    BY <2>4, <2>5
<1>5. CASE request = "composite"
  <2> DEFINE pool == LoadPool(chain[1].pool)
  <2>1. path \in {"healthAfterAction", "estimatedOut", "routeHops", "pathAvailable", "pathEstimatedOut"}
    BY <1>5 DEF Tree
  <2>2. RequestSays(path) = (PoolSays(pool, path) \cup UserSays(chain[1], path))
                              \cup SwapSays(chain[2], path) \cup PathSays(chain[3], path)
    BY <1>5 DEF RequestSays
  <2>3. chain[1] \in UserCall /\ chain[2] \in SwapCall /\ chain[3] \in PathCall
    BY <1>1, <1>5 DEF Calls
  <2>4. PoolSays(pool, path) = {}
    BY <2>1 DEF PoolSays
  <2> HIDE DEF pool
  <2>5. CASE path = "healthAfterAction"
    <3>1. SwapSays(chain[2], path) = {} /\ PathSays(chain[3], path) = {}
      BY <2>5 DEF SwapSays, PathSays
    <3>2. chain[1].user \in UserAnswers
      BY <2>3 DEF UserCall
    <3> QED
      BY <2>2, <2>4, <2>5, <3>1, <3>2, UserRange
  <2>6. CASE path \in {"estimatedOut", "routeHops"}
    <3>1. UserSays(chain[1], path) = {} /\ PathSays(chain[3], path) = {}
      BY <2>6 DEF UserSays, PathSays
    <3> QED
      BY <2>2, <2>3, <2>4, <2>6, <3>1, SwapRange
  <2>7. CASE path \in {"pathAvailable", "pathEstimatedOut"}
    <3>1. UserSays(chain[1], path) = {} /\ SwapSays(chain[2], path) = {}
      BY <2>7 DEF UserSays, SwapSays
    <3> QED
      BY <2>2, <2>3, <2>4, <2>7, <3>1, PathRange
  <2> QED
    BY <2>1, <2>5, <2>6, <2>7
<1> QED
  BY <1>2, <1>3, <1>4, <1>5 DEF Recipes

\* The facts of a recipe's capsule.
LEMMA RecipeCapsule ==
  ASSUME RequestInv, Answered, request \in Recipes, Built.ok
  PROVE  /\ FactSeq(AgedFacts) /\ Len(AgedFacts) \in Nat /\ DOMAIN AgedFacts = 1..Len(AgedFacts)
         /\ \A path \in RecipePaths : Said(AgedFacts, path) = RequestSays(path)
         /\ RecipeFacts(request, AgedFacts)
<1>1. RecipeContexts
  BY RecipeAnswers
<1> DEFINE n == Len(Calls[request])
<1>2. /\ n \in Nat \ {0} /\ DOMAIN contexts = 1..n
      /\ \A k \in 1..n : contexts[k].ok /\ FactSeq(contexts[k].facts)
      /\ \A path \in RecipePaths : UNION {Said(contexts[k].facts, path) : k \in 1..n} = RequestSays(path)
  BY <1>1 DEF RecipeContexts
<1> HIDE DEF n
<1>3. /\ FactSeq(AgedFacts)
      /\ \A path : Said(AgedFacts, path) = UNION {Said(contexts[k].facts, path) : k \in 1..n}
  <2>1. n \in Nat /\ DOMAIN contexts = 1..n /\ \A k \in 1..n : FactSeq(contexts[k].facts)
    BY <1>2
  <2> QED
    BY <2>1, AgedSaid
<1>4. Len(AgedFacts) \in Nat /\ DOMAIN AgedFacts = 1..Len(AgedFacts)
  BY <1>3, SeqDomain DEF FactSeq
<1>5. \A path \in RecipePaths : Said(AgedFacts, path) = RequestSays(path)
  BY <1>2, <1>3
<1>6. RecipeFacts(request, AgedFacts)
  <2> SUFFICES ASSUME NEW path \in Tree[request].facts, NEW i \in DOMAIN AgedFacts,
                      Selects(Selectors[path], AgedFacts[i])
               PROVE  AgedFacts[i].value \in FactRange(path)
    BY DEF RecipeFacts
  <2>1. path \in RecipePaths
    BY DEF RecipePaths
  <2>2. AgedFacts[i].value \in Said(AgedFacts, path)
    BY DEF Said, ToSet
  <2>3. RequestSays(path) \subseteq FactRange(path)
    BY RequestRange
  <2> QED
    BY <1>5, <2>1, <2>2, <2>3
<1> QED
  BY <1>3, <1>4, <1>5, <1>6

-----------------------------------------------------------------------------
(* The proofs of a request.                                                *)

\* But for the utilization policy, the types a program uses are those its
\* witness takes: there the schema may be left out.
LEMMA SchemaOptional ==
  ASSUME NEW r \in Recipes, r # "blend"
  PROVE  Over(<<>>, Tree[r].types) = Over(Thresholds[r], Tree[r].types)
<1>1. ASSUME NEW g, g = [x \in DOMAIN g |-> g[x]] PROVE Over(<<>>, g) = g
  BY <1>1 DEF Over
<1>2. CASE r = "aquarius"
  <2>1. Tree[r].types = [minOut |-> "u128"] /\ Thresholds[r] = [minOut |-> "u128"]
    BY <1>2 DEF Tree, Thresholds
  <2>2. Over(<<>>, [minOut |-> "u128"]) = [minOut |-> "u128"]
    BY <1>1
  <2> QED
    BY <2>1, <2>2, TreeShape
<1>3. CASE r = "sdex"
  <2>1. /\ Tree[r].types = [minReceive |-> "u128", maxSpreadBps |-> "u64"]
        /\ Thresholds[r] = [minReceive |-> "u128", maxSpreadBps |-> "u64"]
    BY <1>3 DEF Tree, Thresholds
  <2>2. Over(<<>>, [minReceive |-> "u128", maxSpreadBps |-> "u64"])
          = [minReceive |-> "u128", maxSpreadBps |-> "u64"]
    BY <1>1
  <2> QED
    BY <2>1, <2>2, TreeShape
<1>4. CASE r = "composite"
  <2>1. /\ Tree[r].types = [minHealth |-> "fixed_1e6", minReceive |-> "u128"]
        /\ Thresholds[r] = [minHealth |-> "fixed_1e6", minReceive |-> "u128"]
    BY <1>4 DEF Tree, Thresholds
  <2>2. Over(<<>>, [minHealth |-> "fixed_1e6", minReceive |-> "u128"])
          = [minHealth |-> "fixed_1e6", minReceive |-> "u128"]
    BY <1>1
  <2> QED
    BY <2>1, <2>2, TreeShape
<1> QED
  BY <1>2, <1>3, <1>4 DEF Recipes

\* The integers of every recipe but Blend are read alike with a schema and
\* without one.
LEMMA ProvedWithoutSchema ==
  ASSUME NEW r \in Recipes, r # "blend", NEW facts, NEW inputs, NEW capsule, NEW maxAge
  PROVE  Prove(r, Intent(r, inputs, <<>>), capsule, facts, maxAge)
           = Prove(r, Intent(r, inputs, Thresholds[r]), capsule, facts, maxAge)
<1> DEFINE i == Intent(r, inputs, <<>>)
           j == Intent(r, inputs, Thresholds[r])
           tree == Analysis(i.program)
           c == Compile(i, facts)
           e == Evaluate(c, inputs, facts, maxAge)
           w == BuildWitness(r, capsule, facts, c.bound, inputs)
<1>1. /\ i.program = j.program /\ i.privates = inputs /\ j.privates = inputs
      /\ i.reveal = j.reveal /\ i.hide = j.hide
      /\ i.schema = <<>> /\ j.schema = Thresholds[r] /\ i.program = Program[r]
  BY DEF Intent
<1>2. tree = Tree[r]
  BY <1>1, ProgramsAssumption
<1>3. Over(i.schema, tree.types) = Over(j.schema, tree.types)
  BY <1>1, <1>2, SchemaOptional
<1> HIDE DEF i, j
<1>4. c = Compile(j, facts)
  <2> DEFINE Made(schema) ==
               IF \/ tree.ast = <<>>
                  \/ i.reveal \cap DOMAIN PrivatePaths # {}
                  \/ ~ DOMAIN tree.types \subseteq DOMAIN inputs
                  \/ \E p \in tree.facts : ~ Binds(p, facts)
               THEN NotCompiled
               ELSE [throws |-> FALSE, ast |-> tree.ast, schema |-> schema,
                     bound |-> [p \in tree.facts |-> Bind(p, facts)],
                     reveal |-> i.reveal, hide |-> i.hide]
  <2>1. Compile(i, facts) = Made(Over(i.schema, tree.types))
    BY <1>1 DEF Compile
  <2>2. tree = Analysis(j.program)
    BY <1>1
  <2>3. Compile(j, facts) = Made(Over(j.schema, tree.types))
    <3> HIDE DEF tree
    <3> QED
      BY <1>1, <2>2 DEF Compile
  <2>4. Made(Over(i.schema, tree.types)) = Made(Over(j.schema, tree.types))
    BY <1>3
  <2> HIDE DEF Made, tree
  <2> QED
    BY <2>1, <2>3, <2>4
<1> DEFINE Result(c1, e1, w1) ==
             IF c1.throws THEN Refused ELSE IF e1.throws THEN Refused
             ELSE IF w1.thrown \/ ~(ContextBound(w1) /\ Included(w1)) THEN Refused
             ELSE IF ~CircomRun(r, w1).sat THEN Refused ELSE Shown(r, c1, e1, w1)
<1>5. ASSUME NEW intent, intent.privates = inputs, c = Compile(intent, facts)
      PROVE  Prove(r, intent, capsule, facts, maxAge) = Result(c, e, w)
  <2> DEFINE e0 == Evaluate(c, intent.privates, facts, maxAge)
             w0 == BuildWitness(r, capsule, facts, c.bound, intent.privates)
  <2>1. e0 = e /\ w0 = w
    BY <1>5
  <2>2. c = Compile(intent, facts) /\ e0 = Evaluate(c, intent.privates, facts, maxAge)
        /\ w0 = BuildWitness(r, capsule, facts, c.bound, intent.privates)
    BY <1>5
  <2> HIDE DEF c, e0, w0
  <2>3. Prove(r, intent, capsule, facts, maxAge) = Result(c, e0, w0)
    BY <2>2, ProveStages
  <2> HIDE DEF e, w, Result
  <2> QED
    BY <2>1, <2>3
<1>6. Prove(r, i, capsule, facts, maxAge) = Result(c, e, w)
  BY <1>1, <1>5
<1>7. Prove(r, j, capsule, facts, maxAge) = Result(c, e, w)
  BY <1>1, <1>4, <1>5
<1> QED
  BY <1>6, <1>7 DEF i, j

\* The schema matters for the utilization policy only.
Typed == WithSchema \/ request # "blend"

\* A proof of a typed request is the proof of a recipe over the aged facts of
\* its contexts.
LEMMA RequestProofs ==
  ASSUME RequestInv, Complete, Typed, NEW maxAge \in MaxAges \cup {NoAge}
  PROVE  /\ request \in Recipes /\ Answered /\ Built.ok /\ RecipeInputs(request, privates)
         /\ proofs[maxAge] = Prove(request, Intent(request, privates, Thresholds[request]),
                                   ZkCapsule(AgedFacts, 0, 0), AgedFacts, maxAge)
<1>1. /\ request \in Recipes /\ Answered /\ Built.ok
      /\ DOMAIN privates = DOMAIN Thresholds[request]
      /\ proofs = [a \in MaxAges \cup {NoAge} |-> ProofOf(AgedFacts, privates, a)]
      /\ \A name \in DOMAIN privates : privates[name] \in PrivateValues[name]
  BY DEF RequestInv, PrivatesInv, Complete
<1>2. RecipeInputs(request, privates)
  BY <1>1 DEF RecipeInputs
<1>3. proofs[maxAge] = ProofOf(AgedFacts, privates, maxAge)
  BY <1>1
<1> DEFINE facts == AgedFacts
           zk == ZkCapsule(facts, 0, 0)
           own == Intent(request, privates, Schema)
           full == Intent(request, privates, Thresholds[request])
<1>4. ProofOf(facts, privates, maxAge) = Prove(request, own, zk, facts, maxAge)
  <2>1. {Prove(request, intent, capsule, facts, maxAge) :
            intent \in {own}, capsule \in {zk}} = {Prove(request, own, zk, facts, maxAge)}
    <3> HIDE DEF own, zk, facts
    <3> QED
      OBVIOUS
  <2>2. ProofOf(facts, privates, maxAge)
          = Only({Prove(request, intent, capsule, facts, maxAge) : intent \in {own}, capsule \in {zk}})
    BY DEF ProofOf
  <2> HIDE DEF own, zk, facts
  <2> QED
    BY <2>1, <2>2, OnlyOne
<1>5. Prove(request, own, zk, facts, maxAge) = Prove(request, full, zk, facts, maxAge)
  <2>1. CASE WithSchema
    BY <2>1 DEF Schema
  <2>2. CASE ~WithSchema
    <3>1. own = Intent(request, privates, <<>>) /\ request # "blend"
      BY <2>2 DEF Schema, Typed
    <3> HIDE DEF zk, facts
    <3> QED
      BY <1>1, <3>1, ProvedWithoutSchema
  <2> QED
    BY <2>1, <2>2
<1> QED
  BY <1>1, <1>2, <1>3, <1>4, <1>5

\* Below 2^64 the Noir circuits of the three policies without a division
\* compare what the predicates compare.
LEMMA NoirCompares ==
  ASSUME NEW r \in Recipes, r # "blend", NEW f, NEW t,
         \A slot \in DOMAIN Slots[r] : f[slot] \in 0..(Span64 - 1),
         \A name \in DOMAIN Thresholds[r] : t[name] \in 0..(Span64 - 1)
  PROVE  NoirOutput(r, f, t) \in BOOLEAN /\ (NoirOutput(r, f, t) <=> Predicate(r, f, t))
<1>1. Span64 \in Nat \ {0}
  BY SpanAssumption
<1>2. \A x \in 0..(Span64 - 1) : U64(x) = x /\ x \in Nat
  <2> TAKE x \in 0..(Span64 - 1)
  <2>1. x % Span64 = x
    BY <1>1, Z3
  <2> QED
    BY <1>1, <2>1 DEF U64
<1>3. CASE r = "aquarius"
  <2>1. DOMAIN Slots[r] = {"out", "hops"} /\ DOMAIN Thresholds[r] = {"minOut"}
    BY <1>3 DEF Slots, Thresholds
  <2>2. f.out \in 0..(Span64 - 1) /\ f.hops \in 0..(Span64 - 1) /\ t.minOut \in 0..(Span64 - 1)
    BY <2>1
  <2> DEFINE a == f.out
             b == f.hops
             c == t.minOut
  <2>3. U64(a) = a /\ U64(b) = b /\ U64(c) = c
    BY <1>2, <2>2
  <2>4. NoirOutput(r, f, t) = (U64(a) >= U64(c) /\ U64(b) <= 4)
    BY <1>3 DEF NoirOutput
  <2>5. Predicate(r, f, t) <=> (a >= c /\ b <= 4)
    BY <1>3 DEF Predicate, AquariusPredicate
  <2> HIDE DEF a, b, c
  <2> QED
    BY <2>3, <2>4, <2>5
<1>4. CASE r = "sdex"
  <2>1. /\ DOMAIN Slots[r] = {"available", "path_out", "spread"}
        /\ DOMAIN Thresholds[r] = {"minReceive", "maxSpreadBps"}
    BY <1>4 DEF Slots, Thresholds
  <2>2. /\ f.path_out \in 0..(Span64 - 1) /\ f.spread \in 0..(Span64 - 1)
        /\ t.minReceive \in 0..(Span64 - 1) /\ t.maxSpreadBps \in 0..(Span64 - 1)
    BY <2>1
  <2> DEFINE a == f.path_out
             b == f.spread
             c == t.minReceive
             d == t.maxSpreadBps
  <2>3. U64(a) = a /\ U64(b) = b /\ U64(c) = c /\ U64(d) = d
    BY <1>2, <2>2
  <2>4. NoirOutput(r, f, t) = (f.available = 1 /\ (U64(a) >= U64(c) \/ U64(b) <= U64(d)))
    BY <1>4 DEF NoirOutput
  <2>5. Predicate(r, f, t) <=> (f.available = 1 /\ (a >= c \/ b <= d))
    BY <1>4 DEF Predicate, SdexPredicate
  <2> HIDE DEF a, b, c, d
  <2> QED
    BY <2>3, <2>4, <2>5
<1>5. CASE r = "composite"
  <2>1. /\ DOMAIN Slots[r] = {"health", "out", "hops", "available", "path_out"}
        /\ DOMAIN Thresholds[r] = {"minHealth", "minReceive"}
    BY <1>5 DEF Slots, Thresholds
  <2>2. /\ f.path_out \in 0..(Span64 - 1) /\ f.out \in 0..(Span64 - 1)
        /\ f.hops \in 0..(Span64 - 1) /\ f.health \in 0..(Span64 - 1)
        /\ t.minReceive \in 0..(Span64 - 1) /\ t.minHealth \in 0..(Span64 - 1)
    BY <2>1
  <2> DEFINE a == f.path_out
             b == f.out
             h == f.hops
             e == f.health
             c == t.minReceive
             d == t.minHealth
  <2>3. U64(a) = a /\ U64(b) = b /\ U64(c) = c /\ U64(d) = d /\ U64(h) = h /\ U64(e) = e
    BY <1>2, <2>2
  <2>4. NoirOutput(r, f, t) =
          (U64(e) > U64(d) /\ ((U64(b) >= U64(c) /\ U64(h) <= 4) \/ (f.available = 1 /\ U64(a) >= U64(c))))
    BY <1>5 DEF NoirOutput
  <2>5. Predicate(r, f, t) <=> (e > d /\ ((b >= c /\ h <= 4) \/ (f.available = 1 /\ a >= c)))
    BY <1>5 DEF Predicate, CompositePredicate
  <2> HIDE DEF a, b, c, d, h, e
  <2> QED
    BY <2>3, <2>4, <2>5
<1> QED
  BY <1>3, <1>4, <1>5 DEF Recipes

\* The ranges of the facts and of the inputs are of naturals.
LEMMA RecipeNumbers ==
  /\ \A path \in RecipePaths : NumberRange(path) \subseteq Nat
  /\ \A name \in InputNames : InputRange(name) \subseteq Nat
<1>1. MaxAmount \div Unit \in Nat /\ MaxAmount * Scale \in Nat /\ MaxBound \in Nat /\ Span64 \in Nat \ {0}
  BY RangesFit, SpanAssumption
<1> DEFINE most == MaxAmount \div Unit
           scaled == MaxAmount * Scale
<1>2. \A path \in RecipePaths : NumberRange(path) \subseteq Nat
  <2> TAKE path \in RecipePaths
  <2>1. most \in Nat /\ scaled \in Nat
    BY <1>1
  <2>2. /\ NumberRange("totalBorrowed") = 0..most /\ NumberRange("totalSupplied") = 0..most
        /\ NumberRange("estimatedOut") = 0..most /\ NumberRange("pathEstimatedOut") = 0..most
    BY DEF NumberRange
  <2>3. /\ NumberRange("isFresh") = 0..1 /\ NumberRange("pathAvailable") = 0..1
        /\ NumberRange("routeHops") = {1} /\ NumberRange("spreadBps") = 0..(Span64 - 1)
    <3>1. NumberRange("isFresh") = 0..1
      BY DEF NumberRange
    <3>2. NumberRange("pathAvailable") = 0..1
      BY DEF NumberRange
    <3>3. NumberRange("routeHops") = {1}
      BY DEF NumberRange
    <3>4. NumberRange("spreadBps") = 0..(Span64 - 1)
      BY DEF NumberRange
    <3> QED
      BY <3>1, <3>2, <3>3, <3>4
  <2>4. NumberRange("healthAfterAction") = 0..scaled
    BY DEF NumberRange
  <2> HIDE DEF most, scaled
  <2>5. 0..most \subseteq Nat /\ 0..1 \subseteq Nat /\ 0..scaled \subseteq Nat /\ {1} \subseteq Nat
        /\ 0..(Span64 - 1) \subseteq Nat
    BY <1>1, <2>1
  <2> QED
    <3>1. path \in {"totalBorrowed", "totalSupplied", "isFresh", "healthAfterAction",
                    "estimatedOut", "routeHops", "pathAvailable", "pathEstimatedOut", "spreadBps"}
      BY RecipeNames
    <3>2. CASE path \in {"totalBorrowed", "totalSupplied", "estimatedOut", "pathEstimatedOut"}
      BY <2>2, <2>5, <3>2
    <3>3. CASE path \in {"isFresh", "pathAvailable", "routeHops", "spreadBps"}
      <4> DEFINE wide == 0..(Span64 - 1)
                 bit == 0..1
                 one == {1}
      <4>1. /\ NumberRange("isFresh") = bit /\ NumberRange("pathAvailable") = bit
            /\ NumberRange("routeHops") = one /\ NumberRange("spreadBps") = wide
        BY <2>3
      <4>2. bit \subseteq Nat /\ one \subseteq Nat /\ wide \subseteq Nat
        BY <2>5
      <4> HIDE DEF wide, bit, one
      <4> QED
        BY <3>3, <4>1, <4>2
    <3>4. CASE path = "healthAfterAction"
      BY <2>4, <2>5, <3>4
    <3> QED
      BY <3>1, <3>2, <3>3, <3>4
<1>3. \A name \in InputNames : InputRange(name) \subseteq Nat
  <2> TAKE name \in InputNames
  <2>1. most \in Nat
    BY <1>1
  <2>2. /\ InputRange("maxUtilization") = 0..MaxBound /\ InputRange("minHealth") = 0..MaxBound
        /\ InputRange("minOut") = 0..most /\ InputRange("minReceive") = 0..most
        /\ InputRange("maxSpreadBps") = 0..(Span64 - 2)
    BY DEF InputRange
  <2> HIDE DEF most
  <2>3. 0..most \subseteq Nat /\ 0..MaxBound \subseteq Nat /\ 0..(Span64 - 2) \subseteq Nat
    BY <1>1, <2>1
  <2> QED
    BY <2>2, <2>3, RecipeNames
<1> QED
  BY <1>2, <1>3

\* The proofs of a request, by the numbers of its facts and private inputs.
LEMMA RequestVerdict ==
  ASSUME RequestInv, Complete, Typed, NEW maxAge \in MaxAges \cup {NoAge}
  PROVE  LET facts == AgedFacts
             p == proofs[maxAge]
             f == SlotNumbers(request, Values(request, facts))
             t == InputNumbers(request, Givens(request, privates))
         IN  /\ p.refused <=> ~AllBind(request, facts) \/ ~AllNumeric(request, facts)
                                \/ Gated(request, facts, maxAge)
             /\ ~p.refused =>
                  /\ p.evaluated \in BOOLEAN /\ (p.evaluated <=> Predicate(request, f, t))
                  /\ p.reference \in BOOLEAN /\ (p.reference <=> Predicate(request, f, t))
                  /\ p.proved \in BOOLEAN /\ (p.proved <=> Predicate(request, f, t))
                  /\ p.witness.value = f /\ p.witness.threshold = t
                  /\ CircomInput(f) = f /\ CircomInput(t) = t
                  /\ p.compiled.bound = Bound(request, facts)
<1> DEFINE facts == AgedFacts
           n == Len(facts)
<1>1. /\ request \in Recipes /\ Answered /\ Built.ok /\ RecipeInputs(request, privates)
      /\ proofs[maxAge] = Prove(request, Intent(request, privates, Thresholds[request]),
                                ZkCapsule(facts, 0, 0), facts, maxAge)
  BY RequestProofs
<1>2. n \in Nat /\ DOMAIN facts = 1..n /\ RecipeFacts(request, facts)
  BY <1>1, RecipeCapsule
<1> HIDE DEF facts, n
<1> DEFINE q == Prove(request, Intent(request, privates, Thresholds[request]),
                      ZkCapsule(facts, 0, 0), facts, maxAge)
           f == SlotNumbers(request, Values(request, facts))
           t == InputNumbers(request, Givens(request, privates))
<1>3. /\ q.refused <=> ~AllBind(request, facts) \/ ~AllNumeric(request, facts)
                                \/ Gated(request, facts, maxAge)
      /\ ~q.refused =>
                  /\ q.evaluated \in BOOLEAN /\ (q.evaluated <=> Predicate(request, f, t))
                  /\ q.reference \in BOOLEAN /\ (q.reference <=> Predicate(request, f, t))
                  /\ q.proved \in BOOLEAN /\ (q.proved <=> Predicate(request, f, t))
                  /\ q.witness.value = f /\ q.witness.threshold = t
                  /\ CircomInput(f) = f /\ CircomInput(t) = t
                  /\ q.compiled.bound = Bound(request, facts)
  BY <1>1, <1>2, PolicyProved
<1> DEFINE p == proofs[maxAge]
<1>4. p = q
  BY <1>1
<1> HIDE DEF p, q
<1>5. /\ p.refused <=> ~AllBind(request, facts) \/ ~AllNumeric(request, facts)
                                \/ Gated(request, facts, maxAge)
      /\ ~p.refused =>
                  /\ p.evaluated \in BOOLEAN /\ (p.evaluated <=> Predicate(request, f, t))
                  /\ p.reference \in BOOLEAN /\ (p.reference <=> Predicate(request, f, t))
                  /\ p.proved \in BOOLEAN /\ (p.proved <=> Predicate(request, f, t))
                  /\ p.witness.value = f /\ p.witness.threshold = t
                  /\ CircomInput(f) = f /\ CircomInput(t) = t
                  /\ p.compiled.bound = Bound(request, facts)
  BY <1>3, <1>4, Zenon
<1> QED
  BY <1>5, Zenon DEF p, f, t, facts

\* The numbers of a proof that is not refused are not negative.
LEMMA RequestNumbers ==
  ASSUME RequestInv, Complete, Typed, NEW maxAge \in MaxAges \cup {NoAge}, ~proofs[maxAge].refused
  PROVE  /\ \A slot \in DOMAIN Slots[request] :
              SlotNumbers(request, Values(request, AgedFacts))[slot] \in Nat
         /\ \A name \in DOMAIN Thresholds[request] :
              InputNumbers(request, Givens(request, privates))[name] \in Nat
<1> DEFINE facts == AgedFacts
           n == Len(facts)
<1>1. request \in Recipes /\ Answered /\ Built.ok /\ RecipeInputs(request, privates)
  BY RequestProofs
<1>2. n \in Nat /\ DOMAIN facts = 1..n /\ RecipeFacts(request, facts)
  BY <1>1, RecipeCapsule
<1>3. AllBind(request, facts) /\ AllNumeric(request, facts)
  BY RequestVerdict
<1> HIDE DEF facts, n
<1>4. NumbersIn(Values(request, facts), Tree[request].facts)
  BY <1>1, <1>2, <1>3, ValuesMeet
<1>5. InputsIn(Givens(request, privates), DOMAIN Thresholds[request])
  BY <1>1, GivensMeet
<1>6. ASSUME NEW slot \in DOMAIN Slots[request]
      PROVE  SlotNumbers(request, Values(request, facts))[slot] \in Nat
  <2> DEFINE path == Slots[request][slot]
  <2>1. path \in Tree[request].facts
    BY <1>1, TreeShape
  <2>2. path \in RecipePaths
    BY <1>1, <2>1 DEF RecipePaths
  <2>3. Values(request, facts)[path].n \in NumberRange(path)
    BY <1>4, <2>1 DEF NumbersIn
  <2>4. SlotNumbers(request, Values(request, facts))[slot] = Values(request, facts)[path].n
    BY DEF SlotNumbers
  <2> HIDE DEF path
  <2> QED
    BY <2>2, <2>3, <2>4, RecipeNumbers
<1>7. ASSUME NEW name \in DOMAIN Thresholds[request]
      PROVE  InputNumbers(request, Givens(request, privates))[name] \in Nat
  <2>1. name \in InputNames
    BY <1>1 DEF InputNames
  <2>2. Givens(request, privates)[name].n \in InputRange(name)
    BY <1>5 DEF InputsIn
  <2>3. InputNumbers(request, Givens(request, privates))[name] = Givens(request, privates)[name].n
    BY DEF InputNumbers
  <2> QED
    BY <2>1, <2>2, <2>3, RecipeNumbers
<1> QED
  BY <1>6, <1>7 DEF facts

\* The invariant of a request implies the agreement of its proofs with the
\* evaluator.
LEMMA ProofsAgreeInv ==
  ASSUME RequestInv, Typed
  PROVE  ProofAgreesWithEvaluator
<1> SUFFICES ASSUME Complete, ~TheProof.refused
             PROVE  /\ TheProof.evaluated = TheProof.reference
                    /\ TheProof.evaluated = TheProof.proved
                    /\ (/\ request # "blend"
                        /\ \A x \in Range(TheProof.witness.value) \cup Range(TheProof.witness.threshold) :
                             x < Span64) =>
                         NoirOutput(request, CircomInput(TheProof.witness.value),
                                    CircomInput(TheProof.witness.threshold)) = TheProof.reference
  BY DEF ProofAgreesWithEvaluator
<1> DEFINE p == TheProof
           f == SlotNumbers(request, Values(request, AgedFacts))
           t == InputNumbers(request, Givens(request, privates))
           verdict == Predicate(request, f, t)
<1>1. NoAge \in MaxAges \cup {NoAge} /\ p = proofs[NoAge]
  BY DEF TheProof
<1>2. ~proofs[NoAge].refused
  BY DEF TheProof
<1>3. /\ p.evaluated \in BOOLEAN /\ (p.evaluated <=> verdict)
      /\ p.reference \in BOOLEAN /\ (p.reference <=> verdict)
      /\ p.proved \in BOOLEAN /\ (p.proved <=> verdict)
      /\ p.witness.value = f /\ p.witness.threshold = t
      /\ CircomInput(f) = f /\ CircomInput(t) = t
  <2> HIDE DEF f, t, p, verdict
  <2>1. NoAge \in MaxAges \cup {NoAge} /\ ~proofs[NoAge].refused /\ p = proofs[NoAge]
    BY <1>1, <1>2
  <2> QED
    BY <2>1, RequestVerdict, Zenon DEF f, t, verdict
<1>4. /\ \A slot \in DOMAIN Slots[request] : f[slot] \in Nat
      /\ \A name \in DOMAIN Thresholds[request] : t[name] \in Nat
  BY <1>1, <1>2, RequestNumbers
<1>5. request \in Recipes
  BY <1>1, RequestProofs
<1>6. DOMAIN f = DOMAIN Slots[request] /\ DOMAIN t = DOMAIN Thresholds[request]
  BY DEF SlotNumbers, InputNumbers
<1> HIDE DEF p, f, t, verdict
<1>7. p.evaluated = p.reference /\ p.evaluated = p.proved
  <2> DEFINE a == p.evaluated
             b == p.reference
             c == p.proved
  <2>1. a \in BOOLEAN /\ b \in BOOLEAN /\ c \in BOOLEAN /\ (a <=> verdict) /\ (b <=> verdict) /\ (c <=> verdict)
    BY <1>3, Zenon
  <2> HIDE DEF a, b, c
  <2> QED
    BY <2>1, Zenon DEF a, b, c
<1>8. ASSUME request # "blend",
             \A x \in Range(p.witness.value) \cup Range(p.witness.threshold) : x < Span64
      PROVE  NoirOutput(request, CircomInput(p.witness.value), CircomInput(p.witness.threshold)) = p.reference
  <2>1. \A x \in Range(f) \cup Range(t) : x < Span64
    BY <1>3, <1>8
  <2>2. \A slot \in DOMAIN Slots[request] : f[slot] \in Range(f)
    BY <1>6 DEF Range
  <2>3. \A name \in DOMAIN Thresholds[request] : t[name] \in Range(t)
    BY <1>6 DEF Range
  <2>4. Span64 \in Nat
    BY SpanAssumption
  <2>5. \A slot \in DOMAIN Slots[request] : f[slot] \in 0..(Span64 - 1)
    BY <1>4, <2>1, <2>2, <2>4
  <2>6. \A name \in DOMAIN Thresholds[request] : t[name] \in 0..(Span64 - 1)
    BY <1>4, <2>1, <2>3, <2>4
  <2> DEFINE noir == NoirOutput(request, f, t)
             b == p.reference
  <2>7. noir \in BOOLEAN /\ (noir <=> verdict)
    BY <1>5, <1>8, <2>5, <2>6, NoirCompares DEF verdict
  <2>8. b \in BOOLEAN /\ (b <=> verdict)
    BY <1>3, Zenon
  <2>9. NoirOutput(request, CircomInput(p.witness.value), CircomInput(p.witness.threshold)) = noir
    BY <1>3
  <2> HIDE DEF noir, b
  <2>10. noir = b
    BY <2>7, <2>8, Zenon
  <2> QED
    BY <2>9, <2>10 DEF b
<1> QED
  BY <1>7, <1>8 DEF p

\* Whatever the chain answers and the caller asks for, a policy proof shows
\* what the evaluator answered; of the utilization policy, if the caller gives
\* the schema.
THEOREM ProofsAgree == PolicySpec => [](Typed => ProofAgreesWithEvaluator)
<1>1. RequestInv => (Typed => ProofAgreesWithEvaluator)
  BY ProofsAgreeInv
<1> QED
  BY <1>1, RequestInvariance, PTL

-----------------------------------------------------------------------------
(* Why a policy proof is refused.                                          *)

\* Every fact of a recipe's capsule cites a record.
LEMMA RecipeFactSource ==
  ASSUME RequestInv, Answered, request \in Recipes, Built.ok, NEW i \in DOMAIN AgedFacts
  PROVE  AgedFacts[i].cites # {}
<1> DEFINE n == Len(Calls[request])
           g == AgedFacts[i]
<1>1. /\ n \in Nat /\ DOMAIN contexts = 1..n
      /\ \A k \in 1..n : contexts[k].ok /\ FactSeq(contexts[k].facts)
  BY RecipeAnswers DEF RecipeContexts
<1>2. \A h \in ToSet(AgedFacts) : \E k \in 1..n : \E f \in ToSet(contexts[k].facts) :
              \E a : h = [f EXCEPT !.age = a]
  <2> HIDE DEF n
  <2> QED
    BY <1>1, AgedSaid
<1>3. g \in ToSet(AgedFacts)
  BY DEF ToSet
<1> HIDE DEF n, g
<1>4. PICK k \in 1..n : \E f \in ToSet(contexts[k].facts) : \E a : g = [f EXCEPT !.age = a]
  BY <1>2, <1>3
<1>5. PICK f \in ToSet(contexts[k].facts) : \E a : g = [f EXCEPT !.age = a]
  BY <1>4
<1>6. PICK a : g = [f EXCEPT !.age = a]
  BY <1>5
<1>7. FactNames \subseteq DOMAIN f
  BY <1>1 DEF FactSeq
<1>8. g.cites = f.cites
  BY <1>6, <1>7, AgedFact
<1>9. f.cites # {}
  <2>1. contexts[k] \in Range(contexts)
    BY <1>1 DEF Range
  <2>2. CitesOwn(contexts[k]) /\ contexts[k].ok
    BY <1>1, <2>1, ContextsCite
  <2> QED
    BY <2>2 DEF CitesOwn, Cited
<1> QED
  BY <1>8, <1>9 DEF g

\* A path is bound if the chain's answers state it, to a value they state.
LEMMA CapsuleBinds ==
  ASSUME RequestInv, Answered, request \in Recipes, Built.ok, NEW path \in Tree[request].facts
  PROVE  /\ Binds(path, AgedFacts) <=> RequestSays(path) # {}
         /\ Binds(path, AgedFacts) => /\ Bind(path, AgedFacts) \in DOMAIN AgedFacts
                                      /\ Selects(Selectors[path], BoundFact(path, AgedFacts))
                                      /\ BoundFact(path, AgedFacts).value \in RequestSays(path)
<1> DEFINE facts == AgedFacts
           n == Len(facts)
<1>1. n \in Nat /\ DOMAIN facts = 1..n
  BY RecipeCapsule
<1>2. \A i \in 1..n : facts[i].cites # {}
  <2> TAKE i \in 1..n
  <2> QED
    BY <1>1, RecipeFactSource
<1>3. path \in RecipePaths
  BY DEF RecipePaths
<1>4. Said(facts, path) = RequestSays(path)
  BY <1>3, RecipeCapsule
<1> HIDE DEF facts, n
<1>5. Binds(path, facts) <=> \E i \in 1..n : Selects(Selectors[path], facts[i])
  BY <1>1, <1>2, BindsSelected
<1>6. ASSUME NEW i \in 1..n, Selects(Selectors[path], facts[i])
      PROVE  facts[i].value \in RequestSays(path)
  <2>1. facts[i] \in ToSet(facts)
    BY <1>1 DEF ToSet
  <2> QED
    BY <1>4, <1>6, <2>1 DEF Said
<1>7. RequestSays(path) # {} => \E i \in 1..n : Selects(Selectors[path], facts[i])
  BY <1>1, <1>4 DEF Said, ToSet
<1>8. Binds(path, facts) => /\ Bind(path, facts) \in 1..n
                            /\ Selects(Selectors[path], BoundFact(path, facts))
                            /\ BoundFact(path, facts) = facts[Bind(path, facts)]
  BY <1>1, BindFirst DEF BoundFact
<1>9. Binds(path, facts) => BoundFact(path, facts).value \in RequestSays(path)
  BY <1>6, <1>8
<1> QED
  BY <1>1, <1>5, <1>6, <1>7, <1>8, <1>9 DEF facts

\* The freshness gate refuses exactly for a fact that is too old and has the
\* field of a path the program reads.
LEMMA CapsuleGated ==
  ASSUME RequestInv, Answered, request \in Recipes, Built.ok, AllBind(request, AgedFacts),
         NEW maxAge \in MaxAges
  PROVE  Gated(request, AgedFacts, maxAge)
           <=> \E i \in DOMAIN AgedFacts :
                 /\ \E path \in Tree[request].facts : AgedFacts[i].field = Selectors[path].field
                 /\ AgedFacts[i].age > maxAge
<1> DEFINE facts == AgedFacts
           fields == {facts[Bind(p, facts)].field : p \in Tree[request].facts}
           Old(j) == facts[j].age > maxAge
<1>1. maxAge # NoAge
  BY AgesAssumption DEF NoAge
<1>2. Gated(request, facts, maxAge) <=> \E j \in DOMAIN facts : facts[j].field \in fields /\ Old(j)
  BY <1>1 DEF Gated, StaleFields
<1>3. \A path \in Tree[request].facts : facts[Bind(path, facts)].field = Selectors[path].field
  <2> TAKE path \in Tree[request].facts
  <2>1. Binds(path, AgedFacts)
    BY DEF AllBind
  <2>2. Selects(Selectors[path], BoundFact(path, facts))
    BY <2>1, CapsuleBinds
  <2> QED
    BY <2>2 DEF BoundFact, Selects
<1> HIDE DEF facts, Old
<1>4. fields = {Selectors[path].field : path \in Tree[request].facts}
  BY <1>3
<1> HIDE DEF fields
<1> QED
  BY <1>2, <1>4 DEF facts, Old

\* The values that are no numbers where one is expected.
NoNumber == {Word("exponent"), Word("infinite")}

\* Which printed values are no numbers.
LEMMA Kinds ==
  /\ \A k : Decimal(k) \notin NoNumber
  /\ \A b : Flag(b) \notin NoNumber
  /\ Word("fresh") \notin NoNumber /\ Word("unknown") \notin NoNumber
  /\ Word("infinite") \in NoNumber
  /\ \A v \in Printed : IsDecimal(v) <=> v \notin NoNumber
<1>1. /\ \A k : Decimal(k).kind = "number"
      /\ \A b : Flag(b).kind = "boolean"
      /\ \A w : Word(w).kind = w
  BY DEF Decimal, Flag, Word
<1>2. \A v \in NoNumber : v.kind \in {"exponent", "infinite"}
  BY <1>1 DEF NoNumber
<1>3. \A k : Decimal(k) \notin NoNumber
  BY <1>1, <1>2
<1>4. \A b : Flag(b) \notin NoNumber
  BY <1>1, <1>2
<1>5. Word("fresh") \notin NoNumber /\ Word("unknown") \notin NoNumber
  BY <1>1, <1>2
<1>6. Word("infinite") \in NoNumber
  BY DEF NoNumber
<1>7. \A v \in Printed : IsDecimal(v) <=> v \notin NoNumber
  <2> TAKE v \in Printed
  <2>1. CASE v = Word("exponent")
    BY <1>1, <2>1 DEF IsDecimal, NoNumber
  <2>2. CASE v \in Decimals
    <3>1. v.kind = "number"
      BY <2>2 DEF Decimals
    <3> QED
      BY <1>2, <3>1 DEF IsDecimal
  <2> QED
    BY <2>1, <2>2 DEF Printed
<1> QED
  BY <1>3, <1>4, <1>5, <1>6, <1>7

\* A policy is decidable if its paths are stated, and by no other word than
\* that of freshness.
LEMMA RecipeDecidable ==
  ASSUME RequestInv, Answered, request \in Recipes, Built.ok
  PROVE  Decidable <=> /\ \A path \in Tree[request].facts : RequestSays(path) # {}
                       /\ \A path \in Tree[request].facts : \A v \in RequestSays(path) : v \notin NoNumber
<1>1. \A k \in 1..Len(Calls[request]) : chain[k] \in Calls[request][k]
  BY AnsweredChain
<1>2. CASE request = "blend"
  <2> DEFINE pool == LoadPool(chain[1].pool)
  <2>1. Tree[request].facts = {"totalBorrowed", "totalSupplied", "isFresh"}
    BY <1>2 DEF Tree
  <2>2. \A path : RequestSays(path) = PoolSays(pool, path)
    BY <1>2 DEF RequestSays
  <2>3. pool \in PoolAnswers
    BY <1>2, ServedPool
  <2>4. Decidable <=> /\ "USDC" \in pool.registry
                      /\ \E i \in DOMAIN pool.reserves :
                           /\ pool.reserves[i].asset = "USDC"
                           /\ IsDecimal(pool.reserves[i].borrowed) /\ IsDecimal(pool.reserves[i].supplied)
    BY <1>2 DEF Decidable
  <2> HIDE DEF pool
  <2>5. /\ DOMAIN pool.reserves = 1..Len(pool.reserves)
        /\ \A i \in DOMAIN pool.reserves : pool.reserves[i] \in Reserves
    BY <2>3, PoolParts
  <2>6. \A i, j \in DOMAIN pool.reserves : pool.reserves[i].asset = pool.reserves[j].asset => i = j
    BY <2>3 DEF PoolAnswers
  <2>7. \A r \in Reserves : r.borrowed \in Printed /\ r.supplied \in Printed
    BY DEF Reserves
  <2>8. /\ RequestSays("totalBorrowed") = {r.borrowed : r \in UsdcReserves(pool)}
        /\ RequestSays("totalSupplied") = {r.supplied : r \in UsdcReserves(pool)}
        /\ RequestSays("isFresh") = {Word(IF pool.oracle.ok THEN "fresh" ELSE "unknown")}
    BY <2>2 DEF PoolSays
  <2>9. \A v \in RequestSays("isFresh") : v \notin NoNumber
    BY <2>8, Kinds
  <2>10. CASE \E i \in DOMAIN pool.reserves : pool.reserves[i].asset = "USDC" /\ "USDC" \in pool.registry
    <3>1. PICK i \in DOMAIN pool.reserves : pool.reserves[i].asset = "USDC" /\ "USDC" \in pool.registry
      BY <2>10
    <3> DEFINE usdc == pool.reserves[i]
    <3>2. \A r \in UsdcReserves(pool) : r = usdc
      BY <2>6, <3>1 DEF UsdcReserves, ToSet
    <3>3. usdc \in UsdcReserves(pool)
      BY <3>1 DEF UsdcReserves, ToSet
    <3>4. usdc.borrowed \in Printed /\ usdc.supplied \in Printed
      BY <2>5, <2>7
    <3>5. Decidable <=> IsDecimal(usdc.borrowed) /\ IsDecimal(usdc.supplied)
      BY <2>4, <2>6, <3>1
    <3> HIDE DEF usdc
    <3>6. RequestSays("totalBorrowed") = {usdc.borrowed} /\ RequestSays("totalSupplied") = {usdc.supplied}
      BY <2>8, <3>2, <3>3
    <3>7. /\ IsDecimal(usdc.borrowed) <=> usdc.borrowed \notin NoNumber
          /\ IsDecimal(usdc.supplied) <=> usdc.supplied \notin NoNumber
      BY <3>4, Kinds
    <3>8. RequestSays("isFresh") # {}
      BY <2>8
    <3> QED
      BY <2>1, <2>9, <3>5, <3>6, <3>7, <3>8
  <2>11. CASE ~\E i \in DOMAIN pool.reserves : pool.reserves[i].asset = "USDC" /\ "USDC" \in pool.registry
    <3>1. UsdcReserves(pool) = {}
      BY <2>11 DEF UsdcReserves, ToSet
    <3>2. RequestSays("totalBorrowed") = {}
      BY <2>8, <3>1
    <3>3. ~Decidable
      BY <2>4, <2>11
    <3> QED
      BY <2>1, <3>2, <3>3
  <2> QED
    BY <2>10, <2>11
<1>3. CASE request = "aquarius"
  <2> DEFINE r == chain[1]
             x == Decimal(BestQuote(r).out * Unit)
             y == Decimal(Unit)
  <2>1. Tree[request].facts = {"estimatedOut", "routeHops"}
    BY <1>3 DEF Tree
  <2>2. \A path : RequestSays(path) = SwapSays(r, path)
    BY <1>3 DEF RequestSays
  <2>3. Decidable <=> \E i \in DOMAIN r.pools : r.pools[i].quote.ok
    BY <1>3 DEF Decidable
  <2>4. Decidable <=> Priced(r) # {}
    BY <2>3 DEF Priced
  <2>5. /\ SwapSays(r, "estimatedOut") = IF Priced(r) # {} THEN {x} ELSE {}
        /\ SwapSays(r, "routeHops") = IF Priced(r) # {} THEN {y} ELSE {}
    BY DEF SwapSays
  <2>6. x \notin NoNumber /\ y \notin NoNumber
    BY Kinds
  <2> HIDE DEF r, x, y
  <2> QED
    BY <2>1, <2>2, <2>4, <2>5, <2>6
<1>4. CASE request = "sdex"
  <2> DEFINE r == chain[1]
             b == chain[2]
             found == r.paths # <<>>
             both == b.bids # <<>> /\ b.asks # <<>>
             x == Decimal(r.paths[1].out)
             y == Decimal(Spread(b.bids[1].price, b.asks[1].price) * Unit)
             z == Flag(found)
  <2>1. Tree[request].facts = {"pathEstimatedOut", "spreadBps", "pathAvailable"}
    BY <1>4 DEF Tree
  <2>2. \A path : RequestSays(path) = PathSays(r, path) \cup BookSays(b, path)
    BY <1>4 DEF RequestSays
  <2>3. Decidable <=> found /\ both
    BY <1>4 DEF Decidable
  <2>4. /\ PathSays(r, "pathEstimatedOut") = IF found THEN {x} ELSE {}
        /\ PathSays(r, "pathAvailable") = {z}
        /\ PathSays(r, "spreadBps") = {}
    BY DEF PathSays
  <2>5. /\ BookSays(b, "spreadBps") = IF both THEN {y} ELSE {}
        /\ BookSays(b, "pathEstimatedOut") = {} /\ BookSays(b, "pathAvailable") = {}
    BY DEF BookSays
  <2>6. x \notin NoNumber /\ y \notin NoNumber
    BY Kinds
  <2>7. z \notin NoNumber
    BY Kinds
  <2> HIDE DEF r, b, x, y, z, found, both
  <2> QED
    BY <2>1, <2>2, <2>3, <2>4, <2>5, <2>6, <2>7
<1>5. CASE request = "composite"
  <2> DEFINE u == chain[1]
             r == chain[2]
             s == chain[3]
             pool == LoadPool(u.pool)
             known == FetchedUser(u.user)
             owes == u.user.position.liabilities > 0
             priced == Priced(r) # {}
             found == s.paths # <<>>
             w == Health(u.user)
             x == Decimal(BestQuote(r).out * Unit)
             y == Decimal(Unit)
             v == Decimal(s.paths[1].out)
             z == Flag(found)
  <2>1. Tree[request].facts = {"healthAfterAction", "estimatedOut", "routeHops", "pathAvailable",
                               "pathEstimatedOut"}
    BY <1>5 DEF Tree
  <2>2. \A path : RequestSays(path) = (PoolSays(pool, path) \cup UserSays(u, path))
                                        \cup SwapSays(r, path) \cup PathSays(s, path)
    BY <1>5 DEF RequestSays
  <2>3. Decidable <=> known /\ priced /\ found /\ owes
    <3>1. Decidable <=> /\ known /\ (\E i \in DOMAIN r.pools : r.pools[i].quote.ok)
                        /\ found /\ owes
      BY <1>5 DEF Decidable
    <3> QED
      BY <3>1 DEF Priced
  <2>4. \A path \in Tree[request].facts : PoolSays(pool, path) = {}
    BY <2>1 DEF PoolSays
  <2>5. /\ SwapSays(r, "estimatedOut") = IF priced THEN {x} ELSE {}
        /\ SwapSays(r, "routeHops") = IF priced THEN {y} ELSE {}
        /\ SwapSays(r, "healthAfterAction") = {} /\ SwapSays(r, "pathAvailable") = {}
        /\ SwapSays(r, "pathEstimatedOut") = {}
    BY DEF SwapSays
  <2>6. /\ PathSays(s, "pathEstimatedOut") = IF found THEN {v} ELSE {}
        /\ PathSays(s, "pathAvailable") = {z}
        /\ PathSays(s, "healthAfterAction") = {} /\ PathSays(s, "estimatedOut") = {}
        /\ PathSays(s, "routeHops") = {}
    BY DEF PathSays
  <2>7. /\ UserSays(u, "healthAfterAction") = IF known THEN {w} ELSE {}
        /\ UserSays(u, "estimatedOut") = {} /\ UserSays(u, "routeHops") = {}
        /\ UserSays(u, "pathAvailable") = {} /\ UserSays(u, "pathEstimatedOut") = {}
    BY DEF UserSays, KnownUser
  <2>8. x \notin NoNumber /\ y \notin NoNumber /\ v \notin NoNumber
    BY Kinds
  <2>9. z \notin NoNumber
    BY Kinds
  <2>10. known => (w \notin NoNumber <=> owes)
    <3>1. w = IF u.user.position.liabilities <= 0 THEN Word("infinite")
              ELSE Decimal((2 * u.user.position.collateral * Unit + u.user.position.liabilities)
                             \div (2 * u.user.position.liabilities))
      BY DEF Health
    <3>2. known => u.user.position.liabilities \in Nat
      <4>1. chain[1] \in UserCall
        BY <1>1, <1>5 DEF Calls
      <4>2. u.user \in UserAnswers
        BY <4>1 DEF UserCall
      <4>3. u.user.position \in OrThrown([ok : {TRUE}, collateral : 0..MaxAmount, liabilities : 0..MaxAmount])
        BY <4>2 DEF UserAnswers
      <4>4. \A q \in [ok : {TRUE}, collateral : 0..MaxAmount, liabilities : 0..MaxAmount] : q.ok = TRUE
        OBVIOUS
      <4>5. known => u.user.position \in [ok : {TRUE}, collateral : 0..MaxAmount, liabilities : 0..MaxAmount]
        BY <4>3, <4>4, ThrownOrNot DEF FetchedUser
      <4>6. known => u.user.position.liabilities \in 0..MaxAmount
        BY <4>5
      <4>7. 0..MaxAmount \subseteq Nat
        BY RangesFit
      <4> QED
        BY <4>6, <4>7
    <3> DEFINE l == u.user.position.liabilities
               h == (2 * u.user.position.collateral * Unit + u.user.position.liabilities)
                             \div (2 * u.user.position.liabilities)
    <3>3. w = IF l <= 0 THEN Word("infinite") ELSE Decimal(h)
      BY <3>1
    <3>4. known => l \in Nat
      BY <3>2
    <3>5. owes <=> l > 0
      OBVIOUS
    <3> HIDE DEF w, l, h, known, owes
    <3> QED
      BY <3>3, <3>4, <3>5, Kinds
  <2> HIDE DEF u, r, s, pool, known, owes, priced, found, w, x, y, v, z
  <2>11. /\ RequestSays("healthAfterAction") = IF known THEN {w} ELSE {}
         /\ RequestSays("estimatedOut") = IF priced THEN {x} ELSE {}
         /\ RequestSays("routeHops") = IF priced THEN {y} ELSE {}
         /\ RequestSays("pathAvailable") = {z}
         /\ RequestSays("pathEstimatedOut") = IF found THEN {v} ELSE {}
    BY <2>1, <2>2, <2>4, <2>5, <2>6, <2>7
  <2> QED
    BY <2>1, <2>3, <2>8, <2>9, <2>10, <2>11
<1> QED
  BY <1>2, <1>3, <1>4, <1>5 DEF Recipes

\* The chain's answers state one value of a path: a pool reports USDC once.
LEMMA OneAnswer ==
  ASSUME RequestInv, Answered, request \in Recipes, Built.ok, NEW path \in Tree[request].facts
  PROVE  \A v, w \in RequestSays(path) : v = w
<1>1. \A r : \A v, w \in SwapSays(r, path) : v = w
  BY DEF SwapSays
<1>2. \A r : \A v, w \in PathSays(r, path) : v = w
  BY DEF PathSays
<1>3. CASE request = "blend"
  <2> DEFINE pool == LoadPool(chain[1].pool)
  <2>1. RequestSays(path) = PoolSays(pool, path)
    BY <1>3 DEF RequestSays
  <2>2. pool \in PoolAnswers
    BY <1>3, ServedPool
  <2>3. path \in {"totalBorrowed", "totalSupplied", "isFresh"}
    BY <1>3 DEF Tree
  <2> HIDE DEF pool
  <2>4. \A i, j \in DOMAIN pool.reserves : pool.reserves[i].asset = pool.reserves[j].asset => i = j
    BY <2>2 DEF PoolAnswers
  <2>5. \A r, s \in UsdcReserves(pool) : r = s
    BY <2>4 DEF UsdcReserves, ToSet
  <2>6. CASE path = "totalBorrowed"
    <3>1. PoolSays(pool, path) = {r.borrowed : r \in UsdcReserves(pool)}
      BY <2>6 DEF PoolSays
    <3> QED
      BY <2>1, <2>5, <3>1
  <2>7. CASE path = "totalSupplied"
    <3>1. PoolSays(pool, path) = {r.supplied : r \in UsdcReserves(pool)}
      BY <2>7 DEF PoolSays
    <3> QED
      BY <2>1, <2>5, <3>1
  <2>8. CASE path = "isFresh"
    <3>1. PoolSays(pool, path) = {Word(IF pool.oracle.ok THEN "fresh" ELSE "unknown")}
      BY <2>8 DEF PoolSays
    <3> QED
      BY <2>1, <3>1
  <2> QED
    BY <2>3, <2>6, <2>7, <2>8
<1>4. CASE request = "aquarius"
  <2>1. RequestSays(path) = SwapSays(chain[1], path)
    BY <1>4 DEF RequestSays
  <2> QED
    BY <1>1, <2>1
<1>5. CASE request = "sdex"
  <2>1. RequestSays(path) = PathSays(chain[1], path) \cup BookSays(chain[2], path)
    BY <1>5 DEF RequestSays
  <2>2. CASE path = "spreadBps"
    <3>1. PathSays(chain[1], path) = {}
      BY <2>2 DEF PathSays
    <3>2. \A v, w \in BookSays(chain[2], path) : v = w
      BY DEF BookSays
    <3> QED
      BY <2>1, <3>1, <3>2
  <2>3. CASE path # "spreadBps"
    <3>1. BookSays(chain[2], path) = {}
      BY <2>3 DEF BookSays
    <3> QED
      BY <1>2, <2>1, <3>1
  <2> QED
    BY <2>2, <2>3
<1>6. CASE request = "composite"
  <2> DEFINE pool == LoadPool(chain[1].pool)
  <2>1. path \in {"healthAfterAction", "estimatedOut", "routeHops", "pathAvailable", "pathEstimatedOut"}
    BY <1>6 DEF Tree
  <2>2. RequestSays(path) = (PoolSays(pool, path) \cup UserSays(chain[1], path))
                              \cup SwapSays(chain[2], path) \cup PathSays(chain[3], path)
    BY <1>6 DEF RequestSays
  <2>3. PoolSays(pool, path) = {}
    BY <2>1 DEF PoolSays
  <2> HIDE DEF pool
  <2>4. CASE path = "healthAfterAction"
    <3>1. SwapSays(chain[2], path) = {} /\ PathSays(chain[3], path) = {}
      BY <2>4 DEF SwapSays, PathSays
    <3>2. \A v, w \in UserSays(chain[1], path) : v = w
      BY DEF UserSays
    <3> QED
      BY <2>2, <2>3, <3>1, <3>2
  <2>5. CASE path \in {"estimatedOut", "routeHops"}
    <3>1. UserSays(chain[1], path) = {} /\ PathSays(chain[3], path) = {}
      BY <2>5 DEF UserSays, PathSays
    <3> QED
      BY <1>1, <2>2, <2>3, <3>1
  <2>6. CASE path \in {"pathAvailable", "pathEstimatedOut"}
    <3>1. UserSays(chain[1], path) = {} /\ SwapSays(chain[2], path) = {}
      BY <2>6 DEF UserSays, SwapSays
    <3> QED
      BY <1>2, <2>2, <2>3, <3>1
  <2> QED
    BY <2>1, <2>4, <2>5, <2>6
<1> QED
  BY <1>3, <1>4, <1>5, <1>6 DEF Recipes

\* The invariant of a request implies that a refusal has its cause.
LEMMA RefusedWithCauseInv ==
  ASSUME RequestInv, Typed
  PROVE  RefusedWithCause
<1> SUFFICES ASSUME Complete
             PROVE  /\ TheProof.refused <=> ~Decidable
                    /\ \A maxAge \in MaxAges : ~TheProof.refused =>
                         (proofs[maxAge].refused <=>
                            \E i \in SharingField(TheProof.compiled.bound) :
                              AgedFacts[i].age > maxAge)
  BY DEF RefusedWithCause
<1> DEFINE facts == AgedFacts
           binds == AllBind(request, facts)
           numeric == AllNumeric(request, facts)
           p == TheProof
           paths == Tree[request].facts
           Old(maxAge) == \E i \in DOMAIN facts :
             /\ \E path \in paths : facts[i].field = Selectors[path].field
             /\ facts[i].age > maxAge
<1>1. request \in Recipes /\ Answered /\ Built.ok
  <2>1. NoAge \in MaxAges \cup {NoAge}
    OBVIOUS
  <2> QED
    BY <2>1, RequestProofs
<1>2. p.refused <=> ~binds \/ ~numeric
  <2>1. NoAge \in MaxAges \cup {NoAge}
    OBVIOUS
  <2>2. proofs[NoAge].refused <=> ~binds \/ ~numeric \/ Gated(request, facts, NoAge)
    BY <2>1, RequestVerdict
  <2>3. ~Gated(request, facts, NoAge)
    BY DEF Gated
  <2>4. p = proofs[NoAge]
    BY DEF TheProof
  <2> HIDE DEF p, binds, numeric, facts
  <2> QED
    BY <2>2, <2>3, <2>4
<1>3. ~p.refused => p.compiled.bound = Bound(request, facts)
  <2>1. NoAge \in MaxAges \cup {NoAge}
    OBVIOUS
  <2>2. ~proofs[NoAge].refused => proofs[NoAge].compiled.bound = Bound(request, facts)
    BY <2>1, RequestVerdict
  <2> QED
    BY <2>2 DEF TheProof
<1>4. \A maxAge \in MaxAges :
        proofs[maxAge].refused <=> ~binds \/ ~numeric \/ Gated(request, facts, maxAge)
  <2> TAKE maxAge \in MaxAges
  <2>1. maxAge \in MaxAges \cup {NoAge}
    OBVIOUS
  <2> QED
    BY <2>1, RequestVerdict
<1>5. binds <=> \A path \in paths : RequestSays(path) # {}
  <2>1. \A path \in paths : Binds(path, facts) <=> RequestSays(path) # {}
    BY <1>1, CapsuleBinds
  <2> QED
    BY <2>1 DEF AllBind
<1>6. binds => (numeric <=> \A path \in paths : \A v \in RequestSays(path) : v \notin NoNumber)
  <2> SUFFICES ASSUME binds
               PROVE  numeric <=> \A path \in paths : \A v \in RequestSays(path) : v \notin NoNumber
    OBVIOUS
  <2>1. \A path \in paths : /\ BoundFact(path, facts).value \in RequestSays(path)
                            /\ \A v \in RequestSays(path) : v = BoundFact(path, facts).value
    <3> TAKE path \in paths
    <3>1. Binds(path, facts)
      BY DEF AllBind
    <3>2. BoundFact(path, facts).value \in RequestSays(path)
      BY <1>1, <3>1, CapsuleBinds
    <3>3. \A v, w \in RequestSays(path) : v = w
      BY <1>1, OneAnswer
    <3> QED
      BY <3>2, <3>3
  <2>2. numeric <=> \A path \in paths : BoundFact(path, facts).value \notin NoNumber
    BY DEF AllNumeric, Numeric, NoNumber
  <2> HIDE DEF numeric, facts, paths
  <2> QED
    BY <2>1, <2>2
<1>7. Decidable <=> /\ \A path \in paths : RequestSays(path) # {}
                    /\ \A path \in paths : \A v \in RequestSays(path) : v \notin NoNumber
  BY <1>1, RecipeDecidable
<1>8. binds => \A maxAge \in MaxAges : Gated(request, facts, maxAge) <=> Old(maxAge)
  <2> SUFFICES ASSUME binds, NEW maxAge \in MaxAges
               PROVE  Gated(request, facts, maxAge) <=> Old(maxAge)
    OBVIOUS
  <2> QED
    BY <1>1, CapsuleGated
<1>9. ~p.refused => DOMAIN p.compiled.bound = paths
  BY <1>3 DEF Bound
<1>10. ASSUME NEW maxAge \in MaxAges, DOMAIN p.compiled.bound = paths
       PROVE  Old(maxAge) <=> \E i \in SharingField(p.compiled.bound) : facts[i].age > maxAge
  BY <1>10 DEF SharingField
<1> HIDE DEF facts, binds, numeric, p, paths, Old
<1>11. p.refused <=> ~Decidable
  BY <1>2, <1>5, <1>6, <1>7
<1>12. ASSUME NEW maxAge \in MaxAges, ~p.refused
       PROVE  proofs[maxAge].refused <=>
                \E i \in SharingField(p.compiled.bound) : facts[i].age > maxAge
  <2>1. binds /\ numeric
    BY <1>2, <1>12
  <2> QED
    BY <1>4, <1>8, <1>9, <1>10, <1>12, <2>1
<1> QED
  BY <1>11, <1>12 DEF p, facts

\* A policy proof is refused exactly for a cause: an answer of the chain that
\* is missing, and under a maximum age an older fact of a field it reads.
THEOREM RefusalsHaveCauses == PolicySpec => [](Typed => RefusedWithCause)
<1>1. RequestInv => (Typed => RefusedWithCause)
  BY RefusedWithCauseInv
<1> QED
  BY <1>1, RequestInvariance, PTL

-----------------------------------------------------------------------------
(* Answers: what the facts of a context state of a field, and with what    *)
(* confidence.                                                             *)

Stated(facts, field) == {f.value : f \in {g \in ToSet(facts) : g.field = field}}
Confidences(facts) == {f.confidence : f \in ToSet(facts)}

\* What a list of facts states: of a concatenation,
LEMMA StatedJoin ==
  ASSUME NEW s, NEW t, IsSeq(s), IsSeq(t)
  PROVE  /\ IsSeq(s \o t)
         /\ \A field : Stated(s \o t, field) = Stated(s, field) \cup Stated(t, field)
         /\ Confidences(s \o t) = Confidences(s) \cup Confidences(t)
<1>1. IsSeq(s \o t) /\ ToSet(s \o t) = ToSet(s) \cup ToSet(t)
  BY JoinSet
<1>2. \A field : Stated(s \o t, field) = Stated(s, field) \cup Stated(t, field)
  BY <1>1 DEF Stated
<1>3. Confidences(s \o t) = Confidences(s) \cup Confidences(t)
  BY <1>1 DEF Confidences
<1> QED
  BY <1>1, <1>2, <1>3

\* of a conditional part,
LEMMA StatedWhen ==
  ASSUME NEW s, NEW c, c \in BOOLEAN, IsSeq(s)
  PROVE  /\ IsSeq(When(c, s))
         /\ \A field : Stated(When(c, s), field) = IF c THEN Stated(s, field) ELSE {}
         /\ Confidences(When(c, s)) = IF c THEN Confidences(s) ELSE {}
<1>1. IsSeq(When(c, s)) /\ ToSet(When(c, s)) = IF c THEN ToSet(s) ELSE {}
  BY WhenSet
<1>2. \A field : Stated(When(c, s), field) = IF c THEN Stated(s, field) ELSE {}
  BY <1>1 DEF Stated
<1>3. Confidences(When(c, s)) = IF c THEN Confidences(s) ELSE {}
  BY <1>1 DEF Confidences
<1> QED
  BY <1>1, <1>2, <1>3

\* of a flattened list,
LEMMA StatedFlatten ==
  ASSUME NEW n \in Nat, NEW ss, ss = [i \in 1..n |-> ss[i]], \A i \in 1..n : IsSeq(ss[i])
  PROVE  /\ IsSeq(FlattenSeq(ss))
         /\ \A field : Stated(FlattenSeq(ss), field) = UNION {Stated(ss[i], field) : i \in 1..n}
         /\ Confidences(FlattenSeq(ss)) = UNION {Confidences(ss[i]) : i \in 1..n}
<1>1. IsSeq(FlattenSeq(ss)) /\ ToSet(FlattenSeq(ss)) = UNION {ToSet(ss[i]) : i \in 1..n}
  BY FlattenedSet
<1> DEFINE all == FlattenSeq(ss)
<1>2. \A f : f \in ToSet(all) <=> \E i \in 1..n : f \in ToSet(ss[i])
  BY <1>1
<1> HIDE DEF all
<1>3. ASSUME NEW field PROVE Stated(all, field) = UNION {Stated(ss[i], field) : i \in 1..n}
  <2>1. \A v : v \in Stated(all, field) <=> \E f \in ToSet(all) : f.field = field /\ v = f.value
    BY DEF Stated
  <2>2. \A i \in 1..n : \A v :
          v \in Stated(ss[i], field) <=> \E f \in ToSet(ss[i]) : f.field = field /\ v = f.value
    BY DEF Stated
  <2>3. \A v : v \in Stated(all, field) <=> \E i \in 1..n : v \in Stated(ss[i], field)
    BY <1>2, <2>1, <2>2
  <2> QED
    BY <2>3
<1>4. Confidences(all) = UNION {Confidences(ss[i]) : i \in 1..n}
  <2>1. \A v : v \in Confidences(all) <=> \E f \in ToSet(all) : v = f.confidence
    BY DEF Confidences
  <2>2. \A i \in 1..n : \A v : v \in Confidences(ss[i]) <=> \E f \in ToSet(ss[i]) : v = f.confidence
    BY DEF Confidences
  <2>3. \A v : v \in Confidences(all) <=> \E i \in 1..n : v \in Confidences(ss[i])
    BY <1>2, <2>1, <2>2
  <2> QED
    BY <2>3
<1> QED
  BY <1>1, <1>3, <1>4 DEF all

\* and of the facts of one entity, which have one confidence
States(facts, pairs, confidence) ==
  /\ IsSeq(facts)
  /\ \A field : Stated(facts, field) = Of(pairs, field)
  /\ ToSet(pairs) # {} => Confidences(facts) = {confidence}

LEMMA StatedEntity ==
  ASSUME NEW protocol, NEW entity, NEW symbol, NEW pairs, NEW ledger, NEW sources, NEW confidence,
         IsSeq(pairs)
  PROVE  States(EntityFacts(protocol, entity, symbol, pairs, ledger, sources, confidence),
                pairs, confidence)
<1> DEFINE facts == EntityFacts(protocol, entity, symbol, pairs, ledger, sources, confidence)
           Fact(p) == BuildFact(protocol, entity, symbol, p[1], p[2], ledger, sources, confidence)
<1>1. IsSeq(facts) /\ ToSet(facts) = {Fact(p) : p \in ToSet(pairs)}
  BY EntitySet
<1>2. ASSUME NEW p
      PROVE  /\ Fact(p).protocol = protocol /\ Fact(p).field = p[1] /\ Fact(p).value = p[2]
             /\ Fact(p).confidence = confidence
  BY FactFields
<1> HIDE DEF facts, Fact
<1>3. ASSUME NEW field PROVE Stated(facts, field) = Of(pairs, field)
  <2>1. {g \in ToSet(facts) : g.field = field} = {Fact(p) : p \in {q \in ToSet(pairs) : q[1] = field}}
    BY <1>1, <1>2
  <2> QED
    BY <1>2, <2>1 DEF Stated, Of
<1>4. ToSet(pairs) # {} => Confidences(facts) = {confidence}
  BY <1>1, <1>2 DEF Confidences
<1>5. States(facts, pairs, confidence)
  BY <1>1, <1>3, <1>4 DEF States
<1> QED
  BY <1>5 DEF facts

\* and one protocol.
LEMMA EntityProtocol ==
  ASSUME NEW protocol, NEW entity, NEW symbol, NEW pairs, NEW ledger, NEW sources, NEW confidence,
         IsSeq(pairs),
         NEW f \in ToSet(EntityFacts(protocol, entity, symbol, pairs, ledger, sources, confidence))
  PROVE  f.protocol = protocol
<1>1. PICK p \in ToSet(pairs) :
        f = BuildFact(protocol, entity, symbol, p[1], p[2], ledger, sources, confidence)
  BY EntitySet
<1> QED
  BY <1>1, FactFields

\* A fact of one field states its value.
LEMMA StatedOne ==
  ASSUME NEW facts, NEW a, NEW x, NEW confidence, States(facts, << <<a, x>> >>, confidence)
  PROVE  /\ IsSeq(facts)
         /\ \A field : Stated(facts, field) = IF a = field THEN {x} ELSE {}
         /\ Confidences(facts) = {confidence}
<1> DEFINE p == <<a, x>>
           pairs == <<p>>
<1>1. ToSet(pairs) # {}
  <2> HIDE DEF p
  <2> QED
    BY TupleSet
<1>2. \A field : Of(pairs, field) = IF a = field THEN {x} ELSE {}
  <2> TAKE field
  <2> QED
    BY PairOf
<1>3. States(facts, pairs, confidence)
  OBVIOUS
<1> HIDE DEF p, pairs
<1> QED
  BY <1>1, <1>2, <1>3 DEF States

\* The first value of a field is one that is stated.
LEMMA FirstStated ==
  ASSUME NEW facts, IsSeq(facts), NEW hits \in SUBSET DOMAIN facts, hits # {}
  PROVE  \E i \in hits : FirstValue(facts, hits) = facts[i].value
<1> DEFINE first == CHOOSE i \in hits : \A j \in hits : i <= j
<1>1. hits \in SUBSET Nat
  BY SeqDomain
<1>2. first \in hits
  BY <1>1, Minimum
<1> QED
  BY <1>2 DEF FirstValue

LEMMA ValueStated ==
  ASSUME NEW facts, IsSeq(facts), NEW field
  PROVE  /\ HasFact(facts, field) <=> Stated(facts, field) # {}
         /\ HasFact(facts, field) => FactValue(facts, field) \in Stated(facts, field)
<1> DEFINE hits == WithField(facts, field)
<1>1. hits = {i \in DOMAIN facts : facts[i].field = field}
  BY DEF WithField
<1>2. ToSet(facts) = {facts[i] : i \in DOMAIN facts}
  BY DEF ToSet
<1>3. \A i \in hits : facts[i].value \in Stated(facts, field)
  BY <1>1, <1>2 DEF Stated
<1>4. HasFact(facts, field) <=> Stated(facts, field) # {}
  BY <1>1, <1>2 DEF Stated, HasFact
<1>5. HasFact(facts, field) => FactValue(facts, field) \in Stated(facts, field)
  <2> SUFFICES ASSUME hits # {} PROVE FirstValue(facts, hits) \in Stated(facts, field)
    BY DEF HasFact, FactValue
  <2>1. hits \in SUBSET DOMAIN facts
    BY <1>1
  <2> HIDE DEF hits
  <2> QED
    BY <1>3, <2>1, FirstStated
<1> QED
  BY <1>4, <1>5

\* The utilizations of an answer are those the facts state.
LEMMA UtilizationsStated ==
  ASSUME NEW facts
  PROVE  Utilizations(facts) = {v.raw : v \in Stated(facts, "pool.utilization")}
<1>1. \A u : u \in Utilizations(facts)
               <=> \E i \in DOMAIN facts : facts[i].field = "pool.utilization" /\ u = facts[i].value.raw
  BY DEF Utilizations
<1>2. \A v : v \in Stated(facts, "pool.utilization")
               <=> \E i \in DOMAIN facts : facts[i].field = "pool.utilization" /\ v = facts[i].value
  BY DEF Stated, ToSet
<1> QED
  BY <1>1, <1>2

\* The confidence of an answer is low exactly if that of a fact is.
LEMMA LowConfidence ==
  ASSUME NEW facts, Confidences(facts) # {}, Confidences(facts) \subseteq {"high", "medium", "low"}
  PROVE  AggregateConfidence(facts) = "low" <=> "low" \in Confidences(facts)
<1> DEFINE c == Confidences(facts)
<1>1. facts # <<>>
  BY DEF Confidences, ToSet
<1>2. c = {facts[i].confidence : i \in DOMAIN facts}
  BY DEF Confidences, ToSet
<1>3. AggregateConfidence(facts) = CHOOSE x \in c : \A y \in c : ConfidenceRank[x] <= ConfidenceRank[y]
  BY <1>1, <1>2 DEF AggregateConfidence
<1>4. ConfidenceRank["high"] = 3 /\ ConfidenceRank["medium"] = 2 /\ ConfidenceRank["low"] = 1
  BY DEF ConfidenceRank
<1> HIDE DEF c
<1>5. c # {} /\ c \subseteq {"high", "medium", "low"}
  BY DEF c
<1>6. \E x \in c : \A y \in c : ConfidenceRank[x] <= ConfidenceRank[y]
  <2>1. CASE "low" \in c
    BY <1>4, <1>5, <2>1
  <2>2. CASE "low" \notin c /\ "medium" \in c
    BY <1>4, <1>5, <2>2
  <2>3. CASE "low" \notin c /\ "medium" \notin c
    <3>1. c = {"high"}
      BY <1>5, <2>3
    <3> QED
      BY <1>4, <3>1
  <2> QED
    BY <2>1, <2>2, <2>3
<1>7. PICK x \in c : x = AggregateConfidence(facts) /\ \A y \in c : ConfidenceRank[x] <= ConfidenceRank[y]
  BY <1>3, <1>6
<1>8. "low" \in c => x = "low"
  BY <1>4, <1>5, <1>7
<1> QED
  BY <1>7, <1>8 DEF c
\* What a context adds to an answer, besides slippage: utilizations, and the
\* confidence of its facts.
Shows(facts, utilizations, confidences) ==
  /\ IsSeq(facts)
  /\ Stated(facts, "pool.utilization") = utilizations
  /\ Stated(facts, "slippage.estimated") = {}
  /\ Confidences(facts) = confidences

\* Parts of a context add up:
LEMMA ShowsJoin ==
  ASSUME NEW s, NEW t, NEW u, NEW v, NEW c, NEW d, Shows(s, u, c), Shows(t, v, d)
  PROVE  Shows(s \o t, u \cup v, c \cup d)
  BY StatedJoin DEF Shows

\* conditional ones
LEMMA ShowsWhen ==
  ASSUME NEW s, NEW u, NEW c, NEW condition \in BOOLEAN, Shows(s, u, c)
  PROVE  Shows(When(condition, s), IF condition THEN u ELSE {}, IF condition THEN c ELSE {})
  BY StatedWhen DEF Shows

\* and lists of them.
LEMMA ShowsFlatten ==
  ASSUME NEW n \in Nat, NEW ss, NEW us, NEW cs, ss = [i \in 1..n |-> ss[i]],
         \A i \in 1..n : Shows(ss[i], us[i], cs[i])
  PROVE  Shows(FlattenSeq(ss), UNION {us[i] : i \in 1..n}, UNION {cs[i] : i \in 1..n})
<1>1. \A i \in 1..n : /\ IsSeq(ss[i]) /\ Stated(ss[i], "pool.utilization") = us[i]
                      /\ Stated(ss[i], "slippage.estimated") = {} /\ Confidences(ss[i]) = cs[i]
  BY DEF Shows
<1>2. /\ IsSeq(FlattenSeq(ss))
      /\ \A field : Stated(FlattenSeq(ss), field) = UNION {Stated(ss[i], field) : i \in 1..n}
      /\ Confidences(FlattenSeq(ss)) = UNION {Confidences(ss[i]) : i \in 1..n}
  BY <1>1, StatedFlatten
<1>3. UNION {Stated(ss[i], "pool.utilization") : i \in 1..n} = UNION {us[i] : i \in 1..n}
  BY <1>1
<1>4. UNION {Stated(ss[i], "slippage.estimated") : i \in 1..n} = {}
  BY <1>1
<1>5. UNION {Confidences(ss[i]) : i \in 1..n} = UNION {cs[i] : i \in 1..n}
  BY <1>1
<1> QED
  BY <1>2, <1>3, <1>4, <1>5 DEF Shows

\* A reserve adds its utilization,
LEMMA ReserveShows ==
  ASSUME NEW r \in Reserves, NEW symbol, NEW ledger, NEW sources
  PROVE  Shows(EntityFacts("blend", "reserve", symbol, ReservePairs(r), ledger, sources, "high"),
               {r.utilization}, {"high"})
<1> DEFINE facts == EntityFacts("blend", "reserve", symbol, ReservePairs(r), ledger, sources, "high")
           three == << <<"pool.utilization", r.utilization>>, <<"reserve.totalSupplied", r.supplied>>,
                       <<"reserve.totalBorrowed", r.borrowed>> >>
<1>1. IsSeq(r.extras) /\ ToSet(r.extras) \subseteq ExtraFields \X Printed
  BY ExtrasSeq
<1>2. IsSeq(three) /\ ToSet(three) # {}
  <2>1. IsSeq(three)
    BY TupleSet
  <2>2. 1 \in DOMAIN three
    OBVIOUS
  <2> QED
    BY <2>1, <2>2 DEF ToSet
<1>3. IsSeq(ReservePairs(r)) /\ ToSet(ReservePairs(r)) # {}
  BY <1>1, <1>2, JoinSet DEF ReservePairs
<1>4. \A field : Of(ReservePairs(r), field) = Of(three, field) \cup Of(r.extras, field)
  BY <1>1, <1>2, OfJoin DEF ReservePairs
<1>5. \A field : field \notin ExtraFields => Of(r.extras, field) = {}
  <2>1. \A p \in ToSet(r.extras) : p[1] \in ExtraFields
    BY <1>1
  <2> QED
    BY <2>1 DEF Of
<1>6. \A field : Of(three, field) = (IF "pool.utilization" = field THEN {r.utilization} ELSE {})
        \cup (IF "reserve.totalSupplied" = field THEN {r.supplied} ELSE {})
        \cup (IF "reserve.totalBorrowed" = field THEN {r.borrowed} ELSE {})
  <2> TAKE field
  <2> QED
    BY ThreePairsOf
<1> HIDE DEF three
<1>7. Of(ReservePairs(r), "pool.utilization") = {r.utilization} /\ Of(ReservePairs(r), "slippage.estimated") = {}
  <2>1. "pool.utilization" \notin ExtraFields /\ "slippage.estimated" \notin ExtraFields
    BY DEF ExtraFields
  <2> QED
    BY <1>4, <1>5, <1>6, <2>1
<1>8. States(facts, ReservePairs(r), "high")
  BY <1>3, StatedEntity
<1> HIDE DEF facts
<1>9. Shows(facts, {r.utilization}, {"high"})
  BY <1>3, <1>7, <1>8 DEF States, Shows
<1> QED
  BY <1>9 DEF facts

\* and a fact of another field only its confidence.
LEMMA OneShows ==
  ASSUME NEW facts, NEW a, NEW x, NEW confidence, States(facts, << <<a, x>> >>, confidence),
         a # "pool.utilization", a # "slippage.estimated"
  PROVE  Shows(facts, {}, {confidence})
  BY StatedOne DEF Shows

\* A pool adds the utilizations of its reserves; a stale oracle and an unknown
\* backstop are what it is not sure of.
PoolUtilizations(pool) == {r.utilization : r \in ToSet(pool.reserves)}
PoolConfidences(pool) == {"high"} \cup (IF pool.oracle.ok /\ pool.backstop.ok THEN {} ELSE {"low"})

LEMMA PoolShows ==
  ASSUME NEW pool \in PoolAnswers, NEW sources
  PROVE  Shows(PoolFacts(pool, sources), PoolUtilizations(pool), PoolConfidences(pool))
<1> DEFINE Label(asset) == IF asset \in pool.registry THEN asset ELSE "contract"
           Entity(r) == EntityFacts("blend", "reserve", Label(r.asset), ReservePairs(r),
                                    pool.ledger, sources, "high")
           n == Len(pool.reserves)
           parts == [i \in 1..n |-> Entity(pool.reserves[i])]
           us == [i \in 1..n |-> {pool.reserves[i].utilization}]
           cs == [i \in 1..n |-> {"high"}]
           One(entity, field, value, ledger, confidence) ==
             EntityFacts("blend", entity, "", << <<field, value>> >>, ledger, sources, confidence)
           fresh == pool.oracle.ok
           status == BackstopStatus(pool.backstop)
           v == Word(MapStatus(pool.status))
           a == One("pool", "pool.status", v, pool.ledger, "high")
           w == Word(IF fresh THEN "fresh" ELSE "unknown")
           led == IF fresh THEN pool.oracle.ledger ELSE NoLedger
           con == IF fresh THEN "high" ELSE "low"
           b == One("oracle", "oracle.freshness", w, led, con)
           bac == IF status = "unknown" THEN "low" ELSE "high"
           x == Word(status)
           c == One("backstop", "backstop.status", x, pool.ledger, bac)
           y == Decimal(pool.backstop.value)
           d == One("backstop", "backstop.value", y, pool.ledger, "high")
           known == pool.backstop.ok
           all == ReserveFacts(pool, sources)
           facts == PoolFacts(pool, sources)
<1>1. /\ n \in Nat /\ known \in BOOLEAN /\ fresh \in BOOLEAN
      /\ DOMAIN pool.reserves = 1..n /\ \A i \in 1..n : pool.reserves[i] \in Reserves
  BY PoolParts
<1>2. all = FlattenSeq(parts)
  BY PoolParts DEF ReserveFacts, ReservePairs
<1>3. facts = ((((a \o all) \o b) \o c) \o When(known, d))
  BY DEF PoolFacts
<1>4. status = "unknown" <=> ~known
  BY DEF BackstopStatus
<1>5. PoolUtilizations(pool) = UNION {us[i] : i \in 1..n}
  BY <1>1 DEF PoolUtilizations, ToSet
<1>6. \A i \in 1..n : Shows(parts[i], us[i], cs[i])
  <2> TAKE i \in 1..n
  <2> DEFINE r == pool.reserves[i]
  <2>1. parts[i] = Entity(r) /\ us[i] = {r.utilization} /\ cs[i] = {"high"} /\ r \in Reserves
    BY <1>1
  <2> HIDE DEF parts, us, cs, r, Label
  <2>2. Shows(Entity(r), {r.utilization}, {"high"})
    BY <2>1, ReserveShows
  <2> HIDE DEF Entity
  <2> QED
    BY <2>1, <2>2
<1>7. parts = [i \in 1..n |-> parts[i]]
  OBVIOUS
<1>8. UNION {cs[i] : i \in 1..n} \subseteq {"high"}
  OBVIOUS
<1> HIDE DEF parts, us, cs
<1>9. Shows(all, UNION {us[i] : i \in 1..n}, UNION {cs[i] : i \in 1..n})
  <2>1. n \in Nat
    BY <1>1
  <2> HIDE DEF n
  <2>2. Shows(FlattenSeq(parts), UNION {us[i] : i \in 1..n}, UNION {cs[i] : i \in 1..n})
    BY <2>1, <1>6, <1>7, ShowsFlatten
  <2> QED
    BY <1>2, <2>2
<1> HIDE DEF v, w, x, y, led, status, con, bac, all
<1>10. Shows(a, {}, {"high"}) /\ Shows(b, {}, {con}) /\ Shows(c, {}, {bac}) /\ Shows(d, {}, {"high"})
  <2>1. \A e, f, z, l, k : States(One(e, f, z, l, k), << <<f, z>> >>, k)
    <3> TAKE e, f, z, l, k
    <3> DEFINE p == <<f, z>>
    <3> HIDE DEF p
    <3>1. IsSeq(<<p>>)
      BY TupleSet
    <3>2. States(EntityFacts("blend", e, "", <<p>>, l, sources, k), <<p>>, k)
      BY <3>1, StatedEntity
    <3> QED
      BY <3>2 DEF p
  <2> HIDE DEF One
  <2>2. Shows(a, {}, {"high"}) /\ Shows(b, {}, {con})
    BY <2>1, OneShows
  <2>3. Shows(c, {}, {bac}) /\ Shows(d, {}, {"high"})
    BY <2>1, OneShows
  <2> QED
    BY <2>2, <2>3
<1> DEFINE u == UNION {us[i] : i \in 1..n}
           h == UNION {cs[i] : i \in 1..n}
<1> HIDE DEF a, b, c, d, u, h, n
<1>11. Shows(a \o all, {} \cup u, {"high"} \cup h)
  BY <1>9, <1>10, ShowsJoin DEF u, h
<1>12. Shows((a \o all) \o b, ({} \cup u) \cup {}, ({"high"} \cup h) \cup {con})
  BY <1>10, <1>11, ShowsJoin
<1>13. Shows(((a \o all) \o b) \o c, (({} \cup u) \cup {}) \cup {}, (({"high"} \cup h) \cup {con}) \cup {bac})
  BY <1>10, <1>12, ShowsJoin
<1>14. Shows(When(known, d), IF known THEN {} ELSE {}, IF known THEN {"high"} ELSE {})
  BY <1>1, <1>10, ShowsWhen
<1>15. Shows((((a \o all) \o b) \o c) \o When(known, d),
             ((({} \cup u) \cup {}) \cup {}) \cup (IF known THEN {} ELSE {}),
             ((({"high"} \cup h) \cup {con}) \cup {bac}) \cup (IF known THEN {"high"} ELSE {}))
  BY <1>13, <1>14, ShowsJoin
<1>16. ((({} \cup u) \cup {}) \cup {}) \cup (IF known THEN {} ELSE {}) = PoolUtilizations(pool)
  BY <1>5 DEF u
<1>17. ((({"high"} \cup h) \cup {con}) \cup {bac}) \cup (IF known THEN {"high"} ELSE {}) = PoolConfidences(pool)
  BY <1>1, <1>4, <1>8 DEF PoolConfidences, h, con, bac
<1> HIDE DEF facts
<1> QED
  BY <1>3, <1>15, <1>16, <1>17 DEF facts

\* A position adds its confidence,
LEMMA UserShows ==
  ASSUME NEW user, NEW sources
  PROVE  Shows(UserFacts(user, sources), {}, {"high"})
<1> DEFINE c == Decimal(user.position.collateral)
           l == Decimal(user.position.liabilities)
           h == Health(user)
           pairs == << <<"health.factor", h>>, <<"borrow.limit", c>>, <<"borrow.used", l>> >>
           facts == UserFacts(user, sources)
           ledger == LoadPool(user.pool).ledger
<1>1. facts = EntityFacts("blend", "position", "", pairs, ledger, sources, "high")
  BY DEF UserFacts, Health
<1> HIDE DEF c, l, h
<1>2. IsSeq(pairs)
  BY TupleSet
<1>3. \A field : Of(pairs, field) = (IF "health.factor" = field THEN {h} ELSE {})
                   \cup (IF "borrow.limit" = field THEN {c} ELSE {})
                   \cup (IF "borrow.used" = field THEN {l} ELSE {})
  <2> TAKE field
  <2> QED
    BY ThreePairsOf
<1>4. ToSet(pairs) # {}
  <2>1. 1 \in DOMAIN pairs
    OBVIOUS
  <2> QED
    BY <2>1 DEF ToSet
<1> HIDE DEF pairs, facts, ledger
<1>5. States(facts, pairs, "high")
  BY <1>1, <1>2, StatedEntity
<1>6. Shows(facts, {}, {"high"})
  BY <1>3, <1>4, <1>5 DEF States, Shows
<1> QED
  BY <1>6 DEF facts

\* a pool's context both,
LEMMA PoolContextShows ==
  ASSUME NEW r, NEW withWallet \in BOOLEAN, r.pool \in Loads, GetPoolContext(r, withWallet).ok
  PROVE  Shows(GetPoolContext(r, withWallet).facts,
               PoolUtilizations(LoadPool(r.pool)), PoolConfidences(LoadPool(r.pool)))
<1> DEFINE pool == LoadPool(r.pool)
           sources == <<Record("PoolV2.load", 1, "blend", pool.ledger)>>
           known == withWallet /\ FetchedUser(r.user)
           own == <<Record("loadUser", 1, "blend", LoadPool(r.user.pool).ledger)>>
           a == PoolFacts(pool, sources)
           b == UserFacts(r.user, own)
           facts == a \o When(known, b)
           all == sources \o When(known, own)
           warnings == IF withWallet /\ ~known THEN {"user position unavailable"} ELSE {}
           c == GetPoolContext(r, withWallet)
<1>1. c = IF ~pool.ok THEN Thrown ELSE Context(facts, all, warnings)
  BY DEF GetPoolContext
<1>2. known \in BOOLEAN
  OBVIOUS
<1>3. pool.ok /\ pool \in PoolAnswers
  <2>1. pool.ok
    BY SaidPoolContext
  <2> QED
    BY <2>1, LoadedPool
<1> HIDE DEF sources, own, all, warnings, known
<1>4. c = Context(facts, all, warnings)
  BY <1>1, <1>3, Zenon
<1>5. c.facts = facts
  <2> HIDE DEF c, facts
  <2> QED
    BY <1>4 DEF Context
<1> HIDE DEF pool
<1>6. Shows(a, PoolUtilizations(pool), PoolConfidences(pool))
  BY <1>3, PoolShows
<1>7. Shows(b, {}, {"high"})
  BY UserShows
<1> HIDE DEF a, b, c
<1>8. Shows(When(known, b), IF known THEN {} ELSE {}, IF known THEN {"high"} ELSE {})
  BY <1>2, <1>7, ShowsWhen
<1>9. Shows(a \o When(known, b), PoolUtilizations(pool) \cup (IF known THEN {} ELSE {}),
            PoolConfidences(pool) \cup (IF known THEN {"high"} ELSE {}))
  BY <1>6, <1>8, ShowsJoin
<1>10. PoolUtilizations(pool) \cup (IF known THEN {} ELSE {}) = PoolUtilizations(pool)
  OBVIOUS
<1>11. PoolConfidences(pool) \cup (IF known THEN {"high"} ELSE {}) = PoolConfidences(pool)
  BY DEF PoolConfidences
<1> HIDE DEF facts
<1>12. Shows(c.facts, PoolUtilizations(pool), PoolConfidences(pool))
  BY <1>5, <1>9, <1>10, <1>11 DEF facts
<1> QED
  BY <1>12 DEF pool, c

\* and a path a middling confidence.
LEMMA PathShows ==
  ASSUME NEW r
  PROVE  Shows(FindPath(r).facts, {}, {"medium"})
<1> DEFINE x == Decimal(r.paths[1].out)
           y == Decimal((r.paths[1].between + 1) * Unit)
           available == r.paths # <<>>
           z == Flag(available)
           sent == << <<"path.estimated_out", x>>, <<"route.hops", y>> >>
           first == << <<"path.available", z>> >>
           sources == <<Record("strict-send", 1, "sdex", r.ledger)>>
           warnings == IF available THEN {} ELSE {"no path"}
           pairs == first \o When(available, sent)
           facts == EntityFacts("stellar_dex", "route", "", pairs, r.ledger, sources, "medium")
           c == FindPath(r)
<1>1. c = Context(facts, sources, warnings)
  BY DEF FindPath
<1>2. available \in BOOLEAN
  OBVIOUS
<1> HIDE DEF x, y, z, available, sources, warnings
<1>4. IsSeq(sent) /\ IsSeq(first)
  BY TupleSet
<1>5. \A field : Of(sent, field) = (IF "path.estimated_out" = field THEN {x} ELSE {})
                                      \cup (IF "route.hops" = field THEN {y} ELSE {})
  <2> TAKE field
  <2> QED
    BY TwoPairsOf
<1>6. \A field : Of(first, field) = IF "path.available" = field THEN {z} ELSE {}
  <2> TAKE field
  <2> QED
    BY PairOf
<1>7. ToSet(first) # {}
  <2>1. 1 \in DOMAIN first
    OBVIOUS
  <2> QED
    BY <2>1 DEF ToSet
<1> HIDE DEF sent, first
<1>8. IsSeq(When(available, sent))
  BY <1>2, <1>4, WhenSet
<1>9. IsSeq(pairs) /\ ToSet(pairs) # {}
  BY <1>4, <1>7, <1>8, JoinSet
<1>10. \A field : Of(pairs, field) = Of(first, field) \cup (IF available THEN Of(sent, field) ELSE {})
  <2> TAKE field
  <2> QED
    BY <1>2, <1>4, <1>8, OfJoin, OfWhen
<1> HIDE DEF pairs
<1>11. States(facts, pairs, "medium")
  BY <1>9, StatedEntity
<1> HIDE DEF facts, c
<1>12. c.facts = facts
  BY <1>1 DEF Context
<1>13. Of(pairs, "pool.utilization") = {} /\ Of(pairs, "slippage.estimated") = {}
  BY <1>5, <1>6, <1>10
<1>14. Shows(c.facts, {}, {"medium"})
  BY <1>9, <1>11, <1>12, <1>13 DEF States, Shows
<1> QED
  BY <1>14 DEF c

\* What the facts of a route state: whether it is available, its hops and its
\* slippage.
Routes(facts, available, hops, slippage) ==
  /\ IsSeq(facts)
  /\ \A f \in ToSet(facts) : f.protocol = "aquarius"
  /\ Confidences(facts) \subseteq {"high"}
  /\ Stated(facts, "pool.utilization") = {}
  /\ Stated(facts, "route.available") = available
  /\ Stated(facts, "route.hops") = hops
  /\ Stated(facts, "slippage.estimated") = slippage

\* Parts of a route add up,
LEMMA RoutesJoin ==
  ASSUME NEW s, NEW t, NEW a, NEW h, NEW v, NEW b, NEW k, NEW w, Routes(s, a, h, v), Routes(t, b, k, w)
  PROVE  Routes(s \o t, a \cup b, h \cup k, v \cup w)
<1>1. IsSeq(s) /\ IsSeq(t)
  BY DEF Routes
<1>2. ToSet(s \o t) = ToSet(s) \cup ToSet(t)
  BY <1>1, JoinSet
<1> QED
  BY <1>1, <1>2, StatedJoin DEF Routes

\* conditional ones too,
LEMMA RoutesWhen ==
  ASSUME NEW s, NEW a, NEW h, NEW v, NEW condition \in BOOLEAN, Routes(s, a, h, v)
  PROVE  Routes(When(condition, s), IF condition THEN a ELSE {}, IF condition THEN h ELSE {},
                IF condition THEN v ELSE {})
<1>1. IsSeq(s)
  BY DEF Routes
<1>2. ToSet(When(condition, s)) = IF condition THEN ToSet(s) ELSE {}
  BY <1>1, WhenSet
<1> QED
  BY <1>1, <1>2, StatedWhen DEF Routes

\* and a list of pairs states its values.
LEMMA RouteStates ==
  ASSUME NEW pairs, NEW ledger, NEW sources, IsSeq(pairs), Of(pairs, "pool.utilization") = {}
  PROVE  Routes(RouteFacts(pairs, ledger, sources), Of(pairs, "route.available"),
                Of(pairs, "route.hops"), Of(pairs, "slippage.estimated"))
<1> DEFINE facts == EntityFacts("aquarius", "route", "", pairs, ledger, sources, "high")
<1>1. States(facts, pairs, "high")
  BY StatedEntity
<1>2. \A f \in ToSet(facts) : f.protocol = "aquarius"
  <2> TAKE f \in ToSet(facts)
  <2> QED
    BY EntityProtocol
<1>3. RouteFacts(pairs, ledger, sources) = facts
  BY DEF RouteFacts
<1>4. Confidences(facts) \subseteq {"high"}
  <2>1. CASE ToSet(pairs) = {}
    <3>1. ToSet(facts) = {}
      <4>1. DOMAIN pairs = {}
        BY <2>1 DEF ToSet
      <4>2. DOMAIN facts = DOMAIN pairs
        BY DEF EntityFacts
      <4> HIDE DEF facts
      <4> QED
        BY <4>1, <4>2 DEF ToSet
    <3> HIDE DEF facts
    <3> QED
      BY <3>1 DEF Confidences
  <2>2. CASE ToSet(pairs) # {}
    BY <1>1, <2>2 DEF States
  <2> QED
    BY <2>1, <2>2
<1> HIDE DEF facts
<1>5. Routes(facts, Of(pairs, "route.available"), Of(pairs, "route.hops"), Of(pairs, "slippage.estimated"))
  BY <1>1, <1>2, <1>4 DEF States, Routes
<1> QED
  BY <1>3, <1>5

\* The facts of a quoted route: its one pool is a hop, and its slippage is
\* stated when a small trade has a price.
LEMMA QuotedRoutes ==
  ASSUME NEW pool, NEW slip, NEW sources
  PROVE  Routes(QuotedRoute(pool, slip, sources), {}, {Decimal(Unit)},
                IF pool.ref.ok /\ pool.ref.out > 0 THEN {Decimal(slip * Unit)} ELSE {})
<1> DEFINE x == Decimal(pool.quote.out * Unit)
           y == Decimal(Unit)
           z == Word("pool")
           u == Decimal(slip * Unit)
           p == << <<"slippage.estimated_out", x>> >>
           q == << <<"route.hops", y>>, <<"route.pool_id", z>> >>
           t == << <<"slippage.estimated", u>> >>
           given == pool.ref.ok /\ pool.ref.out > 0
           a == RouteFacts(p, pool.quote.ledger, sources)
           b == RouteFacts(q, NoLedger, sources)
           c == RouteFacts(t, pool.quote.ledger, sources)
           all == QuotedRoute(pool, slip, sources)
<1>1. all = (a \o b) \o When(given, c)
  BY DEF QuotedRoute
<1>2. given \in BOOLEAN
  OBVIOUS
<1>3. (IF given THEN {u} ELSE {}) = IF pool.ref.ok /\ pool.ref.out > 0 THEN {Decimal(slip * Unit)} ELSE {}
  OBVIOUS
<1> HIDE DEF x, y, z, u, given, all
<1>4. IsSeq(p) /\ IsSeq(q) /\ IsSeq(t)
  BY TupleSet
<1>5. \A field : Of(p, field) = IF "slippage.estimated_out" = field THEN {x} ELSE {}
  <2> TAKE field
  <2> QED
    BY PairOf
<1>6. \A field : Of(q, field) = (IF "route.hops" = field THEN {y} ELSE {})
                                   \cup (IF "route.pool_id" = field THEN {z} ELSE {})
  <2> TAKE field
  <2> QED
    BY TwoPairsOf
<1>7. \A field : Of(t, field) = IF "slippage.estimated" = field THEN {u} ELSE {}
  <2> TAKE field
  <2> QED
    BY PairOf
<1> HIDE DEF p, q, t
<1>8. Routes(a, {}, {}, {})
  <2>1. Of(p, "pool.utilization") = {} /\ Of(p, "route.available") = {} /\ Of(p, "route.hops") = {}
        /\ Of(p, "slippage.estimated") = {}
    BY <1>5
  <2> QED
    BY <1>4, <2>1, RouteStates
<1>9. Routes(b, {}, {y}, {})
  <2>1. Of(q, "pool.utilization") = {} /\ Of(q, "route.available") = {} /\ Of(q, "route.hops") = {y}
        /\ Of(q, "slippage.estimated") = {}
    BY <1>6
  <2> QED
    BY <1>4, <2>1, RouteStates
<1>10. Routes(c, {}, {}, {u})
  <2>1. Of(t, "pool.utilization") = {} /\ Of(t, "route.available") = {} /\ Of(t, "route.hops") = {}
        /\ Of(t, "slippage.estimated") = {u}
    BY <1>7
  <2> QED
    BY <1>4, <2>1, RouteStates
<1> HIDE DEF a, b, c
<1>11. Routes(a \o b, {} \cup {}, {} \cup {y}, {} \cup {})
  BY <1>8, <1>9, RoutesJoin
<1>12. Routes(When(given, c), IF given THEN {} ELSE {}, IF given THEN {} ELSE {}, IF given THEN {u} ELSE {})
  BY <1>2, <1>10, RoutesWhen
<1>13. Routes((a \o b) \o When(given, c), ({} \cup {}) \cup (IF given THEN {} ELSE {}),
              ({} \cup {y}) \cup (IF given THEN {} ELSE {}), ({} \cup {}) \cup (IF given THEN {u} ELSE {}))
  BY <1>11, <1>12, RoutesJoin
<1>14. /\ ({} \cup {}) \cup (IF given THEN {} ELSE {}) = {}
       /\ ({} \cup {y}) \cup (IF given THEN {} ELSE {}) = {y}
       /\ ({} \cup {}) \cup (IF given THEN {u} ELSE {}) = IF given THEN {u} ELSE {}
  OBVIOUS
<1>15. Routes(all, {}, {y}, IF given THEN {u} ELSE {})
  BY <1>1, <1>13, <1>14
<1> QED
  BY <1>3, <1>15 DEF all, y

\* The pool of a route states neither.
LEMMA RoutePoolRoutes ==
  ASSUME NEW info, NEW own, info.type.ok \in BOOLEAN
  PROVE  Routes(RoutePool(info, own), {}, {}, {})
<1> DEFINE x == Word(info.type.value)
           y == Decimal(info.type.fee * Unit)
           pairs == << <<"pool.type", x>>, <<"pool.fee_bps", y>> >>
           facts == RouteFacts(pairs, NoLedger, own)
           known == info.type.ok
<1>1. RoutePool(info, own) = When(known, facts)
  BY DEF RoutePool
<1> HIDE DEF x, y
<1>2. IsSeq(pairs)
  BY TupleSet
<1>3. \A field : Of(pairs, field) = (IF "pool.type" = field THEN {x} ELSE {})
                                       \cup (IF "pool.fee_bps" = field THEN {y} ELSE {})
  <2> TAKE field
  <2> QED
    BY TwoPairsOf
<1> HIDE DEF pairs
<1>4. Of(pairs, "pool.utilization") = {} /\ Of(pairs, "route.available") = {} /\ Of(pairs, "route.hops") = {}
      /\ Of(pairs, "slippage.estimated") = {}
  BY <1>3
<1>5. Routes(facts, {}, {}, {})
  BY <1>2, <1>4, RouteStates
<1> HIDE DEF facts
<1>6. known \in BOOLEAN
  OBVIOUS
<1> HIDE DEF known
<1>7. Routes(When(known, facts), IF known THEN {} ELSE {}, IF known THEN {} ELSE {},
             IF known THEN {} ELSE {})
  BY <1>5, <1>6, RoutesWhen
<1>8. (IF known THEN {} ELSE {}) = {}
  OBVIOUS
<1> QED
  BY <1>1, <1>7, <1>8

\* An estimated swap either finds no route, or states one hop and at most one
\* slippage.
Estimates(facts) ==
  \/ Routes(facts, {Flag(FALSE)}, {}, {})
  \/ \E slippage : /\ Routes(facts, {}, {Decimal(Unit)}, slippage)
                   /\ \A v, w \in slippage : v = w

LEMMA SwapEstimates ==
  ASSUME NEW r \in SwapCall
  PROVE  Estimates(EstimateSwap(r, AmountIn).facts)
<1> DEFINE found == <<Record("get_pools", 1, "aquarius", r.ledger)>>
           priced == Priced(r)
           best == BestPool(r.pools, priced)
           pool == r.pools[best]
           Quote(i) == When(i \in priced,
                            <<Record("estimate_swap", i, "aquarius", r.pools[i].quote.ledger)>>)
           quotes == found \o FlattenSeq([i \in DOMAIN r.pools |-> Quote(i)])
           sources == quotes \o When(pool.ref.ok,
                        <<Record("estimate_swap:ref", best, "aquarius", pool.ref.ledger)>>)
           small == IF AmountIn \div 1000 > 1 THEN AmountIn \div 1000 ELSE 1
           slip == Slippage((AmountIn * pool.ref.out) \div small, pool.quote.out)
           own == InfoSources(best, pool.info)
           failed == IF priced # DOMAIN r.pools THEN {"estimate failed"} ELSE {}
           flag == Flag(FALSE)
           none == << <<"route.available", flag>> >>
           c == EstimateSwap(r, AmountIn)
<1>1. c = IF priced = {}
          THEN Context(RouteFacts(none, NoLedger, quotes), quotes, failed \cup {"no route"})
          ELSE Context(QuotedRoute(pool, slip, sources) \o RoutePool(pool.info, own),
                       sources \o own, failed \cup (IF pool.ref.ok THEN {} ELSE {"no reference"}))
  BY DEF EstimateSwap, Priced
<1> HIDE DEF quotes, sources, slip, own, failed, flag
<1>2. CASE priced = {}
  <2> DEFINE e == RouteFacts(none, NoLedger, quotes)
             warned == failed \cup {"no route"}
  <2>0. c = Context(e, quotes, warned)
    BY <1>1, <1>2, Zenon
  <2>1. c.facts = e
    <3> HIDE DEF c, e, warned
    <3> QED
      BY <2>0 DEF Context
  <2>2. IsSeq(none)
    BY TupleSet
  <2>3. \A field : Of(none, field) = IF "route.available" = field THEN {flag} ELSE {}
    <3> TAKE field
    <3> QED
      BY PairOf
  <2> HIDE DEF none, c
  <2>4. Of(none, "pool.utilization") = {} /\ Of(none, "route.available") = {flag}
        /\ Of(none, "route.hops") = {} /\ Of(none, "slippage.estimated") = {}
    BY <2>3
  <2>5. Routes(e, {flag}, {}, {})
    BY <2>2, <2>4, RouteStates
  <2> HIDE DEF e
  <2>6. Routes(c.facts, {flag}, {}, {})
    BY <2>1, <2>5
  <2> QED
    BY <2>6 DEF c, flag, Estimates
<1>3. CASE priced # {}
  <2> DEFINE a == QuotedRoute(pool, slip, sources)
             b == RoutePool(pool.info, own)
             e == a \o b
             cited == sources \o own
             warned == failed \cup (IF pool.ref.ok THEN {} ELSE {"no reference"})
             slippage == IF pool.ref.ok /\ pool.ref.out > 0 THEN {Decimal(slip * Unit)} ELSE {}
  <2>0. c = Context(e, cited, warned)
    BY <1>1, <1>3, Zenon
  <2>1. c.facts = e
    <3> HIDE DEF c, e, warned, cited
    <3> QED
      BY <2>0 DEF Context
  <2>2. pool \in SwapPools
    <3>1. DOMAIN r.pools = 1..Len(r.pools) /\ \A i \in 1..Len(r.pools) : r.pools[i] \in SwapPools
      BY LenProperties DEF SwapCall
    <3> QED
      BY <1>3, <3>1, BestIsPriced DEF Priced
  <2>3. pool.info.type.ok \in BOOLEAN
    BY <2>2, SwapPoolParts
  <2> HIDE DEF pool, c
  <2>4. Routes(a, {}, {Decimal(Unit)}, slippage)
    BY QuotedRoutes
  <2>5. Routes(b, {}, {}, {})
    BY <2>3, RoutePoolRoutes
  <2>6. \A v, w \in slippage : v = w
    OBVIOUS
  <2> HIDE DEF a, b, slippage
  <2>7. Routes(a \o b, {} \cup {}, {Decimal(Unit)} \cup {}, slippage \cup {})
    BY <2>4, <2>5, RoutesJoin
  <2>8. {} \cup {} = {} /\ {Decimal(Unit)} \cup {} = {Decimal(Unit)} /\ slippage \cup {} = slippage
    OBVIOUS
  <2>9. Routes(c.facts, {}, {Decimal(Unit)}, slippage)
    BY <2>1, <2>7, <2>8
  <2> QED
    BY <2>6, <2>9 DEF c, Estimates
<1> QED
  BY <1>2, <1>3

\* An answer is what it is assembled of.
LEMMA AnswerParts ==
  ASSUME NEW decision, NEW facts, NEW warnings
  PROVE  /\ AssembleAnswer(decision, facts, warnings).decision = decision
         /\ AssembleAnswer(decision, facts, warnings).confidence = AggregateConfidence(facts)
  BY DEF AssembleAnswer

\* When Blend's own answer is safe,
LEMMA BlendAnswer ==
  ASSUME NEW c
  PROVE  BlendAsk(c).decision = "safe"
           <=> Utilizations(c.facts) # {} /\ \A u \in Utilizations(c.facts) : WithinSafe(u)
<1> DEFINE us == Utilizations(c.facts)
           within == \A u \in us : WithinSafe(u)
           decision == IF us = {} THEN "unknown" ELSE IF within THEN "safe" ELSE "conditional"
<1>1. BlendAsk(c) = AssembleAnswer(decision, c.facts, c.warnings)
  BY DEF BlendAsk
<1>2. decision = "safe" <=> us # {} /\ within
  <2> HIDE DEF us, within
  <2> QED
    OBVIOUS
<1> HIDE DEF decision
<1>3. BlendAsk(c).decision = decision
  BY <1>1, AnswerParts
<1> QED
  BY <1>2, <1>3

\* when Aquarius' own is,
Slips(facts) == \E v \in Stated(facts, "slippage.estimated") : v.raw <= 100 * Unit

LEMMA AquariusAnswer ==
  ASSUME NEW c, Estimates(c.facts)
  PROVE  AquariusAsk(c, 100).decision = "safe" <=> Slips(c.facts)
<1> DEFINE facts == c.facts
           known == HasFact(facts, "slippage.estimated")
           slipOk == known /\ FactValue(facts, "slippage.estimated").raw <= 100 * Unit
           hopsOk == NumberOr(facts, "route.hops", Unit) <= 4 * Unit
           shut == HasFact(facts, "route.available")
           decision == IF shut THEN "unsafe"
                       ELSE IF slipOk /\ hopsOk THEN "safe" ELSE IF known THEN "conditional" ELSE "unknown"
<1>1. AquariusAsk(c, 100) = AssembleAnswer(decision, facts, c.warnings)
  BY DEF AquariusAsk
<1>2. decision = "safe" <=> ~shut /\ slipOk /\ hopsOk
  <2> HIDE DEF shut, slipOk, hopsOk, known
  <2> QED
    OBVIOUS
<1> HIDE DEF decision
<1>3. AquariusAsk(c, 100).decision = decision
  BY <1>1, AnswerParts
<1>4. IsSeq(facts)
  BY DEF Estimates, Routes
<1>5. /\ shut <=> Stated(facts, "route.available") # {}
      /\ known <=> Stated(facts, "slippage.estimated") # {}
      /\ known => FactValue(facts, "slippage.estimated") \in Stated(facts, "slippage.estimated")
      /\ HasFact(facts, "route.hops") => FactValue(facts, "route.hops") \in Stated(facts, "route.hops")
  BY <1>4, ValueStated
<1>6. CASE Routes(facts, {Flag(FALSE)}, {}, {})
  <2>1. shut /\ Stated(facts, "slippage.estimated") = {}
    BY <1>5, <1>6 DEF Routes
  <2>2. ~Slips(facts)
    BY <2>1 DEF Slips
  <2> HIDE DEF shut
  <2> QED
    BY <1>2, <1>3, <2>1, <2>2
<1>7. CASE \E slippage : /\ Routes(facts, {}, {Decimal(Unit)}, slippage)
                         /\ \A v, w \in slippage : v = w
  <2>1. PICK slippage : /\ Routes(facts, {}, {Decimal(Unit)}, slippage)
                        /\ \A v, w \in slippage : v = w
    BY <1>7
  <2>2. ~shut /\ Stated(facts, "slippage.estimated") = slippage /\ Stated(facts, "route.hops") = {Decimal(Unit)}
    BY <1>5, <2>1 DEF Routes
  <2>3. hopsOk
    <3>1. HasFact(facts, "route.hops") => FactValue(facts, "route.hops") = Decimal(Unit)
      BY <1>5, <2>2
    <3>2. HasFact(facts, "route.hops") => FactValue(facts, "route.hops").raw = Unit
      BY <3>1 DEF Decimal
    <3>3. NumberOr(facts, "route.hops", Unit) = Unit
      BY <3>2 DEF NumberOr
    <3> QED
      BY <3>3, FactsAssumption
  <2>4. slipOk <=> Slips(facts)
    <3> DEFINE value == FactValue(facts, "slippage.estimated")
    <3>1. known <=> slippage # {}
      BY <1>5, <2>2
    <3>2. known => value \in slippage
      BY <1>5, <2>2
    <3> HIDE DEF known, value
    <3>3. (known /\ value.raw <= 100 * Unit) <=> \E v \in slippage : v.raw <= 100 * Unit
      BY <2>1, <3>1, <3>2
    <3> QED
      BY <2>2, <3>3 DEF Slips, value
  <2> HIDE DEF shut, slipOk, hopsOk
  <2> QED
    BY <1>2, <1>3, <2>2, <2>3, <2>4
<1> QED
  BY <1>6, <1>7 DEF Estimates

\* and when that of a composite is.
LEMMA CompositeAnswer ==
  ASSUME NEW c, IsSeq(c.facts),
         \A f \in ToSet(c.facts) : f.field = "slippage.estimated" => f.protocol = "aquarius",
         \A v, w \in Stated(c.facts, "slippage.estimated") : v = w
  PROVE  /\ ReasonComposite(c).decision = "safe"
              <=> /\ Utilizations(c.facts) # {} /\ \A u \in Utilizations(c.facts) : WithinSafe(u)
                  /\ Slips(c.facts)
         /\ ReasonComposite(c).confidence = AggregateConfidence(c.facts)
<1> DEFINE facts == c.facts
           us == Utilizations(facts)
           within == \A u \in us : WithinSafe(u)
           aqua == {i \in WithField(facts, "slippage.estimated") : facts[i].protocol = "aquarius"}
           aquaOk == aqua # {} /\ FirstValue(facts, aqua).raw <= 100 * Unit
           sdex == \E i \in DOMAIN facts :
                     facts[i].field = "path.available" /\ facts[i].value = Flag(TRUE)
           decision == IF us # {} /\ (aquaOk \/ sdex)
                       THEN IF within /\ aquaOk THEN "safe" ELSE "conditional"
                       ELSE IF within THEN "unknown" ELSE "unsafe"
<1>1. ReasonComposite(c) = AssembleAnswer(decision, facts, {})
  BY DEF ReasonComposite
<1>2. decision = "safe" <=> us # {} /\ within /\ aquaOk
  <2> HIDE DEF us, within, aquaOk, sdex
  <2> QED
    OBVIOUS
<1> HIDE DEF decision
<1>3. ReasonComposite(c).decision = decision /\ ReasonComposite(c).confidence = AggregateConfidence(facts)
  BY <1>1, AnswerParts
<1>4. aqua = {i \in DOMAIN facts : facts[i].field = "slippage.estimated"}
  BY DEF WithField, ToSet
<1>5. \A v : v \in Stated(facts, "slippage.estimated") <=> \E i \in aqua : v = facts[i].value
  BY <1>4 DEF Stated, ToSet
<1>6. aqua # {} => FirstValue(facts, aqua) \in Stated(facts, "slippage.estimated")
  <2> SUFFICES ASSUME aqua # {} PROVE FirstValue(facts, aqua) \in Stated(facts, "slippage.estimated")
    OBVIOUS
  <2>1. aqua \in SUBSET DOMAIN facts
    BY <1>4
  <2> HIDE DEF aqua
  <2>2. \E i \in aqua : FirstValue(facts, aqua) = facts[i].value
    BY <2>1, FirstStated
  <2> QED
    BY <1>5, <2>2
<1>7. aquaOk <=> Slips(facts)
  <2> DEFINE first == FirstValue(facts, aqua)
             values == Stated(facts, "slippage.estimated")
  <2>1. aqua # {} <=> values # {}
    BY <1>5
  <2>2. \A v, w \in values : v = w
    OBVIOUS
  <2>3. aqua # {} => first \in values
    BY <1>6
  <2> HIDE DEF aqua, first, values
  <2>4. (aqua # {} /\ first.raw <= 100 * Unit) <=> \E v \in values : v.raw <= 100 * Unit
    BY <2>1, <2>2, <2>3
  <2> QED
    BY <2>4 DEF first, values, Slips
<1> HIDE DEF aquaOk
<1> QED
  BY <1>2, <1>3, <1>7

\* The facts of the capsule of three contexts.
LEMMA ThreeContexts ==
  ASSUME NEW c, NEW d, NEW e, contexts = <<c, d, e>>, Built.ok,
         NEW us, NEW cs, Shows(c.facts, us, cs), Estimates(d.facts), Shows(e.facts, {}, {"medium"})
  PROVE  /\ IsSeq(Built.facts)
         /\ ToSet(Built.facts) = ToSet(c.facts) \cup ToSet(d.facts) \cup ToSet(e.facts)
         /\ \A field : Stated(Built.facts, field)
              = Stated(c.facts, field) \cup Stated(d.facts, field) \cup Stated(e.facts, field)
         /\ Confidences(Built.facts) = Confidences(c.facts) \cup Confidences(d.facts) \cup Confidences(e.facts)
<1> DEFINE ss == [i \in DOMAIN contexts |-> contexts[i].facts]
           sources == FlattenSeq([i \in DOMAIN contexts |-> contexts[i].sources])
           warnings == UNION {contexts[i].warnings : i \in DOMAIN contexts}
           all == FlattenSeq(ss)
<1>1. ~\E i \in DOMAIN contexts : ~contexts[i].ok
  BY BuiltContexts
<1>2. Built = Context(all, sources, warnings)
  BY <1>1 DEF Built, Compose
<1>3. Built.facts = all
  <2> HIDE DEF all, sources, warnings
  <2> QED
    BY <1>2 DEF Context
<1>4. DOMAIN contexts = 1..3 /\ contexts[1] = c /\ contexts[2] = d /\ contexts[3] = e
  OBVIOUS
<1>5. /\ DOMAIN ss = 1..3 /\ ss = [i \in 1..3 |-> ss[i]]
      /\ ss[1] = c.facts /\ ss[2] = d.facts /\ ss[3] = e.facts
  BY <1>4
<1>6. IsSeq(c.facts) /\ IsSeq(d.facts) /\ IsSeq(e.facts)
  BY DEF Shows, Estimates, Routes
<1> HIDE DEF ss
<1>7. \A i \in 1..3 : IsSeq(ss[i])
  BY <1>5, <1>6
<1>8. 3 \in Nat
  OBVIOUS
<1>9. IsSeq(all) /\ ToSet(all) = UNION {ToSet(ss[i]) : i \in 1..3}
  BY <1>5, <1>7, <1>8, FlattenedSet
<1>10. /\ \A field : Stated(all, field) = UNION {Stated(ss[i], field) : i \in 1..3}
       /\ Confidences(all) = UNION {Confidences(ss[i]) : i \in 1..3}
  BY <1>5, <1>7, <1>8, StatedFlatten
<1>11. 1..3 = {1, 2, 3}
  OBVIOUS
<1> HIDE DEF all
<1>12. ToSet(all) = ToSet(c.facts) \cup ToSet(d.facts) \cup ToSet(e.facts)
  BY <1>5, <1>9, <1>11
<1>13. \A field : Stated(all, field)
         = Stated(c.facts, field) \cup Stated(d.facts, field) \cup Stated(e.facts, field)
  <2> TAKE field
  <2>1. Stated(all, field) = UNION {Stated(ss[i], field) : i \in 1..3}
    BY <1>10
  <2> QED
    BY <1>5, <1>11, <2>1
<1>14. Confidences(all) = Confidences(c.facts) \cup Confidences(d.facts) \cup Confidences(e.facts)
  BY <1>5, <1>10, <1>11
<1> QED
  BY <1>3, <1>9, <1>12, <1>13, <1>14

\* The answer of a composite agrees with those of its parts.
LEMMA CompositeAgreesInv ==
  ASSUME RequestInv
  PROVE  CompositeAgrees
<1> DEFINE whole == ReasonComposite(Built)
           pool == LoadPool(chain[1].pool)
<1> SUFFICES ASSUME request = "composite", Answered, Built.ok
             PROVE  /\ whole.decision = "safe" <=>
                         /\ BlendAsk(contexts[1]).decision = "safe"
                         /\ AquariusAsk(contexts[2], 100).decision = "safe"
                    /\ whole.decision = "safe" =>
                         (whole.confidence = "low" <=> ~pool.oracle.ok \/ ~pool.backstop.ok)
  BY DEF CompositeAgrees
<1> DEFINE c == GetPoolContext(chain[1], TRUE)
           d == EstimateSwap(chain[2], AmountIn)
           e == FindPath(chain[3])
           us == PoolUtilizations(pool)
           cs == PoolConfidences(pool)
<1>1. /\ request \in Requests /\ contexts = ContextsOf(request, chain)
      /\ \A k \in 1..Len(Calls[request]) : chain[k] \in Calls[request][k]
  BY AnsweredChain
<1>2. chain[1].pool \in Loads /\ chain[2] \in SwapCall
  <2>1. chain[1] \in UserCall /\ chain[2] \in SwapCall
    BY <1>1 DEF Calls
  <2> QED
    BY <2>1 DEF UserCall
<1>3. contexts = <<c, d, e>>
  BY <1>1 DEF ContextsOf
<1>4. DOMAIN contexts = 1..3 /\ contexts[1] = c /\ contexts[2] = d /\ contexts[3] = e
  <2> HIDE DEF c, d, e
  <2> QED
    BY <1>3
<1>5. c.ok
  <2> HIDE DEF c, d, e
  <2>1. contexts[1].ok
    <3>1. 1 \in DOMAIN contexts
      BY <1>4
    <3> QED
      BY <3>1, BuiltContexts
  <2> QED
    BY <1>4, <2>1
<1>6. Shows(c.facts, us, cs)
  <2>1. TRUE \in BOOLEAN
    OBVIOUS
  <2> QED
    BY <1>2, <1>5, <2>1, PoolContextShows
<1>7. Estimates(d.facts)
  BY <1>2, SwapEstimates
<1>8. Shows(e.facts, {}, {"medium"})
  BY PathShows
<1> HIDE DEF c, d, e, us, cs
<1> DEFINE facts == Built.facts
<1>9. /\ IsSeq(facts)
      /\ ToSet(facts) = ToSet(c.facts) \cup ToSet(d.facts) \cup ToSet(e.facts)
      /\ \A field : Stated(facts, field)
           = Stated(c.facts, field) \cup Stated(d.facts, field) \cup Stated(e.facts, field)
      /\ Confidences(facts) = Confidences(c.facts) \cup Confidences(d.facts) \cup Confidences(e.facts)
  BY <1>3, <1>6, <1>7, <1>8, ThreeContexts
<1> HIDE DEF facts
<1>10. /\ \A f \in ToSet(d.facts) : f.protocol = "aquarius"
       /\ Confidences(d.facts) \subseteq {"high"}
       /\ Stated(d.facts, "pool.utilization") = {}
       /\ \A v, w \in Stated(d.facts, "slippage.estimated") : v = w
  <2>1. CASE Routes(d.facts, {Flag(FALSE)}, {}, {})
    BY <2>1 DEF Routes
  <2>2. CASE \E slippage : /\ Routes(d.facts, {}, {Decimal(Unit)}, slippage)
                           /\ \A v, w \in slippage : v = w
    BY <2>2 DEF Routes
  <2> QED
    BY <1>7, <2>1, <2>2 DEF Estimates
<1>11. /\ Stated(facts, "slippage.estimated") = Stated(d.facts, "slippage.estimated")
       /\ Stated(facts, "pool.utilization") = Stated(c.facts, "pool.utilization")
       /\ Confidences(facts) \cup {"high"} = cs \cup {"high", "medium"}
  BY <1>6, <1>8, <1>9, <1>10 DEF Shows
<1>12. \A f \in ToSet(facts) : f.field = "slippage.estimated" => f.protocol = "aquarius"
  <2> SUFFICES ASSUME NEW f \in ToSet(facts), f.field = "slippage.estimated"
               PROVE  f \in ToSet(d.facts)
    BY <1>10
  <2>1. f \notin ToSet(c.facts) /\ f \notin ToSet(e.facts)
    BY <1>6, <1>8 DEF Shows, Stated
  <2> QED
    BY <1>9, <2>1
<1>13. Slips(facts) <=> Slips(d.facts)
  BY <1>11 DEF Slips
<1>14. Utilizations(facts) = Utilizations(c.facts)
  BY <1>11, UtilizationsStated
<1>15. /\ whole.decision = "safe"
            <=> /\ Utilizations(facts) # {} /\ \A u \in Utilizations(facts) : WithinSafe(u)
                /\ Slips(facts)
       /\ whole.confidence = AggregateConfidence(facts)
  <2>1. \A v, w \in Stated(facts, "slippage.estimated") : v = w
    BY <1>10, <1>11
  <2> QED
    BY <1>9, <1>12, <2>1, CompositeAnswer DEF facts
<1>16. AquariusAsk(contexts[2], 100).decision = "safe" <=> Slips(d.facts)
  BY <1>4, <1>7, AquariusAnswer
<1>17. BlendAsk(contexts[1]).decision = "safe"
         <=> Utilizations(c.facts) # {} /\ \A u \in Utilizations(c.facts) : WithinSafe(u)
  BY <1>4, BlendAnswer
<1>18. whole.confidence = "low" <=> ~pool.oracle.ok \/ ~pool.backstop.ok
  <2>1. "low" \in cs <=> ~(pool.oracle.ok /\ pool.backstop.ok)
    BY DEF cs, PoolConfidences
  <2>2. cs \subseteq {"high", "low"}
    BY DEF cs, PoolConfidences
  <2>3. /\ Confidences(facts) # {} /\ Confidences(facts) \subseteq {"high", "medium", "low"}
        /\ "low" \in Confidences(facts) <=> "low" \in cs
    <3> DEFINE all == Confidences(facts)
    <3>1. all \cup {"high"} = cs \cup {"high", "medium"}
      BY <1>11
    <3> HIDE DEF all
    <3>2. "medium" \in all
      BY <3>1
    <3>3. all \subseteq {"high", "medium", "low"}
      BY <2>2, <3>1
    <3>4. "low" \in all <=> "low" \in cs
      BY <3>1
    <3> QED
      BY <3>2, <3>3, <3>4 DEF all
  <2>4. AggregateConfidence(facts) = "low" <=> "low" \in Confidences(facts)
    BY <2>3, LowConfidence
  <2> QED
    BY <1>15, <2>1, <2>3, <2>4
<1> HIDE DEF whole, pool
<1> QED
  BY <1>13, <1>14, <1>15, <1>16, <1>17, <1>18

-----------------------------------------------------------------------------
(* The utilization answered and the utilization proved.                    *)

\* A factor of both sides cancels.
LEMMA FactorCancels ==
  ASSUME NEW a \in Nat, NEW b \in Nat, NEW k \in Nat \ {0}
  PROVE  a * k < b * k <=> a < b
<1>1. a * k \in Nat /\ b * k \in Nat
  OBVIOUS
<1>2. ASSUME a < b PROVE a * k < b * k
  <2>1. PICK j \in Nat : b = a + 1 + j
    <3>1. b - a - 1 \in Nat
      BY <1>2
    <3> QED
      BY <3>1
  <2>2. b * k = a * k + k + j * k /\ j * k \in Nat
    BY <2>1
  <2> QED
    BY <1>1, <2>2
<1>3. ASSUME ~(a < b) PROVE ~(a * k < b * k)
  <2>1. PICK j \in Nat : a = b + j
    <3>1. a - b \in Nat
      BY <1>3
    <3> QED
      BY <3>1
  <2>2. a * k = b * k + j * k /\ j * k \in Nat
    BY <2>1
  <2> QED
    BY <1>1, <2>2
<1> QED
  BY <1>2, <1>3

\* A multiple of the unit is its whole part.
LEMMA WholePart ==
  ASSUME NEW a \in Nat, a % Unit = 0
  PROVE  a \div Unit \in Nat /\ a = (a \div Unit) * Unit
<1>1. Unit \in Nat \ {0}
  BY FactsAssumption
<1> DEFINE q == a \div Unit
<1>2. q \in Nat /\ a = Unit * q + (a % Unit)
  BY <1>1, Z3
<1> HIDE DEF q
<1>3. a = q * Unit
  BY <1>1, <1>2
<1> QED
  BY <1>2, <1>3 DEF q

\* Of whole amounts, the ratio the pool reports in units is below a threshold
\* exactly if the one the policy computes, of the whole parts and in fixed
\* point, is below the threshold in fixed point.
LEMMA OneRatio ==
  ASSUME NEW borrowed \in Nat, NEW supplied \in Nat \ {0}, NEW m \in Nat,
         borrowed % Unit = 0, supplied % Unit = 0, (m * Scale) % Unit = 0
  PROVE  /\ supplied \div Unit \in Nat \ {0} /\ borrowed \div Unit \in Nat
         /\ (m * Scale) \div Unit \in Nat
         /\ ((borrowed \div Unit) * Scale) \div (supplied \div Unit) < (m * Scale) \div Unit
              <=> (borrowed * Unit) \div supplied < m
<1> DEFINE b == borrowed \div Unit
           s == supplied \div Unit
           scaled == m * Scale
           t == scaled \div Unit
<1>1. Unit \in Nat \ {0} /\ Scale \in Nat \ {0}
  BY FactsAssumption
<1>2. scaled \in Nat
  BY <1>1
<1>3. b \in Nat /\ borrowed = b * Unit
  BY WholePart
<1>4. s \in Nat /\ supplied = s * Unit
  BY WholePart
<1>5. t \in Nat /\ scaled = t * Unit
  <2> HIDE DEF scaled
  <2> QED
    BY <1>2, WholePart DEF scaled
<1> HIDE DEF b, s, t
<1>6. s # 0
  BY <1>1, <1>4
<1>7. b * Scale \in Nat /\ t * s \in Nat /\ borrowed * Unit \in Nat /\ b * Unit \in Nat /\ m * s \in Nat
      /\ m * supplied \in Nat
  BY <1>1, <1>3, <1>4, <1>5
<1>8. (b * Scale) \div s < t <=> b * Scale < t * s
  <2> DEFINE n == b * Scale
  <2>1. n \in Nat
    BY <1>7
  <2> HIDE DEF n
  <2>2. n \div s < t <=> n < t * s
    BY <1>4, <1>5, <1>6, <2>1, DivisionFree
  <2> QED
    BY <2>2 DEF n
<1>9. (borrowed * Unit) \div supplied < m <=> borrowed * Unit < m * supplied
  <2> DEFINE n == borrowed * Unit
  <2>1. n \in Nat
    BY <1>7
  <2> HIDE DEF n
  <2>2. n \div supplied < m <=> n < m * supplied
    BY <2>1, DivisionFree
  <2> QED
    BY <2>2 DEF n
<1>10. borrowed * Unit < m * supplied <=> b * Unit < m * s
  <2> DEFINE x == b * Unit
             y == m * s
  <2>1. borrowed * Unit = x * Unit
    BY <1>3
  <2>2. m * supplied = y * Unit
    BY <1>1, <1>4
  <2>3. x \in Nat /\ y \in Nat
    BY <1>7
  <2> HIDE DEF x, y
  <2>4. x * Unit < y * Unit <=> x < y
    BY <1>1, <2>3, FactorCancels
  <2> QED
    BY <2>1, <2>2, <2>4 DEF x, y
<1>11. b * Scale < t * s <=> b * Unit < m * s
  <2> DEFINE x == b * Scale
             y == t * s
             z == b * Unit
             w == m * s
  <2>1. x \in Nat /\ y \in Nat /\ z \in Nat /\ w \in Nat
    BY <1>7
  <2>2. x * Unit = z * Scale
    BY <1>1, <1>3
  <2>3. y * Unit = w * Scale
    <3>1. y * Unit = (t * Unit) * s
      BY <1>1, <1>4, <1>5
    <3>2. (m * Scale) * s = w * Scale
      BY <1>1, <1>4
    <3> QED
      BY <1>5, <3>1, <3>2 DEF scaled
  <2> HIDE DEF x, y, z, w
  <2>4. x * Unit < y * Unit <=> x < y
    BY <1>1, <2>1, FactorCancels
  <2>5. z * Scale < w * Scale <=> z < w
    BY <1>1, <2>1, FactorCancels
  <2> QED
    BY <2>2, <2>3, <2>4, <2>5 DEF x, y, z, w
<1> QED
  BY <1>3, <1>4, <1>5, <1>6, <1>8, <1>9, <1>10, <1>11 DEF b, s, t, scaled

\* What the evaluator reads of the facts of a Blend pool.
LEMMA BlendReads ==
  ASSUME NEW fact
  PROVE  /\ fact.field = "reserve.totalBorrowed"
              => NormalizeFact("totalBorrowed", fact) = ToIntBig(fact.value)
         /\ fact.field = "reserve.totalSupplied"
              => NormalizeFact("totalSupplied", fact) = ToIntBig(fact.value)
         /\ fact.field = "oracle.freshness" => NormalizeFact("isFresh", fact) = ToBool(fact.value)
<1>1. TypeOf("totalBorrowed") = "u128" /\ TypeOf("totalSupplied") = "u128" /\ TypeOf("isFresh") = "bool"
  BY DEF TypeOf, Selectors, Selector
<1> QED
  BY <1>1 DEF NormalizeFact

\* The freshness of an oracle, as a number.
LEMMA FreshnessNumber ==
  ASSUME NEW fresh \in BOOLEAN
  PROVE  ToBool(Word(IF fresh THEN "fresh" ELSE "unknown")).n = 1 <=> fresh
<1>1. CASE fresh
  <2>1. Word(IF fresh THEN "fresh" ELSE "unknown").kind = "fresh"
    BY <1>1 DEF Word
  <2>2. ToBool(Word(IF fresh THEN "fresh" ELSE "unknown")) = Bool(TRUE)
    BY <2>1 DEF ToBool
  <2> QED
    BY <1>1, <2>2 DEF Bool
<1>2. CASE ~fresh
  <2>1. Word(IF fresh THEN "fresh" ELSE "unknown").kind = "unknown"
    BY <1>2 DEF Word
  <2>2. ToBool(Word(IF fresh THEN "fresh" ELSE "unknown")) = Bool(FALSE)
    BY <2>1 DEF ToBool
  <2> QED
    BY <1>2, <2>2 DEF Bool
<1> QED
  BY <1>1, <1>2

\* What the utilization policy is evaluated on: the USDC reserve of the pool,
\* the freshness of its oracle and the caller's threshold.
LEMMA BlendNumbers ==
  ASSUME RequestInv, Complete, Typed, request = "blend", ~TheProof.refused
  PROVE  LET pool == LoadPool(chain[1].pool)
             m == privates.maxUtilization.raw
         IN  /\ pool \in PoolAnswers /\ m \in Nat
             /\ \E u \in UsdcReserves(pool) :
                  /\ u.borrowed.raw \in Nat /\ u.supplied.raw \in Nat
                  /\ IsDecimal(u.borrowed) /\ IsDecimal(u.supplied)
                  /\ TheProof.proved <=>
                       /\ ((u.borrowed.raw \div Unit) * Scale) \div Denominator(u.supplied.raw \div Unit)
                            < (m * Scale) \div Unit
                       /\ pool.oracle.ok
<1> DEFINE pool == LoadPool(chain[1].pool)
           m == privates.maxUtilization.raw
           facts == AgedFacts
           p == TheProof
           value == Values("blend", facts)
           given == Givens("blend", privates)
           f == SlotNumbers("blend", value)
           t == InputNumbers("blend", given)
<1>1. NoAge \in MaxAges \cup {NoAge} /\ p = proofs[NoAge]
  BY DEF TheProof
<1>2. Answered /\ Built.ok /\ RecipeInputs("blend", privates) /\ "blend" \in Recipes
  BY <1>1, RequestProofs
<1>3. AllBind("blend", facts) /\ AllNumeric("blend", facts) /\ (p.proved <=> Predicate("blend", f, t))
  <2> HIDE DEF p, f, t, facts
  <2>1. ~proofs[NoAge].refused
    BY <1>1 DEF p
  <2>2. /\ AllBind(request, AgedFacts) /\ AllNumeric(request, AgedFacts)
        /\ proofs[NoAge].proved
             <=> Predicate(request, SlotNumbers(request, Values(request, AgedFacts)),
                           InputNumbers(request, Givens(request, privates)))
    BY <1>1, <2>1, RequestVerdict
  <2> QED
    BY <1>1, <2>2 DEF f, t, facts
<1>4. pool \in PoolAnswers
  BY <1>2, ServedPool
<1>5. Tree["blend"].facts = {"totalBorrowed", "totalSupplied", "isFresh"}
  BY DEF Tree
<1>6. \A path : RequestSays(path) = PoolSays(pool, path)
  BY DEF RequestSays
<1> DEFINE borrowed == BoundFact("totalBorrowed", facts)
           supplied == BoundFact("totalSupplied", facts)
           oracle == BoundFact("isFresh", facts)
<1>7. \A path \in Tree["blend"].facts :
        /\ Selects(Selectors[path], BoundFact(path, facts))
        /\ BoundFact(path, facts).value \in RequestSays(path)
        /\ BoundFact(path, facts).value \notin NoNumber
  <2> TAKE path \in Tree["blend"].facts
  <2>1. Binds(path, AgedFacts)
    BY <1>3 DEF AllBind
  <2>2. path \in Tree[request].facts
    OBVIOUS
  <2>3. BoundFact(path, AgedFacts).value \notin NoNumber
    BY <1>3 DEF AllNumeric, Numeric, NoNumber
  <2> QED
    BY <1>2, <2>1, <2>2, <2>3, CapsuleBinds
<1> HIDE DEF pool, facts
<1>8. /\ borrowed.value \in {r.borrowed : r \in UsdcReserves(pool)}
      /\ supplied.value \in {r.supplied : r \in UsdcReserves(pool)}
      /\ oracle.value = Word(IF pool.oracle.ok THEN "fresh" ELSE "unknown")
      /\ borrowed.value \notin NoNumber /\ supplied.value \notin NoNumber
      /\ borrowed.field = "reserve.totalBorrowed" /\ supplied.field = "reserve.totalSupplied"
      /\ oracle.field = "oracle.freshness"
  <2>1. /\ PoolSays(pool, "totalBorrowed") = {r.borrowed : r \in UsdcReserves(pool)}
        /\ PoolSays(pool, "totalSupplied") = {r.supplied : r \in UsdcReserves(pool)}
        /\ PoolSays(pool, "isFresh") = {Word(IF pool.oracle.ok THEN "fresh" ELSE "unknown")}
    BY DEF PoolSays
  <2>2. /\ Selects(Selectors["totalBorrowed"], borrowed) /\ borrowed.value \in RequestSays("totalBorrowed")
        /\ Selects(Selectors["totalSupplied"], supplied) /\ supplied.value \in RequestSays("totalSupplied")
        /\ Selects(Selectors["isFresh"], oracle) /\ oracle.value \in RequestSays("isFresh")
        /\ borrowed.value \notin NoNumber /\ supplied.value \notin NoNumber
    BY <1>5, <1>7
  <2> HIDE DEF borrowed, supplied, oracle
  <2>3. /\ borrowed.field = "reserve.totalBorrowed" /\ supplied.field = "reserve.totalSupplied"
        /\ oracle.field = "oracle.freshness"
    BY <2>2, RecipeSelectors DEF Selects
  <2>4. /\ borrowed.value \in PoolSays(pool, "totalBorrowed")
        /\ supplied.value \in PoolSays(pool, "totalSupplied")
        /\ oracle.value \in PoolSays(pool, "isFresh")
    BY <1>6, <2>2
  <2> QED
    BY <2>1, <2>2, <2>3, <2>4
<1> HIDE DEF borrowed, supplied, oracle
<1>9. \A r, s \in UsdcReserves(pool) : r = s
  <2>1. \A i, j \in DOMAIN pool.reserves : pool.reserves[i].asset = pool.reserves[j].asset => i = j
    BY <1>4 DEF PoolAnswers
  <2> QED
    BY <2>1 DEF UsdcReserves, ToSet
<1>10. PICK u \in UsdcReserves(pool) : borrowed.value = u.borrowed /\ supplied.value = u.supplied
  BY <1>8, <1>9
<1>11. PICK b \in Nat, s \in Nat : u.borrowed = Decimal(b) /\ u.supplied = Decimal(s)
  <2>1. u \in Reserves
    <3>1. \A i \in DOMAIN pool.reserves : pool.reserves[i] \in Reserves
      BY <1>4, PoolParts
    <3> QED
      BY <3>1 DEF UsdcReserves, ToSet
  <2>2. u.borrowed \in Printed /\ u.supplied \in Printed
    BY <2>1 DEF Reserves
  <2>3. ASSUME NEW v \in Printed, v \notin NoNumber
        PROVE  \E k \in Nat : v = Decimal(k)
    <3>1. v \in Decimals
      BY <2>3 DEF Printed, NoNumber
    <3>2. v \in [kind : {"number"}, raw : 0..MaxAmount] /\ MaxAmount \in Nat
      BY <3>1, RangeAssumption DEF Decimals
    <3>3. v.raw \in Nat /\ v = Decimal(v.raw)
      BY <3>2 DEF Decimal
    <3> QED
      BY <3>3
  <2>4. u.borrowed \notin NoNumber /\ u.supplied \notin NoNumber
    BY <1>8, <1>10
  <2> QED
    BY <2>2, <2>3, <2>4
<1>12. /\ Decimal(b).raw = b /\ IsDecimal(Decimal(b)) /\ ToIntBig(Decimal(b)) = Big(b \div Unit)
       /\ Decimal(s).raw = s /\ IsDecimal(Decimal(s)) /\ ToIntBig(Decimal(s)) = Big(s \div Unit)
  BY DecimalValues
<1>13. f.borrowed = b \div Unit /\ f.supplied = s \div Unit /\ (f.oracle = 1 <=> pool.oracle.ok)
  <2>1. /\ value["totalBorrowed"] = NormalizeFact("totalBorrowed", borrowed)
        /\ value["totalSupplied"] = NormalizeFact("totalSupplied", supplied)
        /\ value["isFresh"] = NormalizeFact("isFresh", oracle)
    BY <1>5 DEF Values, borrowed, supplied, oracle
  <2>2. /\ f.borrowed = value["totalBorrowed"].n /\ f.supplied = value["totalSupplied"].n
        /\ f.oracle = value["isFresh"].n
    BY DEF SlotNumbers, Slots
  <2> HIDE DEF value, f
  <2>3. /\ value["totalBorrowed"] = ToIntBig(Decimal(b)) /\ value["totalSupplied"] = ToIntBig(Decimal(s))
        /\ value["isFresh"] = ToBool(Word(IF pool.oracle.ok THEN "fresh" ELSE "unknown"))
    BY <1>8, <1>10, <1>11, <2>1, BlendReads
  <2>4. Big(b \div Unit).n = b \div Unit /\ Big(s \div Unit).n = s \div Unit
    BY DEF Big
  <2>5. pool.oracle.ok \in BOOLEAN
    BY <1>4, PoolParts
  <2>6. value["isFresh"].n = 1 <=> pool.oracle.ok
    BY <2>3, <2>5, FreshnessNumber
  <2> QED
    BY <1>12, <2>2, <2>3, <2>4, <2>6
<1>14. PICK raw \in Nat : privates.maxUtilization = Decimal(raw)
  <2>1. DOMAIN Thresholds["blend"] = {"maxUtilization"} /\ Thresholds["blend"]["maxUtilization"] = "fixed_1e6"
    BY DEF Thresholds
  <2>2. privates.maxUtilization \in PrivateValues["maxUtilization"]
    BY <1>2, <2>1 DEF RecipeInputs
  <2>3. PrivateValues["maxUtilization"] \subseteq
          IF Thresholds["blend"]["maxUtilization"] = "fixed_1e6" THEN Ratios ELSE Decimals
    BY <1>2, <2>1, PrivatesAssumption
  <2>4. PrivateValues["maxUtilization"] \subseteq Ratios
    BY <2>1, <2>3
  <2>5. privates.maxUtilization \in [kind : {"number"}, raw : 0..MaxRatio] /\ MaxRatio \in Nat
    BY <2>2, <2>4, RangeAssumption DEF Ratios
  <2>6. privates.maxUtilization.raw \in Nat /\ privates.maxUtilization = Decimal(privates.maxUtilization.raw)
    BY <2>5 DEF Decimal
  <2> QED
    BY <2>6
<1>15. m = raw /\ ToFixed(Decimal(raw)) = Big((raw * Scale) \div Unit)
  BY <1>14, DecimalValues
<1>16. t.maxUtilization = (raw * Scale) \div Unit
  <2>1. given["maxUtilization"] = NormalizePrivate(privates.maxUtilization, "fixed_1e6")
    BY DEF Givens, Thresholds
  <2>2. t.maxUtilization = given["maxUtilization"].n
    BY DEF InputNumbers, Thresholds
  <2> HIDE DEF given, t
  <2>3. given["maxUtilization"] = ToFixed(Decimal(raw))
    BY <1>14, <2>1 DEF NormalizePrivate
  <2>4. Big((raw * Scale) \div Unit).n = (raw * Scale) \div Unit
    BY DEF Big
  <2> QED
    BY <1>15, <2>2, <2>3, <2>4
<1> HIDE DEF f, t, m, p
<1>17. p.proved <=> /\ (f.borrowed * Scale) \div Denominator(f.supplied) < t.maxUtilization
                    /\ f.oracle = 1
  BY <1>3 DEF Predicate, BlendPredicate
<1>18. /\ u.borrowed.raw = b /\ u.supplied.raw = s /\ IsDecimal(u.borrowed) /\ IsDecimal(u.supplied)
  BY <1>11, <1>12
<1>19. p.proved <=> /\ ((u.borrowed.raw \div Unit) * Scale) \div Denominator(u.supplied.raw \div Unit)
                         < (m * Scale) \div Unit
                    /\ pool.oracle.ok
  BY <1>13, <1>15, <1>16, <1>17, <1>18
<1>20. m \in Nat
  BY <1>15
<1> QED
  BY <1>4, <1>18, <1>19, <1>20 DEF pool, m, p

\* What Blend's answer looks at, of the pool the chain answered.
LEMMA BlendSees ==
  ASSUME RequestInv, Answered, request = "blend", Built.ok
  PROVE  Utilizations(contexts[1].facts) = {r.utilization.raw : r \in ToSet(LoadPool(chain[1].pool).reserves)}
<1> DEFINE c == GetPoolContext(chain[1], FALSE)
           pool == LoadPool(chain[1].pool)
<1>1. /\ request \in Requests /\ contexts = ContextsOf(request, chain)
      /\ \A k \in 1..Len(Calls[request]) : chain[k] \in Calls[request][k]
  BY AnsweredChain
<1>2. chain[1].pool \in Loads
  <2>1. chain[1] \in PoolCall
    BY <1>1 DEF Calls
  <2> QED
    BY <2>1 DEF PoolCall
<1>3. contexts = <<c>>
  BY <1>1 DEF ContextsOf
<1>4. 1 \in DOMAIN contexts /\ contexts[1] = c
  <2> HIDE DEF c
  <2> QED
    BY <1>3
<1>5. c.ok
  <2>1. contexts[1].ok
    BY <1>4, BuiltContexts
  <2> HIDE DEF c
  <2> QED
    BY <1>4, <2>1
<1>6. Shows(c.facts, PoolUtilizations(pool), PoolConfidences(pool))
  <2>1. FALSE \in BOOLEAN
    OBVIOUS
  <2> QED
    BY <1>2, <1>5, <2>1, PoolContextShows
<1> HIDE DEF c, pool
<1>7. Stated(c.facts, "pool.utilization") = {r.utilization : r \in ToSet(pool.reserves)}
  BY <1>6 DEF Shows, PoolUtilizations
<1>8. Utilizations(c.facts) = {v.raw : v \in Stated(c.facts, "pool.utilization")}
  BY UtilizationsStated
<1>9. {v.raw : v \in {r.utilization : r \in ToSet(pool.reserves)}}
        = {r.utilization.raw : r \in ToSet(pool.reserves)}
  OBVIOUS
<1>10. Utilizations(c.facts) = {r.utilization.raw : r \in ToSet(pool.reserves)}
  BY <1>7, <1>8, <1>9
<1> QED
  BY <1>4, <1>10 DEF pool

\* The answer and the proof are two computations of one ratio.
LEMMA ProofAgreesWithBlendInv ==
  ASSUME RequestInv, Typed
  PROVE  ProofAgreesWithBlend
<1> DEFINE pool == LoadPool(chain[1].pool)
           m == privates.maxUtilization.raw
           Whole(r) == r.borrowed.raw % Unit = 0 /\ r.supplied.raw % Unit = 0 /\ r.supplied.raw > 0
           safe == BlendAsk(contexts[1]).decision = "safe"
           p == TheProof
<1> SUFFICES ASSUME request = "blend", Complete, WithinSafe(m), (m * Scale) % Unit = 0,
                    ~p.refused, \A r \in Range(pool.reserves) : Whole(r)
             PROVE  /\ (p.proved /\ Len(pool.reserves) = 1) => safe
                    /\ (/\ safe /\ pool.oracle.ok
                        /\ \A r \in Range(pool.reserves) : r.utilization.raw < m) => p.proved
  BY DEF ProofAgreesWithBlend
<1>1. Answered /\ Built.ok
  <2>1. NoAge \in MaxAges \cup {NoAge}
    OBVIOUS
  <2> QED
    BY <2>1, RequestProofs
<1>2. /\ pool \in PoolAnswers /\ m \in Nat
      /\ \E u \in UsdcReserves(pool) :
           /\ u.borrowed.raw \in Nat /\ u.supplied.raw \in Nat
           /\ IsDecimal(u.borrowed) /\ IsDecimal(u.supplied)
           /\ p.proved <=>
                /\ ((u.borrowed.raw \div Unit) * Scale) \div Denominator(u.supplied.raw \div Unit)
                     < (m * Scale) \div Unit
                /\ pool.oracle.ok
  BY BlendNumbers
<1>3. safe <=> LET us == {r.utilization.raw : r \in ToSet(pool.reserves)}
               IN  us # {} /\ \A u \in us : WithinSafe(u)
  <2>1. Utilizations(contexts[1].facts) = {r.utilization.raw : r \in ToSet(pool.reserves)}
    BY <1>1, BlendSees
  <2> QED
    BY <2>1, BlendAnswer
<1>4. Range(pool.reserves) = ToSet(pool.reserves)
  BY DEF Range, ToSet
<1> HIDE DEF pool, m, safe, p
<1>5. PICK u \in UsdcReserves(pool) :
           /\ u.borrowed.raw \in Nat /\ u.supplied.raw \in Nat
           /\ IsDecimal(u.borrowed) /\ IsDecimal(u.supplied)
           /\ p.proved <=>
                /\ ((u.borrowed.raw \div Unit) * Scale) \div Denominator(u.supplied.raw \div Unit)
                     < (m * Scale) \div Unit
                /\ pool.oracle.ok
  BY <1>2
<1>6. u \in ToSet(pool.reserves) /\ Whole(u)
  BY <1>4 DEF UsdcReserves
<1>7. u.utilization.raw \in Nat /\ u.utilization.raw = (u.borrowed.raw * Unit) \div u.supplied.raw
  <2>1. u \in Reserves
    <3>1. \A i \in DOMAIN pool.reserves : pool.reserves[i] \in Reserves
      BY <1>2, PoolParts
    <3> QED
      BY <1>6, <3>1 DEF ToSet
  <2> QED
    BY <1>5, <1>6, <2>1 DEF Reserves
<1>8. p.proved <=> u.utilization.raw < m /\ pool.oracle.ok
  <2> DEFINE b == u.borrowed.raw
             s == u.supplied.raw
  <2>1. b \in Nat /\ s \in Nat \ {0} /\ b % Unit = 0 /\ s % Unit = 0
    BY <1>5, <1>6
  <2>2. (m * Scale) % Unit = 0 /\ m \in Nat
    BY <1>2 DEF m
  <2> HIDE DEF b, s
  <2>3. /\ s \div Unit \in Nat \ {0}
        /\ ((b \div Unit) * Scale) \div (s \div Unit) < (m * Scale) \div Unit <=> (b * Unit) \div s < m
    BY <2>1, <2>2, OneRatio
  <2>4. Denominator(s \div Unit) = s \div Unit
    BY <2>3 DEF Denominator
  <2> QED
    BY <1>5, <1>7, <2>3, <2>4 DEF b, s
<1>9. ASSUME p.proved, Len(pool.reserves) = 1
      PROVE  safe
  <2>1. ToSet(pool.reserves) = {u}
    <3>1. DOMAIN pool.reserves = 1..1
      BY <1>2, <1>9, PoolParts
    <3> QED
      BY <1>6, <3>1 DEF ToSet
  <2>2. WithinSafe(u.utilization.raw)
    BY <1>2, <1>7, <1>8, <1>9, FactsAssumption DEF WithinSafe, m
  <2> QED
    BY <1>3, <2>1, <2>2
<1>10. ASSUME pool.oracle.ok, \A r \in Range(pool.reserves) : r.utilization.raw < m
       PROVE  p.proved
  BY <1>4, <1>6, <1>8, <1>10
<1> QED
  BY <1>9, <1>10

\* What a user is answered agrees with what else the system derives from the
\* same contexts, whatever the chain answers: a composite is safe exactly if
\* Blend's and Aquarius' answers are; and Blend's answer and the proof of the
\* utilization policy, if the caller gives the schema, rest on one ratio.
THEOREM AnswersAreConsistent == PolicySpec => [](CompositeAgrees /\ (Typed => AnswersAgree))
<1>1. RequestInv => CompositeAgrees /\ (Typed => AnswersAgree)
  BY CompositeAgreesInv, ProofAgreesWithBlendInv DEF AnswersAgree
<1> QED
  BY <1>1, RequestInvariance, PTL
=============================================================================
