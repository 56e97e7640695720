--------------------------- MODULE PolicyRequests ---------------------------
(***************************************************************************)
(* A caller makes a request: the chain answers its calls one at a time,    *)
(* the adapters make contexts of the answers, and for a recipe the private *)
(* inputs follow, and with the last of them the proof.                     *)
(***************************************************************************)
EXTENDS PolicyRecipes, ProtocolAdapters

CONSTANTS Answers,        \* [request -> what its calls may be answered, in order]
          PrivateValues,  \* [name of a private input -> the values given for it]
          WithSchema,     \* the caller gives the types of the private inputs
          AmountIn,       \* the amount of a swap
          Ages,           \* of the leading facts when the policy is evaluated
          MaxAges,        \* the maximum ages asked for
          MaxAmount,      \* bound on the amounts of an answer and of a caller
          MaxRatio        \* bound on the ratios of a caller

VARIABLES request,   \* a recipe, a single read, or none
          chain,     \* the responses so far, in the order of the calls
          contexts,  \* what the adapters made of them
          age,       \* of the leading facts when the policy is evaluated; the others are new
          privates,  \* the private inputs
          proofs     \* by the maximum age asked for, once all are given

policyVars == <<request, chain, contexts, age, privates, proofs>>

-----------------------------------------------------------------------------
(* What the chain may answer.                                              *)

Decimals == [kind : {"number"}, raw : 0..MaxAmount]
Printed == Decimals \cup {Word("exponent")}
OrThrown(S) == S \cup {Thrown}

\* A pool reports a reserve once, and the ratio of its amounts.
Reserves ==
  {r \in [asset : STRING, borrowed : Printed, supplied : Printed,
          utilization : [kind : {"number"}, raw : Nat], extras : Seq(ExtraFields \X Printed)] :
     (IsDecimal(r.borrowed) /\ IsDecimal(r.supplied) /\ r.supplied.raw > 0) =>
        r.utilization.raw = (r.borrowed.raw * Unit) \div r.supplied.raw}
PoolAnswers ==
  {p \in [ok : {TRUE}, status : Nat, ledger : Nat, reserves : Seq(Reserves),
          registry : SUBSET STRING, oracle : OrThrown([ok : {TRUE}, ledger : Nat]),
          backstop : OrThrown([ok : {TRUE}, value : Nat, queued : Nat])] :
     \A i, j \in DOMAIN p.reserves : p.reserves[i].asset = p.reserves[j].asset => i = j}
Loads == [v1 : OrThrown(PoolAnswers), v2 : OrThrown(PoolAnswers)]
UserAnswers ==
  [pool : Loads, position : OrThrown([ok : {TRUE}, collateral : 0..MaxAmount,
                                      liabilities : 0..MaxAmount])]

Quotes == OrThrown([ok : {TRUE}, out : 0..(MaxAmount \div Unit), ledger : Nat])
SwapPools ==
  [quote : Quotes, ref : Quotes,
   info : [type : OrThrown([ok : {TRUE}, value : STRING, fee : Nat]),
           reserves : OrThrown([ok : {TRUE}, value : Seq(Nat)]),
           shares : OrThrown([ok : {TRUE}, value : Nat]), ledger : Nat]]

PriceLevels == [price : Nat \ {0}, amount : Nat]
Books ==
  {b \in [bids : Seq(PriceLevels), asks : Seq(PriceLevels), ledger : Nat,
          trades : OrThrown([ok : {TRUE}, volume : Nat, count : Nat, ledger : Nat])] :
     (b.bids # <<>> /\ b.asks # <<>>) =>
        Spread(b.bids[1].price, b.asks[1].price) \in 0..(Span64 - 1)}
Paths == [out : 0..MaxAmount, between : Nat]
ClassicPools == [shares : Nat, fee : Nat, trustlines : Nat, reserve : Nat, modified : Nat]

PoolCall == [pool : Loads]
UserCall == [pool : Loads, user : UserAnswers]
SwapCall == [pools : Seq(SwapPools), ledger : Nat]
PathCall == [paths : Seq(Paths), ledger : Nat]

\* The calls of a request, by what may answer them.
Calls ==
  [ blend |-> <<PoolCall>>, aquarius |-> <<SwapCall>>, sdex |-> <<PathCall, Books>>,
    composite |-> <<UserCall, SwapCall, PathCall>>,
    position |-> <<UserCall>>, pools |-> <<SwapCall>>, receive |-> <<PathCall>>,
    offers |-> <<[offers : Nat, ledger : Nat]>>,
    classic |-> <<[classic : Seq(ClassicPools), ledger : Nat]>> ]
Requests == DOMAIN Calls
None == "none"

ASSUME AnswersAssumption ==
  \A r \in Requests :
    /\ DOMAIN Answers[r] = DOMAIN Calls[r]
    /\ \A k \in DOMAIN Calls[r] : Answers[r][k] \subseteq Calls[r][k]

\* A caller's amounts and ratios are not negative.
Ratios == [kind : {"number"}, raw : 0..MaxRatio]
ASSUME PrivatesAssumption ==
  \A r \in Recipes : \A name \in DOMAIN Thresholds[r] :
    PrivateValues[name] \subseteq
      IF Thresholds[r][name] = "fixed_1e6" THEN Ratios ELSE Decimals
ASSUME AgesAssumption ==
  /\ \A ages \in Ages : \A i \in DOMAIN ages : ages[i] \in Nat
  /\ MaxAges \subseteq Nat

\* The circuits' comparators have room for the amounts: a ratio of an amount,
\* a fixed point amount and the product of a ratio and an amount.
ASSUME RangeAssumption ==
  /\ MaxAmount \in Nat /\ MaxRatio \in Nat
  /\ MaxAmount * Scale + Scale < Span160 /\ MaxAmount + 1 < Span160
  /\ ((MaxRatio * Scale) \div Unit) * (MaxAmount \div Unit + 1) < Span160
  /\ \A v \in PrivateValues["maxSpreadBps"] : v.raw \div Unit + 1 < Span64

-----------------------------------------------------------------------------
(* A request.                                                              *)

PolicyInit ==
  /\ request = None /\ chain = <<>> /\ contexts = <<>>
  /\ age = <<>> /\ privates = <<>> /\ proofs = <<>>

Choose(r) ==
  /\ request = None
  /\ request' = r
  /\ age' \in Ages
  /\ UNCHANGED <<chain, contexts, privates, proofs>>

\* The contexts of an answered request.
ContextsOf(r, answers) ==
  CASE r = "blend" -> <<GetPoolContext(answers[1], FALSE)>>
    [] r = "aquarius" -> <<EstimateSwap(answers[1], AmountIn)>>
    [] r = "sdex" -> <<FindPath(answers[1]), GetMarket(answers[2])>>
    [] r = "composite" ->
         <<GetPoolContext(answers[1], TRUE), EstimateSwap(answers[2], AmountIn), FindPath(answers[3])>>
    [] r = "position" -> <<GetUserContext(answers[1])>>
    [] r = "pools" -> <<GetPools(answers[1])>>
    [] r = "receive" -> <<FindPathStrictReceive(answers[1])>>
    [] r = "offers" -> <<GetOffers(answers[1])>>
    [] r = "classic" -> <<GetLiquidityPools(answers[1])>>

Respond ==
  /\ request # None /\ Len(chain) < Len(Calls[request])
  /\ \E r \in Answers[request][Len(chain) + 1] : chain' = Append(chain, r)
  /\ contexts' = IF Len(chain') = Len(Calls[request]) THEN ContextsOf(request, chain') ELSE <<>>
  /\ UNCHANGED <<request, age, privates, proofs>>

Answered == contexts # <<>>
Built == Compose(contexts)

\* The facts of the capsule, each aged since it was made.
AgeOf(i) == IF i \in DOMAIN age THEN age[i] ELSE 0
AgedFacts ==
  LET facts == FlattenSeq([k \in DOMAIN contexts |-> contexts[k].facts])
  IN  [i \in DOMAIN facts |-> [facts[i] EXCEPT !.age = AgeOf(i)]]

Schema == IF WithSchema THEN Thresholds[request] ELSE <<>>
ProofOf(facts, given, maxAge) ==
  Only({Prove(request, intent, capsule, facts, maxAge) :
          intent \in {Intent(request, given, Schema)}, capsule \in {ZkCapsule(facts, 0, 0)}})

\* The last private input starts the proof.
AddPrivate ==
  /\ request \in Recipes /\ Answered
  /\ Built.ok
  /\ \E name \in DOMAIN Thresholds[request] \ DOMAIN privates :
       \E v \in PrivateValues[name] : privates' = With(privates, name, v)
  /\ IF DOMAIN privates' # DOMAIN Thresholds[request] THEN proofs' = <<>>
     ELSE \E facts \in {AgedFacts} :
            proofs' = [a \in MaxAges \cup {NoAge} |-> ProofOf(facts, privates', a)]
  /\ UNCHANGED <<request, chain, contexts, age>>

PolicyNext ==
  \/ \E r \in Requests : Choose(r)
  \/ Respond
  \/ AddPrivate

PolicySpec == PolicyInit /\ [][PolicyNext]_policyVars
-----------------------------------------------------------------------------
Complete == proofs # <<>>
TheProof == proofs[NoAge]

\* The proof shows what the evaluator answered: the interpreter on the DSL
\* text, the predicate of the witness generator and the Circom circuit, three
\* translations of one policy, agree on every input on which a proof comes
\* out; so does, for amounts below 2^64, the Noir circuit of the three policies
\* without a division (what witness.ts 9-10 says of the fourth too, see
\* NoirMirrorsReference).
ProofAgreesWithEvaluator ==
  Complete =>
    LET p == TheProof
        w == p.witness
    IN  ~p.refused =>
          /\ p.evaluated = p.reference
          /\ p.evaluated = p.proved
          /\ (/\ request # "blend"
              /\ \A x \in Range(w.value) \cup Range(w.threshold) : x < Span64) =>
               NoirOutput(request, CircomInput(w.value), CircomInput(w.threshold)) = p.reference

\* What the chain's answers must contain for a policy to be decided: a USDC
\* reserve with amounts printed without an exponent, a pool that prices the
\* swap, a path and a two-sided book, a position with debt (the health of one
\* without is infinite).
Decidable ==
  LET pool == LoadPool(chain[1].pool)
      Numeric(r) == IsDecimal(r.borrowed) /\ IsDecimal(r.supplied)
      Usdc == \E i \in DOMAIN pool.reserves : pool.reserves[i].asset = "USDC" /\ Numeric(pool.reserves[i])
      Priced(r) == \E i \in DOMAIN r.pools : r.pools[i].quote.ok
  IN  CASE request = "blend" -> "USDC" \in pool.registry /\ Usdc
        [] request = "aquarius" -> Priced(chain[1])
        [] request = "sdex" ->
             chain[1].paths # <<>> /\ chain[2].bids # <<>> /\ chain[2].asks # <<>>
        [] request = "composite" ->
             /\ FetchedUser(chain[1].user) /\ Priced(chain[2]) /\ chain[3].paths # <<>>
             /\ chain[1].user.position.liabilities > 0

\* The facts of the fields a program reads: the ones it is bound to, and those
\* of another reserve, pool or protocol that share a field with them.
SharingField(bound) ==
  {i \in DOMAIN AgedFacts : \E path \in DOMAIN bound : AgedFacts[i].field = Selectors[path].field}

\* A policy is refused exactly for a cause: an answer of the chain it needs is
\* missing or, under a maximum age, a fact is older that has a field its program
\* reads.  So it never rests on an older fact, and what else the capsule holds
\* may be of any age; but an older fact it does not use, say of another
\* reserve, does refuse it (the gate of evaluate.ts).
RefusedWithCause ==
  Complete =>
    /\ TheProof.refused <=> ~Decidable
    /\ \A maxAge \in MaxAges :
         ~TheProof.refused =>
           (proofs[maxAge].refused <=>
              \E i \in SharingField(TheProof.compiled.bound) : AgedFacts[i].age > maxAge)

\* Every fact an adapter returns cites a source record, and only records
\* that are returned, and so stored, with it: what bindFact requires and what
\* saveFacts' foreign key rests on.
FactsCiteTheirContext ==
  Answered => \A c \in Range(contexts) : c.ok =>
    \A i \in DOMAIN c.facts :
      c.facts[i].cites # {} /\ c.facts[i].cites \subseteq Ids(c.sources)

\* The composite answer is safe exactly if Blend's and Aquarius' own are, and
\* only a stale oracle or an unknown backstop makes a safe one unconfident.
CompositeAgrees ==
  (request = "composite" /\ Answered) =>
    LET whole == ReasonComposite(Built)
        pool == LoadPool(chain[1].pool)
    IN  Built.ok =>
          /\ whole.decision = "safe" <=>
               /\ BlendAsk(contexts[1]).decision = "safe"
               /\ AquariusAsk(contexts[2], 100).decision = "safe"
          /\ whole.decision = "safe" =>
               (whole.confidence = "low" <=> ~pool.oracle.ok \/ ~pool.backstop.ok)

\* Blend's answer and the utilization proof, two computations of one ratio,
\* agree on pools of whole amounts: what is proved below a threshold of at
\* most 0.8 is answered safe when USDC is the only reserve, and a safe answer
\* with a fresh oracle and a utilization below the threshold is proved.
ProofAgreesWithBlend ==
  LET pool == LoadPool(chain[1].pool)
      m == privates.maxUtilization.raw
      Whole(r) == r.borrowed.raw % Unit = 0 /\ r.supplied.raw % Unit = 0 /\ r.supplied.raw > 0
      safe == BlendAsk(contexts[1]).decision = "safe"
  IN  (/\ request = "blend" /\ Complete
       /\ WithinSafe(m) /\ (m * Scale) % Unit = 0
       /\ ~TheProof.refused /\ \A r \in Range(pool.reserves) : Whole(r)) =>
          /\ (TheProof.proved /\ Len(pool.reserves) = 1) => safe
          /\ (/\ safe /\ pool.oracle.ok
              /\ \A r \in Range(pool.reserves) : r.utilization.raw < m) => TheProof.proved

\* What a user is answered agrees with what else the system derives from the
\* same contexts: the parts' answers, and the proof.
AnswersAgree == CompositeAgrees /\ ProofAgreesWithBlend

\* The Noir circuit of the utilization policy answers as the reference does: "a TypeScript
\* reference circuit evaluator that mirrors each Noir circuit exactly"
\* (witness.ts 9-10).
NoirMirrorsReference ==
  (Complete /\ request = "blend") =>
    LET p == TheProof
        w == p.witness
    IN  ~p.refused =>
          NoirOutput(request, CircomInput(w.value), CircomInput(w.threshold)) = p.reference

\* The README's example gives maxUtilization as "820000" and no schema, and
\* its proof is that utilization is below 0.82: a proof that comes out safe
\* is about a utilization below the threshold the caller scaled.
SafeIsBelowThreshold ==
  (Complete /\ request = "blend") =>
    LET p == TheProof
        w == p.witness
    IN  (~p.refused /\ p.proved) =>
          w.value.borrowed * Scale <
            TruncDiv(privates.maxUtilization.raw, Unit) * Denominator(w.value.supplied)
=============================================================================
