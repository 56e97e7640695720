# Sefi in TLA+

A verification project kept beside the Sefi monorepo: TLA+ modules for the parts
of Sefi whose correctness depends on order, failure, concurrency or arithmetic,
TLC configurations that model-check them on small instances, and TLAPS proofs of
the properties that matter most for every value of the constants.

Sefi reads live protocol state from Stellar (Blend, Aquarius, SDEX), turns every
response into hashed *source records* and *semantic facts*, commits a set of
facts to a *context capsule* (Merkle roots), evaluates *compute intents* over a
capsule, proves the result, and can have the proof verified by a Soroban
contract so that the stored *proof card* says `stellar_verified`. A dashboard
shows the service's status and edits its models, pipelines and agents.

## Inventory

| Component (source) | State it keeps | Operations | Modelled in |
|---|---|---|---|
| Protocol adapters (`packages/protocol-blend`, `-aquarius`, `-sdex`) | none of their own | fetch, map to facts, persist, `ask` | `ProtocolAdapters`, `PolicyRequests`; persist order in `PgCapsuleStore` |
| Semantic answers, `reason` (`packages/semantic-core`, `sdk-ts/src/reason.ts`) | none (pure) | decide, freshness, confidence | `ProtocolAdapters`, `PolicyFacts` |
| Capsule commitments (`packages/source-records/src/hash.ts`, `zk-hash.ts`) | none (pure) | `merkleRoot`, `merkleProof`, `buildFixedTree`, `fixedTreeProof`, `factPathId`, `factValueToFr` | `CapsuleRoots`, `PolicyFacts` |
| Capsule build and replay (`packages/context-capsules`) | none (pure) | `composeContexts`, `buildCapsule`, `verifyCapsule` | `CapsulePlan` |
| Store contract (`packages/store/src/types.ts`) | capsules, facts, records, proofs, checkpoints | save/get/delete | `CapsuleRegistry` (abstract) |
| PgStore (`packages/store/src/pg.ts`, `services/postgres/migrations`) | the SQL tables | one statement per row, no transaction | `PgCapsuleStore`, proof tables in `ProofLifecycle` |
| MemoryStore (`packages/store/src/memory.ts`) | JavaScript maps | same contract | `MemoryCapsuleStore` |
| Ingestion worker (`apps/worker`, `stellar-client` `getEvents`) | the checkpoint row, the record rows | `blendEventWorker`, `every`, `capsuleCleanupWorker` | `EventIngestion`; cleanup in the store modules |
| Compute language (`packages/compute`) | none (pure) | parse, compile, bind, normalize, evaluate | `PolicyLanguage`, `PolicyEvaluator`, `PolicyFacts`, `PolicyRecipes` |
| Witness generation and circuits (`packages/proofs/src/witness.ts`, `circuits/`) | none (pure) | `buildWitness`, `referenceEvaluate`, four Circom circuits | `PolicyCircuits` |
| Proof backends (`packages/proofs`: `router`, `backends`, `groth16`, `envelope`, `prove`, `verify`) | snarkjs' shared curve | `selectBackend`, `resolveBackend`, `prove`, `verifyLocal`, `terminateCurve` | `ProofKit` |
| Noir prover (`packages/proofs/src/bn254.ts`, `noir.ts`) | `Prover.toml` and `target/witness.gz` of a circuit directory | `proveBn254`, `verifyBn254Local` | `NoirProver` |
| ComputeKit (`packages/sdk-ts/src/compute.ts`) | `compute_intents`, `proof_envelopes`, `proof_cards` | `prove`, `verify().local`, `onStellar` | `ProofLifecycle`, `ProofRecord` (abstract) |
| Groth16 verifier contract (`contracts/noir_ultrahonk_verifier`) | the verification key | `init`, `verify_proof` | inside `ProofLifecycle` |
| HTTP API, agent tools (`apps/api`, `packages/agent-tools`) | none | request mapping | the proof routes in `ProofKit` |
| Dashboard: API client and status (`lib/sefi-api.ts`, `lib/status-store.ts`) | the session, one status snapshot | `fetchJson`, polls, event stream, staleness | `StatusStore` |
| Dashboard: pages (`modeling/*`, `derived/*`, `agents/*`, `dashboard-shell.tsx`) | React state | load, edit, save, run, ask, log in | `ModelStudio`, `RecordEditors`, `QueryLab`, `AgentPlayground`, `AgentChat`, `AgentWorkspace`, `AgentBuilder`, `AccessPanel`, composed in `Dashboard` |
| Verifier registry contract and client, proof worker, scripts, remaining pages | see *Not modelled* | | |

**How they interact.** An adapter fetches, then calls `saveSourceRecords` and
`saveFacts`; `ContextModule.build` runs the adapters one after the other and then
`saveCapsule`. `ComputeModule.buildContext` loads a stored capsule in three reads
and verifies it before a proof is made; the intent is compiled, evaluated over
the facts and handed to the selected backend, and `prove` then writes three rows.
`verify().local` follows envelope → intent → capsule and verifies again.
`onStellar` takes an envelope a client posts, spawns the `stellar` CLI, which sends a
transaction, and upgrades the card and the envelope of the id posted. The worker process shares the database with all of them:
its cleanup job deletes capsules, its event job inserts records and moves the
checkpoint. Nothing uses a database transaction or a lock; the shared state is
the tables, the chain, and files and globals of the prover process. The
dashboard talks to its service over HTTP; every page keeps its own copy of what
it edits, filled by requests whose answers come while the operator goes on.

**What is hard.** Every SQL statement is its own commit, so a crash or another
actor can come between any two (partial builds, half-written capsules, proofs
without cards). The cleanup worker deletes capsules under running builds, loads
and stored proofs. SELECTs have no ORDER BY, and the zk root commits to an order.
Runs of one job overlap, because `setInterval` does not wait. The CLI can give up
on a transaction that the ledger still executes. Concurrent Noir proofs share
files, concurrent Groth16 proofs a curve that one of them terminates. One policy
is computed four times: by the interpreter, by the witness generator, by a
Circom circuit over a prime field and by a Noir circuit over u64. Trees have odd
levels and a capacity. In the dashboard answers arrive late, out of order or
never, for a selection that has changed. PROJECT.json lists each hazard at its
line with the properties that would catch it.

**What makes each component correct.**
- Commitments: equal roots mean equal content; every inclusion proof verifies and
  no other leaf does.
- Stores: no visible capsule without its provenance, no link without its capsule,
  an accepted load is exactly what was built, every capsule ages out.
- Ingestion: the checkpoint never covers an event that is not stored; every event
  in scope is stored in the end; duplicates are explained by failures.
- Policies: the parser builds the tree the grammar means; interpreter, witness
  and circuit agree; a policy is refused exactly for data it needs that is missing
  and, under a maximum age, for facts of its fields that are older;
  facts cite records that are stored with them; the answer agrees with the proof.
- Provers: a verification passes exactly for what was returned, in the fields it
  compares, a card claims
  no more than its proof shows, an undisturbed call ends; a Noir envelope carries
  a proof of the witness of its own call.
- Proof records: a durable record never claims a verification the chain did not
  accept under its id, never loses it, and stays bound to its intent.
- Status: what is shown as live is recent, messages apply in order, a write
  happens once, and the page comes back when its server does.
- Pages: what is saved or sent is what was shown for the record it goes to.

## Modules

### Capsules

`CapsuleRoots` — both Merkle trees as operators. A hash is a constructor (a
tuple), so equal hashes mean equal inputs; leaf hashes are naturals whose order
stands for the string order. `Levels`/`FixedTree` are recursive functions over
level numbers, one per loop of the code; `Capacity` is the code's `2 ** depth`. `MCCapsuleRoots` grows two leaf
sequences so that every pair within the bounds is reached.

`CapsulePlan` — what a capsule is built from (`Parts[c]`: the protocol contexts
in adapter order) and what replay recomputes. `RootsOf` uses `CapsuleRoots` for
the two roots whose leaves may coincide, and, justified by `RootsBindLeaves`, a
set (sorted tree over distinct leaves) or a sequence (zk tree) for the others.
`compositeRoot`, `contextRoot` and `zkContextRoot` are hashes of the roots kept
here, so they match exactly when these do.

`CapsuleRegistry` — the abstract specification the SDK relies on: published once,
retired for good, a request answered with the exact content or refused.

`PgCapsuleStore` — the tables, with one action per SQL statement.
`NextPart`, `SaveSource`, `SaveFact`, `SaveFactSource`, `SaveCapsule`, `LinkFact`,
`LinkSource` are the statements of one build in the order the code issues them,
with the foreign keys as guards; `Abort` is a crash or a failed query at any of
them. `GetCapsule`, `GetCapsuleFacts`, `FactSourceIds`, `VerifyLoaded` are the
reads of `buildContext`; `DeleteCapsulesOlderThan` is the DELETE with its
cascade; `TimePasses` moves the retention cutoff. `CapsuleRegistry` is
instantiated with a refinement mapping: a capsule is *published* while its row is
present, *retired* once deleted, and a load is *pending* between its reads.

`MemoryCapsuleStore` — the same, over maps: each save is atomic, the row order is
kept, and `getCapsuleFacts`/`getCapsuleSourceRecords` look the capsule up again.

### Ingestion

`EventIngestion` — `blendEventWorker` for one pool. One action per await of a run
(`GetCheckpoint`, `GetLatestLedger`, `GetEvents`, `StoreEvent` per INSERT,
`SaveCheckpoint`), `Abort` for a caught error or a killed process, `CloseLedger`
for the chain. `Runs` is the number of runs that may overlap.

### Policies

`ProtocolAdapters` — what each adapter makes of the chain's responses, which may
be an error, as a sequence of facts with the source records they cite and the
records returned with them; `ask` of each adapter, `reasonComposite` and
`assembleAnswer`.

`PolicyFacts` — a fact's value, the selector table that binds a path of the
language to a fact (`bindFact`), the evaluator's normalization and the zk leaf's,
and `checkFreshness`. An amount is a number of units (1/`Unit`), a decimal is
truncated to 1/`Scale` as the code truncates at six digits.

`PolicyEvaluator` — `compileIntent`, the interpreter and its freshness gate, over
trees. What the parser makes of a program is a parameter (`Analysis`). The
interpreter is a recursive function over the nodes of a statement, the statement
loop one over its positions, so that both can be proved about.

`PolicyLanguage` — the Pratt parser over tokens and what the compiler collects from
its trees: the value of `Analysis` in the runs. Recursive, for TLC only.

`PolicyCircuits` — `buildWitness` with its thresholds, the reference predicates,
the four Circom circuits over a field of order `P` with comparators of limited
width (`Span160`, `Span64`, `Span16`), and the Noir circuits' output over u64.

`PolicyRecipes` — the four recipes as programs and as trees (`ProgramsAssumption`
says that the one is parsed into the other; TLC evaluates it with the parser of
`PolicyLanguage`), and one policy proof from facts to the circuit's bit (`Prove`).

`PolicyRequests` — a caller chooses a recipe or a read, the chain answers the calls
one at one at a time with anything its types allow, errors included, the adapters make
contexts of the answers, each fact has an age of its own (`Ages`), and for a recipe
the private inputs follow. `MCPolicy` gives
the chain and the caller finite choices, and grows expressions beside it.

### Provers

`ProofKit` — `selectBackend`/`resolveBackend`/`assertProvable`, what each backend
returns or throws, the envelope with every field that `verifyLocal` compares or a
checksum covers, and those neither does, the card, `verifyLocal` over envelopes with
any field of another (`Fields`), and, one action per await, `proveGroth16` and
`verifyGroth16Local` with snarkjs' curve: taken when there is one, built when not,
taken away by `terminateCurve` before it waits. `met` is a history variable: who
shared a curve. The routes of the HTTP API fix what a body may ask.

`NoirProver` — `proveBn254`: one action per await (`OpenToml` and `WriteToml` are the
two halves of `writeFile`, `NargoReads` and `NargoWrites` the two ends of `nargo
execute`), `Throw` for a failure or a timeout, `Cleanup` for the `finally`, `Die` for
a killed process and `OrphanWrites` for the `nargo` it leaves running. A call and
its witness are one value. `met` is again who shared the directory.

`ProofRecord` — the abstract specification of a proof's record: absent, enveloped,
`offchain_local`, `stellar_verified`, and last with its transaction; the third step
needs a verification the chain accepted, none is skipped and none undone.

`ProofLifecycle` — the three proof tables, `prove` over a stored capsule,
`verify().local`, `onStellar` with the CLI call split from the transaction it
sends, the verifier contracts with their replaceable key, and cleanup. A call is
made with an envelope of `Posts`, whose id and whose Groth16 proof are the client's
choice: the code compares neither with the other or with the stored envelope.
`asProved` says of a posted envelope, and of a stored row, whether it is what `prove`
returned. `InMemory` chooses the store: PgStore's upsert keeps the fields of a row,
MemoryStore's replaces it, and only the latter keeps the order of a capsule's rows.
A local check ends in `verifyLocal`, with the verdicts `ProofKit` computes: valid or
not for an envelope as returned (`Consistent` is the set of those that are), open
for another, and perhaps none when a Groth16 curve is lost.
`ProofRecord` is instantiated with a refinement mapping: the stage of a record is read
off the envelope's transaction, the card and the envelope, in that order.

### Dashboard

`StatusStore` — `fetchJson` (attempts, timeouts, back-off, the shared session
bootstrap, reads and writes) and `status-store.ts`: poll timer, event stream and
its reconnect timer, staleness watch, browser events, persistence. Time is
counted in watch intervals of two seconds; other timers fire at any time.

`ModelStudio`, `RecordEditors`, `QueryLab`, `AgentPlayground`, `AgentChat`,
`AgentWorkspace`, `AgentBuilder`, `AccessPanel` — one page each (`RecordEditors`
three that are built alike). A handler runs up to its first await in one action
and resumes in another, a render and its effects belong to the step that changed
the state, and the service answers each request at any time, with a result or an
error. A text or a form is the file or record it came from: what the operator
types does not change whose it is. `Dashboard` is the router: a behaviour visits
one page, so the pages are checked in one run and none is left out of `Next`.

`*Proofs` — the theorems of a module, with their proofs. `MC*` — constants for TLC.
Operators named `Mut...` are the plausible bugs each property is tried against
(PROJECT.json `mutants`); no specification uses them.

## Runs

| Run | What it checks | Bounds, and why they are enough |
|---|---|---|
| `roots` | `RootsBindLeaves`, `InclusionProofs` | 3 hashes, zk depth 3. Every pair of sequences of up to 4 leaves (odd levels, duplicates, every permutation); for the proofs every single sequence of up to 7 leaves: an odd node at every level and an empty slot, each leaf replaced by every other |
| `pg_store` | `ProvenanceBeforeCapsule`, `VerifiedIsExact`, `RefusedOnlyForOrder`, `RetentionEnds`, `ImplementsRegistry` | a capsule of two adapters (three facts; a fact with two citations; two facts of one response; two responses that are equal) and a small one, one load that repeats, crashes and cleanup anywhere |
| `memory_store` | `CompleteCapsuleReplays`, `ImplementsRegistry` | three builds (one over the zk capacity), two concurrent loads |
| `ingestion` | `CopiesBoundedByFailures`, `EventuallyIngested` | one run at a time, window 2, page 2, six ledgers with any subset of events, two failures: full, short and empty pages, and pages that are fetched again |
| `ingestion_overlap` | `CheckpointCovers`, `OverlapStillIngests` | two overlapping runs, four ledgers, one failure, empty pages that may come without a cursor |
| `proof_lifecycle` | `RecordsAreOnChain`, `CardUpgradedFirst`, `EnvelopesStayBound`, `LocalRefusalExplained`, `ImplementsRecord` | a Groth16 proof and an inconsistent one of another backend, two overlapping calls that post the envelope of either or the first's proof under the second's id, a key that may be replaced, one crash, MemoryStore (`InMemory`) |
| `noir_prover` | `AloneProvesOwn`, `TomlIsTemporary`, `UndisturbedReturns` | two calls of one recipe, one of another, one of a recipe without a directory, two failures or deaths: a call alone after a killed one, an orphan beside a running call, two overlapping calls |
| `policy` | `ParserRespectsPrecedence`, `ProofAgreesWithEvaluator`, `RefusedWithCause`, `FactsCiteTheirContext`, `AnswersAgree` | every expression of up to 7 tokens over one operator per precedence level (three binary operators, prefixes); every recipe with every answer of its calls, errors included; `Unit` 8 and `Scale` 4, so a decimal is truncated; a field of 1021 elements and comparators of 256, 64 and 8, with values on both sides of each threshold; all facts new, all stale, or the leading five, which for Blend leaves stale facts the policy does not use beside new ones it does |
| `proof_kit` | `VerdictMatchesProof`, `CardsDoNotOverclaim`, `UndisturbedEnds` | two proofs and one verification, three curves; every backend, environment and route; an envelope as returned, or with any one of its thirteen fields taken from the other proof; two proofs of one capsule, of two, and of two recipes |
| `status_store` | `FreshIsRecent`, `WritesApplyOnce`, `StreamInOrder`, `Recovers` | one poll, one write of two attempts' time, two streams, a status change, one trouble (outage, expired cookie, stalled body, offline, reload) after which the page must recover |
| `dashboard` | `OwnText`, `FormsMatchRecords`, `PlansAsApproved`, `OneConversation`, `NeverOlder`, `SentAsOffered`, `GateHolds` | two files, two records, two questions, three sessions, three revisions, two reads of the access state under way: enough for an answer to come after one that was asked later |
| `policy_readme` | *violation* of `SafeIsBelowThreshold` | the Blend recipe without a schema |

What they show, in words:

- **Commitments.** `sourceRoot` and the other sorted roots do not depend on row
  order and bind the set of leaves; they do *not* bind how often the last leaf
  occurs (an odd node is paired with itself). The zk root binds the exact
  sequence, and the sparse construction equals the padded full tree the circuits
  hash.
- **Stores.** A load that verifies is exactly what was built, in PgStore and
  MemoryStore, with cleanup between any two reads. Half-written capsules are
  refused, and age out. A complete, undeleted capsule is refused by PgStore only
  because its rows came back in another order; MemoryStore replays every one.
- **Ingestion.** The checkpoint never runs ahead of the rows, even with
  overlapping runs and kills. Runs that do not overlap lose nothing; overlapping
  ones may move the cursor back, but starve no event the checkpoint keeps in
  scope. An RPC page without events and without a cursor makes the worker start
  over from its window; events in between leave the scope.
- **Proof records.** A card or envelope that names a transaction names one that the
  chain accepted for a call on this proof's id. That it was about *this proof* follows
  only when no accepted call posted another envelope under the id (divergence 23); a
  row of MemoryStore differs from what `prove` returned only after such a call. The
  card is upgraded first, after an `offchain_local` one; nothing downgrades it, not
  even a later call refused because the verifier contract was re-initialised. Two
  overlapping calls may leave the card naming one accepted transaction and the
  envelope the other. A stored envelope is refused by local verification only for an
  evicted capsule, PgStore's row order, a result that its proof contradicts
  (divergence 12) or a copy that is not the one `prove` returned.
- **Policies.** With the schema the recipes declare, the interpreter, the witness
  generator's predicate and the circuit agree on every answer of the chain the
  run enumerates; every refusal has a cause, among them a stale fact the policy does
  not use but whose field it reads, say of another reserve (the gate of
  evaluate.ts:51-55 goes by field); every fact cites a record returned with it. The composite answer is the conjunction of its parts.
- **Finding: threshold** (`policy_readme`). The README and docs/computekit.md:69
  pass the threshold already scaled and no schema. The interpreter then reads it
  as it is meant (820000 out of 1e6) and `normalizeThreshold` scales it again:
  the circuit proves "safe" at every utilization, where the interpreter says
  unsafe. `proveGroth16` does not compare its first public signal with the revealed
  output; `verifyLocal` does, and rejects the envelope afterwards.
- **Provers.** A verification passes for what a backend returned, and for an envelope
  with a field of another exactly when `verifyLocal` compares that field with
  nothing in the envelope (`Unread`): of a Groth16 one `sourceRoot`,
  `semanticFactsRoot`, `adapterSetHash`, `proofBytes` (it checks the second copy of
  the proof) and, where the compiled intent does not fix it, `contextRoot`; of a
  checksummed one the circuit artifacts, which it does not have. Every other field,
  the zk roots, hashes, revealed values, signals, proof and key, is bound. A Noir call that
  shares its directory with nobody proves its own witness, whatever failed or
  died before it. A Groth16 call whose curve nobody else shares ends; one whose
  curve is terminated by another may not.
- **Dashboard.** A live status is recent and in order, writes are never repeated,
  and the page recovers from everything modelled. Each page property holds up to
  the exceptions its history variable names, which are the code's (next section).

Deadlock is not checked in these runs: builds, calls, pages and the bounded chain
really come to rest, and nothing needs to follow.

## Divergences seen

Met while modelling, and reproducible by adding the definition named to a cfg as
an INVARIANT or PROPERTY; a run of their own is kept for the first only.

1. The pre-scaled threshold (`policy_readme`, `SafeIsBelowThreshold`).
2. `PgCapsuleStore!CompleteCapsuleReplays` fails: `getCapsuleFacts` has no ORDER BY
   (pg.ts:214) while the zk root is a sequence, against docs/architecture.md:51.
3. `ProofLifecycle!RejectedMeansRefused` fails: `onStellar` answers `rejected` after
   120 s although the contract accepts the transaction (the "iff" of
   sdk-ts/src/compute.ts:168).
4. `ProofLifecycle!CommittedMeansOnChain` fails: for other backends the answer is
   `committed_on_stellar` with no transaction sent (compute.ts:173, 238).
5. `NoirProver!EnvelopeProvesOwn` fails: overlapping requests of one recipe share
   `Prover.toml` and `target/witness.gz`, and an envelope may carry the proof of
   the other's witness beside its own public inputs (bn254.ts:37, 82). Also,
   `witness.gz` holds the private thresholds and is never removed (bn254.ts:39).
6. `NoirProver!EveryTemplateProves` fails: noir.ts:38 names `aqua_route_policy`; the
   directory is `circuits/aquarius_route_policy`.
7. `MCPolicy!NoirMirrorsReference` fails: `/` on Noir's Field is a field inverse, not
   a truncating division, and u64 casts truncate, against witness.ts:9-10 ("mirrors
   each Noir circuit exactly").
8. Without a path SDEX returns `path.available` = false but no estimated amount, so
   the policies that begin with `pathAvailable &&` (docs/proofs.md:31-32) are not
   decided unsafe but refused for the missing fact, as bindings.ts:12-13 has it.
9. `SdexAdapter.createContext` serves a market or a path, not both;
   scripts/prove-sdex-live-groth16.ts:10-12 asks for both.
10. Aquarius amounts are stroops, SDEX amounts decimals; the composite compares
    both with one `minReceive`. Amounts below one unit truncate to 0.
11. `reasonComposite` ignores the oracle and the health factor; a position without
    debt has health "Infinity", which the policy cannot decide. The unified `ask`
    hands on no warnings.
12. The recipe's circuit is chosen by the intent's name only: a program under a
    recipe's name that is not the recipe's is proved as the recipe (and refused by
    `verifyLocal` where the two differ). A `prebuilt` proof with another name never
    verifies. The card of a proof `verifyLocal` rejects may say `verified`.
13. router.ts:48 calls bn254-noir the default; the code's default is bn254-groth16.
14. `mapStatus` maps a negative Blend status to `active`.
15. Model studio: a failed load leaves the previous file's text under the new path
    and Save writes it there; a delete or an approval that ends after the operator
    moved on does the same; Create overwrites an existing path; Apply rewrites files
    while the editor says "Saved"; the loading flag stays set when the selection
    becomes empty during a load. (`astray`.)
16. Record editors: a list under way during the first create clears the selection,
    so a second Save creates the record again; a reload refills the form over unsaved
    edits; answers for a record the operator left are shown under the next (`late`).
17. Playground: Refresh Context turns auto-run on while the switch says manual
    (`refreshed`); asking while a plan runs mixes the rows of two plans (`overlapped`).
18. Chat: Ctrl/Cmd+Enter sends while the button is disabled: two sessions are opened
    (`hurried`).
19. Workspace: switching tabs during a write or a refresh may show the older record,
    and Save then writes its fields back (`crossed`). The model keeps the page's state
    over a switch; where the router remounts the page there are fewer behaviours.
20. Query lab: `segments` are not validated, nor an order written as pairs
    (`[["Sales.count", "desc"]]`: query/page.tsx:180-189 looks for strings and for
    objects with an id or a member); an older metadata load may replace a newer. New agent: unticking a cube keeps its members in what is sent (`unticked`).
21. Access panel: each 20 s poll reopens the panel a demo visitor dismissed and resets
    its step; a poll answered after the login reopens it once.
22. Status: an expired session cookie gives 401 until the page is reloaded; a body
    that stalls has no timeout; a full local storage makes every poll count as failed;
    a slow poll may take the snapshot back behind the stream.
23. `onStellar` sends `envelope.groth16`, upgrades the card of `envelope.proofId` and
    saves the envelope as posted (compute.ts:191-224; api/index.ts:244-247 hands any
    body on), and compares none of them: a card may become `stellar_verified` by the
    transaction of another proof, and MemoryStore's row be replaced (memory.ts:89-90).
    `ProofLifecycle!RecordsAreOnChain` fails without its `Replaced(p)`.
24. `verifyLocal` compares neither the roots of a Groth16 envelope that are no public
    signal nor its `proofBytes` (verify.ts:33-110); `ProofKit!VerdictMatchesProof` fails
    with any of them taken out of `Unread`.
25. Under a maximum age a policy is refused for a stale fact it does not use, if its
    field is one the program reads (evaluate.ts:51-55): another reserve's utilization.

## Fairness

- `PgCapsuleStore!FairSpec`: weak fairness of the cleanup DELETE only. The worker
  runs it every hour (`every(3600, capsuleCleanupWorker)`). Builds and loads may
  stop anywhere.
- `EventIngestion!FairSpec`: weak fairness of each run's `Step`. `setInterval`
  starts runs for ever and a pending request or query settles. The chain need
  not advance, and failures are bounded by `MaxFailures`, which stands for
  "eventually a run succeeds".
- `NoirProver!FairSpec`: weak fairness of a running call's own steps. `execFile` has
  timeouts of 120 s and 300 s, and the file system answers.
- `ProofKit!FairSpec`: weak fairness of a call's own steps: snarkjs' promises settle
  unless their curve is terminated under them.
- `StatusStore!StoreFairSpec`: timers fire, handlers run, requests end by their timeouts.
  Nothing is assumed of the server, the network, the user or the clock: `Recovers`
  says what follows once these are quiet.
- `Dashboard` states no fairness and no liveness: an operator may leave at any time.

## Theorems

All in the `*Proofs` modules, for arbitrary constants that satisfy the named
assumptions (which TLC also evaluates in the runs).

**PgCapsuleStoreProofs** assumes `PartsAssumption`, `FactsFinite`, `CitesAssumption`,
`RawHashAssumption` (raw hashes are naturals, which stand for their string order) and
`ZkDepthAssumption`: any capsules, adapters, facts, citations, hashes, readers. The
inductive invariant adds to the types: the loop positions stay in their lists
(`LoopInv`); per build, the rows its program counter says are written are written
(`BuildInv`) — without it `SaveCapsule` could publish a capsule with missing rows;
and links imply a present capsule. It gives `TypeCorrect`, `ProvenanceFirst`,
`LinksHaveCapsules`. `VerifiedLoadsAreExact` follows because a verified load has
the semantic leaves and the zk leaves of the build. `TablesImplementRegistry`
maps each step: the capsule INSERT to `Publish`, the DELETE to `Retire`, the
first read to `Request`, the last to `Answer`, all others to a stutter.
`OnlyOrderRefuses` (`RefusedOnlyForOrder`: a complete, undeleted capsule is refused
only because its rows came back in another order) needs `LoadedInv` on top: links and
citations are the capsule's own (`LinksOwn`); a build in or past a loop of
`saveCapsule` has linked what the loop ran over so far, unless the capsule was deleted since
(`LinkProgress`); and a load of a complete capsule has read all of it so far
(`CompleteLoad`). Then the loaded rows are a permutation of the built ones, and every
sorted root agrees by `RootIgnoresOrder`: what is left to differ is the zk sequence.

**MemoryCapsuleStoreProofs** makes the same assumptions for the in-process store.
Its inductive invariant says per build what is saved at each of its steps
(`BuildInv`: nothing here refuses a capsule whose facts are missing, so the order
of the calls must carry it) and per load why each answer was given (`LoadInv`: a
refusal needs a deletion between two reads). It gives `CompleteReplays` and, as for
PgStore, the refinement `MapsImplementRegistry`.

**CapsuleProofs** assumes that the depth is a natural (`ZkDepthAssumption`) and that
hashes are positive naturals (`HashesAssumption`: 0 is the empty slot).

- *Induction* is stated for a *set* of counterexamples (`Minimum`,
  `NoCounterexample`), from the library's theorem that proper inclusion of finite
  sets is well-founded. With it, that a recursive function exists and satisfies its
  equation is proved for each of the ones used (`FixedTree`, `EmptySubtree`,
  `Capacity`, `Levels`, `Halves`, both climbs, `StoredRows`, `FlattenSeq`).
- *The zk tree.* `Node` extends each level of the sparse tree by the empty subtrees;
  `NodeStep` says that every node, stored or not, is the hash of its two children.
  Walking down from equal roots gives `ZkRootBinds` (a root fixes the number, the
  order and the value of the leaves), walking down along a verification gives
  `ZkProofSound` (whatever siblings and bits a proof carries), and the full tree
  computes the same nodes (`SparseIsDense`).
- *The sorted tree.* Sorting goes by rank (`RankProperties`, `SortedProperties`): two
  sequences with the same hashes in another order sort alike (`SortedPermuted`, by a
  pigeonhole on the ranks), so `RootIgnoresOrder`. `SortedTree` says of every level
  how long it is and that each node is the hash of two nodes below, the last of an odd
  level with itself. From equal roots the *sets* of nodes agree level by level
  (`LevelsAgree`), though the lengths may differ; at the leaves this is `RootBindsSet`.
  A tree cannot be told from one of another height by its shape but by its leaves:
  a leaf hash is no pair of nodes.
- *`RootsBind`, `ProofsInclude`* are the two invariants of the run `roots`, for all
  hashes, depths and bounds. `LeavesInv` says that the leaves are sequences of
  hashes. Equal bags of leaves have equal sorted roots (`BagRoot`), equal sorted roots
  have equal sets of leaves, and a zk root fixes a sequence that fits (`FittingRoot`). Completeness of a proof follows a leaf up its path (`SortedProof`,
  `SlotProof`: the siblings taken are the ones that climb to the root); that no other
  leaf verifies in its place follows because a climb is injective in its leaf
  (`OneLeafPerPath`, `OneLeafPerSlot`).

**EventIngestionProofs** assumes `Window`, `PageSize`, `FirstHead` as declared, and
any number of overlapping runs. `CheckpointCovers` alone is not inductive: a run
carries a cursor it will save. `RunInv` says that a run's start is covered and
that the cursor it will save has only stored events and the rest of its page
before it; it is preserved because a page has no holes (`PageIsPrefix`) and is
empty only when nothing is left (`PageNotEmpty`). `CopiesExplained` assumes in
addition that runs do not overlap and that every page comes with a cursor;
`CopyInv` says where a run may still store an event, and that no copy there is
unexplained by a failure.

**NoirProverProofs** assumes `DirAssumption`, `TextAssumption` and
`FailureAssumption`: any calls, recipes and directories. `AloneProvesOwn` is not
inductive: `AloneInv` adds what the files hold at each point of a call that met
nobody, which needs `MetInv` (two calls inside one directory have met) and
`SolvedInv`. `FilesInv` (a witness stays in the directory of its recipe, and a call
past nargo finds one) gives `EnvelopesVerify`; `TomlInv` and `CauseInv` give the
other two.

**ProofKitProofs**, about verification, assumes `CurveAssumption`, `ActorAssumption`,
`IntentAssumption` and `AbsentAssumption` (an intent is one of `compileIntent`, no
intent's signals are the missing ones): any requests, intents, proofs, checks and
curves. `KitInv` adds to the types where a job's envelope comes from (`JobsMade`), who
may share a curve (`CurvesKept`: two calls inside snarkjs at once have met, the curve
of a call that met nobody lives) and what a verification looks at (`ChecksLook`: a
returned envelope, with at most one of all its fields taken from another). It gives `KitTypes`,
`CardsAreModest` (`CardsDoNotOverclaim`) and, with a case for each backend and each
field that may differ (`SignedVerdict`, `Groth16Verdict`), `VerdictsMatch`
(`VerdictMatchesProof`): the fields `verifyLocal` leaves alone are named in the
statement, every other one is proved bound.
About the proof tables the same module assumes `ProofsAssumption`,
`CallsAssumption`, `PostsAssumption` (any envelopes may be posted; one that is as
`prove` returned it carries its own proof) and `StoreAssumption` (either store), any
number of crashes. `CallInv` (a call past the CLI saw its transaction accepted, one
past the first write upgraded the card), `ProveInv` (rows not yet written are absent), `RecordInv` and `LocalInv` together are inductive
(`LifecycleTypes` and they) and give `DurableRecordsAreTrue`, `CardBeforeEnvelope`,
`EnvelopesBound`, `RefusalsExplained` and the action property `VerifiedIsFinal`.
`TablesImplementRecord` maps each step: `ExecuteTx` to `Accept`, when its id is
known and was not accepted before, the INSERTs of `prove` to `StoreEnvelope` and `StoreCard`, the two
writes of `onStellar` to `Upgrade` and `NameTx`, and every other step, a second call's
writes over the same rows among them, to a stutter.

**PolicyProofs** assumes `FactsAssumption` and `SpanAssumption` (any unit, scale, field
order and comparator width for which twice a span fits the field),
`ProgramsAssumption` and `DecisionAssumption` (the recipes' trees, evaluated by TLC),
`AnswersAssumption` (the chain answers with values of the calls' types: pools with any
reserves, any routes, books and paths, any call failing), and, about amounts,
`PrivatesAssumption`, `AgesAssumption` and `RangeAssumption`: callers' amounts are not
negative, and the amounts and ratios, with their products, fit the comparators. The
code's comparators have 160 bits for amounts of at most 128, so this is what it rests
on too; `MaxAmount` and `MaxRatio` are any numbers for which it holds. It states the
policy properties for all requests:

- *The circuits.* `ComparatorCompares` shows that circomlib's `LessThan` compares
  numbers below its span, `DivisionFree` that clearing a denominator keeps a comparison
  with a truncated quotient. From these each `*CircuitIsPredicate` follows for inputs in
  range (`InRange` says which), and `CircuitIsPredicate` for all recipes.
  `NumericLeafIsPredicateInput` says that the zk leaf of a numeric fact is the value
  the evaluator computes with, reduced to the field ("This guarantees the
  Merkle-committed leaf value equals the predicate input", zk-hash.ts 118).
- *Requests.* `RequestInv` says that the contexts are the adapters' answers to a prefix
  of the calls, the private inputs are the caller's, and a proof is that of the request
  over the aged facts. It is inductive and carries everything below.
- `FactsCite` (`FactsCiteTheirContext`) goes adapter by adapter: the facts of each part
  of a context cite within the records handed to them (`EntityCited`), and joining,
  conditional parts and flattening keep that (`JoinCited`, `WhenCited`, `FlattenCited`).
- *What a context says.* `Said(facts, path)` is the set of values a list of facts has
  for a path of the language. For each adapter it is computed from the answer
  (`SaidPoolContext`, `SaidSwap`, `SaidPath`, `SaidBook`), is in the path's range
  (`PoolRange`, `SwapRange`, ...), and has at most one value (`OneAnswer`), so that which of
  several facts `bindFact` takes does not matter.
- *The interpreter* on the recipes: a statement's nodes are ranked by height, which
  replaces the induction over terms (`Ranked`); with the values of its leaves a tree
  decides the recipe's condition (`BlendDecides`, ...), which for values in range is the
  reference predicate on the witness's numbers (`RecipeMeets`).
- *One proof.* `ProveStages` takes `proveComputeIntent` apart; `PolicyProved` says that
  a proof refuses for a fact that is missing or is no number, or for one of its fields
  that is too old, whichever reserve or route it is about, and otherwise
  shows the predicate three times: interpreted, recomputed and from the circuit.
- `ProofsAgree` (`ProofAgreesWithEvaluator`) and `RefusalsHaveCauses`
  (`RefusedWithCause`) follow, for requests that are `Typed`: the caller gives the
  schema, or the recipe is not Blend's. Without it the two theorems are false, by the
  finding of `policy_readme`: the evaluator and the witness read the Blend threshold
  differently. The three other recipes are proved without the schema as well
  (`ProvedWithoutSchema`).
- *What a user is answered.* `Stated(facts, field)` is the set of values a list of facts
  has for a field, and `Confidences` that of its confidences; both are computed for a
  pool's context (`PoolContextShows`: the utilizations of its reserves, and a low
  confidence exactly with a stale oracle or an unknown backstop), a path (`PathShows`)
  and a swap (`SwapEstimates`: no route, or one hop and at most one slippage). The
  decisions of `ask` are conditions on them (`BlendAnswer`, `AquariusAnswer`,
  `CompositeAnswer`).
- `AnswersAreConsistent` (`AnswersAgree`): the composite answer follows from those, for
  every request. For Blend, `BlendNumbers` says which numbers the proof compares, and
  `OneRatio` that on whole amounts its division of scaled integers and the pool's own
  utilization are on the same side of the threshold; that part is for `Typed` requests.

**DashboardProofs** assumes `StudioAssumption` and `EditorAssumption` (generated files
are files, null is none; system records are records) and for the status store
`CallAssumption`, `StreamAssumption`, `StaleAssumption`: any files, records, sessions,
requests, polls, writes, streams, retry counts and thresholds. A step of `Dashboard`
is a step of one page (`PagesStep`), so each page has an invariant of its own, and
each names the *exception* the code leaves open as a history variable:

| Theorem | Inductive invariant, and what it adds |
|---|---|
| `SavesOwnText` | `StudioInv`: the load that is heard is that of the selected file, and until it is done the editor is closed |
| `FormsFollowSelection` | `ScreenInv`, `TaskInv`: the form is that of the selected record whenever the list has it; a save under way carries its own record's form |
| `PlansNeedApproval` | `PlayInv`: a question and a run under way together are `overlapped`, otherwise a run is of the plan shown |
| `MessagesShareSession` | `ChatInv`: without a session at most one handler is opening one, with one every handler works in it |
| `PageNeverGoesBack` | `WorkInv`: while no tab was entered at a busy moment there is at most one refresh, and what it read is not older than the last answered write |
| `OffersAreKept` | `LabInv`, `BuildInv`: a query sent was found without errors against the metadata it was sent with (`LabNames`: so every member it names is in it, pairs of an order and segments excepted); tools and members ticked are those of the type and the cubes |
| `PanelStays` | `GateHolds` itself |
| `StoreTypes`, `LiveIsRecent`, `MessagesInOrder`, `WrittenOnce` | `StoreInv`: only the store's own source is connecting or open (`OneStream`); what a stream has yet to deliver is in the server's order, no older than what was delivered and no newer than the server (`FeedsInOrder`); while the snapshot is live its two ages agree, and a passed threshold means the watch is about to look (`AgesAgree`); a write is tried once and the server has not carried it out before (`TriedOnce`) |

**Only model-checked**, and why:

- The liveness properties (`RetentionEnds`, `EventuallyIngested`, `OverlapStillIngests`,
  `UndisturbedReturns`, `UndisturbedEnds`, `Recovers`) and what rests on fairness.
- `ParserRespectsPrecedence`, about the parser, which is recursive over tokens: the
  prover has no induction that could say what it returns for every input.
- The violation of `policy_readme`, which is a counterexample.

## Abstractions

- Ids (`randomUUID` slices) are distinct and hashes injective. The code's are 32
  random bits, and an INSERT that collides does nothing.
- Nonce data (timestamps, endpoints, raw responses) is left out; `created_at` is a
  counter that each capsule insert advances.
- A ledger has at most one event of the pool, so a paging token is a ledger.
- A Groth16 proof is its public signals, and verifies when they are those of its
  circuit; snarkjs, nargo and bb are black boxes.
- A token is the string the tokenizer cuts out; a fact path is one token.
- The transaction hash is always parsed from the CLI's output.
- One `ContextModule.build` persists its adapters one after the other, as the
  code awaits them; several builds interleave.
- Filters of a typed query are nested at most three deep (`QueryLab!Under`).
- A new curve is one that no worker runs and no call refers to (`ProofKit!Unused`), and
  a finite stock of them is a bound: a call waits when none is left, which `Curves` is
  large enough to avoid.
- Dashboard: the API token is configured; a login's answer and the first read of
  the access state are taken on arrival; what the operator types is not content but
  the fact that it changed.

## Not modelled

- `apps/proof-worker`: its module-level `async function process()` hides Node's
  `process`, so `process.env.SEFI_NETWORK` on line 13 is a property read of
  `undefined` and the module throws while it loads. Its queue would also repeat job
  ids (`job_${queue.length + 1}` after a shift).
- The verifier registry contract and its client: three maps and a routed call, used
  by two operator scripts and by nothing else.
- The dashboard's lists and charts (indexing, agent list, topics, derived runs):
  they load, show and reload. The demo agent, the operator scripts and the other
  routes and tools of the API map one request onto one call.
- The Merkle gadget's constraints and the pairing: arithmetic, taken as what they
  compute. PostgreSQL, Cube, the RPC and the `stellar` CLI are external and
  modelled from how the code uses them.
- Liveness of the dashboard's pages, and `prove` over a freshly built context
  composed with the store's tables.

## Plan

What remains, the most useful first: `prove` over a freshly built context composed with
`PgCapsuleStore`; the verifier registry.
