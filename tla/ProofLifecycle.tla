--------------------------- MODULE ProofLifecycle ---------------------------
(***************************************************************************)
(* From a proof request to a proof card that says "stellar_verified":      *)
(* ComputeModule.prove, VerifyModule.local, VerifyModule.onStellar and     *)
(* onStellarGroth16 of packages/sdk-ts/src/compute.ts, the rows of         *)
(* compute_intents, proof_envelopes and proof_cards they write through     *)
(* PgStore, and the verifier contract they invoke.  Every await is a point *)
(* where another request, the cleanup worker, the chain or a crash         *)
(* intervenes.                                                             *)
(*                                                                         *)
(* Proof and intent ids are random and assumed distinct, so a proof stands *)
(* for its intent too.  Proving is a black box: the proof verifies under   *)
(* the key of its circuit and no other.  Not every envelope prove returned *)
(* passes verifyLocal: Consistent is the set of those that do (see         *)
(* VerdictMatchesProof of ProofKit), and a Groth16 check is lost when      *)
(* another call ends its curve.  Requests post an envelope of their own:   *)
(* onStellar compares nothing in it with the store.  A local check names   *)
(* no other intent or capsule than the stored ones.                        *)
(***************************************************************************)
EXTENDS Naturals

CONSTANTS
  Proofs,        \* one prove(intent) each
  Groth16,       \* those with the bn254-groth16 backend
  Capsules,
  CapsuleOf,     \* CapsuleOf[p]: the capsule intent p names
  Consistent,    \* those whose envelope, as prove returned it, verifyLocal accepts
  Calls,         \* onStellar requests, one attempt each
  Contract,      \* Contract[c]: the verifier contract call c invokes
  Locals,        \* clients that call verify().local, one call after another
  Posts,         \* the envelopes clients post
  Verifiers,
  Keys,          \* verification keys, one per circuit
  CircuitKey,    \* CircuitKey[p]: the key of the circuit of p
  NoKey,
  NoCall,
  NoProof,
  InMemory,      \* MemoryStore, else PgStore
  MaxCrashes     \* bound: requests that throw or die

ASSUME ProofsAssumption ==
  /\ Groth16 \subseteq Proofs /\ Consistent \subseteq Proofs /\ NoProof \notin Proofs
  /\ CapsuleOf \in [Proofs -> Capsules]
  /\ CircuitKey \in [Proofs -> Keys]
  /\ NoKey \notin Keys
ASSUME CallsAssumption ==
  /\ Contract \in [Calls -> Verifiers]
  /\ NoCall \notin Calls

\* An envelope names a proof and carries the Groth16 proof of that one, of
\* another or none.  asProved: it is the one prove returned, in every field.
Envelope == [names : Proofs \cup {NoProof}, sends : Groth16 \cup {NoProof}, asProved : BOOLEAN]

ASSUME PostsAssumption ==
  /\ Posts \subseteq Envelope
  /\ \A e \in Posts : e.asProved =>
       /\ e.names \in Proofs
       /\ e.sends = IF e.names \in Groth16 THEN e.names ELSE NoProof
ASSUME StoreAssumption == InMemory \in BOOLEAN
ASSUME BoundAssumption    == MaxCrashes \in Nat

VARIABLES
  capsules,   \* context_capsules
  intents,    \* compute_intents
  envelopes,  \* proof_envelopes: by is the call whose transaction it records,
              \* asProved whether the rest is what prove returned
  card,       \* proof_cards: by is the call that made it stellar_verified
  vkey,       \* vkey[v]: the key stored in verifier contract v
  tx,         \* tx[c]: the transaction call c sends
  prover,     \* where prove(p) is
  call,       \* where call c is, and what it returned
  posted,     \* posted[c]: the envelope of call c
  local,      \* local[v]: where v's verify().local is, or what it returned, the
              \* proof its envelope names, and which copy of the envelope it is
  crashes

store == <<capsules, intents, envelopes, card>>
chain == <<vkey, tx>>
calls == <<call, posted>>
vars  == <<store, chain, prover, calls, local, crashes>>

-----------------------------------------------------------------------------
(* The tables.                                                             *)

NoEnvelope == [stored |-> FALSE, linked |-> FALSE, by |-> NoCall, asProved |-> TRUE]
NoCard     == [stored |-> FALSE, by |-> NoCall]

MutUpsertEnvelope(row, linked, by, asProved) ==
  [stored |-> TRUE, linked |-> linked, by |-> by, asProved |-> asProved]
\* saveProofEnvelope: neither store touches the compute intent of a row it has,
\* PgStore nothing but the status, the verifier and the transaction.
UpsertEnvelope(row, linked, by, asProved) ==
  [stored   |-> TRUE,
   linked   |-> IF row.stored THEN row.linked ELSE linked,
   by       |-> by,
   asProved |-> IF row.stored /\ ~InMemory THEN row.asProved ELSE asProved]

StellarVerified(p) == card[p].stored /\ card[p].by # NoCall

\* deleteCapsulesOlderThan; the other tables do not reference context_capsules.
Cleanup ==
  /\ capsules # {}
  /\ capsules' \in (SUBSET capsules) \ {capsules}
  /\ UNCHANGED <<intents, envelopes, card, chain, prover, calls, local, crashes>>

\* getCapsule ...
CapsuleFound(p) == CapsuleOf[p] \in capsules

MutPartsVerdicts(p) == IF CapsuleFound(p) THEN BOOLEAN ELSE {FALSE}
\* ... and the verdict of verifyCapsule over the parts read after it, which
\* PgStore may return in another order.
PartsVerdicts(p) == IF CapsuleFound(p) THEN {TRUE} \cup {InMemory} ELSE {FALSE}

-----------------------------------------------------------------------------
(* prove(p) over a stored capsule.                                         *)

ProverGoto(p, from, to) == prover[p] = from /\ prover' = [prover EXCEPT ![p] = to]

GetCapsule(p) ==
  /\ ProverGoto(p, "capsule", IF CapsuleFound(p) THEN "parts" ELSE "failed")
  /\ UNCHANGED <<store, chain, calls, local, crashes>>

ReadParts(p) ==
  /\ \E ok \in PartsVerdicts(p) : ProverGoto(p, "parts", IF ok THEN "proving" ELSE "failed")
  /\ UNCHANGED <<store, chain, calls, local, crashes>>

BackendProves(p) ==
  /\ ProverGoto(p, "proving", "saveIntent")
  /\ UNCHANGED <<store, chain, calls, local, crashes>>

SaveIntent(p) ==
  /\ ProverGoto(p, "saveIntent", "saveEnvelope")
  /\ intents' = intents \cup {p}
  /\ UNCHANGED <<capsules, envelopes, card, chain, calls, local, crashes>>

SaveEnvelope(p) ==
  /\ ProverGoto(p, "saveEnvelope", "saveCard")
  /\ envelopes' = [envelopes EXCEPT ![p] = UpsertEnvelope(envelopes[p], TRUE, NoCall, TRUE)]
  /\ UNCHANGED <<capsules, intents, card, chain, calls, local, crashes>>

SaveCard(p) ==
  /\ ProverGoto(p, "saveCard", "returned")
  /\ card' = [card EXCEPT ![p] = [stored |-> TRUE, by |-> NoCall]]
  /\ UNCHANGED <<capsules, intents, envelopes, chain, calls, local, crashes>>

\* An await throws, or the process dies.
AbortProve(p) ==
  /\ prover[p] \notin {"returned", "failed"}
  /\ crashes < MaxCrashes
  /\ crashes' = crashes + 1
  /\ prover' = [prover EXCEPT ![p] = "failed"]
  /\ UNCHANGED <<store, chain, calls, local>>

-----------------------------------------------------------------------------
(* onStellar(c), for an envelope the client posts: the proof it names and   *)
(* the proof it carries are in the store, or unknown to it.                  *)

Known == {p \in Proofs : envelopes[p].stored} \cup {NoProof}

Post(c, e, pc, verdict) ==
  /\ call[c].pc = "idle" /\ e.names \in Known /\ e.sends \in Known
  /\ posted' = [posted EXCEPT ![c] = e]
  /\ call' = [call EXCEPT ![c] = [pc |-> pc, verdict |-> verdict]]
  /\ UNCHANGED <<store, chain, prover, local, crashes>>

\* Without a Groth16 proof nothing is sent; the verdict depends on whether a
\* registry contract is configured.  So does Groth16's on a verifier contract.
OnStellarOffchain(c) ==
  \E e \in Posts :
    \E verdict \in {"not_configured"} \cup
         IF e.sends = NoProof THEN {"committed_on_stellar"} ELSE {} :
      Post(c, e, "done", verdict)

OnStellarGroth16(c) ==
  \E e \in Posts : e.sends # NoProof /\ Post(c, e, "invoked", "none")

CallGoto(c, from, pc, verdict) ==
  /\ call[c].pc = from
  /\ call' = [call EXCEPT ![c] = [pc |-> pc, verdict |-> verdict]]
  /\ UNCHANGED posted

\* The CLI signs the invocation of verify_proof and sends it ...
SendTx(c) ==
  /\ call[c].pc = "invoked" /\ tx[c] = "none"
  /\ tx' = [tx EXCEPT ![c] = "sent"]
  /\ UNCHANGED <<store, vkey, prover, calls, local, crashes>>

\* ... and the ledger runs it, whether the CLI still waits or not.  An
\* uninitialised verifier panics.
PairingHolds(c) == vkey[Contract[c]] = CircuitKey[posted[c].sends]

ExecuteTx(c) ==
  /\ tx[c] = "sent"
  /\ tx' = [tx EXCEPT ![c] = IF PairingHolds(c) THEN "accepted" ELSE "refused"]
  /\ UNCHANGED <<store, vkey, prover, calls, local, crashes>>

\* init of a verifier contract: nothing stops a second call.
InitVerifier(v) ==
  /\ \E k \in Keys : vkey' = [vkey EXCEPT ![v] = k]
  /\ UNCHANGED <<store, tx, prover, calls, local, crashes>>

MutCliTrue(c) == tx[c] \in {"accepted", "sent"}
\* stdout ends with "true".
CliTrue(c) == tx[c] = "accepted"

CliReturnsTrue(c) ==
  /\ CliTrue(c)
  /\ CallGoto(c, "invoked", "verified", "none")
  /\ UNCHANGED <<store, chain, prover, local, crashes>>

MutCliRejects(c) ==
  /\ CallGoto(c, "invoked", "done", "rejected")
  /\ card' = [card EXCEPT ![posted[c].names] = [@ EXCEPT !.by = NoCall]]
  /\ UNCHANGED <<capsules, intents, envelopes, chain, prover, local, crashes>>

\* Anything else on stdout, a CLI error, or 120 s without an answer.
CliRejects(c) ==
  /\ CallGoto(c, "invoked", "done", "rejected")
  /\ UNCHANGED <<store, chain, prover, local, crashes>>

\* getProofCard of the proof the envelope names, which is not compared with the
\* one it carried; without a card the verdict is returned and nothing recorded.
ReadCard(c) ==
  /\ IF posted[c].names \in Proofs /\ card[posted[c].names].stored
     THEN CallGoto(c, "verified", "hasCard", "none")
     ELSE CallGoto(c, "verified", "done", "stellar_verified")
  /\ UNCHANGED <<store, chain, prover, local, crashes>>

MutStellarCard(c) == [stored |-> TRUE, by |-> NoCall]
StellarCard(c)    == [stored |-> TRUE, by |-> c]

SaveStellarCard(c) ==
  /\ CallGoto(c, "hasCard", "cardSaved", "none")
  /\ card' = [card EXCEPT ![posted[c].names] = StellarCard(c)]
  /\ UNCHANGED <<capsules, intents, envelopes, chain, prover, local, crashes>>

\* saveProofEnvelope of the envelope posted, without an intent id.
SaveStellarEnvelope(c) ==
  /\ CallGoto(c, "cardSaved", "done", "stellar_verified")
  /\ envelopes' = [envelopes EXCEPT ![posted[c].names] =
                     UpsertEnvelope(@, FALSE, c, posted[c].asProved)]
  /\ UNCHANGED <<capsules, intents, card, chain, prover, local, crashes>>

AbortCall(c) ==
  /\ call[c].pc \notin {"idle", "done"}
  /\ crashes < MaxCrashes
  /\ crashes' = crashes + 1
  /\ call' = [call EXCEPT ![c] = [pc |-> "done", verdict |-> "lost"]]
  /\ UNCHANGED <<store, chain, prover, posted, local>>

-----------------------------------------------------------------------------
(* verify().local of an envelope that names local[v].of.                   *)

LocalIdle == {"idle", "valid", "invalid", "interrupted", "unbound"}

LocalGoto(v, from, to) ==
  /\ local[v].pc = from
  /\ local' = [local EXCEPT ![v] = [@ EXCEPT !.pc = to]]
  /\ UNCHANGED <<store, chain, prover, calls, crashes>>

\* The envelope is read from the store (getProofEnvelope) or posted.
RowCopy(p) == IF envelopes[p].asProved THEN "proved" ELSE "overwritten"

LocalGetEnvelope(v) ==
  /\ local[v].pc \in LocalIdle
  /\ \E p \in Proofs :
       /\ envelopes[p].stored
       /\ \E copy \in {RowCopy(p), "proved", "posted"} :
            local' = [local EXCEPT ![v] = [of |-> p, pc |-> "intent", copy |-> copy]]
  /\ UNCHANGED <<store, chain, prover, calls, crashes>>

\* getComputeIntentByProof.
Bound(p) == envelopes[p].linked /\ p \in intents

FindIntent(v) ==
  LocalGoto(v, "intent", IF Bound(local[v].of) THEN "capsule" ELSE "unbound")

\* A reason to refuse is kept and the checks go on.
LocalGetCapsule(v) ==
  LocalGoto(v, "capsule", IF CapsuleFound(local[v].of) THEN "parts" ELSE "refusing")

LocalReadParts(v) ==
  /\ local[v].pc = "parts"
  /\ \E ok \in PartsVerdicts(local[v].of) :
       LocalGoto(v, "parts", IF ok THEN "binding" ELSE "refusing")

\* verifyLocal(envelope, compiled): what it says of the envelope as prove
\* returned it, anything of another one, and a Groth16 check may be lost.
EnvelopeVerdicts(p, copy) ==
  IF copy = "proved"
  THEN {IF p \in Consistent THEN "valid" ELSE "invalid"}
       \cup IF p \in Groth16 THEN {"interrupted"} ELSE {}
  ELSE {"valid", "invalid", "interrupted"}

LocalVerifyEnvelope(v) ==
  \/ LocalGoto(v, "refusing", "invalid")
  \/ \E verdict \in EnvelopeVerdicts(local[v].of, local[v].copy) :
       LocalGoto(v, "binding", verdict)

-----------------------------------------------------------------------------

LifecycleInit ==
  /\ capsules = Capsules /\ intents = {}
  /\ envelopes = [p \in Proofs |-> NoEnvelope]
  /\ card = [p \in Proofs |-> NoCard]
  /\ vkey = [v \in Verifiers |-> NoKey]
  /\ tx = [c \in Calls |-> "none"]
  /\ prover = [p \in Proofs |-> "capsule"]
  /\ call = [c \in Calls |-> [pc |-> "idle", verdict |-> "none"]]
  /\ posted = [c \in Calls |-> [names |-> NoProof, sends |-> NoProof, asProved |-> FALSE]]
  /\ local = [v \in Locals |-> [of |-> NoProof, pc |-> "idle", copy |-> "proved"]]
  /\ crashes = 0

ProveStep(p) ==
  \/ GetCapsule(p) \/ ReadParts(p) \/ BackendProves(p)
  \/ SaveIntent(p) \/ SaveEnvelope(p) \/ SaveCard(p)

\* What a call in progress does next.
VerifyStep(c) ==
  \/ CliReturnsTrue(c) \/ CliRejects(c)
  \/ ReadCard(c) \/ SaveStellarCard(c) \/ SaveStellarEnvelope(c)

LocalStep(v) ==
  \/ LocalGetEnvelope(v) \/ FindIntent(v)
  \/ LocalGetCapsule(v) \/ LocalReadParts(v) \/ LocalVerifyEnvelope(v)

LifecycleNext ==
  \/ Cleanup
  \/ \E v \in Verifiers : InitVerifier(v)
  \/ \E p \in Proofs : ProveStep(p) \/ AbortProve(p)
  \/ \E v \in Locals : LocalStep(v)
  \/ \E c \in Calls :
       \/ OnStellarOffchain(c) \/ OnStellarGroth16(c)
       \/ SendTx(c) \/ ExecuteTx(c) \/ VerifyStep(c) \/ AbortCall(c)

LifecycleSpec == LifecycleInit /\ [][LifecycleNext]_vars

-----------------------------------------------------------------------------
(* Properties.                                                             *)

LifecycleTypeOK ==
  /\ capsules \subseteq Capsules /\ intents \subseteq Proofs
  /\ envelopes \in [Proofs -> [stored : BOOLEAN, linked : BOOLEAN, by : Calls \cup {NoCall},
                               asProved : BOOLEAN]]
  /\ card \in [Proofs -> [stored : BOOLEAN, by : Calls \cup {NoCall}]]
  /\ vkey \in [Verifiers -> Keys \cup {NoKey}]
  /\ tx \in [Calls -> {"none", "sent", "accepted", "refused"}]
  /\ prover \in [Proofs -> {"capsule", "parts", "proving", "saveIntent", "saveEnvelope",
                            "saveCard", "returned", "failed"}]
  /\ call \in [Calls -> [pc : {"idle", "invoked", "verified", "hasCard", "cardSaved", "done"},
                         verdict : {"none", "rejected", "stellar_verified", "lost",
                                    "committed_on_stellar", "not_configured"}]]
  /\ posted \in [Calls -> Envelope]
  /\ local \in [Locals -> [of : Proofs \cup {NoProof},
                           pc : LocalIdle \cup {"intent", "capsule", "parts", "binding", "refusing"},
                           copy : {"proved", "posted", "overwritten"}]]
  /\ crashes \in 0..MaxCrashes

\* A call that named p and whose transaction a verifier contract accepted,
\* one of those that posted something else than prove returned, and the proofs
\* the accepted transactions carried.
Accepted(c, p)  == c \in Calls /\ posted[c].names = p /\ tx[c] = "accepted"
Replaced(p)     == \E c \in Calls : Accepted(c, p) /\ ~posted[c].asProved
ProvenOnChain   == {posted[c].sends : c \in {d \in Calls : tx[d] = "accepted"}}

\* Whatever is interleaved, killed or re-initialised, a durable record that
\* names a verification names a call on this proof's id that the chain accepted.
\* It accepted this very proof, and the row is as prove returned it, unless
\* such a call carried another envelope under that id: compute.ts:191-224 sends
\* envelope.groth16, upgrades the card of envelope.proofId, saves what was
\* posted, and compares none with the others or with the stored envelope.
RecordsAreOnChain ==
  \A p \in Proofs :
    /\ card[p].by # NoCall => Accepted(card[p].by, p)
    /\ envelopes[p].by # NoCall => Accepted(envelopes[p].by, p)
    /\ StellarVerified(p) => Replaced(p) \/ p \in ProvenOnChain
    /\ ~envelopes[p].asProved => Replaced(p) /\ InMemory

\* The card is upgraded before the envelope: an envelope never claims a
\* transaction while its card still says offchain_local.
CardUpgradedFirst ==
  \A p \in Proofs : envelopes[p].by # NoCall => StellarVerified(p)

\* Recording a verification does not lose the envelope's compiled intent
\* (onStellar saves the envelope without an intent id), so a stored envelope
\* can always be verified against it, also between the writes of prove.
EnvelopesStayBound ==
  \A p \in Proofs :
    /\ card[p].stored => envelopes[p].stored
    /\ envelopes[p].stored => Bound(p)
    /\ \A v \in Locals : local[v].pc # "unbound"

\* Local verification refuses an envelope that is consistent and as prove
\* returned it only because the cleanup worker evicted the capsule or PgStore
\* returned the facts in another order; and what the store returns is as prove
\* returned it unless an accepted call replaced it.
LocalRefusalExplained ==
  \A v \in Locals :
    LET p == local[v].of IN
    /\ local[v].pc = "invalid" =>
         \/ CapsuleOf[p] \notin capsules \/ ~InMemory
         \/ p \notin Consistent \/ local[v].copy # "proved"
    /\ local[v].copy = "overwritten" => Replaced(p) /\ InMemory

\* Whatever calls overlap, die or come late, the tables implement the abstract
\* proof record: a row is never lost, a card never goes back from
\* stellar_verified, and the stages come in their order.
AcceptedProofs == {p \in Proofs : \E c \in Calls : Accepted(c, p)}
Stage(p) ==
  IF envelopes[p].by # NoCall THEN "named"
  ELSE IF StellarVerified(p) THEN "stellar_verified"
  ELSE IF card[p].stored THEN "offchain_local"
  ELSE IF envelopes[p].stored THEN "enveloped"
  ELSE "absent"
Stages == [p \in Proofs |-> Stage(p)]

Record == INSTANCE ProofRecord WITH accepted <- AcceptedProofs, record <- Stages
ImplementsRecord == Record!Spec

\* A card never goes back from stellar_verified, and a row never disappears:
\* neither a late prove nor a call that is rejected or lost undoes it.
NeverDowngraded ==
  [][\A p \in Proofs :
       /\ StellarVerified(p) => StellarVerified(p)'
       /\ envelopes[p].stored => envelopes[p].stored']_vars

\* compute.ts 168: "returning `stellar_verified` iff the on-chain BN254 pairing
\* check returns true".
RejectedMeansRefused ==
  \A c \in Calls : call[c].verdict = "rejected" => tx[c] # "accepted"

\* compute.ts 173: another backend "falls back to a `proof_card_commitment_only`
\* on-chain commitment".
CommittedMeansOnChain ==
  \A c \in Calls : call[c].verdict = "committed_on_stellar" => tx[c] = "accepted"
=============================================================================
