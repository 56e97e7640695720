----------------------------- MODULE ProofRecord -----------------------------
(***************************************************************************)
(* What the stored record of a proof promises a reader (saveProofEnvelope, *)
(* saveProofCard and getProofCard of packages/store/src/types.ts, as       *)
(* ComputeModule and VerifyModule use them).  A record only ever gains: an *)
(* envelope, then an offchain_local card, then, once the chain accepted a  *)
(* verification asked for under its id, a stellar_verified card, and last  *)
(* the transaction in the envelope.  No step is skipped and none undone.   *)
(***************************************************************************)
CONSTANT Proofs

VARIABLES accepted,   \* the proofs under whose id a verification was accepted
          record      \* record[p]: how far the record of p is

vars == <<accepted, record>>

Init ==
  /\ accepted = {}
  /\ record = [p \in Proofs |-> "absent"]

Accept(p) ==
  /\ p \notin accepted
  /\ accepted' = accepted \cup {p}
  /\ UNCHANGED record

Advance(p, from, to) ==
  /\ record[p] = from
  /\ record' = [record EXCEPT ![p] = to]
  /\ UNCHANGED accepted

StoreEnvelope(p) == Advance(p, "absent", "enveloped")
StoreCard(p)     == Advance(p, "enveloped", "offchain_local")
Upgrade(p)       == p \in accepted /\ Advance(p, "offchain_local", "stellar_verified")
NameTx(p)        == Advance(p, "stellar_verified", "named")

Next == \E p \in Proofs :
  Accept(p) \/ StoreEnvelope(p) \/ StoreCard(p) \/ Upgrade(p) \/ NameTx(p)

Spec == Init /\ [][Next]_vars
==============================================================================
