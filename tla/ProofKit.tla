------------------------------ MODULE ProofKit ------------------------------
(***************************************************************************)
(* Proving and local verification in packages/proofs: the router that      *)
(* picks a backend, the envelope and the card a prove request returns,     *)
(* verifyLocal, and the bn254-groth16 backend, whose calls into snarkjs    *)
(* share one curve with its worker threads.                                *)
(*                                                                         *)
(* Hashes and keyed checksums are injective: a hash is what it commits to. *)
(* A Groth16 proof is the statement it proves, its circuit and its public  *)
(* signals, and it verifies under that circuit's key alone.                *)
(* snarkjs is external: an operation takes the process's curve, building   *)
(* one when there is none, and is lost when that curve is terminated under *)
(* it; terminating a curve takes it away first and then waits.  bn254-noir *)
(* is the subject of NoirProver and does not occur here.                   *)
(***************************************************************************)
EXTENDS Naturals, Sequences

CONSTANTS
  Jobs,         \* prove requests
  Checks,       \* verifications
  Recipes,      \* the recipes with a circuit
  Intents,      \* the intents requests may carry
  Curves,       \* bound: the curves a process builds
  NoCurve,
  Absent        \* a field nobody set

ASSUME CurveAssumption == NoCurve \notin Curves
ASSUME ActorAssumption == Jobs \cap Checks = {}
ASSUME RecipeAssumption == Absent \notin Recipes

Backends == {"bn254-groth16", "local-dev", "prebuilt", "noir", "risc0"}

\* What a request asks: a backend or any, the recipe its name is, if it is one's,
\* and what its program and its capsule amount to.
IsIntent(i) ==
  /\ i = [backend |-> i.backend, recipe |-> i.recipe, program |-> i.program,
          small |-> i.small, zk |-> i.zk, truth |-> i.truth, capsule |-> i.capsule]
  /\ i.backend \in Backends \cup {"auto"}
  /\ i.program \in {"own", "other", "two"}
  /\ i.recipe \in Recipes \cup {Absent}
  /\ {i.small, i.zk, i.truth} \subseteq BOOLEAN
  /\ i.capsule # Absent

ASSUME IntentAssumption == \A i \in Intents : IsIntent(i)

VARIABLES
  env,          \* NODE_ENV and the two SEFI_ALLOW_ flags
  disk,         \* which artifacts of the recipe circuits are built
  intent,       \* intent[j]: what j was asked
  envelope,     \* envelope[j]: what j returned
  check,        \* check[v]: the envelope v verifies, whose it was, the compiled intent
  verdict,
  pc,
  curve,        \* globalThis.curve_bn128
  live,         \* the curves whose workers run
  holds,        \* holds[a]: the curve the snarkjs call of a uses
  met           \* history: who had a snarkjs section open at the same time

request == <<env, disk, intent>>
curves  == <<curve, live, holds, met>>
kitVars == <<env, disk, intent, envelope, check, verdict, pc, curve, live, holds, met>>

Actors == Jobs \cup Checks
RealBackends == {"bn254-groth16"}

-----------------------------------------------------------------------------
(* The router.                                                             *)

Select(i) ==
  IF i.backend # "auto" THEN i.backend
  ELSE IF i.recipe # Absent THEN IF env.allowPrebuilt THEN "prebuilt" ELSE "bn254-groth16"
  ELSE IF ~i.small THEN "risc0"
  ELSE IF env.allowLocalDev /\ ~env.production THEN "local-dev"
  ELSE "bn254-groth16"

MutBlocked(b) ==
  env.production /\ b = "local-dev" /\ ~env.allowLocalDev

Blocked(b) ==
  /\ env.production
  /\ \/ b = "local-dev" /\ ~env.allowLocalDev
     \/ b = "prebuilt" /\ ~env.allowPrebuilt

\* What proveGroth16 refuses before it calls snarkjs: no circuit of that name,
\* no proving key, a capsule without zk roots (its witness fails the reference).
WitnessReady(i) == i.recipe # Absent /\ disk.zkey /\ i.zk

\* The backends that throw on every request, and local-dev's own gate.
Unable(b) ==
  \/ b \in {"noir", "risc0"}
  \/ b = "local-dev" /\ env.production /\ ~env.allowLocalDev

-----------------------------------------------------------------------------
(* Envelopes.                                                              *)

\* The recipe's circuit computes the recipe's own predicate, whatever program
\* the intent of that name carries; the evaluator runs the program.
Revealed(i) ==
  CASE i.program = "own"   -> <<i.truth>>
    [] i.program = "other" -> <<~i.truth>>
    [] i.program = "two"   -> <<i.truth, TRUE>>

\* The hash covers names, program and facts, and no private value.
ComputeHash(i) == [recipe |-> i.recipe, program |-> i.program]
ZkRoot(i)      == IF i.zk THEN i.capsule ELSE Absent

\* [result, zkContextRoot and zkFactsRoot, computeHash, resultHash]
Signals(i) == <<i.truth, ZkRoot(i), ComputeHash(i), Revealed(i)>>

Groth16Proof(circuit, signals) == [circuit |-> circuit, of |-> signals]

ASSUME AbsentAssumption ==
  \A i \in Intents : Signals(i) # Absent /\ Groth16Proof(i.recipe, Signals(i)) # Absent

\* What a checksum covers: the backend, the public inputs (zkRoot is both zk
\* roots) and the revealed values.
Covered == {"backend", "contextRoot", "sourceRoot", "semanticFactsRoot", "adapterSetHash",
            "zkRoot", "computeHash", "resultHash", "revealed"}
\* And the proof: proofBytes and, of a Groth16 envelope, the proof again, its
\* public signals and the verification key.
Fields == Covered \cup {"proofBytes", "signals", "proof", "vkey"}

\* buildProofEnvelope: each root commits to the capsule (its own of each kind).
Bare(i, b) ==
  [backend |-> b, contextRoot |-> i.capsule, sourceRoot |-> i.capsule,
   semanticFactsRoot |-> i.capsule, adapterSetHash |-> i.capsule,
   zkRoot |-> ZkRoot(i), computeHash |-> ComputeHash(i),
   resultHash |-> Revealed(i), revealed |-> Revealed(i),
   proofBytes |-> Absent, signals |-> Absent, proof |-> Absent, vkey |-> Absent]

\* proofChecksum: an HMAC under a key of the backend and, for prebuilt, of the
\* recipe's name.
Checksum(e, key) == [kind |-> "checksum", key |-> key, of |-> [f \in Covered |-> e[f]]]

\* The keys verifyLocal tries: the recipes' for prebuilt, one for local-dev.
KeyOf(i, b) == IF b = "local-dev" THEN "dev" ELSE i.recipe
KeysOf(b)   == IF b = "local-dev" THEN {"dev"} ELSE Recipes

SignedEnvelope(i, b) ==
  [Bare(i, b) EXCEPT !.proofBytes = Checksum(Bare(i, b), KeyOf(i, b))]

\* The proof in base64, and as snarkjs returned it.
Encoded(proof) == [kind |-> "base64", of |-> proof]

Groth16Envelope(i) ==
  LET proof == Groth16Proof(i.recipe, Signals(i)) IN
  [Bare(i, "bn254-groth16") EXCEPT
     !.proofBytes = Encoded(proof), !.signals = Signals(i), !.proof = proof, !.vkey = i.recipe]

\* buildProofCard: the status of an envelope is "verified" unless the caller
\* says otherwise, and nobody does.
Card(e) ==
  [result      |-> "verified",
   publicResult |-> e.revealed,
   dataUsedWarning |-> e.backend \notin RealBackends]

-----------------------------------------------------------------------------
(* verifyLocal.                                                            *)

MutSignalsMatch(e) ==
  e.backend = "bn254-groth16" =>
    /\ e.signals # Absent
    /\ e.signals[3] = e.computeHash
    /\ e.signals[4] = e.resultHash
    /\ Len(e.revealed) = 1 /\ e.signals[1] = e.revealed[1]

\* Only bn254-groth16 envelopes carry signals to compare.
SignalsMatch(e) ==
  e.backend = "bn254-groth16" =>
    /\ e.signals # Absent
    /\ e.signals[2] = e.zkRoot
    /\ e.signals[3] = e.computeHash
    /\ e.signals[4] = e.resultHash
    /\ Len(e.revealed) = 1 /\ e.signals[1] = e.revealed[1]

BindsTo(e, i) ==
  e.computeHash = ComputeHash(i) /\ e.contextRoot = i.capsule

HasArtifacts(e) == Absent \notin {e.signals, e.proof, e.vkey}

\* The Groth16 proof is verified under the key the envelope brings.
ArtifactVerifies(e) ==
  CASE e.backend \in {"local-dev", "prebuilt"} ->
         \E key \in KeysOf(e.backend) : e.proofBytes = Checksum(e, key)
    [] e.backend = "bn254-groth16" ->
         HasArtifacts(e) /\ e.proof = Groth16Proof(e.vkey, e.signals)
    [] OTHER -> FALSE

\* The compiled intent is optional: an envelope on its own is checked without.
\* The format checks hold of every field of a returned envelope.
Valid(e, against) ==
  /\ e.resultHash = e.revealed
  /\ (against # Absent => BindsTo(e, against))
  /\ SignalsMatch(e)
  /\ ArtifactVerifies(e)

-----------------------------------------------------------------------------
(* The curve.                                                              *)

\* From the call into snarkjs to the end of terminateCurve.
Open == {"proving", "vkey", "verify", "verifying", "ending", "ended"}

Waiting(a) == a \in Checks /\ pc[a] = "verify"
Peers(a)   == {b \in Actors \ {a} : pc[b] \in Open /\ ~Waiting(b)}

Meet(a) ==
  met' = met \cup (IF Peers(a) = {} THEN {} ELSE {a} \cup Peers(a))

\* The bound on curves: one that no worker runs and no call refers to.
Unused == {c \in Curves \ live : \A b \in Actors : holds[b] # c}

\* snarkjs reuses the global curve or builds one.
TakeCurve(a) ==
  /\ \/ /\ curve # NoCurve
        /\ holds' = [holds EXCEPT ![a] = curve]
        /\ UNCHANGED <<curve, live>>
     \/ /\ curve = NoCurve /\ Unused # {}
        /\ curve' = CHOOSE c \in Unused : TRUE
        /\ live' = live \cup {curve'}
        /\ holds' = [holds EXCEPT ![a] = curve']
  /\ Meet(a)

LetGo(a) == holds' = [holds EXCEPT ![a] = NoCurve]

Goto(a, from, to) == pc[a] = from /\ pc' = [pc EXCEPT ![a] = to]

\* terminateCurve up to its await, in the step in which verify returned.
TerminateCurve(a) ==
  /\ LetGo(a)
  /\ \/ /\ curve # NoCurve
        /\ curve' = NoCurve /\ live' = live \ {curve}
        /\ Goto(a, "verifying", "ending")
     \/ /\ curve = NoCurve
        /\ Goto(a, "verifying", "ended")
        /\ UNCHANGED <<curve, live>>
  /\ UNCHANGED met

\* terminateCurve after its await forgets whatever curve is global by now.
Ended(a) ==
  /\ pc[a] \in {"ending", "ended"}
  /\ curve' = IF pc[a] = "ending" THEN NoCurve ELSE curve
  /\ UNCHANGED <<live, holds, met>>

Undisturbed(a) == holds[a] \in live

-----------------------------------------------------------------------------
(* Proving: proveComputeIntent after the program was evaluated.            *)

Refused(j) == pc' = [pc EXCEPT ![j] = "refused"] /\ UNCHANGED <<envelope, curves>>

Returns(j, e) ==
  pc' = [pc EXCEPT ![j] = "returned"] /\ envelope' = [envelope EXCEPT ![j] = e]

\* The API's routes: prove takes the backend the intent asks for, prove-bn254
\* puts its own in its place.  (prove-noir: see NoirProver.)
ProveRoutes == {"prove", "prove-bn254"}
Posted(route, i) ==
  IF route = "prove" THEN i ELSE [i EXCEPT !.backend = "bn254-groth16"]

Submit(j) ==
  /\ pc[j] = "idle"
  /\ \E route \in ProveRoutes : \E posted \in {Posted(route, i) : i \in Intents} :
       LET b == Select(posted)
           i == [posted EXCEPT !.backend = b]
       IN
       /\ intent' = [intent EXCEPT ![j] = i]
       /\ \/ /\ Blocked(b) \/ Unable(b) \/ (b = "bn254-groth16" /\ ~WitnessReady(i))
             /\ Refused(j)
          \/ /\ b \in {"local-dev", "prebuilt"} /\ ~Blocked(b) /\ ~Unable(b)
             /\ Returns(j, SignedEnvelope(i, b)) /\ UNCHANGED curves
          \/ /\ b = "bn254-groth16" /\ WitnessReady(i)
             /\ pc' = [pc EXCEPT ![j] = "prove"] /\ UNCHANGED <<envelope, curves>>
  /\ UNCHANGED <<env, disk, check, verdict>>

FullProve(j) ==
  /\ Goto(j, "prove", "proving")
  /\ TakeCurve(j)
  /\ UNCHANGED <<request, envelope, check, verdict>>

Proved(j) ==
  /\ Undisturbed(j)
  /\ Goto(j, "proving", "vkey")
  /\ LetGo(j)
  /\ UNCHANGED <<request, envelope, check, verdict, curve, live, met>>

MutReadVkey(j) ==
  /\ disk.vkey /\ Goto(j, "vkey", "verify")
  /\ UNCHANGED <<request, envelope, check, verdict, curve, live, holds, met>>

\* The verification key is read after the proof, and nobody looked for it
\* before: without it the request throws and the curve stays.
ReadVkey(j) ==
  /\ \/ disk.vkey /\ Goto(j, "vkey", "verify")
     \/ ~disk.vkey /\ Goto(j, "vkey", "refused")
  /\ UNCHANGED <<request, envelope, check, verdict, curve, live, holds, met>>

\* groth16.verify, for the proof just made or for an envelope.
Verify(a) ==
  /\ Goto(a, "verify", "verifying")
  /\ TakeCurve(a)
  /\ UNCHANGED <<request, envelope, check, verdict>>

Verified(a) ==
  /\ Undisturbed(a)
  /\ TerminateCurve(a)
  /\ UNCHANGED <<request, envelope, check, verdict>>

\* A snarkjs call throws: on inputs its circuit refuses, or because its curve
\* was terminated under it.
Throws(a) ==
  /\ \/ pc[a] = "proving"
     \/ pc[a] = "verifying" /\ ~Undisturbed(a)
  /\ pc' = [pc EXCEPT ![a] = IF a \in Jobs THEN "refused" ELSE "checked"]
  /\ verdict' = [verdict EXCEPT ![a] = FALSE]
  /\ LetGo(a)
  /\ UNCHANGED <<request, envelope, check, curve, live, met>>

Emit(j) ==
  /\ Ended(j)
  /\ Returns(j, Groth16Envelope(intent[j]))
  /\ UNCHANGED <<request, check, verdict>>

-----------------------------------------------------------------------------
(* Verification.                                                           *)

\* The API's routes and the agents' tool: verify-local alone takes `dev`, and
\* the tool takes no id of a compiled intent either.
VerifyRequests ==
  {r \in [route : {"verify-local", "verify-bn254-local", "tool"},
          named : BOOLEAN, stored : BOOLEAN, dev : BOOLEAN] :
     /\ r.route = "tool" => ~r.named
     /\ r.dev => r.route = "verify-local"}

\* The compiled intent a request names, or else the one stored with the
\* proof's id; without either, only `dev` has the envelope looked at.
Compiled(r, j, k) ==
  IF r.named THEN intent[k] ELSE IF r.stored THEN intent[j] ELSE Absent
Bindings(j, k) ==
  {[against |-> Compiled(r, j, k), bound |-> r.named \/ r.stored \/ r.dev] :
     r \in VerifyRequests}

\* A client names a proof or posts its envelope, as it was given or with a
\* field of another.
Present(v) ==
  /\ pc[v] = "idle"
  /\ \E j, k \in Jobs :
       /\ pc[j] = "returned" /\ pc[k] = "returned"
       /\ \E e \in {[envelope[j] EXCEPT ![f] = envelope[k][f]] : f \in Fields},
            b \in Bindings(j, k) :
            LET reads == b.bound /\ e.backend = "bn254-groth16" /\ HasArtifacts(e) IN
            /\ check' = [check EXCEPT ![v] = [of |-> j, envelope |-> e,
                                             against |-> b.against, bound |-> b.bound]]
            /\ \/ reads /\ pc' = [pc EXCEPT ![v] = "verify"] /\ UNCHANGED verdict
               \/ /\ ~reads /\ pc' = [pc EXCEPT ![v] = "checked"]
                  /\ verdict' = [verdict EXCEPT ![v] = b.bound /\ Valid(e, b.against)]
  /\ UNCHANGED <<request, envelope, curves>>

Conclude(v) ==
  /\ Ended(v)
  /\ pc' = [pc EXCEPT ![v] = "checked"]
  /\ verdict' = [verdict EXCEPT ![v] = Valid(check[v].envelope, check[v].against)]
  /\ UNCHANGED <<request, envelope, check>>

-----------------------------------------------------------------------------

Init ==
  /\ env \in [production : BOOLEAN, allowPrebuilt : BOOLEAN, allowLocalDev : BOOLEAN]
  /\ disk \in {d \in [zkey : BOOLEAN, vkey : BOOLEAN] : d.zkey \/ d.vkey}
  /\ intent = [j \in Jobs |-> Absent]
  /\ envelope = [j \in Jobs |-> Absent]
  /\ check = [v \in Checks |-> Absent]
  /\ verdict = [a \in Actors |-> FALSE]
  /\ pc = [a \in Actors |-> "idle"]
  /\ curve = NoCurve /\ live = {} /\ holds = [a \in Actors |-> NoCurve]
  /\ met = {}

JobStep(j) == FullProve(j) \/ Proved(j) \/ ReadVkey(j) \/ Emit(j)
CallStep(a) == Verify(a) \/ Verified(a)

Next ==
  \/ \E j \in Jobs : Submit(j) \/ JobStep(j)
  \/ \E a \in Actors : CallStep(a) \/ Throws(a)
  \/ \E v \in Checks : Present(v) \/ Conclude(v)

Spec == Init /\ [][Next]_kitVars

\* snarkjs returns while its curve lives, and Node runs what it resolved.
FairSpec ==
  /\ Spec
  /\ \A j \in Jobs : WF_kitVars(JobStep(j) \/ CallStep(j))
  /\ \A v \in Checks : WF_kitVars(Conclude(v) \/ CallStep(v))

-----------------------------------------------------------------------------

\* Every variable has its type.
TypeOK ==
  /\ env \in [production : BOOLEAN, allowPrebuilt : BOOLEAN, allowLocalDev : BOOLEAN]
  /\ disk \in [zkey : BOOLEAN, vkey : BOOLEAN]
  /\ DOMAIN intent = Jobs /\ DOMAIN envelope = Jobs /\ DOMAIN check = Checks
  /\ \A j \in Jobs : intent[j] = Absent \/ IsIntent(intent[j])
  /\ verdict \in [Actors -> BOOLEAN]
  /\ pc \in [Actors -> Open \cup {"idle", "prove", "refused", "returned", "checked"}]
  /\ curve \in Curves \cup {NoCurve} /\ live \subseteq Curves
  /\ holds \in [Actors -> Curves \cup {NoCurve}]
  /\ met \subseteq Actors

\* Whether what j revealed is what its proof says: the circuit's single
\* output, and for a prebuilt envelope a key verifyLocal knows.
Faithful(j) ==
  CASE envelope[j].backend = "bn254-groth16" -> Revealed(intent[j]) = <<intent[j].truth>>
    [] envelope[j].backend = "prebuilt"      -> intent[j].recipe # Absent
    [] OTHER                                 -> TRUE

\* The fields verifyLocal compares with nothing in the envelope: circuit
\* artifacts on a checksummed one; on a Groth16 one the roots that are no public
\* signal and the second copy of the proof.
Unread(b) ==
  IF b \in RealBackends
  THEN {"contextRoot", "sourceRoot", "semanticFactsRoot", "adapterSetHash", "proofBytes"}
  ELSE {"signals", "proof", "vkey"}

\* A verification that shared no curve with another call accepts an envelope
\* exactly when it reveals what its proof says, its context root and hash are
\* those of the compiled intent it is checked against, if any, and every field
\* but the unread ones is as it was returned (verify.ts:26-122): what
\* proveComputeIntent returned "verified" for a program other than the recipe's
\* own is refused, and no other field of another proof passes, whichever
\* backend.  What does pass is part of the claim: a Groth16 envelope with
\* another's source, facts or adapter root or proofBytes, and, without a compiled
\* intent or against one of that capsule, with another's context root.
VerdictMatchesProof ==
  \A v \in Checks :
    pc[v] = "checked" /\ v \notin met =>
      LET c == check[v]
          intact   == \A f \in Fields \ Unread(c.envelope.backend) :
                        c.envelope[f] = envelope[c.of][f]
          expected == \/ c.against = Absent
                      \/ /\ c.against.capsule = c.envelope.contextRoot
                         /\ ComputeHash(c.against) = c.envelope.computeHash
      IN verdict[v] = (c.bound /\ expected /\ Faithful(c.of) /\ intact)

\* A card without the data-used warning stands for a Groth16 proof over the
\* zk root of its own capsule and the hash of its own program, and in
\* production every card does, unless one of the two flags allows less
\* (prove.ts:19-52, router.ts:52-98).
CardsDoNotOverclaim ==
  \A j \in Jobs :
    pc[j] = "returned" =>
      LET e == envelope[j] IN
      /\ ~Card(e).dataUsedWarning =>
           /\ e.backend = "bn254-groth16" /\ ArtifactVerifies(e)
           /\ e.signals[2] = intent[j].capsule
           /\ e.signals[3] = ComputeHash(intent[j])
      /\ env.production /\ ~env.allowPrebuilt /\ ~env.allowLocalDev =>
           ~Card(e).dataUsedWarning

\* A prove request or verification whose curve no other call shares comes to
\* an end (groth16.ts:86-135, 206-213).
UndisturbedEnds ==
  \A a \in Actors :
    pc[a] \in Open ~> (pc[a] \in {"returned", "refused", "checked"} \/ a \in met)
=============================================================================
