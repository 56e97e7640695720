---------------------------- MODULE ProofKitProofs ----------------------------
(***************************************************************************)
(* What verifyLocal decides and what a card says, for any requests, intents *)
(* and curves (ProofKit), and what the stored records of a proof say, for   *)
(* any proofs, calls, contracts and keys and any number of crashes          *)
(* (ProofLifecycle).                                                        *)
(***************************************************************************)
EXTENDS ProofKit, ProofLifecycle, TLAPS

-----------------------------------------------------------------------------
(* Envelopes as functions of their fields.                                 *)

IsEnvelope(e) == e = [g \in Fields |-> e[g]]

Provable(i) == i.zk /\ i.recipe # Absent

\* The two kinds of envelope proving returns.
Made(e, i) ==
  \/ \E b \in {"local-dev", "prebuilt"} : e = SignedEnvelope(i, b)
  \/ e = Groth16Envelope(i) /\ Provable(i)

LEMMA FieldNames ==
  Fields = {"backend", "contextRoot", "sourceRoot", "semanticFactsRoot", "adapterSetHash",
            "zkRoot", "computeHash", "resultHash", "revealed", "proofBytes", "signals",
            "proof", "vkey"}
BY DEF Fields, Covered

LEMMA Altered ==
  ASSUME NEW a, IsEnvelope(a), NEW f \in Fields, NEW x
  PROVE  LET e == [a EXCEPT ![f] = x]
         IN  IsEnvelope(e) /\ e[f] = x /\ \A g \in Fields \ {f} : e[g] = a[g]
<1> DEFINE e == [a EXCEPT ![f] = x]
<1>1. DOMAIN a = Fields
  BY DEF IsEnvelope
<1>2. DOMAIN e = Fields /\ e[f] = x /\ \A g \in Fields \ {f} : e[g] = a[g]
  BY <1>1
<1>3. a = [g \in Fields |-> a[g]]
  BY DEF IsEnvelope
<1>4. e = [g \in Fields |-> e[g]]
  BY <1>3
<1> QED
  BY <1>2, <1>4 DEF IsEnvelope

LEMMA BareFields ==
  ASSUME NEW i, NEW b
  PROVE  /\ IsEnvelope(Bare(i, b)) /\ Bare(i, b).backend = b
         /\ Bare(i, b).zkRoot = ZkRoot(i) /\ Bare(i, b).computeHash = ComputeHash(i)
         /\ Bare(i, b).resultHash = Revealed(i) /\ Bare(i, b).revealed = Revealed(i)
         /\ Bare(i, b).signals = Absent
<1> HIDE DEF Revealed
<1> QED
  BY FieldNames DEF Bare, IsEnvelope

\* A checksum is one of the covered fields under one key.
LEMMA ChecksumOf ==
  ASSUME NEW e, NEW d, NEW key, NEW other
  PROVE  Checksum(e, key) = Checksum(d, other) <=>
           key = other /\ \A g \in Covered : e[g] = d[g]
<1>1. Checksum(e, key).key = key /\ Checksum(e, key).of = [g \in Covered |-> e[g]]
  BY DEF Checksum
<1>2. Checksum(d, other).key = other /\ Checksum(d, other).of = [g \in Covered |-> d[g]]
  BY DEF Checksum
<1>3. [g \in Covered |-> e[g]] = [g \in Covered |-> d[g]] <=> \A g \in Covered : e[g] = d[g]
  OBVIOUS
<1> QED
  BY <1>1, <1>2, <1>3 DEF Checksum

LEMMA SignedFields ==
  ASSUME NEW i, NEW b
  PROVE  /\ IsEnvelope(SignedEnvelope(i, b)) /\ SignedEnvelope(i, b).backend = b
         /\ SignedEnvelope(i, b).computeHash = ComputeHash(i)
         /\ SignedEnvelope(i, b).resultHash = SignedEnvelope(i, b).revealed
         /\ SignedEnvelope(i, b).signals = Absent
         /\ SignedEnvelope(i, b).proofBytes = Checksum(Bare(i, b), KeyOf(i, b))
         /\ \A g \in Covered : SignedEnvelope(i, b)[g] = Bare(i, b)[g]
<1> DEFINE B == Bare(i, b)
           x == Checksum(B, KeyOf(i, b))
           E == [B EXCEPT !["proofBytes"] = x]
<1>1. IsEnvelope(B) /\ "proofBytes" \in Fields
  BY BareFields, FieldNames
<1>2. SignedEnvelope(i, b) = E
  BY DEF SignedEnvelope
<1>3. /\ B.backend = b /\ B.computeHash = ComputeHash(i) /\ B.resultHash = B.revealed
      /\ B.signals = Absent
  BY BareFields
<1> HIDE DEF B, x
<1>4. IsEnvelope(E) /\ E["proofBytes"] = x /\ \A g \in Fields \ {"proofBytes"} : E[g] = B[g]
  BY <1>1, Altered
<1> HIDE DEF E
<1>5. \A g \in Covered : g \in Fields \ {"proofBytes"}
  BY DEF Fields, Covered
<1>6. /\ E.backend = B.backend /\ E.computeHash = B.computeHash /\ E.resultHash = B.resultHash
      /\ E.revealed = B.revealed /\ E.signals = B.signals
  BY <1>4, FieldNames
<1> QED
  BY <1>2, <1>3, <1>4, <1>5, <1>6 DEF x, B

LEMMA Groth16Fields ==
  ASSUME NEW i
  PROVE  /\ IsEnvelope(Groth16Envelope(i)) /\ Groth16Envelope(i).backend = "bn254-groth16"
         /\ Groth16Envelope(i).zkRoot = ZkRoot(i)
         /\ Groth16Envelope(i).computeHash = ComputeHash(i)
         /\ Groth16Envelope(i).resultHash = Revealed(i)
         /\ Groth16Envelope(i).revealed = Revealed(i)
         /\ Groth16Envelope(i).signals = Signals(i)
         /\ Groth16Envelope(i).proof = Groth16Proof(i.recipe, Signals(i))
         /\ Groth16Envelope(i).vkey = i.recipe
         /\ Groth16Envelope(i).proofBytes = Encoded(Groth16Proof(i.recipe, Signals(i)))
<1> HIDE DEF Revealed, Signals, Groth16Proof, Encoded
<1> QED
  BY FieldNames DEF Groth16Envelope, Bare, IsEnvelope

-----------------------------------------------------------------------------
(* What verifyLocal decides of an envelope with one field of another.      *)

Expected(e, a) ==
  a = Absent \/ (a.capsule = e.contextRoot /\ ComputeHash(a) = e.computeHash)
FaithfulTo(e, i) ==
  CASE e.backend = "bn254-groth16" -> Revealed(i) = <<i.truth>>
    [] e.backend = "prebuilt"      -> i.recipe # Absent
    [] OTHER                       -> TRUE
Intact(e, E) == \A g \in Fields \ Unread(e.backend) : e[g] = E[g]

\* The part of Valid that no compiled intent has a say in.
Sound(e) == e.resultHash = e.revealed /\ SignalsMatch(e) /\ ArtifactVerifies(e)

LEMMA ValidIsSound ==
  ASSUME NEW e, NEW a
  PROVE  Valid(e, a) <=> Expected(e, a) /\ Sound(e)
BY DEF Valid, Expected, Sound, BindsTo

\* The backend is read, so an intact envelope has its own.
LEMMA IntactBackend ==
  ASSUME NEW e, NEW E, Intact(e, E) PROVE e.backend = E.backend
<1>1. "backend" \in Fields \ Unread(e.backend)
  BY FieldNames DEF Unread
<1> QED
  BY <1>1 DEF Intact

\* The router's and the recipe's part of a checksum.
LEMMA KeyKnown ==
  ASSUME NEW i, IsIntent(i), NEW b \in {"local-dev", "prebuilt"}, NEW e,
         e.backend = b
  PROVE  KeyOf(i, b) \in KeysOf(b) <=> FaithfulTo(e, i)
BY RecipeAssumption DEF KeyOf, KeysOf, FaithfulTo, IsIntent

LEMMA SignedVerdict ==
  ASSUME NEW i, IsIntent(i), NEW b \in {"local-dev", "prebuilt"},
         NEW i2, NEW E2, Made(E2, i2), NEW f \in Fields
  PROVE  LET E == SignedEnvelope(i, b)
             e == [E EXCEPT ![f] = E2[f]]
         IN  Sound(e) <=> FaithfulTo(E, i) /\ Intact(e, E)
<1> DEFINE E == SignedEnvelope(i, b)
           x == E2[f]
           e == [E EXCEPT ![f] = x]
<1>1. /\ IsEnvelope(E) /\ E.backend = b
      /\ E.resultHash = E.revealed /\ E.signals = Absent
      /\ E.proofBytes = Checksum(Bare(i, b), KeyOf(i, b))
      /\ \A g \in Covered : E[g] = Bare(i, b)[g]
  BY SignedFields
<1> HIDE DEF E, x
<1>2. IsEnvelope(e) /\ e[f] = x /\ \A g \in Fields \ {f} : e[g] = E[g]
  BY <1>1, Altered
<1> HIDE DEF e
<1>3. E2.backend \in {"local-dev", "prebuilt", "bn254-groth16"}
  BY SignedFields, Groth16Fields DEF Made
<1>4. \A key : E.proofBytes = Checksum(e, key) <=>
                 key = KeyOf(i, b) /\ \A g \in Covered : e[g] = E[g]
  BY <1>1, ChecksumOf
<1>5. ASSUME e.backend # b
      PROVE  ~Sound(e) /\ ~Intact(e, E)
  <2>1. f = "backend" /\ e.backend \in {"local-dev", "prebuilt", "bn254-groth16"}
    BY <1>1, <1>2, <1>3, <1>5, FieldNames DEF x
  <2>2. e.signals = Absent /\ e.proofBytes = E.proofBytes
    BY <1>1, <1>2, <2>1, FieldNames
  <2>3. "backend" \in Covered
    BY DEF Covered
  <2>4. \A key : e.proofBytes # Checksum(e, key)
    BY <1>1, <1>4, <1>5, <2>2, <2>3
  <2>5. ~Sound(e)
    BY <1>5, <2>1, <2>2, <2>4 DEF Sound, SignalsMatch, ArtifactVerifies
  <2> QED
    BY <1>1, <1>5, <2>5, IntactBackend
<1>6. ASSUME e.backend = b
      PROVE  /\ Intact(e, E) <=> e.proofBytes = E.proofBytes /\ \A g \in Covered : e[g] = E[g]
             /\ Sound(e) <=> e.resultHash = e.revealed
                             /\ \E key \in KeysOf(b) : e.proofBytes = Checksum(e, key)
  <2>1. Fields \ Unread(e.backend) = Covered \cup {"proofBytes"}
    BY <1>6 DEF Unread, RealBackends, Fields, Covered
  <2>2. Intact(e, E) <=> e.proofBytes = E.proofBytes /\ \A g \in Covered : e[g] = E[g]
    BY <2>1 DEF Intact
  <2>3. Sound(e) <=> e.resultHash = e.revealed
                     /\ \E key \in KeysOf(b) : e.proofBytes = Checksum(e, key)
    BY <1>6 DEF Sound, SignalsMatch, ArtifactVerifies
  <2> QED
    BY <2>2, <2>3
<1>7. ASSUME e.backend = b, Intact(e, E)
      PROVE  Sound(e) <=> FaithfulTo(E, i)
  <2>1. e.proofBytes = E.proofBytes /\ \A g \in Covered : e[g] = E[g]
    BY <1>6, <1>7
  <2>2. \A key : e.proofBytes = Checksum(e, key) <=> key = KeyOf(i, b)
    BY <1>4, <2>1
  <2>3. e.resultHash = e.revealed
    <3>1. "resultHash" \in Covered /\ "revealed" \in Covered
      BY DEF Covered
    <3> QED
      BY <1>1, <2>1, <3>1
  <2>4. Sound(e) <=> KeyOf(i, b) \in KeysOf(b)
    BY <1>6, <1>7, <2>2, <2>3
  <2> QED
    BY <1>1, <2>4, KeyKnown
<1>8. ASSUME e.backend = b, Sound(e)
      PROVE  Intact(e, E)
  <2>1. PICK key \in KeysOf(b) : e.proofBytes = Checksum(e, key)
    BY <1>6, <1>8
  <2>2. CASE f # "proofBytes"
    <3>1. e.proofBytes = E.proofBytes
      BY <1>2, <2>2, FieldNames
    <3> QED
      BY <1>4, <1>6, <1>8, <2>1, <3>1
  <2>3. CASE f = "proofBytes"
    <3>1. \A g \in Covered : e[g] = E[g]
      BY <1>2, <2>3 DEF Fields, Covered
    <3>2. e.proofBytes = E2.proofBytes
      BY <1>2, <2>3 DEF x
    <3>3. E2.proofBytes.kind = "checksum"
      BY <2>1, <3>2 DEF Checksum
    <3>4. PICK b2 \in {"local-dev", "prebuilt"} : E2 = SignedEnvelope(i2, b2)
      <4>1. Groth16Envelope(i2).proofBytes = Encoded(Groth16Proof(i2.recipe, Signals(i2)))
        BY Groth16Fields
      <4>2. Groth16Envelope(i2).proofBytes.kind = "base64"
        BY <4>1 DEF Encoded
      <4>3. E2 # Groth16Envelope(i2)
        BY <3>3, <4>2
      <4> QED
        BY <4>3, Zenon DEF Made
    <3>5. E2.proofBytes = Checksum(Bare(i2, b2), KeyOf(i2, b2))
      BY <3>4, SignedFields
    <3>6. key = KeyOf(i2, b2) /\ \A g \in Covered : e[g] = Bare(i2, b2)[g]
      <4>1. PICK d : d = Bare(i2, b2)
        OBVIOUS
      <4>2. PICK k : k = KeyOf(i2, b2)
        OBVIOUS
      <4>3. Checksum(e, key) = Checksum(d, k)
        BY <2>1, <3>2, <3>5, <4>1, <4>2
      <4>4. key = k /\ \A g \in Covered : e[g] = d[g]
        BY <4>3, ChecksumOf
      <4> QED
        BY <4>1, <4>2, <4>4
    <3>7. b2 = b /\ i2.recipe = i.recipe
      <4>1. "backend" \in Covered /\ "computeHash" \in Covered
        BY DEF Covered
      <4>2. /\ Bare(i2, b2).backend = Bare(i, b).backend
            /\ Bare(i2, b2).computeHash = Bare(i, b).computeHash
        BY <1>1, <3>1, <3>6, <4>1
      <4>3. b2 = b /\ ComputeHash(i2) = ComputeHash(i)
        BY <4>2, BareFields
      <4> QED
        BY <4>3 DEF ComputeHash
    <3>8. key = KeyOf(i, b)
      BY <3>6, <3>7 DEF KeyOf
    <3>9. E.proofBytes = e.proofBytes
      BY <1>4, <2>1, <3>1, <3>8
    <3> QED
      BY <1>6, <1>8, <3>1, <3>9
  <2> QED
    BY <2>2, <2>3
<1>9. Sound(e) <=> FaithfulTo(E, i) /\ Intact(e, E)
  BY <1>5, <1>7, <1>8
<1> QED
  BY <1>9 DEF e, E, x

\* A circuit's output is what was revealed exactly when the program is its own.
LEMMA OneOutput ==
  ASSUME NEW i, IsIntent(i)
  PROVE  Len(Revealed(i)) = 1 /\ i.truth = Revealed(i)[1] <=> Revealed(i) = <<i.truth>>
<1>1. i.truth \in BOOLEAN /\ i.program \in {"own", "other", "two"}
  BY DEF IsIntent
<1>2. CASE i.program = "own"
  BY <1>2 DEF Revealed
<1>3. CASE i.program = "other"
  <2>1. Revealed(i) = <<~i.truth>>
    BY <1>3 DEF Revealed
  <2> QED
    BY <1>1, <2>1
<1>4. CASE i.program = "two"
  <2>1. Len(Revealed(i)) = 2
    BY <1>4 DEF Revealed
  <2> QED
    BY <2>1
<1> QED
  BY <1>1, <1>2, <1>3, <1>4

LEMMA Groth16Verdict ==
  ASSUME NEW i, IsIntent(i), Provable(i),
         Signals(i) # Absent, Groth16Proof(i.recipe, Signals(i)) # Absent,
         NEW i2, NEW E2, Made(E2, i2), NEW f \in Fields
  PROVE  LET E == Groth16Envelope(i)
             e == [E EXCEPT ![f] = E2[f]]
         IN  Sound(e) <=> FaithfulTo(E, i) /\ Intact(e, E)
<1> DEFINE E == Groth16Envelope(i)
           x == E2[f]
           e == [E EXCEPT ![f] = x]
           Commits(d) == /\ d.zkRoot = ZkRoot(i) /\ d.computeHash = ComputeHash(i)
                         /\ d.resultHash = Revealed(i) /\ d.revealed = Revealed(i)
                         /\ d.signals = Signals(i)
                         /\ d.proof = Groth16Proof(i.recipe, Signals(i))
                         /\ d.vkey = i.recipe
<1>1. /\ IsEnvelope(E) /\ E.backend = "bn254-groth16" /\ Commits(E)
      /\ E.proofBytes = Encoded(Groth16Proof(i.recipe, Signals(i)))
  BY Groth16Fields
<1> HIDE DEF E, x
<1>2. IsEnvelope(e) /\ e[f] = x /\ \A g \in Fields \ {f} : e[g] = E[g]
  BY <1>1, Altered
<1> HIDE DEF e
<1>3. E2.backend \in {"local-dev", "prebuilt", "bn254-groth16"}
  BY SignedFields, Groth16Fields DEF Made
<1>4. /\ Signals(i)[1] = i.truth /\ Signals(i)[2] = ZkRoot(i)
      /\ Signals(i)[3] = ComputeHash(i) /\ Signals(i)[4] = Revealed(i)
  BY DEF Signals
<1>5. ASSUME e.backend # "bn254-groth16"
      PROVE  ~Sound(e) /\ ~Intact(e, E)
  <2>1. f = "backend" /\ e.backend \in {"local-dev", "prebuilt"}
    BY <1>1, <1>2, <1>3, <1>5, FieldNames DEF x
  <2>2. e.proofBytes.kind = "base64"
    BY <1>1, <1>2, <2>1, FieldNames DEF Encoded
  <2>3. \A key : e.proofBytes # Checksum(e, key)
    BY <2>2 DEF Checksum
  <2>4. ~Sound(e)
    BY <2>1, <2>3 DEF Sound, ArtifactVerifies
  <2> QED
    BY <1>1, <1>5, <2>4, IntactBackend
<1>6. ASSUME e.backend = "bn254-groth16"
      PROVE  Intact(e, E) <=> Commits(e)
  <2>1. Fields \ Unread(e.backend)
          = {"backend", "zkRoot", "computeHash", "resultHash", "revealed", "signals", "proof", "vkey"}
    BY <1>6, FieldNames DEF Unread, RealBackends
  <2> QED
    BY <1>1, <1>6, <2>1 DEF Intact
<1>7. ASSUME e.backend = "bn254-groth16", Commits(e)
      PROVE  Sound(e) <=> FaithfulTo(E, i)
  <2>1. ArtifactVerifies(e)
    BY <1>7, Zenon DEF Provable, ArtifactVerifies, HasArtifacts
  <2>2. SignalsMatch(e) <=> Len(Revealed(i)) = 1 /\ i.truth = Revealed(i)[1]
    BY <1>4, <1>7 DEF SignalsMatch
  <2>3. FaithfulTo(E, i) <=> Revealed(i) = <<i.truth>>
    BY <1>1 DEF FaithfulTo
  <2> QED
    BY <1>7, <2>1, <2>2, <2>3, OneOutput DEF Sound
<1>8. ASSUME e.backend = "bn254-groth16", Sound(e)
      PROVE  Commits(e)
  <2>1. /\ e.resultHash = e.revealed /\ e.signals[2] = e.zkRoot
        /\ e.signals[3] = e.computeHash /\ e.signals[4] = e.resultHash
        /\ e.proof = Groth16Proof(e.vkey, e.signals) /\ e.signals # Absent
    BY <1>8 DEF Sound, SignalsMatch, ArtifactVerifies, HasArtifacts
  <2>2. e.vkey = i.recipe /\ e.signals = Signals(i)
    <3>1. CASE f # "proof"
      <4>1. e.proof = Groth16Proof(i.recipe, Signals(i))
        BY <1>1, <1>2, <3>1, FieldNames
      <4> QED
        BY <2>1, <4>1 DEF Groth16Proof
    <3>2. CASE f = "proof"
      BY <1>1, <1>2, <3>2, FieldNames
    <3> QED
      BY <3>1, <3>2
  <2> QED
    BY <1>4, <2>1, <2>2
<1>9. Sound(e) <=> FaithfulTo(E, i) /\ Intact(e, E)
  BY <1>5, <1>6, <1>7, <1>8
<1> QED
  BY <1>9 DEF e, E, x

-----------------------------------------------------------------------------
(* The inductive invariant.                                                *)

Asked(i) ==
  IsIntent(i) /\ Signals(i) # Absent /\ Groth16Proof(i.recipe, Signals(i)) # Absent

\* A job in snarkjs was asked for a Groth16 proof of a capsule with zk roots,
\* and a job that returned has the envelope of its own intent.
Proving == {"prove", "proving", "vkey", "verify", "verifying", "ending", "ended"}
JobsMade ==
  \A j \in Jobs :
    /\ pc[j] \in Proving => Asked(intent[j]) /\ Provable(intent[j])
    /\ pc[j] = "returned" =>
         /\ Asked(intent[j]) /\ Made(envelope[j], intent[j])
         /\ env.production /\ ~env.allowPrebuilt /\ ~env.allowLocalDev =>
              envelope[j].backend \in RealBackends

\* Two calls in their snarkjs sections know of each other; the curve of a call
\* that met no other lives.
Active(a) == pc[a] \in Open /\ ~Waiting(a)
CurvesKept ==
  /\ curve # NoCurve => curve \in live
  /\ \A a, b \in Actors : a # b /\ Active(a) /\ Active(b) => a \in met /\ b \in met
  /\ \A a \in Actors :
       pc[a] \in {"proving", "verifying"} /\ a \notin met => Undisturbed(a)

\* What a check looks at was returned, but for one field of it.
Looks(v) ==
  /\ check[v].of \in Jobs /\ pc[check[v].of] = "returned"
  /\ \E k \in Jobs, f \in Fields :
       /\ pc[k] = "returned"
       /\ check[v].envelope = [envelope[check[v].of] EXCEPT ![f] = envelope[k][f]]

CheckLooks(v) ==
  /\ pc[v] \in {"idle", "verify", "verifying", "ending", "ended", "checked"}
  /\ pc[v] # "idle" => Looks(v)
  /\ pc[v] \in Open => check[v].bound = TRUE
  /\ pc[v] = "checked" /\ v \notin met =>
       verdict[v] = (check[v].bound /\ Valid(check[v].envelope, check[v].against))

ChecksLook == \A v \in Checks : CheckLooks(v)

-----------------------------------------------------------------------------
(* The steps' effect on the intents and envelopes.                         *)

LEMMA ActorTypes ==
  ASSUME TypeOK
  PROVE  /\ Jobs \subseteq Actors /\ Checks \subseteq Actors
         /\ DOMAIN pc = Actors /\ DOMAIN intent = Jobs /\ DOMAIN envelope = Jobs
         /\ DOMAIN check = Checks /\ DOMAIN verdict = Actors /\ DOMAIN holds = Actors
         /\ \A j \in Jobs : j \notin Checks
BY ActorAssumption DEF TypeOK, Actors

\* A resolved intent asks what the posted one asked.
LEMMA PostedIntent ==
  ASSUME NEW i0 \in Intents, NEW route \in ProveRoutes,
         NEW b, b = Select(Posted(route, i0))
  PROVE  Asked([Posted(route, i0) EXCEPT !.backend = b])
<1> DEFINE p == Posted(route, i0)
           i == [p EXCEPT !.backend = b]
<1>1. /\ i0 = [backend |-> i0.backend, recipe |-> i0.recipe, program |-> i0.program,
               small |-> i0.small, zk |-> i0.zk, truth |-> i0.truth,
               capsule |-> i0.capsule]
      /\ i0.backend \in Backends \cup {"auto"}
      /\ i0.program \in {"own", "other", "two"}
      /\ {i0.small, i0.zk, i0.truth} \subseteq BOOLEAN
      /\ i0.recipe \in Recipes \cup {Absent}
      /\ i0.capsule # Absent
  BY IntentAssumption DEF IsIntent
<1>2. Signals(i0) # Absent /\ Groth16Proof(i0.recipe, Signals(i0)) # Absent
  BY AbsentAssumption
<1>3. p.backend \in Backends \cup {"auto"}
  BY <1>1 DEF Posted, Backends
<1>4. b \in Backends
  BY <1>3 DEF Select, Backends
<1>5. p = i0 \/ p = [i0 EXCEPT !.backend = "bn254-groth16"]
  BY DEF Posted
<1>6. i = [i0 EXCEPT !.backend = b]
  BY <1>1, <1>5
<1> HIDE DEF i
<1>7. i = [backend |-> b, recipe |-> i0.recipe, program |-> i0.program,
           small |-> i0.small, zk |-> i0.zk, truth |-> i0.truth,
           capsule |-> i0.capsule]
  BY <1>1, <1>6
<1>8. IsIntent(i)
  BY <1>1, <1>4, <1>7 DEF IsIntent
<1>9. Signals(i) = Signals(i0) /\ i.recipe = i0.recipe
  BY <1>7 DEF Signals, ZkRoot, ComputeHash, Revealed
<1> QED
  BY <1>2, <1>8, <1>9 DEF Asked, i

\* What Submit leaves behind.
LEMMA SubmitMade ==
  ASSUME TypeOK, NEW j \in Jobs, Submit(j)
  PROVE  /\ pc[j] = "idle" /\ Asked(intent'[j])
         /\ \A k \in Jobs \ {j} : intent'[k] = intent[k] /\ envelope'[k] = envelope[k]
         /\ \A a \in Actors \ {j} : pc'[a] = pc[a]
         /\ DOMAIN intent' = Jobs /\ DOMAIN envelope' = Jobs
         /\ \E at \in {"refused", "returned", "prove"} :
              pc' = [pc EXCEPT ![j] = at]
         /\ pc'[j] \in {"refused", "returned", "prove"}
         /\ pc'[j] = "prove" => Provable(intent'[j])
         /\ pc'[j] = "returned" =>
              /\ Made(envelope'[j], intent'[j])
              /\ env.production => env.allowPrebuilt \/ env.allowLocalDev
         /\ UNCHANGED <<env, disk, check, verdict, curves>>
<1>0. PICK route \in ProveRoutes :
        \E asked \in {Posted(route, i0) : i0 \in Intents} :
        LET b == Select(asked)
            i == [asked EXCEPT !.backend = b]
        IN
        /\ intent' = [intent EXCEPT ![j] = i]
        /\ \/ Refused(j)
           \/ /\ b \in {"local-dev", "prebuilt"} /\ ~Blocked(b)
              /\ Returns(j, SignedEnvelope(i, b)) /\ UNCHANGED curves
           \/ /\ WitnessReady(i)
              /\ pc' = [pc EXCEPT ![j] = "prove"] /\ UNCHANGED <<envelope, curves>>
  BY DEF Submit
<1>1. PICK asked \in {Posted(route, i0) : i0 \in Intents} :
        LET b == Select(asked)
            i == [asked EXCEPT !.backend = b]
        IN
        /\ intent' = [intent EXCEPT ![j] = i]
        /\ \/ Refused(j)
           \/ /\ b \in {"local-dev", "prebuilt"} /\ ~Blocked(b)
              /\ Returns(j, SignedEnvelope(i, b)) /\ UNCHANGED curves
           \/ /\ WitnessReady(i)
              /\ pc' = [pc EXCEPT ![j] = "prove"] /\ UNCHANGED <<envelope, curves>>
  BY <1>0
<1> DEFINE b == Select(asked)
           i == [asked EXCEPT !.backend = b]
<1>2. PICK i0 \in Intents : asked = Posted(route, i0)
  BY <1>1
<1>3. Asked(i)
  BY <1>2, PostedIntent
<1>4. pc[j] = "idle" /\ UNCHANGED <<env, disk, check, verdict>>
  BY DEF Submit
<1> HIDE DEF i, b
<1>5. intent' = [intent EXCEPT ![j] = i]
  BY <1>1 DEF i, b
<1>6. /\ intent'[j] = i /\ DOMAIN intent' = Jobs
      /\ \A k \in Jobs \ {j} : intent'[k] = intent[k]
  BY <1>5, ActorTypes
<1>7. CASE Refused(j)
  BY <1>3, <1>4, <1>6, <1>7, ActorTypes DEF Refused
<1>8. CASE /\ b \in {"local-dev", "prebuilt"} /\ ~Blocked(b)
           /\ Returns(j, SignedEnvelope(i, b)) /\ UNCHANGED curves
  <2>1. /\ pc' = [pc EXCEPT ![j] = "returned"]
        /\ envelope' = [envelope EXCEPT ![j] = SignedEnvelope(i, b)]
    BY <1>8 DEF Returns
  <2>2. Made(SignedEnvelope(i, b), i)
    BY <1>8 DEF Made
  <2>3. env.production => env.allowPrebuilt \/ env.allowLocalDev
    BY <1>8 DEF Blocked
  <2> QED
    BY <1>3, <1>4, <1>6, <1>8, <2>1, <2>2, <2>3, ActorTypes
<1>9. CASE /\ WitnessReady(i)
           /\ pc' = [pc EXCEPT ![j] = "prove"] /\ UNCHANGED <<envelope, curves>>
  BY <1>3, <1>4, <1>6, <1>9, ActorTypes DEF WitnessReady, Provable
<1> QED
  BY <1>1, <1>7, <1>8, <1>9 DEF i, b

-----------------------------------------------------------------------------
(* Types.                                                                  *)

States == Open \cup {"idle", "prove", "refused", "returned", "checked"}

LEMMA Typed ==
  ASSUME TypeOK
  PROVE  /\ pc \in [Actors -> States] /\ verdict \in [Actors -> BOOLEAN]
         /\ holds \in [Actors -> Curves \cup {NoCurve}]
BY DEF TypeOK, States

LEMMA TakeCurveTypes ==
  ASSUME TypeOK, NEW a \in Actors, TakeCurve(a)
  PROVE  /\ curve' \in Curves /\ live' \subseteq Curves
         /\ holds' \in [Actors -> Curves \cup {NoCurve}]
         /\ met' \subseteq Actors
         /\ live \subseteq live' /\ met \subseteq met'
         /\ holds'[a] = curve' /\ \A b \in Actors \ {a} : holds'[b] = holds[b]
         /\ \A b \in Peers(a) : a \in met' /\ b \in met'
         /\ (curve # NoCurve => curve \in live) => curve' \in live'
<1>1. /\ curve \in Curves \cup {NoCurve} /\ live \subseteq Curves
      /\ holds \in [Actors -> Curves \cup {NoCurve}] /\ met \subseteq Actors
  BY DEF TypeOK
<1>2. /\ met' \subseteq Actors /\ met \subseteq met'
      /\ \A b \in Peers(a) : a \in met' /\ b \in met'
  BY <1>1 DEF TakeCurve, Meet, Peers
<1>3. CASE curve # NoCurve /\ holds' = [holds EXCEPT ![a] = curve] /\ UNCHANGED <<curve, live>>
  BY <1>1, <1>2, <1>3
<1>4. CASE /\ curve = NoCurve /\ Unused # {}
           /\ curve' = CHOOSE c \in Unused : TRUE
           /\ live' = live \cup {curve'}
           /\ holds' = [holds EXCEPT ![a] = curve']
  <2>1. Unused \subseteq Curves
    BY DEF Unused
  <2>2. curve' \in Curves
    <3>1. \E c \in Unused : TRUE
      BY <1>4
    <3>2. (CHOOSE c \in Unused : TRUE) \in Unused
      BY <3>1, Zenon
    <3> QED
      BY <1>4, <2>1, <3>2
  <2>3. live' = live \cup {curve'} /\ holds' = [holds EXCEPT ![a] = curve']
    BY <1>4
  <2> QED
    BY <1>1, <1>2, <2>2, <2>3
<1> QED
  BY <1>3, <1>4 DEF TakeCurve

LEMMA TerminateCurveTypes ==
  ASSUME TypeOK, NEW a \in Actors, TerminateCurve(a)
  PROVE  /\ curve' = NoCurve /\ live' \subseteq live /\ met' = met
         /\ holds' \in [Actors -> Curves \cup {NoCurve}]
         /\ \A b \in Actors \ {a} : holds'[b] = holds[b]
         /\ pc[a] = "verifying"
         /\ \E to \in {"ending", "ended"} : pc' = [pc EXCEPT ![a] = to]
BY DEF TypeOK, TerminateCurve, LetGo, Goto

\* Only Submit writes an intent, only Submit and Emit an envelope, and a
\* check's request is written by Present.
LEMMA TypeStep ==
  ASSUME TypeOK, Next
  PROVE  TypeOK'
<1>1. ASSUME NEW j \in Jobs, Submit(j) PROVE TypeOK'
  <2>1. /\ DOMAIN intent' = Jobs /\ DOMAIN envelope' = Jobs
        /\ \A k \in Jobs : intent'[k] = Absent \/ IsIntent(intent'[k])
    BY <1>1, SubmitMade DEF Asked, TypeOK
  <2>2. pc' \in [Actors -> States]
    <3>1. PICK at \in {"refused", "returned", "prove"} : pc' = [pc EXCEPT ![j] = at]
      BY <1>1, SubmitMade
    <3> QED
      BY <3>1, Typed DEF States
  <2>3. UNCHANGED <<env, disk, check, verdict, curves>>
    BY <1>1, SubmitMade
  <2> QED
    BY <2>1, <2>2, <2>3 DEF TypeOK, States, curves
<1>2. ASSUME NEW a \in Actors, NEW to \in States, pc' = [pc EXCEPT ![a] = to],
             UNCHANGED request, DOMAIN envelope' = Jobs, DOMAIN check' = Checks,
             verdict' \in [Actors -> BOOLEAN],
             curve' \in Curves \cup {NoCurve}, live' \subseteq Curves,
             holds' \in [Actors -> Curves \cup {NoCurve}], met' \subseteq Actors
      PROVE  TypeOK'
  <2>1. pc' \in [Actors -> States]
    BY <1>2, Typed
  <2> QED
    BY <1>2, <2>1 DEF TypeOK, States, request
<1>3. ASSUME NEW j \in Jobs, FullProve(j) PROVE TypeOK'
  <2>1. j \in Actors /\ TakeCurve(j)
    BY <1>3, ActorTypes DEF FullProve
  <2>2. pc' = [pc EXCEPT ![j] = "proving"] /\ UNCHANGED <<request, envelope, check, verdict>>
    BY <1>3 DEF FullProve, Goto
  <2> QED
    BY <1>2, <2>1, <2>2, Typed, ActorTypes, TakeCurveTypes DEF States, Open
<1>4. ASSUME NEW j \in Jobs, Proved(j) PROVE TypeOK'
  <2>1. /\ pc' = [pc EXCEPT ![j] = "vkey"] /\ holds' = [holds EXCEPT ![j] = NoCurve]
        /\ UNCHANGED <<request, envelope, check, verdict, curve, live, met>>
    BY <1>4 DEF Proved, Goto, LetGo
  <2>2. curve \in Curves \cup {NoCurve} /\ live \subseteq Curves /\ met \subseteq Actors
    BY DEF TypeOK
  <2>3. holds' \in [Actors -> Curves \cup {NoCurve}]
    BY <2>1, Typed
  <2> QED
    BY <1>2, <2>1, <2>2, <2>3, Typed, ActorTypes DEF States, Open
<1>5. ASSUME NEW j \in Jobs, ReadVkey(j) PROVE TypeOK'
  <2>1. PICK to \in {"verify", "refused"} : pc' = [pc EXCEPT ![j] = to]
    BY <1>5 DEF ReadVkey, Goto
  <2>2. UNCHANGED <<request, envelope, check, verdict, curve, live, holds, met>>
    BY <1>5 DEF ReadVkey
  <2>3. curve \in Curves \cup {NoCurve} /\ live \subseteq Curves /\ met \subseteq Actors
    BY DEF TypeOK
  <2> QED
    BY <1>2, <2>1, <2>2, <2>3, Typed, ActorTypes DEF States, Open
<1>6. ASSUME NEW j \in Jobs, Emit(j) PROVE TypeOK'
  <2>1. /\ pc' = [pc EXCEPT ![j] = "returned"]
        /\ envelope' = [envelope EXCEPT ![j] = Groth16Envelope(intent[j])]
        /\ UNCHANGED <<request, check, verdict, live, holds, met>>
        /\ curve' \in {NoCurve, curve}
    BY <1>6 DEF Emit, Returns, Ended
  <2>2. curve \in Curves \cup {NoCurve} /\ live \subseteq Curves /\ met \subseteq Actors
    BY DEF TypeOK
  <2>3. DOMAIN envelope' = Jobs
    BY <2>1, ActorTypes
  <2> QED
    BY <1>2, <2>1, <2>2, <2>3, Typed, ActorTypes DEF States
<1>7. ASSUME NEW a \in Actors, Verify(a) PROVE TypeOK'
  <2>1. TakeCurve(a) /\ pc' = [pc EXCEPT ![a] = "verifying"]
        /\ UNCHANGED <<request, envelope, check, verdict>>
    BY <1>7 DEF Verify, Goto
  <2> QED
    BY <1>2, <2>1, Typed, ActorTypes, TakeCurveTypes DEF States, Open
<1>8. ASSUME NEW a \in Actors, Verified(a) PROVE TypeOK'
  <2>1. TerminateCurve(a) /\ UNCHANGED <<request, envelope, check, verdict>>
    BY <1>8 DEF Verified
  <2>2. PICK to \in {"ending", "ended"} : pc' = [pc EXCEPT ![a] = to]
    BY <2>1, TerminateCurveTypes
  <2>3. curve' = NoCurve /\ live' \subseteq Curves /\ met' \subseteq Actors
        /\ holds' \in [Actors -> Curves \cup {NoCurve}]
    BY <2>1, TerminateCurveTypes DEF TypeOK
  <2> QED
    BY <1>2, <2>1, <2>2, <2>3, Typed, ActorTypes DEF States, Open
<1>9. ASSUME NEW a \in Actors, Throws(a) PROVE TypeOK'
  <2>1. PICK to \in {"refused", "checked"} : pc' = [pc EXCEPT ![a] = to]
    BY <1>9 DEF Throws
  <2>2. /\ verdict' = [verdict EXCEPT ![a] = FALSE]
        /\ holds' = [holds EXCEPT ![a] = NoCurve]
        /\ UNCHANGED <<request, envelope, check, curve, live, met>>
    BY <1>9 DEF Throws, LetGo
  <2>3. curve \in Curves \cup {NoCurve} /\ live \subseteq Curves /\ met \subseteq Actors
    BY DEF TypeOK
  <2>4. /\ holds' \in [Actors -> Curves \cup {NoCurve}]
        /\ verdict' \in [Actors -> BOOLEAN]
    BY <2>2, Typed
  <2> QED
    BY <1>2, <2>1, <2>2, <2>3, <2>4, ActorTypes DEF States
<1>10. ASSUME NEW v \in Checks, Present(v) PROVE TypeOK'
  <2>1. PICK to \in {"verify", "checked"} : pc' = [pc EXCEPT ![v] = to]
    BY <1>10 DEF Present
  <2>2. UNCHANGED <<request, envelope, curves>> /\ DOMAIN check' = Checks
    BY <1>10, ActorTypes DEF Present
  <2>3. verdict' \in [Actors -> BOOLEAN]
    <3>1. UNCHANGED verdict \/ \E x \in BOOLEAN : verdict' = [verdict EXCEPT ![v] = x]
      BY <1>10 DEF Present, Valid
    <3> QED
      BY <3>1, Typed, ActorTypes
  <2>4. curve \in Curves \cup {NoCurve} /\ live \subseteq Curves /\ met \subseteq Actors
    BY DEF TypeOK
  <2> QED
    BY <1>2, <2>1, <2>2, <2>3, <2>4, Typed, ActorTypes DEF States, Open, curves
<1>11. ASSUME NEW v \in Checks, Conclude(v) PROVE TypeOK'
  <2>1. /\ pc' = [pc EXCEPT ![v] = "checked"]
        /\ UNCHANGED <<request, envelope, check, live, holds, met>>
        /\ curve' \in {NoCurve, curve}
        /\ verdict' = [verdict EXCEPT ![v] = Valid(check[v].envelope, check[v].against)]
    BY <1>11 DEF Conclude, Ended
  <2>2. curve \in Curves \cup {NoCurve} /\ live \subseteq Curves /\ met \subseteq Actors
    BY DEF TypeOK
  <2>3. verdict' \in [Actors -> BOOLEAN]
    <3>1. Valid(check[v].envelope, check[v].against) \in BOOLEAN
      BY DEF Valid
    <3> QED
      BY <2>1, <3>1, Typed, ActorTypes
  <2> QED
    BY <1>2, <2>1, <2>2, <2>3, Typed, ActorTypes, ZenonT(30) DEF States
<1> QED
  BY <1>1, <1>3, <1>4, <1>5, <1>6, <1>7, <1>8, <1>9, <1>10, <1>11
     DEF Next, JobStep, CallStep

-----------------------------------------------------------------------------
(* What each step but Submit and Present does.                             *)

\* a moves on to `to` and nothing is asked, returned or presented.
Moves(a, to) ==
  pc' = [pc EXCEPT ![a] = to] /\ UNCHANGED <<request, envelope, check>>

LEMMA FullProveMoves ==
  ASSUME TypeOK, NEW j \in Jobs, FullProve(j)
  PROVE  /\ Moves(j, "proving") /\ pc[j] = "prove"
         /\ TakeCurve(j) /\ UNCHANGED verdict
BY DEF FullProve, Goto, Moves

LEMMA ProvedMoves ==
  ASSUME TypeOK, NEW j \in Jobs, Proved(j)
  PROVE  /\ Moves(j, "vkey") /\ pc[j] = "proving"
         /\ \A b \in Actors \ {j} : holds'[b] = holds[b]
         /\ UNCHANGED <<verdict, curve, live, met>>
BY Typed DEF Proved, Goto, Moves, LetGo

LEMMA ReadVkeyMoves ==
  ASSUME TypeOK, NEW j \in Jobs, ReadVkey(j)
  PROVE  /\ Moves(j, "verify") \/ Moves(j, "refused")
         /\ pc[j] = "vkey" /\ UNCHANGED <<verdict, curve, live, holds, met>>
BY DEF ReadVkey, Goto, Moves

LEMMA VerifyMoves ==
  ASSUME TypeOK, NEW a \in Actors, Verify(a)
  PROVE  /\ Moves(a, "verifying") /\ pc[a] = "verify"
         /\ TakeCurve(a) /\ UNCHANGED verdict
BY DEF Verify, Goto, Moves

LEMMA VerifiedMoves ==
  ASSUME TypeOK, NEW a \in Actors, Verified(a)
  PROVE  /\ Moves(a, "ending") \/ Moves(a, "ended")
         /\ TerminateCurve(a) /\ UNCHANGED verdict
<1>1. TerminateCurve(a) /\ UNCHANGED <<request, envelope, check, verdict>>
  BY DEF Verified
<1>2. PICK to \in {"ending", "ended"} : pc' = [pc EXCEPT ![a] = to]
  BY <1>1, TerminateCurveTypes
<1> QED
  BY <1>1, <1>2 DEF Moves

LEMMA ThrowsMoves ==
  ASSUME TypeOK, NEW a \in Actors, Throws(a)
  PROVE  /\ Moves(a, IF a \in Jobs THEN "refused" ELSE "checked")
         /\ pc[a] = "proving" \/ (pc[a] = "verifying" /\ ~Undisturbed(a))
         /\ \A b \in Actors \ {a} : holds'[b] = holds[b] /\ verdict'[b] = verdict[b]
         /\ UNCHANGED <<curve, live, met>>
BY Typed DEF Throws, Moves, LetGo

LEMMA EmitMoves ==
  ASSUME TypeOK, NEW j \in Jobs, Emit(j)
  PROVE  /\ pc' = [pc EXCEPT ![j] = "returned"] /\ pc[j] \in {"ending", "ended"}
         /\ envelope'[j] = Groth16Envelope(intent[j])
         /\ \A k \in Jobs \ {j} : envelope'[k] = envelope[k]
         /\ curve' \in {NoCurve, curve}
         /\ UNCHANGED <<request, check, verdict, live, holds, met>>
BY ActorTypes DEF Emit, Ended, Returns

LEMMA ConcludeMoves ==
  ASSUME TypeOK, NEW v \in Checks, Conclude(v)
  PROVE  /\ Moves(v, "checked") /\ pc[v] \in {"ending", "ended"}
         /\ verdict'[v] = Valid(check[v].envelope, check[v].against)
         /\ \A b \in Actors \ {v} : verdict'[b] = verdict[b]
         /\ curve' \in {NoCurve, curve} /\ UNCHANGED <<live, holds, met>>
BY ActorTypes DEF Conclude, Ended, Moves

LEMMA PresentMoves ==
  ASSUME TypeOK, NEW v \in Checks, Present(v)
  PROVE  /\ pc[v] = "idle" /\ UNCHANGED <<request, envelope, curves>>
         /\ \E to \in {"verify", "checked"} : pc' = [pc EXCEPT ![v] = to]
         /\ \A w \in Checks \ {v} : check'[w] = check[w]
         /\ \A b \in Actors \ {v} : verdict'[b] = verdict[b]
         /\ check'[v].of \in Jobs /\ pc[check'[v].of] = "returned"
         /\ \E k \in Jobs, f \in Fields :
              /\ pc[k] = "returned"
              /\ check'[v].envelope = [envelope[check'[v].of] EXCEPT ![f] = envelope[k][f]]
         /\ pc'[v] = "verify" => check'[v].bound = TRUE
         /\ pc'[v] = "checked" =>
              verdict'[v] = (check'[v].bound /\ Valid(check'[v].envelope, check'[v].against))
<1>1. PICK j, k \in Jobs :
        /\ pc[j] = "returned" /\ pc[k] = "returned"
        /\ \E e \in {[envelope[j] EXCEPT ![f] = envelope[k][f]] : f \in Fields},
             b \in Bindings(j, k) :
             LET reads == b.bound /\ e.backend = "bn254-groth16" /\ HasArtifacts(e) IN
             /\ check' = [check EXCEPT ![v] = [of |-> j, envelope |-> e,
                                              against |-> b.against, bound |-> b.bound]]
             /\ \/ reads /\ pc' = [pc EXCEPT ![v] = "verify"] /\ UNCHANGED verdict
                \/ /\ ~reads /\ pc' = [pc EXCEPT ![v] = "checked"]
                   /\ verdict' = [verdict EXCEPT ![v] = b.bound /\ Valid(e, b.against)]
  BY DEF Present
<1>2. PICK e \in {[envelope[j] EXCEPT ![f] = envelope[k][f]] : f \in Fields},
           b \in Bindings(j, k) :
        /\ check' = [check EXCEPT ![v] = [of |-> j, envelope |-> e,
                                         against |-> b.against, bound |-> b.bound]]
        /\ \/ b.bound /\ pc' = [pc EXCEPT ![v] = "verify"] /\ UNCHANGED verdict
           \/ /\ pc' = [pc EXCEPT ![v] = "checked"]
              /\ verdict' = [verdict EXCEPT ![v] = b.bound /\ Valid(e, b.against)]
  BY <1>1
<1>3. PICK f \in Fields : e = [envelope[j] EXCEPT ![f] = envelope[k][f]]
  BY <1>2
<1>4. PICK c : c = [of |-> j, envelope |-> e, against |-> b.against, bound |-> b.bound]
  OBVIOUS
<1>5. c.of = j /\ c.envelope = e /\ c.against = b.against /\ c.bound = b.bound
  BY <1>4
<1>6. check' = [check EXCEPT ![v] = c]
  BY <1>2, <1>4
<1>7. check'[v] = c /\ \A w \in Checks \ {v} : check'[w] = check[w]
  BY <1>6, ActorTypes
<1>8. pc[v] = "idle" /\ UNCHANGED <<request, envelope, curves>>
  BY DEF Present
<1>9. b.bound \in BOOLEAN
  BY <1>2 DEF Bindings, VerifyRequests
<1>12. /\ check'[v].of \in Jobs /\ pc[check'[v].of] = "returned"
       /\ \E n \in Jobs, g \in Fields :
            /\ pc[n] = "returned"
            /\ check'[v].envelope = [envelope[check'[v].of] EXCEPT ![g] = envelope[n][g]]
  <2>1. check'[v].of = j /\ check'[v].envelope = e
    BY <1>5, <1>7
  <2>2. check'[v].envelope = [envelope[check'[v].of] EXCEPT ![f] = envelope[k][f]]
    BY <1>3, <2>1, Zenon
  <2>3. check'[v].of \in Jobs /\ pc[check'[v].of] = "returned" /\ pc[k] = "returned"
    BY <1>1, <2>1, Zenon
  <2> QED
    BY <2>2, <2>3, Zenon
<1>10. CASE b.bound /\ pc' = [pc EXCEPT ![v] = "verify"] /\ UNCHANGED verdict
  BY <1>5, <1>7, <1>8, <1>9, <1>10, <1>12, ActorTypes
<1>11. CASE /\ pc' = [pc EXCEPT ![v] = "checked"]
            /\ verdict' = [verdict EXCEPT ![v] = b.bound /\ Valid(e, b.against)]
  <2>1. PICK x : x = (b.bound /\ Valid(e, b.against))
    OBVIOUS
  <2>2. verdict' = [verdict EXCEPT ![v] = x]
    BY <1>11, <2>1
  <2>3. verdict'[v] = x /\ \A w \in Actors \ {v} : verdict'[w] = verdict[w]
    BY <2>2, ActorTypes
  <2>4. pc'[v] = "checked"
    BY <1>11, ActorTypes
  <2>5. verdict'[v] = (check'[v].bound /\ Valid(check'[v].envelope, check'[v].against))
    BY <1>5, <1>7, <2>1, <2>3
  <2>6. \E to \in {"verify", "checked"} : pc' = [pc EXCEPT ![v] = to]
    BY <1>11
  <2> QED
    BY <1>7, <1>8, <1>12, <2>3, <2>4, <2>5, <2>6
<1> QED
  BY <1>2, <1>10, <1>11

-----------------------------------------------------------------------------
(* JobsMade.                                                               *)

LEMMA JobsMadeStep ==
  ASSUME TypeOK, JobsMade, Next
  PROVE  JobsMade'
<1>1. ASSUME NEW a \in Actors, NEW to, Moves(a, to),
             a \in Jobs => to # "returned" /\ (to \in Proving => pc[a] \in Proving)
      PROVE  JobsMade'
  <2>1. \A j \in Jobs \ {a} : pc'[j] = pc[j]
    BY <1>1, ActorTypes DEF Moves
  <2>2. pc'[a] = to
    BY <1>1, ActorTypes DEF Moves
  <2>3. UNCHANGED <<env, intent, envelope>>
    BY <1>1 DEF Moves, request
  <2>4. \A j \in Jobs : pc'[j] \in Proving => pc[j] \in Proving
    BY <1>1, <2>1, <2>2
  <2>5. \A j \in Jobs : pc'[j] = "returned" => pc[j] = "returned"
    BY <1>1, <2>1, <2>2
  <2> QED
    BY <2>3, <2>4, <2>5 DEF JobsMade
<1>2. ASSUME NEW j \in Jobs, Submit(j) PROVE JobsMade'
  <2>1. SUFFICES ASSUME NEW k \in Jobs
                 PROVE  /\ pc'[k] \in Proving => Asked(intent'[k]) /\ Provable(intent'[k])
                        /\ pc'[k] = "returned" =>
                             /\ Asked(intent'[k]) /\ Made(envelope'[k], intent'[k])
                             /\ env.production /\ ~env.allowPrebuilt /\ ~env.allowLocalDev =>
                                  envelope'[k].backend \in RealBackends
    BY <1>2, SubmitMade DEF JobsMade
  <2>2. CASE k = j
    BY <1>2, <2>2, SubmitMade DEF Proving
  <2>3. CASE k # j
    BY <1>2, <2>3, SubmitMade, ActorTypes DEF JobsMade
  <2> QED
    BY <2>2, <2>3
<1>3. ASSUME NEW j \in Jobs, Emit(j) PROVE JobsMade'
  <2>1. SUFFICES ASSUME NEW k \in Jobs
                 PROVE  /\ pc'[k] \in Proving => Asked(intent[k]) /\ Provable(intent[k])
                        /\ pc'[k] = "returned" =>
                             /\ Asked(intent[k]) /\ Made(envelope'[k], intent[k])
                             /\ env.production /\ ~env.allowPrebuilt /\ ~env.allowLocalDev =>
                                  envelope'[k].backend \in RealBackends
    BY <1>3, EmitMoves DEF JobsMade, request
  <2>2. CASE k = j
    <3>1. Asked(intent[j]) /\ Provable(intent[j])
      BY <1>3, EmitMoves DEF JobsMade, Proving
    <3>2. envelope'[j] = Groth16Envelope(intent[j]) /\ pc'[j] = "returned"
      BY <1>3, EmitMoves, ActorTypes
    <3>3. Groth16Envelope(intent[j]).backend \in RealBackends
      BY Groth16Fields DEF RealBackends
    <3> QED
      BY <2>2, <3>1, <3>2, <3>3 DEF Made, Proving
  <2>3. CASE k # j
    BY <1>3, <2>3, EmitMoves, ActorTypes DEF JobsMade
  <2> QED
    BY <2>2, <2>3
<1>4. ASSUME NEW v \in Checks, Present(v) PROVE JobsMade'
  <2>1. \A j \in Jobs : pc'[j] = pc[j]
    <3>1. PICK to \in {"verify", "checked"} : pc' = [pc EXCEPT ![v] = to]
      BY <1>4, PresentMoves
    <3> QED
      BY <3>1, ActorTypes
  <2>2. UNCHANGED <<env, intent, envelope>>
    BY <1>4, PresentMoves DEF request
  <2> QED
    BY <2>1, <2>2 DEF JobsMade
<1>5. ASSUME NEW j \in Jobs, FullProve(j) PROVE JobsMade'
  BY <1>1, <1>5, FullProveMoves, ActorTypes DEF Proving
<1>6. ASSUME NEW j \in Jobs, Proved(j) PROVE JobsMade'
  BY <1>1, <1>6, ProvedMoves, ActorTypes DEF Proving
<1>7. ASSUME NEW j \in Jobs, ReadVkey(j) PROVE JobsMade'
  BY <1>1, <1>7, ReadVkeyMoves, ActorTypes DEF Proving
<1>8. ASSUME NEW a \in Actors, Verify(a) PROVE JobsMade'
  BY <1>1, <1>8, VerifyMoves DEF Proving
<1>9. ASSUME NEW a \in Actors, Verified(a) PROVE JobsMade'
  BY <1>1, <1>9, VerifiedMoves, TerminateCurveTypes DEF Proving
<1>10. ASSUME NEW a \in Actors, Throws(a) PROVE JobsMade'
  BY <1>1, <1>10, ThrowsMoves DEF Proving
<1>11. ASSUME NEW v \in Checks, Conclude(v) PROVE JobsMade'
  BY <1>1, <1>11, ConcludeMoves, ActorTypes
<1> QED
  BY <1>2, <1>3, <1>4, <1>5, <1>6, <1>7, <1>8, <1>9, <1>10, <1>11
     DEF Next, JobStep, CallStep

-----------------------------------------------------------------------------
(* CurvesKept.                                                             *)

LEMMA CurvesKeptStep ==
  ASSUME TypeOK, CurvesKept, Next
  PROVE  CurvesKept'
\* Steps that neither build nor terminate a curve.
<1>1. ASSUME NEW a \in Actors, NEW to, pc' = [pc EXCEPT ![a] = to],
             to \notin {"proving", "verifying"},
             to \in Open => Active(a) \/ (a \in Checks /\ to = "verify"),
             curve' \in {NoCurve, curve}, UNCHANGED <<live, met>>,
             \A b \in Actors \ {a} : holds'[b] = holds[b]
      PROVE  CurvesKept'
  <2>1. pc'[a] = to /\ \A b \in Actors \ {a} : pc'[b] = pc[b]
    BY <1>1, ActorTypes
  <2>2. \A b \in Actors : Active(b)' => Active(b)
    BY <1>1, <2>1 DEF Active, Waiting
  <2>3. \A b \in Actors : pc'[b] \in {"proving", "verifying"} =>
          pc[b] \in {"proving", "verifying"} /\ holds'[b] = holds[b]
    BY <1>1, <2>1
  <2> QED
    BY <1>1, <2>2, <2>3 DEF CurvesKept, Undisturbed
<1>2. ASSUME NEW a \in Actors, NEW to \in {"proving", "verifying"},
             pc' = [pc EXCEPT ![a] = to], TakeCurve(a)
      PROVE  CurvesKept'
  <2>1. pc'[a] = to /\ \A b \in Actors \ {a} : pc'[b] = pc[b]
    BY <1>2, ActorTypes
  <2>2. /\ curve' \in live' /\ live \subseteq live' /\ met \subseteq met'
        /\ holds'[a] = curve' /\ \A b \in Actors \ {a} : holds'[b] = holds[b]
        /\ \A b \in Peers(a) : a \in met' /\ b \in met'
    BY <1>2, TakeCurveTypes DEF CurvesKept
  <2>3. \A b \in Actors \ {a} : Active(b)' => Active(b) /\ b \in Peers(a)
    BY <2>1 DEF Active, Waiting, Peers
  <2>4. \A b, c \in Actors : b # c /\ Active(b)' /\ Active(c)' => b \in met' /\ c \in met'
    BY <2>2, <2>3 DEF CurvesKept
  <2>5. ASSUME NEW b \in Actors, pc'[b] \in {"proving", "verifying"}, b \notin met'
        PROVE  holds'[b] \in live'
    BY <2>1, <2>2, <2>5 DEF CurvesKept, Undisturbed
  <2> QED
    BY <2>2, <2>4, <2>5 DEF CurvesKept, Undisturbed
<1>3. ASSUME NEW a \in Actors, Verified(a) PROVE CurvesKept'
  <2>1. PICK to \in {"ending", "ended"} : pc' = [pc EXCEPT ![a] = to]
    BY <1>3, VerifiedMoves, TerminateCurveTypes
  <2>2. /\ curve' = NoCurve /\ met' = met /\ pc[a] = "verifying"
        /\ \A b \in Actors \ {a} : holds'[b] = holds[b]
    BY <1>3, VerifiedMoves, TerminateCurveTypes
  <2>3. pc'[a] = to /\ \A b \in Actors \ {a} : pc'[b] = pc[b]
    BY <2>1, ActorTypes
  <2>4. Active(a)
    BY <2>2 DEF Active, Waiting, Open
  <2>5. \A b \in Actors : Active(b)' => Active(b)
    BY <2>3, <2>4 DEF Active, Waiting
  <2>6. ASSUME NEW b \in Actors, pc'[b] \in {"proving", "verifying"} PROVE b \in met
    <3>1. b # a /\ Active(b)
      BY <2>3, <2>6 DEF Active, Waiting, Open
    <3> QED
      BY <2>4, <3>1 DEF CurvesKept
  <2> QED
    BY <2>2, <2>5, <2>6 DEF CurvesKept
<1>4. ASSUME NEW j \in Jobs, Submit(j) PROVE CurvesKept'
  <2>1. PICK to \in {"refused", "returned", "prove"} : pc' = [pc EXCEPT ![j] = to]
    BY <1>4, SubmitMade
  <2>2. UNCHANGED curves
    BY <1>4, SubmitMade
  <2> QED
    BY <1>1, <2>1, <2>2, ActorTypes DEF curves, Open
<1>5. ASSUME NEW v \in Checks, Present(v) PROVE CurvesKept'
  <2>1. PICK to \in {"verify", "checked"} : pc' = [pc EXCEPT ![v] = to]
    BY <1>5, PresentMoves
  <2>2. UNCHANGED curves
    BY <1>5, PresentMoves
  <2> QED
    BY <1>1, <2>1, <2>2, ActorTypes DEF curves, Open
<1>6. ASSUME NEW j \in Jobs, FullProve(j) PROVE CurvesKept'
  BY <1>2, <1>6, FullProveMoves, ActorTypes DEF Moves
<1>7. ASSUME NEW j \in Jobs, Proved(j) PROVE CurvesKept'
  <2>1. Active(j)
    BY <1>7, ProvedMoves DEF Active, Waiting, Open
  <2> QED
    BY <1>1, <1>7, <2>1, ProvedMoves, ActorTypes DEF Moves
<1>8. ASSUME NEW j \in Jobs, ReadVkey(j) PROVE CurvesKept'
  <2>1. Active(j)
    BY <1>8, ReadVkeyMoves DEF Active, Waiting, Open
  <2>2. PICK to \in {"verify", "refused"} : pc' = [pc EXCEPT ![j] = to]
    BY <1>8, ReadVkeyMoves DEF Moves
  <2> QED
    BY <1>1, <1>8, <2>1, <2>2, ReadVkeyMoves, ActorTypes
<1>9. ASSUME NEW a \in Actors, Verify(a) PROVE CurvesKept'
  BY <1>2, <1>9, VerifyMoves DEF Moves
<1>10. ASSUME NEW a \in Actors, Throws(a) PROVE CurvesKept'
  <2>1. PICK to \in {"refused", "checked"} : pc' = [pc EXCEPT ![a] = to]
    BY <1>10, ThrowsMoves DEF Moves
  <2> QED
    BY <1>1, <1>10, <2>1, ThrowsMoves DEF Open
<1>11. ASSUME NEW j \in Jobs, Emit(j) PROVE CurvesKept'
  BY <1>1, <1>11, EmitMoves, ActorTypes DEF Open
<1>12. ASSUME NEW v \in Checks, Conclude(v) PROVE CurvesKept'
  BY <1>1, <1>12, ConcludeMoves, ActorTypes DEF Open, Moves
<1> QED
  BY <1>3, <1>4, <1>5, <1>6, <1>7, <1>8, <1>9, <1>10, <1>11, <1>12
     DEF Next, JobStep, CallStep

-----------------------------------------------------------------------------
(* ChecksLook.                                                             *)

LEMMA LooksKept ==
  ASSUME NEW v \in Checks, Looks(v), check'[v] = check[v],
         \A k \in Jobs : pc[k] = "returned" => pc'[k] = "returned" /\ envelope'[k] = envelope[k]
  PROVE  Looks(v)'
<1> DEFINE of == check[v].of
<1>1. of \in Jobs /\ pc[of] = "returned"
  BY DEF Looks
<1>2. PICK k \in Jobs, f \in Fields :
        /\ pc[k] = "returned"
        /\ check[v].envelope = [envelope[of] EXCEPT ![f] = envelope[k][f]]
  BY DEF Looks
<1>3. check'[v].of = of /\ check'[v].envelope = check[v].envelope
  OBVIOUS
<1> HIDE DEF of
<1>4. /\ envelope'[of] = envelope[of] /\ envelope'[k] = envelope[k]
      /\ pc'[of] = "returned" /\ pc'[k] = "returned"
  BY <1>1, <1>2
<1>5. check'[v].envelope = [envelope'[check'[v].of] EXCEPT ![f] = envelope'[k][f]]
  BY <1>2, <1>3, <1>4, Zenon
<1>6. check'[v].of \in Jobs /\ pc'[check'[v].of] = "returned"
  BY <1>1, <1>3, <1>4
<1>7. \E n \in Jobs, g \in Fields :
        /\ pc'[n] = "returned"
        /\ check'[v].envelope = [envelope'[check'[v].of] EXCEPT ![g] = envelope'[n][g]]
  BY <1>4, <1>5, Zenon
<1> QED
  BY <1>6, <1>7, Zenon DEF Looks

\* No step undoes what a job returned.
LEMMA ReturnedStays ==
  ASSUME TypeOK, ChecksLook, Next
  PROVE  \A k \in Jobs : pc[k] = "returned" =>
           pc'[k] = "returned" /\ envelope'[k] = envelope[k]
<1>1. ASSUME NEW a \in Actors, NEW to, Moves(a, to), pc[a] # "returned"
      PROVE  \A k \in Jobs : pc[k] = "returned" =>
               pc'[k] = "returned" /\ envelope'[k] = envelope[k]
  BY <1>1, ActorTypes DEF Moves
<1>2. ASSUME NEW j \in Jobs, Submit(j)
      PROVE  \A k \in Jobs : pc[k] = "returned" =>
               pc'[k] = "returned" /\ envelope'[k] = envelope[k]
  BY <1>2, SubmitMade, ActorTypes
<1>3. ASSUME NEW j \in Jobs, Emit(j)
      PROVE  \A k \in Jobs : pc[k] = "returned" =>
               pc'[k] = "returned" /\ envelope'[k] = envelope[k]
  BY <1>3, EmitMoves, ActorTypes
<1>4. ASSUME NEW v \in Checks, Present(v)
      PROVE  \A k \in Jobs : pc[k] = "returned" =>
               pc'[k] = "returned" /\ envelope'[k] = envelope[k]
  <2>1. PICK to \in {"verify", "checked"} : pc' = [pc EXCEPT ![v] = to]
    BY <1>4, PresentMoves
  <2>2. envelope' = envelope
    BY <1>4, PresentMoves
  <2> QED
    BY <2>1, <2>2, ActorTypes
<1>5. ASSUME NEW j \in Jobs, FullProve(j) \/ Proved(j) \/ ReadVkey(j)
      PROVE  \A k \in Jobs : pc[k] = "returned" =>
               pc'[k] = "returned" /\ envelope'[k] = envelope[k]
  BY <1>1, <1>5, FullProveMoves, ProvedMoves, ReadVkeyMoves, ActorTypes
<1>6. ASSUME NEW a \in Actors, Verify(a) \/ Verified(a) \/ Throws(a)
      PROVE  \A k \in Jobs : pc[k] = "returned" =>
               pc'[k] = "returned" /\ envelope'[k] = envelope[k]
  BY <1>1, <1>6, VerifyMoves, VerifiedMoves, TerminateCurveTypes, ThrowsMoves
<1>7. ASSUME NEW v \in Checks, Conclude(v)
      PROVE  \A k \in Jobs : pc[k] = "returned" =>
               pc'[k] = "returned" /\ envelope'[k] = envelope[k]
  BY <1>1, <1>7, ConcludeMoves, ActorTypes
<1> QED
  BY <1>2, <1>3, <1>4, <1>5, <1>6, <1>7 DEF Next, JobStep, CallStep

LEMMA ChecksLookStep ==
  ASSUME TypeOK, CurvesKept, ChecksLook, Next
  PROVE  ChecksLook'
<1>0. \A k \in Jobs : pc[k] = "returned" => pc'[k] = "returned" /\ envelope'[k] = envelope[k]
  BY ReturnedStays
<1> USE ActorTypes
<1>a. \A v \in Checks : CheckLooks(v)
  BY DEF ChecksLook
\* A check that no step concerned.
<1>1. ASSUME NEW v \in Checks, check'[v] = check[v], pc'[v] = pc[v],
             verdict'[v] = verdict[v], met \subseteq met'
      PROVE  CheckLooks(v)'
  <2>1. CheckLooks(v)
    BY <1>a
  <2>2. pc[v] # "idle" => Looks(v)'
    BY <1>0, <1>1, <2>1, LooksKept DEF CheckLooks
  <2> QED
    BY <1>1, <2>1, <2>2 DEF CheckLooks
\* A check that goes on with what it looked at.
<1>2. ASSUME NEW v \in Checks, NEW to, Moves(v, to),
             to \in {"verifying", "ending", "ended", "checked"},
             pc[v] \in Open,
             to = "checked" /\ v \notin met' =>
               verdict'[v] = Valid(check[v].envelope, check[v].against)
      PROVE  CheckLooks(v)'
  <2>1. CheckLooks(v) /\ pc[v] # "idle"
    BY <1>2, <1>a DEF Open
  <2>2. pc'[v] = to /\ check'[v] = check[v]
    BY <1>2 DEF Moves
  <2>3. Looks(v)'
    BY <1>0, <2>1, <2>2, LooksKept DEF CheckLooks
  <2>4. check[v].bound = TRUE
    BY <1>2, <2>1 DEF CheckLooks
  <2>5. to = "checked" /\ v \notin met' =>
          verdict'[v] = (check'[v].bound /\ Valid(check'[v].envelope, check'[v].against))
    <3>1. Valid(check[v].envelope, check[v].against) \in BOOLEAN
      BY DEF Valid
    <3> QED
      BY <1>2, <2>2, <2>4, <3>1
  <2>6. check'[v].bound = TRUE
    BY <2>2, <2>4
  <2>7. /\ pc'[v] \in {"idle", "verify", "verifying", "ending", "ended", "checked"}
        /\ pc'[v] = "checked" /\ v \notin met' =>
             verdict'[v] = (check'[v].bound /\ Valid(check'[v].envelope, check'[v].against))
    BY <1>2, <2>2, <2>5
  <2> QED
    BY <2>3, <2>6, <2>7, Zenon DEF CheckLooks
<1>3. ASSUME NEW j \in Jobs, Submit(j) PROVE \A v \in Checks : CheckLooks(v)'
  <2>1. met' = met
    BY <1>3, SubmitMade DEF curves
  <2> QED
    BY <1>1, <1>3, <2>1, SubmitMade
<1>4. ASSUME NEW j \in Jobs, Emit(j) PROVE \A v \in Checks : CheckLooks(v)'
  BY <1>1, <1>4, EmitMoves
<1>5. ASSUME NEW j \in Jobs, FullProve(j) PROVE \A v \in Checks : CheckLooks(v)'
  BY <1>1, <1>5, FullProveMoves, TakeCurveTypes DEF Moves
<1>6. ASSUME NEW j \in Jobs, Proved(j) PROVE \A v \in Checks : CheckLooks(v)'
  BY <1>1, <1>6, ProvedMoves DEF Moves
<1>7. ASSUME NEW j \in Jobs, ReadVkey(j) PROVE \A v \in Checks : CheckLooks(v)'
  BY <1>1, <1>7, ReadVkeyMoves DEF Moves
<1>8. ASSUME NEW a \in Actors, Verify(a), NEW v \in Checks PROVE CheckLooks(v)'
  <2>1. Moves(a, "verifying") /\ pc[a] = "verify" /\ UNCHANGED verdict /\ met \subseteq met'
    BY <1>8, VerifyMoves, TakeCurveTypes
  <2>2. CASE v = a
    BY <1>2, <2>1, <2>2 DEF Open
  <2>3. CASE v # a
    BY <1>1, <2>1, <2>3 DEF Moves
  <2> QED
    BY <2>2, <2>3
<1>9. ASSUME NEW a \in Actors, Verified(a), NEW v \in Checks PROVE CheckLooks(v)'
  <2>1. PICK to \in {"ending", "ended"} : Moves(a, to)
    BY <1>9, VerifiedMoves
  <2>2. pc[a] = "verifying" /\ UNCHANGED verdict /\ met' = met
    BY <1>9, VerifiedMoves, TerminateCurveTypes
  <2>3. CASE v = a
    BY <1>2, <2>1, <2>2, <2>3 DEF Open
  <2>4. CASE v # a
    BY <1>1, <2>1, <2>2, <2>4 DEF Moves
  <2> QED
    BY <2>3, <2>4
<1>10. ASSUME NEW a \in Actors, Throws(a), NEW v \in Checks PROVE CheckLooks(v)'
  <2>1. CASE v = a
    <3>1. Moves(v, "checked") /\ pc[v] \in Open /\ UNCHANGED met
      BY <1>10, <2>1, ThrowsMoves DEF Open
    <3>2. pc[v] # "proving"
      BY <1>a DEF CheckLooks
    <3>3. pc[v] = "verifying" /\ ~Undisturbed(v)
      BY <1>10, <2>1, <3>2, ThrowsMoves
    <3>4. v \in met
      BY <3>3 DEF CurvesKept
    <3> QED
      BY <1>2, <3>1, <3>4
  <2>2. CASE v # a
    <3>1. \E to : Moves(a, to)
      BY <1>10, ThrowsMoves
    <3> QED
      BY <1>1, <1>10, <2>2, <3>1, ThrowsMoves DEF Moves
  <2> QED
    BY <2>1, <2>2
<1>11. ASSUME NEW u \in Checks, Conclude(u), NEW v \in Checks PROVE CheckLooks(v)'
  <2>1. CASE v = u
    BY <1>2, <1>11, <2>1, ConcludeMoves DEF Open
  <2>2. CASE v # u
    BY <1>1, <1>11, <2>2, ConcludeMoves DEF Moves
  <2> QED
    BY <2>1, <2>2
<1>12. ASSUME NEW u \in Checks, Present(u), NEW v \in Checks PROVE CheckLooks(v)'
  <2>1. PICK to \in {"verify", "checked"} : pc' = [pc EXCEPT ![u] = to]
    BY <1>12, PresentMoves
  <2>2. UNCHANGED <<request, envelope, curves>> /\ UNCHANGED met
    BY <1>12, PresentMoves DEF curves
  <2>3. CASE v = u
    <3>1. pc'[u] = to
      BY <2>1
    <3>2. /\ pc'[u] = "verify" => check'[u].bound = TRUE
          /\ pc'[u] = "checked" =>
               verdict'[u] = (check'[u].bound /\ Valid(check'[u].envelope, check'[u].against))
      BY <1>12, PresentMoves, Zenon
    <3>3. check'[u].of \in Jobs /\ pc'[check'[u].of] = "returned"
      BY <1>0, <1>12, PresentMoves
    <3>4. PICK k \in Jobs, f \in Fields :
            /\ pc[k] = "returned"
            /\ check'[u].envelope = [envelope[check'[u].of] EXCEPT ![f] = envelope[k][f]]
      BY <1>12, PresentMoves, ZenonT(30)
    <3>5. check'[u].envelope = [envelope'[check'[u].of] EXCEPT ![f] = envelope'[k][f]]
      BY <2>2, <3>4, ZenonT(30)
    <3>6. Looks(u)'
      BY <1>0, <3>3, <3>4, <3>5, ZenonT(30) DEF Looks
    <3>7. /\ pc'[u] \in {"idle", "verify", "verifying", "ending", "ended", "checked"}
          /\ pc'[u] \in Open => check'[u].bound = TRUE
      BY <3>1, <3>2 DEF Open
    <3> QED
      BY <2>3, <3>2, <3>6, <3>7, Zenon DEF CheckLooks
  <2>4. CASE v # u
    <3>0. /\ \A w \in Checks \ {u} : check'[w] = check[w]
          /\ \A b \in Actors \ {u} : verdict'[b] = verdict[b]
      BY <1>12, PresentMoves, Zenon
    <3>1. check'[v] = check[v] /\ verdict'[v] = verdict[v]
      BY <2>4, <3>0
    <3> QED
      BY <1>1, <2>1, <2>2, <2>4, <3>1
  <2> QED
    BY <2>3, <2>4
<1>13. \A v \in Checks : CheckLooks(v)'
  BY <1>3, <1>4, <1>5, <1>6, <1>7, <1>8, <1>9, <1>10, <1>11, <1>12
     DEF Next, JobStep, CallStep
<1> QED
  BY <1>13 DEF ChecksLook

-----------------------------------------------------------------------------
(* The theorems.                                                           *)

KitInv == TypeOK /\ JobsMade /\ CurvesKept /\ ChecksLook

LEMMA KitInit ==
  ASSUME Init
  PROVE  KitInv
<1>1. TypeOK
  BY DEF Init, TypeOK
<1>2. JobsMade
  <2>1. \A j \in Jobs : pc[j] = "idle"
    BY DEF Init, Actors
  <2> QED
    BY <2>1 DEF JobsMade, Proving
<1>3. CurvesKept
  BY DEF Init, CurvesKept, Active, Open
<1>4. ChecksLook
  BY DEF Init, ChecksLook, CheckLooks, Open, Actors
<1> QED
  BY <1>1, <1>2, <1>3, <1>4 DEF KitInv

LEMMA KitStep ==
  ASSUME KitInv, [Next]_kitVars
  PROVE  KitInv'
<1>1. CASE Next
  BY <1>1, TypeStep, JobsMadeStep, CurvesKeptStep, ChecksLookStep DEF KitInv
<1>2. CASE UNCHANGED kitVars
  <2>1. /\ env' = env /\ disk' = disk /\ intent' = intent /\ envelope' = envelope
        /\ check' = check /\ verdict' = verdict /\ pc' = pc /\ curve' = curve
        /\ live' = live /\ holds' = holds /\ met' = met
    BY <1>2 DEF kitVars
  <2>2. TypeOK' /\ JobsMade' /\ CurvesKept'
    BY <2>1 DEF KitInv, TypeOK, JobsMade, CurvesKept, Active, Waiting, Undisturbed
  <2>3. ASSUME NEW v \in Checks PROVE CheckLooks(v)'
    <3>1. CheckLooks(v)
      BY DEF KitInv, ChecksLook
    <3>2. Looks(v) => Looks(v)'
      BY <2>1, LooksKept
    <3> QED
      BY <2>1, <3>1, <3>2 DEF CheckLooks
  <2> QED
    BY <2>2, <2>3 DEF KitInv, ChecksLook
<1> QED
  BY <1>1, <1>2

LEMMA KitInvariant == Spec => []KitInv
BY KitInit, KitStep, PTL DEF Spec

\* Every variable keeps its type.
THEOREM KitTypes == Spec => []TypeOK
<1>1. KitInv => TypeOK
  BY DEF KitInv
<1> QED
  BY <1>1, KitInvariant, PTL

\* A card without the data-used warning stands for a Groth16 proof over its
\* own capsule's zk root and its own program's hash (prove.ts:19-52).
THEOREM CardsAreModest == Spec => []CardsDoNotOverclaim
<1>1. ASSUME KitInv PROVE CardsDoNotOverclaim
  <2>1. SUFFICES ASSUME NEW j \in Jobs, pc[j] = "returned"
                 PROVE  LET e == envelope[j] IN
                        /\ ~Card(e).dataUsedWarning =>
                             /\ e.backend = "bn254-groth16" /\ ArtifactVerifies(e)
                             /\ e.signals[2] = intent[j].capsule
                             /\ e.signals[3] = ComputeHash(intent[j])
                        /\ env.production /\ ~env.allowPrebuilt /\ ~env.allowLocalDev =>
                             ~Card(e).dataUsedWarning
    BY DEF CardsDoNotOverclaim
  <2>2. /\ Asked(intent[j]) /\ Made(envelope[j], intent[j])
        /\ env.production /\ ~env.allowPrebuilt /\ ~env.allowLocalDev =>
             envelope[j].backend \in RealBackends
    BY <1>1, <2>1 DEF KitInv, JobsMade
  <2>3. Card(envelope[j]).dataUsedWarning = (envelope[j].backend \notin RealBackends)
    BY DEF Card
  <2>4. ASSUME envelope[j].backend \in RealBackends
        PROVE  /\ envelope[j].backend = "bn254-groth16" /\ ArtifactVerifies(envelope[j])
               /\ envelope[j].signals[2] = intent[j].capsule
               /\ envelope[j].signals[3] = ComputeHash(intent[j])
    <3>1. envelope[j] = Groth16Envelope(intent[j]) /\ Provable(intent[j])
      <4>1. \A b \in {"local-dev", "prebuilt"} : SignedEnvelope(intent[j], b).backend = b
        BY SignedFields
      <4> QED
        BY <2>2, <2>4, <4>1 DEF Made, RealBackends
    <3>2. /\ envelope[j].signals = Signals(intent[j])
          /\ envelope[j].proof = Groth16Proof(intent[j].recipe, Signals(intent[j]))
          /\ envelope[j].vkey = intent[j].recipe /\ envelope[j].backend = "bn254-groth16"
      BY <3>1, Groth16Fields
    <3>3. /\ Signals(intent[j])[2] = intent[j].capsule
          /\ Signals(intent[j])[3] = ComputeHash(intent[j])
      BY <3>1 DEF Signals, ZkRoot, Provable
    <3>4. ArtifactVerifies(envelope[j])
      BY <2>2, <3>1, <3>2 DEF Asked, ArtifactVerifies, HasArtifacts, Provable
    <3> QED
      BY <3>2, <3>3, <3>4
  <2> QED
    BY <2>2, <2>3, <2>4
<1> QED
  BY <1>1, KitInvariant, PTL

\* A verification that shared no curve with another call accepts an envelope
\* exactly when every field verifyLocal reads is as it was returned, it reveals
\* what its proof says, and it is for the compiled intent it is checked against
\* (verify.ts:26-122); Unread names the fields whose alteration passes.
THEOREM VerdictsMatch == Spec => []VerdictMatchesProof
<1>1. ASSUME KitInv PROVE VerdictMatchesProof
  <2> SUFFICES ASSUME NEW v \in Checks, pc[v] = "checked", v \notin met
               PROVE  LET c == check[v] IN
                      verdict[v] = (/\ c.bound /\ Expected(c.envelope, c.against)
                                    /\ Faithful(c.of) /\ Intact(c.envelope, envelope[c.of]))
    BY DEF VerdictMatchesProof, Expected, Intact
  <2>1. /\ Looks(v)
        /\ verdict[v] = (check[v].bound /\ Valid(check[v].envelope, check[v].against))
    BY <1>1, Zenon DEF KitInv, ChecksLook, CheckLooks
  <2> DEFINE j == check[v].of
             e == check[v].envelope
             E == envelope[j]
  <2>2. j \in Jobs /\ pc[j] = "returned"
    BY <2>1 DEF Looks
  <2>3. PICK k \in Jobs, f \in Fields :
          pc[k] = "returned" /\ e = [E EXCEPT ![f] = envelope[k][f]]
    BY <2>1, Zenon DEF Looks
  <2>4. /\ Asked(intent[j]) /\ Made(E, intent[j])
        /\ Asked(intent[k]) /\ Made(envelope[k], intent[k])
    BY <1>1, <2>2, <2>3 DEF KitInv, JobsMade
  <2>5. Sound(e) <=> FaithfulTo(E, intent[j]) /\ Intact(e, E)
    <3> HIDE DEF j, E, e
    <3>1. CASE \E b \in {"local-dev", "prebuilt"} : E = SignedEnvelope(intent[j], b)
      <4>1. PICK b \in {"local-dev", "prebuilt"} : E = SignedEnvelope(intent[j], b)
        BY <3>1
      <4>2. LET M == SignedEnvelope(intent[j], b)
                m == [M EXCEPT ![f] = envelope[k][f]]
            IN  Sound(m) <=> FaithfulTo(M, intent[j]) /\ Intact(m, M)
        BY <2>4, SignedVerdict DEF Asked
      <4> QED
        BY <2>3, <4>1, <4>2, Zenon
    <3>2. CASE E = Groth16Envelope(intent[j]) /\ Provable(intent[j])
      <4>2. LET M == Groth16Envelope(intent[j])
                m == [M EXCEPT ![f] = envelope[k][f]]
            IN  Sound(m) <=> FaithfulTo(M, intent[j]) /\ Intact(m, M)
        BY <2>4, <3>2, Groth16Verdict DEF Asked
      <4> QED
        BY <2>3, <3>2, <4>2, Zenon
    <3> QED
      BY <2>4, <3>1, <3>2 DEF Made
  <2>6. Faithful(j) <=> FaithfulTo(E, intent[j])
    BY DEF Faithful, FaithfulTo
  <2>7. Valid(e, check[v].against) <=> Expected(e, check[v].against) /\ Sound(e)
    BY ValidIsSound
  <2> HIDE DEF j, e, E
  <2>8. verdict[v] = (check[v].bound /\ Expected(e, check[v].against)
                       /\ Faithful(j) /\ Intact(e, E))
    <3>1. verdict[v] = (check[v].bound /\ Valid(e, check[v].against))
      BY <2>1 DEF e
    <3>2. Valid(e, check[v].against) \in BOOLEAN
      BY DEF Valid
    <3> QED
      BY <2>5, <2>6, <2>7, <3>1, Zenon
  <2> QED
    BY <2>8, Zenon DEF j, e, E
<1> QED
  BY <1>1, KitInvariant, PTL

-----------------------------------------------------------------------------
(* The stored records (ProofLifecycle).                                    *)

\* A call that saw its transaction accepted, found a card, upgraded it; and
\* what it posted, which stays what it was once something was sent.
CallInv(c) ==
  /\ call[c].pc = "idle" => tx[c] = "none"
  /\ call[c].pc = "invoked" => posted[c] \in Posts /\ posted[c].sends # NoProof
  /\ tx[c] # "none" => posted[c] \in Posts /\ posted[c].sends # NoProof
  /\ call[c].pc \in {"verified", "hasCard", "cardSaved"} => tx[c] = "accepted"
  /\ call[c].pc = "hasCard" => posted[c].names \in Proofs /\ card[posted[c].names].stored
  /\ call[c].pc = "cardSaved" =>
       posted[c].names \in Proofs /\ StellarVerified(posted[c].names)

\* The rows prove has not written yet are absent, those it has are there.
ProveInv(p) ==
  /\ prover[p] \in {"capsule", "parts", "proving", "saveIntent", "saveEnvelope"} =>
       ~ envelopes[p].stored /\ ~ card[p].stored
  /\ prover[p] = "saveEnvelope" => p \in intents
  /\ prover[p] = "saveCard" => envelopes[p].stored /\ ~ card[p].stored

RecordInv(p) ==
  /\ card[p].stored => envelopes[p].stored
  /\ card[p].by # NoCall => card[p].stored /\ Accepted(card[p].by, p)
  /\ envelopes[p].by # NoCall => StellarVerified(p) /\ Accepted(envelopes[p].by, p)
  /\ envelopes[p].stored => envelopes[p].linked /\ p \in intents
  /\ ~ envelopes[p].asProved => Replaced(p) /\ InMemory

LocalInv(v) ==
  /\ local[v].pc # "idle" => local[v].of \in Proofs /\ envelopes[local[v].of].stored
  /\ local[v].pc # "unbound"
  /\ local[v].pc = "refusing" => CapsuleOf[local[v].of] \notin capsules \/ ~ InMemory
  /\ local[v].pc = "invalid" =>
       \/ CapsuleOf[local[v].of] \notin capsules \/ ~ InMemory
       \/ local[v].of \notin Consistent \/ local[v].copy # "proved"
  /\ local[v].copy = "overwritten" => local[v].of \in Proofs /\ Replaced(local[v].of) /\ InMemory

\* The inductive invariant.
LifecycleInv ==
  /\ LifecycleTypeOK
  /\ \A c \in Calls : CallInv(c)
  /\ \A p \in Proofs : ProveInv(p) /\ RecordInv(p)
  /\ \A v \in Locals : LocalInv(v)

-----------------------------------------------------------------------------

LEMMA LifecycleInitInv == LifecycleInit => LifecycleInv
<1> SUFFICES ASSUME LifecycleInit PROVE LifecycleInv
  OBVIOUS
<1>1. LifecycleTypeOK
  BY BoundAssumption
     DEF LifecycleInit, LifecycleTypeOK, NoEnvelope, NoCard, LocalIdle, Envelope
<1>2. \A c \in Calls : CallInv(c)
  BY DEF LifecycleInit, CallInv
<1>3. \A p \in Proofs : ProveInv(p) /\ RecordInv(p)
  BY DEF LifecycleInit, ProveInv, RecordInv, NoEnvelope, NoCard
<1>4. \A v \in Locals : LocalInv(v)
  BY DEF LifecycleInit, LocalInv
<1> QED
  BY <1>1, <1>2, <1>3, <1>4 DEF LifecycleInv

\* The shape of a step.
LEMMA LifecycleCases ==
  ASSUME [LifecycleNext]_vars
  PROVE  \/ Cleanup
         \/ \E v \in Verifiers : InitVerifier(v)
         \/ \E p \in Proofs : GetCapsule(p) \/ ReadParts(p) \/ BackendProves(p) \/ AbortProve(p)
         \/ \E p \in Proofs : SaveIntent(p)
         \/ \E p \in Proofs : SaveEnvelope(p)
         \/ \E p \in Proofs : SaveCard(p)
         \/ \E v \in Locals : LocalStep(v)
         \/ \E c \in Calls : OnStellarOffchain(c) \/ OnStellarGroth16(c)
         \/ \E c \in Calls : CliReturnsTrue(c) \/ CliRejects(c) \/ ReadCard(c) \/ AbortCall(c)
         \/ \E c \in Calls : SendTx(c) \/ ExecuteTx(c)
         \/ \E c \in Calls : SaveStellarCard(c)
         \/ \E c \in Calls : SaveStellarEnvelope(c)
         \/ UNCHANGED vars
BY DEF LifecycleNext, ProveStep, VerifyStep

\* What a request does when it comes in.
LEMMA PostOf ==
  ASSUME NEW c, OnStellarOffchain(c) \/ OnStellarGroth16(c)
  PROVE  \E e \in Posts :
           \/ \E answer \in {"not_configured", "committed_on_stellar"} :
                Post(c, e, "done", answer)
           \/ e.sends # NoProof /\ Post(c, e, "invoked", "none")
<1>1. CASE OnStellarOffchain(c)
  BY <1>1 DEF OnStellarOffchain
<1>2. CASE OnStellarGroth16(c)
  BY <1>2 DEF OnStellarGroth16
<1> QED
  BY <1>1, <1>2

LEMMA LocalStepTypes ==
  ASSUME LifecycleTypeOK, NEW v \in Locals, LocalStep(v)
  PROVE  LifecycleTypeOK'
<1>1. UNCHANGED <<store, chain, prover, calls, crashes>>
  BY DEF LocalStep, LocalGetEnvelope, FindIntent, LocalGetCapsule, LocalReadParts,
         LocalVerifyEnvelope, LocalGoto
<1>2. local' \in [Locals -> [of : Proofs \cup {NoProof},
                             pc : LocalIdle \cup {"intent", "capsule", "parts", "binding", "refusing"},
                             copy : {"proved", "posted", "overwritten"}]]
  <2>1. CASE LocalGetEnvelope(v)
    BY <2>1 DEF LocalGetEnvelope, RowCopy, LifecycleTypeOK
  <2>2. ASSUME NEW from, NEW to \in LocalIdle \cup {"capsule", "parts", "binding", "refusing"},
               LocalGoto(v, from, to)
        PROVE  local' \in [Locals -> [of : Proofs \cup {NoProof},
                             pc : LocalIdle \cup {"intent", "capsule", "parts", "binding", "refusing"},
                             copy : {"proved", "posted", "overwritten"}]]
    BY <2>2 DEF LocalGoto, LifecycleTypeOK
  <2>3. CASE FindIntent(v) \/ LocalGetCapsule(v)
    BY <2>2, <2>3 DEF FindIntent, LocalGetCapsule, LocalIdle
  <2>4. CASE LocalReadParts(v)
    BY <2>2, <2>4 DEF LocalReadParts
  <2>5. CASE LocalVerifyEnvelope(v)
    BY <2>2, <2>5 DEF LocalVerifyEnvelope, EnvelopeVerdicts, LocalIdle
  <2> QED
    BY <2>1, <2>3, <2>4, <2>5 DEF LocalStep
<1> QED
  BY <1>1, <1>2 DEF LifecycleTypeOK, store, chain, calls

LEMMA LifecycleTypeStep == LifecycleTypeOK /\ [LifecycleNext]_vars => LifecycleTypeOK'
<1> SUFFICES ASSUME LifecycleTypeOK, [LifecycleNext]_vars PROVE LifecycleTypeOK'
  OBVIOUS
<1> USE ProofsAssumption, CallsAssumption, BoundAssumption
<1>1. CASE Cleanup
  BY <1>1 DEF Cleanup, LifecycleTypeOK, chain, calls
<1>2. ASSUME NEW v \in Verifiers, InitVerifier(v) PROVE LifecycleTypeOK'
  BY <1>2 DEF InitVerifier, LifecycleTypeOK, store, calls
<1>3. ASSUME NEW p \in Proofs, GetCapsule(p) \/ ReadParts(p) \/ BackendProves(p) \/ AbortProve(p)
      PROVE  LifecycleTypeOK'
  <2>1. CASE AbortProve(p)
    BY <2>1 DEF AbortProve, LifecycleTypeOK, store, chain, calls
  <2>2. CASE GetCapsule(p)
    <3>1. (IF CapsuleFound(p) THEN "parts" ELSE "failed") \in {"parts", "failed"}
      OBVIOUS
    <3> QED
      BY <2>2, <3>1 DEF GetCapsule, ProverGoto, LifecycleTypeOK, store, chain, calls
  <2>4. CASE BackendProves(p)
    BY <2>4 DEF BackendProves, ProverGoto, LifecycleTypeOK, store, chain, calls
  <2>3. CASE ReadParts(p)
    <3>1. PICK ok : ProverGoto(p, "parts", IF ok THEN "proving" ELSE "failed")
      BY <2>3 DEF ReadParts
    <3> QED
      BY <2>3, <3>1 DEF ReadParts, ProverGoto, LifecycleTypeOK, store, chain, calls
  <2> QED
    BY <1>3, <2>1, <2>2, <2>3, <2>4
<1>4. ASSUME NEW p \in Proofs, SaveIntent(p) PROVE LifecycleTypeOK'
  BY <1>4 DEF SaveIntent, ProverGoto, LifecycleTypeOK, chain, calls
<1>5. ASSUME NEW p \in Proofs, SaveEnvelope(p) PROVE LifecycleTypeOK'
  BY <1>5 DEF SaveEnvelope, UpsertEnvelope, ProverGoto, LifecycleTypeOK, chain, calls
<1>6. ASSUME NEW p \in Proofs, SaveCard(p) PROVE LifecycleTypeOK'
  BY <1>6 DEF SaveCard, ProverGoto, LifecycleTypeOK, chain, calls
<1>7. ASSUME NEW v \in Locals, LocalStep(v) PROVE LifecycleTypeOK'
  BY <1>7, LocalStepTypes
<1>8. ASSUME NEW c \in Calls, OnStellarOffchain(c) \/ OnStellarGroth16(c) PROVE LifecycleTypeOK'
  <2>1. PICK e \in Posts, to \in {"done", "invoked"},
             answer \in {"not_configured", "committed_on_stellar", "none"} : Post(c, e, to, answer)
    BY <1>8, PostOf
  <2>2. e \in Envelope
    BY PostsAssumption
  <2> QED
    BY <2>1, <2>2 DEF Post, LifecycleTypeOK, store, chain
<1>9. ASSUME NEW c \in Calls, CliReturnsTrue(c) \/ CliRejects(c) \/ ReadCard(c) \/ AbortCall(c)
      PROVE  LifecycleTypeOK'
  BY <1>9 DEF CliReturnsTrue, CliRejects, ReadCard, AbortCall, CallGoto, LifecycleTypeOK,
              store, chain
<1>10. ASSUME NEW c \in Calls, SendTx(c) \/ ExecuteTx(c) PROVE LifecycleTypeOK'
  BY <1>10 DEF SendTx, ExecuteTx, LifecycleTypeOK, store, calls
<1>11. ASSUME NEW c \in Calls, SaveStellarCard(c) PROVE LifecycleTypeOK'
  BY <1>11 DEF SaveStellarCard, StellarCard, CallGoto, LifecycleTypeOK, chain
<1>12. ASSUME NEW c \in Calls, SaveStellarEnvelope(c) PROVE LifecycleTypeOK'
  <2>1. posted[c].asProved \in BOOLEAN
    BY DEF LifecycleTypeOK, Envelope
  <2> QED
    BY <1>12, <2>1 DEF SaveStellarEnvelope, UpsertEnvelope, CallGoto, LifecycleTypeOK, chain
<1>13. CASE UNCHANGED vars
  BY <1>13 DEF vars, store, chain, calls, LifecycleTypeOK
<1> QED
  BY <1>1, <1>2, <1>3, <1>4, <1>5, <1>6, <1>7, <1>8, <1>9, <1>10, <1>11, <1>12, <1>13,
     LifecycleCases

-----------------------------------------------------------------------------

\* An accepted transaction stays accepted, and so does what its call posted.
Kept(c)      == tx[c] = "accepted" => tx'[c] = "accepted" /\ posted'[c] = posted[c]
AcceptedKept == \A c \in Calls : Kept(c)

LEMMA AcceptedStays ==
  ASSUME LifecycleInv, [LifecycleNext]_vars PROVE AcceptedKept
<1>0. LifecycleTypeOK /\ \A c \in Calls : CallInv(c)
  BY DEF LifecycleInv
<1>1. CASE UNCHANGED <<tx, posted>>
  BY <1>1 DEF AcceptedKept, Kept
<1>2. ASSUME NEW c \in Calls, OnStellarOffchain(c) \/ OnStellarGroth16(c) PROVE AcceptedKept
  <2>1. UNCHANGED tx /\ call[c].pc = "idle" /\ \A d \in Calls \ {c} : posted'[d] = posted[d]
    BY <1>0, <1>2, PostOf DEF Post, chain, LifecycleTypeOK
  <2>2. tx[c] = "none"
    BY <1>0, <2>1 DEF CallInv
  <2> QED
    BY <2>1, <2>2 DEF AcceptedKept, Kept
<1>3. ASSUME NEW c \in Calls, SendTx(c) \/ ExecuteTx(c) PROVE AcceptedKept
  BY <1>0, <1>3 DEF SendTx, ExecuteTx, calls, LifecycleTypeOK, AcceptedKept, Kept
<1>4. \/ UNCHANGED <<tx, posted>>
      \/ \E c \in Calls : OnStellarOffchain(c) \/ OnStellarGroth16(c)
      \/ \E c \in Calls : SendTx(c) \/ ExecuteTx(c)
  BY DEF LifecycleNext, Cleanup, InitVerifier, ProveStep, GetCapsule, ReadParts, BackendProves,
         SaveIntent, SaveEnvelope, SaveCard, AbortProve, LocalStep, LocalGetEnvelope, FindIntent,
         LocalGetCapsule, LocalReadParts, LocalVerifyEnvelope, LocalGoto, VerifyStep,
         CliReturnsTrue, CliRejects, ReadCard, SaveStellarCard, SaveStellarEnvelope, CallGoto,
         AbortCall, vars, chain, calls
<1> QED
  BY <1>1, <1>2, <1>3, <1>4

LEMMA ReplacedStays ==
  ASSUME NEW p, AcceptedKept, Replaced(p) PROVE Replaced(p)'
<1>1. PICK c \in Calls : Accepted(c, p) /\ ~ posted[c].asProved
  BY DEF Replaced
<1>2. Accepted(c, p)' /\ ~ posted'[c].asProved
  BY <1>1 DEF AcceptedKept, Kept, Accepted
<1> QED
  BY <1>2 DEF Replaced

\* No row is lost and no card goes back.
RowKept(p) ==
  /\ card[p].stored => card'[p].stored
  /\ StellarVerified(p) => StellarVerified(p)'
  /\ envelopes[p].stored => envelopes'[p].stored
RowsKept == \A p \in Proofs : RowKept(p)

\* The steps that write them.
LEMMA RowCases ==
  ASSUME [LifecycleNext]_vars
  PROVE  \/ UNCHANGED <<envelopes, card, intents>>
         \/ \E p \in Proofs : SaveIntent(p)
         \/ \E p \in Proofs : SaveEnvelope(p)
         \/ \E p \in Proofs : SaveCard(p)
         \/ \E c \in Calls : SaveStellarCard(c)
         \/ \E c \in Calls : SaveStellarEnvelope(c)
<1>1. ASSUME NEW c \in Calls, OnStellarOffchain(c) \/ OnStellarGroth16(c)
      PROVE  UNCHANGED <<envelopes, card, intents>>
  BY <1>1, PostOf DEF Post, store
<1> QED
  BY <1>1 DEF LifecycleNext, Cleanup, InitVerifier, ProveStep, GetCapsule, ReadParts,
     BackendProves, AbortProve, LocalStep, LocalGetEnvelope, FindIntent, LocalGetCapsule,
     LocalReadParts, LocalVerifyEnvelope, LocalGoto, SendTx, ExecuteTx, VerifyStep,
     CliReturnsTrue, CliRejects, ReadCard, AbortCall, vars, store

LEMMA RowsStay ==
  ASSUME LifecycleInv, [LifecycleNext]_vars PROVE RowsKept
<1>0. LifecycleTypeOK /\ \A p \in Proofs : ProveInv(p)
  BY DEF LifecycleInv
<1> USE ProofsAssumption, CallsAssumption DEF RowsKept, RowKept, StellarVerified
<1>1. CASE UNCHANGED <<envelopes, card, intents>>
  BY <1>1
<1>2. ASSUME NEW q \in Proofs, SaveIntent(q) PROVE RowsKept
  BY <1>2 DEF SaveIntent
<1>3. ASSUME NEW q \in Proofs, SaveEnvelope(q) PROVE RowsKept
  BY <1>0, <1>3 DEF SaveEnvelope, UpsertEnvelope, LifecycleTypeOK
<1>4. ASSUME NEW q \in Proofs, SaveCard(q) PROVE RowsKept
  BY <1>0, <1>4 DEF SaveCard, ProverGoto, ProveInv, LifecycleTypeOK
<1>5. ASSUME NEW c \in Calls, SaveStellarCard(c) PROVE RowsKept
  BY <1>0, <1>5 DEF SaveStellarCard, StellarCard, LifecycleTypeOK
<1>6. ASSUME NEW c \in Calls, SaveStellarEnvelope(c) PROVE RowsKept
  BY <1>0, <1>6 DEF SaveStellarEnvelope, UpsertEnvelope, LifecycleTypeOK
<1> QED
  BY <1>1, <1>2, <1>3, <1>4, <1>5, <1>6, RowCases

LEMMA CallInvStep ==
  ASSUME LifecycleInv, [LifecycleNext]_vars, NEW c \in Calls PROVE CallInv(c)'
<1>0. LifecycleTypeOK /\ CallInv(c)
  BY DEF LifecycleInv
<1>1. RowsKept
  BY RowsStay
<1> USE DEF RowsKept, RowKept
<1>2. CASE UNCHANGED <<tx, calls>>
  BY <1>0, <1>1, <1>2 DEF CallInv, calls
<1>3. ASSUME NEW d \in Calls, OnStellarOffchain(d) \/ OnStellarGroth16(d) PROVE CallInv(c)'
  <2>1. PICK e \in Posts :
           \/ \E answer \in {"not_configured", "committed_on_stellar"} :
                Post(d, e, "done", answer)
           \/ e.sends # NoProof /\ Post(d, e, "invoked", "none")
    BY <1>3, PostOf
  <2>2. UNCHANGED <<store, tx>> /\ call[d].pc = "idle"
    BY <2>1 DEF Post, chain
  <2>3. CASE d = c
    <3>1. /\ posted'[c] = e /\ tx[c] = "none"
          /\ call'[c].pc = "done" \/ (call'[c].pc = "invoked" /\ e.sends # NoProof)
      BY <1>0, <2>1, <2>2, <2>3 DEF Post, LifecycleTypeOK, CallInv
    <3> QED
      BY <2>2, <3>1 DEF CallInv
  <2>4. CASE d # c
    <3>1. posted'[c] = posted[c] /\ call'[c] = call[c]
      BY <1>0, <2>1, <2>4 DEF Post, LifecycleTypeOK
    <3> QED
      BY <1>0, <1>1, <2>2, <3>1 DEF CallInv
  <2> QED
    BY <2>3, <2>4
<1>4. ASSUME NEW d \in Calls, CliReturnsTrue(d) \/ CliRejects(d) \/ ReadCard(d) \/ AbortCall(d)
      PROVE  CallInv(c)'
  <2>1. UNCHANGED <<store, tx, posted>>
    BY <1>4 DEF CliReturnsTrue, CliRejects, ReadCard, AbortCall, CallGoto, chain
  <2>2. CASE d = c
    <3>1. \/ call'[c].pc = "done"
          \/ call'[c].pc = "verified" /\ tx[c] = "accepted"
          \/ /\ call'[c].pc = "hasCard" /\ call[c].pc = "verified"
             /\ posted[c].names \in Proofs /\ card[posted[c].names].stored
      BY <1>0, <1>4, <2>2 DEF CliReturnsTrue, CliTrue, CliRejects, ReadCard, AbortCall, CallGoto,
                              LifecycleTypeOK
    <3> QED
      BY <1>0, <2>1, <3>1 DEF CallInv, store
  <2>3. CASE d # c
    <3>1. call'[c] = call[c]
      BY <1>0, <1>4, <2>3 DEF CliReturnsTrue, CliRejects, ReadCard, AbortCall, CallGoto,
                              LifecycleTypeOK
    <3> QED
      BY <1>0, <1>1, <2>1, <3>1 DEF CallInv
  <2> QED
    BY <2>2, <2>3
<1>5. ASSUME NEW d \in Calls, SendTx(d) \/ ExecuteTx(d) PROVE CallInv(c)'
  BY <1>0, <1>1, <1>5 DEF SendTx, ExecuteTx, LifecycleTypeOK, CallInv, calls
<1>6. ASSUME NEW d \in Calls, SaveStellarCard(d) PROVE CallInv(c)'
  <2>1. /\ UNCHANGED <<tx, posted>> /\ call[d].pc = "hasCard"
        /\ call'[c] = call[c] \/ (d = c /\ call'[c].pc = "cardSaved")
    BY <1>0, <1>6 DEF SaveStellarCard, CallGoto, LifecycleTypeOK, chain
  <2>2. CASE d = c
    <3>1. PICK p \in Proofs : p = posted[c].names
      BY <1>0, <2>1, <2>2 DEF CallInv
    <3>2. StellarVerified(p)'
      BY <1>0, <1>6, <2>2, <3>1, CallsAssumption
         DEF SaveStellarCard, StellarCard, StellarVerified, LifecycleTypeOK
    <3> QED
      BY <1>0, <1>1, <2>1, <2>2, <3>1, <3>2 DEF CallInv, StellarVerified
  <2>3. CASE d # c
    BY <1>0, <1>1, <2>1, <2>3 DEF CallInv
  <2> QED
    BY <2>2, <2>3
<1>7. ASSUME NEW d \in Calls, SaveStellarEnvelope(d) PROVE CallInv(c)'
  <2>1. /\ UNCHANGED <<tx, posted>>
        /\ call'[c] = call[c] \/ (d = c /\ call'[c].pc = "done")
    BY <1>0, <1>7 DEF SaveStellarEnvelope, CallGoto, LifecycleTypeOK, chain
  <2> QED
    BY <1>0, <1>1, <2>1 DEF CallInv
<1>8. \/ UNCHANGED <<tx, calls>>
      \/ \E d \in Calls : OnStellarOffchain(d) \/ OnStellarGroth16(d)
      \/ \E d \in Calls : CliReturnsTrue(d) \/ CliRejects(d) \/ ReadCard(d) \/ AbortCall(d)
      \/ \E d \in Calls : SendTx(d) \/ ExecuteTx(d)
      \/ \E d \in Calls : SaveStellarCard(d)
      \/ \E d \in Calls : SaveStellarEnvelope(d)
  BY LifecycleCases
     DEF Cleanup, InitVerifier, GetCapsule, ReadParts, BackendProves, SaveIntent, SaveEnvelope,
         SaveCard, AbortProve, LocalStep, LocalGetEnvelope, FindIntent, LocalGetCapsule,
         LocalReadParts, LocalVerifyEnvelope, LocalGoto, vars, chain
<1> QED
  BY <1>2, <1>3, <1>4, <1>5, <1>6, <1>7, <1>8

LEMMA ProveInvStep ==
  ASSUME LifecycleInv, [LifecycleNext]_vars, NEW q \in Proofs PROVE ProveInv(q)'
<1>0. /\ LifecycleTypeOK /\ \A c \in Calls : CallInv(c)
      /\ ProveInv(q) /\ RecordInv(q)
  BY DEF LifecycleInv
<1> USE ProofsAssumption DEF LifecycleTypeOK, ProveInv
<1>1. CASE UNCHANGED <<envelopes, card, intents, prover>>
  BY <1>0, <1>1
<1>2. ASSUME NEW p \in Proofs, GetCapsule(p) \/ ReadParts(p) \/ BackendProves(p) \/ AbortProve(p)
      PROVE  ProveInv(q)'
  <2>1. /\ UNCHANGED store
        /\ prover'[q] = prover[q] \/
             (q = p /\ \/ prover'[q] = "failed"
                       \/ /\ prover'[q] \in {"parts", "proving", "saveIntent"}
                          /\ prover[q] \in {"capsule", "parts", "proving"})
    <3>1. CASE AbortProve(p)
      BY <1>0, <3>1 DEF AbortProve
    <3>2. CASE GetCapsule(p) \/ ReadParts(p) \/ BackendProves(p)
      BY <1>0, <3>2 DEF GetCapsule, ReadParts, BackendProves, ProverGoto
    <3> QED
      BY <1>2, <3>1, <3>2
  <2> QED
    BY <1>0, <2>1 DEF store
<1>3. ASSUME NEW p \in Proofs, SaveIntent(p) PROVE ProveInv(q)'
  BY <1>0, <1>3 DEF SaveIntent, ProverGoto
<1>4. ASSUME NEW p \in Proofs, SaveEnvelope(p) PROVE ProveInv(q)'
  BY <1>0, <1>4 DEF SaveEnvelope, UpsertEnvelope, ProverGoto
<1>5. ASSUME NEW p \in Proofs, SaveCard(p) PROVE ProveInv(q)'
  BY <1>0, <1>5 DEF SaveCard, ProverGoto
<1>6. ASSUME NEW c \in Calls, SaveStellarCard(c) PROVE ProveInv(q)'
  <2>1. posted[c].names \in Proofs /\ card[posted[c].names].stored
    BY <1>0, <1>6 DEF SaveStellarCard, CallGoto, CallInv
  <2>2. /\ UNCHANGED <<envelopes, intents, prover>>
        /\ card'[q].stored <=> card[q].stored
    BY <1>0, <1>6, <2>1 DEF SaveStellarCard, StellarCard
  <2> QED
    BY <1>0, <2>2
<1>7. ASSUME NEW c \in Calls, SaveStellarEnvelope(c) PROVE ProveInv(q)'
  <2>1. posted[c].names \in Proofs /\ envelopes[posted[c].names].stored
    <3>1. posted[c].names \in Proofs /\ StellarVerified(posted[c].names)
      BY <1>0, <1>7 DEF SaveStellarEnvelope, CallGoto, CallInv
    <3> QED
      BY <3>1 DEF StellarVerified, LifecycleInv, RecordInv
  <2>2. /\ UNCHANGED <<card, intents, prover>>
        /\ envelopes'[q].stored <=> envelopes[q].stored
    BY <1>0, <1>7, <2>1 DEF SaveStellarEnvelope, UpsertEnvelope
  <2> QED
    BY <1>0, <2>2
<1>8. \/ UNCHANGED <<envelopes, card, intents, prover>>
      \/ \E p \in Proofs : GetCapsule(p) \/ ReadParts(p) \/ BackendProves(p) \/ AbortProve(p)
      \/ \E p \in Proofs : SaveIntent(p)
      \/ \E p \in Proofs : SaveEnvelope(p)
      \/ \E p \in Proofs : SaveCard(p)
      \/ \E c \in Calls : SaveStellarCard(c)
      \/ \E c \in Calls : SaveStellarEnvelope(c)
  <2>1. ASSUME NEW c \in Calls, OnStellarOffchain(c) \/ OnStellarGroth16(c)
        PROVE  UNCHANGED <<envelopes, card, intents, prover>>
    BY <2>1, PostOf DEF Post, store
  <2> QED
    BY <2>1, LifecycleCases
       DEF Cleanup, InitVerifier, LocalStep, LocalGetEnvelope, FindIntent, LocalGetCapsule,
           LocalReadParts, LocalVerifyEnvelope, LocalGoto, CliReturnsTrue, CliRejects, ReadCard,
           AbortCall, SendTx, ExecuteTx, vars, store
<1> QED
  BY <1>1, <1>2, <1>3, <1>4, <1>5, <1>6, <1>7, <1>8

LEMMA RecordInvStep ==
  ASSUME LifecycleInv, [LifecycleNext]_vars, NEW q \in Proofs PROVE RecordInv(q)'
<1>0. /\ LifecycleTypeOK /\ \A c \in Calls : CallInv(c)
      /\ ProveInv(q) /\ RecordInv(q)
  BY DEF LifecycleInv
<1>1. AcceptedKept /\ (Replaced(q) => Replaced(q)')
  BY AcceptedStays, ReplacedStays
<1> USE ProofsAssumption, CallsAssumption
    DEF LifecycleTypeOK, RecordInv, Accepted, StellarVerified, AcceptedKept, Kept
<1>2. CASE UNCHANGED <<envelopes, card, intents>>
  BY <1>0, <1>1, <1>2
<1>3. ASSUME NEW p \in Proofs, SaveIntent(p) PROVE RecordInv(q)'
  BY <1>0, <1>1, <1>3 DEF SaveIntent
<1>4. ASSUME NEW p \in Proofs, SaveEnvelope(p) PROVE RecordInv(q)'
  BY <1>0, <1>1, <1>4 DEF SaveEnvelope, UpsertEnvelope, ProverGoto, ProveInv
<1>5. ASSUME NEW p \in Proofs, SaveCard(p) PROVE RecordInv(q)'
  BY <1>0, <1>1, <1>5 DEF SaveCard, ProverGoto, ProveInv
<1>6. ASSUME NEW c \in Calls, SaveStellarCard(c) PROVE RecordInv(q)'
  <2>1. /\ posted[c].names \in Proofs /\ card[posted[c].names].stored
        /\ tx[c] = "accepted" /\ UNCHANGED <<envelopes, intents>>
    BY <1>0, <1>6 DEF SaveStellarCard, CallGoto, CallInv
  <2> QED
    BY <1>0, <1>1, <1>6, <2>1 DEF SaveStellarCard, StellarCard
<1>7. ASSUME NEW c \in Calls, SaveStellarEnvelope(c) PROVE RecordInv(q)'
  <2> DEFINE p == posted[c].names
  <2>1. /\ p \in Proofs /\ StellarVerified(p)
        /\ tx[c] = "accepted" /\ UNCHANGED <<card, intents, posted, tx>>
    BY <1>0, <1>7 DEF SaveStellarEnvelope, CallGoto, CallInv, chain
  <2>2. envelopes' = [envelopes EXCEPT ![p] = UpsertEnvelope(envelopes[p], FALSE, c, posted[c].asProved)]
    BY <1>0, <1>7, <2>1 DEF SaveStellarEnvelope
  <2>3. CASE q # p
    <3>1. envelopes'[q] = envelopes[q]
      BY <1>0, <2>2, <2>3
    <3> QED
      BY <1>0, <1>1, <2>1, <3>1
  <2>4. CASE q = p
    <3>1. envelopes[q].stored
      BY <1>0, <2>1, <2>4
    <3>2. envelopes'[q] = [stored |-> TRUE, linked |-> envelopes[q].linked, by |-> c,
                           asProved |-> IF ~ InMemory THEN envelopes[q].asProved ELSE posted[c].asProved]
      BY <1>0, <2>1, <2>2, <2>4, <3>1 DEF UpsertEnvelope
    <3>3. InMemory /\ ~ posted[c].asProved => Replaced(q)'
      BY <2>1, <2>4 DEF Replaced
    <3> QED
      BY <1>0, <1>1, <2>1, <2>4, <3>1, <3>2, <3>3, StoreAssumption
  <2> QED
    BY <2>3, <2>4
<1> QED
  BY <1>2, <1>3, <1>4, <1>5, <1>6, <1>7, RowCases

\* Steps of no local check leave what it copied explained.
LEMMA LocalKept ==
  ASSUME LifecycleInv, [LifecycleNext]_vars, NEW v \in Locals, LocalInv(v),
         local'[v] = local[v], capsules' \subseteq capsules
  PROVE  LocalInv(v)'
<1>1. RowsKept /\ \A p : Replaced(p) => Replaced(p)'
  BY RowsStay, AcceptedStays, ReplacedStays
<1> QED
  BY <1>1 DEF LocalInv, RowsKept, RowKept

LEMMA LocalStepInv ==
  ASSUME LifecycleInv, [LifecycleNext]_vars, NEW v \in Locals, LocalStep(v)
  PROVE  \A w \in Locals : LocalInv(w)'
<1>0. /\ LifecycleTypeOK
      /\ \A p \in Proofs : RecordInv(p)
      /\ \A w \in Locals : LocalInv(w)
  BY DEF LifecycleInv
<1>1. UNCHANGED <<store, tx, posted>>
  BY DEF LocalStep, LocalGetEnvelope, FindIntent, LocalGetCapsule, LocalReadParts,
         LocalVerifyEnvelope, LocalGoto, chain, calls
<1>2. ASSUME NEW w \in Locals \ {v} PROVE LocalInv(w)'
  <2>1. local'[w] = local[w]
    BY <1>0 DEF LocalStep, LocalGetEnvelope, FindIntent, LocalGetCapsule, LocalReadParts,
                LocalVerifyEnvelope, LocalGoto, LifecycleTypeOK
  <2> QED
    BY <1>0, <1>1, <2>1, LocalKept DEF store
<1>3. \A p : Replaced(p) => Replaced(p)'
  BY AcceptedStays, ReplacedStays
<1>4. LocalInv(v)'
  <2> USE <1>0, <1>1, <1>3 DEF LocalInv, store
  <2>1. CASE LocalGetEnvelope(v)
    <3>1. PICK p \in Proofs : /\ envelopes[p].stored
                              /\ \E copy \in {RowCopy(p), "proved", "posted"} :
                                   local' = [local EXCEPT ![v] = [of |-> p, pc |-> "intent", copy |-> copy]]
      BY <2>1 DEF LocalGetEnvelope
    <3>2. RowCopy(p) = "overwritten" => Replaced(p) /\ InMemory
      BY DEF RowCopy, RecordInv
    <3>3. PICK copy \in {RowCopy(p), "proved", "posted"} :
            local'[v] = [of |-> p, pc |-> "intent", copy |-> copy]
      BY <3>1 DEF LifecycleTypeOK
    <3> QED
      BY <3>1, <3>2, <3>3
  <2>2. ASSUME NEW from, NEW to, LocalGoto(v, from, to)
        PROVE  /\ local[v].pc = from /\ local'[v].pc = to
               /\ local'[v].of = local[v].of /\ local'[v].copy = local[v].copy
    BY <2>2 DEF LocalGoto, LifecycleTypeOK
  <2>3. CASE FindIntent(v)
    <3>1. local[v].pc = "intent"
      BY <2>3 DEF FindIntent, LocalGoto
    <3>2. Bound(local[v].of)
      BY <3>1 DEF Bound, RecordInv
    <3>3. LocalGoto(v, "intent", "capsule")
      BY <2>3, <3>2 DEF FindIntent
    <3> QED
      BY <2>2, <3>3
  <2>4. CASE LocalGetCapsule(v)
    <3>1. \/ LocalGoto(v, "capsule", "parts")
          \/ LocalGoto(v, "capsule", "refusing") /\ CapsuleOf[local[v].of] \notin capsules
      BY <2>4 DEF LocalGetCapsule, CapsuleFound
    <3> QED
      BY <2>2, <3>1
  <2>5. CASE LocalReadParts(v)
    <3>1. \/ LocalGoto(v, "parts", "binding")
          \/ /\ LocalGoto(v, "parts", "refusing")
             /\ CapsuleOf[local[v].of] \notin capsules \/ ~ InMemory
      BY <2>5, StoreAssumption DEF LocalReadParts, PartsVerdicts, CapsuleFound
    <3> QED
      BY <2>2, <3>1
  <2>6. CASE LocalVerifyEnvelope(v)
    <3>1. CASE LocalGoto(v, "refusing", "invalid")
      BY <2>2, <3>1
    <3>2. ASSUME NEW answer \in EnvelopeVerdicts(local[v].of, local[v].copy),
                 LocalGoto(v, "binding", answer)
          PROVE  LocalInv(v)'
      <4>1. /\ answer \in {"valid", "invalid", "interrupted"}
            /\ answer = "invalid" => local[v].of \notin Consistent \/ local[v].copy # "proved"
        BY DEF EnvelopeVerdicts
      <4> QED
        BY <2>2, <3>2, <4>1
    <3> QED
      BY <2>6, <3>1, <3>2 DEF LocalVerifyEnvelope
  <2> QED
    BY <2>1, <2>3, <2>4, <2>5, <2>6 DEF LocalStep
<1> QED
  BY <1>2, <1>4

LEMMA LocalInvStep ==
  ASSUME LifecycleInv, [LifecycleNext]_vars PROVE \A w \in Locals : LocalInv(w)'
<1>1. \A w \in Locals : LocalInv(w)
  BY DEF LifecycleInv
<1>2. \/ UNCHANGED local /\ capsules' \subseteq capsules
      \/ \E v \in Locals : LocalStep(v)
  <2>1. ASSUME NEW c \in Calls, OnStellarOffchain(c) \/ OnStellarGroth16(c)
        PROVE  UNCHANGED local /\ capsules' \subseteq capsules
    BY <2>1, PostOf DEF Post, store
  <2> QED
    BY <2>1, LifecycleCases
       DEF Cleanup, InitVerifier, GetCapsule, ReadParts, BackendProves, SaveIntent, SaveEnvelope,
           SaveCard, AbortProve, CliReturnsTrue, CliRejects, ReadCard, AbortCall, SendTx, ExecuteTx,
           SaveStellarCard, SaveStellarEnvelope, vars, store
<1> QED
  BY <1>1, <1>2, LocalKept, LocalStepInv

-----------------------------------------------------------------------------

\* The inductive invariant holds in every reachable state.
THEOREM LifecycleInvariance == LifecycleSpec => []LifecycleInv
<1>1. LifecycleInv /\ [LifecycleNext]_vars => LifecycleInv'
  BY LifecycleTypeStep, CallInvStep, ProveInvStep, RecordInvStep, LocalInvStep DEF LifecycleInv
<1> QED
  BY LifecycleInitInv, <1>1, PTL DEF LifecycleSpec

\* Every row, transaction and request keeps its type.
THEOREM LifecycleTypes == LifecycleSpec => []LifecycleTypeOK
<1>1. LifecycleInv => LifecycleTypeOK
  BY DEF LifecycleInv
<1> QED
  BY LifecycleInvariance, <1>1, PTL

\* A durable record names a call on its own id that a verifier contract
\* accepted, whatever calls overlap, time out or die.  Unless such a call carried
\* another envelope than prove returned, this very proof was accepted and the
\* row is as prove returned it.
THEOREM DurableRecordsAreTrue == LifecycleSpec => []RecordsAreOnChain
<1>1. LifecycleInv => RecordsAreOnChain
  <2> SUFFICES ASSUME LifecycleInv, NEW p \in Proofs
               PROVE  /\ card[p].by # NoCall => Accepted(card[p].by, p)
                      /\ envelopes[p].by # NoCall => Accepted(envelopes[p].by, p)
                      /\ StellarVerified(p) => Replaced(p) \/ p \in ProvenOnChain
                      /\ ~ envelopes[p].asProved => Replaced(p) /\ InMemory
    BY DEF RecordsAreOnChain
  <2>1. RecordInv(p)
    BY DEF LifecycleInv
  <2>2. ASSUME StellarVerified(p) PROVE Replaced(p) \/ p \in ProvenOnChain
    <3> DEFINE c == card[p].by
    <3>1. c \in Calls /\ posted[c].names = p /\ tx[c] = "accepted"
      BY <2>1, <2>2 DEF StellarVerified, RecordInv, Accepted
    <3>2. posted[c] \in Posts /\ posted[c].sends # NoProof
      BY <3>1 DEF LifecycleInv, CallInv
    <3>3. CASE posted[c].asProved
      <4>1. posted[c].sends = IF p \in Groth16 THEN p ELSE NoProof
        BY <3>1, <3>2, <3>3, PostsAssumption
      <4>2. posted[c].sends = p
        BY <3>2, <4>1
      <4> QED
        BY <3>1, <4>2 DEF ProvenOnChain
    <3>4. CASE ~ posted[c].asProved
      BY <3>1, <3>4 DEF Replaced, Accepted
    <3> QED
      BY <3>3, <3>4
  <2> QED
    BY <2>1, <2>2 DEF RecordInv
<1> QED
  BY LifecycleInvariance, <1>1, PTL

\* An envelope that names a transaction has a stellar_verified card.
THEOREM CardBeforeEnvelope == LifecycleSpec => []CardUpgradedFirst
<1>1. LifecycleInv => CardUpgradedFirst
  BY DEF LifecycleInv, CardUpgradedFirst, RecordInv
<1> QED
  BY LifecycleInvariance, <1>1, PTL

\* Every stored envelope stays bound to its stored intent, on-chain
\* verification included, so local verification never finds it unbound.
THEOREM EnvelopesBound == LifecycleSpec => []EnvelopesStayBound
<1>1. LifecycleInv => EnvelopesStayBound
  BY DEF LifecycleInv, EnvelopesStayBound, RecordInv, LocalInv, Bound
<1> QED
  BY LifecycleInvariance, <1>1, PTL

\* A local check that refuses an envelope whose proof is consistent, given as
\* prove returned it, had its capsule evicted or its facts in another order; and
\* what a store returns is as prove returned it unless an accepted call
\* replaced it.
THEOREM RefusalsExplained == LifecycleSpec => []LocalRefusalExplained
<1>1. LifecycleInv => LocalRefusalExplained
  BY DEF LifecycleInv, LocalRefusalExplained, LocalInv
<1> QED
  BY LifecycleInvariance, <1>1, PTL

\* stellar_verified is final: no step takes it, or an envelope, away.
THEOREM VerifiedIsFinal == LifecycleSpec => NeverDowngraded
<1> DEFINE Keeps ==
      \A p \in Proofs :
        /\ StellarVerified(p) => StellarVerified(p)'
        /\ envelopes[p].stored => envelopes[p].stored'
<1>1. LifecycleInv /\ [LifecycleNext]_vars => [Keeps]_vars
  BY RowsStay DEF RowsKept, RowKept
<1> QED
  BY LifecycleInvariance, <1>1, PTL DEF LifecycleSpec, NeverDowngraded

-----------------------------------------------------------------------------
(* The tables implement the abstract proof record.                         *)

\* The stages after a step, from what it does to the rows of q.
LEMMA StageOf ==
  ASSUME NEW q \in Proofs, LifecycleInv
  PROVE  /\ Stages[q] = "absent" <=> ~ envelopes[q].stored
         /\ Stages[q] = "enveloped" <=> envelopes[q].stored /\ ~ card[q].stored
         /\ Stages[q] = "offchain_local" <=> card[q].stored /\ card[q].by = NoCall
         /\ Stages[q] = "stellar_verified" <=> card[q].by # NoCall /\ envelopes[q].by = NoCall
         /\ Stages[q] = "named" <=> envelopes[q].by # NoCall
<1>1. RecordInv(q)
  BY DEF LifecycleInv
<1>2. envelopes[q].by # NoCall => envelopes[q].stored
  BY <1>1 DEF RecordInv, StellarVerified
<1> QED
  BY <1>1, <1>2 DEF RecordInv, Stages, Stage, StellarVerified

\* What a step that touches the rows of p alone must do to be a step of the record.
LEMMA RecordMove ==
  ASSUME NEW p \in Proofs, UNCHANGED AcceptedProofs,
         \A q \in Proofs \ {p} : Stages'[q] = Stages[q],
         \/ Stages'[p] = Stages[p]
         \/ Stages[p] = "absent" /\ Stages'[p] = "enveloped"
         \/ Stages[p] = "enveloped" /\ Stages'[p] = "offchain_local"
         \/ /\ p \in AcceptedProofs
            /\ Stages[p] = "offchain_local" /\ Stages'[p] = "stellar_verified"
         \/ Stages[p] = "stellar_verified" /\ Stages'[p] = "named"
  PROVE  [Record!Next]_(Record!vars)
<1>1. Stages' = [Stages EXCEPT ![p] = Stages'[p]]
  BY DEF Stages
<1>2. CASE Stages'[p] = Stages[p]
  <2>1. Stages' = Stages
    BY <1>2 DEF Stages
  <2> QED
    BY <2>1 DEF Record!vars
<1>3. CASE Stages[p] = "absent" /\ Stages'[p] = "enveloped"
  <2>1. Record!StoreEnvelope(p)
    BY <1>1, <1>3 DEF Record!StoreEnvelope, Record!Advance
  <2> QED
    BY <2>1 DEF Record!Next
<1>4. CASE Stages[p] = "enveloped" /\ Stages'[p] = "offchain_local"
  <2>1. Record!StoreCard(p)
    BY <1>1, <1>4 DEF Record!StoreCard, Record!Advance
  <2> QED
    BY <2>1 DEF Record!Next
<1>5. CASE /\ p \in AcceptedProofs
           /\ Stages[p] = "offchain_local" /\ Stages'[p] = "stellar_verified"
  <2>1. Record!Upgrade(p)
    BY <1>1, <1>5 DEF Record!Upgrade, Record!Advance
  <2> QED
    BY <2>1 DEF Record!Next
<1>6. CASE Stages[p] = "stellar_verified" /\ Stages'[p] = "named"
  <2>1. Record!NameTx(p)
    BY <1>1, <1>6 DEF Record!NameTx, Record!Advance
  <2> QED
    BY <2>1 DEF Record!Next
<1> QED
  BY <1>2, <1>3, <1>4, <1>5, <1>6

LEMMA RecordInit == LifecycleInit => Record!Init
<1> SUFFICES ASSUME LifecycleInit PROVE Record!Init
  OBVIOUS
<1>1. AcceptedProofs = {}
  BY DEF LifecycleInit, AcceptedProofs, Accepted
<1>2. Stages = [p \in Proofs |-> "absent"]
  BY DEF LifecycleInit, Stages, Stage, StellarVerified, NoEnvelope, NoCard
<1> QED
  BY <1>1, <1>2 DEF Record!Init

\* Each write is one step of the record, ExecuteTx may accept, all else stutters.
LEMMA RecordStep == LifecycleInv /\ LifecycleInv' /\ [LifecycleNext]_vars => [Record!Next]_(Record!vars)
<1> SUFFICES ASSUME LifecycleInv, LifecycleInv', [LifecycleNext]_vars PROVE [Record!Next]_(Record!vars)
  OBVIOUS
<1>0. /\ LifecycleTypeOK
      /\ \A c \in Calls : CallInv(c)
      /\ \A p \in Proofs : ProveInv(p) /\ RecordInv(p)
  BY DEF LifecycleInv
<1> USE ProofsAssumption, CallsAssumption
<1>1. CASE UNCHANGED <<envelopes, card, tx>>
  <2>1. UNCHANGED Stages
    BY <1>1 DEF Stages, Stage, StellarVerified
  <2>2. \A c \in Calls : tx[c] = "accepted" => posted'[c] = posted[c]
    BY AcceptedStays DEF AcceptedKept, Kept
  <2>3. UNCHANGED AcceptedProofs
    BY <1>1, <2>2 DEF AcceptedProofs, Accepted
  <2> QED
    BY <2>1, <2>3 DEF Record!vars
<1>2. ASSUME NEW p \in Proofs, SaveEnvelope(p) PROVE [Record!Next]_(Record!vars)
  <2>1. /\ UNCHANGED AcceptedProofs
        /\ \A q \in Proofs \ {p} : Stages'[q] = Stages[q]
    BY <1>0, <1>2 DEF SaveEnvelope, chain, calls, LifecycleTypeOK, AcceptedProofs, Accepted, Stages, Stage, StellarVerified
  <2>2. ~ envelopes[p].stored /\ ~ card[p].stored
    BY <1>0, <1>2 DEF SaveEnvelope, ProverGoto, ProveInv
  <2>3. envelopes'[p].stored /\ ~ card'[p].stored
    BY <1>0, <1>2, <2>2 DEF SaveEnvelope, UpsertEnvelope, LifecycleTypeOK
  <2>4. Stages[p] = "absent" /\ Stages'[p] = "enveloped"
    <3>1. Stages[p] = "absent"
      BY <2>2, StageOf
    <3>2. Stages'[p] = "enveloped"
      <4>1. Stage(p)' = "enveloped"
        <5>1. card'[p].by = NoCall /\ envelopes'[p].by = NoCall
          BY <1>0, <1>2 DEF SaveEnvelope, UpsertEnvelope, LifecycleTypeOK, RecordInv, ProverGoto, ProveInv
        <5> QED
          BY <2>3, <5>1 DEF Stage, StellarVerified
      <4> QED
        BY <4>1 DEF Stages
    <3> QED
      BY <3>1, <3>2
  <2> QED
    BY <2>1, <2>4, RecordMove
<1>3. ASSUME NEW p \in Proofs, SaveCard(p) PROVE [Record!Next]_(Record!vars)
  <2>1. /\ UNCHANGED AcceptedProofs
        /\ \A q \in Proofs \ {p} : Stages'[q] = Stages[q]
    BY <1>0, <1>3 DEF SaveCard, chain, calls, LifecycleTypeOK, AcceptedProofs, Accepted, Stages, Stage, StellarVerified
  <2>2. envelopes[p].stored /\ ~ card[p].stored
    BY <1>0, <1>3 DEF SaveCard, ProverGoto, ProveInv
  <2>3. Stages[p] = "enveloped"
    BY <2>2, StageOf
  <2>4. Stage(p)' = "offchain_local"
    <3>1. envelopes[p].by = NoCall
      BY <1>0, <2>2 DEF RecordInv, StellarVerified
    <3>2. /\ card'[p].stored /\ card'[p].by = NoCall
          /\ envelopes'[p].by = NoCall
      BY <1>0, <1>3, <3>1 DEF SaveCard, LifecycleTypeOK
    <3> QED
      BY <3>2 DEF Stage, StellarVerified
  <2> QED
    BY <2>1, <2>3, <2>4, RecordMove DEF Stages
<1>4. ASSUME NEW c \in Calls, SaveStellarCard(c) PROVE [Record!Next]_(Record!vars)
  <2>0. PICK p \in Proofs : p = posted[c].names
    BY <1>0, <1>4 DEF SaveStellarCard, CallGoto, CallInv
  <2>1. /\ UNCHANGED AcceptedProofs
        /\ \A q \in Proofs \ {p} : Stages'[q] = Stages[q]
    BY <1>0, <1>4, <2>0 DEF SaveStellarCard, CallGoto, chain, LifecycleTypeOK, AcceptedProofs, Accepted, Stages, Stage, StellarVerified
  <2>2. card[p].stored /\ p \in AcceptedProofs
    BY <1>0, <1>4, <2>0 DEF SaveStellarCard, CallGoto, CallInv, AcceptedProofs, Accepted
  <2>3. UNCHANGED envelopes /\ card'[p].stored /\ card'[p].by = c
    BY <1>0, <1>4, <2>0 DEF SaveStellarCard, StellarCard, LifecycleTypeOK
  <2>4. Stage(p)' = IF envelopes[p].by # NoCall THEN "named" ELSE "stellar_verified"
    BY <2>3 DEF Stage, StellarVerified
  <2>5. Stage(p) \in {"named", "stellar_verified", "offchain_local"}
    BY <2>2 DEF Stage
  <2>6. Stage(p) = "named" <=> envelopes[p].by # NoCall
    BY DEF Stage
  <2>7. Stages[p] = Stage(p) /\ Stages'[p] = Stage(p)'
    BY DEF Stages
  <2> QED
    BY <2>0, <2>1, <2>2, <2>4, <2>5, <2>6, <2>7, RecordMove
<1>5. ASSUME NEW c \in Calls, SaveStellarEnvelope(c) PROVE [Record!Next]_(Record!vars)
  <2>0. PICK p \in Proofs : p = posted[c].names
    BY <1>0, <1>5 DEF SaveStellarEnvelope, CallGoto, CallInv
  <2>1. /\ UNCHANGED AcceptedProofs
        /\ \A q \in Proofs \ {p} : Stages'[q] = Stages[q]
    <3>1. UNCHANGED AcceptedProofs
      BY <1>5 DEF SaveStellarEnvelope, CallGoto, chain, AcceptedProofs, Accepted
    <3>2. UNCHANGED card /\ \A q \in Proofs \ {p} : envelopes'[q] = envelopes[q]
      BY <1>0, <1>5, <2>0 DEF SaveStellarEnvelope, LifecycleTypeOK
    <3> QED
      BY <3>1, <3>2 DEF Stages, Stage, StellarVerified
  <2>2. StellarVerified(p)
    BY <1>0, <1>5, <2>0 DEF SaveStellarEnvelope, CallGoto, CallInv
  <2>3. envelopes'[p].by = c
    BY <1>0, <1>5, <2>0 DEF SaveStellarEnvelope, UpsertEnvelope, LifecycleTypeOK
  <2>4. Stage(p)' = "named"
    BY <2>3 DEF Stage
  <2>5. Stage(p) \in {"named", "stellar_verified"}
    BY <2>2 DEF Stage
  <2>7. Stages[p] = Stage(p) /\ Stages'[p] = Stage(p)'
    BY DEF Stages
  <2> QED
    BY <2>0, <2>1, <2>4, <2>5, <2>7, RecordMove
<1>6. ASSUME NEW c \in Calls, SendTx(c) \/ ExecuteTx(c) PROVE [Record!Next]_(Record!vars)
  <2> DEFINE p == posted[c].names
  <2>1. UNCHANGED <<Stages, posted>>
    BY <1>6 DEF SendTx, ExecuteTx, store, calls, Stages, Stage, StellarVerified
  <2>2. tx[c] # "accepted" /\ \A d \in Calls \ {c} : tx'[d] = tx[d]
    BY <1>0, <1>6 DEF SendTx, ExecuteTx, LifecycleTypeOK
  <2>3. CASE tx'[c] = "accepted" /\ p \in Proofs \ AcceptedProofs
    <3>1. AcceptedProofs' = AcceptedProofs \cup {p}
      BY <2>1, <2>2, <2>3 DEF AcceptedProofs, Accepted
    <3>2. Record!Accept(p)
      BY <2>1, <2>3, <3>1 DEF Record!Accept
    <3> QED
      BY <2>3, <3>2 DEF Record!Next
  <2>4. CASE tx'[c] # "accepted" \/ p \notin Proofs \/ p \in AcceptedProofs
    <3>1. UNCHANGED AcceptedProofs
      BY <2>1, <2>2, <2>4 DEF AcceptedProofs, Accepted
    <3> QED
      BY <2>1, <3>1 DEF Record!vars
  <2> QED
    BY <2>3, <2>4
<1>7. \/ UNCHANGED <<envelopes, card, tx>>
      \/ \E q \in Proofs : SaveEnvelope(q) \/ SaveCard(q)
      \/ \E c \in Calls : SaveStellarCard(c) \/ SaveStellarEnvelope(c) \/ SendTx(c) \/ ExecuteTx(c)
  <2>1. ASSUME NEW c \in Calls, OnStellarOffchain(c) \/ OnStellarGroth16(c)
        PROVE  UNCHANGED <<envelopes, card, tx>>
    BY <2>1, PostOf DEF Post, store, chain
  <2> QED
    BY <2>1, LifecycleCases
       DEF Cleanup, InitVerifier, GetCapsule, ReadParts, BackendProves, SaveIntent, AbortProve,
           LocalStep, LocalGetEnvelope, FindIntent, LocalGetCapsule, LocalReadParts,
           LocalVerifyEnvelope, LocalGoto, CliReturnsTrue, CliRejects, ReadCard, AbortCall, vars,
           store, chain
<1> QED
  BY <1>1, <1>2, <1>3, <1>4, <1>5, <1>6, <1>7

\* The three tables, under any interleaving of requests, late answers, deaths
\* and cleanups, implement the abstract record of a proof.
THEOREM TablesImplementRecord == LifecycleSpec => ImplementsRecord
<1> QED
  BY RecordInit, RecordStep, LifecycleInvariance, PTL DEF LifecycleSpec, ImplementsRecord, Record!Spec
=============================================================================
