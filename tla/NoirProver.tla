------------------------------ MODULE NoirProver ------------------------------
(***************************************************************************)
(* proveBn254 of packages/proofs/src/bn254.ts: concurrent API requests that *)
(* shell out to nargo and bb.  Two files of a circuit directory are shared *)
(* by every proof of its recipe: Prover.toml, which writeFile truncates    *)
(* and then fills and cleanup removes, and target/witness.gz, which nargo  *)
(* overwrites and nobody removes.                                          *)
(*                                                                         *)
(* A job is one call.  Every job has a witness of its own, so a job also   *)
(* stands for its witness.  nargo and bb are external: nargo solves what   *)
(* Prover.toml says, bb proves what witness.gz says, and both fail on a    *)
(* file they cannot parse.                                                 *)
(***************************************************************************)
EXTENDS Naturals

CONSTANTS
  Jobs,
  Dirs,         \* the directories NOIR_TEMPLATES names
  Circuits,     \* the directories that exist under circuits/
  DirOf,        \* DirOf[j]: the directory of the recipe of job j
  Absent,       \* no such file, no proof
  Torn,         \* a file that does not parse
  MaxFailures   \* bound: steps that throw or time out, and process deaths

ASSUME DirAssumption  == DirOf \in [Jobs -> Dirs] /\ Circuits \subseteq Dirs
ASSUME TextAssumption == Absent \notin Jobs /\ Torn \notin Jobs /\ Absent # Torn
ASSUME FailureAssumption == MaxFailures \in Nat

VARIABLES
  toml,       \* toml[d]: text of d/Prover.toml, and the jobs whose descriptor is on it
  gz,         \* gz[d]: the witness in d/target/witness.gz
  pc,         \* where job j is
  solved,     \* solved[j]: the witness the nargo process of j is solving
  proof,      \* proof[j]: the witness the proof of j proves
  met,        \* history: jobs that used the directory while j did
  failures

files == <<toml, gz>>
proverVars == <<toml, gz, pc, solved, proof, met, failures>>

\* A job uses its directory from the first write to the end of cleanup; an
\* orphan is a nargo process whose parent died.
Inside  == {"open", "write", "read", "solve", "prove", "leaving", "throwing"}
Using   == Inside \cup {"orphan"}
Goto(j, from, to) == pc[j] = from /\ pc' = [pc EXCEPT ![j] = to]

NoToml == [text |-> Absent, writers |-> {}]

-----------------------------------------------------------------------------

\* The toolchain is missing, or the recipe has no template: nothing is touched.
Refuse(j) ==
  /\ failures < MaxFailures /\ failures' = failures + 1
  /\ Goto(j, "idle", "failed")
  /\ UNCHANGED <<files, solved, proof, met>>

\* The toolchain is there, the work directory made and the witness built.
Peers(j) == {k \in Jobs \ {j} : DirOf[k] = DirOf[j] /\ pc[k] \in Using}

Begin(j) ==
  /\ Goto(j, "idle", "open")
  /\ met' = [k \in Jobs |->
               IF k = j THEN Peers(j) ELSE met[k] \cup (IF k \in Peers(j) THEN {j} ELSE {})]
  /\ UNCHANGED <<files, solved, proof, failures>>

\* writeFile opens Prover.toml, which truncates it ...
OpenToml(j) ==
  /\ DirOf[j] \in Circuits
  /\ Goto(j, "open", "write")
  /\ toml' = [toml EXCEPT ![DirOf[j]] = [text |-> Torn, writers |-> toml[DirOf[j]].writers \cup {j}]]
  /\ UNCHANGED <<gz, solved, proof, met, failures>>

\* ... or throws because the directory does not exist.
NoDirectory(j) ==
  /\ DirOf[j] \notin Circuits
  /\ Goto(j, "open", "throwing")
  /\ UNCHANGED <<files, solved, proof, met, failures>>

\* The descriptor may be on a file removed since, or on one that another job
\* has filled: a shorter text then leaves the tail of the longer one.
MutTexts(j, file) == {j, Torn}
Texts(j, file) ==
  IF j \notin file.writers THEN {file.text}
  ELSE {j} \cup IF file.text \in Jobs THEN {Torn} ELSE {}

WriteToml(j) ==
  /\ Goto(j, "write", "read")
  /\ \E text \in Texts(j, toml[DirOf[j]]) : toml' = [toml EXCEPT ![DirOf[j]].text = text]
  /\ UNCHANGED <<gz, solved, proof, met, failures>>

\* `nargo execute` reads Prover.toml, and fails without a good one.
NargoOutcome(j) == IF toml[DirOf[j]].text \in Jobs THEN "solve" ELSE "throwing"

NargoReads(j) ==
  /\ Goto(j, "read", NargoOutcome(j))
  /\ solved' = [solved EXCEPT ![j] = toml[DirOf[j]].text]
  /\ UNCHANGED <<files, proof, met, failures>>

MutWitnessFile(j) == IF gz[DirOf[j]] = Absent THEN solved[j] ELSE gz[DirOf[j]]
WitnessFile(j)    == solved[j]

NargoWrites(j) ==
  /\ Goto(j, "solve", "prove")
  /\ gz' = [gz EXCEPT ![DirOf[j]] = WitnessFile(j)]
  /\ UNCHANGED <<toml, solved, proof, met, failures>>

\* `bb prove` and `bb write_vk`; the envelope takes its public inputs from the
\* intent of j and its proof bytes from bb.
BbProves(j) ==
  /\ Goto(j, "prove", "leaving")
  /\ proof' = [proof EXCEPT ![j] = gz[DirOf[j]]]
  /\ UNCHANGED <<files, solved, met, failures>>

\* The witness is invalid, nargo or bb fails or runs into its timeout, or a file
\* cannot be read.
Throw(j) ==
  /\ failures < MaxFailures /\ failures' = failures + 1
  /\ pc[j] \in {"open", "write", "read", "solve", "prove"}
  /\ pc' = [pc EXCEPT ![j] = "throwing"]
  /\ UNCHANGED <<files, solved, proof, met>>

\* finally: removes the work directory and Prover.toml, whoever wrote it.
MutCleanedToml(j) == IF pc[j] = "leaving" THEN NoToml ELSE toml[DirOf[j]]
CleanedToml(j)    == NoToml

Ended(j) == IF pc[j] = "leaving" THEN "returned" ELSE "failed"

Cleanup(j) ==
  /\ pc[j] \in {"leaving", "throwing"}
  /\ pc' = [pc EXCEPT ![j] = Ended(j)]
  /\ toml' = [toml EXCEPT ![DirOf[j]] = CleanedToml(j)]
  /\ UNCHANGED <<gz, solved, proof, met, failures>>

\* The process of the jobs in D dies.  A nargo it started runs on.
Die(D) ==
  /\ failures < MaxFailures /\ failures' = failures + 1
  /\ D # {} /\ \A j \in D : pc[j] \in Inside
  /\ pc' = [j \in Jobs |-> IF j \notin D THEN pc[j]
                           ELSE IF pc[j] = "solve" THEN "orphan" ELSE "dead"]
  /\ UNCHANGED <<files, solved, proof, met>>

OrphanWrites(j) ==
  /\ Goto(j, "orphan", "dead")
  /\ gz' = [gz EXCEPT ![DirOf[j]] = WitnessFile(j)]
  /\ UNCHANGED <<toml, solved, proof, met, failures>>

\* verifyBn254Local gives bb the proof and the verification key of the envelope,
\* both from j's work directory, and none of its public inputs.
VerifyBn254Local(j) == pc[j] = "returned" /\ proof[j] # Absent

-----------------------------------------------------------------------------

Init ==
  /\ toml = [d \in Dirs |-> NoToml]
  /\ gz = [d \in Dirs |-> Absent]
  /\ pc = [j \in Jobs |-> "idle"]
  /\ solved = [j \in Jobs |-> Absent]
  /\ proof = [j \in Jobs |-> Absent]
  /\ met = [j \in Jobs |-> {}]
  /\ failures = 0

\* What a running call does on its own.
ProverStep(j) ==
  \/ OpenToml(j) \/ NoDirectory(j) \/ WriteToml(j)
  \/ NargoReads(j) \/ NargoWrites(j) \/ BbProves(j) \/ Cleanup(j)

Next ==
  \/ \E j \in Jobs : Begin(j) \/ Refuse(j) \/ ProverStep(j) \/ Throw(j) \/ OrphanWrites(j)
  \/ \E D \in SUBSET Jobs : Die(D)

Spec == Init /\ [][Next]_proverVars

\* execFile has timeouts and the file system answers: a call settles.
FairSpec == Spec /\ \A j \in Jobs : WF_proverVars(ProverStep(j))

-----------------------------------------------------------------------------

FileTexts == Jobs \cup {Absent, Torn}
States == Using \cup {"idle", "returned", "failed", "dead"}

\* Type invariant; a finished proof always exists.
TypeOK ==
  /\ toml \in [Dirs -> [text : FileTexts, writers : SUBSET Jobs]]
  /\ gz \in [Dirs -> Jobs \cup {Absent}]
  /\ pc \in [Jobs -> States]
  /\ solved \in [Jobs -> FileTexts]
  /\ proof \in [Jobs -> Jobs \cup {Absent}]
  /\ met \in [Jobs -> SUBSET Jobs]
  /\ failures \in 0..MaxFailures

\* A call that met no other job of its recipe and no orphan returns a proof of
\* its own witness, whatever failed before: neither the Prover.toml nor the
\* witness.gz an earlier job left behind reaches it.
AloneProvesOwn ==
  \A j \in Jobs : pc[j] = "returned" /\ met[j] = {} => proof[j] = j

\* Prover.toml, which holds private inputs, outlives the jobs of its directory
\* only if one of them was killed.
TomlIsTemporary ==
  \A d \in Dirs : toml[d].text # Absent =>
     \E j \in Jobs : DirOf[j] = d /\ pc[j] \in Using \cup {"dead"}

\* A call fails only because a step failed, another job was in its directory, or
\* the directory does not exist.
FailureHasCause ==
  \A j \in Jobs : pc[j] = "failed" =>
     failures > 0 \/ met[j] # {} \/ DirOf[j] \notin Circuits

\* An envelope is returned only with a proof of the same recipe that bb accepts,
\* even while other calls fail, die or share the directory.
EnvelopeVerifies ==
  \A j \in Jobs : pc[j] = "returned" => VerifyBn254Local(j) /\ DirOf[proof[j]] = DirOf[j]

\* What the comment of proveBn254 says a proof is: the envelope of a call carries
\* a proof made from the witness of that call.
EnvelopeProvesOwn ==
  \A j \in Jobs : pc[j] = "returned" => proof[j] = j

\* A call that nothing disturbs returns, if the directory of its recipe exists.
UndisturbedReturns ==
  \A j \in Jobs :
     pc[j] = "open" ~>
        (pc[j] = "returned" \/ met[j] # {} \/ failures > 0 \/ DirOf[j] \notin Circuits)

\* What NOIR_TEMPLATES says it maps to: a recipe that has a template has a
\* directory, so a call that nothing disturbs returns.
EveryTemplateProves ==
  \A j \in Jobs :
     pc[j] = "open" ~> (pc[j] = "returned" \/ met[j] # {} \/ failures > 0)
=============================================================================
