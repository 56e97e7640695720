--------------------------- MODULE NoirProverProofs ---------------------------
(***************************************************************************)
(* Theorems about NoirProver for any jobs, recipes and number of failures. *)
(***************************************************************************)
EXTENDS NoirProver, TLAPS

\* A nargo process that solves has a witness.
SolvedInv == \A j \in Jobs : pc[j] \in {"solve", "orphan"} => solved[j] \in Jobs

\* Two jobs that use one directory have met.
MetInv ==
  \A j, k \in Jobs :
     j # k /\ DirOf[j] = DirOf[k] /\ pc[j] \in Using /\ pc[k] \in Using => k \in met[j]

\* While a job that met nobody is under way, the shared files are its own.
AloneInv ==
  \A j \in Jobs : met[j] = {} =>
     /\ pc[j] = "write" => toml[DirOf[j]].text = Torn /\ j \in toml[DirOf[j]].writers
     /\ pc[j] = "read" => toml[DirOf[j]].text = j
     /\ pc[j] = "solve" => solved[j] = j
     /\ pc[j] = "prove" => gz[DirOf[j]] = j
     /\ pc[j] \in {"leaving", "returned"} => proof[j] = j

\* A Prover.toml has a writer that did not clean up yet.
TomlInv ==
  \A d \in Dirs :
     /\ toml[d].text # Absent => toml[d].writers # {}
     /\ \A j \in toml[d].writers : DirOf[j] = d /\ pc[j] \in Using \cup {"dead"}

\* A call that throws has a cause.
CauseInv ==
  \A j \in Jobs : pc[j] \in {"throwing", "failed"} =>
     failures > 0 \/ met[j] # {} \/ DirOf[j] \notin Circuits

\* Witnesses stay in the directory of their recipe, and a call that is past
\* nargo finds one.
FilesInv ==
  /\ \A d \in Dirs : toml[d].text \in Jobs => DirOf[toml[d].text] = d
  /\ \A d \in Dirs : gz[d] \in Jobs => DirOf[gz[d]] = d
  /\ \A j \in Jobs : solved[j] \in Jobs => DirOf[solved[j]] = DirOf[j]
  /\ \A j \in Jobs : pc[j] = "prove" => gz[DirOf[j]] \in Jobs
  /\ \A j \in Jobs : pc[j] \in {"leaving", "returned"} =>
        proof[j] \in Jobs /\ DirOf[proof[j]] = DirOf[j]

IInv == TypeOK /\ SolvedInv /\ MetInv /\ AloneInv /\ TomlInv /\ CauseInv /\ FilesInv

-----------------------------------------------------------------------------

LEMMA FilesInit == Init => FilesInv
  BY TextAssumption DEF Init, FilesInv, NoToml

LEMMA InitInv == Init => IInv
  <1> SUFFICES ASSUME Init PROVE IInv
    OBVIOUS
  <1> USE DirAssumption, TextAssumption, FailureAssumption
  <1>1. TypeOK
    BY DEF Init, TypeOK, NoToml, FileTexts, States
  <1>2. SolvedInv /\ MetInv /\ AloneInv /\ CauseInv
    BY DEF Init, SolvedInv, MetInv, AloneInv, CauseInv, Using, Inside
  <1>3. TomlInv
    BY DEF Init, TomlInv, NoToml
  <1> QED
    BY <1>1, <1>2, <1>3, FilesInit DEF IInv

\* A step is one action of one job, the death of a process, or a stutter.
LEMMA StepCases ==
  ASSUME NEW ACTION P, [Next]_proverVars,
         UNCHANGED proverVars => P,
         \A j \in Jobs : Begin(j) => P,
         \A j \in Jobs : Refuse(j) => P,
         \A j \in Jobs : OpenToml(j) => P,
         \A j \in Jobs : NoDirectory(j) => P,
         \A j \in Jobs : WriteToml(j) => P,
         \A j \in Jobs : NargoReads(j) => P,
         \A j \in Jobs : NargoWrites(j) => P,
         \A j \in Jobs : BbProves(j) => P,
         \A j \in Jobs : Throw(j) => P,
         \A j \in Jobs : Cleanup(j) => P,
         \A j \in Jobs : OrphanWrites(j) => P,
         \A D \in SUBSET Jobs : Die(D) => P
  PROVE  P
  BY DEF Next, ProverStep

\* Every step keeps the types.
LEMMA TypeStep == TypeOK /\ SolvedInv /\ [Next]_proverVars => TypeOK'
  <1> SUFFICES ASSUME TypeOK, SolvedInv, [Next]_proverVars PROVE TypeOK'
    OBVIOUS
  <1> USE DirAssumption, TextAssumption, FailureAssumption
  <1>0. ASSUME UNCHANGED proverVars PROVE TypeOK'
    BY <1>0 DEF proverVars, TypeOK
  <1>1. ASSUME NEW j \in Jobs, Begin(j) PROVE TypeOK'
    <2>1. met' \in [Jobs -> SUBSET Jobs]
      BY <1>1 DEF Begin, TypeOK, Peers
    <2>2. pc' \in [Jobs -> States]
      BY <1>1 DEF Begin, Goto, TypeOK, States, Using, Inside
    <2> QED
      BY <1>1, <2>1, <2>2 DEF Begin, TypeOK, files
  <1>2. ASSUME NEW j \in Jobs, Refuse(j) PROVE TypeOK'
    <2>1. pc' \in [Jobs -> States]
      BY <1>2 DEF Refuse, Goto, TypeOK, States
    <2>2. failures' \in 0..MaxFailures
      BY <1>2 DEF Refuse, TypeOK
    <2> QED
      BY <1>2, <2>1, <2>2 DEF Refuse, TypeOK, files
  <1>3. ASSUME NEW j \in Jobs, OpenToml(j) PROVE TypeOK'
    <2>1. pc' \in [Jobs -> States]
      BY <1>3 DEF OpenToml, Goto, TypeOK, States, Using, Inside
    <2>2. DirOf[j] \in Dirs /\ toml[DirOf[j]].writers \in SUBSET Jobs
      BY DEF TypeOK
    <2>3. [text |-> Torn, writers |-> toml[DirOf[j]].writers \cup {j}]
            \in [text : FileTexts, writers : SUBSET Jobs]
      BY <2>2 DEF FileTexts
    <2>4. toml' \in [Dirs -> [text : FileTexts, writers : SUBSET Jobs]]
      BY <1>3, <2>3 DEF OpenToml, TypeOK
    <2> QED
      BY <1>3, <2>1, <2>4 DEF OpenToml, TypeOK
  <1>4. ASSUME NEW j \in Jobs, NoDirectory(j) PROVE TypeOK'
    BY <1>4 DEF NoDirectory, Goto, TypeOK, States, Using, Inside, files
  <1>5. ASSUME NEW j \in Jobs, WriteToml(j) PROVE TypeOK'
    <2>1. pc' \in [Jobs -> States]
      BY <1>5 DEF WriteToml, Goto, TypeOK, States, Using, Inside
    <2>2. PICK text \in Texts(j, toml[DirOf[j]]) : toml' = [toml EXCEPT ![DirOf[j]].text = text]
      BY <1>5 DEF WriteToml
    <2>3. text \in FileTexts
      BY DEF Texts, FileTexts, TypeOK
    <2>4. toml' \in [Dirs -> [text : FileTexts, writers : SUBSET Jobs]]
      BY <2>2, <2>3 DEF TypeOK
    <2> QED
      BY <1>5, <2>1, <2>4 DEF WriteToml, TypeOK
  <1>6. ASSUME NEW j \in Jobs, NargoReads(j) PROVE TypeOK'
    <2>1. pc' \in [Jobs -> States]
      BY <1>6 DEF NargoReads, NargoOutcome, Goto, TypeOK, States, Using, Inside
    <2>2. solved' \in [Jobs -> FileTexts]
      BY <1>6 DEF NargoReads, TypeOK
    <2> QED
      BY <1>6, <2>1, <2>2 DEF NargoReads, TypeOK, files
  <1>7. ASSUME NEW j \in Jobs, NargoWrites(j) PROVE TypeOK'
    <2>1. pc' \in [Jobs -> States]
      BY <1>7 DEF NargoWrites, Goto, TypeOK, States, Using, Inside
    <2>2. gz' \in [Dirs -> Jobs \cup {Absent}]
      BY <1>7 DEF NargoWrites, WitnessFile, Goto, TypeOK, SolvedInv
    <2> QED
      BY <1>7, <2>1, <2>2 DEF NargoWrites, TypeOK
  <1>8. ASSUME NEW j \in Jobs, BbProves(j) PROVE TypeOK'
    <2>1. pc' \in [Jobs -> States]
      BY <1>8 DEF BbProves, Goto, TypeOK, States, Using, Inside
    <2>2. proof' \in [Jobs -> Jobs \cup {Absent}]
      BY <1>8 DEF BbProves, TypeOK
    <2> QED
      BY <1>8, <2>1, <2>2 DEF BbProves, TypeOK, files
  <1>9. ASSUME NEW j \in Jobs, Throw(j) PROVE TypeOK'
    <2>1. pc' \in [Jobs -> States]
      BY <1>9 DEF Throw, TypeOK, States, Using, Inside
    <2>2. failures' \in 0..MaxFailures
      BY <1>9 DEF Throw, TypeOK
    <2> QED
      BY <1>9, <2>1, <2>2 DEF Throw, TypeOK, files
  <1>10. ASSUME NEW j \in Jobs, Cleanup(j) PROVE TypeOK'
    <2>1. pc' \in [Jobs -> States]
      BY <1>10 DEF Cleanup, Ended, Goto, TypeOK, States, Using, Inside
    <2>2. toml' \in [Dirs -> [text : FileTexts, writers : SUBSET Jobs]]
      BY <1>10 DEF Cleanup, Ended, CleanedToml, NoToml, TypeOK, FileTexts
    <2> QED
      BY <1>10, <2>1, <2>2 DEF Cleanup, Ended, TypeOK
  <1>11. ASSUME NEW j \in Jobs, OrphanWrites(j) PROVE TypeOK'
    <2>1. pc' \in [Jobs -> States]
      BY <1>11 DEF OrphanWrites, Goto, TypeOK, States
    <2>2. gz' \in [Dirs -> Jobs \cup {Absent}]
      BY <1>11 DEF OrphanWrites, WitnessFile, Goto, TypeOK, SolvedInv
    <2> QED
      BY <1>11, <2>1, <2>2 DEF OrphanWrites, TypeOK
  <1>12. ASSUME NEW D \in SUBSET Jobs, Die(D) PROVE TypeOK'
    <2>1. pc' \in [Jobs -> States]
      BY <1>12 DEF Die, TypeOK, States, Using, Inside
    <2>2. failures' \in 0..MaxFailures
      BY <1>12 DEF Die, TypeOK
    <2> QED
      BY <1>12, <2>1, <2>2 DEF Die, TypeOK, files
  <1> QED
    BY <1>0, <1>1, <1>2, <1>3, <1>4, <1>5, <1>6, <1>7, <1>8, <1>9, <1>10, <1>11, <1>12, StepCases

LEMMA SolvedStep == TypeOK /\ SolvedInv /\ [Next]_proverVars => SolvedInv'
  <1> SUFFICES ASSUME TypeOK, SolvedInv, [Next]_proverVars PROVE SolvedInv'
    OBVIOUS
  <1> USE TextAssumption DEF TypeOK, SolvedInv, Goto
  <1>0. ASSUME UNCHANGED proverVars PROVE SolvedInv'
    BY <1>0 DEF proverVars
  <1>1. ASSUME NEW j \in Jobs, Begin(j) PROVE SolvedInv'
    BY <1>1 DEF Begin
  <1>2. ASSUME NEW j \in Jobs, Refuse(j) PROVE SolvedInv'
    BY <1>2 DEF Refuse
  <1>3. ASSUME NEW j \in Jobs, OpenToml(j) PROVE SolvedInv'
    BY <1>3 DEF OpenToml
  <1>4. ASSUME NEW j \in Jobs, NoDirectory(j) PROVE SolvedInv'
    BY <1>4 DEF NoDirectory
  <1>5. ASSUME NEW j \in Jobs, WriteToml(j) PROVE SolvedInv'
    BY <1>5 DEF WriteToml
  <1>6. ASSUME NEW j \in Jobs, NargoReads(j) PROVE SolvedInv'
    BY <1>6 DEF NargoReads, NargoOutcome
  <1>7. ASSUME NEW j \in Jobs, NargoWrites(j) PROVE SolvedInv'
    BY <1>7 DEF NargoWrites
  <1>8. ASSUME NEW j \in Jobs, BbProves(j) PROVE SolvedInv'
    BY <1>8 DEF BbProves
  <1>9. ASSUME NEW j \in Jobs, Throw(j) PROVE SolvedInv'
    BY <1>9 DEF Throw
  <1>10. ASSUME NEW j \in Jobs, Cleanup(j) PROVE SolvedInv'
    BY <1>10 DEF Cleanup, Ended
  <1>11. ASSUME NEW j \in Jobs, OrphanWrites(j) PROVE SolvedInv'
    BY <1>11 DEF OrphanWrites
  <1>12. ASSUME NEW D \in SUBSET Jobs, Die(D) PROVE SolvedInv'
    BY <1>12 DEF Die
  <1> QED
    BY <1>0, <1>1, <1>2, <1>3, <1>4, <1>5, <1>6, <1>7, <1>8, <1>9, <1>10, <1>11, <1>12, StepCases

\* Meetings are never forgotten, and only Begin enters a directory.
LEMMA MetStep == TypeOK /\ MetInv /\ [Next]_proverVars => MetInv'
  <1> SUFFICES ASSUME TypeOK, MetInv, [Next]_proverVars PROVE MetInv'
    OBVIOUS
  <1> USE DEF TypeOK, MetInv, Using, Inside, Goto
  <1>0. ASSUME UNCHANGED proverVars PROVE MetInv'
    BY <1>0 DEF proverVars
  <1>1. ASSUME NEW j \in Jobs, Begin(j) PROVE MetInv'
    <2> SUFFICES ASSUME NEW a \in Jobs, NEW b \in Jobs, a # b, DirOf[a] = DirOf[b],
                        pc'[a] \in Using, pc'[b] \in Using
                 PROVE  b \in met'[a]
      BY DEF MetInv
    <2>1. CASE a = j
      BY <1>1, <2>1 DEF Begin, Peers
    <2>2. CASE b = j
      BY <1>1, <2>2 DEF Begin, Peers
    <2>3. CASE a # j /\ b # j
      BY <1>1, <2>3 DEF Begin
    <2> QED
      BY <2>1, <2>2, <2>3
  <1>2. ASSUME NEW j \in Jobs, Refuse(j) PROVE MetInv'
    BY <1>2 DEF Refuse
  <1>3. ASSUME NEW j \in Jobs, OpenToml(j) PROVE MetInv'
    BY <1>3 DEF OpenToml
  <1>4. ASSUME NEW j \in Jobs, NoDirectory(j) PROVE MetInv'
    BY <1>4 DEF NoDirectory
  <1>5. ASSUME NEW j \in Jobs, WriteToml(j) PROVE MetInv'
    BY <1>5 DEF WriteToml
  <1>6. ASSUME NEW j \in Jobs, NargoReads(j) PROVE MetInv'
    BY <1>6 DEF NargoReads, NargoOutcome
  <1>7. ASSUME NEW j \in Jobs, NargoWrites(j) PROVE MetInv'
    BY <1>7 DEF NargoWrites
  <1>8. ASSUME NEW j \in Jobs, BbProves(j) PROVE MetInv'
    BY <1>8 DEF BbProves
  <1>9. ASSUME NEW j \in Jobs, Throw(j) PROVE MetInv'
    BY <1>9 DEF Throw
  <1>10. ASSUME NEW j \in Jobs, Cleanup(j) PROVE MetInv'
    BY <1>10 DEF Cleanup, Ended
  <1>11. ASSUME NEW j \in Jobs, OrphanWrites(j) PROVE MetInv'
    BY <1>11 DEF OrphanWrites
  <1>12. ASSUME NEW D \in SUBSET Jobs, Die(D) PROVE MetInv'
    BY <1>12 DEF Die
  <1> QED
    BY <1>0, <1>1, <1>2, <1>3, <1>4, <1>5, <1>6, <1>7, <1>8, <1>9, <1>10, <1>11, <1>12, StepCases

\* The descriptors on a Prover.toml belong to calls that will still remove it.
LEMMA TomlStep == TypeOK /\ TomlInv /\ [Next]_proverVars => TomlInv'
  <1> SUFFICES ASSUME TypeOK, TomlInv, [Next]_proverVars PROVE TomlInv'
    OBVIOUS
  <1> USE DirAssumption, TextAssumption DEF TypeOK, TomlInv, Using, Inside, Goto
  <1>0. ASSUME UNCHANGED proverVars PROVE TomlInv'
    BY <1>0 DEF proverVars
  <1>1. ASSUME NEW j \in Jobs, Begin(j) PROVE TomlInv'
    BY <1>1 DEF Begin, files
  <1>2. ASSUME NEW j \in Jobs, Refuse(j) PROVE TomlInv'
    BY <1>2 DEF Refuse, files
  <1>3. ASSUME NEW j \in Jobs, OpenToml(j) PROVE TomlInv'
    <2>1. pc' = [pc EXCEPT ![j] = "write"] /\ pc[j] = "open"
      BY <1>3 DEF OpenToml
    <2>2. \A d \in Dirs : toml'[d].writers = toml[d].writers \cup (IF d = DirOf[j] THEN {j} ELSE {})
      BY <1>3 DEF OpenToml
    <2>3. \A d \in Dirs : d # DirOf[j] => toml'[d] = toml[d]
      BY <1>3 DEF OpenToml
    <2>4. ASSUME NEW d \in Dirs, toml'[d].text # Absent PROVE toml'[d].writers # {}
      BY <2>2, <2>3, <2>4
    <2>5. ASSUME NEW d \in Dirs, NEW k \in toml'[d].writers
          PROVE  DirOf[k] = d /\ pc'[k] \in Using \cup {"dead"}
      <3>1. CASE k \in toml[d].writers
        BY <2>1, <3>1
      <3>2. CASE k = j /\ d = DirOf[j]
        BY <2>1, <3>2
      <3> QED
        BY <2>2, <2>5, <3>1, <3>2
    <2> QED
      BY <2>4, <2>5
  <1>4. ASSUME NEW j \in Jobs, NoDirectory(j) PROVE TomlInv'
    BY <1>4 DEF NoDirectory, files
  <1>5. ASSUME NEW j \in Jobs, WriteToml(j) PROVE TomlInv'
    BY <1>5 DEF WriteToml, Texts
  <1>6. ASSUME NEW j \in Jobs, NargoReads(j) PROVE TomlInv'
    BY <1>6 DEF NargoReads, NargoOutcome, files
  <1>7. ASSUME NEW j \in Jobs, NargoWrites(j) PROVE TomlInv'
    BY <1>7 DEF NargoWrites
  <1>8. ASSUME NEW j \in Jobs, BbProves(j) PROVE TomlInv'
    BY <1>8 DEF BbProves, files
  <1>9. ASSUME NEW j \in Jobs, Throw(j) PROVE TomlInv'
    BY <1>9 DEF Throw, files
  <1>10. ASSUME NEW j \in Jobs, Cleanup(j) PROVE TomlInv'
    <2>1. \A k \in Jobs : k # j => pc'[k] = pc[k]
      BY <1>10 DEF Cleanup, Ended
    <2>2. toml' = [toml EXCEPT ![DirOf[j]] = NoToml]
      BY <1>10 DEF Cleanup, Ended, CleanedToml
    <2>3. \A d \in Dirs : toml'[d] = IF d = DirOf[j] THEN NoToml ELSE toml[d]
      BY <2>2
    <2>4. ASSUME NEW d \in Dirs, NEW k \in toml'[d].writers
          PROVE  DirOf[k] = d /\ pc'[k] \in Using \cup {"dead"}
      <3>1. d # DirOf[j] /\ k \in toml[d].writers
        BY <2>3, <2>4 DEF NoToml
      <3> QED
        BY <2>1, <3>1
    <2>5. ASSUME NEW d \in Dirs, toml'[d].text # Absent PROVE toml'[d].writers # {}
      BY <2>3, <2>5 DEF NoToml
    <2> QED
      BY <2>4, <2>5
  <1>11. ASSUME NEW j \in Jobs, OrphanWrites(j) PROVE TomlInv'
    BY <1>11 DEF OrphanWrites
  <1>12. ASSUME NEW D \in SUBSET Jobs, Die(D) PROVE TomlInv'
    BY <1>12 DEF Die, files
  <1> QED
    BY <1>0, <1>1, <1>2, <1>3, <1>4, <1>5, <1>6, <1>7, <1>8, <1>9, <1>10, <1>11, <1>12, StepCases

\* Nobody writes the files of a job that met nobody: a job k that does not use
\* its directory alone has met it, or is elsewhere.
LEMMA Elsewhere ==
  ASSUME MetInv, NEW j \in Jobs, NEW k \in Jobs, k # j, met[j] = {},
         pc[j] \in Using, pc[k] \in Using
  PROVE  DirOf[k] # DirOf[j]
  BY DEF MetInv

\* A job met nobody after a step only if it met nobody before.
LEMMA MetGrows ==
  ASSUME TypeOK, [Next]_proverVars, NEW j \in Jobs, met'[j] = {}
  PROVE  met[j] = {} \/ pc[j] = "idle"
  <1> DEFINE P == met[j] = {} \/ pc[j] = "idle"
  <1>0. ASSUME UNCHANGED proverVars PROVE P
    BY <1>0 DEF proverVars
  <1>1. ASSUME NEW k \in Jobs, Begin(k) PROVE P
    BY <1>1 DEF Begin, Goto, TypeOK
  <1>2. ASSUME NEW k \in Jobs, Refuse(k) PROVE P
    BY <1>2 DEF Refuse
  <1>3. ASSUME NEW k \in Jobs, ProverStep(k) PROVE P
    BY <1>3 DEF ProverStep, OpenToml, NoDirectory, WriteToml, NargoReads, NargoWrites, BbProves, Cleanup
  <1>4. ASSUME NEW k \in Jobs, Throw(k) \/ OrphanWrites(k) PROVE P
    BY <1>4 DEF Throw, OrphanWrites
  <1>5. ASSUME NEW D \in SUBSET Jobs, Die(D) PROVE P
    BY <1>5 DEF Die
  <1> QED
    BY <1>0, <1>1, <1>2, <1>3, <1>4, <1>5 DEF Next

\* What AloneInv says of one job.
Own(j) ==
  /\ pc[j] = "write" => toml[DirOf[j]].text = Torn /\ j \in toml[DirOf[j]].writers
  /\ pc[j] = "read" => toml[DirOf[j]].text = j
  /\ pc[j] = "solve" => solved[j] = j
  /\ pc[j] = "prove" => gz[DirOf[j]] = j
  /\ pc[j] \in {"leaving", "returned"} => proof[j] = j

\* A step that leaves the job and the files of its directory alone.
LEMMA OwnFrame ==
  ASSUME NEW j \in Jobs, Own(j), pc'[j] = pc[j], solved'[j] = solved[j], proof'[j] = proof[j],
         pc[j] \in Using => toml'[DirOf[j]] = toml[DirOf[j]] /\ gz'[DirOf[j]] = gz[DirOf[j]]
  PROVE  Own(j)'
  BY DEF Own, Using, Inside

\* No step of another job disturbs a job that met nobody.
LEMMA AloneStep == TypeOK /\ MetInv /\ AloneInv /\ [Next]_proverVars => AloneInv'
  <1> SUFFICES ASSUME TypeOK, MetInv, AloneInv, [Next]_proverVars,
                      NEW j \in Jobs, met'[j] = {}
               PROVE  Own(j)'
    BY DEF AloneInv, Own
  <1> USE DirAssumption, TextAssumption DEF TypeOK
  <1>own. Own(j) /\ (pc[j] \in Using => met[j] = {})
    <2>1. CASE pc[j] = "idle"
      BY <2>1 DEF Own, Using, Inside
    <2>2. CASE met[j] = {}
      BY <2>2 DEF AloneInv, Own
    <2> QED
      BY <2>1, <2>2, MetGrows
  <1>0. ASSUME UNCHANGED proverVars PROVE Own(j)'
    BY <1>0, <1>own DEF proverVars, Own
  <1>1. ASSUME NEW k \in Jobs, Begin(k) PROVE Own(j)'
    <2>1. CASE k = j
      BY <1>1, <1>own, <2>1 DEF Begin, Goto, files, Own
    <2>2. CASE k # j
      BY <1>1, <1>own, <2>2, OwnFrame DEF Begin, Goto, files, files
    <2> QED
      BY <2>1, <2>2
  <1>2. ASSUME NEW k \in Jobs, Refuse(k) PROVE Own(j)'
    <2>1. CASE k = j
      BY <1>2, <1>own, <2>1 DEF Refuse, Goto, Own
    <2>2. CASE k # j
      BY <1>2, <1>own, <2>2, OwnFrame DEF Refuse, Goto, files
    <2> QED
      BY <2>1, <2>2
  <1>3. ASSUME NEW k \in Jobs, OpenToml(k) PROVE Own(j)'
    <2>1. CASE k = j
      BY <1>3, <1>own, <2>1 DEF OpenToml, Goto, Own
    <2>2. CASE k # j
      <3>1. pc[j] \in Using => DirOf[k] # DirOf[j]
        BY <1>3, <1>own, <2>2, Elsewhere DEF OpenToml, Goto, Using, Inside
      <3> QED
        BY <1>3, <1>own, <2>2, <3>1, OwnFrame DEF OpenToml, Goto
    <2> QED
      BY <2>1, <2>2
  <1>4. ASSUME NEW k \in Jobs, NoDirectory(k) PROVE Own(j)'
    <2>1. CASE k = j
      BY <1>4, <1>own, <2>1 DEF NoDirectory, Goto, Own
    <2>2. CASE k # j
      BY <1>4, <1>own, <2>2, OwnFrame DEF NoDirectory, Goto, files
    <2> QED
      BY <2>1, <2>2
  <1>5. ASSUME NEW k \in Jobs, WriteToml(k) PROVE Own(j)'
    <2>1. CASE k = j
      <3>1. pc[j] = "write" /\ pc'[j] = "read" /\ DirOf[j] \in Dirs
        BY <1>5, <2>1 DEF WriteToml, Goto
      <3>2. Texts(j, toml[DirOf[j]]) = {j}
        BY <1>own, <3>1 DEF Own, Texts
      <3>3. toml'[DirOf[j]].text = j
        BY <1>5, <2>1, <3>1, <3>2 DEF WriteToml, Goto
      <3> QED
        BY <3>1, <3>3 DEF Own
    <2>2. CASE k # j
      <3>1. pc[j] \in Using => DirOf[k] # DirOf[j]
        BY <1>5, <1>own, <2>2, Elsewhere DEF WriteToml, Goto, Using, Inside
      <3> QED
        BY <1>5, <1>own, <2>2, <3>1, OwnFrame DEF WriteToml, Goto
    <2> QED
      BY <2>1, <2>2
  <1>6. ASSUME NEW k \in Jobs, NargoReads(k) PROVE Own(j)'
    <2>1. CASE k = j
      BY <1>6, <1>own, <2>1 DEF NargoReads, NargoOutcome, Goto, Own
    <2>2. CASE k # j
      BY <1>6, <1>own, <2>2, OwnFrame DEF NargoReads, NargoOutcome, Goto, files
    <2> QED
      BY <2>1, <2>2
  <1>7. ASSUME NEW k \in Jobs, NargoWrites(k) PROVE Own(j)'
    <2>1. CASE k = j
      BY <1>7, <1>own, <2>1 DEF NargoWrites, WitnessFile, Goto, Own
    <2>2. CASE k # j
      <3>1. pc[j] \in Using => DirOf[k] # DirOf[j]
        BY <1>7, <1>own, <2>2, Elsewhere DEF NargoWrites, WitnessFile, Goto, Using, Inside
      <3> QED
        BY <1>7, <1>own, <2>2, <3>1, OwnFrame DEF NargoWrites, WitnessFile, Goto
    <2> QED
      BY <2>1, <2>2
  <1>8. ASSUME NEW k \in Jobs, BbProves(k) PROVE Own(j)'
    <2>1. CASE k = j
      BY <1>8, <1>own, <2>1 DEF BbProves, Goto, Own
    <2>2. CASE k # j
      BY <1>8, <1>own, <2>2, OwnFrame DEF BbProves, Goto, files
    <2> QED
      BY <2>1, <2>2
  <1>9. ASSUME NEW k \in Jobs, Throw(k) PROVE Own(j)'
    <2>1. CASE k = j
      BY <1>9, <1>own, <2>1 DEF Throw, Own
    <2>2. CASE k # j
      BY <1>9, <1>own, <2>2, OwnFrame DEF Throw, files
    <2> QED
      BY <2>1, <2>2
  <1>10. ASSUME NEW k \in Jobs, Cleanup(k) PROVE Own(j)'
    <2>1. CASE k = j
      BY <1>10, <1>own, <2>1 DEF Cleanup, Ended, CleanedToml, Goto, Own
    <2>2. CASE k # j
      <3>1. pc[j] \in Using => DirOf[k] # DirOf[j]
        BY <1>10, <1>own, <2>2, Elsewhere DEF Cleanup, Ended, CleanedToml, Goto, Using, Inside
      <3> QED
        BY <1>10, <1>own, <2>2, <3>1, OwnFrame DEF Cleanup, Ended, CleanedToml, Goto
    <2> QED
      BY <2>1, <2>2
  <1>11. ASSUME NEW k \in Jobs, OrphanWrites(k) PROVE Own(j)'
    <2>1. CASE k = j
      BY <1>11, <1>own, <2>1 DEF OrphanWrites, WitnessFile, Goto, Own
    <2>2. CASE k # j
      <3>1. pc[j] \in Using => DirOf[k] # DirOf[j]
        BY <1>11, <1>own, <2>2, Elsewhere DEF OrphanWrites, WitnessFile, Goto, Using, Inside
      <3> QED
        BY <1>11, <1>own, <2>2, <3>1, OwnFrame DEF OrphanWrites, WitnessFile, Goto
    <2> QED
      BY <2>1, <2>2
  <1>12. ASSUME NEW D \in SUBSET Jobs, Die(D) PROVE Own(j)'
    <2>1. CASE j \in D
      BY <1>12, <2>1 DEF Die, Own
    <2>2. CASE j \notin D
      BY <1>12, <1>own, <2>2, OwnFrame DEF Die, files
    <2> QED
      BY <2>1, <2>2
  <1> HIDE DEF TypeOK
  <1> QED
    BY <1>0, <1>1, <1>2, <1>3, <1>4, <1>5, <1>6, <1>7, <1>8, <1>9, <1>10, <1>11, <1>12, StepCases

LEMMA CauseStep ==
  TypeOK /\ AloneInv /\ CauseInv /\ [Next]_proverVars => CauseInv'
  <1> SUFFICES ASSUME TypeOK, AloneInv, CauseInv, [Next]_proverVars,
                      NEW j \in Jobs, pc'[j] \in {"throwing", "failed"}
               PROVE  failures' > 0 \/ met'[j] # {} \/ DirOf[j] \notin Circuits
    BY DEF CauseInv
  <1> DEFINE P == failures' > 0 \/ met'[j] # {} \/ DirOf[j] \notin Circuits
  <1> USE DirAssumption, TextAssumption, FailureAssumption DEF CauseInv, Goto
  <1>n. failures \in Nat /\ pc \in [Jobs -> States] /\ met \in [Jobs -> SUBSET Jobs]
    BY DEF TypeOK
  <1>0. ASSUME UNCHANGED proverVars PROVE P
    BY <1>0 DEF proverVars
  <1>1. ASSUME NEW k \in Jobs, Begin(k) PROVE P
    <2>1. k # j /\ pc'[j] = pc[j] /\ failures' = failures
      BY <1>1, <1>n DEF Begin
    <2>2. met[j] \subseteq met'[j]
      BY <1>1, <1>n, <2>1 DEF Begin
    <2> QED
      BY <2>1, <2>2
  <1>2. ASSUME NEW k \in Jobs, Refuse(k) \/ Throw(k) PROVE P
    BY <1>2, <1>n DEF Refuse, Throw
  <1>3. ASSUME NEW k \in Jobs, OpenToml(k) PROVE P
    BY <1>3, <1>n DEF OpenToml
  <1>4. ASSUME NEW k \in Jobs, NoDirectory(k) PROVE P
    BY <1>4, <1>n DEF NoDirectory
  <1>5. ASSUME NEW k \in Jobs, WriteToml(k) PROVE P
    BY <1>5, <1>n DEF WriteToml
  <1>6. ASSUME NEW k \in Jobs, NargoReads(k) PROVE P
    <2>1. CASE k = j
      <3>1. pc[j] = "read" /\ toml[DirOf[j]].text \notin Jobs
        BY <1>6, <1>n, <2>1 DEF NargoReads, NargoOutcome
      <3>2. met[j] # {}
        BY <3>1 DEF AloneInv
      <3> QED
        BY <1>6, <3>2 DEF NargoReads
    <2>2. CASE k # j
      BY <1>6, <1>n, <2>2 DEF NargoReads
    <2> QED
      BY <2>1, <2>2
  <1>7. ASSUME NEW k \in Jobs, NargoWrites(k) \/ BbProves(k) \/ OrphanWrites(k) PROVE P
    BY <1>7, <1>n DEF NargoWrites, BbProves, OrphanWrites
  <1>8. ASSUME NEW k \in Jobs, Cleanup(k) PROVE P
    BY <1>8, <1>n DEF Cleanup, Ended
  <1>9. ASSUME NEW D \in SUBSET Jobs, Die(D) PROVE P
    BY <1>9, <1>n DEF Die
  <1> QED
    BY <1>0, <1>1, <1>2, <1>3, <1>4, <1>5, <1>6, <1>7, <1>8, <1>9 DEF Next, ProverStep

LEMMA FilesStep == TypeOK /\ SolvedInv /\ FilesInv /\ [Next]_proverVars => FilesInv'
  <1> SUFFICES ASSUME TypeOK, SolvedInv, FilesInv, [Next]_proverVars PROVE FilesInv'
    OBVIOUS
  <1> USE DirAssumption, TextAssumption DEF TypeOK, FilesInv, Goto
  <1>0. ASSUME UNCHANGED proverVars PROVE FilesInv'
    BY <1>0 DEF proverVars
  <1>1. ASSUME NEW j \in Jobs, Begin(j) PROVE FilesInv'
    BY <1>1 DEF Begin, files
  <1>2. ASSUME NEW j \in Jobs, Refuse(j) PROVE FilesInv'
    BY <1>2 DEF Refuse, files
  <1>3. ASSUME NEW j \in Jobs, OpenToml(j) PROVE FilesInv'
    BY <1>3 DEF OpenToml
  <1>4. ASSUME NEW j \in Jobs, NoDirectory(j) PROVE FilesInv'
    BY <1>4 DEF NoDirectory, files
  <1>5. ASSUME NEW j \in Jobs, WriteToml(j) PROVE FilesInv'
    <2>1. PICK text \in Texts(j, toml[DirOf[j]]) : toml' = [toml EXCEPT ![DirOf[j]].text = text]
      BY <1>5 DEF WriteToml
    <2>2. text \in Jobs => DirOf[text] = DirOf[j]
      BY DEF Texts
    <2>3. \A d \in Dirs : toml'[d].text \in Jobs => DirOf[toml'[d].text] = d
      BY <2>1, <2>2
    <2> QED
      BY <1>5, <2>3 DEF WriteToml
  <1>6. ASSUME NEW j \in Jobs, NargoReads(j) PROVE FilesInv'
    BY <1>6 DEF NargoReads, NargoOutcome, files
  <1>7. ASSUME NEW j \in Jobs, NargoWrites(j) PROVE FilesInv'
    BY <1>7 DEF NargoWrites, WitnessFile, SolvedInv
  <1>8. ASSUME NEW j \in Jobs, BbProves(j) PROVE FilesInv'
    BY <1>8 DEF BbProves, files
  <1>9. ASSUME NEW j \in Jobs, Throw(j) PROVE FilesInv'
    BY <1>9 DEF Throw, files
  <1>10. ASSUME NEW j \in Jobs, Cleanup(j) PROVE FilesInv'
    BY <1>10 DEF Cleanup, Ended, CleanedToml, NoToml
  <1>11. ASSUME NEW j \in Jobs, OrphanWrites(j) PROVE FilesInv'
    BY <1>11 DEF OrphanWrites, WitnessFile, SolvedInv
  <1>12. ASSUME NEW D \in SUBSET Jobs, Die(D) PROVE FilesInv'
    BY <1>12 DEF Die, files
  <1> HIDE DEF TypeOK, FilesInv
  <1> QED
    BY <1>0, <1>1, <1>2, <1>3, <1>4, <1>5, <1>6, <1>7, <1>8, <1>9, <1>10, <1>11, <1>12, StepCases

LEMMA StepInv == IInv /\ [Next]_proverVars => IInv'
  BY TypeStep, SolvedStep, MetStep, AloneStep, TomlStep, CauseStep, FilesStep DEF IInv

LEMMA Invariance == Spec => []IInv
  BY InitInv, StepInv, PTL DEF Spec

-----------------------------------------------------------------------------

\* Every file, job and history keeps its type, for any number of jobs: see TypeOK.
THEOREM TypeCorrect == Spec => []TypeOK
  <1>1. IInv => TypeOK
    BY DEF IInv
  <1> QED
    BY <1>1, Invariance, PTL

\* A call that shared its directory with nobody returns a proof of its own witness,
\* whatever earlier jobs, failures and deaths left in the directory.
THEOREM AloneIsSound == Spec => []AloneProvesOwn
  <1>1. IInv => AloneProvesOwn
    BY DEF IInv, AloneInv, AloneProvesOwn
  <1> QED
    BY <1>1, Invariance, PTL

\* A Prover.toml is left behind only by a killed job.
THEOREM TomlIsRemoved == Spec => []TomlIsTemporary
  <1>1. IInv => TomlIsTemporary
    <2> SUFFICES ASSUME IInv, NEW d \in Dirs, toml[d].text # Absent
                 PROVE  \E j \in Jobs : DirOf[j] = d /\ pc[j] \in Using \cup {"dead"}
      BY DEF TomlIsTemporary
    <2>1. PICK j \in toml[d].writers : TRUE
      BY DEF IInv, TomlInv
    <2>2. j \in Jobs
      BY <2>1 DEF IInv, TypeOK
    <2> QED
      BY <2>1, <2>2 DEF IInv, TomlInv
  <1> QED
    BY <1>1, Invariance, PTL

\* A call fails only for a cause outside it.
THEOREM FailuresAreExplained == Spec => []FailureHasCause
  <1>1. IInv => FailureHasCause
    BY DEF IInv, CauseInv, FailureHasCause
  <1> QED
    BY <1>1, Invariance, PTL

\* An envelope that is returned holds a proof of the same recipe that bb accepts.
THEOREM EnvelopesVerify == Spec => []EnvelopeVerifies
  <1>1. IInv => EnvelopeVerifies
    BY TextAssumption DEF IInv, FilesInv, EnvelopeVerifies, VerifyBn254Local
  <1> QED
    BY <1>1, Invariance, PTL
=============================================================================
