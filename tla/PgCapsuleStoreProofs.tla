------------------------ MODULE PgCapsuleStoreProofs ------------------------
(***************************************************************************)
(* Theorems about PgCapsuleStore, for every set of capsules, readers,      *)
(* sources and facts.                                                      *)
(***************************************************************************)
EXTENDS PgCapsuleStore, CapsuleProofs

-----------------------------------------------------------------------------
(* Rows in an unspecified order are a sequence of those rows.              *)

LEMMA RowsAreFacts ==
  ASSUME NEW S, S \subseteq Facts, NEW rows \in SetToSeqs(S)
  PROVE  rows \in Seq(Facts)
<1>1. Cardinality(S) \in Nat
  BY FactsFinite, FS_Subset, FS_CardinalityType
<1>2. rows \in [1..Cardinality(S) -> S]
  BY DEF SetToSeqs
<1> QED
  BY <1>1, <1>2

LEMMA PartIndexes ==
  ASSUME NEW c \in Capsules
  PROVE  DOMAIN Parts[c] = 1..Len(Parts[c]) /\ Len(Parts[c]) \in Nat
BY PartType

LEMMA PartElements ==
  ASSUME NEW c \in Capsules, NEW p \in DOMAIN Parts[c]
  PROVE  /\ \A k \in 1..Len(Parts[c][p].sources) : Parts[c][p].sources[k] \in Sources
         /\ \A k \in 1..Len(Parts[c][p].facts) : Parts[c][p].facts[k] \in Facts
         /\ DOMAIN Parts[c][p].sources = 1..Len(Parts[c][p].sources)
         /\ DOMAIN Parts[c][p].facts = 1..Len(Parts[c][p].facts)
         /\ Len(Parts[c][p].sources) \in Nat
         /\ Len(Parts[c][p].facts) \in Nat
BY PartType, ElementOfSeq, LenProperties

LEMMA CitedElements ==
  ASSUME NEW f \in Facts
  PROVE  /\ Cites[f] \in Seq(Sources)
         /\ \A k \in 1..Len(Cites[f]) : Cites[f][k] \in Sources
         /\ DOMAIN Cites[f] = 1..Len(Cites[f])
         /\ Len(Cites[f]) \in Nat
BY CitesAssumption, ElementOfSeq, LenProperties

-----------------------------------------------------------------------------
(* Type correctness.                                                       *)

LEMMA TypeInit == Init => TypeOK
<1> SUFFICES ASSUME Init PROVE TypeOK
  OBVIOUS
<1>1. writer \in [Capsules -> WriterStates]
  BY DEF Init, WriterStates, WriterPcs, Positions
<1>2. IdleReader \in ReaderStates
  BY DEF IdleReader, ReaderStates, ReaderPcs, Outcomes
<1>3. capsules \in [Capsules -> RowStates] /\ \A c \in Capsules : ~Present(c)
  BY DEF Init, RowStates, NoRow, Present
<1> QED
  BY <1>1, <1>2, <1>3 DEF Init, TypeOK

LEMMA GotoType ==
  ASSUME TypeOK, NEW c \in Capsules, NEW pc \in WriterPcs,
         NEW part \in Positions, NEW i \in Positions, NEW j \in Positions,
         Goto(c, pc, part, i, j)
  PROVE  writer' \in [Capsules -> WriterStates]
BY DEF Goto, TypeOK, WriterStates

LEMMA WriterType ==
  ASSUME TypeOK, NEW c \in Capsules
  PROVE  /\ writer[c] \in WriterStates
         /\ writer[c].part \in Positions
         /\ writer[c].i \in Positions
         /\ writer[c].j \in Positions
         /\ writer[c].part + 1 \in Positions
         /\ writer[c].i + 1 \in Positions
         /\ writer[c].j + 1 \in Positions
         /\ 1 \in Positions
         /\ writer[c].pc \in WriterPcs
BY DEF TypeOK, WriterStates, Positions

\* A step of one build leaves the others where they are.
LEMMA OtherWriters ==
  ASSUME TypeOK, NEW c \in Capsules, Write(c) \/ Abort(c), NEW d \in Capsules, d # c
  PROVE  writer'[d] = writer[d]
<1>1. \E pc, part, i, j : Goto(c, pc, part, i, j)
  <2>1. CASE NextPart(c)
    BY <2>1 DEF NextPart
  <2>2. CASE SaveSource(c)
    BY <2>2 DEF SaveSource
  <2>3. CASE SaveFact(c)
    BY <2>3 DEF SaveFact
  <2>4. CASE SaveFactSource(c)
    BY <2>4 DEF SaveFactSource
  <2>5. CASE SaveCapsule(c)
    BY <2>5 DEF SaveCapsule
  <2>6. CASE LinkFact(c)
    BY <2>6 DEF LinkFact
  <2>7. CASE LinkSource(c)
    BY <2>7 DEF LinkSource
  <2>8. CASE Abort(c)
    BY <2>8 DEF Abort
  <2> QED
    BY <2>1, <2>2, <2>3, <2>4, <2>5, <2>6, <2>7, <2>8 DEF Write
<1> QED
  BY <1>1 DEF Goto, TypeOK

\* The loop positions stay inside the lists the loops run over.
InPartStep(c) == writer[c].pc \in {"sources", "facts", "cites"} => InPart(c)
InCites(c)    == writer[c].pc = "cites" => writer[c].i \in DOMAIN PartFacts(c)
LoopInv       == \A c \in Capsules : InPartStep(c) /\ InCites(c)

LEMMA LoopStep == TypeOK /\ LoopInv /\ [Next]_vars => LoopInv'
<1> SUFFICES ASSUME TypeOK, LoopInv, [Next]_vars, NEW d \in Capsules
             PROVE  InPartStep(d)' /\ InCites(d)'
  BY DEF LoopInv
<1> USE DEF LoopInv, InPartStep, InCites, InPart, PartFacts
<1>1. CASE UNCHANGED writer
  BY <1>1
<1>2. ASSUME NEW c \in Capsules, Write(c) \/ Abort(c)
      PROVE  InPartStep(d)' /\ InCites(d)'
  <2>1. d # c => writer'[d] = writer[d]
    BY <1>2, OtherWriters
  <2>2. CASE d = c
    <3>1. CASE NextPart(c)
      BY <2>2, <3>1 DEF NextPart, Goto, TypeOK
    <3>2. CASE SaveSource(c)
      BY <2>2, <3>2 DEF SaveSource, Goto, TypeOK
    <3>3. CASE SaveFact(c)
      <4>1. CASE writer[c].i <= Len(PartFacts(c))
        <5>1. writer[c].i \in DOMAIN PartFacts(c)
          BY <3>3, <4>1, PartElements, WriterType DEF SaveFact, Positions
        <5> QED
          BY <2>2, <3>3, <4>1, <5>1 DEF SaveFact, Goto, TypeOK
      <4>2. CASE ~(writer[c].i <= Len(PartFacts(c)))
        BY <2>2, <3>3, <4>2 DEF SaveFact, Goto, TypeOK
      <4> QED
        BY <4>1, <4>2
    <3>4. CASE SaveFactSource(c)
      <4>1. \/ Goto(c, "facts", writer[c].part, writer[c].i + 1, 1)
            \/ Goto(c, "cites", writer[c].part, writer[c].i, writer[c].j + 1)
            \/ Goto(c, "failed", 1, 1, 1)
        BY <3>4 DEF SaveFactSource
      <4>2. writer[c].pc = "cites"
        BY <3>4 DEF SaveFactSource
      <4> QED
        BY <2>2, <4>1, <4>2 DEF Goto, TypeOK
    <3>5. CASE SaveCapsule(c) \/ LinkFact(c) \/ LinkSource(c) \/ Abort(c)
      <4>1. writer'[c].pc \notin {"sources", "facts", "cites"}
        <5>1. CASE SaveCapsule(c) \/ Abort(c)
          BY <5>1 DEF SaveCapsule, Abort, Goto, TypeOK
        <5>2. CASE LinkFact(c)
          BY <5>2 DEF LinkFact, Goto, TypeOK
        <5>3. CASE LinkSource(c)
          BY <5>3 DEF LinkSource, Goto, TypeOK
        <5> QED
          BY <3>5, <5>1, <5>2, <5>3
      <4> QED
        BY <2>2, <4>1
    <3> QED
      BY <1>2, <3>1, <3>2, <3>3, <3>4, <3>5 DEF Write
  <2> QED
    BY <2>1, <2>2
<1>3. ASSUME NEW r \in Readers, Load(r) \/ \E c \in Capsules : GetCapsule(r, c)
      PROVE  UNCHANGED writer
  BY <1>3 DEF Load, GetCapsule, GetCapsuleFacts, FactSourceIds, VerifyLoaded
<1>4. TimePasses \/ DeleteCapsulesOlderThan \/ UNCHANGED vars => UNCHANGED writer
  BY DEF TimePasses, DeleteCapsulesOlderThan, vars
<1> QED
  BY <1>1, <1>2, <1>3, <1>4 DEF Next

\* What an action does to the writer table is well typed.
LEMMA WriterStep ==
  ASSUME TypeOK, NEW c \in Capsules, Write(c) \/ Abort(c)
  PROVE  writer' \in [Capsules -> WriterStates]
<1> USE WriterType, GotoType DEF WriterPcs
<1>1. CASE NextPart(c)
  BY <1>1 DEF NextPart
<1>2. CASE SaveSource(c)
  BY <1>2 DEF SaveSource
<1>3. CASE SaveFact(c)
  BY <1>3 DEF SaveFact
<1>4. CASE SaveFactSource(c)
  BY <1>4 DEF SaveFactSource
<1>5. CASE SaveCapsule(c)
  BY <1>5 DEF SaveCapsule
<1>6. CASE LinkFact(c)
  BY <1>6 DEF LinkFact
<1>7. CASE LinkSource(c)
  BY <1>7 DEF LinkSource
<1>8. CASE Abort(c)
  BY <1>8 DEF Abort
<1> QED
  BY <1>1, <1>2, <1>3, <1>4, <1>5, <1>6, <1>7, <1>8 DEF Write

LEMMA TypeStep == TypeOK /\ LoopInv /\ [Next]_vars => TypeOK'
<1> SUFFICES ASSUME TypeOK, LoopInv, [Next]_vars PROVE TypeOK'
  OBVIOUS
<1>1. ASSUME NEW c \in Capsules, Write(c) \/ Abort(c) PROVE TypeOK'
  <2>1. writer' \in [Capsules -> WriterStates]
    BY <1>1, WriterStep
  <2>2. CASE NextPart(c) \/ Abort(c)
    BY <2>1, <2>2 DEF NextPart, Abort, TypeOK, tables, Present
  <2>3. CASE SaveSource(c)
    <3>1. sources' \subseteq Sources
      <4>1. CASE writer[c].i <= Len(PartSources(c))
        <5>1. PartSources(c)[writer[c].i] \in Sources
          BY <2>3, <4>1, PartElements, WriterType
             DEF SaveSource, LoopInv, InPartStep, InPart, PartSources, Positions
        <5> QED
          BY <2>3, <4>1, <5>1 DEF SaveSource, TypeOK
      <4>2. CASE ~(writer[c].i <= Len(PartSources(c)))
        BY <2>3, <4>2 DEF SaveSource, TypeOK
      <4> QED
        BY <4>1, <4>2
    <3> QED
      BY <2>1, <2>3, <3>1 DEF SaveSource, TypeOK, Present
  <2>4. CASE SaveFact(c)
    <3>1. facts' \subseteq Facts
      <4>1. CASE writer[c].i <= Len(PartFacts(c))
        <5>1. PartFacts(c)[writer[c].i] \in Facts
          BY <2>4, <4>1, PartElements, WriterType
             DEF SaveFact, LoopInv, InPartStep, InPart, PartFacts, Positions
        <5> QED
          BY <2>4, <4>1, <5>1 DEF SaveFact, TypeOK
      <4>2. CASE ~(writer[c].i <= Len(PartFacts(c)))
        BY <2>4, <4>2 DEF SaveFact, TypeOK
      <4> QED
        BY <4>1, <4>2
    <3> QED
      BY <2>1, <2>4, <3>1 DEF SaveFact, TypeOK, Present
  <2>5. CASE SaveFactSource(c)
    <3>1. factSources' \subseteq Facts \X Sources
      BY <2>5 DEF SaveFactSource, TypeOK
    <3> QED
      BY <2>1, <2>5, <3>1 DEF SaveFactSource, TypeOK, Present
  <2>6. CASE SaveCapsule(c)
    <3>1. CASE BuildThrows(c)
      BY <2>1, <2>6, <3>1 DEF SaveCapsule, TypeOK, Present
    <3>2. CASE ~BuildThrows(c)
      <4>1. Row(BuildRoots[c], now) \in RowStates
        BY DEF RowStates, Row, TypeOK
      <4>2. capsules' = [capsules EXCEPT ![c] = Row(BuildRoots[c], now)] /\ now' = now + 1
        BY <2>6, <3>2 DEF SaveCapsule, CreatedAt
      <4>3. capsules' \in [Capsules -> RowStates]
        BY <4>1, <4>2 DEF TypeOK
      <4>4. \A d \in Capsules : Present(d)' => capsules'[d].createdAt < now'
        <5> TAKE d \in Capsules
        <5>1. CASE d = c
          BY <4>2, <5>1 DEF TypeOK, Row
        <5>2. CASE d # c
          <6>1. capsules'[d] = capsules[d]
            BY <4>2, <5>2 DEF TypeOK
          <6>2. Present(d) => capsules[d].createdAt \in Nat
            BY DEF TypeOK, RowStates, Row, NoRow, Present
          <6> QED
            BY <4>2, <6>1, <6>2 DEF TypeOK, Present
        <5> QED
          BY <5>1, <5>2
      <4> QED
        BY <2>1, <2>6, <4>2, <4>3, <4>4 DEF SaveCapsule, TypeOK
    <3> QED
      BY <3>1, <3>2
  <2>7. CASE LinkFact(c)
    <3>1. capsuleFacts' \subseteq Capsules \X Facts
      BY <2>7 DEF LinkFact, TypeOK
    <3> QED
      BY <2>1, <2>7, <3>1 DEF LinkFact, TypeOK, Present
  <2>8. CASE LinkSource(c)
    <3>1. capsuleSources' \subseteq Capsules \X Sources
      BY <2>8 DEF LinkSource, TypeOK
    <3> QED
      BY <2>1, <2>8, <3>1 DEF LinkSource, TypeOK, Present
  <2> QED
    BY <1>1, <2>2, <2>3, <2>4, <2>5, <2>6, <2>7, <2>8 DEF Write
<1>2. ASSUME NEW r \in Readers, NEW c \in Capsules, GetCapsule(r, c) PROVE TypeOK'
  <2>1. reader' \in [Readers -> ReaderStates]
    <3>1. IdleReader \in ReaderStates
      BY DEF IdleReader, ReaderStates, ReaderPcs, Outcomes
    <3>2. Present(c) => capsules[c].roots \in {BuildRoots[d] : d \in Capsules}
      BY DEF TypeOK, RowStates, Row, NoRow, Present
    <3>3. Present(c) =>
            [IdleReader EXCEPT !.pc = "facts", !.capsule = c, !.roots = capsules[c].roots,
                               !.complete = writer[c].pc = "saved"] \in ReaderStates
      BY <3>1, <3>2 DEF ReaderStates, ReaderPcs
    <3>4. [IdleReader EXCEPT !.pc = "done", !.capsule = c, !.outcome = "not_found"]
            \in ReaderStates
      BY <3>1 DEF ReaderStates, ReaderPcs, Outcomes
    <3> QED
      BY <1>2, <3>3, <3>4 DEF GetCapsule, TypeOK
  <2> QED
    BY <1>2, <2>1 DEF GetCapsule, TypeOK, tables, Present
<1>3. ASSUME NEW r \in Readers, Load(r) PROVE TypeOK'
  <2>1. reader' \in [Readers -> ReaderStates]
    <3>1. CASE GetCapsuleFacts(r)
      <4>1. PICK rows \in SetToSeqs(LinkedFacts(reader[r].capsule)) :
              reader' = [reader EXCEPT ![r] = [@ EXCEPT !.pc = "cites", !.rows = rows]]
        BY <3>1 DEF GetCapsuleFacts
      <4>2. rows \in Seq(Facts)
        BY RowsAreFacts DEF LinkedFacts, TypeOK
      <4>3. [reader[r] EXCEPT !.pc = "cites", !.rows = rows] \in ReaderStates
        BY <4>2 DEF TypeOK, ReaderStates, ReaderPcs
      <4> QED
        BY <4>1, <4>3 DEF TypeOK
    <3>2. CASE FactSourceIds(r)
      <4> DEFINE l   == reader[r]
                 ids == CitedRows(l.rows[Len(l.cited) + 1])
      <4>1. l \in ReaderStates /\ ids \in SUBSET Sources
        BY DEF TypeOK, CitedRows
      <4>2. Append(l.cited, ids) \in Seq(SUBSET Sources)
        BY <4>1, AppendProperties DEF ReaderStates
      <4>3. /\ [l EXCEPT !.cited = Append(l.cited, ids)] \in ReaderStates
            /\ [l EXCEPT !.pc = "sources"] \in ReaderStates
        BY <4>1, <4>2 DEF ReaderStates, ReaderPcs
      <4>4. \/ reader' = [reader EXCEPT ![r] = [l EXCEPT !.cited = Append(l.cited, ids)]]
            \/ reader' = [reader EXCEPT ![r] = [l EXCEPT !.pc = "sources"]]
        BY <3>2 DEF FactSourceIds
      <4> HIDE DEF l, ids
      <4> QED
        BY <4>3, <4>4 DEF TypeOK
    <3>3. CASE VerifyLoaded(r)
      <4>1. reader[r] \in ReaderStates
        BY DEF TypeOK
      <4>2. PICK o \in {"verified", "unverified"} :
              reader' = [reader EXCEPT ![r] = [@ EXCEPT !.pc = "done", !.outcome = o]]
        BY <3>3 DEF VerifyLoaded
      <4>3. [reader[r] EXCEPT !.pc = "done", !.outcome = o] \in ReaderStates
        BY <4>1 DEF ReaderStates, ReaderPcs, Outcomes
      <4> QED
        BY <4>2, <4>3 DEF TypeOK
    <3> QED
      BY <1>3, <3>1, <3>2, <3>3 DEF Load
  <2>2. UNCHANGED <<tables, now, cutoff, writer, deleted>>
    BY <1>3 DEF Load, GetCapsuleFacts, FactSourceIds, VerifyLoaded
  <2> QED
    BY <2>1, <2>2 DEF TypeOK, tables, Present
<1>4. CASE TimePasses
  BY <1>4 DEF TimePasses, TypeOK, tables, Present
<1>5. CASE DeleteCapsulesOlderThan
  <2>1. capsules' \in [Capsules -> RowStates]
    BY <1>5 DEF DeleteCapsulesOlderThan, TypeOK, RowStates
  <2>2. \A c \in Capsules : Present(c)' => capsules'[c].createdAt < now'
    BY <1>5 DEF DeleteCapsulesOlderThan, TypeOK, NoRow, Present
  <2> QED
    BY <1>5, <2>1, <2>2 DEF DeleteCapsulesOlderThan, TypeOK, Cascade, Expired
<1>6. CASE UNCHANGED vars
  BY <1>6 DEF vars, tables, TypeOK, Present
<1> QED
  BY <1>1, <1>2, <1>3, <1>4, <1>5, <1>6 DEF Next
-----------------------------------------------------------------------------
(* What the builds have saved so far.                                      *)

FactSaved(f) ==
  f \in facts /\ \A s \in ToSet(Cites[f]) : <<f, s>> \in factSources
PartSaved(c, p) ==
  /\ ToSet(Parts[c][p].sources) \subseteq sources
  /\ \A f \in ToSet(Parts[c][p].facts) : FactSaved(f)

EarlierSaved(c) == \A p \in DOMAIN Parts[c] : p < writer[c].part => PartSaved(c, p)
AllSaved(c)     == \A p \in DOMAIN Parts[c] : PartSaved(c, p)
SourcesSoFar(c) == \A k \in DOMAIN PartSources(c) :
                     k < writer[c].i => PartSources(c)[k] \in sources
FactsSoFar(c)   == \A k \in DOMAIN PartFacts(c) :
                     k < writer[c].i => FactSaved(PartFacts(c)[k])
CitesSoFar(c)   == LET f == PartFacts(c)[writer[c].i] IN
                   /\ f \in facts
                   /\ \A k \in DOMAIN Cites[f] :
                        k < writer[c].j => <<f, Cites[f][k]>> \in factSources

Progress(c) ==
  /\ writer[c].pc \in {"part", "sources", "facts", "cites"} => EarlierSaved(c)
  /\ writer[c].pc = "sources" => SourcesSoFar(c)
  /\ writer[c].pc \in {"facts", "cites"} => ToSet(PartSources(c)) \subseteq sources
  /\ writer[c].pc \in {"facts", "cites"} => FactsSoFar(c)
  /\ writer[c].pc = "cites" => CitesSoFar(c)
  /\ writer[c].pc \in {"capsule", "linkFacts", "linkSources", "saved"} => AllSaved(c)
  /\ Present(c) => AllSaved(c)

\* Nothing deletes source records, facts or citations.
Grow == /\ sources \subseteq sources'
        /\ facts \subseteq facts'
        /\ factSources \subseteq factSources'

LEMMA RowsGrow == TypeOK /\ [Next]_vars => Grow
<1> SUFFICES ASSUME TypeOK, [Next]_vars PROVE Grow
  OBVIOUS
<1> USE DEF Grow
<1>1. ASSUME NEW c \in Capsules, Write(c) \/ Abort(c) PROVE Grow
  <2>1. CASE NextPart(c) \/ Abort(c)
    BY <2>1 DEF NextPart, Abort, tables
  <2>2. CASE SaveSource(c)
    BY <2>2 DEF SaveSource
  <2>3. CASE SaveFact(c)
    BY <2>3 DEF SaveFact
  <2>4. CASE SaveFactSource(c)
    BY <2>4 DEF SaveFactSource
  <2>5. CASE SaveCapsule(c)
    BY <2>5 DEF SaveCapsule
  <2>6. CASE LinkFact(c) \/ LinkSource(c)
    BY <2>6 DEF LinkFact, LinkSource
  <2> QED
    BY <1>1, <2>1, <2>2, <2>3, <2>4, <2>5, <2>6 DEF Write
<1>2. ASSUME NEW r \in Readers, Load(r) \/ \E c \in Capsules : GetCapsule(r, c)
      PROVE  Grow
  BY <1>2 DEF Load, GetCapsule, GetCapsuleFacts, FactSourceIds, VerifyLoaded, tables
<1>3. TimePasses \/ DeleteCapsulesOlderThan \/ UNCHANGED vars => Grow
  BY DEF TimePasses, DeleteCapsulesOlderThan, vars, tables
<1> QED
  BY <1>1, <1>2, <1>3 DEF Next

LEMMA SavedStays ==
  ASSUME Grow, NEW c \in Capsules, NEW p
  PROVE  /\ \A f : FactSaved(f) => FactSaved(f)'
         /\ PartSaved(c, p) => PartSaved(c, p)'
BY DEF Grow, FactSaved, PartSaved

\* A build that does not move keeps its progress.
LEMMA ProgressStable ==
  ASSUME Grow, NEW d \in Capsules, writer'[d] = writer[d], Present(d)' => Present(d),
         Progress(d)
  PROVE  Progress(d)'
<1>1. EarlierSaved(d) => EarlierSaved(d)'
  BY SavedStays DEF EarlierSaved
<1>2. AllSaved(d) => AllSaved(d)'
  BY SavedStays DEF AllSaved
<1>3. SourcesSoFar(d) => SourcesSoFar(d)'
  BY DEF SourcesSoFar, PartSources, Grow
<1>4. FactsSoFar(d) => FactsSoFar(d)'
  BY SavedStays DEF FactsSoFar, PartFacts
<1>5. CitesSoFar(d) => CitesSoFar(d)'
  BY DEF CitesSoFar, PartFacts, Grow
<1>6. ToSet(PartSources(d)) \subseteq sources => (ToSet(PartSources(d)) \subseteq sources)'
  BY DEF PartSources, Grow
<1> QED
  BY <1>1, <1>2, <1>3, <1>4, <1>5, <1>6 DEF Progress

\* Goto, as an equality a reader can rewrite with.
LEMMA GotoIs ==
  ASSUME TypeOK, NEW c \in Capsules, NEW pc, NEW part, NEW i, NEW j,
         Goto(c, pc, part, i, j)
  PROVE  /\ writer'[c].pc = pc
         /\ writer'[c].part = part
         /\ writer'[c].i = i
         /\ writer'[c].j = j
BY DEF Goto, TypeOK

\* Every step of a build keeps that build's progress.
LEMMA OwnProgress ==
  ASSUME TypeOK, LoopInv, Grow, NEW c \in Capsules, Write(c) \/ Abort(c), Progress(c)
  PROVE  Progress(c)'
<1>1. EarlierSaved(c) /\ writer'[c].part = writer[c].part => EarlierSaved(c)'
  BY SavedStays DEF EarlierSaved
<1>2. AllSaved(c) => AllSaved(c)'
  BY SavedStays DEF AllSaved
<1>3. ASSUME writer'[c].pc = "failed", UNCHANGED capsules PROVE Progress(c)'
  BY <1>2, <1>3 DEF Progress, Present
<1>4. CASE NextPart(c)
  <2>1. Present(c)' = Present(c)
    BY <1>4 DEF NextPart, tables, Present
  <2>2. EarlierSaved(c)
    BY <1>4 DEF NextPart, Progress
  <2>3. CASE InPart(c)
    <3>1. /\ writer'[c].pc = "sources"
          /\ writer'[c].part = writer[c].part
          /\ writer'[c].i = 1
      BY <1>4, <2>3, GotoIs DEF NextPart
    <3>2. DOMAIN PartSources(c)' \subseteq Nat \ {0}
      BY <2>3, <3>1, PartElements DEF InPart, PartSources
    <3>3. SourcesSoFar(c)'
      BY <3>1, <3>2 DEF SourcesSoFar
    <3> QED
      BY <1>1, <1>2, <2>1, <2>2, <3>1, <3>3 DEF Progress
  <2>4. CASE ~InPart(c)
    <3>1. writer'[c].pc = "capsule"
      BY <1>4, <2>4, GotoIs DEF NextPart
    <3>2. \A p \in DOMAIN Parts[c] : p < writer[c].part
      BY <2>4, PartIndexes, WriterType DEF InPart, Positions
    <3>3. AllSaved(c)
      BY <2>2, <3>2 DEF EarlierSaved, AllSaved
    <3> QED
      BY <1>2, <2>1, <3>1, <3>3 DEF Progress
  <2> QED
    BY <2>3, <2>4
<1>5. CASE SaveSource(c)
  <2>1. /\ Present(c)' = Present(c)
        /\ writer[c].pc = "sources"
    BY <1>5 DEF SaveSource, Present
  <2>2. EarlierSaved(c) /\ SourcesSoFar(c)
    BY <2>1 DEF Progress
  <2>3. /\ writer[c].part \in DOMAIN Parts[c]
        /\ DOMAIN PartSources(c) = 1..Len(PartSources(c))
        /\ DOMAIN PartFacts(c) = 1..Len(PartFacts(c))
    BY <2>1, PartElements DEF LoopInv, InPartStep, InPart, PartSources, PartFacts
  <2>4. CASE writer[c].i <= Len(PartSources(c))
    <3>1. /\ sources' = sources \cup {PartSources(c)[writer[c].i]}
          /\ writer'[c].pc = "sources"
          /\ writer'[c].part = writer[c].part
          /\ writer'[c].i = writer[c].i + 1
      BY <1>5, <2>4, GotoIs DEF SaveSource
    <3>2. \A k \in DOMAIN PartSources(c) :
            k < writer[c].i + 1 => k < writer[c].i \/ k = writer[c].i
      BY <2>3, WriterType DEF Positions
    <3>3. SourcesSoFar(c)'
      BY <2>2, <3>1, <3>2 DEF SourcesSoFar, PartSources
    <3> QED
      BY <1>1, <1>2, <2>1, <2>2, <3>1, <3>3 DEF Progress
  <2>5. CASE ~(writer[c].i <= Len(PartSources(c)))
    <3>1. /\ sources' = sources
          /\ writer'[c].pc = "facts"
          /\ writer'[c].part = writer[c].part
          /\ writer'[c].i = 1
      BY <1>5, <2>5, GotoIs DEF SaveSource
    <3>2. \A k \in DOMAIN PartSources(c) : k < writer[c].i
      BY <2>3, <2>5, WriterType DEF Positions
    <3>3. ToSet(PartSources(c)) \subseteq sources
      BY <2>2, <3>2 DEF SourcesSoFar, ToSet
    <3>4. (ToSet(PartSources(c)) \subseteq sources)'
      BY <3>1, <3>3 DEF PartSources
    <3>5. FactsSoFar(c)'
      BY <2>3, <3>1 DEF FactsSoFar, PartFacts
    <3> QED
      BY <1>1, <1>2, <2>1, <2>2, <3>1, <3>4, <3>5 DEF Progress
  <2> QED
    BY <2>4, <2>5
<1>6. CASE SaveFact(c)
  <2>1. /\ Present(c)' = Present(c)
        /\ writer[c].pc = "facts"
    BY <1>6 DEF SaveFact, Present
  <2>2. /\ EarlierSaved(c) /\ FactsSoFar(c)
        /\ ToSet(PartSources(c)) \subseteq sources
    BY <2>1 DEF Progress
  <2>3. /\ writer[c].part \in DOMAIN Parts[c]
        /\ DOMAIN PartFacts(c) = 1..Len(PartFacts(c))
        /\ Len(PartFacts(c)) \in Nat
    BY <2>1, PartElements DEF LoopInv, InPartStep, InPart, PartFacts
  <2>4. CASE writer[c].i <= Len(PartFacts(c))
    <3>1. /\ facts' = facts \cup {PartFacts(c)[writer[c].i]}
          /\ writer'[c].pc = "cites"
          /\ writer'[c].part = writer[c].part
          /\ writer'[c].i = writer[c].i
          /\ writer'[c].j = 1
      BY <1>6, <2>4, GotoIs DEF SaveFact
    <3>2. FactsSoFar(c)'
      BY <2>2, <3>1, SavedStays DEF FactsSoFar, PartFacts
    <3>3. (ToSet(PartSources(c)) \subseteq sources)'
      BY <2>2, <3>1 DEF PartSources, Grow
    <3>4. PartFacts(c)[writer[c].i] \in Facts
      BY <2>3, <2>4, WriterType, PartElements DEF PartFacts, Positions
    <3>5. CitesSoFar(c)'
      <4> DEFINE f == PartFacts(c)[writer[c].i]
      <4>1. (PartFacts(c)[writer[c].i])' = f
        BY <3>1 DEF PartFacts
      <4>2. \A k \in DOMAIN Cites[f] : ~(k < 1)
        BY <3>4, CitedElements
      <4> QED
        BY <3>1, <4>1, <4>2 DEF CitesSoFar
    <3> QED
      BY <1>1, <1>2, <2>1, <2>2, <3>1, <3>2, <3>3, <3>5 DEF Progress
  <2>5. CASE ~(writer[c].i <= Len(PartFacts(c)))
    <3>1. /\ writer'[c].pc = "part"
          /\ writer'[c].part = writer[c].part + 1
      BY <1>6, <2>5, GotoIs DEF SaveFact
    <3>2. \A k \in DOMAIN PartFacts(c) : k < writer[c].i
      BY <2>3, <2>5, WriterType DEF Positions
    <3>3. PartSaved(c, writer[c].part)
      BY <2>2, <3>2 DEF PartSaved, FactsSoFar, PartFacts, PartSources, ToSet
    <3>4. \A p \in DOMAIN Parts[c] :
            p < writer[c].part + 1 => p < writer[c].part \/ p = writer[c].part
      BY PartIndexes, WriterType DEF Positions
    <3>5. EarlierSaved(c)'
      BY <2>2, <3>1, <3>3, <3>4, SavedStays DEF EarlierSaved
    <3> QED
      BY <1>2, <2>1, <3>1, <3>5 DEF Progress
  <2> QED
    BY <2>4, <2>5
<1>7. CASE SaveFactSource(c)
  <2> DEFINE f == PartFacts(c)[writer[c].i]
  <2>1. /\ Present(c)' = Present(c)
        /\ capsules' = capsules
        /\ writer[c].pc = "cites"
    BY <1>7 DEF SaveFactSource, Present
  <2>2. /\ EarlierSaved(c) /\ FactsSoFar(c) /\ CitesSoFar(c)
        /\ ToSet(PartSources(c)) \subseteq sources
    BY <2>1 DEF Progress
  <2>3. /\ writer[c].part \in DOMAIN Parts[c]
        /\ writer[c].i \in DOMAIN PartFacts(c)
        /\ DOMAIN PartFacts(c) = 1..Len(PartFacts(c))
        /\ Len(PartFacts(c)) \in Nat
        /\ f \in Facts
    BY <2>1, PartElements DEF LoopInv, InPartStep, InCites, InPart, PartFacts
  <2>4. CASE writer[c].j > CiteCount(f)
    <3>1. /\ writer'[c].pc = "facts"
          /\ writer'[c].part = writer[c].part
          /\ writer'[c].i = writer[c].i + 1
      BY <1>7, <2>4, GotoIs DEF SaveFactSource
    <3>2. \A k \in DOMAIN Cites[f] : k < writer[c].j
      BY <2>3, <2>4, CitedElements, WriterType DEF CiteCount, Positions
    <3>3. FactSaved(f)
      BY <2>2, <3>2 DEF CitesSoFar, FactSaved, ToSet
    <3>4. \A k \in DOMAIN PartFacts(c) :
            k < writer[c].i + 1 => k < writer[c].i \/ k = writer[c].i
      BY <2>3, WriterType DEF Positions
    <3>5. FactsSoFar(c)'
      BY <2>2, <3>1, <3>3, <3>4, SavedStays DEF FactsSoFar, PartFacts
    <3>6. (ToSet(PartSources(c)) \subseteq sources)'
      BY <2>2, <3>1 DEF PartSources, Grow
    <3> QED
      BY <1>1, <1>2, <2>1, <2>2, <3>1, <3>5, <3>6 DEF Progress
  <2>5. CASE ~(writer[c].j > CiteCount(f)) /\ f \in facts /\ Cites[f][writer[c].j] \in sources
    <3>1. /\ factSources' = factSources \cup {<<f, Cites[f][writer[c].j]>>}
          /\ writer'[c].pc = "cites"
          /\ writer'[c].part = writer[c].part
          /\ writer'[c].i = writer[c].i
          /\ writer'[c].j = writer[c].j + 1
      BY <1>7, <2>5, GotoIs DEF SaveFactSource
    <3>2. \A k \in DOMAIN Cites[f] :
            k < writer[c].j + 1 => k < writer[c].j \/ k = writer[c].j
      BY <2>3, CitedElements, WriterType, SMTT(30) DEF Positions
    <3>3. CitesSoFar(c)'
      BY <2>2, <2>5, <3>1, <3>2 DEF CitesSoFar, PartFacts, Grow
    <3>4. FactsSoFar(c)'
      BY <2>2, <3>1, SavedStays DEF FactsSoFar, PartFacts
    <3>5. (ToSet(PartSources(c)) \subseteq sources)'
      BY <2>2, <3>1 DEF PartSources, Grow
    <3> QED
      BY <1>1, <1>2, <2>1, <2>2, <3>1, <3>3, <3>4, <3>5 DEF Progress
  <2>6. CASE ~(writer[c].j > CiteCount(f)) /\ ~(f \in facts /\ Cites[f][writer[c].j] \in sources)
    <3>1. writer'[c].pc = "failed"
      BY <1>7, <2>6, GotoIs DEF SaveFactSource
    <3> QED
      BY <1>3, <2>1, <3>1
  <2> QED
    BY <2>4, <2>5, <2>6
<1>8. CASE SaveCapsule(c)
  <2>1. AllSaved(c)
    BY <1>8 DEF SaveCapsule, Progress
  <2>2. writer'[c].pc \in {"failed", "linkFacts"}
    BY <1>8, GotoIs DEF SaveCapsule
  <2> QED
    BY <1>2, <2>1, <2>2 DEF Progress
<1>9. CASE LinkFact(c)
  <2>1. AllSaved(c) /\ UNCHANGED capsules
    BY <1>9 DEF LinkFact, Progress
  <2>2. writer'[c].pc \in {"failed", "linkFacts", "linkSources"}
    BY <1>9, GotoIs DEF LinkFact
  <2> QED
    BY <1>2, <2>1, <2>2 DEF Progress
<1>10. CASE LinkSource(c)
  <2>1. AllSaved(c) /\ UNCHANGED capsules
    BY <1>10 DEF LinkSource, Progress
  <2>2. writer'[c].pc \in {"failed", "linkSources", "saved"}
    BY <1>10, GotoIs DEF LinkSource
  <2> QED
    BY <1>2, <2>1, <2>2 DEF Progress
<1>11. CASE Abort(c)
  BY <1>3, <1>11, GotoIs DEF Abort, tables
<1> QED
  BY <1>4, <1>5, <1>6, <1>7, <1>8, <1>9, <1>10, <1>11 DEF Write
-----------------------------------------------------------------------------
(* The capsule rows, their links and the loads.                            *)

BeforeInsert == {"part", "sources", "facts", "cites", "capsule"}

StoredRoots(c) == Present(c) => capsules[c].roots = BuildRoots[c]
Published(c)   == /\ writer[c].pc \in BeforeInsert => ~Present(c) /\ c \notin deleted
                  /\ c \in deleted => ~Present(c)

LoadInv(r) ==
  LET l == reader[r] IN
  /\ l.pc \in {"facts", "cites", "sources"} =>
       l.capsule \in Capsules /\ l.roots = BuildRoots[l.capsule]
  /\ l.pc # "done" => l.outcome = "none"
  /\ l.outcome = "verified" =>
       /\ l.capsule \in Capsules
       /\ \E srcs : RootsOf(l.rows, l.cited, srcs) = BuildRoots[l.capsule]

BuildInv == \A c \in Capsules : Progress(c) /\ StoredRoots(c) /\ Published(c)

\* The inductive invariant.
IInv == /\ TypeOK /\ LoopInv /\ BuildInv
        /\ NoOrphanLinks
        /\ \A r \in Readers : LoadInv(r)

LEMMA InitInv == Init => IInv
<1> SUFFICES ASSUME Init PROVE IInv
  OBVIOUS
<1>1. TypeOK
  BY TypeInit
<1>2. ASSUME NEW c \in Capsules
      PROVE  /\ writer[c] = [pc |-> "part", part |-> 1, i |-> 1, j |-> 1]
             /\ ~Present(c)
             /\ c \notin deleted
  BY DEF Init, Present, NoRow
<1>3. LoopInv
  BY <1>2 DEF LoopInv, InPartStep, InCites
<1>4. BuildInv
  <2> SUFFICES ASSUME NEW c \in Capsules
               PROVE  Progress(c) /\ StoredRoots(c) /\ Published(c)
    BY DEF BuildInv
  <2>1. EarlierSaved(c)
    BY <1>2, PartType DEF EarlierSaved
  <2> QED
    BY <1>2, <2>1 DEF Progress, StoredRoots, Published
<1>5. NoOrphanLinks
  BY DEF Init, NoOrphanLinks
<1>6. \A r \in Readers : LoadInv(r)
  BY DEF Init, LoadInv, IdleReader
<1> QED
  BY <1>1, <1>3, <1>4, <1>5, <1>6 DEF IInv

\* Only a build inserts its own row, only cleanup removes rows.
LEMMA CapsuleSteps ==
  ASSUME TypeOK, [Next]_vars
  PROVE  \/ UNCHANGED <<capsules, deleted>>
         \/ \E c \in Capsules : SaveCapsule(c)
         \/ DeleteCapsulesOlderThan
<1>1. ASSUME NEW c \in Capsules, Write(c) \/ Abort(c), ~SaveCapsule(c)
      PROVE  UNCHANGED <<capsules, deleted>>
  BY <1>1 DEF Write, NextPart, SaveSource, SaveFact, SaveFactSource,
              LinkFact, LinkSource, Abort, tables
<1>2. ASSUME NEW r \in Readers, Load(r) \/ \E c \in Capsules : GetCapsule(r, c)
      PROVE  UNCHANGED <<capsules, deleted>>
  BY <1>2 DEF Load, GetCapsule, GetCapsuleFacts, FactSourceIds, VerifyLoaded, tables
<1>3. TimePasses \/ UNCHANGED vars => UNCHANGED <<capsules, deleted>>
  BY DEF TimePasses, vars, tables
<1> QED
  BY <1>1, <1>2, <1>3 DEF Next

\* What an insert and a cleanup do to the rows.
LEMMA InsertEffect ==
  ASSUME TypeOK, NEW c \in Capsules, SaveCapsule(c)
  PROVE  /\ deleted' = deleted
         /\ \A d \in Capsules : d # c => capsules'[d] = capsules[d]
         /\ \/ capsules'[c] = capsules[c]
            \/ capsules'[c].status = "present" /\ capsules'[c].roots = BuildRoots[c]
         /\ writer[c].pc = "capsule"
         /\ writer'[c].pc \in {"failed", "linkFacts"}
<1>1. deleted' = deleted /\ writer[c].pc = "capsule"
  BY DEF SaveCapsule
<1>2. writer'[c].pc \in {"failed", "linkFacts"}
  BY GotoIs DEF SaveCapsule
<1>3. \/ capsules' = capsules
      \/ capsules' = [capsules EXCEPT ![c] = Row(BuildRoots[c], now)]
  BY DEF SaveCapsule, CreatedAt
<1> QED
  BY <1>1, <1>2, <1>3 DEF TypeOK, Row

LEMMA CleanupEffect ==
  ASSUME DeleteCapsulesOlderThan
  PROVE  /\ deleted' = deleted \cup Expired
         /\ writer' = writer
         /\ \A d \in Capsules :
              /\ d \in Expired => Present(d) /\ ~Present(d)'
              /\ d \notin Expired => capsules'[d] = capsules[d]
BY DEF DeleteCapsulesOlderThan, Expired, Present, NoRow

LEMMA BuildStep == TypeOK /\ LoopInv /\ BuildInv /\ [Next]_vars => BuildInv'
<1> SUFFICES ASSUME TypeOK, LoopInv, BuildInv, [Next]_vars, NEW d \in Capsules
             PROVE  Progress(d)' /\ StoredRoots(d)' /\ Published(d)'
  BY DEF BuildInv
<1>1. Grow
  BY RowsGrow
<1>2. Progress(d) /\ StoredRoots(d) /\ Published(d)
  BY DEF BuildInv
<1>3. \/ writer'[d] = writer[d]
      \/ Write(d) \/ Abort(d)
  <2>1. ASSUME NEW c \in Capsules, Write(c) \/ Abort(c), c # d
        PROVE  writer'[d] = writer[d]
    BY <2>1, OtherWriters
  <2>2. ASSUME NEW r \in Readers, Load(r) \/ \E c \in Capsules : GetCapsule(r, c)
        PROVE  writer' = writer
    BY <2>2 DEF Load, GetCapsule, GetCapsuleFacts, FactSourceIds, VerifyLoaded
  <2>3. TimePasses \/ DeleteCapsulesOlderThan \/ UNCHANGED vars => writer' = writer
    BY DEF TimePasses, DeleteCapsulesOlderThan, vars
  <2> QED
    BY <2>1, <2>2, <2>3 DEF Next
<1>4. CASE UNCHANGED <<capsules, deleted>>
  <2>1. Present(d)' = Present(d)
    BY <1>4 DEF Present
  <2>2. Progress(d)'
    BY <1>1, <1>2, <1>3, <2>1, ProgressStable, OwnProgress
  <2>3. writer'[d].pc \in BeforeInsert => writer[d].pc \in BeforeInsert
    <3>1. CASE Write(d)
      BY <3>1 DEF Write, NextPart, SaveSource, SaveFact, SaveFactSource, SaveCapsule,
                  BeforeInsert, LinkFact, LinkSource, Goto, TypeOK
    <3>2. CASE Abort(d)
      BY <3>2, GotoIs DEF Abort, BeforeInsert
    <3> QED
      BY <1>3, <3>1, <3>2
  <2> QED
    BY <1>2, <1>4, <2>1, <2>2, <2>3 DEF StoredRoots, Published
<1>5. ASSUME NEW c \in Capsules, SaveCapsule(c)
      PROVE  Progress(d)' /\ StoredRoots(d)' /\ Published(d)'
  <2>1. CASE c = d
    <3>1. Progress(d)'
      BY <1>1, <1>2, <1>5, <2>1, OwnProgress DEF Write
    <3>2. StoredRoots(d)' /\ Published(d)'
      BY <1>2, <1>5, <2>1, InsertEffect DEF StoredRoots, Published, Present, BeforeInsert
    <3> QED
      BY <3>1, <3>2
  <2>2. CASE c # d
    <3>1. writer'[d] = writer[d]
      BY <1>5, <2>2, OtherWriters DEF Write
    <3>2. capsules'[d] = capsules[d] /\ deleted' = deleted
      BY <1>5, <2>2, InsertEffect
    <3>3. Present(d)' = Present(d)
      BY <3>2 DEF Present
    <3> QED
      BY <1>1, <1>2, <3>1, <3>2, <3>3, ProgressStable DEF StoredRoots, Published
  <2> QED
    BY <2>1, <2>2
<1>6. CASE DeleteCapsulesOlderThan
  <2>1. Present(d)' => Present(d) /\ capsules'[d] = capsules[d] /\ d \notin Expired
    BY <1>6, CleanupEffect DEF Present
  <2>2. d \in deleted' => ~Present(d)'
    BY <1>2, <1>6, <2>1, CleanupEffect DEF Published
  <2>3. d \in deleted' => d \in deleted \/ Present(d)
    BY <1>6, CleanupEffect
  <2> QED
    BY <1>1, <1>2, <1>6, <2>1, <2>2, <2>3, CleanupEffect, ProgressStable
       DEF StoredRoots, Published
<1> QED
  BY <1>4, <1>5, <1>6, CapsuleSteps

LEMMA LinkStep == IInv /\ [Next]_vars => NoOrphanLinks'
<1> SUFFICES ASSUME TypeOK, NoOrphanLinks, BuildInv, [Next]_vars PROVE NoOrphanLinks'
  BY DEF IInv
<1>1. ASSUME NEW c \in Capsules, LinkFact(c) PROVE NoOrphanLinks'
  BY <1>1 DEF LinkFact, NoOrphanLinks, Present, CapsuleKey
<1>2. ASSUME NEW c \in Capsules, LinkSource(c) PROVE NoOrphanLinks'
  BY <1>2 DEF LinkSource, NoOrphanLinks, Present, CapsuleKey
<1>3. ASSUME NEW c \in Capsules, SaveCapsule(c) PROVE NoOrphanLinks'
  <2>1. ~Present(c)
    BY <1>3 DEF BuildInv, Published, SaveCapsule, BeforeInsert
  <2>2. \A d \in Capsules : Present(d) => Present(d)'
    BY <1>3, <2>1, InsertEffect DEF Present
  <2>3. \A l \in capsuleFacts \cup capsuleSources : l[1] \in Capsules
    BY DEF TypeOK
  <2> QED
    BY <1>3, <2>2, <2>3 DEF SaveCapsule, NoOrphanLinks
<1>4. CASE DeleteCapsulesOlderThan
  <2>1. \A d \in Capsules : Present(d) /\ d \notin Expired => Present(d)'
    BY <1>4, CleanupEffect DEF Present
  <2>2. \A l \in capsuleFacts \cup capsuleSources : l[1] \in Capsules
    BY DEF TypeOK
  <2> QED
    BY <1>4, <2>1, <2>2 DEF DeleteCapsulesOlderThan, NoOrphanLinks, Cascade
<1>5. CASE UNCHANGED <<capsules, capsuleFacts, capsuleSources>>
  BY <1>5 DEF NoOrphanLinks, Present
<1>6. ASSUME NEW c \in Capsules, Write(c) \/ Abort(c),
             ~LinkFact(c), ~LinkSource(c), ~SaveCapsule(c)
      PROVE  UNCHANGED <<capsules, capsuleFacts, capsuleSources>>
  BY <1>6 DEF Write, NextPart, SaveSource, SaveFact, SaveFactSource, Abort, tables
<1>7. ASSUME NEW r \in Readers, Load(r) \/ \E c \in Capsules : GetCapsule(r, c)
      PROVE  UNCHANGED <<capsules, capsuleFacts, capsuleSources>>
  BY <1>7 DEF Load, GetCapsule, GetCapsuleFacts, FactSourceIds, VerifyLoaded, tables
<1>8. TimePasses \/ UNCHANGED vars => UNCHANGED <<capsules, capsuleFacts, capsuleSources>>
  BY DEF TimePasses, vars, tables
<1> QED
  BY <1>1, <1>2, <1>3, <1>4, <1>5, <1>6, <1>7, <1>8 DEF Next
LEMMA LoadStep ==
  ASSUME IInv, [Next]_vars, NEW r \in Readers
  PROVE  LoadInv(r)'
<1>1. TypeOK /\ BuildInv /\ LoadInv(r)
  BY DEF IInv
<1>2. CASE UNCHANGED reader
  BY <1>1, <1>2 DEF LoadInv
<1>3. ASSUME NEW q \in Readers, q # r, Load(q) \/ \E c \in Capsules : GetCapsule(q, c)
      PROVE  LoadInv(r)'
  <2>1. reader'[r] = reader[r]
    BY <1>1, <1>3 DEF TypeOK, Load, GetCapsule, GetCapsuleFacts, FactSourceIds, VerifyLoaded
  <2> QED
    BY <1>1, <2>1 DEF LoadInv
<1>4. ASSUME NEW c \in Capsules, GetCapsule(r, c) PROVE LoadInv(r)'
  <2>1. Present(c) => capsules[c].roots = BuildRoots[c]
    BY <1>1 DEF BuildInv, StoredRoots
  <2>2. \/ reader'[r].pc = "facts" /\ reader'[r].capsule = c /\ reader'[r].outcome = "none"
           /\ reader'[r].roots = BuildRoots[c]
        \/ reader'[r].pc = "done" /\ reader'[r].outcome = "not_found"
    BY <1>1, <1>4, <2>1 DEF GetCapsule, TypeOK, IdleReader
  <2> QED
    BY <2>2 DEF LoadInv
<1>5. CASE GetCapsuleFacts(r)
  <2>1. PICK rows \in SetToSeqs(LinkedFacts(reader[r].capsule)) :
          reader' = [reader EXCEPT ![r] = [@ EXCEPT !.pc = "cites", !.rows = rows]]
    BY <1>5 DEF GetCapsuleFacts
  <2>2. reader[r] \in ReaderStates /\ reader[r].pc = "facts"
    BY <1>1, <1>5 DEF TypeOK, GetCapsuleFacts
  <2>3. /\ reader'[r].pc = "cites"
        /\ reader'[r].capsule = reader[r].capsule
        /\ reader'[r].roots = reader[r].roots
        /\ reader'[r].outcome = reader[r].outcome
    BY <1>1, <2>1, <2>2 DEF TypeOK, ReaderStates
  <2> QED
    BY <1>1, <2>2, <2>3 DEF LoadInv
<1>6. CASE FactSourceIds(r)
  <2>1. \/ reader' = [reader EXCEPT ![r] = [reader[r] EXCEPT !.cited =
                        Append(reader[r].cited,
                               CitedRows(reader[r].rows[Len(reader[r].cited) + 1]))]]
        \/ reader' = [reader EXCEPT ![r] = [reader[r] EXCEPT !.pc = "sources"]]
    BY <1>6 DEF FactSourceIds
  <2>2. reader[r] \in ReaderStates /\ reader[r].pc = "cites"
    BY <1>1, <1>6 DEF TypeOK, FactSourceIds
  <2>3. /\ reader'[r].pc \in {"cites", "sources"}
        /\ reader'[r].capsule = reader[r].capsule
        /\ reader'[r].roots = reader[r].roots
        /\ reader'[r].outcome = reader[r].outcome
    BY <1>1, <2>1, <2>2 DEF TypeOK, ReaderStates
  <2> QED
    BY <1>1, <2>2, <2>3 DEF LoadInv
<1>7. CASE VerifyLoaded(r)
  <2> DEFINE ok == VerifyCapsule(reader[r].roots, reader[r].rows, reader[r].cited,
                                 LinkedSources(reader[r].capsule))
  <2>1. reader' = [reader EXCEPT ![r] = [@ EXCEPT !.pc = "done", !.outcome =
                     IF ok THEN "verified" ELSE "unverified"]]
    BY <1>7 DEF VerifyLoaded
  <2>2. reader[r] \in ReaderStates /\ reader[r].pc = "sources"
    BY <1>1, <1>7 DEF TypeOK, VerifyLoaded
  <2> HIDE DEF ok
  <2>3. /\ reader'[r].pc = "done"
        /\ reader'[r].capsule = reader[r].capsule
        /\ reader'[r].rows = reader[r].rows
        /\ reader'[r].cited = reader[r].cited
        /\ reader'[r].outcome = IF ok THEN "verified" ELSE "unverified"
    BY <1>1, <2>1, <2>2 DEF TypeOK, ReaderStates
  <2>4. reader[r].capsule \in Capsules /\ reader[r].roots = BuildRoots[reader[r].capsule]
    BY <1>1, <2>2 DEF LoadInv
  <2>5. ok => RootsOf(reader[r].rows, reader[r].cited, LinkedSources(reader[r].capsule))
                = BuildRoots[reader[r].capsule]
    BY <2>4 DEF ok, VerifyCapsule
  <2> QED
    BY <2>3, <2>4, <2>5 DEF LoadInv
<1>8. ASSUME NEW c \in Capsules, Write(c) \/ Abort(c) PROVE UNCHANGED reader
  BY <1>8 DEF Write, NextPart, SaveSource, SaveFact, SaveFactSource, SaveCapsule,
              LinkFact, LinkSource, Abort
<1>9. TimePasses \/ DeleteCapsulesOlderThan \/ UNCHANGED vars => UNCHANGED reader
  BY DEF TimePasses, DeleteCapsulesOlderThan, vars
<1> QED
  BY <1>2, <1>3, <1>4, <1>5, <1>6, <1>7, <1>8, <1>9 DEF Next, Load

THEOREM Invariance == Spec => []IInv
<1>1. IInv /\ [Next]_vars => IInv'
  BY TypeStep, LoopStep, BuildStep, LinkStep, LoadStep DEF IInv
<1> QED
  BY InitInv, <1>1, PTL DEF Spec

-----------------------------------------------------------------------------
(* The theorems.                                                           *)

\* The tables, builds and loads are well typed in every reachable state.
THEOREM TypeCorrect == Spec => []TypeOK
<1>1. IInv => TypeOK
  BY DEF IInv
<1> QED
  BY Invariance, <1>1, PTL

\* Whatever crashes, fails or interleaves between two INSERTs, a capsule that
\* can be looked up has all its facts, sources and citations in the tables.
THEOREM ProvenanceFirst == Spec => []ProvenanceBeforeCapsule
<1>1. IInv => ProvenanceBeforeCapsule
  <2> SUFFICES ASSUME IInv, NEW c \in Capsules, Present(c)
               PROVE  /\ SourcesOf(c) \subseteq sources
                      /\ FactsOf(c) \subseteq facts
                      /\ \A f \in FactsOf(c) : \A s \in ToSet(Cites[f]) :
                           <<f, s>> \in factSources
    BY DEF ProvenanceBeforeCapsule
  <2>1. AllSaved(c)
    BY DEF IInv, BuildInv, Progress
  <2> QED
    BY <2>1 DEF AllSaved, PartSaved, FactSaved, SourcesOf, FactsOf
<1> QED
  BY Invariance, <1>1, PTL

\* No link row survives its capsule, also when cleanup runs while saveCapsule
\* is still inserting links.
THEOREM LinksHaveCapsules == Spec => []NoOrphanLinks
<1>1. IInv => NoOrphanLinks
  BY DEF IInv
<1> QED
  BY Invariance, <1>1, PTL

\* Rows whose roots are a capsule's roots are the capsule's content.
LEMMA AcceptedContent ==
  ASSUME NEW c \in Capsules, NEW rows, NEW cited, NEW srcs,
         RootsOf(rows, cited, srcs) = BuildRoots[c]
  PROVE  SemanticLeaves(rows, cited) = CapsuleContent[c]
<1> DEFINE g    == CapsuleFacts(c)
           sets == [i \in DOMAIN g |-> ToSet(Cites[g[i]])]
<1>1. BuildRoots[c] = RootsOf(g, sets, SourcesOf(c))
  BY DEF BuildRoots
<1>2. SemanticLeaves(rows, cited) = SemanticLeaves(g, sets)
  BY <1>1 DEF RootsOf
<1> HIDE DEF g
<1>3. SemanticLeaves(g, sets) = {<<f, ToSet(Cites[f])>> : f \in ToSet(g)}
  BY DEF SemanticLeaves, ToSet
<1> QED
  BY <1>2, <1>3 DEF CapsuleContent, g

LEMMA AcceptedRows ==
  ASSUME NEW c \in Capsules, NEW rows, NEW cited, NEW srcs,
         RootsOf(rows, cited, srcs) = BuildRoots[c]
  PROVE  /\ ToSet(rows) = ToSet(CapsuleFacts(c))
         /\ \A i \in DOMAIN rows : cited[i] = ToSet(Cites[rows[i]])
<1> DEFINE g == CapsuleFacts(c)
<1>1. SemanticLeaves(rows, cited) = {<<f, ToSet(Cites[f])>> : f \in ToSet(g)}
  BY AcceptedContent DEF CapsuleContent
<1> HIDE DEF g
<1>2. ASSUME NEW i \in DOMAIN rows
      PROVE  rows[i] \in ToSet(g) /\ cited[i] = ToSet(Cites[rows[i]])
  <2>1. <<rows[i], cited[i]>> \in SemanticLeaves(rows, cited)
    BY DEF SemanticLeaves
  <2>2. PICK f \in ToSet(g) : <<rows[i], cited[i]>> = <<f, ToSet(Cites[f])>>
    BY <1>1, <2>1
  <2> QED
    BY <2>2
<1>3. ASSUME NEW f \in ToSet(g)
      PROVE  \E i \in DOMAIN rows : rows[i] = f
  <2>1. <<f, ToSet(Cites[f])>> \in SemanticLeaves(rows, cited)
    BY <1>1
  <2>2. PICK i \in DOMAIN rows : <<f, ToSet(Cites[f])>> = <<rows[i], cited[i]>>
    BY <2>1 DEF SemanticLeaves
  <2> QED
    BY <2>2
<1>4. ToSet(rows) = ToSet(g)
  <2>1. ToSet(rows) \subseteq ToSet(g)
    BY <1>2 DEF ToSet
  <2>2. ToSet(g) \subseteq ToSet(rows)
    BY <1>3 DEF ToSet
  <2> QED
    BY <2>1, <2>2
<1> QED
  BY <1>2, <1>4 DEF g

LEMMA AcceptedOrder ==
  ASSUME NEW c \in Capsules, NEW rows, NEW cited, NEW srcs,
         RootsOf(rows, cited, srcs) = BuildRoots[c]
  PROVE  [i \in DOMAIN rows |-> ZkLeaf[rows[i]]] = BuildRoots[c].zkFactsRoot
BY DEF RootsOf

\* A load that passes verifyCapsule returned exactly what was built.
THEOREM VerifiedLoadsAreExact == Spec => []VerifiedIsExact
<1>1. IInv => VerifiedIsExact
  <2> SUFFICES ASSUME IInv, NEW r \in Readers, reader[r].outcome = "verified"
               PROVE  LET c == reader[r].capsule IN
                      /\ ToSet(reader[r].rows) = ToSet(CapsuleFacts(c))
                      /\ \A i \in DOMAIN reader[r].rows :
                           reader[r].cited[i] = ToSet(Cites[reader[r].rows[i]])
                      /\ [i \in DOMAIN reader[r].rows |-> ZkLeaf[reader[r].rows[i]]]
                           = BuildRoots[c].zkFactsRoot
    BY DEF VerifiedIsExact
  <2>1. /\ reader[r].capsule \in Capsules
        /\ \E srcs : RootsOf(reader[r].rows, reader[r].cited, srcs)
                       = BuildRoots[reader[r].capsule]
    BY DEF IInv, LoadInv
  <2> QED
    BY <2>1, AcceptedRows, AcceptedOrder
<1> QED
  BY Invariance, <1>1, PTL
-----------------------------------------------------------------------------
(* What a load reads of a complete capsule: all of it, unless the cleanup  *)
(* worker removes the capsule.                                             *)

\* Links and citations are the capsule's and the fact's own.
LinksOwn ==
  /\ \A l \in capsuleFacts   : l[2] \in FactsOf(l[1])
  /\ \A l \in capsuleSources : l[2] \in SourcesOf(l[1])
  /\ \A l \in factSources    : l[2] \in ToSet(Cites[l[1]]) /\ l[2] \in sources

FactsLinked(c, p)   == \A f \in ToSet(Parts[c][p].facts)   : <<c, f>> \in capsuleFacts
SourcesLinked(c, p) == \A s \in ToSet(Parts[c][p].sources) : <<c, s>> \in capsuleSources

\* The facts and sources linked so far, while the capsule is there.
FactsLinkedSoFar(c) ==
  /\ \A p \in DOMAIN Parts[c] : p < writer[c].part => FactsLinked(c, p)
  /\ InPart(c) => \A k \in DOMAIN PartFacts(c) :
                    k < writer[c].i => <<c, PartFacts(c)[k]>> \in capsuleFacts
SourcesLinkedSoFar(c) ==
  /\ \A p \in DOMAIN Parts[c] : p < writer[c].part => SourcesLinked(c, p)
  /\ InPart(c) => \A k \in DOMAIN PartSources(c) :
                    k < writer[c].i => <<c, PartSources(c)[k]>> \in capsuleSources
AllFactsLinked(c)   == \A p \in DOMAIN Parts[c] : FactsLinked(c, p)
AllSourcesLinked(c) == \A p \in DOMAIN Parts[c] : SourcesLinked(c, p)

LinkProgress(c) ==
  c \notin deleted =>
    /\ writer[c].pc = "linkFacts" => FactsLinkedSoFar(c)
    /\ writer[c].pc \in {"linkSources", "saved"} => AllFactsLinked(c)
    /\ writer[c].pc = "linkSources" => SourcesLinkedSoFar(c)
    /\ writer[c].pc = "saved" => AllSourcesLinked(c)

\* What a load of a complete capsule that is still there has read.
ReadsAll(l) ==
  /\ l.pc = "facts" => l.cited = <<>>
  /\ l.pc # "facts" => l.rows \in SetToSeqs(FactsOf(l.capsule))
  /\ \A i \in 1..Len(l.cited) : l.cited[i] = ToSet(Cites[l.rows[i]])
  /\ l.pc = "cites" => Len(l.cited) <= Len(l.rows)
  /\ l.pc \in {"sources", "done"} => Len(l.cited) = Len(l.rows)
  /\ l.outcome = "unverified" =>
       ~ VerifyCapsule(BuildRoots[l.capsule], l.rows, l.cited, SourcesOf(l.capsule))

CompleteLoad(r) ==
  LET l == reader[r] IN
  l.complete => /\ l.capsule \in Capsules /\ l.pc \in {"facts", "cites", "sources", "done"}
                /\ writer[l.capsule].pc = "saved"
                /\ l.capsule \notin deleted => ReadsAll(l)

LoadedInv == /\ LinksOwn
             /\ \A c \in Capsules : LinkProgress(c)
             /\ \A r \in Readers : CompleteLoad(r)

LEMMA LoadedInit == Init => LoadedInv
<1> SUFFICES ASSUME Init PROVE LoadedInv
  OBVIOUS
<1>1. LinksOwn
  BY DEF Init, LinksOwn
<1>2. \A c \in Capsules : LinkProgress(c)
  BY DEF Init, LinkProgress
<1>3. \A r \in Readers : CompleteLoad(r)
  BY DEF Init, CompleteLoad, IdleReader
<1> QED
  BY <1>1, <1>2, <1>3 DEF LoadedInv

\* What the writers' loops insert.
LEMMA InsertsOwn ==
  ASSUME TypeOK, LoopInv, NEW c \in Capsules
  PROVE  /\ InPart(c) /\ writer[c].i <= Len(PartFacts(c)) =>
              /\ writer[c].i \in DOMAIN PartFacts(c)
              /\ PartFacts(c)[writer[c].i] \in FactsOf(c)
         /\ InPart(c) /\ writer[c].i <= Len(PartSources(c)) =>
              /\ writer[c].i \in DOMAIN PartSources(c)
              /\ PartSources(c)[writer[c].i] \in SourcesOf(c)
         /\ writer[c].pc = "cites" =>
              /\ PartFacts(c)[writer[c].i] \in Facts
              /\ writer[c].j <= Len(Cites[PartFacts(c)[writer[c].i]]) =>
                   Cites[PartFacts(c)[writer[c].i]][writer[c].j]
                     \in ToSet(Cites[PartFacts(c)[writer[c].i]])
<1> USE DEF InPart, PartFacts, PartSources, Positions
<1>1. ASSUME InPart(c), writer[c].i <= Len(PartFacts(c))
      PROVE  /\ writer[c].i \in DOMAIN PartFacts(c)
             /\ PartFacts(c)[writer[c].i] \in FactsOf(c)
  <2>1. writer[c].i \in DOMAIN PartFacts(c)
    BY <1>1, PartElements, WriterType
  <2> QED
    <3>1. PartFacts(c)[writer[c].i] \in ToSet(PartFacts(c))
      BY <2>1 DEF ToSet
    <3>2. ToSet(PartFacts(c)) \in {ToSet(Parts[c][p].facts) : p \in DOMAIN Parts[c]}
      BY <1>1
    <3> QED
      BY <2>1, <3>1, <3>2 DEF FactsOf
<1>2. ASSUME InPart(c), writer[c].i <= Len(PartSources(c))
      PROVE  /\ writer[c].i \in DOMAIN PartSources(c)
             /\ PartSources(c)[writer[c].i] \in SourcesOf(c)
  <2>1. writer[c].i \in DOMAIN PartSources(c)
    BY <1>2, PartElements, WriterType
  <2> QED
    <3>1. PartSources(c)[writer[c].i] \in ToSet(PartSources(c))
      BY <2>1 DEF ToSet
    <3>2. ToSet(PartSources(c)) \in {ToSet(Parts[c][p].sources) : p \in DOMAIN Parts[c]}
      BY <1>2
    <3> QED
      BY <2>1, <3>1, <3>2 DEF SourcesOf
<1>3. ASSUME writer[c].pc = "cites"
      PROVE  /\ PartFacts(c)[writer[c].i] \in Facts
             /\ writer[c].j <= Len(Cites[PartFacts(c)[writer[c].i]]) =>
                  Cites[PartFacts(c)[writer[c].i]][writer[c].j]
                    \in ToSet(Cites[PartFacts(c)[writer[c].i]])
  <2>1. PartFacts(c)[writer[c].i] \in Facts
    BY <1>3, PartElements DEF LoopInv, InPartStep, InCites
  <2> DEFINE f == PartFacts(c)[writer[c].i]
  <2>2. ASSUME writer[c].j <= Len(Cites[f]) PROVE writer[c].j \in DOMAIN Cites[f]
    <3> HIDE DEF f
    <3>1. f \in Facts
      BY <2>1 DEF f
    <3> QED
      BY <2>2, <3>1, CitedElements, WriterType
  <2> QED
    BY <2>1, <2>2 DEF ToSet
<1> QED
  BY <1>1, <1>2, <1>3

LEMMA LinksOwnStep == TypeOK /\ LoopInv /\ LinksOwn /\ [Next]_vars => LinksOwn'
<1> SUFFICES ASSUME TypeOK, LoopInv, LinksOwn, [Next]_vars PROVE LinksOwn'
  OBVIOUS
<1>1. sources \subseteq sources'
  BY RowsGrow DEF Grow
<1>2. CASE UNCHANGED <<capsuleFacts, capsuleSources, factSources>>
  BY <1>1, <1>2 DEF LinksOwn
<1>3. ASSUME NEW c \in Capsules, LinkFact(c) PROVE LinksOwn'
  <2>1. \/ capsuleFacts' = capsuleFacts
        \/ /\ InPart(c) /\ ~ (writer[c].i > Len(PartFacts(c)))
           /\ capsuleFacts' = capsuleFacts \cup {<<c, PartFacts(c)[writer[c].i]>>}
    BY <1>3 DEF LinkFact
  <2>2. InPart(c) /\ ~ (writer[c].i > Len(PartFacts(c))) =>
          PartFacts(c)[writer[c].i] \in FactsOf(c)
    <3>1. writer[c].i \in Nat /\ (InPart(c) => Len(PartFacts(c)) \in Nat)
      BY WriterType, PartElements DEF InPart, PartFacts, Positions
    <3> QED
      BY <3>1, InsertsOwn
  <2>3. UNCHANGED <<capsuleSources, factSources, sources>>
    BY <1>3 DEF LinkFact
  <2> QED
    BY <2>1, <2>2, <2>3 DEF LinksOwn
<1>4. ASSUME NEW c \in Capsules, LinkSource(c) PROVE LinksOwn'
  <2>1. \/ capsuleSources' = capsuleSources
        \/ /\ InPart(c) /\ ~ (writer[c].i > Len(PartSources(c)))
           /\ capsuleSources' = capsuleSources \cup {<<c, PartSources(c)[writer[c].i]>>}
    BY <1>4 DEF LinkSource
  <2>2. InPart(c) /\ ~ (writer[c].i > Len(PartSources(c))) =>
          PartSources(c)[writer[c].i] \in SourcesOf(c)
    <3>1. writer[c].i \in Nat /\ (InPart(c) => Len(PartSources(c)) \in Nat)
      BY WriterType, PartElements DEF InPart, PartSources, Positions
    <3> QED
      BY <3>1, InsertsOwn
  <2>3. UNCHANGED <<capsuleFacts, factSources, sources>>
    BY <1>4 DEF LinkSource
  <2> QED
    BY <2>1, <2>2, <2>3 DEF LinksOwn
<1>5. ASSUME NEW c \in Capsules, SaveFactSource(c) PROVE LinksOwn'
  <2>0. PICK f, s : f = PartFacts(c)[writer[c].i] /\ s = Cites[f][writer[c].j]
    OBVIOUS
  <2>1. /\ writer[c].pc = "cites" /\ UNCHANGED <<capsuleFacts, capsuleSources, sources>>
        /\ \/ factSources' = factSources
           \/ /\ ~ (writer[c].j > Len(Cites[f])) /\ s \in sources
              /\ factSources' = factSources \cup {<<f, s>>}
    BY <1>5, <2>0 DEF SaveFactSource, CiteCount
  <2>2. f \in Facts /\ (writer[c].j <= Len(Cites[f]) => s \in ToSet(Cites[f]))
    BY <2>0, <2>1, InsertsOwn
  <2>3. ~ (writer[c].j > Len(Cites[f])) => s \in ToSet(Cites[f])
    BY <2>2, CitedElements, WriterType DEF Positions
  <2> QED
    BY <2>1, <2>3 DEF LinksOwn
<1>6. CASE DeleteCapsulesOlderThan
  BY <1>6 DEF DeleteCapsulesOlderThan, LinksOwn, Cascade
<1>7. ASSUME NEW c \in Capsules, Write(c) \/ Abort(c),
             ~ LinkFact(c), ~ LinkSource(c), ~ SaveFactSource(c)
      PROVE  UNCHANGED <<capsuleFacts, capsuleSources, factSources>>
  BY <1>7 DEF Write, NextPart, SaveSource, SaveFact, SaveCapsule, Abort, tables
<1>8. ASSUME NEW r \in Readers, Load(r) \/ \E c \in Capsules : GetCapsule(r, c)
      PROVE  UNCHANGED <<capsuleFacts, capsuleSources, factSources>>
  BY <1>8 DEF Load, GetCapsule, GetCapsuleFacts, FactSourceIds, VerifyLoaded, tables
<1>9. TimePasses \/ UNCHANGED vars => UNCHANGED <<capsuleFacts, capsuleSources, factSources>>
  BY DEF TimePasses, vars, tables
<1> QED
  BY <1>2, <1>3, <1>4, <1>5, <1>6, <1>7, <1>8, <1>9 DEF Next

\* A link row goes with its capsule only.
LEMMA LinksStay ==
  ASSUME TypeOK, [Next]_vars, NEW c \in Capsules, c \notin deleted'
  PROVE  /\ c \notin deleted
         /\ \A x : <<c, x>> \in capsuleFacts => <<c, x>> \in capsuleFacts'
         /\ \A x : <<c, x>> \in capsuleSources => <<c, x>> \in capsuleSources'
<1>1. ASSUME NEW d \in Capsules, Write(d) \/ Abort(d)
      PROVE  capsuleFacts \subseteq capsuleFacts' /\ capsuleSources \subseteq capsuleSources'
             /\ deleted' = deleted
  BY <1>1 DEF Write, NextPart, SaveSource, SaveFact, SaveFactSource, SaveCapsule,
              LinkFact, LinkSource, Abort, tables
<1>2. ASSUME NEW r \in Readers, Load(r) \/ \E d \in Capsules : GetCapsule(r, d)
      PROVE  UNCHANGED <<capsuleFacts, capsuleSources, deleted>>
  BY <1>2 DEF Load, GetCapsule, GetCapsuleFacts, FactSourceIds, VerifyLoaded, tables
<1>3. TimePasses \/ UNCHANGED vars => UNCHANGED <<capsuleFacts, capsuleSources, deleted>>
  BY DEF TimePasses, vars, tables
<1>4. CASE DeleteCapsulesOlderThan
  BY <1>4 DEF DeleteCapsulesOlderThan, Cascade
<1> QED
  BY <1>1, <1>2, <1>3, <1>4 DEF Next

LEMMA LinkedStay ==
  ASSUME TypeOK, [Next]_vars, NEW c \in Capsules, c \notin deleted'
  PROVE  /\ c \notin deleted
         /\ \A p : FactsLinked(c, p) => FactsLinked(c, p)'
         /\ \A p : SourcesLinked(c, p) => SourcesLinked(c, p)'
         /\ AllFactsLinked(c) => AllFactsLinked(c)'
         /\ AllSourcesLinked(c) => AllSourcesLinked(c)'
BY LinksStay DEF FactsLinked, SourcesLinked, AllFactsLinked, AllSourcesLinked

\* A build that does not move keeps its links.
LEMMA LinksStable ==
  ASSUME TypeOK, [Next]_vars, NEW c \in Capsules, writer'[c] = writer[c], LinkProgress(c)
  PROVE  LinkProgress(c)'
<1> SUFFICES ASSUME c \notin deleted'
             PROVE  /\ writer[c].pc = "linkFacts" => FactsLinkedSoFar(c)'
                    /\ writer[c].pc \in {"linkSources", "saved"} => AllFactsLinked(c)'
                    /\ writer[c].pc = "linkSources" => SourcesLinkedSoFar(c)'
                    /\ writer[c].pc = "saved" => AllSourcesLinked(c)'
  BY DEF LinkProgress
<1>1. FactsLinkedSoFar(c) => FactsLinkedSoFar(c)'
  BY LinksStay, LinkedStay DEF FactsLinkedSoFar, InPart, PartFacts
<1>2. SourcesLinkedSoFar(c) => SourcesLinkedSoFar(c)'
  BY LinksStay, LinkedStay DEF SourcesLinkedSoFar, InPart, PartSources
<1> QED
  BY <1>1, <1>2, LinkedStay DEF LinkProgress

\* The loop of capsule_facts links every fact of every part.
LEMMA LinkFactProgress ==
  ASSUME TypeOK, LoopInv, [Next]_vars, NEW c \in Capsules, LinkFact(c), LinkProgress(c)
  PROVE  LinkProgress(c)'
<1> SUFFICES ASSUME c \notin deleted'
             PROVE  /\ writer'[c].pc = "linkFacts" => FactsLinkedSoFar(c)'
                    /\ writer'[c].pc \in {"linkSources", "saved"} => AllFactsLinked(c)'
                    /\ writer'[c].pc = "linkSources" => SourcesLinkedSoFar(c)'
                    /\ writer'[c].pc = "saved" => AllSourcesLinked(c)'
  BY DEF LinkProgress
<1>1. /\ writer[c].pc = "linkFacts" /\ c \notin deleted /\ FactsLinkedSoFar(c)
      /\ writer[c].part \in Nat \ {0} /\ writer[c].i \in Nat \ {0}
  BY LinkedStay, WriterType DEF LinkFact, LinkProgress, Positions
<1>2. CASE ~ InPart(c)
  <2>1. writer'[c].pc = "linkSources" /\ writer'[c].part = 1 /\ writer'[c].i = 1
    BY <1>2, GotoIs DEF LinkFact
  <2>2. \A p \in DOMAIN Parts[c] : p < writer[c].part
    BY <1>1, <1>2, PartIndexes DEF InPart
  <2>3. AllFactsLinked(c)'
    BY <1>1, <2>2, LinkedStay DEF FactsLinkedSoFar, AllFactsLinked
  <2>4. SourcesLinkedSoFar(c)'
    <3>1. \A p \in DOMAIN Parts[c] : ~ (p < 1)
      BY PartIndexes
    <3>2. InPart(c)' => \A k \in DOMAIN PartSources(c)' : ~ (k < 1)
      BY <2>1, PartElements DEF InPart, PartSources
    <3> QED
      BY <2>1, <3>1, <3>2 DEF SourcesLinkedSoFar
  <2> QED
    BY <2>1, <2>3, <2>4
<1>3. CASE InPart(c) /\ writer[c].i > Len(PartFacts(c))
  <2>1. /\ writer'[c].pc = "linkFacts" /\ writer'[c].part = writer[c].part + 1
        /\ writer'[c].i = 1
    BY <1>3, GotoIs DEF LinkFact
  <2>2. \A k \in DOMAIN PartFacts(c) : k < writer[c].i
    BY <1>1, <1>3, PartElements DEF InPart, PartFacts
  <2>3. FactsLinked(c, writer[c].part)
    BY <1>1, <1>3, <2>2 DEF FactsLinkedSoFar, FactsLinked, PartFacts, ToSet
  <2>4. \A p \in DOMAIN Parts[c] : p < writer[c].part + 1 => FactsLinked(c, p)'
    <3>1. \A p \in DOMAIN Parts[c] :
            p < writer[c].part + 1 => p < writer[c].part \/ p = writer[c].part
      BY <1>1, PartIndexes
    <3> QED
      BY <1>1, <2>3, <3>1, LinkedStay DEF FactsLinkedSoFar
  <2>5. InPart(c)' => \A k \in DOMAIN PartFacts(c)' : ~ (k < 1)
    BY <2>1, PartElements DEF InPart, PartFacts
  <2>6. FactsLinkedSoFar(c)'
    BY <2>1, <2>4, <2>5 DEF FactsLinkedSoFar
  <2> QED
    BY <2>1, <2>6
<1>4. CASE InPart(c) /\ ~ (writer[c].i > Len(PartFacts(c)))
  <2>1. \/ writer'[c].pc = "failed"
        \/ /\ writer'[c].pc = "linkFacts" /\ writer'[c].part = writer[c].part
           /\ writer'[c].i = writer[c].i + 1
           /\ capsuleFacts' = capsuleFacts \cup {<<c, PartFacts(c)[writer[c].i]>>}
    BY <1>4, GotoIs DEF LinkFact
  <2>2. ASSUME writer'[c].pc = "linkFacts" PROVE FactsLinkedSoFar(c)'
    <3>1. /\ writer'[c].part = writer[c].part /\ writer'[c].i = writer[c].i + 1
          /\ capsuleFacts' = capsuleFacts \cup {<<c, PartFacts(c)[writer[c].i]>>}
      BY <2>1, <2>2
    <3>2. PartFacts(c)' = PartFacts(c)
      BY <3>1 DEF PartFacts
    <3>3. ASSUME NEW k \in DOMAIN PartFacts(c), k < writer[c].i + 1
          PROVE  <<c, PartFacts(c)[k]>> \in capsuleFacts'
      <4>1. k < writer[c].i \/ k = writer[c].i
        BY <1>1, <1>4, <3>3, PartElements DEF InPart, PartFacts
      <4> QED
        BY <1>1, <1>4, <3>1, <4>1 DEF FactsLinkedSoFar
    <3>4. \A p \in DOMAIN Parts[c] : p < writer[c].part => FactsLinked(c, p)'
      BY <1>1, LinkedStay DEF FactsLinkedSoFar
    <3> QED
      BY <3>1, <3>2, <3>3, <3>4 DEF FactsLinkedSoFar
  <2> QED
    BY <2>1, <2>2
<1> QED
  BY <1>2, <1>3, <1>4

\* The loop of capsule_sources links every source record of every part.
LEMMA LinkSourceProgress ==
  ASSUME TypeOK, LoopInv, [Next]_vars, NEW c \in Capsules, LinkSource(c), LinkProgress(c)
  PROVE  LinkProgress(c)'
<1> SUFFICES ASSUME c \notin deleted'
             PROVE  /\ writer'[c].pc = "linkFacts" => FactsLinkedSoFar(c)'
                    /\ writer'[c].pc \in {"linkSources", "saved"} => AllFactsLinked(c)'
                    /\ writer'[c].pc = "linkSources" => SourcesLinkedSoFar(c)'
                    /\ writer'[c].pc = "saved" => AllSourcesLinked(c)'
  BY DEF LinkProgress
<1>1. /\ writer[c].pc = "linkSources" /\ c \notin deleted /\ SourcesLinkedSoFar(c)
      /\ AllFactsLinked(c)'
      /\ writer[c].part \in Nat \ {0} /\ writer[c].i \in Nat \ {0}
  BY LinkedStay, WriterType DEF LinkSource, LinkProgress, Positions
<1>2. CASE ~ InPart(c)
  <2>1. writer'[c].pc = "saved"
    BY <1>2, GotoIs DEF LinkSource
  <2>2. \A p \in DOMAIN Parts[c] : p < writer[c].part
    BY <1>1, <1>2, PartIndexes DEF InPart
  <2>3. AllSourcesLinked(c)'
    BY <1>1, <2>2, LinkedStay DEF SourcesLinkedSoFar, AllSourcesLinked
  <2> QED
    BY <1>1, <2>1, <2>3
<1>3. CASE InPart(c) /\ writer[c].i > Len(PartSources(c))
  <2>1. /\ writer'[c].pc = "linkSources" /\ writer'[c].part = writer[c].part + 1
        /\ writer'[c].i = 1
    BY <1>3, GotoIs DEF LinkSource
  <2>2. \A k \in DOMAIN PartSources(c) : k < writer[c].i
    BY <1>1, <1>3, PartElements DEF InPart, PartSources
  <2>3. SourcesLinked(c, writer[c].part)
    BY <1>1, <1>3, <2>2 DEF SourcesLinkedSoFar, SourcesLinked, PartSources, ToSet
  <2>4. \A p \in DOMAIN Parts[c] : p < writer[c].part + 1 => SourcesLinked(c, p)'
    <3>1. \A p \in DOMAIN Parts[c] :
            p < writer[c].part + 1 => p < writer[c].part \/ p = writer[c].part
      BY <1>1, PartIndexes
    <3> QED
      BY <1>1, <2>3, <3>1, LinkedStay DEF SourcesLinkedSoFar
  <2>5. InPart(c)' => \A k \in DOMAIN PartSources(c)' : ~ (k < 1)
    BY <2>1, PartElements DEF InPart, PartSources
  <2>6. SourcesLinkedSoFar(c)'
    BY <2>1, <2>4, <2>5 DEF SourcesLinkedSoFar
  <2> QED
    BY <1>1, <2>1, <2>6
<1>4. CASE InPart(c) /\ ~ (writer[c].i > Len(PartSources(c)))
  <2>1. \/ writer'[c].pc = "failed"
        \/ /\ writer'[c].pc = "linkSources" /\ writer'[c].part = writer[c].part
           /\ writer'[c].i = writer[c].i + 1
           /\ capsuleSources' = capsuleSources \cup {<<c, PartSources(c)[writer[c].i]>>}
    BY <1>4, GotoIs DEF LinkSource
  <2>2. ASSUME writer'[c].pc = "linkSources" PROVE SourcesLinkedSoFar(c)'
    <3>1. /\ writer'[c].part = writer[c].part /\ writer'[c].i = writer[c].i + 1
          /\ capsuleSources' = capsuleSources \cup {<<c, PartSources(c)[writer[c].i]>>}
      BY <2>1, <2>2
    <3>2. PartSources(c)' = PartSources(c)
      BY <3>1 DEF PartSources
    <3>3. ASSUME NEW k \in DOMAIN PartSources(c), k < writer[c].i + 1
          PROVE  <<c, PartSources(c)[k]>> \in capsuleSources'
      <4>1. k < writer[c].i \/ k = writer[c].i
        BY <1>1, <1>4, <3>3, PartElements DEF InPart, PartSources
      <4> QED
        BY <1>1, <1>4, <3>1, <4>1 DEF SourcesLinkedSoFar
    <3>4. \A p \in DOMAIN Parts[c] : p < writer[c].part => SourcesLinked(c, p)'
      BY <1>1, LinkedStay DEF SourcesLinkedSoFar
    <3> QED
      BY <3>1, <3>2, <3>3, <3>4 DEF SourcesLinkedSoFar
  <2> QED
    BY <1>1, <2>1, <2>2
<1> QED
  BY <1>2, <1>3, <1>4

LEMMA LinkProgressStep ==
  ASSUME TypeOK, LoopInv, [Next]_vars, NEW c \in Capsules, LinkProgress(c)
  PROVE  LinkProgress(c)'
<1>1. CASE writer'[c] = writer[c]
  BY <1>1, LinksStable
<1>2. CASE LinkFact(c)
  BY <1>2, LinkFactProgress
<1>3. CASE LinkSource(c)
  BY <1>3, LinkSourceProgress
<1>4. CASE SaveCapsule(c)
  <2>1. \/ writer'[c].pc = "failed"
        \/ writer'[c].pc = "linkFacts" /\ writer'[c].part = 1 /\ writer'[c].i = 1
    BY <1>4, GotoIs DEF SaveCapsule
  <2>2. ASSUME writer'[c].pc = "linkFacts" PROVE FactsLinkedSoFar(c)'
    <3>1. \A p \in DOMAIN Parts[c] : ~ (p < 1)
      BY PartIndexes
    <3>2. writer'[c].part = 1 /\ writer'[c].i = 1
      BY <2>1, <2>2
    <3>3. InPart(c)' => \A k \in DOMAIN PartFacts(c)' : ~ (k < 1)
      BY <3>2, PartElements DEF InPart, PartFacts
    <3> QED
      BY <3>1, <3>2, <3>3 DEF FactsLinkedSoFar
  <2> QED
    BY <2>1, <2>2 DEF LinkProgress
<1>5. CASE NextPart(c) \/ SaveSource(c) \/ SaveFact(c) \/ SaveFactSource(c) \/ Abort(c)
  <2>1. writer'[c].pc \in {"part", "sources", "facts", "cites", "capsule", "failed"}
    BY <1>5, GotoIs DEF NextPart, SaveSource, SaveFact, SaveFactSource, Abort
  <2> QED
    BY <2>1 DEF LinkProgress
<1>6. ASSUME NEW d \in Capsules, Write(d) \/ Abort(d), d # c PROVE writer'[c] = writer[c]
  BY <1>6, OtherWriters
<1>7. ASSUME NEW r \in Readers, Load(r) \/ \E d \in Capsules : GetCapsule(r, d)
      PROVE  writer' = writer
  BY <1>7 DEF Load, GetCapsule, GetCapsuleFacts, FactSourceIds, VerifyLoaded
<1>8. TimePasses \/ DeleteCapsulesOlderThan \/ UNCHANGED vars => writer' = writer
  BY DEF TimePasses, DeleteCapsulesOlderThan, vars
<1> QED
  BY <1>1, <1>2, <1>3, <1>4, <1>5, <1>6, <1>7, <1>8 DEF Next, Write

\* What the queries of a load return while a complete capsule is there.
LEMMA CompleteRows ==
  ASSUME IInv, LoadedInv, NEW c \in Capsules, writer[c].pc = "saved", c \notin deleted
  PROVE  /\ LinkedFacts(c) = FactsOf(c)
         /\ LinkedSources(c) = SourcesOf(c)
         /\ \A f \in FactsOf(c) : CitedRows(f) = ToSet(Cites[f])
<1>1. /\ AllSaved(c) /\ AllFactsLinked(c) /\ AllSourcesLinked(c) /\ LinksOwn
  BY DEF IInv, BuildInv, Progress, LoadedInv, LinkProgress
<1>2. /\ \A f \in FactsOf(c) : f \in facts /\ <<c, f>> \in capsuleFacts
      /\ \A f \in FactsOf(c) : \A s \in ToSet(Cites[f]) : <<f, s>> \in factSources
  BY <1>1 DEF AllSaved, PartSaved, FactSaved, FactsOf, AllFactsLinked, FactsLinked
<1>3. \A s \in SourcesOf(c) : s \in sources /\ <<c, s>> \in capsuleSources
  BY <1>1 DEF AllSaved, PartSaved, SourcesOf, AllSourcesLinked, SourcesLinked
<1>4. LinkedFacts(c) = FactsOf(c)
  BY <1>1, <1>2 DEF LinkedFacts, LinksOwn
<1>5. LinkedSources(c) = SourcesOf(c)
  BY <1>1, <1>3 DEF LinkedSources, LinksOwn
<1>6. ASSUME NEW f \in FactsOf(c) PROVE CitedRows(f) = ToSet(Cites[f])
  <2>1. \A s \in CitedRows(f) : s \in ToSet(Cites[f])
    BY <1>1 DEF CitedRows, LinksOwn
  <2>2. \A s \in ToSet(Cites[f]) : s \in CitedRows(f)
    BY <1>1, <1>2 DEF CitedRows, LinksOwn
  <2> QED
    BY <2>1, <2>2
<1> QED
  BY <1>4, <1>5, <1>6

\* Rows of a set are as many as the set has elements, each once.
LEMMA RowsEnumerate ==
  ASSUME NEW S, IsFiniteSet(S), NEW rows \in SetToSeqs(S)
  PROVE  /\ rows \in Seq(S) /\ Len(rows) \in Nat /\ DOMAIN rows = 1..Len(rows)
         /\ \A i \in 1..Len(rows) : rows[i] \in S
         /\ \A i, j \in 1..Len(rows) : rows[i] = rows[j] => i = j
<1>1. Cardinality(S) \in Nat
  BY FS_CardinalityType
<1>2. /\ rows \in [1..Cardinality(S) -> S]
      /\ \A i, j \in 1..Cardinality(S) : i # j => rows[i] # rows[j]
  BY DEF SetToSeqs
<1>3. rows \in Seq(S) /\ Len(rows) = Cardinality(S)
  BY <1>1, <1>2, IsASeq, LenProperties
<1> QED
  BY <1>1, <1>2, <1>3

LEMMA FactsOfFinite ==
  ASSUME NEW c \in Capsules
  PROVE  /\ CapsuleFacts(c) \in Seq(Facts) /\ ToSet(CapsuleFacts(c)) = FactsOf(c)
         /\ FactsOf(c) \subseteq Facts /\ IsFiniteSet(FactsOf(c))
<1>1. CapsuleFacts(c) \in Seq(Facts)
  BY PartType, CapsuleFactsType
<1>2. ToSet(CapsuleFacts(c)) = FactsOf(c)
  BY CapsuleFactsAre
<1> DEFINE g == CapsuleFacts(c)
<1>3. ToSet(g) \subseteq Facts
  <2> HIDE DEF g
  <2>1. g \in Seq(Facts)
    BY <1>1 DEF g
  <2> QED
    BY <2>1, LenProperties, ElementOfSeq DEF ToSet
<1>4. FactsOf(c) \subseteq Facts
  BY <1>2, <1>3
<1> QED
  BY <1>1, <1>2, <1>4, FactsFinite, FS_Subset

\* A load that read everything is refused only when the zk leaves of its rows
\* are in another order: the other roots do not depend on the order.
LEMMA AllReadVerifies ==
  ASSUME NEW c \in Capsules, NEW rows \in SetToSeqs(FactsOf(c)), NEW cited,
         DOMAIN cited = DOMAIN rows,
         \A i \in DOMAIN rows : cited[i] = ToSet(Cites[rows[i]]),
         [i \in DOMAIN rows |-> ZkLeaf[rows[i]]] = BuildRoots[c].zkFactsRoot
  PROVE  VerifyCapsule(BuildRoots[c], rows, cited, SourcesOf(c))
<1> DEFINE g    == CapsuleFacts(c)
           sets == [i \in DOMAIN g |-> ToSet(Cites[g[i]])]
           n    == Len(rows)
           p    == [i \in 1..n |-> CHOOSE j \in 1..n : g[j] = rows[i]]
           a    == [i \in DOMAIN rows |-> RawHash[rows[i]]]
           b    == [i \in DOMAIN g |-> RawHash[g[i]]]
<1>1. BuildRoots[c] = RootsOf(g, sets, SourcesOf(c))
  BY DEF BuildRoots
<1>2. /\ g \in Seq(Facts) /\ ToSet(g) = FactsOf(c)
      /\ FactsOf(c) \subseteq Facts /\ IsFiniteSet(FactsOf(c))
  BY FactsOfFinite
<1>3. /\ n \in Nat /\ DOMAIN rows = 1..n
      /\ \A i \in 1..n : rows[i] \in FactsOf(c)
      /\ \A i, j \in 1..n : rows[i] = rows[j] => i = j
  BY <1>2, RowsEnumerate
<1> HIDE DEF g, n
<1>4. Len(g) = n /\ DOMAIN g = 1..n /\ \A i \in 1..n : g[i] \in FactsOf(c)
  <2>1. BuildRoots[c].zkFactsRoot = [i \in DOMAIN g |-> ZkLeaf[g[i]]]
    BY <1>1 DEF RootsOf
  <2>2. DOMAIN g = DOMAIN rows
    BY <2>1
  <2>3. Len(g) \in Nat /\ DOMAIN g = 1..Len(g) /\ \A i \in 1..Len(g) : g[i] \in ToSet(g)
    BY <1>2, LenProperties DEF ToSet
  <2>4. Len(g) = n
    BY <1>3, <2>2, <2>3
  <2> QED
    BY <1>2, <2>3, <2>4
<1>5. \A i \in 1..n : p[i] \in 1..n /\ g[p[i]] = rows[i]
  <2>1. \A i \in 1..n : \E j \in 1..n : g[j] = rows[i]
    BY <1>2, <1>3, <1>4 DEF ToSet
  <2> QED
    BY <2>1
<1>6. p \in [1..n -> 1..n] /\ \A i, j \in 1..n : p[i] = p[j] => i = j
  <2>1. p \in [1..n -> 1..n]
    BY <1>5
  <2> HIDE DEF p
  <2>2. ASSUME NEW i \in 1..n, NEW j \in 1..n, p[i] = p[j] PROVE i = j
    <3>1. g[p[i]] = rows[i] /\ g[p[j]] = rows[j]
      BY <1>5
    <3>2. rows[i] = rows[j]
      BY <2>2, <3>1
    <3> QED
      BY <1>3, <3>2
  <2> QED
    BY <2>1, <2>2
<1>7. \A j \in 1..n : \E i \in 1..n : p[i] = j
  <2>1. IsFiniteSet(1..n)
    BY <1>3, FS_Interval
  <2> HIDE DEF p
  <2>2. p \in Injection(1..n, 1..n)
    BY <1>6 DEF Injection, IsInjective
  <2>3. p \in Surjection(1..n, 1..n)
    BY <2>1, <2>2, FS_Injection
  <2> QED
    BY <2>3 DEF Surjection
<1> HIDE DEF p
<1>8. SemanticLeaves(rows, cited) = SemanticLeaves(g, sets)
  <2>0. \A j \in 1..n : sets[j] = ToSet(Cites[g[j]])
    BY <1>4
  <2> HIDE DEF sets
  <2>1. ASSUME NEW i \in 1..n
        PROVE  rows[i] = g[p[i]] /\ cited[i] = sets[p[i]] /\ p[i] \in 1..n
    <3>1. p[i] \in 1..n /\ g[p[i]] = rows[i]
      BY <1>5
    <3>2. cited[i] = ToSet(Cites[rows[i]]) /\ sets[p[i]] = ToSet(Cites[g[p[i]]])
      BY <1>3, <2>0, <3>1
    <3> QED
      BY <3>1, <3>2
  <2>2. SemanticLeaves(rows, cited) = {<<rows[i], cited[i]>> : i \in 1..n}
    BY <1>3 DEF SemanticLeaves
  <2>3. SemanticLeaves(g, sets) = {<<g[j], sets[j]>> : j \in 1..n}
    BY <1>4 DEF SemanticLeaves
  <2>4. ASSUME NEW x \in SemanticLeaves(rows, cited) PROVE x \in SemanticLeaves(g, sets)
    <3>1. PICK i \in 1..n : x = <<rows[i], cited[i]>>
      BY <2>2
    <3>2. x = <<g[p[i]], sets[p[i]]>> /\ p[i] \in 1..n
      BY <2>1, <3>1
    <3> QED
      BY <2>3, <3>2
  <2>5. ASSUME NEW x \in SemanticLeaves(g, sets) PROVE x \in SemanticLeaves(rows, cited)
    <3>1. PICK j \in 1..n : x = <<g[j], sets[j]>>
      BY <2>3
    <3>2. PICK i \in 1..n : p[i] = j
      BY <1>7
    <3>3. x = <<rows[i], cited[i]>>
      BY <2>1, <3>1, <3>2
    <3> QED
      BY <2>2, <3>3
  <2> QED
    BY <2>4, <2>5
<1>9. MerkleRoot(a) = MerkleRoot(b)
  <2>1. \A i \in 1..n : RawHash[rows[i]] \in Nat /\ RawHash[g[i]] \in Nat
    BY <1>2, <1>3, <1>4, RawHashAssumption
  <2>2. a \in [1..n -> Int] /\ b \in [1..n -> Int]
    BY <1>3, <1>4, <2>1
  <2>3. \A i \in 1..n : a[i] = b[p[i]]
    BY <1>3, <1>4, <1>5
  <2> HIDE DEF a, b
  <2>4. a \in Seq(Int) /\ b \in Seq(Int) /\ Len(a) = n /\ Len(b) = n
    BY <1>3, <2>2, IsASeq, LenProperties
  <2>5. /\ p \in [1..Len(a) -> 1..Len(a)] /\ Len(a) = Len(b)
        /\ \A i, j \in 1..Len(a) : p[i] = p[j] => i = j
        /\ \A i \in 1..Len(a) : a[i] = b[p[i]]
    BY <1>6, <2>3, <2>4
  <2> QED
    BY <2>4, <2>5, RootIgnoresOrder
<1>10. RootsOf(rows, cited, SourcesOf(c)) = RootsOf(g, sets, SourcesOf(c))
  <2>1. [i \in DOMAIN rows |-> ZkLeaf[rows[i]]] = [i \in DOMAIN g |-> ZkLeaf[g[i]]]
    BY <1>1 DEF RootsOf
  <2>2. MerkleRoot([i \in DOMAIN rows |-> RawHash[rows[i]]])
          = MerkleRoot([i \in DOMAIN g |-> RawHash[g[i]]])
    BY <1>9
  <2> HIDE DEF sets, a, b
  <2> QED
    BY <1>8, <2>1, <2>2, Zenon DEF RootsOf
<1> HIDE DEF sets
<1> QED
  BY <1>1, <1>10 DEF VerifyCapsule

\* The step of a load itself.
LEMMA LoadReads ==
  ASSUME IInv, LoadedInv, [Next]_vars, NEW r \in Readers, Load(r)
  PROVE  CompleteLoad(r)'
<1> DEFINE l == reader[r]
           c == reader[r].capsule
<1>1. /\ TypeOK /\ l \in ReaderStates /\ LoadInv(r) /\ CompleteLoad(r)
      /\ UNCHANGED <<writer, deleted>>
  BY DEF IInv, LoadedInv, TypeOK, Load, GetCapsuleFacts, FactSourceIds, VerifyLoaded
<1>2. reader'[r].complete = l.complete /\ reader'[r].capsule = c
  <2>1. r \in DOMAIN reader
    BY <1>1 DEF TypeOK
  <2>2. CASE GetCapsuleFacts(r)
    <3>1. PICK rows \in SetToSeqs(LinkedFacts(c)) :
            reader' = [reader EXCEPT ![r] = [l EXCEPT !.pc = "cites", !.rows = rows]]
      BY <2>2 DEF GetCapsuleFacts
    <3>2. reader'[r] = [l EXCEPT !.pc = "cites", !.rows = rows]
      BY <2>1, <3>1, Zenon
    <3> QED
      BY <1>1, <3>2 DEF ReaderStates
  <2>3. CASE FactSourceIds(r)
    <3>1. \/ \E row : reader' = [reader EXCEPT ![r] = [l EXCEPT !.cited = Append(l.cited, row)]]
          \/ reader' = [reader EXCEPT ![r] = [l EXCEPT !.pc = "sources"]]
      BY <2>3, Zenon DEF FactSourceIds
    <3>2. \/ \E row : reader'[r] = [l EXCEPT !.cited = Append(l.cited, row)]
          \/ reader'[r] = [l EXCEPT !.pc = "sources"]
      BY <2>1, <3>1, Zenon
    <3> QED
      BY <1>1, <3>2 DEF ReaderStates
  <2>4. CASE VerifyLoaded(r)
    <3>1. \E o : reader' = [reader EXCEPT ![r] = [l EXCEPT !.pc = "done", !.outcome = o]]
      BY <2>4, Zenon DEF VerifyLoaded
    <3>2. \E o : reader'[r] = [l EXCEPT !.pc = "done", !.outcome = o]
      BY <2>1, <3>1, Zenon
    <3> QED
      BY <1>1, <3>2 DEF ReaderStates
  <2> QED
    BY <2>2, <2>3, <2>4 DEF Load
<1> SUFFICES ASSUME l.complete
             PROVE  CompleteLoad(r)'
  BY <1>2 DEF CompleteLoad
<1>3. /\ c \in Capsules /\ writer[c].pc = "saved" /\ l.pc \in {"facts", "cites", "sources", "done"}
      /\ c \notin deleted => ReadsAll(l)
  BY <1>1 DEF CompleteLoad
<1>4. SUFFICES /\ reader'[r].pc \in {"cites", "sources", "done"}
               /\ c \notin deleted => ReadsAll(reader'[r])
  BY <1>1, <1>2, <1>3 DEF CompleteLoad, ReadsAll
<1>5. c \notin deleted =>
        /\ LinkedFacts(c) = FactsOf(c) /\ LinkedSources(c) = SourcesOf(c)
        /\ \A f \in FactsOf(c) : CitedRows(f) = ToSet(Cites[f])
  BY <1>3, CompleteRows
<1>6. l.cited \in Seq(SUBSET Sources) /\ Len(l.cited) \in Nat
  BY <1>1, LenProperties DEF ReaderStates
<1>7. CASE GetCapsuleFacts(r)
  <2>1. PICK rows \in SetToSeqs(LinkedFacts(c)) :
          reader' = [reader EXCEPT ![r] = [@ EXCEPT !.pc = "cites", !.rows = rows]]
    BY <1>7 DEF GetCapsuleFacts
  <2>2. l.pc = "facts" /\ l.outcome = "none"
    BY <1>1, <1>7 DEF GetCapsuleFacts, LoadInv
  <2>3. /\ reader'[r].pc = "cites" /\ reader'[r].rows = rows
        /\ reader'[r].cited = l.cited /\ reader'[r].outcome = "none"
    BY <1>1, <2>1, <2>2 DEF TypeOK, ReaderStates
  <2>4. ASSUME c \notin deleted PROVE ReadsAll(reader'[r])
    <3>1. l.cited = <<>> /\ rows \in SetToSeqs(FactsOf(c))
      BY <1>3, <1>5, <2>1, <2>2, <2>4 DEF ReadsAll
    <3>2. Len(rows) \in Nat /\ Len(<<>>) = 0
      BY <1>3, <3>1, FactsOfFinite, RowsEnumerate
    <3> QED
      BY <1>2, <2>3, <3>1, <3>2 DEF ReadsAll
  <2> QED
    BY <2>3, <2>4
<1>8. CASE FactSourceIds(r) /\ Len(l.cited) + 1 <= Len(l.rows)
  <2>0. PICK k, row : k = Len(l.cited) + 1 /\ row = CitedRows(l.rows[k])
    OBVIOUS
  <2>1. l.pc = "cites" /\ l.outcome = "none"
    BY <1>1, <1>8 DEF FactSourceIds, LoadInv
  <2>2. reader' = [reader EXCEPT ![r] = [l EXCEPT !.cited = Append(l.cited, row)]]
    BY <1>8, <2>0 DEF FactSourceIds
  <2>3. /\ reader'[r].pc = "cites" /\ reader'[r].rows = l.rows
        /\ reader'[r].cited = Append(l.cited, row) /\ reader'[r].outcome = "none"
    BY <1>1, <2>1, <2>2 DEF TypeOK, ReaderStates
  <2>4. ASSUME c \notin deleted PROVE ReadsAll(reader'[r])
    <3>1. l.rows \in SetToSeqs(FactsOf(c)) /\ \A i \in 1..Len(l.cited) :
            l.cited[i] = ToSet(Cites[l.rows[i]])
      BY <1>3, <2>1, <2>4 DEF ReadsAll
    <3>2. Len(l.rows) \in Nat /\ \A i \in 1..Len(l.rows) : l.rows[i] \in FactsOf(c)
      BY <1>3, <3>1, FactsOfFinite, RowsEnumerate
    <3>3. row = ToSet(Cites[l.rows[k]])
      <4>1. k \in 1..Len(l.rows)
        BY <1>6, <1>8, <2>0, <3>2
      <4>2. l.rows[k] \in FactsOf(c)
        BY <3>2, <4>1
      <4> QED
        BY <1>5, <2>0, <2>4, <4>2
    <3>4. row \in SUBSET Sources
      BY <1>1, <2>0 DEF CitedRows, TypeOK
    <3>5. /\ Len(Append(l.cited, row)) = k
          /\ \A i \in 1..k : Append(l.cited, row)[i] = IF i <= Len(l.cited) THEN l.cited[i] ELSE row
      BY <1>6, <2>0, <3>4, AppendProperties
    <3>6. \A i \in 1..k : Append(l.cited, row)[i] = ToSet(Cites[l.rows[i]])
      <4> TAKE i \in 1..k
      <4>1. CASE i <= Len(l.cited)
        BY <1>6, <2>0, <3>1, <3>5, <4>1
      <4>2. CASE i = k
        <5>1. ~ (i <= Len(l.cited))
          BY <1>6, <2>0, <4>2
        <5>2. Append(l.cited, row)[i] = row
          BY <3>5, <5>1, ZenonT(30)
        <5> QED
          BY <3>3, <4>2, <5>2, ZenonT(30)
      <4> QED
        BY <1>6, <2>0, <4>1, <4>2
    <3> QED
      BY <1>2, <1>8, <2>0, <2>3, <3>1, <3>5, <3>6 DEF ReadsAll
  <2> QED
    BY <2>3, <2>4
<1>9. CASE FactSourceIds(r) /\ ~ (Len(l.cited) + 1 <= Len(l.rows))
  <2>1. l.pc = "cites" /\ l.outcome = "none"
    BY <1>1, <1>9 DEF FactSourceIds, LoadInv
  <2>2. reader' = [reader EXCEPT ![r] = [l EXCEPT !.pc = "sources"]]
    BY <1>9 DEF FactSourceIds
  <2>3. /\ reader'[r].pc = "sources" /\ reader'[r].rows = l.rows
        /\ reader'[r].cited = l.cited /\ reader'[r].outcome = "none"
    BY <1>1, <2>1, <2>2 DEF TypeOK, ReaderStates
  <2>4. ASSUME c \notin deleted PROVE ReadsAll(reader'[r])
    <3>1. ReadsAll(l) /\ l.rows \in SetToSeqs(FactsOf(c)) /\ Len(l.cited) <= Len(l.rows)
      BY <1>3, <2>1, <2>4 DEF ReadsAll
    <3>2. Len(l.rows) \in Nat
      BY <1>3, <3>1, FactsOfFinite, RowsEnumerate
    <3>3. Len(l.cited) = Len(l.rows)
      BY <1>6, <1>9, <3>1, <3>2
    <3> QED
      BY <1>2, <2>3, <3>1, <3>3 DEF ReadsAll
  <2> QED
    BY <2>3, <2>4
<1>10. CASE VerifyLoaded(r)
  <2> DEFINE ok == VerifyCapsule(l.roots, l.rows, l.cited, LinkedSources(c))
  <2>1. /\ l.pc = "sources" /\ l.roots = BuildRoots[c]
        /\ reader' = [reader EXCEPT ![r] = [@ EXCEPT !.pc = "done", !.outcome =
                        IF ok THEN "verified" ELSE "unverified"]]
    BY <1>1, <1>10 DEF VerifyLoaded, LoadInv
  <2> HIDE DEF ok
  <2>2. /\ reader'[r].pc = "done" /\ reader'[r].rows = l.rows /\ reader'[r].cited = l.cited
        /\ reader'[r].outcome = IF ok THEN "verified" ELSE "unverified"
    BY <1>1, <2>1 DEF TypeOK, ReaderStates
  <2>3. ASSUME c \notin deleted PROVE ReadsAll(reader'[r])
    <3>1. ReadsAll(l)
      BY <1>3, <2>3
    <3>2. reader'[r].outcome = "unverified" =>
            ~ VerifyCapsule(BuildRoots[c], l.rows, l.cited, SourcesOf(c))
      BY <1>5, <2>1, <2>2, <2>3 DEF ok
    <3> QED
      BY <1>2, <2>1, <2>2, <3>1, <3>2 DEF ReadsAll
  <2> QED
    BY <2>2, <2>3
<1> QED
  BY <1>7, <1>8, <1>9, <1>10 DEF Load

LEMMA CompleteLoadStep ==
  ASSUME IInv, LoadedInv, [Next]_vars, NEW r \in Readers
  PROVE  CompleteLoad(r)'
<1>1. TypeOK /\ CompleteLoad(r)
  BY DEF IInv, LoadedInv
\* A build that is saved stays saved, and cleanup is for ever.
<1>2. deleted \subseteq deleted' /\ \A c \in Capsules :
        writer[c].pc = "saved" => writer'[c].pc = "saved"
  <2>1. ASSUME NEW c \in Capsules, Write(c) \/ Abort(c), NEW d \in Capsules, writer[d].pc = "saved"
        PROVE  deleted \subseteq deleted' /\ writer'[d].pc = "saved"
    <3>1. writer[c].pc # "saved" /\ deleted' = deleted
      BY <2>1 DEF Write, NextPart, SaveSource, SaveFact, SaveFactSource, SaveCapsule,
                  LinkFact, LinkSource, Abort, tables
    <3>2. c # d
      BY <2>1, <3>1
    <3> QED
      BY <1>1, <2>1, <3>1, <3>2, OtherWriters
  <2>2. ASSUME NEW c \in Capsules, Write(c) \/ Abort(c) PROVE deleted' = deleted
    BY <2>2 DEF Write, NextPart, SaveSource, SaveFact, SaveFactSource, SaveCapsule,
                LinkFact, LinkSource, Abort, tables
  <2>3. ASSUME NEW q \in Readers, Load(q) \/ \E c \in Capsules : GetCapsule(q, c)
        PROVE  UNCHANGED <<writer, deleted>>
    BY <2>3 DEF Load, GetCapsule, GetCapsuleFacts, FactSourceIds, VerifyLoaded
  <2>4. TimePasses \/ UNCHANGED vars => UNCHANGED <<writer, deleted>>
    BY DEF TimePasses, vars
  <2>5. DeleteCapsulesOlderThan => writer' = writer /\ deleted \subseteq deleted'
    BY DEF DeleteCapsulesOlderThan
  <2> QED
    BY <2>1, <2>2, <2>3, <2>4, <2>5 DEF Next
<1>3. CASE reader'[r] = reader[r]
  BY <1>1, <1>2, <1>3 DEF CompleteLoad
<1>4. CASE Load(r)
  BY <1>4, LoadReads
<1>5. ASSUME NEW c \in Capsules, GetCapsule(r, c) PROVE CompleteLoad(r)'
  <2>1. \/ reader'[r].complete = FALSE
        \/ /\ reader'[r].complete = (writer[c].pc = "saved") /\ reader'[r].pc = "facts"
           /\ reader'[r].capsule = c /\ reader'[r].cited = <<>> /\ reader'[r].outcome = "none"
    BY <1>1, <1>5 DEF GetCapsule, TypeOK, IdleReader
  <2>2. writer' = writer
    BY <1>5 DEF GetCapsule
  <2>3. Len(<<>>) = 0 /\ 1..0 = {}
    OBVIOUS
  <2> QED
    BY <2>1, <2>2, <2>3 DEF CompleteLoad, ReadsAll
<1>6. ASSUME NEW q \in Readers, q # r, Load(q) \/ \E c \in Capsules : GetCapsule(q, c)
      PROVE  reader'[r] = reader[r]
  BY <1>1, <1>6 DEF TypeOK, Load, GetCapsule, GetCapsuleFacts, FactSourceIds, VerifyLoaded
<1>7. ASSUME NEW c \in Capsules, Write(c) \/ Abort(c) PROVE reader' = reader
  BY <1>7 DEF Write, NextPart, SaveSource, SaveFact, SaveFactSource, SaveCapsule,
              LinkFact, LinkSource, Abort
<1>8. TimePasses \/ DeleteCapsulesOlderThan \/ UNCHANGED vars => reader' = reader
  BY DEF TimePasses, DeleteCapsulesOlderThan, vars
<1> QED
  BY <1>3, <1>4, <1>5, <1>6, <1>7, <1>8 DEF Next

LEMMA LoadedInvariance == Spec => [](IInv /\ LoadedInv)
<1>1. IInv /\ LoadedInv /\ [Next]_vars => LoadedInv'
  <2> SUFFICES ASSUME IInv, LoadedInv, [Next]_vars PROVE LoadedInv'
    OBVIOUS
  <2>1. LinksOwn'
    BY LinksOwnStep DEF IInv, LoadedInv
  <2>2. \A c \in Capsules : LinkProgress(c)'
    BY LinkProgressStep DEF IInv, LoadedInv
  <2>3. \A r \in Readers : CompleteLoad(r)'
    BY CompleteLoadStep
  <2> QED
    BY <2>1, <2>2, <2>3 DEF LoadedInv
<1>2. Init => LoadedInv
  BY LoadedInit
<1> QED
  BY Invariance, <1>1, <1>2, PTL DEF Spec

\* A load of a capsule that was complete when the load began, and that the
\* cleanup worker has not removed, is refused for the order of its rows alone.
THEOREM OnlyOrderRefuses == Spec => []RefusedOnlyForOrder
<1>1. IInv /\ LoadedInv => RefusedOnlyForOrder
  <2> SUFFICES ASSUME IInv, LoadedInv, NEW r \in Readers,
                      reader[r].outcome = "unverified", reader[r].complete,
                      reader[r].capsule \notin deleted,
                      [i \in DOMAIN reader[r].rows |-> ZkLeaf[reader[r].rows[i]]]
                        = BuildRoots[reader[r].capsule].zkFactsRoot
               PROVE  FALSE
    BY DEF RefusedOnlyForOrder
  <2> DEFINE l == reader[r]
             c == reader[r].capsule
  <2>1. c \in Capsules /\ ReadsAll(l) /\ l \in ReaderStates /\ l.pc = "done"
    BY DEF LoadedInv, CompleteLoad, IInv, LoadInv, TypeOK
  <2>2. /\ l.rows \in SetToSeqs(FactsOf(c)) /\ Len(l.cited) = Len(l.rows)
        /\ \A i \in 1..Len(l.cited) : l.cited[i] = ToSet(Cites[l.rows[i]])
        /\ ~ VerifyCapsule(BuildRoots[c], l.rows, l.cited, SourcesOf(c))
    BY <2>1 DEF ReadsAll
  <2>3. DOMAIN l.rows = 1..Len(l.rows) /\ DOMAIN l.cited = 1..Len(l.cited)
    BY <2>1, LenProperties DEF ReaderStates
  <2>4. VerifyCapsule(BuildRoots[c], l.rows, l.cited, SourcesOf(c))
    BY <2>1, <2>2, <2>3, AllReadVerifies
  <2> QED
    BY <2>2, <2>4
<1> QED
  BY LoadedInvariance, <1>1, PTL

-----------------------------------------------------------------------------
(* The tables implement CapsuleRegistry.                                   *)

LEMMA RegistryInit == Init => Registry!Init
<1> SUFFICES ASSUME Init PROVE Registry!Init
  OBVIOUS
<1>1. RegistryStatus = [c \in Capsules |-> "unpublished"]
  BY DEF RegistryStatus, Init, Present, NoRow
<1>2. RegistryReply = [r \in Readers |->
                         [state |-> "idle", capsule |-> NoCapsule, content |-> {}]]
  BY DEF RegistryReply, Init, IdleReader
<1> QED
  BY <1>1, <1>2 DEF Registry!Init, Registry!Idle

\* Steps of builds and of cleanup.
LEMMA StatusStep ==
  ASSUME IInv, UNCHANGED reader,
         \/ UNCHANGED <<capsules, deleted>>
         \/ \E c \in Capsules : SaveCapsule(c)
         \/ DeleteCapsulesOlderThan
  PROVE  [Registry!Next]_(Registry!vars)
<1>1. UNCHANGED RegistryReply
  BY DEF RegistryReply
<1>2. CASE UNCHANGED <<capsules, deleted>>
  <2>1. UNCHANGED RegistryStatus
    BY <1>2 DEF RegistryStatus, Present
  <2> QED
    BY <1>1, <2>1 DEF Registry!vars
<1>3. ASSUME NEW c \in Capsules, SaveCapsule(c), ~UNCHANGED capsules
      PROVE  Registry!Publish(c)
  <2>1. TypeOK /\ ~Present(c) /\ c \notin deleted
    BY <1>3 DEF IInv, BuildInv, Published, SaveCapsule, BeforeInsert
  <2>2. Present(c)' /\ deleted' = deleted
    BY <1>3, <2>1 DEF SaveCapsule, CreatedAt, Row, TypeOK, Present
  <2>3. \A d \in Capsules : d # c => Present(d)' = Present(d)
    BY <1>3, <2>1, InsertEffect DEF Present
  <2>4. RegistryStatus[c] = "unpublished"
    BY <2>1 DEF RegistryStatus
  <2>5. RegistryStatus' = [RegistryStatus EXCEPT ![c] = "published"]
    BY <2>2, <2>3 DEF RegistryStatus
  <2> QED
    BY <1>1, <2>4, <2>5 DEF Registry!Publish
<1>4. ASSUME NEW c \in Capsules, SaveCapsule(c), UNCHANGED capsules
      PROVE  UNCHANGED <<capsules, deleted>>
  BY <1>4 DEF SaveCapsule
<1>5. CASE DeleteCapsulesOlderThan
  <2>1. /\ Expired # {} /\ Expired \subseteq Capsules
        /\ \A c \in Expired : Present(c)
    BY <1>5 DEF DeleteCapsulesOlderThan, Expired
  <2>2. Expired \in (SUBSET {c \in Capsules : RegistryStatus[c] = "published"}) \ {{}}
    BY <2>1 DEF RegistryStatus
  <2>3. \A c \in Capsules : c \notin Expired => Present(c)' = Present(c)
    BY <1>5, CleanupEffect DEF Present
  <2>4. RegistryStatus' =
          [c \in Capsules |-> IF c \in Expired THEN "retired" ELSE RegistryStatus[c]]
    BY <1>5, <2>3, CleanupEffect DEF RegistryStatus
  <2> QED
    BY <1>1, <2>2, <2>4 DEF Registry!Next, Registry!Retire
<1> QED
  BY <1>2, <1>3, <1>4, <1>5 DEF Registry!Next

\* Steps of a load.
LEMMA ReplyStep ==
  ASSUME IInv, IInv', NEW r \in Readers,
         Load(r) \/ \E c \in Capsules : GetCapsule(r, c)
  PROVE  [Registry!Next]_(Registry!vars)
<1>1. UNCHANGED RegistryStatus
  BY DEF Load, GetCapsule, GetCapsuleFacts, FactSourceIds, VerifyLoaded,
         tables, RegistryStatus, Present
<1>2. \A q \in Readers : q # r => reader'[q] = reader[q]
  BY DEF IInv, TypeOK, Load, GetCapsule, GetCapsuleFacts, FactSourceIds, VerifyLoaded
<1>3. reader[r] \in ReaderStates /\ LoadInv(r) /\ LoadInv(r)' /\ TypeOK
  BY DEF IInv, TypeOK
<1> DEFINE Reply(l) ==
      [state   |-> IF l.pc = "idle" THEN "idle"
                   ELSE IF l.pc = "done" THEN l.outcome ELSE "pending",
       capsule |-> l.capsule,
       content |-> IF l.outcome # "verified" THEN {}
                   ELSE SemanticLeaves(l.rows, l.cited)]
<1>4. RegistryReply[r] = Reply(reader[r]) /\ RegistryReply'[r] = Reply(reader'[r])
  BY DEF RegistryReply
<1>5. RegistryReply' = [RegistryReply EXCEPT ![r] = Reply(reader'[r])]
  BY <1>2, <1>4, ZenonT(30) DEF RegistryReply
<1>a. \A l : l.pc \notin {"idle", "done"} /\ l.outcome = "none" =>
        Reply(l) = [state |-> "pending", capsule |-> l.capsule, content |-> {}]
  OBVIOUS
<1>b. \A l : l.pc = "done" /\ l.outcome # "verified" =>
        Reply(l) = [state |-> l.outcome, capsule |-> l.capsule, content |-> {}]
  OBVIOUS
<1>c. \A l : l.pc = "done" /\ l.outcome = "verified" =>
        Reply(l) = [state |-> "verified", capsule |-> l.capsule,
                    content |-> SemanticLeaves(l.rows, l.cited)]
  OBVIOUS
<1>d. \A l : l.pc \in {"idle", "done"} /\ l.outcome \in Outcomes => Reply(l).state # "pending"
  BY DEF Outcomes
<1> HIDE DEF Reply
<1>6. ASSUME NEW c \in Capsules, GetCapsule(r, c)
      PROVE  Registry!Request(r, c)
  <2>1. RegistryReply[r].state # "pending"
    <3>1. reader[r].pc \in {"idle", "done"} /\ reader[r].outcome \in Outcomes
      BY <1>3, <1>6 DEF GetCapsule, ReaderStates
    <3> QED
      BY <1>4, <1>d, <3>1
  <2>2. Reply(reader'[r]) =
          [state |-> IF RegistryStatus[c] = "published" THEN "pending" ELSE "not_found",
           capsule |-> c, content |-> {}]
    <3>1. CASE Present(c)
      <4>1. /\ reader'[r].pc = "facts"
            /\ reader'[r].outcome = "none"
            /\ reader'[r].capsule = c
        BY <1>3, <1>6, <3>1 DEF GetCapsule, IdleReader, TypeOK
      <4> QED
        BY <1>a, <3>1, <4>1 DEF RegistryStatus
    <3>2. CASE ~Present(c)
      <4>1. /\ reader'[r].pc = "done"
            /\ reader'[r].outcome = "not_found"
            /\ reader'[r].capsule = c
        BY <1>3, <1>6, <3>2 DEF GetCapsule, IdleReader, TypeOK
      <4> QED
        BY <1>b, <3>2, <4>1 DEF RegistryStatus
    <3> QED
      BY <3>1, <3>2
  <2> QED
    BY <1>1, <1>5, <2>1, <2>2 DEF Registry!Request
<1>7. CASE GetCapsuleFacts(r) \/ FactSourceIds(r)
  <2>1. /\ reader[r].pc \in {"facts", "cites"}
        /\ reader'[r].pc \in {"cites", "sources"}
        /\ reader'[r].capsule = reader[r].capsule
        /\ reader'[r].outcome = reader[r].outcome
    <3>1. CASE GetCapsuleFacts(r)
      BY <1>3, <3>1 DEF GetCapsuleFacts, ReaderStates, TypeOK
    <3>2. CASE FactSourceIds(r)
      BY <1>3, <3>2 DEF FactSourceIds, ReaderStates, TypeOK
    <3> QED
      BY <1>7, <3>1, <3>2
  <2>2. reader[r].outcome = "none"
    BY <1>3, <2>1 DEF LoadInv
  <2>3. Reply(reader'[r]) = Reply(reader[r])
    BY <1>a, <2>1, <2>2
  <2>4. RegistryReply' = RegistryReply
    BY <1>4, <1>5, <2>3 DEF RegistryReply
  <2> QED
    BY <1>1, <2>4 DEF Registry!vars
<1>8. CASE VerifyLoaded(r)
  <2> DEFINE c == reader[r].capsule
  <2>1. /\ reader[r].pc = "sources"
        /\ reader'[r].pc = "done"
        /\ reader'[r].capsule = c
        /\ reader'[r].outcome \in {"verified", "unverified"}
    BY <1>3, <1>8 DEF VerifyLoaded, ReaderStates, TypeOK
  <2>2. reader[r].outcome = "none"
    BY <1>3, <2>1 DEF LoadInv
  <2>3. RegistryReply[r] = [state |-> "pending", capsule |-> c, content |-> {}]
    BY <1>4, <1>a, <2>1, <2>2
  <2>4. CASE reader'[r].outcome = "verified"
    <3>1. Reply(reader'[r]) = [state |-> "verified", capsule |-> c,
                               content |-> CapsuleContent[c]]
      <4>1. PICK rows, cited, srcs :
              /\ rows = reader'[r].rows
              /\ cited = reader'[r].cited
              /\ c \in Capsules
              /\ RootsOf(rows, cited, srcs) = BuildRoots[c]
        BY <1>3, <2>1, <2>4 DEF LoadInv
      <4>2. SemanticLeaves(rows, cited) = CapsuleContent[c]
        BY <4>1, AcceptedContent
      <4> QED
        BY <1>c, <2>1, <2>4, <4>1, <4>2
    <3>2. RegistryReply' = [RegistryReply EXCEPT ![r] =
            [state |-> "verified", capsule |-> c, content |-> CapsuleContent[c]]]
      BY <1>5, <3>1
    <3>3. Registry!Answer(r)
      BY <1>1, <2>3, <3>2 DEF Registry!Answer
    <3> QED
      BY <3>3 DEF Registry!Next
  <2>5. CASE reader'[r].outcome = "unverified"
    <3>1. Reply(reader'[r]) = [state |-> "unverified", capsule |-> c, content |-> {}]
      BY <1>b, <2>1, <2>5
    <3>2. RegistryReply' = [RegistryReply EXCEPT ![r] =
            [state |-> "unverified", capsule |-> c, content |-> {}]]
      BY <1>5, <3>1
    <3>3. Registry!Answer(r)
      BY <1>1, <2>3, <3>2 DEF Registry!Answer
    <3> QED
      BY <3>3 DEF Registry!Next
  <2> QED
    BY <2>1, <2>4, <2>5
<1> QED
  BY <1>6, <1>7, <1>8 DEF Load, Registry!Next

\* Every behaviour of the tables is one of the registry: a capsule is published
\* once with all it says, never comes back after its removal, and a load is
\* answered with exactly that content or refused.
THEOREM TablesImplementRegistry == Spec => ImplementsRegistry
<1>1. IInv /\ IInv' /\ [Next]_vars => [Registry!Next]_(Registry!vars)
  <2> SUFFICES ASSUME IInv, IInv', [Next]_vars
               PROVE  [Registry!Next]_(Registry!vars)
    OBVIOUS
  <2>1. ASSUME NEW r \in Readers, Load(r) \/ \E c \in Capsules : GetCapsule(r, c)
        PROVE  [Registry!Next]_(Registry!vars)
    BY <2>1, ReplyStep
  <2>2. ASSUME NEW c \in Capsules, Write(c) \/ Abort(c) PROVE UNCHANGED reader
    BY <2>2 DEF Write, NextPart, SaveSource, SaveFact, SaveFactSource, SaveCapsule,
                LinkFact, LinkSource, Abort
  <2>3. TimePasses \/ DeleteCapsulesOlderThan \/ UNCHANGED vars => UNCHANGED reader
    BY DEF TimePasses, DeleteCapsulesOlderThan, vars
  <2>4. TypeOK
    BY DEF IInv
  <2> QED
    BY <2>1, <2>2, <2>3, <2>4, CapsuleSteps, StatusStep DEF Next
<1> QED
  BY RegistryInit, Invariance, <1>1, PTL DEF Spec, ImplementsRegistry, Registry!Spec
=============================================================================
