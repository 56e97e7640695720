---------------------- MODULE MemoryCapsuleStoreProofs ----------------------
(***************************************************************************)
(* Theorems about MemoryCapsuleStore, for every set of capsules, readers,  *)
(* sources and facts.                                                      *)
(***************************************************************************)
EXTENDS MemoryCapsuleStore, CapsuleProofs

-----------------------------------------------------------------------------
(* StoredRows, for every sequence.                                         *)

LEMMA StoredRowsRecursion ==
  ASSUME NEW S, NEW s \in Seq(S)
  PROVE  \E f : /\ f[0] = <<>>
                /\ \A i \in 1..Len(s) :
                     f[i] = IF s[i] \in facts THEN Append(f[i - 1], s[i]) ELSE f[i - 1]
                /\ StoredRows(s) = f[Len(s)]
<1> DEFINE Next1(f, i) == IF i = 0 THEN <<>>
                          ELSE IF s[i] \in facts THEN Append(f[i - 1], s[i]) ELSE f[i - 1]
           Is(f, n) == f = [i \in 0..n |-> Next1(f, i)]
           T == {n \in Nat : ~ \E f : Is(f, n)}
<1>a. ASSUME NEW f, NEW n \in Nat, Is(f, n), NEW i \in 0..n
      PROVE  f[i] = Next1(f, i)
  <2>1. f[i] = [j \in 0..n |-> Next1(f, j)][i]
    <3> HIDE DEF Next1
    <3> QED
      BY <1>a, Zenon
  <2> HIDE DEF Next1
  <2> QED
    BY <2>1, Zenon
<1>1. 0 \notin T
  <2>1. Is([i \in 0..0 |-> <<>>], 0)
    OBVIOUS
  <2> QED
    BY <2>1
<1>2. ASSUME NEW n \in Nat, n \notin T PROVE n + 1 \notin T
  <2>1. PICK f : Is(f, n)
    BY <1>2
  <2> DEFINE g == [i \in 0..(n + 1) |-> IF i <= n THEN f[i] ELSE Next1(f, i)]
  <2>2. ASSUME NEW i \in 0..(n + 1) PROVE g[i] = Next1(g, i)
    <3>1. i # 0 => g[i - 1] = f[i - 1]
      OBVIOUS
    <3>2. Next1(g, i) = Next1(f, i)
      <4> HIDE DEF g
      <4> QED
        BY <3>1
    <3>3. CASE i <= n
      <4>1. f[i] = Next1(f, i)
        <5> i \in 0..n
          BY <3>3
        <5> HIDE DEF Is, Next1
        <5> QED
          BY <1>a, <2>1
      <4>2. g[i] = f[i]
        BY <3>3
      <4> HIDE DEF g, Next1
      <4> QED
        BY <3>2, <4>1, <4>2
    <3>4. CASE i = n + 1
      <4>1. g[i] = Next1(f, i)
        <5> HIDE DEF Next1
        <5> QED
          BY <3>4
      <4> HIDE DEF g, Next1
      <4> QED
        BY <3>2, <4>1
    <3> QED
      BY <3>3, <3>4
  <2>3. Is(g, n + 1)
    <3> HIDE DEF g, Next1
    <3>1. g = [i \in 0..(n + 1) |-> g[i]]
      BY DEF g
    <3> QED
      BY <2>2, <3>1
  <2> QED
    BY <2>3
<1>3. T = {}
  <2> HIDE DEF T
  <2> T \in SUBSET Nat
    BY DEF T
  <2> QED
    BY <1>1, <1>2, NoCounterexample
<1> DEFINE rows[i \in 0..Len(s)] ==
             IF i = 0 THEN <<>>
             ELSE IF s[i] \in facts THEN Append(rows[i - 1], s[i]) ELSE rows[i - 1]
<1>4. Len(s) \in Nat
  BY LenProperties
<1>5. \E f : Is(f, Len(s))
  BY <1>3, <1>4
<1>6. rows = CHOOSE f : Is(f, Len(s))
  OBVIOUS
<1>7. Is(rows, Len(s))
  BY <1>5, <1>6
<1>8. StoredRows(s) = rows[Len(s)]
  BY DEF StoredRows
<1> HIDE DEF rows
<1>9. \A i \in 0..Len(s) : rows[i] = Next1(rows, i)
  <2> HIDE DEF Is, Next1
  <2> QED
    BY <1>4, <1>7, <1>a
<1> QED
  BY <1>4, <1>8, <1>9

\* The filter keeps the type of the ids, and every id that is stored.
LEMMA StoredRowsOf ==
  ASSUME NEW S, NEW s \in Seq(S)
  PROVE  /\ StoredRows(s) \in Seq(S)
         /\ s \in Seq(facts) => StoredRows(s) = s
<1>1. Len(s) \in Nat /\ \A i \in 1..Len(s) : s[i] \in S
  BY LenProperties, ElementOfSeq
<1>2. PICK f : /\ f[0] = <<>>
               /\ \A i \in 1..Len(s) :
                    f[i] = IF s[i] \in facts THEN Append(f[i - 1], s[i]) ELSE f[i - 1]
               /\ StoredRows(s) = f[Len(s)]
  BY StoredRowsRecursion
<1> DEFINE Good(n) == /\ f[n] \in Seq(S)
                      /\ s \in Seq(facts) => f[n] = SubSeq(s, 1, n)
           T == {n \in Nat : n <= Len(s) /\ ~ Good(n)}
<1>3. Good(0)
  BY <1>2
<1>4. ASSUME NEW n \in Nat, n + 1 \in T PROVE n \in T
  <2>1. n + 1 \in 1..Len(s) /\ n <= Len(s) /\ (n + 1) - 1 = n
    BY <1>1, <1>4
  <2>2. f[n + 1] = IF s[n + 1] \in facts THEN Append(f[n], s[n + 1]) ELSE f[n]
    BY <1>2, <2>1
  <2>3. SUFFICES ASSUME Good(n) PROVE Good(n + 1)
    BY <1>4, <2>1
  <2>4. f[n + 1] \in Seq(S)
    BY <1>1, <2>1, <2>2, <2>3, AppendProperties
  <2>5. ASSUME s \in Seq(facts) PROVE f[n + 1] = SubSeq(s, 1, n + 1)
    <3>1. s[n + 1] \in facts
      BY <2>1, <2>5, ElementOfSeq
    <3>2. f[n + 1] = Append(SubSeq(s, 1, n), s[n + 1])
      BY <2>2, <2>3, <2>5, <3>1
    <3>3. SubSeq(s, 1, n + 1) = Append(SubSeq(s, 1, n), s[n + 1])
      BY <2>1, SubSeqRecursiveSecond
    <3> QED
      BY <3>2, <3>3
  <2> QED
    BY <2>4, <2>5
<1>5. T = {}
  <2>1. T \in SUBSET Nat /\ 0 \notin T
    BY <1>3
  <2> HIDE DEF T
  <2> QED
    BY <1>4, <2>1, NoCounterexample
<1>6. Good(Len(s))
  BY <1>1, <1>5
<1> QED
  BY <1>2, <1>6, SubSeqFull
-----------------------------------------------------------------------------
(* The inductive invariant.                                                *)

PartSaved(c, p) == /\ Parts[c][p].sources \in Seq(sources)
                   /\ Parts[c][p].facts \in Seq(facts)
Persisted(c) == CapsuleFacts(c) \in Seq(facts) /\ SourcesOf(c) \subseteq sources

\* What a build has saved at each of its steps.
BuildInv(c) ==
  LET step == writer[c][1]
      p    == writer[c][2]
  IN  /\ step \in {"sources", "facts"} => p \in DOMAIN Parts[c]
      /\ step \in {"sources", "facts"} =>
           \A q \in DOMAIN Parts[c] : q < p => PartSaved(c, q)
      /\ step = "facts" => Parts[c][p].sources \in Seq(sources)
      /\ step = "capsule" => \A q \in DOMAIN Parts[c] : PartSaved(c, q)
      /\ step \in {"sources", "facts", "capsule"} => ~ Present(c) /\ c \notin deleted
      /\ Present(c) \/ c \in deleted => Persisted(c)

\* What a load has read, and why it was answered as it was.
LoadInv(r) ==
  LET l == reader[r]
      c == l.capsule
  IN  /\ l.pc \in {"facts", "sources"} =>
           l.outcome = "none" /\ c \in Capsules /\ (Present(c) \/ c \in deleted)
      /\ l.pc = "sources" => l.rows = CapsuleFacts(c) \/ c \in deleted
      /\ l.outcome = "unverified" => c \in deleted
      /\ l.outcome = "verified" =>
           /\ c \in Capsules
           /\ \E srcs : RootsOf(l.rows, [i \in DOMAIN l.rows |-> ToSet(Cites[l.rows[i]])], srcs)
                          = BuildRoots[c]

IInv == /\ TypeOK
        /\ \A c \in Capsules : BuildInv(c)
        /\ \A r \in Readers : LoadInv(r)

\* Once every part is saved, so is the capsule.
LEMMA AllPersisted ==
  ASSUME NEW c \in Capsules, \A p \in DOMAIN Parts[c] : PartSaved(c, p)
  PROVE  Persisted(c)
<1>1. CapsuleFacts(c) \in Seq(facts)
  BY CapsuleFactsType DEF PartSaved
<1>2. ASSUME NEW p \in DOMAIN Parts[c] PROVE ToSet(Parts[c][p].sources) \subseteq sources
  BY ElementOfSeq, LenProperties DEF PartSaved, ToSet
<1> QED
  BY <1>1, <1>2 DEF Persisted, SourcesOf

\* The maps of rows only grow.
LEMMA Grow ==
  ASSUME sources \subseteq sources', facts \subseteq facts', NEW c \in Capsules
  PROVE  /\ \A p \in DOMAIN Parts[c] : PartSaved(c, p) => PartSaved(c, p)'
         /\ Persisted(c) => Persisted(c)'
<1>1. Seq(sources) \subseteq Seq(sources') /\ Seq(facts) \subseteq Seq(facts')
  BY SeqMonotonic
<1> QED
  BY <1>1 DEF PartSaved, Persisted

-----------------------------------------------------------------------------

LEMMA InitInv == Init => IInv
<1> SUFFICES ASSUME Init PROVE IInv
  OBVIOUS
<1>1. ASSUME NEW c \in Capsules
      PROVE  /\ writer[c] \in WriterSteps \X (Nat \ {0})
             /\ BuildInv(c)
  <2>1. writer[c] = PartStep(c, 1) /\ ~ Present(c) /\ c \notin deleted
    BY DEF Init, Present, Absent
  <2>2. \A q \in DOMAIN Parts[c] : q \in Nat /\ q >= 1 /\ 1 \in DOMAIN Parts[c]
    BY PartType
  <2>3. CASE 1 \in DOMAIN Parts[c]
    <3>1. writer[c] = <<"sources", 1>>
      BY <2>1, <2>3 DEF PartStep
    <3>2. writer[c][1] = "sources" /\ writer[c][2] = 1
      BY <3>1
    <3>3. \A q \in DOMAIN Parts[c] : ~ (q < 1)
      BY <2>2
    <3>4. BuildInv(c)
      BY <2>1, <2>3, <3>2, <3>3 DEF BuildInv
    <3>5. writer[c] \in WriterSteps \X (Nat \ {0})
      BY <3>1 DEF WriterSteps
    <3> QED
      BY <3>4, <3>5
  <2>4. CASE 1 \notin DOMAIN Parts[c]
    <3>1. writer[c] = <<"capsule", 1>>
      BY <2>1, <2>4 DEF PartStep
    <3>2. \A q \in DOMAIN Parts[c] : FALSE
      BY <2>2, <2>4
    <3>3. writer[c] \in WriterSteps \X (Nat \ {0})
      BY <3>1 DEF WriterSteps
    <3>4. writer[c][1] = "capsule"
      BY <3>1
    <3>5. BuildInv(c)
      BY <2>1, <3>2, <3>4 DEF BuildInv
    <3> QED
      BY <3>3, <3>5
  <2> QED
    BY <2>3, <2>4
<1>2. \A r \in Readers : LoadInv(r)
  BY DEF Init, LoadInv, IdleReader
<1>3. TypeOK
  <2>1. <<>> \in Seq(Facts)
    OBVIOUS
  <2>2. writer \in [Capsules -> WriterSteps \X (Nat \ {0})]
    BY <1>1 DEF Init
  <2> QED
    BY <2>1, <2>2 DEF Init, TypeOK, ReaderStates, IdleReader, Absent
<1> QED
  BY <1>1, <1>2, <1>3 DEF IInv

\* What a step of the build of c leaves alone.
LEMMA OtherBuilds ==
  ASSUME IInv, sources \subseteq sources', facts \subseteq facts',
         UNCHANGED deleted, NEW c \in Capsules,
         writer'[c] = writer[c], capsules'[c] = capsules[c]
  PROVE  BuildInv(c)'
<1>1. BuildInv(c) /\ writer[c] \in WriterSteps \X (Nat \ {0})
  BY DEF IInv, TypeOK
<1>2. /\ \A p \in DOMAIN Parts[c] : PartSaved(c, p) => PartSaved(c, p)'
      /\ Persisted(c) => Persisted(c)'
  BY Grow
<1>3. Present(c)' = Present(c)
  BY DEF Present
<1>4. Seq(sources) \subseteq Seq(sources')
  BY SeqMonotonic
<1> QED
  BY <1>1, <1>2, <1>3, <1>4 DEF BuildInv

\* Loads are not disturbed by a build.
LEMMA OtherLoads ==
  ASSUME IInv, UNCHANGED <<reader, deleted>>, NEW r \in Readers,
         \A c \in Capsules : Present(c) => Present(c)'
  PROVE  LoadInv(r)'
<1>1. LoadInv(r)
  BY DEF IInv
<1> QED
  BY <1>1 DEF LoadInv

LEMMA SaveSourceRecordsInv ==
  ASSUME IInv, NEW c \in Capsules, SaveSourceRecords(c)
  PROVE  IInv'
<1>0. PICK p : p = writer[c][2]
  OBVIOUS
<1>1. /\ TypeOK /\ BuildInv(c) /\ writer[c] \in WriterSteps \X (Nat \ {0})
      /\ writer[c][1] = "sources"
      /\ writer' = [writer EXCEPT ![c] = <<"facts", p>>]
      /\ sources' = sources \cup ToSet(Parts[c][p].sources)
      /\ UNCHANGED <<facts, capsules, now, cutoff, reader, deleted>>
  BY <1>0 DEF IInv, TypeOK, SaveSourceRecords
<1>2. p \in DOMAIN Parts[c] /\ p \in Nat \ {0}
  BY <1>0, <1>1 DEF BuildInv
<1>3. Parts[c][p].sources \in Seq(Sources)
  BY <1>2, PartType
<1> DEFINE new == Parts[c][p].sources
<1>4. ToSet(new) \subseteq Sources /\ new \in Seq(ToSet(new))
  <2> HIDE DEF new
  <2> QED
    BY <1>3, ElementOfSeq, LenProperties, SeqDef DEF new, ToSet
<1>5. new \in Seq(sources')
  <2>1. Seq(ToSet(new)) \subseteq Seq(sources')
    BY <1>1, SeqMonotonic
  <2> QED
    BY <1>4, <2>1
<1>6. TypeOK'
  <2>1. writer' \in [Capsules -> WriterSteps \X (Nat \ {0})]
    BY <1>1, <1>2 DEF TypeOK, WriterSteps
  <2>2. sources' \subseteq Sources
    BY <1>1, <1>4 DEF TypeOK
  <2> QED
    BY <1>1, <2>1, <2>2 DEF TypeOK
<1>7. ASSUME NEW d \in Capsules PROVE BuildInv(d)'
  <2>1. CASE d # c
    BY <1>1, <2>1, OtherBuilds DEF TypeOK
  <2>2. CASE d = c
    <3>1. writer'[c] = <<"facts", p>>
      BY <1>1 DEF TypeOK
    <3>2. /\ \A q \in DOMAIN Parts[c] : PartSaved(c, q) => PartSaved(c, q)'
          /\ Persisted(c) => Persisted(c)'
      BY <1>1, Grow
    <3>3. \A q \in DOMAIN Parts[c] : q < p => PartSaved(c, q)'
      BY <1>0, <1>1, <3>2 DEF BuildInv
    <3>4. ~ Present(c)' /\ c \notin deleted'
      BY <1>1 DEF BuildInv, Present
    <3> QED
      BY <1>2, <1>5, <2>2, <3>1, <3>3, <3>4 DEF BuildInv
  <2> QED
    BY <2>1, <2>2
<1>8. \A r \in Readers : LoadInv(r)'
  BY <1>1, OtherLoads DEF Present
<1> QED
  BY <1>6, <1>7, <1>8 DEF IInv

LEMMA SaveFactsInv ==
  ASSUME IInv, NEW c \in Capsules, SaveFacts(c)
  PROVE  IInv'
<1>0. PICK p : p = writer[c][2]
  OBVIOUS
<1>1. /\ TypeOK /\ BuildInv(c) /\ writer[c] \in WriterSteps \X (Nat \ {0})
      /\ writer[c][1] = "facts"
      /\ writer' = [writer EXCEPT ![c] = PartStep(c, p + 1)]
      /\ facts' = facts \cup ToSet(Parts[c][p].facts)
      /\ UNCHANGED <<sources, capsules, now, cutoff, reader, deleted>>
  BY <1>0 DEF IInv, TypeOK, SaveFacts
<1>2. p \in DOMAIN Parts[c] /\ p \in Nat \ {0} /\ Parts[c][p].sources \in Seq(sources)
  BY <1>0, <1>1 DEF BuildInv
<1>3. Parts[c][p].facts \in Seq(Facts)
  BY <1>2, PartType
<1> DEFINE new == Parts[c][p].facts
<1>4. ToSet(new) \subseteq Facts /\ new \in Seq(ToSet(new))
  <2> HIDE DEF new
  <2> QED
    BY <1>3, ElementOfSeq, LenProperties, SeqDef DEF new, ToSet
<1>5. new \in Seq(facts')
  <2>1. Seq(ToSet(new)) \subseteq Seq(facts')
    BY <1>1, SeqMonotonic
  <2> QED
    BY <1>4, <2>1
<1>6. writer'[c] = PartStep(c, p + 1) /\ PartStep(c, p + 1) \in WriterSteps \X (Nat \ {0})
  BY <1>1, <1>2 DEF TypeOK, PartStep, WriterSteps
<1>7. TypeOK'
  <2>1. writer' \in [Capsules -> WriterSteps \X (Nat \ {0})]
    BY <1>1, <1>6 DEF TypeOK
  <2>2. facts' \subseteq Facts
    BY <1>1, <1>4 DEF TypeOK
  <2> QED
    BY <1>1, <2>1, <2>2 DEF TypeOK
<1>8. ASSUME NEW d \in Capsules PROVE BuildInv(d)'
  <2>1. CASE d # c
    BY <1>1, <2>1, OtherBuilds DEF TypeOK
  <2>2. CASE d = c
    <3>1. /\ \A q \in DOMAIN Parts[c] : PartSaved(c, q) => PartSaved(c, q)'
          /\ DOMAIN Parts[c] = 1..Len(Parts[c]) /\ Len(Parts[c]) \in Nat
      BY <1>1, Grow, PartType
    <3>2. PartSaved(c, p)'
      BY <1>1, <1>2, <1>5 DEF PartSaved
    <3>3. ASSUME NEW q \in DOMAIN Parts[c], q < p + 1 PROVE PartSaved(c, q)'
      <4>1. q < p \/ q = p
        BY <1>2, <3>1, <3>3
      <4> QED
        BY <1>0, <1>1, <3>1, <3>2, <4>1 DEF BuildInv
    <3>4. ~ Present(c)' /\ c \notin deleted'
      BY <1>1 DEF BuildInv, Present
    <3>5. CASE p + 1 \in DOMAIN Parts[c]
      <4>1. writer'[c] = <<"sources", p + 1>>
        BY <1>6, <3>5 DEF PartStep
      <4> QED
        BY <2>2, <3>3, <3>4, <3>5, <4>1 DEF BuildInv
    <3>6. CASE p + 1 \notin DOMAIN Parts[c]
      <4>1. writer'[c] = <<"capsule", p + 1>>
        BY <1>6, <3>6 DEF PartStep
      <4>2. \A q \in DOMAIN Parts[c] : q < p + 1
        BY <1>2, <3>1, <3>6
      <4> QED
        BY <2>2, <3>3, <3>4, <4>1, <4>2 DEF BuildInv
    <3> QED
      BY <3>5, <3>6
  <2> QED
    BY <2>1, <2>2
<1>9. \A r \in Readers : LoadInv(r)'
  BY <1>1, OtherLoads DEF Present
<1> QED
  BY <1>7, <1>8, <1>9 DEF IInv

LEMMA SaveCapsuleInv ==
  ASSUME IInv, NEW c \in Capsules, SaveCapsule(c)
  PROVE  IInv'
<1>1. /\ TypeOK /\ BuildInv(c) /\ writer[c][1] = "capsule"
      /\ UNCHANGED <<sources, facts, cutoff, reader, deleted>>
  BY DEF IInv, SaveCapsule
<1>2. ~ Present(c) /\ c \notin deleted /\ \A q \in DOMAIN Parts[c] : PartSaved(c, q)
  BY <1>1 DEF BuildInv
<1>3. CASE BuildThrows(c)
  <2>1. /\ writer' = [writer EXCEPT ![c] = <<"failed", 1>>]
        /\ UNCHANGED <<capsules, now>>
    BY <1>3 DEF SaveCapsule
  <2>2. TypeOK'
    BY <1>1, <2>1 DEF TypeOK, WriterSteps
  <2>3. ASSUME NEW d \in Capsules PROVE BuildInv(d)'
    <3>1. CASE d # c
      BY <1>1, <2>1, <3>1, OtherBuilds DEF TypeOK
    <3>2. CASE d = c
      <4>1. writer'[c] = <<"failed", 1>>
        BY <1>1, <2>1 DEF TypeOK
      <4>2. ~ Present(c)' /\ c \notin deleted'
        BY <1>1, <1>2, <2>1 DEF Present
      <4> QED
        BY <3>2, <4>1, <4>2 DEF BuildInv
    <3> QED
      BY <3>1, <3>2
  <2>4. \A r \in Readers : LoadInv(r)'
    BY <1>1, <2>1, OtherLoads DEF Present
  <2> QED
    BY <2>2, <2>3, <2>4 DEF IInv
<1>4. CASE ~ BuildThrows(c)
  <2>1. /\ writer' = [writer EXCEPT ![c] = <<"saved", 1>>]
        /\ capsules' = [capsules EXCEPT ![c] = now]
        /\ now' = now + 1
    BY <1>4 DEF SaveCapsule, CreatedAt
  <2>2. TypeOK'
    <3>1. writer' \in [Capsules -> WriterSteps \X (Nat \ {0})]
      BY <1>1, <2>1 DEF TypeOK, WriterSteps
    <3>2. now \in Nat /\ now' \in Nat /\ now \in 0..(now' - 1) /\ 0..(now - 1) \subseteq 0..(now' - 1)
      BY <1>1, <2>1 DEF TypeOK
    <3>3. capsules' \in [Capsules -> {Absent} \cup 0..(now' - 1)]
      BY <1>1, <2>1, <3>2 DEF TypeOK
    <3>4. cutoff' \in 0..now'
      BY <1>1, <2>1 DEF TypeOK
    <3> QED
      BY <1>1, <3>1, <3>2, <3>3, <3>4 DEF TypeOK
  <2>3. ASSUME NEW d \in Capsules PROVE BuildInv(d)'
    <3>1. CASE d # c
      BY <1>1, <2>1, <3>1, OtherBuilds DEF TypeOK
    <3>2. CASE d = c
      <4>1. writer'[c] = <<"saved", 1>>
        BY <1>1, <2>1 DEF TypeOK
      <4>2. Persisted(c)'
        BY <1>1, <1>2, AllPersisted, Grow
      <4> QED
        BY <3>2, <4>1, <4>2 DEF BuildInv
    <3> QED
      BY <3>1, <3>2
  <2>4. \A d \in Capsules : Present(d) => Present(d)'
    BY <1>1, <1>2, <2>1 DEF TypeOK, Present
  <2>5. \A r \in Readers : LoadInv(r)'
    BY <1>1, <2>4, OtherLoads
  <2> QED
    BY <2>2, <2>3, <2>5 DEF IInv
<1> QED
  BY <1>3, <1>4

LEMMA AbortInv ==
  ASSUME IInv, NEW c \in Capsules, Abort(c)
  PROVE  IInv'
<1>1. /\ TypeOK /\ BuildInv(c) /\ writer[c] \in WriterSteps \X (Nat \ {0})
      /\ writer[c][1] \notin {"saved", "failed"}
      /\ writer' = [writer EXCEPT ![c] = <<"failed", 1>>]
      /\ UNCHANGED <<sources, facts, capsules, now, cutoff, reader, deleted>>
  BY DEF IInv, TypeOK, Abort
<1>2. TypeOK'
  BY <1>1 DEF TypeOK, WriterSteps
<1>3. ASSUME NEW d \in Capsules PROVE BuildInv(d)'
  <2>1. CASE d # c
    BY <1>1, <2>1, OtherBuilds DEF TypeOK
  <2>2. CASE d = c
    <3>1. writer'[c] = <<"failed", 1>>
      BY <1>1 DEF TypeOK
    <3>2. ~ Present(c)' /\ c \notin deleted'
      BY <1>1 DEF BuildInv, Present, WriterSteps
    <3> QED
      BY <2>2, <3>1, <3>2 DEF BuildInv
  <2> QED
    BY <2>1, <2>2
<1>4. \A r \in Readers : LoadInv(r)'
  BY <1>1, OtherLoads DEF Present
<1> QED
  BY <1>2, <1>3, <1>4 DEF IInv

LEMMA CleanupInv ==
  ASSUME IInv, TimePasses \/ DeleteCapsulesOlderThan
  PROVE  IInv'
<1>1. TypeOK /\ UNCHANGED <<sources, facts, now, writer, reader>>
  BY DEF IInv, TimePasses, DeleteCapsulesOlderThan
<1>2. CASE TimePasses
  <2>1. cutoff < now /\ cutoff' = cutoff + 1 /\ UNCHANGED <<capsules, deleted>>
    BY <1>2 DEF TimePasses
  <2>2. TypeOK'
    BY <1>1, <2>1 DEF TypeOK
  <2>3. \A c \in Capsules : BuildInv(c)'
    BY <1>1, <2>1, OtherBuilds
  <2>4. \A r \in Readers : LoadInv(r)'
    BY <1>1, <2>1, OtherLoads DEF Present
  <2> QED
    BY <2>2, <2>3, <2>4 DEF IInv
<1>3. CASE DeleteCapsulesOlderThan
  <2> DEFINE expired == {c \in Capsules : Present(c) /\ capsules[c] < cutoff}
  <2>1. /\ capsules' = [c \in Capsules |-> IF c \in expired THEN Absent ELSE capsules[c]]
        /\ deleted' = deleted \cup expired
        /\ UNCHANGED cutoff
    BY <1>3 DEF DeleteCapsulesOlderThan
  <2>2. TypeOK'
    BY <1>1, <2>1 DEF TypeOK
  <2>3. \A c \in Capsules : /\ Present(c)' => Present(c)
                            /\ Present(c) => Present(c)' \/ c \in deleted'
                            /\ c \in deleted => c \in deleted'
                            /\ c \in deleted' => c \in deleted \/ Present(c)
    BY <2>1 DEF Present
  <2>4. ASSUME NEW c \in Capsules PROVE BuildInv(c)'
    <3>1. BuildInv(c)
      BY DEF IInv
    <3>2. /\ \A p \in DOMAIN Parts[c] : PartSaved(c, p)' = PartSaved(c, p)
          /\ Persisted(c)' = Persisted(c)
      BY <1>1 DEF PartSaved, Persisted
    <3> QED
      BY <1>1, <2>3, <3>1, <3>2 DEF BuildInv
  <2>5. ASSUME NEW r \in Readers PROVE LoadInv(r)'
    <3>1. LoadInv(r)
      BY DEF IInv
    <3>2. \A x : x \in deleted => x \in deleted'
      BY <2>1
    <3> QED
      BY <1>1, <2>3, <3>1, <3>2 DEF LoadInv
  <2> QED
    BY <2>2, <2>4, <2>5 DEF IInv
<1> QED
  BY <1>2, <1>3

\* A load of a capsule that is still there, over its own rows, is verified.
LEMMA CompleteIsVerified ==
  ASSUME NEW c \in Capsules
  PROVE  LET rows == CapsuleFacts(c) IN
         VerifyCapsule(BuildRoots[c], rows, [i \in DOMAIN rows |-> ToSet(Cites[rows[i]])],
                       SourcesOf(c))
<1> DEFINE rows == CapsuleFacts(c)
           cited == [i \in DOMAIN rows |-> ToSet(Cites[rows[i]])]
<1>1. BuildRoots[c] = RootsOf(rows, cited, SourcesOf(c))
  BY DEF BuildRoots
<1> HIDE DEF rows, cited
<1>2. VerifyCapsule(BuildRoots[c], rows, cited, SourcesOf(c))
  BY <1>1 DEF VerifyCapsule
<1> QED
  BY <1>2 DEF rows, cited

LEMMA LoadSteps ==
  ASSUME IInv, NEW r \in Readers, Load(r) \/ \E c \in Capsules : GetCapsule(r, c)
  PROVE  IInv'
<1>1. /\ TypeOK /\ LoadInv(r) /\ reader[r] \in ReaderStates
      /\ UNCHANGED <<sources, facts, capsules, now, cutoff, writer, deleted>>
  BY DEF IInv, TypeOK, Load, GetCapsule, GetCapsuleFacts, VerifyLoaded
<1>2. \A c \in Capsules : BuildInv(c)'
  BY <1>1, OtherBuilds
<1>3. /\ reader' = [q \in Readers |-> reader'[q]]
      /\ \A q \in Readers : q # r => reader'[q] = reader[q]
  BY <1>1 DEF TypeOK, Load, GetCapsule, GetCapsuleFacts, VerifyLoaded
<1>4. ASSUME reader'[r] \in ReaderStates, LoadInv(r)' PROVE IInv'
  <2>1. TypeOK'
    <3>1. \A q \in Readers : reader'[q] \in ReaderStates
      BY <1>1, <1>3, <1>4 DEF TypeOK
    <3>2. reader' \in [Readers -> ReaderStates]
      BY <1>3, <3>1
    <3> QED
      BY <1>1, <3>2 DEF TypeOK, ReaderStates
  <2>2. ASSUME NEW q \in Readers PROVE LoadInv(q)'
    <3>1. CASE q # r
      <4>1. reader'[q] = reader[q] /\ LoadInv(q)
        BY <1>3, <3>1 DEF IInv
      <4> QED
        BY <1>1, <4>1 DEF LoadInv, Present
    <3> QED
      BY <1>4, <3>1
  <2> QED
    BY <1>2, <2>1, <2>2 DEF IInv
<1>5. ASSUME NEW c \in Capsules, GetCapsule(r, c) PROVE IInv'
  <2>1. CASE Present(c)
    <3>1. reader'[r] = [pc |-> "facts", capsule |-> c, rows |-> <<>>, outcome |-> "none"]
      BY <1>1, <1>5, <2>1 DEF GetCapsule, IdleReader, TypeOK
    <3>2. LoadInv(r)'
      BY <1>1, <2>1, <3>1 DEF LoadInv, Present
    <3> QED
      BY <1>4, <3>1, <3>2 DEF ReaderStates
  <2>2. CASE ~ Present(c)
    <3>1. reader'[r] = [pc |-> "done", capsule |-> c, rows |-> <<>>, outcome |-> "not_found"]
      BY <1>1, <1>5, <2>2 DEF GetCapsule, IdleReader, TypeOK
    <3>2. LoadInv(r)'
      BY <3>1 DEF LoadInv
    <3> QED
      BY <1>4, <3>1, <3>2 DEF ReaderStates
  <2> QED
    BY <2>1, <2>2
<1>6. CASE GetCapsuleFacts(r)
  <2>0. PICK c, rows : c = reader[r].capsule /\ rows = CapsuleRows(c)
    OBVIOUS
  <2>1. /\ reader[r].pc = "facts"
        /\ reader'[r].pc = "sources" /\ reader'[r].capsule = c
        /\ reader'[r].rows = rows /\ reader'[r].outcome = reader[r].outcome
    BY <1>1, <1>6, <2>0 DEF GetCapsuleFacts, TypeOK, ReaderStates
  <2>2. c \in Capsules /\ reader[r].outcome = "none" /\ (Present(c) \/ c \in deleted)
    BY <1>1, <2>0, <2>1 DEF LoadInv
  <2>3. rows \in Seq(Facts)
    <3>1. CapsuleFacts(c) \in Seq(Facts)
      BY <2>2, PartType, CapsuleFactsType
    <3> QED
      BY <2>0, <3>1, StoredRowsOf DEF CapsuleRows
  <2>4. rows = CapsuleFacts(c) \/ c \in deleted
    <3>1. SUFFICES ASSUME Present(c) PROVE rows = CapsuleFacts(c)
      BY <2>2
    <3>2. CapsuleFacts(c) \in Seq(facts)
      BY <2>2, <3>1 DEF IInv, BuildInv, Persisted
    <3> QED
      BY <2>0, <3>1, <3>2, StoredRowsOf DEF CapsuleRows
  <2>5. reader'[r] \in ReaderStates
    <3>1. reader'[r] = [[reader[r] EXCEPT !.pc = "sources"] EXCEPT !.rows = rows]
      BY <1>1, <1>6, <2>0 DEF GetCapsuleFacts, TypeOK, ReaderStates
    <3> QED
      BY <1>1, <2>3, <3>1 DEF ReaderStates
  <2>6. LoadInv(r)'
    BY <1>1, <2>1, <2>2, <2>4 DEF LoadInv, Present
  <2> QED
    BY <1>4, <2>5, <2>6
<1>7. CASE VerifyLoaded(r)
  <2> DEFINE Cited(rows) == [i \in DOMAIN rows |-> ToSet(Cites[rows[i]])]
  <2>0. PICK c, rows, srcs, accepted :
          /\ c = reader[r].capsule /\ rows = reader[r].rows /\ srcs = CapsuleRecords(c)
          /\ accepted = IF VerifyCapsule(BuildRoots[c], rows, Cited(rows), srcs)
                        THEN "verified" ELSE "unverified"
    OBVIOUS
  <2>1. /\ reader[r].pc = "sources"
        /\ reader'[r] = [[reader[r] EXCEPT !.pc = "done"] EXCEPT !.outcome = accepted]
    BY <1>1, <1>7, <2>0 DEF VerifyLoaded, TypeOK, ReaderStates
  <2>2. /\ c \in Capsules /\ (Present(c) \/ c \in deleted)
        /\ rows = CapsuleFacts(c) \/ c \in deleted
    BY <1>1, <2>0, <2>1 DEF LoadInv
  <2>3. c \notin deleted => accepted = "verified"
    <3>1. SUFFICES ASSUME c \notin deleted PROVE accepted = "verified"
      OBVIOUS
    <3>2. Present(c) /\ rows = CapsuleFacts(c)
      BY <2>2, <3>1
    <3>3. SourcesOf(c) \subseteq sources
      BY <2>2, <3>2 DEF IInv, BuildInv, Persisted
    <3>4. srcs = SourcesOf(c)
      BY <2>0, <3>2, <3>3 DEF CapsuleRecords
    <3>5. VerifyCapsule(BuildRoots[c], rows, Cited(rows), srcs)
      BY <2>2, <3>2, <3>4, CompleteIsVerified
    <3> HIDE DEF Cited
    <3> QED
      BY <2>0, <3>5
  <2>4. accepted = "verified" => RootsOf(rows, Cited(rows), srcs) = BuildRoots[c]
    <3> HIDE DEF Cited
    <3> QED
      BY <2>0 DEF VerifyCapsule
  <2>5. accepted \in {"verified", "unverified"}
    <3> HIDE DEF Cited
    <3> QED
      BY <2>0
  <2>6. reader'[r] \in ReaderStates
    BY <1>1, <2>1, <2>5 DEF ReaderStates
  <2>7. LoadInv(r)'
    <3>1. /\ reader'[r].pc = "done" /\ reader'[r].capsule = c /\ reader'[r].rows = rows
          /\ reader'[r].outcome = accepted
      BY <1>1, <2>0, <2>1 DEF ReaderStates
    <3> QED
      BY <1>1, <2>2, <2>3, <2>4, <3>1 DEF LoadInv
  <2> QED
    BY <1>4, <2>6, <2>7
<1> QED
  BY <1>5, <1>6, <1>7 DEF Load

LEMMA Invariance == Spec => []IInv
<1>1. IInv /\ [Next]_vars => IInv'
  <2> SUFFICES ASSUME IInv, [Next]_vars PROVE IInv'
    OBVIOUS
  <2>1. ASSUME NEW c \in Capsules, Write(c) \/ Abort(c) PROVE IInv'
    BY <2>1, SaveSourceRecordsInv, SaveFactsInv, SaveCapsuleInv, AbortInv DEF Write
  <2>2. ASSUME NEW r \in Readers, Load(r) \/ \E c \in Capsules : GetCapsule(r, c)
        PROVE  IInv'
    BY <2>2, LoadSteps
  <2>3. CASE TimePasses \/ DeleteCapsulesOlderThan
    BY <2>3, CleanupInv
  <2>4. CASE UNCHANGED vars
    <3>1. TypeOK'
      BY <2>4 DEF IInv, TypeOK, vars
    <3>2. \A c \in Capsules : BuildInv(c)'
      BY <2>4, OtherBuilds DEF vars
    <3>3. \A r \in Readers : LoadInv(r)'
      BY <2>4, OtherLoads DEF vars, Present
    <3> QED
      BY <3>1, <3>2, <3>3 DEF IInv
  <2> QED
    BY <2>1, <2>2, <2>3, <2>4 DEF Next
<1> QED
  BY InitInv, <1>1, PTL DEF Spec
-----------------------------------------------------------------------------

\* The maps, the builds and the loads have their types.
THEOREM TypeCorrect == Spec => []TypeOK
<1>1. IInv => TypeOK
  BY DEF IInv
<1> QED
  BY Invariance, <1>1, PTL

\* A capsule that is never deleted is never refused: whatever is saved or
\* deleted between the reads of a load, its rows come back complete and in the
\* order they were committed in (memory.ts getCapsuleFacts).
THEOREM CompleteReplays == Spec => []CompleteCapsuleReplays
<1>1. IInv => CompleteCapsuleReplays
  BY DEF IInv, LoadInv, CompleteCapsuleReplays
<1> QED
  BY Invariance, <1>1, PTL
-----------------------------------------------------------------------------
(* The maps implement CapsuleRegistry.                                     *)

\* Rows whose roots are a capsule's roots are the capsule's content.
LEMMA AcceptedContent ==
  ASSUME NEW c \in Capsules, NEW rows, NEW srcs,
         RootsOf(rows, [i \in DOMAIN rows |-> ToSet(Cites[rows[i]])], srcs) = BuildRoots[c]
  PROVE  {<<f, ToSet(Cites[f])>> : f \in ToSet(rows)} = CapsuleContent[c]
<1> DEFINE g == CapsuleFacts(c)
           Cited(s) == [i \in DOMAIN s |-> ToSet(Cites[s[i]])]
<1>1. BuildRoots[c] = RootsOf(g, Cited(g), SourcesOf(c))
  BY DEF BuildRoots
<1>2. SemanticLeaves(rows, Cited(rows)) = SemanticLeaves(g, Cited(g))
  BY <1>1 DEF RootsOf
<1> HIDE DEF g
<1>3. ASSUME NEW s
      PROVE  SemanticLeaves(s, Cited(s)) = {<<f, ToSet(Cites[f])>> : f \in ToSet(s)}
  BY DEF SemanticLeaves, ToSet
<1> HIDE DEF Cited
<1>4. {<<f, ToSet(Cites[f])>> : f \in ToSet(rows)} = {<<f, ToSet(Cites[f])>> : f \in ToSet(g)}
  BY <1>2, <1>3
<1> QED
  BY <1>4 DEF CapsuleContent, g

LEMMA RegistryInit == Init => Registry!Init
<1> SUFFICES ASSUME Init PROVE Registry!Init
  OBVIOUS
<1>1. RegistryStatus = [c \in Capsules |-> "unpublished"]
  BY DEF RegistryStatus, Init, Present
<1>2. RegistryReply = [r \in Readers |->
                         [state |-> "idle", capsule |-> NoCapsule, content |-> {}]]
  BY DEF RegistryReply, Init, IdleReader
<1> QED
  BY <1>1, <1>2 DEF Registry!Init, Registry!Idle

\* Steps of builds and of cleanup.
LEMMA StatusStep ==
  ASSUME IInv, UNCHANGED reader,
         \/ UNCHANGED <<capsules, deleted>>
         \/ \E c \in Capsules : SaveCapsule(c)
         \/ DeleteCapsulesOlderThan
  PROVE  [Registry!Next]_(Registry!vars)
<1>1. UNCHANGED RegistryReply
  BY DEF RegistryReply
<1>2. CASE UNCHANGED <<capsules, deleted>>
  <2>1. UNCHANGED RegistryStatus
    BY <1>2 DEF RegistryStatus, Present
  <2> QED
    BY <1>1, <2>1 DEF Registry!vars
<1>3. ASSUME NEW c \in Capsules, SaveCapsule(c), ~ UNCHANGED capsules
      PROVE  Registry!Publish(c)
  <2>1. TypeOK /\ ~ Present(c) /\ c \notin deleted
    BY <1>3 DEF IInv, BuildInv, SaveCapsule
  <2>2. capsules' = [capsules EXCEPT ![c] = now] /\ deleted' = deleted
    BY <1>3 DEF SaveCapsule, CreatedAt
  <2>3. Present(c)' /\ \A d \in Capsules : d # c => Present(d)' = Present(d)
    BY <2>1, <2>2 DEF TypeOK, Present, Absent
  <2>4. RegistryStatus[c] = "unpublished"
    BY <2>1 DEF RegistryStatus
  <2>5. RegistryStatus' = [RegistryStatus EXCEPT ![c] = "published"]
    BY <2>2, <2>3 DEF RegistryStatus
  <2> QED
    BY <1>1, <2>4, <2>5 DEF Registry!Publish
<1>4. ASSUME NEW c \in Capsules, SaveCapsule(c), UNCHANGED capsules
      PROVE  UNCHANGED <<capsules, deleted>>
  BY <1>4 DEF SaveCapsule
<1>5. CASE DeleteCapsulesOlderThan
  <2> DEFINE gone == {c \in Capsules : Present(c) /\ capsules[c] < cutoff}
  <2>1. /\ gone # {} /\ deleted' = deleted \cup gone
        /\ capsules' = [c \in Capsules |-> IF c \in gone THEN Absent ELSE capsules[c]]
    BY <1>5 DEF DeleteCapsulesOlderThan
  <2>2. gone \in (SUBSET {c \in Capsules : RegistryStatus[c] = "published"}) \ {{}}
    BY <2>1 DEF RegistryStatus
  <2> HIDE DEF gone
  <2>3. \A c \in Capsules : Present(c)' = (Present(c) /\ c \notin gone)
    BY <2>1 DEF Present
  <2>4. RegistryStatus' = [c \in Capsules |-> IF c \in gone THEN "retired" ELSE RegistryStatus[c]]
    BY <2>1, <2>3 DEF RegistryStatus
  <2> QED
    BY <1>1, <2>2, <2>4 DEF Registry!Next, Registry!Retire
<1> QED
  BY <1>2, <1>3, <1>4, <1>5 DEF Registry!Next

\* Steps of a load.
LEMMA ReplyStep ==
  ASSUME IInv, IInv', NEW r \in Readers, Load(r) \/ \E c \in Capsules : GetCapsule(r, c)
  PROVE  [Registry!Next]_(Registry!vars)
<1> DEFINE Reply(l) ==
      [state   |-> IF l.pc = "idle" THEN "idle"
                   ELSE IF l.pc = "done" THEN l.outcome ELSE "pending",
       capsule |-> l.capsule,
       content |-> IF l.outcome # "verified" THEN {}
                   ELSE {<<f, ToSet(Cites[f])>> : f \in ToSet(l.rows)}]
<1>1. UNCHANGED RegistryStatus
  BY DEF Load, GetCapsule, GetCapsuleFacts, VerifyLoaded, RegistryStatus, Present
<1>2. \A q \in Readers : q # r => reader'[q] = reader[q]
  BY DEF IInv, TypeOK, Load, GetCapsule, GetCapsuleFacts, VerifyLoaded
<1>3. /\ TypeOK /\ LoadInv(r) /\ LoadInv(r)'
      /\ reader[r] \in ReaderStates /\ reader'[r] \in ReaderStates
  BY DEF IInv, TypeOK, ReaderStates
<1>4. RegistryReply[r] = Reply(reader[r])
  BY DEF RegistryReply
<1>5. RegistryReply' = [RegistryReply EXCEPT ![r] = Reply(reader'[r])]
  BY <1>2, <1>4, ZenonT(30) DEF RegistryReply
<1>6. \A l \in ReaderStates :
        /\ l.pc \in {"facts", "sources"} /\ l.outcome = "none" =>
             Reply(l) = [state |-> "pending", capsule |-> l.capsule, content |-> {}]
        /\ l.pc = "done" /\ l.outcome # "verified" =>
             Reply(l) = [state |-> l.outcome, capsule |-> l.capsule, content |-> {}]
        /\ l.pc \in {"idle", "done"} => Reply(l).state # "pending"
  BY DEF ReaderStates
<1>7. \A l : l.pc = "done" /\ l.outcome = "verified" =>
        Reply(l) = [state |-> "verified", capsule |-> l.capsule,
                    content |-> {<<f, ToSet(Cites[f])>> : f \in ToSet(l.rows)}]
  OBVIOUS
<1> HIDE DEF Reply
<1>8. ASSUME NEW c \in Capsules, GetCapsule(r, c) PROVE Registry!Request(r, c)
  <2>1. RegistryReply[r].state # "pending"
    BY <1>3, <1>4, <1>6, <1>8 DEF GetCapsule
  <2>2. CASE Present(c)
    <3>1. reader'[r].pc = "facts" /\ reader'[r].outcome = "none" /\ reader'[r].capsule = c
      BY <1>3, <1>8, <2>2 DEF GetCapsule, IdleReader, TypeOK
    <3>2. Reply(reader'[r]) = [state |-> "pending", capsule |-> c, content |-> {}]
      BY <1>3, <1>6, <3>1
    <3>3. RegistryStatus[c] = "published"
      BY <2>2 DEF RegistryStatus
    <3> QED
      BY <1>1, <1>5, <2>1, <3>2, <3>3 DEF Registry!Request
  <2>3. CASE ~ Present(c)
    <3>1. /\ reader'[r].pc = "done" /\ reader'[r].outcome = "not_found"
          /\ reader'[r].capsule = c
      BY <1>3, <1>8, <2>3 DEF GetCapsule, IdleReader, TypeOK
    <3>2. Reply(reader'[r]) = [state |-> "not_found", capsule |-> c, content |-> {}]
      BY <1>3, <1>6, <3>1
    <3>3. RegistryStatus[c] # "published"
      BY <2>3 DEF RegistryStatus
    <3> QED
      BY <1>1, <1>5, <2>1, <3>2, <3>3 DEF Registry!Request
  <2> QED
    BY <2>2, <2>3
<1>9. CASE GetCapsuleFacts(r)
  <2>1. /\ reader[r].pc = "facts" /\ reader'[r].pc = "sources"
        /\ reader'[r].capsule = reader[r].capsule
        /\ reader'[r].outcome = reader[r].outcome
    BY <1>3, <1>9 DEF GetCapsuleFacts, TypeOK, ReaderStates
  <2>2. reader[r].outcome = "none"
    BY <1>3, <2>1 DEF LoadInv
  <2>3. Reply(reader'[r]) = RegistryReply[r]
    BY <1>3, <1>4, <1>6, <2>1, <2>2
  <2>4. UNCHANGED RegistryReply
    BY <1>5, <2>3 DEF RegistryReply
  <2> QED
    BY <1>1, <2>4 DEF Registry!vars
<1>10. CASE VerifyLoaded(r)
  <2>0. PICK c : c = reader[r].capsule
    OBVIOUS
  <2>1. /\ reader[r].pc = "sources" /\ reader'[r].pc = "done"
        /\ reader'[r].capsule = c /\ reader'[r].outcome \in {"verified", "unverified"}
    BY <1>3, <1>10, <2>0 DEF VerifyLoaded, TypeOK, ReaderStates
  <2>2. RegistryReply[r] = [state |-> "pending", capsule |-> c, content |-> {}]
    BY <1>3, <1>4, <1>6, <2>0, <2>1 DEF LoadInv
  <2>3. CASE reader'[r].outcome = "verified"
    <3>1. {<<f, ToSet(Cites[f])>> : f \in ToSet(reader'[r].rows)} = CapsuleContent[c]
      <4>1. PICK rows, srcs :
              /\ rows = reader'[r].rows /\ c \in Capsules
              /\ RootsOf(rows, [i \in DOMAIN rows |-> ToSet(Cites[rows[i]])], srcs) = BuildRoots[c]
        BY <1>3, <2>1, <2>3 DEF LoadInv
      <4> QED
        BY <4>1, AcceptedContent
    <3>2. Reply(reader'[r]) = [state |-> "verified", capsule |-> c, content |-> CapsuleContent[c]]
      BY <1>7, <2>1, <2>3, <3>1
    <3>3. Registry!Answer(r)
      BY <1>1, <1>5, <2>2, <3>2 DEF Registry!Answer
    <3> QED
      BY <3>3 DEF Registry!Next
  <2>4. CASE reader'[r].outcome = "unverified"
    <3>1. Reply(reader'[r]) = [state |-> "unverified", capsule |-> c, content |-> {}]
      BY <1>3, <1>6, <2>1, <2>4
    <3>2. Registry!Answer(r)
      BY <1>1, <1>5, <2>2, <3>1 DEF Registry!Answer
    <3> QED
      BY <3>2 DEF Registry!Next
  <2> QED
    BY <2>1, <2>3, <2>4
<1> QED
  BY <1>8, <1>9, <1>10 DEF Load, Registry!Next

\* Every behaviour of the maps is one of the registry: the saveCapsule that
\* does not throw publishes, a cleanup retires, the first read of a load asks,
\* its last answers with exactly the capsule's content or refuses.
THEOREM MapsImplementRegistry == Spec => ImplementsRegistry
<1>1. IInv /\ IInv' /\ [Next]_vars => [Registry!Next]_(Registry!vars)
  <2> SUFFICES ASSUME IInv, IInv', [Next]_vars
               PROVE  [Registry!Next]_(Registry!vars)
    OBVIOUS
  <2>1. ASSUME NEW r \in Readers, Load(r) \/ \E c \in Capsules : GetCapsule(r, c)
        PROVE  [Registry!Next]_(Registry!vars)
    BY <2>1, ReplyStep
  <2>2. ASSUME NEW c \in Capsules, SaveSourceRecords(c) \/ SaveFacts(c) \/ Abort(c)
        PROVE  [Registry!Next]_(Registry!vars)
    <3>1. UNCHANGED <<reader, capsules, deleted>>
      BY <2>2 DEF SaveSourceRecords, SaveFacts, Abort
    <3> QED
      BY <3>1, StatusStep
  <2>3. ASSUME NEW c \in Capsules, SaveCapsule(c) PROVE [Registry!Next]_(Registry!vars)
    <3>1. UNCHANGED reader
      BY <2>3 DEF SaveCapsule
    <3> QED
      BY <2>3, <3>1, StatusStep
  <2>4. CASE TimePasses \/ UNCHANGED vars
    <3>1. UNCHANGED <<reader, capsules, deleted>>
      BY <2>4 DEF TimePasses, vars
    <3> QED
      BY <3>1, StatusStep
  <2>5. CASE DeleteCapsulesOlderThan
    <3>1. UNCHANGED reader
      BY <2>5 DEF DeleteCapsulesOlderThan
    <3> QED
      BY <2>5, <3>1, StatusStep
  <2> QED
    BY <2>1, <2>2, <2>3, <2>4, <2>5 DEF Next, Write
<1> QED
  BY RegistryInit, Invariance, <1>1, PTL DEF Spec, ImplementsRegistry, Registry!Spec

=============================================================================
