------------------------- MODULE MemoryCapsuleStore -------------------------
(***************************************************************************)
(* The same builds, loads and cleanup over MemoryStore                     *)
(* (packages/store/src/memory.ts), which PgStore's users are promised has  *)
(* "same semantics".  Three things differ: a save is one step however many *)
(* rows it has, a capsule's rows come back in the order of its id lists,   *)
(* and the lists themselves live in the capsule, so both row reads return  *)
(* nothing once the capsule is deleted.                                    *)
(***************************************************************************)
EXTENDS CapsulePlan

CONSTANTS Readers, NoCapsule

VARIABLES
  sources, facts,    \* ids in the two maps
  capsules,          \* capsule -> its createdAt, or Absent
  now, cutoff,       \* clock, advanced by every build, and retention cutoff
  writer,            \* writer[c]: <<step, part>> of the build of c
  reader,            \* reader[r]: a load
  deleted            \* history: the capsules cleanup removed

vars == <<sources, facts, capsules, now, cutoff, writer, reader, deleted>>

Absent     == -1
Present(c) == capsules[c] # Absent

-----------------------------------------------------------------------------
(* Writers: every adapter's persist, then saveCapsule.                     *)

WriterSteps == {"sources", "facts", "capsule", "saved", "failed"}

\* The step of part p, or the capsule's once every adapter has persisted.
PartStep(c, p) == <<IF p \in DOMAIN Parts[c] THEN "sources" ELSE "capsule", p>>

SaveSourceRecords(c) ==
  LET p == writer[c][2] IN
  /\ writer[c][1] = "sources"
  /\ sources' = sources \cup ToSet(Parts[c][p].sources)
  /\ writer' = [writer EXCEPT ![c] = <<"facts", p>>]
  /\ UNCHANGED <<facts, capsules, now, cutoff, reader, deleted>>

SaveFacts(c) ==
  LET p == writer[c][2] IN
  /\ writer[c][1] = "facts"
  /\ facts' = facts \cup ToSet(Parts[c][p].facts)
  /\ writer' = [writer EXCEPT ![c] = PartStep(c, p + 1)]
  /\ UNCHANGED <<sources, capsules, now, cutoff, reader, deleted>>

CreatedAt == now        \* buildCapsule's nowIso()

SaveCapsule(c) ==
  /\ writer[c][1] = "capsule"
  /\ IF BuildThrows(c)
     THEN /\ writer' = [writer EXCEPT ![c] = <<"failed", 1>>]
          /\ UNCHANGED <<capsules, now>>
     ELSE /\ writer' = [writer EXCEPT ![c] = <<"saved", 1>>]
          /\ capsules' = [capsules EXCEPT ![c] = CreatedAt]
          /\ now' = now + 1
  /\ UNCHANGED <<sources, facts, cutoff, reader, deleted>>

\* An adapter's fetch fails: what earlier adapters saved stays.
Abort(c) ==
  /\ writer[c][1] \notin {"saved", "failed"}
  /\ writer' = [writer EXCEPT ![c] = <<"failed", 1>>]
  /\ UNCHANGED <<sources, facts, capsules, now, cutoff, reader, deleted>>

-----------------------------------------------------------------------------
(* Cleanup.                                                                *)

TimePasses ==
  /\ cutoff < now
  /\ cutoff' = cutoff + 1
  /\ UNCHANGED <<sources, facts, capsules, now, writer, reader, deleted>>

DeleteCapsulesOlderThan ==
  LET expired == {c \in Capsules : Present(c) /\ capsules[c] < cutoff} IN
  /\ expired # {}
  /\ capsules' = [c \in Capsules |-> IF c \in expired THEN Absent ELSE capsules[c]]
  /\ deleted' = deleted \cup expired
  /\ UNCHANGED <<sources, facts, now, cutoff, writer, reader>>

-----------------------------------------------------------------------------
(* Loads: ComputeModule.buildContext, an await between each two reads.     *)

ReaderStates ==
  [pc : {"idle", "facts", "sources", "done"}, capsule : Capsules \cup {NoCapsule},
   rows : Seq(Facts), outcome : {"none", "not_found", "verified", "unverified"}]

IdleReader == [pc |-> "idle", capsule |-> NoCapsule, rows |-> <<>>,
               outcome |-> "none"]

GetCapsule(r, c) ==
  /\ reader[r].pc \in {"idle", "done"}
  /\ reader' = [reader EXCEPT ![r] =
       IF Present(c)
       THEN [IdleReader EXCEPT !.pc = "facts", !.capsule = c]
       ELSE [IdleReader EXCEPT !.pc = "done", !.capsule = c, !.outcome = "not_found"]]
  /\ UNCHANGED <<sources, facts, capsules, now, cutoff, writer, deleted>>

\* The facts of the map among the ids, in the order of the ids.
StoredRows(ids) ==
  LET rows[i \in 0..Len(ids)] ==
        IF i = 0 THEN <<>>
        ELSE IF ids[i] \in facts THEN Append(rows[i - 1], ids[i]) ELSE rows[i - 1]
  IN  rows[Len(ids)]

MutCapsuleRows(c) == IF Present(c) THEN Reverse(StoredRows(CapsuleFacts(c))) ELSE <<>>

\* getCapsuleFacts and getCapsuleSourceRecords look the capsule up again.
CapsuleRows(c) == IF Present(c) THEN StoredRows(CapsuleFacts(c)) ELSE <<>>
CapsuleRecords(c) == IF Present(c) THEN SourcesOf(c) \cap sources ELSE {}

GetCapsuleFacts(r) ==
  /\ reader[r].pc = "facts"
  /\ reader' = [reader EXCEPT ![r].pc = "sources",
                              ![r].rows = CapsuleRows(reader[r].capsule)]
  /\ UNCHANGED <<sources, facts, capsules, now, cutoff, writer, deleted>>

VerifyLoaded(r) ==
  LET l == reader[r]
      cited == [i \in DOMAIN l.rows |-> ToSet(Cites[l.rows[i]])] IN
  /\ l.pc = "sources"
  /\ reader' = [reader EXCEPT ![r].pc = "done", ![r].outcome =
       IF VerifyCapsule(BuildRoots[l.capsule], l.rows, cited, CapsuleRecords(l.capsule))
       THEN "verified" ELSE "unverified"]
  /\ UNCHANGED <<sources, facts, capsules, now, cutoff, writer, deleted>>

-----------------------------------------------------------------------------

Init ==
  /\ sources = {} /\ facts = {}
  /\ capsules = [c \in Capsules |-> Absent]
  /\ now = 0 /\ cutoff = 0
  /\ writer = [c \in Capsules |-> PartStep(c, 1)]
  /\ reader = [r \in Readers |-> IdleReader]
  /\ deleted = {}

Write(c) == SaveSourceRecords(c) \/ SaveFacts(c) \/ SaveCapsule(c)
Load(r)  == GetCapsuleFacts(r) \/ VerifyLoaded(r)

Next ==
  \/ \E c \in Capsules : Write(c) \/ Abort(c)
  \/ \E r \in Readers : Load(r) \/ \E c \in Capsules : GetCapsule(r, c)
  \/ TimePasses
  \/ DeleteCapsulesOlderThan

Spec == Init /\ [][Next]_vars
-----------------------------------------------------------------------------
(* Properties.                                                             *)

TypeOK ==
  /\ sources \subseteq Sources /\ facts \subseteq Facts
  /\ capsules \in [Capsules -> {Absent} \cup 0..(now - 1)]
  /\ now \in Nat /\ cutoff \in 0..now
  /\ writer \in [Capsules -> WriterSteps \X (Nat \ {0})]
  /\ reader \in [Readers -> ReaderStates]
  /\ deleted \subseteq Capsules

\* A capsule that is never deleted is never refused, whatever else is written
\* or deleted between the three reads of a load.
CompleteCapsuleReplays ==
  \A r \in Readers :
    reader[r].outcome = "unverified" => reader[r].capsule \in deleted

RegistryStatus == [c \in Capsules |->
  IF Present(c) THEN "published" ELSE IF c \in deleted THEN "retired" ELSE "unpublished"]

RegistryReply == [r \in Readers |->
  [state   |-> IF reader[r].pc = "idle" THEN "idle"
               ELSE IF reader[r].pc = "done" THEN reader[r].outcome ELSE "pending",
   capsule |-> reader[r].capsule,
   content |-> IF reader[r].outcome # "verified" THEN {}
               ELSE {<<f, ToSet(Cites[f])>> : f \in ToSet(reader[r].rows)}]]

Registry == INSTANCE CapsuleRegistry
              WITH Content <- CapsuleContent, status <- RegistryStatus, reply <- RegistryReply

\* The maps implement the registry the SDK relies on: published once, retired
\* for good, every request answered with the capsule's content or refused, and
\* a capsule deleted in the middle of a load never half-accepted.
ImplementsRegistry == Registry!Spec
=============================================================================
