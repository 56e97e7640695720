--------------------------- MODULE PgCapsuleStore ---------------------------
(***************************************************************************)
(* Context capsules in PostgreSQL: the tables of                           *)
(* services/postgres/migrations/0001 and 0003, the writers that persist an *)
(* adapter's records and then the capsule, the readers that load a capsule *)
(* for a proof, and the cleanup worker.                                    *)
(*                                                                         *)
(* Every INSERT, SELECT and DELETE of packages/store/src/pg.ts is a        *)
(* statement of its own (there is no transaction), so it is an action of   *)
(* its own and any other actor may run between two of them.  A SELECT      *)
(* without ORDER BY returns its rows in an unspecified order.              *)
(***************************************************************************)
EXTENDS CapsulePlan

CONSTANTS Readers,    \* concurrent loads of a capsule
          NoCapsule   \* no capsule requested

VARIABLES
  sources,           \* source_records: ids
  facts,             \* semantic_facts: ids
  factSources,       \* fact_sources: <<fact, source>>
  capsules,          \* context_capsules: NoRow, or the roots and created_at
  capsuleFacts,      \* capsule_facts: <<capsule, fact>>
  capsuleSources,    \* capsule_sources: <<capsule, source>>
  now,               \* the database clock, advanced by every capsule insert
  cutoff,            \* rows created before this are past the retention window
  writer,            \* writer[c]: the build of capsule c
  reader,            \* reader[r]: a load of a capsule
  deleted            \* history: the capsules the cleanup worker removed

tables == <<sources, facts, factSources, capsules, capsuleFacts, capsuleSources>>
vars   == <<tables, now, cutoff, writer, reader, deleted>>

NoRow == [status |-> "absent"]
Row(roots, at) == [status |-> "present", roots |-> roots, createdAt |-> at]
Present(c) == capsules[c].status = "present"

-----------------------------------------------------------------------------
(* Writers.  writer[c].part, i and j are the loop positions.               *)

WriterPcs == {"part", "sources", "facts", "cites", "capsule",
              "linkFacts", "linkSources", "saved", "failed"}

Goto(c, pc, part, i, j) ==
  writer' = [writer EXCEPT ![c] = [pc |-> pc, part |-> part, i |-> i, j |-> j]]

PartSources(c) == Parts[c][writer[c].part].sources
PartFacts(c)   == Parts[c][writer[c].part].facts
InPart(c)      == writer[c].part \in DOMAIN Parts[c]

\* The next adapter, if one is left, fetches and persists; then the capsule.
NextPart(c) ==
  /\ writer[c].pc = "part"
  /\ IF InPart(c) THEN Goto(c, "sources", writer[c].part, 1, 1)
                  ELSE Goto(c, "capsule", 1, 1, 1)
  /\ UNCHANGED <<tables, now, cutoff, reader, deleted>>

\* saveSourceRecords: one row per statement, ON CONFLICT DO NOTHING.
SaveSource(c) ==
  LET w == writer[c] IN
  /\ w.pc = "sources"
  /\ IF w.i <= Len(PartSources(c))
     THEN /\ sources' = sources \cup {PartSources(c)[w.i]}
          /\ Goto(c, "sources", w.part, w.i + 1, 1)
     ELSE /\ Goto(c, "facts", w.part, 1, 1)
          /\ UNCHANGED sources
  /\ UNCHANGED <<facts, factSources, capsules, capsuleFacts, capsuleSources,
                 now, cutoff, reader, deleted>>

\* saveFacts: the fact's row ...
SaveFact(c) ==
  LET w == writer[c] IN
  /\ w.pc = "facts"
  /\ IF w.i <= Len(PartFacts(c))
     THEN /\ facts' = facts \cup {PartFacts(c)[w.i]}
          /\ Goto(c, "cites", w.part, w.i, 1)
     ELSE /\ Goto(c, "part", w.part + 1, 1, 1)
          /\ UNCHANGED facts
  /\ UNCHANGED <<sources, factSources, capsules, capsuleFacts, capsuleSources,
                 now, cutoff, reader, deleted>>

MutCiteCount(f) == Len(Cites[f]) - 1
CiteCount(f)    == Len(Cites[f])

\* ... and then one fact_sources row per cited record, behind foreign keys.
SaveFactSource(c) ==
  LET w == writer[c]
      f == PartFacts(c)[w.i] IN
  /\ w.pc = "cites"
  /\ IF w.j > CiteCount(f)
     THEN Goto(c, "facts", w.part, w.i + 1, 1) /\ UNCHANGED factSources
     ELSE IF f \in facts /\ Cites[f][w.j] \in sources
     THEN /\ factSources' = factSources \cup {<<f, Cites[f][w.j]>>}
          /\ Goto(c, "cites", w.part, w.i, w.j + 1)
     ELSE Goto(c, "failed", 1, 1, 1) /\ UNCHANGED factSources
  /\ UNCHANGED <<sources, facts, capsules, capsuleFacts, capsuleSources,
                 now, cutoff, reader, deleted>>

CreatedAt == now        \* created_at DEFAULT now()

\* buildCapsule, then saveCapsule's first INSERT.
SaveCapsule(c) ==
  /\ writer[c].pc = "capsule"
  /\ IF BuildThrows(c)
     THEN Goto(c, "failed", 1, 1, 1) /\ UNCHANGED <<capsules, now>>
     ELSE /\ capsules' = [capsules EXCEPT ![c] = Row(BuildRoots[c], CreatedAt)]
          /\ now' = now + 1
          /\ Goto(c, "linkFacts", 1, 1, 1)
  /\ UNCHANGED <<sources, facts, factSources, capsuleFacts, capsuleSources,
                 cutoff, reader, deleted>>

\* The foreign key of both link tables on context_capsules: it rejects the
\* insert once the cleanup worker has removed the capsule, and saveCapsule throws.
CapsuleKey(c) == Present(c)

LinkFact(c) ==
  LET w == writer[c] IN
  /\ w.pc = "linkFacts"
  /\ IF ~InPart(c)
     THEN Goto(c, "linkSources", 1, 1, 1) /\ UNCHANGED capsuleFacts
     ELSE IF w.i > Len(PartFacts(c))
     THEN Goto(c, "linkFacts", w.part + 1, 1, 1) /\ UNCHANGED capsuleFacts
     ELSE IF CapsuleKey(c) /\ PartFacts(c)[w.i] \in facts
     THEN /\ capsuleFacts' = capsuleFacts \cup {<<c, PartFacts(c)[w.i]>>}
          /\ Goto(c, "linkFacts", w.part, w.i + 1, 1)
     ELSE Goto(c, "failed", 1, 1, 1) /\ UNCHANGED capsuleFacts
  /\ UNCHANGED <<sources, facts, factSources, capsules, capsuleSources,
                 now, cutoff, reader, deleted>>

LinkSource(c) ==
  LET w == writer[c] IN
  /\ w.pc = "linkSources"
  /\ IF ~InPart(c)
     THEN Goto(c, "saved", 1, 1, 1) /\ UNCHANGED capsuleSources
     ELSE IF w.i > Len(PartSources(c))
     THEN Goto(c, "linkSources", w.part + 1, 1, 1) /\ UNCHANGED capsuleSources
     ELSE IF CapsuleKey(c) /\ PartSources(c)[w.i] \in sources
     THEN /\ capsuleSources' = capsuleSources \cup {<<c, PartSources(c)[w.i]>>}
          /\ Goto(c, "linkSources", w.part, w.i + 1, 1)
     ELSE Goto(c, "failed", 1, 1, 1) /\ UNCHANGED capsuleSources
  /\ UNCHANGED <<sources, facts, factSources, capsules, capsuleFacts,
                 now, cutoff, reader, deleted>>

\* The process dies, or a fetch or a query fails: nothing is rolled back.
Abort(c) ==
  /\ writer[c].pc \notin {"saved", "failed"}
  /\ Goto(c, "failed", 1, 1, 1)
  /\ UNCHANGED <<tables, now, cutoff, reader, deleted>>

-----------------------------------------------------------------------------
(* Cleanup worker: one DELETE; the link rows go by ON DELETE CASCADE.      *)

TimePasses ==
  /\ cutoff < now
  /\ cutoff' = cutoff + 1
  /\ UNCHANGED <<tables, now, writer, reader, deleted>>

MutExpired ==
  {c \in Capsules : /\ Present(c) /\ capsules[c].createdAt < cutoff
                    /\ writer[c].pc = "saved"}
Expired == {c \in Capsules : Present(c) /\ capsules[c].createdAt < cutoff}

Cascade(links, gone) == {l \in links : l[1] \notin gone}

DeleteCapsulesOlderThan ==
  /\ Expired # {}
  /\ capsules' = [c \in Capsules |-> IF c \in Expired THEN NoRow ELSE capsules[c]]
  /\ capsuleFacts' = Cascade(capsuleFacts, Expired)
  /\ capsuleSources' = Cascade(capsuleSources, Expired)
  /\ deleted' = deleted \cup Expired
  /\ UNCHANGED <<sources, facts, factSources, now, cutoff, writer, reader>>

-----------------------------------------------------------------------------
(* Readers: ComputeModule.buildContext for { capsuleId }.                  *)

ReaderPcs == {"idle", "facts", "cites", "sources", "done"}
Outcomes  == {"none", "not_found", "unverified", "verified"}

NoRoots == [sourceRoot |-> <<>>, factsRoot |-> <<>>, semanticFactsRoot |-> {},
            zkFactsRoot |-> <<>>, adapterSetHash |-> {}]

\* complete is history: the capsule had all its rows when the load began.
IdleReader == [pc |-> "idle", capsule |-> NoCapsule, roots |-> NoRoots,
               rows |-> <<>>, cited |-> <<>>, outcome |-> "none",
               complete |-> FALSE]

\* getCapsule: the row with its roots (the id lists it also selects are not
\* used by verifyCapsule), or SEFI_COMPUTE_CAPSULE_NOT_FOUND.
GetCapsule(r, c) ==
  /\ reader[r].pc \in {"idle", "done"}
  /\ reader' = [reader EXCEPT ![r] =
       IF Present(c)
       THEN [IdleReader EXCEPT !.pc = "facts", !.capsule = c, !.roots = capsules[c].roots,
                                !.complete = writer[c].pc = "saved"]
       ELSE [IdleReader EXCEPT !.pc = "done", !.capsule = c, !.outcome = "not_found"]]
  /\ UNCHANGED <<tables, now, cutoff, writer, deleted>>

LinkedFacts(c)   == {f \in facts : <<c, f>> \in capsuleFacts}
LinkedSources(c) == {s \in sources : <<c, s>> \in capsuleSources}

\* getCapsuleFacts: the join, in any order ...
GetCapsuleFacts(r) ==
  /\ reader[r].pc = "facts"
  /\ \E rows \in SetToSeqs(LinkedFacts(reader[r].capsule)) :
       reader' = [reader EXCEPT ![r] = [@ EXCEPT !.pc = "cites", !.rows = rows]]
  /\ UNCHANGED <<tables, now, cutoff, writer, deleted>>

\* ... and one query per row for its citations.
CitedRows(f) == {s \in sources : <<f, s>> \in factSources}

FactSourceIds(r) ==
  LET l == reader[r]
      k == Len(l.cited) + 1 IN
  /\ l.pc = "cites"
  /\ reader' = [reader EXCEPT ![r] =
       IF k <= Len(l.rows)
       THEN [l EXCEPT !.cited = Append(l.cited, CitedRows(l.rows[k]))]
       ELSE [l EXCEPT !.pc = "sources"]]
  /\ UNCHANGED <<tables, now, cutoff, writer, deleted>>

\* getCapsuleSourceRecords, then verifyCapsule; a mismatch is
\* SEFI_COMPUTE_CAPSULE_UNVERIFIED.
VerifyLoaded(r) ==
  LET l == reader[r] IN
  /\ l.pc = "sources"
  /\ reader' = [reader EXCEPT ![r] = [@ EXCEPT !.pc = "done", !.outcome =
       IF VerifyCapsule(l.roots, l.rows, l.cited, LinkedSources(l.capsule))
       THEN "verified" ELSE "unverified"]]
  /\ UNCHANGED <<tables, now, cutoff, writer, deleted>>

-----------------------------------------------------------------------------

Init ==
  /\ sources = {} /\ facts = {} /\ factSources = {}
  /\ capsules = [c \in Capsules |-> NoRow]
  /\ capsuleFacts = {} /\ capsuleSources = {}
  /\ now = 0 /\ cutoff = 0
  /\ writer = [c \in Capsules |-> [pc |-> "part", part |-> 1, i |-> 1, j |-> 1]]
  /\ reader = [r \in Readers |-> IdleReader]
  /\ deleted = {}

Write(c) ==
  \/ NextPart(c) \/ SaveSource(c) \/ SaveFact(c) \/ SaveFactSource(c)
  \/ SaveCapsule(c) \/ LinkFact(c) \/ LinkSource(c)

Load(r) == GetCapsuleFacts(r) \/ FactSourceIds(r) \/ VerifyLoaded(r)

Next ==
  \/ \E c \in Capsules : Write(c) \/ Abort(c)
  \/ \E r \in Readers : Load(r) \/ \E c \in Capsules : GetCapsule(r, c)
  \/ TimePasses
  \/ DeleteCapsulesOlderThan

Spec == Init /\ [][Next]_vars

\* The cleanup worker runs every hour (apps/worker, every(3600,
\* capsuleCleanupWorker)); nothing else is assumed to run.
FairSpec == Spec /\ WF_vars(DeleteCapsulesOlderThan)
-----------------------------------------------------------------------------
(* Properties.                                                             *)

Positions    == Nat \ {0}
WriterStates == [pc : WriterPcs, part : Positions, i : Positions, j : Positions]
ReaderStates == [pc : ReaderPcs, capsule : Capsules \cup {NoCapsule},
                 roots : {NoRoots} \cup {BuildRoots[c] : c \in Capsules},
                 rows : Seq(Facts), cited : Seq(SUBSET Sources),
                 outcome : Outcomes, complete : BOOLEAN]
RowStates    == {NoRow} \cup
                  [status : {"present"}, roots : {BuildRoots[c] : c \in Capsules}, createdAt : Nat]

TypeOK ==
  /\ sources \subseteq Sources /\ facts \subseteq Facts
  /\ factSources \subseteq Facts \X Sources
  /\ capsuleFacts \subseteq Capsules \X Facts
  /\ capsuleSources \subseteq Capsules \X Sources
  /\ capsules \in [Capsules -> RowStates]
  /\ \A c \in Capsules : Present(c) => capsules[c].createdAt < now
  /\ now \in Nat /\ cutoff \in 0..now
  /\ writer \in [Capsules -> WriterStates]
  /\ reader \in [Readers -> ReaderStates]
  /\ deleted \subseteq Capsules

\* A capsule is visible only after all its facts, all records they cite and all
\* their citations are rows: the proof path never binds a fact whose provenance
\* is still being written, whatever crashes or runs between two INSERTs.
ProvenanceBeforeCapsule ==
  \A c \in Capsules : Present(c) =>
    /\ SourcesOf(c) \subseteq sources
    /\ FactsOf(c) \subseteq facts
    /\ \A f \in FactsOf(c) : \A s \in ToSet(Cites[f]) : <<f, s>> \in factSources

\* A cleanup that runs while saveCapsule is still inserting link rows leaves no
\* link row without its capsule.
NoOrphanLinks ==
  /\ \A l \in capsuleFacts   : Present(l[1])
  /\ \A l \in capsuleSources : Present(l[1])

\* What a load hands to a proof is what was built: the same facts, each with
\* its full provenance, in the order the zk root commits to; never a capsule
\* caught half-written or half-deleted.
VerifiedIsExact ==
  \A r \in Readers : reader[r].outcome = "verified" =>
    LET c == reader[r].capsule IN
    /\ ToSet(reader[r].rows) = ToSet(CapsuleFacts(c))
    /\ \A i \in DOMAIN reader[r].rows :
         reader[r].cited[i] = ToSet(Cites[reader[r].rows[i]])
    /\ [i \in DOMAIN reader[r].rows |-> ZkLeaf[reader[r].rows[i]]]
         = BuildRoots[c].zkFactsRoot

\* A capsule that was complete when the load began and still exists is refused
\* for one reason only: its fact rows came back in another order than the zk
\* root was computed in.
RefusedOnlyForOrder ==
  \A r \in Readers : LET l == reader[r] IN
    (l.outcome = "unverified" /\ l.complete /\ l.capsule \notin deleted)
      => [i \in DOMAIN l.rows |-> ZkLeaf[l.rows[i]]]
           # BuildRoots[l.capsule].zkFactsRoot

\* docs/architecture.md: "a context capsule can be replayed and its roots
\* re-derived".  A complete, undeleted capsule is never refused.
CompleteCapsuleReplays ==
  \A r \in Readers :
    (reader[r].outcome = "unverified" /\ reader[r].complete)
      => reader[r].capsule \in deleted

\* The retention window ends for every capsule, the half-written ones of a
\* crashed build included.
RetentionEnds ==
  \A c \in Capsules :
    (Present(c) /\ capsules[c].createdAt < cutoff) ~> ~Present(c)

RegistryStatus == [c \in Capsules |->
  IF Present(c) THEN "published" ELSE IF c \in deleted THEN "retired" ELSE "unpublished"]

RegistryReply == [r \in Readers |->
  [state   |-> IF reader[r].pc = "idle" THEN "idle"
               ELSE IF reader[r].pc = "done" THEN reader[r].outcome ELSE "pending",
   capsule |-> reader[r].capsule,
   content |-> IF reader[r].outcome # "verified" THEN {}
               ELSE SemanticLeaves(reader[r].rows, reader[r].cited)]]

Registry == INSTANCE CapsuleRegistry
              WITH Content <- CapsuleContent, status <- RegistryStatus, reply <- RegistryReply

\* The tables implement the registry the SDK relies on: lookups see a capsule
\* from its publication to its removal, and an accepted load is its content.
ImplementsRegistry == Registry!Spec
=============================================================================
