--------------------------- MODULE EventIngestion ---------------------------
(***************************************************************************)
(* blendEventWorker of apps/worker/src/index.ts for one pool: read the     *)
(* checkpoint, ask the RPC for the next page of events, insert one source  *)
(* record per event, save the checkpoint.  The scheduler starts a run      *)
(* every 60 s and does not wait for the previous one, and SEFI_WORKER_ONCE *)
(* starts every job twice, so several runs may be in progress; each await  *)
(* is a point where another run, the chain or a crash intervenes.          *)
(*                                                                         *)
(* A paging token is the ledger of its event: a ledger has at most one     *)
(* event here.  The id of a source record is drawn at random per insert,   *)
(* so an event fetched twice is stored twice; ids are assumed distinct.    *)
(***************************************************************************)
EXTENDS Integers, FiniteSets

CONSTANTS
  Runs,            \* runs that may be in progress together
  Window,          \* ledgers a run without a cursor goes back (1000)
  PageSize,        \* limit of one getEvents request (100)
  FirstHead,       \* ledger at which the worker is first started
  CursorOptional,  \* TRUE: an empty page may come without a cursor
  MaxHead,         \* bound: last ledger of the model
  MaxFailures,     \* bound: runs that fail or are killed
  MaxCopies        \* bound: copies of one event that are told apart

ASSUME WindowAssumption   == Window \in Nat
ASSUME PageSizeAssumption == PageSize \in Nat \ {0}
ASSUME FirstHeadAssumption == FirstHead \in Nat /\ FirstHead > Window
ASSUME CursorOptionalAssumption == CursorOptional \in BOOLEAN
ASSUME BoundsAssumption ==
  MaxHead \in Nat /\ FirstHead <= MaxHead /\ MaxFailures \in Nat /\ MaxCopies \in Nat \ {0}

VARIABLES
  head,         \* the latest ledger
  events,       \* the ledgers with an event of the pool
  copies,       \* copies[e]: source_records rows of event e
  checkpoint,   \* ingestion_checkpoints row of the pool
  run,          \* run[w]: local variables of a run
  failures      \* runs that failed so far

vars == <<head, events, copies, checkpoint, run, failures>>

NoCursor == -1
Ledgers  == 1..MaxHead
stored   == {e \in Ledgers : copies[e] > 0}

\* from is history: where the lineage of runs behind the cursor began.
NoCheckpoint == [from |-> 0, cursor |-> NoCursor]

Pcs  == {"idle", "latest", "fetch", "store"}
\* after: the page holds events later than this; todo: the rest of the page.
Idle == [pc |-> "idle", from |-> 0, after |-> 0, todo |-> {}, next |-> NoCursor]

-----------------------------------------------------------------------------

\* The chain closes a ledger, with an event of the pool or without.
CloseLedger ==
  /\ head < MaxHead
  /\ head' = head + 1
  /\ events' \in {events, events \cup {head + 1}}
  /\ UNCHANGED <<copies, checkpoint, run, failures>>

\* getCheckpoint; with a cursor the run resumes from it.
GetCheckpoint(w) ==
  /\ run[w].pc = "idle"
  /\ run' = [run EXCEPT ![w] =
       IF checkpoint.cursor # NoCursor
       THEN [Idle EXCEPT !.pc = "fetch", !.from = checkpoint.from, !.after = checkpoint.cursor]
       ELSE [Idle EXCEPT !.pc = "latest"]]
  /\ UNCHANGED <<head, events, copies, checkpoint, failures>>

\* getLatestLedger: without a cursor the run starts Window ledgers back.
GetLatestLedger(w) ==
  /\ run[w].pc = "latest"
  /\ run' = [run EXCEPT ![w] =
       [Idle EXCEPT !.pc = "fetch", !.from = head - Window, !.after = head - Window - 1]]
  /\ UNCHANGED <<head, events, copies, checkpoint, failures>>

MutEventsAfter(after) == {e \in events : e >= after}
\* What getEvents has to offer after a position ...
EventsAfter(after) == {e \in events : e > after}

\* ... and the first PageSize of them.
PageAfter(after) ==
  {e \in EventsAfter(after) : Cardinality({d \in EventsAfter(after) : d < e}) < PageSize}

Last(page) == {e \in page : \A d \in page : d <= e}

MutStuckNextCursors(page, after) == {after}

\* The cursor StellarClient.getEvents returns: the last event's paging token, or
\* what the RPC returns for an empty page, where the field is optional.
NextCursors(page, after) ==
  IF page # {} THEN Last(page)
  ELSE {head} \cup IF CursorOptional THEN {NoCursor} ELSE {}

GetEvents(w) ==
  /\ run[w].pc = "fetch"
  /\ LET page == PageAfter(run[w].after) IN
     \E next \in NextCursors(page, run[w].after) :
       run' = [run EXCEPT ![w] = [@ EXCEPT !.pc = "store", !.todo = page, !.next = next]]
  /\ UNCHANGED <<head, events, copies, checkpoint, failures>>

\* saveSourceRecords, one INSERT per event, in page order.
StoreEvent(w) ==
  /\ run[w].pc = "store"
  /\ \E e \in run[w].todo :
       /\ \A d \in run[w].todo : e <= d
       /\ run' = [run EXCEPT ![w] = [@ EXCEPT !.todo = run[w].todo \ {e}]]
       /\ copies' = [copies EXCEPT ![e] = IF @ < MaxCopies THEN @ + 1 ELSE @]
  /\ UNCHANGED <<head, events, checkpoint, failures>>

MutPageStored(w) == TRUE
PageStored(w)    == run[w].todo = {}

\* saveCheckpoint: an upsert, whatever the row holds now.
SaveCheckpoint(w) ==
  /\ run[w].pc = "store" /\ PageStored(w)
  /\ checkpoint' = [from |-> run[w].from, cursor |-> run[w].next]
  /\ run' = [run EXCEPT ![w] = Idle]
  /\ UNCHANGED <<head, events, copies, failures>>

\* A request or query throws (caught per pool), or the process is killed:
\* process.exit(0) of the once mode, a restart.
Abort(w) ==
  /\ run[w].pc # "idle"
  /\ failures < MaxFailures
  /\ failures' = failures + 1
  /\ run' = [run EXCEPT ![w] = Idle]
  /\ UNCHANGED <<head, events, copies, checkpoint>>

-----------------------------------------------------------------------------

Init ==
  /\ head = FirstHead
  /\ events \in SUBSET (1..FirstHead)
  /\ copies = [e \in Ledgers |-> 0]
  /\ checkpoint = NoCheckpoint
  /\ run = [w \in Runs |-> Idle]
  /\ failures = 0

Step(w) ==
  \/ GetCheckpoint(w) \/ GetLatestLedger(w) \/ GetEvents(w)
  \/ StoreEvent(w) \/ SaveCheckpoint(w)

Next == CloseLedger \/ \E w \in Runs : Step(w) \/ Abort(w)

Spec == Init /\ [][Next]_vars

\* setInterval starts runs forever, and a pending request settles.  The chain
\* need not advance and runs need not fail.
FairSpec == Spec /\ \A w \in Runs : WF_vars(Step(w))
-----------------------------------------------------------------------------
(* Properties.                                                             *)

RunStates == [pc : Pcs, from : Nat, after : Nat, todo : SUBSET Ledgers,
              next : Nat \cup {NoCursor}]

TypeOK ==
  /\ head \in FirstHead..MaxHead
  /\ events \subseteq 1..head
  /\ copies \in [Ledgers -> 0..MaxCopies]
  /\ checkpoint \in [from : Nat, cursor : 0..head \cup {NoCursor}]
  /\ run \in [Runs -> RunStates]
  /\ failures \in 0..MaxFailures

\* The checkpoint never runs ahead of the rows: every event from the start of
\* its lineage up to its cursor is stored, whatever is killed between two
\* INSERTs and however many runs overlap.
CheckpointCovers ==
  \A e \in events :
    checkpoint.from <= e /\ e <= checkpoint.cursor => e \in stored

\* Runs that do not overlap store an event twice only when a run failed: each
\* failure repeats at most the page it was storing.
CopiesBoundedByFailures ==
  \A e \in Ledgers : copies[e] <= 1 + failures

InScope(e) == e \in events /\ checkpoint.cursor # NoCursor /\ checkpoint.from <= e

\* Every event since a persisted cursor's lineage began is stored in the end.
EventuallyIngested == \A e \in Ledgers : InScope(e) ~> e \in stored

\* Overlapping runs move the cursor back and may start a later lineage (two
\* first runs that read no checkpoint), but they never starve an event that
\* the checkpoint keeps in scope.
OverlapStillIngests == \A e \in Ledgers : ([]InScope(e)) ~> e \in stored
=============================================================================
