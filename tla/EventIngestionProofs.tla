------------------------ MODULE EventIngestionProofs ------------------------
(***************************************************************************)
(* Theorems about EventIngestion for any number of overlapping runs, any   *)
(* window and page size, and any chain.                                    *)
(***************************************************************************)
EXTENDS EventIngestion, FiniteSetTheorems, WellFoundedInduction, TLAPS

Covered(from, upto) == \A e \in events : from <= e /\ e <= upto => e \in stored

\* What a run knows: it starts where everything before is stored, and the
\* cursor it will save has only stored events and the rest of the page before it.
RunInv(w) ==
  /\ run[w].pc = "fetch" => Covered(run[w].from, run[w].after) /\ run[w].after <= head
  /\ run[w].pc = "store" =>
       /\ run[w].next <= head
       /\ \A e \in events :
            run[w].from <= e /\ e <= run[w].next => e \in stored \/ e \in run[w].todo

\* The inductive invariant.
IInv == TypeOK /\ CheckpointCovers /\ \A w \in Runs : RunInv(w)

-----------------------------------------------------------------------------

LEMMA EventsFinite ==
  ASSUME TypeOK
  PROVE  IsFiniteSet(events)
<1>1. IsFiniteSet(1..head)
  BY FS_Interval, BoundsAssumption, FirstHeadAssumption DEF TypeOK
<1> QED
  BY <1>1, FS_Subset DEF TypeOK

\* A page has no holes: it holds every event between its start and its last.
LEMMA PageIsPrefix ==
  ASSUME TypeOK, NEW after \in Nat, NEW last \in Last(PageAfter(after)),
         NEW e \in events, after < e, e <= last
  PROVE  e \in PageAfter(after)
<1> DEFINE Before(x) == {d \in EventsAfter(after) : d < x}
<1>1. last \in events /\ Cardinality(Before(last)) < PageSize
  BY DEF Last, PageAfter, EventsAfter
<1>2. \A d \in events : d \in Nat
  BY BoundsAssumption, FirstHeadAssumption DEF TypeOK
<1>3. Before(e) \subseteq Before(last)
  BY <1>1, <1>2 DEF EventsAfter
<1>4. IsFiniteSet(Before(last)) /\ IsFiniteSet(Before(e))
  BY EventsFinite, FS_Subset, <1>3 DEF EventsAfter
<1>5. Cardinality(Before(e)) <= Cardinality(Before(last))
  BY <1>3, <1>4, FS_Subset
<1>6. Cardinality(Before(e)) \in Nat /\ Cardinality(Before(last)) \in Nat
  BY <1>4, FS_CardinalityType
<1> HIDE DEF Before
<1>7. Cardinality(Before(e)) < PageSize
  BY <1>1, <1>5, <1>6, PageSizeAssumption
<1> QED
  BY <1>7 DEF PageAfter, EventsAfter, Before

LEMMA LeastNat ==
  ASSUME NEW T, T \subseteq Nat, T # {}
  PROVE  \E x \in T : \A y \in T : ~ (y < x)
<1> DEFINE R == {p \in Nat \X Nat : p[1] < p[2]}
<1>1. IsWellFoundedOn(R, Nat)
  BY NatLessThanWellFounded DEF OpToRel
<1>2. PICK x \in T : \A y \in T : ~ (<<y, x>> \in R)
  <2> HIDE DEF R
  <2> QED
    BY <1>1, WFMin
<1>3. \A y \in T : y < x => <<y, x>> \in R
  OBVIOUS
<1> QED
  BY <1>2, <1>3

\* A page is empty only when there is nothing to fetch.
LEMMA PageNotEmpty ==
  ASSUME TypeOK, NEW after \in Nat, EventsAfter(after) # {}
  PROVE  PageAfter(after) # {}
<1>1. EventsAfter(after) \subseteq Nat
  <2>1. events \subseteq Nat
    BY DEF TypeOK
  <2> QED
    BY <2>1 DEF EventsAfter
<1>2. PICK x \in EventsAfter(after) : \A y \in EventsAfter(after) : ~ (y < x)
  BY <1>1, LeastNat
<1>3. {d \in EventsAfter(after) : d < x} = {}
  BY <1>2
<1>4. Cardinality({d \in EventsAfter(after) : d < x}) = 0
  BY <1>3, FS_EmptySet
<1>5. x \in PageAfter(after)
  BY <1>4, PageSizeAssumption DEF PageAfter
<1> QED
  BY <1>5

LEMMA RunType ==
  ASSUME TypeOK, NEW w \in Runs
  PROVE  /\ run[w] \in RunStates
         /\ head \in Nat /\ FirstHead \in Nat /\ Window \in Nat
         /\ head - Window \in Nat /\ head - Window - 1 \in Nat
         /\ events \subseteq Ledgers
         /\ \A e \in events : e \in Nat /\ e <= head
BY BoundsAssumption, FirstHeadAssumption, WindowAssumption DEF TypeOK, Ledgers

LEMMA IdleType == Idle \in RunStates
BY DEF Idle, RunStates, Pcs

LEMMA CheckpointType ==
  ASSUME TypeOK
  PROVE  /\ checkpoint.from \in Nat
         /\ checkpoint.cursor \in 0..head \cup {NoCursor}
         /\ checkpoint.cursor # NoCursor => checkpoint.cursor \in Nat
         /\ checkpoint.cursor <= head
<1>1. head \in Nat
  BY RunType, BoundsAssumption, FirstHeadAssumption DEF TypeOK
<1>2. checkpoint.from \in Nat /\ checkpoint.cursor \in 0..head \cup {NoCursor}
  BY DEF TypeOK
<1> QED
  BY <1>1, <1>2 DEF NoCursor

-----------------------------------------------------------------------------

LEMMA InitInv == Init => IInv
<1> SUFFICES ASSUME Init PROVE IInv
  OBVIOUS
<1>1. TypeOK
  <2>1. Idle \in RunStates
    BY IdleType
  <2>2. run \in [Runs -> RunStates]
    BY <2>1 DEF Init
  <2>3. NoCheckpoint \in [from : Nat, cursor : 0..head \cup {NoCursor}]
    BY DEF NoCheckpoint
  <2>4. copies \in [Ledgers -> 0..MaxCopies]
    BY BoundsAssumption DEF Init
  <2>5. head \in FirstHead..MaxHead /\ failures \in 0..MaxFailures
    BY BoundsAssumption, FirstHeadAssumption DEF Init
  <2> QED
    BY <2>2, <2>3, <2>4, <2>5 DEF Init, TypeOK
<1>2. CheckpointCovers
  BY FirstHeadAssumption DEF Init, CheckpointCovers, NoCheckpoint, NoCursor
<1>3. \A w \in Runs : RunInv(w)
  BY DEF Init, RunInv, Idle
<1> QED
  BY <1>1, <1>2, <1>3 DEF IInv

LEMMA TypeStep == TypeOK /\ (\A w \in Runs : RunInv(w)) /\ [Next]_vars => TypeOK'
<1> SUFFICES ASSUME TypeOK, \A w \in Runs : RunInv(w), [Next]_vars PROVE TypeOK'
  OBVIOUS
<1> USE BoundsAssumption, FirstHeadAssumption
<1>1. CASE CloseLedger
  BY <1>1 DEF CloseLedger, TypeOK
<1>2. ASSUME NEW w \in Runs, GetCheckpoint(w) PROVE TypeOK'
  <2>1. [Idle EXCEPT !.pc = "latest"] \in RunStates
    BY DEF Idle, RunStates, Pcs
  <2>2. ASSUME checkpoint.cursor # NoCursor
        PROVE  [Idle EXCEPT !.pc = "fetch", !.from = checkpoint.from,
                            !.after = checkpoint.cursor] \in RunStates
    BY <2>2, CheckpointType DEF Idle, RunStates, Pcs
  <2>3. CASE checkpoint.cursor # NoCursor
    <3>1. run' = [run EXCEPT ![w] = [Idle EXCEPT !.pc = "fetch",
                    !.from = checkpoint.from, !.after = checkpoint.cursor]]
      BY <1>2, <2>3 DEF GetCheckpoint
    <3>2. run' \in [Runs -> RunStates]
      BY <3>1, <2>2, <2>3 DEF TypeOK
    <3> QED
      BY <1>2, <3>2 DEF GetCheckpoint, TypeOK
  <2>4. CASE checkpoint.cursor = NoCursor
    <3>1. run' = [run EXCEPT ![w] = [Idle EXCEPT !.pc = "latest"]]
      BY <1>2, <2>4 DEF GetCheckpoint
    <3>2. run' \in [Runs -> RunStates]
      BY <3>1, <2>1 DEF TypeOK
    <3> QED
      BY <1>2, <3>2 DEF GetCheckpoint, TypeOK
  <2> QED
    BY <2>3, <2>4
<1>3. ASSUME NEW w \in Runs, GetLatestLedger(w) PROVE TypeOK'
  <2>1. [Idle EXCEPT !.pc = "fetch", !.from = head - Window,
                     !.after = head - Window - 1] \in RunStates
    BY RunType DEF Idle, RunStates, Pcs
  <2> QED
    BY <1>3, <2>1 DEF GetLatestLedger, TypeOK
<1>4. ASSUME NEW w \in Runs, GetEvents(w) PROVE TypeOK'
  <2> DEFINE page == PageAfter(run[w].after)
  <2>1. PICK next \in NextCursors(page, run[w].after) :
          run' = [run EXCEPT ![w] = [@ EXCEPT !.pc = "store", !.todo = page, !.next = next]]
    BY <1>4 DEF GetEvents
  <2>2. page \subseteq events
    BY DEF PageAfter, EventsAfter
  <2>3. next \in Nat \cup {NoCursor}
    BY <2>2, RunType DEF NextCursors, Last
  <2>4. [run[w] EXCEPT !.pc = "store", !.todo = page, !.next = next] \in RunStates
    BY <2>2, <2>3, RunType DEF RunStates, Pcs
  <2> QED
    BY <1>4, <2>1, <2>4 DEF GetEvents, TypeOK
<1>5. ASSUME NEW w \in Runs, StoreEvent(w) PROVE TypeOK'
  <2>1. PICK e \in run[w].todo :
          /\ run' = [run EXCEPT ![w] = [@ EXCEPT !.todo = run[w].todo \ {e}]]
          /\ copies' = [copies EXCEPT ![e] = IF @ < MaxCopies THEN @ + 1 ELSE @]
    BY <1>5 DEF StoreEvent
  <2>2. [run[w] EXCEPT !.todo = @ \ {e}] \in RunStates
    BY RunType DEF RunStates
  <2>3. copies' \in [Ledgers -> 0..MaxCopies]
    <3>1. copies \in [Ledgers -> 0..MaxCopies] /\ e \in Ledgers
      BY RunType DEF TypeOK, RunStates
    <3>2. copies[e] \in 0..MaxCopies
      BY <3>1
    <3>3. (IF copies[e] < MaxCopies THEN copies[e] + 1 ELSE copies[e]) \in 0..MaxCopies
      BY <3>2
    <3> QED
      BY <2>1, <3>1, <3>3
  <2> QED
    BY <1>5, <2>1, <2>2, <2>3 DEF StoreEvent, TypeOK
<1>6. ASSUME NEW w \in Runs, SaveCheckpoint(w) PROVE TypeOK'
  <2>1. run[w].next \in 0..head \cup {NoCursor} /\ run[w].from \in Nat
    BY <1>6, RunType DEF SaveCheckpoint, RunInv, RunStates
  <2>2. Idle \in RunStates
    BY IdleType
  <2> QED
    BY <1>6, <2>1, <2>2 DEF SaveCheckpoint, TypeOK
<1>7. ASSUME NEW w \in Runs, Abort(w) PROVE TypeOK'
  <2>1. Idle \in RunStates
    BY IdleType
  <2> QED
    BY <1>7, <2>1 DEF Abort, TypeOK
<1>8. CASE UNCHANGED vars
  BY <1>8 DEF vars, TypeOK
<1> QED
  BY <1>1, <1>2, <1>3, <1>4, <1>5, <1>6, <1>7, <1>8 DEF Next, Step

\* Rows are never removed.
LEMMA StoredStays ==
  ASSUME TypeOK, \/ UNCHANGED copies
                 \/ \E w \in Runs : StoreEvent(w)
  PROVE  stored \subseteq stored'
<1>1. CASE UNCHANGED copies
  BY <1>1 DEF stored
<1>2. ASSUME NEW w \in Runs, StoreEvent(w) PROVE stored \subseteq stored'
  <2>1. PICK e \in run[w].todo :
          copies' = [copies EXCEPT ![e] = IF @ < MaxCopies THEN @ + 1 ELSE @]
    BY <1>2 DEF StoreEvent
  <2> QED
    BY <2>1, BoundsAssumption DEF stored, TypeOK
<1> QED
  BY <1>1, <1>2

LEMMA CoverStep == IInv /\ [Next]_vars => CheckpointCovers' /\ \A w \in Runs : RunInv(w)'
<1> SUFFICES ASSUME IInv, [Next]_vars
             PROVE  CheckpointCovers' /\ \A w \in Runs : RunInv(w)'
  OBVIOUS
<1>0. TypeOK /\ CheckpointCovers /\ \A w \in Runs : RunInv(w)
  BY DEF IInv
<1>1. CASE CloseLedger
  <2>1. \A e \in events' : e \in events \/ e = head + 1
    BY <1>1 DEF CloseLedger
  <2>2. UNCHANGED <<copies, checkpoint, run, stored>> /\ head' = head + 1
    BY <1>1 DEF CloseLedger, stored
  <2>3. /\ head \in Nat
        /\ checkpoint.cursor \in Nat \cup {-1} /\ checkpoint.cursor <= head
    BY <1>0, CheckpointType, BoundsAssumption, FirstHeadAssumption DEF TypeOK, NoCursor
  <2>4. CheckpointCovers'
    BY <1>0, <2>1, <2>2, <2>3 DEF CheckpointCovers
  <2>5. ASSUME NEW w \in Runs PROVE RunInv(w)'
    BY <1>0, <2>1, <2>2, <2>3, RunType DEF RunInv, Covered, RunStates, NoCursor
  <2> QED
    BY <2>4, <2>5
<1>2. ASSUME NEW w \in Runs, GetCheckpoint(w)
      PROVE  CheckpointCovers' /\ \A v \in Runs : RunInv(v)'
  <2>1. UNCHANGED <<head, events, copies, checkpoint, stored>>
    BY <1>2 DEF GetCheckpoint, stored
  <2>2. \A v \in Runs : v # w => run'[v] = run[v]
    BY <1>0, <1>2 DEF GetCheckpoint, TypeOK
  <2>3. checkpoint.cursor <= head
    BY <1>0, BoundsAssumption, FirstHeadAssumption DEF TypeOK, NoCursor
  <2>4. \/ /\ run'[w].pc = "fetch"
           /\ run'[w].from = checkpoint.from
           /\ run'[w].after = checkpoint.cursor
        \/ run'[w].pc = "latest"
    <3>1. CASE checkpoint.cursor # NoCursor
      <4>1. run'[w] = [Idle EXCEPT !.pc = "fetch", !.from = checkpoint.from,
                                   !.after = checkpoint.cursor]
        BY <1>0, <1>2, <3>1 DEF GetCheckpoint, TypeOK
      <4> QED
        BY <4>1 DEF Idle
    <3>2. CASE checkpoint.cursor = NoCursor
      <4>1. run'[w] = [Idle EXCEPT !.pc = "latest"]
        BY <1>0, <1>2, <3>2 DEF GetCheckpoint, TypeOK
      <4> QED
        BY <4>1 DEF Idle
    <3> QED
      BY <3>1, <3>2
  <2>5. RunInv(w)'
    BY <1>0, <2>1, <2>3, <2>4 DEF RunInv, Covered, CheckpointCovers
  <2> QED
    BY <1>0, <2>1, <2>2, <2>5 DEF CheckpointCovers, RunInv, Covered
<1>3. ASSUME NEW w \in Runs, GetLatestLedger(w)
      PROVE  CheckpointCovers' /\ \A v \in Runs : RunInv(v)'
  <2>1. UNCHANGED <<head, events, copies, checkpoint, stored>>
    BY <1>3 DEF GetLatestLedger, stored
  <2>2. \A v \in Runs : v # w => run'[v] = run[v]
    BY <1>0, <1>3 DEF GetLatestLedger, TypeOK
  <2>3. /\ run'[w].pc = "fetch"
        /\ run'[w].from = head - Window
        /\ run'[w].after = head - Window - 1
    BY <1>0, <1>3 DEF GetLatestLedger, TypeOK, Idle
  <2>4. RunInv(w)'
    BY <1>0, <2>1, <2>3, RunType DEF RunInv, Covered
  <2> QED
    BY <1>0, <2>1, <2>2, <2>4 DEF CheckpointCovers, RunInv, Covered
<1>4. ASSUME NEW w \in Runs, GetEvents(w)
      PROVE  CheckpointCovers' /\ \A v \in Runs : RunInv(v)'
  <2> DEFINE after == run[w].after
             page  == PageAfter(after)
  <2>1. UNCHANGED <<head, events, copies, checkpoint, stored>>
    BY <1>4 DEF GetEvents, stored
  <2>2. \A v \in Runs : v # w => run'[v] = run[v]
    BY <1>0, <1>4 DEF GetEvents, TypeOK
  <2>3. PICK next \in NextCursors(page, after) :
          run' = [run EXCEPT ![w] = [@ EXCEPT !.pc = "store", !.todo = page, !.next = next]]
    BY <1>4 DEF GetEvents
  <2>4. /\ run'[w].pc = "store"
        /\ run'[w].from = run[w].from
        /\ run'[w].todo = page
        /\ run'[w].next = next
    BY <1>0, <2>3, RunType DEF TypeOK, RunStates
  <2>5. Covered(run[w].from, after) /\ after \in Nat /\ run[w].from \in Nat
    BY <1>0, <1>4, RunType DEF GetEvents, RunInv, RunStates
  <2>6. next <= head
    BY <1>0, RunType DEF NextCursors, Last, PageAfter, EventsAfter, NoCursor
  <2>7. ASSUME NEW e \in events, after < e, e <= next PROVE e \in page
    <3>1. CASE page # {}
      BY <1>0, <2>5, <2>7, <3>1, PageIsPrefix DEF NextCursors
    <3>2. CASE page = {}
      <4>1. EventsAfter(after) # {}
        BY <2>7 DEF EventsAfter
      <4> QED
        BY <1>0, <2>5, <3>2, <4>1, PageNotEmpty
    <3> QED
      BY <3>1, <3>2
  <2> HIDE DEF after, page
  <2>8. RunInv(w)'
    BY <1>0, <2>1, <2>4, <2>5, <2>6, <2>7, RunType DEF RunInv, Covered
  <2> QED
    BY <1>0, <2>1, <2>2, <2>8 DEF CheckpointCovers, RunInv, Covered
<1>5. ASSUME NEW w \in Runs, StoreEvent(w)
      PROVE  CheckpointCovers' /\ \A v \in Runs : RunInv(v)'
  <2>1. UNCHANGED <<head, events, checkpoint>>
    BY <1>5 DEF StoreEvent
  <2>2. stored \subseteq stored'
    BY <1>0, <1>5, StoredStays
  <2>3. PICK e \in run[w].todo :
          /\ run' = [run EXCEPT ![w] = [@ EXCEPT !.todo = run[w].todo \ {e}]]
          /\ copies' = [copies EXCEPT ![e] = IF @ < MaxCopies THEN @ + 1 ELSE @]
    BY <1>5 DEF StoreEvent
  <2>4. e \in stored'
    BY <1>0, <2>3, RunType, BoundsAssumption DEF stored, TypeOK, RunStates
  <2>5. \A v \in Runs : v # w => run'[v] = run[v]
    BY <1>0, <2>3 DEF TypeOK
  <2>6. /\ run'[w].pc = "store" /\ run[w].pc = "store"
        /\ run'[w].from = run[w].from
        /\ run'[w].next = run[w].next
        /\ run'[w].todo = run[w].todo \ {e}
    BY <1>0, <1>5, <2>3, RunType DEF StoreEvent, TypeOK, RunStates
  <2>7. RunInv(w)'
    BY <1>0, <2>1, <2>2, <2>4, <2>6 DEF RunInv
  <2>8. \A v \in Runs : v # w => RunInv(v)'
    BY <1>0, <2>1, <2>2, <2>5 DEF RunInv, Covered
  <2> QED
    BY <1>0, <2>1, <2>2, <2>7, <2>8 DEF CheckpointCovers
<1>6. ASSUME NEW w \in Runs, SaveCheckpoint(w)
      PROVE  CheckpointCovers' /\ \A v \in Runs : RunInv(v)'
  <2>1. UNCHANGED <<head, events, copies, stored>>
    BY <1>6 DEF SaveCheckpoint, stored
  <2>2. \A v \in Runs : v # w => run'[v] = run[v]
    BY <1>0, <1>6 DEF SaveCheckpoint, TypeOK
  <2>3. run'[w].pc = "idle"
    BY <1>0, <1>6 DEF SaveCheckpoint, TypeOK, Idle
  <2>4. checkpoint'.from = run[w].from /\ checkpoint'.cursor = run[w].next
    BY <1>6 DEF SaveCheckpoint
  <2>5. CheckpointCovers'
    BY <1>0, <1>6, <2>1, <2>4 DEF SaveCheckpoint, PageStored, CheckpointCovers, RunInv
  <2> QED
    BY <1>0, <2>1, <2>2, <2>3, <2>5 DEF RunInv, Covered
<1>7. ASSUME NEW w \in Runs, Abort(w)
      PROVE  CheckpointCovers' /\ \A v \in Runs : RunInv(v)'
  <2>1. UNCHANGED <<head, events, copies, checkpoint, stored>>
    BY <1>7 DEF Abort, stored
  <2>2. \A v \in Runs : v # w => run'[v] = run[v]
    BY <1>0, <1>7 DEF Abort, TypeOK
  <2>3. run'[w].pc = "idle"
    BY <1>0, <1>7 DEF Abort, TypeOK, Idle
  <2> QED
    BY <1>0, <2>1, <2>2, <2>3 DEF CheckpointCovers, RunInv, Covered
<1>8. CASE UNCHANGED vars
  BY <1>0, <1>8 DEF vars, CheckpointCovers, RunInv, Covered, stored
<1> QED
  BY <1>1, <1>2, <1>3, <1>4, <1>5, <1>6, <1>7, <1>8 DEF Next, Step

-----------------------------------------------------------------------------

\* The inductive invariant holds in every reachable state.
THEOREM Invariance == Spec => []IInv
<1>1. IInv /\ [Next]_vars => IInv'
  BY TypeStep, CoverStep DEF IInv
<1> QED
  BY InitInv, <1>1, PTL DEF Spec

\* Every variable keeps its type, in particular the cursor never passes the
\* latest ledger, for any number of runs.
THEOREM TypeCorrect == Spec => []TypeOK
<1>1. IInv => TypeOK
  BY DEF IInv
<1> QED
  BY Invariance, <1>1, PTL

\* The checkpoint never runs ahead of the stored rows: no kill between two
\* inserts and no overlap of runs loses an event the cursor has passed.
THEOREM CheckpointNeverAhead == Spec => []CheckpointCovers
<1>1. IInv => CheckpointCovers
  BY DEF IInv
<1> QED
  BY Invariance, <1>1, PTL

-----------------------------------------------------------------------------
(* Copies, when runs do not overlap.                                       *)

Room(e) == copies[e] <= failures

\* Where run w may still store an event, no copy is unexplained by a failure.
CopyInv(w) ==
  /\ \A e \in Ledgers : copies[e] <= 1 + failures
  /\ run[w].pc = "idle" => \A e \in Ledgers : e > checkpoint.cursor => Room(e)
  /\ run[w].pc = "latest" => \A e \in Ledgers : Room(e)
  /\ run[w].pc = "fetch" => \A e \in Ledgers : e > run[w].after => Room(e)
  /\ run[w].pc = "store" =>
       /\ \A e \in run[w].todo : e <= run[w].next
       /\ \A e \in Ledgers : e \in run[w].todo \/ e > run[w].next => Room(e)

LEMMA CopyStep ==
  ASSUME ~ CursorOptional, NEW w \in Runs, \A v \in Runs : v = w,
         IInv, CopyInv(w), [Next]_vars
  PROVE  CopyInv(w)'
<1>1. /\ TypeOK /\ RunInv(w)
      /\ copies \in [Ledgers -> 0..MaxCopies] /\ failures \in Nat /\ head \in Nat
      /\ run[w] \in RunStates /\ run \in [Runs -> RunStates]
      /\ \A e \in Ledgers : e \in Nat /\ e > NoCursor /\ copies[e] \in Nat
  <2>1. TypeOK /\ RunInv(w)
    BY DEF IInv
  <2>2. /\ copies \in [Ledgers -> 0..MaxCopies] /\ failures \in Nat /\ head \in Nat
        /\ run[w] \in RunStates /\ run \in [Runs -> RunStates]
    BY <2>1, BoundsAssumption, RunType DEF TypeOK
  <2>3. ASSUME NEW e \in Ledgers PROVE e \in Nat /\ e > NoCursor /\ copies[e] \in Nat
    <3>1. copies[e] \in 0..MaxCopies
      BY <2>2
    <3> QED
      BY <3>1, BoundsAssumption DEF Ledgers, NoCursor
  <2> QED
    BY <2>1, <2>2, <2>3
<1>2. CASE CloseLedger
  BY <1>2 DEF CloseLedger, CopyInv, Room
<1>3. CASE GetCheckpoint(w)
  <2>1. UNCHANGED <<copies, failures>> /\ run[w].pc = "idle"
    BY <1>3 DEF GetCheckpoint
  <2>2. CASE checkpoint.cursor # NoCursor
    <3>1. run'[w].pc = "fetch" /\ run'[w].after = checkpoint.cursor
      BY <1>1, <1>3, <2>2 DEF GetCheckpoint, Idle
    <3> QED
      BY <2>1, <3>1 DEF CopyInv, Room
  <2>3. CASE checkpoint.cursor = NoCursor
    <3>1. run'[w].pc = "latest"
      BY <1>1, <1>3, <2>3 DEF GetCheckpoint, Idle
    <3> QED
      BY <1>1, <2>1, <2>3, <3>1 DEF CopyInv, Room
  <2> QED
    BY <2>2, <2>3
<1>4. CASE GetLatestLedger(w)
  <2>1. UNCHANGED <<copies, failures>> /\ run[w].pc = "latest"
    BY <1>4 DEF GetLatestLedger
  <2>2. run'[w].pc = "fetch"
    BY <1>1, <1>4 DEF GetLatestLedger, Idle
  <2> QED
    BY <2>1, <2>2 DEF CopyInv, Room
<1>5. CASE GetEvents(w)
  <2> DEFINE after == run[w].after
             page  == PageAfter(after)
  <2>1. UNCHANGED <<copies, failures>> /\ run[w].pc = "fetch" /\ after \in Nat /\ after <= head
    BY <1>1, <1>5 DEF GetEvents, RunInv, RunStates
  <2>2. PICK next \in NextCursors(page, after) :
          run' = [run EXCEPT ![w] = [@ EXCEPT !.pc = "store", !.todo = page, !.next = next]]
    BY <1>5 DEF GetEvents
  <2>3. run'[w].pc = "store" /\ run'[w].todo = page /\ run'[w].next = next
    BY <1>1, <2>2 DEF RunStates
  <2>4. \A e \in page : e \in Nat /\ e > after
    BY <1>1, RunType DEF PageAfter, EventsAfter
  <2>5. next \in Nat /\ next >= after /\ \A e \in page : e <= next
    <3>1. CASE page # {}
      <4>1. next \in page /\ \A e \in page : e <= next
        BY <3>1 DEF NextCursors, Last
      <4> QED
        BY <2>1, <2>4, <4>1
    <3>2. CASE page = {}
      <4>1. next = head
        BY <3>2 DEF NextCursors
      <4> QED
        BY <1>1, <2>1, <3>2, <4>1
    <3> QED
      BY <3>1, <3>2
  <2> HIDE DEF page
  <2>6. ASSUME NEW e \in Ledgers, e \in page \/ e > next PROVE Room(e)
    <3>1. e > after
      BY <1>1, <2>1, <2>4, <2>5, <2>6
    <3> QED
      BY <2>1, <3>1 DEF CopyInv
  <2> QED
    BY <2>1, <2>3, <2>5, <2>6 DEF CopyInv, Room
<1>6. CASE StoreEvent(w)
  <2>1. PICK e \in run[w].todo :
          /\ run' = [run EXCEPT ![w] = [@ EXCEPT !.todo = run[w].todo \ {e}]]
          /\ copies' = [copies EXCEPT ![e] = IF @ < MaxCopies THEN @ + 1 ELSE @]
    BY <1>6 DEF StoreEvent
  <2>2. failures' = failures /\ run[w].pc = "store" /\ e \in Ledgers
    BY <1>1, <1>6 DEF StoreEvent, RunStates
  <2>3. run'[w].pc = "store" /\ run'[w].todo = run[w].todo \ {e} /\ run'[w].next = run[w].next
    BY <1>1, <2>1, <2>2 DEF RunStates
  <2>4. /\ copies'[e] \in {copies[e], copies[e] + 1} /\ copies[e] <= failures
        /\ \A d \in Ledgers : d # e => copies'[d] = copies[d]
    BY <1>1, <2>1, <2>2 DEF CopyInv, Room
  <2>5. \A d \in Ledgers : copies'[d] <= 1 + failures
    BY <1>1, <2>2, <2>4 DEF CopyInv
  <2>6. ASSUME NEW d \in Ledgers, d \in run[w].todo \ {e} \/ d > run[w].next
        PROVE  copies'[d] <= failures
    <3>1. d # e
      BY <1>1, <2>1, <2>2, <2>6 DEF CopyInv, RunStates, NoCursor
    <3>2. Room(d)
      BY <2>2, <2>6 DEF CopyInv
    <3> QED
      BY <2>4, <3>1, <3>2 DEF Room
  <2> QED
    BY <2>2, <2>3, <2>5, <2>6 DEF CopyInv, Room
<1>7. CASE SaveCheckpoint(w)
  <2>1. /\ UNCHANGED <<copies, failures>> /\ run[w].pc = "store"
        /\ checkpoint'.cursor = run[w].next
    BY <1>7 DEF SaveCheckpoint
  <2>2. run'[w].pc = "idle"
    BY <1>1, <1>7 DEF SaveCheckpoint, Idle
  <2> QED
    BY <2>1, <2>2 DEF CopyInv, Room
<1>8. CASE Abort(w)
  <2>1. UNCHANGED copies /\ failures' = failures + 1
    BY <1>8 DEF Abort
  <2>2. run'[w].pc = "idle"
    BY <1>1, <1>8 DEF Abort, Idle
  <2>3. \A e \in Ledgers : copies[e] <= failures + 1
    BY <1>1 DEF CopyInv
  <2> QED
    BY <1>1, <2>1, <2>2, <2>3 DEF CopyInv, Room
<1>9. CASE UNCHANGED vars
  BY <1>9 DEF vars, CopyInv, Room
<1> QED
  BY <1>2, <1>3, <1>4, <1>5, <1>6, <1>7, <1>8, <1>9 DEF Next, Step

\* When runs do not overlap and every page comes with a cursor, an event has at
\* most one copy per failed or killed run and one more: a failure repeats only
\* what lies behind the saved cursor (blendEventWorker).
THEOREM CopiesExplained ==
  ASSUME ~ CursorOptional, NEW w \in Runs, \A v \in Runs : v = w
  PROVE  Spec => []CopiesBoundedByFailures
<1>1. Init => CopyInv(w)
  <2>1. Init => run[w].pc = "idle" /\ failures = 0 /\ \A e \in Ledgers : copies[e] = 0
    BY DEF Init, Idle
  <2> QED
    BY <2>1 DEF CopyInv, Room
<1>2. IInv /\ CopyInv(w) /\ [Next]_vars => CopyInv(w)'
  BY CopyStep
<1>3. CopyInv(w) => CopiesBoundedByFailures
  BY DEF CopyInv, CopiesBoundedByFailures
<1> QED
  BY Invariance, <1>1, <1>2, <1>3, PTL DEF Spec
=============================================================================
