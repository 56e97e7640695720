----------------------------- MODULE RecordEditors -----------------------------
(***************************************************************************)
(* Three pages of the dashboard built the same way: the derived pipelines   *)
(* (derived/pipelines/page.tsx), the external sources                       *)
(* (derived/sources/page.tsx) and the API builder (modeling/api/page.tsx).  *)
(* Each shows a list of records kept by the service, fills one form from    *)
(* the selected record, and saves, deletes, runs, clones or tests through   *)
(* requests answered later, while the operator selects other records.       *)
(*                                                                         *)
(* A handler runs up to its first await in one step and resumes in another; *)
(* a render and its effects belong to the step that changed the state.  A   *)
(* record is its identity; the form is the record that last filled it, for  *)
(* the operator may type anything over it.  Notices, the JSON and parameter *)
(* editors, the stream of live events and the loading flag of the list,     *)
(* which disables nothing, are left out.                                    *)
(***************************************************************************)
EXTENDS Naturals, FiniteSets, Bags

CONSTANTS Ids,        \* the records the service may hold
          System,     \* the built-in ones, which the page will not delete
          None,       \* null: no selection, or a form no record has filled
          MaxLoads,   \* bound: lists under way, and loads of runs
          MaxTasks    \* bound: other requests under way

Pages == {"pipelines", "sources", "endpoints"}
Tasks == {"save", "delete", "run", "runAll", "clone", "preview"}

VARIABLES
  page,       \* the page shown
  kept,       \* the service: the records there are
  records,    \* pipelines, sources, records: the list shown
  selectedId,
  form,       \* the record that filled the form
  loads,      \* the bag of lists under way: what each brings, and whether it was asked
              \* for with no selection, and so selects the first record
  runsOf,     \* whose runs are shown
  runLoads,   \* the bag of those whose runs are being loaded
  resultOf,   \* whose preview, test or run result is shown
  task,       \* the request of each kind under way
  late        \* an answer for another record came after the form (ghost)

editorVars == <<page, kept, records, selectedId, form, loads, runsOf, runLoads,
                resultOf, task, late>>

Rest == [at |-> "rest"]
Open == {t \in Tasks : task[t] # Rest}
Selected == selectedId \in records   \* selectedPipeline, selectedSource, ...
HasRuns == page # "endpoints"
One(x) == SetToBag({x})
Fits(b) == BagCardinality(b) <= MaxLoads

EditorTypeOK ==
  /\ page \in Pages
  /\ {kept, records, runsOf, BagToSet(runLoads)} \subseteq SUBSET Ids
  /\ {selectedId, form, resultOf} \subseteq Ids \cup {None}
  /\ BagToSet(loads) \subseteq [list : SUBSET Ids, first : BOOLEAN]
  /\ late \in BOOLEAN

EditorInit ==
  /\ page \in Pages
  /\ kept \in SUBSET Ids
  /\ records = {} /\ selectedId = None /\ form = None
  /\ loads = One([list |-> kept, first |-> TRUE])
  /\ runsOf = {} /\ runLoads = EmptyBag /\ resultOf = None
  /\ task = [t \in Tasks |-> Rest]
  /\ late = FALSE

-----------------------------------------------------------------------------
(* Rendering. *)

(* The effect on the selected record: when it is there, and is not the      *)
(* object it was, the form is filled from it, its runs are asked for, and   *)
(* the preview rows or the test result are cleared.                         *)
MutRefill(id) ==   \* the form is filled only when it was empty
  /\ form' = IF form = None THEN id ELSE form
  /\ runLoads' = IF HasRuns THEN runLoads (+) One(id) ELSE runLoads
  /\ Fits(runLoads')
  /\ resultOf' = IF HasRuns THEN None ELSE resultOf
  /\ late' = FALSE

Refill(id) ==
  /\ form' = id
  /\ runLoads' = IF HasRuns THEN runLoads (+) One(id) ELSE runLoads
  /\ Fits(runLoads')
  /\ resultOf' = IF HasRuns THEN None ELSE resultOf
  /\ late' = FALSE

(* Show list l with selection id; the records of new are new objects.  A    *)
(* changed selection makes a new loadPipelines, and so another list.        *)
Show(id, l, new, under, files) ==
  /\ selectedId' = id /\ records' = l
  /\ IF id \in l /\ (id # selectedId \/ id \notin records \/ id \in new)
     THEN Refill(id)
     ELSE UNCHANGED <<form, runLoads, resultOf, late>>
  /\ loads' = under (+) IF id = selectedId THEN EmptyBag
                        ELSE One([list |-> files, first |-> id = None])
  /\ Fits(loads')

(* resetForm: the New button, and the end of a delete. *)
Reset(l, files) ==
  /\ selectedId' = None /\ records' = l /\ form' = None
  /\ loads' = loads (+) IF selectedId = None THEN EmptyBag
                        ELSE One([list |-> files, first |-> TRUE])
  /\ Fits(loads')
  /\ runsOf' = {}
  /\ resultOf' = IF HasRuns THEN None ELSE resultOf
  /\ late' = FALSE

-----------------------------------------------------------------------------
(* Lists, runs and the selection. *)

SelectRecord(id) ==
  /\ id \in records
  /\ Show(id, records, {}, loads, kept)
  /\ UNCHANGED <<page, kept, runsOf, task>>

NewRecord ==
  /\ Reset(records, kept)
  /\ UNCHANGED <<page, kept, runLoads, task>>

Refresh ==
  /\ loads' = loads (+) One([list |-> kept, first |-> selectedId = None])
  /\ Fits(loads')
  /\ UNCHANGED <<page, kept, records, selectedId, form, runsOf, runLoads,
                 resultOf, task, late>>

(* A list is shown as it comes; one asked for with no selection selects its *)
(* first record, whatever is selected by now.                               *)
Shown(l, under) ==
  \E id \in IF l.first /\ l.list # {} THEN l.list ELSE {selectedId} :
     Show(id, l.list, l.list, under, kept)

ListReturned(l) ==
  /\ BagIn(l, loads)
  /\ \/ Shown(l, loads (-) One(l))
     \/ /\ loads' = loads (-) One(l)
        /\ UNCHANGED <<records, selectedId, form, runLoads, resultOf, late>>
  /\ UNCHANGED <<page, kept, runsOf, task>>

(* Runs are shown for whichever record they were asked; a load that fails   *)
(* shows none.                                                              *)
ShowRuns(id) ==
  /\ runsOf' \in {{id}, {}}
  /\ late' = (late \/ id # selectedId)

RunsReturned(id) ==
  /\ BagIn(id, runLoads)
  /\ runLoads' = runLoads (-) One(id)
  /\ ShowRuns(id)
  /\ UNCHANGED <<page, kept, records, selectedId, form, loads, resultOf, task>>

-----------------------------------------------------------------------------
(* Requests. *)

Begin(t, r) ==
  /\ task[t] = Rest /\ Cardinality(Open) < MaxTasks
  /\ task' = [task EXCEPT ![t] = r]
  /\ UNCHANGED <<page, kept, records, selectedId, form, loads, runsOf, runLoads,
                 resultOf, late>>

Sent(id) == [at |-> "sent", id |-> id]
End(t) == task' = [task EXCEPT ![t] = Rest]
Awaits(t, at) == task[t] # Rest /\ task[t].at = at

(* A save updates the selected record, and with none selected creates one.  *)
(* The form is that of the same render.                                     *)
SaveTarget == IF Selected THEN selectedId ELSE None

Save == Begin("save", [at |-> "sent", id |-> SaveTarget, form |-> form])

Updated ==
  LET id == task["save"].id IN
  /\ Awaits("save", "sent") /\ id # None /\ id \in kept
  /\ End("save")
  /\ Show(selectedId, records, {id}, loads, kept)
  /\ UNCHANGED <<page, kept, runsOf>>

Created ==
  /\ Awaits("save", "sent") /\ task["save"].id = None
  /\ End("save")
  /\ \E id \in Ids \ kept :
       /\ kept' = kept \cup {id}
       /\ Show(id, records \cup {id}, {id}, loads, kept')
  /\ UNCHANGED <<page, runsOf>>

Delete == /\ Selected /\ (page # "endpoints" => selectedId \notin System)
          /\ Begin("delete", Sent(selectedId))

(* The form is reset even when the operator has selected another record. *)
Deleted ==
  /\ Awaits("delete", "sent") /\ task["delete"].id \in kept
  /\ End("delete")
  /\ kept' = kept \ {task["delete"].id}
  /\ Reset(records \ {task["delete"].id}, kept')
  /\ UNCHANGED <<page, runLoads>>

(* Running a pipeline, testing a source or executing an endpoint. *)
Run == /\ Selected /\ task["runAll"] = Rest
       /\ Begin("run", Sent(selectedId))

RunAll == /\ page = "pipelines" /\ records # {}
          /\ Begin("runAll", Sent(SaveTarget))

Preview == page = "pipelines" /\ Selected /\ Begin("preview", Sent(selectedId))
Clone == page = "pipelines" /\ Selected /\ Begin("clone", Sent(selectedId))

Then(t, at) == task' = [task EXCEPT ![t] = [at |-> at, id |-> task[t].id,
                                            list |-> kept]]

(* The run of a pipeline is put before the runs shown, then the list is     *)
(* asked for.                                                               *)
PipelineRan ==
  /\ page = "pipelines" /\ Awaits("run", "sent")
  /\ runsOf' \in {runsOf, runsOf \cup {task["run"].id}}
  /\ late' = (late \/ task["run"].id # selectedId)
  /\ Then("run", "list")
  /\ UNCHANGED <<page, kept, records, selectedId, form, loads, runLoads, resultOf>>

(* The test of a source is shown, then its runs, then the list. *)
SourceTested ==
  /\ page = "sources" /\ Awaits("run", "sent")
  /\ resultOf' = task["run"].id
  /\ late' = (late \/ task["run"].id # selectedId)
  /\ Then("run", "runs")
  /\ UNCHANGED <<page, kept, records, selectedId, form, loads, runsOf, runLoads>>

SourceRunsShown ==
  /\ page = "sources" /\ Awaits("run", "runs")
  /\ ShowRuns(task["run"].id)
  /\ Then("run", "list")
  /\ UNCHANGED <<page, kept, records, selectedId, form, loads, runLoads, resultOf>>

EndpointRan ==
  /\ page = "endpoints" /\ Awaits("run", "sent")
  /\ resultOf' = task["run"].id
  /\ End("run")
  /\ UNCHANGED <<page, kept, records, selectedId, form, loads, runsOf, runLoads,
                 late>>

AllRan ==
  /\ Awaits("runAll", "sent")
  /\ Then("runAll", "list")
  /\ UNCHANGED <<page, kept, records, selectedId, form, loads, runsOf, runLoads,
                 resultOf, late>>

(* The list after a run, with the selection of the render that ran: there   *)
(* was one, except that run-all may be pressed with none.                   *)
RunListed(t) ==
  /\ Awaits(t, "list")
  /\ \/ Shown([list |-> task[t].list, first |-> task[t].id = None], loads)
     \/ UNCHANGED <<records, selectedId, form, loads, runLoads, resultOf, late>>
  /\ IF t = "runAll" /\ task[t].id # None THEN Then(t, "runs") ELSE End(t)
  /\ UNCHANGED <<page, kept, runsOf>>

AllRunsShown ==
  /\ Awaits("runAll", "runs")
  /\ ShowRuns(task["runAll"].id)
  /\ End("runAll")
  /\ UNCHANGED <<page, kept, records, selectedId, form, loads, runLoads, resultOf>>

Previewed ==
  /\ Awaits("preview", "sent")
  /\ resultOf' = task["preview"].id
  /\ late' = (late \/ task["preview"].id # selectedId)
  /\ End("preview")
  /\ UNCHANGED <<page, kept, records, selectedId, form, loads, runsOf, runLoads>>

Cloned ==
  /\ Awaits("clone", "sent")
  /\ \E id \in Ids \ kept :
       /\ kept' = kept \cup {id}
       /\ Show(id, records \cup {id}, {id}, loads, kept')
       /\ task' = [task EXCEPT !["clone"] = [at |-> "runs", id |-> id]]
  /\ UNCHANGED <<page, runsOf>>

CloneRunsShown ==
  /\ Awaits("clone", "runs")
  /\ ShowRuns(task["clone"].id)
  /\ End("clone")
  /\ UNCHANGED <<page, kept, records, selectedId, form, loads, runLoads, resultOf>>

(* A request fails, or its answer is lost after the service acted. *)
Failed(t) ==
  /\ Awaits(t, "sent")
  /\ End(t)
  /\ \/ UNCHANGED kept
     \/ t = "delete" /\ kept' = kept \ {task[t].id}
     \/ /\ t = "clone" \/ (t = "save" /\ task[t].id = None)
        /\ \E id \in Ids \ kept : kept' = kept \cup {id}
  /\ UNCHANGED <<page, records, selectedId, form, loads, runsOf, runLoads,
                 resultOf, late>>

EditorNext ==
  \/ \E id \in Ids : SelectRecord(id)
  \/ NewRecord
  \/ Refresh
  \/ \E l \in BagToSet(loads) : ListReturned(l)
  \/ \E id \in Ids : RunsReturned(id)
  \/ Save
  \/ Updated
  \/ Created
  \/ Delete
  \/ Deleted
  \/ Run
  \/ RunAll
  \/ Preview
  \/ Clone
  \/ PipelineRan
  \/ SourceTested
  \/ SourceRunsShown
  \/ EndpointRan
  \/ AllRan
  \/ \E t \in {"run", "runAll"} : RunListed(t)
  \/ AllRunsShown
  \/ Previewed
  \/ Cloned
  \/ CloneRunsShown
  \/ \E t \in Tasks : Failed(t)

EditorSpec == EditorInit /\ [][EditorNext]_editorVars

-----------------------------------------------------------------------------
(* However lists, saves, deletes and clones are answered, an update carries *)
(* the form that was filled from the very record it updates.                *)
UpdateOwnForm ==
  task["save"] # Rest /\ task["save"].id # None =>
    task["save"].form = task["save"].id

(* The runs, the preview and the test result on screen are the selected     *)
(* record's, or the runs of the selection are still to come; only an answer *)
(* for a record the operator has left can put another's there.              *)
ShownIsSelected ==
  HasRuns /\ ~late =>
    /\ runsOf \subseteq {selectedId} \/ BagIn(selectedId, runLoads)
    /\ resultOf \in {None, selectedId}
=============================================================================
