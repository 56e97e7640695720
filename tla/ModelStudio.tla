------------------------------ MODULE ModelStudio ------------------------------
(***************************************************************************)
(* The model studio page of the dashboard (modeling/studio/page.tsx): one   *)
(* text editor over the model files the service keeps.  The page learns the *)
(* files from a list, shows one of them, and lets the operator edit and     *)
(* save it, create, delete and regenerate files, and approve a drafted one. *)
(* Every one of these is a request whose answer arrives later, while the    *)
(* operator goes on clicking: the page only disables some of its buttons.   *)
(*                                                                         *)
(* React state is a variable; a handler runs up to its first await in one   *)
(* step and resumes in another.  A render and the effects it triggers       *)
(* belong to the step that changed the state.  The service's files are the  *)
(* set of those that exist; a text in the page is the file it was read      *)
(* from, and whether it was changed since.  Messages, the schema table, the *)
(* storage badges and the draft's own preview pane are left out.            *)
(***************************************************************************)
EXTENDS Naturals, FiniteSets

CONSTANTS Paths,      \* the model files of the instance
          Generated,  \* those in the "generated" scope
          NoPath,     \* null: no file is selected
          Unlisted,   \* null: no list has been answered yet
          MaxJobs,    \* bound: requests under way besides lists and loads
          MaxLists    \* bound: lists under way

Revs == 0..1
Text == [of : Paths \cup {NoPath}, rev : Revs]
Blank(p) == [of |-> p, rev |-> 0]
Scopes == {"all", "generated"}
Kinds == {"save", "create", "delete", "apply", "approve"}

VARIABLES
  stored,       \* the service: the files there are
  scope,        \* modelScope
  listed,       \* modelFiles: the files of the last list shown
  lists,        \* lists under way: the snapshot each will bring
  selected,     \* selectedModelPath
  load,         \* the load that is still active, by path
  fileLoading,  \* modelFileLoading
  editor,       \* editorContent
  original,     \* editorOriginal
  job,          \* the state of each kind of request
  astray        \* the editor may hold another file's text (ghost)

studioVars == <<stored, scope, listed, lists, selected, load, fileLoading,
                editor, original, job, astray>>

Idle == [at |-> "idle"]
Busy == {k \in Kinds : job[k] # Idle}
Unsaved == selected # NoPath /\ editor # original

InScope(s) == IF s = "all" THEN Paths ELSE Generated
Listing(files, s) == files \cap InScope(s)

StudioTypeOK ==
  /\ stored \subseteq Paths
  /\ scope \in Scopes
  /\ listed \in {Unlisted} \cup SUBSET Paths
  /\ lists \subseteq SUBSET Paths
  /\ selected \in Paths \cup {NoPath}
  /\ load \in Paths \cup {NoPath}
  /\ fileLoading \in BOOLEAN
  /\ {editor, original} \subseteq Text
  /\ astray \in BOOLEAN

StudioInit ==
  /\ stored \in SUBSET Paths
  /\ scope = "all"
  /\ listed = Unlisted
  /\ lists = {Listing(stored, "all")}
  /\ selected = NoPath /\ load = NoPath /\ fileLoading = FALSE
  /\ editor = Blank(NoPath) /\ original = Blank(NoPath)
  /\ job = [k \in Kinds |-> Idle]
  /\ astray = FALSE

-----------------------------------------------------------------------------
(* The selection and the load it causes. *)

(* A selection the list does not hold gives way to the list's first file;   *)
(* the order of the list is the service's.                                  *)
Settle(p, l) == IF l = Unlisted \/ p \in l THEN {p}
                ELSE IF l = {} THEN {NoPath} ELSE l

MutStartLoad(q) ==  \* the cleanup that sets active = false is missing
  /\ load' = IF load # NoPath THEN load ELSE q
  /\ IF q = NoPath
     THEN /\ editor' = Blank(NoPath) /\ original' = Blank(NoPath)
          /\ UNCHANGED fileLoading
     ELSE fileLoading' = TRUE /\ UNCHANGED <<editor, original>>

(* A changed selection cancels the load under way and starts its own.  With *)
(* no file to show the editor is cleared, and the cancelled load leaves     *)
(* modelFileLoading set.                                                    *)
StartLoad(q) ==
  /\ load' = q
  /\ IF q = NoPath
     THEN /\ editor' = Blank(NoPath) /\ original' = Blank(NoPath)
          /\ UNCHANGED fileLoading
     ELSE fileLoading' = TRUE /\ UNCHANGED <<editor, original>>

(* Show file p under list l. *)
MoveTo(p, l) ==
  \E q \in Settle(p, l) :
    /\ selected' = q
    /\ IF p = selected /\ q = selected
       THEN UNCHANGED <<load, fileLoading, editor, original>>
       ELSE StartLoad(q)

-----------------------------------------------------------------------------
(* The list and the file. *)

RefreshModelFiles ==
  /\ Cardinality(lists) < MaxLists
  /\ lists' = lists \cup {Listing(stored, scope)}
  /\ UNCHANGED <<stored, scope, listed, selected, load, fileLoading, editor,
                 original, job, astray>>

(* A list is shown whenever it comes, an older one over a newer one too;    *)
(* one that fails is not shown.                                             *)
ListReturns(l) ==
  /\ l \in lists
  /\ lists' = lists \ {l}
  /\ \/ listed' = l /\ MoveTo(selected, l)
     \/ UNCHANGED <<listed, selected, load, fileLoading, editor, original>>
  /\ UNCHANGED <<stored, scope, job, astray>>

(* The operator has confirmed, where there are unsaved edits. *)
SelectModelFile(p) ==
  /\ listed # Unlisted /\ p \in listed /\ p # selected
  /\ MoveTo(p, listed)
  /\ UNCHANGED <<stored, scope, listed, lists, job, astray>>

ChangeScope(s) ==
  /\ s # scope
  /\ Cardinality(lists) < MaxLists
  /\ scope' = s
  /\ lists' = lists \cup {Listing(stored, s)}
  /\ UNCHANGED <<stored, listed, selected, load, fileLoading, editor, original,
                 job, astray>>

(* Only the active load is heard.  When it fails the editor keeps what it   *)
(* held, under the new file's name.                                         *)
LoadReturns ==
  /\ load # NoPath
  /\ load' = NoPath /\ fileLoading' = FALSE
  /\ \/ /\ load \in stored
        /\ editor' = Blank(load) /\ original' = Blank(load)
        /\ astray' = FALSE
     \/ /\ UNCHANGED <<editor, original>>
        /\ astray' = TRUE
  /\ UNCHANGED <<stored, scope, listed, lists, selected, job>>

Type ==
  /\ selected # NoPath /\ ~fileLoading
  /\ editor' = [editor EXCEPT !.rev = 1 - @]
  /\ UNCHANGED <<stored, scope, listed, lists, selected, load, fileLoading,
                 original, job, astray>>

-----------------------------------------------------------------------------
(* Requests that change the files. *)

Send(k, p, t) ==
  /\ job[k] = Idle /\ Cardinality(Busy) < MaxJobs
  /\ job' = [job EXCEPT ![k] = [at |-> "sent", path |-> p, text |-> t,
                                scope |-> scope]]
  /\ UNCHANGED <<stored, scope, listed, lists, selected, load, fileLoading,
                 editor, original, astray>>

(* modelSaveLoading is one flag for both of them. *)
Saving == job["save"] # Idle \/ job["create"] # Idle

CanSave == Unsaved /\ ~Saving /\ ~fileLoading
SaveModel == CanSave /\ Send("save", selected, editor)

(* The new file takes the editor's text, whatever file it came from, and    *)
(* replaces a file of that name without asking: from then on it is that     *)
(* file's text.                                                             *)
CreateModel(p) == ~Saving /\ Send("create", p, Blank(NoPath))

DeleteModel == /\ selected # NoPath /\ ~fileLoading
               /\ Send("delete", selected, Blank(NoPath))

(* A preview or a draft is a request of its own, which is open at any time  *)
(* and leaves only its answer behind; these second requests act on it.      *)
ApplyPreview == Send("apply", NoPath, Blank(NoPath))
ApproveDraft(p) == Send("approve", p, Blank(NoPath))

(* The files after the service carried request j of kind k out.  Applying a *)
(* preview rewrites the generated files, and may add and remove some.       *)
Outcome(k, j) ==
  CASE k \in {"save", "create", "approve"} -> {stored \cup {j.path}}
    [] k = "delete" -> {stored \ {j.path}}
    [] k = "apply" -> {(stored \ Generated) \cup new : new \in SUBSET Generated}

(* The request failed, or its answer was lost after the service acted.      *)
Refused(k) ==
  /\ job[k] # Idle /\ job[k].at = "sent"
  /\ stored' \in {stored} \cup Outcome(k, job[k])
  /\ job' = [job EXCEPT ![k] = Idle]
  /\ UNCHANGED <<scope, listed, lists, selected, load, fileLoading, editor,
                 original, astray>>

(* A write is answered, and the page asks for the list of the scope it had  *)
(* when the button was pressed.  A save marks the text it sent as the       *)
(* original, a delete clears the editor, whichever file is shown by then.   *)
Answered(k) ==
  /\ job[k] # Idle /\ job[k].at = "sent"
  /\ stored' \in Outcome(k, job[k])
  /\ job' = [job EXCEPT ![k] = [at |-> "refresh", path |-> job[k].path,
                                list |-> Listing(stored', job[k].scope)]]
  /\ CASE k = "save" -> original' = job[k].text /\ UNCHANGED <<editor, astray>>
       [] k = "delete" ->
            /\ editor' = Blank(job[k].path) /\ original' = Blank(job[k].path)
            /\ astray' = (astray \/ selected # job[k].path)
       [] OTHER -> UNCHANGED <<editor, original, astray>>
  /\ UNCHANGED <<scope, listed, lists, selected, load, fileLoading>>

(* The list after a write, which may fail silently; then a created or an    *)
(* approved file is selected.                                               *)
Refreshed(k) ==
  /\ job[k] # Idle /\ job[k].at = "refresh"
  /\ \E l \in {job[k].list, listed} :
       /\ listed' = l
       /\ MoveTo(IF k \in {"create", "approve"} THEN job[k].path ELSE selected, l)
  /\ job' = [job EXCEPT ![k] = IF k = "approve"
                               THEN [at |-> "reload", path |-> job[k].path]
                               ELSE Idle]
  /\ UNCHANGED <<stored, scope, lists, astray>>

(* The approved file is read once more and put into the editor, without     *)
(* asking which file the editor shows by then.                              *)
DraftLoaded ==
  LET p == job["approve"].path IN
  /\ job["approve"] # Idle /\ job["approve"].at = "reload"
  /\ \/ /\ p \in stored
        /\ editor' = Blank(p) /\ original' = Blank(p)
        /\ astray' = (p # selected)
     \/ UNCHANGED <<editor, original, astray>>
  /\ job' = [job EXCEPT !["approve"] = Idle]
  /\ UNCHANGED <<stored, scope, listed, lists, selected, load, fileLoading>>

StudioNext ==
  \/ RefreshModelFiles
  \/ \E l \in lists : ListReturns(l)
  \/ \E p \in Paths : SelectModelFile(p)
  \/ \E s \in Scopes : ChangeScope(s)
  \/ LoadReturns
  \/ Type
  \/ SaveModel
  \/ \E p \in Paths : CreateModel(p)
  \/ DeleteModel
  \/ ApplyPreview
  \/ \E p \in Paths : ApproveDraft(p)
  \/ \E k \in Kinds : Refused(k)
  \/ \E k \in Kinds : Answered(k)
  \/ \E k \in Kinds : Refreshed(k)
  \/ DraftLoaded

StudioSpec == StudioInit /\ [][StudioNext]_studioVars

-----------------------------------------------------------------------------
(* A save never writes one file's text over another file, unless the editor *)
(* came to hold it in one of three ways the page leaves open: the load of   *)
(* the selected file failed, or a delete or an approval ended after the     *)
(* operator had gone on to another file.                                    *)
OwnText == CanSave => editor.of = selected \/ astray
=============================================================================
