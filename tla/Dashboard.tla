------------------------------- MODULE Dashboard -------------------------------
(***************************************************************************)
(* The dashboard's pages as one system: the router shows one page, whose    *)
(* state lives from its mounting to its unmounting, so a behaviour is a     *)
(* visit to one of them and the state of the others stays as it was.        *)
(***************************************************************************)
EXTENDS Naturals

CONSTANTS Paths, Generated, NoPath, Unlisted, MaxJobs, MaxLists,
          Ids, System, None, MaxLoads, MaxTasks,
          MaxAsks, MaxSessions, MaxRuns, MaxRevision, MaxRefreshes,
          MaxMetaLoads, MaxRecent, MaxReads, NoAnswer

ASSUME StudioAssumption == Generated \subseteq Paths /\ NoPath \notin Paths
ASSUME EditorAssumption == System \subseteq Ids /\ None \notin Ids

VARIABLES
  route,
  stored, scope, listed, lists, selected, load, fileLoading, editor, original,
  job, astray,
  page, kept, records, selectedId, form, loads, runsOf, runLoads, resultOf,
  task, late,
  auto, manual, loadingContext, asking, asked, askResult, executing, execution,
  refreshed, overlapped,
  sessionId, opened, runs, shown, initsDue, loading, sending, sentTo, hurried,
  orphaned,
  revision, agent, drafts, refreshes, entering, busy, acked, crossed, gone,
  cubeReady, cubeMeta, metaLoads, queryDraft, labBusy, sent, recent,
  deployed, session, initial, reads, authState, showPanel, step, hasKey,
  submitting,
  preset, agentType, tools, cubes, members, metaKnown, request, unticked

Studio == INSTANCE ModelStudio
Editor == INSTANCE RecordEditors
Play   == INSTANCE AgentPlayground
Chat   == INSTANCE AgentChat
Work   == INSTANCE AgentWorkspace WITH loading <- entering
Lab    == INSTANCE QueryLab
Access == INSTANCE AccessPanel
Build  == INSTANCE AgentBuilder

studioState == <<stored, scope, listed, lists, selected, load, fileLoading,
                 editor, original, job, astray>>
editorState == <<page, kept, records, selectedId, form, loads, runsOf, runLoads,
                 resultOf, task, late>>
playState == <<auto, manual, loadingContext, asking, asked, askResult, executing,
               execution, refreshed, overlapped>>
chatState == <<sessionId, opened, runs, shown, initsDue, loading, sending, sentTo,
               hurried, orphaned>>
workState == <<revision, agent, drafts, refreshes, entering, busy, acked, crossed,
               gone>>
labState == <<cubeReady, cubeMeta, metaLoads, queryDraft, labBusy, sent,
              recent>>
accessState == <<deployed, session, initial, reads, authState, showPanel, step,
                 hasKey, submitting>>
buildState == <<preset, agentType, tools, cubes, members, metaKnown, request,
                unticked>>
pageStates == <<studioState, editorState, playState, chatState, workState,
                labState>>
vars == <<route, pageStates, accessState, buildState>>

Routes == {"studio", "records", "playground", "converse", "workspace",
           "query", "new", "panel"}

(* A page not shown is at one of its initial states, whichever. *)
Init ==
  /\ route \in Routes
  /\ Studio!StudioInit /\ (route # "studio" => stored = {})
  /\ Editor!EditorInit /\ (route # "records" => page = "pipelines" /\ kept = {})
  /\ Play!PlayInit
  /\ Chat!ChatInit
  /\ Work!WorkInit
  /\ Lab!LabInit /\ (route # "query" => ~cubeReady)
  /\ Build!BuilderInit
  /\ Access!AccessInit
  /\ (route # "panel" => deployed.can_login /\ ~deployed.demo_mode /\ session)

Next ==
  /\ UNCHANGED route
  /\ \/ /\ route = "studio" /\ Studio!StudioNext
        /\ UNCHANGED <<editorState, playState, chatState, workState,
                       labState, accessState, buildState>>
     \/ /\ route = "records" /\ Editor!EditorNext
        /\ UNCHANGED <<studioState, playState, chatState, workState,
                       labState, accessState, buildState>>
     \/ /\ route = "playground" /\ Play!PlayNext
        /\ UNCHANGED <<studioState, editorState, chatState, workState,
                       labState, accessState, buildState>>
     \/ /\ route = "converse" /\ Chat!ChatNext
        /\ UNCHANGED <<studioState, editorState, playState, workState,
                       labState, accessState, buildState>>
     \/ /\ route = "workspace" /\ Work!WorkNext
        /\ UNCHANGED <<studioState, editorState, playState, chatState,
                       labState, accessState, buildState>>
     \/ /\ route = "query" /\ Lab!LabNext
        /\ UNCHANGED <<studioState, editorState, playState, chatState, workState,
                       accessState, buildState>>
     \/ /\ route = "new" /\ Build!BuilderNext
        /\ UNCHANGED <<pageStates, accessState>>
     \/ /\ route = "panel" /\ Access!AccessNext
        /\ UNCHANGED <<pageStates, buildState>>

Spec == Init /\ [][Next]_vars

-----------------------------------------------------------------------------
(* The pages' variables have their types. *)
TypeOK ==
  /\ Studio!StudioTypeOK /\ Editor!EditorTypeOK /\ Play!PlayTypeOK
  /\ Chat!ChatTypeOK /\ Work!WorkTypeOK
  /\ Lab!LabTypeOK /\ Build!BuilderTypeOK /\ Access!AccessTypeOK

(* Studio: a save never writes one file's text over another file. *)
OwnText == Studio!OwnText

(* Record editors: an update carries the form of the record it updates, and *)
(* what is shown belongs to the record selected.                            *)
FormsMatchRecords == Editor!UpdateOwnForm /\ Editor!ShownIsSelected

(* Playground: in manual approval mode no plan is run by asking for it, and *)
(* the rows shown are those of the plan shown.                              *)
PlansAsApproved == Play!ManualHolds /\ Play!RowsAreOfPlan

(* Chat: messages go to the session whose messages are shown. *)
OneConversation == Chat!OneConversation

(* Workspace: the page never goes back behind an answered save. *)
NeverOlder == Work!NeverOlder

(* Query lab and agent form: a query sent names only members the page       *)
(* listed, but in pairs of an order and in segments, and an agent only what *)
(* its own runtime and cubes offer, but after a cube was unticked.          *)
SentAsOffered == Lab!OnlyListedMembers /\ Build!AgentAsOffered

(* Shell: the panel stays while authentication is required. *)
GateHolds == Access!GateHolds
=============================================================================
