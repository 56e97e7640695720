---------------------------- MODULE DashboardProofs ----------------------------
(***************************************************************************)
(* What the dashboard's pages promise, for any files, records, bounds and   *)
(* numbers of requests under way, and what the status store and the API     *)
(* client under them keep to, for any number of polls, writes and streams,  *)
(* any retry count and any staleness threshold.  Each page has an invariant *)
(* of its own; the router shows one page at a time, so a step of Dashboard  *)
(* is a step of one page and leaves the others as they were.                *)
(***************************************************************************)
EXTENDS Dashboard, StatusStore, Integers, SequenceTheorems, TLAPS

LEMMA PagesStep ==
  ASSUME [Next]_vars
  PROVE  /\ Studio!StudioNext \/ UNCHANGED studioState
         /\ Editor!EditorNext \/ UNCHANGED editorState
         /\ Play!PlayNext \/ UNCHANGED playState
         /\ Chat!ChatNext \/ UNCHANGED chatState
         /\ Work!WorkNext \/ UNCHANGED workState
         /\ Lab!LabNext \/ UNCHANGED labState
         /\ Build!BuilderNext \/ UNCHANGED buildState
         /\ Access!AccessNext \/ UNCHANGED accessState
<1>1. CASE Next
  BY <1>1, Zenon DEF Next, pageStates
<1>2. CASE UNCHANGED vars
  BY <1>2 DEF vars, pageStates
<1> QED
  BY <1>1, <1>2

-----------------------------------------------------------------------------
(* The shell's access panel.                                               *)

\* An answer that asks for a login opens the panel, and what closes it, but
\* another answer, is the demo, which no such answer offers.
LEMMA AccessStep ==
  ASSUME Access!GateHolds, Access!AccessNext \/ UNCHANGED accessState
  PROVE  Access!GateHolds'
<1> USE DEF Access!GateHolds, Access!RequireAuth, Access!FullAccess
<1>1. ASSUME UNCHANGED <<authState, showPanel>> PROVE Access!GateHolds'
  BY <1>1
<1>2. ASSUME NEW a, Access!Shown(a) PROVE Access!GateHolds'
  BY <1>2 DEF Access!Shown, Access!ShouldGate
<1>3. CASE Access!PollAnswered
  BY <1>2, <1>3 DEF Access!PollAnswered
<1>4. CASE Access!FirstAnswered
  BY <1>1, <1>2, <1>4 DEF Access!FirstAnswered
<1>5. CASE Access!LoginShown
  BY <1>1, <1>2, <1>5 DEF Access!LoginShown
<1>6. CASE Access!ContinueToDemo
  BY <1>6 DEF Access!ContinueToDemo, Access!ShowChoiceStep, Access!CanContinueWithoutLogin
<1>7. CASE Access!OpenAdminAuthPanel
  BY <1>7 DEF Access!OpenAdminAuthPanel
<1>8. CASE Access!Redeployed \/ Access!SessionEnds \/ Access!Poll \/ Access!PollLost
  BY <1>1, <1>8 DEF Access!Redeployed, Access!SessionEnds, Access!Poll, Access!PollLost
<1>9. CASE \/ Access!RetryFirst \/ Access!AccessWithAuth \/ Access!BackToDemo
           \/ Access!TypeKey \/ Access!HandleLogin \/ Access!LoginAnswered
  BY <1>1, <1>9 DEF Access!RetryFirst, Access!AccessWithAuth, Access!BackToDemo,
     Access!TypeKey, Access!HandleLogin, Access!LoginAnswered
<1>10. CASE UNCHANGED accessState
  BY <1>1, <1>10 DEF accessState
<1> QED
  BY <1>3, <1>4, <1>5, <1>6, <1>7, <1>8, <1>9, <1>10 DEF Access!AccessNext

\* While the service, as last answered, requires authentication that the
\* visitor lacks and can give, the panel covers the page
\* (components/dashboard-shell.tsx).
THEOREM PanelStays == Spec => []GateHolds
<1>1. Init => GateHolds
  BY DEF Init, GateHolds, Access!GateHolds, Access!AccessInit, Access!RequireAuth
<1>2. GateHolds /\ [Next]_vars => GateHolds'
  BY PagesStep, AccessStep DEF GateHolds
<1> QED
  BY <1>1, <1>2, PTL DEF Spec

-----------------------------------------------------------------------------
(* The form that creates an agent.                                         *)

\* The tools ticked are those of the type shown, and the members ticked are
\* those of the cubes ticked until one of these is unticked.
BuildInv ==
  /\ tools \subseteq Build!Tools(agentType)
  /\ ~unticked => members \subseteq UNION {Build!MembersOf(c) : c \in cubes}
  /\ unticked \in BOOLEAN
  /\ Build!AgentAsOffered

LEMMA BuildStep ==
  ASSUME BuildInv, Build!BuilderNext \/ UNCHANGED buildState
  PROVE  BuildInv'
<1> DEFINE Of(cs) == UNION {Build!MembersOf(c) : c \in cs}
<1>1. ASSUME UNCHANGED <<tools, agentType, unticked, members, cubes, request>>
      PROVE  BuildInv'
  BY <1>1 DEF BuildInv, Build!AgentAsOffered
<1>2. ASSUME NEW p \in Build!Presets, Build!ChoosePreset(p) PROVE BuildInv'
  BY <1>2 DEF BuildInv, Build!AgentAsOffered, Build!ChoosePreset
<1>3. ASSUME NEW t \in Build!Types, Build!ChooseType(t) PROVE BuildInv'
  BY <1>3 DEF BuildInv, Build!AgentAsOffered, Build!ChooseType
<1>4. ASSUME NEW t, Build!ToggleTool(t) PROVE BuildInv'
  BY <1>4 DEF BuildInv, Build!AgentAsOffered, Build!ToggleTool, Build!Toggled
<1>5. ASSUME NEW c \in Build!Cubes, Build!ToggleCube(c) PROVE BuildInv'
  <2>1. /\ cubes' = Build!Toggled(c, cubes) /\ unticked' = (unticked \/ c \in cubes)
        /\ UNCHANGED <<agentType, tools, members, request>>
    BY <1>5 DEF Build!ToggleCube
  <2>2. ~unticked' => cubes \subseteq cubes'
    BY <2>1 DEF Build!Toggled
  <2>3. ~unticked' => members' \subseteq Of(cubes')
    BY <2>1, <2>2 DEF BuildInv
  <2> QED
    BY <2>1, <2>3 DEF BuildInv, Build!AgentAsOffered
<1>6. ASSUME NEW m, Build!ToggleMember(m) PROVE BuildInv'
  BY <1>6 DEF BuildInv, Build!AgentAsOffered, Build!ToggleMember, Build!Toggled,
     Build!MemberOptions
<1>7. CASE Build!AutoFill
  BY <1>7 DEF BuildInv, Build!AgentAsOffered, Build!AutoFill, Build!MemberOptions
<1>8. CASE Build!HandleCreate
  BY <1>8 DEF BuildInv, Build!AgentAsOffered, Build!HandleCreate
<1>9. CASE Build!CreateFails
  BY <1>9 DEF BuildInv, Build!AgentAsOffered, Build!CreateFails
<1>10. CASE Build!MetaAnswered \/ UNCHANGED buildState
  BY <1>1, <1>10 DEF Build!MetaAnswered, buildState
<1> QED
  BY <1>2, <1>3, <1>4, <1>5, <1>6, <1>7, <1>8, <1>9, <1>10 DEF Build!BuilderNext

-----------------------------------------------------------------------------
(* The playground.                                                         *)

\* A question and a run that are under way together are noted as such;
\* otherwise a run is of the plan shown, and no rows are shown while a
\* question is under way.
PlayInv ==
  /\ {auto, manual, refreshed, overlapped} \subseteq BOOLEAN
  /\ Play!ManualHolds
  /\ Play!RowsAreOfPlan
  /\ executing # 0 => executing = askResult.id \/ overlapped
  /\ asking.id # 0 /\ executing # 0 => overlapped
  /\ asking.id # 0 => execution = 0 \/ overlapped

LEMMA PlayStep ==
  ASSUME PlayInv, Play!PlayNext \/ UNCHANGED playState
  PROVE  PlayInv'
<1> USE DEF PlayInv, Play!ManualHolds, Play!RowsAreOfPlan
<1>0. /\ auto \in BOOLEAN /\ manual \in BOOLEAN
      /\ refreshed \in BOOLEAN /\ overlapped \in BOOLEAN
  OBVIOUS
<1>1. CASE Play!RefreshContext \/ UNCHANGED playState
  BY <1>1 DEF Play!RefreshContext, playState
<1>2. CASE Play!ContextReturns
  <2>1. /\ (auto' \in BOOLEAN /\ refreshed' = TRUE) \/ UNCHANGED <<auto, refreshed>>
        /\ UNCHANGED <<manual, asking, askResult, executing, execution, overlapped>>
    BY <1>2 DEF Play!ContextReturns
  <2>2. CASE auto' \in BOOLEAN /\ refreshed' = TRUE
    BY <1>0, <2>1, <2>2
  <2>3. CASE UNCHANGED <<auto, refreshed>>
    BY <2>1, <2>3
  <2> QED
    BY <2>1, <2>2, <2>3
<1>3. CASE Play!ToggleAuto
  BY <1>0, <1>3 DEF Play!ToggleAuto
<1>4. CASE Play!ToggleManual
  BY <1>0, <1>4 DEF Play!ToggleManual
<1>5. CASE Play!AskAgent
  BY <1>0, <1>5 DEF Play!AskAgent, Play!Asking
<1>6. CASE Play!AskReturns
  <2>1. asking' = Play!NoAsk /\ Play!Asking
        /\ UNCHANGED <<auto, manual, executing, refreshed, overlapped>>
    BY <1>6 DEF Play!AskReturns
  <2>2. \/ execution' = askResult'.id
        \/ execution' = execution /\ execution = 0
        \/ overlapped
    BY <1>6 DEF Play!AskReturns, Play!Answer, Play!Asking
  <2>3. asking'.id = 0
    BY <2>1 DEF Play!NoAsk
  <2> QED
    BY <2>1, <2>2, <2>3 DEF Play!Asking
<1>7. CASE Play!RunPlan
  BY <1>0, <1>7 DEF Play!RunPlan, Play!Asking
<1>8. CASE Play!RunReturns
  BY <1>8 DEF Play!RunReturns
<1> QED
  BY <1>1, <1>2, <1>3, <1>4, <1>5, <1>6, <1>7, <1>8 DEF Play!PlayNext

\* In manual approval mode asking runs no plan, unless the context was
\* answered since, and the rows shown are those of the plan shown, unless a
\* question and a run were under way together (agents/playground/page.tsx).
THEOREM PlansNeedApproval == Spec => []PlansAsApproved
<1>1. Init => PlayInv
  BY DEF Init, PlayInv, Play!PlayInit, Play!NoAsk, Play!NoPlan, Play!ManualHolds,
     Play!RowsAreOfPlan
<1>2. PlayInv /\ [Next]_vars => PlayInv'
  BY PagesStep, PlayStep
<1>3. PlayInv => PlansAsApproved
  BY DEF PlayInv, PlansAsApproved
<1> QED
  BY <1>1, <1>2, <1>3, PTL DEF Spec

-----------------------------------------------------------------------------
(* The model studio.                                                       *)

\* The load that is heard is that of the file selected, and until it is done
\* modelFileLoading keeps the editor closed; then the editor holds that file.
StudioInv ==
  /\ editor = [of |-> editor.of, rev |-> editor.rev]
  /\ astray \in BOOLEAN
  /\ load # NoPath => load = selected
  /\ selected # NoPath /\ ~fileLoading => editor.of = selected \/ astray

LEMMA StudioStep ==
  ASSUME StudioInv, Studio!StudioNext \/ UNCHANGED studioState
  PROVE  StudioInv'
<1> USE DEF StudioInv
<1>1. ASSUME UNCHANGED <<editor, load, selected, fileLoading, astray>> PROVE StudioInv'
  BY <1>1
<1>2. ASSUME NEW q, Studio!StartLoad(q), selected' = q, UNCHANGED astray PROVE StudioInv'
  BY <1>2 DEF Studio!StartLoad, Studio!Blank
<1>3. ASSUME NEW p, NEW l, Studio!MoveTo(p, l), UNCHANGED astray PROVE StudioInv'
  <2>1. PICK q \in Studio!Settle(p, l) :
          /\ selected' = q
          /\ IF p = selected /\ q = selected
             THEN UNCHANGED <<load, fileLoading, editor, original>>
             ELSE Studio!StartLoad(q)
    BY <1>3 DEF Studio!MoveTo
  <2> QED
    BY <1>1, <1>2, <1>3, <2>1
<1>4. ASSUME NEW l, Studio!ListReturns(l) PROVE StudioInv'
  BY <1>1, <1>3, <1>4 DEF Studio!ListReturns
<1>5. ASSUME NEW p, Studio!SelectModelFile(p) PROVE StudioInv'
  BY <1>3, <1>5 DEF Studio!SelectModelFile
<1>6. CASE Studio!LoadReturns
  <2>1. load # NoPath /\ load' = NoPath /\ UNCHANGED selected
    BY <1>6 DEF Studio!LoadReturns
  <2>2. CASE editor' = Studio!Blank(load) /\ astray' = FALSE
    BY <2>1, <2>2 DEF Studio!Blank
  <2>3. CASE UNCHANGED editor /\ astray' = TRUE
    BY <2>1, <2>3
  <2> QED
    BY <1>6, <2>2, <2>3 DEF Studio!LoadReturns
<1>7. CASE Studio!Type
  <2>1. PICK x : editor' = [editor EXCEPT !.rev = x]
    BY <1>7 DEF Studio!Type
  <2>2. editor' = [of |-> editor.of, rev |-> x]
    BY <2>1
  <2> QED
    BY <1>7, <2>2 DEF Studio!Type
<1>8. ASSUME NEW k, NEW p, NEW t, Studio!Send(k, p, t) PROVE StudioInv'
  BY <1>1, <1>8 DEF Studio!Send
<1>9. ASSUME NEW k, Studio!Answered(k) PROVE StudioInv'
  <2>1. UNCHANGED <<load, selected, fileLoading>>
    BY <1>9 DEF Studio!Answered
  <2>2. \/ UNCHANGED <<editor, astray>>
        \/ \E p : editor' = Studio!Blank(p) /\ astray' = (astray \/ selected # p)
    BY <1>9 DEF Studio!Answered
  <2>3. CASE UNCHANGED <<editor, astray>>
    BY <1>1, <2>1, <2>3
  <2>4. CASE \E p : editor' = Studio!Blank(p) /\ astray' = (astray \/ selected # p)
    <3>1. PICK p : editor' = Studio!Blank(p) /\ astray' = (astray \/ selected # p)
      BY <2>4
    <3>2. editor' = [of |-> p, rev |-> 0]
      BY <3>1 DEF Studio!Blank
    <3>3. astray' \in BOOLEAN /\ (selected # p => astray')
      BY <3>1
    <3> QED
      BY <2>1, <3>2, <3>3
  <2> QED
    BY <2>2, <2>3, <2>4
<1>10. ASSUME NEW k, Studio!Refused(k) PROVE StudioInv'
  BY <1>1, <1>10 DEF Studio!Refused
<1>11. ASSUME NEW k, Studio!Refreshed(k) PROVE StudioInv'
  <2>1. \E p, l : Studio!MoveTo(p, l)
    BY <1>11 DEF Studio!Refreshed
  <2> QED
    BY <1>3, <1>11, <2>1 DEF Studio!Refreshed
<1>12. CASE Studio!DraftLoaded
  <2>1. PICK p : \/ editor' = Studio!Blank(p) /\ astray' = (p # selected)
                 \/ UNCHANGED <<editor, astray>>
    BY <1>12 DEF Studio!DraftLoaded
  <2>2. UNCHANGED <<load, selected, fileLoading>>
    BY <1>12 DEF Studio!DraftLoaded
  <2>3. CASE editor' = Studio!Blank(p) /\ astray' = (p # selected)
    <3>1. editor' = [of |-> p, rev |-> 0]
      BY <2>3 DEF Studio!Blank
    <3>2. astray' \in BOOLEAN /\ (p # selected => astray')
      BY <2>3
    <3> QED
      BY <2>2, <3>1, <3>2
  <2> QED
    BY <1>1, <2>1, <2>2, <2>3
<1>13. CASE Studio!RefreshModelFiles \/ UNCHANGED studioState
  BY <1>1, <1>13 DEF Studio!RefreshModelFiles, studioState
<1>14. ASSUME NEW t, Studio!ChangeScope(t) PROVE StudioInv'
  BY <1>1, <1>14 DEF Studio!ChangeScope
<1> QED
  BY <1>4, <1>5, <1>6, <1>7, <1>8, <1>9, <1>10, <1>11, <1>12, <1>13, <1>14
     DEF Studio!StudioNext, Studio!SaveModel, Studio!CreateModel, Studio!DeleteModel,
         Studio!ApplyPreview, Studio!ApproveDraft

\* A save never writes one file's text over another file, but after a failed
\* load or a delete or an approval that ended elsewhere
\* (modeling/studio/page.tsx).
THEOREM SavesOwnText == Spec => []OwnText
<1>1. Init => StudioInv
  BY DEF Init, StudioInv, Studio!StudioInit, Studio!Blank
<1>2. StudioInv /\ [Next]_vars => StudioInv'
  BY PagesStep, StudioStep
<1>3. StudioInv => OwnText
  BY DEF StudioInv, OwnText, Studio!OwnText, Studio!CanSave, Studio!Unsaved
<1> QED
  BY <1>1, <1>2, <1>3, PTL DEF Spec

-----------------------------------------------------------------------------
(* The query lab.                                                          *)

\* The query sent was found without errors against the metadata it was sent
\* with.
LabInv ==
  /\ cubeMeta \subseteq Lab!Members
  /\ sent.meta \subseteq Lab!Members
  /\ sent.query # Lab!Invalid => Lab!SemanticErrors(sent.query, sent.meta) = {}

LEMMA LabStep ==
  ASSUME LabInv, Lab!LabNext \/ UNCHANGED labState
  PROVE  LabInv'
<1> USE DEF LabInv
<1>1. ASSUME UNCHANGED <<cubeMeta, sent>> PROVE LabInv'
  BY <1>1
<1>2. CASE Lab!MetaReturns
  BY <1>2 DEF Lab!MetaReturns, Lab!Metas
<1>3. CASE Lab!SendToCube
  <2>1. /\ sent' = [query |-> queryDraft, meta |-> cubeMeta] /\ UNCHANGED cubeMeta
        /\ Lab!SemanticErrors(queryDraft, cubeMeta) = {}
    BY <1>3 DEF Lab!SendToCube, Lab!QueryReady
  <2>2. sent'.query = queryDraft /\ sent'.meta = cubeMeta
    BY <2>1
  <2> QED
    BY <2>1, <2>2
<1>4. CASE Lab!Returns
  <2>1. sent' = Lab!NoQuery /\ UNCHANGED cubeMeta
    BY <1>4 DEF Lab!Returns
  <2>2. sent'.query = Lab!Invalid /\ sent'.meta = {}
    BY <2>1 DEF Lab!NoQuery
  <2> QED
    BY <2>1, <2>2
<1>5. CASE Lab!CubeChanges \/ Lab!RefreshMeta \/ Lab!TypeQuery \/ Lab!InsertMember
           \/ Lab!CopyMember \/ Lab!RunSql \/ UNCHANGED labState
  BY <1>1, <1>5 DEF Lab!CubeChanges, Lab!RefreshMeta, Lab!TypeQuery, Lab!InsertMember,
     Lab!CopyMember, Lab!RunSql, labState
<1> QED
  BY <1>2, <1>3, <1>4, <1>5 DEF Lab!LabNext

\* A filter's own member, its groups' and theirs are those the loop over the
\* stack collects.
LEMMA NamedIsCollected ==
  ASSUME NEW fs, NEW f \in fs
  PROVE  Lab!Named(f) \subseteq Lab!CollectFilterMembers(fs)
<1>1. Lab!Groups(f) \subseteq Lab!Under(fs)
  BY DEF Lab!Groups, Lab!Under, Lab!Push
<1>2. ASSUME NEW h \in Lab!Groups(f) PROVE Lab!Groups(h) \subseteq Lab!Under(Lab!Under(fs))
  BY <1>1 DEF Lab!Groups, Lab!Under, Lab!Push
<1> QED
  BY <1>1, <1>2 DEF Lab!Named, Lab!CollectFilterMembers

\* Letter case aside, what is sent is what is listed.
LEMMA LabNames ==
  ASSUME LabInv
  PROVE  Lab!OnlyListedMembers
<1> DEFINE q == sent.query
           ordered == {o \in q.order : o.as \in {"key", "text", "id", "member"}}
           names == q.measures \cup q.dimensions \cup q.timeDimensions
                    \cup {o.name : o \in ordered} \cup UNION {Lab!Named(f) : f \in q.filters}
<1> SUFFICES ASSUME q # Lab!Invalid
             PROVE  {Lab!Lower(n) : n \in names} \subseteq {m.name : m \in sent.meta}
  BY DEF Lab!OnlyListedMembers
<1>1. names \subseteq Lab!CollectSemanticMembers(q)
  BY NamedIsCollected DEF Lab!CollectSemanticMembers, Lab!CollectOrder
<1>2. \A n \in Lab!CollectSemanticMembers(q) :
        Lab!Lower(n) \in {Lab!Lower(m.name) : m \in sent.meta}
  BY DEF LabInv, Lab!SemanticErrors
<1>3. ASSUME NEW m \in sent.meta PROVE Lab!Lower(m.name) = m.name
  <2>1. m \in Lab!Members
    BY DEF LabInv
  <2>2. m.name \in Lab!Measures \cup Lab!Dimensions
    BY <2>1 DEF Lab!Members
  <2> QED
    BY <2>2 DEF Lab!Measures, Lab!Dimensions, Lab!Lower
<1> QED
  BY <1>1, <1>2, <1>3

\* A query sent names only members the page listed, in every part but the pairs
\* of an order and the segments, which the page does not look at; an agent sent
\* has the tools of its runtime and, unless a cube was unticked after members
\* were chosen, members of its own cubes (modeling/query/page.tsx,
\* agents/new/page.tsx).
THEOREM OffersAreKept == Spec => []SentAsOffered
<1>1. Init => LabInv /\ BuildInv
  <2>1. Init => BuildInv
    BY DEF Init, BuildInv, Build!BuilderInit, Build!AgentAsOffered
  <2>2. ASSUME Lab!LabInit PROVE LabInv
    <3>1. cubeMeta = {} /\ sent = Lab!NoQuery
      BY <2>2 DEF Lab!LabInit
    <3>2. sent.query = Lab!Invalid /\ sent.meta = {}
      BY <3>1 DEF Lab!NoQuery
    <3> QED
      BY <3>1, <3>2 DEF LabInv
  <2> QED
    BY <2>1, <2>2 DEF Init
<1>2. LabInv /\ BuildInv /\ [Next]_vars => (LabInv /\ BuildInv)'
  BY PagesStep, LabStep, BuildStep
<1>3. LabInv /\ BuildInv => SentAsOffered
  BY LabNames DEF BuildInv, SentAsOffered
<1> QED
  BY <1>1, <1>2, <1>3, PTL DEF Spec

-----------------------------------------------------------------------------
(* The record editors.                                                     *)

\* The form is that of the selected record whenever the list has it, and what
\* is on screen is its own too; null is no record.
ScreenInv ==
  /\ None \notin records
  /\ \A l \in DOMAIN loads : None \notin l.list
  /\ selectedId \in records => form = selectedId
  /\ late \in BOOLEAN
  /\ Editor!ShownIsSelected

\* A save under way carries the form of its own record.
TaskInv ==
  /\ None \notin kept
  /\ task = [t \in Editor!Tasks |-> task[t]]
  /\ \A t \in Editor!Tasks : task[t].at = "list" => None \notin task[t].list
  /\ Editor!UpdateOwnForm

\* One list more is asked for, or none.
LEMMA MoreLists ==
  ASSUME NEW under, NEW files, NEW first, None \notin files,
         \A l \in DOMAIN under : None \notin l.list,
         \/ loads' = Editor!(+)(under, Editor!EmptyBag)
         \/ loads' = Editor!(+)(under, Editor!One([list |-> files, first |-> first]))
  PROVE  \A l \in DOMAIN loads' : None \notin l.list
<1>1. CASE loads' = Editor!(+)(under, Editor!EmptyBag)
  <2>1. DOMAIN loads' = DOMAIN under
    BY <1>1 DEF Editor!(+), Editor!EmptyBag, Editor!SetToBag
  <2> QED
    BY <2>1
<1>2. CASE loads' = Editor!(+)(under, Editor!One([list |-> files, first |-> first]))
  <2>1. DOMAIN loads' = DOMAIN under \cup {[list |-> files, first |-> first]}
    BY <1>2 DEF Editor!(+), Editor!One, Editor!SetToBag
  <2> QED
    BY <2>1
<1> QED
  BY <1>1, <1>2

\* A list is shown with a selection that is in it, or that stays.
LEMMA ShowStep ==
  ASSUME NEW id, NEW l, NEW new, NEW under, NEW files,
         ScreenInv, Editor!Show(id, l, new, under, files),
         id \in l \/ id = selectedId, None \notin l, None \notin files,
         DOMAIN under \subseteq DOMAIN loads, UNCHANGED <<page, runsOf>>
  PROVE  ScreenInv'
<1>1. selectedId' = id /\ records' = l
  BY DEF Editor!Show
<1>2. \A k \in DOMAIN loads' : None \notin k.list
  <2>1. \A k \in DOMAIN under : None \notin k.list
    BY DEF ScreenInv
  <2>2. \/ loads' = Editor!(+)(under, Editor!EmptyBag)
        \/ loads' = Editor!(+)(under, Editor!One([list |-> files, first |-> (id = None)]))
    BY Zenon DEF Editor!Show
  <2> QED
    BY <2>1, <2>2, MoreLists
<1>3. CASE Editor!Refill(id)
  <2>1. form' = id /\ late' = FALSE
    BY <1>3 DEF Editor!Refill
  <2>2. ASSUME Editor!HasRuns
        PROVE id \in DOMAIN runLoads' /\ resultOf' = None
    <3>1. runLoads' = Editor!(+)(runLoads, Editor!One(id)) /\ resultOf' = None
      BY <1>3, <2>2 DEF Editor!Refill
    <3> QED
      BY <3>1 DEF Editor!(+), Editor!One, Editor!SetToBag
  <2>3. Editor!ShownIsSelected'
    BY <1>1, <2>2 DEF Editor!ShownIsSelected, Editor!HasRuns, Editor!BagIn,
       Editor!BagToSet
  <2> QED
    BY <1>1, <1>2, <2>1, <2>3 DEF ScreenInv
<1>4. CASE ~Editor!Refill(id)
  <2>0. IF id \in l /\ (id # selectedId \/ id \notin records \/ id \in new)
        THEN Editor!Refill(id) ELSE UNCHANGED <<form, runLoads, resultOf, late>>
    BY Zenon DEF Editor!Show
  <2>1. UNCHANGED <<form, runLoads, resultOf, late>> /\ id = selectedId
        /\ (id \in l => id \in records)
    BY <1>4, <2>0
  <2>2. Editor!ShownIsSelected'
    BY <1>1, <2>1 DEF ScreenInv, Editor!ShownIsSelected, Editor!HasRuns, Editor!BagIn,
       Editor!BagToSet
  <2> QED
    BY <1>1, <1>2, <2>1, <2>2 DEF ScreenInv
<1> QED
  BY <1>3, <1>4

\* A list that comes is shown with its first record, or with what is selected.
LEMMA ShownStep ==
  ASSUME NEW l, NEW under, ScreenInv, None \notin kept, None \notin l.list,
         Editor!Shown(l, under), DOMAIN under \subseteq DOMAIN loads,
         UNCHANGED <<page, runsOf>>
  PROVE  ScreenInv'
<1>1. PICK id \in IF l.first /\ l.list # {} THEN l.list ELSE {selectedId} :
        Editor!Show(id, l.list, l.list, under, kept)
  BY DEF Editor!Shown
<1> QED
  BY <1>1, ShowStep

\* The form is emptied.
LEMMA ResetStep ==
  ASSUME NEW l, NEW files, ScreenInv, Editor!Reset(l, files), None \notin l,
         None \notin files, UNCHANGED page
  PROVE  ScreenInv'
<1>1. \/ loads' = Editor!(+)(loads, Editor!EmptyBag)
      \/ loads' = Editor!(+)(loads, Editor!One([list |-> files, first |-> TRUE]))
  BY Zenon DEF Editor!Reset
<1>2. \A k \in DOMAIN loads' : None \notin k.list
  BY <1>1, MoreLists DEF ScreenInv
<1>3. /\ selectedId' = None /\ records' = l /\ runsOf' = {} /\ late' = FALSE
      /\ Editor!HasRuns => resultOf' = None
  BY DEF Editor!Reset
<1> QED
  BY <1>2, <1>3 DEF ScreenInv, Editor!ShownIsSelected, Editor!HasRuns

\* What comes for one record is shown, and only the answer for another one
\* makes the screen late.
LEMMA AnswerStep ==
  ASSUME NEW id, ScreenInv, UNCHANGED <<page, records, selectedId, form, loads>>,
         late' = (late \/ id # selectedId),
         \/ /\ runsOf' \in {{id}, {}} /\ UNCHANGED resultOf
         \/ /\ runsOf' \in {runsOf, runsOf \cup {id}} /\ UNCHANGED <<resultOf, runLoads>>
         \/ /\ resultOf' = id /\ UNCHANGED <<runsOf, runLoads>>
  PROVE  ScreenInv'
<1>1. late' \in BOOLEAN /\ (~late' => ~late /\ id = selectedId)
  BY DEF ScreenInv
<1>2. Editor!ShownIsSelected'
  <2> SUFFICES ASSUME Editor!HasRuns, ~late'
               PROVE  /\ runsOf' \subseteq {selectedId'} \/ Editor!BagIn(selectedId, runLoads)'
                      /\ resultOf' \in {None, selectedId'}
    BY DEF Editor!ShownIsSelected, Editor!HasRuns
  <2>1. /\ runsOf \subseteq {selectedId} \/ Editor!BagIn(selectedId, runLoads)
        /\ resultOf \in {None, selectedId}
    BY <1>1 DEF ScreenInv, Editor!ShownIsSelected
  <2>2. CASE runsOf' \in {{id}, {}} /\ UNCHANGED resultOf
    BY <1>1, <2>1, <2>2
  <2>3. CASE runsOf' \in {runsOf, runsOf \cup {id}} /\ UNCHANGED <<resultOf, runLoads>>
    BY <1>1, <2>1, <2>3 DEF Editor!BagIn, Editor!BagToSet
  <2>4. CASE resultOf' = id /\ UNCHANGED <<runsOf, runLoads>>
    BY <1>1, <2>1, <2>4 DEF Editor!BagIn, Editor!BagToSet
  <2> QED
    BY <2>2, <2>3, <2>4
<1> QED
  BY <1>1, <1>2 DEF ScreenInv

\* One request changes: only a save that carries its own form is sent.
LEMMA RequestStep ==
  ASSUME NEW t \in Editor!Tasks, NEW r, TaskInv, task' = [task EXCEPT ![t] = r],
         None \notin kept', r.at = "list" => None \notin r.list,
         t = "save" => r = Editor!Rest \/ r.id = None \/ r.form = r.id
  PROVE  TaskInv'
<1>1. task' = [s \in Editor!Tasks |-> IF s = t THEN r ELSE task[s]]
  BY Zenon DEF TaskInv
<1>2. \A s \in Editor!Tasks : task'[s] = IF s = t THEN r ELSE task[s]
  BY <1>1
<1>3. Editor!UpdateOwnForm'
  <2>1. "save" \in Editor!Tasks
    BY DEF Editor!Tasks
  <2> QED
    BY <1>2, <2>1 DEF TaskInv, Editor!UpdateOwnForm, Editor!Rest
<1>4. \A s \in Editor!Tasks : task'[s].at = "list" => None \notin task'[s].list
  BY <1>2 DEF TaskInv
<1>5. task' = [s \in Editor!Tasks |-> task'[s]]
  BY <1>1, <1>2
<1> QED
  BY <1>3, <1>4, <1>5 DEF TaskInv

\* A step keeps what the screen shows in order.
LEMMA ScreenStep ==
  ASSUME ScreenInv, TaskInv, Editor!EditorNext \/ UNCHANGED editorState
  PROVE  ScreenInv'
<1>0. /\ None \notin kept /\ None \notin records /\ None \notin Ids
      /\ \A l \in DOMAIN loads : None \notin l.list
  BY EditorAssumption DEF ScreenInv, TaskInv
<1>1. ASSUME UNCHANGED <<page, records, selectedId, form, loads, runsOf, runLoads,
                         resultOf, late>>
      PROVE  ScreenInv'
  BY <1>1 DEF ScreenInv, Editor!ShownIsSelected, Editor!HasRuns, Editor!BagIn,
     Editor!BagToSet
<1>2. ASSUME NEW t, NEW r, Editor!Begin(t, r) PROVE ScreenInv'
  BY <1>1, <1>2 DEF Editor!Begin
<1>3. ASSUME NEW id, Editor!SelectRecord(id) PROVE ScreenInv'
  <2>1. id \in records /\ Editor!Show(id, records, {}, loads, kept)
        /\ UNCHANGED <<page, runsOf>>
    BY <1>3 DEF Editor!SelectRecord
  <2> QED
    BY <1>0, <2>1, ShowStep
<1>4. CASE Editor!NewRecord
  <2>1. Editor!Reset(records, kept) /\ UNCHANGED page
    BY <1>4 DEF Editor!NewRecord
  <2> QED
    BY <1>0, <2>1, ResetStep
<1>5. CASE Editor!Refresh
  <2>1. /\ loads' = Editor!(+)(loads, Editor!One([list |-> kept, first |-> (selectedId = None)]))
        /\ UNCHANGED <<page, records, selectedId, form, runsOf, runLoads, resultOf, late>>
    BY <1>5 DEF Editor!Refresh
  <2>2. \A l \in DOMAIN loads' : None \notin l.list
    BY <1>0, <2>1, MoreLists
  <2> QED
    BY <2>1, <2>2 DEF ScreenInv, Editor!ShownIsSelected, Editor!HasRuns, Editor!BagIn,
       Editor!BagToSet
<1>6. ASSUME NEW l, Editor!ListReturned(l) PROVE ScreenInv'
  <2> DEFINE under == Editor!(-)(loads, Editor!One(l))
  <2>1. DOMAIN under \subseteq DOMAIN loads
    BY DEF Editor!(-)
  <2>2. l \in DOMAIN loads /\ UNCHANGED <<page, kept, runsOf, task>>
    BY <1>6 DEF Editor!ListReturned, Editor!BagIn, Editor!BagToSet
  <2>3. \/ Editor!Shown(l, under)
        \/ loads' = under /\ UNCHANGED <<records, selectedId, form, runLoads, resultOf, late>>
    BY <1>6 DEF Editor!ListReturned
  <2> HIDE DEF under
  <2>4. CASE Editor!Shown(l, under)
    BY <1>0, <2>1, <2>2, <2>4, ShownStep
  <2>5. CASE loads' = under /\ UNCHANGED <<records, selectedId, form, runLoads, resultOf, late>>
    BY <2>1, <2>2, <2>5 DEF ScreenInv, Editor!ShownIsSelected, Editor!HasRuns, Editor!BagIn,
       Editor!BagToSet
  <2> QED
    BY <2>3, <2>4, <2>5
<1>7. ASSUME NEW id, Editor!RunsReturned(id) PROVE ScreenInv'
  BY <1>7, AnswerStep DEF Editor!RunsReturned, Editor!ShowRuns
<1>8. CASE Editor!Updated
  <2>1. \E id : Editor!Show(selectedId, records, {id}, loads, kept)
    BY <1>8 DEF Editor!Updated
  <2>2. UNCHANGED <<page, runsOf>>
    BY <1>8 DEF Editor!Updated
  <2> QED
    BY <1>0, <2>1, <2>2, ShowStep
<1>9. ASSUME NEW id \in Ids, kept' = kept \cup {id}, UNCHANGED <<page, runsOf>>,
             Editor!Show(id, records \cup {id}, {id}, loads, kept')
      PROVE  ScreenInv'
  <2>1. PICK now : now = kept'
    OBVIOUS
  <2>2. None \notin now /\ None \notin records \cup {id}
    BY <1>0, <1>9, <2>1
  <2>3. Editor!Show(id, records \cup {id}, {id}, loads, now)
    BY <1>9, <2>1
  <2> QED
    BY <1>9, <2>2, <2>3, ShowStep
<1>10. CASE Editor!Created
  BY <1>9, <1>10 DEF Editor!Created
<1>11. CASE Editor!Cloned
  BY <1>9, <1>11 DEF Editor!Cloned
<1>12. CASE Editor!Deleted
  <2>1. PICK id : kept' = kept \ {id} /\ Editor!Reset(records \ {id}, kept')
    BY <1>12 DEF Editor!Deleted
  <2>2. PICK now : now = kept'
    OBVIOUS
  <2>3. Editor!Reset(records \ {id}, now) /\ None \notin now /\ UNCHANGED page
    BY <1>0, <1>12, <2>1, <2>2 DEF Editor!Deleted
  <2> QED
    BY <1>0, <2>3, ResetStep
<1>13. CASE Editor!PipelineRan
  BY <1>13, AnswerStep DEF Editor!PipelineRan
<1>14. CASE Editor!SourceTested
  BY <1>14, AnswerStep DEF Editor!SourceTested
<1>15. CASE Editor!SourceRunsShown
  BY <1>15, AnswerStep DEF Editor!SourceRunsShown, Editor!ShowRuns
<1>16. CASE Editor!AllRunsShown
  BY <1>16, AnswerStep DEF Editor!AllRunsShown, Editor!ShowRuns
<1>17. CASE Editor!CloneRunsShown
  BY <1>17, AnswerStep DEF Editor!CloneRunsShown, Editor!ShowRuns
<1>18. CASE Editor!Previewed
  BY <1>18, AnswerStep DEF Editor!Previewed
<1>19. CASE Editor!EndpointRan
  BY <1>19 DEF Editor!EndpointRan, ScreenInv, Editor!ShownIsSelected, Editor!HasRuns
<1>20. ASSUME NEW t \in {"run", "runAll"}, Editor!RunListed(t) PROVE ScreenInv'
  <2>1. t \in Editor!Tasks /\ task[t].at = "list" /\ UNCHANGED <<page, kept, runsOf>>
    BY <1>20 DEF Editor!RunListed, Editor!Awaits, Editor!Tasks
  <2>2. \/ \E first : Editor!Shown([list |-> task[t].list, first |-> first], loads)
        \/ UNCHANGED <<records, selectedId, form, loads, runLoads, resultOf, late>>
    BY <1>20 DEF Editor!RunListed
  <2>3. ASSUME NEW first, Editor!Shown([list |-> task[t].list, first |-> first], loads)
        PROVE  ScreenInv'
    <3>1. None \notin [list |-> task[t].list, first |-> first].list
      BY <2>1 DEF TaskInv
    <3> QED
      BY <1>0, <2>1, <2>3, <3>1, ShownStep
  <2> QED
    BY <1>1, <2>1, <2>2, <2>3
<1>21. ASSUME \/ Editor!AllRan \/ \E t \in Editor!Tasks : Editor!Failed(t)
              \/ UNCHANGED editorState
       PROVE  ScreenInv'
  BY <1>1, <1>21 DEF Editor!AllRan, Editor!Failed, editorState
<1> QED
  BY <1>2, <1>3, <1>4, <1>5, <1>6, <1>7, <1>8, <1>10, <1>11, <1>12, <1>13, <1>14, <1>15,
     <1>16, <1>17, <1>18, <1>19, <1>20, <1>21
     DEF Editor!EditorNext, Editor!Save, Editor!Delete, Editor!Run, Editor!RunAll,
         Editor!Preview, Editor!Clone

\* A step keeps the requests under way in order.
LEMMA TaskStep ==
  ASSUME ScreenInv, TaskInv, Editor!EditorNext \/ UNCHANGED editorState
  PROVE  TaskInv'
<1>0. None \notin kept /\ None \notin Ids
  BY EditorAssumption DEF TaskInv
<1>1. ASSUME UNCHANGED task, None \notin kept' PROVE TaskInv'
  BY <1>1 DEF TaskInv, Editor!UpdateOwnForm
<1>2. ASSUME NEW t \in Editor!Tasks, NEW r, Editor!Begin(t, r), r.at = "sent",
             t = "save" => r.id = None \/ r.form = r.id
      PROVE  TaskInv'
  BY <1>0, <1>2, RequestStep DEF Editor!Begin
<1>3. CASE Editor!Save
  <2> DEFINE r == [at |-> "sent", id |-> Editor!SaveTarget, form |-> form]
  <2>1. r.at = "sent" /\ (r.id = None \/ r.form = r.id)
    BY DEF Editor!SaveTarget, Editor!Selected, ScreenInv
  <2> QED
    BY <1>2, <1>3, <2>1 DEF Editor!Save, Editor!Tasks
<1>4. ASSUME NEW t \in Editor!Tasks \ {"save"}, NEW id, Editor!Begin(t, Editor!Sent(id))
      PROVE  TaskInv'
  BY <1>2, <1>4 DEF Editor!Sent
<1>5. CASE \/ Editor!Delete \/ Editor!Run \/ Editor!RunAll \/ Editor!Preview
           \/ Editor!Clone
  BY <1>4, <1>5 DEF Editor!Delete, Editor!Run, Editor!RunAll, Editor!Preview,
     Editor!Clone, Editor!Tasks
<1>6. ASSUME NEW t \in Editor!Tasks, Editor!End(t), None \notin kept' PROVE TaskInv'
  BY <1>6, RequestStep DEF Editor!End, Editor!Rest
<1>7. ASSUME NEW t \in Editor!Tasks \ {"save"}, NEW at, Editor!Then(t, at), UNCHANGED kept
      PROVE  TaskInv'
  BY <1>0, <1>7, RequestStep DEF Editor!Then
<1>8. CASE \/ \E id \in Ids : Editor!SelectRecord(id) \/ Editor!RunsReturned(id)
           \/ Editor!NewRecord \/ Editor!Refresh
           \/ \E l \in Editor!BagToSet(loads) : Editor!ListReturned(l)
           \/ UNCHANGED editorState
  BY <1>0, <1>1, <1>8 DEF Editor!SelectRecord, Editor!RunsReturned, Editor!NewRecord,
     Editor!Refresh, Editor!ListReturned, editorState
<1>9. CASE Editor!Updated \/ Editor!Created
  BY <1>0, <1>6, <1>9 DEF Editor!Updated, Editor!Created, Editor!Tasks
<1>10. CASE Editor!Deleted
  BY <1>0, <1>6, <1>10 DEF Editor!Deleted, Editor!Tasks
<1>11. CASE \/ Editor!EndpointRan \/ Editor!AllRunsShown \/ Editor!Previewed
            \/ Editor!CloneRunsShown
  BY <1>0, <1>6, <1>11 DEF Editor!EndpointRan, Editor!AllRunsShown, Editor!Previewed,
     Editor!CloneRunsShown, Editor!Tasks
<1>12. CASE \/ Editor!PipelineRan \/ Editor!SourceTested \/ Editor!SourceRunsShown
            \/ Editor!AllRan
  BY <1>7, <1>12 DEF Editor!PipelineRan, Editor!SourceTested, Editor!SourceRunsShown,
     Editor!AllRan, Editor!Tasks
<1>13. ASSUME NEW t \in {"run", "runAll"}, Editor!RunListed(t) PROVE TaskInv'
  <2>1. Editor!Then(t, "runs") \/ Editor!End(t)
    BY <1>13 DEF Editor!RunListed
  <2>2. UNCHANGED kept
    BY <1>13 DEF Editor!RunListed
  <2> QED
    BY <1>0, <1>6, <1>7, <2>1, <2>2 DEF Editor!Tasks
<1>14. CASE Editor!Cloned
  <2>1. PICK id \in Ids : /\ kept' = kept \cup {id}
                          /\ task' = [task EXCEPT !["clone"] = [at |-> "runs", id |-> id]]
    BY <1>14 DEF Editor!Cloned
  <2> QED
    BY <1>0, <2>1, RequestStep DEF Editor!Tasks
<1>15. ASSUME NEW t \in Editor!Tasks, Editor!Failed(t) PROVE TaskInv'
  <2>1. None \notin kept'
    BY <1>0, <1>15 DEF Editor!Failed
  <2> QED
    BY <1>6, <1>15, <2>1 DEF Editor!Failed
<1> QED
  BY <1>3, <1>5, <1>8, <1>9, <1>10, <1>11, <1>12, <1>13, <1>14, <1>15 DEF Editor!EditorNext

\* However lists, saves, deletes and clones are answered, an update carries the
\* form of the record it updates, and what is shown belongs to the record
\* selected unless an answer for another one came after the form
\* (derived/pipelines, derived/sources and modeling/api page.tsx).
THEOREM FormsFollowSelection == Spec => []FormsMatchRecords
<1>1. Init => ScreenInv /\ TaskInv
  <2> SUFFICES ASSUME Editor!EditorInit PROVE ScreenInv /\ TaskInv
    BY DEF Init
  <2>1. None \notin kept /\ DOMAIN loads = {[list |-> kept, first |-> TRUE]}
    BY EditorAssumption DEF Editor!EditorInit, Editor!One, Editor!SetToBag
  <2>2. /\ records = {} /\ selectedId = None /\ runsOf = {} /\ resultOf = None
        /\ late = FALSE
    BY DEF Editor!EditorInit
  <2>3. ScreenInv
    <3>1. \A l \in DOMAIN loads : None \notin l.list
      BY <2>1
    <3>2. late \in BOOLEAN
      BY <2>2
    <3>3. Editor!ShownIsSelected
      BY <2>2 DEF Editor!ShownIsSelected
    <3>4. selectedId \in records => form = selectedId
      BY <2>2
    <3> QED
      BY <2>2, <3>1, <3>2, <3>3, <3>4 DEF ScreenInv
  <2>4. TaskInv
    BY <2>1 DEF Editor!EditorInit, TaskInv, Editor!UpdateOwnForm, Editor!Rest, Editor!Tasks
  <2> QED
    BY <2>3, <2>4
<1>2. ScreenInv /\ TaskInv /\ [Next]_vars => (ScreenInv /\ TaskInv)'
  BY PagesStep, ScreenStep, TaskStep
<1>3. ScreenInv /\ TaskInv => FormsMatchRecords
  BY DEF ScreenInv, TaskInv, FormsMatchRecords
<1> QED
  BY <1>1, <1>2, <1>3, PTL DEF Spec

-----------------------------------------------------------------------------
(* The chat.                                                               *)

\* The chat's flags, and the sessions counted.
ChatTypes ==
  /\ opened \in Nat
  /\ hurried \in BOOLEAN /\ orphaned \in BOOLEAN /\ initsDue \in BOOLEAN
  /\ loading \in BOOLEAN /\ sending \in BOOLEAN

\* Before the page has a session at most one handler is opening one, its flag
\* says so, and the effect that would start another has run; the first session
\* opened is that of the page but when its answer was lost.
NoSession ==
  sessionId = 0 =>
    /\ sentTo = {} /\ shown = 0
    /\ opened > 0 => orphaned
    /\ initsDue => loading
    /\ \/ runs = Chat!EmptyBag
       \/ /\ ~initsDue
          /\ \/ loading /\ runs = Chat!SetToBag({Chat!Run("init", "open", 0)})
             \/ sending /\ runs = Chat!SetToBag({Chat!Run("send", "open", 0)})

\* Once it has one, every handler under way works with it.
OneSession ==
  sessionId # 0 =>
    /\ sentTo \subseteq {sessionId} /\ shown \in {0, sessionId}
    /\ opened > 1 => orphaned
    /\ \A r \in DOMAIN runs : r.at \in {"send", "list"} /\ r.sid = sessionId

ChatInv == ChatTypes /\ (~hurried => NoSession /\ OneSession)

LEMMA ChatBags ==
  /\ \A r, B : B = Chat!EmptyBag /\ runs' = Chat!(+)(B, Chat!SetToBag({r}))
                 => runs' = Chat!SetToBag({r})
  /\ \A r, B : runs' = Chat!(+)(B, Chat!SetToBag({r})) => DOMAIN runs' = DOMAIN B \cup {r}
<1>1. ASSUME NEW r, NEW B, B = Chat!EmptyBag, runs' = Chat!(+)(B, Chat!SetToBag({r}))
      PROVE  runs' = Chat!SetToBag({r})
  BY <1>1 DEF Chat!(+), Chat!SetToBag, Chat!EmptyBag
<1>2. ASSUME NEW r, NEW B, runs' = Chat!(+)(B, Chat!SetToBag({r}))
      PROVE  DOMAIN runs' = DOMAIN B \cup {r}
  BY <1>2 DEF Chat!(+), Chat!SetToBag
<1> QED
  BY <1>1, <1>2, Zenon

\* The only run is over, or goes on.
LEMMA OnlyRunBecomes ==
  ASSUME NEW r, runs = Chat!SetToBag({r})
  PROVE  /\ Chat!Becomes(r, {}) => runs' = Chat!EmptyBag
         /\ \A x : Chat!Becomes(r, {x}) => runs' = Chat!SetToBag({x})
<1>1. Chat!Becomes(r, {}) => runs' = Chat!EmptyBag
  BY DEF Chat!Becomes, Chat!(+), Chat!(-), Chat!SetToBag, Chat!EmptyBag
<1>2. ASSUME NEW x, Chat!Becomes(r, {x}) PROVE runs' = Chat!SetToBag({x})
  BY <1>2 DEF Chat!Becomes, Chat!(+), Chat!(-), Chat!SetToBag, Chat!EmptyBag
<1> QED
  BY <1>1, <1>2

LEMMA RunBecomes ==
  ASSUME NEW r, NEW next, Chat!Becomes(r, next)
  PROVE  DOMAIN runs' \subseteq DOMAIN runs \cup next
BY DEF Chat!Becomes, Chat!(+), Chat!(-), Chat!SetToBag

\* With no session, a handler under way is the one that opens it.
LEMMA OnlyOpening ==
  ASSUME NoSession, sessionId = 0, NEW r \in DOMAIN runs
  PROVE  /\ runs = Chat!SetToBag({r}) /\ ~initsDue /\ r.at = "open"
         /\ (r.who = "init" /\ loading) \/ (r.who = "send" /\ sending)
<1>1. runs # Chat!EmptyBag
  BY DEF Chat!EmptyBag, Chat!SetToBag
<1>2. PICK s : /\ runs = Chat!SetToBag({s}) /\ ~initsDue
               /\ \/ s = Chat!Run("init", "open", 0) /\ loading
                  \/ s = Chat!Run("send", "open", 0) /\ sending
  BY <1>1 DEF NoSession
<1>3. r = s
  BY <1>2 DEF Chat!SetToBag
<1> QED
  BY <1>2, <1>3 DEF Chat!Run

\* The chat's flags keep their types.
LEMMA ChatTypesStep ==
  ASSUME ChatTypes, Chat!ChatNext \/ UNCHANGED chatState
  PROVE  ChatTypes'
<1> USE DEF ChatTypes
<1>1. CASE Chat!Initialise
  BY <1>1 DEF Chat!Initialise
<1>2. CASE Chat!OnSend
  BY <1>2 DEF Chat!OnSend
<1>3. ASSUME NEW r, Chat!Opened(r) PROVE ChatTypes'
  <2>1. opened' \in Nat /\ UNCHANGED hurried
    BY <1>3 DEF Chat!Opened
  <2>2. loading' \in BOOLEAN /\ sending' \in BOOLEAN
    BY <1>3 DEF Chat!Opened, Chat!Done
  <2>3. orphaned' \in BOOLEAN /\ initsDue' \in BOOLEAN
    BY <1>3 DEF Chat!Opened
  <2> QED
    BY <2>1, <2>2, <2>3
<1>4. ASSUME NEW r, Chat!Sent(r) PROVE ChatTypes'
  BY <1>4 DEF Chat!Sent
<1>5. ASSUME NEW r, Chat!Listed(r) \/ Chat!Fails(r) PROVE ChatTypes'
  <2>1. loading' \in BOOLEAN /\ sending' \in BOOLEAN
    BY <1>5 DEF Chat!Listed, Chat!Fails, Chat!Done
  <2>2. UNCHANGED <<opened, initsDue, hurried, orphaned>>
    BY <1>5 DEF Chat!Listed, Chat!Fails
  <2> QED
    BY <2>1, <2>2
<1>6. CASE UNCHANGED chatState
  BY <1>6 DEF chatState
<1> QED
  BY <1>1, <1>2, <1>3, <1>4, <1>5, <1>6 DEF Chat!ChatNext

\* A handler starts when no other is opening a session.
LEMMA StartStep ==
  ASSUME NEW who \in {"init", "send"}, NoSession, OneSession, Chat!Start(who),
         UNCHANGED <<sessionId, opened, shown, sentTo, orphaned>>,
         sessionId = 0 => runs = Chat!EmptyBag /\ ~initsDue',
         who = "init" => loading', who = "send" => sending'
  PROVE  NoSession' /\ OneSession'
<1>1. CASE sessionId = 0
  <2>1. Chat!First(who) = Chat!Run(who, "open", 0)
    BY <1>1 DEF Chat!First
  <2>2. runs' = Chat!SetToBag({Chat!Run(who, "open", 0)})
    BY <1>1, <2>1, ChatBags DEF Chat!Start
  <2>3. sentTo' = {} /\ shown' = 0 /\ (opened' > 0 => orphaned')
    BY <1>1 DEF NoSession
  <2>4. NoSession'
    BY <1>1, <2>2, <2>3 DEF NoSession, Chat!SetToBag, Chat!Run, Chat!EmptyBag
  <2>5. OneSession'
    BY <1>1 DEF OneSession
  <2> QED
    BY <2>4, <2>5
<1>2. CASE sessionId # 0
  <2>1. PICK f : f = Chat!First(who)
    OBVIOUS
  <2>2. f.at \in {"send", "list"} /\ f.sid = sessionId
    BY <1>2, <2>1 DEF Chat!First, Chat!Run
  <2>3. DOMAIN runs' = DOMAIN runs \cup {f}
    BY <2>1, ChatBags DEF Chat!Start
  <2>4. OneSession'
    BY <1>2, <2>2, <2>3 DEF OneSession
  <2>5. NoSession'
    BY <1>2 DEF NoSession
  <2> QED
    BY <2>4, <2>5
<1> QED
  BY <1>1, <1>2

\* A handler ends before the page has a session.
LEMMA NoneLeft ==
  ASSUME NoSession, sessionId = 0, NEW r \in DOMAIN runs, Chat!Done(r),
         UNCHANGED <<sessionId, shown, sentTo, initsDue>>, opened' > 0 => orphaned'
  PROVE  NoSession'
<1>1. runs = Chat!SetToBag({r}) /\ ~initsDue
  BY OnlyOpening
<1>2. Chat!Becomes(r, {})
  BY DEF Chat!Done
<1>3. runs' = Chat!EmptyBag
  BY <1>1, <1>2, OnlyRunBecomes
<1> QED
  BY <1>1, <1>3 DEF NoSession, Chat!EmptyBag, Chat!SetToBag

\* A step keeps the page and its messages in one session.
LEMMA ChatStep ==
  ASSUME ChatInv, Chat!ChatNext \/ UNCHANGED chatState
  PROVE  ChatInv'
<1>1. ChatTypes' /\ ChatTypes
  BY ChatTypesStep DEF ChatInv
<1> SUFFICES ASSUME ~hurried' PROVE NoSession' /\ OneSession'
  BY <1>1 DEF ChatInv
<1>2. ~hurried
  <2>1. \/ UNCHANGED hurried
        \/ hurried' = (hurried \/ loading \/ sending)
    BY DEF Chat!ChatNext, Chat!Initialise, Chat!OnSend, Chat!Opened, Chat!Sent,
       Chat!Listed, Chat!Fails, chatState
  <2> QED
    BY <2>1
<1>3. NoSession /\ OneSession
  BY <1>2 DEF ChatInv
<1>4. ASSUME sessionId = 0, ~loading, ~sending PROVE runs = Chat!EmptyBag /\ ~initsDue
  BY <1>3, <1>4 DEF NoSession
<1>5. CASE Chat!Initialise
  <2>1. /\ Chat!Start("init") /\ ~initsDue' /\ loading'
        /\ UNCHANGED <<sessionId, opened, shown, sentTo, orphaned>>
        /\ initsDue \/ (~loading /\ ~sending)
    BY <1>5 DEF Chat!Initialise
  <2>2. sessionId = 0 => runs = Chat!EmptyBag
    BY <1>3, <1>4, <2>1 DEF NoSession
  <2> QED
    BY <1>3, <2>1, <2>2, StartStep
<1>6. CASE Chat!OnSend
  <2>1. /\ Chat!Start("send") /\ sending' /\ UNCHANGED initsDue
        /\ UNCHANGED <<sessionId, opened, shown, sentTo, orphaned>>
        /\ hurried' = (hurried \/ loading \/ sending)
    BY <1>6 DEF Chat!OnSend
  <2>2. ~loading /\ ~sending
    BY <2>1
  <2>3. sessionId = 0 => runs = Chat!EmptyBag /\ ~initsDue'
    BY <1>4, <2>1, <2>2
  <2> QED
    BY <1>3, <2>1, <2>3, StartStep
<1>7. ASSUME NEW r \in DOMAIN runs, Chat!Opened(r) PROVE NoSession' /\ OneSession'
  <2>1. r.at = "open" /\ opened' = opened + 1 /\ UNCHANGED <<shown, sentTo>>
    BY <1>7 DEF Chat!Opened
  <2>2. sessionId = 0
    BY <1>3, <2>1 DEF OneSession
  <2>3. runs = Chat!SetToBag({r})
    BY <1>3, <2>2, OnlyOpening
  <2>4. sentTo' = {} /\ shown' = 0 /\ (opened > 0 => orphaned)
    BY <1>3, <2>1, <2>2 DEF NoSession
  <2>5. CASE /\ sessionId' = opened + 1 /\ UNCHANGED orphaned
             /\ \E at \in {"list", "send"} : Chat!Becomes(r, {Chat!Run(r.who, at, opened + 1)})
    <3>1. PICK at \in {"list", "send"} : Chat!Becomes(r, {Chat!Run(r.who, at, opened + 1)})
      BY <2>5
    <3>2. PICK x : x = Chat!Run(r.who, at, opened + 1)
      OBVIOUS
    <3>3. runs' = Chat!SetToBag({x})
      BY <2>3, <3>1, <3>2, OnlyRunBecomes
    <3>4. DOMAIN runs' = {x} /\ x.at \in {"send", "list"} /\ x.sid = opened + 1
      BY <3>2, <3>3 DEF Chat!SetToBag, Chat!Run
    <3>5. sessionId' # 0 /\ (opened' > 1 => orphaned')
      BY <1>1, <2>1, <2>4, <2>5 DEF ChatTypes
    <3> QED
      BY <2>4, <2>5, <3>4, <3>5 DEF NoSession, OneSession
  <2>6. CASE Chat!Done(r) /\ orphaned' /\ UNCHANGED <<sessionId, initsDue>>
    <3>1. NoSession'
      BY <1>3, <2>1, <2>2, <2>6, NoneLeft
    <3> QED
      BY <2>2, <2>6, <3>1 DEF OneSession
  <2> QED
    BY <1>7, <2>5, <2>6 DEF Chat!Opened
<1>8. ASSUME NEW r \in DOMAIN runs, Chat!Sent(r) PROVE NoSession' /\ OneSession'
  <2>1. /\ r.at = "send" /\ sentTo' = sentTo \cup {r.sid}
        /\ UNCHANGED <<sessionId, opened, shown, orphaned>>
    BY <1>8 DEF Chat!Sent
  <2>2. sessionId # 0
    BY <1>3, <2>1, OnlyOpening
  <2>3. PICK x : x = Chat!Run(r.who, "list", r.sid) /\ Chat!Becomes(r, {x})
    BY <1>8 DEF Chat!Sent
  <2>4. DOMAIN runs' \subseteq DOMAIN runs \cup {x}
    BY <2>3, RunBecomes
  <2>5. r.sid = sessionId /\ x.at = "list" /\ x.sid = sessionId
    BY <1>3, <2>2, <2>3 DEF OneSession, Chat!Run
  <2> QED
    BY <1>3, <2>1, <2>2, <2>4, <2>5 DEF NoSession, OneSession
<1>9. ASSUME NEW r \in DOMAIN runs, Chat!Listed(r) \/ Chat!Fails(r)
      PROVE  NoSession' /\ OneSession'
  <2>1. Chat!Done(r) /\ UNCHANGED <<sessionId, opened, initsDue, orphaned>>
    BY <1>9 DEF Chat!Listed, Chat!Fails
  <2>2. /\ UNCHANGED shown \/ (r.at = "list" /\ shown' = r.sid)
        /\ UNCHANGED sentTo \/ (r.at = "send" /\ sentTo' = sentTo \cup {r.sid})
    BY <1>9 DEF Chat!Listed, Chat!Fails
  <2>3. CASE sessionId = 0
    <3>1. UNCHANGED <<shown, sentTo>>
      BY <1>3, <2>2, <2>3, OnlyOpening
    <3>2. opened' > 0 => orphaned'
      BY <1>3, <2>1, <2>3 DEF NoSession
    <3>3. NoSession'
      BY <1>3, <2>1, <2>3, <3>1, <3>2, NoneLeft
    <3> QED
      BY <2>1, <2>3, <3>3 DEF OneSession
  <2>4. CASE sessionId # 0
    <3>1. DOMAIN runs' \subseteq DOMAIN runs
      BY <2>1, RunBecomes DEF Chat!Done
    <3>2. r.sid = sessionId
      BY <1>3, <2>4 DEF OneSession
    <3> QED
      BY <1>3, <2>1, <2>2, <2>4, <3>1, <3>2 DEF NoSession, OneSession
  <2> QED
    BY <2>3, <2>4
<1>10. CASE UNCHANGED chatState
  BY <1>3, <1>10 DEF chatState, NoSession, OneSession, Chat!SetToBag, Chat!EmptyBag, Chat!Run
<1> QED
  BY <1>5, <1>6, <1>7, <1>8, <1>9, <1>10 DEF Chat!ChatNext, Chat!BagToSet

\* Messages go to the session whose messages are shown, and no session but the
\* page's is opened, unless its answer was lost or the shortcut was pressed while
\* the page was busy (agents/converse/page.tsx).
THEOREM MessagesShareSession == Spec => []OneConversation
<1>1. Init => ChatInv
  <2> SUFFICES ASSUME Chat!ChatInit PROVE ChatInv
    BY DEF Init
  <2>1. ChatTypes
    BY DEF Chat!ChatInit, ChatTypes
  <2>2. NoSession
    BY DEF Chat!ChatInit, NoSession
  <2>3. OneSession
    BY DEF Chat!ChatInit, OneSession
  <2> QED
    BY <2>1, <2>2, <2>3 DEF ChatInv
<1>2. ChatInv /\ [Next]_vars => ChatInv'
  BY PagesStep, ChatStep
<1>3. ChatInv => OneConversation
  BY DEF ChatInv, ChatTypes, NoSession, OneSession, OneConversation, Chat!OneConversation
<1> QED
  BY <1>1, <1>2, <1>3, PTL DEF Spec

-----------------------------------------------------------------------------
(* The workspace of an agent.                                              *)

\* While no tab was entered at a busy moment there is at most one refresh, what
\* it read is not older than the last answered write, and no write is under way
\* with it.
WorkTypes ==
  /\ revision \in Nat /\ acked \in Nat /\ agent \in Int
  /\ entering \in BOOLEAN /\ crossed \in BOOLEAN /\ gone \in BOOLEAN
  /\ DOMAIN refreshes \subseteq Nat

AnswerInv ==
  /\ busy = [kind |-> busy.kind, rev |-> busy.rev] /\ busy.rev \in Nat
  /\ acked <= revision
  /\ busy.kind \in Work!Writes /\ busy.rev # 0 => acked <= busy.rev /\ busy.rev <= revision
  /\ ~crossed /\ busy.kind = "reload" => acked <= busy.rev /\ entering

RefreshInv ==
  ~crossed => \/ refreshes = Work!EmptyBag
              \/ /\ entering /\ busy = Work!Nothing
                 /\ \E r \in Nat : /\ refreshes = Work!SetToBag({r})
                                   /\ acked <= r /\ r <= revision

WorkInv == WorkTypes /\ AnswerInv /\ RefreshInv /\ Work!NeverOlder

LEMMA WorkStep ==
  ASSUME WorkInv, Work!WorkNext \/ UNCHANGED workState
  PROVE  WorkInv'
<1> USE DEF WorkInv, WorkTypes, AnswerInv, RefreshInv, Work!NeverOlder, Work!Nothing,
            Work!SetToBag, Work!EmptyBag
<1>1. ASSUME Work!EnterTab PROVE WorkInv'
  <2>1. UNCHANGED <<revision, agent, drafts, busy, acked, gone>> /\ entering' = TRUE
    BY <1>1 DEF Work!EnterTab
  <2>2. crossed' \in BOOLEAN /\ (~crossed' => ~crossed /\ ~entering /\ busy = Work!Nothing)
    BY <1>1 DEF Work!EnterTab
  <2>3. DOMAIN refreshes' = DOMAIN refreshes \cup {revision}
    BY <1>1 DEF Work!EnterTab, Work!(+), Work!SetToBag
  <2>4. ASSUME ~crossed' PROVE refreshes' = Work!SetToBag({revision})
    <3>1. refreshes = Work!EmptyBag
      BY <2>2, <2>4
    <3> QED
      BY <1>1, <3>1 DEF Work!EnterTab, Work!(+), Work!SetToBag, Work!EmptyBag
  <2>5. busy = Work!Nothing => busy.kind # "reload"
    BY DEF Work!Nothing
  <2>6. WorkTypes'
    BY <2>1, <2>2, <2>3
  <2>7. AnswerInv'
    BY <2>1, <2>2, <2>5
  <2>8. RefreshInv'
    BY <2>1, <2>2, <2>4
  <2>9. Work!NeverOlder'
    BY <2>1, <2>2
  <2> QED
    BY <2>6, <2>7, <2>8, <2>9
<1>2. ASSUME NEW r \in Work!BagToSet(refreshes), Work!Refreshed(r) PROVE WorkInv'
  <2>1. UNCHANGED <<revision, busy, acked, crossed, gone>> /\ entering' \in BOOLEAN
        /\ (agent' = r \/ agent' = agent)
    BY <1>2 DEF Work!Refreshed, Work!Hydrate
  <2>2. r \in Nat /\ r \in DOMAIN refreshes
    BY <1>2 DEF Work!BagToSet
  <2>3. DOMAIN refreshes' \subseteq DOMAIN refreshes
    BY <1>2 DEF Work!Refreshed, Work!(-)
  <2>4. ASSUME ~crossed
        PROVE  refreshes' = Work!EmptyBag /\ acked <= r /\ busy = Work!Nothing
    <3>1. refreshes # Work!EmptyBag
      BY <2>2 DEF Work!EmptyBag, Work!SetToBag
    <3>2. PICK s \in Nat : /\ busy = Work!Nothing /\ refreshes = Work!SetToBag({s})
                           /\ acked <= s /\ s <= revision
      BY <2>4, <3>1
    <3>3. r = s
      BY <2>2, <3>2 DEF Work!SetToBag
    <3>4. refreshes' = Work!EmptyBag
      BY <1>2, <3>2, <3>3 DEF Work!Refreshed, Work!(-), Work!EmptyBag, Work!SetToBag
    <3> QED
      BY <3>2, <3>3, <3>4
  <2>5. busy = Work!Nothing => busy.kind # "reload"
    BY DEF Work!Nothing
  <2>6. WorkTypes'
    BY <2>1, <2>2, <2>3
  <2>7. AnswerInv'
    BY <2>1, <2>4, <2>5
  <2>8. RefreshInv'
    BY <2>1, <2>4
  <2>9. Work!NeverOlder'
    BY <2>1, <2>2, <2>4
  <2> QED
    BY <2>6, <2>7, <2>8, <2>9
<1>3. ASSUME NEW k \in Work!Writes, Work!Write(k) PROVE WorkInv'
  <2>1. /\ busy' = [kind |-> k, rev |-> 0]
        /\ UNCHANGED <<revision, agent, drafts, refreshes, entering, acked, crossed, gone>>
        /\ ~entering
    BY <1>3 DEF Work!Write, Work!Buttons
  <2> QED
    BY <1>3, <2>1 DEF Work!Writes
<1>4. ASSUME Work!CarryOut PROVE WorkInv'
  <2>1. /\ busy.kind \in Work!Writes /\ busy.rev = 0 /\ revision' = revision + 1
        /\ busy' = [busy EXCEPT !.rev = revision + 1]
        /\ UNCHANGED <<agent, drafts, refreshes, entering, acked, crossed, gone>>
    BY <1>4 DEF Work!CarryOut
  <2>2. busy' = [kind |-> busy.kind, rev |-> revision + 1]
    BY <2>1
  <2>3. busy # Work!Nothing
    BY <2>1 DEF Work!Nothing, Work!Writes
  <2> QED
    BY <2>1, <2>2, <2>3 DEF Work!Writes
<1>5. ASSUME Work!Answered PROVE WorkInv'
  <2>1. /\ busy.kind \in Work!Writes /\ busy.rev # 0 /\ acked' = busy.rev
        /\ UNCHANGED <<revision, refreshes, crossed>>
    BY <1>5 DEF Work!Answered
  <2>2. busy # Work!Nothing
    BY <2>1 DEF Work!Nothing, Work!Writes
  <2>3. \/ agent' = busy.rev /\ UNCHANGED gone
        \/ agent' = agent /\ gone' /\ gone' \in BOOLEAN
    BY <2>1, <1>5 DEF Work!Answered, Work!Hydrate, Work!Writes
  <2>4. /\ \/ busy' = [kind |-> "reload", rev |-> revision] /\ entering'
           \/ busy' = Work!Nothing
        /\ entering' \in BOOLEAN
    BY <1>5 DEF Work!Answered
  <2>5. ~crossed => refreshes = Work!EmptyBag
    BY <2>2
  <2>6. WorkTypes'
    BY <2>1, <2>3, <2>4
  <2>7. Work!NeverOlder'
    BY <2>1, <2>3
  <2>8. RefreshInv'
    BY <2>1, <2>5
  <2>9. AnswerInv'
    BY <2>1, <2>4 DEF Work!Writes
  <2> QED
    BY <2>6, <2>7, <2>8, <2>9
<1>6. ASSUME Work!PublishReloaded PROVE WorkInv'
  <2>1. /\ busy.kind = "reload" /\ busy' = Work!Nothing /\ entering' \in BOOLEAN
        /\ UNCHANGED <<revision, refreshes, acked, crossed, gone>>
        /\ (agent' = busy.rev \/ agent' = agent)
    BY <1>6 DEF Work!PublishReloaded, Work!Hydrate
  <2>2. busy # Work!Nothing
    BY <2>1 DEF Work!Nothing
  <2> QED
    BY <2>1, <2>2 DEF Work!Nothing, Work!Writes
<1>7. ASSUME Work!WriteFails PROVE WorkInv'
  <2>1. /\ busy.kind \in Work!Writes /\ busy' = Work!Nothing
        /\ UNCHANGED <<revision, agent, drafts, refreshes, entering, acked, crossed, gone>>
    BY <1>7 DEF Work!WriteFails
  <2>2. busy # Work!Nothing
    BY <2>1 DEF Work!Nothing, Work!Writes
  <2> QED
    BY <2>1, <2>2 DEF Work!Nothing, Work!Writes
<1>8. CASE UNCHANGED workState
  BY <1>8 DEF workState
<1> QED
  BY <1>1, <1>2, <1>3, <1>4, <1>5, <1>6, <1>7, <1>8 DEF Work!WorkNext

\* Once a save is answered the page never goes back to an older record, but
\* after a tab was entered while a write or another refresh was under way
\* (agents/[id]/[tab]/page.tsx).
THEOREM PageNeverGoesBack == Spec => []NeverOlder
<1>1. Init => WorkInv
  <2> SUFFICES ASSUME Work!WorkInit PROVE WorkInv
    BY DEF Init
  <2>1. DOMAIN refreshes = {0} /\ refreshes = Work!SetToBag({0})
    BY DEF Work!WorkInit, Work!SetToBag
  <2>2. entering \in BOOLEAN /\ crossed \in BOOLEAN /\ gone \in BOOLEAN
    BY DEF Work!WorkInit
  <2>3. /\ revision = 0 /\ agent = -1 /\ acked = 0 /\ entering
        /\ busy = [kind |-> "nothing", rev |-> 0]
    BY DEF Work!WorkInit, Work!Nothing
  <2> QED
    BY <2>1, <2>2, <2>3 DEF WorkInv, WorkTypes, AnswerInv, RefreshInv, Work!Nothing,
       Work!Writes, Work!NeverOlder
<1>2. WorkInv /\ [Next]_vars => WorkInv'
  BY PagesStep, WorkStep
<1>3. WorkInv => NeverOlder
  BY DEF WorkInv, NeverOlder
<1> QED
  BY <1>1, <1>2, <1>3, PTL DEF Spec

-----------------------------------------------------------------------------
(* The status store: its inductive invariant.                              *)

\* Only the store's source is connecting or open.
OneStream == \A s \in Streams : conn[s] # "closed" => s = source

\* What a stream still has to deliver is in the server's order, no older than
\* what was delivered and no newer than the server.
FeedsInOrder ==
  /\ streamed <= server.version
  /\ \A s \in Streams :
       /\ conn[s] # "open" => feed[s] = <<>>
       /\ \A i \in 1..Len(feed[s]) :
            streamed <= feed[s][i] /\ feed[s][i] <= server.version
       /\ \A i, j \in 1..Len(feed[s]) : i <= j => feed[s][i] <= feed[s][j]

\* While the snapshot is live its two ages agree, and when they pass the
\* threshold watchStaleness is about to look.
AgesAgree ==
  Fresh => seen = age /\ age <= StaleAfter + 1 /\ (seen > StaleAfter => due)

\* A write is tried once, and the server has not carried it out before then.
TriedOnce ==
  \A w \in Writes :
    /\ call[w].stage # "waiting"
    /\ call[w].stage \in {"session", "asking"} => call[w].n = 1
    /\ call[w].stage \in {"idle", "session", "asking"} => applied[w] = 0
    /\ applied[w] <= 1

-----------------------------------------------------------------------------
(* The status store: types.                                                *)

LEMMA RecordTypes ==
  ASSUME StoreTypeOK
  PROVE  /\ server = [version |-> server.version, healthy |-> server.healthy]
         /\ server.version \in Nat /\ server.healthy \in BOOLEAN
         /\ snapshot = [v |-> snapshot.v, stale |-> snapshot.stale]
         /\ snapshot.v \in Versions /\ snapshot.stale \in BOOLEAN
BY DEF StoreTypeOK

LEMMA HealthMoves ==
  ASSUME NEW sv \in [version : Nat, healthy : BOOLEAN], NEW h \in BOOLEAN
  PROVE  /\ [sv EXCEPT !.healthy = h] \in [version : Nat, healthy : BOOLEAN]
         /\ [sv EXCEPT !.healthy = h].version = sv.version
OBVIOUS

LEMMA ConnectTypes ==
  ASSUME StoreTypeOK, OneStream, ConnectStream
  PROVE  /\ source' \in Streams \cup {Null}
         /\ conn' \in [Streams -> {"closed", "connecting", "open"}]
         /\ feed' \in [Streams -> Seq(Nat)]
<1>1. CASE ~online \/ source # Null
  BY <1>1 DEF ConnectStream, StoreTypeOK
<1>2. CASE ~(~online \/ source # Null)
  <2> DEFINE s == CHOOSE s \in ClosedStreams : TRUE
  <2>1. ClosedStreams # {}
    BY <1>2, StreamAssumption DEF OneStream, ClosedStreams, StoreTypeOK
  <2>2. s \in Streams
    BY <2>1 DEF ClosedStreams
  <2>3. OpenStream(s)
    BY <1>2 DEF ConnectStream
  <2> HIDE DEF s
  <2>4. <<>> \in Seq(Nat)
    OBVIOUS
  <2> QED
    BY <2>2, <2>3, <2>4 DEF OpenStream, StoreTypeOK
<1> QED
  BY <1>1, <1>2

LEMMA CloseTypes ==
  ASSUME StoreTypeOK, CloseStream
  PROVE  /\ source' \in Streams \cup {Null}
         /\ conn' \in [Streams -> {"closed", "connecting", "open"}]
         /\ feed' \in [Streams -> Seq(Nat)]
<1>1. CASE source = Null
  BY <1>1 DEF CloseStream, StoreTypeOK
<1>2. CASE source # Null
  <2>1. <<>> \in Seq(Nat)
    OBVIOUS
  <2>2. source' = Null /\ conn' = [conn EXCEPT ![source] = "closed"]
    BY <1>2 DEF CloseStream
  <2>3. feed' = [feed EXCEPT ![source] = <<>>]
    BY <1>2 DEF CloseStream
  <2>4. feed' \in [Streams -> Seq(Nat)]
    BY <2>1, <2>3 DEF StoreTypeOK
  <2> QED
    BY <2>2, <2>4 DEF StoreTypeOK
<1> QED
  BY <1>1, <1>2

LEMMA ApplyTypes ==
  ASSUME StoreTypeOK, NEW v \in Versions, NEW from \in {"poll", "stream"},
         ApplyStatus(v, from)
  PROVE  /\ snapshot' \in [v : Versions, stale : BOOLEAN]
         /\ age' \in Nat /\ seen' \in Nat /\ persisted' \in Versions
<1>1. snapshot' = [v |-> v, stale |-> full /\ from = "poll"] /\ age' = 0 /\ seen' = 0
  BY DEF ApplyStatus, SetSnapshot
<1>2. (full /\ from = "poll") \in BOOLEAN
  BY DEF StoreTypeOK
<1>3. persisted' \in Versions
  BY DEF ApplyStatus, PersistSnapshot, StoreTypeOK
<1> QED
  BY <1>1, <1>2, <1>3

LEMMA MarkTypes ==
  ASSUME StoreTypeOK, MarkStale
  PROVE  /\ snapshot' \in [v : Versions, stale : BOOLEAN]
         /\ age' \in Nat /\ seen' \in Nat /\ persisted' \in Versions
BY DEF MarkStale, SetSnapshot, StoreTypeOK

\* What the steps make of a call's state.
LEMMA CallMoves ==
  ASSUME NEW k \in CallState
  PROVE  /\ \A st \in Stages : [k EXCEPT !.stage = st] \in CallState
         /\ \A h \in BOOLEAN :
              [k EXCEPT !.stage = "asking", !.header = h] \in CallState
         /\ \A v \in Versions : [k EXCEPT !.stage = "body", !.v = v] \in CallState
         /\ [k EXCEPT !.stage = "asking", !.n = @ + 1] \in CallState
<1>1. \A st \in Stages : [k EXCEPT !.stage = st] \in CallState
  BY DEF CallState
<1>2. "asking" \in Stages /\ "body" \in Stages
  BY DEF Stages
<1>3. \A h \in BOOLEAN : [k EXCEPT !.stage = "asking", !.header = h] \in CallState
  BY <1>2 DEF CallState
<1>4. \A v \in Versions : [k EXCEPT !.stage = "body", !.v = v] \in CallState
  BY <1>2 DEF CallState
<1>5. [k EXCEPT !.stage = "asking", !.n = @ + 1] \in CallState
  <2>1. k.n + 1 \in Nat
    BY DEF CallState
  <2>2. [k EXCEPT !.stage = "asking", !.n = k.n + 1] \in CallState
    BY <1>2, <2>1 DEF CallState
  <2> QED
    BY <2>2
<1> QED
  BY <1>1, <1>3, <1>4, <1>5

\* A call's answer is shown, or its failure, when it was a poll.
LEMMA SettleTypes ==
  ASSUME StoreTypeOK, NEW c \in Calls, NEW ok \in BOOLEAN, NEW v \in Versions,
         Settle(c, ok, v)
  PROVE  /\ call' \in [Calls -> CallState]
         /\ pollTimer' \in BOOLEAN
         /\ snapshot' \in [v : Versions, stale : BOOLEAN]
         /\ age' \in Nat /\ seen' \in Nat /\ persisted' \in Versions
<1>1. Idle \in CallState
  BY DEF Idle, CallState, Stages, Versions
<1>2. [Idle EXCEPT !.stage = "over"]
        \in CallState
  BY DEF Idle, CallState, Stages, Versions
<1>3. call' \in [Calls -> CallState]
  BY <1>1, <1>2 DEF Settle, StoreTypeOK
<1>4. CASE c \in Polls
  <2>1. PollReturns(ok, v)
    BY <1>4 DEF Settle
  <2>2. pollTimer' = TRUE
    BY <2>1 DEF PollReturns
  <2>3. ApplyStatus(v, "poll") \/ MarkStale
    BY <2>1 DEF PollReturns
  <2> QED
    BY <1>3, <2>2, <2>3, ApplyTypes, MarkTypes
<1>5. CASE c \notin Polls
  BY <1>3, <1>5 DEF Settle, view, StoreTypeOK
<1> QED
  BY <1>4, <1>5

LEMMA BeginTypes ==
  ASSUME StoreTypeOK, NEW c \in Calls, Begin(c)
  PROVE  /\ call' \in [Calls -> CallState]
         /\ ready' \in BOOLEAN /\ boot' \in BOOLEAN
<1>1. [stage |-> IF ready THEN "asking" ELSE "session", n |-> 1, v |-> Null,
       header |-> FALSE] \in CallState
  BY DEF CallState, Stages, Versions
<1>2. (boot \/ ~ready) \in BOOLEAN
  OBVIOUS
<1> QED
  BY <1>1, <1>2 DEF Begin, StoreTypeOK

LEMMA TypeStep ==
  ASSUME StoreTypeOK, OneStream, [StoreNext]_storeVars
  PROVE  StoreTypeOK'
<1> USE DEF StoreTypeOK, world, apiSession, store, view
<1>1. CASE UNCHANGED storeVars
  BY <1>1 DEF storeVars
<1>2. CASE SettleSession
  <2>1. ASSUME NEW c \in Calls
        PROVE  [call[c] EXCEPT !.stage = "asking", !.header = ~Reachable]
                 \in CallState
    <3>1. (~Reachable) \in BOOLEAN
      BY DEF Reachable
    <3> QED
      BY <3>1, CallMoves
  <2>2. call' \in [Calls -> CallState]
    BY <1>2, <2>1 DEF SettleSession
  <2>3. boot' = FALSE /\ ready' \in BOOLEAN /\ cookie' \in {"none", "valid", "expired"}
    BY <1>2 DEF SettleSession, Reachable
  <2>4. CASE phase = "starting"
    BY <1>2, <2>2, <2>3, <2>4, ConnectTypes DEF SettleSession
  <2>5. CASE phase # "starting"
    BY <1>2, <2>2, <2>3, <2>5 DEF SettleSession
  <2> QED
    BY <2>4, <2>5
<1>3. CASE Start
  <2>1. CASE persisted = Null
    BY <1>3, <2>1 DEF Start
  <2>2. CASE persisted # Null
    <3>1. snapshot' = [v |-> persisted, stale |-> TRUE]
      BY <1>3, <2>2 DEF Start, SetSnapshot
    <3>2. age' = StaleAfter + 1 /\ seen' = StaleAfter + 1
      BY <1>3, <2>2 DEF Start, SetSnapshot
    <3>3. snapshot' \in [v : Versions, stale : BOOLEAN]
      BY <3>1
    <3>4. age' \in Nat /\ seen' \in Nat
      BY <3>2, StaleAssumption
    <3> QED
      BY <1>3, <3>3, <3>4 DEF Start
  <2> QED
    BY <2>1, <2>2
<1>4. CASE FireReconnect
  BY <1>4, ConnectTypes DEF FireReconnect
<1>5. CASE OnOnline
  <2>1. Tail(events) \in Seq({"online", "offline"})
    BY <1>5 DEF OnOnline
  <2> QED
    BY <1>5, <2>1, ConnectTypes DEF OnOnline, SetSnapshot
<1>6. CASE OnOffline
  <2>1. Tail(events) \in Seq({"online", "offline"})
    BY <1>6 DEF OnOffline
  <2> QED
    BY <1>6, <2>1, CloseTypes, MarkTypes DEF OnOffline
<1>7. CASE OnVisibilityChange
  BY <1>7 DEF OnVisibilityChange
<1>8. CASE Tick
  BY <1>8 DEF Tick, Older
<1>9. CASE Watch
  <2>1. CASE MarkStale
    BY <1>9, <2>1, MarkTypes DEF Watch
  <2>2. CASE UNCHANGED view
    BY <1>9, <2>2 DEF Watch
  <2> QED
    BY <1>9, <2>1, <2>2 DEF Watch
<1>10. ASSUME NEW c \in Calls, Answer(c) PROVE StoreTypeOK'
  <2>1. [call[c] EXCEPT !.stage = "body", !.v = IF c \in Polls THEN server.version ELSE Null]
          \in CallState
    <3>1. (IF c \in Polls THEN server.version ELSE Null) \in Versions
      BY DEF Versions
    <3> QED
      BY <3>1, CallMoves
  <2>2. call' \in [Calls -> CallState]
    BY <1>10, <2>1 DEF Answer
  <2>3. applied' \in [Writes -> Nat]
    BY <1>10 DEF Answer, Carried
  <2> QED
    BY <1>10, <2>2, <2>3 DEF Answer
<1>11. ASSUME NEW c \in Calls, Fail(c) PROVE StoreTypeOK'
  <2>1. applied' \in [Writes -> Nat]
    <3>1. Carried(c) \in [Writes -> Nat]
      BY DEF Carried
    <3>2. applied' = applied \/ applied' = Carried(c)
      BY <1>11 DEF Fail
    <3> QED
      BY <3>1, <3>2
  <2>2. CASE call[c].n < Tries(c)
    <3>1. [call[c] EXCEPT !.stage = "waiting"]
            \in CallState
      BY CallMoves DEF Stages
    <3>2. call' \in [Calls -> CallState]
      BY <1>11, <2>2, <3>1 DEF Fail
    <3> QED
      BY <1>11, <2>1, <2>2, <3>2 DEF Fail
  <2>3. CASE ~(call[c].n < Tries(c))
    <3>1. Settle(c, FALSE, Null) /\ Null \in Versions
      BY <1>11, <2>3 DEF Fail, Versions
    <3>2. UNCHANGED <<reconnect, source, conn, feed>>
      BY <3>1 DEF Settle
    <3> QED
      BY <1>11, <2>1, <3>1, <3>2, SettleTypes DEF Fail
  <2> QED
    BY <2>2, <2>3
<1>12. ASSUME NEW c \in Calls, Retry(c) PROVE StoreTypeOK'
  <2>1. [call[c] EXCEPT !.stage = "asking", !.n = @ + 1]
          \in CallState
    BY CallMoves DEF Stages
  <2>2. call' \in [Calls -> CallState]
    BY <1>12, <2>1 DEF Retry
  <2> QED
    BY <1>12, <2>2 DEF Retry
<1>13. ASSUME NEW c \in Calls, Body(c) PROVE StoreTypeOK'
  <2>1. Settle(c, online, call[c].v) /\ call[c].v \in Versions /\ online \in BOOLEAN
    BY <1>13 DEF Body, CallState
  <2>2. UNCHANGED <<reconnect, source, conn, feed>>
    BY <2>1 DEF Settle
  <2> QED
    BY <1>13, <2>1, <2>2, SettleTypes DEF Body
<1>14. ASSUME NEW w \in Writes, Write(w) PROVE StoreTypeOK'
  BY <1>14, BeginTypes DEF Write, Calls
<1>15. ASSUME NEW p \in Polls, FirePoll(p) PROVE StoreTypeOK'
  BY <1>15, BeginTypes DEF FirePoll, Calls
<1>16. ASSUME NEW s \in Streams, OnMessage(s) PROVE StoreTypeOK'
  <2>1. feed[s] \in Seq(Nat) /\ feed[s] # <<>>
    BY <1>16 DEF OnMessage
  <2>2. Head(feed[s]) \in Nat /\ Tail(feed[s]) \in Seq(Nat)
    BY <2>1
  <2>3. feed' \in [Streams -> Seq(Nat)]
    BY <1>16, <2>2 DEF OnMessage
  <2>4. Head(feed[s]) \in Versions /\ ApplyStatus(Head(feed[s]), "stream")
    BY <1>16, <2>2 DEF OnMessage, Versions
  <2> QED
    BY <1>16, <2>2, <2>3, <2>4, ApplyTypes DEF OnMessage
<1>17. ASSUME NEW s \in Streams, OnError(s) PROVE StoreTypeOK'
  BY <1>17, CloseTypes, MarkTypes DEF OnError
<1>18. ASSUME NEW s \in Streams, Accept(s) PROVE StoreTypeOK'
  <2>1. <<server.version>> \in Seq(Nat)
    OBVIOUS
  <2>2. feed' \in [Streams -> Seq(Nat)]
    BY <1>18, <2>1 DEF Accept
  <2> QED
    BY <1>18, <2>2 DEF Accept
<1>19. CASE Update
  <2>1. server' = [server EXCEPT !.version = @ + 1]
    BY <1>19 DEF Update
  <2>2. server' \in [version : Nat, healthy : BOOLEAN] /\ server'.version \in Nat
    <3>1. server' = [version |-> server.version + 1, healthy |-> server.healthy]
      BY <2>1
    <3> QED
      BY <3>1
  <2>3. ASSUME NEW s \in Streams PROVE Append(feed[s], server'.version) \in Seq(Nat)
    BY <2>2
  <2>4. feed' \in [Streams -> Seq(Nat)]
    BY <1>19, <2>3 DEF Update
  <2> QED
    BY <1>19, <2>2, <2>4 DEF Update
<1>20. CASE Outage \/ Recover \/ Expire \/ FillStorage
  <2>1. /\ [server EXCEPT !.healthy = TRUE] \in [version : Nat, healthy : BOOLEAN]
        /\ [server EXCEPT !.healthy = FALSE] \in [version : Nat, healthy : BOOLEAN]
    BY HealthMoves
  <2>2. CASE Outage
    BY <2>1, <2>2 DEF Outage, Trouble, AroundUnchanged
  <2>3. CASE Recover
    BY <2>1, <2>3 DEF Recover, AroundUnchanged
  <2>4. CASE Expire
    BY <2>4 DEF Expire, Trouble, AroundUnchanged
  <2>5. CASE FillStorage
    BY <2>5 DEF FillStorage, Trouble, AroundUnchanged
  <2> QED
    BY <1>20, <2>2, <2>3, <2>4, <2>5
<1>21. CASE Flip
  <2>1. events' \in Seq({"online", "offline"})
    <3>1. (IF online THEN "offline" ELSE "online") \in {"online", "offline"}
      OBVIOUS
    <3>2. CASE phase = "closed"
      BY <1>21, <3>2 DEF Flip
    <3>3. CASE phase # "closed"
      BY <1>21, <3>1, <3>3 DEF Flip
    <3> QED
      BY <3>2, <3>3
  <2> QED
    BY <1>21, <2>1 DEF Flip, Trouble, AroundUnchanged
<1>22. CASE Reload
  <2>1. Idle \in CallState
    BY DEF Idle, CallState, Stages, Versions
  <2>2. [Idle EXCEPT !.stage = "over"]
          \in CallState
    BY DEF Idle, CallState, Stages, Versions
  <2>3. call' \in [Calls -> CallState]
    BY <1>22, <2>1, <2>2 DEF Reload
  <2>4. feed' \in [Streams -> Seq(Nat)]
    <3>1. <<>> \in Seq(Nat)
      OBVIOUS
    <3> QED
      BY <1>22, <3>1 DEF Reload
  <2>5. Starting \in [v : Versions, stale : BOOLEAN]
    BY DEF Starting, Versions
  <2>6. /\ snapshot' \in [v : Versions, stale : BOOLEAN]
        /\ conn' \in [Streams -> {"closed", "connecting", "open"}]
    BY <1>22, <2>5 DEF Reload
  <2>7. /\ phase' = "closed" /\ due' = FALSE /\ ready' = FALSE /\ boot' = FALSE
        /\ pollTimer' = FALSE /\ reconnect' = FALSE /\ source' = Null
        /\ age' = 0 /\ seen' = 0 /\ troubles' \in Nat
        /\ UNCHANGED <<server, online, cookie, full, applied, persisted, streamed>>
    BY <1>22 DEF Reload, Trouble
  <2>8. events' \in Seq({"online", "offline"})
    <3>1. events' = <<>>
      BY <1>22 DEF Reload
    <3> QED
      BY <3>1
  <2>9. {online', ready', boot', pollTimer', reconnect', full', due'} \subseteq BOOLEAN
    <3>1. online \in BOOLEAN /\ full \in BOOLEAN
      OBVIOUS
    <3> HIDE DEF StoreTypeOK
    <3>2. /\ online' \in BOOLEAN /\ full' \in BOOLEAN /\ ready' \in BOOLEAN
          /\ boot' \in BOOLEAN /\ pollTimer' \in BOOLEAN /\ reconnect' \in BOOLEAN
          /\ due' \in BOOLEAN
      BY <2>7, <3>1
    <3> QED
      BY <3>2, Zenon
  <2>11. {age', seen', streamed'} \subseteq Nat
    BY <2>7
  <2>12. /\ server' \in [version : Nat, healthy : BOOLEAN]
         /\ source' \in Streams \cup {Null} /\ phase' \in {"closed", "starting", "running"}
    BY <2>7
  <2>10. /\ cookie' \in {"none", "valid", "expired"} /\ persisted' \in Versions
         /\ applied' \in [Writes -> Nat]
    BY <2>7
  <2> QED
    BY <2>3, <2>4, <2>6, <2>7, <2>8, <2>9, <2>10, <2>11, <2>12
<1>23. ASSUME NEW c \in Calls, Stall(c) PROVE StoreTypeOK'
  <2>1. [call[c] EXCEPT !.stage = "stalled"]
          \in CallState
    BY CallMoves DEF Stages
  <2>2. call' \in [Calls -> CallState]
    BY <1>23, <2>1 DEF Stall
  <2> QED
    BY <1>23, <2>2 DEF Stall, Trouble, AroundUnchanged
<1> QED
  BY <1>1, <1>2, <1>3, <1>4, <1>5, <1>6, <1>7, <1>8, <1>9, <1>10, <1>11, <1>12,
     <1>13, <1>14, <1>15, <1>16, <1>17, <1>18, <1>19, <1>20, <1>21, <1>22, <1>23
  DEF StoreNext, CallStep, StreamStep

-----------------------------------------------------------------------------
(* The status store: streams.                                              *)

\* The steps that concern the streams.
LEMMA StreamFrame ==
  ASSUME StoreTypeOK, [StoreNext]_storeVars
  PROVE  \/ (ConnectStream \/ CloseStream) /\ UNCHANGED <<server, streamed>>
         \/ \E s \in Streams : Accept(s)
         \/ \E s \in Streams : OnMessage(s)
         \/ Update
         \/ Reload
         \/ UNCHANGED <<source, conn, feed, streamed>> /\ server'.version = server.version
<1> DEFINE Same == UNCHANGED <<source, conn, feed, streamed>>
                     /\ server'.version = server.version
           Moved == (ConnectStream \/ CloseStream) /\ UNCHANGED <<server, streamed>>
<1> USE DEF world, apiSession, store, view
<1>1. CASE UNCHANGED storeVars
  BY <1>1 DEF storeVars
<1>2. CASE SettleSession \/ FireReconnect \/ OnOnline \/ OnOffline
  <2>1. CASE SettleSession
    <3>1. CASE phase = "starting"
      BY <2>1, <3>1 DEF SettleSession
    <3>2. CASE phase # "starting"
      BY <2>1, <3>2 DEF SettleSession
    <3> QED
      BY <3>1, <3>2
  <2>2. CASE FireReconnect
    BY <2>2 DEF FireReconnect
  <2>3. CASE OnOnline
    BY <2>3 DEF OnOnline
  <2>4. CASE OnOffline
    BY <2>4 DEF OnOffline
  <2> QED
    BY <1>2, <2>1, <2>2, <2>3, <2>4
<1>3. CASE Start \/ OnVisibilityChange \/ Tick \/ Watch
  BY <1>3 DEF Start, OnVisibilityChange, Tick, Watch
<1>4. ASSUME NEW c \in Calls, CallStep(c) \/ Stall(c) PROVE Same
  <2>1. CASE Answer(c)
    BY <2>1 DEF Answer
  <2>2. CASE Fail(c)
    BY <2>2 DEF Fail, Settle
  <2>3. CASE Retry(c)
    BY <2>3 DEF Retry
  <2>4. CASE Body(c)
    BY <2>4 DEF Body, Settle
  <2>5. CASE Stall(c)
    BY <2>5 DEF Stall, AroundUnchanged
  <2> QED
    BY <1>4, <2>1, <2>2, <2>3, <2>4, <2>5 DEF CallStep
<1>5. ASSUME NEW w \in Writes, Write(w) PROVE Same
  BY <1>5 DEF Write
<1>6. ASSUME NEW c \in Polls, FirePoll(c) PROVE Same
  BY <1>6 DEF FirePoll
<1>7. ASSUME NEW s \in Streams, OnError(s) PROVE Moved
  BY <1>7 DEF OnError
<1>8. CASE Outage \/ Recover
  <2>1. /\ [server EXCEPT !.healthy = TRUE].version = server.version
        /\ [server EXCEPT !.healthy = FALSE].version = server.version
    BY HealthMoves DEF StoreTypeOK
  <2>2. CASE Outage
    BY <2>1, <2>2 DEF Outage, AroundUnchanged
  <2>3. CASE Recover
    BY <2>1, <2>3 DEF Recover, AroundUnchanged
  <2> QED
    BY <1>8, <2>2, <2>3
<1>9. CASE Expire \/ FillStorage \/ Flip
  BY <1>9 DEF Expire, FillStorage, Flip, AroundUnchanged
<1> QED
  BY <1>1, <1>2, <1>3, <1>4, <1>5, <1>6, <1>7, <1>8, <1>9 DEF StoreNext, StreamStep

\* ConnectStream opens a stream only when there is none.
LEMMA OneStreamStep ==
  ASSUME StoreTypeOK, OneStream, [StoreNext]_storeVars
  PROVE  OneStream'
<1> USE DEF StoreTypeOK, OneStream, store
<1>1. CASE ConnectStream
  <2>1. CASE ~online \/ source # Null
    BY <1>1, <2>1 DEF ConnectStream
  <2>2. CASE ~(~online \/ source # Null)
    <3> DEFINE s == CHOOSE s \in ClosedStreams : TRUE
    <3>1. source' = s /\ conn' = [conn EXCEPT ![s] = "connecting"]
      BY <1>1, <2>2 DEF ConnectStream, OpenStream
    <3> HIDE DEF s
    <3>2. \A t \in Streams : conn[t] = "closed"
      BY <2>2, StreamAssumption
    <3> QED
      BY <3>1, <3>2
  <2> QED
    BY <2>1, <2>2
<1>2. CASE CloseStream
  <2>1. CASE source = Null
    BY <1>2, <2>1 DEF CloseStream
  <2>2. CASE source # Null
    BY <1>2, <2>2 DEF CloseStream
  <2> QED
    BY <2>1, <2>2
<1>3. ASSUME NEW s \in Streams, Accept(s) PROVE OneStream'
  BY <1>3 DEF Accept
<1>4. ASSUME NEW s \in Streams, OnMessage(s) PROVE OneStream'
  BY <1>4 DEF OnMessage
<1>5. CASE Update
  BY <1>5 DEF Update
<1>6. CASE Reload
  BY <1>6 DEF Reload
<1>7. CASE UNCHANGED <<source, conn>>
  BY <1>7
<1> QED
  BY <1>1, <1>2, <1>3, <1>4, <1>5, <1>6, <1>7, StreamFrame

\* One feed, when nothing is delivered from it.
LEMMA FeedKept ==
  ASSUME FeedsInOrder, NEW s \in Streams,
         streamed' = streamed, streamed \in Nat,
         server.version \in Nat, server'.version \in Nat,
         server.version <= server'.version, feed[s] \in Seq(Nat),
         \/ feed'[s] = feed[s] /\ conn'[s] = conn[s]
         \/ feed'[s] = <<>>
  PROVE  /\ conn'[s] # "open" => feed'[s] = <<>>
         /\ \A i \in 1..Len(feed'[s]) :
              streamed' <= feed'[s][i] /\ feed'[s][i] <= server'.version
         /\ \A i, j \in 1..Len(feed'[s]) : i <= j => feed'[s][i] <= feed'[s][j]
<1>1. CASE feed'[s] = feed[s] /\ conn'[s] = conn[s]
  <2>1. \A i \in 1..Len(feed[s]) : feed[s][i] \in Nat
    BY ElementOfSeq
  <2>2. \A i \in 1..Len(feed[s]) : feed[s][i] <= server'.version
    BY <2>1 DEF FeedsInOrder
  <2> QED
    BY <1>1, <2>2 DEF FeedsInOrder
<1>2. CASE feed'[s] = <<>>
  BY <1>2
<1> QED
  BY <1>1, <1>2

LEMMA FeedsStep ==
  ASSUME StoreTypeOK, OneStream, FeedsInOrder, [StoreNext]_storeVars
  PROVE  FeedsInOrder' /\ streamed' >= streamed
<1> DEFINE Ordered(s) ==
      /\ conn[s] # "open" => feed[s] = <<>>
      /\ \A i \in 1..Len(feed[s]) :
           streamed <= feed[s][i] /\ feed[s][i] <= server.version
      /\ \A i, j \in 1..Len(feed[s]) : i <= j => feed[s][i] <= feed[s][j]
<1>1. /\ server.version \in Nat /\ streamed \in Nat /\ streamed <= server.version
      /\ \A s \in Streams : feed[s] \in Seq(Nat)
  BY RecordTypes DEF StoreTypeOK, FeedsInOrder
<1>2. ASSUME streamed' = streamed, server'.version \in Nat,
             server.version <= server'.version,
             \A s \in Streams : Ordered(s)'
      PROVE  FeedsInOrder' /\ streamed' >= streamed
  BY <1>1, <1>2 DEF FeedsInOrder
<1>3. CASE (ConnectStream \/ CloseStream) /\ UNCHANGED <<server, streamed>>
  <2>1. \A s \in Streams : \/ feed'[s] = feed[s] /\ conn'[s] = conn[s]
                           \/ feed'[s] = <<>>
    <3>1. ASSUME NEW t, \/ UNCHANGED <<conn, feed>>
                        \/ \E k : /\ conn' = [conn EXCEPT ![t] = k]
                                  /\ feed' = [feed EXCEPT ![t] = <<>>]
          PROVE  \A s \in Streams : \/ feed'[s] = feed[s] /\ conn'[s] = conn[s]
                                    \/ feed'[s] = <<>>
      BY <3>1 DEF StoreTypeOK
    <3> QED
      BY <1>3, <3>1 DEF ConnectStream, CloseStream, OpenStream
  <2>2. ASSUME NEW s \in Streams PROVE Ordered(s)'
    BY <1>1, <1>3, <2>1, FeedKept
  <2> HIDE DEF Ordered
  <2> QED
    BY <1>1, <1>2, <1>3, <2>2
<1>4. ASSUME NEW s \in Streams, Accept(s)
      PROVE  FeedsInOrder' /\ streamed' >= streamed
  <2>1. /\ conn' = [conn EXCEPT ![s] = "open"]
        /\ feed' = [feed EXCEPT ![s] = <<server.version>>]
        /\ server' = server /\ streamed' = streamed
    BY <1>4 DEF Accept, world
  <2>2. ASSUME NEW t \in Streams PROVE Ordered(t)'
    <3>1. CASE t = s
      <4>1. conn'[t] = "open" /\ feed'[t] = <<server.version>>
        BY <2>1, <3>1 DEF StoreTypeOK
      <4>2. Len(feed'[t]) = 1 /\ feed'[t][1] = server.version
        BY <4>1
      <4> QED
        BY <1>1, <2>1, <4>1, <4>2
    <3>2. CASE t # s
      <4>1. feed'[t] = feed[t] /\ conn'[t] = conn[t]
        BY <2>1, <3>2 DEF StoreTypeOK
      <4> QED
        BY <1>1, <2>1, <4>1, FeedKept
    <3> QED
      BY <3>1, <3>2
  <2> HIDE DEF Ordered
  <2> QED
    BY <1>1, <1>2, <2>1, <2>2
<1>5. ASSUME NEW s \in Streams, OnMessage(s)
      PROVE  FeedsInOrder' /\ streamed' >= streamed
  <2>1. /\ feed[s] # <<>> /\ feed[s] \in Seq(Nat)
        /\ streamed' = Head(feed[s]) /\ feed' = [feed EXCEPT ![s] = Tail(@)]
        /\ UNCHANGED <<server, conn>>
    BY <1>1, <1>5 DEF OnMessage, world
  <2>2. /\ Len(feed[s]) \in Nat \ {0} /\ streamed' = feed[s][1] /\ streamed' \in Nat
        /\ feed'[s] = Tail(feed[s]) /\ Len(feed'[s]) = Len(feed[s]) - 1
        /\ \A i \in 1..Len(feed'[s]) : feed'[s][i] = feed[s][i + 1]
    <3>1. feed'[s] = Tail(feed[s])
      BY <2>1 DEF StoreTypeOK
    <3> DEFINE f == feed[s]
    <3>2. f \in Seq(Nat) /\ f # <<>>
      BY <2>1
    <3> HIDE DEF f
    <3>3. Len(f) \in Nat \ {0} /\ Head(f) = f[1] /\ f[1] \in Nat
      BY <3>2
    <3>4. /\ Len(Tail(f)) = Len(f) - 1
          /\ \A i \in 1..Len(Tail(f)) : Tail(f)[i] = f[i + 1]
      BY <3>2
    <3> QED
      BY <2>1, <3>1, <3>3, <3>4 DEF f
  <2>3. streamed <= streamed' /\ streamed' <= server.version
    BY <2>1, <2>2 DEF FeedsInOrder
  <2>4. ASSUME NEW t \in Streams PROVE Ordered(t)'
    <3>1. CASE t = s
      <4>1. conn[s] = "open"
        BY <2>1 DEF FeedsInOrder
      <4>2. \A i \in 1..Len(feed'[s]) : i + 1 \in 1..Len(feed[s])
        BY <2>2
      <4>3. \A i \in 1..Len(feed'[s]) :
              feed[s][1] <= feed[s][i + 1] /\ feed[s][i + 1] <= server.version
        BY <2>2, <4>2 DEF FeedsInOrder
      <4>4. \A i, j \in 1..Len(feed'[s]) : i <= j => feed[s][i + 1] <= feed[s][j + 1]
        BY <2>2, <4>2 DEF FeedsInOrder
      <4>5. \A i \in 1..Len(feed'[s]) :
              streamed' <= feed'[s][i] /\ feed'[s][i] <= server'.version
        BY <2>1, <2>2, <4>3
      <4>6. \A i, j \in 1..Len(feed'[s]) : i <= j => feed'[s][i] <= feed'[s][j]
        BY <2>2, <4>4
      <4> QED
        BY <2>1, <3>1, <4>1, <4>5, <4>6
    <3>2. CASE t # s
      <4>1. conn[s] = "open"
        BY <2>1 DEF FeedsInOrder
      <4>2. conn[t] = "closed"
        BY <3>2, <4>1 DEF OneStream
      <4>3. feed'[t] = <<>>
        BY <2>1, <3>2, <4>2 DEF FeedsInOrder, StoreTypeOK
      <4> QED
        BY <4>3
    <3> QED
      BY <3>1, <3>2
  <2> HIDE DEF Ordered
  <2>5. FeedsInOrder'
    <3>1. (\A t \in Streams : Ordered(t))'
      BY <2>4
    <3> QED
      BY <2>1, <2>3, <3>1 DEF FeedsInOrder, Ordered
  <2> QED
    BY <1>1, <2>2, <2>3, <2>5
<1>6. CASE Update
  <2>1. /\ server' = [server EXCEPT !.version = @ + 1]
        /\ feed' = [s \in Streams |-> IF conn[s] = "open"
                                      THEN Append(feed[s], server'.version)
                                      ELSE feed[s]]
        /\ conn' = conn /\ streamed' = streamed
    BY <1>6 DEF Update
  <2>2. server'.version = server.version + 1
    BY <2>1, RecordTypes
  <2>3. ASSUME NEW t \in Streams PROVE Ordered(t)'
    <3>1. CASE conn[t] = "open"
      <4> DEFINE n == Len(feed[t])
      <4>1. n \in Nat /\ feed'[t] = Append(feed[t], server.version + 1)
        BY <1>1, <2>1, <2>2, <3>1
      <4>2. /\ Len(feed'[t]) = n + 1
            /\ feed'[t][n + 1] = server.version + 1
            /\ \A i \in 1..n : feed'[t][i] = feed[t][i]
        BY <1>1, <4>1
      <4>3. \A i \in 1..n : /\ feed[t][i] \in Nat
                            /\ streamed <= feed[t][i] /\ feed[t][i] <= server.version
        BY <1>1, ElementOfSeq DEF FeedsInOrder
      <4>4. \A i, j \in 1..n : i <= j => feed[t][i] <= feed[t][j]
        BY DEF FeedsInOrder
      <4> HIDE DEF n
      <4>5. \A i \in 1..(n + 1) : i \in 1..n \/ i = n + 1
        BY <4>1
      <4>6. \A i \in 1..(n + 1) : streamed <= feed'[t][i] /\ feed'[t][i] <= server.version + 1
        BY <1>1, <4>1, <4>2, <4>3, <4>5
      <4>7. ASSUME NEW i \in 1..(n + 1), NEW j \in 1..(n + 1), i <= j
            PROVE  feed'[t][i] <= feed'[t][j]
        <5>1. CASE j \in 1..n
          <6>1. i \in 1..n
            BY <4>1, <4>7, <5>1
          <6> QED
            BY <4>2, <4>4, <4>7, <5>1, <6>1
        <5>2. CASE j = n + 1
          <6>1. feed'[t][j] = server.version + 1
            BY <4>2, <5>2
          <6> QED
            BY <4>6, <6>1
        <5> QED
          BY <4>5, <5>1, <5>2
      <4> QED
        BY <2>1, <2>2, <3>1, <4>2, <4>6, <4>7
    <3>2. CASE conn[t] # "open"
      <4>1. feed'[t] = <<>> /\ conn'[t] = conn[t]
        BY <2>1, <3>2 DEF FeedsInOrder
      <4> QED
        BY <4>1
    <3> QED
      BY <3>1, <3>2
  <2> HIDE DEF Ordered
  <2> QED
    BY <1>1, <1>2, <2>1, <2>2, <2>3
<1>7. CASE Reload
  <2>1. /\ \A s \in Streams : feed'[s] = <<>>
        /\ UNCHANGED <<server, streamed>>
    BY <1>7 DEF Reload
  <2>2. ASSUME NEW s \in Streams PROVE Ordered(s)'
    BY <2>1
  <2> HIDE DEF Ordered
  <2> QED
    BY <1>1, <1>2, <2>1, <2>2
<1>8. CASE UNCHANGED <<source, conn, feed, streamed>> /\ server'.version = server.version
  BY <1>1, <1>8 DEF FeedsInOrder
<1> QED
  BY <1>3, <1>4, <1>5, <1>6, <1>7, <1>8, StreamFrame

-----------------------------------------------------------------------------
(* The status store: the age of what is shown.                             *)

\* The steps that concern the snapshot's age.
LEMMA SnapshotFrame ==
  ASSUME [StoreNext]_storeVars
  PROVE  \/ /\ \E v, from : ApplyStatus(v, from)
            /\ UNCHANGED due
         \/ MarkStale \/ Start \/ Tick \/ Watch \/ Reload
         \/ SetSnapshot(snapshot, age) /\ UNCHANGED due
         \/ UNCHANGED <<snapshot, age, seen, due>>
<1> DEFINE Same == UNCHANGED <<snapshot, age, seen, due>>
           Applied == (\E v, from : ApplyStatus(v, from)) /\ UNCHANGED due
<1> USE DEF world, apiSession, store, view
<1>1. CASE UNCHANGED storeVars
  BY <1>1 DEF storeVars
<1>2. CASE SettleSession \/ FireReconnect \/ OnVisibilityChange
  BY <1>2 DEF SettleSession, FireReconnect, OnVisibilityChange
<1>3. CASE OnOnline
  BY <1>3 DEF OnOnline
<1>4. CASE OnOffline
  BY <1>4 DEF OnOffline
<1>5. ASSUME NEW c, NEW ok, NEW v, Settle(c, ok, v), UNCHANGED due
      PROVE  Applied \/ MarkStale \/ Same
  BY <1>5 DEF Settle, PollReturns
<1>6. ASSUME NEW c \in Calls, CallStep(c) \/ Stall(c)
      PROVE  Applied \/ MarkStale \/ Same
  <2>1. CASE Answer(c)
    BY <2>1 DEF Answer
  <2>2. CASE Fail(c)
    <3>1. UNCHANGED due /\ (UNCHANGED view \/ Settle(c, FALSE, Null))
      BY <2>2 DEF Fail
    <3> QED
      BY <1>5, <3>1
  <2>3. CASE Retry(c)
    BY <2>3 DEF Retry
  <2>4. CASE Body(c)
    <3>1. UNCHANGED due /\ Settle(c, online, call[c].v)
      BY <2>4 DEF Body
    <3> QED
      BY <1>5, <3>1
  <2>5. CASE Stall(c)
    BY <2>5 DEF Stall, AroundUnchanged
  <2> QED
    BY <1>6, <2>1, <2>2, <2>3, <2>4, <2>5 DEF CallStep
<1>7. ASSUME NEW w \in Writes, Write(w) PROVE Same
  BY <1>7 DEF Write
<1>8. ASSUME NEW c \in Polls, FirePoll(c) PROVE Same
  BY <1>8 DEF FirePoll
<1>9. ASSUME NEW s \in Streams, StreamStep(s) PROVE Applied \/ MarkStale \/ Same
  BY <1>9 DEF StreamStep, OnMessage, OnError, Accept
<1>10. CASE Update \/ Outage \/ Recover \/ Expire \/ FillStorage \/ Flip
  BY <1>10 DEF Update, Outage, Recover, Expire, FillStorage, Flip, AroundUnchanged
<1> QED
  BY <1>1, <1>2, <1>3, <1>4, <1>6, <1>7, <1>8, <1>9, <1>10 DEF StoreNext

\* Whoever sets the snapshot anew says how old it is; the tick that takes a
\* live one over the threshold is followed by the watch before the next tick.
LEMMA AgesStep ==
  ASSUME StoreTypeOK, AgesAgree, [StoreNext]_storeVars
  PROVE  AgesAgree'
<1> USE RecordTypes, StaleAssumption DEF AgesAgree, Fresh
<1>1. age \in Nat /\ seen \in Nat /\ due \in BOOLEAN
  BY DEF StoreTypeOK
<1>2. ASSUME NEW v, NEW from, ApplyStatus(v, from) PROVE AgesAgree'
  <2>1. age' = 0 /\ seen' = 0
    BY <1>2 DEF ApplyStatus, SetSnapshot
  <2> QED
    BY <2>1
<1>3. CASE MarkStale
  <2>1. snapshot' = [snapshot EXCEPT !.stale = TRUE]
    BY <1>3 DEF MarkStale, SetSnapshot
  <2>2. snapshot'.stale = TRUE
    BY <2>1
  <2> QED
    BY <2>2
<1>4. CASE Start
  <2>1. CASE persisted = Null
    BY <1>4, <2>1 DEF Start
  <2>2. CASE persisted # Null
    <3>1. snapshot' = [v |-> persisted, stale |-> TRUE]
      BY <1>4, <2>2 DEF Start, SetSnapshot
    <3> QED
      BY <3>1
  <2> QED
    BY <2>1, <2>2
<1>5. CASE Tick
  <2>1. /\ due = FALSE /\ due' = TRUE
        /\ snapshot' = snapshot /\ age' = Older(age) /\ seen' = Older(seen)
    BY <1>1, <1>5 DEF Tick
  <2> QED
    BY <1>1, <2>1 DEF Older
<1>6. CASE Watch
  <2>1. CASE MarkStale
    BY <1>3, <2>1
  <2>2. CASE ~MarkStale
    <3>1. /\ UNCHANGED <<snapshot, age, seen>> /\ due' = FALSE
          /\ ~(snapshot.v # Null /\ seen > StaleAfter /\ ~snapshot.stale)
      BY <1>6, <2>2 DEF Watch, view
    <3> QED
      BY <1>1, <3>1
  <2> QED
    BY <2>1, <2>2
<1>7. CASE Reload
  <2>1. snapshot' = Starting
    BY <1>7 DEF Reload
  <2>2. snapshot'.v = Null
    BY <2>1 DEF Starting
  <2> QED
    BY <2>2
<1>8. CASE SetSnapshot(snapshot, age) /\ UNCHANGED due
  BY <1>1, <1>8 DEF SetSnapshot
<1>9. CASE UNCHANGED <<snapshot, age, seen, due>>
  BY <1>9
<1> QED
  BY <1>2, <1>3, <1>4, <1>5, <1>6, <1>7, <1>8, <1>9, SnapshotFrame

-----------------------------------------------------------------------------
(* The status store: writes.                                               *)

\* A write is not a poll, so a failed try of it is the last.
LEMMA WritesStep ==
  ASSUME StoreTypeOK, TriedOnce, [StoreNext]_storeVars
  PROVE  TriedOnce'
<1> DEFINE Once(w) ==
      /\ call[w].stage # "waiting"
      /\ call[w].stage \in {"session", "asking"} => call[w].n = 1
      /\ call[w].stage \in {"idle", "session", "asking"} => applied[w] = 0
      /\ applied[w] <= 1
<1>1. /\ Writes \subseteq Calls /\ call \in [Calls -> CallState]
      /\ applied \in [Writes -> Nat]
  BY DEF StoreTypeOK, Calls
<1>2. \A w \in Writes : Once(w) /\ w \notin Polls
  BY CallAssumption DEF TriedOnce
<1>3. ASSUME NEW w \in Writes, applied'[w] = applied[w],
             \/ call'[w] = call[w]
             \/ call'[w].stage \in {"over", "stalled"}
             \/ /\ call'[w].stage \in {"session", "asking"} /\ call'[w].n = 1
                /\ call[w].stage \in {"idle", "session"}
      PROVE  Once(w)'
  BY <1>1, <1>2, <1>3
<1> HIDE DEF Once
<1>4. ASSUME UNCHANGED <<call, applied>> PROVE \A w \in Writes : Once(w)'
  BY <1>3, <1>4
<1> USE DEF world, apiSession, store, view
<1>5. CASE UNCHANGED storeVars
  BY <1>4, <1>5 DEF storeVars, TriedOnce, Once
<1>6. ASSUME NEW c, NEW w \in Writes, Begin(c), UNCHANGED applied,
             c \in Calls, c \in Writes => call[c].stage = "idle"
      PROVE  Once(w)'
  BY <1>1, <1>3, <1>6 DEF Begin
<1>7. ASSUME NEW c \in Calls, NEW w \in Writes, NEW ok, NEW v,
             Settle(c, ok, v),
             \/ applied' = applied
             \/ applied' = Carried(c) /\ call[c].stage = "asking"
      PROVE  Once(w)'
  <2>1. CASE c = w
    <3>1. call' = [call EXCEPT ![w] = [Idle EXCEPT !.stage = "over"]]
      BY <1>2, <1>7, <2>1 DEF Settle
    <3>2. call'[w].stage = "over"
      BY <1>1, <3>1 DEF Idle
    <3>3. applied'[w] <= 1
      <4>1. CASE applied' = applied
        BY <1>2, <4>1 DEF Once
      <4>2. CASE applied' = Carried(c) /\ call[c].stage = "asking"
        BY <1>1, <1>2, <2>1, <4>2 DEF Once, Carried
      <4> QED
        BY <1>7, <4>1, <4>2
    <3> QED
      BY <3>2, <3>3 DEF Once
  <2>2. CASE c # w
    <3>1. call'[w] = call[w]
      BY <1>1, <1>7, <2>2 DEF Settle
    <3>2. applied'[w] = applied[w]
      BY <1>1, <1>7, <2>2 DEF Carried
    <3> QED
      BY <1>3, <3>1, <3>2
  <2> QED
    BY <2>1, <2>2
<1>8. ASSUME NEW w \in Writes, SettleSession PROVE Once(w)'
  <2>1. /\ applied' = applied
        /\ call'[w] = IF call[w].stage # "session" THEN call[w]
                      ELSE [call[w] EXCEPT !.stage = "asking", !.header = ~Reachable]
    BY <1>1, <1>8 DEF SettleSession
  <2>2. CASE call[w].stage # "session"
    BY <1>3, <2>1, <2>2
  <2>3. CASE call[w].stage = "session"
    <3>1. call'[w].stage = "asking" /\ call'[w].n = call[w].n /\ call[w].n = 1
      BY <1>1, <1>2, <2>1, <2>3 DEF CallState, Once
    <3> QED
      BY <1>3, <2>1, <2>3, <3>1
  <2> QED
    BY <2>2, <2>3
<1>9. ASSUME NEW w \in Writes, NEW c \in Calls, Answer(c) PROVE Once(w)'
  <2>1. CASE c = w
    <3>1. call'[w] = [call[w] EXCEPT !.stage = "body", !.v = Null]
      BY <1>1, <1>2, <1>9, <2>1 DEF Answer
    <3>2. call'[w].stage = "body"
      BY <1>1, <3>1 DEF CallState
    <3>3. applied'[w] = applied[w] + 1 /\ applied[w] = 0
      BY <1>1, <1>2, <1>9, <2>1 DEF Answer, Carried, Once
    <3> QED
      BY <3>2, <3>3 DEF Once
  <2>2. CASE c # w
    <3>1. call'[w] = call[w] /\ applied'[w] = applied[w]
      BY <1>1, <1>9, <2>2 DEF Answer, Carried
    <3> QED
      BY <1>3, <3>1
  <2> QED
    BY <2>1, <2>2
<1>10. ASSUME NEW w \in Writes, NEW c \in Calls, Fail(c) PROVE Once(w)'
  <2>1. call[c].stage = "asking" /\ (applied' = applied \/ applied' = Carried(c))
    BY <1>10 DEF Fail
  <2>2. CASE call[c].n < Tries(c)
    <3>1. call' = [call EXCEPT ![c].stage = "waiting"]
      BY <1>10, <2>2 DEF Fail
    <3>2. c \notin Writes
      BY <1>2, <2>1, <2>2 DEF Tries, Once
    <3>3. call'[w] = call[w] /\ applied'[w] = applied[w]
      BY <1>1, <2>1, <3>1, <3>2 DEF Carried
    <3> QED
      BY <1>3, <3>3
  <2>3. CASE ~(call[c].n < Tries(c))
    <3>1. Settle(c, FALSE, Null)
      BY <1>10, <2>3 DEF Fail
    <3> QED
      BY <1>7, <2>1, <3>1
  <2> QED
    BY <2>2, <2>3
<1>11. ASSUME NEW w \in Writes, NEW c \in Calls, Retry(c) PROVE Once(w)'
  <2>1. c # w
    BY <1>2, <1>11 DEF Retry, Once
  <2>2. call'[w] = call[w] /\ applied'[w] = applied[w]
    BY <1>1, <1>11, <2>1 DEF Retry
  <2> QED
    BY <1>3, <2>2
<1>12. ASSUME NEW w \in Writes, NEW c \in Calls, Body(c) PROVE Once(w)'
  BY <1>7, <1>12 DEF Body
<1>13. ASSUME NEW w \in Writes, NEW c \in Calls, Stall(c) PROVE Once(w)'
  <2>1. applied' = applied /\ call' = [call EXCEPT ![c].stage = "stalled"]
    BY <1>13 DEF Stall, AroundUnchanged
  <2>2. call'[w] = call[w] \/ call'[w].stage = "stalled"
    BY <1>1, <2>1 DEF CallState
  <2> QED
    BY <1>3, <2>1, <2>2
<1>14. ASSUME NEW w \in Writes, NEW c \in Writes, Write(c) PROVE Once(w)'
  BY <1>1, <1>6, <1>14 DEF Write
<1>15. ASSUME NEW w \in Writes, NEW p \in Polls, FirePoll(p) PROVE Once(w)'
  BY <1>2, <1>6, <1>15 DEF FirePoll, Calls
<1>16. ASSUME NEW w \in Writes, Reload PROVE Once(w)'
  <2>1. /\ applied' = applied
        /\ call'[w] = IF call[w].stage = "idle" THEN Idle
                      ELSE [Idle EXCEPT !.stage = "over"]
    BY <1>1, <1>2, <1>16 DEF Reload
  <2>2. /\ Idle.stage = "idle" /\ [Idle EXCEPT !.stage = "over"].stage = "over"
    BY DEF Idle
  <2> QED
    BY <1>2, <2>1, <2>2 DEF Once
<1>17. ASSUME Start \/ FireReconnect \/ OnOnline \/ OnOffline \/ OnVisibilityChange
              \/ Tick \/ Watch
       PROVE  UNCHANGED <<call, applied>>
  BY <1>17 DEF Start, FireReconnect, OnOnline, OnOffline, OnVisibilityChange, Tick, Watch
<1>18. ASSUME Update \/ Outage \/ Recover \/ Expire \/ FillStorage \/ Flip
       PROVE  UNCHANGED <<call, applied>>
  BY <1>18 DEF Update, Outage, Recover, Expire, FillStorage, Flip, AroundUnchanged
<1>19. ASSUME NEW s \in Streams, StreamStep(s) PROVE UNCHANGED <<call, applied>>
  BY <1>19 DEF StreamStep, OnMessage, OnError, Accept
<1>20. CASE StoreNext
  <2>1. \A w \in Writes : Once(w)'
    BY <1>4, <1>8, <1>9, <1>10, <1>11, <1>12, <1>13, <1>14, <1>15, <1>16, <1>17,
       <1>18, <1>19, <1>20 DEF StoreNext, CallStep
  <2> QED
    BY <2>1 DEF TriedOnce, Once
<1> QED
  BY <1>5, <1>20

-----------------------------------------------------------------------------
(* The status store: theorems.                                             *)

StoreInv == StoreTypeOK /\ OneStream /\ FeedsInOrder /\ AgesAgree /\ TriedOnce

LEMMA StoreInvHolds == StoreSpec => []StoreInv
<1>1. StoreInit => StoreInv
  <2> SUFFICES ASSUME StoreInit PROVE StoreInv
    OBVIOUS
  <2> USE DEF StoreInit
  <2>1. StoreTypeOK
    <3>1. Idle \in CallState
      BY DEF Idle, CallState, Stages, Versions
    <3>2. call \in [Calls -> CallState]
      BY <3>1
    <3>3. <<>> \in Seq(Nat) /\ <<>> \in Seq({"online", "offline"})
      OBVIOUS
    <3>4. feed \in [Streams -> Seq(Nat)] /\ events \in Seq({"online", "offline"})
      BY <3>3
    <3>5. snapshot \in [v : Versions, stale : BOOLEAN]
      BY DEF Starting, Versions
    <3>6. /\ server \in [version : Nat, healthy : BOOLEAN]
          /\ {online, ready, boot, pollTimer, reconnect, full, due} \subseteq BOOLEAN
      <4>1. [version |-> 0, healthy |-> TRUE] \in [version : Nat, healthy : BOOLEAN]
        OBVIOUS
      <4>2. /\ server = [version |-> 0, healthy |-> TRUE]
            /\ ready = FALSE /\ boot = FALSE /\ pollTimer = FALSE /\ reconnect = FALSE
            /\ full = FALSE /\ due = FALSE /\ online \in BOOLEAN
        OBVIOUS
      <4> QED
        BY <4>1, <4>2
    <3>7. /\ applied \in [Writes -> Nat] /\ persisted \in Versions
          /\ conn \in [Streams -> {"closed", "connecting", "open"}]
          /\ {age, seen, streamed} \subseteq Nat
      BY DEF Versions
    <3> QED
      BY <3>2, <3>4, <3>5, <3>6, <3>7 DEF StoreTypeOK
  <2>2. OneStream /\ FeedsInOrder
    <3>1. \A s \in Streams : conn[s] = "closed" /\ feed[s] = <<>>
      OBVIOUS
    <3>2. streamed <= server.version
      OBVIOUS
    <3> QED
      BY <3>1, <3>2 DEF OneStream, FeedsInOrder
  <2>3. AgesAgree
    BY DEF AgesAgree, Fresh, Starting
  <2>4. TriedOnce
    BY DEF TriedOnce, Idle, Calls
  <2> QED
    BY <2>1, <2>2, <2>3, <2>4 DEF StoreInv
<1>2. StoreInv /\ [StoreNext]_storeVars => StoreInv'
  BY TypeStep, OneStreamStep, FeedsStep, AgesStep, WritesStep DEF StoreInv
<1> QED
  BY <1>1, <1>2, PTL DEF StoreSpec

\* Every variable of the page keeps its type, whatever goes wrong around it.
THEOREM StoreTypes == StoreSpec => []StoreTypeOK
<1>1. StoreInv => StoreTypeOK
  BY DEF StoreInv
<1> QED
  BY <1>1, StoreInvHolds, PTL

\* A snapshot shown as live is at most one watch interval over the threshold:
\* the two ages a snapshot has agree while it is live (status-store.ts), so
\* that watchStaleness, which looks at one, gives up on the other in time.
THEOREM LiveIsRecent == StoreSpec => []FreshIsRecent
<1>1. StoreInv => FreshIsRecent
  BY DEF StoreInv, AgesAgree, FreshIsRecent
<1> QED
  BY <1>1, StoreInvHolds, PTL

\* Stream messages are applied in the server's order, over any number of
\* EventSource objects, errors, reconnections and browser events: only the
\* store's own source ever has something to deliver.
THEOREM MessagesInOrder == StoreSpec => StreamInOrder
<1>1. StoreInv /\ [StoreNext]_storeVars => [streamed' >= streamed]_storeVars
  BY FeedsStep DEF StoreInv
<1> QED
  BY <1>1, StoreInvHolds, PTL DEF StoreSpec, StreamInOrder

\* The server carries a write out once at most, for any retry count of reads:
\* fetchJson gives a write one try, and nothing puts it back (sefi-api.ts).
THEOREM WrittenOnce == StoreSpec => []WritesApplyOnce
<1>1. StoreInv => WritesApplyOnce
  BY DEF StoreInv, TriedOnce, WritesApplyOnce
<1> QED
  BY <1>1, StoreInvHolds, PTL
=============================================================================
