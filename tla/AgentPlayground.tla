---------------------------- MODULE AgentPlayground ----------------------------
(***************************************************************************)
(* The agent playground of the dashboard (agents/playground/page.tsx).  The *)
(* operator asks a question; the service answers with a plan, which it runs *)
(* at once when auto-run was on and the plan is valid; a plan that was not  *)
(* run is run by a second request.  "Manual approval mode" is a switch that *)
(* turns auto-run off.  A plan is a number, the questions being numbered as *)
(* they are asked; the wording, the row limit and the choice of model are   *)
(* left out.                                                                *)
(***************************************************************************)
EXTENDS Naturals

CONSTANT MaxAsks      \* bound: questions asked

NoPlan == [id |-> 0, valid |-> FALSE, mode |-> "none", executed |-> FALSE]
Modes == {"cube_query", "sql_fallback", "clarify"}
Executable == {"cube_query", "sql_fallback"}

VARIABLES
  auto,            \* autoExecute
  manual,          \* manualApprove
  loadingContext,  \* refreshContext is under way
  asking,          \* the question under way: its number, its auto-run option
  asked,           \* questions so far
  askResult,       \* the plan shown
  executing,       \* the plan being run, 0 for none
  execution,       \* the plan whose rows are shown, 0 for none
  refreshed,       \* the context was answered since manual was set (ghost)
  overlapped       \* a question and a run were under way together (ghost)

playVars == <<auto, manual, loadingContext, asking, asked, askResult, executing,
              execution, refreshed, overlapped>>

Asking == asking.id # 0
NoAsk == [id |-> 0, auto |-> FALSE]

PlayTypeOK ==
  /\ {auto, manual, loadingContext, refreshed, overlapped} \subseteq BOOLEAN
  /\ asking \in [id : 0..MaxAsks, auto : BOOLEAN]
  /\ {asked, executing, execution} \subseteq 0..MaxAsks
  /\ askResult = NoPlan \/
     askResult \in [id : 1..MaxAsks, valid : BOOLEAN, mode : Modes,
                    executed : BOOLEAN]

PlayInit ==
  /\ auto = TRUE /\ manual = FALSE
  /\ loadingContext = TRUE      \* the effect of the first render
  /\ asking = NoAsk /\ asked = 0 /\ askResult = NoPlan
  /\ executing = 0 /\ execution = 0
  /\ refreshed = FALSE /\ overlapped = FALSE

RefreshContext ==
  /\ ~loadingContext
  /\ loadingContext' = TRUE
  /\ UNCHANGED <<auto, manual, asking, asked, askResult, executing, execution,
                 refreshed, overlapped>>

(* The service's default replaces the switch, in manual approval mode too. *)
ContextReturns ==
  /\ loadingContext
  /\ loadingContext' = FALSE
  /\ \/ auto' \in BOOLEAN /\ refreshed' = TRUE
     \/ UNCHANGED <<auto, refreshed>>
  /\ UNCHANGED <<manual, asking, asked, askResult, executing, execution,
                 overlapped>>

ToggleAuto ==
  /\ auto' = ~auto
  /\ manual' = (manual /\ auto)
  /\ UNCHANGED <<loadingContext, asking, asked, askResult, executing, execution,
                 refreshed, overlapped>>

MutToggleManual ==  \* the effect on manualApprove is missing
  /\ manual' = ~manual
  /\ UNCHANGED auto
  /\ refreshed' = FALSE
  /\ UNCHANGED <<loadingContext, asking, asked, askResult, executing, execution,
                 overlapped>>

(* The effect on manualApprove turns auto-run off. *)
ToggleManual ==
  /\ manual' = ~manual
  /\ auto' = (auto /\ manual)
  /\ refreshed' = FALSE
  /\ UNCHANGED <<loadingContext, asking, asked, askResult, executing, execution,
                 overlapped>>

AskAgent ==
  /\ ~Asking /\ ~loadingContext /\ asked < MaxAsks
  /\ asked' = asked + 1
  /\ asking' = [id |-> asked + 1, auto |-> auto]
  /\ execution' = 0
  /\ overlapped' = (overlapped \/ executing # 0)
  /\ UNCHANGED <<auto, manual, loadingContext, askResult, executing, refreshed>>

Answer(p) == execution' = IF p.executed THEN p.id ELSE execution

(* A plan the service ran itself comes with its rows. *)
AskReturns ==
  /\ Asking
  /\ asking' = NoAsk
  /\ \/ \E v \in BOOLEAN, m \in Modes :
          LET p == [id |-> asking.id, valid |-> v, mode |-> m,
                    executed |-> asking.auto /\ v /\ m \in Executable]
          IN  askResult' = p /\ Answer(p)
     \/ UNCHANGED <<askResult, execution>>
  /\ UNCHANGED <<auto, manual, loadingContext, asked, executing, refreshed,
                 overlapped>>

CanExecute == /\ askResult # NoPlan /\ askResult.valid
              /\ askResult.mode \in Executable /\ ~askResult.executed

RunPlan ==
  /\ CanExecute /\ executing = 0
  /\ executing' = askResult.id
  /\ overlapped' = (overlapped \/ Asking)
  /\ UNCHANGED <<auto, manual, loadingContext, asking, asked, askResult,
                 execution, refreshed>>

RunReturns ==
  /\ executing # 0
  /\ executing' = 0
  /\ execution' \in {executing, execution}
  /\ UNCHANGED <<auto, manual, loadingContext, asking, asked, askResult,
                 refreshed, overlapped>>

PlayNext ==
  \/ RefreshContext \/ ContextReturns
  \/ ToggleAuto \/ ToggleManual
  \/ AskAgent \/ AskReturns
  \/ RunPlan \/ RunReturns

PlaySpec == PlayInit /\ [][PlayNext]_playVars

-----------------------------------------------------------------------------
(* In manual approval mode a question asks for no run of its plan, unless   *)
(* the context was answered after the mode was chosen: that answer turns    *)
(* auto-run on again while the switch still says manual.                    *)
ManualHolds == manual /\ auto => refreshed

(* The rows shown are those of the plan shown, or of the plan shown before  *)
(* the question under way, unless a question and a run were under way       *)
(* together.                                                                *)
RowsAreOfPlan == execution # 0 => execution = askResult.id \/ overlapped
=============================================================================
