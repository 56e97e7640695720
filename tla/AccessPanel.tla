------------------------------ MODULE AccessPanel ------------------------------
(***************************************************************************)
(* The access panel of the dashboard's shell (components/dashboard-shell),  *)
(* which follows /auth/state.                                               *)
(* The shell reads it at once, three seconds after a failed first read and  *)
(* every twenty seconds, and a read may last as long as that, so that       *)
(* several are under way; each carries the answer the service gave when it  *)
(* took it.  The key's text is left out but for being empty or not.         *)
(***************************************************************************)
EXTENDS Naturals, FiniteSets

CONSTANTS MaxReads,       \* bound: reads of the shell under way
          NoAnswer        \* no answer yet

(* /auth/state: how the service is deployed and whether the visitor's       *)
(* session has full access.                                                 *)
Deployment(d, e, r, c) ==
  [demo_mode |-> d, auth_enabled |-> e, require_auth |-> r, can_login |-> c]
Deployments ==
  {Deployment(FALSE, FALSE, FALSE, FALSE),   \* open to everyone
   Deployment(TRUE, FALSE, FALSE, FALSE),    \* a demo without logins
   Deployment(TRUE, TRUE, FALSE, TRUE),      \* a demo
   Deployment(FALSE, TRUE, TRUE, TRUE),      \* private
   Deployment(TRUE, TRUE, TRUE, TRUE)}       \* a demo that asks for a login
Answers == [deployed : Deployments, full_access : BOOLEAN]

VARIABLES
  deployed, session,      \* the service: its deployment, the visitor's session
  initial,                \* runInitial: "reading", "waiting" to retry or "done"
  reads,                  \* answers on their way to the shell
  authState,              \* the answer shown
  showPanel, step, hasKey, submitting  \* the panel

accessVars == <<deployed, session, initial, reads, authState, showPanel, step,
                hasKey, submitting>>

AccessTypeOK ==
  /\ deployed \in Deployments
  /\ {session, showPanel, hasKey} \subseteq BOOLEAN
  /\ initial \in {"reading", "waiting", "done"}
  /\ reads \subseteq Answers
  /\ authState \in Answers \cup {NoAnswer}
  /\ step \in {"choice", "auth"}
  /\ submitting \in {"no", "login", "reading"}

AccessInit ==
  /\ deployed \in Deployments
  /\ session \in BOOLEAN
  /\ initial = "reading"
  /\ reads = {}
  /\ authState = NoAnswer
  /\ showPanel = FALSE /\ step = "choice" /\ hasKey = FALSE
  /\ submitting = "no"

Served == [deployed |-> deployed, full_access |-> session]

ShouldGate(a) ==
  /\ a.deployed.can_login /\ ~a.full_access
  /\ a.deployed.demo_mode \/ a.deployed.auth_enabled \/ a.deployed.require_auth

(* What refreshAuthState does with an answer. *)
Shown(a) ==
  /\ authState' = a
  /\ showPanel' = ShouldGate(a)
  /\ step' = IF a.deployed.require_auth /\ ~a.full_access THEN "auth" ELSE "choice"
  /\ hasKey' = (hasKey /\ ~a.full_access)

-----------------------------------------------------------------------------
(* The service is deployed anew, or the visitor's session ends. *)
Redeployed ==
  /\ deployed' \in Deployments
  /\ UNCHANGED <<session, initial, reads, authState, showPanel, step, hasKey,
                 submitting>>

SessionEnds ==
  /\ session /\ session' = FALSE
  /\ UNCHANGED <<deployed, initial, reads, authState, showPanel, step, hasKey,
                 submitting>>

(* The interval's read reaches the service; its answer sets out. *)
Poll ==
  /\ Cardinality(reads) < MaxReads
  /\ reads' = reads \cup {Served}
  /\ UNCHANGED <<deployed, session, initial, authState, showPanel, step, hasKey,
                 submitting>>

PollAnswered ==
  /\ \E a \in reads : reads' = reads \ {a} /\ Shown(a)
  /\ UNCHANGED <<deployed, session, initial, submitting>>

(* A failed read changes nothing. *)
PollLost ==
  /\ \E a \in reads : reads' = reads \ {a}
  /\ UNCHANGED <<deployed, session, initial, authState, showPanel, step, hasKey,
                 submitting>>

FirstAnswered ==
  /\ initial = "reading"
  /\ \/ initial' = "done" /\ Shown(Served)
     \/ initial' = "waiting" /\ UNCHANGED <<authState, showPanel, step, hasKey>>
  /\ UNCHANGED <<deployed, session, reads, submitting>>

RetryFirst ==
  /\ initial = "waiting" /\ initial' = "reading"
  /\ UNCHANGED <<deployed, session, reads, authState, showPanel, step, hasKey,
                 submitting>>

-----------------------------------------------------------------------------
DemoMode == authState # NoAnswer /\ authState.deployed.demo_mode
RequireAuth == authState # NoAnswer /\ authState.deployed.require_auth
FullAccess == authState # NoAnswer /\ authState.full_access

MutCanContinueWithoutLogin == DemoMode  \* !requireAuth is missing

CanContinueWithoutLogin == DemoMode /\ ~RequireAuth

ShowChoiceStep == CanContinueWithoutLogin /\ step = "choice"

ContinueToDemo ==
  /\ showPanel /\ ShowChoiceStep /\ submitting = "no"
  /\ showPanel' = FALSE
  /\ UNCHANGED <<deployed, session, initial, reads, authState, step, hasKey,
                 submitting>>

AccessWithAuth ==
  /\ showPanel /\ ShowChoiceStep /\ submitting = "no"
  /\ step' = "auth"
  /\ UNCHANGED <<deployed, session, initial, reads, authState, showPanel, hasKey,
                 submitting>>

BackToDemo ==
  /\ showPanel /\ ~ShowChoiceStep /\ CanContinueWithoutLogin /\ submitting = "no"
  /\ step' = "choice"
  /\ UNCHANGED <<deployed, session, initial, reads, authState, showPanel, hasKey,
                 submitting>>

(* "Switch to Admin" in the header, shown to a demo visitor. *)
OpenAdminAuthPanel ==
  /\ DemoMode /\ ~FullAccess /\ ~showPanel
  /\ step' = "auth" /\ showPanel' = TRUE
  /\ UNCHANGED <<deployed, session, initial, reads, authState, hasKey, submitting>>

TypeKey ==
  /\ showPanel /\ ~ShowChoiceStep
  /\ hasKey' \in BOOLEAN
  /\ UNCHANGED <<deployed, session, initial, reads, authState, showPanel, step,
                 submitting>>

HandleLogin ==
  /\ showPanel /\ ~ShowChoiceStep /\ submitting = "no" /\ hasKey
  /\ submitting' = "login"
  /\ UNCHANGED <<deployed, session, initial, reads, authState, showPanel, step,
                 hasKey>>

(* The key is accepted, which a second read follows, or refused. *)
LoginAnswered ==
  /\ submitting = "login"
  /\ \/ session' = TRUE /\ submitting' = "reading"
     \/ submitting' = "no" /\ UNCHANGED session
  /\ UNCHANGED <<deployed, initial, reads, authState, showPanel, step, hasKey>>

LoginShown ==
  /\ submitting = "reading" /\ submitting' = "no"
  /\ Shown(Served) \/ UNCHANGED <<authState, showPanel, step, hasKey>>
  /\ UNCHANGED <<deployed, session, initial, reads>>

AccessNext ==
  \/ Redeployed \/ SessionEnds
  \/ Poll \/ PollAnswered \/ PollLost \/ FirstAnswered \/ RetryFirst
  \/ ContinueToDemo \/ AccessWithAuth \/ BackToDemo \/ OpenAdminAuthPanel
  \/ TypeKey \/ HandleLogin \/ LoginAnswered \/ LoginShown

-----------------------------------------------------------------------------
(* While the service, as last answered, requires authentication, lets the   *)
(* visitor log in and gives no full access, the panel covers the page: no   *)
(* order of steps, answers and clicks closes it.                            *)
GateHolds ==
  /\ RequireAuth /\ authState.deployed.can_login /\ ~FullAccess
  => showPanel
=============================================================================
