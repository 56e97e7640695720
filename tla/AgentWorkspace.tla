----------------------------- MODULE AgentWorkspace -----------------------------
(***************************************************************************)
(* The workspace of one managed agent (agents/[id]/[tab]/page.tsx).  Every  *)
(* tab is a view of the same record: entering a tab reads the agent again   *)
(* and fills all the drafts from it, a save patches one group of fields and *)
(* fills the drafts from the answer.  The record is its revision: the       *)
(* number of writes the service has carried out.  Which fields a tab edits  *)
(* and the agent's runs, events and templates are left out.                 *)
(***************************************************************************)
EXTENDS Integers, Bags

CONSTANTS MaxRevision,   \* bound: writes carried out
          MaxRefreshes   \* bound: refreshes under way

Writes == {"patch", "runtime", "publish", "delete"}
Nothing == [kind |-> "nothing", rev |-> 0]

VARIABLES
  revision,   \* the service's record
  agent,      \* the revision shown, -1 before one is
  drafts,     \* the revision the drafts were filled from, -1 before one is
  refreshes,  \* the bag of the revisions read by the refreshes under way
  loading,
  busy,       \* the write under way; the revision is that of its answer
  acked,      \* the newest revision a write of this page was answered with
  crossed,    \* a tab was entered while the page was busy (ghost)
  gone        \* the agent is deleted and the page left

workVars == <<revision, agent, drafts, refreshes, loading, busy, acked, crossed,
              gone>>

WorkTypeOK ==
  /\ {revision, acked} \subseteq 0..MaxRevision
  /\ {agent, drafts} \subseteq (-1)..MaxRevision
  /\ BagToSet(refreshes) \subseteq 0..MaxRevision
  /\ busy.kind \in Writes \cup {"nothing", "reload"}
  /\ {loading, crossed, gone} \subseteq BOOLEAN

WorkInit ==
  /\ revision = 0 /\ agent = -1 /\ drafts = -1
  /\ refreshes = SetToBag({0}) /\ loading = TRUE
  /\ busy = Nothing /\ acked = 0
  /\ crossed = FALSE /\ gone = FALSE

Buttons == ~loading /\ agent # -1 /\ busy = Nothing /\ ~gone

(* Entering another tab; the tabs are links, enabled at all times. *)
EnterTab ==
  /\ ~gone /\ BagCardinality(refreshes) < MaxRefreshes
  /\ refreshes' = refreshes (+) SetToBag({revision})
  /\ loading' = TRUE
  /\ crossed' = (crossed \/ loading \/ busy # Nothing)
  /\ UNCHANGED <<revision, agent, drafts, busy, acked, gone>>

(* hydrateDrafts *)
Hydrate(r) == agent' = r /\ drafts' = r

(* A refresh is shown as it comes; one that fails shows nothing. *)
Refreshed(r) ==
  /\ BagIn(r, refreshes)
  /\ refreshes' = refreshes (-) SetToBag({r})
  /\ loading' = FALSE
  /\ Hydrate(r) \/ UNCHANGED <<agent, drafts>>
  /\ UNCHANGED <<revision, busy, acked, crossed, gone>>

MutWrite(k) ==   \* the buttons are not disabled while the page loads
  /\ agent # -1 /\ busy = Nothing /\ ~gone
  /\ busy' = [kind |-> k, rev |-> 0]
  /\ UNCHANGED <<revision, agent, drafts, refreshes, loading, acked, crossed, gone>>

Write(k) ==
  /\ Buttons
  /\ busy' = [kind |-> k, rev |-> 0]
  /\ UNCHANGED <<revision, agent, drafts, refreshes, loading, acked, crossed, gone>>

(* The service carries the write out; its answer is then on its way. *)
CarryOut ==
  /\ busy.kind \in Writes /\ busy.rev = 0 /\ revision < MaxRevision
  /\ revision' = revision + 1
  /\ busy' = [busy EXCEPT !.rev = revision + 1]
  /\ UNCHANGED <<agent, drafts, refreshes, loading, acked, crossed, gone>>

(* patchAndRefresh, and the brainstorm, show the answer and fill the drafts; *)
(* starting and stopping only show it; a publish test shows it and then      *)
(* refreshes; a delete leaves the page.                                      *)
Answered ==
  /\ busy.kind \in Writes /\ busy.rev # 0
  /\ acked' = busy.rev
  /\ CASE busy.kind = "patch" -> Hydrate(busy.rev) /\ UNCHANGED gone
       [] busy.kind \in {"runtime", "publish"} ->
            agent' = busy.rev /\ UNCHANGED <<drafts, gone>>
       [] busy.kind = "delete" -> gone' = TRUE /\ UNCHANGED <<agent, drafts>>
  /\ IF busy.kind = "publish"
     THEN busy' = [kind |-> "reload", rev |-> revision] /\ loading' = TRUE
     ELSE busy' = Nothing /\ UNCHANGED loading
  /\ UNCHANGED <<revision, refreshes, crossed>>

PublishReloaded ==
  /\ busy.kind = "reload"
  /\ Hydrate(busy.rev) \/ UNCHANGED <<agent, drafts>>
  /\ busy' = Nothing /\ loading' = FALSE
  /\ UNCHANGED <<revision, refreshes, acked, crossed, gone>>

(* The write failed, or its answer is lost. *)
WriteFails ==
  /\ busy.kind \in Writes
  /\ busy' = Nothing
  /\ UNCHANGED <<revision, agent, drafts, refreshes, loading, acked, crossed, gone>>

WorkNext ==
  \/ EnterTab
  \/ \E r \in BagToSet(refreshes) : Refreshed(r)
  \/ \E k \in Writes : Write(k)
  \/ CarryOut
  \/ Answered
  \/ PublishReloaded
  \/ WriteFails

WorkSpec == WorkInit /\ [][WorkNext]_workVars

-----------------------------------------------------------------------------
(* Once a save is answered the page never goes back to an older record, and  *)
(* so a later save never carries the fields of one: unless a tab was entered *)
(* while a write or another tab's refresh was under way.  Nothing cancels    *)
(* that refresh, and the first one to return enables the buttons.            *)
NeverOlder == agent # -1 /\ ~gone /\ ~crossed => agent >= acked
=============================================================================
