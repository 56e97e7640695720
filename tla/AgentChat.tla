------------------------------- MODULE AgentChat -------------------------------
(***************************************************************************)
(* The chat page of the dashboard (agents/converse/page.tsx).  The page     *)
(* opens one session with the service, on its first render or on the first  *)
(* message after that failed, and shows the messages of its session.  A     *)
(* send or an initialisation works with the session id of the render it     *)
(* began in.  The send button is disabled while the page is busy; the       *)
(* keyboard shortcut is not.  Texts, charts and notices are left out.       *)
(***************************************************************************)
EXTENDS Naturals, Bags

CONSTANTS MaxSessions,  \* bound: sessions opened
          MaxRuns       \* bound: initialisations and sends under way

VARIABLES
  sessionId,   \* 0 for null
  opened,      \* sessions the service has opened
  runs,        \* the bag of initialisations and sends under way
  shown,       \* the session whose messages are shown, 0 for none
  initsDue,    \* the effect on init has yet to run
  loading,     \* loading
  sending,     \* sending
  sentTo,      \* the sessions messages were sent to
  hurried,     \* the shortcut was pressed while the page was busy (ghost)
  orphaned     \* a session was opened whose answer was lost (ghost)

chatVars == <<sessionId, opened, runs, shown, initsDue, loading, sending, sentTo,
              hurried, orphaned>>

Steps == {"open", "send", "list"}
Run(who, at, sid) == [who |-> who, at |-> at, sid |-> sid]

ChatTypeOK ==
  /\ sessionId \in 0..MaxSessions /\ opened \in 0..MaxSessions
  /\ BagToSet(runs) \subseteq [who : {"init", "send"}, at : Steps, sid : 0..MaxSessions]
  /\ shown \in 0..MaxSessions /\ sentTo \subseteq 1..MaxSessions
  /\ {initsDue, loading, sending, hurried, orphaned} \subseteq BOOLEAN

ChatInit ==
  /\ sessionId = 0 /\ opened = 0 /\ runs = EmptyBag /\ shown = 0
  /\ initsDue = TRUE /\ loading = TRUE /\ sending = FALSE /\ sentTo = {}
  /\ hurried = FALSE /\ orphaned = FALSE

(* ensureSession: the session of the render, or a new one.                  *)
MutFirst(who) == Run(who, "open", 0)   \* a session is opened each time
First(who) == IF sessionId # 0
              THEN Run(who, IF who = "init" THEN "list" ELSE "send", sessionId)
              ELSE Run(who, "open", 0)

Start(who) ==
  /\ BagCardinality(runs) < MaxRuns
  /\ runs' = runs (+) SetToBag({First(who)})

(* The effect on init, and the refresh button. *)
Initialise ==
  /\ initsDue \/ ~(loading \/ sending)
  /\ Start("init")
  /\ initsDue' = FALSE /\ loading' = TRUE
  /\ UNCHANGED <<sessionId, opened, shown, sending, sentTo, hurried, orphaned>>

OnSend ==
  /\ Start("send")
  /\ sending' = TRUE
  /\ hurried' = (hurried \/ loading \/ sending)
  /\ UNCHANGED <<sessionId, opened, shown, initsDue, loading, sentTo, orphaned>>

Becomes(r, next) == runs' = (runs (-) SetToBag({r})) (+) SetToBag(next)

Done(r) ==
  /\ Becomes(r, {})
  /\ loading' = (loading /\ r.who # "init")
  /\ sending' = (sending /\ r.who # "send")

(* The session is opened, and its id makes a new init, whose effect is due. *)
Opened(r) ==
  /\ BagIn(r, runs) /\ r.at = "open" /\ opened < MaxSessions
  /\ opened' = opened + 1
  /\ \/ /\ sessionId' = opened + 1 /\ initsDue' = TRUE
        /\ Becomes(r, {Run(r.who, IF r.who = "init" THEN "list" ELSE "send",
                            opened + 1)})
        /\ UNCHANGED <<loading, sending, orphaned>>
     \/ /\ Done(r)      \* the answer is lost
        /\ orphaned' = TRUE
        /\ UNCHANGED <<sessionId, initsDue>>
  /\ UNCHANGED <<shown, sentTo, hurried>>

Sent(r) ==
  /\ BagIn(r, runs) /\ r.at = "send"
  /\ sentTo' = sentTo \cup {r.sid}
  /\ Becomes(r, {Run(r.who, "list", r.sid)})
  /\ UNCHANGED <<sessionId, opened, shown, initsDue, loading, sending, hurried,
                 orphaned>>

Listed(r) ==
  /\ BagIn(r, runs) /\ r.at = "list"
  /\ shown' = r.sid
  /\ Done(r)
  /\ UNCHANGED <<sessionId, opened, initsDue, sentTo, hurried, orphaned>>

Fails(r) ==
  /\ BagIn(r, runs)
  /\ Done(r)
  /\ \/ UNCHANGED sentTo
     \/ r.at = "send" /\ sentTo' = sentTo \cup {r.sid}
  /\ UNCHANGED <<sessionId, opened, shown, initsDue, hurried, orphaned>>

ChatNext ==
  \/ Initialise
  \/ OnSend
  \/ \E r \in BagToSet(runs) : Opened(r)
  \/ \E r \in BagToSet(runs) : Sent(r)
  \/ \E r \in BagToSet(runs) : Listed(r)
  \/ \E r \in BagToSet(runs) : Fails(r)

ChatSpec == ChatInit /\ [][ChatNext]_chatVars

-----------------------------------------------------------------------------
(* Every message goes to the session whose messages the page shows, although *)
(* the page may open its session from either handler: unless the shortcut    *)
(* was pressed while the page was still busy, when two sessions are opened   *)
(* and the message and the page part ways.                                   *)
OneConversation ==
  ~hurried => /\ sentTo \subseteq {sessionId}
              /\ shown \in {0, sessionId}
              /\ opened > 1 => orphaned
=============================================================================
