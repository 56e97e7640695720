---------------------------- MODULE StatusStore ----------------------------
(***************************************************************************)
(* One page of the dashboard: the API client (apps/dashboard/lib/          *)
(* sefi-api.ts: the shared session, fetchJson with its retries and time-   *)
(* outs) and the status store (status-store.ts), which keeps one snapshot  *)
(* of the server's status by polling and by a server-sent event stream,    *)
(* under browser events, page reloads and a full local storage.            *)
(*                                                                         *)
(* The status is its version.  Time is counted in watch intervals (2 s);   *)
(* the other timers only say that they are set, and fire at any time.      *)
(* Handlers and promise continuations run to completion (one JavaScript    *)
(* thread).  The server, the browser's network state and EventSource are   *)
(* external.                                                               *)
(***************************************************************************)
EXTENDS Naturals, Sequences

CONSTANTS
  Polls,        \* bound: status polls in flight at once
  Writes,       \* the writes the user makes
  Streams,      \* bound: EventSource objects at once
  Null,         \* null
  Attempts,     \* READ_RETRY_DELAYS_MS.length + 1
  StaleAfter,   \* STALE_AFTER_MS, in watch intervals
  MaxVersion,   \* bound: status changes on the server
  MaxTroubles   \* bound: outages, expiries, stalls, network flips and reloads

ASSUME CallAssumption == Polls \cap Writes = {}
ASSUME StreamAssumption == Streams # {} /\ Null \notin Streams
ASSUME StaleAssumption == StaleAfter \in Nat

VARIABLES
  server,       \* its version of the status, and whether it answers
  troubles,     \* what has gone wrong so far
  online,       \* navigator.onLine
  events,       \* browser events not yet dispatched
  ready,        \* apiSessionReady
  boot,         \* apiSessionPromise
  cookie,       \* the session cookie
  call,         \* fetchJson calls
  applied,      \* applied[w]: how often the server carried out write w
  phase,        \* closed, starting (the session is awaited), running
  pollTimer,
  reconnect,    \* streamReconnectTimer
  source,       \* eventSource
  conn, feed,   \* the EventSource objects and what each has still to deliver
  snapshot,
  age,          \* since snapshot.lastUpdatedAt
  seen,         \* since lastUpdateMs
  persisted,    \* the snapshot in local storage
  full,         \* local storage refuses writes
  due,          \* the watch interval has passed
  streamed      \* history: the version the last stream message carried

world      == <<server, troubles, online, events, cookie, full>>
apiSession == <<ready, boot>>
store      == <<pollTimer, reconnect, source, conn, feed>>
view       == <<snapshot, age, seen, persisted>>
storeVars  == <<world, apiSession, call, applied, phase, store, view, due, streamed>>

Calls == Polls \cup Writes
Older(a) == IF a > StaleAfter + 1 THEN a ELSE a + 1

Idle == [stage |-> "idle", n |-> 0, v |-> Null, header |-> FALSE]
Starting == [v |-> Null, stale |-> FALSE]

StoreInit ==
  /\ server = [version |-> 0, healthy |-> TRUE] /\ troubles = 0
  /\ online \in BOOLEAN /\ events = <<>> /\ cookie = "none" /\ full = FALSE
  /\ ready = FALSE /\ boot = FALSE
  /\ call = [c \in Calls |-> Idle] /\ applied = [w \in Writes |-> 0]
  /\ phase = "closed" /\ pollTimer = FALSE /\ reconnect = FALSE /\ source = Null
  /\ conn = [s \in Streams |-> "closed"] /\ feed = [s \in Streams |-> <<>>]
  /\ snapshot = Starting /\ age = 0 /\ seen = 0 /\ persisted = Null
  /\ due = FALSE /\ streamed = 0

-----------------------------------------------------------------------------
(* The store's helpers, as the next values of what they assign.            *)

MutSetSnapshot(next, a) == snapshot' = next /\ age' = a /\ seen' = 0

SetSnapshot(next, a) == snapshot' = next /\ age' = a /\ seen' = a

PersistSnapshot(v) == persisted' = IF full THEN persisted ELSE v

\* The snapshot is set before it is persisted; if that throws, a poll's catch
\* marks it stale and a stream message's catch ignores it.
ApplyStatus(v, from) ==
  /\ SetSnapshot([v |-> v, stale |-> full /\ from = "poll"], 0)
  /\ PersistSnapshot(v)

MarkStale == SetSnapshot([snapshot EXCEPT !.stale = TRUE], age) /\ UNCHANGED persisted

OpenStream(s) ==
  /\ source' = s
  /\ conn' = [conn EXCEPT ![s] = "connecting"]
  /\ feed' = [feed EXCEPT ![s] = <<>>]

ClosedStreams == {s \in Streams : conn[s] = "closed"}

MutConnectStream ==
  IF ~online \/ ClosedStreams = {} THEN UNCHANGED <<source, conn, feed>>
  ELSE OpenStream(CHOOSE s \in ClosedStreams : TRUE)

ConnectStream ==
  IF ~online \/ source # Null THEN UNCHANGED <<source, conn, feed>>
  ELSE OpenStream(CHOOSE s \in ClosedStreams : TRUE)

CloseStream ==
  IF source = Null THEN UNCHANGED <<source, conn, feed>>
  ELSE /\ source' = Null
       /\ conn' = [conn EXCEPT ![source] = "closed"]
       /\ feed' = [feed EXCEPT ![source] = <<>>]

-----------------------------------------------------------------------------
(* The API client.                                                         *)

Reachable == server.healthy /\ online
Authorized(header) == header \/ cookie = "valid"

MutTries(c) == Attempts

Tries(c) == IF c \in Polls THEN Attempts ELSE 1

\* fetchJson up to its first await: a call that finds no session asks for one,
\* or waits for the one being asked for.
Begin(c) ==
  /\ call' = [call EXCEPT ![c] =
       [stage |-> IF ready THEN "asking" ELSE "session", n |-> 1, v |-> Null, header |-> FALSE]]
  /\ boot' = (boot \/ ~ready)
  /\ UNCHANGED ready

\* The bootstrap ends, within its timeout: every call that waited goes on, with
\* the token in its header when there is still no session, and a starting page
\* connects and schedules its first poll.
SettleSession ==
  /\ boot
  /\ boot' = FALSE
  /\ ready' = Reachable
  /\ cookie' = IF Reachable THEN "valid" ELSE cookie
  /\ call' = [c \in Calls |-> IF call[c].stage # "session" THEN call[c]
                ELSE [call[c] EXCEPT !.stage = "asking", !.header = ~Reachable]]
  /\ IF phase = "starting"
     THEN phase' = "running" /\ pollTimer' = TRUE /\ ConnectStream /\ UNCHANGED reconnect
     ELSE UNCHANGED <<phase, store>>
  /\ UNCHANGED <<server, troubles, online, events, full, applied, view, due, streamed>>

MutPollReturns(ok, v) ==
  /\ IF ok THEN ApplyStatus(v, "poll") ELSE MarkStale
  /\ pollTimer' = (pollTimer \/ ok)

\* pollStatus after its await.
PollReturns(ok, v) ==
  /\ IF ok THEN ApplyStatus(v, "poll") ELSE MarkStale
  /\ pollTimer' = TRUE

Settle(c, ok, v) ==
  /\ call' = [call EXCEPT ![c] = IF c \in Polls THEN Idle
                                 ELSE [Idle EXCEPT !.stage = "over"]]
  /\ IF c \in Polls THEN PollReturns(ok, v) ELSE UNCHANGED <<pollTimer, view>>
  /\ UNCHANGED <<reconnect, source, conn, feed>>

Carried(c) == IF c \in Writes THEN [applied EXCEPT ![c] = @ + 1] ELSE applied

\* The head of an answer arrives.  The timeout is cleared here: nothing bounds
\* the wait for the body.
Answer(c) ==
  /\ call[c].stage = "asking" /\ Reachable /\ Authorized(call[c].header)
  /\ call' = [call EXCEPT ![c].stage = "body", ![c].v = IF c \in Polls THEN server.version ELSE Null]
  /\ applied' = Carried(c)
  /\ UNCHANGED <<world, apiSession, phase, store, view, due, streamed>>

\* No connection, a timeout or a refusal.  A write that timed out may have been
\* carried out.
Fail(c) ==
  /\ call[c].stage = "asking" /\ ~(Reachable /\ Authorized(call[c].header))
  /\ applied' \in {applied} \cup (IF online /\ Authorized(call[c].header) THEN {Carried(c)} ELSE {})
  /\ IF call[c].n < Tries(c)
     THEN call' = [call EXCEPT ![c].stage = "waiting"] /\ UNCHANGED <<store, view>>
     ELSE Settle(c, FALSE, Null)
  /\ UNCHANGED <<world, apiSession, phase, due, streamed>>

Retry(c) ==
  /\ call[c].stage = "waiting"
  /\ call' = [call EXCEPT ![c].stage = "asking", ![c].n = @ + 1]
  /\ UNCHANGED <<world, apiSession, applied, phase, store, view, due, streamed>>

\* The body arrives or breaks off: fetchJson returned the promise of it without
\* awaiting it, so a broken body is not retried.
Body(c) ==
  /\ call[c].stage = "body"
  /\ Settle(c, online, call[c].v)
  /\ UNCHANGED <<world, apiSession, applied, phase, due, streamed>>

\* The user saves something.
Write(w) ==
  /\ phase # "closed" /\ call[w].stage = "idle" /\ w \in Writes
  /\ Begin(w)
  /\ UNCHANGED <<world, applied, phase, store, view, due, streamed>>

-----------------------------------------------------------------------------
(* The status store.                                                       *)

\* The first subscriber: the stored snapshot is shown as stale.
Start ==
  /\ phase = "closed"
  /\ phase' = "starting"
  /\ IF persisted = Null THEN UNCHANGED <<snapshot, age, seen>>
     ELSE SetSnapshot([v |-> persisted, stale |-> TRUE], StaleAfter + 1)
  /\ boot' = TRUE
  /\ UNCHANGED <<world, ready, call, applied, store, persisted, due, streamed>>

FirePoll(p) ==
  /\ pollTimer /\ call[p] = Idle /\ p \in Polls
  /\ pollTimer' = FALSE
  /\ Begin(p)
  /\ UNCHANGED <<world, applied, phase, reconnect, source, conn, feed, view, due, streamed>>

FireReconnect ==
  /\ reconnect
  /\ reconnect' = FALSE
  /\ ConnectStream
  /\ UNCHANGED <<world, apiSession, call, applied, phase, pollTimer, view, due, streamed>>

OnMessage(s) ==
  /\ feed[s] # <<>>
  /\ ApplyStatus(Head(feed[s]), "stream")
  /\ streamed' = Head(feed[s])
  /\ feed' = [feed EXCEPT ![s] = Tail(@)]
  /\ UNCHANGED <<world, apiSession, call, applied, phase, pollTimer, reconnect, source, conn, due>>

\* A stream is refused without the cookie; an open one outlives it.
StreamDown(s) == ~Reachable \/ (conn[s] = "connecting" /\ ~Authorized(FALSE))

OnError(s) ==
  /\ conn[s] # "closed" /\ StreamDown(s)
  /\ CloseStream /\ MarkStale
  /\ pollTimer' = TRUE /\ reconnect' = TRUE
  /\ UNCHANGED <<world, apiSession, call, applied, phase, due, streamed>>

OnOnline ==
  /\ events # <<>> /\ Head(events) = "online"
  /\ events' = Tail(events)
  /\ SetSnapshot(snapshot, age)
  /\ ConnectStream
  /\ pollTimer' = TRUE
  /\ UNCHANGED <<server, troubles, online, cookie, full, apiSession, call, applied, phase,
                 reconnect, persisted, due, streamed>>

OnOffline ==
  /\ events # <<>> /\ Head(events) = "offline"
  /\ events' = Tail(events)
  /\ MarkStale /\ CloseStream
  /\ UNCHANGED <<server, troubles, online, cookie, full, apiSession, call, applied, phase,
                 pollTimer, reconnect, due, streamed>>

OnVisibilityChange ==
  /\ phase # "closed" /\ snapshot.v # Null
  /\ pollTimer' = TRUE
  /\ UNCHANGED <<world, apiSession, call, applied, phase, reconnect, source, conn, feed, view, due, streamed>>

\* A watch interval passes, and watchStaleness looks.
Tick ==
  /\ ~due /\ snapshot.v # Null
  /\ age' = Older(age) /\ seen' = Older(seen)
  /\ due' = TRUE
  /\ UNCHANGED <<world, apiSession, call, applied, phase, store, snapshot, persisted, streamed>>

Watch ==
  /\ due
  /\ due' = FALSE
  /\ IF snapshot.v # Null /\ seen > StaleAfter /\ ~snapshot.stale THEN MarkStale ELSE UNCHANGED view
  /\ UNCHANGED <<world, apiSession, call, applied, phase, store, streamed>>

-----------------------------------------------------------------------------
(* What happens around the page.                                           *)

Accept(s) ==
  /\ conn[s] = "connecting" /\ ~StreamDown(s)
  /\ conn' = [conn EXCEPT ![s] = "open"]
  /\ feed' = [feed EXCEPT ![s] = <<server.version>>]
  /\ UNCHANGED <<world, apiSession, call, applied, phase, pollTimer, reconnect, source, view, due, streamed>>

Update ==
  /\ server.version < MaxVersion
  /\ server' = [server EXCEPT !.version = @ + 1]
  /\ feed' = [s \in Streams |-> IF conn[s] = "open" THEN Append(feed[s], server'.version) ELSE feed[s]]
  /\ UNCHANGED <<troubles, online, events, cookie, full, apiSession, call, applied, phase,
                 pollTimer, reconnect, source, conn, view, due, streamed>>

Trouble == troubles < MaxTroubles /\ troubles' = troubles + 1
AroundUnchanged == UNCHANGED <<apiSession, applied, phase, store, view, due, streamed>>

Outage ==
  /\ Trouble /\ server.healthy
  /\ server' = [server EXCEPT !.healthy = FALSE]
  /\ UNCHANGED <<online, events, cookie, full, call>> /\ AroundUnchanged

Recover ==
  /\ ~server.healthy
  /\ server' = [server EXCEPT !.healthy = TRUE]
  /\ UNCHANGED <<troubles, online, events, cookie, full, call>> /\ AroundUnchanged

Expire ==
  /\ Trouble /\ cookie = "valid"
  /\ cookie' = "expired"
  /\ UNCHANGED <<server, online, events, full, call>> /\ AroundUnchanged

FillStorage ==
  /\ Trouble /\ ~full
  /\ full' = TRUE
  /\ UNCHANGED <<server, online, events, cookie, call>> /\ AroundUnchanged

\* The browser loses or finds the network; a page that listens gets an event.
Flip ==
  /\ IF online THEN Trouble ELSE UNCHANGED troubles
  /\ online' = ~online
  /\ events' = IF phase = "closed" THEN <<>>
               ELSE Append(events, IF online THEN "offline" ELSE "online")
  /\ UNCHANGED <<server, cookie, full, call>> /\ AroundUnchanged

\* A body that never comes to its end.
Stall(c) ==
  /\ Trouble /\ call[c].stage = "body"
  /\ call' = [call EXCEPT ![c].stage = "stalled"]
  /\ UNCHANGED <<server, online, events, cookie, full>> /\ AroundUnchanged

Reload ==
  /\ Trouble /\ phase # "closed"
  /\ phase' = "closed" /\ events' = <<>> /\ due' = FALSE
  /\ ready' = FALSE /\ boot' = FALSE
  /\ call' = [c \in Calls |-> IF c \in Polls THEN Idle
                              ELSE IF call[c].stage = "idle" THEN Idle
                              ELSE [Idle EXCEPT !.stage = "over"]]
  /\ pollTimer' = FALSE /\ reconnect' = FALSE /\ source' = Null
  /\ conn' = [s \in Streams |-> "closed"] /\ feed' = [s \in Streams |-> <<>>]
  /\ snapshot' = Starting /\ age' = 0 /\ seen' = 0
  /\ UNCHANGED <<server, online, cookie, full, applied, persisted, streamed>>

CallStep(c) == Answer(c) \/ Fail(c) \/ Retry(c) \/ Body(c)
StreamStep(s) == OnMessage(s) \/ OnError(s) \/ Accept(s)

StoreNext ==
  \/ SettleSession \/ Start \/ FireReconnect \/ OnOnline \/ OnOffline
  \/ OnVisibilityChange \/ Tick \/ Watch
  \/ \E c \in Calls : CallStep(c)
  \/ \E w \in Writes : Write(w)
  \/ \E p \in Polls : FirePoll(p)
  \/ \E s \in Streams : StreamStep(s)
  \/ Update \/ Outage \/ Recover \/ Expire \/ FillStorage \/ Flip \/ Reload
  \/ \E c \in Calls : Stall(c)

StoreSpec == StoreInit /\ [][StoreNext]_storeVars

\* Timers fire, handlers run, requests end by their timeouts.  Nothing is
\* assumed of the server, the network, the user or the clock.
StoreFairSpec ==
  /\ StoreSpec
  /\ WF_storeVars(SettleSession) /\ WF_storeVars(Start) /\ WF_storeVars(FireReconnect)
  /\ WF_storeVars(OnOnline) /\ WF_storeVars(OnOffline)
  /\ \A c \in Calls : WF_storeVars(CallStep(c))
  /\ WF_storeVars(\E p \in Polls : FirePoll(p))
  /\ \A s \in Streams : WF_storeVars(StreamStep(s))

-----------------------------------------------------------------------------
(* Properties.                                                             *)

Stages == {"idle", "session", "asking", "waiting", "body", "stalled", "over"}
Versions == Nat \cup {Null}
CallState == [stage : Stages, n : Nat, v : Versions, header : BOOLEAN]

\* Every variable has its type.
StoreTypeOK ==
  /\ server \in [version : Nat, healthy : BOOLEAN] /\ troubles \in Nat
  /\ {online, ready, boot, pollTimer, reconnect, full, due} \subseteq BOOLEAN
  /\ events \in Seq({"online", "offline"})
  /\ cookie \in {"none", "valid", "expired"}
  /\ call \in [Calls -> CallState]
  /\ applied \in [Writes -> Nat]
  /\ phase \in {"closed", "starting", "running"}
  /\ source \in Streams \cup {Null}
  /\ conn \in [Streams -> {"closed", "connecting", "open"}]
  /\ feed \in [Streams -> Seq(Nat)]
  /\ snapshot \in [v : Versions, stale : BOOLEAN]
  /\ {age, seen, streamed} \subseteq Nat
  /\ persisted \in Versions

Fresh == snapshot.v # Null /\ ~snapshot.stale

\* A snapshot shown as live is at most one watch interval older than the 25
\* seconds after which watchStaleness gives up on it: no handler that sets the
\* snapshot anew (coming online does) makes old data young again.
FreshIsRecent == Fresh => age <= StaleAfter + 1

\* Stream messages are applied in the server's order, across reconnections:
\* two sources never feed the store at once.
StreamInOrder == [][streamed' >= streamed]_storeVars

\* The server carries a write out once at most, also when the answer is lost and
\* the caller is told that it failed.
WritesApplyOnce == \A w \in Writes : applied[w] <= 1

\* When from some time on the server answers, the browser is online, the session
\* cookie holds, storage accepts writes and no body stalls, the page keeps
\* coming back to a live snapshot, whatever happened before.
Quiet ==
  /\ Reachable /\ events = <<>> /\ ~full /\ cookie # "expired"
  /\ \A c \in Calls : call[c].stage # "stalled"
Recovers == <>[]Quiet => []<>Fresh
=============================================================================
