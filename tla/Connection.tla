----------------------------- MODULE Connection -----------------------------
(***************************************************************************)
(* A document's connection to the relay: ProviderBacked.ts, which gets the *)
(* token and decides when to try again, and the socket's owner             *)
(* client/provider.ts, which reopens it by itself.  The tokens come from a *)
(* TokenSource, which Credentials implements.  close() only starts to      *)
(* close a socket: its close event comes later, whoever owns it by then.   *)
(* A provider's fields are one record, so that what a handler does is a    *)
(* function from record to record.                                         *)
(***************************************************************************)
EXTENDS Naturals

CONSTANTS
  Docs,
  MaxSockets, \* sockets of a document that are not closed yet
  MaxAsked,   \* open token requests of a document
  MaxEvents,  \* failures, commands and tokens' agings
  None

ASSUME ConnectionAssumption ==
  {MaxSockets, MaxAsked, MaxEvents} \subseteq Nat /\ MaxSockets > 0 /\ None \notin Nat

Sockets == 1..MaxSockets

VARIABLES
  provider,   \* [Docs -> the fields of YSweetProvider and the reconnect gate]
  asked, held, \* the TokenSource; held is issuedToken
  url,        \* [Docs -> the age of the token in the provider's url]
  dismantled, \* documents whose handlers are detached
  wanted,     \* history: documents somebody wants online
  late,       \* history: let go while a reconnect or a request was under way
  orphaned,   \* history: a close event took another, live socket from the provider
  events

vars == <<provider, asked, held, url, dismantled, wanted, late, orphaned, events>>

Source == INSTANCE TokenSource

\* "failing" and "closing" wait for their events; a "deaf" socket opened when
\* the provider had given it up, so it was not asked for the document.
SocketStates == {"none", "connecting", "open", "deaf", "failing", "closing"}

NoProvider == [ws |-> None, socket |-> [s \in Sockets |-> "none"], should |-> FALSE,
               connected |-> FALSE, synced |-> FALSE, timers |-> 0, gate |-> FALSE,
               recent |-> FALSE]

IsOnline(p) == p.ws # None /\ p.socket[p.ws] = "open"

\* hasUsableProviderToken: with a margin of its own, below the cache's.
Usable(d) == CASE held[d] = "fresh" -> {TRUE} [] held[d] = "due" -> BOOLEAN [] OTHER -> {FALSE}

-----------------------------------------------------------------------------
(* What the methods do to the provider p.                                  *)

Closing(state) ==
  CASE state = "connecting" -> "failing" [] state \in {"open", "deaf"} -> "closing" [] OTHER -> state

\* ws?.close().
CloseWs(p) == IF p.ws = None THEN p ELSE [p EXCEPT !.socket[p.ws] = Closing(@)]

\* goOffline, disconnect: the flags stay as they are until the close event.
GoOffline(p) == [CloseWs(p) EXCEPT !.ws = None, !.should = FALSE]

\* reconnectGate.schedule, once while it is pending.
Schedule(p) == [p EXCEPT !.gate = TRUE]

\* refreshStaleProviderToken: the reconnect goes through bringOnline.
RefreshStale(p, usable) == IF p.should /\ ~usable THEN Schedule(GoOffline(p)) ELSE p

Room(p) == \E s \in Sockets : p.socket[s] = "none"

Dial(p) ==
  LET new == CHOOSE s \in Sockets : p.socket[s] = "none" IN
    [p EXCEPT !.ws = new, !.socket[new] = "connecting", !.connected = FALSE, !.synced = FALSE]

\* setupWS, with refreshStaleProviderToken as beforeConnect.
SetupWS(p, usable) ==
  IF ~p.should \/ p.ws # None THEN p
  ELSE IF usable THEN Dial(p) ELSE RefreshStale(p, usable)

Connect(p, usable) ==
  LET q == [p EXCEPT !.should = TRUE] IN
    IF ~q.connected /\ q.ws = None THEN SetupWS(q, usable) ELSE q

\* applyRefreshedToken: with a new token the url changes.
ApplyToken(p, changed) == IF changed THEN CloseWs(p) ELSE p

\* The handler of connection-error.
OnError(p) == IF p.should THEN Schedule(GoOffline(p)) ELSE GoOffline(p)

\* canReconnect: the socket is opened again after a delay.
Reopens(p) == IF p.should /\ p.timers < 2 THEN [p EXCEPT !.timers = @ + 1] ELSE p

\* Faulty: what the provider knew of the document counts on.
Forget_NotSynced(p) == [p EXCEPT !.ws = None, !.connected = FALSE]

Forget(p) == [p EXCEPT !.ws = None, !.connected = FALSE, !.synced = @ /\ ~p.connected]

\* websocket.onclose, connection-close included.
OnClose(p) == Reopens(Forget(p))

-----------------------------------------------------------------------------
Event == events < MaxEvents /\ events' = events + 1
NoEvent == UNCHANGED events

Others == UNCHANGED <<dismantled, wanted, late, orphaned>>

Becomes(d, p) == provider' = [provider EXCEPT ![d] = p]

\* refreshToken: the url is that of the token.
PointsTo(d) == url' = [url EXCEPT ![d] = "fresh"]

\* bringOnline of the provider p, up to the answer of the token source.
BringOnline(d, p) ==
  \/ IsOnline(p) /\ Becomes(d, p) /\ UNCHANGED <<asked, held, url>>
  \/ /\ ~IsOnline(p) /\ Room(p)
     /\ Becomes(d, Connect(ApplyToken(p, held[d] # "fresh"), TRUE))
     /\ Source!Renew(d) /\ PointsTo(d)
  \/ /\ ~IsOnline(p) /\ Becomes(d, p)
     /\ IF asked[d] < MaxAsked THEN Source!Ask(d) ELSE UNCHANGED <<asked, held>>
     /\ UNCHANGED url

TokenArrives(d) ==
  /\ Source!Answer(d) /\ Room(provider[d])
  /\ Becomes(d, Connect(ApplyToken(provider[d], TRUE), TRUE)) /\ PointsTo(d)
  /\ NoEvent /\ Others

\* Faulty: a document that gets no token waits for the next user of it.
AfterRefusal_None(p) == p

\* bringOnline's catch.
AfterRefusal(p) == Schedule(p)

TokenRefused(d) ==
  /\ Source!Refuse(d) /\ Becomes(d, AfterRefusal(provider[d]))
  /\ Event /\ Others
  /\ UNCHANGED url

\* The cache's sweep renews the token of a subscriber, online or not.
TokenRenewed(d) ==
  /\ held[d] = "due"
  /\ Source!Renew(d) /\ Becomes(d, ApplyToken(provider[d], TRUE)) /\ PointsTo(d)
  /\ NoEvent /\ Others

\* No socket waits for its last events.
Settled(p) == \A s \in Sockets : p.socket[s] \notin {"failing", "closing"}

\* The gate keeps maxBackoffTime between two firings, in which the events of
\* a socket that was given up arrive; after a longer pause it fires at once.
MayFire(p) == p.gate /\ (p.recent => Settled(p))

GateFires(d) ==
  /\ MayFire(provider[d])
  /\ BringOnline(d, [provider[d] EXCEPT !.gate = FALSE, !.recent = TRUE])
  /\ NoEvent /\ Others

GateCools(d) ==
  /\ provider[d].recent /\ Settled(provider[d])
  /\ Becomes(d, [provider[d] EXCEPT !.recent = FALSE])
  /\ NoEvent /\ Others
  /\ UNCHANGED <<asked, held, url>>

TimerFires(d) ==
  /\ provider[d].timers > 0 /\ Room(provider[d])
  /\ \E usable \in Usable(d) :
       Becomes(d, SetupWS([provider[d] EXCEPT !.timers = @ - 1], usable))
  /\ NoEvent /\ Others
  /\ UNCHANGED <<asked, held, url>>

\* websocket.onopen: the first sync message goes out over the provider's ws.
Opens(d, s) ==
  /\ provider[d].socket[s] = "connecting"
  /\ Becomes(d, [provider[d] EXCEPT !.socket[s] = IF provider[d].ws = s THEN "open" ELSE "deaf",
                                    !.connected = TRUE])
  /\ NoEvent /\ Others
  /\ UNCHANGED <<asked, held, url>>

\* The server's answer to it.
Syncs(d, s) ==
  /\ provider[d].socket[s] = "open" /\ ~provider[d].synced
  /\ Becomes(d, [provider[d] EXCEPT !.synced = TRUE])
  /\ NoEvent /\ Others
  /\ UNCHANGED <<asked, held, url>>

\* A socket's last events: onerror if it fails, then onclose.
Ends(d, s, error) ==
  /\ \E usable \in Usable(d) :
       LET p == [provider[d] EXCEPT !.socket[s] = "none"]
           q == IF d \in dismantled THEN p
                ELSE RefreshStale(IF error THEN OnError(p) ELSE p, usable)
       IN  /\ Becomes(d, OnClose(q))
           /\ orphaned' = IF q.ws \in {None, s} THEN orphaned ELSE orphaned \cup {d}
  /\ UNCHANGED <<asked, held, url, dismantled, wanted, late>>

Closes(d, s) ==
  \/ provider[d].socket[s] = "failing" /\ Ends(d, s, TRUE) /\ NoEvent
  \/ provider[d].socket[s] = "closing" /\ Ends(d, s, FALSE) /\ NoEvent

\* The handshake fails, or the connection is lost (or given up as silent).
Drops(d, s) ==
  /\ Event
  /\ \/ provider[d].socket[s] = "connecting" /\ Ends(d, s, TRUE)
     \/ provider[d].socket[s] \in {"open", "deaf"} /\ \E error \in BOOLEAN : Ends(d, s, error)

-----------------------------------------------------------------------------
(* What others do with the document.                                       *)

Wants(d) ==
  /\ Event /\ d \notin dismantled
  /\ wanted' = wanted \cup {d} /\ late' = late \ {d}
  /\ BringOnline(d, provider[d])
  /\ UNCHANGED <<dismantled, orphaned>>

\* goOffline does not stop a reconnect that waits, nor a request.
LetGo(d) ==
  /\ Event /\ d \notin dismantled
  /\ Becomes(d, GoOffline(provider[d]))
  /\ wanted' = wanted \ {d}
  /\ late' = IF provider[d].gate \/ asked[d] > 0 THEN late \cup {d} ELSE late
  /\ UNCHANGED <<asked, held, url, dismantled, orphaned>>

\* Faulty: the reconnect that waits stays.
Cancelled_Not(p) == p

\* reconnectGate.cancel.
Cancelled(p) == [p EXCEPT !.gate = FALSE]

\* destroy: the provider's socket is closed and no longer listened to.
Dismantle(d) ==
  /\ Event /\ d \notin dismantled
  /\ LET p == provider[d] IN
       Becomes(d, Cancelled(GoOffline(IF p.ws = None THEN p ELSE [p EXCEPT !.socket[p.ws] = "none"])))
  /\ dismantled' = dismantled \cup {d} /\ wanted' = wanted \ {d}
  /\ late' = IF asked[d] > 0 THEN late \cup {d} ELSE late
  /\ UNCHANGED <<asked, held, url, orphaned>>

\* The share's server changes: resetConnection, and bringOnline of what was
\* online; the cache has been cleared.
ResetConnection(d) ==
  /\ Event /\ d \notin dismantled /\ asked[d] < MaxAsked
  /\ Becomes(d, GoOffline(provider[d]))
  /\ held' = [held EXCEPT ![d] = "none"]
  /\ IF IsOnline(provider[d])
     THEN asked' = [asked EXCEPT ![d] = @ + 1] /\ UNCHANGED <<wanted, late>>
     ELSE /\ wanted' = wanted \ {d}
          /\ late' = IF provider[d].gate \/ asked[d] > 0 THEN late \cup {d} ELSE late
          /\ UNCHANGED asked
  /\ UNCHANGED <<url, dismantled, orphaned>>

Ages(d) ==
  /\ Event
  /\ held[d] \in {"fresh", "due"} \/ url[d] \in {"fresh", "due"}
  /\ Source!Grow(d) /\ url' = [url EXCEPT ![d] = Source!Older(@)]
  /\ UNCHANGED <<provider, dismantled, wanted, late, orphaned>>

-----------------------------------------------------------------------------
Init ==
  /\ provider = [d \in Docs |-> NoProvider]
  /\ Source!Init
  /\ url = [d \in Docs |-> "none"]
  /\ dismantled = {} /\ wanted = {} /\ late = {} /\ orphaned = {}
  /\ events = 0

TokenSettles(d) == TokenArrives(d) \/ TokenRefused(d)

Next ==
  \E d \in Docs :
    \/ TokenSettles(d) \/ TokenRenewed(d)
    \/ GateFires(d) \/ GateCools(d) \/ TimerFires(d)
    \/ \E s \in Sockets : Opens(d, s) \/ Syncs(d, s) \/ Closes(d, s) \/ Drops(d, s)
    \/ Wants(d) \/ LetGo(d) \/ Dismantle(d) \/ ResetConnection(d) \/ Ages(d)

\* Requests are answered, timers fire, and a handshake or a close ends.
Fairness ==
  \A d \in Docs :
    /\ WF_vars(TokenSettles(d)) /\ WF_vars(GateFires(d)) /\ WF_vars(TimerFires(d))
    /\ \A s \in Sockets : WF_vars(Opens(d, s)) /\ WF_vars(Closes(d, s))

Spec == Init /\ [][Next]_vars /\ Fairness

-----------------------------------------------------------------------------
(* Properties.                                                             *)

\* The providers' fields are of their kinds; the ws is a socket not yet closed.
TypeOK ==
  /\ \A d \in Docs : LET p == provider[d] IN
       /\ p.ws \in Sockets \cup {None} /\ p.ws # None => p.socket[p.ws] # "none"
       /\ p.socket \in [Sockets -> SocketStates] /\ p.timers \in 0..2
       /\ {p.should, p.connected, p.synced, p.gate, p.recent} \subseteq BOOLEAN
  /\ asked \in [Docs -> 0..MaxAsked] /\ {held, url} \subseteq [Docs -> Source!Ages]
  /\ {dismantled, wanted, late, orphaned} \subseteq SUBSET Docs

\* A socket is never opened with a token that has expired or been taken
\* back, whether by bringOnline or by a reconnect that has waited long.
DialsWithGoodToken ==
  [][\A d \in Docs, s \in Sockets :
       provider[d].socket[s] = "none" /\ provider'[d].socket[s] = "connecting"
         => url'[d] \in {"fresh", "due"} /\ held'[d] = url'[d]]_vars

\* A document that was let go stays down: no timer, late event or renewal of
\* its token brings it back, unless a reconnect or a token request was under
\* way, which neither goOffline nor (the request) dismantle() stops.
LetGoStaysDown ==
  \A d \in Docs \ (wanted \cup late) : provider[d].ws = None /\ ~provider[d].gate

\* A document that is wanted comes online in the end, and stays so once
\* nothing fails any more: refused tokens, failed handshakes, lost connections
\* and expired tokens are all retried (unless its socket was orphaned).
ComesOnline ==
  \A d \in Docs : <>[](d \in wanted \ orphaned => IsOnline(provider[d]))

\* What the provider calls synced is the state of an open socket, or of one
\* whose close event has not come yet: then onceFreshlySynced believes it.
SyncedUntilClosed ==
  \A d \in Docs \ (dismantled \cup orphaned) : LET p == provider[d] IN
    p.synced => IsOnline(p) \/ \E s \in Sockets : p.socket[s] = "closing"
=============================================================================
