------------------------------ MODULE Sessions ------------------------------
(***************************************************************************)
(* The session with one configured server: RelayOnPremAuthProvider.ts,     *)
(* which signs in, refreshes and signs out; MultiServerAuthManager.ts,     *)
(* which makes and replaces the provider; RelayOnPremAuthStore.ts, where   *)
(* the session outlives the application; and AuthSession.ts, whose         *)
(* currentUser is what the rest of the plugin reads.  A call is one of the *)
(* provider's asynchronous methods: nothing keeps two of them apart except *)
(* that refreshes made for an expired token share one promise.             *)
(*                                                                         *)
(* A grant stands for the access token and the refresh token issued with   *)
(* it.  The server exchanges a refresh token for a new grant once.         *)
(***************************************************************************)
EXTENDS Naturals, Sequences

CONSTANTS
  Users, Hosts,
  Legacy,     \* hosts that issue no refresh tokens
  Slots,      \* provider objects that are in use at a time
  Calls,      \* calls that run at a time
  MaxGrants,
  MaxEvents,  \* failures, revocations, expiries and what the user asks for
  None

ASSUME SessionsAssumption ==
  /\ Legacy \subseteq Hosts /\ Hosts # {} /\ Slots # {}
  /\ {MaxGrants, MaxEvents} \cup Calls \subseteq Nat
  /\ None \notin Users \cup Hosts \cup Slots \cup Nat

VARIABLES
  grants,   \* the servers: the user and the host of each grant
  live,     \* the servers: grants whose refresh token is still accepted
  fresh,    \* grants whose access token has not expired (isTokenValid)
  object,   \* [Slots -> a provider's fields, None when there is no such object]
  current,  \* the manager's provider of this server, None when it was removed
  store,    \* what is stored under the server's id: a session or None
  session,  \* AuthSession: active, the authProvider, currentUser, restored
  call,     \* [Calls -> a call under way or None]
  events,
  signedOut, \* history: the user signed out, and has not signed in since
  windows    \* history: the races and failures the properties name

server == <<grants, live, fresh>>
vars == <<server, object, current, store, session, call, events, signedOut, windows>>

Grants == 1..MaxGrants
Maybe(S) == S \cup {None}

HostGives(h, g) == IF h \in Legacy THEN None ELSE g

-----------------------------------------------------------------------------
(* A provider's session.                                                   *)

Session == [user : Users, token : Grants, refresh : Maybe(Grants)]
Providers ==
  [host : Hosts, user : Maybe(Users), token : Maybe(Grants), refresh : Maybe(Grants)]
Empty == [user |-> None, token |-> None, refresh |-> None]

Of(p) == [user |-> p.user, token |-> p.token, refresh |-> p.refresh]
With(p, s) == [host |-> p.host, user |-> s.user, token |-> s.token, refresh |-> s.refresh]

IsLoggedIn(p) == p.user # None /\ (p.token \in fresh \/ p.refresh # None)

\* persistAuth
Persisted(p) == IF p.user # None /\ p.token # None THEN Of(p) ELSE store

-----------------------------------------------------------------------------
(* Calls.                                                                  *)

Kinds == {"login", "oauth", "background", "direct", "restore", "logout"}
Refreshes == {"background", "direct", "restore"}

CallRecords ==
  [kind : Kinds, slot : Slots, sent : Maybe(Grants), user : Maybe(Users), had : BOOLEAN, tries : Nat,
   stage : {"login", "me", "settings", "refresh", "verify", "logout"},
   prev : [user : Maybe(Users), token : Maybe(Grants), refresh : Maybe(Grants)]]

ASSUME NoneAssumption == None \notin Session \cup Providers \cup CallRecords

Free(c) == call[c] = None /\ \A d \in Calls : call[d] = None => c <= d
Running(c, kind) == call[c] # None /\ call[c].kind = kind
At(c, stage) == call[c] # None /\ call[c].stage = stage
InFlight(kinds) == \E c \in Calls : \E k \in kinds : Running(c, k)

NewCall(kind, slot, stage, sent) ==
  [kind |-> kind, slot |-> slot, stage |-> stage, sent |-> sent, user |-> None,
   had |-> FALSE, prev |-> Empty, tries |-> 0]

Starts(c, new) == call' = [call EXCEPT ![c] = new]
Goes(c, stage, sent) == call' = [call EXCEPT ![c].stage = stage, ![c].sent = sent]
Ends(c) == call' = [call EXCEPT ![c] = None]

P(c) == object[call[c].slot]
Becomes(c, p) == object' = [object EXCEPT ![call[c].slot] = p]

Event == events < MaxEvents /\ events' = events + 1
NoEvent == UNCHANGED events
Falls(names) == windows' = windows \cup names
When(condition, name) == IF condition THEN {name} ELSE {}

-----------------------------------------------------------------------------
(* What the servers do.                                                    *)

Issued(u, h) == Append(grants, [user |-> u, host |-> h])
NewGrant == Len(grants) + 1

Issues(u, h) ==
  /\ Len(grants) < MaxGrants
  /\ grants' = Issued(u, h)
  /\ fresh' = fresh \cup {NewGrant}

Login(u, h) == Issues(u, h) /\ live' = live \cup {NewGrant}

Exchanges(g) ==
  /\ Issues(grants[g].user, grants[g].host)
  /\ live' = (live \ {g}) \cup {NewGrant}

-----------------------------------------------------------------------------
(* Sign-in.                                                                *)

\* The snapshot is taken before the first await.
LoginStarts(c, u, kind) ==
  /\ Free(c) /\ current # None /\ session.restored /\ ~InFlight({"login", "oauth"})
  /\ Starts(c, [NewCall(kind, current, "login", None) EXCEPT
                  !.user = u, !.had = IsLoggedIn(object[current]), !.prev = Of(object[current])])
  /\ Event
  /\ Falls(When(InFlight(Refreshes), "login and refresh") \cup When(InFlight({"logout"}), "overtaken"))
  /\ UNCHANGED <<server, object, current, store, session, signedOut>>

LoginGranted(c) ==
  /\ Running(c, "login") /\ At(c, "login")
  /\ Login(call[c].user, P(c).host)
  /\ Becomes(c, [P(c) EXCEPT !.token = NewGrant, !.refresh = HostGives(P(c).host, NewGrant)])
  /\ Goes(c, "me", NewGrant)
  /\ NoEvent
  /\ UNCHANGED <<current, store, session, signedOut, windows>>

\* The user is known: the session is stored, and the settings are written.
LoginConfirmed(c) ==
  /\ Running(c, "login") /\ At(c, "me")
  /\ LET p == [P(c) EXCEPT !.user = grants[call[c].sent].user] IN
       Becomes(c, p) /\ store' = Persisted(p)
  /\ Goes(c, "settings", None) /\ signedOut' = FALSE
  /\ NoEvent
  /\ UNCHANGED <<server, current, session, windows>>

\* What AuthSession reads of a provider: a user with a token.
UserOf(slot) ==
  IF slot # None /\ object[slot].token # None THEN object[slot].user ELSE None

\* The end of AuthSession.loginToServer.
LoginEnds(c) ==
  /\ At(c, "settings")
  /\ session' = IF session.active
                THEN [session EXCEPT !.auth = current,
                        !.user = IF UserOf(current) # None THEN UserOf(current) ELSE @]
                ELSE session
  /\ Ends(c) /\ NoEvent
  /\ UNCHANGED <<server, object, current, store, signedOut, windows>>

\* completeOAuthFlow answers with the user: nothing is awaited after it.
OAuthEnds(c) ==
  /\ Running(c, "oauth") /\ Login(call[c].user, P(c).host)
  /\ LET p == [P(c) EXCEPT !.user = call[c].user, !.token = NewGrant,
                           !.refresh = HostGives(P(c).host, NewGrant)] IN
       Becomes(c, p) /\ store' = Persisted(p)
  /\ session' = IF session.active
                THEN [session EXCEPT !.auth = call[c].slot, !.user = call[c].user] ELSE session
  /\ Ends(c) /\ signedOut' = FALSE
  /\ NoEvent
  /\ UNCHANGED <<current, windows>>

\* Faulty: nothing is cleared, and the tokens of the failed sign-in stay.
PutBack_Nothing(c) == P(c)

\* The session there was is put back as it was, the user with the tokens.
PutBack(c) == With(P(c), call[c].prev)

\* The catch: of a password sign-in that had none the refresh token stays.
LoginFails(c) ==
  /\ At(c, "login") \/ (Running(c, "login") /\ At(c, "me"))
  /\ IF call[c].had
     THEN Becomes(c, PutBack(c)) /\ UNCHANGED store
     ELSE /\ Becomes(c, With(P(c), [Empty EXCEPT
                 !.refresh = IF Running(c, "login") THEN P(c).refresh ELSE None]))
          /\ store' = None
  /\ Ends(c) /\ Event
  /\ UNCHANGED <<server, current, session, signedOut, windows>>

-----------------------------------------------------------------------------
(* Refresh.                                                                *)

\* refreshToken, up to its request; without a refresh token /me is asked.
RefreshCall(kind, slot) ==
  IF object[slot].refresh # None THEN NewCall(kind, slot, "refresh", object[slot].refresh)
  ELSE NewCall(kind, slot, "verify", object[slot].token)

Refreshable(p) == p.user # None /\ p.token # None

RefreshOverlaps ==
  When(InFlight(Refreshes), "two refreshes") \cup When(InFlight({"login", "oauth"}), "login and refresh")
  \cup When(InFlight({"logout"}), "overtaken")

\* getValidToken and getToken, for a token that has expired.  A provider that
\* was replaced is still asked by those that took hold of it before.
Background(c, slot) ==
  /\ Free(c) /\ slot \in {current, session.auth} \ {None} /\ session.restored
  /\ LET p == object[slot] IN Refreshable(p) /\ p.refresh # None /\ p.token \notin fresh
  /\ \A d \in Calls : Running(d, "background") => call[d].slot # slot
  /\ Starts(c, RefreshCall("background", slot))
  /\ NoEvent /\ Falls(RefreshOverlaps \cup When(slot # current, "replaced"))
  /\ UNCHANGED <<server, object, current, store, session, signedOut>>

\* reAuthForSensitiveAction.
ReAuth(c) ==
  /\ Free(c) /\ current # None /\ session.restored /\ Refreshable(object[current])
  /\ Starts(c, RefreshCall("direct", current))
  /\ Event /\ Falls(RefreshOverlaps)
  /\ UNCHANGED <<server, object, current, store, session, signedOut>>

RefreshGranted(c) ==
  /\ At(c, "refresh") /\ call[c].sent \in live
  /\ Exchanges(call[c].sent)
  /\ Becomes(c, [P(c) EXCEPT !.token = NewGrant, !.refresh = NewGrant])
  /\ Goes(c, "me", NewGrant)
  /\ NoEvent
  /\ UNCHANGED <<current, store, session, signedOut, windows>>

\* The manager's restore is over: AuthSession takes the user over.
RestoreEnds(c, user) ==
  IF Running(c, "restore") /\ ~session.restored
  THEN [session EXCEPT !.restored = TRUE, !.user = user] ELSE session

\* Faulty: what the refresh brought is kept in memory only.
Saves_Not(p) == store

Saves(p) == Persisted(p)

\* /me answers, or answers with an error: then the user stays who it was.
RefreshEnds(c) ==
  /\ call[c] # None /\ call[c].kind \in Refreshes /\ At(c, "me")
  /\ \E user \in {grants[call[c].sent].user, P(c).user} :
       LET p == [P(c) EXCEPT !.user = user] IN
         /\ Becomes(c, p) /\ store' = Saves(p)
         /\ session' = RestoreEnds(c, p.user)
  /\ Ends(c) /\ NoEvent
  /\ UNCHANGED <<server, current, signedOut, windows>>

\* The token of a legacy server is only asked about.
Verified(c) ==
  /\ At(c, "verify")
  /\ LET p == [P(c) EXCEPT !.user = grants[call[c].sent].user] IN
       Becomes(c, p) /\ store' = Persisted(p)
  /\ Ends(c) /\ NoEvent
  /\ UNCHANGED <<server, current, session, signedOut, windows>>

\* handleSessionExpired.
Expired(c) ==
  session' = [session EXCEPT !.user = IF session.active THEN None ELSE @,
                             !.restored = @ \/ Running(c, "restore")]

\* The refresh token is not accepted.
Rejected(c) ==
  /\ At(c, "refresh") /\ call[c].sent \notin live
  /\ Becomes(c, With(P(c), Empty)) /\ store' = None
  /\ Expired(c) /\ Ends(c) /\ NoEvent
  /\ UNCHANGED <<server, current, signedOut, windows>>

\* Faulty: any failure of a refresh ends the session.
Kept_Not(c) == Becomes(c, With(P(c), Empty)) /\ store' = None

Kept(c) == UNCHANGED <<object, store>>

MaxTries == 1

\* No answer, or a server error: the session is kept.  A refresh made for an
\* expired token is tried again (three times in the code), the others not.
\* The server may have exchanged the refresh token all the same.
RefreshFails(c) ==
  /\ At(c, "refresh") \/ At(c, "verify") \/ (call[c] # None /\ call[c].kind \in Refreshes /\ At(c, "me"))
  /\ Event /\ Kept(c)
  /\ \/ Falls(When(At(c, "me"), "not stored")) /\ UNCHANGED server
     \/ /\ At(c, "refresh") /\ call[c].sent \in live /\ Exchanges(call[c].sent)
        /\ Falls({"lost answer"})
  /\ IF Running(c, "background") /\ call[c].tries < MaxTries /\ Refreshable(P(c))
     THEN /\ Starts(c, [RefreshCall("background", call[c].slot) EXCEPT !.tries = call[c].tries + 1])
          /\ UNCHANGED session
     ELSE Ends(c) /\ session' = RestoreEnds(c, UserOf(call[c].slot))
  /\ UNCHANGED <<current, signedOut>>

-----------------------------------------------------------------------------
(* Signing out, and changes of the configuration.                          *)

LogoutStarts(c) ==
  /\ Free(c) /\ current # None /\ session.restored /\ ~InFlight({"logout"})
  /\ IsLoggedIn(object[current])
  /\ Starts(c, NewCall("logout", current, "logout", object[current].token))
  /\ Event /\ Falls(When(InFlight(Kinds), "overtaken"))
  /\ UNCHANGED <<server, object, current, store, session, signedOut>>

\* Whatever the server says to it, if it says anything.
LogoutEnds(c) ==
  /\ Running(c, "logout")
  /\ \E revoked \in SUBSET {call[c].sent} : live' = live \ revoked
  /\ Becomes(c, With(P(c), Empty)) /\ store' = None /\ signedOut' = TRUE
  /\ session' = IF session.active THEN [session EXCEPT !.user = None] ELSE session
  /\ Ends(c) /\ NoEvent
  /\ UNCHANGED <<grants, fresh, current, windows>>

\* A provider's constructor: restoreAuth, up to the refresh of an old token.
Unused(slot) == slot \notin {current, session.auth} /\ \A c \in Calls : call[c] # None => call[c].slot # slot

Provider(h, s) == With([host |-> h, user |-> None, token |-> None, refresh |-> None],
                       IF s = None THEN Empty ELSE s)

Usable(s) == s = None \/ s.token \in fresh \/ s.refresh # None
NeedsRefresh(s) == s # None /\ s.token \notin fresh /\ s.refresh # None

\* The slot holds a new provider of the host, made from the stored session s.
Makes(slot, h, s) ==
  /\ current' = slot
  /\ object' = [object EXCEPT ![slot] = Provider(h, IF Usable(s) THEN s ELSE None)]
  /\ store' = IF Usable(s) THEN s ELSE None

RestoreCall(slot, s) == NewCall("restore", slot, "refresh", s.refresh)

\* Faulty: the new provider goes on with the old one's session.
Cleared_Not(h) == store

\* updateServer: a session is of the host it was made with.
Cleared(h) == IF h # object[current].host THEN None ELSE store

UpdateServer(slot, h) ==
  /\ current # None /\ session.restored /\ Unused(slot) /\ Event
  /\ LET s == Cleared(h) IN
       /\ Makes(slot, h, s)
       /\ IF NeedsRefresh(s) THEN \E c \in Calls : Free(c) /\ Starts(c, RestoreCall(slot, s))
          ELSE UNCHANGED call
       /\ Falls(When(InFlight(Kinds), "overtaken") \cup When(s # store, "other host"))
       /\ signedOut' = (signedOut \/ s # store)
  /\ UNCHANGED <<server, session>>

\* Faulty: what is stored under the id is left there.
Forgotten_Not == store

Forgotten == None

RemoveServer ==
  /\ current # None /\ session.restored /\ Event
  /\ store' = Forgotten /\ current' = None /\ signedOut' = TRUE
  /\ session' = IF session.active
                THEN [session EXCEPT !.active = FALSE, !.auth = None, !.user = None] ELSE session
  /\ Falls(When(InFlight(Kinds), "overtaken"))
  /\ UNCHANGED <<server, object, call>>

\* addServer; the first server becomes the active one at the next start.
AddServer(slot, h) ==
  /\ current = None /\ Unused(slot) /\ Event
  /\ Makes(slot, h, store)
  /\ IF NeedsRefresh(store) THEN \E c \in Calls : Free(c) /\ Starts(c, RestoreCall(slot, store))
     ELSE UNCHANGED call
  /\ UNCHANGED <<server, session, signedOut, windows>>

\* Nothing but the store is left of the application; it starts again.
Restart(slot) ==
  /\ current # None /\ Event
  /\ LET h == object[current].host
         first == CHOOSE c \in Calls : \A d \in Calls : c <= d
     IN  /\ current' = slot
         /\ object' = [o \in Slots |->
              IF o = slot THEN Provider(h, IF Usable(store) THEN store ELSE None) ELSE None]
         /\ store' = IF Usable(store) THEN store ELSE None
         /\ session' = [active |-> TRUE, auth |-> slot, restored |-> ~NeedsRefresh(store),
                        user |-> IF store # None /\ store.token \in fresh THEN store.user ELSE None]
         /\ call' = [c \in Calls |->
              IF c = first /\ NeedsRefresh(store) THEN RestoreCall(slot, store) ELSE None]
  /\ Falls(When(\E c \in Calls : At(c, "me") /\ call[c].kind \in Refreshes, "not stored"))
  /\ UNCHANGED <<server, signedOut>>

-----------------------------------------------------------------------------
(* Time, and the administrator.                                            *)

Expires(g) ==
  /\ g \in fresh /\ Event /\ fresh' = fresh \ {g}
  /\ UNCHANGED <<grants, live, object, current, store, session, call, signedOut, windows>>

Revokes(g) ==
  /\ g \in live /\ Event /\ live' = live \ {g}
  /\ Falls({"revoked"})
  /\ UNCHANGED <<grants, fresh, object, current, store, session, call, signedOut>>

Init ==
  /\ grants = <<>> /\ live = {} /\ fresh = {}
  /\ current \in Slots
  /\ \E h \in Hosts : object = [o \in Slots |-> IF o = current THEN Provider(h, None) ELSE None]
  /\ store = None
  /\ session = [active |-> TRUE, auth |-> current, user |-> None, restored |-> TRUE]
  /\ call = [c \in Calls |-> None]
  /\ events = 0 /\ signedOut = FALSE /\ windows = {}

Next ==
  \/ \E c \in Calls :
       \/ \E u \in Users : LoginStarts(c, u, "login") \/ LoginStarts(c, u, "oauth")
       \/ LoginGranted(c) \/ LoginConfirmed(c) \/ LoginEnds(c) \/ OAuthEnds(c) \/ LoginFails(c)
       \/ \E slot \in Slots : Background(c, slot)
       \/ ReAuth(c)
       \/ RefreshGranted(c) \/ RefreshEnds(c) \/ Verified(c) \/ Rejected(c) \/ RefreshFails(c)
       \/ LogoutStarts(c) \/ LogoutEnds(c)
  \/ \E slot \in Slots, h \in Hosts : UpdateServer(slot, h) \/ AddServer(slot, h)
  \/ RemoveServer
  \/ \E slot \in Slots : Restart(slot)
  \/ \E g \in Grants : Expires(g) \/ Revokes(g)

Spec == Init /\ [][Next]_vars

-----------------------------------------------------------------------------
(* Properties.  Each leaves out the windows in which the code does not keep *)
(* to it, and no other.                                                    *)

Matches(s) == \A g \in {s.token, s.refresh} \ {None} : grants[g].user = s.user

\* A user is never paired with the tokens of another, neither in what is stored
\* nor in a provider that no sign-in is changing (the catch of
\* loginWithPassword and its comment, TR-52).
UserMatchesToken ==
  windows \cap {"login and refresh"} = {} =>
    /\ store # None => Matches(store)
    /\ \A o \in Slots :
         (object[o] # None /\ object[o].user # None
            /\ ~\E c \in Calls : call[c] # None /\ call[c].slot = o) => Matches(object[o])

\* A user who has signed out, or removed the server, stays signed out through
\* whatever answers come in late, restarts and adding the server again.
SignedOutStaysOut ==
  windows \cap {"overtaken", "replaced"} = {} => (signedOut => store = None)

\* A provider holds and sends only tokens that its own host issued, also after
\* the server's address was changed and after a restart (updateServer and its
\* comment, TR-55).
TokenToItsHost ==
  windows \cap {"overtaken", "replaced"} = {} =>
    /\ \A o \in Slots : (object[o] # None /\ object[o].token # None) =>
         grants[object[o].token].host = object[o].host
    /\ \A c \in Calls : (call[c] # None /\ call[c].sent # None) =>
         grants[call[c].sent].host = P(c).host

\* When nothing is under way, a restart finds the session the provider has.
RestartKeepsTheSession ==
  (/\ windows \cap {"not stored", "overtaken", "replaced", "two refreshes",
                   "login and refresh"} = {}
   /\ current # None /\ \A c \in Calls : call[c] = None)
    => IF store = None THEN object[current].user = None ELSE store = Of(object[current])

\* A session with a refresh token ends only when the user signs out or changes
\* the configuration: no failure of a sign-in, of a refresh or of /me ends it, and
\* no restart, unless the server revoked the token or its answer was lost.
LiveSessionKept ==
  [][(/\ windows \cap {"revoked", "lost answer", "two refreshes", "replaced",
                    "login and refresh", "overtaken", "not stored"} = {}
      /\ store # None /\ store.refresh # None /\ store' = None) => signedOut']_vars
=============================================================================
