-------------------------- MODULE Connection_proof --------------------------
(***************************************************************************)
(* Proofs about a document's connection, for every number of documents,    *)
(* sockets, open requests and events: the types, that a socket is only     *)
(* dialled with a good token, that a document that was let go stays down   *)
(* and that what a provider calls synced is the state of its socket.  The  *)
(* second part is about the token cache and what it promises a connection. *)
(***************************************************************************)
EXTENDS Connection, Credentials, FiniteSetTheorems, FunctionTheorems, TLAPS

Providers ==
  [ws : Sockets \cup {None}, socket : [Sockets -> SocketStates], should : BOOLEAN,
   connected : BOOLEAN, synced : BOOLEAN, timers : 0..2, gate : BOOLEAN, recent : BOOLEAN]

-----------------------------------------------------------------------------
(* What holds of a provider.                                               *)

WsOK(p) == p.ws # None => p.socket[p.ws] # "none"

\* Nothing of the provider is up, and nothing of it will bring it up.
Down(p) == p.ws = None /\ ~p.should /\ ~p.gate

\* The only open socket is the provider's own; what is synced was connected.
OwnsOpen(p) ==
  /\ \A s \in Sockets : p.socket[s] = "open" => p.ws = s /\ p.connected
  /\ p.synced => p.connected

SyncOK(p) ==
  /\ OwnsOpen(p)
  /\ p.synced => IsOnline(p) \/ \E s \in Sockets : p.socket[s] = "closing"

\* q comes of p, with nothing dialled.
Keeps(p, q) ==
  /\ q \in Providers
  /\ WsOK(p) => WsOK(q)
  /\ OwnsOpen(p) => OwnsOpen(q)
  /\ SyncOK(p) => SyncOK(q)
  /\ \A s \in Sockets : p.socket[s] = "none" => q.socket[s] = "none"

LEMMA NoneIsNoSocket == None \notin Sockets
BY ConnectionAssumption DEF Sockets

-----------------------------------------------------------------------------
(* The methods.                                                            *)

LEMMA CloseWsKeeps ==
  ASSUME NEW p \in Providers
  PROVE  /\ Keeps(p, CloseWs(p))
         /\ CloseWs(p).ws = p.ws /\ CloseWs(p).should = p.should /\ CloseWs(p).gate = p.gate
         /\ CloseWs(p).connected = p.connected /\ CloseWs(p).synced = p.synced
         /\ \A s \in Sockets : CloseWs(p).socket[s] = "open" => p.socket[s] = "open" /\ s # p.ws
         /\ \A s \in Sockets : p.socket[s] = "none" <=> CloseWs(p).socket[s] = "none"
<1>1. CASE p.ws = None
  BY <1>1, NoneIsNoSocket DEF CloseWs, Keeps, Providers
<1>2. CASE p.ws # None
  <2> DEFINE new == Closing(p.socket[p.ws])
             q == CloseWs(p)
  <2>1. p.ws \in Sockets /\ p.socket \in [Sockets -> SocketStates]
    BY <1>2 DEF Providers
  <2>2. /\ new \in SocketStates /\ new # "open" /\ (new = "none" <=> p.socket[p.ws] = "none")
        /\ p.socket[p.ws] \in {"open", "closing"} => new = "closing"
    BY <2>1 DEF Closing, SocketStates
  <2>3. q = [p EXCEPT !.socket = [p.socket EXCEPT ![p.ws] = new]]
    BY <1>2, <2>1 DEF CloseWs, Providers
  <2> HIDE DEF new, q
  <2>4. /\ q.socket \in [Sockets -> SocketStates] /\ q.socket[p.ws] = new
        /\ \A s \in Sockets \ {p.ws} : q.socket[s] = p.socket[s]
    BY <2>1, <2>2, <2>3 DEF Providers
  <2>5. /\ q.ws = p.ws /\ q.should = p.should /\ q.gate = p.gate
        /\ q.connected = p.connected /\ q.synced = p.synced
    BY <2>3 DEF Providers
  <2>6. q \in Providers
    BY <2>3, <2>4 DEF Providers
  <2>7. WsOK(p) => WsOK(q)
    BY <2>2, <2>4, <2>5 DEF WsOK
  <2>8. \A s \in Sockets : q.socket[s] = "open" => p.socket[s] = "open" /\ s # p.ws
    BY <2>2, <2>4
  <2>9. \A s \in Sockets : p.socket[s] = "none" <=> q.socket[s] = "none"
    BY <2>2, <2>4
  <2>10. OwnsOpen(p) => OwnsOpen(q)
    BY <2>5, <2>8 DEF OwnsOpen
  <2>11. SyncOK(p) => SyncOK(q)
    BY <2>1, <2>2, <2>4, <2>5, <2>10 DEF SyncOK, IsOnline
  <2>12. Keeps(p, q)
    BY <2>6, <2>7, <2>9, <2>10, <2>11 DEF Keeps
  <2> QED BY <2>5, <2>8, <2>9, <2>12 DEF q
<1> QED BY <1>1, <1>2

LEMMA GoOfflineKeeps ==
  ASSUME NEW p \in Providers
  PROVE  /\ Keeps(p, GoOffline(p))
         /\ GoOffline(p).ws = None /\ ~GoOffline(p).should /\ GoOffline(p).gate = p.gate
<1> DEFINE c == CloseWs(p)
           q == GoOffline(p)
<1>1. /\ Keeps(p, c) /\ c \in Providers /\ c.gate = p.gate
      /\ \A s \in Sockets : c.socket[s] = "open" => p.socket[s] = "open" /\ s # p.ws
      /\ c.connected = p.connected /\ c.synced = p.synced /\ c.ws = p.ws
  BY CloseWsKeeps DEF Keeps
<1>2. q = [c EXCEPT !.ws = None, !.should = FALSE]
  BY DEF GoOffline
<1> HIDE DEF c, q
<1>3. /\ q \in Providers /\ q.ws = None /\ q.gate = c.gate /\ q.socket = c.socket
      /\ q.connected = c.connected /\ q.synced = c.synced
  BY <1>1, <1>2 DEF Providers
<1>4. ~q.should
  BY <1>1, <1>2 DEF Providers
<1>5. OwnsOpen(p) => OwnsOpen(q)
  BY <1>1, <1>3 DEF OwnsOpen
<1>6. SyncOK(p) => SyncOK(q)
  <2> SUFFICES ASSUME SyncOK(p), q.synced PROVE \E s \in Sockets : q.socket[s] = "closing"
    BY <1>5 DEF SyncOK
  <2>1. SyncOK(c) /\ OwnsOpen(p) /\ c.synced
    BY <1>1, <1>3 DEF Keeps, SyncOK
  <2>2. ~IsOnline(c)
    BY <1>1 DEF IsOnline, Providers
  <2> QED BY <1>3, <2>1, <2>2 DEF SyncOK
<1>7. Keeps(p, q)
  BY <1>1, <1>3, <1>5, <1>6 DEF Keeps, WsOK
<1> QED BY <1>1, <1>3, <1>4, <1>7 DEF q

\* A change of the reconnect gate, the timers or the intent.
LEMMA FlagsKeep ==
  ASSUME NEW p \in Providers, NEW q \in Providers,
         q.ws = p.ws, q.socket = p.socket, q.connected = p.connected, q.synced = p.synced
  PROVE  Keeps(p, q)
BY DEF Keeps, WsOK, OwnsOpen, SyncOK, IsOnline

LEMMA ScheduleKeeps ==
  ASSUME NEW p \in Providers
  PROVE  Keeps(p, Schedule(p)) /\ Schedule(p).ws = p.ws
<1>1. /\ Schedule(p) \in Providers /\ Schedule(p).ws = p.ws /\ Schedule(p).socket = p.socket
      /\ Schedule(p).connected = p.connected /\ Schedule(p).synced = p.synced
  BY DEF Schedule, Providers
<1> QED BY <1>1, FlagsKeep

LEMMA KeepsTwice ==
  ASSUME NEW p \in Providers, NEW q \in Providers, NEW r, Keeps(p, q), Keeps(q, r)
  PROVE  Keeps(p, r)
BY DEF Keeps

LEMMA RefreshStaleKeeps ==
  ASSUME NEW p \in Providers, NEW usable
  PROVE  /\ Keeps(p, RefreshStale(p, usable))
         /\ RefreshStale(p, usable).ws \in {p.ws, None}
         /\ ~p.should => RefreshStale(p, usable) = p
<1>1. CASE p.should /\ ~usable
  BY <1>1, GoOfflineKeeps, ScheduleKeeps, KeepsTwice DEF RefreshStale, Keeps
<1>2. CASE ~(p.should /\ ~usable)
  BY <1>2, FlagsKeep DEF RefreshStale
<1> QED BY <1>1, <1>2

LEMMA OnErrorKeeps ==
  ASSUME NEW p \in Providers
  PROVE  /\ Keeps(p, OnError(p)) /\ OnError(p).ws = None
         /\ ~p.should => OnError(p) = GoOffline(p)
  BY GoOfflineKeeps, ScheduleKeeps, KeepsTwice DEF OnError, Keeps

LEMMA ApplyTokenKeeps ==
  ASSUME NEW p \in Providers, NEW changed
  PROVE  /\ Keeps(p, ApplyToken(p, changed)) /\ ApplyToken(p, changed).ws = p.ws
         /\ \A s \in Sockets : p.socket[s] = "none" <=> ApplyToken(p, changed).socket[s] = "none"
  BY CloseWsKeeps, FlagsKeep DEF ApplyToken

\* A provider without a socket dials a free one.
LEMMA DialDials ==
  ASSUME NEW p \in Providers, p.ws = None, Room(p)
  PROVE  /\ Dial(p) \in Providers /\ WsOK(Dial(p))
         /\ OwnsOpen(p) => SyncOK(Dial(p))
<1> DEFINE new == CHOOSE s \in Sockets : p.socket[s] = "none"
           q == Dial(p)
<1>1. new \in Sockets /\ p.socket \in [Sockets -> SocketStates]
  BY DEF Room, Providers
<1>2. q = [p EXCEPT !.ws = new, !.socket = [p.socket EXCEPT ![new] = "connecting"],
                    !.connected = FALSE, !.synced = FALSE]
  BY DEF Dial, Providers
<1> HIDE DEF new, q
<1>3. [p.socket EXCEPT ![new] = "connecting"] \in [Sockets -> SocketStates]
  BY <1>1 DEF SocketStates
<1>4. q \in Providers
  BY <1>1, <1>2, <1>3 DEF Providers
<1>5. /\ q.ws = new /\ q.socket[new] = "connecting"
      /\ \A s \in Sockets \ {new} : q.socket[s] = p.socket[s]
  BY <1>1, <1>2 DEF Providers
<1>6. ~q.synced
  BY <1>2 DEF Providers
<1>7. WsOK(q)
  BY <1>5 DEF WsOK
<1>8. OwnsOpen(p) => SyncOK(q)
  BY <1>1, <1>5, <1>6, NoneIsNoSocket DEF OwnsOpen, SyncOK
<1> QED BY <1>4, <1>7, <1>8 DEF q

\* What is dialled is dialled with a usable token, and only when it should be.
LEMMA SetupWSDials ==
  ASSUME NEW p \in Providers, NEW usable \in BOOLEAN, Room(p)
  PROVE  /\ SetupWS(p, usable) \in Providers /\ (WsOK(p) => WsOK(SetupWS(p, usable)))
         /\ OwnsOpen(p) => OwnsOpen(SetupWS(p, usable))
         /\ SyncOK(p) => SyncOK(SetupWS(p, usable))
         /\ ~usable => Keeps(p, SetupWS(p, usable))
         /\ ~p.should => SetupWS(p, usable) = p
<1>1. CASE ~p.should \/ p.ws # None
  BY <1>1, FlagsKeep DEF SetupWS
<1>2. CASE p.should /\ p.ws = None /\ usable
  <2>1. SetupWS(p, usable) = Dial(p)
    BY <1>2 DEF SetupWS
  <2> QED BY <1>2, <2>1, DialDials DEF SyncOK
<1>3. CASE p.should /\ p.ws = None /\ ~usable
  <2>1. SetupWS(p, usable) = RefreshStale(p, usable)
    BY <1>3 DEF SetupWS
  <2> QED BY <1>3, <2>1, RefreshStaleKeeps DEF Keeps
<1> QED BY <1>1, <1>2, <1>3

LEMMA ConnectDials ==
  ASSUME NEW p \in Providers, Room(p)
  PROVE  /\ Connect(p, TRUE) \in Providers /\ (WsOK(p) => WsOK(Connect(p, TRUE)))
         /\ SyncOK(p) => SyncOK(Connect(p, TRUE))
<1> DEFINE q == [p EXCEPT !.should = TRUE]
<1>1. q \in Providers /\ q.ws = p.ws /\ q.socket = p.socket /\ q.connected = p.connected
      /\ q.synced = p.synced
  BY DEF Providers
<1>2. Keeps(p, q) /\ Room(q)
  BY <1>1, FlagsKeep DEF Room
<1>3. Connect(p, TRUE) \in {q, SetupWS(q, TRUE)}
  BY DEF Connect
<1> HIDE DEF q
<1> QED BY <1>1, <1>2, <1>3, SetupWSDials DEF Keeps

\* After a close event the provider has no socket and nothing is synced, when
\* the socket was its own or none was.
LEMMA OnCloseKeeps ==
  ASSUME NEW p \in Providers
  PROVE  /\ OnClose(p) \in Providers /\ WsOK(OnClose(p)) /\ OnClose(p).ws = None
         /\ OnClose(p).socket = p.socket /\ OnClose(p).gate = p.gate
         /\ ~p.should => ~OnClose(p).should
         /\ OwnsOpen(p) /\ (p.ws # None => p.socket[p.ws] # "open") => SyncOK(OnClose(p))
<1> DEFINE f == Forget(p)
           q == OnClose(p)
<1>1. /\ f.ws = None /\ f.socket = p.socket /\ f.gate = p.gate /\ f.timers = p.timers
      /\ f.should = p.should /\ f.recent = p.recent
  BY DEF Forget, Providers
<1>2. f.connected = FALSE /\ f.synced = (p.synced /\ ~p.connected)
  BY DEF Forget, Providers
<1>3. f \in Providers
  <2>1. (p.synced /\ ~p.connected) \in BOOLEAN
    BY Zenon
  <2> QED BY <2>1 DEF Forget, Providers
<1> HIDE DEF f
<1>4. q = IF f.should /\ f.timers < 2 THEN [f EXCEPT !.timers = @ + 1] ELSE f
  BY DEF OnClose, Reopens, f
<1> HIDE DEF q
<1>5. /\ q.ws = None /\ q.socket = p.socket /\ q.gate = p.gate /\ q.should = f.should
      /\ q.synced = f.synced /\ q.connected = f.connected /\ q.timers \in 0..2 /\ q.recent = f.recent
  BY <1>1, <1>3, <1>4 DEF Providers
<1>6. q \in Providers
  <2>1. f.timers < 2 => f.timers + 1 \in 0..2
    BY <1>3 DEF Providers
  <2> QED BY <1>3, <1>4, <2>1 DEF Providers
<1>7. ASSUME OwnsOpen(p), p.ws # None => p.socket[p.ws] # "open" PROVE SyncOK(q)
  <2>1. ~q.synced
    BY <1>2, <1>5, <1>7 DEF OwnsOpen
  <2>2. \A s \in Sockets : q.socket[s] # "open"
    BY <1>5, <1>7, NoneIsNoSocket DEF OwnsOpen
  <2> QED BY <2>1, <2>2 DEF SyncOK, OwnsOpen
<1>8. ~p.should => ~q.should
  BY <1>1, <1>5
<1> QED BY <1>5, <1>6, <1>7, <1>8 DEF q, WsOK

-----------------------------------------------------------------------------
(* The invariant, document by document.                                    *)

Tokens ==
  /\ asked \in [Docs -> 0..MaxAsked] /\ held \in [Docs -> Source!Ages]
  /\ url \in [Docs -> Source!Ages]

Marks == /\ wanted \subseteq Docs /\ late \subseteq Docs
         /\ dismantled \subseteq Docs /\ orphaned \subseteq Docs

\* What the source gave is what the url says, for as long as it is good.
TokenOK(d) == held[d] \in {"fresh", "due"} => url[d] = held[d]

DocOK(d) ==
  /\ WsOK(provider[d]) /\ TokenOK(d)
  /\ d \notin wanted \cup late => Down(provider[d]) /\ asked[d] = 0
  /\ d \notin dismantled \cup orphaned => SyncOK(provider[d])

ConnectionInv ==
  /\ provider \in [Docs -> Providers] /\ Tokens /\ Marks
  /\ \A d \in Docs : DocOK(d)

\* What a step of d does to the tokens.
TokenStep(d) ==
  /\ Tokens' /\ TokenOK(d)'
  /\ \A e \in Docs \ {d} : asked'[e] = asked[e] /\ held'[e] = held[e] /\ url'[e] = url[e]

MarkStep(d) ==
  /\ Marks'
  /\ \A e \in Docs \ {d} :
       /\ (e \in wanted' <=> e \in wanted) /\ (e \in late' <=> e \in late)
       /\ (e \in dismantled' <=> e \in dismantled) /\ (e \in orphaned' <=> e \in orphaned)

DialledWell(d) ==
  \A s \in Sockets :
    provider[d].socket[s] = "none" /\ provider'[d].socket[s] = "connecting"
      => url'[d] \in {"fresh", "due"} /\ held'[d] = url'[d]

StepOK == ConnectionInv' /\ \A d \in Docs : DialledWell(d)

LEMMA ConnectionInit == Init => ConnectionInv
<1> SUFFICES ASSUME Init PROVE ConnectionInv
  OBVIOUS
<1>1. NoProvider \in Providers
  BY DEF NoProvider, Providers, SocketStates
<1>2. WsOK(NoProvider) /\ Down(NoProvider) /\ SyncOK(NoProvider)
  BY DEF NoProvider, WsOK, Down, SyncOK, OwnsOpen
<1>3. Tokens
  BY ConnectionAssumption DEF Init, Source!Init, Tokens, Source!Ages
<1>4. Marks /\ provider \in [Docs -> Providers]
  BY <1>1 DEF Init, Marks
<1>5. ASSUME NEW d \in Docs PROVE DocOK(d)
  BY <1>2 DEF Init, Source!Init, DocOK, TokenOK
<1> QED BY <1>3, <1>4, <1>5 DEF ConnectionInv

\* A step of d is right when it is right for d.
LEMMA OneDocument ==
  ASSUME ConnectionInv, NEW d \in Docs, NEW q \in Providers, Becomes(d, q),
         TokenStep(d), MarkStep(d), WsOK(q),
         d \notin wanted' \cup late' => Down(q) /\ asked'[d] = 0,
         d \notin dismantled' \cup orphaned' => SyncOK(q),
         \A s \in Sockets : provider[d].socket[s] = "none" /\ q.socket[s] = "connecting"
                              => url'[d] \in {"fresh", "due"} /\ held'[d] = url'[d]
  PROVE  StepOK
<1>1. /\ provider' \in [Docs -> Providers] /\ provider'[d] = q
      /\ \A e \in Docs \ {d} : provider'[e] = provider[e]
  BY DEF Becomes, ConnectionInv
<1>2. DocOK(d)'
  BY <1>1 DEF DocOK, TokenStep
<1>3. ASSUME NEW e \in Docs \ {d} PROVE DocOK(e)'
  BY <1>1, <1>3 DEF ConnectionInv, DocOK, TokenOK, TokenStep, MarkStep
<1>4. \A e \in Docs : DialledWell(e)
  BY <1>1 DEF DialledWell
<1> QED BY <1>1, <1>2, <1>3, <1>4 DEF StepOK, ConnectionInv, TokenStep, MarkStep

\* A step that dials nothing and leaves the tokens and the marks.
LEMMA QuietStep ==
  ASSUME ConnectionInv, NEW d \in Docs, NEW q \in Providers, Becomes(d, q), Others,
         UNCHANGED <<asked, held, url>>, WsOK(q),
         Down(provider[d]) => Down(q),
         SyncOK(provider[d]) => SyncOK(q),
         \A s \in Sockets : provider[d].socket[s] = "none" => q.socket[s] # "connecting"
  PROVE  StepOK
<1>1. TokenStep(d)
  BY DEF ConnectionInv, DocOK, TokenStep, Tokens, TokenOK
<1>2. MarkStep(d)
  BY DEF ConnectionInv, Others, MarkStep, Marks
<1>3. /\ d \notin wanted' \cup late' => Down(q) /\ asked'[d] = 0
      /\ d \notin dismantled' \cup orphaned' => SyncOK(q)
  BY DEF ConnectionInv, DocOK, Others
<1> QED BY <1>1, <1>2, <1>3, OneDocument

LEMMA Unmarked == ConnectionInv /\ Others => \A d \in Docs : MarkStep(d)
BY DEF ConnectionInv, Others, MarkStep, Marks

\* The steps of the token source.
LEMMA FreshToken ==
  ASSUME ConnectionInv, NEW d \in Docs, Source!Renew(d) \/ Source!Answer(d), PointsTo(d)
  PROVE  TokenStep(d) /\ url'[d] = "fresh" /\ held'[d] = "fresh"
<1>1. /\ held' = [held EXCEPT ![d] = "fresh"] /\ url' = [url EXCEPT ![d] = "fresh"]
      /\ held' \in [Docs -> Source!Ages] /\ url' \in [Docs -> Source!Ages]
  BY DEF Source!Renew, Source!Answer, Source!Given, PointsTo, ConnectionInv, Tokens, Source!Ages
<1>2. asked' \in [Docs -> 0..MaxAsked] /\ \A e \in Docs \ {d} : asked'[e] = asked[e]
  <2>1. asked[d] \in 0..MaxAsked /\ MaxAsked \in Nat
    BY ConnectionAssumption DEF ConnectionInv, Tokens
  <2>2. asked[d] > 0 => asked[d] - 1 \in 0..MaxAsked
    BY <2>1
  <2> QED BY <2>2 DEF Source!Renew, Source!Answer, ConnectionInv, Tokens
<1> QED BY <1>1, <1>2 DEF ConnectionInv, Tokens, TokenStep, TokenOK

LEMMA NoToken ==
  ASSUME ConnectionInv, NEW d \in Docs, UNCHANGED url,
         \/ Source!Refuse(d)
         \/ asked[d] < MaxAsked /\ Source!Ask(d)
         \/ UNCHANGED <<asked, held>>
  PROVE  TokenStep(d)
<1>1. asked[d] \in 0..MaxAsked /\ MaxAsked \in Nat
  BY ConnectionAssumption DEF ConnectionInv, Tokens
<1>2. /\ asked[d] > 0 => asked[d] - 1 \in 0..MaxAsked
      /\ asked[d] < MaxAsked => asked[d] + 1 \in 0..MaxAsked
  BY <1>1
<1> QED BY <1>2 DEF Source!Refuse, Source!Ask, ConnectionInv, DocOK, Tokens, TokenStep, TokenOK

\* bringOnline dials with the token that it has just been given.
LEMMA BringOnlineDials ==
  ASSUME ConnectionInv, NEW d \in Docs, NEW p \in Providers, WsOK(p), BringOnline(d, p)
  PROVE  /\ TokenStep(d)
         /\ \E q \in Providers :
              /\ Becomes(d, q) /\ WsOK(q) /\ (SyncOK(p) => SyncOK(q))
              /\ \A s \in Sockets : p.socket[s] = "none" /\ q.socket[s] = "connecting"
                                      => url'[d] \in {"fresh", "due"} /\ held'[d] = url'[d]
<1>1. CASE IsOnline(p) /\ Becomes(d, p) /\ UNCHANGED <<asked, held, url>>
  BY <1>1, NoToken
<1>2. CASE /\ Room(p) /\ Becomes(d, Connect(ApplyToken(p, held[d] # "fresh"), TRUE))
           /\ Source!Renew(d) /\ PointsTo(d)
  <2> DEFINE a == ApplyToken(p, held[d] # "fresh")
  <2>1. a \in Providers /\ WsOK(a) /\ (SyncOK(p) => SyncOK(a)) /\ Room(a)
    BY <1>2, ApplyTokenKeeps DEF Keeps, Room
  <2> HIDE DEF a
  <2>2. /\ Connect(a, TRUE) \in Providers /\ WsOK(Connect(a, TRUE))
        /\ SyncOK(p) => SyncOK(Connect(a, TRUE))
    BY <2>1, ConnectDials
  <2>3. TokenStep(d) /\ url'[d] = "fresh" /\ held'[d] = "fresh"
    BY <1>2, FreshToken
  <2> QED BY <1>2, <2>2, <2>3 DEF a
<1>3. CASE /\ Becomes(d, p)
           /\ IF asked[d] < MaxAsked THEN Source!Ask(d) ELSE UNCHANGED <<asked, held>>
           /\ UNCHANGED url
  BY <1>3, NoToken
<1> QED BY <1>1, <1>2, <1>3 DEF BringOnline

-----------------------------------------------------------------------------
(* The steps.                                                              *)

LEMMA TokenActions ==
  ASSUME ConnectionInv, NEW d \in Docs,
         TokenSettles(d) \/ TokenRenewed(d) \/ GateFires(d) \/ GateCools(d) \/ Ages(d)
  PROVE  StepOK
<1> DEFINE p == provider[d]
<1>1. p \in Providers /\ WsOK(p) /\ DocOK(d)
  BY DEF ConnectionInv, DocOK
<1>2. CASE TokenArrives(d)
  <2> DEFINE a == ApplyToken(p, TRUE)
  <2>1. a \in Providers /\ WsOK(a) /\ (SyncOK(p) => SyncOK(a)) /\ Room(a)
    BY <1>1, <1>2, ApplyTokenKeeps DEF TokenArrives, Keeps, Room
  <2>2. Becomes(d, Connect(a, TRUE)) /\ Source!Answer(d) /\ PointsTo(d) /\ Others
    BY <1>2 DEF TokenArrives
  <2> HIDE DEF a
  <2>3. /\ Connect(a, TRUE) \in Providers /\ WsOK(Connect(a, TRUE))
        /\ SyncOK(p) => SyncOK(Connect(a, TRUE))
    BY <2>1, ConnectDials
  <2>4. TokenStep(d) /\ url'[d] = "fresh" /\ held'[d] = "fresh" /\ MarkStep(d)
    BY <2>2, FreshToken, Unmarked
  <2>5. d \in wanted' \cup late'
    BY <1>1, <2>2 DEF Source!Answer, DocOK, Others
  <2>6. d \notin dismantled' \cup orphaned' => SyncOK(Connect(a, TRUE))
    BY <1>1, <2>2, <2>3 DEF DocOK, Others
  <2> QED BY <2>2, <2>3, <2>4, <2>5, <2>6, OneDocument
<1>3. CASE TokenRefused(d)
  <2>1. Becomes(d, Schedule(p)) /\ Source!Refuse(d) /\ Others /\ UNCHANGED url
    BY <1>3 DEF TokenRefused, AfterRefusal
  <2>2. Keeps(p, Schedule(p)) /\ TokenStep(d) /\ MarkStep(d)
    BY <1>1, <2>1, ScheduleKeeps, NoToken, Unmarked
  <2>3. d \in wanted' \cup late'
    BY <1>1, <2>1 DEF Source!Refuse, DocOK, Others
  <2>4. d \notin dismantled' \cup orphaned' => SyncOK(Schedule(p))
    BY <1>1, <2>1, <2>2 DEF DocOK, Others, Keeps
  <2> QED BY <1>1, <2>1, <2>2, <2>3, <2>4, OneDocument DEF Keeps
<1>4. CASE TokenRenewed(d)
  <2>1. Becomes(d, ApplyToken(p, TRUE)) /\ Source!Renew(d) /\ PointsTo(d) /\ Others
    BY <1>4 DEF TokenRenewed
  <2>2. Keeps(p, ApplyToken(p, TRUE)) /\ TokenStep(d) /\ MarkStep(d)
    BY <1>1, <2>1, ApplyTokenKeeps, FreshToken, Unmarked
  <2>3. Down(p) => ApplyToken(p, TRUE) = p
    BY DEF Down, ApplyToken, CloseWs
  <2>4. asked' = asked
    BY <2>1 DEF Source!Renew
  <2>5. /\ d \notin wanted' \cup late' => Down(ApplyToken(p, TRUE)) /\ asked'[d] = 0
        /\ d \notin dismantled' \cup orphaned' => SyncOK(ApplyToken(p, TRUE))
    BY <1>1, <2>1, <2>2, <2>3, <2>4 DEF DocOK, Others, Keeps
  <2> QED BY <1>1, <2>1, <2>2, <2>5, OneDocument DEF Keeps
<1>5. CASE GateFires(d)
  <2> DEFINE g == [p EXCEPT !.gate = FALSE, !.recent = TRUE]
  <2>1. /\ g \in Providers /\ g.ws = p.ws /\ g.socket = p.socket
        /\ g.connected = p.connected /\ g.synced = p.synced
    BY <1>1 DEF Providers
  <2>2. BringOnline(d, g) /\ Others /\ p.gate
    BY <1>5 DEF GateFires, MayFire
  <2> HIDE DEF g
  <2>3. Keeps(p, g)
    BY <1>1, <2>1, FlagsKeep
  <2>4. PICK q \in Providers :
          /\ Becomes(d, q) /\ WsOK(q) /\ (SyncOK(g) => SyncOK(q))
          /\ \A s \in Sockets : g.socket[s] = "none" /\ q.socket[s] = "connecting"
                                  => url'[d] \in {"fresh", "due"} /\ held'[d] = url'[d]
    BY <1>1, <2>1, <2>2, <2>3, BringOnlineDials DEF Keeps
  <2>5. TokenStep(d) /\ MarkStep(d)
    BY <1>1, <2>1, <2>2, <2>3, BringOnlineDials, Unmarked DEF Keeps
  <2>6. d \in wanted' \cup late' /\ (d \notin dismantled' \cup orphaned' => SyncOK(q))
    BY <1>1, <2>2, <2>3, <2>4 DEF DocOK, Down, Others, Keeps
  <2> QED BY <2>1, <2>4, <2>5, <2>6, OneDocument
<1>6. CASE GateCools(d)
  <2> DEFINE q == [p EXCEPT !.recent = FALSE]
  <2>1. /\ q \in Providers /\ q.ws = p.ws /\ q.socket = p.socket
        /\ q.connected = p.connected /\ q.synced = p.synced
    BY <1>1 DEF Providers
  <2>2. Down(p) => Down(q)
    BY <1>1 DEF Down, Providers
  <2>3. Becomes(d, q) /\ Others /\ UNCHANGED <<asked, held, url>>
    BY <1>6 DEF GateCools
  <2> HIDE DEF q
  <2>4. Keeps(p, q)
    BY <1>1, <2>1, FlagsKeep
  <2> QED BY <1>1, <2>1, <2>2, <2>3, <2>4, QuietStep DEF Keeps
<1>7. CASE Ages(d)
  <2>1. Becomes(d, p)
    BY <1>7 DEF Ages, Becomes, ConnectionInv
  <2>2. /\ held' = [held EXCEPT ![d] = Source!Older(@)] /\ url' = [url EXCEPT ![d] = Source!Older(@)]
        /\ UNCHANGED asked
    BY <1>7 DEF Ages, Source!Grow
  <2>3. held[d] \in Source!Ages /\ url[d] \in Source!Ages
    BY DEF ConnectionInv, Tokens
  <2>4. \A age \in Source!Ages : Source!Older(age) \in Source!Ages
    BY DEF Source!Ages, Source!Older
  <2>5. Source!Older(held[d]) \in {"fresh", "due"} => held[d] = "fresh"
    BY <2>3 DEF Source!Ages, Source!Older
  <2>6. TokenOK(d)'
    BY <1>1, <2>2, <2>3, <2>5 DEF TokenOK, DocOK, ConnectionInv, Tokens
  <2>7. TokenStep(d)
    BY <2>2, <2>3, <2>4, <2>6 DEF TokenStep, ConnectionInv, Tokens
  <2>8. MarkStep(d) /\ wanted' = wanted /\ late' = late /\ dismantled' = dismantled /\ orphaned' = orphaned
    BY <1>7 DEF Ages, ConnectionInv, MarkStep, Marks
  <2> QED BY <1>1, <2>1, <2>2, <2>7, <2>8, OneDocument DEF DocOK
<1> QED BY <1>2, <1>3, <1>4, <1>5, <1>6, <1>7 DEF TokenSettles

LEMMA SocketActions ==
  ASSUME ConnectionInv, NEW d \in Docs,
         \/ TimerFires(d)
         \/ \E s \in Sockets : Opens(d, s) \/ Syncs(d, s) \/ Closes(d, s) \/ Drops(d, s)
  PROVE  StepOK
<1> DEFINE p == provider[d]
<1>1. p \in Providers /\ WsOK(p) /\ DocOK(d)
  BY DEF ConnectionInv, DocOK
<1>2. CASE TimerFires(d)
  <2> DEFINE t == [p EXCEPT !.timers = @ - 1]
  <2>1. PICK usable \in Usable(d) : Becomes(d, SetupWS(t, usable))
    BY <1>2 DEF TimerFires
  <2>2. /\ t \in Providers /\ t.ws = p.ws /\ t.socket = p.socket /\ t.should = p.should /\ t.gate = p.gate
        /\ t.connected = p.connected /\ t.synced = p.synced
    <3>1. p.timers - 1 \in 0..2
      BY <1>1, <1>2 DEF TimerFires, Providers
    <3> QED BY <1>1, <3>1 DEF Providers
  <2>3. Room(t) /\ Keeps(p, t)
    BY <1>1, <1>2, <2>2, FlagsKeep DEF TimerFires, Room
  <2>4. usable \in BOOLEAN /\ (usable => held[d] \in {"fresh", "due"})
    BY <2>1 DEF Usable
  <2> DEFINE q == SetupWS(t, usable)
  <2> HIDE DEF t
  <2>5. /\ q \in Providers /\ WsOK(q) /\ (SyncOK(p) => SyncOK(q))
        /\ ~usable => Keeps(t, q)
        /\ ~t.should => q = t
    BY <1>1, <2>2, <2>3, <2>4, SetupWSDials DEF Keeps
  <2> HIDE DEF q
  <2>6. UNCHANGED <<asked, held, url>> /\ Others /\ Becomes(d, q)
    BY <1>2, <2>1 DEF TimerFires, q
  <2>7. TokenStep(d) /\ MarkStep(d)
    BY <2>6, NoToken, Unmarked
  <2>8. d \notin wanted' \cup late' => Down(q) /\ asked'[d] = 0
    BY <1>1, <2>2, <2>5, <2>6 DEF DocOK, Down, Others
  <2>9. d \notin dismantled' \cup orphaned' => SyncOK(q)
    BY <1>1, <2>5, <2>6 DEF DocOK, Others
  <2>10. ASSUME NEW s \in Sockets, p.socket[s] = "none", q.socket[s] = "connecting"
         PROVE  url'[d] \in {"fresh", "due"} /\ held'[d] = url'[d]
    <3>1. usable
      BY <2>2, <2>5, <2>10 DEF Keeps
    <3> QED BY <1>1, <2>4, <2>6, <3>1 DEF DocOK, TokenOK
  <2> QED BY <2>5, <2>6, <2>7, <2>8, <2>9, <2>10, OneDocument
<1>3. ASSUME NEW s \in Sockets, Opens(d, s) PROVE StepOK
  <2> DEFINE state == IF p.ws = s THEN "open" ELSE "deaf"
             q == [p EXCEPT !.socket[s] = state, !.connected = TRUE]
  <2>1. p.socket[s] = "connecting" /\ p.socket \in [Sockets -> SocketStates] /\ state \in SocketStates
    BY <1>1, <1>3 DEF Opens, Providers, SocketStates
  <2>2. Becomes(d, q) /\ Others /\ UNCHANGED <<asked, held, url>>
    BY <1>3 DEF Opens
  <2>3. /\ q \in Providers /\ q.ws = p.ws /\ q.should = p.should /\ q.gate = p.gate
        /\ q.synced = p.synced /\ q.socket = [p.socket EXCEPT ![s] = state]
    BY <1>1, <2>1 DEF Providers
  <2>4. q.connected
    BY <1>1 DEF Providers
  <2>5. /\ state \in {"open", "deaf"} /\ (state = "open" => p.ws = s)
    OBVIOUS
  <2> HIDE DEF q, state
  <2>6. WsOK(q)
    BY <1>1, <2>1, <2>3, <2>5 DEF WsOK
  <2>7. SyncOK(p) => SyncOK(q)
    <3> SUFFICES ASSUME SyncOK(p) PROVE SyncOK(q)
      OBVIOUS
    <3>1. OwnsOpen(q)
      BY <1>1, <2>1, <2>3, <2>4, <2>5 DEF SyncOK, OwnsOpen
    <3>2. ASSUME q.synced PROVE IsOnline(q) \/ \E r \in Sockets : q.socket[r] = "closing"
      <4>1. IsOnline(p) \/ \E r \in Sockets : p.socket[r] = "closing"
        BY <2>3, <3>2 DEF SyncOK
      <4>2. IsOnline(p) => IsOnline(q)
        BY <1>1, <2>1, <2>3, <2>5 DEF IsOnline, Providers
      <4>3. \A r \in Sockets : p.socket[r] = "closing" => q.socket[r] = "closing"
        BY <2>1, <2>3
      <4> QED BY <4>1, <4>2, <4>3
    <3> QED BY <3>1, <3>2 DEF SyncOK
  <2>8. \A r \in Sockets : p.socket[r] = "none" => q.socket[r] # "connecting"
    BY <2>1, <2>3, <2>5
  <2>9. Down(p) => Down(q)
    BY <2>3 DEF Down
  <2> QED BY <2>2, <2>3, <2>6, <2>7, <2>8, <2>9, QuietStep
<1>4. ASSUME NEW s \in Sockets, Syncs(d, s) PROVE StepOK
  <2> DEFINE q == [p EXCEPT !.synced = TRUE]
  <2>1. /\ q \in Providers /\ q.ws = p.ws /\ q.should = p.should /\ q.gate = p.gate
        /\ q.connected = p.connected /\ q.socket = p.socket
    BY <1>1 DEF Providers
  <2>2. Becomes(d, q) /\ Others /\ UNCHANGED <<asked, held, url>> /\ p.socket[s] = "open"
    BY <1>4 DEF Syncs
  <2> HIDE DEF q
  <2>3. SyncOK(p) => SyncOK(q)
    BY <2>1, <2>2, NoneIsNoSocket DEF SyncOK, OwnsOpen, IsOnline
  <2> QED BY <1>1, <2>1, <2>2, <2>3, QuietStep DEF Down, WsOK
<1>5. ASSUME NEW s \in Sockets, NEW error \in BOOLEAN, Ends(d, s, error) PROVE StepOK
  <2> DEFINE e == [p EXCEPT !.socket[s] = "none"]
             o == IF error THEN OnError(e) ELSE e
  <2>1. PICK usable \in Usable(d) :
          LET q == IF d \in dismantled THEN e ELSE RefreshStale(o, usable)
          IN  /\ Becomes(d, OnClose(q))
              /\ orphaned' = IF q.ws \in {None, s} THEN orphaned ELSE orphaned \cup {d}
    BY <1>5 DEF Ends
  <2> DEFINE q == IF d \in dismantled THEN e ELSE RefreshStale(o, usable)
  <2>2. /\ e \in Providers /\ e.ws = p.ws /\ e.should = p.should /\ e.gate = p.gate
        /\ e.connected = p.connected /\ e.synced = p.synced /\ e.socket = [p.socket EXCEPT ![s] = "none"]
    BY <1>1 DEF Providers, SocketStates
  <2>3. OwnsOpen(p) => OwnsOpen(e)
    BY <1>1, <2>2 DEF OwnsOpen, Providers
  <2> HIDE DEF e
  <2>4. Keeps(e, o) /\ o.ws \in {e.ws, None} /\ (Down(e) => Down(o))
    BY <2>2, OnErrorKeeps, GoOfflineKeeps, FlagsKeep DEF Down
  <2> HIDE DEF o
  <2>5. o \in Providers
    BY <2>4 DEF Keeps
  <2>6. Keeps(o, RefreshStale(o, usable)) /\ (Down(o) => RefreshStale(o, usable) = o)
        /\ RefreshStale(o, usable).ws \in {o.ws, None}
    BY <2>5, RefreshStaleKeeps DEF Down
  <2>7. Keeps(e, RefreshStale(o, usable))
    BY <2>2, <2>4, <2>5, <2>6, KeepsTwice
  <2>8. Keeps(e, q) /\ q.ws \in {e.ws, None} /\ (Down(e) => Down(q)) /\ q \in Providers
    BY <2>2, <2>4, <2>6, <2>7, FlagsKeep DEF Keeps
  <2>9. Becomes(d, OnClose(q)) /\ orphaned' = IF q.ws \in {None, s} THEN orphaned ELSE orphaned \cup {d}
    BY <2>1
  <2> HIDE DEF q
  <2>10. /\ OnClose(q) \in Providers /\ WsOK(OnClose(q)) /\ OnClose(q).ws = None
         /\ OnClose(q).socket = q.socket /\ (Down(q) => Down(OnClose(q)))
         /\ OwnsOpen(q) /\ (q.ws # None => q.socket[q.ws] # "open") => SyncOK(OnClose(q))
    BY <2>8, OnCloseKeeps DEF Down
  <2>11. UNCHANGED <<asked, held, url, dismantled, wanted, late>>
    BY <1>5 DEF Ends
  <2>12. TokenStep(d)
    BY <2>11, NoToken
  <2>13. MarkStep(d)
    BY <2>9, <2>11 DEF ConnectionInv, MarkStep, Marks
  <2>14. d \notin wanted' \cup late' => Down(OnClose(q)) /\ asked'[d] = 0
    BY <1>1, <2>2, <2>8, <2>10, <2>11 DEF DocOK, Down
  <2>15. d \notin dismantled' \cup orphaned' => SyncOK(OnClose(q))
    <3> SUFFICES ASSUME d \notin dismantled' \cup orphaned' PROVE SyncOK(OnClose(q))
      OBVIOUS
    <3>1. q.ws \in {None, s} /\ SyncOK(p)
      BY <1>1, <2>9, <2>11 DEF DocOK
    <3>2. OwnsOpen(q)
      BY <2>3, <2>8, <3>1 DEF SyncOK, Keeps
    <3>3. q.socket[s] = "none"
      BY <1>1, <2>2, <2>8 DEF Keeps, Providers
    <3> QED BY <2>10, <3>1, <3>2, <3>3
  <2>16. \A r \in Sockets : p.socket[r] = "none" => OnClose(q).socket[r] # "connecting"
    BY <1>1, <2>2, <2>8, <2>10 DEF Keeps, Providers
  <2> QED BY <2>9, <2>10, <2>12, <2>13, <2>14, <2>15, <2>16, OneDocument
<1> QED BY <1>2, <1>3, <1>4, <1>5 DEF Closes, Drops

LEMMA UserActions ==
  ASSUME ConnectionInv, NEW d \in Docs, Wants(d) \/ LetGo(d) \/ Dismantle(d) \/ ResetConnection(d)
  PROVE  StepOK
<1> DEFINE p == provider[d]
           g == GoOffline(p)
<1>1. p \in Providers /\ WsOK(p) /\ DocOK(d) /\ asked[d] \in 0..MaxAsked
  BY DEF ConnectionInv, DocOK, Tokens
<1>2. Keeps(p, g) /\ g.ws = None /\ ~g.should /\ g.gate = p.gate
  BY <1>1, GoOfflineKeeps
<1>3. /\ g \in Providers /\ WsOK(g) /\ (SyncOK(p) => SyncOK(g))
      /\ ~p.gate => Down(g)
      /\ \A s \in Sockets : p.socket[s] = "none" => g.socket[s] # "connecting"
  BY <1>1, <1>2 DEF Keeps, Down
<1>4. asked[d] > 0 \/ asked[d] = 0
  BY <1>1, ConnectionAssumption
<1> HIDE DEF g
<1>5. CASE Wants(d)
  <2>1. BringOnline(d, p) /\ wanted' = wanted \cup {d} /\ late' = late \ {d}
        /\ UNCHANGED <<dismantled, orphaned>>
    BY <1>5 DEF Wants
  <2>2. PICK q \in Providers :
          /\ Becomes(d, q) /\ WsOK(q) /\ (SyncOK(p) => SyncOK(q))
          /\ \A s \in Sockets : p.socket[s] = "none" /\ q.socket[s] = "connecting"
                                  => url'[d] \in {"fresh", "due"} /\ held'[d] = url'[d]
    BY <1>1, <2>1, BringOnlineDials
  <2>3. TokenStep(d)
    BY <1>1, <2>1, BringOnlineDials
  <2>4. MarkStep(d) /\ d \in wanted' \cup late'
    BY <2>1 DEF ConnectionInv, MarkStep, Marks
  <2>5. d \notin dismantled' \cup orphaned' => SyncOK(q)
    BY <1>1, <2>1, <2>2 DEF DocOK
  <2> QED BY <2>2, <2>3, <2>4, <2>5, OneDocument
<1>6. CASE LetGo(d)
  <2>1. /\ Becomes(d, g) /\ wanted' = wanted \ {d} /\ UNCHANGED <<asked, held, url, dismantled, orphaned>>
        /\ late' = IF p.gate \/ asked[d] > 0 THEN late \cup {d} ELSE late
    BY <1>6 DEF LetGo, g
  <2>2. TokenStep(d)
    BY <2>1, NoToken
  <2>3. MarkStep(d)
    BY <2>1 DEF ConnectionInv, MarkStep, Marks
  <2>4. d \notin wanted' \cup late' => Down(g) /\ asked'[d] = 0
    BY <1>3, <1>4, <2>1
  <2>5. d \notin dismantled' \cup orphaned' => SyncOK(g)
    BY <1>1, <1>3, <2>1 DEF DocOK
  <2> QED BY <1>3, <2>1, <2>2, <2>3, <2>4, <2>5, OneDocument
<1>7. CASE Dismantle(d)
  <2> DEFINE c == IF p.ws = None THEN p ELSE [p EXCEPT !.socket[p.ws] = "none"]
             h == GoOffline(c)
             q == Cancelled(h)
  <2>1. c \in Providers /\ (\A s \in Sockets : p.socket[s] = "none" => c.socket[s] = "none")
    BY <1>1 DEF Providers, SocketStates
  <2>2. /\ Becomes(d, q) /\ dismantled' = dismantled \cup {d} /\ wanted' = wanted \ {d}
        /\ late' = IF asked[d] > 0 THEN late \cup {d} ELSE late
        /\ UNCHANGED <<asked, held, url, orphaned>>
    BY <1>7 DEF Dismantle
  <2> HIDE DEF c
  <2>3. Keeps(c, h) /\ h.ws = None /\ ~h.should /\ h \in Providers
    BY <2>1, GoOfflineKeeps DEF Keeps
  <2> HIDE DEF h
  <2>4. /\ q \in Providers /\ q.ws = None /\ q.socket = h.socket
    BY <2>3 DEF Cancelled, Providers
  <2>5. ~q.gate /\ ~q.should
    BY <2>3 DEF Cancelled, Providers
  <2> HIDE DEF q
  <2>6. WsOK(q) /\ Down(q)
    BY <2>4, <2>5 DEF WsOK, Down
  <2>7. \A s \in Sockets : p.socket[s] = "none" => q.socket[s] # "connecting"
    BY <2>1, <2>3, <2>4 DEF Keeps
  <2>8. TokenStep(d)
    BY <2>2, NoToken
  <2>9. MarkStep(d)
    BY <2>2 DEF ConnectionInv, MarkStep, Marks
  <2>10. d \notin wanted' \cup late' => asked'[d] = 0
    BY <1>4, <2>2
  <2> QED BY <2>2, <2>4, <2>6, <2>7, <2>8, <2>9, <2>10, OneDocument
<1>8. CASE ResetConnection(d)
  <2>1. /\ Becomes(d, g) /\ held' = [held EXCEPT ![d] = "none"]
        /\ UNCHANGED <<url, dismantled, orphaned>> /\ asked[d] < MaxAsked
        /\ \/ /\ IsOnline(p) /\ asked' = [asked EXCEPT ![d] = @ + 1]
              /\ UNCHANGED <<wanted, late>>
           \/ /\ wanted' = wanted \ {d} /\ UNCHANGED asked
              /\ late' = IF p.gate \/ asked[d] > 0 THEN late \cup {d} ELSE late
    BY <1>8 DEF ResetConnection, g
  <2>2. TokenStep(d)
    <3>1. asked[d] + 1 \in 0..MaxAsked
      BY <1>1, <2>1, ConnectionAssumption
    <3> QED BY <2>1, <3>1 DEF ConnectionInv, Tokens, TokenStep, TokenOK, Source!Ages
  <2>3. MarkStep(d)
    BY <2>1 DEF ConnectionInv, MarkStep, Marks
  <2>4. IsOnline(p) => d \in wanted \cup late
    BY <1>1 DEF DocOK, Down, IsOnline
  <2>5. d \notin wanted' \cup late' => Down(g) /\ asked'[d] = 0
    BY <1>3, <1>4, <2>1, <2>4
  <2>6. d \notin dismantled' \cup orphaned' => SyncOK(g)
    BY <1>1, <1>3, <2>1 DEF DocOK
  <2> QED BY <1>3, <2>1, <2>2, <2>3, <2>5, <2>6, OneDocument
<1> QED BY <1>5, <1>6, <1>7, <1>8

LEMMA ConnectionStep == ConnectionInv /\ [Next]_vars => StepOK
<1> SUFFICES ASSUME ConnectionInv, [Next]_vars PROVE StepOK
  OBVIOUS
<1>1. CASE Next
  BY <1>1, TokenActions, SocketActions, UserActions DEF Next
<1>2. CASE UNCHANGED vars
  BY <1>2 DEF vars, StepOK, ConnectionInv, Tokens, Marks, DocOK, TokenOK, DialledWell
<1> QED BY <1>1, <1>2

LEMMA ConnectionAlways == Spec => []ConnectionInv
<1>1. ConnectionInv /\ [Next]_vars => ConnectionInv'
  BY ConnectionStep DEF StepOK
<1> QED BY <1>1, ConnectionInit, PTL DEF Spec

-----------------------------------------------------------------------------
\* The providers' fields are of their kinds, and their ws is not yet closed.
THEOREM TypesHold == Spec => []TypeOK
<1>1. ConnectionInv => TypeOK
  <2> SUFFICES ASSUME ConnectionInv PROVE TypeOK
    OBVIOUS
  <2>1. ASSUME NEW d \in Docs
        PROVE  LET p == provider[d] IN
                 /\ p.ws \in Sockets \cup {None} /\ p.ws # None => p.socket[p.ws] # "none"
                 /\ p.socket \in [Sockets -> SocketStates] /\ p.timers \in 0..2
                 /\ {p.should, p.connected, p.synced, p.gate, p.recent} \subseteq BOOLEAN
    BY DEF ConnectionInv, DocOK, WsOK, Providers
  <2> QED BY <2>1 DEF ConnectionInv, Tokens, Marks, TypeOK
<1> QED BY <1>1, ConnectionAlways, PTL

\* What was let go stays down: without an open request and with the gate closed
\* nothing is left that could make the provider want a socket again.
THEOREM LetGoIsDown == Spec => []LetGoStaysDown
<1>1. ConnectionInv => LetGoStaysDown
  BY DEF ConnectionInv, DocOK, Down, LetGoStaysDown
<1> QED BY <1>1, ConnectionAlways, PTL

\* What a provider calls synced is the state of its open socket, or of one whose
\* close event has not come yet.
THEOREM SyncedIsTrue == Spec => []SyncedUntilClosed
<1>1. ConnectionInv => SyncedUntilClosed
  BY DEF ConnectionInv, DocOK, SyncOK, SyncedUntilClosed
<1> QED BY <1>1, ConnectionAlways, PTL

\* Every socket is dialled with a token that is still good.
THEOREM DialsAreGood == Spec => DialsWithGoodToken
<1>1. ConnectionInv /\ [Next]_vars =>
        \A d \in Docs, s \in Sockets :
          provider[d].socket[s] = "none" /\ provider'[d].socket[s] = "connecting"
            => url'[d] \in {"fresh", "due"} /\ held'[d] = url'[d]
  BY ConnectionStep DEF StepOK, DialledWell
<1> QED BY <1>1, ConnectionAlways, PTL DEF Spec, DialsWithGoodToken

-----------------------------------------------------------------------------
(***************************************************************************)
(* The token cache, for every set of documents and every bound: the types, *)
(* that a subscriber is in step with the cache, that a document in use     *)
(* stays in the sweep's sight, and that every step of the cache is a step  *)
(* of TokenSource, from which the connections above get their tokens.      *)
(***************************************************************************)

\* A document whose request is shared, subscribed or not, is in the sweep's
\* sight as well: Join subscribes it without looking for an entry.
SharedInSight == \A d \in (subscribed \cup shared) \ waived : token[d] # "absent"

CacheInv == CacheTypeOK /\ SubscriberInStep /\ SharedInSight

-----------------------------------------------------------------------------
(* What the parts of an answer do.                                         *)

Entries == [Documents -> {"absent", "empty", "fresh", "due", "expired"}]

\* A token that arrives makes the entry fresh or finds none; nothing else changes.
LEMMA RefreshedEffect ==
  ASSUME CacheTypeOK, NEW d \in Documents, Refreshed(d)
  PROVE  /\ token' \in Entries
         /\ \A e \in Documents : token'[e] = IF e = d /\ token[e] # "absent" THEN "fresh" ELSE token[e]
BY DEF Refreshed, CacheTypeOK, Entries

\* A failure never makes an entry fresh, and one that loses it waives the document.
LEMMA FailedEffect ==
  ASSUME CacheTypeOK, NEW d \in Documents, Failed(d), Waives(d)
  PROVE  /\ token' \in Entries /\ attempts' \in [Documents -> 0..MaxAttempts]
         /\ waived' \in SUBSET Documents /\ waived \subseteq waived'
         /\ \A e \in Documents : token'[e] = "fresh" => token[e] = "fresh"
         /\ \A e \in Documents : token'[e] = "absent" /\ e \notin waived' => token[e] = "absent" /\ e # d
<1>1. MaxAttempts \in Nat /\ attempts[d] \in 0..MaxAttempts
  BY CredentialsAssumption DEF CacheTypeOK
<1>2. CASE Exhausted(d)
  BY <1>1, <1>2 DEF Exhausted, Failed, Waives, CacheTypeOK, Entries
<1>3. CASE ~Exhausted(d)
  <2>1. attempts[d] + 1 \in 0..MaxAttempts
    BY <1>1, <1>3 DEF Exhausted
  <2> QED BY <1>1, <1>3, <2>1 DEF Exhausted, Failed, Waives, CacheTypeOK, Entries
<1> QED BY <1>2, <1>3

\* A renewal that ends gives its connection back or on.
LEMMA AdvanceEffect ==
  ASSUME CacheTypeOK, NEW d \in Documents, renewing[d] > 0, Advance(d)
  PROVE  /\ pendingQueue' \in SUBSET Documents /\ liveConnections' \in Int
         /\ renewing' \in [Documents -> Nat]
<1>1. renewing[d] - 1 \in Nat
  BY DEF CacheTypeOK
<1>2. [renewing EXCEPT ![d] = @ - 1] \in [Documents -> Nat]
  BY <1>1 DEF CacheTypeOK
<1> DEFINE ended == [renewing EXCEPT ![d] = @ - 1]
<1>3. CASE pendingQueue = {}
  BY <1>2, <1>3 DEF Advance, CacheTypeOK
<1>4. CASE pendingQueue # {}
  <2>1. PICK next \in pendingQueue :
          /\ pendingQueue' = pendingQueue \ {next}
          /\ renewing' = [ended EXCEPT ![next] = @ + 1]
          /\ UNCHANGED liveConnections
    BY <1>4 DEF Advance
  <2>2. next \in Documents /\ ended[next] + 1 \in Nat
    BY <1>2, <2>1 DEF CacheTypeOK
  <2> QED BY <1>2, <2>1, <2>2 DEF CacheTypeOK
<1> QED BY <1>3, <1>4

\* The document's fetch settles, and its promise is shared no longer.
LEMMA SettlesEffect ==
  ASSUME CacheTypeOK, NEW d \in Documents, fetching[d] > 0, Settles(d)
  PROVE  /\ fetching' \in [Documents -> Nat] /\ shared' = shared \ {d}
         /\ \A e \in shared' : fetching'[e] > 0
BY DEF Settles, CacheTypeOK

\* The sweep prunes what it waives, and renews at most what is due.
LEMMA SweepEffect ==
  ASSUME CacheTypeOK, SweepExpiringTokens
  PROVE  /\ token' \in Entries /\ attempts' \in [Documents -> 0..MaxAttempts]
         /\ renewing' \in [Documents -> Nat] /\ liveConnections' \in Int
         /\ pendingQueue' \in SUBSET Documents /\ waived' \in SUBSET Documents
         /\ UNCHANGED <<subscribed, shared, fetching, given>>
         /\ \A e \in Documents : token'[e] = "fresh" => token[e] = "fresh"
         /\ \A e \in Documents : token'[e] = "absent" /\ e \notin waived' => token[e] = "absent" /\ e \notin waived
<1> DEFINE due == {d \in subscribed \ Pruned : Due(d)}
<1>1. PICK run \in Dispatched(due) :
        /\ renewing' = [d \in Documents |-> renewing[d] + IF d \in run THEN 1 ELSE 0]
        /\ liveConnections' = liveConnections + Cardinality(run)
        /\ pendingQueue' = pendingQueue \cup (due \ run)
  BY DEF SweepExpiringTokens
<1>2. run \subseteq Documents /\ due \subseteq Documents
  BY <1>1 DEF Dispatched, CacheTypeOK
<1>3. Cardinality(run) \in Nat
  BY <1>2, CredentialsAssumption, FS_Subset, FS_CardinalityType
<1>4. renewing' \in [Documents -> Nat] /\ liveConnections' \in Int /\ pendingQueue' \in SUBSET Documents
  BY <1>1, <1>2, <1>3 DEF CacheTypeOK
<1>5. MaxAttempts \in Nat
  BY CredentialsAssumption
<1>6. token' \in Entries /\ attempts' \in [Documents -> 0..MaxAttempts] /\ waived' \in SUBSET Documents
  BY <1>5 DEF SweepExpiringTokens, CacheTypeOK, Entries
<1>7. UNCHANGED <<subscribed, shared, fetching, given>>
  BY DEF SweepExpiringTokens
<1>8. \A e \in Documents : token'[e] = "fresh" => token[e] = "fresh"
  BY DEF SweepExpiringTokens, CacheTypeOK
<1>9. ASSUME NEW e \in Documents, token'[e] = "absent", e \notin waived'
      PROVE  token[e] = "absent" /\ e \notin waived
  BY <1>9 DEF SweepExpiringTokens, Pruned, Valid, CacheTypeOK
<1> QED BY <1>4, <1>6, <1>7, <1>8, <1>9

-----------------------------------------------------------------------------
(* The invariant.                                                          *)

\* CacheTypeOK, one conjunct to a variable.
LEMMA TypeOKUnfolded ==
  ASSUME token \in Entries, attempts \in [Documents -> 0..MaxAttempts],
         subscribed \subseteq Documents, shared \subseteq Documents, pendingQueue \subseteq Documents,
         waived \subseteq Documents, liveConnections \in Int, sweeping \in BOOLEAN,
         renewing \in [Documents -> Nat], fetching \in [Documents -> Nat],
         given \in [Documents -> Promised!Ages], \A d \in shared : fetching[d] > 0
  PROVE  CacheTypeOK
BY DEF CacheTypeOK, Entries

LEMMA InitInv == CacheInit => CacheInv
<1> SUFFICES ASSUME CacheInit PROVE CacheInv
  OBVIOUS
<1>1. MaxAttempts \in Nat
  BY CredentialsAssumption
<1>2. /\ token \in Entries /\ attempts \in [Documents -> 0..MaxAttempts]
      /\ renewing \in [Documents -> Nat] /\ fetching \in [Documents -> Nat]
      /\ given \in [Documents -> Promised!Ages]
  BY <1>1 DEF CacheInit, Entries, Promised!Ages
<1>3. /\ subscribed \subseteq Documents /\ shared = {} /\ pendingQueue \subseteq Documents
      /\ waived \subseteq Documents /\ sweeping \in BOOLEAN
  BY Zenon DEF CacheInit
<1>4. liveConnections \in Int
  BY DEF CacheInit
<1>5. CacheTypeOK
  BY <1>2, <1>3, <1>4, TypeOKUnfolded
<1> QED BY <1>5 DEF CacheInit, CacheInv, SubscriberInStep, SharedInSight

\* Steps of the documents, and of the answers to them.
LEMMA DocumentStep ==
  ASSUME CacheInv, NEW d \in Documents,
         Serve(d) \/ Join(d) \/ Fetch(d) \/ FetchRetries(d) \/ DropFromQueue(d)
  PROVE  CacheInv'
<1> USE DEF CacheInv
<1>1. CASE Serve(d)
  BY <1>1 DEF Serve, Serves, ServedFromCache, CacheTypeOK, SubscriberInStep, SharedInSight,
              entries, queue, Promised!Ages
<1>2. CASE Join(d)
  BY <1>2 DEF Join, ServedFromCache, CacheTypeOK, SubscriberInStep, SharedInSight, entries, queue
<1>3. CASE Fetch(d)
  BY <1>3 DEF Fetch, ServedFromCache, CacheTypeOK, SubscriberInStep, SharedInSight, queue
<1>4. CASE FetchRetries(d)
  BY <1>4 DEF FetchRetries, CacheTypeOK, SubscriberInStep, SharedInSight, entries
<1>5. CASE DropFromQueue(d)
  BY <1>5 DEF DropFromQueue, CacheTypeOK, SubscriberInStep, SharedInSight, entries
<1> QED BY <1>1, <1>2, <1>3, <1>4, <1>5

LEMMA FetchStep ==
  ASSUME CacheInv, NEW d \in Documents, FetchAnswers(d) \/ FetchFails(d)
  PROVE  CacheInv'
<1> USE DEF CacheInv
<1>1. fetching[d] > 0 /\ Settles(d)
  BY DEF FetchAnswers, FetchFails
<1>2. /\ fetching' \in [Documents -> Nat] /\ shared' = shared \ {d}
      /\ \A e \in shared' : fetching'[e] > 0
  BY <1>1, SettlesEffect
<1>3. CASE FetchAnswers(d)
  <2>1. /\ token' \in Entries
        /\ \A e \in Documents : token'[e] = IF e = d /\ token[e] # "absent" THEN "fresh" ELSE token[e]
    BY <1>3, RefreshedEffect DEF FetchAnswers
  <2>2. /\ given' = [given EXCEPT ![d] = "fresh"]
        /\ UNCHANGED <<attempts, subscribed, queue, sweeping, waived>>
    BY <1>3 DEF FetchAnswers
  <2> QED BY <1>2, <2>1, <2>2
          DEF CacheTypeOK, SubscriberInStep, SharedInSight, Entries, queue, Promised!Ages
<1>4. CASE FetchFails(d)
  <2>1. /\ token' \in Entries /\ attempts' \in [Documents -> 0..MaxAttempts]
        /\ waived' \in SUBSET Documents /\ waived \subseteq waived'
        /\ \A e \in Documents : token'[e] = "fresh" => token[e] = "fresh"
        /\ \A e \in Documents : token'[e] = "absent" /\ e \notin waived' => token[e] = "absent" /\ e # d
    BY <1>4, FailedEffect DEF FetchFails
  <2>2. /\ pendingQueue' = pendingQueue \ {d}
        /\ UNCHANGED <<subscribed, liveConnections, renewing, sweeping, given>>
    BY <1>4 DEF FetchFails
  <2> QED BY <1>2, <2>1, <2>2 DEF CacheTypeOK, SubscriberInStep, SharedInSight, Entries
<1> QED BY <1>3, <1>4

LEMMA RenewalStep ==
  ASSUME CacheInv, NEW d \in Documents, RenewalAnswers(d) \/ RenewalFails(d)
  PROVE  CacheInv'
<1> USE DEF CacheInv
<1>1. renewing[d] > 0 /\ Advance(d)
  BY DEF RenewalAnswers, RenewalFails
<1>2. /\ pendingQueue' \in SUBSET Documents /\ liveConnections' \in Int
      /\ renewing' \in [Documents -> Nat]
  BY <1>1, AdvanceEffect
<1>3. CASE RenewalAnswers(d)
  <2>1. /\ token' \in Entries
        /\ \A e \in Documents : token'[e] = IF e = d /\ token[e] # "absent" THEN "fresh" ELSE token[e]
    BY <1>3, RefreshedEffect DEF RenewalAnswers
  <2>2. /\ given' = IF token[d] # "absent" /\ d \in subscribed THEN [given EXCEPT ![d] = "fresh"] ELSE given
        /\ UNCHANGED <<attempts, subscribed, shared, fetching, sweeping, waived>>
    BY <1>3 DEF RenewalAnswers, Told
  <2> QED BY <1>2, <2>1, <2>2
          DEF CacheTypeOK, SubscriberInStep, SharedInSight, Entries, Promised!Ages
<1>4. CASE RenewalFails(d)
  <2>1. /\ token' \in Entries /\ attempts' \in [Documents -> 0..MaxAttempts]
        /\ waived' \in SUBSET Documents /\ waived \subseteq waived'
        /\ \A e \in Documents : token'[e] = "fresh" => token[e] = "fresh"
        /\ \A e \in Documents : token'[e] = "absent" /\ e \notin waived' => token[e] = "absent" /\ e # d
    BY <1>4, FailedEffect DEF RenewalFails
  <2>2. UNCHANGED <<subscribed, shared, fetching, sweeping, given>>
    BY <1>4 DEF RenewalFails
  <2> QED BY <1>2, <2>1, <2>2 DEF CacheTypeOK, SubscriberInStep, SharedInSight, Entries
<1> QED BY <1>3, <1>4

LEMMA SweepStep ==
  ASSUME CacheInv, SweepExpiringTokens, sweeping' \in BOOLEAN
  PROVE  CacheInv'
<1> USE DEF CacheInv
<1>1. /\ token' \in Entries /\ attempts' \in [Documents -> 0..MaxAttempts]
      /\ renewing' \in [Documents -> Nat] /\ liveConnections' \in Int
      /\ pendingQueue' \in SUBSET Documents /\ waived' \in SUBSET Documents
      /\ UNCHANGED <<subscribed, shared, fetching, given>>
      /\ \A e \in Documents : token'[e] = "fresh" => token[e] = "fresh"
      /\ \A e \in Documents : token'[e] = "absent" /\ e \notin waived' => token[e] = "absent" /\ e \notin waived
  BY SweepEffect
<1> QED BY <1>1 DEF CacheTypeOK, SubscriberInStep, SharedInSight, Entries

LEMMA ClearStep ==
  ASSUME CacheInv, NEW gone \in SUBSET Documents, Clear(gone), pendingQueue' \in SUBSET Documents
  PROVE  CacheInv'
<1>1. MaxAttempts \in Nat
  BY CredentialsAssumption
<1> QED BY <1>1 DEF CacheInv, Clear, CacheTypeOK, SubscriberInStep, SharedInSight

LEMMA AgesStep ==
  ASSUME CacheInv, NEW d \in Documents, TokensAge(d)
  PROVE  CacheInv'
<1> DEFINE old == [token EXCEPT ![d] = Promised!Older(@)]
           oldHeld == [given EXCEPT ![d] = Promised!Older(@)]
<1>1. /\ \/ token' = old /\ given' = oldHeld
         \/ token[d] # given[d] /\ token' = old /\ given' = given
         \/ token[d] # given[d] /\ token' = token /\ given' = oldHeld
      /\ UNCHANGED <<attempts, subscribed, shared, queue, fetching, sweeping, waived>>
  BY DEF TokensAge
<1>2. /\ \A age \in {"absent", "empty", "fresh", "due", "expired"} :
           /\ Promised!Older(age) \in {"absent", "empty", "due", "expired"}
           /\ Promised!Older(age) = "absent" => age = "absent"
      /\ \A age \in Promised!Ages : Promised!Older(age) \in Promised!Ages
  BY DEF Promised!Older, Promised!Ages
<1>3. old \in Entries /\ oldHeld \in [Documents -> Promised!Ages]
  BY <1>2 DEF CacheInv, CacheTypeOK, Entries
<1>4. CacheTypeOK'
  BY <1>1, <1>3 DEF CacheInv, CacheTypeOK, Entries, queue
<1>5. SubscriberInStep'
  BY <1>1, <1>2, <1>3 DEF CacheInv, CacheTypeOK, SubscriberInStep, Entries
<1>6. SharedInSight'
  BY <1>1, <1>2 DEF CacheInv, CacheTypeOK, SharedInSight
<1> QED BY <1>4, <1>5, <1>6 DEF CacheInv

LEMMA NextStep == CacheInv /\ [CacheNext]_cacheVars => CacheInv'
<1> SUFFICES ASSUME CacheInv, [CacheNext]_cacheVars PROVE CacheInv'
  OBVIOUS
<1>1. ASSUME NEW d \in Documents,
             \/ Serve(d) \/ Join(d) \/ Fetch(d) \/ FetchRetries(d) \/ DropFromQueue(d)
             \/ FetchAnswers(d) \/ FetchFails(d) \/ RenewalAnswers(d) \/ RenewalFails(d)
      PROVE  CacheInv'
  BY <1>1, DocumentStep, FetchStep, RenewalStep
<1>2. ASSUME NEW d \in Documents, FolderMoves(d) PROVE CacheInv'
  <2>1. Clear({d}) /\ pendingQueue' \in SUBSET Documents
    BY <1>2 DEF FolderMoves, CacheInv, CacheTypeOK
  <2> QED BY <2>1, ClearStep
<1>3. ASSUME NEW d \in Documents, TokensAge(d) PROVE CacheInv'
  BY <1>3, AgesStep
<1>4. CASE Sweep \/ StartSweeping
  BY <1>4, SweepStep DEF Sweep, StartSweeping, CacheInv, CacheTypeOK
<1>5. CASE StopSweeping
  BY <1>5 DEF StopSweeping, CacheInv, CacheTypeOK, SubscriberInStep, SharedInSight, entries, queue
<1>6. CASE SignOut
  <2>1. {d \in Documents : token[d] # "absent"} \in SUBSET Documents
    OBVIOUS
  <2> QED BY <1>6, <2>1, ClearStep DEF SignOut
<1>7. CASE Restart
  <2>1. /\ UNCHANGED <<token, attempts>>
        /\ given' = [d \in Documents |-> IF HasToken(d) THEN token[d] ELSE "none"]
        /\ subscribed' = {} /\ shared' = {} /\ pendingQueue' = {} /\ liveConnections' = 0
        /\ renewing' = [d \in Documents |-> 0] /\ fetching' = [d \in Documents |-> 0]
        /\ sweeping' = FALSE /\ waived' = {}
    BY <1>7 DEF Restart, entries
  <2>2. given' \in [Documents -> Promised!Ages]
    BY <2>1 DEF HasToken, Promised!Ages
  <2>3. token' \in Entries /\ attempts' \in [Documents -> 0..MaxAttempts]
    BY <2>1 DEF CacheInv, CacheTypeOK, Entries
  <2>4. renewing' \in [Documents -> Nat] /\ fetching' \in [Documents -> Nat] /\ liveConnections' \in Int
    BY <2>1
  <2>5. CacheTypeOK'
    BY <2>1, <2>2, <2>3, <2>4 DEF CacheTypeOK, Entries
  <2> QED BY <2>1, <2>5 DEF CacheInv, SubscriberInStep, SharedInSight
<1>8. CASE UNCHANGED cacheVars
  BY <1>8 DEF cacheVars, CacheInv, CacheTypeOK, SubscriberInStep, SharedInSight, entries, queue
<1> QED BY <1>1, <1>2, <1>3, <1>4, <1>5, <1>6, <1>7, <1>8 DEF CacheNext

LEMMA CacheInvHolds == CacheSpec => []CacheInv
BY InitInv, NextStep, PTL DEF CacheSpec

\* The cache keeps its types, and only fetches that run are shared, for every
\* set of documents and every bound (CredentialCache.ts).
THEOREM CacheTypesHold == CacheSpec => []CacheTypeOK
<1>1. CacheInv => CacheTypeOK
  BY DEF CacheInv
<1> QED BY <1>1, CacheInvHolds, PTL

\* No answer, of a request or of a renewal, is kept from the document that uses
\* the token: RelayCredentialCache's subscribers have what the cache has.
THEOREM SubscribersInStep == CacheSpec => []SubscriberInStep
<1>1. CacheInv => SubscriberInStep
  BY DEF CacheInv
<1> QED BY <1>1, CacheInvHolds, PTL

\* A document in use keeps an entry for sweepExpiringTokens to find.
THEOREM SweepSeesAll == CacheSpec => []StaysInTheSweep
<1>1. CacheInv => StaysInTheSweep
  BY DEF CacheInv, SharedInSight, StaysInTheSweep
<1> QED BY <1>1, CacheInvHolds, PTL

-----------------------------------------------------------------------------
(* The queue of renewals.                                                  *)

QueueInv == IsFiniteSet(Renewals) /\ QueueMoves

LEMMA RenewalsAre ==
  ASSUME NEW x
  PROVE  x \in Renewals <=> \E d \in Documents : \E n \in 1..renewing[d] : x = <<d, n>>
BY DEF Renewals

LEMMA RenewalsNext ==
  ASSUME NEW x
  PROVE  x \in Renewals' <=> \E d \in Documents : \E n \in 1..renewing'[d] : x = <<d, n>>
BY DEF Renewals

LEMMA MinFact ==
  ASSUME NEW a \in Int, NEW b \in Int
  PROVE  Min({a, b}) \in {a, b} /\ Min({a, b}) <= a /\ Min({a, b}) <= b
<1>1. \E x \in {a, b} : \A y \in {a, b} : x =< y
  OBVIOUS
<1>2. Min({a, b}) \in {a, b} /\ \A y \in {a, b} : Min({a, b}) =< y
  BY <1>1, Zenon DEF Min
<1> QED BY <1>2

LEMMA MaxFact ==
  ASSUME NEW a \in Int, NEW b \in Int
  PROVE  Max({a, b}) \in {a, b} /\ Max({a, b}) >= a /\ Max({a, b}) >= b
<1>1. \E x \in {a, b} : \A y \in {a, b} : x >= y
  OBVIOUS
<1>2. Max({a, b}) \in {a, b} /\ \A y \in {a, b} : Max({a, b}) >= y
  BY <1>1, Zenon DEF Max
<1> QED BY <1>2

\* What a call of dispatchOrEnqueue for each document that is due comes to: the
\* free connections are used, and nothing waits while one is free.
LEMMA DispatchedFacts ==
  ASSUME QueueMoves, NEW due, IsFiniteSet(due), liveConnections \in Nat, NEW run \in Dispatched(due)
  PROVE  /\ run \subseteq due /\ IsFiniteSet(run) /\ Cardinality(run) \in Nat
         /\ liveConnections + Cardinality(run) <= ConnectionCap
         /\ due \ run # {} => liveConnections + Cardinality(run) = ConnectionCap
<1>1. run \subseteq due
  BY DEF Dispatched
<1>2. IsFiniteSet(run) /\ Cardinality(run) \in Nat /\ Cardinality(due) \in Nat
  BY <1>1, FS_Subset, FS_CardinalityType
<1>3. ConnectionCap \in Nat /\ liveConnections <= ConnectionCap
  BY CredentialsAssumption DEF QueueMoves
<1> DEFINE left == Max({ConnectionCap - liveConnections, 0})
<1>4. left \in {ConnectionCap - liveConnections, 0} /\ left >= ConnectionCap - liveConnections /\ left >= 0
  BY <1>3, MaxFact
<1>5. left = ConnectionCap - liveConnections
  BY <1>3, <1>4
<1>6. Cardinality(run) = Min({Cardinality(due), left})
  BY DEF Dispatched
<1> HIDE DEF left
<1>7. Cardinality(run) \in {Cardinality(due), left} /\ Cardinality(run) <= left
  BY <1>2, <1>3, <1>5, <1>6, MinFact
<1>8. due \ run # {} => Cardinality(run) # Cardinality(due)
  BY <1>1, FS_Subset
<1> QED BY <1>1, <1>2, <1>3, <1>5, <1>7, <1>8

LEMMA AdvanceQueue ==
  ASSUME CacheTypeOK, QueueInv, NEW d \in Documents, renewing[d] > 0, Advance(d)
  PROVE  QueueInv'
<1> DEFINE last == <<d, renewing[d]>>
           ended == [renewing EXCEPT ![d] = @ - 1]
           rest == Renewals \ {last}
<1>1. renewing \in [Documents -> Nat] /\ pendingQueue \subseteq Documents /\ renewing[d] \in 1..renewing[d]
  BY DEF CacheTypeOK
<1>2. last \in Renewals
  BY <1>1, RenewalsAre
<1>3. IsFiniteSet(rest) /\ Cardinality(rest) = liveConnections - 1 /\ liveConnections \in Nat
  BY <1>2, FS_RemoveElement, FS_CardinalityType DEF QueueInv, QueueMoves
<1>4. \A e \in Documents, n \in Nat : <<e, n>> \in rest <=> n \in 1..ended[e]
  <2> TAKE e \in Documents, n \in Nat
  <2>1. <<e, n>> \in Renewals <=> n \in 1..renewing[e]
    BY RenewalsAre
  <2>2. <<e, n>> = last <=> e = d /\ n = renewing[d]
    OBVIOUS
  <2>3. renewing[e] \in Nat /\ ended[e] = IF e = d THEN renewing[d] - 1 ELSE renewing[e]
    BY <1>1
  <2> HIDE DEF last, ended
  <2> QED BY <1>1, <2>1, <2>2, <2>3
<1>5. \A x \in rest : \E e \in Documents, n \in Nat : x = <<e, n>>
  BY RenewalsAre
<1>6. ended \in [Documents -> Nat]
  BY <1>1
<1> HIDE DEF last, ended, rest
<1>7. CASE pendingQueue = {}
  <2>1. liveConnections' = liveConnections - 1 /\ renewing' = ended /\ pendingQueue' = {}
    BY <1>7 DEF Advance, ended
  <2>2. \A x : x \in Renewals' <=> x \in rest
    BY <1>4, <1>5, <1>6, <2>1, RenewalsNext
  <2>3. Renewals' = rest
    BY <2>2
  <2> QED BY <1>3, <2>1, <2>3, CredentialsAssumption DEF QueueInv, QueueMoves
<1>8. CASE pendingQueue # {}
  <2>1. PICK next \in pendingQueue :
          /\ pendingQueue' = pendingQueue \ {next}
          /\ renewing' = [ended EXCEPT ![next] = @ + 1]
          /\ UNCHANGED liveConnections
    BY <1>8 DEF Advance, ended
  <2> DEFINE one == <<next, ended[next] + 1>>
  <2>2. next \in Documents /\ ended[next] \in Nat /\ one \notin rest
    BY <1>1, <1>4, <1>6, <2>1
  <2>3. \A x : x \in Renewals' <=> x \in rest \/ x = one
    <3> TAKE x
    <3>1. ASSUME NEW e \in Documents, NEW n \in Nat, x = <<e, n>>
          PROVE  (n \in 1..renewing'[e]) <=> (x \in rest \/ x = one)
      <4>1. x \in rest <=> n \in 1..ended[e]
        BY <1>4, <3>1
      <4>2. x = one <=> e = next /\ n = ended[next] + 1
        BY <3>1
      <4>3. /\ renewing'[e] = IF e = next THEN ended[next] + 1 ELSE ended[e]
            /\ ended[e] \in Nat
        BY <1>6, <2>1
      <4> HIDE DEF one
      <4> QED BY <2>2, <4>1, <4>2, <4>3
    <3>2. x \in Renewals' => \E e \in Documents, n \in Nat : x = <<e, n>> /\ n \in 1..renewing'[e]
      BY RenewalsNext
    <3>3. x \in rest \/ x = one => \E e \in Documents, n \in Nat : x = <<e, n>>
      BY <1>5, <2>2
    <3> HIDE DEF one
    <3> QED BY <3>1, <3>2, <3>3, RenewalsNext
  <2> HIDE DEF one
  <2>4. Renewals' = rest \cup {one}
    BY <2>3
  <2>5. /\ IsFiniteSet(rest \cup {one})
        /\ Cardinality(rest \cup {one}) = Cardinality(rest) + 1
    BY <1>3, <2>2, FS_AddElement
  <2>6. IsFiniteSet(Renewals') /\ Cardinality(Renewals') = liveConnections
    BY <1>3, <2>4, <2>5
  <2> QED BY <1>8, <2>1, <2>6 DEF QueueInv, QueueMoves
<1> QED BY <1>7, <1>8

LEMMA SweepQueue ==
  ASSUME CacheTypeOK, QueueInv, SweepExpiringTokens
  PROVE  QueueInv'
<1> DEFINE due == {d \in subscribed \ Pruned : Due(d)}
<1>1. PICK run \in Dispatched(due) :
        /\ renewing' = [d \in Documents |-> renewing[d] + IF d \in run THEN 1 ELSE 0]
        /\ liveConnections' = liveConnections + Cardinality(run)
        /\ pendingQueue' = pendingQueue \cup (due \ run)
  BY DEF SweepExpiringTokens
<1>2. due \subseteq Documents /\ renewing \in [Documents -> Nat]
  BY DEF CacheTypeOK
<1>3. IsFiniteSet(due)
  BY <1>2, CredentialsAssumption, FS_Subset
<1>4. liveConnections \in Nat
  BY FS_CardinalityType DEF QueueInv, QueueMoves
<1> HIDE DEF due
<1>5. /\ run \subseteq Documents /\ IsFiniteSet(run) /\ Cardinality(run) \in Nat
      /\ liveConnections' <= ConnectionCap
      /\ due \ run # {} => liveConnections' = ConnectionCap
  BY <1>1, <1>2, <1>3, <1>4, DispatchedFacts DEF QueueInv
<1> DEFINE f == [d \in run |-> <<d, renewing[d] + 1>>]
           new == {f[d] : d \in run}
<1>6. \A a, b \in run : f[a] = f[b] => a = b
  OBVIOUS
<1>7. f \in Bijection(run, new)
  <2>1. f \in [run -> new] /\ \A t \in new : \E s \in run : f[s] = t
    OBVIOUS
  <2> HIDE DEF f, new
  <2> QED BY <1>6, <2>1, Fun_IsBij
<1>8. IsFiniteSet(new) /\ Cardinality(new) = Cardinality(run)
  BY <1>5, <1>7, FS_Bijection DEF ExistsBijection
<1>9. \A x : x \in new <=> \E d \in run : x = <<d, renewing[d] + 1>>
  OBVIOUS
<1> HIDE DEF f, new
<1>10. Renewals \cap new = {}
  BY <1>2, <1>5, <1>9, RenewalsAre
<1>11. \A x : x \in Renewals' <=> x \in Renewals \/ x \in new
  <2> TAKE x
  <2>1. ASSUME NEW d \in Documents, NEW n \in Nat, x = <<d, n>>
        PROVE  (n \in 1..renewing'[d]) <=> (n \in 1..renewing[d] \/ (d \in run /\ n = renewing[d] + 1))
    BY <1>1, <1>2
  <2>2. x \in Renewals <=> \E d \in Documents, n \in Nat : x = <<d, n>> /\ n \in 1..renewing[d]
    BY RenewalsAre
  <2>3. x \in Renewals' <=> \E d \in Documents, n \in Nat : x = <<d, n>> /\ n \in 1..renewing'[d]
    BY RenewalsNext
  <2>4. x \in new <=> \E d \in Documents, n \in Nat : x = <<d, n>> /\ d \in run /\ n = renewing[d] + 1
    BY <1>2, <1>5, <1>9
  <2> QED BY <2>1, <2>2, <2>3, <2>4
<1>12. Renewals' = Renewals \cup new
  BY <1>11
<1>13. IsFiniteSet(Renewals') /\ Cardinality(Renewals') = liveConnections'
  <2>1. IsFiniteSet(Renewals) /\ Cardinality(Renewals) = liveConnections
    BY DEF QueueInv, QueueMoves
  <2>2. /\ IsFiniteSet(Renewals \cup new)
        /\ Cardinality(Renewals \cup new) = Cardinality(Renewals) + Cardinality(new) - Cardinality({})
    BY <1>8, <1>10, <2>1, FS_Union
  <2> QED BY <1>1, <1>4, <1>5, <1>8, <1>12, <2>1, <2>2, FS_EmptySet
<1>14. pendingQueue' # {} => liveConnections' = ConnectionCap
  <2>1. pendingQueue # {} => liveConnections = ConnectionCap
    BY DEF QueueInv, QueueMoves
  <2>2. ConnectionCap \in Nat
    BY CredentialsAssumption
  <2>3. pendingQueue # {} => liveConnections' = ConnectionCap
    BY <1>1, <1>4, <1>5, <2>1, <2>2
  <2> QED BY <1>1, <1>5, <2>3
<1> QED BY <1>5, <1>13, <1>14 DEF QueueInv, QueueMoves

\* Whatever else happens takes documents from the queue at most.
LEMMA QueueShrinks ==
  ASSUME QueueInv, UNCHANGED <<liveConnections, renewing>>, pendingQueue' \subseteq pendingQueue
  PROVE  QueueInv'
<1>1. Renewals' = Renewals
  BY DEF Renewals
<1>2. pendingQueue' # {} => pendingQueue # {}
  OBVIOUS
<1> QED BY <1>1, <1>2 DEF QueueInv, QueueMoves

LEMMA QueueEmpty ==
  ASSUME renewing = [d \in Documents |-> 0], liveConnections = 0, pendingQueue = {}
  PROVE  QueueInv
<1>1. \A x : x \notin Renewals
  BY RenewalsAre
<1>2. Renewals = {}
  BY <1>1
<1> QED BY <1>2, FS_EmptySet, CredentialsAssumption DEF QueueInv, QueueMoves

LEMMA QueueStep == CacheTypeOK /\ QueueInv /\ [CacheNext]_cacheVars => QueueInv'
<1> SUFFICES ASSUME CacheTypeOK, QueueInv, [CacheNext]_cacheVars PROVE QueueInv'
  OBVIOUS
<1>1. ASSUME NEW d \in Documents,
             \/ Serve(d) \/ Join(d) \/ Fetch(d) \/ FetchAnswers(d) \/ FetchFails(d)
             \/ FetchRetries(d) \/ DropFromQueue(d) \/ FolderMoves(d) \/ TokensAge(d)
      PROVE  QueueInv'
  <2>1. UNCHANGED <<liveConnections, renewing>> /\ pendingQueue' \subseteq pendingQueue
    BY <1>1 DEF Serve, Join, Fetch, FetchAnswers, FetchFails, FetchRetries, DropFromQueue,
                FolderMoves, Clear, TokensAge, queue
  <2> QED BY <2>1, QueueShrinks
<1>2. ASSUME NEW d \in Documents, RenewalAnswers(d) \/ RenewalFails(d)
      PROVE  QueueInv'
  BY <1>2, AdvanceQueue DEF RenewalAnswers, RenewalFails
<1>3. CASE Sweep \/ StartSweeping
  BY <1>3, SweepQueue DEF Sweep, StartSweeping
<1>4. CASE StopSweeping \/ SignOut \/ UNCHANGED cacheVars
  <2>1. UNCHANGED <<liveConnections, renewing>> /\ pendingQueue' \subseteq pendingQueue
    BY <1>4 DEF StopSweeping, SignOut, Clear, cacheVars, queue
  <2> QED BY <2>1, QueueShrinks
<1>5. CASE Restart
  <2>1. renewing' = [d \in Documents |-> 0] /\ liveConnections' = 0 /\ pendingQueue' = {}
    BY <1>5 DEF Restart
  <2>2. \A x : x \notin Renewals'
    BY <2>1, RenewalsNext
  <2>3. Renewals' = {}
    BY <2>2
  <2> QED BY <2>1, <2>3, FS_EmptySet, CredentialsAssumption DEF QueueInv, QueueMoves
<1> QED BY <1>1, <1>2, <1>3, <1>4, <1>5 DEF CacheNext

\* The count of connections is that of the renewals that run, for every cap: it
\* never exceeds the cap, and while a renewal waits none is free (dispatchOrEnqueue,
\* advanceQueue), so that the queue cannot get stuck.
THEOREM QueueNeverStuck == CacheSpec => []QueueMoves
<1>1. CacheInit => QueueInv
  BY QueueEmpty DEF CacheInit
<1>2. QueueInv => QueueMoves
  BY DEF QueueInv
<1>3. CacheInv => CacheTypeOK
  BY DEF CacheInv
<1> QED BY <1>1, <1>2, <1>3, QueueStep, CacheInvHolds, PTL DEF CacheSpec

-----------------------------------------------------------------------------
(* The cache implements TokenSource, its fairness apart.                   *)

LEMMA SourceInit == CacheInit => Promised!Init
BY DEF CacheInit, Promised!Init

LEMMA SourceStep == CacheInv /\ [CacheNext]_cacheVars => [Promised!Next]_(Promised!sourceVars)
<1> SUFFICES ASSUME CacheInv, [CacheNext]_cacheVars PROVE Promised!Next \/ UNCHANGED <<fetching, given>>
  BY DEF Promised!sourceVars
<1> USE DEF Promised!Next
<1>1. ASSUME NEW d \in Documents, Serve(d) PROVE Promised!Renew(d)
  BY <1>1 DEF Serve, Serves, ServedFromCache, Promised!Renew, Promised!Given
<1>2. ASSUME NEW d \in Documents, Join(d) \/ FetchRetries(d) \/ DropFromQueue(d) \/ RenewalFails(d) \/ FolderMoves(d)
      PROVE  UNCHANGED <<fetching, given>>
  BY <1>2 DEF Join, FetchRetries, DropFromQueue, RenewalFails, FolderMoves, Clear
<1>3. ASSUME NEW d \in Documents, Fetch(d) PROVE Promised!Ask(d)
  BY <1>3 DEF Fetch, Promised!Ask
<1>4. ASSUME NEW d \in Documents, FetchAnswers(d) PROVE Promised!Settle(d)
  BY <1>4 DEF FetchAnswers, Settles, Promised!Settle, Promised!Answer, Promised!Given
<1>5. ASSUME NEW d \in Documents, FetchFails(d) PROVE Promised!Settle(d)
  BY <1>5 DEF FetchFails, Settles, Promised!Settle, Promised!Refuse
<1>6. ASSUME NEW d \in Documents, RenewalAnswers(d) PROVE Promised!Renew(d) \/ UNCHANGED <<fetching, given>>
  BY <1>6 DEF RenewalAnswers, Told, Promised!Renew, Promised!Given
<1>7. ASSUME NEW d \in Documents, TokensAge(d) PROVE Promised!Grow(d) \/ UNCHANGED <<fetching, given>>
  BY <1>7 DEF TokensAge, Promised!Grow
<1>8. CASE Sweep \/ StartSweeping \/ StopSweeping \/ SignOut
  BY <1>8 DEF Sweep, StartSweeping, SweepExpiringTokens, StopSweeping, SignOut, Clear
<1>9. CASE Restart
  BY <1>9 DEF Restart, HasToken, CacheInv, CacheTypeOK, Promised!Restart, Promised!Ages
<1>10. CASE UNCHANGED cacheVars
  BY <1>10 DEF cacheVars
<1> QED BY <1>1, <1>2, <1>3, <1>4, <1>5, <1>6, <1>7, <1>8, <1>9, <1>10 DEF CacheNext

\* Every step of the cache is one that a TokenSource may take: a document is
\* given only tokens that need no renewal, and its open requests are answered,
\* refused or forgotten, never multiplied.
THEOREM CacheStepsAreSourceSteps == CacheSpec => Promised!Init /\ [][Promised!Next]_(Promised!sourceVars)
BY SourceInit, SourceStep, CacheInvHolds, PTL DEF CacheSpec
=============================================================================
