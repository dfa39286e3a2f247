---------------------------- MODULE Sessions_proof ----------------------------
(***************************************************************************)
(* Proofs about the session with one server, for any users, hosts,         *)
(* provider objects, concurrent calls and bounds: users stay with their    *)
(* tokens and tokens with their host, who signed out stays out, and what   *)
(* is stored is what the provider has.  Then about what AuthStore and      *)
(* Settings keep, for any servers, sessions, shares and values.            *)
(***************************************************************************)
EXTENDS MCSessions, SequenceTheorems, TLAPS

-----------------------------------------------------------------------------
(* Types.  A token that anything holds has been issued.                    *)

Known == 1..Len(grants)
Within(n, s) == {s.token, s.refresh} \subseteq Maybe(1..n)
Holds(s) == Within(Len(grants), s)

Under == {c \in Calls : call[c] # None}
Signing(c) == call[c].kind \in {"login", "oauth"}
Refreshing(c) == call[c].kind \in Refreshes

TypeOK ==
  /\ grants \in Seq([user : Users, host : Hosts]) /\ Len(grants) <= MaxGrants
  /\ live \subseteq Known /\ fresh \subseteq Known
  /\ object \in [Slots -> Maybe(Providers)]
  /\ current \in Maybe(Slots) /\ store \in Maybe(Session)
  /\ session \in [active : BOOLEAN, auth : Maybe(Slots), user : Maybe(Users), restored : BOOLEAN]
  /\ call \in [Calls -> Maybe(CallRecords)]
  /\ signedOut \in BOOLEAN

\* What is referred to is there.
Present ==
  /\ current # None => object[current] # None
  /\ session.auth # None => object[session.auth] # None
  /\ \A c \in Under : object[call[c].slot] # None
  /\ store # None => Holds(store)
  /\ \A o \in Slots : object[o] # None => Holds(object[o])
  /\ \A c \in Under : Holds(call[c].prev) /\ call[c].sent \in Maybe(Known)

\* The stages of each kind of call.
StageOK(c) ==
  \/ call[c].kind = "login" /\ call[c].stage \in {"login", "settings"} /\ call[c].user \in Users
  \/ call[c].kind = "login" /\ call[c].stage = "me" /\ call[c].sent # None /\ call[c].user \in Users
  \/ call[c].kind = "oauth" /\ call[c].stage = "login" /\ call[c].user \in Users
  \/ Refreshing(c) /\ call[c].stage \in {"refresh", "verify", "me"} /\ call[c].sent # None
  \/ call[c].kind = "logout" /\ call[c].stage = "logout"

Shape == TypeOK /\ Present /\ \A c \in Under : StageOK(c)

-----------------------------------------------------------------------------
(* What the steps do, field by field.                                      *)

After(c) == object'[call[c].slot]

\* The call c alone moves, and the provider it is of alone is changed.
Alters(c) ==
  /\ c \in Under
  /\ object' \in [Slots -> Maybe(Providers)] /\ call' \in [Calls -> Maybe(CallRecords)]
  /\ \A o \in Slots \ {call[c].slot} : object'[o] = object[o]
  /\ \A d \in Calls \ {c} : call'[d] = call[d]
  /\ After(c) \in Providers /\ After(c).host = P(c).host
  /\ current' = current

\* A call that goes on is the call it was.
GoesOn(c) ==
  /\ call'[c] \in CallRecords
  /\ call'[c].kind = call[c].kind /\ call'[c].slot = call[c].slot /\ call'[c].user = call[c].user
  /\ call'[c].had = call[c].had /\ call'[c].prev = call[c].prev

\* The servers issued a token of u at h.
Grew(u, h) ==
  /\ grants' \in Seq([user : Users, host : Hosts]) /\ Len(grants') <= MaxGrants
  /\ NewGrant \in Grants /\ NewGrant \notin Known
  /\ Len(grants') = NewGrant
  /\ \A g \in Known : grants'[g] = grants[g]
  /\ grants'[NewGrant].user = u /\ grants'[NewGrant].host = h
  /\ fresh' \subseteq 1..NewGrant

LEMMA Constants ==
  /\ \A g \in Nat : g # None
  /\ \A x \in Users \cup Hosts \cup Slots \cup Session \cup Providers \cup CallRecords : x # None
  /\ MaxGrants \in Nat /\ Calls \subseteq Nat
BY SessionsAssumption, NoneAssumption

LEMMA IssuesEffect ==
  ASSUME TypeOK, NEW u \in Users, NEW h \in Hosts, Issues(u, h)
  PROVE  Grew(u, h)
<1> DEFINE new == [user |-> u, host |-> h]
<1>1. grants \in Seq([user : Users, host : Hosts]) /\ new \in [user : Users, host : Hosts]
  BY DEF TypeOK
<1>2. Len(grants) \in Nat /\ Len(grants) < MaxGrants /\ MaxGrants \in Nat
  BY <1>1, Constants DEF Issues
<1>3. grants' = Append(grants, new)
  BY DEF Issues, Issued
<1>4. /\ grants' \in Seq([user : Users, host : Hosts]) /\ Len(grants') = Len(grants) + 1
      /\ \A g \in 1..Len(grants) : grants'[g] = grants[g]
      /\ grants'[Len(grants) + 1] = new
  BY <1>1, <1>3
<1>5. fresh' \subseteq 1..(Len(grants) + 1)
  <2>1. fresh \subseteq 1..Len(grants) /\ fresh' = fresh \cup {Len(grants) + 1}
    BY DEF Issues, NewGrant, TypeOK, Known
  <2>2. \A g \in 1..Len(grants) : g \in 1..(Len(grants) + 1)
    BY <1>2
  <2>3. Len(grants) + 1 \in 1..(Len(grants) + 1)
    BY <1>2
  <2>. QED
    BY <2>1, <2>2, <2>3
<1>6. new.user = u /\ new.host = h
  OBVIOUS
<1> HIDE DEF new
<1>. QED
  BY <1>2, <1>4, <1>5, <1>6 DEF Grew, NewGrant, Known, Grants

LEMMA CallFacts ==
  ASSUME Shape, NEW c \in Calls, call[c] # None
  PROVE  /\ c \in Under /\ call[c] \in CallRecords /\ StageOK(c)
         /\ call[c].slot \in Slots /\ P(c) \in Providers
         /\ Holds(P(c)) /\ Holds(call[c].prev) /\ call[c].sent \in Maybe(Known)
<1>1. c \in Under /\ call[c] \in CallRecords
  BY DEF Shape, TypeOK, Under, Maybe
<1>2. call[c].slot \in Slots
  BY <1>1 DEF CallRecords
<1>3. P(c) \in Providers
  BY <1>1, <1>2 DEF Shape, TypeOK, Present, P, Maybe
<1>. QED
  BY <1>1, <1>2, <1>3 DEF Shape, Present, P

LEMMA AltersIntro ==
  ASSUME Shape, NEW c \in Calls, call[c] # None,
         NEW p \in Providers, p.host = P(c).host, Becomes(c, p),
         NEW n \in Maybe(CallRecords), Starts(c, n), current' = current
  PROVE  Alters(c) /\ After(c) = p /\ call'[c] = n
<1>1. c \in Under /\ call[c].slot \in Slots
  BY CallFacts
<1>2. object' = [object EXCEPT ![call[c].slot] = p] /\ call' = [call EXCEPT ![c] = n]
  BY DEF Becomes, Starts
<1>3. object \in [Slots -> Maybe(Providers)] /\ call \in [Calls -> Maybe(CallRecords)]
  BY DEF Shape, TypeOK
<1>4. /\ object' \in [Slots -> Maybe(Providers)] /\ object'[call[c].slot] = p
      /\ \A o \in Slots \ {call[c].slot} : object'[o] = object[o]
  BY <1>1, <1>2, <1>3 DEF Maybe
<1>5. /\ call' \in [Calls -> Maybe(CallRecords)] /\ call'[c] = n
      /\ \A d \in Calls \ {c} : call'[d] = call[d]
  BY <1>2, <1>3
<1>. QED
  BY <1>1, <1>4, <1>5 DEF Alters, After

LEMMA GoesEffect ==
  ASSUME Shape, NEW c \in Calls, call[c] # None,
         NEW stage \in {"login", "me", "settings", "refresh", "verify", "logout"},
         NEW sent \in Maybe(Grants), Goes(c, stage, sent)
  PROVE  \E n \in CallRecords :
           /\ Starts(c, n) /\ n.stage = stage /\ n.sent = sent
           /\ n.kind = call[c].kind /\ n.slot = call[c].slot /\ n.user = call[c].user
           /\ n.had = call[c].had /\ n.prev = call[c].prev
<1> DEFINE n == [call[c] EXCEPT !.stage = stage, !.sent = sent]
<1>1. call[c] \in CallRecords /\ call \in [Calls -> Maybe(CallRecords)]
  BY CallFacts DEF Shape, TypeOK
<1>2. n \in CallRecords
  BY <1>1 DEF CallRecords
<1>3. call' = [call EXCEPT ![c] = n]
  BY <1>1 DEF Goes, CallRecords
<1>4. /\ n.stage = stage /\ n.sent = sent
      /\ n.kind = call[c].kind /\ n.slot = call[c].slot /\ n.user = call[c].user
      /\ n.had = call[c].had /\ n.prev = call[c].prev
  BY <1>1 DEF CallRecords
<1>. QED
  BY <1>2, <1>3, <1>4 DEF Starts

\* A token in use is one the servers issued.
LEMMA SentFacts ==
  ASSUME Shape, NEW c \in Calls, call[c] # None, call[c].sent # None
  PROVE  /\ call[c].sent \in Known /\ call[c].sent \in Grants
         /\ grants[call[c].sent].user \in Users /\ grants[call[c].sent].host \in Hosts
<1>1. call[c].sent \in Known /\ call[c].sent \in Maybe(Grants)
  BY CallFacts DEF Maybe, CallRecords
<1>2. grants \in Seq([user : Users, host : Hosts])
  BY DEF Shape, TypeOK
<1>3. grants[call[c].sent] \in [user : Users, host : Hosts]
  BY <1>1, <1>2, ElementOfSeq DEF Known
<1>. QED
  BY <1>1, <1>3 DEF Maybe

LEMMA SameObjects ==
  ASSUME Shape, NEW c \in Calls, call[c] # None, UNCHANGED object
  PROVE  Becomes(c, P(c))
BY CallFacts DEF Becomes, P, Shape, TypeOK

LEMMA WithIsProvider ==
  ASSUME NEW p \in Providers,
         NEW s \in [user : Maybe(Users), token : Maybe(Grants), refresh : Maybe(Grants)]
  PROVE  /\ With(p, s) \in Providers /\ With(p, s).host = p.host
         /\ With(p, s).user = s.user /\ With(p, s).token = s.token /\ With(p, s).refresh = s.refresh
BY DEF With, Providers

LEMMA EmptyFacts ==
  /\ Empty \in [user : Maybe(Users), token : Maybe(Grants), refresh : Maybe(Grants)]
  /\ Empty.user = None /\ Empty.token = None /\ Empty.refresh = None
BY DEF Empty, Maybe

LEMMA HostGivesFact ==
  ASSUME NEW h, NEW g \in Grants
  PROVE  HostGives(h, g) \in {g, None} /\ HostGives(h, g) \in Maybe(Grants)
BY DEF HostGives, Maybe

LEMMA LoginGrantedEffect ==
  ASSUME Shape, NEW c \in Calls, LoginGranted(c)
  PROVE  /\ Alters(c) /\ GoesOn(c) /\ Grew(call[c].user, P(c).host)
         /\ call[c].kind = "login" /\ call[c].stage = "login"
         /\ After(c).user = P(c).user /\ After(c).token = NewGrant
         /\ After(c).refresh \in {NewGrant, None}
         /\ call'[c].stage = "me" /\ call'[c].sent = NewGrant
         /\ live' = live \cup {NewGrant}
         /\ UNCHANGED <<store, session, signedOut, windows>>
<1>1. call[c] # None /\ call[c].kind = "login" /\ call[c].stage = "login"
  BY DEF LoginGranted, Running, At
<1>2. call[c].user \in Users /\ P(c) \in Providers /\ P(c).host \in Hosts
  BY <1>1, CallFacts DEF StageOK, Signing, Refreshing, Refreshes, Providers
<1>3. Grew(call[c].user, P(c).host)
  BY <1>2, IssuesEffect DEF LoginGranted, Login, Shape
<1>4. NewGrant \in Grants
  BY <1>3 DEF Grew
<1> DEFINE p == [P(c) EXCEPT !.token = NewGrant, !.refresh = HostGives(P(c).host, NewGrant)]
<1>5. /\ p \in Providers /\ p.host = P(c).host /\ p.user = P(c).user /\ p.token = NewGrant
      /\ p.refresh \in {NewGrant, None}
  BY <1>2, <1>4, HostGivesFact DEF Providers, Maybe
<1>6. PICK n \in CallRecords :
           /\ Starts(c, n) /\ n.stage = "me" /\ n.sent = NewGrant
           /\ n.kind = call[c].kind /\ n.slot = call[c].slot /\ n.user = call[c].user
           /\ n.had = call[c].had /\ n.prev = call[c].prev
  BY <1>1, <1>4, GoesEffect DEF LoginGranted, Maybe
<1>7. Becomes(c, p) /\ current' = current
  BY DEF LoginGranted
<1> HIDE DEF p
<1>8. Alters(c) /\ After(c) = p /\ call'[c] = n
  BY <1>1, <1>5, <1>6, <1>7, AltersIntro DEF Maybe
<1>. QED
  BY <1>1, <1>3, <1>5, <1>6, <1>8 DEF GoesOn, LoginGranted, Login

LEMMA LoginConfirmedEffect ==
  ASSUME Shape, NEW c \in Calls, LoginConfirmed(c)
  PROVE  /\ Alters(c) /\ GoesOn(c)
         /\ call[c].kind = "login" /\ call[c].stage = "me" /\ call[c].sent \in Known
         /\ After(c).user = grants[call[c].sent].user
         /\ After(c).token = P(c).token /\ After(c).refresh = P(c).refresh
         /\ call'[c].stage = "settings" /\ call'[c].sent = None
         /\ store' = Persisted(After(c)) /\ signedOut' = FALSE
         /\ UNCHANGED <<server, session, windows>>
<1>1. call[c] # None /\ call[c].kind = "login" /\ call[c].stage = "me"
  BY DEF LoginConfirmed, Running, At
<1>2. P(c) \in Providers /\ call[c].sent # None
  BY <1>1, CallFacts DEF StageOK, Signing, Refreshing, Refreshes
<1>3. grants[call[c].sent].user \in Users /\ call[c].sent \in Known
  BY <1>1, <1>2, SentFacts
<1> DEFINE p == [P(c) EXCEPT !.user = grants[call[c].sent].user]
<1>4. /\ p \in Providers /\ p.host = P(c).host /\ p.user = grants[call[c].sent].user
      /\ p.token = P(c).token /\ p.refresh = P(c).refresh
  BY <1>2, <1>3 DEF Providers, Maybe
<1>5. PICK n \in CallRecords :
           /\ Starts(c, n) /\ n.stage = "settings" /\ n.sent = None
           /\ n.kind = call[c].kind /\ n.slot = call[c].slot /\ n.user = call[c].user
           /\ n.had = call[c].had /\ n.prev = call[c].prev
  BY <1>1, GoesEffect DEF LoginConfirmed, Maybe
<1>6. Becomes(c, p) /\ current' = current /\ store' = Persisted(p)
  BY DEF LoginConfirmed
<1> HIDE DEF p
<1>7. Alters(c) /\ After(c) = p /\ call'[c] = n
  BY <1>1, <1>4, <1>5, <1>6, AltersIntro DEF Maybe
<1>8. signedOut' = FALSE /\ UNCHANGED <<server, session, windows>>
  BY DEF LoginConfirmed
<1>9. GoesOn(c)
  BY <1>5, <1>7 DEF GoesOn
<1>. QED
  BY <1>1, <1>3, <1>4, <1>5, <1>6, <1>7, <1>8, <1>9

LEMMA LoginEndsEffect ==
  ASSUME Shape, NEW c \in Calls, LoginEnds(c)
  PROVE  /\ Alters(c) /\ call[c].kind = "login" /\ call[c].stage = "settings"
         /\ After(c) = P(c) /\ call'[c] = None
         /\ UNCHANGED <<server, object, store, signedOut, windows>>
<1>1. call[c] # None /\ call[c].stage = "settings"
  BY DEF LoginEnds, At
<1>2. call[c].kind = "login" /\ P(c) \in Providers
  BY <1>1, CallFacts DEF StageOK
<1>3. Becomes(c, P(c))
  BY <1>1, SameObjects DEF LoginEnds
<1>4. Starts(c, None) /\ current' = current
  BY DEF LoginEnds, Ends, Starts
<1>5. Alters(c) /\ After(c) = P(c) /\ call'[c] = None
  BY <1>1, <1>2, <1>3, <1>4, AltersIntro DEF Maybe
<1>. QED
  BY <1>1, <1>2, <1>5 DEF LoginEnds

LEMMA OAuthEndsEffect ==
  ASSUME Shape, NEW c \in Calls, OAuthEnds(c)
  PROVE  /\ Alters(c) /\ Grew(call[c].user, P(c).host)
         /\ call[c].kind = "oauth" /\ call[c].stage = "login" /\ call[c].user \in Users
         /\ After(c).user = call[c].user /\ After(c).token = NewGrant
         /\ After(c).refresh \in {NewGrant, None} /\ call'[c] = None
         /\ live' = live \cup {NewGrant}
         /\ store' = Of(After(c)) /\ signedOut' = FALSE /\ UNCHANGED windows
<1>1. call[c] # None /\ call[c].kind = "oauth"
  BY DEF OAuthEnds, Running
<1>2. /\ call[c].stage = "login" /\ call[c].user \in Users
      /\ P(c) \in Providers /\ P(c).host \in Hosts
  BY <1>1, CallFacts DEF StageOK, Signing, Refreshing, Refreshes, Providers
<1>3. Grew(call[c].user, P(c).host)
  BY <1>2, IssuesEffect DEF OAuthEnds, Login, Shape
<1>4. NewGrant \in Grants
  BY <1>3 DEF Grew
<1> DEFINE p == [P(c) EXCEPT !.user = call[c].user, !.token = NewGrant,
                             !.refresh = HostGives(P(c).host, NewGrant)]
<1>5. /\ p \in Providers /\ p.host = P(c).host /\ p.user = call[c].user /\ p.token = NewGrant
      /\ p.refresh \in {NewGrant, None}
  BY <1>2, <1>4, HostGivesFact DEF Providers, Maybe
<1>6. Becomes(c, p) /\ Starts(c, None) /\ current' = current /\ store' = Persisted(p)
  BY DEF OAuthEnds, Ends, Starts
<1>7. p.user # None /\ p.token # None
  BY <1>2, <1>4, <1>5, Constants DEF Grants
<1> HIDE DEF p
<1>8. Alters(c) /\ After(c) = p /\ call'[c] = None
  BY <1>1, <1>5, <1>6, AltersIntro DEF Maybe
<1>9. store' = Of(p)
  BY <1>6, <1>7 DEF Persisted
<1>. QED
  BY <1>1, <1>2, <1>3, <1>5, <1>8, <1>9 DEF OAuthEnds, Login

LEMMA LoginFailsEffect ==
  ASSUME Shape, NEW c \in Calls, LoginFails(c)
  PROVE  /\ Alters(c) /\ Signing(c) /\ call[c].stage \in {"login", "me"} /\ call'[c] = None
         /\ call[c].had =>
              /\ After(c).user = call[c].prev.user /\ After(c).token = call[c].prev.token
              /\ After(c).refresh = call[c].prev.refresh /\ store' = store
         /\ ~call[c].had =>
              /\ After(c).user = None /\ After(c).token = None
              /\ After(c).refresh \in {None, P(c).refresh} /\ store' = None
         /\ UNCHANGED <<server, session, signedOut, windows>>
<1>1. call[c] # None /\ call[c].stage \in {"login", "me"} /\ call[c].had \in BOOLEAN
  BY CallFacts DEF LoginFails, Running, At, CallRecords
<1>2. Signing(c) /\ P(c) \in Providers
  BY <1>1, CallFacts DEF LoginFails, Running, At, StageOK, Signing, Refreshing, Refreshes
<1>3. call[c].prev \in [user : Maybe(Users), token : Maybe(Grants), refresh : Maybe(Grants)]
  BY <1>1, CallFacts DEF CallRecords
<1>4. Starts(c, None) /\ current' = current /\ UNCHANGED <<server, session, signedOut, windows>>
  BY DEF LoginFails, Ends, Starts
<1>5. CASE call[c].had
  <2>1. Becomes(c, With(P(c), call[c].prev)) /\ store' = store
    BY <1>5 DEF LoginFails, PutBack
  <2>2. /\ Alters(c) /\ After(c) = With(P(c), call[c].prev) /\ call'[c] = None
    BY <1>1, <1>2, <1>3, <1>4, <2>1, AltersIntro, WithIsProvider DEF Maybe
  <2>. QED
    BY <1>1, <1>2, <1>3, <1>4, <1>5, <2>1, <2>2, WithIsProvider
<1>6. CASE ~call[c].had
  <2> DEFINE s == [Empty EXCEPT !.refresh = IF Running(c, "login") THEN P(c).refresh ELSE None]
  <2>1. Becomes(c, With(P(c), s)) /\ store' = None
    BY <1>6 DEF LoginFails
  <2>2. /\ s \in [user : Maybe(Users), token : Maybe(Grants), refresh : Maybe(Grants)]
        /\ s.user = None /\ s.token = None /\ s.refresh \in {None, P(c).refresh}
    BY <1>2 DEF Empty, Providers, Maybe
  <2> HIDE DEF s
  <2>3. /\ Alters(c) /\ After(c) = With(P(c), s) /\ call'[c] = None
    BY <1>1, <1>2, <1>4, <2>1, <2>2, AltersIntro, WithIsProvider DEF Maybe
  <2>. QED
    BY <1>1, <1>2, <1>4, <1>6, <2>1, <2>2, <2>3, WithIsProvider
<1>. QED
  BY <1>1, <1>5, <1>6

LEMMA ExchangesEffect ==
  ASSUME Shape, NEW c \in Calls, call[c] # None, call[c].sent # None, Exchanges(call[c].sent)
  PROVE  /\ Grew(grants[call[c].sent].user, grants[call[c].sent].host)
         /\ live' = (live \ {call[c].sent}) \cup {NewGrant}
BY SentFacts, IssuesEffect DEF Exchanges, Shape

LEMMA RefreshGrantedEffect ==
  ASSUME Shape, NEW c \in Calls, RefreshGranted(c)
  PROVE  /\ Alters(c) /\ GoesOn(c)
         /\ Refreshing(c) /\ call[c].stage = "refresh" /\ call[c].sent \in Known
         /\ Grew(grants[call[c].sent].user, grants[call[c].sent].host)
         /\ After(c).user = P(c).user /\ After(c).token = NewGrant /\ After(c).refresh = NewGrant
         /\ call'[c].stage = "me" /\ call'[c].sent = NewGrant
         /\ live' = (live \ {call[c].sent}) \cup {NewGrant}
         /\ UNCHANGED <<store, session, signedOut, windows>>
<1>1. call[c] # None /\ call[c].stage = "refresh"
  BY DEF RefreshGranted, At
<1>2. Refreshing(c) /\ call[c].sent # None /\ P(c) \in Providers
  BY <1>1, CallFacts DEF StageOK
<1>3. /\ Grew(grants[call[c].sent].user, grants[call[c].sent].host)
      /\ live' = (live \ {call[c].sent}) \cup {NewGrant}
  BY <1>1, <1>2, ExchangesEffect DEF RefreshGranted
<1>4. NewGrant \in Grants
  BY <1>3 DEF Grew
<1> DEFINE p == [P(c) EXCEPT !.token = NewGrant, !.refresh = NewGrant]
<1>5. /\ p \in Providers /\ p.host = P(c).host /\ p.user = P(c).user /\ p.token = NewGrant
      /\ p.refresh = NewGrant
  BY <1>2, <1>4 DEF Providers, Maybe
<1>6. PICK n \in CallRecords :
           /\ Starts(c, n) /\ n.stage = "me" /\ n.sent = NewGrant
           /\ n.kind = call[c].kind /\ n.slot = call[c].slot /\ n.user = call[c].user
           /\ n.had = call[c].had /\ n.prev = call[c].prev
  BY <1>1, <1>4, GoesEffect DEF RefreshGranted, Maybe
<1>7. Becomes(c, p) /\ current' = current
  BY DEF RefreshGranted
<1> HIDE DEF p
<1>8. Alters(c) /\ After(c) = p /\ call'[c] = n
  BY <1>1, <1>5, <1>6, <1>7, AltersIntro DEF Maybe
<1>9. GoesOn(c) /\ call[c].sent \in Known
  BY <1>1, <1>2, <1>6, <1>8, SentFacts DEF GoesOn
<1>. QED
  BY <1>1, <1>2, <1>3, <1>5, <1>6, <1>8, <1>9 DEF RefreshGranted

LEMMA AnswerEffect ==
  ASSUME Shape, NEW c \in Calls, RefreshEnds(c) \/ Verified(c)
  PROVE  /\ Alters(c) /\ Refreshing(c) /\ call[c].sent \in Known
         /\ call[c].stage = (IF RefreshEnds(c) THEN "me" ELSE "verify")
         /\ After(c).user \in {grants[call[c].sent].user, P(c).user}
         /\ call[c].stage = "verify" => After(c).user = grants[call[c].sent].user
         /\ After(c).token = P(c).token /\ After(c).refresh = P(c).refresh
         /\ call'[c] = None /\ store' = Persisted(After(c))
         /\ UNCHANGED <<server, signedOut, windows>>
<1>1. /\ call[c] # None /\ call[c].stage = (IF RefreshEnds(c) THEN "me" ELSE "verify")
      /\ Refreshing(c)
  BY CallFacts DEF RefreshEnds, Verified, At, Refreshing, StageOK
<1>2. call[c].sent # None /\ P(c) \in Providers
  BY <1>1, CallFacts DEF StageOK, Refreshing, Refreshes
<1>3. grants[call[c].sent].user \in Users /\ call[c].sent \in Known
  BY <1>1, <1>2, SentFacts
<1>4. /\ Starts(c, None) /\ current' = current /\ UNCHANGED <<server, signedOut, windows>>
  BY DEF RefreshEnds, Verified, Ends, Starts
<1>5. PICK user \in {grants[call[c].sent].user, P(c).user} :
        /\ Becomes(c, [P(c) EXCEPT !.user = user])
        /\ store' = Persisted([P(c) EXCEPT !.user = user])
        /\ call[c].stage = "verify" => user = grants[call[c].sent].user
  <2>1. CASE RefreshEnds(c)
    BY <1>1, <2>1 DEF RefreshEnds, Saves
  <2>2. CASE Verified(c)
    BY <1>1, <2>2 DEF Verified
  <2>. QED
    BY <2>1, <2>2
<1> DEFINE p == [P(c) EXCEPT !.user = user]
<1>6. /\ p \in Providers /\ p.host = P(c).host /\ p.user = user
      /\ p.token = P(c).token /\ p.refresh = P(c).refresh
  BY <1>2, <1>3 DEF Providers, Maybe
<1>7. Becomes(c, p) /\ store' = Persisted(p)
  BY <1>5
<1> HIDE DEF p
<1>8. Alters(c) /\ After(c) = p /\ call'[c] = None
  BY <1>1, <1>4, <1>6, <1>7, AltersIntro DEF Maybe
<1>. QED
  BY <1>1, <1>3, <1>4, <1>5, <1>6, <1>7, <1>8

\* A sign-out, and a refresh token that is not accepted.
LEMMA ClearsEffect ==
  ASSUME Shape, NEW c \in Calls, Rejected(c) \/ LogoutEnds(c)
  PROVE  /\ Alters(c) /\ call'[c] = None
         /\ After(c).user = None /\ After(c).token = None /\ After(c).refresh = None
         /\ store' = None /\ UNCHANGED <<grants, fresh, windows>> /\ live' \subseteq live
         /\ IF LogoutEnds(c) THEN call[c].kind = "logout" /\ signedOut' = TRUE
            ELSE /\ Refreshing(c) /\ call[c].stage = "refresh" /\ call[c].sent \notin live
                 /\ signedOut' = signedOut
<1>1. call[c] # None
  BY DEF Rejected, LogoutEnds, Running, At
<1>2. P(c) \in Providers
  BY <1>1, CallFacts
<1>3. Becomes(c, With(P(c), Empty)) /\ Starts(c, None) /\ current' = current
  BY DEF Rejected, LogoutEnds, Ends, Starts
<1>4. Alters(c) /\ After(c) = With(P(c), Empty) /\ call'[c] = None
  BY <1>1, <1>2, <1>3, AltersIntro, WithIsProvider, EmptyFacts DEF Maybe
<1>5. store' = None /\ UNCHANGED <<grants, fresh, windows>> /\ live' \subseteq live
  BY DEF Rejected, LogoutEnds, server
<1>6. IF LogoutEnds(c) THEN call[c].kind = "logout" /\ signedOut' = TRUE
      ELSE /\ Refreshing(c) /\ call[c].stage = "refresh" /\ call[c].sent \notin live
           /\ signedOut' = signedOut
  BY <1>1, CallFacts DEF Rejected, LogoutEnds, Running, At, StageOK, Refreshing
<1>. QED
  BY <1>2, <1>4, <1>5, <1>6, WithIsProvider, EmptyFacts

\* What a refresh starts with.
StartsRefresh(n, kind, slot) ==
  /\ n \in CallRecords /\ n.kind = kind /\ n.slot = slot
  /\ n.prev.user = None /\ n.prev.token = None /\ n.prev.refresh = None
  /\ \/ n.stage = "refresh" /\ n.sent = object[slot].refresh
     \/ n.stage = "verify" /\ n.sent = object[slot].token
  /\ n.sent # None

LEMMA RefreshCallFacts ==
  ASSUME NEW kind \in Refreshes, NEW slot \in Slots, object[slot] \in Providers,
         object[slot].token # None, NEW t \in Nat
  PROVE  /\ StartsRefresh(RefreshCall(kind, slot), kind, slot)
         /\ StartsRefresh([RefreshCall(kind, slot) EXCEPT !.tries = t], kind, slot)
<1>1. kind \in Kinds /\ object[slot].refresh \in Maybe(Grants) /\ object[slot].token \in Maybe(Grants)
  BY DEF Kinds, Refreshes, Providers
<1>2. Empty \in [user : Maybe(Users), token : Maybe(Grants), refresh : Maybe(Grants)]
  BY EmptyFacts
<1>3. ASSUME NEW stage \in {"refresh", "verify"}, NEW sent \in Maybe(Grants)
      PROVE  /\ NewCall(kind, slot, stage, sent) \in CallRecords
             /\ [NewCall(kind, slot, stage, sent) EXCEPT !.tries = t] \in CallRecords
  BY <1>1, <1>2 DEF NewCall, CallRecords, Maybe
<1>4. CASE object[slot].refresh # None
  <2>1. RefreshCall(kind, slot) = NewCall(kind, slot, "refresh", object[slot].refresh)
    BY <1>4 DEF RefreshCall
  <2>. QED
    BY <1>1, <1>3, <1>4, <2>1, EmptyFacts DEF StartsRefresh, NewCall
<1>5. CASE object[slot].refresh = None
  <2>1. RefreshCall(kind, slot) = NewCall(kind, slot, "verify", object[slot].token)
    BY <1>5 DEF RefreshCall
  <2>. QED
    BY <1>1, <1>3, <2>1, EmptyFacts DEF StartsRefresh, NewCall
<1>. QED
  BY <1>4, <1>5

LEMMA RefreshFailsEffect ==
  ASSUME Shape, NEW c \in Calls, RefreshFails(c)
  PROVE  /\ Alters(c) /\ Refreshing(c) /\ call[c].sent \in Known /\ After(c) = P(c)
         /\ UNCHANGED <<object, store, signedOut>> /\ windows \subseteq windows'
         /\ call[c].stage = "me" => UNCHANGED server /\ "not stored" \in windows'
         /\ \/ UNCHANGED server
            \/ /\ Grew(grants[call[c].sent].user, grants[call[c].sent].host)
               /\ live' = (live \ {call[c].sent}) \cup {NewGrant}
               /\ "lost answer" \in windows'
         /\ \/ call'[c] = None
            \/ /\ StartsRefresh(call'[c], "background", call[c].slot)
               /\ call[c].kind = "background" /\ P(c).user # None
<1>1. call[c] # None /\ Refreshing(c) /\ P(c) \in Providers
  BY CallFacts DEF RefreshFails, At, StageOK, Refreshing
<1>2. call[c].sent # None /\ call[c].slot \in Slots
  BY <1>1, CallFacts DEF StageOK, Refreshing, Refreshes
<1>3. call[c].sent \in Known
  BY <1>1, <1>2, SentFacts
<1>4. /\ UNCHANGED <<object, store, signedOut>> /\ current' = current /\ Becomes(c, P(c))
  BY <1>1, SameObjects DEF RefreshFails, Kept
<1>5. /\ windows \subseteq windows'
      /\ call[c].stage = "me" => UNCHANGED server /\ "not stored" \in windows'
      /\ \/ UNCHANGED server
         \/ /\ Grew(grants[call[c].sent].user, grants[call[c].sent].host)
            /\ live' = (live \ {call[c].sent}) \cup {NewGrant}
            /\ "lost answer" \in windows'
  <2>1. CASE Falls(When(At(c, "me"), "not stored")) /\ UNCHANGED server
    BY <1>1, <2>1 DEF Falls, When, At
  <2>2. CASE /\ At(c, "refresh") /\ call[c].sent \in live /\ Exchanges(call[c].sent)
             /\ Falls({"lost answer"})
    BY <1>1, <1>2, <2>2, ExchangesEffect DEF Falls, At
  <2>. QED
    BY <2>1, <2>2 DEF RefreshFails
<1>6. CASE Running(c, "background") /\ call[c].tries < MaxTries /\ Refreshable(P(c))
  <2> DEFINE n == [RefreshCall("background", call[c].slot) EXCEPT !.tries = call[c].tries + 1]
  <2>1. Starts(c, n)
    BY <1>6 DEF RefreshFails
  <2>2. call[c].tries + 1 \in Nat
    BY <1>1, CallFacts DEF CallRecords
  <2>3. StartsRefresh(n, "background", call[c].slot)
    BY <1>1, <1>2, <1>6, <2>2, RefreshCallFacts DEF P, Refreshable, Refreshes
  <2>4. n \in CallRecords
    BY <2>3 DEF StartsRefresh
  <2> HIDE DEF n
  <2>5. Alters(c) /\ After(c) = P(c) /\ call'[c] = n
    BY <1>1, <1>4, <2>1, <2>4, AltersIntro DEF Maybe
  <2>. QED
    BY <1>1, <1>3, <1>4, <1>5, <1>6, <2>3, <2>5 DEF Running, Refreshable
<1>7. CASE ~(Running(c, "background") /\ call[c].tries < MaxTries /\ Refreshable(P(c)))
  <2>1. Starts(c, None)
    BY <1>7 DEF RefreshFails, Ends, Starts
  <2>2. Alters(c) /\ After(c) = P(c) /\ call'[c] = None
    BY <1>1, <1>4, <2>1, AltersIntro DEF Maybe
  <2>. QED
    BY <1>1, <1>3, <1>4, <1>5, <2>2
<1>. QED
  BY <1>6, <1>7

\* A call is made on a provider, and nothing else changes.
Begins(c) ==
  /\ c \in Calls \ Under
  /\ call'[c] \in CallRecords /\ object[call'[c].slot] # None
  /\ call' \in [Calls -> Maybe(CallRecords)]
  /\ \A d \in Calls \ {c} : call'[d] = call[d]
  /\ UNCHANGED <<server, object, current, store, session, signedOut>>
  /\ windows \subseteq windows'

LEMMA BeginsIntro ==
  ASSUME Shape, NEW c \in Calls, Free(c), NEW n \in CallRecords, Starts(c, n),
         object[n.slot] # None,
         UNCHANGED <<server, object, current, store, session, signedOut>>,
         windows \subseteq windows'
  PROVE  Begins(c) /\ call'[c] = n
<1>1. call \in [Calls -> Maybe(CallRecords)] /\ c \in Calls \ Under
  BY DEF Shape, TypeOK, Free, Under
<1>2. /\ call' \in [Calls -> Maybe(CallRecords)] /\ call'[c] = n
      /\ \A d \in Calls \ {c} : call'[d] = call[d]
  BY <1>1 DEF Starts, Maybe
<1>. QED
  BY <1>1, <1>2 DEF Begins

\* The server's provider and the one AuthSession has are there.
LEMMA ObjectFacts ==
  ASSUME Shape, NEW slot \in {current, session.auth}, slot # None
  PROVE  slot \in Slots /\ object[slot] \in Providers /\ Holds(object[slot])
<1>1. slot \in Slots /\ object[slot] # None
  BY DEF Shape, TypeOK, Present, Maybe
<1>. QED
  BY <1>1 DEF Shape, TypeOK, Present, Maybe

LEMMA LoginStartsEffect ==
  ASSUME Shape, NEW c \in Calls, NEW u \in Users, NEW kind \in {"login", "oauth"},
         LoginStarts(c, u, kind)
  PROVE  /\ Begins(c) /\ current # None /\ ~InFlight({"login", "oauth"})
         /\ call'[c].kind = kind /\ call'[c].slot = current /\ call'[c].stage = "login"
         /\ call'[c].sent = None /\ call'[c].user = u
         /\ call'[c].had = IsLoggedIn(object[current]) /\ call'[c].prev = Of(object[current])
         /\ InFlight(Refreshes) => "login and refresh" \in windows'
         /\ InFlight({"logout"}) => "overtaken" \in windows'
<1> DEFINE n == [NewCall(kind, current, "login", None) EXCEPT
                   !.user = u, !.had = IsLoggedIn(object[current]), !.prev = Of(object[current])]
<1>1. Free(c) /\ current # None /\ ~InFlight({"login", "oauth"}) /\ Starts(c, n)
  BY DEF LoginStarts
<1>2. current \in Slots /\ object[current] \in Providers /\ object[current] # None
  BY <1>1, ObjectFacts, Constants
<1>3. Of(object[current]) \in [user : Maybe(Users), token : Maybe(Grants), refresh : Maybe(Grants)]
  BY <1>2 DEF Of, Providers
<1>4. IsLoggedIn(object[current]) \in BOOLEAN
  BY DEF IsLoggedIn
<1>5. kind \in Kinds
  BY DEF Kinds
<1>6. /\ n \in CallRecords /\ n.kind = kind /\ n.slot = current /\ n.stage = "login"
      /\ n.sent = None /\ n.user = u
      /\ n.had = IsLoggedIn(object[current]) /\ n.prev = Of(object[current])
  BY <1>2, <1>3, <1>4, <1>5 DEF NewCall, CallRecords, Maybe
<1>7. /\ UNCHANGED <<server, object, current, store, session, signedOut>>
      /\ windows \subseteq windows'
      /\ InFlight(Refreshes) => "login and refresh" \in windows'
      /\ InFlight({"logout"}) => "overtaken" \in windows'
  BY DEF LoginStarts, Falls, When
<1> HIDE DEF n
<1>8. Begins(c) /\ call'[c] = n
  BY <1>1, <1>2, <1>6, <1>7, BeginsIntro
<1>. QED
  BY <1>1, <1>6, <1>7, <1>8

LEMMA RefreshStartsEffect ==
  ASSUME Shape, NEW c \in Calls, NEW slot \in Slots, Background(c, slot) \/ (ReAuth(c) /\ slot = current)
  PROVE  /\ Begins(c) /\ call'[c].kind \in Refreshes
         /\ StartsRefresh(call'[c], call'[c].kind, slot)
         /\ slot \in Slots /\ object[slot] \in Providers /\ object[slot].user # None
         /\ slot # current => "replaced" \in windows'
         /\ InFlight(Refreshes) => "two refreshes" \in windows'
         /\ InFlight({"login", "oauth"}) => "login and refresh" \in windows'
         /\ InFlight({"logout"}) => "overtaken" \in windows'
<1>1. slot \in {current, session.auth} /\ slot # None
  BY Constants DEF Background, ReAuth
<1>2. slot \in Slots /\ object[slot] \in Providers /\ object[slot] # None
  BY <1>1, ObjectFacts, Constants
<1>3. object[slot].user # None /\ object[slot].token # None
  BY DEF Background, ReAuth, Refreshable
<1>4. PICK kind \in {"background", "direct"} : Free(c) /\ Starts(c, RefreshCall(kind, slot))
  BY DEF Background, ReAuth
<1>5. StartsRefresh(RefreshCall(kind, slot), kind, slot) /\ kind \in Refreshes
  BY <1>2, <1>3, <1>4, RefreshCallFacts DEF Refreshes
<1>6. /\ UNCHANGED <<server, object, current, store, session, signedOut>>
      /\ windows \subseteq windows'
      /\ slot # current => "replaced" \in windows'
  BY DEF Background, ReAuth, Falls, When
<1>7. /\ InFlight(Refreshes) => "two refreshes" \in windows'
      /\ InFlight({"login", "oauth"}) => "login and refresh" \in windows'
      /\ InFlight({"logout"}) => "overtaken" \in windows'
  BY DEF Background, ReAuth, Falls, When, RefreshOverlaps
<1> DEFINE n == RefreshCall(kind, slot)
<1>8. n \in CallRecords /\ n.slot = slot /\ n.kind = kind /\ object[n.slot] # None
  BY <1>2, <1>5 DEF StartsRefresh
<1>9. Free(c) /\ Starts(c, n) /\ StartsRefresh(n, kind, slot)
  BY <1>4, <1>5
<1> HIDE DEF n
<1>10. Begins(c) /\ call'[c] = n
  BY <1>6, <1>8, <1>9, BeginsIntro
<1>. QED
  BY <1>2, <1>3, <1>5, <1>6, <1>7, <1>8, <1>9, <1>10

LEMMA LogoutStartsEffect ==
  ASSUME Shape, NEW c \in Calls, LogoutStarts(c)
  PROVE  /\ Begins(c) /\ current # None /\ IsLoggedIn(object[current])
         /\ call'[c].kind = "logout" /\ call'[c].slot = current /\ call'[c].stage = "logout"
         /\ call'[c].sent = object[current].token /\ call'[c].prev = Empty
         /\ ~InFlight({"logout"}) /\ (InFlight(Kinds) => "overtaken" \in windows')
<1> DEFINE n == NewCall("logout", current, "logout", object[current].token)
<1>1. Free(c) /\ current # None /\ ~InFlight({"logout"}) /\ Starts(c, n) /\ IsLoggedIn(object[current])
  BY DEF LogoutStarts
<1>2. current \in Slots /\ object[current] \in Providers /\ object[current] # None
  BY <1>1, ObjectFacts, Constants
<1>3. /\ n \in CallRecords /\ n.kind = "logout" /\ n.slot = current /\ n.stage = "logout"
      /\ n.sent = object[current].token /\ n.prev = Empty
  BY <1>2, EmptyFacts DEF NewCall, CallRecords, Maybe, Kinds, Providers
<1>4. /\ UNCHANGED <<server, object, current, store, session, signedOut>>
      /\ windows \subseteq windows' /\ (InFlight(Kinds) => "overtaken" \in windows')
  BY DEF LogoutStarts, Falls, When
<1> HIDE DEF n
<1>5. Begins(c) /\ call'[c] = n
  BY <1>1, <1>2, <1>3, <1>4, BeginsIntro
<1>. QED
  BY <1>1, <1>3, <1>4, <1>5

-----------------------------------------------------------------------------
(* A provider that is made from what is stored.                            *)

LEMMA ProviderFacts ==
  ASSUME NEW h \in Hosts, NEW s \in Maybe(Session)
  PROVE  /\ Provider(h, s) \in Providers /\ Provider(h, s).host = h
         /\ s # None => Of(Provider(h, s)) = s
         /\ s = None => /\ Provider(h, s).user = None /\ Provider(h, s).token = None
                        /\ Provider(h, s).refresh = None
<1> DEFINE p == [host |-> h, user |-> None, token |-> None, refresh |-> None]
<1>1. p \in Providers /\ p.host = h
  BY DEF Providers, Maybe
<1> HIDE DEF p
<1>2. CASE s = None
  <2>1. Provider(h, s) = With(p, Empty)
    BY <1>2 DEF Provider, p
  <2>. QED
    BY <1>1, <1>2, <2>1, WithIsProvider, EmptyFacts
<1>3. CASE s # None
  <2>1. Provider(h, s) = With(p, s)
    BY <1>3 DEF Provider, p
  <2>2. s \in Session /\ s \in [user : Maybe(Users), token : Maybe(Grants), refresh : Maybe(Grants)]
    BY <1>3 DEF Session, Maybe
  <2>3. Of(With(p, s)) = s
    BY <2>2 DEF Of, With, Session
  <2>. QED
    BY <1>1, <1>3, <2>1, <2>2, <2>3, WithIsProvider
<1>. QED
  BY <1>2, <1>3

\* The provider of the host h in the slot goes on with the session s.
Takes(slot, h, s) ==
  /\ current' = slot
  /\ object' \in [Slots -> Maybe(Providers)]
  /\ object'[slot] \in Providers /\ object'[slot].host = h
  /\ \/ s \in Session /\ store' = s /\ Of(object'[slot]) = s
     \/ /\ store' = None /\ (s # None => s.refresh = None)
        /\ object'[slot].user = None /\ object'[slot].token = None /\ object'[slot].refresh = None

\* Where it needs one, the call c is its refresh.
TakesRefresh(c, slot, s) ==
  /\ s \in Session /\ s.refresh # None
  /\ call'[c] \in CallRecords /\ call'[c].kind = "restore" /\ call'[c].slot = slot
  /\ call'[c].stage = "refresh" /\ call'[c].sent = s.refresh
  /\ call'[c].prev.user = None /\ call'[c].prev.token = None /\ call'[c].prev.refresh = None

LEMMA RestoreCallFacts ==
  ASSUME NEW slot \in Slots, NEW s \in Session, s.refresh # None
  PROVE  /\ RestoreCall(slot, s) \in CallRecords /\ RestoreCall(slot, s).kind = "restore"
         /\ RestoreCall(slot, s).slot = slot /\ RestoreCall(slot, s).stage = "refresh"
         /\ RestoreCall(slot, s).sent = s.refresh /\ RestoreCall(slot, s).prev = Empty
BY EmptyFacts DEF RestoreCall, NewCall, CallRecords, Session, Maybe, Kinds

LEMMA MakesEffect ==
  ASSUME Shape, NEW slot \in Slots, NEW h \in Hosts, NEW s \in Maybe(Session), Makes(slot, h, s)
  PROVE  Takes(slot, h, s) /\ \A o \in Slots \ {slot} : object'[o] = object[o]
<1>1. PICK t \in {s, None} : t = (IF Usable(s) THEN s ELSE None)
  OBVIOUS
<1>2. t \in Maybe(Session)
  BY <1>1 DEF Maybe
<1>3. current' = slot /\ object' = [object EXCEPT ![slot] = Provider(h, t)] /\ store' = t
  BY <1>1 DEF Makes
<1>4. Provider(h, t) \in Maybe(Providers)
  BY <1>2, ProviderFacts DEF Maybe
<1>5. /\ object' \in [Slots -> Maybe(Providers)] /\ object'[slot] = Provider(h, t)
      /\ \A o \in Slots \ {slot} : object'[o] = object[o]
  BY <1>3, <1>4 DEF Shape, TypeOK
<1>6. t = None => s = None \/ s.refresh = None
  BY <1>1, <1>2, Constants DEF Usable, Maybe
<1>7. t # None => t = s /\ s \in Session
  BY <1>1 DEF Maybe
<1>. QED
  BY <1>2, <1>3, <1>5, <1>6, <1>7, ProviderFacts DEF Takes

\* No call, or the refresh alone.
CallAdded(slot, s) ==
  /\ call' \in [Calls -> Maybe(CallRecords)]
  /\ \/ UNCHANGED call
     \/ \E c \in Calls \ Under :
          TakesRefresh(c, slot, s) /\ \A d \in Calls \ {c} : call'[d] = call[d]

LEMMA CallAddedIntro ==
  ASSUME Shape, NEW slot \in Slots, NEW s \in Maybe(Session),
         IF NeedsRefresh(s) THEN \E c \in Calls : Free(c) /\ Starts(c, RestoreCall(slot, s))
         ELSE UNCHANGED call
  PROVE  CallAdded(slot, s)
<1>1. call \in [Calls -> Maybe(CallRecords)]
  BY DEF Shape, TypeOK
<1>2. CASE NeedsRefresh(s)
  <2>1. PICK c \in Calls : Free(c) /\ Starts(c, RestoreCall(slot, s))
    BY <1>2
  <2>2. s \in Session /\ s.refresh # None
    BY <1>2 DEF NeedsRefresh, Maybe
  <2> DEFINE n == RestoreCall(slot, s)
  <2>3. /\ n \in CallRecords /\ n.kind = "restore" /\ n.slot = slot /\ n.stage = "refresh"
        /\ n.sent = s.refresh /\ n.prev = Empty
    BY <2>2, RestoreCallFacts
  <2>4. c \in Calls \ Under /\ call' = [call EXCEPT ![c] = n]
    BY <2>1 DEF Free, Under, Starts
  <2> HIDE DEF n
  <2>5. /\ call' \in [Calls -> Maybe(CallRecords)] /\ call'[c] = n
        /\ \A d \in Calls \ {c} : call'[d] = call[d]
    BY <1>1, <2>3, <2>4 DEF Maybe
  <2>6. TakesRefresh(c, slot, s)
    BY <2>2, <2>3, <2>5, EmptyFacts DEF TakesRefresh
  <2>. QED
    BY <2>4, <2>5, <2>6 DEF CallAdded
<1>3. CASE ~NeedsRefresh(s)
  BY <1>1, <1>3 DEF CallAdded
<1>. QED
  BY <1>2, <1>3

LEMMA UpdateServerEffect ==
  ASSUME Shape, NEW slot \in Slots, NEW h \in Hosts, UpdateServer(slot, h)
  PROVE  /\ current # None /\ Unused(slot)
         /\ \E s \in {store, None} :
              /\ Takes(slot, h, s) /\ CallAdded(slot, s)
              /\ s # None => h = object[current].host
              /\ signedOut' = (signedOut \/ s # store)
         /\ \A o \in Slots \ {slot} : object'[o] = object[o]
         /\ InFlight(Kinds) => "overtaken" \in windows'
         /\ windows \subseteq windows' /\ UNCHANGED <<server, session>>
<1>1. Cleared(h) \in {store, None} /\ (Cleared(h) # None => h = object[current].host)
  BY DEF Cleared
<1>2. Cleared(h) \in Maybe(Session)
  BY <1>1 DEF Shape, TypeOK, Maybe
<1>3. Makes(slot, h, Cleared(h)) /\ current # None /\ Unused(slot)
  BY DEF UpdateServer
<1>4. Takes(slot, h, Cleared(h)) /\ \A o \in Slots \ {slot} : object'[o] = object[o]
  BY <1>2, <1>3, MakesEffect
<1>5. CallAdded(slot, Cleared(h))
  BY <1>2, CallAddedIntro DEF UpdateServer
<1>6. signedOut' = (signedOut \/ Cleared(h) # store)
  BY DEF UpdateServer
<1>7. /\ InFlight(Kinds) => "overtaken" \in windows'
      /\ windows \subseteq windows' /\ UNCHANGED <<server, session>>
  BY DEF UpdateServer, Falls, When
<1>. QED
  BY <1>1, <1>3, <1>4, <1>5, <1>6, <1>7

LEMMA AddServerEffect ==
  ASSUME Shape, NEW slot \in Slots, NEW h \in Hosts, AddServer(slot, h)
  PROVE  /\ current = None /\ Unused(slot)
         /\ Takes(slot, h, store) /\ CallAdded(slot, store)
         /\ \A o \in Slots \ {slot} : object'[o] = object[o]
         /\ UNCHANGED <<server, session, signedOut, windows>>
<1>1. store \in Maybe(Session)
  BY DEF Shape, TypeOK
<1>2. Takes(slot, h, store) /\ \A o \in Slots \ {slot} : object'[o] = object[o]
  BY <1>1, MakesEffect DEF AddServer
<1>3. CallAdded(slot, store)
  BY <1>1, CallAddedIntro DEF AddServer
<1>. QED
  BY <1>2, <1>3 DEF AddServer

LEMMA RestartEffect ==
  ASSUME Shape, NEW slot \in Slots, Restart(slot)
  PROVE  /\ current # None /\ current \in Slots /\ object[current] \in Providers
         /\ Takes(slot, object[current].host, store)
         /\ \A o \in Slots \ {slot} : object'[o] = None
         /\ call' \in [Calls -> Maybe(CallRecords)]
         /\ \A c \in Calls : call'[c] = None \/ TakesRefresh(c, slot, store)
         /\ \A c, d \in Calls : call'[c] # None /\ call'[d] # None => c = d
         /\ session' = [active |-> TRUE, auth |-> slot, restored |-> ~NeedsRefresh(store),
                        user |-> IF store # None /\ store.token \in fresh THEN store.user ELSE None]
         /\ windows \subseteq windows' /\ UNCHANGED <<server, signedOut>>
         /\ (\E c \in Under : Refreshing(c) /\ call[c].stage = "me") => "not stored" \in windows'
<1> DEFINE h == object[current].host
           first == CHOOSE c \in Calls : \A d \in Calls : c <= d
           t == IF Usable(store) THEN store ELSE None
<1>1. current # None /\ current \in Slots /\ object[current] \in Providers /\ h \in Hosts
  BY ObjectFacts DEF Restart, Providers
<1>2. store \in Maybe(Session) /\ t \in Maybe(Session)
  BY DEF Shape, TypeOK, Maybe
<1>3. /\ current' = slot /\ store' = t
      /\ object' = [o \in Slots |-> IF o = slot THEN Provider(h, t) ELSE None]
      /\ call' = [c \in Calls |->
           IF c = first /\ NeedsRefresh(store) THEN RestoreCall(slot, store) ELSE None]
      /\ session' = [active |-> TRUE, auth |-> slot, restored |-> ~NeedsRefresh(store),
                     user |-> IF store # None /\ store.token \in fresh THEN store.user ELSE None]
      /\ windows \subseteq windows' /\ UNCHANGED <<server, signedOut>>
  BY DEF Restart, Falls
<1>4. t = None => store = None \/ store.refresh = None
  BY <1>2, Constants DEF Usable, Maybe
<1>5. t # None => t = store /\ store \in Session
  BY <1>2 DEF Maybe
<1> HIDE DEF t, first
<1>6. Provider(h, t) \in Maybe(Providers)
  BY <1>1, <1>2, ProviderFacts DEF Maybe
<1>7. /\ object' \in [Slots -> Maybe(Providers)] /\ object'[slot] = Provider(h, t)
      /\ \A o \in Slots \ {slot} : object'[o] = None
  BY <1>3, <1>6 DEF Maybe
<1>8. Takes(slot, h, store)
  BY <1>1, <1>2, <1>3, <1>4, <1>5, <1>7, ProviderFacts DEF Takes
<1>9. ASSUME NEW c \in Calls, call'[c] # None
      PROVE  c = first /\ call'[c] \in CallRecords /\ TakesRefresh(c, slot, store)
  <2>1. c = first /\ NeedsRefresh(store) /\ call'[c] = RestoreCall(slot, store)
    BY <1>3, <1>9
  <2>2. store \in Session /\ store.refresh # None
    BY <1>2, <2>1 DEF NeedsRefresh, Maybe
  <2>. QED
    BY <2>1, <2>2, RestoreCallFacts, EmptyFacts DEF TakesRefresh
<1>10. call' \in [Calls -> Maybe(CallRecords)]
  BY <1>3, <1>9 DEF Maybe
<1>11. (\E c \in Under : Refreshing(c) /\ call[c].stage = "me") => "not stored" \in windows'
  BY DEF Restart, Falls, When, At, Under, Refreshing
<1>. QED
  BY <1>1, <1>3, <1>7, <1>8, <1>9, <1>10, <1>11

-----------------------------------------------------------------------------
(* Types are kept, and no token that was issued changes.                   *)

\* What the servers issued stays as it is.
Keeps ==
  /\ grants' \in Seq([user : Users, host : Hosts]) /\ Len(grants') <= MaxGrants
  /\ Known \subseteq 1..Len(grants')
  /\ \A g \in Known : grants'[g] = grants[g]

ServersKept ==
  Keeps /\ live' \subseteq 1..Len(grants') /\ fresh' \subseteq 1..Len(grants')

LEMMA GrewKeeps ==
  ASSUME Shape, NEW u, NEW h, Grew(u, h), live' \subseteq live \cup {NewGrant}
  PROVE  ServersKept /\ NewGrant \in 1..Len(grants') /\ NewGrant # None
<1>1. /\ grants' \in Seq([user : Users, host : Hosts]) /\ Len(grants') <= MaxGrants
      /\ Len(grants') = Len(grants) + 1 /\ NewGrant = Len(grants) + 1
      /\ \A g \in Known : grants'[g] = grants[g]
      /\ fresh' \subseteq 1..Len(grants')
  BY DEF Grew, NewGrant
<1>2. Len(grants) \in Nat
  BY DEF Shape, TypeOK
<1>3. /\ \A g \in 1..Len(grants) : g \in 1..(Len(grants) + 1)
      /\ Len(grants) + 1 \in 1..(Len(grants) + 1)
  BY <1>2
<1>4. Known \subseteq 1..Len(grants') /\ NewGrant \in 1..Len(grants')
  BY <1>1, <1>3 DEF Known
<1>5. live \subseteq Known
  BY DEF Shape, TypeOK
<1>6. NewGrant # None
  BY <1>1, <1>2, Constants
<1>. QED
  BY <1>1, <1>4, <1>5, <1>6 DEF ServersKept, Keeps

LEMMA SameKeeps ==
  ASSUME Shape, UNCHANGED grants, live' \subseteq live, fresh' \subseteq fresh
  PROVE  ServersKept
<1>1. /\ grants' \in Seq([user : Users, host : Hosts]) /\ Len(grants') <= MaxGrants
      /\ live' \subseteq Known /\ fresh' \subseteq Known
  BY DEF Shape, TypeOK
<1>. QED
  BY <1>1 DEF ServersKept, Keeps, Known

LEMMA WithinKept ==
  ASSUME NEW s, Holds(s), Keeps
  PROVE  Within(Len(grants'), s)
BY DEF Holds, Within, Keeps, Known, Maybe

LEMMA NothingWithin ==
  ASSUME NEW s, s.token = None, s.refresh = None, NEW n
  PROVE  Within(n, s)
BY DEF Within, Maybe

SessionTyped ==
  /\ session' \in [active : BOOLEAN, auth : Maybe(Slots), user : Maybe(Users), restored : BOOLEAN]
  /\ session'.auth # None => object'[session'.auth] # None

\* One call has moved.
LEMMA ShapeAlters ==
  ASSUME Shape, ServersKept, NEW c \in Calls, Alters(c), SessionTyped,
         store' \in Maybe(Session), store' # None => Within(Len(grants'), store'),
         signedOut' \in BOOLEAN, Within(Len(grants'), After(c)),
         call'[c] # None =>
           /\ call'[c].slot = call[c].slot /\ StageOK(c)'
           /\ Within(Len(grants'), call'[c].prev) /\ call'[c].sent \in Maybe(1..Len(grants'))
  PROVE  Shape'
<1>1. c \in Under /\ call[c] # None
  BY DEF Alters, Under
<1>2. call[c].slot \in Slots /\ After(c) \in Providers /\ After(c) # None
  BY <1>1, CallFacts, Constants DEF Alters
<1>3. /\ object' \in [Slots -> Maybe(Providers)] /\ call' \in [Calls -> Maybe(CallRecords)]
      /\ current' = current
      /\ \A o \in Slots \ {call[c].slot} : object'[o] = object[o]
      /\ \A d \in Calls \ {c} : call'[d] = call[d]
      /\ object'[call[c].slot] # None
  BY <1>2 DEF Alters, After
<1>4. TypeOK'
  BY <1>3 DEF Shape, TypeOK, ServersKept, Keeps, Known, SessionTyped
<1>5. \A o \in Slots : object[o] # None => object'[o] # None
  BY <1>3
<1>6. \A o \in Slots : object'[o] # None => Within(Len(grants'), object'[o])
  <2>1. ASSUME NEW o \in Slots, object'[o] # None
        PROVE  Within(Len(grants'), object'[o])
    <3>1. CASE o = call[c].slot
      BY <3>1 DEF After
    <3>2. CASE o # call[c].slot
      <4>1. object'[o] = object[o] /\ Holds(object[o])
        BY <1>3, <2>1, <3>2 DEF Shape, Present
      <4>. QED
        BY <4>1, WithinKept DEF ServersKept
    <3>. QED
      BY <3>1, <3>2
  <2>. QED
    BY <2>1
<1>7. ASSUME NEW d \in Calls, call'[d] # None
      PROVE  /\ object'[call'[d].slot] # None /\ StageOK(d)'
             /\ Within(Len(grants'), call'[d].prev) /\ call'[d].sent \in Maybe(1..Len(grants'))
  <2>1. CASE d = c
    BY <1>3, <1>7, <2>1
  <2>2. CASE d # c
    <3>1. call'[d] = call[d] /\ call[d] # None
      BY <1>3, <1>7, <2>2
    <3>2. /\ StageOK(d) /\ call[d].slot \in Slots /\ Holds(call[d].prev)
          /\ object[call[d].slot] # None /\ call[d].sent \in Maybe(Known)
      BY <3>1, CallFacts DEF Shape, Present, Under
    <3>3. StageOK(d)'
      BY <3>1, <3>2 DEF StageOK, Refreshing
    <3>. QED
      BY <1>5, <3>1, <3>2, <3>3, WithinKept DEF ServersKept, Keeps, Maybe
  <2>. QED
    BY <2>1, <2>2
<1>8. Present'
  <2>1. current' # None => object'[current'] # None
    BY <1>3, <1>5 DEF Shape, TypeOK, Present, Maybe
  <2>. QED
    BY <1>6, <1>7, <2>1 DEF Present, Under, Holds, Known, SessionTyped
<1>. QED
  BY <1>4, <1>7, <1>8 DEF Shape, Under

\* A call has begun.
LEMMA ShapeBegins ==
  ASSUME Shape, NEW c \in Calls, Begins(c), StageOK(c)',
         Holds(call'[c].prev), call'[c].sent \in Maybe(Known)
  PROVE  Shape' /\ ServersKept
<1>1. /\ UNCHANGED <<grants, live, fresh, object, current, store, session, signedOut>>
      /\ call' \in [Calls -> Maybe(CallRecords)] /\ object'[call'[c].slot] # None
      /\ \A d \in Calls \ {c} : call'[d] = call[d]
  BY DEF Begins, server
<1>2. ServersKept
  BY <1>1, SameKeeps
<1>3. TypeOK'
  BY <1>1 DEF Shape, TypeOK, Known
<1>4. ASSUME NEW d \in Calls, call'[d] # None
      PROVE  /\ object'[call'[d].slot] # None /\ StageOK(d)'
             /\ Holds(call'[d].prev) /\ call'[d].sent \in Maybe(Known)
  <2>1. CASE d = c
    BY <1>1, <2>1
  <2>2. CASE d # c
    <3>1. call'[d] = call[d] /\ call[d] # None
      BY <1>1, <1>4, <2>2
    <3>2. StageOK(d) /\ object[call[d].slot] # None /\ Holds(call[d].prev) /\ call[d].sent \in Maybe(Known)
      BY <3>1 DEF Shape, Present, Under
    <3>. QED
      BY <1>1, <3>1, <3>2 DEF StageOK, Refreshing
  <2>. QED
    BY <2>1, <2>2
<1>5. Present'
  BY <1>1, <1>4 DEF Shape, Present, Under, Holds, Known
<1>. QED
  BY <1>2, <1>3, <1>4, <1>5 DEF Shape, Under

\* A new provider was made.
LEMMA ShapeTakes ==
  ASSUME Shape, NEW slot \in Slots, NEW h, NEW s \in Maybe(Session), s # None => Holds(s),
         Takes(slot, h, s), UNCHANGED server, SessionTyped, signedOut' \in BOOLEAN,
         \A o \in Slots \ {slot} : object'[o] \in {object[o], None},
         call' \in [Calls -> Maybe(CallRecords)],
         \A c \in Calls : \/ call'[c] = None
                          \/ call'[c] = call[c] /\ object'[call[c].slot] # None
                          \/ TakesRefresh(c, slot, s)
  PROVE  Shape' /\ ServersKept
<1>1. UNCHANGED <<grants, live, fresh>> /\ ServersKept
  BY SameKeeps DEF server
<1>2. /\ current' = slot /\ object' \in [Slots -> Maybe(Providers)]
      /\ object'[slot] \in Providers /\ object'[slot] # None
      /\ store' \in Maybe(Session) /\ (store' # None => Holds(store'))
  BY Constants DEF Takes, Maybe
<1>3. TypeOK'
  BY <1>1, <1>2 DEF Shape, TypeOK, Known, SessionTyped, Maybe
<1>4. Holds(object'[slot])
  <2>1. CASE s \in Session /\ Of(object'[slot]) = s
    <3>1. s # None
      BY <2>1, Constants
    <3>2. object'[slot].token = s.token /\ object'[slot].refresh = s.refresh
      BY <1>2, <2>1 DEF Of, Session, Providers
    <3>. QED
      BY <3>1, <3>2 DEF Holds, Within
  <2>2. CASE object'[slot].token = None /\ object'[slot].refresh = None
    BY <2>2, NothingWithin DEF Holds
  <2>. QED
    BY <2>1, <2>2 DEF Takes
<1>5. \A o \in Slots : object'[o] # None => Holds(object'[o])
  BY <1>4 DEF Shape, Present
<1>6. ASSUME NEW c \in Calls, call'[c] # None
      PROVE  /\ object'[call'[c].slot] # None /\ StageOK(c)'
             /\ Holds(call'[c].prev) /\ call'[c].sent \in Maybe(Known)
  <2>1. CASE call'[c] = call[c] /\ object'[call[c].slot] # None
    <3>1. StageOK(c) /\ Holds(call[c].prev) /\ call[c].sent \in Maybe(Known)
      BY <1>6, <2>1, CallFacts
    <3>. QED
      BY <2>1, <3>1 DEF StageOK, Refreshing
  <2>2. CASE TakesRefresh(c, slot, s)
    <3>1. /\ s # None /\ call'[c].kind = "restore" /\ call'[c].slot = slot
          /\ call'[c].stage = "refresh" /\ call'[c].sent = s.refresh /\ s.refresh # None
          /\ call'[c].prev.token = None /\ call'[c].prev.refresh = None
      BY <2>2, Constants DEF TakesRefresh
    <3>2. Holds(call'[c].prev) /\ s.refresh \in Maybe(Known)
      BY <3>1, NothingWithin DEF Holds, Within, Known
    <3>3. StageOK(c)'
      BY <3>1 DEF StageOK, Refreshing, Refreshes
    <3>. QED
      BY <1>2, <3>1, <3>2, <3>3
  <2>. QED
    BY <1>6, <2>1, <2>2
<1>7. Present'
  BY <1>1, <1>2, <1>5, <1>6 DEF Present, Under, Holds, Known, SessionTyped
<1>. QED
  BY <1>1, <1>3, <1>6, <1>7 DEF Shape, Under

Sessions == [active : BOOLEAN, auth : Maybe(Slots), user : Maybe(Users), restored : BOOLEAN]

LEMMA SessionAfter ==
  ASSUME Shape, NEW c \in Calls, Alters(c), session' \in Sessions,
         session'.auth \in {session.auth, current, call[c].slot}
  PROVE  SessionTyped
<1>1. call[c] # None /\ object[call[c].slot] # None
  BY DEF Alters, Under, Shape, Present
<1>2. \A o \in Slots : object[o] # None => object'[o] # None
  BY Constants DEF Alters, After
<1>3. session'.auth # None => session'.auth \in Slots /\ object[session'.auth] # None
  BY <1>1 DEF Sessions, Maybe, Shape, Present
<1>. QED
  BY <1>2, <1>3 DEF SessionTyped, Sessions

LEMMA UserOfFact ==
  ASSUME Shape, NEW slot \in {current, session.auth} \cup {call[c].slot : c \in Under}
  PROVE  UserOf(slot) \in Maybe(Users)
<1>1. slot # None => object[slot] \in Providers
  BY CallFacts, ObjectFacts DEF P, Under
<1>. QED
  BY <1>1 DEF UserOf, Providers, Maybe

LEMMA SameSession ==
  ASSUME Shape, NEW c \in Calls, Alters(c), UNCHANGED session
  PROVE  SessionTyped
BY SessionAfter DEF Shape, TypeOK, Sessions

LEMMA SessionMoves ==
  ASSUME Shape, NEW c \in Calls, Alters(c),
         \/ LoginEnds(c) \/ OAuthEnds(c) \/ RefreshEnds(c) \/ Verified(c) \/ Rejected(c)
         \/ RefreshFails(c) \/ LogoutEnds(c)
  PROVE  SessionTyped
<1>1. session \in Sessions /\ session.auth \in {session.auth, current, call[c].slot}
  BY DEF Shape, TypeOK, Sessions
<1>2. /\ current \in Maybe(Slots) /\ call[c].slot \in Slots /\ P(c) \in Providers /\ c \in Under
      /\ UserOf(current) \in Maybe(Users) /\ UserOf(call[c].slot) \in Maybe(Users)
      /\ After(c).user \in Maybe(Users)
  BY CallFacts, UserOfFact DEF Shape, TypeOK, Alters, Under, Providers
<1>3. ASSUME NEW u \in Maybe(Users), session' = RestoreEnds(c, u)
      PROVE  SessionTyped
  <2>1. session' \in Sessions /\ session'.auth = session.auth
    BY <1>1, <1>3 DEF RestoreEnds, Sessions
  <2>. QED
    BY <2>1, SessionAfter
<1>4. CASE LoginEnds(c)
  <2>1. session' \in Sessions /\ session'.auth \in {session.auth, current}
    BY <1>1, <1>2, <1>4 DEF LoginEnds, Sessions, Maybe
  <2>. QED
    BY <2>1, SessionAfter
<1>5. CASE OAuthEnds(c)
  <2>1. call[c].user \in Maybe(Users)
    BY <1>2, CallFacts DEF Under, CallRecords
  <2>2. session' \in Sessions /\ session'.auth \in {session.auth, call[c].slot}
    BY <1>1, <1>2, <1>5, <2>1 DEF OAuthEnds, Sessions, Maybe
  <2>. QED
    BY <2>2, SessionAfter
<1>6. CASE RefreshEnds(c)
  <2>1. PICK user \in {grants[call[c].sent].user, P(c).user} :
          /\ Becomes(c, [P(c) EXCEPT !.user = user])
          /\ session' = RestoreEnds(c, [P(c) EXCEPT !.user = user].user)
    BY <1>6 DEF RefreshEnds
  <2>2. [P(c) EXCEPT !.user = user].user = user
    BY <1>2 DEF Providers
  <2>3. call[c].sent # None
    BY <1>2, <1>6, CallFacts DEF RefreshEnds, Under, At, StageOK, Refreshing, Refreshes
  <2>4. user \in Maybe(Users)
    BY <1>2, <2>3, SentFacts DEF Under, Providers, Maybe
  <2>. QED
    BY <1>3, <2>1, <2>2, <2>4
<1>7. CASE Verified(c)
  BY <1>7, SameSession DEF Verified
<1>8. CASE Rejected(c)
  <2>1. session' \in Sessions /\ session'.auth = session.auth
    BY <1>1, <1>8 DEF Rejected, Expired, Sessions, Running, Maybe
  <2>. QED
    BY <2>1, SessionAfter
<1>9. CASE RefreshFails(c)
  <2>1. UNCHANGED session \/ session' = RestoreEnds(c, UserOf(call[c].slot))
    BY <1>9 DEF RefreshFails
  <2>. QED
    BY <1>2, <1>3, <2>1, SameSession
<1>10. CASE LogoutEnds(c)
  <2>1. session' \in Sessions /\ session'.auth = session.auth
    BY <1>1, <1>10 DEF LogoutEnds, Sessions, Maybe
  <2>. QED
    BY <2>1, SessionAfter
<1>. QED
  BY <1>4, <1>5, <1>6, <1>7, <1>8, <1>9, <1>10

\* What is stored is kept, dropped, or is what the provider has.
Stores(c) ==
  \/ store' \in {store, None}
  \/ store' = Of(After(c)) /\ After(c).user # None /\ After(c).token # None

LEMMA StoresTyped ==
  ASSUME Shape, NEW c \in Calls, Alters(c), Stores(c), Keeps, Within(Len(grants'), After(c))
  PROVE  store' \in Maybe(Session) /\ (store' # None => Within(Len(grants'), store'))
<1>1. store \in Maybe(Session) /\ (store # None => Within(Len(grants'), store))
  BY WithinKept DEF Shape, TypeOK, Present
<1>2. CASE store' \in {store, None}
  BY <1>1, <1>2 DEF Maybe
<1>3. CASE store' = Of(After(c)) /\ After(c).user # None /\ After(c).token # None
  <2>1. /\ Of(After(c)) \in Session /\ Of(After(c)).token = After(c).token
        /\ Of(After(c)).refresh = After(c).refresh
    BY <1>3 DEF Alters, Of, Session, Providers, Maybe
  <2>. QED
    BY <1>3, <2>1 DEF Within, Maybe
<1>. QED
  BY <1>2, <1>3 DEF Stores

\* The tokens after a step are those there were, or new ones.
LEMMA TokensWithin ==
  ASSUME Shape, NEW c \in Calls, call[c] # None, ServersKept, NEW p,
         {p.token, p.refresh} \subseteq
           Maybe({P(c).token, P(c).refresh, call[c].prev.token, call[c].prev.refresh}
                 \cup {g \in {NewGrant} : g \in 1..Len(grants')})
  PROVE  Within(Len(grants'), p)
<1>1. Within(Len(grants'), P(c)) /\ Within(Len(grants'), call[c].prev)
  BY CallFacts, WithinKept DEF ServersKept
<1>. QED
  BY <1>1 DEF Within, Maybe

LEMMA ShapeSigning ==
  ASSUME Shape, NEW c \in Calls,
         \/ LoginGranted(c) \/ LoginConfirmed(c) \/ LoginEnds(c) \/ OAuthEnds(c) \/ LoginFails(c)
  PROVE  Shape' /\ ServersKept /\ Alters(c) /\ Stores(c) /\ UNCHANGED windows
<1>1. CASE LoginGranted(c)
  <2>1. /\ Alters(c) /\ GoesOn(c) /\ Grew(call[c].user, P(c).host)
        /\ call[c].kind = "login" /\ call[c] # None
        /\ After(c).token = NewGrant /\ After(c).refresh \in {NewGrant, None}
        /\ call'[c].stage = "me" /\ call'[c].sent = NewGrant
        /\ live' \subseteq live \cup {NewGrant}
        /\ UNCHANGED <<store, session, signedOut, windows>>
    BY <1>1, LoginGrantedEffect DEF Alters, Under
  <2>2. ServersKept /\ NewGrant \in 1..Len(grants') /\ NewGrant # None
    BY <2>1, GrewKeeps
  <2>3. Within(Len(grants'), After(c)) /\ Within(Len(grants'), call[c].prev)
    BY <2>1, <2>2, TokensWithin, CallFacts, WithinKept DEF Maybe, ServersKept
  <2>4. Stores(c) /\ SessionTyped
    BY <2>1, SameSession DEF Stores
  <2>5. StageOK(c)'
    <3>1. call[c].user \in Users
      BY <2>1, CallFacts DEF StageOK, Refreshing, Refreshes
    <3>. QED
      BY <2>1, <2>2, <3>1 DEF GoesOn, StageOK
  <2>6. Shape'
    BY <2>1, <2>2, <2>3, <2>4, <2>5, StoresTyped, ShapeAlters DEF GoesOn, ServersKept, Maybe, Shape, TypeOK
  <2>. QED
    BY <2>1, <2>2, <2>4, <2>6
<1>2. CASE LoginConfirmed(c)
  <2>1. /\ Alters(c) /\ GoesOn(c) /\ call[c].kind = "login" /\ call[c] # None
        /\ After(c).token = P(c).token /\ After(c).refresh = P(c).refresh
        /\ call'[c].stage = "settings" /\ call'[c].sent = None
        /\ store' = Persisted(After(c)) /\ signedOut' \in BOOLEAN
        /\ UNCHANGED <<server, session, windows>>
    BY <1>2, LoginConfirmedEffect DEF Alters, Under
  <2>2. ServersKept
    BY <2>1, SameKeeps DEF server
  <2>3. Within(Len(grants'), After(c)) /\ Within(Len(grants'), call[c].prev)
    BY <2>1, <2>2, TokensWithin, CallFacts, WithinKept DEF Maybe, ServersKept
  <2>4. Stores(c) /\ SessionTyped
    BY <2>1, SameSession DEF Stores, Persisted
  <2>5. call[c].user \in Users
    BY <1>2, <2>1, CallFacts, LoginConfirmedEffect DEF StageOK, Refreshing, Refreshes
  <2>6. StageOK(c)'
    BY <2>1, <2>2, <2>5 DEF GoesOn, StageOK
  <2>7. Shape'
    BY <2>1, <2>2, <2>3, <2>4, <2>6, StoresTyped, ShapeAlters DEF GoesOn, ServersKept, Maybe
  <2>. QED
    BY <2>1, <2>2, <2>4, <2>7
<1>3. CASE LoginEnds(c)
  <2>1. /\ Alters(c) /\ After(c) = P(c) /\ call'[c] = None /\ call[c] # None
        /\ UNCHANGED <<server, object, store, signedOut, windows>>
    BY <1>3, LoginEndsEffect DEF Alters, Under
  <2>2. ServersKept
    BY <2>1, SameKeeps DEF server
  <2>3. Within(Len(grants'), After(c))
    BY <2>1, <2>2, CallFacts, WithinKept DEF ServersKept
  <2>4. Stores(c) /\ SessionTyped
    BY <1>3, <2>1, SessionMoves DEF Stores
  <2>5. Shape'
    BY <2>1, <2>2, <2>3, <2>4, StoresTyped, ShapeAlters DEF ServersKept, Shape, TypeOK
  <2>. QED
    BY <2>1, <2>2, <2>4, <2>5
<1>4. CASE OAuthEnds(c)
  <2>1. /\ Alters(c) /\ Grew(call[c].user, P(c).host) /\ call[c] # None
        /\ After(c).user = call[c].user /\ call[c].user \in Users /\ After(c).token = NewGrant
        /\ After(c).refresh \in {NewGrant, None} /\ call'[c] = None
        /\ live' \subseteq live \cup {NewGrant}
        /\ store' = Of(After(c)) /\ signedOut' \in BOOLEAN /\ UNCHANGED windows
    BY <1>4, OAuthEndsEffect DEF Alters, Under
  <2>2. ServersKept /\ NewGrant \in 1..Len(grants') /\ NewGrant # None
    BY <2>1, GrewKeeps
  <2>3. Within(Len(grants'), After(c))
    BY <2>1, <2>2, TokensWithin DEF Maybe
  <2>4. Stores(c) /\ SessionTyped
    BY <1>4, <2>1, <2>2, SessionMoves, Constants DEF Stores
  <2>5. Shape'
    BY <2>1, <2>2, <2>3, <2>4, StoresTyped, ShapeAlters DEF ServersKept
  <2>. QED
    BY <2>1, <2>2, <2>4, <2>5
<1>5. CASE LoginFails(c)
  <2>1. /\ Alters(c) /\ call'[c] = None /\ call[c] # None /\ store' \in {store, None}
        /\ {After(c).token, After(c).refresh}
             \subseteq Maybe({P(c).refresh, call[c].prev.token, call[c].prev.refresh})
        /\ UNCHANGED <<server, session, signedOut, windows>>
    BY <1>5, LoginFailsEffect DEF Alters, Under, Maybe
  <2>2. ServersKept
    BY <2>1, SameKeeps DEF server
  <2>3. Within(Len(grants'), After(c))
    BY <2>1, <2>2, TokensWithin DEF Maybe
  <2>4. Stores(c) /\ SessionTyped
    BY <2>1, SameSession DEF Stores
  <2>5. Shape'
    BY <2>1, <2>2, <2>3, <2>4, StoresTyped, ShapeAlters DEF ServersKept, Shape, TypeOK
  <2>. QED
    BY <2>1, <2>2, <2>4, <2>5
<1>. QED
  BY <1>1, <1>2, <1>3, <1>4, <1>5

LEMMA ShapeRefreshing ==
  ASSUME Shape, NEW c \in Calls,
         \/ RefreshGranted(c) \/ RefreshEnds(c) \/ Verified(c) \/ Rejected(c) \/ RefreshFails(c)
         \/ LogoutEnds(c)
  PROVE  Shape' /\ ServersKept /\ Alters(c) /\ Stores(c) /\ windows \subseteq windows'
<1>1. CASE RefreshGranted(c)
  <2>1. /\ Alters(c) /\ GoesOn(c) /\ Refreshing(c) /\ call[c] # None
        /\ Grew(grants[call[c].sent].user, grants[call[c].sent].host)
        /\ After(c).token = NewGrant /\ After(c).refresh = NewGrant
        /\ call'[c].stage = "me" /\ call'[c].sent = NewGrant
        /\ live' = (live \ {call[c].sent}) \cup {NewGrant}
        /\ UNCHANGED <<store, session, signedOut, windows>>
    BY <1>1, RefreshGrantedEffect DEF Alters, Under
  <2>2. ServersKept /\ NewGrant \in 1..Len(grants') /\ NewGrant # None
    <3>1. live' \subseteq live \cup {NewGrant}
      BY <2>1
    <3>. QED
      BY <2>1, <3>1, GrewKeeps
  <2>3. Within(Len(grants'), After(c)) /\ Within(Len(grants'), call[c].prev)
    BY <2>1, <2>2, TokensWithin, CallFacts, WithinKept DEF Maybe, ServersKept
  <2>4. Stores(c) /\ SessionTyped
    BY <2>1, SameSession DEF Stores
  <2>5. StageOK(c)'
    BY <2>1, <2>2 DEF GoesOn, StageOK, Refreshing
  <2>6. Shape'
    BY <2>1, <2>2, <2>3, <2>4, <2>5, StoresTyped, ShapeAlters DEF GoesOn, ServersKept, Maybe, Shape, TypeOK
  <2>. QED
    BY <2>1, <2>2, <2>4, <2>6
<1>2. CASE RefreshEnds(c) \/ Verified(c)
  <2>1. /\ Alters(c) /\ call[c] # None /\ call'[c] = None
        /\ After(c).token = P(c).token /\ After(c).refresh = P(c).refresh
        /\ store' = Persisted(After(c)) /\ UNCHANGED <<server, signedOut, windows>>
    BY <1>2, AnswerEffect DEF Alters, Under
  <2>2. ServersKept
    BY <2>1, SameKeeps DEF server
  <2>3. Within(Len(grants'), After(c))
    BY <2>1, <2>2, TokensWithin DEF Maybe
  <2>4. Stores(c) /\ SessionTyped
    BY <1>2, <2>1, SessionMoves DEF Stores, Persisted
  <2>5. Shape'
    BY <2>1, <2>2, <2>3, <2>4, StoresTyped, ShapeAlters DEF ServersKept, Shape, TypeOK
  <2>. QED
    BY <2>1, <2>2, <2>4, <2>5
<1>3. CASE Rejected(c) \/ LogoutEnds(c)
  <2>1. /\ Alters(c) /\ call[c] # None /\ call'[c] = None
        /\ After(c).token = None /\ After(c).refresh = None
        /\ store' = None /\ UNCHANGED <<grants, fresh, windows>> /\ live' \subseteq live
        /\ signedOut' \in BOOLEAN
    BY <1>3, ClearsEffect DEF Alters, Under, Shape, TypeOK
  <2>2. ServersKept
    BY <2>1, SameKeeps
  <2>3. Within(Len(grants'), After(c))
    BY <2>1, NothingWithin
  <2>4. Stores(c) /\ SessionTyped
    BY <1>3, <2>1, SessionMoves DEF Stores
  <2>5. Shape'
    BY <2>1, <2>2, <2>3, <2>4, StoresTyped, ShapeAlters DEF ServersKept
  <2>. QED
    BY <2>1, <2>2, <2>4, <2>5
<1>4. CASE RefreshFails(c)
  <2>1. /\ Alters(c) /\ Refreshing(c) /\ call[c] # None /\ After(c) = P(c)
        /\ UNCHANGED <<store, signedOut>> /\ windows \subseteq windows'
    BY <1>4, RefreshFailsEffect DEF Alters, Under
  <2>2. ServersKept
    <3>1. CASE UNCHANGED server
      BY <3>1, SameKeeps DEF server
    <3>2. CASE /\ Grew(grants[call[c].sent].user, grants[call[c].sent].host)
               /\ live' = (live \ {call[c].sent}) \cup {NewGrant}
      <4>1. live' \subseteq live \cup {NewGrant}
        BY <3>2
      <4>. QED
        BY <3>2, <4>1, GrewKeeps
    <3>. QED
      BY <1>4, <3>1, <3>2, RefreshFailsEffect
  <2>3. Within(Len(grants'), After(c))
    BY <2>1, <2>2, TokensWithin DEF Maybe
  <2>4. Stores(c) /\ SessionTyped
    BY <1>4, <2>1, SessionMoves DEF Stores
  <2>5. ASSUME call'[c] # None
        PROVE  /\ call'[c].slot = call[c].slot /\ StageOK(c)'
               /\ Within(Len(grants'), call'[c].prev) /\ call'[c].sent \in Maybe(1..Len(grants'))
    <3>1. StartsRefresh(call'[c], "background", call[c].slot)
      BY <1>4, <2>5, RefreshFailsEffect
    <3>2. /\ call'[c].kind = "background" /\ call'[c].slot = call[c].slot /\ call'[c].sent # None
          /\ call'[c].stage \in {"refresh", "verify"}
          /\ call'[c].prev.token = None /\ call'[c].prev.refresh = None
          /\ call'[c].sent \in {P(c).token, P(c).refresh}
      BY <3>1 DEF StartsRefresh, P
    <3>3. call'[c].sent \in Maybe(1..Len(grants'))
      BY <2>1, <2>3, <3>2 DEF Within
    <3>. QED
      BY <3>2, <3>3, NothingWithin DEF StageOK, Refreshing, Refreshes
  <2>6. Shape'
    BY <2>1, <2>2, <2>3, <2>4, <2>5, StoresTyped, ShapeAlters DEF ServersKept, Shape, TypeOK
  <2>. QED
    BY <2>1, <2>2, <2>4, <2>6
<1>. QED
  BY <1>1, <1>2, <1>3, <1>4

Configures(slot, h) == UpdateServer(slot, h) \/ AddServer(slot, h) \/ RemoveServer \/ Restart(slot)

LEMMA ShapeStarts ==
  ASSUME Shape, NEW c \in Calls,
         \/ \E u \in Users : LoginStarts(c, u, "login") \/ LoginStarts(c, u, "oauth")
         \/ \E slot \in Slots : Background(c, slot)
         \/ ReAuth(c) \/ LogoutStarts(c)
  PROVE  Shape' /\ ServersKept /\ Begins(c)
<1>1. ASSUME NEW u \in Users, NEW kind \in {"login", "oauth"}, LoginStarts(c, u, kind)
      PROVE  Shape' /\ ServersKept /\ Begins(c)
  <2>1. /\ Begins(c) /\ current # None /\ call'[c].kind = kind /\ call'[c].stage = "login"
        /\ call'[c].sent = None /\ call'[c].user = u /\ call'[c].prev = Of(object[current])
    BY <1>1, LoginStartsEffect
  <2>2. Holds(Of(object[current]))
    BY <2>1, ObjectFacts DEF Holds, Within, Of
  <2>3. StageOK(c)'
    BY <2>1 DEF StageOK
  <2>. QED
    BY <2>1, <2>2, <2>3, ShapeBegins DEF Maybe
<1>2. ASSUME NEW slot \in Slots, Background(c, slot) \/ (ReAuth(c) /\ slot = current)
      PROVE  Shape' /\ ServersKept /\ Begins(c)
  <2>1. /\ Begins(c) /\ call'[c].kind \in Refreshes
        /\ StartsRefresh(call'[c], call'[c].kind, slot)
        /\ slot \in Slots /\ object[slot] \in Providers
    BY <1>2, RefreshStartsEffect
  <2>2. /\ call'[c].sent \in {object[slot].refresh, object[slot].token} /\ call'[c].sent # None
        /\ call'[c].stage \in {"refresh", "verify"}
        /\ call'[c].prev.token = None /\ call'[c].prev.refresh = None
    BY <2>1 DEF StartsRefresh
  <2>3. Holds(object[slot])
    BY <2>1, Constants DEF Shape, Present
  <2>4. call'[c].sent \in Maybe(Known) /\ Holds(call'[c].prev)
    BY <2>2, <2>3, NothingWithin DEF Holds, Within, Known
  <2>5. StageOK(c)'
    BY <2>1, <2>2 DEF StageOK, Refreshing
  <2>. QED
    BY <2>1, <2>4, <2>5, ShapeBegins
<1>3. CASE ReAuth(c)
  <2>1. current \in Slots
    BY <1>3, ObjectFacts DEF ReAuth
  <2>. QED
    BY <1>2, <1>3, <2>1
<1>4. CASE LogoutStarts(c)
  <2>1. /\ Begins(c) /\ current # None /\ call'[c].kind = "logout" /\ call'[c].stage = "logout"
        /\ call'[c].sent = object[current].token /\ call'[c].prev = Empty
    BY <1>4, LogoutStartsEffect
  <2>2. Holds(object[current]) /\ Holds(Empty)
    BY <2>1, ObjectFacts, NothingWithin, EmptyFacts DEF Holds
  <2>3. StageOK(c)'
    BY <2>1 DEF StageOK
  <2>. QED
    BY <2>1, <2>2, <2>3, ShapeBegins DEF Holds, Within, Known
<1>. QED
  BY <1>1, <1>2, <1>3, <1>4

LEMMA ShapeConfigures ==
  ASSUME Shape, NEW slot \in Slots, NEW h \in Hosts, Configures(slot, h)
  PROVE  Shape' /\ ServersKept /\ windows \subseteq windows'
<1>1. /\ store \in Maybe(Session) /\ (store # None => Holds(store)) /\ session \in Sessions
      /\ call \in [Calls -> Maybe(CallRecords)] /\ signedOut \in BOOLEAN
  BY DEF Shape, TypeOK, Present, Sessions
<1>2. ASSUME Unused(slot), NEW s \in {store, None}, Takes(slot, h, s), CallAdded(slot, s),
             \A o \in Slots \ {slot} : object'[o] = object[o],
             UNCHANGED <<server, session>>, signedOut' \in BOOLEAN
      PROVE  Shape' /\ ServersKept
  <2>1. SessionTyped
    BY <1>1, <1>2 DEF SessionTyped, Sessions, Unused, Shape, Present, Maybe
  <2>2. \A c \in Calls : \/ call'[c] = None
                         \/ call'[c] = call[c] /\ object'[call[c].slot] # None
                         \/ TakesRefresh(c, slot, s)
    <3>1. ASSUME NEW c \in Calls, call[c] # None
          PROVE  object'[call[c].slot] # None
      BY <1>2, <3>1, CallFacts, Constants DEF Unused, P
    <3>. QED
      BY <1>2, <3>1 DEF CallAdded
  <2>3. call' \in [Calls -> Maybe(CallRecords)]
    BY <1>2 DEF CallAdded
  <2>4. s \in Maybe(Session) /\ (s # None => Holds(s))
    BY <1>1 DEF Maybe
  <2>. QED
    BY <1>2, <2>1, <2>2, <2>3, <2>4, ShapeTakes
<1>3. CASE UpdateServer(slot, h)
  <2>1. PICK s \in {store, None} : Takes(slot, h, s) /\ CallAdded(slot, s)
                                   /\ signedOut' = (signedOut \/ s # store)
    BY <1>3, UpdateServerEffect
  <2>. QED
    BY <1>1, <1>2, <1>3, <2>1, UpdateServerEffect
<1>4. CASE AddServer(slot, h)
  BY <1>1, <1>2, <1>4, AddServerEffect
<1>5. CASE RemoveServer
  <2>1. /\ store' = None /\ current' = None /\ signedOut' = TRUE
        /\ session' = (IF session.active
                       THEN [session EXCEPT !.active = FALSE, !.auth = None, !.user = None] ELSE session)
        /\ UNCHANGED <<grants, live, fresh, object, call>> /\ windows \subseteq windows'
    BY <1>5 DEF RemoveServer, Forgotten, Falls, server
  <2>2. session' \in Sessions /\ session'.auth \in {session.auth, None}
    BY <1>1, <2>1 DEF Sessions, Maybe
  <2>3. ServersKept
    BY <2>1, SameKeeps
  <2>4. TypeOK'
    BY <2>1, <2>2 DEF Shape, TypeOK, Sessions, Maybe, Known
  <2>5. Present'
    BY <2>1, <2>2 DEF Shape, Present, Under, Holds, Known
  <2>6. \A c \in Under' : StageOK(c)'
    BY <2>1 DEF Shape, Under, StageOK, Refreshing
  <2>. QED
    BY <2>1, <2>3, <2>4, <2>5, <2>6 DEF Shape
<1>6. CASE Restart(slot)
  <2>1. /\ object[current] \in Providers
        /\ Takes(slot, object[current].host, store)
        /\ \A o \in Slots \ {slot} : object'[o] = None
        /\ call' \in [Calls -> Maybe(CallRecords)]
        /\ \A c \in Calls : call'[c] = None \/ TakesRefresh(c, slot, store)
        /\ session' = [active |-> TRUE, auth |-> slot, restored |-> ~NeedsRefresh(store),
                       user |-> IF store # None /\ store.token \in fresh THEN store.user ELSE None]
        /\ windows \subseteq windows' /\ UNCHANGED <<server, signedOut>>
    BY <1>6, RestartEffect
  <2>2. (IF store # None /\ store.token \in fresh THEN store.user ELSE None) \in Maybe(Users)
    BY <1>1 DEF Session, Maybe
  <2>3. (~NeedsRefresh(store)) \in BOOLEAN
    BY DEF NeedsRefresh
  <2>4. session' \in Sessions /\ session'.auth = slot
    BY <2>1, <2>2, <2>3 DEF Sessions, Maybe
  <2>5. object'[slot] # None
    BY <2>1, Constants DEF Takes
  <2>6. SessionTyped
    BY <2>4, <2>5 DEF SessionTyped, Sessions
  <2>. QED
    BY <1>1, <2>1, <2>6, ShapeTakes
<1>7. windows \subseteq windows'
  BY UpdateServerEffect, AddServerEffect, RestartEffect DEF Configures, RemoveServer, Falls
<1>. QED
  BY <1>3, <1>4, <1>5, <1>6, <1>7 DEF Configures

LEMMA ShapeTime ==
  ASSUME Shape, NEW g, Expires(g) \/ Revokes(g)
  PROVE  /\ Shape' /\ ServersKept /\ windows \subseteq windows' /\ live' \subseteq live
         /\ UNCHANGED <<grants, object, current, store, session, call, signedOut>>
         /\ live' # live => "revoked" \in windows'
<1>1. /\ UNCHANGED <<grants, object, current, store, session, call, signedOut>>
      /\ live' \subseteq live /\ fresh' \subseteq fresh /\ windows \subseteq windows'
      /\ live' # live => "revoked" \in windows'
  BY DEF Expires, Revokes, Falls
<1>2. TypeOK'
  BY <1>1 DEF Shape, TypeOK, Known
<1>3. Present' /\ \A c \in Under' : StageOK(c)'
  BY <1>1 DEF Shape, Present, Under, Holds, Known, StageOK, Refreshing
<1>. QED
  BY <1>1, <1>2, <1>3, SameKeeps DEF Shape

-----------------------------------------------------------------------------
(* Users and their tokens.                                                 *)

\* All tokens of s were issued to the user u; by the host h.
OfUser(G, s, u) == \A g \in {s.token, s.refresh} \ {None} : G[g].user = u
OfHost(G, s, h) == \A g \in {s.token, s.refresh} \ {None} : G[g].host = h

SentUser(c) == grants[call[c].sent].user
LoggingIn(c) == call[c].kind = "login" /\ call[c].stage = "me"

\* No two sign-ins at a time, and no refresh of a provider that one changes.
SignInAlone ==
  /\ \A c, d \in Under : Signing(c) /\ Signing(d) => c = d
  /\ \A c, d \in Under : Signing(c) /\ Refreshing(d) => call[c].slot # call[d].slot

\* A provider matches unless a sign-in has its tokens and not yet its user.
ObjectsMatch ==
  \A o \in Slots :
    object[o] # None /\ object[o].user # None =>
      \/ OfUser(grants, object[o], object[o].user)
      \/ \E c \in Under : call[c].slot = o /\ LoggingIn(c)

SignInMatches ==
  \A c \in Under : Signing(c) =>
    /\ call[c].prev.user # None => OfUser(grants, call[c].prev, call[c].prev.user)
    /\ LoggingIn(c) => OfUser(grants, P(c), SentUser(c))

\* All refreshes of a provider are its user's.
RefreshMatches ==
  \A c \in Under : Refreshing(c) =>
    /\ OfUser(grants, P(c), SentUser(c)) /\ P(c).user \in {None, SentUser(c)}
    /\ \A d \in Under : Refreshing(d) /\ call[d].slot = call[c].slot => SentUser(d) = SentUser(c)

StoreMatches == store # None => OfUser(grants, store, store.user)

UserOK == StoreMatches /\ SignInAlone /\ ObjectsMatch /\ SignInMatches /\ RefreshMatches

LEMMA OfKept ==
  ASSUME NEW s, Holds(s), Keeps, NEW x
  PROVE  /\ OfUser(grants', s, x) <=> OfUser(grants, s, x)
         /\ OfHost(grants', s, x) <=> OfHost(grants, s, x)
BY DEF Holds, Within, Keeps, Known, Maybe, OfUser, OfHost

LEMMA NothingOf ==
  ASSUME NEW s, s.token = None, s.refresh = None, NEW G, NEW x
  PROVE  OfUser(G, s, x) /\ OfHost(G, s, x)
BY DEF OfUser, OfHost

\* The kind of a call is one of three.
LEMMA KindFacts ==
  ASSUME NEW c, StageOK(c)
  PROVE  /\ Signing(c) => ~Refreshing(c) /\ call[c].kind # "logout"
         /\ Refreshing(c) => call[c].kind # "logout"
         /\ Signing(c) \/ Refreshing(c) \/ call[c].kind = "logout"
BY DEF StageOK, Signing, Refreshing, Refreshes

LEMMA SentKnown ==
  ASSUME Shape, NEW c \in Under, Refreshing(c) \/ LoggingIn(c)
  PROVE  call[c].sent # None /\ call[c].sent \in Known
<1>1. c \in Calls /\ call[c] # None
  BY DEF Under
<1>2. StageOK(c) /\ call[c].sent \in Maybe(Known)
  BY <1>1, CallFacts
<1>3. call[c].sent # None
  BY <1>2 DEF StageOK, Refreshing, Refreshes, LoggingIn
<1>. QED
  BY <1>2, <1>3 DEF Maybe

UserStep(c) ==
  /\ \/ store' \in {store, None}
     \/ store' = Of(After(c)) /\ OfUser(grants', After(c), After(c).user)
  /\ After(c).user # None =>
       OfUser(grants', After(c), After(c).user) \/ (call'[c] # None /\ LoggingIn(c)')
  /\ Signing(c) /\ call'[c] # None =>
       GoesOn(c) /\ (LoggingIn(c)' => OfUser(grants', After(c), SentUser(c)'))
  /\ Refreshing(c) =>
       /\ OfUser(grants', After(c), SentUser(c)) /\ After(c).user \in {None, SentUser(c)}
       /\ call'[c] # None =>
            Refreshing(c)' /\ call'[c].slot = call[c].slot /\ SentUser(c)' = SentUser(c)
  /\ call[c].kind = "logout" =>
       call'[c] = None /\ After(c).user = None /\ After(c).token = None /\ After(c).refresh = None

LEMMA UserAlters ==
  ASSUME Shape, Shape', Keeps, UserOK, NEW c \in Calls, Alters(c), UserStep(c)
  PROVE  UserOK'
<1>1. /\ c \in Under /\ call[c] # None /\ call[c].slot \in Slots
      /\ \A o \in Slots \ {call[c].slot} : object'[o] = object[o]
      /\ \A d \in Calls \ {c} : call'[d] = call[d]
  BY CallFacts DEF Alters, Under
<1>2. Signing(c) \/ Refreshing(c) \/ call[c].kind = "logout"
  BY <1>1, CallFacts, KindFacts
<1>3. call'[c] # None => /\ call'[c].slot = call[c].slot
                         /\ Signing(c)' <=> Signing(c)
                         /\ Refreshing(c)' <=> Refreshing(c)
  BY <1>1, <1>2, CallFacts, KindFacts DEF UserStep, GoesOn, Signing, Refreshing, Refreshes
<1>4. ASSUME NEW d \in Under'
      PROVE  /\ d \in Under /\ call[d] # None /\ call'[d].slot = call[d].slot
             /\ Signing(d)' <=> Signing(d)
             /\ Refreshing(d)' <=> Refreshing(d)
             /\ d # c => call'[d] = call[d]
  <2>1. CASE d = c
    BY <1>1, <1>3, <1>4, <2>1 DEF Under
  <2>2. CASE d # c
    BY <1>1, <1>4, <2>2 DEF Under, Signing, Refreshing
  <2>. QED
    BY <2>1, <2>2
<1>5. SignInAlone'
  BY <1>4 DEF UserOK, SignInAlone
<1>6. StoreMatches'
  <2>1. store # None => OfUser(grants', store, store.user)
    BY OfKept DEF UserOK, StoreMatches, Shape, Present
  <2>2. CASE store' \in {store, None}
    BY <2>1, <2>2 DEF StoreMatches
  <2>3. CASE store' = Of(After(c)) /\ OfUser(grants', After(c), After(c).user)
    BY <2>3 DEF StoreMatches, Of, OfUser
  <2>. QED
    BY <2>2, <2>3 DEF UserStep
<1>7. ObjectsMatch'
  <2>1. ASSUME NEW o \in Slots, object'[o] # None, object'[o].user # None
        PROVE  \/ OfUser(grants', object'[o], object'[o].user)
               \/ \E d \in Under' : call'[d].slot = o /\ LoggingIn(d)'
    <3>1. CASE o = call[c].slot
      BY <1>1, <1>3, <2>1, <3>1 DEF UserStep, After, Under
    <3>2. CASE o # call[c].slot
      <4>1. object'[o] = object[o] /\ Holds(object[o])
        BY <1>1, <2>1, <3>2 DEF Shape, Present
      <4>2. CASE OfUser(grants, object[o], object[o].user)
        BY <4>1, <4>2, OfKept
      <4>3. ASSUME NEW d \in Under, call[d].slot = o, LoggingIn(d)
            PROVE  \E e \in Under' : call'[e].slot = o /\ LoggingIn(e)'
        <5>1. d # c /\ call'[d] = call[d]
          BY <1>1, <3>2, <4>3 DEF Under
        <5>. QED
          BY <4>3, <5>1 DEF Under, LoggingIn
      <4>. QED
        BY <2>1, <4>1, <4>2, <4>3 DEF UserOK, ObjectsMatch
    <3>. QED
      BY <3>1, <3>2
  <2>. QED
    BY <2>1 DEF ObjectsMatch
<1>8. SignInMatches'
  <2>1. ASSUME NEW d \in Under', Signing(d)'
        PROVE  /\ call'[d].prev.user # None => OfUser(grants', call'[d].prev, call'[d].prev.user)
               /\ LoggingIn(d)' => OfUser(grants', P(d)', SentUser(d)')
    <3>1. d \in Under /\ Signing(d) /\ call[d] # None /\ call'[d].slot = call[d].slot
      BY <1>4, <2>1
    <3>2. /\ call[d].prev.user # None => OfUser(grants', call[d].prev, call[d].prev.user)
          /\ LoggingIn(d) => OfUser(grants', P(d), SentUser(d))
      BY <3>1, CallFacts, OfKept DEF UserOK, SignInMatches, Under
    <3>3. CASE d = c
      BY <2>1, <3>1, <3>2, <3>3 DEF UserStep, GoesOn, P, After, Under
    <3>4. CASE d # c /\ call[d].slot # call[c].slot
      <4>1. call'[d] = call[d] /\ P(d)' = P(d) /\ call[d].slot \in Slots
        BY <1>1, <3>1, <3>4, CallFacts DEF P, Under
      <4>2. LoggingIn(d) => SentUser(d)' = SentUser(d)
        BY <3>1, <4>1, SentKnown DEF SentUser, Keeps
      <4>. QED
        BY <3>2, <4>1, <4>2 DEF LoggingIn
    <3>5. CASE d # c /\ call[d].slot = call[c].slot
      <4>1. call'[d] = call[d]
        BY <1>4, <3>5
      <4>2. call[c].kind = "logout"
        BY <1>1, <1>2, <3>1, <3>5 DEF UserOK, SignInAlone
      <4>3. P(d)' = After(c) /\ After(c).token = None /\ After(c).refresh = None
        BY <3>5, <4>1, <4>2 DEF UserStep, P, After
      <4>. QED
        BY <3>2, <4>1, <4>3, NothingOf
    <3>. QED
      BY <3>3, <3>4, <3>5
  <2>. QED
    BY <2>1 DEF SignInMatches
<1>9. RefreshMatches'
  <2>1. ASSUME NEW d \in Under', Refreshing(d)'
        PROVE  /\ d \in Under /\ Refreshing(d) /\ call'[d].slot = call[d].slot
               /\ SentUser(d)' = SentUser(d)
    <3>1. d \in Under /\ Refreshing(d) /\ call[d] # None
      BY <1>4, <2>1
    <3>2. CASE d = c
      BY <1>4, <2>1, <3>1, <3>2 DEF UserStep, Under
    <3>3. CASE d # c
      <4>1. call'[d] = call[d]
        BY <1>4, <3>3
      <4>2. call[d].sent \in Known
        BY <3>1, SentKnown
      <4>3. SentUser(d)' = SentUser(d)
        BY <4>1, <4>2 DEF SentUser, Keeps
      <4>. QED
        BY <3>1, <4>1, <4>3
    <3>. QED
      BY <3>2, <3>3
  <2>2. ASSUME NEW d \in Under', Refreshing(d)'
        PROVE  OfUser(grants', P(d)', SentUser(d)) /\ P(d)'.user \in {None, SentUser(d)}
    <3>1. d \in Under /\ Refreshing(d) /\ call'[d].slot = call[d].slot /\ call[d] # None
      BY <2>1, <2>2 DEF Under
    <3>2. OfUser(grants', P(d), SentUser(d)) /\ P(d).user \in {None, SentUser(d)}
      BY <3>1, CallFacts, OfKept DEF UserOK, RefreshMatches, Under
    <3>3. CASE call[d].slot # call[c].slot
      <4>1. P(d)' = P(d)
        BY <1>1, <3>1, <3>3, CallFacts DEF P, Under
      <4>. QED
        BY <3>2, <4>1
    <3>4. CASE call[d].slot = call[c].slot
      <4>1. P(d)' = After(c)
        BY <3>1, <3>4 DEF P, After
      <4>2. ~Signing(c)
        BY <1>1, <3>1, <3>4 DEF UserOK, SignInAlone
      <4>3. CASE Refreshing(c)
        <5>1. SentUser(d) = SentUser(c)
          BY <1>1, <3>1, <3>4, <4>3 DEF UserOK, RefreshMatches
        <5>. QED
          BY <4>1, <4>3, <5>1 DEF UserStep
      <4>4. CASE call[c].kind = "logout"
        <5>1. After(c).user = None /\ After(c).token = None /\ After(c).refresh = None
          BY <4>4 DEF UserStep
        <5>. QED
          BY <4>1, <5>1, NothingOf
      <4>. QED
        BY <1>2, <4>2, <4>3, <4>4
    <3>. QED
      BY <3>3, <3>4
  <2>. QED
    BY <2>1, <2>2 DEF UserOK, RefreshMatches
<1>. QED
  BY <1>5, <1>6, <1>7, <1>8, <1>9 DEF UserOK

\* The provider of a call matches, unless it is the sign-in itself.
LEMMA OwnMatches ==
  ASSUME Shape, UserOK, NEW c \in Under, ~LoggingIn(c), P(c).user # None,
         \A d \in Under : call[d].slot = call[c].slot /\ Signing(d) => d = c
  PROVE  OfUser(grants, P(c), P(c).user)
<1>1. call[c].slot \in Slots /\ object[call[c].slot] # None /\ object[call[c].slot].user # None
  BY CallFacts, Constants DEF P, Under
<1>2. ASSUME NEW d \in Under, call[d].slot = call[c].slot, LoggingIn(d)
      PROVE  FALSE
  <2>1. Signing(d)
    BY <1>2 DEF LoggingIn, Signing
  <2>. QED
    BY <1>2, <2>1
<1>. QED
  BY <1>1, <1>2 DEF UserOK, ObjectsMatch, P

LEMMA UserSigning ==
  ASSUME Shape, Shape', ServersKept, UserOK, NEW c \in Calls,
         \/ LoginGranted(c) \/ LoginConfirmed(c) \/ LoginEnds(c) \/ OAuthEnds(c) \/ LoginFails(c)
  PROVE  UserOK'
<1>1. Keeps
  BY DEF ServersKept
<1>2. CASE LoginGranted(c)
  <2>1. /\ Alters(c) /\ c \in Under /\ GoesOn(c) /\ Grew(call[c].user, P(c).host)
        /\ call[c].kind = "login"
        /\ After(c).token = NewGrant /\ After(c).refresh \in {NewGrant, None}
        /\ call'[c].stage = "me" /\ call'[c].sent = NewGrant /\ store' = store
    BY <1>2, LoginGrantedEffect DEF Alters
  <2>2. LoggingIn(c)' /\ call'[c] # None /\ ~Refreshing(c)
    BY <2>1, Constants DEF LoggingIn, GoesOn, Refreshing, Refreshes
  <2>3. OfUser(grants', After(c), call[c].user) /\ SentUser(c)' = call[c].user
    BY <2>1 DEF OfUser, SentUser, Grew
  <2>4. UserStep(c)
    BY <2>1, <2>2, <2>3 DEF UserStep
  <2>. QED
    BY <1>1, <2>1, <2>4, UserAlters
<1>3. CASE LoginConfirmed(c)
  <2>1. /\ Alters(c) /\ c \in Under /\ GoesOn(c) /\ call[c].kind = "login" /\ call[c].stage = "me"
        /\ After(c).user = SentUser(c)
        /\ After(c).token = P(c).token /\ After(c).refresh = P(c).refresh
        /\ call'[c].stage = "settings"
        /\ store' = Persisted(After(c)) /\ grants' = grants
    BY <1>3, LoginConfirmedEffect DEF Alters, SentUser, server
  <2>2. OfUser(grants, P(c), SentUser(c))
    BY <2>1 DEF UserOK, SignInMatches, Signing, LoggingIn
  <2>3. OfUser(grants', After(c), After(c).user)
    BY <2>1, <2>2 DEF OfUser
  <2>4. ~Refreshing(c) /\ ~LoggingIn(c)'
    BY <2>1 DEF Refreshing, Refreshes, LoggingIn
  <2>5. store' = store \/ store' = Of(After(c))
    BY <2>1 DEF Persisted
  <2>6. UserStep(c)
    BY <2>1, <2>3, <2>4, <2>5 DEF UserStep
  <2>. QED
    BY <1>1, <2>1, <2>6, UserAlters
<1>4. CASE LoginEnds(c)
  <2>1. /\ Alters(c) /\ c \in Under /\ call[c].kind = "login" /\ call[c].stage = "settings"
        /\ After(c) = P(c) /\ call'[c] = None /\ grants' = grants /\ store' = store
    BY <1>4, LoginEndsEffect DEF Alters, server
  <2>2. Signing(c) /\ ~LoggingIn(c) /\ ~Refreshing(c)
    BY <2>1 DEF Signing, LoggingIn, Refreshing, Refreshes
  <2>3. P(c).user # None => OfUser(grants, P(c), P(c).user)
    BY <2>1, <2>2, OwnMatches DEF UserOK, SignInAlone
  <2>4. UserStep(c)
    BY <2>1, <2>2, <2>3 DEF UserStep
  <2>. QED
    BY <1>1, <2>1, <2>4, UserAlters
<1>5. CASE OAuthEnds(c)
  <2>1. /\ Alters(c) /\ Grew(call[c].user, P(c).host) /\ call[c].kind = "oauth"
        /\ After(c).user = call[c].user /\ After(c).token = NewGrant
        /\ After(c).refresh \in {NewGrant, None} /\ call'[c] = None /\ store' = Of(After(c))
    BY <1>5, OAuthEndsEffect
  <2>2. OfUser(grants', After(c), After(c).user)
    BY <2>1 DEF OfUser, Grew
  <2>3. ~Refreshing(c)
    BY <2>1 DEF Refreshing, Refreshes
  <2>4. UserStep(c)
    BY <2>1, <2>2, <2>3 DEF UserStep
  <2>. QED
    BY <1>1, <2>1, <2>4, UserAlters
<1>6. CASE LoginFails(c)
  <2>1. /\ Alters(c) /\ c \in Under /\ Signing(c) /\ call'[c] = None /\ store' \in {store, None}
        /\ grants' = grants
        /\ \/ After(c).user = None
           \/ /\ After(c).user = call[c].prev.user /\ After(c).token = call[c].prev.token
              /\ After(c).refresh = call[c].prev.refresh
    BY <1>6, LoginFailsEffect DEF Alters, server
  <2>2. After(c).user # None => OfUser(grants', After(c), After(c).user)
    BY <2>1 DEF UserOK, SignInMatches, OfUser
  <2>3. ~Refreshing(c) /\ call[c].kind # "logout"
    BY <2>1 DEF Signing, Refreshing, Refreshes
  <2>4. UserStep(c)
    BY <2>1, <2>2, <2>3 DEF UserStep
  <2>. QED
    BY <1>1, <2>1, <2>4, UserAlters
<1>. QED
  BY <1>2, <1>3, <1>4, <1>5, <1>6

LEMMA UserRefreshing ==
  ASSUME Shape, Shape', ServersKept, UserOK, NEW c \in Calls,
         \/ RefreshGranted(c) \/ RefreshEnds(c) \/ Verified(c) \/ Rejected(c) \/ RefreshFails(c)
         \/ LogoutEnds(c)
  PROVE  UserOK'
<1>1. Keeps
  BY DEF ServersKept
<1>2. ASSUME Refreshing(c), c \in Under
      PROVE  /\ OfUser(grants, P(c), SentUser(c)) /\ P(c).user \in {None, SentUser(c)}
             /\ OfUser(grants', P(c), SentUser(c))
             /\ ~Signing(c) /\ call[c].kind # "logout"
  BY <1>1, <1>2, OfKept, CallFacts DEF UserOK, RefreshMatches, Under, Signing, Refreshing, Refreshes
<1>3. CASE RefreshGranted(c)
  <2>1. /\ Alters(c) /\ c \in Under /\ GoesOn(c) /\ Refreshing(c)
        /\ Grew(SentUser(c), grants[call[c].sent].host)
        /\ After(c).user = P(c).user /\ After(c).token = NewGrant /\ After(c).refresh = NewGrant
        /\ call'[c].sent = NewGrant /\ store' = store
    BY <1>3, RefreshGrantedEffect DEF Alters, SentUser
  <2>2. OfUser(grants', After(c), SentUser(c)) /\ SentUser(c)' = SentUser(c)
    BY <2>1 DEF OfUser, SentUser, Grew
  <2>3. Refreshing(c)' /\ call'[c].slot = call[c].slot
    BY <2>1 DEF Refreshing, GoesOn
  <2>4. UserStep(c)
    BY <1>2, <2>1, <2>2, <2>3 DEF UserStep
  <2>. QED
    BY <1>1, <2>1, <2>4, UserAlters
<1>4. CASE RefreshEnds(c) \/ Verified(c)
  <2>1. /\ Alters(c) /\ c \in Under /\ Refreshing(c) /\ call'[c] = None
        /\ After(c).user \in {SentUser(c), P(c).user}
        /\ After(c).token = P(c).token /\ After(c).refresh = P(c).refresh
        /\ store' = Persisted(After(c)) /\ grants' = grants
    BY <1>4, AnswerEffect DEF Alters, SentUser, server
  <2>2. OfUser(grants', After(c), SentUser(c)) /\ After(c).user \in {None, SentUser(c)}
    BY <1>2, <2>1 DEF OfUser
  <2>3. store' = store \/ (store' = Of(After(c)) /\ After(c).user # None)
    BY <2>1 DEF Persisted
  <2>4. UserStep(c)
    BY <1>2, <2>1, <2>2, <2>3 DEF UserStep
  <2>. QED
    BY <1>1, <2>1, <2>4, UserAlters
<1>5. CASE Rejected(c) \/ LogoutEnds(c)
  <2>1. /\ Alters(c) /\ c \in Under /\ call'[c] = None
        /\ After(c).user = None /\ After(c).token = None /\ After(c).refresh = None /\ store' = None
    BY <1>5, ClearsEffect DEF Alters
  <2>2. UserStep(c)
    BY <2>1, NothingOf DEF UserStep
  <2>. QED
    BY <1>1, <2>1, <2>2, UserAlters
<1>6. CASE RefreshFails(c)
  <2>1. /\ Alters(c) /\ c \in Under /\ Refreshing(c) /\ After(c) = P(c) /\ store' = store
        /\ \/ call'[c] = None
           \/ StartsRefresh(call'[c], "background", call[c].slot)
    BY <1>6, RefreshFailsEffect DEF Alters
  <2>2. ASSUME call'[c] # None
        PROVE  Refreshing(c)' /\ call'[c].slot = call[c].slot /\ SentUser(c)' = SentUser(c)
    <3>1. /\ call'[c].kind = "background" /\ call'[c].slot = call[c].slot
          /\ call'[c].sent \in {P(c).token, P(c).refresh} \ {None}
      BY <2>1, <2>2 DEF StartsRefresh, P
    <3>2. SentUser(c)' = SentUser(c)
      BY <1>2, <2>1, <3>1 DEF OfUser, SentUser
    <3>. QED
      BY <3>1, <3>2 DEF Refreshing, Refreshes
  <2>3. UserStep(c)
    BY <1>2, <2>1, <2>2 DEF UserStep
  <2>. QED
    BY <1>1, <2>1, <2>3, UserAlters
<1>. QED
  BY <1>3, <1>4, <1>5, <1>6

LEMMA InFlightFacts ==
  ASSUME Shape, NEW c \in Under
  PROVE  /\ Refreshing(c) => InFlight(Refreshes)
         /\ Signing(c) => InFlight({"login", "oauth"})
         /\ call[c].kind = "logout" => InFlight({"logout"})
         /\ InFlight(Kinds)
<1>1. c \in Calls /\ call[c] # None
  BY DEF Under
<1>2. call[c].kind \in Kinds
  BY <1>1, CallFacts DEF CallRecords
<1>. QED
  BY <1>1, <1>2 DEF InFlight, Running, Refreshing, Signing

\* What a call that begins finds.
UserBegin(c) ==
  /\ Signing(c)' =>
       /\ \A d \in Under : ~Signing(d) /\ ~Refreshing(d)
       /\ ~LoggingIn(c)' /\ ~Refreshing(c)'
       /\ call'[c].prev.user # None => OfUser(grants, call'[c].prev, call'[c].prev.user)
  /\ Refreshing(c)' =>
       /\ \A d \in Under : ~Signing(d)
       /\ OfUser(grants, object[call'[c].slot], SentUser(c)')
       /\ object[call'[c].slot].user \in {None, SentUser(c)'}
       /\ \A d \in Under : Refreshing(d) /\ call[d].slot = call'[c].slot => SentUser(d) = SentUser(c)'

LEMMA UserBegins ==
  ASSUME Shape, UserOK, NEW c \in Calls, Begins(c), UserBegin(c)
  PROVE  UserOK'
<1>1. /\ c \notin Under /\ UNCHANGED <<grants, object, store>>
      /\ \A d \in Calls \ {c} : call'[d] = call[d]
      /\ call'[c] # None /\ call'[c] \in CallRecords
  BY Constants DEF Begins, server
<1>2. Under' = Under \cup {c}
  BY <1>1 DEF Under
<1>3. ASSUME NEW d \in Under
      PROVE  /\ d # c /\ call'[d] = call[d] /\ d \in Under'
             /\ Signing(d)' <=> Signing(d)
             /\ Refreshing(d)' <=> Refreshing(d)
             /\ LoggingIn(d)' <=> LoggingIn(d)
             /\ P(d)' = P(d) /\ SentUser(d)' = SentUser(d)
  <2>1. d # c /\ call'[d] = call[d] /\ d \in Under'
    BY <1>1, <1>2 DEF Under
  <2>. QED
    BY <1>1, <2>1 DEF Signing, Refreshing, LoggingIn, P, SentUser
<1>4. StoreMatches'
  BY <1>1 DEF UserOK, StoreMatches
<1>5. ~(Signing(c)' /\ Refreshing(c)')
  BY DEF UserBegin
<1>6. SignInAlone'
  <2>1. ASSUME NEW d \in Under', NEW e \in Under', Signing(d)', Signing(e)'
        PROVE  d = e
    BY <1>2, <1>3, <2>1 DEF UserBegin, UserOK, SignInAlone
  <2>2. ASSUME NEW d \in Under', NEW e \in Under', Signing(d)', Refreshing(e)'
        PROVE  call'[d].slot # call'[e].slot
    BY <1>2, <1>3, <1>5, <2>2 DEF UserBegin, UserOK, SignInAlone
  <2>. QED
    BY <2>1, <2>2 DEF SignInAlone
<1>7. ObjectsMatch'
  <2>1. ASSUME NEW o \in Slots, object'[o] # None, object'[o].user # None
        PROVE  \/ OfUser(grants', object'[o], object'[o].user)
               \/ \E d \in Under' : call'[d].slot = o /\ LoggingIn(d)'
    BY <1>1, <1>3, <2>1 DEF UserOK, ObjectsMatch
  <2>. QED
    BY <2>1 DEF ObjectsMatch
<1>8. SignInMatches'
  <2>1. ASSUME NEW d \in Under', Signing(d)'
        PROVE  /\ call'[d].prev.user # None => OfUser(grants', call'[d].prev, call'[d].prev.user)
               /\ LoggingIn(d)' => OfUser(grants', P(d)', SentUser(d)')
    BY <1>1, <1>2, <1>3, <2>1 DEF UserBegin, UserOK, SignInMatches
  <2>. QED
    BY <2>1 DEF SignInMatches
<1>9. RefreshMatches'
  <2>1. ASSUME NEW d \in Under', Refreshing(d)'
        PROVE  OfUser(grants', P(d)', SentUser(d)') /\ P(d)'.user \in {None, SentUser(d)'}
    <3>1. CASE d = c
      BY <1>1, <2>1, <3>1 DEF UserBegin, P
    <3>2. CASE d \in Under
      BY <1>1, <1>3, <2>1, <3>2 DEF UserOK, RefreshMatches
    <3>. QED
      BY <1>2, <3>1, <3>2
  <2>2. ASSUME NEW d \in Under', Refreshing(d)', NEW e \in Under', Refreshing(e)',
               call'[e].slot = call'[d].slot
        PROVE  SentUser(e)' = SentUser(d)'
    <3>1. CASE d \in Under /\ e \in Under
      BY <1>3, <2>2, <3>1 DEF UserOK, RefreshMatches
    <3>2. CASE d = c /\ e \in Under
      BY <1>3, <2>2, <3>2 DEF UserBegin
    <3>3. CASE d \in Under /\ e = c
      BY <1>3, <2>2, <3>3 DEF UserBegin
    <3>. QED
      BY <1>2, <3>1, <3>2, <3>3
  <2>. QED
    BY <2>1, <2>2 DEF RefreshMatches
<1>. QED
  BY <1>4, <1>6, <1>7, <1>8, <1>9 DEF UserOK

\* A provider that no sign-in changes has its user's tokens.
LEMMA QuietMatches ==
  ASSUME UserOK, NEW o \in Slots, object[o] # None, object[o].user # None,
         \A d \in Under : ~Signing(d)
  PROVE  OfUser(grants, object[o], object[o].user)
BY DEF UserOK, ObjectsMatch, LoggingIn, Signing

LEMMA UserStarts ==
  ASSUME Shape, UserOK, "login and refresh" \notin windows', NEW c \in Calls,
         \/ \E u \in Users : LoginStarts(c, u, "login") \/ LoginStarts(c, u, "oauth")
         \/ \E slot \in Slots : Background(c, slot)
         \/ ReAuth(c) \/ LogoutStarts(c)
  PROVE  UserOK'
<1>1. ASSUME NEW u \in Users, NEW kind \in {"login", "oauth"}, LoginStarts(c, u, kind)
      PROVE  UserOK'
  <2>1. /\ Begins(c) /\ current # None /\ call'[c].kind = kind /\ call'[c].stage = "login"
        /\ call'[c].prev = Of(object[current])
        /\ ~InFlight({"login", "oauth"}) /\ ~InFlight(Refreshes)
    BY <1>1, LoginStartsEffect
  <2>2. \A d \in Under : ~Signing(d) /\ ~Refreshing(d)
    BY <2>1, InFlightFacts
  <2>3. current \in Slots /\ object[current] # None
    BY <2>1, ObjectFacts, Constants
  <2>4. Of(object[current]).user # None =>
          OfUser(grants, Of(object[current]), Of(object[current]).user)
    <3>1. object[current].user # None => OfUser(grants, object[current], object[current].user)
      BY <2>2, <2>3, QuietMatches
    <3>. QED
      BY <3>1 DEF Of, OfUser
  <2>5. ~LoggingIn(c)' /\ ~Refreshing(c)'
    BY <2>1 DEF LoggingIn, Refreshing, Refreshes
  <2>6. UserBegin(c)
    BY <2>1, <2>2, <2>4, <2>5 DEF UserBegin
  <2>. QED
    BY <2>1, <2>6, UserBegins
<1>2. ASSUME NEW slot \in Slots, Background(c, slot) \/ (ReAuth(c) /\ slot = current)
      PROVE  UserOK'
  <2>1. /\ Begins(c) /\ call'[c].kind \in Refreshes
        /\ StartsRefresh(call'[c], call'[c].kind, slot)
        /\ object[slot] \in Providers /\ object[slot].user # None
        /\ ~InFlight({"login", "oauth"}) /\ grants' = grants
    BY <1>2, RefreshStartsEffect DEF Begins, server
  <2>2. \A d \in Under : ~Signing(d)
    BY <2>1, InFlightFacts
  <2>3. OfUser(grants, object[slot], object[slot].user)
    BY <2>1, <2>2, QuietMatches, Constants
  <2>4. /\ call'[c].slot = slot
        /\ call'[c].sent \in {object[slot].token, object[slot].refresh} \ {None}
    BY <2>1 DEF StartsRefresh
  <2>5. SentUser(c)' = object[slot].user
    BY <2>1, <2>3, <2>4 DEF SentUser, OfUser
  <2>6. ASSUME NEW d \in Under, Refreshing(d), call[d].slot = slot
        PROVE  SentUser(d) = SentUser(c)'
    <3>1. P(d) = object[slot]
      BY <2>6 DEF P
    <3>. QED
      BY <2>1, <2>5, <2>6, <3>1 DEF UserOK, RefreshMatches
  <2>7. ~Signing(c)'
    BY <2>1 DEF Signing, Refreshes
  <2>8. UserBegin(c)
    BY <2>2, <2>3, <2>4, <2>5, <2>6, <2>7 DEF UserBegin
  <2>. QED
    BY <2>1, <2>8, UserBegins
<1>3. CASE ReAuth(c)
  <2>1. current \in Slots
    BY <1>3, ObjectFacts DEF ReAuth
  <2>. QED
    BY <1>2, <1>3, <2>1
<1>4. CASE LogoutStarts(c)
  <2>1. Begins(c) /\ call'[c].kind = "logout"
    BY <1>4, LogoutStartsEffect
  <2>2. UserBegin(c)
    BY <2>1 DEF UserBegin, Signing, Refreshing, Refreshes
  <2>. QED
    BY <2>1, <2>2, UserBegins
<1>. QED
  BY <1>1, <1>2, <1>3, <1>4

\* The slot has a new provider, made from s; other providers stay with their
\* calls, or all are gone.
Remade(slot, h, s) ==
  /\ slot \in Slots /\ h \in Hosts /\ s \in {store, None} /\ Takes(slot, h, s)
  /\ UNCHANGED server /\ windows \subseteq windows'
  /\ \A o \in Slots \ {slot} :
       object'[o] = None \/ (object'[o] = object[o] /\ \A c \in Under : call'[c] = call[c])
  /\ \A c \in Under' : \/ c \in Under /\ call'[c] = call[c] /\ call[c].slot # slot
                       \/ TakesRefresh(c, slot, s)
  /\ \A c, d \in Under' : TakesRefresh(c, slot, s) /\ TakesRefresh(d, slot, s) => c = d

LEMMA RemadeIntro ==
  ASSUME Shape, NEW slot \in Slots, NEW h \in Hosts, NEW s \in {store, None},
         Unused(slot), Takes(slot, h, s), CallAdded(slot, s),
         \A o \in Slots \ {slot} : object'[o] = object[o],
         UNCHANGED server, windows \subseteq windows'
  PROVE  Remade(slot, h, s)
<1>1. \A c \in Under : call[c].slot # slot
  BY DEF Unused, Under
<1>2. CASE UNCHANGED call
  <2>1. Under' = Under /\ \A c \in Under : call'[c] = call[c]
    BY <1>2 DEF Under
  <2>2. \A c \in Under : ~TakesRefresh(c, slot, s)
    BY <1>1, <2>1 DEF TakesRefresh
  <2>. QED
    BY <1>1, <2>1, <2>2 DEF Remade
<1>3. CASE \E c \in Calls \ Under :
             TakesRefresh(c, slot, s) /\ \A d \in Calls \ {c} : call'[d] = call[d]
  <2>1. PICK c \in Calls \ Under :
          TakesRefresh(c, slot, s) /\ \A d \in Calls \ {c} : call'[d] = call[d]
    BY <1>3
  <2>2. \A d \in Under : call'[d] = call[d] /\ ~TakesRefresh(d, slot, s)
    BY <1>1, <2>1 DEF Under, TakesRefresh
  <2>3. \A d \in Under' : d = c \/ d \in Under
    BY <2>1 DEF Under
  <2>4. \A d \in Under' : \/ d \in Under /\ call'[d] = call[d] /\ call[d].slot # slot
                          \/ TakesRefresh(d, slot, s)
    BY <1>1, <2>1, <2>2, <2>3
  <2>5. \A d, e \in Under' : TakesRefresh(d, slot, s) /\ TakesRefresh(e, slot, s) => d = e
    BY <2>2, <2>3
  <2>. QED
    BY <2>2, <2>4, <2>5 DEF Remade
<1>. QED
  BY <1>2, <1>3 DEF CallAdded

LEMMA ConfiguresEffect ==
  ASSUME Shape, NEW slot \in Slots, NEW h \in Hosts,
         UpdateServer(slot, h) \/ AddServer(slot, h) \/ Restart(slot)
  PROVE  \E g \in Hosts, s \in {store, None} :
           /\ Remade(slot, g, s)
           /\ signedOut' = (signedOut \/ s # store)
           /\ s # None => g = object[current].host \/ current = None
           /\ \/ \A o \in Slots \ {slot} : object'[o] = None
              \/ (current = None \/ (InFlight(Kinds) => "overtaken" \in windows'))
           /\ (\E c \in Under : Refreshing(c) /\ call[c].stage = "me") =>
                current = None \/ {"overtaken", "not stored"} \cap windows' # {}
<1>1. CASE UpdateServer(slot, h)
  <2>1. PICK s \in {store, None} :
          /\ Takes(slot, h, s) /\ CallAdded(slot, s)
          /\ s # None => h = object[current].host
          /\ signedOut' = (signedOut \/ s # store)
    BY <1>1, UpdateServerEffect
  <2>2. Remade(slot, h, s)
    BY <1>1, <2>1, UpdateServerEffect, RemadeIntro
  <2>3. InFlight(Kinds) => "overtaken" \in windows'
    BY <1>1, UpdateServerEffect
  <2>4. (\E c \in Under : TRUE) => "overtaken" \in windows'
    BY <2>3, InFlightFacts
  <2>. QED
    BY <2>1, <2>2, <2>3, <2>4
<1>2. CASE AddServer(slot, h)
  <2>1. /\ current = None /\ Unused(slot) /\ Takes(slot, h, store) /\ CallAdded(slot, store)
        /\ \A o \in Slots \ {slot} : object'[o] = object[o]
        /\ UNCHANGED <<server, signedOut, windows>>
    BY <1>2, AddServerEffect
  <2>2. Remade(slot, h, store)
    BY <2>1, RemadeIntro
  <2>3. signedOut' = (signedOut \/ store # store)
    BY <2>1 DEF Shape, TypeOK
  <2>. QED
    BY <2>1, <2>2, <2>3
<1>3. CASE Restart(slot)
  <2> DEFINE g == object[current].host
  <2>1. /\ object[current] \in Providers
        /\ Takes(slot, g, store)
        /\ \A o \in Slots \ {slot} : object'[o] = None
        /\ \A c \in Calls : call'[c] = None \/ TakesRefresh(c, slot, store)
        /\ \A c, d \in Calls : call'[c] # None /\ call'[d] # None => c = d
        /\ windows \subseteq windows' /\ UNCHANGED <<server, signedOut>>
        /\ (\E c \in Under : Refreshing(c) /\ call[c].stage = "me") => "not stored" \in windows'
    BY <1>3, RestartEffect
  <2>2. g \in Hosts
    BY <2>1 DEF Providers
  <2>3. Remade(slot, g, store)
    BY <2>1, <2>2 DEF Remade, Under
  <2>4. signedOut' = (signedOut \/ store # store)
    BY <2>1 DEF Shape, TypeOK
  <2>. QED
    BY <2>1, <2>2, <2>3, <2>4
<1>. QED
  BY <1>1, <1>2, <1>3

\* The refresh that a new provider starts with.
LEMMA RestoreFacts ==
  ASSUME Shape, NEW slot, NEW h, NEW s, Remade(slot, h, s), NEW c \in Under', TakesRefresh(c, slot, s)
  PROVE  /\ s # None /\ s = store /\ s \in Session /\ store' = s /\ Of(object'[slot]) = s
         /\ call'[c].kind = "restore" /\ Refreshing(c)' /\ ~Signing(c)'
         /\ call'[c].stage = "refresh" /\ call'[c].slot = slot /\ P(c)' = object'[slot]
         /\ call'[c].sent = s.refresh /\ s.refresh # None
<1>1. /\ s \in Session /\ s.refresh # None /\ call'[c].kind = "restore" /\ call'[c].slot = slot
      /\ call'[c].sent = s.refresh /\ call'[c].stage = "refresh"
  BY DEF TakesRefresh
<1>2. s # None /\ s = store
  BY <1>1, Constants DEF Remade
<1>3. store' = s /\ Of(object'[slot]) = s
  BY <1>1, <1>2 DEF Remade, Takes
<1>. QED
  BY <1>1, <1>2, <1>3 DEF Refreshing, Refreshes, Signing, P

\* The provider in the slot is what is stored, or has nothing.
LEMMA TakesFacts ==
  ASSUME NEW slot, NEW h, NEW s, Takes(slot, h, s)
  PROVE  /\ \/ /\ s \in Session /\ store' = s /\ object'[slot].user = s.user
               /\ object'[slot].token = s.token /\ object'[slot].refresh = s.refresh
            \/ /\ store' = None /\ object'[slot].user = None
               /\ object'[slot].token = None /\ object'[slot].refresh = None
         /\ current' = slot /\ object'[slot].host = h
<1>1. CASE s \in Session /\ store' = s /\ Of(object'[slot]) = s
  BY <1>1 DEF Of, Takes, Session
<1>. QED
  BY <1>1 DEF Takes

LEMMA UserRemade ==
  ASSUME Shape, Shape', UserOK, NEW slot, NEW h, NEW s, Remade(slot, h, s)
  PROVE  UserOK'
<1>1. slot \in Slots /\ grants' = grants /\ Takes(slot, h, s) /\ s \in {store, None}
  BY DEF Remade, server
<1>2. OfUser(grants, s, s.user) \/ s = None
  BY <1>1 DEF UserOK, StoreMatches
<1>3. /\ store' # None => OfUser(grants', store', store'.user)
      /\ object'[slot].user # None => OfUser(grants', object'[slot], object'[slot].user)
  <2>1. CASE /\ s \in Session /\ store' = s /\ object'[slot].user = s.user
             /\ object'[slot].token = s.token /\ object'[slot].refresh = s.refresh
    BY <1>1, <1>2, <2>1, Constants DEF OfUser
  <2>. QED
    BY <1>1, <2>1, TakesFacts
<1>4. ASSUME NEW c \in Under', ~TakesRefresh(c, slot, s)
      PROVE  /\ c \in Under /\ call'[c] = call[c] /\ call[c].slot # slot
             /\ P(c)' = P(c) /\ SentUser(c)' = SentUser(c)
             /\ Signing(c)' <=> Signing(c)
             /\ Refreshing(c)' <=> Refreshing(c)
             /\ LoggingIn(c)' <=> LoggingIn(c)
  <2>1. c \in Under /\ call'[c] = call[c] /\ call[c].slot # slot /\ c \in Calls /\ call[c] # None
    BY <1>4 DEF Remade, Under
  <2>2. object'[call[c].slot] # None /\ call[c].slot \in Slots
    BY <2>1, CallFacts DEF Shape, Present
  <2>3. P(c)' = P(c)
    BY <2>1, <2>2 DEF P, Remade
  <2>. QED
    BY <1>1, <2>1, <2>3 DEF SentUser, Signing, Refreshing, LoggingIn
<1>5. ASSUME NEW c \in Under', TakesRefresh(c, slot, s)
      PROVE  /\ Refreshing(c)' /\ ~Signing(c)' /\ call'[c].slot = slot
             /\ P(c)'.user = s.user /\ SentUser(c)' = s.user /\ OfUser(grants', P(c)', s.user)
  <2>1. /\ s # None /\ s \in Session /\ Of(object'[slot]) = s
        /\ Refreshing(c)' /\ ~Signing(c)' /\ call'[c].slot = slot /\ P(c)' = object'[slot]
        /\ call'[c].sent = s.refresh /\ s.refresh # None
    BY <1>5, RestoreFacts
  <2>2. SentUser(c)' = s.user
    BY <1>1, <1>2, <2>1 DEF SentUser, OfUser
  <2>3. /\ object'[slot].user = s.user /\ object'[slot].token = s.token
        /\ object'[slot].refresh = s.refresh
    BY <2>1 DEF Of
  <2>. QED
    BY <1>1, <1>2, <2>1, <2>2, <2>3 DEF OfUser
<1>6. SignInAlone'
  <2>1. ASSUME NEW c \in Under', NEW d \in Under', Signing(c)'
        PROVE  /\ Signing(d)' => c = d
               /\ Refreshing(d)' => call'[c].slot # call'[d].slot
    <3>1. ~TakesRefresh(c, slot, s)
      BY <1>5, <2>1
    <3>. QED
      BY <1>4, <1>5, <2>1, <3>1 DEF UserOK, SignInAlone
  <2>. QED
    BY <2>1 DEF SignInAlone
<1>7. ObjectsMatch'
  <2>1. ASSUME NEW o \in Slots, object'[o] # None, object'[o].user # None, o # slot
        PROVE  \/ OfUser(grants', object'[o], object'[o].user)
               \/ \E d \in Under' : call'[d].slot = o /\ LoggingIn(d)'
    <3>1. object'[o] = object[o] /\ \A c \in Under : call'[c] = call[c]
      BY <2>1 DEF Remade
    <3>2. \A d \in Under : d \in Under' /\ (LoggingIn(d)' <=> LoggingIn(d))
      BY <3>1 DEF Under, LoggingIn
    <3>. QED
      BY <1>1, <2>1, <3>1, <3>2 DEF UserOK, ObjectsMatch
  <2>. QED
    BY <1>3, <2>1 DEF ObjectsMatch
<1>8. SignInMatches'
  <2>1. ASSUME NEW d \in Under', Signing(d)'
        PROVE  /\ call'[d].prev.user # None => OfUser(grants', call'[d].prev, call'[d].prev.user)
               /\ LoggingIn(d)' => OfUser(grants', P(d)', SentUser(d)')
    <3>1. ~TakesRefresh(d, slot, s)
      BY <1>5, <2>1
    <3>. QED
      BY <1>1, <1>4, <2>1, <3>1 DEF UserOK, SignInMatches
  <2>. QED
    BY <2>1 DEF SignInMatches
<1>9. RefreshMatches'
  <2>1. ASSUME NEW d \in Under', Refreshing(d)'
        PROVE  OfUser(grants', P(d)', SentUser(d)') /\ P(d)'.user \in {None, SentUser(d)'}
    BY <1>1, <1>4, <1>5, <2>1 DEF UserOK, RefreshMatches
  <2>2. ASSUME NEW d \in Under', Refreshing(d)', NEW e \in Under', Refreshing(e)',
               call'[e].slot = call'[d].slot
        PROVE  SentUser(e)' = SentUser(d)'
    BY <1>4, <1>5, <2>2 DEF UserOK, RefreshMatches
  <2>. QED
    BY <2>1, <2>2 DEF RefreshMatches
<1>. QED
  BY <1>3, <1>6, <1>7, <1>8, <1>9 DEF UserOK, StoreMatches

LEMMA UserSame ==
  ASSUME UserOK, UNCHANGED <<grants, object, call>>, store' \in {store, None}
  PROVE  UserOK'
<1>1. /\ Under' = Under
      /\ \A c : /\ Signing(c)' <=> Signing(c)
                /\ Refreshing(c)' <=> Refreshing(c)
                /\ LoggingIn(c)' <=> LoggingIn(c)
                /\ P(c)' = P(c) /\ SentUser(c)' = SentUser(c)
  BY DEF Under, Signing, Refreshing, LoggingIn, P, SentUser
<1>2. StoreMatches'
  BY DEF UserOK, StoreMatches
<1>3. SignInAlone' /\ ObjectsMatch'
  BY <1>1 DEF UserOK, SignInAlone, ObjectsMatch
<1>4. SignInMatches' /\ RefreshMatches'
  BY <1>1 DEF UserOK, SignInMatches, RefreshMatches
<1>. QED
  BY <1>2, <1>3, <1>4 DEF UserOK

-----------------------------------------------------------------------------
(* Tokens and their hosts.                                                 *)

CallsAtCurrent == \A c \in Under : call[c].slot = current

HostOK ==
  /\ CallsAtCurrent
  /\ \A o \in Slots : object[o] # None => OfHost(grants, object[o], object[o].host)
  /\ \A c \in Under : /\ OfHost(grants, call[c].prev, P(c).host)
                      /\ call[c].sent # None => grants[call[c].sent].host = P(c).host
  /\ store # None => current # None /\ OfHost(grants, store, object[current].host)

HostStep(c) ==
  /\ OfHost(grants', After(c), P(c).host)
  /\ store' \in {store, None} \/ store' = Of(After(c))
  /\ call'[c] # None =>
       /\ call'[c].slot = call[c].slot /\ OfHost(grants', call'[c].prev, P(c).host)
       /\ call'[c].sent # None => grants'[call'[c].sent].host = P(c).host

LEMMA HostAlters ==
  ASSUME Shape, Keeps, HostOK, NEW c \in Calls, Alters(c), HostStep(c)
  PROVE  HostOK'
<1>1. /\ c \in Under /\ call[c] # None /\ call[c].slot \in Slots /\ call[c].slot = current
      /\ current' = current /\ After(c).host = P(c).host /\ P(c) = object[current]
      /\ After(c) = object'[current] /\ current # None
      /\ \A o \in Slots \ {current} : object'[o] = object[o]
      /\ \A d \in Calls \ {c} : call'[d] = call[d]
  BY CallFacts, Constants DEF Alters, Under, HostOK, CallsAtCurrent, P, After
<1>2. ASSUME NEW d \in Under', d # c
      PROVE  d \in Under /\ call'[d] = call[d] /\ call[d] # None
  BY <1>1, <1>2 DEF Under
<1>3. CallsAtCurrent'
  <2>1. ASSUME NEW d \in Under'
        PROVE  call'[d].slot = current'
    <3>1. CASE d = c
      BY <1>1, <2>1, <3>1 DEF HostStep, Under
    <3>2. CASE d # c
      BY <1>1, <1>2, <3>2 DEF HostOK, CallsAtCurrent
    <3>. QED
      BY <3>1, <3>2
  <2>. QED
    BY <2>1 DEF CallsAtCurrent
<1>4. \A o \in Slots : object'[o] # None => OfHost(grants', object'[o], object'[o].host)
  <2>1. ASSUME NEW o \in Slots, object'[o] # None, o # current
        PROVE  OfHost(grants', object'[o], object'[o].host)
    <3>1. object'[o] = object[o] /\ Holds(object[o])
      BY <1>1, <2>1 DEF Shape, Present
    <3>. QED
      BY <2>1, <3>1, OfKept DEF HostOK
  <2>. QED
    BY <1>1, <2>1 DEF HostStep
<1>5. ASSUME NEW d \in Under'
      PROVE  /\ OfHost(grants', call'[d].prev, P(d)'.host)
             /\ call'[d].sent # None => grants'[call'[d].sent].host = P(d)'.host
  <2>1. P(d)'.host = P(c).host
    BY <1>1, <1>3 DEF CallsAtCurrent, P
  <2>2. CASE d = c
    BY <1>5, <2>1, <2>2 DEF HostStep, Under
  <2>3. CASE d # c
    <3>1. d \in Under /\ call'[d] = call[d] /\ call[d] # None /\ d \in Calls
      BY <1>2, <2>3 DEF Under
    <3>2. P(d) = P(c)
      BY <1>1, <3>1 DEF HostOK, CallsAtCurrent, P
    <3>3. OfHost(grants', call[d].prev, P(c).host)
      BY <3>1, <3>2, CallFacts, OfKept DEF HostOK
    <3>4. call[d].sent # None => grants'[call[d].sent].host = P(c).host
      BY <3>1, <3>2, CallFacts DEF HostOK, Maybe, Keeps
    <3>. QED
      BY <2>1, <3>1, <3>3, <3>4
  <2>. QED
    BY <2>2, <2>3
<1>6. store' # None => current' # None /\ OfHost(grants', store', object'[current'].host)
  <2>1. store # None => OfHost(grants', store, object[current].host)
    BY OfKept DEF HostOK, Shape, Present
  <2>2. CASE store' \in {store, None}
    BY <1>1, <2>1, <2>2
  <2>3. CASE store' = Of(After(c))
    BY <1>1, <2>3 DEF HostStep, Of, OfHost
  <2>. QED
    BY <2>2, <2>3 DEF HostStep
<1>. QED
  BY <1>3, <1>4, <1>5, <1>6 DEF HostOK

\* Tokens that were the provider's, or that its host has just issued.
LEMMA HostTokens ==
  ASSUME Shape, Keeps, HostOK, NEW c \in Under, NEW p,
         \A g \in {p.token, p.refresh} \ {None} :
           \/ g \in {P(c).token, P(c).refresh, call[c].prev.token, call[c].prev.refresh}
           \/ grants'[g].host = P(c).host
  PROVE  OfHost(grants', p, P(c).host)
<1>1. c \in Calls /\ call[c] # None
  BY DEF Under
<1>2. P(c) = object[call[c].slot] /\ call[c].slot \in Slots /\ P(c) # None
  BY <1>1, CallFacts, Constants DEF P
<1>3. OfHost(grants, P(c), P(c).host) /\ OfHost(grants, call[c].prev, P(c).host)
  BY <1>2 DEF HostOK
<1>4. OfHost(grants', P(c), P(c).host) /\ OfHost(grants', call[c].prev, P(c).host)
  BY <1>1, <1>3, CallFacts, OfKept
<1>. QED
  BY <1>4 DEF OfHost

LEMMA StepHost ==
  ASSUME Shape, Shape', ServersKept, HostOK, NEW c \in Calls, Alters(c), Stores(c),
         \/ LoginGranted(c) \/ LoginConfirmed(c) \/ LoginEnds(c) \/ OAuthEnds(c) \/ LoginFails(c)
         \/ RefreshGranted(c) \/ RefreshEnds(c) \/ Verified(c) \/ Rejected(c) \/ RefreshFails(c)
         \/ LogoutEnds(c)
  PROVE  HostOK'
<1>1. Keeps /\ c \in Under /\ call[c] # None
  BY DEF ServersKept, Alters, Under
<1>2. call[c].sent # None => grants[call[c].sent].host = P(c).host
  BY <1>1 DEF HostOK
<1>3. OfHost(grants', call[c].prev, P(c).host)
  BY <1>1, CallFacts, OfKept DEF HostOK
<1>4. store' \in {store, None} \/ store' = Of(After(c))
  BY DEF Stores
<1>5. CASE LoginGranted(c) \/ RefreshGranted(c)
  <2>1. /\ GoesOn(c) /\ After(c).token = NewGrant /\ After(c).refresh \in {NewGrant, None}
        /\ call'[c].sent = NewGrant /\ grants'[NewGrant].host = P(c).host
    <3>1. CASE LoginGranted(c)
      BY <3>1, LoginGrantedEffect DEF Grew
    <3>2. CASE RefreshGranted(c)
      BY <1>1, <1>2, <3>2, RefreshGrantedEffect, SentKnown DEF Grew
    <3>. QED
      BY <1>5, <3>1, <3>2
  <2>2. OfHost(grants', After(c), P(c).host)
    BY <2>1 DEF OfHost
  <2>3. HostStep(c)
    BY <1>3, <1>4, <2>1, <2>2 DEF HostStep, GoesOn
  <2>. QED
    BY <1>1, <2>3, HostAlters
<1>6. CASE LoginConfirmed(c)
  <2>1. /\ GoesOn(c) /\ After(c).token = P(c).token /\ After(c).refresh = P(c).refresh
        /\ call'[c].sent = None
    BY <1>6, LoginConfirmedEffect
  <2>2. OfHost(grants', After(c), P(c).host)
    BY <1>1, <2>1, HostTokens
  <2>3. HostStep(c)
    BY <1>3, <1>4, <2>1, <2>2 DEF HostStep, GoesOn
  <2>. QED
    BY <1>1, <2>3, HostAlters
<1>7. CASE OAuthEnds(c)
  <2>1. /\ After(c).token = NewGrant /\ After(c).refresh \in {NewGrant, None}
        /\ call'[c] = None /\ grants'[NewGrant].host = P(c).host
    BY <1>7, OAuthEndsEffect DEF Grew
  <2>2. OfHost(grants', After(c), P(c).host)
    BY <2>1 DEF OfHost
  <2>3. HostStep(c)
    BY <1>4, <2>1, <2>2 DEF HostStep
  <2>. QED
    BY <1>1, <2>3, HostAlters
<1>8. CASE LoginEnds(c) \/ LoginFails(c) \/ RefreshEnds(c) \/ Verified(c) \/ Rejected(c) \/ LogoutEnds(c)
  <2>1. /\ call'[c] = None
        /\ \A g \in {After(c).token, After(c).refresh} \ {None} :
             g \in {P(c).token, P(c).refresh, call[c].prev.token, call[c].prev.refresh}
    <3>1. CASE LoginEnds(c)
      BY <3>1, LoginEndsEffect
    <3>2. CASE LoginFails(c)
      BY <3>2, LoginFailsEffect
    <3>3. CASE RefreshEnds(c) \/ Verified(c)
      BY <3>3, AnswerEffect
    <3>4. CASE Rejected(c) \/ LogoutEnds(c)
      BY <3>4, ClearsEffect
    <3>. QED
      BY <1>8, <3>1, <3>2, <3>3, <3>4
  <2>2. OfHost(grants', After(c), P(c).host)
    BY <1>1, <2>1, HostTokens
  <2>3. HostStep(c)
    BY <1>4, <2>1, <2>2 DEF HostStep
  <2>. QED
    BY <1>1, <2>3, HostAlters
<1>9. CASE RefreshFails(c)
  <2>1. /\ After(c) = P(c)
        /\ \/ call'[c] = None
           \/ StartsRefresh(call'[c], "background", call[c].slot)
    BY <1>9, RefreshFailsEffect
  <2>2. OfHost(grants', After(c), P(c).host)
    BY <1>1, <2>1, HostTokens
  <2>3. ASSUME call'[c] # None
        PROVE  /\ call'[c].slot = call[c].slot /\ OfHost(grants', call'[c].prev, P(c).host)
               /\ call'[c].sent # None => grants'[call'[c].sent].host = P(c).host
    <3>1. /\ call'[c].slot = call[c].slot /\ call'[c].sent \in {P(c).token, P(c).refresh} \ {None}
          /\ call'[c].prev.token = None /\ call'[c].prev.refresh = None
      BY <2>1, <2>3 DEF StartsRefresh, P
    <3>. QED
      BY <2>1, <2>2, <3>1, NothingOf DEF OfHost
  <2>4. HostStep(c)
    BY <1>4, <2>2, <2>3 DEF HostStep
  <2>. QED
    BY <1>1, <2>4, HostAlters
<1>. QED
  BY <1>5, <1>6, <1>7, <1>8, <1>9

LEMMA HostBegins ==
  ASSUME Shape, HostOK, NEW c \in Calls, Begins(c), call'[c].slot = current,
         \A g \in {call'[c].prev.token, call'[c].prev.refresh, call'[c].sent} \ {None} :
           g \in {object[current].token, object[current].refresh}
  PROVE  HostOK'
<1>1. /\ c \notin Under /\ UNCHANGED <<grants, object, current, store>>
      /\ \A d \in Calls \ {c} : call'[d] = call[d]
      /\ call'[c] # None /\ object[current] # None
  BY Constants DEF Begins, server
<1>2. current \in Slots
  BY <1>1, Constants DEF Begins, CallRecords
<1>3. Under' = Under \cup {c} /\ \A d \in Under : d # c /\ call'[d] = call[d]
  BY <1>1 DEF Under
<1>4. CallsAtCurrent'
  BY <1>1, <1>3 DEF HostOK, CallsAtCurrent
<1>5. OfHost(grants, object[current], object[current].host)
  BY <1>1, <1>2 DEF HostOK
<1>6. ASSUME NEW d \in Under'
      PROVE  /\ OfHost(grants', call'[d].prev, P(d)'.host)
             /\ call'[d].sent # None => grants'[call'[d].sent].host = P(d)'.host
  <2>1. CASE d = c
    <3>1. P(d)' = object[current]
      BY <1>1, <2>1 DEF P
    <3>. QED
      BY <1>1, <1>5, <2>1, <3>1 DEF OfHost
  <2>2. CASE d \in Under
    <3>1. P(d)' = P(d) /\ call'[d] = call[d]
      BY <1>1, <1>3, <2>2 DEF P
    <3>. QED
      BY <1>1, <2>2, <3>1 DEF HostOK
  <2>. QED
    BY <1>3, <2>1, <2>2
<1>. QED
  BY <1>1, <1>4, <1>6 DEF HostOK

LEMMA HostStarts ==
  ASSUME Shape, HostOK, "replaced" \notin windows', NEW c \in Calls,
         \/ \E u \in Users : LoginStarts(c, u, "login") \/ LoginStarts(c, u, "oauth")
         \/ \E slot \in Slots : Background(c, slot)
         \/ ReAuth(c) \/ LogoutStarts(c)
  PROVE  HostOK'
<1>1. ASSUME NEW u \in Users, NEW kind \in {"login", "oauth"}, LoginStarts(c, u, kind)
      PROVE  HostOK'
  <2>1. /\ Begins(c) /\ call'[c].slot = current /\ call'[c].sent = None
        /\ call'[c].prev = Of(object[current])
    BY <1>1, LoginStartsEffect
  <2>. QED
    BY <2>1, HostBegins DEF Of
<1>2. ASSUME NEW slot \in Slots, Background(c, slot) \/ (ReAuth(c) /\ slot = current)
      PROVE  HostOK'
  <2>1. /\ Begins(c) /\ StartsRefresh(call'[c], call'[c].kind, slot) /\ slot = current
    BY <1>2, RefreshStartsEffect
  <2>2. /\ call'[c].slot = current /\ call'[c].prev.token = None /\ call'[c].prev.refresh = None
        /\ call'[c].sent \in {object[current].token, object[current].refresh}
    BY <2>1 DEF StartsRefresh
  <2>. QED
    BY <2>1, <2>2, HostBegins
<1>3. CASE ReAuth(c)
  <2>1. current \in Slots
    BY <1>3, ObjectFacts DEF ReAuth
  <2>. QED
    BY <1>2, <1>3, <2>1
<1>4. CASE LogoutStarts(c)
  <2>1. /\ Begins(c) /\ call'[c].slot = current /\ call'[c].sent = object[current].token
        /\ call'[c].prev = Empty
    BY <1>4, LogoutStartsEffect
  <2>. QED
    BY <2>1, HostBegins, EmptyFacts
<1>. QED
  BY <1>1, <1>2, <1>3, <1>4

\* Outside the window no call goes on when a provider is made.
LEMMA CallsEnd ==
  ASSUME Shape, Shape', CallsAtCurrent, "overtaken" \notin windows',
         NEW slot, NEW g, NEW s, Remade(slot, g, s),
         \/ \A o \in Slots \ {slot} : object'[o] = None
         \/ (current = None \/ (InFlight(Kinds) => "overtaken" \in windows'))
  PROVE  /\ \A c \in Under' : TakesRefresh(c, slot, s)
         /\ \A c, d \in Under' : c = d
<1>1. ASSUME NEW c \in Under', ~TakesRefresh(c, slot, s)
      PROVE  FALSE
  <2>1. c \in Under /\ call'[c] = call[c] /\ call[c].slot # slot /\ c \in Calls /\ call[c] # None
    BY <1>1 DEF Remade, Under
  <2>2. call[c].slot \in Slots /\ object'[call[c].slot] # None
    BY <1>1, <2>1, CallFacts DEF Shape, Present
  <2>3. current # None
    BY <2>1, <2>2, Constants DEF CallsAtCurrent
  <2>. QED
    BY <2>1, <2>2, <2>3, InFlightFacts
<1>. QED
  BY <1>1 DEF Remade

LEMMA HostRemade ==
  ASSUME Shape, Shape', HostOK, NEW slot, NEW g, NEW s, Remade(slot, g, s),
         s # None => g = object[current].host \/ current = None,
         \A c \in Under' : TakesRefresh(c, slot, s)
  PROVE  HostOK'
<1>1. /\ slot \in Slots /\ grants' = grants /\ Takes(slot, g, s) /\ s \in {store, None}
      /\ current' = slot /\ object'[slot].host = g /\ slot # None
  BY TakesFacts, Constants DEF Remade, server
<1>2. s # None => OfHost(grants, s, g)
  BY <1>1 DEF HostOK
<1>3. /\ OfHost(grants', object'[slot], g)
      /\ store' # None => OfHost(grants', store', g)
  <2>1. CASE /\ s \in Session /\ store' = s /\ object'[slot].user = s.user
             /\ object'[slot].token = s.token /\ object'[slot].refresh = s.refresh
    BY <1>1, <1>2, <2>1, Constants DEF OfHost
  <2>2. CASE /\ store' = None /\ object'[slot].user = None
             /\ object'[slot].token = None /\ object'[slot].refresh = None
    BY <2>2, NothingOf
  <2>. QED
    BY <1>1, <2>1, <2>2, TakesFacts
<1>4. \A o \in Slots : object'[o] # None => OfHost(grants', object'[o], object'[o].host)
  BY <1>1, <1>3 DEF HostOK, Remade
<1>5. ASSUME NEW c \in Under'
      PROVE  /\ call'[c].slot = slot
             /\ OfHost(grants', call'[c].prev, P(c)'.host)
             /\ call'[c].sent # None => grants'[call'[c].sent].host = P(c)'.host
  <2>1. /\ s # None /\ call'[c].slot = slot /\ P(c)' = object'[slot] /\ call'[c].sent = s.refresh
        /\ s.refresh # None
    BY <1>5, RestoreFacts
  <2>2. call'[c].prev.token = None /\ call'[c].prev.refresh = None
    BY <1>5 DEF TakesRefresh
  <2>. QED
    BY <1>1, <1>2, <2>1, <2>2, NothingOf DEF OfHost
<1>. QED
  BY <1>1, <1>3, <1>4, <1>5 DEF HostOK, CallsAtCurrent

LEMMA HostSame ==
  ASSUME HostOK, UNCHANGED <<grants, object, call>>,
         \/ current' = current /\ store' \in {store, None}
         \/ current' = None /\ store' = None /\ Under = {}
  PROVE  HostOK'
<1>1. Under' = Under /\ \A c : P(c)' = P(c)
  BY DEF Under, P
<1>2. CallsAtCurrent'
  BY <1>1 DEF HostOK, CallsAtCurrent
<1>. QED
  BY <1>1, <1>2 DEF HostOK

LEMMA HostConfigures ==
  ASSUME Shape, Shape', HostOK, {"overtaken", "replaced"} \cap windows' = {},
         NEW slot \in Slots, NEW h \in Hosts, Configures(slot, h)
  PROVE  HostOK'
<1>1. CASE UpdateServer(slot, h) \/ AddServer(slot, h) \/ Restart(slot)
  <2>1. PICK g \in Hosts, s \in {store, None} :
          /\ Remade(slot, g, s)
          /\ s # None => g = object[current].host \/ current = None
          /\ \/ \A o \in Slots \ {slot} : object'[o] = None
             \/ (current = None \/ (InFlight(Kinds) => "overtaken" \in windows'))
    BY <1>1, ConfiguresEffect
  <2>2. \A c \in Under' : TakesRefresh(c, slot, s)
    BY <2>1, CallsEnd DEF HostOK
  <2>. QED
    BY <2>1, <2>2, HostRemade
<1>2. CASE RemoveServer
  <2>1. /\ UNCHANGED <<grants, object, call>> /\ current' = None /\ store' = None
        /\ InFlight(Kinds) => "overtaken" \in windows'
    BY <1>2 DEF RemoveServer, Forgotten, server, Falls, When
  <2>2. Under = {}
    BY <2>1, InFlightFacts
  <2>. QED
    BY <2>1, <2>2, HostSame
<1>. QED
  BY <1>1, <1>2 DEF Configures

-----------------------------------------------------------------------------
(* Who has signed out.                                                     *)

\* A sign-in that had nobody signed in, and has not got so far yet.
SignsInAnew(c) == Signing(c) /\ ~call[c].had /\ call[c].stage \in {"login", "me"}

SignedOutOK ==
  /\ \A c, d \in Under : call[c].kind = "logout" => c = d
  /\ signedOut =>
       /\ store = None
       /\ current # None => object[current].user = None
       /\ \A c \in Under : SignsInAnew(c)

OutStep(c) ==
  /\ call'[c] # None => (call'[c].kind = "logout" => call[c].kind = "logout")
  /\ signedOut' =>
       /\ store' = None /\ After(c).user = None
       /\ signedOut \/ call[c].kind = "logout"
       /\ call'[c] # None => SignsInAnew(c)'

LEMMA OutAlters ==
  ASSUME Shape, HostOK, SignedOutOK, NEW c \in Calls, Alters(c), OutStep(c)
  PROVE  SignedOutOK'
<1>1. /\ c \in Under /\ call[c] # None /\ current' = current /\ After(c) = object'[current]
      /\ \A d \in Calls \ {c} : call'[d] = call[d]
  BY DEF Alters, Under, HostOK, CallsAtCurrent, After
<1>2. ASSUME NEW d \in Under', d # c
      PROVE  d \in Under /\ call'[d] = call[d]
  BY <1>1, <1>2 DEF Under
<1>3. ASSUME NEW d \in Under', NEW e \in Under', call'[d].kind = "logout"
      PROVE  d = e
  <2>1. d \in Under /\ e \in Under
    BY <1>1, <1>2
  <2>2. call[d].kind = "logout"
    BY <1>2, <1>3 DEF OutStep, Under
  <2>. QED
    BY <2>1, <2>2 DEF SignedOutOK
<1>4. ASSUME signedOut', NEW d \in Under'
      PROVE  SignsInAnew(d)'
  <2>1. CASE d = c
    BY <1>4, <2>1 DEF OutStep, Under
  <2>2. CASE d # c
    <3>1. d \in Under /\ call'[d] = call[d]
      BY <1>2, <2>2
    <3>2. signedOut
      BY <1>1, <1>4, <2>2, <3>1 DEF OutStep, SignedOutOK
    <3>. QED
      BY <3>1, <3>2 DEF SignedOutOK, SignsInAnew, Signing
  <2>. QED
    BY <2>1, <2>2
<1>. QED
  BY <1>1, <1>3, <1>4 DEF SignedOutOK, OutStep

LEMMA StepOut ==
  ASSUME Shape, HostOK, SignedOutOK, NEW c \in Calls, Alters(c),
         \/ LoginGranted(c) \/ LoginConfirmed(c) \/ LoginEnds(c) \/ OAuthEnds(c) \/ LoginFails(c)
         \/ RefreshGranted(c) \/ RefreshEnds(c) \/ Verified(c) \/ Rejected(c) \/ RefreshFails(c)
         \/ LogoutEnds(c)
  PROVE  SignedOutOK'
<1>1. c \in Under /\ P(c) = object[current] /\ current # None
  BY CallFacts, Constants DEF Alters, Under, HostOK, CallsAtCurrent, P
<1>2. signedOut => store = None /\ P(c).user = None /\ SignsInAnew(c)
  BY <1>1 DEF SignedOutOK
<1>3. CASE LoginGranted(c)
  <2>1. /\ GoesOn(c) /\ call[c].kind = "login" /\ After(c).user = P(c).user
        /\ call'[c].stage = "me" /\ store' = store /\ signedOut' = signedOut
    BY <1>3, LoginGrantedEffect
  <2>2. signedOut => SignsInAnew(c)'
    BY <1>2, <2>1 DEF GoesOn, SignsInAnew, Signing
  <2>3. OutStep(c)
    BY <1>2, <2>1, <2>2 DEF OutStep, GoesOn
  <2>. QED
    BY <2>3, OutAlters
<1>4. CASE LoginConfirmed(c)
  <2>1. GoesOn(c) /\ signedOut' = FALSE
    BY <1>4, LoginConfirmedEffect
  <2>2. OutStep(c)
    BY <2>1 DEF OutStep, GoesOn
  <2>. QED
    BY <2>2, OutAlters
<1>5. CASE LoginEnds(c)
  <2>1. call'[c] = None /\ signedOut' = signedOut /\ call[c].stage = "settings"
    BY <1>5, LoginEndsEffect
  <2>2. OutStep(c)
    BY <1>2, <2>1 DEF OutStep, SignsInAnew
  <2>. QED
    BY <2>2, OutAlters
<1>6. CASE OAuthEnds(c)
  <2>1. call'[c] = None /\ signedOut' = FALSE
    BY <1>6, OAuthEndsEffect
  <2>2. OutStep(c)
    BY <2>1 DEF OutStep
  <2>. QED
    BY <2>2, OutAlters
<1>7. CASE LoginFails(c)
  <2>1. /\ call'[c] = None /\ signedOut' = signedOut
        /\ ~call[c].had => After(c).user = None /\ store' = None
    BY <1>7, LoginFailsEffect
  <2>2. OutStep(c)
    BY <1>2, <2>1 DEF OutStep, SignsInAnew
  <2>. QED
    BY <2>2, OutAlters
<1>8. CASE RefreshGranted(c)
  <2>1. GoesOn(c) /\ Refreshing(c) /\ signedOut' = signedOut
    BY <1>8, RefreshGrantedEffect
  <2>2. ~SignsInAnew(c)
    BY <2>1 DEF SignsInAnew, Signing, Refreshing, Refreshes
  <2>3. OutStep(c)
    BY <1>2, <2>1, <2>2 DEF OutStep, GoesOn
  <2>. QED
    BY <2>3, OutAlters
<1>9. CASE RefreshEnds(c) \/ Verified(c)
  <2>1. call'[c] = None /\ Refreshing(c) /\ signedOut' = signedOut
    BY <1>9, AnswerEffect
  <2>2. ~SignsInAnew(c)
    BY <2>1 DEF SignsInAnew, Signing, Refreshing, Refreshes
  <2>3. OutStep(c)
    BY <1>2, <2>1, <2>2 DEF OutStep
  <2>. QED
    BY <2>3, OutAlters
<1>10. CASE Rejected(c) \/ LogoutEnds(c)
  <2>1. /\ call'[c] = None /\ After(c).user = None /\ store' = None
        /\ call[c].kind = "logout" \/ signedOut' = signedOut
    BY <1>10, ClearsEffect
  <2>2. OutStep(c)
    BY <2>1 DEF OutStep
  <2>. QED
    BY <2>2, OutAlters
<1>11. CASE RefreshFails(c)
  <2>1. /\ Refreshing(c) /\ signedOut' = signedOut
        /\ \/ call'[c] = None
           \/ StartsRefresh(call'[c], "background", call[c].slot)
    BY <1>11, RefreshFailsEffect
  <2>2. ~SignsInAnew(c)
    BY <2>1 DEF SignsInAnew, Signing, Refreshing, Refreshes
  <2>3. OutStep(c)
    BY <1>2, <2>1, <2>2 DEF OutStep, StartsRefresh
  <2>. QED
    BY <2>3, OutAlters
<1>. QED
  BY <1>3, <1>4, <1>5, <1>6, <1>7, <1>8, <1>9, <1>10, <1>11

LEMMA OutBegins ==
  ASSUME Shape, SignedOutOK, NEW c \in Calls, Begins(c),
         \A d \in Under : call[d].kind # "logout",
         call'[c].kind = "logout" => Under = {},
         signedOut => SignsInAnew(c)'
  PROVE  SignedOutOK'
<1>1. /\ c \notin Under /\ UNCHANGED <<object, current, store, signedOut>>
      /\ \A d \in Calls \ {c} : call'[d] = call[d] /\ call'[c] # None
  BY Constants DEF Begins
<1>2. Under' \subseteq Under \cup {c} /\ \A d \in Under : d # c /\ call'[d] = call[d]
  BY <1>1 DEF Under
<1>3. \A d, e \in Under' : call'[d].kind = "logout" => d = e
  BY <1>2
<1>4. signedOut => \A d \in Under' : SignsInAnew(d)'
  BY <1>2 DEF SignedOutOK, SignsInAnew, Signing
<1>. QED
  BY <1>1, <1>3, <1>4 DEF SignedOutOK

LEMMA OutStarts ==
  ASSUME Shape, HostOK, SignedOutOK, {"overtaken", "replaced"} \cap windows' = {}, NEW c \in Calls,
         \/ \E u \in Users : LoginStarts(c, u, "login") \/ LoginStarts(c, u, "oauth")
         \/ \E slot \in Slots : Background(c, slot)
         \/ ReAuth(c) \/ LogoutStarts(c)
  PROVE  SignedOutOK'
<1>1. ASSUME NEW u \in Users, NEW kind \in {"login", "oauth"}, LoginStarts(c, u, kind)
      PROVE  SignedOutOK'
  <2>1. /\ Begins(c) /\ current # None /\ call'[c].kind = kind /\ call'[c].stage = "login"
        /\ call'[c].had = IsLoggedIn(object[current]) /\ ~InFlight({"logout"})
    BY <1>1, LoginStartsEffect
  <2>2. \A d \in Under : call[d].kind # "logout"
    BY <2>1, InFlightFacts
  <2>3. signedOut => ~IsLoggedIn(object[current])
    BY <2>1 DEF SignedOutOK, IsLoggedIn
  <2>4. signedOut => SignsInAnew(c)'
    BY <2>1, <2>3 DEF SignsInAnew, Signing
  <2>. QED
    BY <2>1, <2>2, <2>4, OutBegins
<1>2. ASSUME NEW slot \in Slots, Background(c, slot) \/ (ReAuth(c) /\ slot = current)
      PROVE  SignedOutOK'
  <2>1. /\ Begins(c) /\ call'[c].kind \in Refreshes /\ slot = current /\ object[slot].user # None
        /\ ~InFlight({"logout"})
    BY <1>2, RefreshStartsEffect
  <2>2. (\A d \in Under : call[d].kind # "logout") /\ call'[c].kind # "logout"
    BY <2>1, InFlightFacts DEF Refreshes
  <2>3. ~signedOut
    BY <1>2, <2>1, Constants DEF SignedOutOK
  <2>. QED
    BY <2>1, <2>2, <2>3, OutBegins
<1>3. CASE ReAuth(c)
  <2>1. current \in Slots
    BY <1>3, ObjectFacts DEF ReAuth
  <2>. QED
    BY <1>2, <1>3, <2>1
<1>4. CASE LogoutStarts(c)
  <2>1. Begins(c) /\ current # None /\ IsLoggedIn(object[current]) /\ ~InFlight(Kinds)
    BY <1>4, LogoutStartsEffect
  <2>2. Under = {} /\ ~signedOut
    BY <2>1, InFlightFacts DEF SignedOutOK, IsLoggedIn
  <2>. QED
    BY <2>1, <2>2, OutBegins
<1>. QED
  BY <1>1, <1>2, <1>3, <1>4

LEMMA OutConfigures ==
  ASSUME Shape, Shape', HostOK, SignedOutOK, {"overtaken", "replaced"} \cap windows' = {},
         NEW slot \in Slots, NEW h \in Hosts, Configures(slot, h)
  PROVE  SignedOutOK'
<1>1. CASE UpdateServer(slot, h) \/ AddServer(slot, h) \/ Restart(slot)
  <2>1. PICK g \in Hosts, s \in {store, None} :
          /\ Remade(slot, g, s)
          /\ signedOut' = (signedOut \/ s # store)
          /\ \/ \A o \in Slots \ {slot} : object'[o] = None
             \/ (current = None \/ (InFlight(Kinds) => "overtaken" \in windows'))
    BY <1>1, ConfiguresEffect
  <2>2. (\A c \in Under' : TakesRefresh(c, slot, s)) /\ \A c, d \in Under' : c = d
    BY <2>1, CallsEnd DEF HostOK
  <2>3. signedOut' => s = None
    BY <2>1 DEF SignedOutOK
  <2>4. s = None => /\ Under' = {} /\ store' = None /\ object'[slot].user = None /\ current' = slot
    BY <2>1, <2>2, TakesFacts, RestoreFacts, Constants DEF Remade
  <2>. QED
    BY <2>2, <2>3, <2>4 DEF SignedOutOK
<1>2. CASE RemoveServer
  <2>1. /\ UNCHANGED call /\ current' = None /\ store' = None
        /\ InFlight(Kinds) => "overtaken" \in windows'
    BY <1>2 DEF RemoveServer, Forgotten, Falls, When
  <2>2. Under = {} /\ Under' = {}
    BY <2>1, InFlightFacts DEF Under
  <2>. QED
    BY <2>1, <2>2 DEF SignedOutOK
<1>. QED
  BY <1>1, <1>2 DEF Configures

-----------------------------------------------------------------------------
(* What is stored is what the provider has.                                *)

Same(p) == IF store = None THEN p.user = None ELSE store = Of(p)

\* What a call relies on.
StoreHas(c) ==
  /\ Refreshing(c) => P(c).user # None
  /\ Refreshing(c) /\ call[c].stage = "verify" => P(c).token # None
  /\ call[c].stage = "me" => P(c).token # None
  /\ Signing(c) /\ call[c].had /\ call[c].stage \in {"login", "me"} =>
       store # None /\ call[c].prev = store

OneCall == \A c, d \in Under : c = d

StoreOK ==
  /\ OneCall
  /\ current # None => \/ Same(object[current])
                       \/ \E c \in Under : call[c].kind # "logout" /\ call[c].stage = "me"
  /\ \A c \in Under : StoreHas(c)

StoreStep(c) ==
  \/ call'[c] = None /\ IF store' = None THEN After(c).user = None ELSE store' = Of(After(c))
  \/ /\ call'[c] # None /\ StoreHas(c)'
     /\ \/ call'[c].stage = "me" /\ call'[c].kind # "logout"
        \/ IF store' = None THEN After(c).user = None ELSE store' = Of(After(c))

LEMMA StoreAlters ==
  ASSUME Shape, HostOK, StoreOK, NEW c \in Calls, Alters(c), StoreStep(c)
  PROVE  StoreOK'
<1>1. /\ c \in Under /\ call[c] # None /\ current' = current /\ After(c) = object'[current]
      /\ \A d \in Calls \ {c} : call'[d] = call[d]
  BY DEF Alters, Under, HostOK, CallsAtCurrent, After
<1>2. Under' = (IF call'[c] = None THEN {} ELSE {c})
  BY <1>1 DEF StoreOK, OneCall, Under
<1>3. OneCall' /\ \A d \in Under' : StoreHas(d)'
  BY <1>2 DEF OneCall, StoreStep
<1>4. \/ Same(object[current])'
      \/ \E d \in Under' : call'[d].kind # "logout" /\ call'[d].stage = "me"
  BY <1>1, <1>2 DEF StoreStep, Same
<1>. QED
  BY <1>3, <1>4 DEF StoreOK

LEMMA NewGrantFact ==
  ASSUME Shape
  PROVE  NewGrant # None
<1>1. grants \in Seq([user : Users, host : Hosts])
  BY DEF Shape, TypeOK
<1>2. NewGrant \in Nat
  BY <1>1 DEF NewGrant
<1>. QED
  BY <1>2, Constants

LEMMA OfIsSession ==
  ASSUME NEW p \in Providers, p.user # None, p.token # None
  PROVE  Of(p) \in Session /\ Of(p) # None /\ Of(p).refresh = p.refresh
BY Constants DEF Of, Session, Providers, Maybe

LEMMA StepStore ==
  ASSUME Shape, HostOK, StoreOK, "not stored" \notin windows', NEW c \in Calls, Alters(c),
         \/ LoginGranted(c) \/ LoginConfirmed(c) \/ LoginEnds(c) \/ OAuthEnds(c) \/ LoginFails(c)
         \/ RefreshGranted(c) \/ RefreshEnds(c) \/ Verified(c) \/ Rejected(c) \/ RefreshFails(c)
         \/ LogoutEnds(c)
  PROVE  StoreOK'
<1>1. /\ c \in Under /\ P(c) = object[current] /\ current # None /\ StoreHas(c)
      /\ P(c) \in Providers /\ After(c) \in Providers
  BY CallFacts, Constants DEF Alters, Under, HostOK, CallsAtCurrent, P, StoreOK
<1>2. call[c].stage # "me" => Same(P(c))
  BY <1>1 DEF StoreOK, OneCall
<1>3. CASE LoginGranted(c)
  <2>1. /\ GoesOn(c) /\ call[c].kind = "login" /\ call[c].stage = "login"
        /\ After(c).token = NewGrant /\ NewGrant # None
        /\ call'[c].stage = "me" /\ store' = store
    BY <1>3, LoginGrantedEffect, NewGrantFact
  <2>2. call'[c] # None /\ P(c)' = After(c) /\ ~Refreshing(c)'
    BY <2>1, Constants DEF GoesOn, P, After, Refreshing, Refreshes
  <2>3. StoreHas(c)'
    BY <1>1, <2>1, <2>2 DEF StoreHas, GoesOn, Signing
  <2>4. StoreStep(c)
    BY <2>1, <2>2, <2>3 DEF StoreStep, GoesOn
  <2>. QED
    BY <2>4, StoreAlters
<1>4. CASE LoginConfirmed(c)
  <2>1. /\ GoesOn(c) /\ call[c].kind = "login" /\ call[c].stage = "me" /\ call'[c].stage = "settings"
        /\ After(c).user = grants[call[c].sent].user /\ After(c).token = P(c).token
        /\ store' = Persisted(After(c))
    BY <1>4, LoginConfirmedEffect
  <2>2. After(c).user # None /\ After(c).token # None
    BY <1>1, <2>1, SentKnown, SentFacts, Constants DEF StoreHas, LoggingIn, Under
  <2>3. store' = Of(After(c)) /\ store' # None
    BY <1>1, <2>1, <2>2, OfIsSession DEF Persisted
  <2>4. StoreHas(c)' /\ call'[c] # None
    BY <2>1, Constants DEF StoreHas, GoesOn, Refreshing, Refreshes
  <2>5. StoreStep(c)
    BY <2>3, <2>4 DEF StoreStep
  <2>. QED
    BY <2>5, StoreAlters
<1>5. CASE LoginEnds(c)
  <2>1. call'[c] = None /\ store' = store /\ call[c].stage = "settings" /\ After(c) = P(c)
    BY <1>5, LoginEndsEffect
  <2>2. StoreStep(c)
    BY <1>2, <2>1 DEF StoreStep, Same
  <2>. QED
    BY <2>2, StoreAlters
<1>6. CASE OAuthEnds(c)
  <2>1. /\ call'[c] = None /\ store' = Of(After(c)) /\ After(c).user = call[c].user
        /\ call[c].user \in Users /\ After(c).token = NewGrant /\ NewGrant # None
    BY <1>6, OAuthEndsEffect, NewGrantFact
  <2>2. store' # None
    BY <1>1, <2>1, OfIsSession, Constants
  <2>3. StoreStep(c)
    BY <2>1, <2>2 DEF StoreStep
  <2>. QED
    BY <2>3, StoreAlters
<1>7. CASE LoginFails(c)
  <2>1. /\ Signing(c) /\ call[c].stage \in {"login", "me"} /\ call'[c] = None
        /\ call[c].had =>
             /\ After(c).user = call[c].prev.user /\ After(c).token = call[c].prev.token
             /\ After(c).refresh = call[c].prev.refresh /\ store' = store
        /\ ~call[c].had => After(c).user = None /\ store' = None
    BY <1>7, LoginFailsEffect
  <2>2. CASE call[c].had
    <3>1. store # None /\ call[c].prev = store /\ store \in Session
      BY <1>1, <2>1, <2>2 DEF StoreHas, Shape, TypeOK, Maybe
    <3>2. Of(After(c)) = store
      BY <2>1, <2>2, <3>1 DEF Of, Session
    <3>3. StoreStep(c)
      BY <2>1, <2>2, <3>1, <3>2 DEF StoreStep
    <3>. QED
      BY <3>3, StoreAlters
  <2>3. CASE ~call[c].had
    <3>1. StoreStep(c)
      BY <2>1, <2>3 DEF StoreStep
    <3>. QED
      BY <3>1, StoreAlters
  <2>. QED
    BY <2>2, <2>3
<1>8. CASE RefreshGranted(c)
  <2>1. /\ GoesOn(c) /\ Refreshing(c) /\ After(c).user = P(c).user
        /\ After(c).token = NewGrant /\ NewGrant # None
        /\ call'[c].stage = "me" /\ store' = store
    BY <1>8, RefreshGrantedEffect, NewGrantFact
  <2>2. call'[c] # None /\ P(c)' = After(c) /\ ~Signing(c)' /\ call'[c].kind # "logout"
    BY <2>1, Constants DEF GoesOn, P, After, Refreshing, Refreshes, Signing
  <2>3. StoreHas(c)'
    BY <1>1, <2>1, <2>2 DEF StoreHas
  <2>4. StoreStep(c)
    BY <2>1, <2>2, <2>3 DEF StoreStep
  <2>. QED
    BY <2>4, StoreAlters
<1>9. CASE RefreshEnds(c) \/ Verified(c)
  <2>1. /\ Refreshing(c) /\ call'[c] = None /\ call[c].stage \in {"me", "verify"}
        /\ After(c).user \in {grants[call[c].sent].user, P(c).user}
        /\ After(c).token = P(c).token /\ store' = Persisted(After(c))
    BY <1>9, AnswerEffect
  <2>2. After(c).user # None /\ After(c).token # None
    BY <1>1, <2>1, SentKnown, SentFacts, Constants DEF StoreHas, Under
  <2>3. store' = Of(After(c)) /\ store' # None
    BY <1>1, <2>1, <2>2, OfIsSession DEF Persisted
  <2>4. StoreStep(c)
    BY <2>1, <2>3 DEF StoreStep
  <2>. QED
    BY <2>4, StoreAlters
<1>10. CASE Rejected(c) \/ LogoutEnds(c)
  <2>1. call'[c] = None /\ After(c).user = None /\ store' = None
    BY <1>10, ClearsEffect
  <2>2. StoreStep(c)
    BY <2>1 DEF StoreStep
  <2>. QED
    BY <2>2, StoreAlters
<1>11. CASE RefreshFails(c)
  <2>1. /\ Refreshing(c) /\ After(c) = P(c) /\ store' = store /\ call[c].stage # "me"
        /\ \/ call'[c] = None
           \/ StartsRefresh(call'[c], "background", call[c].slot)
    BY <1>11, RefreshFailsEffect
  <2>2. Same(P(c))
    BY <1>2, <2>1
  <2>3. CASE call'[c] = None
    <3>1. StoreStep(c)
      BY <2>1, <2>2, <2>3 DEF StoreStep, Same
    <3>. QED
      BY <3>1, StoreAlters
  <2>4. CASE call'[c] # None
    <3>1. /\ call'[c].kind = "background" /\ call'[c].slot = call[c].slot
          /\ call'[c].stage \in {"refresh", "verify"}
          /\ call'[c].stage = "verify" => P(c).token # None
      BY <2>1, <2>4 DEF StartsRefresh, P
    <3>2. P(c)' = P(c) /\ ~Signing(c)'
      BY <2>1, <3>1 DEF P, After, Signing
    <3>3. StoreHas(c)'
      BY <1>1, <2>1, <3>1, <3>2 DEF StoreHas
    <3>4. StoreStep(c)
      BY <2>1, <2>2, <2>4, <3>3 DEF StoreStep, Same
    <3>. QED
      BY <3>4, StoreAlters
  <2>. QED
    BY <2>3, <2>4
<1>. QED
  BY <1>3, <1>4, <1>5, <1>6, <1>7, <1>8, <1>9, <1>10, <1>11

LEMMA StoreBegins ==
  ASSUME Shape, HostOK, HostOK', StoreOK, NEW c \in Calls, Begins(c), Under = {}, current # None,
         Refreshing(c)' => object[current].user # None
                           /\ (call'[c].stage = "verify" => object[current].token # None),
         Signing(c)' /\ call'[c].had =>
           object[current].user # None /\ call'[c].prev = Of(object[current]),
         call'[c].stage # "me"
  PROVE  StoreOK'
<1>1. /\ UNCHANGED <<object, current, store>> /\ call'[c] # None
      /\ \A d \in Calls \ {c} : call'[d] = call[d]
  BY Constants DEF Begins
<1>2. Under' = {c}
  BY <1>1 DEF Under
<1>3. Same(object[current]) /\ Same(object[current])'
  BY <1>1 DEF StoreOK, Same
<1>4. P(c)' = object[current]
  BY <1>1, <1>2 DEF HostOK, CallsAtCurrent, P
<1>5. StoreHas(c)'
  BY <1>1, <1>3, <1>4 DEF StoreHas, Same
<1>. QED
  BY <1>2, <1>3, <1>5 DEF StoreOK, OneCall

OfStore == {"not stored", "overtaken", "replaced", "two refreshes", "login and refresh"}

\* Outside the windows a call begins when there is none.
LEMMA BeginsAlone ==
  ASSUME Shape, OfStore \cap windows' = {}, NEW c \in Calls,
         \/ \E u \in Users : LoginStarts(c, u, "login") \/ LoginStarts(c, u, "oauth")
         \/ \E slot \in Slots : Background(c, slot)
         \/ ReAuth(c) \/ LogoutStarts(c)
  PROVE  Under = {}
<1>1. /\ "overtaken" \notin windows' /\ "two refreshes" \notin windows'
      /\ "login and refresh" \notin windows'
  BY DEF OfStore
<1>2. ASSUME NEW d \in Under
      PROVE  Signing(d) \/ Refreshing(d) \/ call[d].kind = "logout"
  BY CallFacts, KindFacts DEF Under
<1>3. ASSUME ~InFlight({"login", "oauth"}), ~InFlight(Refreshes), ~InFlight({"logout"})
      PROVE  Under = {}
  BY <1>2, <1>3, InFlightFacts
<1>4. ASSUME NEW u \in Users, NEW kind \in {"login", "oauth"}, LoginStarts(c, u, kind)
      PROVE  Under = {}
  BY <1>1, <1>3, <1>4, LoginStartsEffect
<1>5. ASSUME NEW slot \in Slots, Background(c, slot) \/ (ReAuth(c) /\ slot = current)
      PROVE  Under = {}
  BY <1>1, <1>3, <1>5, RefreshStartsEffect
<1>6. CASE ReAuth(c)
  <2>1. current \in Slots
    BY <1>6, ObjectFacts DEF ReAuth
  <2>. QED
    BY <1>5, <1>6, <2>1
<1>7. CASE LogoutStarts(c)
  BY <1>1, <1>7, LogoutStartsEffect, InFlightFacts
<1>. QED
  BY <1>4, <1>5, <1>6, <1>7

LEMMA StoreStarts ==
  ASSUME Shape, HostOK, HostOK', StoreOK, OfStore \cap windows' = {}, NEW c \in Calls,
         \/ \E u \in Users : LoginStarts(c, u, "login") \/ LoginStarts(c, u, "oauth")
         \/ \E slot \in Slots : Background(c, slot)
         \/ ReAuth(c) \/ LogoutStarts(c)
  PROVE  StoreOK'
<1>1. Under = {}
  BY BeginsAlone
<1>2. ASSUME NEW u \in Users, NEW kind \in {"login", "oauth"}, LoginStarts(c, u, kind)
      PROVE  StoreOK'
  <2>1. /\ Begins(c) /\ current # None /\ call'[c].kind = kind /\ call'[c].stage = "login"
        /\ call'[c].had = IsLoggedIn(object[current]) /\ call'[c].prev = Of(object[current])
    BY <1>2, LoginStartsEffect
  <2>2. ~Refreshing(c)' /\ (call'[c].had => object[current].user # None)
    BY <2>1 DEF Refreshing, Refreshes, IsLoggedIn
  <2>. QED
    BY <1>1, <2>1, <2>2, StoreBegins
<1>3. ASSUME NEW slot \in Slots, Background(c, slot) \/ (ReAuth(c) /\ slot = current)
      PROVE  StoreOK'
  <2>1. /\ Begins(c) /\ call'[c].kind \in Refreshes /\ object[slot].user # None /\ slot = current
        /\ StartsRefresh(call'[c], call'[c].kind, slot) /\ current # None
    BY <1>3, RefreshStartsEffect, Constants DEF OfStore
  <2>2. /\ call'[c].stage \in {"refresh", "verify"} /\ ~Signing(c)'
        /\ call'[c].stage = "verify" => object[current].token # None
    BY <2>1 DEF StartsRefresh, Signing, Refreshes
  <2>. QED
    BY <1>1, <2>1, <2>2, StoreBegins
<1>4. CASE ReAuth(c)
  <2>1. current \in Slots
    BY <1>4, ObjectFacts DEF ReAuth
  <2>. QED
    BY <1>3, <1>4, <2>1
<1>5. CASE LogoutStarts(c)
  <2>1. Begins(c) /\ current # None /\ call'[c].kind = "logout" /\ call'[c].stage = "logout"
    BY <1>5, LogoutStartsEffect
  <2>2. ~Signing(c)' /\ ~Refreshing(c)'
    BY <2>1 DEF Signing, Refreshing, Refreshes
  <2>. QED
    BY <1>1, <2>1, <2>2, StoreBegins
<1>. QED
  BY <1>2, <1>3, <1>4, <1>5

LEMMA StoreConfigures ==
  ASSUME Shape, Shape', HostOK, StoreOK, OfStore \cap windows' = {},
         NEW slot \in Slots, NEW h \in Hosts, Configures(slot, h)
  PROVE  StoreOK'
<1>1. CASE UpdateServer(slot, h) \/ AddServer(slot, h) \/ Restart(slot)
  <2>1. PICK g \in Hosts, s \in {store, None} :
          /\ Remade(slot, g, s)
          /\ \/ \A o \in Slots \ {slot} : object'[o] = None
             \/ (current = None \/ (InFlight(Kinds) => "overtaken" \in windows'))
    BY <1>1, ConfiguresEffect
  <2>2. (\A c \in Under' : TakesRefresh(c, slot, s)) /\ \A c, d \in Under' : c = d
    BY <2>1, CallsEnd DEF HostOK, OfStore
  <2>3. /\ current' = slot /\ Takes(slot, g, s)
    BY <2>1, TakesFacts DEF Remade
  <2>4. Same(object[current])'
    BY <2>3, Constants DEF Takes, Same
  <2>5. ASSUME NEW c \in Under'
        PROVE  StoreHas(c)'
    <3>1. /\ s \in Session /\ Of(object'[slot]) = s /\ Refreshing(c)' /\ ~Signing(c)'
          /\ call'[c].stage = "refresh" /\ P(c)' = object'[slot]
      BY <2>1, <2>2, <2>5, RestoreFacts
    <3>2. object'[slot].user = s.user /\ s.user # None
      BY <3>1, Constants DEF Of, Session
    <3>. QED
      BY <3>1, <3>2 DEF StoreHas
  <2>. QED
    BY <2>2, <2>4, <2>5 DEF StoreOK, OneCall
<1>2. CASE RemoveServer
  <2>1. /\ UNCHANGED call /\ current' = None
        /\ InFlight(Kinds) => "overtaken" \in windows'
    BY <1>2 DEF RemoveServer, Falls, When
  <2>2. Under = {} /\ Under' = {}
    BY <2>1, InFlightFacts DEF Under, OfStore
  <2>. QED
    BY <2>1, <2>2 DEF StoreOK, OneCall
<1>. QED
  BY <1>1, <1>2 DEF Configures

-----------------------------------------------------------------------------
(* A session that the server would still refresh.                          *)

RefreshStored(c) == Refreshing(c) /\ call[c].stage = "me"

LiveHas(c) ==
  /\ call[c].stage = "me" /\ P(c).refresh # None => P(c).refresh \in live
  /\ call[c].stage = "refresh" => call[c].sent = P(c).refresh
  /\ SignsInAnew(c) => store = None \/ store.refresh = None

LiveOK ==
  /\ store # None /\ store.refresh # None =>
       store.refresh \in live \/ \E c \in Under : RefreshStored(c)
  /\ \A c \in Under : LiveHas(c)

LiveStep(c) ==
  /\ store' # None /\ store'.refresh # None =>
       store'.refresh \in live' \/ (call'[c] # None /\ RefreshStored(c)')
  /\ call'[c] # None => LiveHas(c)'

LEMMA LiveAlters ==
  ASSUME Shape, HostOK, StoreOK, NEW c \in Calls, Alters(c), LiveStep(c)
  PROVE  LiveOK'
<1>1. c \in Under /\ \A d \in Calls \ {c} : call'[d] = call[d]
  BY DEF Alters
<1>2. Under' = (IF call'[c] = None THEN {} ELSE {c})
  BY <1>1 DEF StoreOK, OneCall, Under
<1>. QED
  BY <1>2 DEF LiveOK, LiveStep

LEMMA StepLive ==
  ASSUME Shape, HostOK, StoreOK, LiveOK, {"not stored", "lost answer"} \cap windows' = {},
         NEW c \in Calls, Alters(c),
         \/ LoginGranted(c) \/ LoginConfirmed(c) \/ LoginEnds(c) \/ OAuthEnds(c) \/ LoginFails(c)
         \/ RefreshGranted(c) \/ RefreshEnds(c) \/ Verified(c) \/ Rejected(c) \/ RefreshFails(c)
         \/ LogoutEnds(c)
  PROVE  LiveOK'
<1>1. /\ c \in Under /\ P(c) = object[current] /\ current # None /\ StoreHas(c) /\ LiveHas(c)
      /\ P(c) \in Providers /\ After(c) \in Providers
  BY CallFacts, Constants DEF Alters, Under, HostOK, CallsAtCurrent, P, StoreOK, LiveOK
<1>2. ~RefreshStored(c) /\ store # None /\ store.refresh # None => store.refresh \in live
  BY <1>1 DEF LiveOK, StoreOK, OneCall
<1>3. CASE LoginGranted(c)
  <2>1. /\ GoesOn(c) /\ call[c].kind = "login" /\ call[c].stage = "login"
        /\ After(c).refresh \in {NewGrant, None} /\ call'[c].stage = "me"
        /\ live' = live \cup {NewGrant} /\ store' = store
    BY <1>3, LoginGrantedEffect
  <2>2. P(c)' = After(c) /\ ~RefreshStored(c) /\ (SignsInAnew(c)' => SignsInAnew(c))
    BY <2>1 DEF GoesOn, P, After, RefreshStored, Refreshing, Refreshes, SignsInAnew, Signing
  <2>3. LiveHas(c)'
    BY <1>1, <2>1, <2>2 DEF LiveHas
  <2>4. LiveStep(c)
    BY <1>2, <2>1, <2>2, <2>3 DEF LiveStep
  <2>. QED
    BY <2>4, LiveAlters
<1>4. CASE LoginConfirmed(c)
  <2>1. /\ GoesOn(c) /\ call[c].kind = "login" /\ call[c].stage = "me" /\ call'[c].stage = "settings"
        /\ After(c).refresh = P(c).refresh /\ live' = live
        /\ store' = Persisted(After(c))
    BY <1>4, LoginConfirmedEffect DEF server
  <2>2. ~RefreshStored(c) /\ ~SignsInAnew(c)'
    BY <2>1 DEF RefreshStored, Refreshing, Refreshes, SignsInAnew
  <2>3. store' = store \/ store'.refresh = P(c).refresh
    BY <1>1, <2>1, OfIsSession DEF Persisted
  <2>4. LiveStep(c)
    BY <1>1, <1>2, <2>1, <2>2, <2>3 DEF LiveStep, LiveHas
  <2>. QED
    BY <2>4, LiveAlters
<1>5. CASE LoginEnds(c)
  <2>1. call'[c] = None /\ store' = store /\ call[c].stage = "settings" /\ live' = live
    BY <1>5, LoginEndsEffect DEF server
  <2>2. LiveStep(c)
    BY <1>2, <2>1 DEF LiveStep, RefreshStored
  <2>. QED
    BY <2>2, LiveAlters
<1>6. CASE OAuthEnds(c)
  <2>1. /\ call'[c] = None /\ store' = Of(After(c)) /\ After(c).refresh \in {NewGrant, None}
        /\ live' = live \cup {NewGrant}
    BY <1>6, OAuthEndsEffect
  <2>2. LiveStep(c)
    BY <2>1 DEF LiveStep, Of
  <2>. QED
    BY <2>2, LiveAlters
<1>7. CASE LoginFails(c)
  <2>1. /\ Signing(c) /\ call'[c] = None /\ live' = live /\ store' \in {store, None}
    BY <1>7, LoginFailsEffect DEF server
  <2>2. ~RefreshStored(c)
    BY <2>1 DEF RefreshStored, Refreshing, Refreshes, Signing
  <2>3. LiveStep(c)
    BY <1>2, <2>1, <2>2 DEF LiveStep
  <2>. QED
    BY <2>3, LiveAlters
<1>8. CASE RefreshGranted(c)
  <2>1. /\ GoesOn(c) /\ Refreshing(c) /\ After(c).refresh = NewGrant /\ call'[c].stage = "me"
        /\ live' = (live \ {call[c].sent}) \cup {NewGrant}
    BY <1>8, RefreshGrantedEffect
  <2>2. /\ call'[c] # None /\ P(c)' = After(c) /\ RefreshStored(c)' /\ ~SignsInAnew(c)'
    BY <2>1, Constants DEF GoesOn, P, After, Refreshing, Refreshes, Signing, RefreshStored, SignsInAnew
  <2>3. LiveStep(c)
    BY <2>1, <2>2 DEF LiveStep, LiveHas
  <2>. QED
    BY <2>3, LiveAlters
<1>9. CASE RefreshEnds(c) \/ Verified(c)
  <2>1. /\ Refreshing(c) /\ call'[c] = None /\ call[c].stage \in {"me", "verify"} /\ live' = live
        /\ After(c).user \in {grants[call[c].sent].user, P(c).user}
        /\ After(c).token = P(c).token /\ After(c).refresh = P(c).refresh
        /\ store' = Persisted(After(c))
    BY <1>9, AnswerEffect DEF server
  <2>2. After(c).user # None /\ After(c).token # None
    BY <1>1, <2>1, SentKnown, SentFacts, Constants DEF StoreHas, Under
  <2>3. store' = Of(After(c)) /\ store'.refresh = P(c).refresh
    BY <1>1, <2>1, <2>2, OfIsSession DEF Persisted
  <2>4. CASE call[c].stage = "me"
    <3>1. LiveStep(c)
      BY <1>1, <2>1, <2>3, <2>4 DEF LiveStep, LiveHas
    <3>. QED
      BY <3>1, LiveAlters
  <2>5. CASE call[c].stage = "verify"
    <3>1. Same(P(c)) /\ P(c).user # None /\ ~RefreshStored(c)
      BY <1>1, <2>1, <2>5 DEF StoreOK, OneCall, StoreHas, RefreshStored
    <3>2. store # None /\ store = Of(P(c))
      BY <3>1 DEF Same
    <3>3. LiveStep(c)
      BY <1>2, <2>1, <2>3, <3>1, <3>2 DEF LiveStep, Of
    <3>. QED
      BY <3>3, LiveAlters
  <2>. QED
    BY <2>1, <2>4, <2>5
<1>10. CASE Rejected(c) \/ LogoutEnds(c)
  <2>1. call'[c] = None /\ store' = None
    BY <1>10, ClearsEffect
  <2>2. LiveStep(c)
    BY <2>1 DEF LiveStep
  <2>. QED
    BY <2>2, LiveAlters
<1>11. CASE RefreshFails(c)
  <2>1. /\ Refreshing(c) /\ After(c) = P(c) /\ store' = store /\ call[c].stage # "me"
        /\ live' = live
        /\ \/ call'[c] = None
           \/ StartsRefresh(call'[c], "background", call[c].slot)
    BY <1>11, RefreshFailsEffect DEF server
  <2>2. ASSUME call'[c] # None
        PROVE  LiveHas(c)'
    <3>1. /\ call'[c].kind = "background" /\ call'[c].slot = call[c].slot
          /\ call'[c].stage \in {"refresh", "verify"}
          /\ call'[c].stage = "refresh" => call'[c].sent \in {P(c).refresh}
             \/ call'[c].sent = P(c).token
      BY <2>1, <2>2 DEF StartsRefresh, P
    <3>2. call'[c].stage = "refresh" => call'[c].sent = P(c).refresh
      BY <2>1, <2>2 DEF StartsRefresh, P
    <3>3. P(c)' = P(c) /\ ~SignsInAnew(c)'
      BY <2>1, <3>1 DEF P, After, Signing, SignsInAnew
    <3>. QED
      BY <3>1, <3>2, <3>3 DEF LiveHas
  <2>3. LiveStep(c)
    BY <1>2, <2>1, <2>2 DEF LiveStep, RefreshStored
  <2>. QED
    BY <2>3, LiveAlters
<1>. QED
  BY <1>3, <1>4, <1>5, <1>6, <1>7, <1>8, <1>9, <1>10, <1>11

LEMMA LiveBegins ==
  ASSUME Shape, HostOK, HostOK', StoreOK, LiveOK, NEW c \in Calls, Begins(c), Under = {},
         call'[c].stage # "me",
         call'[c].stage = "refresh" => call'[c].sent = object[current].refresh,
         SignsInAnew(c)' => object[current].refresh = None, current # None
  PROVE  LiveOK'
<1>1. /\ UNCHANGED <<object, current, store, live>> /\ call'[c] # None
      /\ \A d \in Calls \ {c} : call'[d] = call[d]
  BY Constants DEF Begins, server
<1>2. Under' = {c}
  BY <1>1 DEF Under
<1>3. P(c)' = object[current]
  BY <1>1, <1>2 DEF HostOK, CallsAtCurrent, P
<1>4. store # None => store.refresh = object[current].refresh
  BY DEF StoreOK, Same, Of
<1>5. LiveHas(c)'
  BY <1>1, <1>3, <1>4 DEF LiveHas
<1>6. store # None /\ store.refresh # None => store.refresh \in live
  BY DEF LiveOK
<1>. QED
  BY <1>1, <1>2, <1>5, <1>6 DEF LiveOK

LEMMA LiveStarts ==
  ASSUME Shape, HostOK, HostOK', StoreOK, LiveOK, OfStore \cap windows' = {}, NEW c \in Calls,
         \/ \E u \in Users : LoginStarts(c, u, "login") \/ LoginStarts(c, u, "oauth")
         \/ \E slot \in Slots : Background(c, slot)
         \/ ReAuth(c) \/ LogoutStarts(c)
  PROVE  LiveOK'
<1>1. Under = {}
  BY BeginsAlone
<1>2. ASSUME NEW u \in Users, NEW kind \in {"login", "oauth"}, LoginStarts(c, u, kind)
      PROVE  LiveOK'
  <2>1. /\ Begins(c) /\ current # None /\ call'[c].kind = kind /\ call'[c].stage = "login"
        /\ call'[c].had = IsLoggedIn(object[current])
    BY <1>2, LoginStartsEffect
  <2>2. CASE object[current].user = None
    <3>1. store = None
      BY <1>1, <2>1, <2>2, Constants DEF StoreOK, Same, Of, Shape, TypeOK, Session, Maybe
    <3>2. /\ UNCHANGED <<store, live>> /\ \A d \in Calls \ {c} : call'[d] = call[d]
      BY <2>1 DEF Begins, server
    <3>3. Under' \subseteq {c} /\ LiveHas(c)'
      BY <1>1, <2>1, <3>1, <3>2 DEF Under, LiveHas
    <3>. QED
      BY <3>1, <3>2, <3>3 DEF LiveOK
  <2>3. CASE object[current].user # None
    <3>1. SignsInAnew(c)' => object[current].refresh = None
      BY <2>1, <2>3 DEF SignsInAnew, IsLoggedIn
    <3>. QED
      BY <1>1, <2>1, <3>1, LiveBegins
  <2>. QED
    BY <2>2, <2>3
<1>3. ASSUME NEW slot \in Slots, Background(c, slot) \/ (ReAuth(c) /\ slot = current)
      PROVE  LiveOK'
  <2>1. /\ Begins(c) /\ call'[c].kind \in Refreshes /\ slot = current
        /\ StartsRefresh(call'[c], call'[c].kind, slot) /\ current # None
    BY <1>3, RefreshStartsEffect, Constants DEF OfStore
  <2>2. /\ call'[c].stage \in {"refresh", "verify"} /\ ~SignsInAnew(c)'
        /\ call'[c].stage = "refresh" => call'[c].sent = object[current].refresh
    BY <2>1 DEF StartsRefresh, SignsInAnew, Signing, Refreshes
  <2>. QED
    BY <1>1, <2>1, <2>2, LiveBegins
<1>4. CASE ReAuth(c)
  <2>1. current \in Slots
    BY <1>4, ObjectFacts DEF ReAuth
  <2>. QED
    BY <1>3, <1>4, <2>1
<1>5. CASE LogoutStarts(c)
  <2>1. Begins(c) /\ current # None /\ call'[c].kind = "logout" /\ call'[c].stage = "logout"
    BY <1>5, LogoutStartsEffect
  <2>2. ~SignsInAnew(c)'
    BY <2>1 DEF SignsInAnew, Signing
  <2>. QED
    BY <1>1, <2>1, <2>2, LiveBegins
<1>. QED
  BY <1>2, <1>3, <1>4, <1>5

LEMMA LiveConfigures ==
  ASSUME Shape, Shape', HostOK, StoreOK, LiveOK, OfStore \cap windows' = {},
         NEW slot \in Slots, NEW h \in Hosts, Configures(slot, h)
  PROVE  LiveOK'
<1>1. CASE UpdateServer(slot, h) \/ AddServer(slot, h) \/ Restart(slot)
  <2>1. PICK g \in Hosts, s \in {store, None} :
          /\ Remade(slot, g, s)
          /\ \/ \A o \in Slots \ {slot} : object'[o] = None
             \/ (current = None \/ (InFlight(Kinds) => "overtaken" \in windows'))
          /\ (\E c \in Under : Refreshing(c) /\ call[c].stage = "me") =>
                current = None \/ {"overtaken", "not stored"} \cap windows' # {}
    BY <1>1, ConfiguresEffect
  <2>2. \A c \in Under' : TakesRefresh(c, slot, s)
    BY <2>1, CallsEnd DEF HostOK, OfStore
  <2>3. Takes(slot, g, s) /\ live' = live
    BY <2>1 DEF Remade, server
  <2>4. store' # None => store' = store
    BY <2>1, <2>3, Constants DEF Takes
  <2>5. store # None => \A c \in Under : ~RefreshStored(c)
    BY <2>1 DEF HostOK, OfStore, RefreshStored
  <2>6. store' # None /\ store'.refresh # None => store'.refresh \in live'
    BY <2>3, <2>4, <2>5 DEF LiveOK
  <2>7. ASSUME NEW c \in Under'
        PROVE  LiveHas(c)'
    <3>1. TakesRefresh(c, slot, s) /\ Remade(slot, g, s)
      BY <2>1, <2>2, <2>7
    <3>2. /\ s \in Session /\ Of(object'[slot]) = s /\ ~Signing(c)'
          /\ call'[c].stage = "refresh" /\ P(c)' = object'[slot] /\ call'[c].sent = s.refresh
      BY <2>7, <3>1, RestoreFacts
    <3>3. object'[slot].refresh = s.refresh
      BY <3>2 DEF Of, Session
    <3>. QED
      BY <3>2, <3>3 DEF LiveHas, SignsInAnew
  <2>. QED
    BY <2>6, <2>7 DEF LiveOK
<1>2. CASE RemoveServer
  <2>1. /\ UNCHANGED call /\ store' = None
        /\ InFlight(Kinds) => "overtaken" \in windows'
    BY <1>2 DEF RemoveServer, Forgotten, Falls, When
  <2>2. Under = {} /\ Under' = {}
    BY <2>1, InFlightFacts DEF Under, OfStore
  <2>. QED
    BY <2>1, <2>2 DEF LiveOK
<1>. QED
  BY <1>1, <1>2 DEF Configures

-----------------------------------------------------------------------------
(* The inductive invariant.  Each part is for the states outside the       *)
(* windows that break it.                                                  *)

Outside(names) == windows \cap names = {}
OfLive == OfStore \cup {"revoked", "lost answer"}

IInv ==
  /\ Shape
  /\ Outside({"login and refresh"}) => UserOK
  /\ Outside({"overtaken", "replaced"}) => HostOK /\ SignedOutOK
  /\ Outside(OfStore) => StoreOK
  /\ Outside(OfLive) => LiveOK

\* A window that the history has opened stays open.
LEMMA WindowsGrow ==
  ASSUME windows \subseteq windows'
  PROVE  /\ \A names : Outside(names)' => Outside(names) /\ names \cap windows' = {}
         /\ \A names : Outside(names)' => \A name \in names : name \notin windows'
BY DEF Outside

LEMMA WindowsNest ==
  /\ \A w : w \cap OfLive = {} => w \cap OfStore = {}
  /\ \A w : w \cap OfStore = {} =>
       w \cap {"overtaken", "replaced"} = {} /\ w \cap {"login and refresh"} = {}
BY DEF OfLive, OfStore

\* Each part from the others.
LEMMA IInvIntro ==
  ASSUME IInv, Shape', windows \subseteq windows',
         UserOK /\ "login and refresh" \notin windows' => UserOK',
         HostOK /\ {"overtaken", "replaced"} \cap windows' = {} => HostOK',
         HostOK /\ SignedOutOK /\ {"overtaken", "replaced"} \cap windows' = {} => SignedOutOK',
         HostOK /\ HostOK' /\ StoreOK /\ OfStore \cap windows' = {} => StoreOK',
         HostOK /\ HostOK' /\ StoreOK /\ LiveOK /\ OfLive \cap windows' = {} => LiveOK'
  PROVE  IInv'
<1>1. Outside({"login and refresh"})' => UserOK'
  BY WindowsGrow DEF IInv
<1>2. Outside({"overtaken", "replaced"})' => HostOK /\ HostOK' /\ SignedOutOK'
  BY WindowsGrow DEF IInv
<1>3. Outside(OfStore)' => StoreOK /\ StoreOK' /\ HostOK /\ HostOK'
  <2>1. Outside(OfStore)' => Outside({"overtaken", "replaced"})'
    BY WindowsNest DEF Outside
  <2>. QED
    BY <1>2, <2>1, WindowsGrow DEF IInv
<1>4. Outside(OfLive)' => LiveOK'
  <2>1. Outside(OfLive)' => Outside(OfStore)'
    BY WindowsNest DEF Outside
  <2>. QED
    BY <1>3, <2>1, WindowsGrow DEF IInv
<1>. QED
  BY <1>1, <1>2, <1>3, <1>4 DEF IInv

\* A step of a call under way.
LEMMA IInvAnswers ==
  ASSUME IInv, NEW c \in Calls,
         \/ LoginGranted(c) \/ LoginConfirmed(c) \/ LoginEnds(c) \/ OAuthEnds(c) \/ LoginFails(c)
         \/ RefreshGranted(c) \/ RefreshEnds(c) \/ Verified(c) \/ Rejected(c) \/ RefreshFails(c)
         \/ LogoutEnds(c)
  PROVE  IInv'
<1>1. Shape
  BY DEF IInv
<1>2. Shape' /\ ServersKept /\ Alters(c) /\ Stores(c) /\ windows \subseteq windows'
  BY <1>1, ShapeSigning, ShapeRefreshing
<1>3. UserOK => UserOK'
  BY <1>1, <1>2, UserSigning, UserRefreshing
<1>4. HostOK => HostOK'
  BY <1>1, <1>2, StepHost
<1>5. HostOK /\ SignedOutOK => SignedOutOK'
  BY <1>1, <1>2, StepOut
<1>6. HostOK /\ StoreOK /\ OfStore \cap windows' = {} => StoreOK'
  BY <1>1, <1>2, StepStore DEF OfStore
<1>7. HostOK /\ StoreOK /\ LiveOK /\ OfLive \cap windows' = {} => LiveOK'
  BY <1>1, <1>2, StepLive DEF OfLive, OfStore
<1>. QED
  BY <1>2, <1>3, <1>4, <1>5, <1>6, <1>7, IInvIntro

\* A call that begins.
LEMMA IInvStarts ==
  ASSUME IInv, NEW c \in Calls,
         \/ \E u \in Users : LoginStarts(c, u, "login") \/ LoginStarts(c, u, "oauth")
         \/ \E slot \in Slots : Background(c, slot)
         \/ ReAuth(c) \/ LogoutStarts(c)
  PROVE  IInv'
<1>1. Shape
  BY DEF IInv
<1>2. Shape' /\ windows \subseteq windows'
  BY <1>1, ShapeStarts DEF Begins
<1>3. UserOK /\ "login and refresh" \notin windows' => UserOK'
  BY <1>1, UserStarts
<1>4. HostOK /\ {"overtaken", "replaced"} \cap windows' = {} => HostOK'
  BY <1>1, HostStarts
<1>5. HostOK /\ SignedOutOK /\ {"overtaken", "replaced"} \cap windows' = {} => SignedOutOK'
  BY <1>1, OutStarts
<1>6. HostOK /\ HostOK' /\ StoreOK /\ OfStore \cap windows' = {} => StoreOK'
  BY <1>1, StoreStarts
<1>7. HostOK /\ HostOK' /\ StoreOK /\ LiveOK /\ OfLive \cap windows' = {} => LiveOK'
  BY <1>1, LiveStarts, WindowsNest
<1>. QED
  BY <1>2, <1>3, <1>4, <1>5, <1>6, <1>7, IInvIntro

LEMMA UserConfigures ==
  ASSUME Shape, Shape', UserOK, NEW slot \in Slots, NEW h \in Hosts, Configures(slot, h)
  PROVE  UserOK'
<1>1. CASE UpdateServer(slot, h) \/ AddServer(slot, h) \/ Restart(slot)
  BY <1>1, ConfiguresEffect, UserRemade
<1>2. CASE RemoveServer
  BY <1>2, UserSame DEF RemoveServer, Forgotten, server
<1>. QED
  BY <1>1, <1>2 DEF Configures

\* A change of the configuration, and a restart.
LEMMA IInvConfigures ==
  ASSUME IInv, NEW slot \in Slots, NEW h \in Hosts, Configures(slot, h)
  PROVE  IInv'
<1>1. Shape
  BY DEF IInv
<1>2. Shape' /\ windows \subseteq windows'
  BY <1>1, ShapeConfigures
<1>3. UserOK => UserOK'
  BY <1>1, <1>2, UserConfigures
<1>4. HostOK /\ {"overtaken", "replaced"} \cap windows' = {} => HostOK'
  BY <1>1, <1>2, HostConfigures
<1>5. HostOK /\ SignedOutOK /\ {"overtaken", "replaced"} \cap windows' = {} => SignedOutOK'
  BY <1>1, <1>2, OutConfigures
<1>6. HostOK /\ StoreOK /\ OfStore \cap windows' = {} => StoreOK'
  BY <1>1, <1>2, StoreConfigures
<1>7. HostOK /\ StoreOK /\ LiveOK /\ OfLive \cap windows' = {} => LiveOK'
  BY <1>1, <1>2, LiveConfigures, WindowsNest
<1>. QED
  BY <1>2, <1>3, <1>4, <1>5, <1>6, <1>7, IInvIntro

\* What is said of the providers, of what is stored and of the calls stays.
LEMMA IInvSame ==
  ASSUME IInv, Shape', windows \subseteq windows',
         UNCHANGED <<grants, object, current, store, call, signedOut>>,
         live' # live => "revoked" \in windows'
  PROVE  IInv'
<1>1. UserOK => UserOK'
  BY UserSame
<1>2. HostOK => HostOK'
  BY HostSame
<1>3. SignedOutOK => SignedOutOK'
  BY DEF SignedOutOK, Under, SignsInAnew, Signing
<1>4. StoreOK => StoreOK'
  BY DEF StoreOK, OneCall, Under, Same, Of, StoreHas, Refreshing, Signing, P
<1>5. LiveOK /\ OfLive \cap windows' = {} => LiveOK'
  <2>1. OfLive \cap windows' = {} => live' = live
    BY DEF OfLive
  <2>. QED
    BY <2>1 DEF LiveOK, LiveHas, RefreshStored, SignsInAnew, Under, Refreshing, Signing, P
<1>. QED
  BY <1>1, <1>2, <1>3, <1>4, <1>5, IInvIntro

LEMMA IInvStep ==
  ASSUME IInv, [Next]_vars
  PROVE  IInv'
<1>1. ASSUME NEW c \in Calls,
             \/ LoginGranted(c) \/ LoginConfirmed(c) \/ LoginEnds(c) \/ OAuthEnds(c) \/ LoginFails(c)
             \/ RefreshGranted(c) \/ RefreshEnds(c) \/ Verified(c) \/ Rejected(c) \/ RefreshFails(c)
             \/ LogoutEnds(c)
      PROVE  IInv'
  BY <1>1, IInvAnswers
<1>2. ASSUME NEW c \in Calls,
             \/ \E u \in Users : LoginStarts(c, u, "login") \/ LoginStarts(c, u, "oauth")
             \/ \E slot \in Slots : Background(c, slot)
             \/ ReAuth(c) \/ LogoutStarts(c)
      PROVE  IInv'
  BY <1>2, IInvStarts
<1>3. ASSUME NEW slot \in Slots, NEW h \in Hosts,
             UpdateServer(slot, h) \/ AddServer(slot, h) \/ Restart(slot)
      PROVE  IInv'
  BY <1>3, IInvConfigures DEF Configures
<1>4. CASE RemoveServer
  BY <1>4, IInvConfigures, SessionsAssumption DEF Configures
<1>5. CASE \E slot \in Slots : Restart(slot)
  BY <1>3, <1>5, SessionsAssumption
<1>6. ASSUME NEW g \in Grants, Expires(g) \/ Revokes(g)
      PROVE  IInv'
  BY <1>6, ShapeTime, IInvSame DEF IInv
<1>7. CASE UNCHANGED vars
  <2>1. Shape'
    BY <1>7 DEF vars, server, IInv, Shape, TypeOK, Present, StageOK, Known, Holds, Under, Refreshing
  <2>. QED
    BY <1>7, <2>1, IInvSame DEF vars, server
<1>. QED
  BY <1>1, <1>2, <1>3, <1>4, <1>5, <1>6, <1>7 DEF Next

LEMMA IInvInit ==
  ASSUME Init
  PROVE  IInv
<1>1. PICK h \in Hosts : object = [o \in Slots |-> IF o = current THEN Provider(h, None) ELSE None]
  BY DEF Init
<1>2. /\ Provider(h, None) \in Providers /\ Provider(h, None) # None
      /\ Provider(h, None).user = None /\ Provider(h, None).token = None
      /\ Provider(h, None).refresh = None
  BY ProviderFacts, Constants DEF Maybe
<1>3. /\ grants = <<>> /\ live = {} /\ fresh = {} /\ current \in Slots /\ store = None
      /\ session = [active |-> TRUE, auth |-> current, user |-> None, restored |-> TRUE]
      /\ call = [c \in Calls |-> None] /\ signedOut = FALSE
  BY DEF Init
<1>4. Under = {} /\ current # None
  BY <1>3, Constants DEF Under
<1>5. object \in [Slots -> Maybe(Providers)]
  BY <1>1, <1>2 DEF Maybe
<1>6. object[current] = Provider(h, None) /\ \A o \in Slots : object[o] # None => object[o] = object[current]
  BY <1>1, <1>3
<1>7. Shape
  <2>1. grants \in Seq([user : Users, host : Hosts]) /\ Len(grants) = 0
    BY <1>3
  <2>2. MaxGrants \in Nat
    BY Constants
  <2>3. TypeOK
    <3>1. session \in [active : BOOLEAN, auth : Maybe(Slots), user : Maybe(Users), restored : BOOLEAN]
      BY <1>3 DEF Maybe
    <3>2. call \in [Calls -> Maybe(CallRecords)] /\ current \in Maybe(Slots) /\ store \in Maybe(Session)
      BY <1>3 DEF Maybe
    <3>3. live \subseteq Known /\ fresh \subseteq Known /\ signedOut \in BOOLEAN
      BY <1>3
    <3>4. Len(grants) <= MaxGrants
      BY <2>1, <2>2
    <3>. QED
      BY <1>5, <2>1, <3>1, <3>2, <3>3, <3>4 DEF TypeOK
  <2>4. Present
    BY <1>2, <1>3, <1>4, <1>6, NothingWithin DEF Present, Holds
  <2>. QED
    BY <1>4, <2>3, <2>4 DEF Shape
<1>8. UserOK
  BY <1>2, <1>3, <1>4, <1>6
     DEF UserOK, StoreMatches, SignInAlone, ObjectsMatch, SignInMatches, RefreshMatches
<1>9. HostOK /\ SignedOutOK
  BY <1>2, <1>3, <1>4, <1>6, NothingOf DEF HostOK, CallsAtCurrent, SignedOutOK
<1>10. StoreOK /\ LiveOK
  BY <1>2, <1>3, <1>4, <1>6 DEF StoreOK, OneCall, Same, LiveOK
<1>. QED
  BY <1>7, <1>8, <1>9, <1>10 DEF IInv

LEMMA Invariant == Spec => []IInv
<1>1. Init => IInv
  BY IInvInit
<1>2. IInv /\ [Next]_vars => IInv'
  BY IInvStep
<1>. QED
  BY <1>1, <1>2, PTL DEF Spec

-----------------------------------------------------------------------------
(* The theorems.                                                           *)

\* No user is ever paired with the tokens of another, in what is stored or in a
\* provider that no call is changing, unless a sign-in ran while a refresh did.
THEOREM UsersKeepTheirTokens == Spec => []UserMatchesToken
<1>1. IInv => UserMatchesToken
  <2> SUFFICES ASSUME IInv, windows \cap {"login and refresh"} = {}
               PROVE  /\ store # None => Matches(store)
                      /\ \A o \in Slots :
                           (object[o] # None /\ object[o].user # None
                              /\ ~\E c \in Calls : call[c] # None /\ call[c].slot = o) =>
                             Matches(object[o])
    BY DEF UserMatchesToken
  <2>1. StoreMatches /\ ObjectsMatch
    BY DEF IInv, Outside, UserOK
  <2>. QED
    BY <2>1 DEF StoreMatches, ObjectsMatch, OfUser, Matches, Under
<1>. QED
  BY <1>1, Invariant, PTL

\* Who has signed out, or removed the server, stays signed out: no late answer, no
\* restart and no change of the configuration brings a session back.
THEOREM SignOutLasts == Spec => []SignedOutStaysOut
<1>1. IInv => SignedOutStaysOut
  BY DEF IInv, Outside, SignedOutOK, SignedOutStaysOut
<1>. QED
  BY <1>1, Invariant, PTL

\* A provider has and sends only tokens that its own host issued.
THEOREM TokensStayWithTheirHost == Spec => []TokenToItsHost
<1>1. IInv => TokenToItsHost
  <2> SUFFICES ASSUME IInv, windows \cap {"overtaken", "replaced"} = {}
               PROVE  /\ \A o \in Slots : (object[o] # None /\ object[o].token # None) =>
                           grants[object[o].token].host = object[o].host
                      /\ \A c \in Calls : (call[c] # None /\ call[c].sent # None) =>
                           grants[call[c].sent].host = P(c).host
    BY DEF TokenToItsHost
  <2>1. HostOK
    BY DEF IInv, Outside
  <2>. QED
    BY <2>1 DEF HostOK, OfHost, Under
<1>. QED
  BY <1>1, Invariant, PTL

\* When no call is under way, what is stored is the provider's session: a restart
\* brings back what there was.
THEOREM RestartFindsTheSession == Spec => []RestartKeepsTheSession
<1>1. IInv => RestartKeepsTheSession
  <2> SUFFICES ASSUME IInv, windows \cap OfStore = {}, current # None,
                      \A c \in Calls : call[c] = None
               PROVE  Same(object[current])
    BY DEF RestartKeepsTheSession, OfStore, Same
  <2>1. StoreOK /\ Under = {}
    BY DEF IInv, Outside, Under
  <2>. QED
    BY <2>1 DEF StoreOK
<1>. QED
  BY <1>1, Invariant, PTL

LEMMA PersistedKept ==
  ASSUME NEW p \in Providers, store # None
  PROVE  Persisted(p) # None
BY OfIsSession DEF Persisted

\* Of the steps of a call only the sign-out clears a session that can be refreshed.
LEMMA AnswersKeep ==
  ASSUME Shape, HostOK, StoreOK, LiveOK, NEW c \in Calls,
         \/ LoginGranted(c) \/ LoginConfirmed(c) \/ LoginEnds(c) \/ OAuthEnds(c) \/ LoginFails(c)
         \/ RefreshGranted(c) \/ RefreshEnds(c) \/ Verified(c) \/ Rejected(c) \/ RefreshFails(c)
         \/ LogoutEnds(c),
         store # None, store.refresh # None, store' = None
  PROVE  signedOut'
<1>1. Alters(c)
  BY ShapeSigning, ShapeRefreshing
<1>2. /\ c \in Under /\ call[c] # None /\ After(c) \in Providers /\ P(c) = object[current]
      /\ current # None /\ StoreHas(c) /\ LiveHas(c)
  BY <1>1, CallFacts, Constants DEF Alters, Under, HostOK, CallsAtCurrent, P, StoreOK, LiveOK
<1>3. CASE LoginGranted(c) \/ LoginEnds(c) \/ RefreshGranted(c) \/ RefreshFails(c)
  BY <1>3, LoginGrantedEffect, LoginEndsEffect, RefreshGrantedEffect, RefreshFailsEffect
<1>4. CASE LoginConfirmed(c)
  BY <1>2, <1>4, LoginConfirmedEffect, PersistedKept
<1>5. CASE OAuthEnds(c)
  <2>1. /\ store' = Of(After(c)) /\ After(c).user = call[c].user /\ call[c].user \in Users
        /\ After(c).token = NewGrant
    BY <1>5, OAuthEndsEffect
  <2>2. After(c).user # None /\ After(c).token # None
    BY <2>1, NewGrantFact, Constants
  <2>. QED
    BY <1>2, <2>1, <2>2, OfIsSession
<1>6. CASE LoginFails(c)
  <2>1. SignsInAnew(c)
    BY <1>6, LoginFailsEffect DEF SignsInAnew
  <2>. QED
    BY <1>2, <2>1 DEF LiveHas
<1>7. CASE RefreshEnds(c) \/ Verified(c)
  BY <1>2, <1>7, AnswerEffect, PersistedKept
<1>8. CASE Rejected(c) /\ ~LogoutEnds(c)
  <2>1. Refreshing(c) /\ call[c].stage = "refresh" /\ call[c].sent \notin live
    BY <1>8, ClearsEffect
  <2>2. call[c].sent = P(c).refresh
    BY <1>2, <2>1 DEF LiveHas
  <2>3. Same(object[current])
    BY <1>2, <2>1 DEF StoreOK, OneCall
  <2>4. store.refresh = P(c).refresh
    BY <1>2, <2>3 DEF Same, Of
  <2>5. \A d \in Under : ~RefreshStored(d)
    BY <1>2, <2>1 DEF StoreOK, OneCall, RefreshStored
  <2>. QED
    BY <2>1, <2>2, <2>4, <2>5 DEF LiveOK
<1>9. CASE LogoutEnds(c)
  BY <1>9, ClearsEffect
<1>. QED
  BY <1>3, <1>4, <1>5, <1>6, <1>7, <1>8, <1>9

\* Outside the windows a session that the server would still refresh ends only when
\* the user signs out or changes the configuration.
THEOREM LiveSessionLasts == Spec => LiveSessionKept
<1>1. IInv /\ [Next]_vars =>
        [(/\ windows \cap {"revoked", "lost answer", "two refreshes", "replaced",
                           "login and refresh", "overtaken", "not stored"} = {}
          /\ store # None /\ store.refresh # None /\ store' = None) => signedOut']_vars
  <2> SUFFICES ASSUME IInv, Next, windows \cap OfLive = {},
                      store # None, store.refresh # None, store' = None
               PROVE  signedOut'
    BY DEF OfLive, OfStore, vars
  <2>1. Shape /\ HostOK /\ StoreOK /\ LiveOK
    BY WindowsNest DEF IInv, Outside
  <2>2. ASSUME NEW c \in Calls,
               \/ LoginGranted(c) \/ LoginConfirmed(c) \/ LoginEnds(c) \/ OAuthEnds(c) \/ LoginFails(c)
               \/ RefreshGranted(c) \/ RefreshEnds(c) \/ Verified(c) \/ Rejected(c) \/ RefreshFails(c)
               \/ LogoutEnds(c)
        PROVE  signedOut'
    BY <2>1, <2>2, AnswersKeep
  <2>3. ASSUME NEW c \in Calls,
               \/ \E u \in Users : LoginStarts(c, u, "login") \/ LoginStarts(c, u, "oauth")
               \/ \E slot \in Slots : Background(c, slot)
               \/ ReAuth(c) \/ LogoutStarts(c)
        PROVE  signedOut'
    BY <2>1, <2>3, ShapeStarts DEF Begins
  <2>4. ASSUME NEW slot \in Slots, NEW h \in Hosts,
               UpdateServer(slot, h) \/ AddServer(slot, h) \/ Restart(slot)
        PROVE  signedOut'
    <3>1. PICK g \in Hosts, s \in {store, None} :
            Remade(slot, g, s) /\ signedOut' = (signedOut \/ s # store)
      BY <2>1, <2>4, ConfiguresEffect
    <3>2. s # None => s.refresh = None
      BY <3>1, Constants DEF Remade, Takes
    <3>. QED
      BY <3>1, <3>2
  <2>5. CASE RemoveServer
    BY <2>5 DEF RemoveServer
  <2>6. CASE \E slot \in Slots : Restart(slot)
    BY <2>4, <2>6, SessionsAssumption
  <2>7. ASSUME NEW g \in Grants, Expires(g) \/ Revokes(g)
        PROVE  signedOut'
    BY <2>7 DEF Expires, Revokes
  <2>. QED
    BY <2>2, <2>3, <2>4, <2>5, <2>6, <2>7 DEF Next
<1>. QED
  BY <1>1, Invariant, PTL DEF Spec, LiveSessionKept

-----------------------------------------------------------------------------
(* The store (AuthStore, in the frame of MCSessions).                       *)

Stored == [Servers -> Saved \cup {None}]

StoreTypes ==
  /\ host \in Stored /\ legacy \in Stored /\ memory \in Stored /\ latest \in Stored
  /\ failed \in BOOLEAN /\ moved \in BOOLEAN

StoreInv ==
  /\ StoreTypes
  /\ moved => legacy = Store!Empty
  /\ Store!SessionsStay

LEMMA StoreConstants == Legacies \subseteq Saved /\ None \notin Saved /\ Store!Empty \in Stored
BY KeptAssumption DEF Store!AuthStoreAssumption, Store!Empty, Stored

LEMMA BlobsTyped ==
  ASSUME StoreTypes
  PROVE  Store!HostMoved \in Stored /\ Store!ReadBlob \in Stored
BY DEF StoreTypes, Stored, Store!HostMoved, Store!ReadBlob

\* What an operation reads is what was there to be found, but for old keys that it moves
\* beside a newer memory.
LEMMA MigrationKeeps ==
  ASSUME StoreInv, Store!MigrateLegacy, NEW s \in Servers,
         s \in Store!OldKeys => ~(Store!CanMove /\ failed)
  PROVE  Store!Found(s) = IF Store!ReadBlob[s] = None /\ ~moved' THEN legacy'[s]
                          ELSE Store!ReadBlob[s]
<1>0. StoreTypes /\ (moved => legacy = Store!Empty)
  BY DEF StoreInv
<1>1. CASE Store!CanMove
  <2>1. failed => legacy[s] = None
    BY <1>1 DEF Store!OldKeys
  <2>2. moved' = TRUE /\ ~moved
    BY <1>1 DEF Store!MigrateLegacy, Store!CanMove
  <2>3. CASE failed
    BY <2>1, <2>2, <2>3 DEF Store!ReadBlob, Store!Found
  <2>4. CASE ~failed
    <3>1. Store!ReadBlob[s] = IF host[s] = None THEN legacy[s] ELSE host[s]
      BY <1>1, <2>4 DEF Store!ReadBlob, Store!HostMoved
    <3> QED BY <2>2, <2>4, <3>1 DEF Store!Found
  <2> QED BY <2>3, <2>4
<1>2. CASE ~Store!CanMove
  <2>1. moved' = moved /\ legacy' = legacy /\ Store!HostMoved = host
    BY <1>0, <1>2 DEF Store!MigrateLegacy, Store!HostMoved, StoreTypes
  <2> QED BY <2>1 DEF Store!ReadBlob, Store!Found
<1> QED BY <1>1, <1>2

\* An operation on S leaves the others as they were to be found, and those of S as noted.
LEMMA OperationKeeps ==
  ASSUME StoreInv, NEW S \in SUBSET Servers, Store!Operation(S), NEW blob \in Stored,
         (IF failed' THEN memory' ELSE host') = blob,
         host' \in Stored, memory' \in Stored, latest' \in Stored, failed' \in BOOLEAN,
         \A s \in Servers : \/ blob[s] = Store!ReadBlob[s] /\ latest'[s] = latest[s]
                            \/ s \in S /\ (s \in excepted' \/ blob[s] = latest'[s])
  PROVE  StoreInv'
<1>0. StoreTypes /\ (moved => legacy = Store!Empty)
  BY DEF StoreInv
<1>1. Store!MigrateLegacy /\ Store!Excepts(S)
  BY DEF Store!Operation
<1>2. StoreTypes' /\ (moved' => legacy' = Store!Empty)
  BY <1>0, <1>1, StoreConstants DEF StoreTypes, Store!MigrateLegacy
<1>3. /\ excepted \subseteq excepted'
      /\ ~Store!CanMove => S \cap Store!OldKeys \subseteq excepted'
      /\ Store!CanMove /\ failed => Store!OldKeys \subseteq excepted'
  BY <1>1, Zenon DEF Store!Excepts
<1>4. ASSUME NEW s \in Servers, s \notin excepted' PROVE Store!Found(s)' = latest'[s]
  <2>1. Store!Found(s)' = IF blob[s] = None /\ ~moved' THEN legacy'[s] ELSE blob[s]
    BY DEF Store!Found
  <2>2. CASE blob[s] = Store!ReadBlob[s] /\ latest'[s] = latest[s]
    <3>1. Store!Found(s) = latest[s]
      BY <1>3, <1>4 DEF StoreInv, Store!SessionsStay
    <3>2. s \in Store!OldKeys => ~(Store!CanMove /\ failed)
      BY <1>3, <1>4
    <3> QED BY <1>1, <2>1, <2>2, <3>1, <3>2, MigrationKeeps
  <2>3. CASE s \in S /\ blob[s] = latest'[s]
    <3>1. CASE blob[s] = None /\ ~moved'
      <4>1. ~Store!CanMove /\ legacy' = legacy
        BY <1>1, <3>1 DEF Store!MigrateLegacy
      <4>2. legacy[s] = None
        BY <1>3, <1>4, <2>3, <4>1 DEF Store!OldKeys
      <4> QED BY <2>1, <2>3, <3>1, <4>1, <4>2
    <3> QED BY <2>1, <2>3, <3>1
  <2> QED BY <1>4, <2>2, <2>3
<1> QED BY <1>2, <1>4 DEF StoreInv, Store!SessionsStay

\* What an operation writes is in memory or in the vault's storage.
LEMMA WritesBlob ==
  ASSUME StoreTypes, NEW blob \in Stored, Store!WriteBlob(blob)
  PROVE  /\ (IF failed' THEN memory' ELSE host') = blob
         /\ host' \in Stored /\ memory' \in Stored /\ failed' \in BOOLEAN
BY BlobsTyped DEF Store!WriteBlob

LEMMA LoadsStay ==
  ASSUME StoreInv, NEW S \in SUBSET Servers, Store!Operation(S), host' = Store!HostMoved,
         UNCHANGED <<memory, failed, latest>>
  PROVE  StoreInv'
<1>1. StoreTypes
  BY DEF StoreInv
<1>2. (IF failed' THEN memory' ELSE host') = Store!ReadBlob
  BY DEF Store!ReadBlob
<1> QED BY <1>1, <1>2, BlobsTyped, OperationKeeps DEF StoreTypes

LEMMA PutStays ==
  ASSUME StoreInv, NEW s \in Servers, NEW value \in Saved \cup {None}, Store!Operation({s}),
         Store!WriteBlob([Store!ReadBlob EXCEPT ![s] = value]),
         latest' = [latest EXCEPT ![s] = value]
  PROVE  StoreInv'
<1>1. StoreTypes /\ Store!ReadBlob \in Stored /\ latest \in Stored
  BY BlobsTyped DEF StoreInv, StoreTypes
<1> DEFINE blob == [Store!ReadBlob EXCEPT ![s] = value]
<1>2. blob \in Stored /\ latest' \in Stored
  BY <1>1 DEF Stored
<1>3. \A t \in Servers : \/ blob[t] = Store!ReadBlob[t] /\ latest'[t] = latest[t]
                         \/ t \in {s} /\ (t \in excepted' \/ blob[t] = latest'[t])
  BY <1>1 DEF Stored
<1> HIDE DEF blob
<1>4. Store!WriteBlob(blob) /\ {s} \in SUBSET Servers
  BY DEF blob
<1>5. /\ (IF failed' THEN memory' ELSE host') = blob
      /\ host' \in Stored /\ memory' \in Stored /\ failed' \in BOOLEAN
  BY <1>1, <1>2, <1>4, WritesBlob
<1>6. PICK S \in SUBSET Servers : S = {s}
  BY <1>4
<1>7. Store!Operation(S)
  BY <1>6
<1> QED BY <1>2, <1>3, <1>5, <1>6, <1>7, OperationKeeps

LEMMA RenameStays ==
  ASSUME StoreInv, NEW s \in Servers, NEW t \in Servers, Store!RenameServer(s, t)
  PROVE  StoreInv'
<1>0. Store!Operation({s, t}) /\ {s, t} \in SUBSET Servers
  BY DEF Store!RenameServer
<1>1. CASE s # t /\ Store!ReadBlob[s] # None /\ Store!ReadBlob[t] = None
  <2> DEFINE blob == [Store!ReadBlob EXCEPT ![s] = None, ![t] = Store!ReadBlob[s]]
  <2>1. Store!WriteBlob(blob) /\ latest' = [latest EXCEPT ![s] = None, ![t] = latest[s]]
    BY <1>1 DEF Store!RenameServer
  <2>2. StoreTypes /\ Store!ReadBlob \in Stored /\ latest \in Stored
    BY BlobsTyped DEF StoreInv, StoreTypes
  <2>3. blob \in Stored /\ latest' \in Stored
    BY <2>1, <2>2 DEF Stored
  <2>4. /\ \A u \in Servers \ {s, t} : blob[u] = Store!ReadBlob[u] /\ latest'[u] = latest[u]
        /\ blob[s] = None /\ latest'[s] = None
        /\ blob[t] = Store!ReadBlob[s] /\ latest'[t] = latest[s]
    BY <1>1, <2>1, <2>2 DEF Stored
  <2> HIDE DEF blob
  <2>5. /\ (IF failed' THEN memory' ELSE host') = blob
        /\ host' \in Stored /\ memory' \in Stored /\ failed' \in BOOLEAN
    BY <2>1, <2>2, <2>3, WritesBlob
  <2>6. t \in excepted' \/ Store!ReadBlob[s] = latest[s]
    <3> SUFFICES ASSUME t \notin excepted' PROVE Store!ReadBlob[s] = latest[s]
      OBVIOUS
    <3>1. /\ s \notin excepted
          /\ s \in Store!OldKeys => ~(Store!CanMove /\ failed)
      BY <1>0 DEF Store!Operation, Store!Excepts
    <3>2. Store!Found(s) = latest[s]
      BY <3>1 DEF StoreInv, Store!SessionsStay
    <3>3. Store!MigrateLegacy
      BY <1>0 DEF Store!Operation
    <3> QED BY <1>1, <3>1, <3>2, <3>3, MigrationKeeps
  <2> QED BY <1>0, <2>3, <2>4, <2>5, <2>6, OperationKeeps
<1>2. CASE ~(s # t /\ Store!ReadBlob[s] # None /\ Store!ReadBlob[t] = None)
  <2>1. host' = Store!HostMoved /\ UNCHANGED <<memory, failed, latest>>
    BY <1>2 DEF Store!RenameServer
  <2> QED BY <1>0, <2>1, LoadsStay
<1> QED BY <1>1, <1>2

\* A restart: what could not be saved is gone, and what is left is what is found.
LEMMA RestartStays == ASSUME StoreInv, Store!Restart PROVE StoreInv'
<1>0. StoreTypes /\ (moved => legacy = Store!Empty)
  BY DEF StoreInv
<1>1. /\ memory' = Store!Empty /\ failed' = FALSE /\ moved' = FALSE
      /\ UNCHANGED <<host, legacy>>
  BY DEF Store!Restart
<1>2. latest' = IF failed THEN [s \in Servers |-> IF host[s] = None THEN legacy[s] ELSE host[s]]
                ELSE latest
  BY DEF Store!Restart
<1>3. excepted' = IF failed THEN {} ELSE excepted
  BY DEF Store!Restart
<1>4. StoreTypes'
  BY <1>0, <1>1, <1>2, StoreConstants DEF StoreTypes, Stored
<1>5. ASSUME NEW s \in Servers, s \notin excepted' PROVE Store!Found(s)' = latest'[s]
  <2>1. Store!Found(s)' = IF host[s] = None THEN legacy[s] ELSE host[s]
    BY <1>1 DEF Store!Found
  <2>2. CASE failed
    BY <1>2, <2>1, <2>2
  <2>3. CASE ~failed
    <3>1. Store!Found(s) = latest[s]
      BY <1>3, <1>5, <2>3 DEF StoreInv, Store!SessionsStay
    <3>2. moved => legacy[s] = None
      BY <1>0 DEF Store!Empty
    <3> QED BY <1>2, <2>1, <2>3, <3>1, <3>2 DEF Store!Found
  <2> QED BY <2>2, <2>3
<1> QED BY <1>1, <1>4, <1>5 DEF StoreInv, Store!SessionsStay

LEMMA StoreInvKept == ASSUME StoreInv, Store!Next \/ UNCHANGED kept PROVE StoreInv'
<1>1. CASE Store!Load
  BY <1>1, LoadsStay DEF Store!Load
<1>2. ASSUME NEW s \in Servers, Store!Evict(s) PROVE StoreInv'
  BY <1>2, PutStays DEF Store!Evict
<1>3. ASSUME NEW s \in Servers, NEW value \in Saved, Store!Persist(s, value) PROVE StoreInv'
  BY <1>3, PutStays DEF Store!Persist
<1>4. CASE Store!StorageChanges \/ UNCHANGED kept
  BY <1>4 DEF Store!StorageChanges, kept, StoreInv, StoreTypes, Store!SessionsStay, Store!Found
<1> QED BY <1>1, <1>2, <1>3, <1>4, RenameStays, RestartStays DEF Store!Next

LEMMA StoreInvInit == ASSUME Store!Init PROVE StoreInv
<1>1. StoreTypes
  BY StoreConstants DEF Store!Init, StoreTypes, Stored
<1>2. ASSUME NEW s \in Servers PROVE Store!Found(s) = latest[s]
  BY DEF Store!Init, Store!Found, Store!Empty
<1> QED BY <1>1, <1>2 DEF Store!Init, StoreInv, Store!SessionsStay

(***************************************************************************)
(* For any servers and sessions and any number of restarts and changes of  *)
(* the storage, what load would find of a server is what was stored for it *)
(* last, but for the servers excepted.                                     *)
(***************************************************************************)
THEOREM StoredIsFound == MCSpec => []SessionsStay
<1> DEFINE Inv == part = "store" => StoreInv
<1>1. MCInit => Inv
  BY StoreInvInit DEF MCInit
<1>2. Inv /\ [MCNext]_<<vars, part, kept, configured>> => Inv'
  <2> SUFFICES ASSUME Inv, [MCNext]_<<vars, part, kept, configured>>, part' = "store"
               PROVE  StoreInv'
    OBVIOUS
  <2>1. part = "store"
    BY DEF MCNext
  <2>2. Store!Next \/ UNCHANGED kept
    BY <2>1 DEF MCNext
  <2> QED BY <2>1, <2>2, StoreInvKept
<1>3. Inv => SessionsStay
  BY DEF StoreInv, SessionsStay
<1> QED BY <1>1, <1>2, <1>3, PTL DEF MCSpec

-----------------------------------------------------------------------------
(* The settings (Settings, in the frame of MCSessions).                     *)

Items == [Guids -> Values \cup {None}]
Wholes == [field : Values, items : Items]
Now == Prefs!Contents(settings)

PrefTypes ==
  /\ arrays \in Seq(Items) /\ settings \in Prefs!Objects /\ settings.array \in 1..Len(arrays)
  /\ write \in [Writes -> Prefs!Mutations \cup {None}] /\ saves \in Seq(Writes \X Wholes)
  /\ file \in Wholes /\ allowed \in BOOLEAN

\* What goes to the file is a write's that waits for it, and no other one's.
SavesAreWrites ==
  /\ \A i \in 1..Len(saves) : write[saves[i][1]] # None /\ write[saves[i][1]].stage = "saves"
  /\ \A i, j \in 1..Len(saves) : saves[i][1] = saves[j][1] => i = j

\* The object as it is now is still to be compared by a write that made it so, or the last
\* to go to the file, or there.
Loads(w) == write[w] # None /\ write[w].stage = "loads" /\ Prefs!Contents(write[w].updated) = Now
Compares == \E w \in Writes : Loads(w)
GoesLast == saves # <<>> /\ saves[Len(saves)][2] = Now
IsThere == saves = <<>> /\ file = Now

PrefInv ==
  /\ PrefTypes /\ SavesAreWrites /\ wanted = Now
  /\ allowed \/ Compares \/ GoesLast \/ IsThere

LEMMA PrefConstants == None \notin Values /\ None \notin Prefs!Mutations
BY KeptAssumption DEF Prefs!SettingsAssumption

LEMMA NowIsWhole == ASSUME PrefTypes PROVE Now \in Wholes
<1>1. settings.field \in Values /\ arrays[settings.array] \in Items
  BY ElementOfSeq DEF PrefTypes, Prefs!Objects
<1> QED BY <1>1 DEF Now, Prefs!Contents, Wholes

\* A write that begins is the one that compares the object as it makes it.
LEMMA MutateKeeps ==
  ASSUME PrefInv, NEW updated \in Prefs!Objects, Prefs!Mutate(updated),
         arrays' \in Seq(Items), updated.array \in 1..Len(arrays'),
         wanted' = [field |-> updated.field, items |-> arrays'[updated.array]]
  PROVE  PrefInv'
<1>0. PrefTypes /\ SavesAreWrites
  BY DEF PrefInv
<1> DEFINE m == [stage |-> "loads", updated |-> updated]
<1>1. /\ settings' = updated /\ UNCHANGED <<saves, file, allowed>>
      /\ \E w \in Writes : write[w] = None /\ write' = [write EXCEPT ![w] = m]
  BY DEF Prefs!Mutate
<1>2. PICK w \in Writes : write[w] = None /\ write' = [write EXCEPT ![w] = m]
  BY <1>1
<1>3. m \in Prefs!Mutations /\ m.stage = "loads" /\ m.updated = updated
  BY DEF Prefs!Mutations
<1> HIDE DEF m
<1>4. m # None
  BY <1>3, PrefConstants
<1>5. /\ write' \in [Writes -> Prefs!Mutations \cup {None}] /\ write'[w] = m
      /\ \A v \in Writes \ {w} : write'[v] = write[v]
  BY <1>0, <1>2, <1>3 DEF PrefTypes
<1>6. PrefTypes'
  BY <1>0, <1>1, <1>5 DEF PrefTypes
<1>7. SavesAreWrites'
  <2>1. \A i \in 1..Len(saves) : saves[i] \in Writes \X Wholes
    BY <1>0, ElementOfSeq DEF PrefTypes
  <2>2. \A i \in 1..Len(saves) : saves[i][1] \in Writes \ {w}
    BY <1>0, <1>2, <2>1 DEF SavesAreWrites
  <2> QED BY <1>0, <1>1, <1>5, <2>2 DEF SavesAreWrites
<1>8. Now' = [field |-> updated.field, items |-> arrays'[updated.array]]
  BY <1>1 DEF Now, Prefs!Contents
<1>9. Loads(w)'
  <2>1. Prefs!Contents(write[w].updated)' = Now'
    BY <1>3, <1>5, <1>8 DEF Prefs!Contents
  <2> QED BY <1>3, <1>4, <1>5, <2>1 DEF Loads
<1> QED BY <1>6, <1>7, <1>8, <1>9 DEF PrefInv, Compares

LEMMA WriteFieldKeeps == ASSUME PrefInv, NEW v \in Values, Prefs!WriteField(v) PROVE PrefInv'
<1>0. PrefTypes /\ wanted = [field |-> settings.field, items |-> arrays[settings.array]]
  BY DEF PrefInv, Now, Prefs!Contents
<1> DEFINE updated == [settings EXCEPT !.field = v]
<1>1. /\ updated \in Prefs!Objects /\ updated.array = settings.array /\ updated.field = v
  BY <1>0 DEF PrefTypes, Prefs!Objects
<1>2. Prefs!Mutate(updated) /\ wanted' = [wanted EXCEPT !.field = v] /\ arrays' = arrays
  BY DEF Prefs!WriteField
<1> HIDE DEF updated
<1>3. wanted' = [field |-> updated.field, items |-> arrays'[updated.array]]
  BY <1>0, <1>1, <1>2
<1> QED BY <1>0, <1>1, <1>2, <1>3, MutateKeeps DEF PrefTypes

LEMMA WriteItemKeeps ==
  ASSUME PrefInv, NEW g \in Guids, NEW v \in Values, Prefs!WriteItem(g, v)
  PROVE  PrefInv'
<1>0. PrefTypes /\ wanted = [field |-> settings.field, items |-> arrays[settings.array]]
  BY DEF PrefInv, Now, Prefs!Contents
<1>1. /\ Prefs!Mutate(settings) /\ arrays' = [arrays EXCEPT ![settings.array][g] = v]
      /\ wanted' = [wanted EXCEPT !.items[g] = v]
  BY DEF Prefs!WriteItem
<1> DEFINE items == [arrays[settings.array] EXCEPT ![g] = v]
<1>2. /\ arrays[settings.array] \in Items /\ items \in Items
      /\ arrays' = [arrays EXCEPT ![settings.array] = items]
  <2>1. arrays[settings.array] \in Items
    BY <1>0, ElementOfSeq DEF PrefTypes
  <2> QED BY <1>1, <2>1 DEF Items
<1>3. wanted' = [field |-> settings.field, items |-> items]
  BY <1>0, <1>1
<1> HIDE DEF items
<1>4. arrays' \in Seq(Items) /\ Len(arrays') = Len(arrays) /\ arrays'[settings.array] = items
  BY <1>0, <1>2, ExceptSeq DEF PrefTypes
<1> QED BY <1>0, <1>1, <1>3, <1>4, MutateKeeps DEF PrefTypes

LEMMA RemoveItemKeeps == ASSUME PrefInv, NEW g \in Guids, Prefs!RemoveItem(g) PROVE PrefInv'
<1>0. PrefTypes /\ wanted = [field |-> settings.field, items |-> arrays[settings.array]]
  BY DEF PrefInv, Now, Prefs!Contents
<1> DEFINE items == [arrays[settings.array] EXCEPT ![g] = None]
           updated == [settings EXCEPT !.array = Len(arrays')]
<1>1. /\ arrays' = Append(arrays, items) /\ Prefs!Mutate(updated)
      /\ wanted' = [wanted EXCEPT !.items[g] = None]
  BY DEF Prefs!RemoveItem
<1>2. items \in Items
  <2>1. arrays[settings.array] \in Items
    BY <1>0, ElementOfSeq DEF PrefTypes
  <2> QED BY <2>1 DEF Items
<1>3. wanted' = [field |-> settings.field, items |-> items]
  BY <1>0, <1>1
<1> HIDE DEF items
<1>4. arrays' \in Seq(Items) /\ Len(arrays') \in Nat \ {0} /\ arrays'[Len(arrays')] = items
  <2>1. arrays \in Seq(Items) /\ Len(arrays) \in Nat
    BY <1>0 DEF PrefTypes
  <2> QED BY <1>1, <1>2, <2>1, AppendProperties
<1>5. updated \in Prefs!Objects /\ updated.array = Len(arrays') /\ updated.field = settings.field
  BY <1>0, <1>4 DEF PrefTypes, Prefs!Objects
<1> HIDE DEF updated
<1>6. updated.array \in 1..Len(arrays')
  BY <1>4, <1>5
<1>7. wanted' = [field |-> updated.field, items |-> arrays'[updated.array]]
  BY <1>3, <1>4, <1>5
<1> QED BY <1>1, <1>4, <1>5, <1>6, <1>7, MutateKeeps

\* A write compares: it ends, or goes to the file with the object as it is now.
LEMMA LoadedKeeps == ASSUME PrefInv, NEW w \in Writes, Prefs!Loaded(w) PROVE PrefInv'
<1>0. /\ PrefTypes /\ SavesAreWrites /\ wanted = Now
      /\ allowed \/ Compares \/ GoesLast \/ IsThere
  BY DEF PrefInv
<1>1. /\ write[w] # None /\ write[w].stage = "loads" /\ write[w] \in Prefs!Mutations
      /\ UNCHANGED <<settings, arrays, file, wanted>>
  BY <1>0 DEF Prefs!Loaded, PrefTypes
<1>2. Now' = Now
  BY <1>1 DEF Now, Prefs!Contents
<1>3. \A i \in 1..Len(saves) : saves[i][1] \in Writes \ {w}
  <2>1. \A i \in 1..Len(saves) : saves[i] \in Writes \X Wholes
    BY <1>0, ElementOfSeq DEF PrefTypes
  <2> QED BY <1>0, <1>1, <2>1 DEF SavesAreWrites
<1>4. CASE Prefs!Contents(write[w].updated) = file
  <2>1. /\ write' = [write EXCEPT ![w] = None] /\ allowed' = (allowed \/ saves # <<>>)
        /\ saves' = saves
    BY <1>4 DEF Prefs!Loaded
  <2>2. /\ write' \in [Writes -> Prefs!Mutations \cup {None}]
        /\ \A v \in Writes \ {w} : write'[v] = write[v]
    BY <1>0, <2>1 DEF PrefTypes
  <2>3. PrefTypes'
    BY <1>0, <1>1, <2>1, <2>2 DEF PrefTypes
  <2>4. SavesAreWrites'
    BY <1>0, <1>3, <2>1, <2>2 DEF SavesAreWrites
  <2>5. allowed' \/ Compares' \/ IsThere'
    <3> SUFFICES ASSUME ~allowed' PROVE Compares' \/ IsThere'
      OBVIOUS
    <3>1. ~allowed /\ saves = <<>>
      BY <2>1
    <3>2. CASE file = Now
      BY <1>1, <1>2, <2>1, <3>1, <3>2 DEF IsThere
    <3>3. CASE file # Now
      <4>1. PICK v \in Writes : Loads(v)
        BY <1>0, <3>1, <3>3 DEF GoesLast, IsThere, Compares
      <4>2. v # w
        BY <1>4, <3>3, <4>1 DEF Loads
      <4>3. Loads(v)'
        BY <1>1, <1>2, <2>2, <4>1, <4>2 DEF Loads, Prefs!Contents
      <4> QED BY <4>3 DEF Compares
    <3> QED BY <3>2, <3>3
  <2> QED BY <1>0, <1>1, <1>2, <2>3, <2>4, <2>5 DEF PrefInv
<1>5. CASE Prefs!Contents(write[w].updated) # file
  <2>1. /\ write' = [write EXCEPT ![w].stage = "saves"]
        /\ saves' = Append(saves, <<w, Now>>) /\ UNCHANGED allowed
    BY <1>5 DEF Prefs!Loaded, Prefs!ToSave, Now
  <2> DEFINE m == [write[w] EXCEPT !.stage = "saves"]
  <2>2. m \in Prefs!Mutations /\ m.stage = "saves"
    BY <1>1 DEF Prefs!Mutations
  <2>3. write' = [write EXCEPT ![w] = m]
    BY <2>1
  <2> HIDE DEF m
  <2>4. /\ write' \in [Writes -> Prefs!Mutations \cup {None}] /\ write'[w] = m /\ m # None
        /\ \A v \in Writes \ {w} : write'[v] = write[v]
    BY <1>0, <2>2, <2>3, PrefConstants DEF PrefTypes
  <2>5. <<w, Now>> \in Writes \X Wholes /\ saves \in Seq(Writes \X Wholes) /\ Len(saves) \in Nat
    BY <1>0, NowIsWhole DEF PrefTypes
  <2>6. /\ saves' \in Seq(Writes \X Wholes) /\ saves' # <<>> /\ Len(saves') = Len(saves) + 1
        /\ \A i \in 1..Len(saves) : saves'[i] = saves[i]
        /\ saves'[Len(saves) + 1] = <<w, Now>>
    BY <2>1, <2>5, AppendProperties
  <2>7. \A i \in 1..Len(saves') : i \in 1..Len(saves) \/ i = Len(saves) + 1
    BY <2>5, <2>6
  <2>8. PrefTypes'
    BY <1>0, <1>1, <2>1, <2>4, <2>6 DEF PrefTypes
  <2>9. SavesAreWrites'
    <3>1. ASSUME NEW i \in 1..Len(saves')
          PROVE  write'[saves'[i][1]] # None /\ write'[saves'[i][1]].stage = "saves"
      <4>1. CASE i \in 1..Len(saves)
        BY <1>0, <1>3, <2>4, <2>6, <4>1 DEF SavesAreWrites
      <4>2. CASE i = Len(saves) + 1
        BY <2>2, <2>4, <2>6, <4>2
      <4> QED BY <2>7, <4>1, <4>2
    <3>2. ASSUME NEW i \in 1..Len(saves'), NEW j \in 1..Len(saves'), saves'[i][1] = saves'[j][1]
          PROVE  i = j
      <4>1. saves'[Len(saves) + 1][1] = w
        BY <2>6
      <4>2. CASE i \in 1..Len(saves) /\ j \in 1..Len(saves)
        BY <1>0, <2>6, <3>2, <4>2 DEF SavesAreWrites
      <4>3. CASE i = Len(saves) + 1 \/ j = Len(saves) + 1
        BY <1>3, <2>6, <2>7, <3>2, <4>1, <4>3
      <4> QED BY <2>7, <4>2, <4>3
    <3> QED BY <3>1, <3>2 DEF SavesAreWrites
  <2>10. GoesLast'
    BY <1>2, <2>6 DEF GoesLast
  <2> QED BY <1>0, <1>1, <1>2, <2>8, <2>9, <2>10 DEF PrefInv
<1> QED BY <1>4, <1>5

LEMMA WrittenKeeps == ASSUME PrefInv, Prefs!Written PROVE PrefInv'
<1>0. /\ PrefTypes /\ SavesAreWrites /\ wanted = Now
      /\ allowed \/ Compares \/ GoesLast \/ IsThere
  BY DEF PrefInv
<1>1. /\ saves # <<>> /\ saves' = Tail(saves)
      /\ write' = [write EXCEPT ![Head(saves)[1]] = None]
      /\ UNCHANGED <<settings, arrays, wanted>>
  BY DEF Prefs!Written
<1>2. Now' = Now
  BY <1>1 DEF Now, Prefs!Contents
<1>3. /\ saves \in Seq(Writes \X Wholes) /\ Len(saves) \in Nat \ {0} /\ Head(saves) = saves[1]
      /\ \A i \in 1..Len(saves) : saves[i] \in Writes \X Wholes
  BY <1>0, <1>1, ElementOfSeq DEF PrefTypes
<1> DEFINE w == saves[1][1]
<1>4. w \in Writes /\ saves[1][2] \in Wholes /\ write[w] # None /\ write[w].stage = "saves"
  BY <1>0, <1>3 DEF SavesAreWrites
<1>5. /\ saves' \in Seq(Writes \X Wholes) /\ Len(saves') = Len(saves) - 1
      /\ \A i \in 1..Len(saves') : i + 1 \in 1..Len(saves) /\ saves'[i] = saves[i + 1]
  BY <1>1, <1>3, HeadTailProperties
<1>6. \A i \in 1..Len(saves') : saves'[i][1] \in Writes \ {w}
  <2> SUFFICES ASSUME NEW i \in 1..Len(saves') PROVE saves[i + 1][1] \in Writes \ {w}
    BY <1>5
  <2>1. i + 1 \in 1..Len(saves) /\ 1 \in 1..Len(saves) /\ i + 1 # 1
    BY <1>3, <1>5
  <2> QED BY <1>0, <1>3, <2>1 DEF SavesAreWrites
<1>7. write' = [write EXCEPT ![w] = None]
  BY <1>1, <1>3
<1> HIDE DEF w
<1>8. /\ write' \in [Writes -> Prefs!Mutations \cup {None}]
      /\ \A v \in Writes \ {w} : write'[v] = write[v]
  BY <1>0, <1>7 DEF PrefTypes
<1>9. \/ /\ file' = saves[1][2]
         /\ allowed' = (allowed /\ (saves' # <<>> \/ file' # Now'))
      \/ UNCHANGED file /\ allowed' = TRUE
  BY <1>2, <1>3 DEF Prefs!Written, Now
<1>10. PrefTypes'
  BY <1>0, <1>1, <1>4, <1>5, <1>8, <1>9 DEF PrefTypes
<1>11. SavesAreWrites'
  <2>1. \A i \in 1..Len(saves') : write'[saves'[i][1]] # None /\ write'[saves'[i][1]].stage = "saves"
    BY <1>0, <1>5, <1>6, <1>8 DEF SavesAreWrites
  <2>2. \A i, j \in 1..Len(saves') : saves'[i][1] = saves'[j][1] => i = j
    <3> SUFFICES ASSUME NEW i \in 1..Len(saves'), NEW j \in 1..Len(saves'),
                        saves[i + 1][1] = saves[j + 1][1]
                 PROVE  i = j
      BY <1>5
    <3>1. i + 1 = j + 1
      BY <1>0, <1>5 DEF SavesAreWrites
    <3> QED BY <1>3, <1>5, <3>1
  <2> QED BY <2>1, <2>2 DEF SavesAreWrites
<1>12. allowed' \/ Compares' \/ GoesLast' \/ IsThere'
  <2> SUFFICES ASSUME ~allowed' PROVE Compares' \/ GoesLast' \/ IsThere'
    OBVIOUS
  <2>1. file' = saves[1][2] /\ (~allowed \/ (saves' = <<>> /\ file' = Now'))
    BY <1>9
  <2>2. CASE saves' = <<>> /\ file' = Now'
    BY <2>2 DEF IsThere
  <2>3. CASE ~allowed /\ Compares
    <3>1. PICK v \in Writes : Loads(v)
      BY <2>3 DEF Compares
    <3>2. v # w
      BY <1>4, <3>1 DEF Loads
    <3>3. Loads(v)'
      BY <1>1, <1>2, <1>8, <3>1, <3>2 DEF Loads, Prefs!Contents
    <3> QED BY <3>3 DEF Compares
  <2>4. CASE ~allowed /\ GoesLast
    <3>1. CASE Len(saves) = 1
      <4>1. saves' = <<>>
        BY <1>5, <3>1, EmptySeq
      <4> QED BY <1>2, <2>1, <2>4, <3>1, <4>1 DEF GoesLast, IsThere
    <3>2. CASE Len(saves) # 1
      <4>1. Len(saves') \in 1..Len(saves') /\ Len(saves') + 1 = Len(saves)
        BY <1>3, <1>5, <3>2
      <4>2. saves'[Len(saves')] = saves[Len(saves)]
        BY <1>5, <4>1
      <4>3. saves' # <<>>
        BY <1>5, <4>1, EmptySeq
      <4> QED BY <1>2, <2>4, <4>2, <4>3 DEF GoesLast
    <3> QED BY <3>1, <3>2
  <2> QED BY <1>0, <1>1, <2>1, <2>2, <2>3, <2>4 DEF IsThere
<1> QED BY <1>0, <1>1, <1>2, <1>10, <1>11, <1>12 DEF PrefInv

LEMMA StartKeeps == ASSUME PrefInv, Prefs!Restart PROVE PrefInv'
<1>1. /\ arrays' = <<file.items>> /\ settings' = [field |-> file.field, array |-> 1]
      /\ write' = [w \in Writes |-> None] /\ saves' = <<>> /\ wanted' = file
      /\ allowed' = FALSE /\ file' = file /\ file \in Wholes
  BY DEF Prefs!Restart, PrefInv, PrefTypes
<1>2. /\ file = [field |-> file.field, items |-> file.items]
      /\ file.field \in Values /\ file.items \in Items
  BY <1>1 DEF Wholes
<1>3. Now' = file
  BY <1>1, <1>2 DEF Now, Prefs!Contents
<1>4. PrefTypes'
  <2>1. arrays' \in Seq(Items) /\ Len(arrays') = 1
    BY <1>1, <1>2
  <2>2. settings' \in Prefs!Objects /\ settings'.array = 1
    BY <1>1, <1>2 DEF Prefs!Objects
  <2>3. write' \in [Writes -> Prefs!Mutations \cup {None}] /\ saves' \in Seq(Writes \X Wholes)
    <3>1. saves' \in Seq(Writes \X Wholes)
      BY <1>1
    <3>2. write' \in [Writes -> Prefs!Mutations \cup {None}]
      BY <1>1
    <3> QED BY <3>1, <3>2
  <2>4. settings'.array \in 1..Len(arrays') /\ file' \in Wholes /\ allowed' \in BOOLEAN
    <3>1. 1 \in 1..Len(arrays')
      BY <2>1
    <3>2. allowed' \in BOOLEAN
      BY <1>1
    <3> QED BY <1>1, <2>2, <3>1, <3>2
  <2> QED BY <2>1, <2>2, <2>3, <2>4 DEF PrefTypes
<1> QED BY <1>1, <1>3, <1>4 DEF PrefInv, SavesAreWrites, IsThere

LEMMA PrefInvInit == ASSUME Prefs!Init PROVE PrefInv
<1>1. PICK v \in Values, items \in Items :
        /\ file = [field |-> v, items |-> items] /\ wanted = file
        /\ settings = [field |-> v, array |-> 1] /\ arrays = <<items>>
  BY DEF Prefs!Init, Items
<1>2. write = [w \in Writes |-> None] /\ saves = <<>> /\ allowed = FALSE
  BY DEF Prefs!Init
<1>3. Now = file
  BY <1>1 DEF Now, Prefs!Contents
<1>4. PrefTypes
  <2>1. arrays \in Seq(Items) /\ Len(arrays) = 1
    BY <1>1
  <2>2. settings \in Prefs!Objects /\ settings.array = 1 /\ file \in Wholes
    BY <1>1 DEF Prefs!Objects, Wholes
  <2>3. write \in [Writes -> Prefs!Mutations \cup {None}] /\ saves \in Seq(Writes \X Wholes)
    <3>1. saves \in Seq(Writes \X Wholes)
      BY <1>2
    <3>2. write \in [Writes -> Prefs!Mutations \cup {None}]
      BY <1>2
    <3> QED BY <3>1, <3>2
  <2>4. settings.array \in 1..Len(arrays) /\ allowed \in BOOLEAN
    <3>1. 1 \in 1..Len(arrays)
      BY <2>1
    <3>2. allowed \in BOOLEAN
      BY <1>2
    <3> QED BY <2>2, <3>1, <3>2
  <2> QED BY <2>1, <2>2, <2>3, <2>4 DEF PrefTypes
<1> QED BY <1>1, <1>2, <1>3, <1>4 DEF PrefInv, SavesAreWrites, IsThere

LEMMA PrefInvKept == ASSUME PrefInv, Prefs!Next \/ UNCHANGED configured PROVE PrefInv'
<1>1. CASE UNCHANGED configured
  <2>1. Now' = Now
    BY <1>1 DEF configured, Now, Prefs!Contents
  <2>2. PrefTypes' /\ SavesAreWrites' /\ (GoesLast => GoesLast') /\ (IsThere => IsThere')
    BY <1>1, <2>1 DEF PrefInv, PrefTypes, SavesAreWrites, GoesLast, IsThere, configured
  <2>3. Compares => Compares'
    BY <1>1, <2>1 DEF Compares, Loads, configured, Prefs!Contents
  <2> QED BY <1>1, <2>1, <2>2, <2>3 DEF PrefInv, configured
<1> QED BY <1>1, WriteFieldKeeps, WriteItemKeeps, RemoveItemKeeps, LoadedKeeps, WrittenKeeps,
           StartKeeps DEF Prefs!Next

(***************************************************************************)
(* For any shares, values and number of writes under way at a time, the    *)
(* file holds the last value of every setting when none is under way, but  *)
(* for a failed write and one that compared with a file about to change.   *)
(***************************************************************************)
THEOREM LastWriteIsKept == MCSpec => []SettledIsLatest
<1> DEFINE Inv == part = "settings" => PrefInv
<1>1. MCInit => Inv
  BY PrefInvInit DEF MCInit
<1>2. Inv /\ [MCNext]_<<vars, part, kept, configured>> => Inv'
  <2> SUFFICES ASSUME Inv, [MCNext]_<<vars, part, kept, configured>>, part' = "settings"
               PROVE  PrefInv'
    OBVIOUS
  <2>1. part = "settings"
    BY DEF MCNext
  <2>2. Prefs!Next \/ UNCHANGED configured
    BY <2>1 DEF MCNext
  <2> QED BY <2>1, <2>2, PrefInvKept
<1>3. Inv => SettledIsLatest
  <2> SUFFICES ASSUME PrefInv, \A w \in Writes : write[w] = None, ~allowed PROVE file = wanted
    BY DEF SettledIsLatest, Prefs!SettledIsLatest
  <2>1. ~Compares
    BY DEF Compares, Loads
  <2>2. saves = <<>>
    <3> SUFFICES ASSUME saves # <<>> PROVE FALSE
      OBVIOUS
    <3>1. saves \in Seq(Writes \X Wholes)
      BY DEF PrefInv, PrefTypes
    <3>2. 1 \in 1..Len(saves)
      BY <3>1, EmptySeq
    <3>3. saves[1] \in Writes \X Wholes
      BY <3>1, <3>2, ElementOfSeq
    <3> QED BY <3>2, <3>3 DEF PrefInv, SavesAreWrites
  <2> QED BY <2>1, <2>2 DEF PrefInv, GoesLast, IsThere
<1> QED BY <1>1, <1>2, <1>3, PTL DEF MCSpec
=============================================================================
