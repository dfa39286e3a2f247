------------------------------- MODULE Claims -------------------------------
(***************************************************************************)
(* The claims by which the clients of a share agree, without a server,     *)
(* which one of them writes.  Each is an entry of a Y.Map that the clients *)
(* replicate; a client sets it, waits until it has been quiet for a while  *)
(* and then looks whose it is.  Two uses, of which kind is one:            *)
(*   "init"      initContentClaim.ts: who inserts the file's text into an  *)
(*               empty document (TransferQueue.ts and LiveEditPlugin.ts)   *)
(*   "reconcile" reconcileClaim.ts: who applies its own unsynced edit to   *)
(*               a text the others may be editing too (TransferQueue.ts)   *)
(*                                                                         *)
(* Time passes in ticks.  An update waits in its writer's socket buffer    *)
(* for at most MaxFlush of them and needs at most MaxDelay from there to   *)
(* each of the others; the relay, which forwards it, keeps it.             *)
(***************************************************************************)
EXTENDS Integers, FiniteSets, SequencesExt

CONSTANTS
  Clients,   \* client ids: Yjs orders concurrent writers by them
  Kinds,     \* the uses to check
  MaxTries,  \* how often a client takes part
  MaxFlush,  \* ticks an update may wait in the socket's buffer
  MaxDelay,  \* ticks from there to another client
  Quiet,     \* quietMs
  MaxWait,   \* maxWaitMs
  MaxDeaths  \* how many clients may go away

ASSUME ClaimsAssumption ==
  /\ Clients \subseteq Nat /\ IsFiniteSet(Clients)
  /\ Kinds \subseteq {"init", "reconcile"}
  /\ {MaxTries, MaxFlush, MaxDelay, Quiet, MaxWait, MaxDeaths} \subseteq Nat

(***************************************************************************)
(* What the code trusts quietMs (300 ms by default) and maxWaitMs (3000)   *)
(* to give and does not check: the quiet period outlasts a claim that was  *)
(* on its way to another client, and one set just before it came there; an *)
(* attempt outlasts what both wait in the buffers as well.  With one tick  *)
(* less in either place two writers are possible.                          *)
(***************************************************************************)
ASSUME ClaimsTiming ==
  /\ Quiet > MaxFlush + 2 * MaxDelay
  /\ MaxWait > 2 * (MaxFlush + MaxDelay)

VARIABLES
  kind,
  alive,     \* clients whose session goes on
  replica,   \* [Clients -> what has reached the client: claims and writes]
  relay,     \* what has reached the relay
  aware,     \* [Clients -> the clients its awareness knows]
  attempt,   \* [Clients -> where its attempt is, and what it has captured]
  tries,     \* [Clients -> how many attempts it has begun]
  unsentFor, \* [Clients -> ticks for which its buffer has not been empty]
  behindFor, \* [Clients -> ticks for which the relay has had something for it]
  saw,       \* history: [writes made -> the writes its writer knew]
  fast       \* history: the writes made without a conflict copy

netVars == <<replica, relay, unsentFor, behindFor>>
historyVars == <<saw, fast>>
vars == <<kind, alive, netVars, aware, attempt, tries, historyVars>>

-----------------------------------------------------------------------------
(* The Y.Map entry.  A claim is the sequence of the clients whose claims   *)
(* it was set over, the claimant last; set is the item's left origin.      *)

Nothing == [claims |-> {}, writes |-> {}]
Merged(r, s) == [claims |-> r.claims \cup s.claims, writes |-> r.writes \cup s.writes]

\* Yjs: a claim set over another one wins; of two concurrent ones the higher id.
Beats(p, q) ==
  \/ IsStrictPrefix(q, p)
  \/ \E i \in DOMAIN p \cap DOMAIN q :
       p[i] > q[i] /\ \A j \in 1..(i - 1) : p[j] = q[j]

Entry(claims) ==
  IF claims = {} THEN <<>>
  ELSE CHOOSE p \in claims : \A q \in claims \ {p} : Beats(p, q)

Unclaimed(c) == replica[c].claims = {}
Claimant(c) == Last(Entry(replica[c].claims))
Mine(c) == ~Unclaimed(c) /\ Claimant(c) = c

\* isClaimStale, with awareness at hand: the time to live is not looked at.
Stale(c) == Claimant(c) \notin aware[c]

-----------------------------------------------------------------------------
(* An attempt *)

Idle == [pc |-> "idle", since |-> 0, waited |-> 0, base |-> {}, alone |-> FALSE]

At(c, place) == c \in alive /\ attempt[c].pc = place
Goes(c, place) == attempt' = [attempt EXCEPT ![c].pc = place]
Ends(c) == attempt' = [attempt EXCEPT ![c] = Idle]

ThisWrite(c) == <<c, tries[c]>>
Writes == Clients \X (1..MaxTries)

Unsent(c) == Merged(relay, replica[c]) # relay
Behind(c) == Merged(replica[c], relay) # replica[c]

\* Nobody else is left, and the client knows all there is to know of them.
Alone(c) == alive = {c} /\ aware[c] = {c} /\ ~Behind(c)

\* Faulty: an entry is never taken over.
SetsClaim_NoTakeover(c) == kind = "reconcile" \/ Unclaimed(c)

\* Who sets the entry: the reconcile claim is taken afresh each time.
SetsClaim(c) == kind = "reconcile" \/ Unclaimed(c) \/ Stale(c)

(***************************************************************************)
(* claimInitIfUnclaimed, claimReconcile.  The first is called only while   *)
(* the client knows of no text ("initDone" is set in the turn that inserts *)
(* it).                                                                    *)
(***************************************************************************)
Claim(c) ==
  /\ At(c, "idle") /\ tries[c] < MaxTries
  /\ kind = "init" => replica[c].writes = {}
  /\ tries' = [tries EXCEPT ![c] = @ + 1]
  /\ attempt' = [attempt EXCEPT ![c] =
                   [Idle EXCEPT !.pc = "flushing", !.base = replica[c].writes,
                                !.alone = Alone(c)]]
  /\ replica' = [replica EXCEPT ![c].claims =
                   IF SetsClaim(c) THEN @ \cup {Append(Entry(@), c)} ELSE @]
  /\ UNCHANGED <<kind, alive, relay, unsentFor, behindFor, aware, saw, fast>>

Waiting(c) == At(c, "flushing") \/ At(c, "settling")
OutOfTime(c) == attempt[c].waited >= MaxWait

\* waitForBufferFlush, with what is left of maxWaitMs.
Flushed(c) ==
  /\ At(c, "flushing")
  /\ ~Unsent(c) \/ OutOfTime(c)
  /\ Goes(c, "settling")
  /\ UNCHANGED <<kind, alive, netVars, aware, tries, historyVars>>

Settles(c) == At(c, "settling") /\ (attempt[c].since >= Quiet \/ OutOfTime(c))

\* The client's write, next to what it knows; not every write is a fast one.
Write(c, isFast) ==
  /\ replica' = [replica EXCEPT ![c].writes = @ \cup {ThisWrite(c)}]
  /\ saw' = [saw EXCEPT ![ThisWrite(c)] = replica[c].writes]
  /\ fast' = IF isFast THEN fast \cup {ThisWrite(c)} ELSE fast
WritesNothing == UNCHANGED <<replica, saw, fast>>

\* "init": the file is read once more before the claim is looked at.
SettledInit(c) ==
  /\ kind = "init" /\ Settles(c)
  /\ Goes(c, "reading")
  /\ UNCHANGED <<kind, alive, netVars, aware, tries, historyVars>>

\* Faulty: what arrived while the file was read is not looked at.
MayInsert_Blind(c) == Mine(c)

\* wonInitClaim, and the insert in the same turn.
MayInsert(c) == Mine(c) /\ replica[c].writes = {}

DecideInit(c) ==
  /\ At(c, "reading")
  /\ IF MayInsert(c) THEN Write(c, TRUE) ELSE WritesNothing
  /\ Ends(c)
  /\ UNCHANGED <<kind, alive, relay, unsentFor, behindFor, aware, tries>>

\* "reconcile": the winner, if the text is still its base, applies its edit.
MayApply(c) == Mine(c) /\ replica[c].writes = attempt[c].base

SettledReconcile(c) ==
  /\ kind = "reconcile" /\ Settles(c)
  /\ IF MayApply(c) THEN Write(c, TRUE) /\ Ends(c)
     ELSE WritesNothing /\ Goes(c, "copying")
  /\ UNCHANGED <<kind, alive, relay, unsentFor, behindFor, aware, tries>>

\* The caller waits no longer than it must: a claim not settled in time is lost.
SettleTimesOut(c) ==
  /\ kind = "reconcile" /\ Waiting(c) /\ OutOfTime(c)
  /\ Goes(c, "copying")
  /\ UNCHANGED <<kind, alive, netVars, aware, tries, historyVars>>

\* The others copy the text they know, and then make it their file's as well.
CopyWritten(c) ==
  /\ At(c, "copying")
  /\ Write(c, FALSE)
  /\ Ends(c)
  /\ UNCHANGED <<kind, alive, relay, unsentFor, behindFor, aware, tries>>

-----------------------------------------------------------------------------
(* The network, time and the other sessions *)

\* What the client has written has left its buffer.
Push(c) ==
  /\ c \in alive /\ Unsent(c)
  /\ relay' = Merged(relay, replica[c])
  /\ unsentFor' = [unsentFor EXCEPT ![c] = 0]
  /\ UNCHANGED <<kind, alive, replica, behindFor, aware, attempt, tries, historyVars>>

\* Any claim that arrives, a losing one too, starts the quiet period anew.
Receive(c) ==
  /\ c \in alive /\ Behind(c)
  /\ replica' = [replica EXCEPT ![c] = Merged(@, relay)]
  /\ behindFor' = [behindFor EXCEPT ![c] = 0]
  /\ attempt' = IF At(c, "settling") /\ ~(relay.claims \subseteq replica[c].claims)
                THEN [attempt EXCEPT ![c].since = 0] ELSE attempt
  /\ UNCHANGED <<kind, alive, relay, unsentFor, aware, tries, historyVars>>

Later(n, bound) == IF n < bound THEN n + 1 ELSE n

Aged(c) ==
  [attempt[c] EXCEPT !.since = IF At(c, "settling") THEN Later(@, Quiet) ELSE 0,
                     !.waited = IF Waiting(c) THEN Later(@, MaxWait) ELSE 0]

Tick ==
  /\ \A c \in alive : /\ Unsent(c) => unsentFor[c] < MaxFlush
                      /\ Behind(c) => behindFor[c] < MaxDelay
  /\ unsentFor' = [c \in Clients |->
                     IF c \in alive /\ Unsent(c) THEN unsentFor[c] + 1 ELSE 0]
  /\ behindFor' = [c \in Clients |->
                     IF c \in alive /\ Behind(c) THEN behindFor[c] + 1 ELSE 0]
  /\ attempt' = [c \in Clients |-> Aged(c)]
  /\ UNCHANGED <<kind, alive, replica, relay, aware, tries, historyVars>>

\* A session ends; a later one of the same user has another client id.
Die(c) ==
  /\ c \in alive
  /\ Cardinality(Clients \ alive) < MaxDeaths
  /\ alive' = alive \ {c}
  /\ Ends(c)
  /\ UNCHANGED <<kind, netVars, aware, tries, historyVars>>

\* Awareness comes and goes on its own channel, however late.
AwarenessArrives(c, d) ==
  /\ c \in alive /\ d \in alive \ aware[c]
  /\ aware' = [aware EXCEPT ![c] = @ \cup {d}]
  /\ UNCHANGED <<kind, alive, netVars, attempt, tries, historyVars>>

AwarenessGone(c, d) ==
  /\ c \in alive /\ d \in aware[c] \ alive
  /\ aware' = [aware EXCEPT ![c] = @ \ {d}]
  /\ UNCHANGED <<kind, alive, netVars, attempt, tries, historyVars>>

-----------------------------------------------------------------------------
Init ==
  /\ kind \in Kinds
  /\ alive = Clients
  /\ replica = [c \in Clients |-> Nothing]
  /\ relay = Nothing
  /\ aware \in {[c \in Clients |-> {c}], [c \in Clients |-> Clients]}
  /\ attempt = [c \in Clients |-> Idle]
  /\ tries = [c \in Clients |-> 0]
  /\ unsentFor = [c \in Clients |-> 0]
  /\ behindFor = [c \in Clients |-> 0]
  /\ saw = [w \in Writes |-> {}]
  /\ fast = {}

Next ==
  \/ \E c \in Clients :
       \/ Claim(c) \/ Flushed(c)
       \/ SettledInit(c) \/ DecideInit(c)
       \/ SettledReconcile(c) \/ SettleTimesOut(c) \/ CopyWritten(c)
       \/ Push(c) \/ Receive(c) \/ Die(c)
       \/ \E d \in Clients : AwarenessArrives(c, d) \/ AwarenessGone(c, d)
  \/ Tick

Spec == Init /\ [][Next]_vars

-----------------------------------------------------------------------------
(* Properties *)

\* Neither write was made with the other one at hand: Yjs keeps both texts.
Concurrent(v, w) == v # w /\ v \notin saw[w] /\ w \notin saw[v]

(***************************************************************************)
(* The claims do what they are for, whoever dies when and however late     *)
(* awareness is: an empty document is seeded once (TR-15), and of two      *)
(* clients that apply an edit without a copy one knew the other's          *)
(* (#3f81b101).  Nothing is said of a write that never left the machine of *)
(* a session that ended.                                                   *)
(***************************************************************************)
OneWriter ==
  \A v, w \in fast \cap relay.writes :
    v # w => kind = "reconcile" /\ ~Concurrent(v, w)

(***************************************************************************)
(* No document is left unseeded by claimants that died: the last client,   *)
(* once it has heard of their end and of all they had done, has the text   *)
(* at the end of its next attempt.                                         *)
(***************************************************************************)
DeadClaimsAreReplaced ==
  [][\A c \in Clients :
       (attempt[c].alone /\ kind = "init" /\ c \in alive' /\ attempt'[c] = Idle)
         => replica'[c].writes # {}]_vars
=============================================================================
