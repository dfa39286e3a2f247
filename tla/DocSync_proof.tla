--------------------------- MODULE DocSync_proof ---------------------------
(***************************************************************************)
(* Proofs about one document without an editor, for any passages, any      *)
(* number of retries and any choice of events: no text that was typed is   *)
(* lost, and the sync base never names text this client has not shown.     *)
(***************************************************************************)
EXTENDS DocSync, TLAPS

Texts == SUBSET Passages
Places ==
  {"idle", "connecting", "syncing", "comparing", "seeding", "choosing", "settling", "copying",
   "flushing", "leaving", "writing", "retrying", "reading", "deciding", "rebasing"}
\* Places at which a task holds nothing.
Resting == {"idle", "connecting", "syncing", "comparing", "retrying", "reading"}

States == [pc : Places, owner : BOOLEAN, vault : Texts, synced : Texts]

TextsTyped ==
  /\ file \in Texts /\ ydoc \in Texts /\ relay \in Texts /\ unreceived \in Texts
  /\ copied \in Texts /\ typed \in Texts /\ base \subseteq Texts

TypeOK == TextsTyped /\ task \in [Tasks -> States] /\ wanted \in BOOLEAN

-----------------------------------------------------------------------------
(* What holds outside the windows.                                         *)

\* A flow that has compared is alone until it has dropped the connection.
OneReconcile == ~(Busy("upload") /\ Busy("fetch"))
PullAlone == Pulling => \A f \in Flows : ~Reconciling(f)

\* What is in the relay alone is still to be received.
TypedKept == typed \subseteq file \cup ydoc \cup unreceived \cup copied
UnreceivedInRelay == unreceived \subseteq relay

\* The base may be discarded from the file, and from the Y.Doc.
BaseKept == \A b \in base : b \subseteq ydoc \cup copied
BaseShown == file # {} => \A b \in base : b \subseteq file \cup copied

\* A fetch finds no file that the empty Y.Doc could replace.
FetchHasText == ("fetch" \in queued \/ ~At("fetch", "idle")) => file = {} \/ ydoc # {}

\* What a flow read is in the file as long as it acts on it.
VaultShown(f) ==
  task[f].pc \in {"choosing", "settling", "copying"} =>
    /\ task[f].vault # {} /\ task[f].vault \subseteq file
    /\ \A b \in base : b \subseteq task[f].vault \cup copied

ReconcileOK(f) ==
  /\ At(f, "seeding") => ydoc = {}
  /\ At(f, "settling") => base = Agreed(task[f].synced)
  /\ At(f, "copying") => task[f].synced = ydoc
  /\ At(f, "flushing") => ydoc \subseteq file

\* Nobody writes to the file while a fetch is to write it.
FetchCovers ==
  /\ task["fetch"].pc \in {"choosing", "settling", "copying"} => file \subseteq task["fetch"].vault
  /\ task["fetch"].pc \in {"flushing", "leaving", "writing"} => file \subseteq ydoc \cup copied

\* From a pull's reading to its writing.
PullReadLast ==
  Pulling => /\ task["pull"].synced \subseteq ydoc
             /\ \A b \in base : b \subseteq task["pull"].synced \cup copied

PullCovers ==
  /\ task["pull"].pc \in {"deciding", "copying"} => file \subseteq task["pull"].vault \cup ydoc
  /\ At("pull", "writing") => file \subseteq ydoc \cup copied
  /\ At("pull", "rebasing") => task["pull"].synced \subseteq file

Safe ==
  /\ OneReconcile /\ PullAlone
  /\ TypedKept /\ UnreceivedInRelay
  /\ BaseKept /\ BaseShown
  /\ FetchHasText
  /\ \A f \in Flows : VaultShown(f) /\ ReconcileOK(f)
  /\ FetchCovers /\ PullReadLast /\ PullCovers

DocInv == TypeOK /\ (windows = {} => Safe)

-----------------------------------------------------------------------------
(* Types.                                                                  *)

\* The task t alone is moved, and is then well-formed.
Moves(t) == \E s \in States : task' = [task EXCEPT ![t] = s]

LEMMA GoesMoves ==
  ASSUME TypeOK, NEW t \in Tasks, NEW p \in Places, Goes(t, p)
  PROVE  Moves(t)
<1>1. task[t] \in States
  BY DEF TypeOK
<1>2. [task[t] EXCEPT !.pc = p] \in States
  BY <1>1 DEF States
<1>. QED
  BY <1>2 DEF Goes, Moves

LEMMA IdleIsState == Idle \in States
BY DEF Idle, States, Places, Texts

LEMMA EndsMoves ==
  ASSUME NEW t \in Tasks, Ends(t) \/ Flushes(t), TypeOK
  PROVE  Moves(t)
<1>1. CASE Ends(t)
  BY <1>1, IdleIsState DEF Ends, Moves
<1>2. CASE Flushes(t)
  <2>1. [Idle EXCEPT !.pc = "flushing", !.owner = task[t].owner] \in States
    BY DEF Idle, States, Places, Texts, TypeOK
  <2>. QED
    BY <1>2, <2>1 DEF Flushes, Moves
<1>. QED
  BY <1>1, <1>2

LEMMA StartMoves ==
  ASSUME TypeOK, NEW t \in Tasks, NEW v \in Texts,
         \/ task' = [task EXCEPT ![t] = [Idle EXCEPT !.pc = "connecting", !.owner = ~wanted]]
         \/ task' = [task EXCEPT ![t] = [Idle EXCEPT !.pc = "connecting", !.owner = ~wanted,
                                                     !.vault = v]]
  PROVE  Moves(t)
<1>1. /\ [Idle EXCEPT !.pc = "connecting", !.owner = ~wanted] \in States
      /\ [Idle EXCEPT !.pc = "connecting", !.owner = ~wanted, !.vault = v] \in States
  BY DEF Idle, States, Places, Texts
<1>. QED
  BY <1>1 DEF Moves

LEMMA UploadMoves ==
  ASSUME TypeOK, NEW f \in Flows, UploadSteps(f)
  PROVE  Moves(f)
<1>1. f \in Tasks /\ task[f] \in States /\ {} \in Texts
  BY DEF Tasks, TypeOK, Texts
<1>2. Resting \subseteq Places /\ {"seeding", "settling", "leaving", "writing"} \subseteq Places
  BY DEF Resting, Places
<1>3. CASE Begin(f)
  BY <1>1, <1>3, StartMoves DEF Begin
<1>4. CASE Connected(f) \/ ConnectFails(f) \/ SyncOk(f) \/ SyncTimeout(f)
  <2>1. (\E p \in Resting : Goes(f, p)) \/ Ends(f)
    BY <1>4 DEF Connected, ConnectFails, SyncOk, SyncTimeout, GivesUp, Resting
  <2>. QED
    BY <1>1, <1>2, <2>1, GoesMoves, EndsMoves
<1>5. CASE Compare(f) \/ Flushed(f) \/ Leave(f)
  <2>1. CASE task' = [task EXCEPT ![f].pc = "choosing", ![f].vault = file, ![f].synced = ydoc]
    <3>1. [task[f] EXCEPT !.pc = "choosing", !.vault = file, !.synced = ydoc] \in States
      BY <1>1 DEF States, TypeOK, TextsTyped, Places
    <3>2. task' = [task EXCEPT ![f] = [task[f] EXCEPT !.pc = "choosing", !.vault = file,
                                                      !.synced = ydoc]]
      BY <1>1, <2>1 DEF TypeOK, States
    <3>. QED
      BY <3>1, <3>2 DEF Moves
  <2>2. CASE (\E p \in Places : Goes(f, p)) \/ Ends(f)
    BY <1>1, <2>2, GoesMoves, EndsMoves
  <2>. QED
    BY <1>2, <1>5, <2>1, <2>2 DEF Compare, Flushed, Leave, RecordBase
<1>6. CASE SeedSettled(f) \/ SettleWon(f) \/ CopyDone(f) \/ CopyFails(f)
  BY <1>1, <1>6, EndsMoves DEF SeedSettled, SettleWon, CopyDone, CopyFails
<1>7. CASE Choose(f) \/ SettleLost(f)
  <2>1. CASE task' = [task EXCEPT ![f].pc = "copying", ![f].synced = ydoc]
    <3>1. [task[f] EXCEPT !.pc = "copying", !.synced = ydoc] \in States
      BY <1>1 DEF States, TypeOK, TextsTyped, Places
    <3>. QED
      BY <2>1, <3>1 DEF Moves
  <2>2. CASE Goes(f, "settling") \/ Flushes(f)
    BY <1>1, <1>2, <2>2, GoesMoves, EndsMoves
  <2>. QED
    BY <1>7, <2>1, <2>2 DEF Choose, SettleLost, Preserve
<1>. QED
  BY <1>3, <1>4, <1>5, <1>6, <1>7 DEF UploadSteps

LEMMA PullMoves ==
  ASSUME TypeOK, PullSteps
  PROVE  Moves("pull")
<1>1. "pull" \in Tasks /\ task["pull"] \in States
  BY DEF Tasks, TypeOK
<1>2. CASE PullStarts
  BY <1>1, <1>2, StartMoves DEF PullStarts, TypeOK, TextsTyped
<1>3. CASE PullReads
  <2>1. [task["pull"] EXCEPT !.pc = "deciding", !.synced = ydoc] \in States
    BY <1>1 DEF States, TypeOK, TextsTyped, Places
  <2>. QED
    BY <1>1, <1>3, <2>1, EndsMoves DEF PullReads, Moves
<1>4. CASE ~PullStarts /\ ~PullReads
  <2>1. (\E p \in Places : Goes("pull", p)) \/ Ends("pull")
    BY <1>4 DEF PullSteps, PullConnected, PullConnectFails, PullHasNoBase, PullHandsOver,
      PullDecides, PullCopies, PullThrows, PullWrites, PullRecordsBase, Places
  <2>. QED
    BY <1>1, <2>1, GoesMoves, EndsMoves
<1>. QED
  BY <1>2, <1>3, <1>4

LEMMA TaskTyped ==
  ASSUME TypeOK, Next
  PROVE  task' \in [Tasks -> States]
<1>1. ASSUME NEW t \in Tasks, Moves(t) PROVE task' \in [Tasks -> States]
  BY <1>1 DEF Moves, TypeOK
<1>2. ASSUME NEW f \in Flows, UploadSteps(f) PROVE task' \in [Tasks -> States]
  BY <1>1, <1>2, UploadMoves DEF Tasks
<1>3. CASE FetchSteps
  <2>1. "fetch" \in Tasks /\ {} \in Texts /\ "retrying" \in Places
    BY DEF Tasks, Flows, Texts, Places
  <2>2. CASE RetryFetch
    BY <1>1, <2>1, <2>2, StartMoves DEF RetryFetch
  <2>. QED
    BY <1>1, <1>3, <2>1, <2>2, GoesMoves, EndsMoves DEF FetchSteps, FetchHeldBack, FetchFlush
<1>4. CASE PullSteps
  BY <1>1, <1>4, PullMoves DEF Tasks
<1>5. CASE Restart
  BY <1>5, IdleIsState DEF Restart
<1>6. CASE LinkSteps \/ ModifyEvent \/ SyncCommand
           \/ (\E e \in Local : TypeLocal(e)) \/ (\E e \in Peer : PeerAdds(e))
  BY <1>6 DEF LinkSteps, SocketOpens, SocketDrops, ConnectionError, GateFires, ProviderSynced,
              Receive, Push, TypeLocal, PeerAdds, ModifyEvent, SyncCommand, TypeOK
<1>. QED
  BY <1>2, <1>3, <1>4, <1>5, <1>6 DEF Next

LEMMA TypesKept == TypeOK /\ [Next]_vars => TypeOK'
<1> SUFFICES ASSUME TypeOK, Next PROVE TypeOK'
  BY DEF TypeOK, TextsTyped, vars, textVars, linkVars
<1>1. task' \in [Tasks -> States]
  BY TaskTyped
<1>2. /\ Local \subseteq Passages /\ Peer \subseteq Passages
      /\ \A t \in Tasks : task[t].vault \in Texts /\ task[t].synced \in Texts
  BY DEF Passages, TypeOK, States
<1>3. ASSUME NEW f \in Flows, UploadSteps(f) PROVE TextsTyped'
  <2>1. f \in Tasks
    BY DEF Tasks
  <2>. QED
    BY <1>2, <1>3, <2>1 DEF UploadSteps, Begin, Connected, ConnectFails, SyncOk, SyncTimeout,
      Compare, SeedSettled, Choose, SettleWon, SettleLost, CopyDone, CopyFails, Flushed, Leave,
      Preserve, RecordBase, Agreed, TypeOK, TextsTyped, Texts, textVars
<1>4. ASSUME FetchSteps PROVE TextsTyped'
  BY <1>4 DEF FetchSteps, RetryFetch, FetchHeldBack, FetchFlush, TypeOK, TextsTyped, textVars
<1>5. ASSUME PullSteps PROVE TextsTyped'
  <2>1. task["pull"].vault \in Texts /\ task["pull"].synced \in Texts
    BY <1>2 DEF Tasks
  <2>2. \/ UNCHANGED textVars
        \/ UNCHANGED <<file, ydoc, relay, unreceived, base, typed>>
           /\ copied' = copied \cup task["pull"].vault
        \/ UNCHANGED <<ydoc, relay, unreceived, base, copied, typed>> /\ file' = task["pull"].synced
        \/ UNCHANGED <<file, ydoc, relay, unreceived, copied, typed>>
           /\ base' = {task["pull"].synced}
    BY <1>5 DEF PullSteps, PullStarts, PullConnected, PullConnectFails, PullReads,
      PullHasNoBase, PullHandsOver, PullDecides, PullCopies, PullThrows, PullWrites,
      PullRecordsBase, Agreed
  <2>. QED
    BY <2>1, <2>2 DEF TypeOK, TextsTyped, Texts, textVars
<1>6. ASSUME LinkSteps PROVE TextsTyped'
  BY <1>6 DEF LinkSteps, SocketOpens, SocketDrops, ConnectionError, GateFires, ProviderSynced,
    Receive, Push, TypeOK, TextsTyped, Texts, textVars
<1>7. ASSUME ModifyEvent \/ SyncCommand \/ Restart PROVE TextsTyped'
  BY <1>7 DEF ModifyEvent, SyncCommand, Restart, TypeOK, TextsTyped, textVars
<1>8. ASSUME NEW e \in Passages, TypeLocal(e) \/ PeerAdds(e) PROVE TextsTyped'
  BY <1>8 DEF TypeLocal, PeerAdds, TypeOK, TextsTyped, Texts
<1>9. wanted' \in BOOLEAN
  BY DEF TypeOK, Next, UploadSteps, FetchSteps, PullSteps, LinkSteps, Begin, Connected,
    ConnectFails, SyncOk, SyncTimeout, Compare, SeedSettled, Choose, SettleWon, SettleLost,
    CopyDone, CopyFails, Flushed, Leave, GivesUp, ReleaseLink, KeepLink, GoOffline, RetryFetch,
    FetchHeldBack, FetchFlush, PullStarts, PullConnected, PullConnectFails, PullReads,
    PullHasNoBase, PullHandsOver, PullDecides, PullCopies, PullThrows, PullWrites,
    PullRecordsBase, SocketOpens, SocketDrops, ConnectionError, GateFires, ProviderSynced,
    Receive, Push, TypeLocal, PeerAdds, ModifyEvent, SyncCommand, Restart, linkVars
<1>. QED
  BY <1>1, <1>2, <1>3, <1>4, <1>5, <1>6, <1>7, <1>8, <1>9 DEF Next, TypeOK

-----------------------------------------------------------------------------
(* Steps outside the windows.                                              *)

\* The task stays where it is, or comes to rest.
Rests(t) == task'[t] = task[t] \/ task'[t].pc \in Resting

\* A task that goes to a place keeps what it holds, and the others stay.
LEMMA Placed ==
  ASSUME TypeOK, NEW t \in Tasks, NEW p, Goes(t, p)
  PROVE  /\ task'[t].pc = p /\ \A u \in Tasks \ {t} : task'[u] = task[u]
         /\ task'[t].vault = task[t].vault /\ task'[t].synced = task[t].synced
<1>1. task[t] \in States
  BY DEF TypeOK
<1>. QED
  BY <1>1 DEF Goes, TypeOK, States

LEMMA StartsRest ==
  ASSUME TypeOK, NEW t \in Tasks, NEW v,
         \/ task' = [task EXCEPT ![t] = [Idle EXCEPT !.pc = "connecting", !.owner = ~wanted]]
         \/ task' = [task EXCEPT ![t] = [Idle EXCEPT !.pc = "connecting", !.owner = ~wanted,
                                                     !.vault = v]]
  PROVE  task'[t].pc \in Resting /\ \A u \in Tasks \ {t} : task'[u] = task[u]
BY DEF TypeOK, Idle, Resting

LEMMA EndsRest ==
  ASSUME TypeOK, NEW t \in Tasks, Ends(t)
  PROVE  task'[t].pc \in Resting /\ \A u \in Tasks \ {t} : task'[u] = task[u]
BY DEF TypeOK, Ends, Idle, Resting

LEMMA RestingKeeps ==
  ASSUME TypeOK, TypeOK', Safe, UNCHANGED textVars, \A t \in Tasks : Rests(t), FetchHasText'
  PROVE  Safe'
<1> USE DEF At
<1>1. OneReconcile'
  BY DEF Safe, OneReconcile, Busy, Reconciling, Rests, Resting, Tasks, Flows
<1>2. PullAlone'
  BY DEF Safe, PullAlone, Pulling, Reconciling, Rests, Resting, Tasks, Flows
<1>3. TypedKept' /\ UnreceivedInRelay' /\ BaseKept' /\ BaseShown'
  BY DEF Safe, TypedKept, UnreceivedInRelay, BaseKept, BaseShown, textVars
<1>4. ASSUME NEW f \in Flows PROVE VaultShown(f)' /\ ReconcileOK(f)'
  BY DEF Safe, VaultShown, ReconcileOK, textVars, Rests, Resting, Tasks, Flows
<1>5. FetchCovers'
  BY DEF Safe, FetchCovers, textVars, Rests, Resting, Tasks, Flows
<1>6. PullReadLast' /\ PullCovers'
  BY DEF Safe, PullReadLast, PullCovers, Pulling, textVars, Rests, Resting, Tasks, Flows
<1>. QED
  BY <1>1, <1>2, <1>3, <1>4, <1>5, <1>6 DEF Safe

LEMMA CompareKeeps ==
  ASSUME TypeOK, TypeOK', Safe, NEW f \in Flows, Compare(f), windows' = {}
  PROVE  Safe'
<1> USE DEF At
<1>1. /\ \A t \in Tasks \ {f} : task'[t] = task[t]
      /\ task[f].pc = "comparing" /\ f \in Tasks /\ f # "pull"
      /\ UNCHANGED <<file, ydoc, relay, unreceived, copied, typed, queued>>
  BY DEF Compare, RecordBase, Goes, TypeOK, Tasks, Flows, laneVars
<1>2. /\ ~Pulling /\ \A g \in Flows \ {f} : ~Busy(g)
  BY DEF Compare, Falls, If
<1>3. \/ (file = {} \/ file = ydoc) /\ task'[f].pc = "leaving" /\ base' = {ydoc}
      \/ /\ file # {} /\ ydoc = {} /\ task'[f].pc = "seeding" /\ base' = base
      \/ /\ file # {} /\ task'[f].pc = "choosing" /\ task'[f].vault = file /\ base' = base
  <2>1. task[f] \in States
    BY <1>1 DEF TypeOK
  <2>2. CASE (file = {} \/ file = ydoc) /\ RecordBase(f)
    BY <1>1, <2>2, Placed DEF RecordBase, Agreed
  <2>3. CASE file # {} /\ ydoc = {} /\ Goes(f, "seeding") /\ UNCHANGED base
    BY <1>1, <2>3, Placed
  <2>4. CASE /\ file # {} /\ UNCHANGED base
             /\ task' = [task EXCEPT ![f].pc = "choosing", ![f].vault = file, ![f].synced = ydoc]
    BY <1>1, <2>1, <2>4 DEF TypeOK, States
  <2>. QED
    BY <2>2, <2>3, <2>4 DEF Compare
<1> HIDE DEF Compare
<1>4. OneReconcile' /\ PullAlone'
  BY <1>1, <1>2 DEF OneReconcile, PullAlone, Pulling, Busy, Reconciling, Tasks, Flows
<1>5. TypedKept' /\ UnreceivedInRelay' /\ BaseKept' /\ BaseShown' /\ FetchHasText'
  BY <1>1, <1>3 DEF Safe, TypedKept, UnreceivedInRelay, BaseKept, BaseShown, FetchHasText, Tasks, Flows
<1>6. ASSUME NEW g \in Flows PROVE VaultShown(g)' /\ ReconcileOK(g)'
  BY <1>1, <1>2, <1>3, <1>6 DEF Safe, VaultShown, ReconcileOK, BaseShown, Busy, Reconciling, Tasks, Flows
<1>7. FetchCovers'
  BY <1>1, <1>3 DEF Safe, FetchCovers, Tasks, Flows
<1>8. PullReadLast' /\ PullCovers'
  BY <1>1, <1>2, <1>3 DEF Safe, PullReadLast, PullCovers, Pulling, Tasks, Flows
<1>. QED
  BY <1>4, <1>5, <1>6, <1>7, <1>8 DEF Safe

LEMMA SeedSettledKeeps ==
  ASSUME TypeOK, TypeOK', Safe, NEW f \in Flows, SeedSettled(f), windows' = {}
  PROVE  Safe'
<1> USE DEF At
<1>1. /\ \A t \in Tasks \ {f} : task'[t] = task[t]
      /\ task[f].pc = "seeding" /\ task'[f].pc = "flushing" /\ f \in Tasks /\ f # "pull"
      /\ UNCHANGED <<file, relay, unreceived, base, copied, typed, queued>>
      /\ ydoc = {} /\ ydoc' \in {file, ydoc}
  BY DEF SeedSettled, Flushes, Safe, ReconcileOK, TypeOK, Idle, Tasks, Flows, laneVars
<1>2. /\ ~Pulling /\ \A g \in Flows \ {f} : ~Busy(g)
  BY <1>1 DEF Safe, OneReconcile, PullAlone, Busy, Reconciling, Flows
<1>3. OneReconcile' /\ PullAlone'
  BY <1>1, <1>2 DEF OneReconcile, PullAlone, Pulling, Busy, Reconciling, Tasks, Flows
<1>4. TypedKept' /\ UnreceivedInRelay' /\ BaseKept' /\ BaseShown' /\ FetchHasText'
  BY <1>1 DEF Safe, TypedKept, UnreceivedInRelay, BaseKept, BaseShown, FetchHasText, Tasks, Flows
<1>5. ASSUME NEW g \in Flows PROVE VaultShown(g)' /\ ReconcileOK(g)'
  BY <1>1, <1>2 DEF Safe, VaultShown, ReconcileOK, Busy, Reconciling, Tasks, Flows
<1>6. FetchCovers'
  BY <1>1, <1>2 DEF Safe, FetchCovers, FetchHasText, Busy, Reconciling, Tasks, Flows
<1>7. PullReadLast' /\ PullCovers'
  BY <1>1, <1>2 DEF Safe, PullReadLast, PullCovers, Pulling, Tasks, Flows
<1>. QED
  BY <1>3, <1>4, <1>5, <1>6, <1>7 DEF Safe

\* The Y.Doc's text becomes what was read of the file; what that discards is the
\* base, or in the copy.
LEMMA ReplacedKeeps ==
  ASSUME TypeOK, TypeOK', Safe, NEW f \in Flows,
         task[f].pc \in {"choosing", "settling", "copying"}, task'[f].pc = "flushing",
         \A t \in Tasks \ {f} : task'[t] = task[t],
         UNCHANGED <<file, relay, unreceived, base, typed, queued>>,
         ydoc' = task[f].vault, copied \subseteq copied',
         ydoc \subseteq ydoc' \cup copied' \/ base = {ydoc}
  PROVE  Safe'
<1> USE DEF At
<1>1. f \in Tasks /\ f # "pull"
  BY DEF Tasks, Flows
<1>2. /\ ~Pulling /\ \A g \in Flows \ {f} : ~Busy(g)
  BY DEF Safe, OneReconcile, PullAlone, Busy, Reconciling, Flows
<1>3. /\ ydoc' # {} /\ ydoc' \subseteq file /\ \A b \in base : b \subseteq ydoc' \cup copied'
      /\ ydoc \subseteq ydoc' \cup copied'
  BY DEF Safe, VaultShown
<1>4. OneReconcile' /\ PullAlone'
  BY <1>1, <1>2 DEF OneReconcile, PullAlone, Pulling, Busy, Reconciling, Tasks, Flows
<1>5. TypedKept' /\ UnreceivedInRelay' /\ BaseKept' /\ BaseShown'
  BY <1>1, <1>3 DEF Safe, TypedKept, UnreceivedInRelay, BaseKept, BaseShown
<1>6. ASSUME NEW g \in Flows PROVE VaultShown(g)' /\ ReconcileOK(g)'
  BY <1>1, <1>2, <1>3 DEF Safe, VaultShown, ReconcileOK, Busy, Reconciling, Tasks, Flows
<1>7. FetchHasText' /\ FetchCovers'
  BY <1>1, <1>2, <1>3 DEF Safe, FetchHasText, FetchCovers, Busy, Reconciling, Tasks, Flows
<1>8. PullReadLast' /\ PullCovers'
  BY <1>1, <1>2 DEF Safe, PullReadLast, PullCovers, Pulling, Tasks, Flows
<1>. QED
  BY <1>4, <1>5, <1>6, <1>7, <1>8 DEF Safe

\* On to the claim, or to the copy.
LEMMA ChoosesKeeps ==
  ASSUME TypeOK, TypeOK', Safe, NEW f \in Flows,
         task[f].pc \in {"choosing", "settling"},
         \A t \in Tasks \ {f} : task'[t] = task[t],
         UNCHANGED <<textVars, queued>>, task'[f].vault = task[f].vault,
         \/ task'[f].pc = "settling" /\ base = Agreed(task'[f].synced)
         \/ task'[f].pc = "copying" /\ task'[f].synced = ydoc
  PROVE  Safe'
<1> USE DEF At
<1>1. f \in Tasks /\ f # "pull" /\ UNCHANGED <<file, ydoc, relay, unreceived, base, copied, typed>>
  BY DEF Tasks, Flows, textVars
<1>2. /\ ~Pulling /\ \A g \in Flows \ {f} : ~Busy(g)
  BY DEF Safe, OneReconcile, PullAlone, Busy, Reconciling, Flows
<1>4. OneReconcile' /\ PullAlone'
  BY <1>1, <1>2 DEF OneReconcile, PullAlone, Pulling, Busy, Reconciling, Tasks, Flows
<1>5. TypedKept' /\ UnreceivedInRelay' /\ BaseKept' /\ BaseShown'
  BY <1>1 DEF Safe, TypedKept, UnreceivedInRelay, BaseKept, BaseShown
<1>6. ASSUME NEW g \in Flows PROVE VaultShown(g)' /\ ReconcileOK(g)'
  BY <1>1, <1>2 DEF Safe, VaultShown, ReconcileOK, Busy, Reconciling, Tasks, Flows
<1>7. FetchHasText' /\ FetchCovers'
  BY <1>1, <1>2 DEF Safe, FetchHasText, FetchCovers, Busy, Reconciling, Tasks, Flows
<1>8. PullReadLast' /\ PullCovers'
  BY <1>1, <1>2 DEF Safe, PullReadLast, PullCovers, Pulling, Tasks, Flows
<1>. QED
  BY <1>4, <1>5, <1>6, <1>7, <1>8 DEF Safe

LEMMA PreserveKeeps ==
  ASSUME TypeOK, TypeOK', Safe, NEW f \in Flows, Preserve(f),
         task[f].pc \in {"choosing", "settling"},
         UNCHANGED <<file, relay, unreceived, base, copied, typed, queued>>
  PROVE  Safe'
<1>1. f \in Tasks
  BY DEF Tasks
<1>2. CASE ydoc \in {task[f].vault, {}}
  <2>1. ydoc' = task[f].vault /\ Flushes(f)
    BY <1>2 DEF Preserve
  <2>2. task'[f].pc = "flushing" /\ \A t \in Tasks \ {f} : task'[t] = task[t]
    BY <1>1, <2>1 DEF Flushes, TypeOK, Idle
  <2>. QED
    BY <1>2, <2>1, <2>2, ReplacedKeeps
<1>3. CASE ydoc \notin {task[f].vault, {}}
  <2>1. /\ task' = [task EXCEPT ![f].pc = "copying", ![f].synced = ydoc]
        /\ UNCHANGED ydoc
    BY <1>3 DEF Preserve
  <2>2. /\ \A t \in Tasks \ {f} : task'[t] = task[t]
        /\ task'[f].pc = "copying" /\ task'[f].synced = ydoc /\ task'[f].vault = task[f].vault
    BY <1>1, <2>1 DEF TypeOK, States
  <2>. QED
    BY <2>1, <2>2, ChoosesKeeps DEF textVars
<1>. QED
  BY <1>2, <1>3

LEMMA ChooseKeeps ==
  ASSUME TypeOK, TypeOK', Safe, NEW f \in Flows, Choose(f) \/ SettleWon(f) \/ SettleLost(f)
                                              \/ CopyDone(f)
  PROVE  Safe'
<1>1. f \in Tasks
  BY DEF Tasks
<1>2. CASE Choose(f) /\ base = Agreed(task[f].synced) /\ Goes(f, "settling") /\ UNCHANGED ydoc
  <2>1. /\ \A t \in Tasks \ {f} : task'[t] = task[t]
        /\ task'[f].pc = "settling" /\ task'[f].synced = task[f].synced
        /\ task'[f].vault = task[f].vault
    BY <1>1, <1>2 DEF Goes, TypeOK, States
  <2>. QED
    BY <1>2, <2>1, ChoosesKeeps DEF Choose, At, textVars, laneVars
<1>3. CASE Choose(f) /\ Preserve(f)
  BY <1>3, PreserveKeeps DEF Choose, At, laneVars
<1>4. CASE SettleLost(f)
  BY <1>4, PreserveKeeps DEF SettleLost, At, laneVars
<1>5. CASE SettleWon(f)
  <2>1. /\ task'[f].pc = "flushing" /\ \A t \in Tasks \ {f} : task'[t] = task[t]
        /\ task[f].pc = "settling" /\ base = {ydoc} /\ ydoc' = task[f].vault
        /\ UNCHANGED <<file, relay, unreceived, base, copied, typed, queued>>
    BY <1>1, <1>5 DEF SettleWon, Flushes, TypeOK, Idle, At, Safe, ReconcileOK, Agreed, laneVars
  <2>. QED
    BY <2>1, ReplacedKeeps
<1>6. CASE CopyDone(f)
  <2>1. /\ task'[f].pc = "flushing" /\ \A t \in Tasks \ {f} : task'[t] = task[t]
        /\ task[f].pc = "copying" /\ copied' = copied \cup ydoc /\ ydoc' = task[f].vault
        /\ UNCHANGED <<file, relay, unreceived, base, typed, queued>>
    BY <1>1, <1>6 DEF CopyDone, Flushes, TypeOK, Idle, At, Safe, ReconcileOK, laneVars
  <2>. QED
    BY <2>1, ReplacedKeeps
<1>. QED
  BY <1>2, <1>3, <1>4, <1>5, <1>6 DEF Choose

LEMMA FlushedKeeps ==
  ASSUME TypeOK, TypeOK', Safe, NEW f \in Flows, Flushed(f)
  PROVE  Safe'
<1> USE DEF At
<1>1. /\ \A t \in Tasks \ {f} : task'[t] = task[t]
      /\ task[f].pc = "flushing" /\ task'[f].pc = "leaving" /\ f \in Tasks /\ f # "pull"
      /\ UNCHANGED <<file, ydoc, relay, unreceived, copied, typed, queued>>
      /\ base' = {ydoc}
  BY DEF Flushed, RecordBase, Goes, Agreed, TypeOK, States, Tasks, Flows, laneVars
<1>2. /\ ~Pulling /\ \A g \in Flows \ {f} : ~Busy(g)
  BY <1>1 DEF Safe, OneReconcile, PullAlone, Busy, Reconciling, Flows
<1>3. OneReconcile' /\ PullAlone'
  BY <1>1, <1>2 DEF OneReconcile, PullAlone, Pulling, Busy, Reconciling, Tasks, Flows
<1>4. TypedKept' /\ UnreceivedInRelay' /\ BaseKept' /\ BaseShown' /\ FetchHasText'
  BY <1>1 DEF Safe, TypedKept, UnreceivedInRelay, BaseKept, BaseShown, FetchHasText, ReconcileOK,
              Tasks, Flows
<1>5. ASSUME NEW g \in Flows PROVE VaultShown(g)' /\ ReconcileOK(g)'
  BY <1>1, <1>2 DEF Safe, VaultShown, ReconcileOK, Busy, Reconciling, Tasks, Flows
<1>6. FetchCovers'
  BY <1>1, <1>2 DEF Safe, FetchCovers, Busy, Reconciling, Tasks, Flows
<1>7. PullReadLast' /\ PullCovers'
  BY <1>1, <1>2 DEF Safe, PullReadLast, PullCovers, Pulling, Tasks, Flows
<1>. QED
  BY <1>3, <1>4, <1>5, <1>6, <1>7 DEF Safe

LEMMA LeaveKeeps ==
  ASSUME TypeOK, TypeOK', Safe, NEW f \in Flows, Leave(f)
  PROVE  Safe'
<1> USE DEF At
<1>1. /\ \A t \in Tasks \ {f} : task'[t] = task[t]
      /\ task[f].pc = "leaving" /\ f \in Tasks /\ f # "pull"
      /\ UNCHANGED <<textVars, queued>>
  BY DEF Leave, Goes, Ends, TypeOK, Tasks, Flows, laneVars
<1>2. CASE f # "fetch"
  <2>1. task'[f].pc = "idle"
    BY <1>1, <1>2 DEF Leave, Ends, Idle, TypeOK
  <2>2. FetchHasText'
    BY <1>1, <1>2 DEF Safe, FetchHasText, textVars, Tasks, Flows
  <2>. QED
    BY <1>1, <2>1, <2>2, RestingKeeps DEF Rests, Resting
<1>3. CASE f = "fetch"
  <2>1. task'[f].pc = "writing" /\ UNCHANGED <<file, ydoc, relay, unreceived, base, copied, typed>>
    BY <1>1, <1>3 DEF Leave, Goes, TypeOK, States, textVars
  <2>2. OneReconcile' /\ PullAlone'
    BY <1>1, <2>1 DEF Safe, OneReconcile, PullAlone, Pulling, Busy, Reconciling, Tasks, Flows
  <2>3. TypedKept' /\ UnreceivedInRelay' /\ BaseKept' /\ BaseShown' /\ FetchHasText'
    BY <1>1, <1>3, <2>1
    DEF Safe, TypedKept, UnreceivedInRelay, BaseKept, BaseShown, FetchHasText, Tasks, Flows
  <2>4. ASSUME NEW g \in Flows PROVE VaultShown(g)' /\ ReconcileOK(g)'
    BY <1>1, <2>1 DEF Safe, VaultShown, ReconcileOK, Tasks, Flows
  <2>5. FetchCovers' /\ PullReadLast' /\ PullCovers'
    BY <1>1, <1>3, <2>1 DEF Safe, FetchCovers, PullReadLast, PullCovers, Pulling, Tasks, Flows
  <2>. QED
    BY <2>2, <2>3, <2>4, <2>5 DEF Safe
<1>. QED
  BY <1>2, <1>3

LEMMA FetchFlushKeeps ==
  ASSUME TypeOK, TypeOK', Safe, FetchFlush
  PROVE  Safe'
<1> USE DEF At
<1>1. /\ \A t \in Tasks \ {"fetch"} : task'[t] = task[t]
      /\ task["fetch"].pc = "writing" /\ task'["fetch"].pc = "idle" /\ file' = ydoc
      /\ UNCHANGED <<ydoc, relay, unreceived, base, copied, typed, queued>>
  BY DEF FetchFlush, Ends, Idle, TypeOK, Tasks, Flows
<1>2. ~Busy("upload") /\ file \subseteq ydoc \cup copied
  BY <1>1 DEF Safe, OneReconcile, FetchCovers, Busy
<1>3. OneReconcile' /\ PullAlone'
  BY <1>1, <1>2 DEF Safe, OneReconcile, PullAlone, Pulling, Busy, Reconciling, Tasks, Flows
<1>4. TypedKept' /\ UnreceivedInRelay' /\ BaseKept' /\ BaseShown' /\ FetchHasText'
  BY <1>1, <1>2 DEF Safe, TypedKept, UnreceivedInRelay, BaseKept, BaseShown, FetchHasText
<1>5. ASSUME NEW g \in Flows PROVE VaultShown(g)' /\ ReconcileOK(g)'
  BY <1>1, <1>2 DEF Safe, VaultShown, ReconcileOK, Busy, Reconciling, Tasks, Flows
<1>6. FetchCovers' /\ PullReadLast' /\ PullCovers'
  BY <1>1 DEF Safe, FetchCovers, PullReadLast, PullCovers, Pulling, Tasks, Flows
<1>. QED
  BY <1>3, <1>4, <1>5, <1>6 DEF Safe

-----------------------------------------------------------------------------
(* The pull.                                                               *)

\* What every step of a pull leaves to the other invariants.
LEMMA PullKeeps ==
  ASSUME TypeOK, TypeOK', Safe, \A t \in Flows : task'[t] = task[t],
         UNCHANGED <<ydoc, relay, unreceived, typed>>, copied \subseteq copied',
         Pulling' => \A f \in Flows : ~Reconciling(f),
         UNCHANGED <<file, base>> \/ \A f \in Flows : ~Reconciling(f),
         "fetch" \in queued' => "fetch" \in queued,
         file' = file \/ (file' \subseteq ydoc /\ file \subseteq ydoc \cup copied),
         file' = file \/ (base' = base /\ \A b \in base : b \subseteq file' \cup copied),
         base' = base \/ (\A b \in base' : b \subseteq ydoc /\ b \subseteq file),
         PullReadLast', PullCovers'
  PROVE  Safe'
<1> USE DEF At
<1>1. OneReconcile' /\ PullAlone'
  BY DEF Safe, OneReconcile, PullAlone, Busy, Reconciling, Flows
<1>2. TypedKept' /\ UnreceivedInRelay' /\ BaseKept'
  BY DEF Safe, TypedKept, UnreceivedInRelay, BaseKept
<1>3. BaseShown'
  BY DEF Safe, BaseShown
<1>4. FetchHasText'
  BY DEF Safe, FetchHasText, Flows
<1>5. ASSUME NEW g \in Flows PROVE VaultShown(g)' /\ ReconcileOK(g)'
  BY <1>5 DEF Safe, VaultShown, ReconcileOK, Reconciling, Flows
<1>6. FetchCovers'
  BY DEF Safe, FetchCovers, Reconciling, Flows
<1>. QED
  BY <1>1, <1>2, <1>3, <1>4, <1>5, <1>6 DEF Safe

LEMMA PullReadsKeeps ==
  ASSUME TypeOK, TypeOK', Safe, PullReads, windows' = {}
  PROVE  Safe'
<1>1. UNCHANGED <<file, ydoc, relay, unreceived, base, copied, typed, queued>>
  BY DEF PullReads, textVars, laneVars
<1>2. CASE file = task["pull"].vault /\ ydoc # file
  <2>1. /\ task' = [task EXCEPT !["pull"].pc = "deciding", !["pull"].synced = ydoc]
        /\ \A f \in Flows : ~Reconciling(f)
    BY <1>2 DEF PullReads, Falls, If
  <2>2. /\ \A t \in Flows : task'[t] = task[t]
        /\ task'["pull"].pc = "deciding" /\ task'["pull"].synced = ydoc
        /\ task'["pull"].vault = file
    BY <1>2, <2>1 DEF TypeOK, States, Tasks, Flows
  <2>3. PullReadLast' /\ PullCovers'
    BY <1>1, <2>2 DEF Safe, BaseKept, PullReadLast, PullCovers, At
  <2>. QED
    BY <1>1, <2>1, <2>2, <2>3, PullKeeps
<1>3. CASE ~(file = task["pull"].vault /\ ydoc # file)
  <2>1. task' = [task EXCEPT !["pull"] = Idle]
    BY <1>3 DEF PullReads, Ends
  <2>2. \A t \in Tasks : Rests(t)
    BY <2>1 DEF TypeOK, Rests, Resting, Idle, Tasks
  <2>3. FetchHasText'
    BY <1>1, <2>1 DEF Safe, FetchHasText, At, TypeOK, Tasks, Flows
  <2>. QED
    BY <1>1, <2>2, <2>3, RestingKeeps DEF textVars
<1>. QED
  BY <1>2, <1>3

LEMMA PullDecidesKeeps ==
  ASSUME TypeOK, TypeOK', Safe, PullDecides
  PROVE  Safe'
<1> USE DEF At
<1>1. /\ UNCHANGED <<file, ydoc, relay, unreceived, base, copied, typed, queued>>
      /\ task["pull"].pc = "deciding" /\ base # {}
  BY DEF PullDecides, textVars, laneVars, NoBase
<1>2. /\ \A t \in Flows : task'[t] = task[t]
      /\ task'["pull"].synced = task["pull"].synced /\ task'["pull"].vault = task["pull"].vault
      /\ \/ task'["pull"].pc = "copying"
         \/ /\ task'["pull"].pc = "writing"
            /\ task["pull"].vault = {} \/ base = {task["pull"].vault}
  BY DEF PullDecides, Goes, TypeOK, States, Tasks, Flows, Agreed
<1>3. \A f \in Flows : ~Reconciling(f)
  BY <1>1 DEF Safe, PullAlone, Pulling
<1>4. PullReadLast' /\ PullCovers'
  BY <1>1, <1>2 DEF Safe, BaseKept, PullReadLast, PullCovers, Pulling
<1>. QED
  BY <1>1, <1>2, <1>3, <1>4, PullKeeps

LEMMA PullCopiesKeeps ==
  ASSUME TypeOK, TypeOK', Safe, PullCopies
  PROVE  Safe'
<1> USE DEF At
<1>1. /\ UNCHANGED <<file, ydoc, relay, unreceived, base, typed, queued>>
      /\ task["pull"].pc = "copying" /\ copied' = copied \cup task["pull"].vault
  BY DEF PullCopies, laneVars
<1>2. /\ \A t \in Flows : task'[t] = task[t]
      /\ task'["pull"].synced = task["pull"].synced /\ task'["pull"].pc = "writing"
  BY DEF PullCopies, Goes, TypeOK, States, Tasks, Flows
<1>3. \A f \in Flows : ~Reconciling(f)
  BY <1>1 DEF Safe, PullAlone, Pulling
<1>4. PullReadLast' /\ PullCovers'
  BY <1>1, <1>2 DEF Safe, PullReadLast, PullCovers, Pulling
<1>. QED
  BY <1>1, <1>2, <1>3, <1>4, PullKeeps

LEMMA PullWritesKeeps ==
  ASSUME TypeOK, TypeOK', Safe, PullWrites
  PROVE  Safe'
<1> USE DEF At
<1>1. /\ UNCHANGED <<ydoc, relay, unreceived, base, copied, typed, queued>>
      /\ task["pull"].pc = "writing" /\ file' = task["pull"].synced
  BY DEF PullWrites
<1>2. /\ \A t \in Flows : task'[t] = task[t]
      /\ task'["pull"].synced = task["pull"].synced /\ task'["pull"].pc = "rebasing"
  BY DEF PullWrites, Goes, TypeOK, States, Tasks, Flows
<1>3. \A f \in Flows : ~Reconciling(f)
  BY <1>1 DEF Safe, PullAlone, Pulling
<1>4. /\ file' \subseteq ydoc /\ file \subseteq ydoc \cup copied
      /\ \A b \in base : b \subseteq file' \cup copied
  BY <1>1 DEF Safe, PullReadLast, PullCovers, Pulling
<1>5. PullReadLast' /\ PullCovers'
  BY <1>1, <1>2, <1>4 DEF Safe, PullReadLast, PullCovers, Pulling
<1>. QED
  BY <1>1, <1>2, <1>3, <1>4, <1>5, PullKeeps

LEMMA PullRecordsBaseKeeps ==
  ASSUME TypeOK, TypeOK', Safe, PullRecordsBase
  PROVE  Safe'
<1> USE DEF At
<1>1. /\ UNCHANGED <<file, ydoc, relay, unreceived, copied, typed, queued>>
      /\ task["pull"].pc = "rebasing" /\ base' = {task["pull"].synced}
  BY DEF PullRecordsBase, laneVars, Agreed
<1>2. (\A t \in Flows : task'[t] = task[t]) /\ task'["pull"].pc = "idle"
  BY DEF PullRecordsBase, Ends, Idle, TypeOK, Tasks, Flows
<1>3. /\ \A f \in Flows : ~Reconciling(f)
      /\ task["pull"].synced \subseteq ydoc /\ task["pull"].synced \subseteq file
  BY <1>1 DEF Safe, PullAlone, PullReadLast, PullCovers, Pulling
<1>4. PullReadLast' /\ PullCovers'
  BY <1>2 DEF PullReadLast, PullCovers, Pulling
<1>. QED
  BY <1>1, <1>2, <1>3, <1>4, PullKeeps

-----------------------------------------------------------------------------
(* Typing, and the relay.                                                  *)

LEMMA TypeLocalKeeps ==
  ASSUME TypeOK, TypeOK', Safe, NEW e \in Local, TypeLocal(e), windows' = {}
  PROVE  Safe'
<1> USE DEF At
<1>1. /\ file' = file \cup {e} /\ typed' = typed \cup {e}
      /\ UNCHANGED <<ydoc, relay, unreceived, base, copied, queued, task>>
  BY DEF TypeLocal
<1>2. file # {} /\ ~Busy("fetch") /\ (Pulling => task["pull"].pc = "rebasing")
  BY DEF TypeLocal, Falls, If
<1>3. OneReconcile' /\ PullAlone'
  BY <1>1 DEF Safe, OneReconcile, PullAlone, Pulling, Busy, Reconciling
<1>4. TypedKept' /\ UnreceivedInRelay' /\ BaseKept' /\ BaseShown' /\ FetchHasText'
  BY <1>1, <1>2 DEF Safe, TypedKept, UnreceivedInRelay, BaseKept, BaseShown, FetchHasText
<1>5. ASSUME NEW g \in Flows PROVE VaultShown(g)' /\ ReconcileOK(g)'
  BY <1>1 DEF Safe, VaultShown, ReconcileOK
<1>6. FetchCovers' /\ PullReadLast' /\ PullCovers'
  BY <1>1, <1>2 DEF Safe, FetchCovers, PullReadLast, PullCovers, Pulling, Busy, Reconciling
<1>. QED
  BY <1>3, <1>4, <1>5, <1>6 DEF Safe

LEMMA ReceiveKeeps ==
  ASSUME TypeOK, TypeOK', Safe, Receive, windows' = {}
  PROVE  Safe'
<1> USE DEF At
<1>1. /\ ydoc' = ydoc \cup unreceived /\ unreceived' = {}
      /\ UNCHANGED <<file, relay, base, copied, typed, queued, task>>
  BY DEF Receive, laneVars
<1>2. \A f \in Flows : ~Exposed(f)
  BY DEF Receive, Falls, If
<1>3. OneReconcile' /\ PullAlone'
  BY <1>1 DEF Safe, OneReconcile, PullAlone, Pulling, Busy, Reconciling
<1>4. TypedKept' /\ UnreceivedInRelay' /\ BaseKept' /\ BaseShown' /\ FetchHasText'
  BY <1>1, <1>2 DEF Safe, TypedKept, UnreceivedInRelay, BaseKept, BaseShown, FetchHasText
<1>5. ASSUME NEW g \in Flows PROVE VaultShown(g)' /\ ReconcileOK(g)'
  BY <1>1, <1>2 DEF Safe, VaultShown, ReconcileOK, Exposed
<1>6. FetchCovers' /\ PullReadLast' /\ PullCovers'
  BY <1>1 DEF Safe, FetchCovers, PullReadLast, PullCovers, Pulling
<1>. QED
  BY <1>3, <1>4, <1>5, <1>6 DEF Safe

LEMMA RelayKeeps ==
  ASSUME TypeOK, TypeOK', Safe, Push \/ \E e \in Peer : PeerAdds(e)
  PROVE  Safe'
<1> USE DEF At
<1>1. /\ UNCHANGED <<file, ydoc, base, copied, queued, task>>
      /\ unreceived \subseteq unreceived' /\ unreceived' \subseteq relay'
      /\ typed' \subseteq typed \cup unreceived'
  BY DEF Push, PeerAdds, Safe, UnreceivedInRelay, laneVars
<1>2. OneReconcile' /\ PullAlone'
  BY <1>1 DEF Safe, OneReconcile, PullAlone, Pulling, Busy, Reconciling
<1>3. TypedKept' /\ UnreceivedInRelay' /\ BaseKept' /\ BaseShown' /\ FetchHasText'
  BY <1>1 DEF Safe, TypedKept, UnreceivedInRelay, BaseKept, BaseShown, FetchHasText
<1>4. ASSUME NEW g \in Flows PROVE VaultShown(g)' /\ ReconcileOK(g)'
  BY <1>1 DEF Safe, VaultShown, ReconcileOK
<1>5. FetchCovers' /\ PullReadLast' /\ PullCovers'
  BY <1>1 DEF Safe, FetchCovers, PullReadLast, PullCovers, Pulling
<1>. QED
  BY <1>2, <1>3, <1>4, <1>5 DEF Safe

-----------------------------------------------------------------------------
(* The steps that change no text.                                          *)

LEMMA UploadRests ==
  ASSUME TypeOK, Safe, NEW f \in Flows,
         Begin(f) \/ Connected(f) \/ ConnectFails(f) \/ SyncOk(f) \/ SyncTimeout(f)
  PROVE  UNCHANGED textVars /\ (\A t \in Tasks : Rests(t)) /\ FetchHasText'
<1> USE DEF At
<1>1. f \in Tasks
  BY DEF Tasks
<1>2. /\ UNCHANGED textVars /\ (task[f].pc # "idle" \/ f \in queued)
      /\ queued' = queued \/ queued' = queued \ {f}
  BY DEF Begin, Connected, ConnectFails, SyncOk, SyncTimeout, laneVars
<1>3. /\ task'[f].pc \in Resting
      /\ \A t \in Tasks \ {f} : task'[t] = task[t]
  <2>1. \/ (\E p \in Resting : Goes(f, p)) \/ Ends(f)
        \/ task' = [task EXCEPT ![f] = [Idle EXCEPT !.pc = "connecting", !.owner = ~wanted]]
    BY DEF Begin, Connected, ConnectFails, SyncOk, SyncTimeout, GivesUp, Resting
  <2>. QED
    BY <1>1, <2>1, Placed, StartsRest, EndsRest
<1>4. FetchHasText'
  BY <1>1, <1>2, <1>3 DEF Safe, FetchHasText, textVars, Tasks, Flows
<1>. QED
  BY <1>1, <1>2, <1>3, <1>4 DEF Rests

LEMMA FetchRests ==
  ASSUME TypeOK, Safe, RetryFetch \/ FetchHeldBack
  PROVE  UNCHANGED textVars /\ (\A t \in Tasks : Rests(t)) /\ FetchHasText'
<1> USE DEF At
<1>1. /\ UNCHANGED <<textVars, queued>> /\ task["fetch"].pc # "idle" /\ "fetch" \in Tasks
      /\ \A t \in Tasks \ {"fetch"} : task'[t] = task[t]
  BY DEF RetryFetch, FetchHeldBack, Goes, TypeOK, laneVars, Tasks, Flows
<1>2. task'["fetch"].pc \in Resting
  BY <1>1, Placed, StartsRest DEF RetryFetch, FetchHeldBack, Resting
<1>3. FetchHasText'
  BY <1>1 DEF Safe, FetchHasText, textVars
<1>. QED
  BY <1>1, <1>2, <1>3 DEF Rests

LEMMA PullRests ==
  ASSUME TypeOK, Safe,
         \/ PullStarts \/ PullConnected \/ PullConnectFails
         \/ PullHasNoBase \/ PullHandsOver \/ PullThrows
  PROVE  UNCHANGED textVars /\ (\A t \in Tasks : Rests(t)) /\ FetchHasText'
<1> USE DEF At
<1>1. /\ UNCHANGED textVars /\ "pull" \in Tasks /\ ("fetch" \in queued' => "fetch" \in queued)
      /\ \A t \in Tasks \ {"pull"} : task'[t] = task[t]
  BY DEF PullStarts, PullConnected, PullConnectFails, PullHasNoBase, PullHandsOver, PullThrows,
         EnqueueUpload, Goes, Ends, TypeOK, laneVars, Tasks
<1>2. task'["pull"].pc \in Resting
  <2>1. \/ (\E p \in Resting : Goes("pull", p)) \/ Ends("pull")
        \/ task' = [task EXCEPT !["pull"] =
                      [Idle EXCEPT !.pc = "connecting", !.owner = ~wanted, !.vault = file]]
    BY DEF PullStarts, PullConnected, PullConnectFails, PullHasNoBase, PullHandsOver,
           PullThrows, Resting
  <2>. QED
    BY <1>1, <2>1, Placed, StartsRest, EndsRest
<1>3. FetchHasText'
  BY <1>1 DEF Safe, FetchHasText, textVars, Tasks, Flows
<1>. QED
  BY <1>1, <1>2, <1>3 DEF Rests

LEMMA OthersRest ==
  ASSUME TypeOK, Safe,
         \/ SocketOpens \/ SocketDrops \/ ConnectionError \/ GateFires \/ ProviderSynced
         \/ ModifyEvent \/ SyncCommand \/ Restart \/ UNCHANGED vars
  PROVE  UNCHANGED textVars /\ (\A t \in Tasks : Rests(t)) /\ FetchHasText'
<1> USE DEF At, TypeOK
<1>1. UNCHANGED textVars
  BY DEF SocketOpens, SocketDrops, ConnectionError, GateFires, ProviderSynced, ModifyEvent,
         SyncCommand, Restart, vars
<1>2. CASE Restart
  <2>1. \A t \in Tasks : task'[t].pc = "idle"
    BY <1>2 DEF Restart, Idle
  <2>2. FetchHasText'
    BY <1>1, <1>2, <2>1 DEF Restart, FetchHasText, textVars, Tasks, Flows
  <2>. QED
    BY <1>1, <2>1, <2>2 DEF Rests, Resting
<1>3. CASE ~Restart
  <2>1. UNCHANGED task /\ ("fetch" \in queued' => "fetch" \in queued)
    BY <1>3 DEF SocketOpens, SocketDrops, ConnectionError, GateFires, ProviderSynced, ModifyEvent,
                SyncCommand, EnqueueUpload, vars, laneVars
  <2>2. FetchHasText'
    BY <1>1, <2>1 DEF Safe, FetchHasText, textVars
  <2>. QED
    BY <1>1, <2>1, <2>2 DEF Rests
<1>. QED
  BY <1>2, <1>3

LEMMA NextKeeps ==
  ASSUME TypeOK, TypeOK', Safe, [Next]_vars, windows' = {}
  PROVE  Safe'
<1>1. ASSUME NEW f \in Flows, UploadSteps(f) PROVE Safe'
  <2>1. ~CopyFails(f)
    BY DEF CopyFails, Falls
  <2>. QED
    BY <1>1, <2>1, UploadRests, RestingKeeps, CompareKeeps, SeedSettledKeeps, ChooseKeeps,
       FlushedKeeps, LeaveKeeps DEF UploadSteps
<1>2. CASE FetchSteps
  BY <1>2, FetchRests, RestingKeeps, FetchFlushKeeps DEF FetchSteps
<1>3. CASE PullSteps
  BY <1>3, PullRests, RestingKeeps, PullReadsKeeps, PullDecidesKeeps, PullCopiesKeeps,
     PullWritesKeeps, PullRecordsBaseKeeps DEF PullSteps
<1>4. CASE LinkSteps \/ ModifyEvent \/ SyncCommand \/ Restart \/ UNCHANGED vars
  BY <1>4, OthersRest, RestingKeeps, ReceiveKeeps, RelayKeeps DEF LinkSteps
<1>5. ASSUME NEW e \in Local, TypeLocal(e) PROVE Safe'
  BY <1>5, TypeLocalKeeps
<1>6. ASSUME NEW e \in Peer, PeerAdds(e) PROVE Safe'
  BY <1>6, RelayKeeps
<1>. QED
  BY <1>1, <1>2, <1>3, <1>4, <1>5, <1>6 DEF Next

LEMMA WindowsStay == [Next]_vars /\ windows' = {} => windows = {}
BY DEF Next, vars, UploadSteps, FetchSteps, PullSteps, LinkSteps, Begin, Connected, ConnectFails,
  SyncOk, SyncTimeout, Compare, SeedSettled, Choose, SettleWon, SettleLost, CopyDone, CopyFails,
  Flushed, Leave, RetryFetch, FetchHeldBack, FetchFlush, PullStarts, PullConnected,
  PullConnectFails, PullReads, PullHasNoBase, PullHandsOver, PullDecides, PullCopies, PullThrows,
  PullWrites, PullRecordsBase, SocketOpens, SocketDrops, ConnectionError, GateFires,
  ProviderSynced, Receive, Push, TypeLocal, PeerAdds, ModifyEvent, SyncCommand, Restart, Falls

-----------------------------------------------------------------------------

LEMMA InitIsSafe == Init => DocInv
<1> SUFFICES ASSUME Init PROVE DocInv
  OBVIOUS
<1>1. PICK start \in Starts : StartsAs(start)
  BY DEF Init
<1>2. /\ file \in {{}, Original} /\ ydoc \in {{}, Original} /\ relay \in {{}, Original}
      /\ unreceived \in {{}, Original} /\ copied = {} /\ typed = Original
      /\ base \in {{}, {Original}} /\ unreceived \subseteq relay
      /\ typed \subseteq file \cup unreceived /\ (base # {} => file = Original /\ ydoc = Original)
      /\ "fetch" \in queued => file = {}
  BY <1>1 DEF Init, StartsAs, NoBase, Agreed
<1>3. task = [t \in Tasks |-> Idle]
  BY DEF Init
<1>4. TypeOK
  <2>1. {} \in Texts /\ Original \in Texts
    BY DEF Texts, Passages
  <2>2. TextsTyped
    BY <1>2, <2>1 DEF TextsTyped
  <2>. QED
    BY <1>3, <2>2, IdleIsState DEF Init, TypeOK
<1>5. Safe
  BY <1>2, <1>3 DEF Safe, OneReconcile, PullAlone, TypedKept, UnreceivedInRelay, BaseKept,
    BaseShown, FetchHasText, VaultShown, ReconcileOK, FetchCovers, PullReadLast, PullCovers,
    Busy, Reconciling, Pulling, At, Idle, Tasks, Flows
<1>. QED
  BY <1>4, <1>5 DEF DocInv

THEOREM DocIsSafe == Spec => []DocInv
<1>1. DocInv /\ [Next]_vars => DocInv'
  BY TypesKept, NextKeeps, WindowsStay DEF DocInv
<1>. QED
  BY <1>1, InitIsSafe, PTL DEF Spec

(***************************************************************************)
(* No passage anybody typed is lost outside the race windows: it is in the *)
(* file, the Y.Doc, the relay or a conflict copy (reconcileWithVaultFile-  *)
(* Safely and pullIfUnchanged, TR-01), however many passages, retries and  *)
(* faults there are.                                                       *)
(***************************************************************************)
THEOREM TextIsKept == Spec => []NothingLost
<1>1. DocInv => NothingLost
  BY DEF DocInv, Safe, TypedKept, UnreceivedInRelay, NothingLost, Kept
<1>. QED
  BY <1>1, DocIsSafe, PTL

(***************************************************************************)
(* The sync base (setSyncBase) never names a passage this client has       *)
(* neither in its file nor in a conflict copy, unless the file is empty.   *)
(***************************************************************************)
THEOREM BaseIsShown == Spec => []BaseWasShown
<1>1. DocInv => BaseWasShown
  BY DEF DocInv, Safe, BaseShown, BaseWasShown
<1>. QED
  BY <1>1, DocIsSafe, PTL
=============================================================================
