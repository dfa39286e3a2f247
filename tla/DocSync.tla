------------------------------ MODULE DocSync ------------------------------
(***************************************************************************)
(* One relay-linked document, with no editor open on it, on one client:    *)
(* the vault file, its Y.Doc, the relay's copy, the recorded sync base,    *)
(* and the three flows that move text between them                         *)
(* (src/src/TransferQueue.ts): the upload lane's uploadDocumentViaSocket,  *)
(* the download lane's fetchDocument (its HTTP request always fails for    *)
(* these documents and it falls back to the same uploadDocumentViaSocket,  *)
(* then flushes) and the poller's pullIfUnchanged.  The other clients are  *)
(* what they add to the relay's copy.                                      *)
(*                                                                         *)
(* A text is the set of passages in it: each passage is typed once, at the *)
(* file or by a peer, and nobody deletes one by hand.  So a passage that   *)
(* is nowhere any more has been discarded by the program.                  *)
(***************************************************************************)
EXTENDS Naturals

CONSTANTS
  Original,  \* passages of the text the document starts with
  Local,     \* passages the user types into the vault file
  Peer,      \* passages the other clients add
  MaxRetry,  \* fetchDocument's retries (3 in the code)
  Starts,    \* which situations the document may start in
  Events     \* which of these may happen: a connection attempt fails or is slow
             \* ("connect"), a socket drops ("drop"), another client wins a claim
             \* ("claim"), a conflict copy or a pull's write fails ("copy"), the
             \* plugin restarts ("crash"), the user asks for a sync ("command")

Passages == Original \cup Local \cup Peer
Flows == {"upload", "fetch"}   \* both run uploadDocumentViaSocket
Tasks == Flows \cup {"pull"}

ASSUME DocAssumption ==
  /\ Original \cap Local = {} /\ Original \cap Peer = {} /\ Local \cap Peer = {}
  /\ MaxRetry \in Nat

VARIABLES
  file,       \* the vault file's text ({} when it is empty or absent)
  ydoc,       \* the Y.Doc's text, kept in IndexedDB
  relay,      \* the relay's text
  unreceived, \* passages in relay that have not reached the Y.Doc
  base,       \* the sync base: the set of one text, or of none
  copied,     \* passages written to conflict copies
  typed,      \* passages that exist so far
  wanted,     \* the provider's intent is "connected"
  online,     \* the socket is open
  gate,       \* a reconnect is scheduled
  everSynced, \* this provider has synced at least once: a sticky flag
  acked,      \* the relay has ever answered for this document: persisted
  modified,   \* a modify event of the file is on its way
  queued,     \* flows waiting in their lane
  retry,      \* fetchDocument's remaining retries
  task,       \* [Tasks -> where each flow is and what it has captured]
  windows     \* history: the race windows something fell into

textVars == <<file, ydoc, relay, unreceived, base, copied, typed>>
ackVars == <<everSynced, acked>>
linkVars == <<wanted, online, gate, ackVars>>
laneVars == <<modified, queued, retry>>
vars == <<textVars, linkVars, laneVars, task, windows>>

-----------------------------------------------------------------------------
(* Where a flow is, what it has captured, and the connection it shares *)

NoBase == {}           \* getSyncBase() is undefined
Agreed(text) == {text}

Idle == [pc |-> "idle", owner |-> FALSE, vault |-> {}, synced |-> {}]

At(t, place) == task[t].pc = place
Goes(t, place) == task' = [task EXCEPT ![t].pc = place]
Ends(t) == task' = [task EXCEPT ![t] = Idle]

\* The reconcile is done with; what it had read is forgotten.
Flushes(f) == task' = [task EXCEPT ![f] = [Idle EXCEPT !.pc = "flushing", !.owner = task[f].owner]]

\* goOffline(), for whoever uses the connection.  It leaves the gate alone.
GoOffline == wanted' = FALSE /\ online' = FALSE
KeepLink == UNCHANGED <<wanted, online>>

\* Whoever found the provider disconnected when it began drops the connection.
ReleaseLink(t) == (IF task[t].owner THEN GoOffline ELSE KeepLink) /\ UNCHANGED gate

\* enqueueUpload: a request for a document already in flight adds nothing.
EnqueueUpload == queued' = IF At("upload", "idle") THEN queued \cup {"upload"} ELSE queued

\* What went wrong by the time of this step, if anything did.
Falls(into) == windows' = windows \cup into
If(happened, window) == IF happened THEN {window} ELSE {}

\* Between reading a text and having acted on it.
Reconciling(f) == task[f].pc \in {"seeding", "choosing", "settling", "copying", "flushing"}
\* Of these, the ones after which the Y.Doc is not looked at again.
Exposed(f) == task[f].pc \in {"seeding", "copying", "flushing"}
Busy(f) == Reconciling(f) \/ task[f].pc \in {"leaving", "writing"}
Pulling == task["pull"].pc \in {"deciding", "copying", "writing", "rebasing"}

-----------------------------------------------------------------------------
(* uploadDocumentViaSocket, for either lane *)

\* Reads the intent before it asks for a connection.
Begin(f) ==
  /\ f \in queued /\ At(f, "idle")
  /\ queued' = queued \ {f}
  /\ task' = [task EXCEPT ![f] = [Idle EXCEPT !.pc = "connecting", !.owner = ~wanted]]
  /\ UNCHANGED <<textVars, linkVars, modified, retry, windows>>

\* The timer of a fetch that found the document still empty.
RetryFetch ==
  /\ At("fetch", "retrying")
  /\ task' = [task EXCEPT !["fetch"] = [Idle EXCEPT !.pc = "connecting", !.owner = ~wanted]]
  /\ UNCHANGED <<textVars, linkVars, laneVars, windows>>

Connected(f) ==
  /\ At(f, "connecting")
  /\ wanted' = TRUE
  /\ Goes(f, IF task[f].owner THEN "syncing" ELSE "comparing")
  /\ UNCHANGED <<textVars, online, gate, ackVars, laneVars, windows>>

\* What becomes of the flow when uploadDocumentViaSocket returns false: an
\* upload is over, a fetch whose Y.Doc is empty drops the link and tries again.
GivesUp(f, link) ==
  IF f = "fetch" /\ ydoc = {} /\ retry > 0
  THEN GoOffline /\ Goes(f, "retrying") /\ retry' = retry - 1
  ELSE link /\ Ends(f) /\ UNCHANGED retry

\* No token: bringOnline() returns false, and has scheduled another try.
ConnectFails(f) ==
  /\ "connect" \in Events
  /\ At(f, "connecting") /\ ~online
  /\ gate' = TRUE
  /\ GivesUp(f, KeepLink)
  /\ UNCHANGED <<textVars, ackVars, modified, queued, windows>>

\* At once if it ever was synced, and it need not bring the document's text.
SyncOk(f) ==
  /\ At(f, "syncing") /\ everSynced
  /\ Goes(f, "comparing")
  /\ UNCHANGED <<textVars, linkVars, laneVars, windows>>

\* Thirty seconds without: the relay is slow, or another flow dropped the link.
SyncTimeout(f) ==
  /\ At(f, "syncing") /\ ~everSynced
  /\ ~wanted \/ "connect" \in Events
  /\ GivesUp(f, GoOffline)
  /\ UNCHANGED <<textVars, gate, ackVars, modified, queued, windows>>

\* setSyncBase(doc.content), with whatever the Y.Doc holds by now.
RecordBase(f) == base' = Agreed(ydoc) /\ Goes(f, "leaving")

(***************************************************************************)
(* The file is read and compared.  An equal or an empty one needs no       *)
(* reconciling; an empty Y.Doc is seeded; else the base decides.           *)
(***************************************************************************)
Compare(f) ==
  /\ At(f, "comparing")
  /\ \/ /\ file = {} \/ file = ydoc
        /\ RecordBase(f)
     \/ /\ file # {} /\ file # ydoc /\ ydoc = {}
        /\ Goes(f, "seeding")
        /\ UNCHANGED base
     \/ /\ file # {} /\ file # ydoc /\ ydoc # {}
        /\ task' = [task EXCEPT ![f].pc = "choosing", ![f].vault = file, ![f].synced = ydoc]
        /\ UNCHANGED base
  /\ Falls(If(Pulling, "pull and reconcile at once")
           \cup If(\E g \in Flows \ {f} : Busy(g), "two reconciles at once"))
  /\ UNCHANGED <<file, ydoc, relay, unreceived, copied, typed, linkVars, laneVars>>

\* The init claim has settled, won or lost; the file is read again.
SeedSettled(f) ==
  /\ At(f, "seeding")
  /\ \/ ydoc = {} /\ ydoc' = file
     \/ (ydoc # {} \/ "claim" \in Events) /\ UNCHANGED ydoc
  /\ Flushes(f)
  /\ UNCHANGED <<file, relay, unreceived, base, copied, typed, linkVars, laneVars, windows>>

(***************************************************************************)
(* reconcileWithVaultFileSafely, up to the conflict copy's write: with     *)
(* nothing to preserve there is no copy.                                   *)
(***************************************************************************)
Preserve(f) ==
  \/ /\ ydoc \in {task[f].vault, {}}
     /\ ydoc' = task[f].vault
     /\ Flushes(f)
  \/ /\ ydoc \notin {task[f].vault, {}}
     /\ task' = [task EXCEPT ![f].pc = "copying", ![f].synced = ydoc]
     /\ UNCHANGED ydoc

\* Whether the text the Y.Doc had is the one this client last agreed on.
Choose(f) ==
  /\ At(f, "choosing")
  /\ \/ base = Agreed(task[f].synced) /\ Goes(f, "settling") /\ UNCHANGED ydoc
     \/ base # Agreed(task[f].synced) /\ Preserve(f)
  /\ UNCHANGED <<file, relay, unreceived, base, copied, typed, linkVars, laneVars, windows>>

\* Faulty: what arrived while the claim settled is not looked at.
SettleWon_Unchecked(f) ==
  /\ At(f, "settling")
  /\ ydoc' = task[f].vault
  /\ Flushes(f)
  /\ UNCHANGED <<file, relay, unreceived, base, copied, typed, linkVars, laneVars, windows>>

\* The reconcile claim is won and the text is still the base.
SettleWon(f) ==
  /\ At(f, "settling")
  /\ ydoc = task[f].synced
  /\ ydoc' = task[f].vault
  /\ Flushes(f)
  /\ UNCHANGED <<file, relay, unreceived, base, copied, typed, linkVars, laneVars, windows>>

\* Lost, timed out, or won with the text changed meanwhile.
SettleLost(f) ==
  /\ At(f, "settling")
  /\ ydoc # task[f].synced \/ "claim" \in Events
  /\ Preserve(f)
  /\ UNCHANGED <<file, relay, unreceived, base, copied, typed, linkVars, laneVars, windows>>

\* Written: the Y.Doc is made equal to the file as it was read.
CopyDone(f) ==
  /\ At(f, "copying")
  /\ copied' = copied \cup task[f].synced
  /\ ydoc' = task[f].vault
  /\ Flushes(f)
  /\ UNCHANGED <<file, relay, unreceived, base, typed, linkVars, laneVars, windows>>

\* Not written: no reconcile.  The base is recorded all the same.
CopyFails(f) ==
  /\ "copy" \in Events
  /\ At(f, "copying")
  /\ Flushes(f)
  /\ Falls({"copy failed"})
  /\ UNCHANGED <<textVars, linkVars, laneVars>>

\* The send buffer has drained, or ten seconds are over.
Flushed(f) ==
  /\ At(f, "flushing")
  /\ RecordBase(f)
  /\ UNCHANGED <<file, ydoc, relay, unreceived, copied, typed, linkVars, laneVars, windows>>

Leave(f) ==
  /\ At(f, "leaving")
  /\ ReleaseLink(f)
  /\ IF f = "fetch" THEN Goes(f, "writing") ELSE Ends(f)
  /\ UNCHANGED <<textVars, ackVars, laneVars, windows>>

-----------------------------------------------------------------------------
(* fetchDocument after a successful uploadDocumentViaSocket *)

\* Nothing came, and there are retries left.
FetchHeldBack ==
  /\ At("fetch", "writing") /\ ydoc = {} /\ retry > 0
  /\ GoOffline
  /\ Goes("fetch", "retrying")
  /\ retry' = retry - 1
  /\ UNCHANGED <<textVars, gate, ackVars, modified, queued, windows>>

\* The Y.Doc's text goes to the file, whatever the file holds by now.
FetchFlush ==
  /\ At("fetch", "writing") /\ ~(ydoc = {} /\ retry > 0)
  /\ file' = ydoc
  /\ modified' = TRUE
  /\ Ends("fetch")
  /\ UNCHANGED <<ydoc, relay, unreceived, base, copied, typed, linkVars, queued, retry, windows>>

-----------------------------------------------------------------------------
(* pullIfUnchanged *)

\* A poll tick finds the document without a connection.
PullStarts ==
  /\ At("pull", "idle") /\ ~online
  /\ task' = [task EXCEPT !["pull"] =
                [Idle EXCEPT !.pc = "connecting", !.owner = ~wanted, !.vault = file]]
  /\ UNCHANGED <<textVars, linkVars, laneVars, windows>>

PullConnected ==
  /\ At("pull", "connecting")
  /\ wanted' = TRUE
  /\ Goes("pull", "reading")
  /\ UNCHANGED <<textVars, online, gate, ackVars, laneVars, windows>>

PullConnectFails ==
  /\ "connect" \in Events
  /\ At("pull", "connecting") /\ ~online
  /\ gate' = TRUE
  /\ Ends("pull")
  /\ UNCHANGED <<textVars, wanted, online, ackVars, laneVars, windows>>

\* Once online, or the wait is over, both texts are read.  A file that changed
\* since the pull began, or already holds the relay's text, is left alone.
PullReads ==
  /\ At("pull", "reading")
  /\ online \/ ~wanted \/ "connect" \in Events
  /\ IF file = task["pull"].vault /\ ydoc # file
     THEN /\ task' = [task EXCEPT !["pull"].pc = "deciding", !["pull"].synced = ydoc]
          /\ KeepLink /\ UNCHANGED gate
          /\ Falls(If(\E f \in Flows : Reconciling(f), "pull and reconcile at once"))
     ELSE Ends("pull") /\ ReleaseLink("pull") /\ UNCHANGED windows
  /\ UNCHANGED <<textVars, ackVars, laneVars>>

\* With no base it cannot tell, and returns without releasing the connection.
PullHasNoBase ==
  /\ At("pull", "deciding") /\ base = NoBase
  /\ Ends("pull")
  /\ UNCHANGED <<textVars, linkVars, laneVars, windows>>

\* Faulty: it trusts that somebody has already asked for the upload.
PullHandsOver_ToNobody ==
  /\ At("pull", "deciding") /\ base # NoBase
  /\ base = Agreed(task["pull"].synced) /\ task["pull"].vault # {}
  /\ Ends("pull") /\ ReleaseLink("pull")
  /\ UNCHANGED <<textVars, ackVars, laneVars, windows>>

\* Only the file has moved: the upload lane's business.
PullHandsOver ==
  /\ At("pull", "deciding") /\ base # NoBase
  /\ base = Agreed(task["pull"].synced) /\ task["pull"].vault # {}
  /\ Ends("pull") /\ ReleaseLink("pull")
  /\ EnqueueUpload
  /\ UNCHANGED <<textVars, ackVars, modified, retry, windows>>

\* The relay has moved; a file that has moved too is to be preserved first.
PullDecides ==
  /\ At("pull", "deciding") /\ base # NoBase
  /\ ~(base = Agreed(task["pull"].synced) /\ task["pull"].vault # {})
  /\ Goes("pull", IF task["pull"].vault = {} \/ base = Agreed(task["pull"].vault)
                   THEN "writing" ELSE "copying")
  /\ UNCHANGED <<textVars, linkVars, laneVars, windows>>

PullCopies ==
  /\ At("pull", "copying")
  /\ copied' = copied \cup task["pull"].vault
  /\ Goes("pull", "writing")
  /\ UNCHANGED <<file, ydoc, relay, unreceived, base, typed, linkVars, laneVars, windows>>

\* The copy or the write throws: the connection is not released.
PullThrows ==
  /\ "copy" \in Events
  /\ At("pull", "copying") \/ At("pull", "writing")
  /\ Ends("pull")
  /\ UNCHANGED <<textVars, linkVars, laneVars, windows>>

\* The file's last check was when it was read.
PullWrites ==
  /\ At("pull", "writing")
  /\ file' = task["pull"].synced
  /\ modified' = TRUE
  /\ Goes("pull", "rebasing")
  /\ UNCHANGED <<ydoc, relay, unreceived, base, copied, typed, linkVars, queued, retry, windows>>

\* Faulty: the base is what the Y.Doc holds by now.
PullRecordsBase_Now ==
  /\ At("pull", "rebasing")
  /\ base' = Agreed(ydoc)
  /\ Ends("pull") /\ ReleaseLink("pull")
  /\ UNCHANGED <<file, ydoc, relay, unreceived, copied, typed, ackVars, laneVars, windows>>

PullRecordsBase ==
  /\ At("pull", "rebasing")
  /\ base' = Agreed(task["pull"].synced)
  /\ Ends("pull") /\ ReleaseLink("pull")
  /\ UNCHANGED <<file, ydoc, relay, unreceived, copied, typed, ackVars, laneVars, windows>>

-----------------------------------------------------------------------------
(* The user, the peers, the relay and the process *)

TypeLocal(e) ==
  /\ e \in Local \ typed
  /\ file' = file \cup {e}
  /\ typed' = typed \cup {e}
  /\ modified' = TRUE
  /\ Falls(If(file = {}, "edit of an empty file")
           \cup If(Busy("fetch"), "edit during a fetch")
           \cup If(Pulling /\ ~At("pull", "rebasing"), "edit during a pull"))
  /\ UNCHANGED <<ydoc, relay, unreceived, base, copied, linkVars, queued, retry, task>>

\* main.ts uploads a modified document unless it has an open socket.
ModifyEvent ==
  /\ modified
  /\ modified' = FALSE
  /\ IF online THEN UNCHANGED queued ELSE EnqueueUpload
  /\ UNCHANGED <<textVars, linkVars, retry, task, windows>>

PeerAdds(e) ==
  /\ e \in Peer \ typed
  /\ relay' = relay \cup {e}
  /\ unreceived' = unreceived \cup {e}
  /\ typed' = typed \cup {e}
  /\ UNCHANGED <<file, ydoc, base, copied, linkVars, laneVars, task, windows>>

SocketOpens ==
  /\ wanted /\ ~online
  /\ online' = TRUE
  /\ UNCHANGED <<textVars, wanted, gate, ackVars, laneVars, task, windows>>

\* A closed socket is opened again while the provider is wanted.
SocketDrops ==
  /\ "drop" \in Events
  /\ online
  /\ online' = FALSE
  /\ UNCHANGED <<textVars, wanted, gate, ackVars, laneVars, task, windows>>

\* An error, or a close with a stale token: goOffline() and a reconnect later.
ConnectionError ==
  /\ "drop" \in Events
  /\ wanted
  /\ GoOffline
  /\ gate' = TRUE
  /\ UNCHANGED <<textVars, ackVars, laneVars, task, windows>>

\* bringOnline() again, for whoever wanted it then.
GateFires ==
  /\ gate
  /\ gate' = FALSE
  /\ wanted' = TRUE
  /\ UNCHANGED <<textVars, online, ackVars, laneVars, task, windows>>

\* The first "synced" of this provider.
ProviderSynced ==
  /\ online /\ ~everSynced
  /\ everSynced' = TRUE /\ acked' = TRUE
  /\ UNCHANGED <<textVars, wanted, online, gate, laneVars, task, windows>>

Receive ==
  /\ online /\ unreceived # {}
  /\ ydoc' = ydoc \cup unreceived
  /\ unreceived' = {}
  /\ Falls(UNION {If(Exposed(f), "update during a reconcile") : f \in Flows})
  /\ UNCHANGED <<file, relay, base, copied, typed, linkVars, laneVars, task>>

\* The Y.Doc's insertions and deletions reach the relay.
Push ==
  /\ online /\ relay # ydoc \cup unreceived
  /\ relay' = ydoc \cup unreceived
  /\ UNCHANGED <<file, ydoc, unreceived, base, copied, typed, linkVars, laneVars, task, windows>>

\* "Relay: sync" uploads every document of the share.
SyncCommand ==
  /\ "command" \in Events
  /\ EnqueueUpload
  /\ UNCHANGED <<textVars, linkVars, modified, retry, task, windows>>

\* The plugin is killed and started again.  A document the relay never answered
\* for is taken up again; any other one only if it has no file.
Restart ==
  /\ "crash" \in Events
  /\ wanted' = FALSE /\ online' = FALSE /\ gate' = FALSE
  /\ everSynced' = FALSE /\ UNCHANGED acked
  /\ modified' = FALSE /\ retry' = MaxRetry
  /\ \/ file = {} /\ queued' = {"fetch"}
     \/ file # {} /\ ~acked /\ queued' = {"upload"}
     \/ acked /\ queued' = {}
  /\ task' = [t \in Tasks |-> Idle]
  /\ UNCHANGED <<textVars, windows>>

-----------------------------------------------------------------------------
\* The situations a document starts in.
StartsAs(start) ==
  LET here == start # "created by a peer"
      there == start # "created here"
      both == here /\ there
  IN  /\ file = IF here THEN Original ELSE {}
      /\ ydoc = IF both THEN Original ELSE {}
      /\ relay = IF there THEN Original ELSE {}
      /\ unreceived = IF here THEN {} ELSE Original
      /\ base = IF start = "agreed" THEN Agreed(Original) ELSE NoBase
      /\ acked = both
      /\ queued = CASE start = "created here" -> {"upload"}
                    [] start = "created by a peer" -> {"fetch"}
                    [] OTHER -> {}

Init ==
  /\ \E start \in Starts : StartsAs(start)
  /\ copied = {} /\ typed = Original
  /\ wanted = FALSE /\ online = FALSE /\ gate = FALSE /\ everSynced = FALSE
  /\ modified = FALSE /\ retry = MaxRetry
  /\ task = [t \in Tasks |-> Idle]
  /\ windows = {}

UploadSteps(f) ==
  \/ Begin(f) \/ Connected(f) \/ ConnectFails(f) \/ SyncOk(f) \/ SyncTimeout(f)
  \/ Compare(f) \/ SeedSettled(f) \/ Choose(f) \/ SettleWon(f) \/ SettleLost(f)
  \/ CopyDone(f) \/ CopyFails(f) \/ Flushed(f) \/ Leave(f)

FetchSteps == RetryFetch \/ FetchHeldBack \/ FetchFlush

PullSteps ==
  \/ PullStarts \/ PullConnected \/ PullConnectFails \/ PullReads \/ PullHasNoBase
  \/ PullHandsOver \/ PullDecides \/ PullCopies \/ PullThrows \/ PullWrites
  \/ PullRecordsBase

LinkSteps ==
  \/ SocketOpens \/ SocketDrops \/ ConnectionError \/ GateFires
  \/ ProviderSynced \/ Receive \/ Push

Next ==
  \/ \E f \in Flows : UploadSteps(f)
  \/ FetchSteps
  \/ PullSteps
  \/ LinkSteps
  \/ \E e \in Local : TypeLocal(e)
  \/ \E e \in Peer : PeerAdds(e)
  \/ ModifyEvent
  \/ SyncCommand
  \/ Restart

Spec == Init /\ [][Next]_vars

(***************************************************************************)
(* Every promise in a flow settles or has a time limit, the poller ticks   *)
(* for ever, a scheduled timer fires and a wanted socket is retried; the   *)
(* network delivers if it is given the chance again and again.  Nobody has *)
(* to type, and no fault has to happen.                                    *)
(***************************************************************************)
Fairness ==
  /\ \A f \in Flows : WF_vars(UploadSteps(f))
  /\ WF_vars(FetchSteps) /\ WF_vars(PullSteps)
  /\ WF_vars(ModifyEvent) /\ WF_vars(SocketOpens) /\ WF_vars(GateFires)
  /\ SF_vars(ProviderSynced) /\ SF_vars(Receive) /\ SF_vars(Push)

FairSpec == Spec /\ Fairness

-----------------------------------------------------------------------------
\* Somewhere the user, or a peer, can still find it.
Kept == file \cup ydoc \cup relay \cup copied

\* Pruning: what happens after a race window has been fallen into.
OutsideWindows == windows = {}

(***************************************************************************)
(* TR-01's promise (ytextDiff.ts reconcileWithConflictCopy, TransferQueue  *)
(* reconcileWithVaultFileSafely and pullIfUnchanged): outside the race     *)
(* windows that `windows` names, every passage anybody typed is in the     *)
(* file, the Y.Doc, the relay or a conflict copy, whatever the two lanes,  *)
(* the poller, the network, a lost claim or a restart do in between.       *)
(***************************************************************************)
NothingLost == windows = {} => typed \subseteq Kept

(***************************************************************************)
(* Why it holds: the sync base, which lets an upload discard what the      *)
(* Y.Doc has and a pull discard what the file has, never contains a        *)
(* passage that this client has neither in its file nor in a conflict      *)
(* copy.  An empty file is excepted: an upload does not reconcile it and   *)
(* still records a base.                                                   *)
(***************************************************************************)
BaseWasShown ==
  windows = {} => \A b \in base :
    b \subseteq file \cup copied \/ file = {}

\* What the network and the operating system do to it.
Disturbance == SocketDrops \/ ConnectionError \/ Restart

\* The connection stays up though no flow uses it.
HeldOpen == online /\ \A t \in Tasks : At(t, "idle")

(***************************************************************************)
(* #e1c182a2, #d4dc6e95: when the faults stop too, the file, the Y.Doc and    *)
(* the relay come to hold the same text and keep it, unless a race window  *)
(* was fallen into or the connection is held open for ever: then neither   *)
(* the poller nor the modify handler looks at the document.                *)
(***************************************************************************)
Converges ==
  <>[][~Disturbance]_vars =>
    <>[](windows # {} \/ HeldOpen \/ (file = ydoc /\ ydoc = relay))
=============================================================================
