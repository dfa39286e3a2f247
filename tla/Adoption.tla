------------------------------ MODULE Adoption ------------------------------
(***************************************************************************)
(* How the clients of a share come to agree under which guid a path is     *)
(* shared: VaultShare.ts, FolderIndex.ts, uploadClaim.ts and mintGate.ts,  *)
(* for one text document of a share that also holds others.                *)
(*                                                                         *)
(* A client that finds a file without a record mints a guid for it, claims *)
(* the path in a Y.Map, waits until the claims are quiet, and publishes    *)
(* the record if the claim is its own.  Adoption does this for the files   *)
(* found at start-up, the vault's create event for a new one.  A scan of   *)
(* the folder downloads what has a record and no file, and trashes what    *)
(* has a file, no record and no minted guid.                               *)
(***************************************************************************)
EXTENDS Naturals, FiniteSets, SequencesExt

CONSTANTS
  Clients,   \* 1..n; Yjs decides concurrent writes by numeric client ids
  MaxEvents, \* how many restarts, drops, new files, deletions, sync commands
  MaxMints   \* how many guids a client may mint

AdoptionAssumption ==
  /\ Clients = 1..Cardinality(Clients) /\ IsFiniteSet(Clients)
  /\ {MaxEvents, MaxMints} \subseteq Nat

VARIABLES
  client,   \* [Clients -> what the client holds beside its replica]
  replica,  \* [Clients -> what has reached the client of the share's Y.Doc]
  relay,    \* what has reached the relay of it
  windows,  \* history: who fell into which window, see OneGuid
  trashed,  \* history: what the scan has trashed and should not have
  events

vars == <<client, replica, relay, windows, trashed, events>>

NoGuid == <<>>

-----------------------------------------------------------------------------
(* The share's Y.Doc: two Y.Map entries of the path.  An entry is the set  *)
(* of the items set in it, each a sequence that ends with the item itself  *)
(* and begins with those it was set over; gone are the deleted records.    *)

Nothing == [claims |-> {}, records |-> {}, gone |-> {}]
Merged(r, s) == [claims |-> r.claims \cup s.claims,
                 records |-> r.records \cup s.records, gone |-> r.gone \cup s.gone]

\* Yjs: an item set over another one wins; of two concurrent ones the higher id.
Beats(p, q) ==
  \/ IsStrictPrefix(q, p)
  \/ \E i \in DOMAIN p \cap DOMAIN q :
       p[i].by > q[i].by /\ \A j \in 1..(i - 1) : p[j] = q[j]

Top(items) ==
  IF items = {} THEN <<>> ELSE CHOOSE p \in items : \A q \in items \ {p} : Beats(p, q)
SetOver(items, item) == items \cup {Append(Top(items), item)}

\* What eachRecord() lists.
RecordIn(r) ==
  LET top == Top(r.records)
  IN IF top \in r.gone \cup {<<>>} THEN NoGuid ELSE Last(top).guid
Deleted(r) == IF RecordIn(r) = NoGuid THEN r ELSE [r EXCEPT !.gone = @ \cup {Top(r.records)}]

-----------------------------------------------------------------------------
(* A client.  Its Yjs client id is another one in every session.           *)

Id(c) == Cardinality(Clients) * client[c].session + c
Record(c) == RecordIn(replica[c])

\* guidFor: a minted guid hides the record.
Guid(c) == IF client[c].minted # NoGuid THEN client[c].minted ELSE Record(c)
Tracks(c) == Guid(c) # NoGuid

Claimed(c) == replica[c].claims # {}
Claimant(c) == Last(Top(replica[c].claims)).by
\* wonVpathClaim
Mine(c) == Claimed(c) /\ Claimant(c) = Id(c)

\* Faulty: the claim is set without looking for one.
WithClaim_Always(c, stale) == [replica[c] EXCEPT !.claims = SetOver(@, [by |-> Id(c)])]

\* A claim: isClaimStale believes awareness, which is late in both directions.
WithClaim(c, stale) ==
  IF ~Claimed(c) \/ (~Mine(c) /\ stale)
  THEN [replica[c] EXCEPT !.claims = SetOver(@, [by |-> Id(c)])] ELSE replica[c]

Synced(c) == client[c].synced

\* Another client has a guid or a record that the client does not know of.
OthersPublish(c) ==
  \E d \in Clients \ {c} :
    client[d].minted # NoGuid \/ replica[d].records \ replica[c].records # {}

(***************************************************************************)
(* awaitVpathClaimSettled: the clients that are connected have exchanged   *)
(* their claims before the quiet period ends, as it is checked for the     *)
(* same protocol in Claims; without a connection it ends all the same.     *)
(***************************************************************************)
Settled(c) ==
  Synced(c) => \A d \in Clients : Synced(d) =>
                 replica[d].claims = relay.claims /\ relay.claims = replica[c].claims

MintedBy(c) == {c} \X (1..MaxMints)
MayMint(c) == client[c].mints < MaxMints
Minted(c, cl) == [cl EXCEPT !.minted = <<c, cl.mints + 1>>, !.mints = @ + 1]

\* The document gets a wrapper, whose bootstrap and first upload are to come.
Wrapped(cl, g) ==
  [cl EXCEPT !.wrappers = @ \cup {g}, !.boots = IF g \in cl.wrappers THEN @ ELSE @ \cup {g}]

\* put: nothing happens when the record says so already.
Put(c, g) ==
  IF Record(c) = g THEN replica[c]
  ELSE [replica[c] EXCEPT !.records = SetOver(@, [by |-> Id(c), guid |-> g])]

\* The step's outcome; the observer of the records asks for a scan.
Becomes(c, cl, r) ==
  /\ client' = [client EXCEPT ![c] =
                  [cl EXCEPT !.scan = @ \/ (cl.tree /\ r # replica[c] /\ RecordIn(r) # Record(c))]]
  /\ replica' = [replica EXCEPT ![c] = r]

Falls(c, set) == windows' = windows \cup ({c} \X set)
When(condition, window) == IF condition THEN {window} ELSE {}
Spends == events < MaxEvents /\ events' = events + 1

\* removeEntry, after the vault's delete event.
Removed(cl) ==
  [cl EXCEPT !.file = "none", !.announced = TRUE, !.minted = NoGuid,
             !.wrappers = {}, !.boots = {}, !.trash = "no"]

-----------------------------------------------------------------------------
(* Finding a file *)

\* claimPaths and the claim: the flow named goes on when the claims are quiet.
MintAndClaim(c, cl, flow, stale) ==
  /\ MayMint(c)
  /\ Becomes(c, [Minted(c, cl) EXCEPT ![flow] = "settling"], WithClaim(c, stale))
  /\ Falls(c, When(~Synced(c), "no connection")
              \cup When(stale /\ Claimed(c) /\ OthersPublish(c), "claim taken over"))

(***************************************************************************)
(* claimAndUploadFile: a file of a tracked path gets its wrapper, another  *)
(* one is claimed.                                                         *)
(***************************************************************************)
CreateEvent(c, cl, stale) ==
  /\ cl.create = "idle"
  /\ IF Tracks(c)
     THEN /\ Becomes(c, Wrapped(cl, Guid(c)), replica[c])
          /\ Falls(c, When(cl.minted # NoGuid, "unclaimed"))
     ELSE MintAndClaim(c, cl, "create", stale)

\* A new file, of the user's or another program's.
FileAppears(c, stale) ==
  /\ client[c].file = "none" /\ Spends
  /\ CreateEvent(c, [client[c] EXCEPT !.file = "own"], stale)
  /\ UNCHANGED <<relay, trashed>>

\* The vault announces the files it finds when it is loaded, too.
FileAnnounced(c, stale) ==
  /\ ~client[c].announced /\ client[c].file # "none"
  /\ CreateEvent(c, [client[c] EXCEPT !.announced = TRUE], stale)
  /\ UNCHANGED <<relay, trashed, events>>

\* publishDoc: the record follows when the document has been uploaded.
CreateWins(c) ==
  /\ client[c].create = "settling" /\ Settled(c) /\ Mine(c)
  /\ Becomes(c, IF Tracks(c) THEN [Wrapped(client[c], Guid(c)) EXCEPT !.create = "idle"]
                ELSE [client[c] EXCEPT !.create = "idle"], replica[c])
  /\ Falls(c, When(~Synced(c), "no connection"))
  /\ UNCHANGED <<relay, trashed, events>>

\* clearPendingUpload
ForgetsGuid(cl) == [cl EXCEPT !.minted = NoGuid]

\* adoptWinnerDoc: the minted guid is dropped; the winner's has yet to arrive.
CreateLoses(c) ==
  /\ client[c].create = "settling" /\ Settled(c) /\ ~Mine(c)
  /\ Becomes(c, [ForgetsGuid(client[c]) EXCEPT !.create = "waiting"], replica[c])
  /\ Falls(c, When(~Synced(c), "no connection"))
  /\ UNCHANGED <<relay, trashed, events>>

\* awaitVpathResolved, and docAt for the winner's guid.
CreateAdopts(c) ==
  /\ client[c].create = "waiting" /\ Tracks(c)
  /\ Becomes(c, [Wrapped(client[c], Guid(c)) EXCEPT !.create = "idle"], replica[c])
  /\ Falls(c, When(client[c].minted # NoGuid, "unclaimed"))
  /\ UNCHANGED <<relay, trashed, events>>

\* The winner was not heard of within 5 s: docAt mints a guid, without a claim.
CreateTimesOut(c) ==
  /\ client[c].create = "waiting" /\ ~Tracks(c)
  /\ IF client[c].file = "none"
     THEN Becomes(c, [client[c] EXCEPT !.create = "idle"], replica[c]) /\ UNCHANGED windows
     ELSE /\ MayMint(c)
          /\ LET cl == Minted(c, client[c])
             IN Becomes(c, [Wrapped(cl, cl.minted) EXCEPT !.create = "idle"], replica[c])
          /\ Falls(c, {"winner slow"})
  /\ UNCHANGED <<relay, trashed, events>>

-----------------------------------------------------------------------------
(* Adoption *)

(***************************************************************************)
(* The rest of adoptLocalFiles, once the claim is decided:                 *)
(* ensureFileMetadata publishes the guid, unless the claim was lost, and   *)
(* _resolveLocalDoc builds a wrapper.  It asks entryFor first, for which   *)
(* the path is tracked, so adoptWinnerDoc is never reached from here.      *)
(***************************************************************************)
Adopts(c, lost) ==
  LET cl == [client[c] EXCEPT !.startup = "done", !.adopt = "idle", !.scan = TRUE]
  IN IF ~Tracks(c)
     THEN Becomes(c, [client[c] EXCEPT !.startup = "done", !.adopt = "idle"], replica[c])
     ELSE IF lost \/ Record(c) # NoGuid THEN Becomes(c, Wrapped(cl, Guid(c)), replica[c])
     ELSE Becomes(c, [Wrapped(cl, Guid(c)) EXCEPT !.minted = NoGuid], Put(c, Guid(c)))

\* partitionByKnownGuid
Deferred(c, allowMint) == ~allowMint /\ ~Tracks(c)

AdoptLocalFiles(c, allowMint, stale) ==
  /\ client[c].adopt = "idle"
  /\ LET started == [client[c] EXCEPT !.startup = "done"]
     IN \/ /\ client[c].file = "none" \/ Deferred(c, allowMint)
           /\ Becomes(c, [started EXCEPT !.scan = TRUE], replica[c])
           /\ Falls(c, When(client[c].file # "none", "deferred"))
        \/ /\ client[c].file # "none" /\ Tracks(c)
           /\ Adopts(c, FALSE)
           /\ Falls(c, When(client[c].minted # NoGuid, "unclaimed"))
        \/ /\ client[c].file # "none" /\ ~Tracks(c) /\ ~Deferred(c, allowMint)
           /\ MintAndClaim(c, started, "adopt", stale)
  /\ UNCHANGED <<relay, trashed>>

\* _onReady: after a fresh sync, or without one after 30 s.
OnReady(c, stale) ==
  /\ client[c].startup = "waiting"
  /\ AdoptLocalFiles(c, Synced(c), stale)
  /\ UNCHANGED events

\* refreshFromServer, "Relay: sync"
SyncCommand(c, stale) ==
  /\ Synced(c) /\ client[c].tree /\ Spends
  /\ AdoptLocalFiles(c, TRUE, stale)

AdoptDecides(c) ==
  /\ client[c].adopt = "settling" /\ Settled(c)
  /\ Adopts(c, ~Mine(c))
  /\ Falls(c, When(~Synced(c), "no connection") \cup When(~Mine(c), "adoption lost"))
  /\ UNCHANGED <<relay, trashed, events>>

-----------------------------------------------------------------------------
(* Documents and the scan *)

(***************************************************************************)
(* The document of g has met the relay in this or an earlier session:      *)
(* bootstrapAfterSync publishes its record.  Meanwhile its upload or its   *)
(* fetch has brought file and document together, as DocSync describes.     *)
(***************************************************************************)
Bootstrapped(c, g) ==
  /\ g \in client[c].boots
  /\ Synced(c) \/ g \in client[c].acked
  /\ Becomes(c, [client[c] EXCEPT !.boots = @ \ {g}, !.acked = @ \cup {g},
                                  !.minted = IF Record(c) = g THEN @ ELSE NoGuid,
                                  !.file = IF Synced(c) THEN "shared" ELSE @], Put(c, g))
  /\ Falls(c, When(Record(c) # g /\ client[c].minted # g, "stale wrapper"))
  /\ UNCHANGED <<relay, trashed, events>>

\* Faulty: a minted guid does not protect its file.
Orphaned_Minted(c) == client[c].file # "none" /\ Record(c) = NoGuid

\* _maybeDeleteOrphanedFile
Orphaned(c) == client[c].file # "none" /\ Record(c) = NoGuid /\ client[c].minted = NoGuid

(***************************************************************************)
(* scanFileTree: pull what has no file, prune what has no record.  It is   *)
(* held back until the first sync, after which adoption starts in the same *)
(* turn as the records are observed.                                       *)
(***************************************************************************)
Scan(c) ==
  LET cl == [client[c] EXCEPT !.scan = FALSE]
  IN /\ client[c].scan /\ cl.tree /\ cl.startup = "done" /\ cl.trash = "no"
     /\ Becomes(c, IF cl.file = "none" /\ Record(c) # NoGuid THEN Wrapped(cl, Guid(c))
                   ELSE IF Orphaned(c) /\ cl.synced
                   THEN [cl EXCEPT !.trash = IF cl.wrappers = {} THEN "plain" ELSE "copied"]
                   ELSE cl, replica[c])
     /\ Falls(c, When(Orphaned(c) /\ cl.synced /\ cl.create = "waiting", "pruned while waiting")
              \cup When(Orphaned(c) /\ ~cl.synced, "prune skipped"))
     /\ UNCHANGED <<relay, trashed, events>>

(***************************************************************************)
(* The file is trashed, after a copy of what a wrapper shows to be         *)
(* unsynced; the delete event then deletes the record, whatever it is.     *)
(***************************************************************************)
Trash(c) ==
  /\ client[c].trash # "no"
  /\ Becomes(c, Removed(client[c]), Deleted(replica[c]))
  /\ trashed' = trashed
       \cup ({c} \X (When(client[c].file = "own" /\ client[c].trash = "plain", "unshared file")
                  \cup When(Record(c) \notin {NoGuid} \cup MintedBy(c), "another's record")))
  /\ UNCHANGED <<relay, windows, events>>

\* The copy cannot be written: the file stays until another scan.
TrashSkipped(c) ==
  /\ client[c].trash = "copied" /\ Spends
  /\ Becomes(c, [client[c] EXCEPT !.trash = "no"], replica[c])
  /\ Falls(c, {"prune skipped"})
  /\ UNCHANGED <<relay, trashed>>

\* The user deletes the file.
FileDeleted(c) ==
  /\ client[c].file # "none" /\ Spends
  /\ Becomes(c, Removed(client[c]), Deleted(replica[c]))
  /\ UNCHANGED <<relay, windows, trashed>>

-----------------------------------------------------------------------------
(* The connection and sessions *)

Unsent(c) == Merged(relay, replica[c]) # relay
Behind(c) == Merged(replica[c], relay) # replica[c]

\* A new record arrives where its predecessor's document is still followed.
Overtaken(c, r) ==
  When(RecordIn(r) \notin {NoGuid, Record(c)}
         /\ \E p \in r.gone : Last(p).guid \in client[c].wrappers, "path reused")

\* A fresh sync: what either side has the other one gets.
Sync(c) ==
  /\ ~Synced(c)
  /\ LET r == Merged(replica[c], relay)
     IN /\ Becomes(c, [client[c] EXCEPT !.synced = TRUE, !.tree = TRUE], r)
        /\ relay' = r
        /\ Falls(c, Overtaken(c, r))
  /\ UNCHANGED <<trashed, events>>

Drop(c) ==
  /\ Synced(c) /\ Spends
  /\ client' = [client EXCEPT ![c].synced = FALSE]
  /\ Falls(c, When("settling" \in {client[c].create, client[c].adopt}, "no connection"))
  /\ UNCHANGED <<replica, relay, trashed>>

Push(c) ==
  /\ Synced(c) /\ Unsent(c)
  /\ relay' = Merged(relay, replica[c])
  /\ UNCHANGED <<client, replica, windows, trashed, events>>

Receive(c) ==
  /\ Synced(c) /\ Behind(c)
  /\ LET r == Merged(replica[c], relay)
     IN Becomes(c, client[c], r) /\ Falls(c, Overtaken(c, r))
  /\ UNCHANGED <<relay, trashed, events>>

Started(session, file) ==
  [session |-> session, synced |-> FALSE, tree |-> FALSE, startup |-> "waiting",
   file |-> file, announced |-> file = "none", minted |-> NoGuid, mints |-> 0,
   wrappers |-> {}, boots |-> {}, acked |-> {}, create |-> "idle", adopt |-> "idle", scan |-> FALSE, trash |-> "no"]

(***************************************************************************)
(* The plugin ends at any moment and starts again; the file may have       *)
(* appeared or gone meanwhile.  Minted guids are kept for files that still *)
(* exist (_pruneStalePendingUploads).                                      *)
(***************************************************************************)
Restart(c, file) ==
  /\ Spends
  /\ file \in {client[c].file, IF client[c].file = "none" THEN "own" ELSE "none"}
  /\ client' = [client EXCEPT ![c] =
       [Started(@.session + 1, file) EXCEPT
          !.minted = IF file = "none" THEN NoGuid ELSE client[c].minted,
          !.mints = client[c].mints, !.acked = client[c].acked]]
  /\ UNCHANGED <<replica, relay, windows, trashed>>

-----------------------------------------------------------------------------
Files == {"none", "own", "shared"}

Init ==
  /\ client \in [Clients -> {Started(0, file) : file \in {"none", "own"}}]
  /\ replica = [c \in Clients |-> Nothing]
  /\ relay = Nothing
  /\ windows = {} /\ trashed = {}
  /\ events = 0

Next ==
  \E c \in Clients :
    \/ \E stale \in BOOLEAN :
         \/ FileAppears(c, stale) \/ FileAnnounced(c, stale)
         \/ OnReady(c, stale) \/ SyncCommand(c, stale)
    \/ CreateWins(c) \/ CreateLoses(c) \/ CreateAdopts(c) \/ CreateTimesOut(c)
    \/ AdoptDecides(c)
    \/ \E g \in client[c].boots : Bootstrapped(c, g)
    \/ Scan(c) \/ Trash(c) \/ TrashSkipped(c) \/ FileDeleted(c)
    \/ Sync(c) \/ Drop(c) \/ Push(c) \/ Receive(c)
    \/ \E file \in Files : Restart(c, file)

Spec == Init /\ [][Next]_vars

-----------------------------------------------------------------------------
(* Properties *)

Guids == Clients \X (1..MaxMints)
\* Everything has been heard of and acted upon.
Quiet ==
  \A c \in Clients :
    /\ client[c].startup = "done" /\ client[c].create = "idle" /\ client[c].adopt = "idle"
    /\ client[c].boots = {} /\ ~client[c].scan /\ client[c].trash = "no"
    /\ Synced(c) /\ replica[c] = relay

(***************************************************************************)
(* When nothing is left to do, every client that has the file follows the  *)
(* document the share's record names, and none a guid of its own: for this *)
(* uploadClaim.ts has the clients claim a path before they publish it.     *)
(* Outside of the windows, each of which is a race or a failure the claims *)
(* do not cover:                                                           *)
(*   no connection      a claim was made, awaited or decided offline;      *)
(*   claim taken over   from a session thought gone, when another client   *)
(*                      has a guid or a record that is still to arrive;    *)
(*   adoption lost      _resolveLocalDoc keeps the guid whose claim lost;  *)
(*   winner slow        a loser waits 5 s, then mints without a claim;     *)
(*   unclaimed          a guid minted in an earlier session, or by a flow  *)
(*                      that still awaits its claim, counts as tracked;    *)
(*   stale wrapper      a document publishes its guid after its record was *)
(*                      deleted or replaced;                               *)
(*   path reused        a file deleted and created again has a new guid,   *)
(*                      and others still follow the old one;               *)
(*   prune skipped      offline, or a copy failed, and no scan follows;    *)
(*   deferred           no fresh sync was confirmed, and a scan followed;  *)
(*   pruned while waiting  the loser's file, between its two guids.        *)
(***************************************************************************)
OneGuid ==
  (windows = {} /\ Quiet) =>
    \A c \in Clients : client[c].file # "none" =>
      Record(c) # NoGuid /\ Guid(c) = Record(c) /\ Record(c) \in client[c].wrappers

\* The scan takes files for deleted by others when they have no record
\* (_maybeDeleteOrphanedFile).  It trashes no file that was never shared, at
\* least not without a copy, and the delete event that follows deletes no
\* record another client has put there meanwhile.
PruneIsSafe == windows = {} => trashed = {}

\* CONSTRAINT: the states a window leads to are of no interest.
OutsideWindows == windows = {}
=============================================================================
