# Team Relay plugin: TLA+ models, checks and proofs

The Team Relay plugin (`src/`) keeps folders of an Obsidian vault in step with a
relay server and, through it, with other clients. A shared document exists
several times on one client: as a file in the vault, as a Yjs document (the
"Y.Doc", persisted in IndexedDB), and on the relay. Many independent flows
copy text between them, each an asynchronous function with many awaits, with no
lock between them. This directory models those flows, checks them with TLC and
proves the bookkeeping under them with TLAPS.

## 1. The system

All paths are under `src/src/`.

| component | state it keeps | operations | what must hold |
|---|---|---|---|
| **Transfer queue lanes** `TransferQueue.ts` | per lane (sync, download): queue, running tasks, in-flight guids, waiters; per share: a progress batch | enqueueUpload, enqueueFetch, enqueueShareUpload, drain, complete / fail / release a task, suspend, wake, shutdown | no document twice in a lane, no guid left behind, every caller told, at most `laneLimit` at once, accepted work starts |
| **Document synchronisation** `TransferQueue.ts`, `ytextDiff.ts`, `Document.ts` | vault file, Y.Doc, relay text, recorded *sync base*, conflict copies | upload and reconcile, fetch with retries, background pull | no text that anybody typed is lost; no spurious conflict copies; the three texts converge |
| **Provider connection** `ProviderBacked.ts`, `client/provider.ts` | intent, socket, synced flags, reconnect gate | bringOnline, goOffline, setupWS, onclose, token refresh | a wanted link comes back, an unwanted one stays down, no dial with a dead token |
| **Background poller** `CrdtBackgroundSyncPoller.ts` | pulling and waiting guids | poll, drain, destroy | bounded, one pull per document |
| **Claims** `initContentClaim.ts`, `reconcileClaim.ts`, `uploadClaim.ts` | last-writer-wins entries in a shared Y.Map | claim, settle, decide | one client seeds a new document, one reconciles a base, one publishes a path |
| **Credential cache** `CredentialCache.ts`, `RelayCredentialCache.ts` | tokens, subscribers, in-flight requests, refresh queue | acquire, sweep, refresh, drop, purge | bounded refreshes, a subscriber gets its token, an offline document is not refreshed |
| **Inbound file sync** `InboundSyncPoller.ts`, `InboundFileDownloader.ts` | watermarks, hash manifests, conflicts | poll, download, resolve conflicts | no local edit overwritten, nothing skipped for ever |
| **Vault share** `VaultShare.ts`, `mintGate.ts` | tracked entries, pending creates and deletes | adopt local files, prune, rename, delete, publish | one guid per path, nothing deleted that is not known to be gone |
| **Folder index** `FolderIndex.ts` | two Y.Maps, minted guids, staged writes, aliases | put, delete, repath, recordFor, applyStaged | path-to-guid is a function the replicas agree on |
| **Attachments** `AttachmentFile.ts` | file, cached hash, remote metadata | runSync, pushToRemote, pullFromRemote | the last edit is everywhere; no record without its bytes; unsaved edits are not written over |
| **Sign-in and sessions** `AuthSession.ts`, `auth/` | a provider's user and tokens, the stored session, currentUser | sign in, refresh, restore, sign out, change or remove the server | one user's tokens with that user, to their own host; signed out stays out; a good session survives failures |
| **Editor bindings** `ViewBindings.ts`, `y-codemirror.next/LiveEditPlugin.ts` | tracked views, editLock, isTracking, a text set aside | refresh passes, mount, unmount, resync, observe, update | buffer and Y.Doc in step while positions are exchanged; nothing overwritten that is nowhere else |
| **Outbound web sync** `WebSyncManager.ts` | registered shares, last pushes, debounced calls, a count of pushes under way | push a file, a list or everything; debounce, rate limit, retry | what is published follows the vault; the echo guard is up while anything is pushed |
| **Session store** `auth/RelayOnPremAuthStore.ts` | a blob of all servers' sessions, its copy in memory, the keys of older versions | load, persist, evict, rename, migrate | what was stored last is found, whatever the storage does |
| **Settings** `SettingsPersistence.ts` | one object of all settings | write a field, an item, remove an item, persist | overlapping writes of different settings are all kept |
| canvas documents, clients, UI | see `PROJECT.json` | | |

They interact through direct calls and events. The vault's *modify* event, the
poller's tick, the share's start-up and the user's "Relay: sync" command put
work into a lane or start a pull. A lane runs a synchronisation flow, which takes
the document's provider online (a token from the credential cache, then the
socket), waits, reads file and Y.Doc, settles a claim with the other clients
through the Y.Doc's own `meta` map, changes the Y.Doc or the file, and drops the
connection. Every write of the file raises a modify event again.

What is hard here, and hard to test:

* every flow reads, awaits and then acts on what it read, and several flows of
  one document can be between those two points at once;
* the connection of a document is shared by flows that each decide alone whether
  to drop it, and by timers that bring it up again later;
* what may be discarded is decided by one persisted value, the sync base, which
  has to be right after any interruption;
* callers wait on promises whose resolvers are stored in maps keyed by guid.

`PROJECT.json` lists these hazards line by line, with the properties for each.

## 2. Modules

| module | models | role |
|---|---|---|
| `JobPool` | nothing in particular: what a lane promises | abstract specification |
| `TransferLanes` | the lanes, waiters and batches of `TransferQueue.ts` | implements `JobPool`, once per lane |
| `TransferLanes_proof` | | theorems about `TransferLanes`, and the steps of that refinement |
| `DocSync` | one document: file, Y.Doc, relay, base, link and the three flows | |
| `DocSync_proof` | | theorems about `DocSync` |
| `Claims` | who seeds an empty document and who applies its own edit: claims in a replicated Y.Map | |
| `Claims_proof` | | theorems about `Claims` |
| `Adoption` | under which guid the clients of a share come to know a path: adoption, creation, claim, publication, pruning | |
| `FolderTree` | renames, moves and deletions: the folder index of several clients, their disks, and the scan between them | uses `YMapEntry` |
| `Attachments` | one attachment: push, pull, comparison, and what starts them | uses `YMapEntry` |
| `YMapEntry` | which of two writes of one Y.Map key is kept | a definition |
| `TokenSource` | what a document may expect of its token cache | abstract specification |
| `Credentials` | the token cache, its sweep and its queue of renewals | implements `TokenSource` |
| `Connection` | a document's provider: sockets, reconnect gate, token renewal | built on `TokenSource` |
| `Connection_proof` | | theorems about `Connection` and `Credentials`, and the steps of that refinement |
| `InboundSync` | poller, downloader and the push that stands in their way | |
| `InboundSync_proof` | | theorems about `InboundSync` |
| `Sessions` | one server's session: provider, manager, store and AuthSession | |
| `Sessions_proof` | | theorems about `Sessions`, `AuthStore` and `Settings`, in the frame of `MCSessions` |
| `OpenEditor` | one document in an editor: refresh passes, plugin, what is set aside | |
| `OpenEditor_proof` | | theorems about `OpenEditor` |
| `WebSync` | how a published share follows the vault | |
| `AuthStore` | the store that `Sessions` takes to be one atomic value | |
| `Settings` | how overlapping writes of settings reach the file | |
| `MC...` | | instances for TLC; `MCShare` and `MCSessions` check three modules each, side by side |
| `Share_proof` | | theorems about `Adoption`, `WebSync` and `Attachments`, in the frame of `MCShare` |

How they are composed: `Connection` takes its tokens from `TokenSource`, and
`Credentials` is shown to implement `TokenSource`, so that neither needs the other's
detail. `TransferLanes` implements two `JobPool`s and `DocSync` relies on what they
promise (a document once per lane). `DocSync` takes a claim's outcome and the
connection's events as choices; `Claims` and `Connection` say which of them can be.
`Adoption`, `FolderTree` and `Attachments` share the rule for concurrent writes of a
Y.Map key. `WebSync` is the sender whose pushes `InboundSync` has to stand back from,
`AuthStore` the detail of the store in `Sessions`. `OpenEditor` covers the time `editLock` is set, in which `DocSync`'s flows
stand back.

Operators named with a suffix (`Release_KeepsInFlight`, `Observed_AlwaysDelta`) are
deliberately wrong variants of the definition they precede; no specification uses
them. Each property has one: with the variant in the definition's place TLC finds
the property violated (`mutants` in `PROJECT.json`).

### TransferLanes

One value of `Calls` is one call of an enqueue method: it stands for the promise
the call returns and for the task it may create. `queue`, `active`, `inFlight`,
`waiter` are the fields of `QueueLaneState`; `settled` marks the tasks that are
between `.then()` and `.finally()`, because the waiter is settled in the first
and the guid released in the second, and other code can run in between.
`batch` is the share's `TransferBatch`.

`QueueAndDrain` is `drainLane` inside the call that changed the queue: tasks of
online shares, in path order (`Rank`), until the lane is full. Two calls with the
same path order are started in either order. The three enqueue methods differ in
when they drain, exactly as the comment at `TransferQueue.ts:502` says.
`enqueueShareUpload` is one turn of the event loop: `EnqueueShareUpload` replaces
the batch and fills `todo`, and while `todo` is not empty only `EnqueueInBatch`
can happen. `Suspend`, `Wake`, `Shutdown`, `ShareOnline` and `ShareOffline` are the
remaining inputs. Runs start paused, as the constructor does.

Left out: the branch of `drainLane` for a run that throws synchronously (292-298;
every `run` is an async function), the percentages, and what a run does.

### DocSync

One relay-linked text document nobody has open in an editor (`editLock` false).
A text is a *set of passages*: `Original` ones it starts with, `Local` ones typed
into the vault file, `Peer` ones other clients add to the relay. Nobody deletes a
passage by hand, so a passage that is nowhere any more was discarded by the
program. Order and duplication inside a text are not modelled; the doubled texts
the claims prevent are the subject of `Claims`, and a claim is here won or lost.

| variable | code |
|---|---|
| `file`, `ydoc`, `relay`, `unreceived` | vault file; `doc.content`; the relay's text and what of it has not arrived |
| `base` | `Document.getSyncBase()`, as the set of one text or of none |
| `copied` | passages in files written by `writeConflictCopy` |
| `wanted`, `online`, `gate` | provider intent, open socket, pending `ReconnectGate` timer |
| `everSynced`, `acked` | the sticky `_providerSynced`; the persisted server acknowledgement |
| `modified` | a modify event that has not been handled |
| `queued` | flows waiting in their lane (one per lane, as `TransferLanes` guarantees) |
| `task` | for each flow where it is and what it has read: `vault`, `synced`, and `owner` (it found the provider disconnected) |
| `windows` | history: which race windows the behaviour has fallen into |

A step of a flow is what it does between two awaits that matter: `connecting`,
`syncing`, `comparing`, `seeding`, `choosing`, `settling`, `copying`, `flushing`,
`leaving`, and for the pull `reading`, `deciding`, `copying`, `writing`,
`rebasing`. The upload and the download lane run the same
`uploadDocumentViaSocket`; a fetch goes on with `FetchHeldBack` or `FetchFlush`.
The HTTP request of `fetchDocument` always fails for these documents (the code
says so at 1322-1326), so only its `catch` is modelled.

The environment: the user types (`TypeLocal`), peers type (`PeerAdds`), sockets
open, drop and fail, the gate fires, updates are received and pushed in any
order with everything else, the user asks for a sync (`"command"`), and the plugin is killed
and restarted at any step, keeping only what is persisted.

Simplifications: the pull's two reads at 814-815 are one step; one fetch is
queued in a lifetime and its detached retries are the state `retrying`;
the socket's retries are not exhausted (`canReconnect` stays true); a restart
does not find a minted but unpublished guid; the document stays tracked.

### Claims

Several clients, each with a `replica` of what has reached it: the claims set in
one Y.Map entry and the texts inserted. `kind` says which of two uses the
behaviour is about: the init claim (`initContentClaim.ts`: who seeds an empty
document with its file) or the reconcile claim (`reconcileClaim.ts`: who may apply
its own unsynced edit without a conflict copy). An attempt goes from `Claim` through
`flushing` (`waitForBufferFlush`) and `settling` (`awaitClaimSettled`) to its decision:
for the init claim after one more read of the file (`reading`, `DecideInit`), for the
reconcile claim at once (`SettledReconcile`), the loser going on to write a copy
(`copying`, `CopyWritten`).

Yjs decides the entry: a claim set over another one wins, of concurrent ones the one
with the higher client id. So a claim is the sequence of clients it was set over,
and `Beats` compares two of them; all of this, the relay and awareness are external
code, modelled from how `src/` uses it. Time passes in ticks: an update waits at most
`MaxFlush` of them in its writer's buffer and needs at most `MaxDelay` to each other
client, while `Quiet` and `MaxWait` are `quietMs` and `maxWaitMs`. Sessions end
(`Die`) and awareness learns of others' coming and going arbitrarily late.

`saw` and `fast` are history: what a writer knew, and which writes were made without
a copy. Simplifications: the time to live of a claim is left out (every caller
passes awareness, and then it is not looked at); the file is not empty; a client
makes one attempt at a time and its socket stays up during it; and the document is
not emptied again by hand. The claims on paths (`uploadClaim.ts`) follow the same
protocol; `Adoption` takes its exchange of claims as given.

### Adoption

Two clients and one path of a text document, in a share that also holds other
documents (so that `pruneUntrackedFiles` does not stop at an empty share). `client`
is what a client holds: its file (`none`, `own`: never shared, `shared`), the minted
guid, the documents it has built by guid (`wrappers`) and which of them have yet to
run `bootstrapAfterSync` (`boots`), and where it is in start-up, in adoption, in a
create event, in a scan and in trashing. `replica` and `relay` are the share's Y.Doc:
claims and records, with Yjs's rule for concurrent sets as in `Claims`.

| action | code |
|---|---|
| `FileAnnounced`, `FileAppears` | the vault's create event, `claimAndUploadFile` up to its claim |
| `CreateWins`, `CreateLoses`, `CreateAdopts`, `CreateTimesOut` | the rest of it: `publishFile`; `adoptWinnerDoc`, whose wait ends with the winner's record or after 5 s |
| `OnReady`, `SyncCommand`, `AdoptDecides` | `_onReady` (with or without a fresh sync), `refreshFromServer`, and `adoptLocalFiles` before and after its claims are quiet |
| `Bootstrapped` | `Document.bootstrapAfterSync`, `noteUploaded`, `put` |
| `Scan`, `Trash`, `TrashSkipped` | `scanFileTree`, `_maybeDeleteOrphanedFile`, the delete event the trashing raises |
| `FileDeleted` | the user's deletion |
| `Sync`, `Drop`, `Push`, `Receive` | the share's connection |
| `Restart` | the end of a session and the next one's constructor; minted guids are persisted |

`Settled` is the one assumption on time: clients that are connected have exchanged
their claims when the quiet period ends, which `Claims` shows for a quiet period
longer than the flush and two delays. Simplifications: a create event for a tracked
path builds its document at once instead of after `awaitReady`; the two Y.Maps of
`FolderIndex` (records and legacy ids), always written together for a document, are
one; `put` and the upload it follows are one step; a share the client has just
created itself (`freshlyCreated`), renames, folders, canvases and attachments are
left out.

### FolderTree

Two levels: folders, and documents in them. A document is its guid, and a file holds
the text of one document. `local[c]` is what a client has: its replica of the index
(`records`), the index's local maps (`minted`, `aliases`), the vault (`disk`), the
tracked entries, and where its scan is. `Receive` applies one transaction of the index
and detects folder renames (`findFolderRenames`), `ScanFolders`, `ScanDocs` and
`ScanPrunes` are the three parts of a `scanFileTree` pass, `Renames`, `Creates`,
`Fetched`, `Uploaded`, `FolderCreated` the operations it waits for, `UserRename`,
`UserDelete`, `UserCreate` the vault's events with the handlers they raise
(`renameEntry`, `removeEntry`).

`creations` are the folders being created, each with the path its entry had when the
creation began: `FolderCreated` makes the folder there, and writes the record where the
entry is by then. A record whose path the index takes for another (`Resolve`) is not
acted on by `OpsFor` when there is no record at that other path. What a transaction does
to legacy ids (`legacyListener`, `upgradeLegacy`) follows every transaction that changed
a document's key (`Heard`). A behaviour follows one `plan`: what the folder holds at
first, which clients' users do what, at which paths, and how often.

Left out: the same path created by two clients at once (`Adoption`), conflict copies,
moves in and out of the share; everybody is online and synchronised. The writes of
`_renameFolder` are one transaction. `stagedWrites` stays empty here: `upgradeEntry`
stages a record, of a document or of a folder above it, only where the document's own
record does not have the guid of its legacy entry (`FolderIndex.ts:521`), and both are
written in one transaction. Users do not move one document on two clients at a time: see
"Known behaviours".

### Attachments

One attachment. `disk` is each client's file with its modification time, `record` its
replica of the attachment's entry in the index (hash and `synctime`), `blobs` what the
server keeps under each hash. A flow goes from `Compare` (`runSync`, with what it read
in `meta`) to a push (`Hashed`, `Named`, `Put`, `Noted`) or a pull (`Checked`,
`Fetched`); two flows of one client run at a time. `Modified`, `Adopt`, `Scan` and
`SyncCommand` start them; `Edit`, `Stop`, `Start`, `Drop`, `Connect` and the failures
are the environment. Reading a file and hashing it is one step; the later
`readBytes` and `resolveHash` of a push remain apart.

Left out: the verification of uploads (a developer's toggle), the menu's download and
upload, renames, matching a moved file by its hash.

### TokenSource and Credentials

`token[d]` is the age of the cached token ("due": inside the renewal margin), `shared`
the requests other callers join, `renewing` and `pendingQueue` the sweep's renewals.
`TokenSource` is what `Connection` needs: whoever asks is answered, and a token given
is fresh. Left out: file tokens, the order of the queue, `resetState` (it runs at
unload).

### Connection

A provider's fields are one record, a handler is a function from record to record, and
a socket has a state of its own: `close()` only starts to close it, and its close event
arrives later, at whichever provider state there is then. `GateFires` and `TimerFires`
are the `ReconnectGate` and the provider's own back-off; `TokenSettles` ends a
`bringOnline`. A change of the share's server brings only documents online again that were
online then; the others count as let go (`ResetConnection`). Left out: the messages,
awareness, the broadcast channel. A request in
flight when a document is let go is not cancelled by the code; `late` marks these.

### InboundSync

One server, its shares and their files; a content stands for its hash. `job` is the
poll under way: its phase names what is awaited (`share`, `index`, `fetch`, `write`) or
where its loops are (`next`, `file`), and `copy` is the manifest the downloader read
before. `KeepLocal` and `TakeServer` are the user's decisions about a conflict,
`PushBegins` and `PushEnds` the outbound push of `WebSyncManager.ts`, `Restart` keeps
what is persisted. The path containment check and the length of the back-off are
abstracted.

### Sessions

One configured server whose address may change, two users. A grant is an access
token with its refresh token; the server exchanges a refresh token once. `object` are
the provider objects (a replaced one may still be in use), `store` what outlives the
application, `session` what `AuthSession` shows. `call[c]` is one asynchronous method
with its stage: password sign-in (two requests), OAuth, refreshes of three origins,
sign-out. Left out: several servers, `setActiveServer`, the OAuth callback server.

### OpenEditor

One markdown document and one leaf. A text is a *sequence* of passages here, because
what plugin and Y.Doc exchange are positions.

| variable | code |
|---|---|
| `file`, `unsaved` | the vault's file; what `refreshIfStale` has set aside |
| `ytext`, `stored`, `loaded` | `doc.crdtText`; IndexedDB's text and whether it was applied |
| `editor`, `dirty` | CodeMirror's buffer; whether Obsidian has yet to save it |
| `plugin` | the leaf's `LiveCMPluginValue`: none, with a view ("bound"), without one ("embed") |
| `flows` | its calls of `resync`: `offline` (onceOnline), `waiting` (first sync, provider), `claiming`, `comparing` (an awaited `refreshIfStale`); a destroyed plugin's are orphans |
| `binding`, `tracking` | the document's entry in `trackedViews`: a `DocumentViewBinding` of the open leaf ("live") or of a closed one ("old"), or a `SignedOutViewBinding` of either ("signedout", "gone"); its `isTracking` |
| `lock` | `editLock`: free, held, or "again": set once more after its view was released |
| `signedIn` | `AuthSession.isAuthenticated` |
| `pass`, `found`, `again` | `_executeRefreshPass` and `pendingRefreshQueue` |
| `failed` | the last pass threw, or left the document's view out |

`NothingOpen`, `ViewsMatch`, `ViewsDiffer` and `ViewsReady` are the four ways a pass
takes; between the last two it waits for the documents' persisted text. `Fresh` is what
`collectOpenViews` makes of the leaf: a view while somebody is signed in, else a
`SignedOutViewBinding`, for which the document's view is unmounted and its lock released
although the leaf is open; `Collects` is that, or the view left out on an error or when
the folder is not prepared after all (`awaitReady` gives up after 30 s). `PassFails` is a pass that throws.
`SignsInOrOut`, `NetworkOnline` and `OtherRefresh` ask for a pass. Every pass
destroys and makes all plugins again (`installExtensions`). `Load`, `PeerInserts`,
`PeerDeletes`, `PeerSeeds` and the end of an init claim reach the plugin's observer
(`Observed`): as a delta, or, for a view that is not tracking, as a keyframe.

`KeyFrame` abstracts the diff of `incrementalBufferChange`: it is right when the two
texts differ in one place. Its positions are not right for a second change (insertions
advance the position, deletions do not, and CodeMirror counts in the old buffer), so
then it may be right (a clean-up made it one change), misplaced, or throw.

Left out: embedded and canvas editors, `TextViewPatch.ts`, the reading view, a leaf
that switches files, Obsidian's reloading of a file written behind an editor, the merge
dialog, `shutdown`, a mount whose `awaitFullyConnected` is rejected.

### WebSync

One published share, of a document or of a folder. A content is a number.
`reg` is `autoSyncShares`, whose values are `ShareInfo` *objects*: a share that is
registered again gets a new one, `recent` says of which the last push is less than 5 s
ago, and `closure` and `timers` hold the one a debounced call closed over. Each of
`Pushes` is one asynchronous push: an automatic one, a list of the folder's files, or a
command's sweep over the files; `read`, `send`, `wait` (after a 429) and `list` are its
awaits, and an answer that is lost is as good as a failure. `Edit`, `Create`, `Rename`
and `Delete` are the vault's events with their handlers, `SyncAll` and
`SyncCurrentFile` the commands of `main.ts`, `outbound` is `_outboundSyncCount`.

Left out: the request for a slug that is not known yet, several shares side by side,
the buttons of the share's own views.

### AuthStore

Every method is synchronous and begins with `_migrateLegacy`, so each is one action;
what is left of interleaving is the storage, which may be full or refuse some keys, and
may be so at one operation and not at the next. `clearAll` has no caller. The store has
its host before anything is stored (`main.ts:517`), so `setHost`'s flush is not modelled.

### Settings

`current` is the object in memory, whose array of shares is shared by every copy that
does not replace it: `arrays` are the array objects, `current.array` names one. A write is
`mutate` up to its `loadData` (`WriteField`, `WriteItem`, `RemoveItem`), the comparison
with the file (`Loaded`), and the writing (`Written`). That the host writes files in the
order of the calls is external.

## 3. Runs

| run | instance | checks |
|---|---|---|
| `TransferLanes` | 1 share, 3 documents (one of which may never end), 2 slots, two or three of five calls | `LaneBooksExact`, `CompletedMeansIdle`, `LanesArePools`, `AcceptedTaskStarts` |
| `DocSync` | 1 local and 1 peer passage, all four starting situations, every kind of fault, 1 retry, 2 flows at once | `NothingLost`, `BaseWasShown` |
| `DocSyncLive` | 1 local and 1 peer passage, 1 retry, drops and restarts, with fairness | `Converges` |
| `Claims` | 2 clients with 2 attempts each, both uses, 1 session that ends, flush and delay 1, quiet period 4, limit 6 | `OneWriter`, `DeadClaimsAreReplaced` |
| `FolderTree` | 2 clients, 3 folders, 2 names, one of five plans of 3 or 4 user operations, 3 writes of a key | `Agreement`, `NothingLost` |
| `Share` | `Attachments`: 2 clients, 2 flows each, 3 events (edits, faults, commands), 2 writes of the record | `RecordHasBytes`, `NewestEverywhere`, `EditsKept` |
| | `Adoption`: 2 clients, 2 events (restart, drop, new or deleted file, sync command, failed copy), 2 guids each | `OneGuid`, `PruneIsSafe` |
| | `WebSync`: 2 paths, 2 pushes at a time, 3 contents, 2 registrations, 1 retry, 2 events | `WebFollowsTheVault`, `OutboundExact` |
| `Credentials` | 2 documents, 1 connection, 1 attempt, 2 fetches at a time | `QueueMoves`, `SubscriberInStep`, `StaysInTheSweep`, `IsATokenSource` |
| `Connection` | 1 document, 3 sockets, 2 open requests, 8 events | `LetGoStaysDown`, `SyncedUntilClosed`, `ComesOnline` |
| `InboundSync` | 1 share, 2 files, 3 contents, 2 events (failures, pushes, restarts) | `WatermarkIsHonest`, `KeptStaysKept`, `EditsKept`, `ChangesAreTakenUp` |
| `Sessions` | `Sessions`: 2 users, 2 hosts (one without refresh tokens), 2 providers, 2 calls, 3 grants, 5 events | `UserMatchesToken`, `SignedOutStaysOut`, `TokenToItsHost`, `RestartKeepsTheSession`, `LiveSessionKept` |
| | `AuthStore`: 2 servers, 3 sessions (one of an older version), 3 changes of the storage or restarts | `SessionsStay` |
| | `Settings`: 1 field, 1 share, 2 values, 3 writes at a time, 4 in all, 2 arrays | `SettledIsLatest` |
| `AuthStore` | as above, alone | `NoSessionVanishes`: violated |
| `OpenEditor` | 4 starting situations, 1 passage of the user, 1 of a peer, and one of four mixtures of openings, drops, passes, deletions, sign-outs and a failing pass | `InStepWhenTracking`, `NothingLost`, `ViewsFollowTheWorkspace`, `EditorFollows` |

`Share` and `Sessions` check three modules each: a behaviour is about one of them
(`part`), and the variables of the others have no value in it. `Share` has
1.1 million states, `DocSync` 1.8 million. Type invariants proved with TLAPS (section 4) are not repeated in the
runs, nor is `DialsWithGoodToken`.

The bounds and why they are enough. In the lanes, three documents, two slots and one
stuck run are the smallest case in which a task queues behind both a stuck and a live
one; the calls meet every state of a document's first task (queued, running, settled,
released), in the same and in the other lane. A document's flows decide on equality of
texts only: one edit on each side gives every pattern of equal and different among
file, Y.Doc, relay and base. One retry of a fetch already meets the first attempt's
leftovers. Two of a document's upload, fetch and pull go on at once (`FewFlows`): a race is
between two of them, and what the run checks is proved without that bound and for any
number of retries (section 4).

For the claims, two attempts of two clients meet a claim that is fresh, taken over,
contested or left by a dead session. The quiet period has to exceed the flush and
two delays (4 > 1 + 2 * 1, `ClaimsTiming`): the competitor's claim may be set one delay after ours,
by a client that has not received ours, and needs the flush and one more delay.
With 3 TLC finds two writers. The defaults, 300 ms and 3000 ms, are safe for delays
up to about 100 ms with flushes of the same size; the limit is 6 here so that it
does cut waiting short; `ClaimsTiming` asks that it exceed two flushes and two delays.

For adoption, two events give every pair of faults, in every order with the two
clients' start-up flows, claims, scans and deliveries; a client mints twice when its
create event and its adoption both find the file, or when it meets it again. The plans
of `FolderTree` (`MCPlans`) are two users with three operations in two folders, which
have a document beside an empty folder or two documents in one: a move, a move back or
onward, and one in the way; two users with three operations on three folders, and one
who makes and renames them, with four; and one user with four of all kinds on two folders
and a document. With four a folder is made, moved and made again, and something put into
it, while the other client is still busy with the first. Three
events of an attachment are two edits that race and the fault or command between
them; two writes of its record are one over the other or beside it. Three sockets are the given-up one, its successor and the successor's successor.
Two pushes meet each other and, with a retry, in either order; a share registered twice
has a debounced call that closed over the first registration. Storage that fills, has room
again and a restart are three changes. Three writes of settings are one that reads the
file, one on its way to it and one between.
Two documents and one connection make a renewal wait; two files make one fail and
the other succeed under one watermark. Three grants are a session, its renewal and
another user's.

In the editor, one passage added on each side suffices to tell positions in texts that
differ from positions in texts that agree; a leaf opened twice meets what is left of
its first view. The mixtures (`MCBudgets`) separate reopening, a lost connection with a
deletion, a pass somebody else asks for with one that fails, and a sign-out followed by a
sign-in; all of them at once do not fit the time a run should take.

### What the runs show

* `LaneBooksExact` (`InFlightExact` and `WaiterPerTask`): a document has at most one task
  in a lane, its guid is in flight exactly as long, and exactly the unsettled tasks have
  a waiter, whose promise is pending.
* `CompletedMeansIdle`: a batch becomes "completed" only when its share has nothing
  queued or running, unless `enqueueShareUpload` replaced its counters meanwhile.
* `LanesArePools`: refinement. Each lane implements `JobPool`.
* `AcceptedTaskStarts`: liveness; a lane with fewer stuck runs than slots starts
  everything it accepted.
* `DocSync!NothingLost`: every passage anybody typed is in the file, the Y.Doc, the
  relay or a conflict copy, outside the race windows below.
* `BaseWasShown`: why: the base, which allows an upload to discard what the Y.Doc
  has and a pull to discard what the file has, never names text that this client
  has not had in its file or in a copy.
* `Converges`: when faults stop, the three texts become equal and stay so, unless
  a window was fallen into or the connection is held open with no flow to use it
  (then the poller and the modify handler both leave the document alone).
* `OneWriter`: an empty document is seeded once, and of two clients that applied an
  edit without a copy one knew the other's, whichever session ends when and however
  wrong awareness is. A write that never left the machine of a session that ended is
  not counted: nobody else sees it until that machine is back.
* `DeadClaimsAreReplaced`: a claim left by a session that ended does not keep a
  document unseeded: a client that is alone and up to date has the text when its
  next attempt ends.
* `OneGuid`: outside the windows of `Adoption`, when nothing is left to do every
  client with the file follows the one document the share's record names.
* `PruneIsSafe`: outside them the scan trashes no file that was never shared, and
  what follows a trashing deletes no other client's record.
* `Agreement`, `FolderTree!NothingLost`: when nothing is under way all clients have
  the same records and each disk is what they say, and no document is gone that no
  user deleted; except at contested paths (where the users' own operations met, where a
  path was in use again while a client had an alias for it, or where a folder's entry
  moved while the folder was being created), and where an index was empty once or a scan
  was forgotten.
* `RecordHasBytes`, `Attachments!EditsKept`, `NewestEverywhere`: a record never names
  bytes the server does not have; no download takes an edit that is on this client
  alone; at rest every client has the last edit. Each outside its windows.
* `QueueMoves`: the count of running renewals is exact and one is waiting only while
  all connections are taken. `SubscriberInStep`: a subscriber has the fresh token the
  cache has. `StaysInTheSweep`: a document in use is seen by the sweep.
  `IsATokenSource`: refinement, with its fairness: every request is answered.
* `LetGoStaysDown`, `ComesOnline`: what is let go stays down, what is wanted comes and
  stays online once nothing fails. `SyncedUntilClosed`: "synced" is the
  state of a socket that is open or closing.
* `WatermarkIsHonest`, `ChangesAreTakenUp`: a share's watermark never claims more than
  was downloaded, shown as a conflict or given up, and it reaches every bump.
  `InboundSync!EditsKept`: no download replaces what only the vault has.
  `KeptStaysKept`: a conflict decided with "Keep local" does not come back.
* `UserMatchesToken`, `TokenToItsHost`: tokens stay with their user and their host.
  `SignedOutStaysOut`, `RestartKeepsTheSession`, `LiveSessionKept`: a session ends by
  sign-out and survives restarts and failures.
* `WebFollowsTheVault`: when nothing is under way for a file the server has its last
  edit, and a folder's list is the vault's, outside the exceptions below.
  `OutboundExact`: the echo guard is up exactly while a push of contents is under way,
  however pushes and commands overlap, fail and return early.
* `SessionsStay`: of every server the session stored last is found, through full storage,
  restarts, renames and the move from the old keys. `NoSessionVanishes`, that a session
  which was not evicted is kept somewhere, is **violated**: while the last save has
  failed the newest blob is the one in memory, and the old keys, once there is room, are
  moved into the stored blob only, which the next save replaces. With two
  servers' sessions under old keys, full storage, a sign-in to one server, room again and
  a sign-out from it are enough to lose the session of the other
  (`RelayOnPremAuthStore.ts:280`, against the comment at 248-250).
* `SettledIsLatest`: when no write is under way the file holds the last value of every
  setting, however writes overlapped.
* `InStepWhenTracking`: while a view is tracking, buffer and Y.Doc are equal, so that
  positions mean the same in both. `OpenEditor!NothingLost`: no passage is overwritten
  everywhere. `ViewsFollowTheWorkspace`: after the last pass the tracked view is live, and
  its lock held, exactly while the leaf is open and somebody is signed in, unless that
  pass threw or left the view out; a lock set once more on a released view is excepted.
  `EditorFollows`: the buffer comes to show the Y.Doc.

### The race windows

Several modules name situations in which the code does not keep what it should, in a
history variable `windows` (or `waived`, `excepted`, `orphaned`, `late`, `contested`). The
properties are stated outside them, and in `DocSync`, `DocSyncLive` and `OpenEditor`
a constraint stops the exploration there: a window is never left, so that hides nothing
from them. Each was found by TLC as a violation of one of the properties.

`DocSync`:

| window | what happens |
|---|---|
| edit during a pull | the file is edited between the pull's check and its write |
| edit during a fetch | the same for `fetchDocument`'s flush |
| edit of an empty file | the file is empty when compared, so no reconcile happens, and a base is recorded all the same |
| update during a reconcile | a peer's update reaches the Y.Doc while a copy is written or the buffer flushes: it is overwritten, or enters the base unseen |
| pull and reconcile at once | one acts on a base or text the other changes |
| two reconciles at once | the two lanes do not exclude each other for one document |
| copy failed | the base is recorded although the reconcile was skipped |

`Adoption` has ten, listed above `OneGuid` with what happens in each: the connection
is missing while a claim is made, awaited or decided; a claim is taken over from
a session thought gone while another client's guid or record is still to arrive; the
loser of a claim adopts with its own guid; the winner's record takes longer than
5 s; a guid minted earlier, or by a flow whose claim is undecided, counts as tracked;
a document publishes its guid after its record was deleted; a path is used again
while others follow its old document; a prune is skipped; a file is deferred; a
loser's file is pruned between its two guids.

`FolderTree`, for the paths in question and those of users' operations there
(`contested`): what two users do before all is in sync meets at a path, or a user puts
something where it was at work before; a client has an alias of a path that is in use
again; a folder's entry is moved while the folder is being created. And for everything:
a client's index was empty once; a scan asked for was never made.

`Attachments`: a PUT is refused and nobody looks; a transfer fails; a failed
response's body is written as the file; the file changes during a push or a pull; an
edit is made while the share is offline, or before the attachment is taken up; edits
cross; a pull or a push comes late; the record that an
unsaved file is no newer than gives way to a concurrent one that is older than the file.

`Sessions`: overlapping refreshes; a refresh overlapping a sign-in; a call overtaken by
a sign-out; a provider that was replaced; a rotated token not stored; the server's
answer lost; the token revoked.

`WebSync`, until the file's next edit or the next list: a push fails; a document is edited
again within the interval; a debounced call closed over an earlier registration; the
content of a created or renamed file; an edit while the share is not registered, or before a
restart; two texts, or two lists, under way at the same time.

`AuthStore`: an old key was found and could not be moved, or was moved beside a newer blob in
memory. `Settings`: a write failed, or found its value in the file while another value was
on its way there.

`OpenEditor`:

| window | what happens |
|---|---|
| edited early | the user edits a buffer that is not the Y.Doc's text yet, or that no plugin observes: the edit goes to another place, or is replaced by the keyframe |
| claim lost | an init claim is lost and the view's buffer is not the Y.Doc's text, because the winner's text has not come yet or the view failed to take it over: `resync` sets isTracking all the same, and what comes next is put in the wrong place |
| shifted | a keyframe of two separate changes lands elsewhere, and isTracking is set |
| not set aside | a peer's update reaches an untracked view first: the observer's keyframe replaces the buffer without reading the file, and the resync then finds both equal |
| saved first | Obsidian saves the replaced buffer, `scheduleSave` does, or a view that tracks is unmounted, before `refreshStaleState`, which is not awaited, has read the file |
| misplaced | a peer's deletion is applied as a delta by a plugin without a view, whose buffer is not the Y.Doc's text |

The last one matters only in a mixture of two openings and a deletion, which passes as
well (2.6 million states) but takes longer than a run should.

### Known behaviours

What the models show the code to do, against a comment, a document or the intent; no
run is kept for these, since the properties above name each as a window. The one kept as a
run of its own is `AuthStore`, because there a session is lost in a short sequence of
ordinary operations.

Documents and claims:

* `pullIfUnchanged` is said to confirm "immediately before writing" that the file is
  unchanged; two awaits lie in between.
* A client nobody types on writes a conflict copy and reverts a peer's edit: the pull's
  own write raises a modify event, and the fast path never asks whether the file has
  moved.
* The loser of a reconcile claim is said to diff against what the winner committed.
  Both quiet periods start from the same exchange of claims, so the loser decides
  before the winner's edit can arrive, and both edits end up in the text.
* "The loser never mints/publishes its own guid": `_resolveLocalDoc` asks `entryFor`
  first, for which the minted guid is tracked, so the reconciliation with the winner is
  not reached and the loser's guid replaces the winner's record.
* Deferred files are said to be "never at risk from pruneUntrackedFiles()": the scan
  that waited for the sync trashes them.
* A second `enqueueUpload` of a document in flight replaces the first caller's resolver,
  whose promise never settles (`TransferQueue.ts:385`).
* A reconcile skipped for a failed copy records the base all the same; a pull without a
  base keeps the connection it opened (`TransferQueue.ts:830`); a file a peer deleted
  while this client was off is minted and published again, because adoption precedes
  the scan.

The tree:

* Two users move one document at a time: its guid is at two paths, each client takes the
  folders for renamed (`FolderIndex.ts:442`), in opposite directions, and the clients can
  go on exchanging them. So do scans when an id is at two folder paths.
* A pass that throws drops the scan asked for meanwhile (`VaultShare.ts:1770-1776`
  against the comment at 1766).
* Deleting everything leaves the other clients' files (an empty index is not pruned); a
  file deleted and created again at its path stays stale on others.
* The alias a peer's folder rename leaves is cleared only by a rename or deletion in the
  client's own vault, and `recordFor` and `guidFor` follow it although the path has a
  record of its own (`FolderIndex.ts:340`). Folder B is made, renamed to C while the peer is
  still creating B, and made again: while C has no record the peer never makes the new B,
  and a file the peer itself creates there counts as tracked. Of a new document at an old path the
  peer fetches the one the alias leads to and writes its text there.
* A folder is created where its entry was when the creation began (`TrackedFolder.ts:93`,
  `VaultShare.ts:2585`). When the scan relocates the entry meanwhile (2430-2437), the old
  path gets a folder, which is pruned or published anew, and the new path none.

Attachments:

* `attachmentAt` pulls whenever there is a record, so an attachment edited while Obsidian
  was closed is overwritten at start-up; one edited while the share is offline is not
  pushed (`canPush`) and nothing tries again, against "edits sync when you reconnect"
  (`src/README.md:29`).
* The answer to a PUT is not looked at, and a failed transport answers 503 as a
  response: the record may name bytes that are not there; a failed download's body is
  written into the file.
* An edit during a push publishes the hash of one content for the bytes of another; a
  slow pull makes a file newer than the next record, which the scan then never pulls.

Inbound files, connection, credentials:

* "Take server" relies on the next pass, which skips the share because its watermark is
  already equal (`InboundFileDownloader.ts:285-289`, `InboundSyncPoller.ts:105-107`).
* The late `onclose` of a socket given up by `disconnect()` orphans the socket opened
  since (`client/provider.ts:234` against the comment at 196-198).
* The sweep prunes the placeholder of a fetch in flight: the token that then arrives is
  not renewed.

Sessions:

* `reAuthForSensitiveAction` and `restoreAuth` do not share the refresh promise of
  `ensureTokenRefreshed`: the second refresh is rejected and ends a good session.
* A sign-out, removal or change of the server during a refresh is undone by its answer; a
  replaced provider stores the old host's session under the new one's key, against the
  comment at `MultiServerAuthManager.ts:87-92`.
* A refresh during a sign-in pairs the new user with the old user's token (the case
  TR-52 is about); a restart or a failing `/me` between rotation and store leaves a dead
  refresh token; a re-added server is not active until the next start.

Publication and settings:

* What a created or renamed file holds is not pushed, only the list; `syncFile` drops an edit
  made within 5 s of the last push although its debounce is 2 s, which TR-23 avoids for the
  files of a folder; a debounced push of a folder's file does nothing when the share was
  registered again meanwhile, as every login does; a push retried after a 429 sends the text
  it had read (`WebSyncManager.ts:218, 294, 329`).
* A write of settings compares with the file while another write is on its way there, and
  may find its value already present (`SettingsPersistence.ts:115`); an item written in
  place leaves the object equal to itself, so that subscribers are not told.

The editor, besides its windows:

* `_hasPendingCrdtUpdate` is never set, so `awaitFullyConnected` waits for IndexedDB
  only; one document that is not ready keeps all views of the pass waiting
  (`Promise.all`), against the comment above `awaitViewsReady`.
* A plugin without a view applies IndexedDB's text and the init insertion as deltas to a
  buffer that is already full: it shows the text twice until the next pass. A document
  somebody emptied counts as never seeded and is filled again from the next opened
  buffer, doubled if its plugin has no view.
* Two seconds after typing in such a plugin `scheduleSave` writes the Y.Doc's text over
  the file, whether or not that text has been loaded or seeded.
* A text set aside earlier is compared in place of the file, so a second divergence is
  not set aside.
* `isTracking`'s setter and `handleNetworkOnline` mount a view that a pass may have
  released meanwhile: its lock is held again, and nothing releases it before the next view
  (`ViewBindings.ts:551, 934`).
* A pass that throws while it waits leaves `drainRefreshQueue`: the request queued behind
  it waits for the next one (`ViewBindings.ts:1172`). A view left out on an error, or
  because its folder was not prepared, is bound by the next pass only.

### Fairness

`TransferLanes`: the one-second interval fires for ever (`DrainLane`), a settled
promise's reactions run (`Release`), a turn of the event loop is finished once
begun, and a run ends, except those of `Stuck` items: `awaitFirstSync` has no
time limit. Each is weak fairness of an action of one timer, promise or turn.

`DocSync`: every step of a flow is a promise that settles or is bounded by a
timer (15 s, 30 s, 8 s, 10 s), the poller ticks for ever, the gate is a timer
and a closed but wanted socket is retried: weak fairness. Receiving, pushing and
the first "synced" need the socket, which may drop again and again, so theirs is
strong fairness: the network delivers if it gets infinitely many chances. Typing,
faults and restarts need not happen.

`Credentials` and `TokenSource`: a request ends. `Connection`: a request ends, a timer
fires, a socket that is opening opens or fails, and one that is closing closes.
`InboundSync`: the interval fires, requests and pushes end, shares are registered after
a start. `OpenEditor`: passes, resyncs, loading and saving are promises and timers; the
connection comes back when it is wanted and somebody is signed in, and a peer that wins the
init claim inserts.
All weak. `Sessions`, `AuthStore`, `Settings`, `Claims`, `Adoption`, `FolderTree`,
`Attachments` and `WebSync` have safety properties only; what should hold in the end is stated for states in which nothing is
under way.

## 4. Proofs

| module | theorem | property |
|---|---|---|
| `TransferLanes_proof` | `LaneBooksAreExact` | `LaneBooksExact` |
| | `CompletedIsIdle` | `CompletedMeansIdle` |
| | `LanesImplementPools` | `LanesArePools` |
| `DocSync_proof` | `TextIsKept`, `BaseIsShown` | `NothingLost`, `BaseWasShown` |
| `Claims_proof` | `OneWriterHolds`, `DeadClaimsReplaced` | `OneWriter`, `DeadClaimsAreReplaced` |
| `Connection_proof` | `SubscribersInStep`, `SweepSeesAll`, `QueueNeverStuck` | `SubscriberInStep`, `StaysInTheSweep`, `QueueMoves` |
| | `CacheStepsAreSourceSteps` | the initial states and steps of `IsATokenSource` |
| | `LetGoIsDown`, `SyncedIsTrue`, `DialsAreGood` | `LetGoStaysDown`, `SyncedUntilClosed`, and `DialsWithGoodToken` (no socket is opened with a token that has expired or been taken back) |
| `InboundSync_proof` | `NoEditOverwritten`, `KeptIsKept`, `MarksAreHonest` | `EditsKept`, `KeptStaysKept`, `WatermarkIsHonest` |
| `Sessions_proof` | `UsersKeepTheirTokens`, `SignOutLasts`, `TokensStayWithTheirHost` | `UserMatchesToken`, `SignedOutStaysOut`, `TokenToItsHost` |
| | `RestartFindsTheSession`, `LiveSessionLasts` | `RestartKeepsTheSession`, `LiveSessionKept` |
| | `StoredIsFound`, `LastWriteIsKept` | `SessionsStay`, `SettledIsLatest` |
| `Share_proof` | `PublishedIsTheVault`, `EchoGuardIsExact` | `WebFollowsTheVault`, `OutboundExact` |
| | `RecordsHaveTheirBytes` | `RecordHasBytes` |
| | `DownloadsTakeNoEdits`, `EveryoneGetsTheLastEdit` | `EditsKept` of `Attachments`, `NewestEverywhere` |
| | `ClientsShareOneDocument`, `PruningTakesNoOthers` | `OneGuid`, `PruneIsSafe` |
| `OpenEditor_proof` | `BufferInStep`, `NothingIsLost`, `ViewsFollow` | `InStepWhenTracking`, `NothingLost`, `ViewsFollowTheWorkspace` |
| | `Typing` | `TypeOK` of that module |
| `TransferLanes_proof`, `Claims_proof`, `Connection_proof`, `InboundSync_proof` | `TypesHold`, and `CacheTypesHold` of `Connection_proof` | `TypeOK`, `CacheTypeOK` |

All of these hold for every value of the constants that the modules' assumptions allow: any
number of documents, clients, calls, sockets, retries and events, where the runs have two
or three. Where a property excepts *windows* (the history of races a behaviour has fallen
into), the inductive invariant is guarded the same way: windows only grow, so an
invariant outside them needs to be preserved only by steps that open none.

### TransferLanes

For any set of calls and shares, any finite set of items and any lane limit
(`LaneAssumption`). `InFlightExact` is not inductive alone. Its preservation when a
task is released needs that a task is in one place of its own lane only; that a fresh
call is not a task already needs that tasks are not unused calls; and `WaiterPerTask`
at a settled task needs that the stored waiter is a call about that very item.
The inductive invariant is

    LaneInv == LaneTypeOK /\ TaskPlaced /\ WaiterPlaced /\ InFlightExact /\ WaiterPerTask

with one lemma per group of actions, all on `DrainEffect` and `DrainKeepsTasks`:
whatever a drain starts, it moves tasks from queue to active and changes
nothing else. The counters' types (`BatchTypeOK`) are an invariant of their own,
because nothing else depends on them.

The refinement maps a lane to the pool of its items: queued ones wait, active ones
run. `PoolStep(l)` writes the substituted steps of `JobPool` once for both lanes;
every action is then a drain (`StartingAdvances`: the items of new tasks are
accepted, those of started tasks run), a release, a shutdown or a stutter. The
limit is counted in tasks by the code and in items by `JobPool`: with one task per
item (from `InFlightExact`) `AsManyItemsAsTasks` carries one count to the other.

That a completed batch is idle (`CompletedIsIdle`) is a count: tasks of a share that wait
or run, and those it has already counted as finished, are no more than those it counted
when they were queued (`CountInv`); the comparison `finished >= queued` then leaves none. A
share whose counters `enqueueShareUpload` has replaced is excepted, and so the tasks that
method still has in hand need no count.

### DocSync

For any three sets of passages, any number of retries and any of the events.

    DocInv == TypeOK /\ (windows = {} => Safe)

`TypedKept` is the property; what it needs is the chain by which each flow knows that the
text it discards is elsewhere. A flow that is past its comparison is alone
(`OneReconcile`, `PullAlone`: a second one is a window), so what it read is still there:
`VaultShown` for the file of an upload or a fetch, `ReconcileOK` for the Y.Doc,
`PullReadLast` and `PullCovers` for a pull. A text is dropped either because it was copied,
or because it equals the base; hence `BaseKept` (a base is in the Y.Doc or in a copy: it may
be dropped from the file) and `BaseShown` (it is in the file or in a copy: it may be
dropped from the Y.Doc). `FetchHasText` is there because a fetch into an empty Y.Doc would
clear the file. `BaseIsShown` is the conjunct `BaseShown`, which is as far from inductive
without the rest as `TypedKept` is.

### Claims

For any clients, kinds, attempts and deaths. Two facts are asked of the constants: one,
`ClaimsTiming`, is of the environment and not enforced by the code:

    Quiet > MaxFlush + 2 * MaxDelay /\ MaxWait > 2 * (MaxFlush + MaxDelay)

(`quietMs` and `maxWaitMs`, 300 and 3000 by default, against the time a flush takes and an
update needs.) The comments in `initContentClaim.ts` (57, 159-169) describe the wait; no
number in the code bounds a delay. TLC finds two writers where the first inequality fails
by one.

`Beats`, by which replicas of a Y.Map key choose among concurrent writes, is a strict
total order (`BeatsAsymmetric`, `BeatsTotal`, `BeatsTransitive`), and so every set of claims
has one winner, which merging two sets preserves (`Winners`). `ClaimKnown` and `WriteKnown`
carry the timing: a client that waits has its claim with each other client, or on the way for
no longer than that may take; whoever has not heard of a write is beaten, will copy, or has
not waited long enough to have heard. At the decision the clocks refute "on its way",
so that the winner of one replica is the winner of all, and a write nobody knew of is
impossible (`NoneConcurrent`). `AloneWins`, for dead claimants: the last client has a claim of
its own, and no other can come.

### Credentials

    CacheInv == CacheTypeOK /\ SubscriberInStep /\ SharedInSight

`Connection_proof` extends `Connection` and `Credentials` side by side, which is why the cache's
variables and specification have names of their own (`given`, `CacheSpec`). `SharedInSight` strengthens `StaysInTheSweep` to requests in flight: their documents
have an entry too, which is what a token that arrives needs to find its subscriber.
Documents are independent but for the queue, so the lemmas follow the code's helpers
(`RefreshedEffect`, `FailedEffect`, `AdvanceEffect`, `SettlesEffect`, `SweepEffect`) and
say what each does to tokens and subscribers. `SourceStep` maps every step to one of
`TokenSource` or a stutter; that its fairness is implemented too is left to TLC, in
`IsATokenSource`.

`QueueMoves` is inductive once the set of renewals is known to be finite: a dispatch starts
as many as there is room for or as wait, whichever is less, and one that ends makes room
for one.

### Connection

`ConnectionInv` says of each document (`DocOK`): the current socket, if there is one,
exists (`WsOK`); a good token held is the one in the provider's url (`TokenOK`); a
document that is not wanted, or marked `late`, is down and has no request that could
bring it up; and, unless it was dismantled or orphaned, only its current socket is
open and it is synced only while connected (`SyncOK`). Most methods dial nothing:
`Keeps(p, q)` is what they have in common, composes (`KeepsTwice`), and is proved once
for each method (`CloseWsKeeps` ... `OnCloseKeeps`). The three that dial have `...Dials`.
`OneDocument` reduces a step to the one document it is about.

### InboundSync

`TypesInv` says of stores and poll in each phase what they may hold. On it rest three
invariants, each for one property.

* `EditInv`, for `EditsKept`: `Known`, the contents made and not only in the vault,
  are all that server, manifests, conflicts and the downloader's copy name, so that a
  file whose hash is known has nothing to lose; from the request to the write the
  file's content stays known unless the file was changed in between.
* `KeepInv`, for `KeptStaysKept`: what the user kept is in the manifest and in the copy
  the downloader writes back, and no conflict names it.
* `WatermarkInv == MarkInv /\ CopyInv /\ HonestInv`, for `WatermarkIsHonest`: a poll's
  watermarks lie between what was read and what is announced; the pass over the newest
  update vouches for each file it has visited; what the stored mark covers is
  explained file by file.

`InboundAssumption` asks that there is a share, that every file belongs to one, and that
`None` differs from everything it stands in for.

### Sessions

For any users, hosts, provider objects and calls, and any number of grants, signings and
restarts (`SessionsAssumption`; `NoneAssumption` keeps `None` apart from what it stands in
for). Each property has a group of facts of its own, guarded by its own windows:

    IInv == /\ Shape
            /\ Outside({"login and refresh"}) => UserOK
            /\ Outside({"overtaken", "replaced"}) => HostOK /\ SignedOutOK
            /\ Outside(OfStore) => StoreOK
            /\ Outside(OfLive) => LiveOK

`Shape` says where a call can be and what it then holds. `UserOK`: what a call sent and what
it will pair with the answer belong to one user, since no sign-in and refresh overlap.
`HostOK`: tokens in a provider, and those its calls carry, are its host's; a server that is
changed or removed while calls are under way is the window. `StoreOK` (one call at a time, and
what is stored is what the provider has, up to the step the call is between) needs
`HostOK`, because a restart reads the store for the host it is at. `LiveOK` (the stored
refresh token is the last the server gave) needs `StoreOK`. The lemmas follow the code:
one for the effect of each handler on objects, calls and store (`...Step`), and one for each
group that such an effect preserves.

Its last two theorems are about the other modules `MCSessions` checks, for any servers, stored
sessions, shares and values. `SessionsStay` is inductive with `moved => no old keys`; the
work is in `MigrationKeeps` (an operation reads what was there to be found, old keys or not)
and `OperationKeeps` (it leaves other servers alone). `SettledIsLatest` speaks of states
at rest; in all states, unless it is excepted, the object as it is now (`Now`) is in a write
that has yet to compare (`Compares`), or the last in the queue to the file (`GoesLast`), or in
the file with nothing queued (`IsThere`). That each queued save belongs to one waiting
write, and to no other (`SavesAreWrites`), makes "no write under way" mean an empty queue.

### The share: WebSync, Attachments and Adoption

`Share_proof` extends `MCShare`, whose constants are those of its three modules, so that
its theorems are about the very formulas the run checks. `WebFollowsTheVault` speaks of states
in which nothing is under way for a file; the invariant of all states is, per slot of the
server,

    FilesFollowed == \A p \in Files : Slot(p) \in waived \/ Due(Slot(p)) \/ Followed(p)

what is published is waived, or *due* (a debounced call is pending, or an automatic push
of it has yet to read the file), or *followed*: every text on its way is the file's,
and the server has it or an automatic push carries it. An edit makes a slot due or waives it; a push that reads turns due into
followed; one that arrives keeps followed true because all texts under way are equal.
`ListFollowed` is the same for the list. The echo guard is a counter, exact because it is
the cardinality of the set of pushes that raised it (`OutboundCounts`).

    BlobInv == BlobTypes /\ Stages /\ PushesKeep /\ (every modified file exists)

for attachments: outside its two windows the bytes a push has read, and the hash it names
them by, are what the file still is (an edit in between is a window), a push that is about
to note has its file's content on the server under its hash, and every record, on any client
or the relay, names bytes that are there. A second push of the file, a pull, a restart
or a merge of records keeps that: what is on the server under its own hash is only ever
replaced by itself.

`EditsKept` speaks of the step that writes a file. What makes it true is decided long before, when
`runSync` compares or `attachmentAt` finds a record, and has to stay true until the download:

    SafeInv == BlobInv /\ MadeOK /\ (Secure => SafeOK)

* `Safe(c)`: the server has the file's content, or the client's record is no older than the file.
  Every flow that pulls, or would after its comparison, is of a client whose file is safe, and so
  is a client that has no wrapper, since `attachmentAt` pulls without a comparison.
* A record that arrives must not take that away, so the records carry it too (`RecordSafe`): whoever
  has the content a record names has it saved, or from no later than the record. And a content on
  two clients' disks came through the server, which has it.
* `MadeOK`: contents, times and records are no newer than the last edit and the clock, so that an
  edit is later than everything there is.

`NewestEverywhere` holds at rest. Of the states before, `NewestInv == SafeInv /\ (windows = {} =>
NewOK)` says what is still due:

* While no window is open the records are a chain (`Chained`): each was made over the one before,
  of a later content at a later time, so `Merged` always takes the later one. File times are in
  the same order (`InOrder`), which makes the comparison of times in `needsPull` and
  `LocalIsNewer` one of contents.
* Some client has the last edit (`LastIsSomewhere`), and who has it has the last record
  (`LastHasTheRecord`). If the server does not have the edit a push of it is due (`PushesDue`):
  the file is queued as modified, or a flow has yet to note it, and no other client has it.
* A client that is behind its own record is about to pull, to scan or to be started (`PullsDue`), and
  the pull wants nothing older than it should (`KnownOK`).
* At rest nothing is due, so all records are the last one and every file is what it names.

The proof corrected the model. `EditsKept` was stated without the window "record went back", and with
two clients that holds. With three it does not: a pull is decided by a record, and before the bytes
are fetched that record gives way, on merging, to a concurrent one that is older than the file; no
record then vouches for what is written over, which nobody has saved (TLC finds it with three edits
after the first; for two clients, four edits and three writes it finds nothing). In the run the new
window opens only after one that `EditsKept` excepts anyway, and for any number of clients
`NothingGoesBackFirst` shows that it is never the first to open, so `NewestEverywhere` excepts no
more behaviours than before.

`OneGuid` and `PruneIsSafe` rest on one invariant of `Adoption`, for any number of clients, each
with any number of sessions and of minted guids:

    AdoptInv == claimless = {} => AdoptOK

    AdoptOK == AdoptTypes /\ ClaimsOK /\ RecordsOK /\ ClaimKnown
               /\ \A c \in Clients : LiveOK(c) /\ SureOK(c) /\ GuidsOK(c) /\ TrashOK(c) /\ FileOK(c)
               /\ trashed = {}

The claims and the records of a path are what concurrent writes to one key of a Y.Map leave:
sequences of the writers that wrote over each other, of which the map shows the one that beats all
others. `BeatsAsymmetric`, `BeatsTransitive` and `BeatsTotal` show that this order is a strict
total one on claims, so that replicas which have exchanged everything agree on the winner
(`ClaimsMerge`, `ClaimSetOver`); records need no order of their own because they are a chain.

* `ClaimsOK`: a claim's session id belongs to one session of one client, which has the claim.
* `LiveOK` is the heart. That only the winner publishes is not inductive: a client decides from
  the claims it has seen. The claim of a session now running either has already lost to one the
  server has, or its claimant is `Alone`: no other client is `Sure` (about to publish a
  guid of its own), and no record exists that it has not got. A claim is made only by who finds
  no claim, or finds those who made them gone with all their records at hand
  (`ClaimantIsAlone`); and it is known to the server, or still settling.
* So the winner of a settled claim is alone, and every other live claim is overdue (`WinnerIs`,
  `WinnerPublishes`): it becomes `Sure`, `SureOK` stays until its record is put, and the record is
  written over all there were (`RecordsOK`: all but the last are deleted).
* `ClaimKnown`: no guid is published before there is a claim that every client in contact has,
  so that a client which finds no claim is alone.
* `FileOK` and `TrashOK` are what the two properties are read off: a file no decision is due for
  has its record's document, or one whose record is gone and a scan to come; and what that scan
  takes has been copied, and its record is gone or the client's own.

Each step of one client is brought under one of a few lemmas by what it does to the claims and
records: nothing new (`StillStep`, `CalmKept`), a document is wrapped (`WrapStep`), its
record put (`PutStep`) or deleted (`RemovedStep`), a claim made (`MintAndClaimStep`), or others' news merged
(`MergeStep`).

### OpenEditor

For any passages, any starting texts, any number of openings, drops, passes, failing
passes, deletions, sign-ins and sign-outs, and any positions. `OpenEditorAssumption` only keeps `None` and `NoText` apart from what they stand
in for and names the starting situations.

    TypeOK /\ PassInv /\ StepInv /\ KeptInv

Passages may repeat in a text, and a change may be put at any position: the lemmas on texts say
what a change leaves and removes (`AppliedIs`, `InsertionKeeps`, `DeletionKeeps`), and the lemmas on
the observer what it does to the buffer in each of its ways (`ObservedIs`).

* `PassInv`, which needs no window: what a pass found is `Fresh` or another pass is queued,
  unless it failed; the lock is held only with a view, except between a pass's last wait and
  its end; and the plugin has a view exactly when the leaf is open and its view is tracked.
  At rest, unless the last pass failed, nothing is queued and what is bound is `Fresh`: that
  is `ViewsFollowTheWorkspace`.
* `StepInv == windows = {} => InStep /\ ForAView /\ Comparing /\ Claiming`. `InStep` is the
  property, and the calls of `resync` under way are why it is not inductive: each may still set
  isTracking. A bound one is of the plugin there is now; while that plugin has a view, only an orphan's
  comparison is under way; and while its init claim waits and nobody has settled one, the view
  tracks already or the Y.Doc is empty and the buffer is the text it will insert.
* `KeptInv == windows = {} => Kept`. `Missing` are the passages that were added, not deleted, and
  are neither in the Y.Doc nor set aside nor yet to be loaded. `Kept` says where they are: in the
  file; in the buffer of an open leaf, unless the reading of the file that saves them is under way;
  and such a reading comes before the replaced buffer is saved, and before a view that tracks is
  unmounted, which writes the Y.Doc to the file. A save, a keyframe and a mount each overwrite one
  of these places, and the other conjuncts say that it is not the last.

The proof of `StepInv` corrected the model: `InitSettled` opened its window only for an empty
Y.Doc. `Claiming` failed for a view that had met the winner's text with a RangeError and
then lost its claim; it sets isTracking over a buffer that is not in step
(`LiveEditPlugin.ts:409-420`). Two openings, three deletions and two passages
of the user are needed, more than the run has. It is the same race, and the window now covers it.

### Only model-checked

Liveness (`AcceptedTaskStarts`, `Converges`, `ChangesAreTakenUp`, `ComesOnline`,
`EditorFollows`, and the fairness in `IsATokenSource`): fairness is out of the prover's reach.

The invariants `Agreement` and `NothingLost` of `FolderTree` are about folds over the tree of each client (the
scan that `FolderTree` translates), of which nothing can be proved without induction over data.

## 5. Plan

Done are the modules of section 2. The order was the one in which text can be lost:
lanes, one document, claims, adoption; then what these rely on (credentials,
connection), and the flows beside them (inbound files, tree, attachments, sessions,
editors, publication, settings). The set of runs is kept small, so that all of it is run after every change.

Left, in this order:

1. `PullPoller`: the background poller's cap and teardown, refining `JobPool`.
2. `DocSync` with an editor: the flows of `DocSync` that meet a document in the moment
   `editLock` is set or released, which `OpenEditor` and `DocSync` see from one side each.
3. Canvas documents; other text views (`TextViewPatch.ts`).
4. Attachments that are renamed; several servers in `Sessions`; several shares in
   `WebSync`.

## 6. Not modelled

* The user interface, wording and settings pages: views of state that others keep.
* Request and response code of the relay, share, tenant and billing clients; logging,
  diagnostics and the health indicator: they keep no state that two flows share.
* The local document store (IndexedDB, y-indexeddb) and vendored editor code: external;
  `DocSync` and `OpenEditor` model what is persisted and when it is applied.
* Canvas documents: see the plan.

`PROJECT.json` names each with the reason.
