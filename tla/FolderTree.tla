----------------------------- MODULE FolderTree -----------------------------
(***************************************************************************)
(* Renames, moves and deletions in a shared folder: FolderIndex.ts, which  *)
(* keeps the path of every document in a map that all clients replicate;   *)
(* renameEntry, removeEntry and scanFileTree of VaultShare.ts, which carry *)
(* what happens in the vault into that map and back; and the vault events  *)
(* of main.ts.  How a new document gets its guid when two clients find it  *)
(* is in Adoption, what becomes of its text in DocSync: here a document is *)
(* its guid, and a file holds the text of one document.                    *)
(*                                                                         *)
(* The tree has two levels: folders, and documents in them.                *)
(***************************************************************************)
EXTENDS YMapEntry, FiniteSets, FiniteSetsExt

CONSTANTS
  Clients,    \* numbers: of two concurrent writes of a key the greater client's wins
  Dirs, Names,
  Guids,      \* numbers: new ones are taken in order
  Folder,     \* what the disk has at a folder's path
  MaxWrites,  \* of one key of the index
  Plans,      \* what users may do, see Plan
  None

ASSUME FolderTreeAssumption ==
  /\ Clients \subseteq Nat /\ Guids \subseteq Nat /\ IsFiniteSet(Guids)
  /\ Dirs \cap Names = {} /\ IsFiniteSet(Dirs) /\ IsFiniteSet(Names)
  /\ MaxWrites \in Nat /\ {None, Folder} \cap Guids = {} /\ None # Folder

DirPaths == {<<d>> : d \in Dirs}
DocPaths == {<<d, n>> : d \in Dirs, n \in Names}
Paths == DirPaths \cup DocPaths

Maybe(S) == S \cup {None}
Under(p, dir) == Len(p) = 2 /\ <<p[1]>> = dir
Tree(p) == {p} \cup IF Len(p) = 1 THEN {<<p[1], n>> : n \in Names} ELSE {}
\* what p is called once from is called to
Moved(p, from, to) == IF p = from THEN to ELSE <<to[1], p[2]>>

\* What the folder holds at first, the clients whose users do something, at
\* which paths, what, and how often.
Plan == [tree : SUBSET Paths, users : SUBSET Clients, at : SUBSET Paths,
         kinds : SUBSET {"create", "rename", "delete"}, ops : Nat]

ASSUME PlansAssumption == Plans \subseteq Plan

VARIABLES
  plan,      \* of the users, from the beginning on
  local,     \* [Clients -> what a client has]: see Local
  inbox,     \* [Clients -> transactions of the index it has not received]
  issued,    \* guids given out
  userOps,   \* what users have done
  excused,   \* history: documents users deleted or met at
  busy,      \* history: where users are at work since all was in sync
  contested  \* history: paths where what users did met

vars == <<plan, local, inbox, issued, userOps, excused, busy, contested>>

(* records: the replicated map, with the deleted keys; minted and aliases:   *)
(* the index's local maps; disk: the vault; entries: the path of each        *)
(* tracked entry (trackedEntries); fetches: documents to be written to disk; *)
(* creations: folders being created, and where; uploads: new documents whose *)
(* claim or upload is under way; pass, due: the scan of the tree and whether *)
(* it was asked for again (treeScanInFlight, resyncRequested); seen: the     *)
(* paths it saw; ops: what it waits for; trash: what scans decided to trash. *)
(* History: bare: its index was empty once; forgot: a scan asked for was     *)
(* never made.  stagedWrites is not here: upgradeEntry returns where a       *)
(* document has the record its legacy entry names, and a transaction that    *)
(* writes the one writes the other.                                          *)
Local(files) ==
  [records |-> [p \in Paths |-> [id |-> files[p], by |-> <<>>, gone |-> files[p] = None]],
   minted |-> [p \in Paths |-> None],
   aliases |-> [p \in Paths |-> None],
   disk |-> [p \in Paths |-> IF files[p] # None /\ Len(p) = 1 THEN Folder ELSE files[p]],
   entries |-> [g \in Guids |-> IF \E p \in Paths : files[p] = g
                                THEN CHOOSE p \in Paths : files[p] = g ELSE None],
   fetches |-> {}, creations |-> {}, uploads |-> {},
   pass |-> "none", due |-> FALSE, seen |-> {}, ops |-> {}, trash |-> {}, bare |-> FALSE, forgot |-> FALSE]

-----------------------------------------------------------------------------
(* The replicated map: a write knows the writes it replaces (by, see         *)
(* YMapEntry); a deletion deletes what was there.                            *)

Merged(a, b) ==
  IF a.by = b.by THEN [a EXCEPT !.gone = a.gone \/ b.gone]
  ELSE IF Later(a.by, b.by) THEN a ELSE b

Record(l, p) == IF l.records[p].gone THEN None ELSE l.records[p].id
Recorded(l) == {p \in Paths : ~l.records[p].gone}

-----------------------------------------------------------------------------
(* FolderIndex, as functions of a client c's state l.                        *)

Resolve(l, p) == IF l.aliases[p] = None THEN p ELSE l.aliases[p]

GuidFor(l, p) ==
  LET q == Resolve(l, p) IN
    IF l.minted[q] # None THEN l.minted[q] ELSE Record(l, Resolve(l, q))

Tracks(l, p) == LET q == Resolve(l, p) IN Record(l, q) # None \/ l.minted[q] # None

\* put: an equal record is left as it is, and then the minted guid stays.
Put(c, l, p, g) ==
  IF ~l.records[p].gone /\ l.records[p].id = g THEN l
  ELSE [l EXCEPT !.records[p] = [id |-> g, by |-> Append(@.by, c), gone |-> FALSE],
                 !.minted[p] = None]

Del(l, p) == [l EXCEPT !.records[p].gone = TRUE, !.minted[p] = None]

\* Faulty: a minted guid stays at the path it was minted for.
Relocated_Not(m, from, to) == m

Relocated(m, from, to) == IF m[from] = None THEN m ELSE [m EXCEPT ![to] = m[from], ![from] = None]

\* repath of a document.
RepathDoc(c, l, from, to) ==
  LET m == [l EXCEPT !.aliases[from] = to, !.minted = Relocated(@, from, to)]
  IN  IF l.records[from].gone THEN m ELSE Del(Put(c, m, to, l.records[from].id), from)

RepathFolder(c, l, from, to) ==
  LET affected == {p \in Paths : Under(p, from) /\ Record(l, p) # None}
      m == IF l.records[from].gone THEN l
           ELSE [l EXCEPT !.records[to] = [id |-> l.records[from].id, by |-> Append(@.by, c), gone |-> FALSE],
                          !.records[from].gone = TRUE]
  IN  FoldSet(LAMBDA p, k : RepathDoc(c, k, p, Moved(p, from, to)), m, affected)

Repath(c, l, from, to) ==
  IF Len(from) = 2 THEN RepathDoc(c, l, from, to)
  ELSE LET m == [l EXCEPT !.aliases[from] = to, !.minted = Relocated(@, from, to)]
       IN  IF l.records[from].gone THEN m ELSE RepathFolder(c, m, from, to)

\* applyRemoteChange: a folder whose id went from one path to another in one
\* transaction was renamed.
FollowsFolders(before, after) ==
  LET lost == {p \in DirPaths : ~before.records[p].gone /\ after.records[p].gone}
      new == {p \in DirPaths : ~after.records[p].gone /\ after.records[p] # before.records[p]}
      went == {<<p, q>> \in lost \X new : after.records[q].id = before.records[p].id}
      Alias(pq, l) == [l EXCEPT !.aliases = [p \in Paths |->
          IF p \in Tree(pq[1]) /\ (p = pq[1] \/ ~l.records[Moved(p, pq[1], pq[2])].gone)
          THEN Moved(p, pq[1], pq[2]) ELSE @[p]]]
  IN  FoldSet(Alias, after, went)

\* upgradeLegacy, findFolderRenames: where an id is at two paths, the folder of
\* the one is taken to have been renamed to the folder of the other.
FolderRenames(l) ==
  LET docs == Recorded(l) \cap DocPaths
      twice == {pq \in docs \X docs : pq[1][1] # pq[2][1] /\ Record(l, pq[1]) = Record(l, pq[2])}
  IN  {<< <<pq[1][1]>>, <<pq[2][1]>> >> : pq \in twice}

\* All of them are applied, in some order.
Upgrades(c, l) ==
  LET Apply(pq, k) == RepathFolder(c, k, pq[1], pq[2])
      all == FolderRenames(l)
  IN  IF all = {} THEN {l} ELSE {FoldSet(Apply, Apply(first, l), all \ {first}) : first \in all}

-----------------------------------------------------------------------------
(* VaultShare: what happened in the vault.                                   *)

MovesEntry(l, g, to) == IF g \in Guids /\ l.entries[g] # None THEN [l EXCEPT !.entries[g] = to] ELSE l

\* renameEntry within the share: a transaction, whose own observer makes the
\* aliases as a peer's does, and then the alias is cleared.
RenameEntry(c, l, from, to) ==
  LET g == GuidFor(l, from)
      inside == IF Len(from) = 1 /\ l.entries[g] # None
                THEN {p \in Paths : Under(p, from) /\ Record(l, p) # None} ELSE {}
      Sub(p, k) == MovesEntry(Repath(c, k, p, Moved(p, from, to)), Record(l, p), Moved(p, from, to))
      moved == FoldSet(Sub, MovesEntry(Repath(c, l, from, to), g, to), inside)
  IN  IF g = None THEN l ELSE [FollowsFolders(l, moved) EXCEPT !.aliases[from] = None]

\* removeEntry: a folder with everything in it.
RemoveEntry(l, p) ==
  LET removed == {g \in Guids : l.entries[g] \in Tree(p)}
      without == FoldSet(LAMBDA q, k : Del(k, q), l, Tree(p))
  IN  [without EXCEPT
         !.entries = [g \in Guids |-> IF g \in removed THEN None ELSE @[g]],
         !.fetches = @ \ removed, !.uploads = @ \ removed,
         !.creations = {r \in @ : r.id \notin removed},
         !.aliases = [q \in Paths |->
            IF Len(p) = 1 /\ (q \in Tree(p) \/ @[q] \in Tree(p)) THEN None ELSE @[q]]]

\* A file or a folder with its children is moved on disk.  The vault reports
\* the folder first and then every child.
DiskMoved(l, from, to) ==
  [l EXCEPT !.disk = [p \in Paths |->
     IF p \in Tree(to) /\ Len(from) = Len(to)
     THEN LET source == IF p = to THEN from ELSE <<from[1], p[2]>> IN @[source]
     ELSE IF p \in Tree(from) THEN None ELSE @[p]]]

VaultRename(c, l, from, to) ==
  LET children == {p \in Tree(from) \ {from} : l.disk[p] # None}
      first == RenameEntry(c, DiskMoved(l, from, to), from, to)
  IN  FoldSet(LAMBDA p, k : RenameEntry(c, k, p, Moved(p, from, to)), first, children)

-----------------------------------------------------------------------------
(* What the properties need: when nothing is under way, and where paths may  *)
(* be out of order.                                                          *)

Settled(l) ==
  /\ l.fetches = {} /\ l.creations = {} /\ l.uploads = {}
  /\ l.pass = "none" /\ ~l.due /\ l.ops = {} /\ l.trash = {}

Quiet == \A c \in Clients : inbox[c] = <<>> /\ Settled(local[c])

DocsAt(l, paths) == UNION {{l.disk[p], GuidFor(l, p)} : p \in paths}

\* History.  Where a client takes one path for another: an alias stays, of a
\* rename that its vault never made, and the path is in use again; or a folder's
\* entry went elsewhere while the folder is being created.  What users did there
\* since all was in sync may be out of order with it.
Astray(l) ==
  LET stale == {p \in Paths : l.aliases[p] # None /\ (Record(l, p) # None \/ l.minted[p] # None)}
      late == {r \in l.creations : l.entries[r.id] # r.at}
  IN  UNION {Tree(p) \cup Tree(l.aliases[p]) : p \in stale}
      \cup UNION {Tree(r.at) \cup Tree(l.entries[r.id]) : r \in late}

Notes(disputed, deleted) ==
  \E astray \in {UNION {Astray(local'[c]) : c \in Clients}} :
    LET around == {b \in busy' : b.paths \cap astray # {}} IN
      \E paths \in {disputed \cup astray \cup UNION {b.paths : b \in around}} :
        /\ contested' = contested \cup paths
        /\ excused' = excused \cup deleted
                        \cup UNION {DocsAt(local[c], paths) \cup DocsAt(local'[c], paths) : c \in Clients}

\* No user has a hand in it.
Unasked == UNCHANGED <<plan, userOps, busy>> /\ Notes({}, {})

-----------------------------------------------------------------------------
(* Transactions: what a client changed in the map goes to the others, and    *)
(* every change has the tree scanned.                                        *)

Changed(old, new) == {p \in Paths : old.records[p] # new.records[p]}

\* legacyListener: after a transaction that changed a document's key.
Heard(c, old, new) == IF Changed(old, new) \cap DocPaths = {} THEN {new} ELSE Upgrades(c, new)

Commits(c, new) ==
  \E l \in Heard(c, local[c], new) :
    LET changed == Changed(local[c], l) IN
      /\ \A p \in changed : Len(l.records[p].by) <= MaxWrites
      /\ local' = [local EXCEPT ![c] = [l EXCEPT !.due = @ \/ changed # {}, !.bare = @ \/ Recorded(l) = {}]]
      /\ inbox' = [d \in Clients |->
           IF d = c \/ changed = {} THEN inbox[d]
           ELSE Append(inbox[d], [p \in changed |-> l.records[p]])]

\* The observers run when a transaction has been received: legacyListener
\* upgrades, and the tree is to be scanned.
Receive(c) ==
  /\ inbox[c] # <<>>
  /\ LET update == Head(inbox[c])
         new == [local[c] EXCEPT
                   !.records = [p \in Paths |->
                      IF p \in DOMAIN update THEN Merged(@[p], update[p]) ELSE @[p]],
                   !.due = TRUE]
     IN  \E l \in Heard(c, local[c], FollowsFolders(local[c], new)) :
           /\ \A p \in Changed(new, l) : Len(l.records[p].by) <= MaxWrites
           /\ local' = [local EXCEPT ![c] = [l EXCEPT !.bare = @ \/ Recorded(new) = {}]]
           /\ inbox' = [d \in Clients |->
                IF d = c THEN Tail(inbox[c])
                ELSE IF Changed(new, l) = {} THEN inbox[d]
                ELSE Append(inbox[d], [p \in Changed(new, l) |-> l.records[p]])]
  /\ UNCHANGED issued /\ Unasked

-----------------------------------------------------------------------------
(* Users.                                                                    *)

\* History.  What users do before all is in sync again meets where two of them
\* do something at one path, or one puts something where it was at work before
\* (onto), or where its client has an alias; where that happened the tree may be
\* out of order for good.
Disputed(c, paths, onto) ==
  LET meet == ~Quiet /\ \E b \in busy, p \in paths :
                 p \in b.paths /\ (b.client # c \/ p \in onto)
      aliased == {p \in onto : local[c].aliases[p] # None}
  IN  (IF meet \/ (paths \cap contested) \cup aliased # {}
       THEN paths \cup UNION {b.paths : b \in busy} ELSE {})
      \cup UNION {Tree(local[c].aliases[p]) : p \in aliased}

UserOp(c, kind, paths, onto) ==
  /\ userOps' = userOps + 1 /\ UNCHANGED plan
  /\ busy' = (IF Quiet THEN {} ELSE busy) \cup {[client |-> c, kind |-> kind, paths |-> paths]}
  /\ Notes(Disputed(c, paths, onto), IF kind = "delete" THEN DocsAt(local[c], paths) ELSE {})

\* Two users do not rename one thing at a time: the index then has its guid at
\* two paths, findFolderRenames takes the folders for renamed, and the clients
\* can go on exchanging them.
UserRename(c, from, to) ==
  /\ "rename" \in plan.kinds
  /\ \/ Quiet
     \/ \A b \in busy : b.client # c /\ b.kind = "rename" => b.paths \cap (Tree(from) \cup Tree(to)) = {}
  /\ Len(from) = Len(to) /\ from # to
  /\ local[c].disk[from] # None /\ local[c].disk[to] = None
  /\ Len(to) = 2 => local[c].disk[<<to[1]>>] = Folder
  /\ \A op \in local[c].ops : op.from # from
  /\ Commits(c, VaultRename(c, local[c], from, to))
  /\ UNCHANGED issued
  /\ UserOp(c, "rename", Tree(from) \cup Tree(to), Tree(to))

\* The path leaves the disk; the handler of the delete event waits for nothing
\* once the share is ready.
Deleted(l, p) ==
  RemoveEntry([l EXCEPT !.disk = [q \in Paths |-> IF q \in Tree(p) THEN None ELSE @[q]]], p)

UserDelete(c, p) ==
  /\ "delete" \in plan.kinds
  /\ local[c].disk[p] # None /\ \A op \in local[c].ops : op.from # p
  /\ Commits(c, Deleted(local[c], p))
  /\ UNCHANGED issued
  /\ UserOp(c, "delete", Tree(p), {})

NewGuid == Cardinality(issued) + 1

\* A new document or folder: its path is claimed (claimAndUploadFile), unless
\* the index takes it for known.  A folder is published at once.
UserCreate(c, p) ==
  /\ "create" \in plan.kinds /\ NewGuid \in Guids
  /\ local[c].disk[p] = None
  /\ Len(p) = 2 => local[c].disk[<<p[1]>>] = Folder
  /\ LET l == [local[c] EXCEPT !.disk[p] = IF Len(p) = 1 THEN Folder ELSE NewGuid] IN
       Commits(c, IF Tracks(l, p) THEN l
                  ELSE IF Len(p) = 1 THEN Put(c, [l EXCEPT !.entries[NewGuid] = p], p, NewGuid)
                  ELSE [l EXCEPT !.minted[p] = NewGuid, !.uploads = @ \cup {NewGuid}])
  /\ issued' = issued \cup {NewGuid}
  /\ UserOp(c, "create", {p}, {p})

\* The claim has settled, and publishDoc tracks the document.
Publish(c, g) ==
  /\ g \in local[c].uploads /\ local[c].entries[g] = None
  /\ LET at == {p \in DocPaths : local[c].disk[p] = g /\ GuidFor(local[c], p) = g} IN
       local' = [local EXCEPT ![c] = IF at = {} THEN [@ EXCEPT !.uploads = @ \ {g}]
                                     ELSE [@ EXCEPT !.entries[g] = CHOOSE p \in at : TRUE]]
  /\ UNCHANGED <<inbox, issued>> /\ Unasked

\* The upload is over: noteUploaded.
Uploaded(c, g) ==
  /\ g \in local[c].uploads /\ local[c].entries[g] # None
  /\ LET l == [local[c] EXCEPT !.uploads = @ \ {g}] IN
       Commits(c, Put(c, l, l.entries[g], g))
  /\ UNCHANGED issued /\ Unasked

-----------------------------------------------------------------------------
(* The scan of the tree (scanFileTree).                                      *)

\* A pass that throws takes the one that was asked for meanwhile with it.
Aborted(l) == [l EXCEPT !.pass = "none", !.due = FALSE, !.seen = {}, !.forgot = @ \/ l.due]

\* pullDoc and folderAt.
Pulled(l, p) ==
  LET g == GuidFor(l, p) IN
    IF g = None THEN Aborted(l)
    ELSE IF Len(p) = 2 THEN [l EXCEPT !.entries[g] = p, !.fetches = @ \cup {g}]
    ELSE [l EXCEPT !.entries[g] = p,
                   !.creations = IF l.entries[g] = None THEN @ \cup {[id |-> g, at |-> p]} ELSE @]

\* Where what op moves is by now: a file is known by its text.
PlaceOf(l, op) ==
  LET places == {p \in DocPaths : l.disk[p] = op.text} IN
    IF Len(op.from) = 1 THEN op.from
    ELSE IF places = {} THEN None ELSE CHOOSE p \in places : TRUE

\* applyServerRecord: a record without a file is renamed from where its entry
\* is, or created; not where the path is aliased to one without a record.
OpsFor(l, paths) ==
  {LET g == Record(l, p)
       from == IF l.entries[g] # None /\ l.disk[l.entries[g]] # None THEN l.entries[g] ELSE None
   IN  [to |-> p, id |-> g, from |-> from, text |-> IF from = None THEN None ELSE l.disk[from]] :
     p \in {q \in paths : /\ Record(l, q) # None /\ l.disk[q] = None
                            /\ Record(l, Resolve(l, q)) # None}}

\* _onServerCreate waits only for a folder that has to be made.
Waits(l, op) == op.from # None \/ (Len(op.to) = 2 /\ l.disk[<<op.to[1]>>] = None)

Scanned(l, paths) ==
  LET ops == OpsFor(l, paths)
      Pull(op, k) == Pulled(k, op.to)
      m == [l EXCEPT !.ops = @ \cup {op \in ops : Waits(l, op)}, !.seen = @ \cup (paths \cap Recorded(l))]
  IN  FoldSet(Pull, m, {op \in ops : ~Waits(l, op)})

\* Faulty: folders that the index does not have stay.
Orphans_Documents(l) ==
  LET remote == l.seen \cup Recorded(l) IN
    IF remote = {} THEN {} ELSE {p \in DocPaths \ remote : l.disk[p] # None /\ l.minted[p] = None}

\* pruneUntrackedFiles: not when the index is empty.
Orphans(l) ==
  LET remote == l.seen \cup Recorded(l) IN
    IF remote = {} THEN {} ELSE {p \in Paths \ remote : l.disk[p] # None /\ l.minted[p] = None}

Pruned(l) == [l EXCEPT !.pass = "none", !.seen = {}, !.trash = @ \cup Orphans(l)]

\* What follows a phase without anything to wait for follows at once.
DocsScanned(l) ==
  LET m == Scanned([l EXCEPT !.pass = "docs"], DocPaths) IN
    IF m.pass = "docs" /\ m.ops = {} THEN Pruned(m) ELSE m

FoldersScanned(l) ==
  LET m == Scanned([l EXCEPT !.pass = "folders"], DirPaths) IN
    IF m.pass = "folders" /\ m.ops = {} THEN DocsScanned(m) ELSE m

ScanFolders(c) ==
  /\ local[c].due /\ local[c].pass = "none"
  /\ \E l \in Upgrades(c, local[c]) : Commits(c, FoldersScanned([l EXCEPT !.due = FALSE]))
  /\ UNCHANGED issued /\ Unasked

ScanDocs(c) ==
  /\ local[c].pass = "folders" /\ local[c].ops = {}
  /\ local' = [local EXCEPT ![c] = DocsScanned(@)]
  /\ UNCHANGED <<inbox, issued>> /\ Unasked

ScanPrunes(c) ==
  /\ local[c].pass = "docs" /\ local[c].ops = {}
  /\ local' = [local EXCEPT ![c] = Pruned(@)]
  /\ UNCHANGED <<inbox, issued>> /\ Unasked

\* The trashing of a path, and the delete event it causes.
Trash(c, p) ==
  /\ p \in local[c].trash
  /\ LET l == [local[c] EXCEPT !.trash = @ \ {p}] IN
       Commits(c, IF l.disk[p] = None THEN l ELSE Deleted(l, p))
  /\ UNCHANGED issued /\ Unasked

\* A folder that is not there is made, and its create event claims and publishes
\* it when the index does not know it; _ensureParentDir.
NeedsGuid(l, dir) == l.disk[dir] = None /\ ~Tracks(l, dir)

WithFolder(c, l, dir) ==
  LET made == [l EXCEPT !.disk[dir] = Folder] IN
    IF l.disk[dir] # None THEN l
    ELSE IF NeedsGuid(l, dir) THEN Put(c, [made EXCEPT !.entries[NewGuid] = dir], dir, NewGuid)
    ELSE made

WithParent(c, l, p) == IF Len(p) = 1 THEN l ELSE WithFolder(c, l, <<p[1]>>)

Issues(l, dir) ==
  IF NeedsGuid(l, dir) THEN NewGuid \in Guids /\ issued' = issued \cup {NewGuid} ELSE UNCHANGED issued

Lands(c, op, effect) ==
  /\ op \in local[c].ops
  /\ IF Len(op.to) = 2 THEN Issues(local[c], <<op.to[1]>>) ELSE UNCHANGED issued
  /\ Commits(c, [effect EXCEPT !.ops = @ \ {op}])
  /\ Unasked

Creates(c, op) ==
  /\ op.from = None
  /\ LET l == WithParent(c, local[c], op.to) IN
       Lands(c, op, Pulled(l, op.to))

\* _onServerRename: the vault reports the move, then the entry is relocated.
Renames(c, op) ==
  /\ op.from # None
  /\ LET l == WithParent(c, local[c], op.to)
         from == PlaceOf(l, op)
         able == from # None /\ l.disk[from] # None /\ l.disk[op.to] = None
     IN  Lands(c, op, IF able THEN MovesEntry(VaultRename(c, l, from, op.to), op.id, op.to) ELSE Aborted(l))

\* The text of a document is written where its entry is by then.
Fetched(c, g) ==
  /\ g \in local[c].fetches
  /\ LET l == [local[c] EXCEPT !.fetches = @ \ {g}]
         p == l.entries[g]
         writes == /\ p # None /\ Tracks(l, p)
                   /\ l.disk[p] = None /\ l.disk[<<p[1]>>] = Folder
     IN  local' = [local EXCEPT ![c] = IF writes THEN [l EXCEPT !.disk[p] = g] ELSE l]
  /\ UNCHANGED <<inbox, issued>> /\ Unasked

\* createFolderForEntry is over: the folder is where the entry was when it began.
\* The record of the entry is written, where the entry is now, if it is not there.
FolderCreated(c, r) ==
  /\ r \in local[c].creations
  /\ Issues(local[c], r.at)
  /\ LET l == WithFolder(c, [local[c] EXCEPT !.creations = @ \ {r}], r.at) IN
       Commits(c, Put(c, l, l.entries[r.id], r.id))
  /\ Unasked

-----------------------------------------------------------------------------

\* All clients are in sync.
Init ==
  /\ plan \in Plans
  /\ LET there == plan.tree
         ids == CHOOSE f \in [there -> 1..Cardinality(there)] : \A p, q \in there : p # q => f[p] # f[q]
     IN  /\ local = [c \in Clients |-> Local([p \in Paths |-> IF p \in there THEN ids[p] ELSE None])]
         /\ issued = 1..Cardinality(there)
  /\ inbox = [c \in Clients |-> <<>>]
  /\ userOps = 0 /\ excused = {} /\ busy = {} /\ contested = {}

Steps(c) ==
  \/ Receive(c)
  \/ \E p \in local[c].trash : Trash(c, p)
  \/ \E g \in local[c].uploads : Publish(c, g) \/ Uploaded(c, g)
  \/ \E g \in local[c].fetches : Fetched(c, g)
  \/ \E r \in local[c].creations : FolderCreated(c, r)
  \/ ScanFolders(c) \/ ScanDocs(c) \/ ScanPrunes(c)
  \/ \E op \in local[c].ops : Creates(c, op) \/ Renames(c, op)

Users(c) ==
  /\ c \in plan.users /\ userOps < plan.ops
  /\ \/ \E p, q \in plan.at : UserRename(c, p, q)
     \/ \E p \in plan.at : UserDelete(c, p) \/ UserCreate(c, p)

Next == \E c \in Clients : Steps(c) \/ Users(c)

Spec == Init /\ [][Next]_vars

-----------------------------------------------------------------------------

InSync(l, p) ==
  IF Len(p) = 1 THEN (l.disk[p] = Folder) <=> (Record(l, p) # None) ELSE l.disk[p] = Record(l, p)

\* No index was ever empty: then nothing is pruned, and what a client has left
\* comes in the way later.  And no scan was forgotten.
Undisturbed == \A c \in Clients : ~local[c].bare /\ ~local[c].forgot

\* Once nothing is under way, the clients have the same records, and each has on
\* its disk what the records say (scanFileTree): except at contested paths, where
\* what users did met, where a path was in use again while a client had an alias
\* for it, or where a folder's entry moved while the folder was being created.
Agreement == (Quiet /\ Undisturbed) => \A p \in Paths \ contested :
  /\ \A c, d \in Clients : Record(local[c], p) = Record(local[d], p)
  /\ \A c \in Clients : InSync(local[c], p)

\* Once nothing is under way, a document that one client has, wherever it is by
\* now, is with every client; except those a user deleted, and those that were at
\* contested paths (Agreement).  What happens there costs no other document.
NothingLost == (Quiet /\ Undisturbed) => \A g \in issued \ excused :
  \A c, d \in Clients : (\E p \in DocPaths : local[c].disk[p] = g) => (\E p \in DocPaths : local[d].disk[p] = g)
=============================================================================
