----------------------------- MODULE OpenEditor -----------------------------
(***************************************************************************)
(* One shared markdown document in an editor: ViewBindings.ts (which open  *)
(* leaf is bound to which document, and the passes that find out) and      *)
(* y-codemirror.next/LiveEditPlugin.ts (the CodeMirror plugin that keeps   *)
(* the editor's buffer and the Y.Doc's text in step).  Changes go both     *)
(* ways as positions, so they mean the same only while the two are equal:  *)
(* isTracking says that they are.                                          *)
(*                                                                         *)
(* A text is a sequence of passages.  Peers' updates are changes of the    *)
(* Y.Doc at any position.  Left out: embedded and canvas editors, views    *)
(* other than markdown (TextViewPatch.ts), the reading view, one leaf      *)
(* switching files, Obsidian's reloading of a file written behind an       *)
(* editor, and the merge the user makes of what was set aside.             *)
(***************************************************************************)
EXTENDS SequencesExt

CONSTANTS
  Old,          \* the passage the document starts with
  Typed,        \* passages this user adds
  Peers,        \* passages other clients add
  Starts,       \* how file and Y.Doc compare at first: "agreed", "new", "ahead", "edited"
  Ahead,        \* a passage only the Y.Doc ("ahead") or only the file ("edited") has
  Budgets,      \* how often: the leaf opens, the connection drops, others ask for a pass, the user
                \* signs in or out, a pass fails, a passage is deleted
  MaxLength,    \* positions tried
  NoText, None

Slots == 1..2   \* resyncs of one plugin at a time

Texts == Seq({Old, Ahead} \cup Typed \cup Peers)

\* Calls of resync: how far, with which branch, and the buffer when it claimed.
Calls == [at : {"offline", "waiting", "claiming", "comparing"},
          branch : {"bound", "other", "orphan"}, was : Texts]

ASSUME OpenEditorAssumption ==
  /\ Starts \subseteq {"agreed", "new", "ahead", "edited"} /\ MaxLength \in Nat
  /\ NoText \notin Texts /\ None \notin Calls

VARIABLES
  file, unsaved,           \* the vault's file; what refreshIfStale has set aside
  ytext, stored, loaded,   \* the Y.Doc's text; what IndexedDB holds, and whether it was applied
  claim, done,             \* the Y.Doc's init claim and its "done"
  online,                  \* the document's provider
  open, editor, dirty,     \* the leaf, its buffer, and whether that is to be saved
  plugin,                  \* its LiveCMPluginValue: "none", "bound" to a view, or without one: "embed"
  flows,                   \* calls of resync under way
  reading, saveDue,        \* refreshStaleState under way; scheduleSave
  signedIn,                \* AuthSession.isAuthenticated
  others, installed,       \* other tracked views; the extensions are installed
  binding, tracking,       \* the leaf's view in trackedViews: see Views; isTracking of the document's
  lock,                    \* Document.editLock: "free", "held", or "again": set after it was released
  pass, found, again,      \* the refresh pass: its stage, its view of this document; one is queued
  failed,                  \* the last pass threw, or left the document's view out
  made, gone,              \* history: passages added, and deleted by a user
  left, windows

text == <<ytext, stored, loaded, claim, done>>
disk == <<file, unsaved>>
leaf == <<open, editor, dirty>>
live == <<plugin, flows, reading, saveDue>>
registry == <<signedIn, others, installed, binding, pass, found, again, failed>>
history == <<made, gone, left>>
vars == <<text, disk, online, leaf, live, registry, lock, tracking, history, windows>>

\* A DocumentViewBinding of the leaf that is open ("live") or of one closed since ("old");
\* a SignedOutViewBinding of either: "signedout", "gone".
Views == {"none", "live", "old", "signedout", "gone"}

-----------------------------------------------------------------------------
(* Changes of a text, as positions.                                          *)

Change(at, del, ins) == [at |-> at, del |-> del, ins |-> ins]
Fits(c, s) == c.at + c.del <= Len(s)
Applied(c, s) == SubSeq(s, 1, c.at) \o c.ins \o SubSeq(s, c.at + c.del + 1, Len(s))

\* Y.Text takes positions behind its end for its end.
Smaller(m, n) == IF m <= n THEN m ELSE n
Clamped(c, s) ==
  LET at == Smaller(c.at, Len(s))
  IN  Change(at, Smaller(c.del, Len(s) - at), c.ins)

\* A diff of the two has one place only: whatever is in both is before or after it.
OneChange(s, t) ==
  \E p \in 0..Smaller(Len(s), Len(t)) : \E q \in 0..(Smaller(Len(s), Len(t)) - p) :
    /\ SubSeq(s, 1, p) = SubSeq(t, 1, p)
    /\ SubSeq(s, Len(s) - q + 1, Len(s)) = SubSeq(t, Len(t) - q + 1, Len(t))
    /\ ToSet(SubSeq(s, p + 1, Len(s) - q)) \cap ToSet(SubSeq(t, p + 1, Len(t) - q)) = {}

-----------------------------------------------------------------------------
(* resync.  Which of its two branches a call takes is decided when it is    *)
(* made; it waits for the persisted text and, up to five seconds, for the   *)
(* provider.                                                                *)

Flow(at, branch) == [at |-> at, branch |-> branch, was |-> <<>>]
Branch(p, t) == IF p = "bound" /\ ~t THEN "bound" ELSE "other"

Free(fs) == {s \in Slots : fs[s] = None}
Started(fs, f) == [fs EXCEPT ![CHOOSE s \in Free(fs) : TRUE] = f]
Resynced(fs) == Started(fs, Flow("waiting", Branch(plugin, FALSE)))

\* A destroyed plugin's calls go on only where they no longer ask for it.
Orphaned == [s \in Slots |->
  IF flows[s] # None /\ flows[s].at \in {"claiming", "comparing"}
  THEN [flows[s] EXCEPT !.branch = "orphan"] ELSE None]

\* The plugin's constructor; without a connection it resyncs once there is one.
Constructed(p, t) ==
  /\ plugin' = p
  /\ IF p = "none" THEN flows' = Orphaned
     ELSE /\ Free(Orphaned) # {}
          /\ flows' = Started(Orphaned,
               IF online THEN Flow("waiting", Branch(p, t)) ELSE Flow("offline", "other"))

-----------------------------------------------------------------------------
(* The observer of the Y.Doc's text: a change that is not this plugin's.     *)

Dispatched(new) == editor' = new /\ dirty' = TRUE

\* fs are the calls of resync under way otherwise; sure: the caller sets isTracking next.

\* A change behind the buffer's end: the observer's catch.
RangeError(fs, sure) ==
  /\ Free(fs) # {}
  /\ flows' = Resynced(fs)
  /\ tracking' = (sure \/ (tracking /\ plugin # "bound"))
  /\ UNCHANGED <<editor, dirty, windows>>

Delta(c, fs, sure) ==
  IF Fits(c, editor)
  THEN /\ Dispatched(Applied(c, editor))
       /\ tracking' = (sure \/ tracking \/ plugin = "bound")
       /\ flows' = fs
       /\ windows' = IF c.del > 0 /\ editor # ytext
                     THEN windows \cup {"misplaced"} ELSE windows
  ELSE RangeError(fs, sure)

(***************************************************************************)
(* incrementalBufferChange: a diff, whose insertions move the position of  *)
(* what follows and whose deletions do not.  CodeMirror takes positions in *)
(* the buffer as it was: a second change lands elsewhere or behind the end *)
(* of the buffer, unless the diff's clean-up has made it one with the      *)
(* first.                                                                  *)
(***************************************************************************)
KeyFrame(new, fs, sure) ==
  \/ /\ IF new = editor THEN UNCHANGED <<editor, dirty>> ELSE Dispatched(new)
     /\ tracking' = TRUE
     /\ flows' = fs
     /\ windows' = IF new # editor /\ file # ytext THEN windows \cup {"not set aside"} ELSE windows
  \/ ~OneChange(editor, new) /\ RangeError(fs, sure)
  \/ /\ ~OneChange(editor, new)
     /\ tracking' = TRUE
     /\ flows' = fs
     /\ windows' = windows \cup {"shifted"}
     /\ UNCHANGED <<editor, dirty>>

Unseen(fs, sure) ==
  /\ flows' = fs
  /\ tracking' = (sure \/ tracking)
  /\ UNCHANGED <<editor, dirty, windows>>

\* Faulty: deltas whether or not the buffer is in step.
Observed_AlwaysDelta(c, fs, sure) ==
  IF plugin = "none" THEN Unseen(fs, sure) ELSE Delta(c, fs, sure)

Observed(c, fs, sure) ==
  CASE plugin = "none" -> Unseen(fs, sure)
    [] plugin = "bound" /\ ~tracking -> KeyFrame(Applied(c, ytext), fs, sure)
    [] OTHER -> Delta(c, fs, sure)

\* mountView of a view that may have been unmounted.
Remounted == IF lock = "free" THEN "again" ELSE lock

\* The setter of isTracking mounts the view.
TrackingSet == lock' = IF tracking' # tracking THEN Remounted ELSE lock

Arrives(c) ==
  /\ ytext' = Applied(c, ytext)
  /\ Observed(c, flows, FALSE)
  /\ TrackingSet

-----------------------------------------------------------------------------
(* The registry's refresh passes.                                            *)

\* Faulty: a request made during a pass is dropped.
RefreshViews_Dropped ==
  /\ pass' = IF pass = "none" THEN "folders" ELSE pass
  /\ UNCHANGED again

\* refreshViews and drainRefreshQueue: of the requests made during a pass one is kept.
RefreshViews ==
  /\ pass' = IF pass = "none" THEN "folders" ELSE pass
  /\ again' = (pass # "none")

PassEnds ==
  /\ pass' = IF again THEN "folders" ELSE "none"
  /\ again' = FALSE
  /\ found' = "none"

\* The file is written before refreshIfStale has read it.
SavedFirst(written) ==
  windows' = IF written /\ reading THEN windows \cup {"saved first"} ELSE windows

\* The document's view, which unmountView finds: a placeholder has none.
HasView(view) == view \in {"live", "old"}

\* unmountView: a view that was tracking writes the Y.Doc to the file.
Unmounted ==
  /\ IF HasView(binding)
     THEN /\ file' = IF tracking THEN ytext ELSE file
          /\ online' = FALSE
          /\ lock' = "free"
     ELSE UNCHANGED <<file, online, lock>>
  /\ SavedFirst(HasView(binding) /\ tracking)

\* installExtensions: every editor's plugin is destroyed and made again.
Installed(view, t) ==
  /\ installed' = (view # "none" \/ others)
  /\ IF open THEN Constructed(IF view = "live" THEN "bound"
                              ELSE IF installed' THEN "embed" ELSE "none", t)
     ELSE UNCHANGED <<plugin, flows>>

\* Faulty: who is signed in is not asked.
Fresh_WhoeverIsIn == IF open THEN "live" ELSE "none"

\* collectOpenViews.
Fresh == CASE ~open -> "none" [] open /\ signedIn -> "live" [] OTHER -> "signedout"

Fails == failed' = TRUE /\ left.failures > 0 /\ left' = [left EXCEPT !.failures = @ - 1]
Works == failed' = FALSE /\ UNCHANGED left

\* pushResolvedView: the view is left out if its folder is not prepared after all, or on an error.
Collects(view) ==
  \/ view = Fresh /\ Works
  \/ view = "none" /\ Fresh = "live" /\ Fails

\* _executeRefreshPass, when the folders are ready: no shared document is open.
NothingOpen ==
  /\ pass = "folders" /\ ~open /\ ~others
  /\ Works
  /\ Unmounted
  /\ binding' = "none" /\ installed' = FALSE /\ tracking' = FALSE
  /\ PassEnds
  /\ UNCHANGED <<unsaved, text, leaf, live, signedIn, others, made, gone>>

\* mountViewsWithPool.
Mounted(view) == lock' = IF HasView(view) THEN "held" ELSE lock

\* The views are those of the last pass.
ViewsMatch ==
  /\ pass = "folders" /\ (open \/ others)
  /\ Collects(binding)
  /\ Mounted(binding)
  /\ Installed(binding, tracking)
  /\ PassEnds
  /\ UNCHANGED <<disk, text, online, leaf, reading, saveDue, signedIn, others, binding, tracking,
                 made, gone, windows>>

\* They are not: those that are gone are released, the others waited for.
ViewsDiffer ==
  /\ pass = "folders" /\ (open \/ others)
  /\ \E view \in Views \ {binding} : Collects(view) /\ found' = view
  /\ Unmounted
  /\ pass' = "ready"
  /\ UNCHANGED <<unsaved, text, leaf, live, signedIn, others, installed, binding, tracking, again,
                 made, gone>>

\* awaitViewsReady has the document's persisted text; the views are mounted.
ViewsReady ==
  /\ pass = "ready" /\ (HasView(found) => loaded)
  /\ binding' = found /\ tracking' = FALSE
  /\ Mounted(found)
  /\ Installed(found, FALSE)
  /\ PassEnds
  /\ UNCHANGED <<disk, text, online, leaf, reading, saveDue, signedIn, others, failed,
                 history, windows>>

\* Collecting throws, which is caught, or waiting does: then drainRefreshQueue is left, and what
\* is queued waits for the next request.
PassFails ==
  /\ pass # "none"
  /\ Fails
  /\ \/ pass = "folders" /\ PassEnds
     \/ pass' = "none" /\ found' = "none" /\ UNCHANGED again
  /\ UNCHANGED <<disk, text, online, leaf, live, signedIn, others, installed, binding, lock,
                 tracking, made, gone, windows>>

Asked ==
  /\ RefreshViews
  /\ UNCHANGED <<disk, text, online, leaf, live, others, installed, binding, found, failed,
                 tracking, made, gone, windows>>

\* A share, its document set or another leaf asks for a pass.
OtherRefresh ==
  /\ left.refreshes > 0
  /\ left' = [left EXCEPT !.refreshes = @ - 1]
  /\ Asked
  /\ UNCHANGED <<signedIn, lock>>

\* handleNetworkOnline: it mounts the tracked views besides, whatever a pass is doing with them.
NetworkOnline ==
  /\ left.refreshes > 0
  /\ left' = [left EXCEPT !.refreshes = @ - 1]
  /\ lock' = IF HasView(binding) THEN Remounted ELSE lock
  /\ Asked
  /\ UNCHANGED signedIn

\* AuthSession notifies the registry of a sign-in or sign-out.
SignsInOrOut ==
  /\ left.logins > 0
  /\ left' = [left EXCEPT !.logins = @ - 1]
  /\ signedIn' = ~signedIn
  /\ Asked
  /\ UNCHANGED lock

-----------------------------------------------------------------------------
(* The leaf.                                                                 *)

Open ==
  /\ ~open /\ left.opens > 0
  /\ open' = TRUE /\ editor' = file /\ dirty' = FALSE
  /\ Constructed(IF installed THEN "embed" ELSE "none", FALSE)
  /\ RefreshViews
  /\ left' = [left EXCEPT !.opens = @ - 1]
  /\ UNCHANGED <<disk, text, online, reading, saveDue, signedIn, others, installed, binding, lock,
                 found, failed, tracking, made, gone, windows>>

Older(view) == CASE view = "live" -> "old" [] view = "signedout" -> "gone" [] OTHER -> view

Close ==
  /\ open
  /\ open' = FALSE /\ editor' = <<>> /\ dirty' = FALSE
  /\ file' = IF dirty THEN editor ELSE file
  /\ plugin' = "none" /\ flows' = Orphaned
  /\ binding' = Older(binding) /\ found' = Older(found)
  /\ RefreshViews
  /\ SavedFirst(dirty)
  /\ UNCHANGED <<unsaved, text, online, reading, saveDue, signedIn, others, installed, lock, failed,
                 tracking, history>>

\* Obsidian's own save of the buffer.
Save ==
  /\ open /\ dirty
  /\ file' = editor /\ dirty' = FALSE
  /\ SavedFirst(dirty)
  /\ UNCHANGED <<unsaved, text, online, open, editor, live, registry, lock, tracking, history>>

\* scheduleSave after an edit without a view.
ScheduledSave ==
  /\ saveDue
  /\ file' = ytext /\ saveDue' = FALSE
  /\ SavedFirst(TRUE)
  /\ UNCHANGED <<unsaved, text, online, leaf, plugin, flows, reading, registry, lock, tracking,
                 history>>

(***************************************************************************)
(* LiveCMPluginValue.update: the user's change of the buffer goes to the   *)
(* Y.Doc at the same position, whether or not the view is tracking.        *)
(***************************************************************************)
Edit(c) ==
  /\ Dispatched(Applied(c, editor))
  /\ ytext' = IF plugin = "none" THEN ytext ELSE Applied(Clamped(c, ytext), ytext)
  /\ saveDue' = (saveDue \/ plugin = "embed")

Edited(c) ==
  /\ open
  /\ Edit(c)
  /\ UNCHANGED <<disk, stored, loaded, claim, done, online, open, plugin, flows, reading,
                 registry, lock, tracking>>

\* The buffer is not the Y.Doc's text yet, or no plugin hands the edit on.
EditedEarly ==
  windows' = IF plugin = "none" \/ ~loaded \/ editor # ytext
             THEN windows \cup {"edited early"} ELSE windows

TypeLocal(p, i) ==
  /\ p \notin made /\ i <= Len(editor)
  /\ Edited(Change(i, 0, <<p>>))
  /\ made' = made \cup {p}
  /\ EditedEarly
  /\ UNCHANGED <<gone, left>>

DeleteLocal(i) ==
  /\ i < Len(editor) /\ left.deletes > 0
  /\ Edited(Change(i, 1, <<>>))
  /\ gone' = gone \cup {editor[i + 1]}
  /\ left' = [left EXCEPT !.deletes = @ - 1]
  /\ EditedEarly
  /\ UNCHANGED made

-----------------------------------------------------------------------------
(* The Y.Doc and the relay.                                                  *)

Still == <<disk, online, open, plugin, reading, saveDue, registry>>

\* LocalDocumentStore: what was typed since is merged with it, before or after.
Load ==
  /\ ~loaded
  /\ loaded' = TRUE
  /\ \/ /\ stored = <<>>
        /\ UNCHANGED <<ytext, editor, dirty, tracking, lock, flows, windows>>
     \/ /\ stored # <<>>
        /\ \E i \in {0, Len(ytext)} : Arrives(Change(i, 0, stored))
  /\ UNCHANGED <<Still, stored, claim, done, history>>

PeerInserts(p, i) ==
  /\ online /\ loaded /\ p \notin made /\ i <= Len(ytext)
  /\ done \/ ytext # <<>>
  /\ Arrives(Change(i, 0, <<p>>))
  /\ made' = made \cup {p}
  /\ UNCHANGED <<Still, stored, loaded, claim, done, gone, left>>

PeerDeletes(i) ==
  /\ online /\ loaded /\ i < Len(ytext) /\ left.deletes > 0
  /\ Arrives(Change(i, 1, <<>>))
  /\ gone' = gone \cup {ytext[i + 1]}
  /\ left' = [left EXCEPT !.deletes = @ - 1]
  /\ UNCHANGED <<Still, stored, loaded, claim, done, made>>

\* Another client's claim arrives, before ours is quiet: it may win against it.
PeerClaims ==
  /\ online /\ loaded /\ ~done /\ ytext = <<>> /\ claim # "peer"
  /\ claim' = "peer"
  /\ UNCHANGED <<ytext, stored, loaded, done, disk, online, leaf, live, registry, lock, tracking,
                 history, windows>>

\* What it inserts: its own file's text.
PeerSeeds ==
  /\ online /\ claim = "peer" /\ ~done
  /\ done' = TRUE
  /\ Arrives(Change(0, 0, <<Old>>))
  /\ UNCHANGED <<Still, stored, loaded, claim, history>>

GoesOnline ==
  /\ ~online /\ (plugin # "none" \/ lock # "free")
  /\ online' = TRUE
  /\ UNCHANGED <<disk, text, leaf, live, registry, lock, tracking, history, windows>>

Drop ==
  /\ online /\ left.drops > 0
  /\ online' = FALSE
  /\ left' = [left EXCEPT !.drops = @ - 1]
  /\ UNCHANGED <<disk, text, leaf, live, registry, lock, tracking, made, gone, windows>>

-----------------------------------------------------------------------------
(* The steps of resync.                                                      *)

At(s, stage) == flows[s] # None /\ flows[s].at = stage
Goes(s, f) == flows' = [flows EXCEPT ![s] = f]
Ends(s) == Goes(s, None)

\* Faulty: the resync is not made up for.
ResyncOnline_Forgets(s) ==
  /\ At(s, "offline") /\ online
  /\ Ends(s)
  /\ UNCHANGED <<disk, text, online, leaf, plugin, reading, saveDue, registry, lock, tracking,
                 history, windows>>

\* onceOnline resolves.
ResyncOnline(s) ==
  /\ At(s, "offline") /\ online
  /\ Goes(s, Flow("waiting", Branch(plugin, tracking)))
  /\ UNCHANGED <<disk, text, online, leaf, plugin, reading, saveDue, registry, lock, tracking,
                 history, windows>>

\* The guard for an empty Y.Doc: claimInitIfUnclaimed, with the buffer as it is.
ClaimsInit(s) ==
  /\ At(s, "waiting") /\ loaded
  /\ ytext = <<>> /\ editor # <<>>
  /\ claim' = IF claim = "none" /\ ~done THEN "mine" ELSE claim
  /\ Goes(s, [flows[s] EXCEPT !.at = "claiming", !.was = editor])
  /\ UNCHANGED <<ytext, stored, loaded, done, disk, online, leaf, plugin, reading, saveDue,
                 registry, lock, tracking, history, windows>>

(***************************************************************************)
(* getKeyFrame: the buffer becomes the Y.Doc's text.  refreshStaleState is *)
(* not waited for; with a view that tracks, or none, refreshIfStale is.    *)
(***************************************************************************)
GetKeyFrame(s) ==
  /\ At(s, "waiting") /\ loaded
  /\ ytext # <<>> \/ editor = <<>>
  /\ \/ /\ ytext = editor
        /\ tracking' = (tracking \/ plugin = "bound")
        /\ Ends(s)
        /\ UNCHANGED <<editor, dirty, reading>>
     \/ /\ ytext # editor /\ plugin = "bound" /\ ~tracking
        /\ Dispatched(ytext)
        /\ reading' = TRUE
        /\ Ends(s)
        /\ UNCHANGED tracking
     \/ /\ ytext # editor /\ (plugin = "embed" \/ tracking)
        /\ Goes(s, [flows[s] EXCEPT !.at = "comparing"])
        /\ UNCHANGED <<editor, dirty, reading, tracking>>
  /\ TrackingSet
  /\ UNCHANGED <<disk, text, online, open, plugin, saveDue, registry, history, windows>>

\* Faulty: compares without keeping.
RefreshIfStale_Unkept == UNCHANGED unsaved

\* refreshIfStale: a text set aside earlier is compared in place of the file.
RefreshIfStale ==
  LET kept == IF unsaved \notin {NoText, <<>>} THEN unsaved ELSE file
  IN  unsaved' = IF kept = ytext THEN NoText ELSE kept

Compared(s) ==
  /\ At(s, "comparing")
  /\ RefreshIfStale
  /\ IF flows[s].branch = "other" \/ (flows[s].branch = "bound" /\ ~tracking)
     THEN Dispatched(ytext) ELSE UNCHANGED <<editor, dirty>>
  /\ Ends(s)
  /\ UNCHANGED <<file, text, online, open, plugin, reading, saveDue, registry, lock, tracking,
                 history, windows>>

RefreshStaleState ==
  /\ reading
  /\ reading' = FALSE
  /\ RefreshIfStale
  /\ UNCHANGED <<file, text, online, leaf, plugin, flows, saveDue, registry, lock, tracking,
                 history, windows>>

WonInitClaim == claim = "mine" /\ ~done /\ ytext = <<>>

(***************************************************************************)
(* awaitClaimSettled is over.  The winner inserts the buffer as it was     *)
(* when it claimed, which its own observer sees like any other change; a   *)
(* view is tracking from here on, whatever came of the claim.              *)
(***************************************************************************)
InitSettled(s) ==
  LET binds == flows[s].branch = "bound"
      rest == [flows EXCEPT ![s] = None]
  IN
  /\ At(s, "claiming")
  /\ \/ /\ WonInitClaim
        /\ done' = TRUE
        /\ ytext' = flows[s].was \o ytext
        /\ Observed(Change(0, 0, flows[s].was), rest, binds)
     \/ /\ ~WonInitClaim
        /\ tracking' = (tracking \/ binds)
        /\ flows' = rest
        /\ windows' = IF binds /\ editor # ytext THEN windows \cup {"claim lost"} ELSE windows
        /\ UNCHANGED <<ytext, done, editor, dirty>>
  /\ TrackingSet
  /\ UNCHANGED <<Still, stored, loaded, claim, history>>

-----------------------------------------------------------------------------

Init ==
  /\ \E s \in Starts :
       /\ file = IF s = "edited" THEN <<Old, Ahead>> ELSE <<Old>>
       /\ stored = CASE s \in {"agreed", "edited"} -> <<Old>>
                     [] s = "new" -> <<>>
                     [] s = "ahead" -> <<Old, Ahead>>
       /\ made = ToSet(file) \cup ToSet(stored)
  /\ loaded \in BOOLEAN
  /\ ytext = IF loaded THEN stored ELSE <<>>
  /\ unsaved = NoText /\ claim = "none" /\ done = FALSE /\ online = FALSE
  /\ open = FALSE /\ editor = <<>> /\ dirty = FALSE
  /\ plugin = "none" /\ flows = [s \in Slots |-> None]
  /\ reading = FALSE /\ saveDue = FALSE
  /\ others \in BOOLEAN /\ installed = others
  /\ binding = "none" /\ tracking = FALSE /\ lock = "free"
  /\ pass = "none" /\ found = "none" /\ again = FALSE /\ failed = FALSE
  /\ gone = {}
  /\ left \in Budgets
  /\ signedIn = TRUE   \* a start without is a sign-out away
  /\ windows = {}

Pass == NothingOpen \/ ViewsMatch \/ ViewsDiffer \/ ViewsReady \/ PassFails

Resync(s) ==
  ResyncOnline(s) \/ ClaimsInit(s) \/ GetKeyFrame(s) \/ Compared(s) \/ InitSettled(s)

User ==
  \/ Open \/ Close \/ OtherRefresh \/ NetworkOnline \/ SignsInOrOut
  \/ \E i \in 0..MaxLength :
       DeleteLocal(i) \/ PeerDeletes(i) \/ (\E p \in Typed : TypeLocal(p, i))
                      \/ (\E p \in Peers : PeerInserts(p, i))

Next ==
  \/ User \/ Drop \/ PeerClaims
  \/ Pass \/ Load \/ PeerSeeds \/ GoesOnline \/ RefreshStaleState \/ Save \/ ScheduledSave
  \/ \E s \in Slots : Resync(s)

\* What the program or Obsidian does by itself; a peer that claims goes on to insert.
Fairness ==
  /\ WF_vars(Pass) /\ WF_vars(Load) /\ WF_vars(signedIn /\ GoesOnline) /\ WF_vars(PeerSeeds)
  /\ WF_vars(RefreshStaleState) /\ WF_vars(ScheduledSave) /\ WF_vars(Save)
  /\ \A s \in Slots : WF_vars(Resync(s))

Spec == Init /\ [][Next]_vars /\ Fairness

\* Nothing is explored beyond one of the windows, which the README lists.
OutsideWindows == windows = {}

-----------------------------------------------------------------------------
(* Properties.                                                               *)

\* While a view's isTracking is set, its buffer is the Y.Doc's text: both directions
\* send positions then (LiveCMPluginValue's observer and update), and a position means
\* another place in another text.
InStepWhenTracking ==
  windows = {} /\ plugin = "bound" /\ tracking => editor = ytext

Held == ToSet(ytext) \cup ToSet(editor) \cup ToSet(file)
        \cup (IF unsaved = NoText THEN {} ELSE ToSet(unsaved))
        \cup (IF loaded THEN {} ELSE ToSet(stored))

\* Of what a user or peer has added and nobody deleted, everything is still somewhere:
\* in the Y.Doc, the buffer, the file, what was set aside or what is not loaded yet,
\* whatever keyframes, deltas, saves and mounts have overwritten meanwhile.
NothingLost == windows = {} => made \ gone \subseteq Held

\* When no refresh pass is running, and the last one neither threw nor left the view out, the
\* document's view is tracked exactly while its leaf is open and somebody is signed in, and its
\* editLock is held exactly then, whenever leaves opened and closed and users came and went in
\* the middle of a pass (drainRefreshQueue, reconcileViewSets, unmountView).  A lock that
\* isTracking's setter or handleNetworkOnline set once more on a view already released is
\* excepted, until a view is mounted or released again.
ViewsFollowTheWorkspace ==
  pass = "none" /\ ~failed =>
    /\ binding = "live" <=> open /\ signedIn
    /\ lock = "again" \/ (lock = "held" <=> open /\ signedIn)

\* An open leaf's buffer comes to be the Y.Doc's text and stays so once the user and the
\* peers are done, however plugin, passes, connection and updates interleave (resync), if in
\* the end somebody is signed in and the last pass has not failed.
EditorFollows == <>[](windows # {} \/ failed \/ ~(open /\ signedIn) \/ editor = ytext)
=============================================================================
