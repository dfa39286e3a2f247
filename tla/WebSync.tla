------------------------------- MODULE WebSync -------------------------------
(***************************************************************************)
(* How a published share follows the vault (WebSyncManager.ts and the      *)
(* commands of main.ts that push by themselves).  An edit is pushed at     *)
(* once or after a debounce, depending on when the share was last pushed;  *)
(* creations, renames and deletions push the list of a folder's files.     *)
(* Several pushes are in flight at a time, and the server keeps what       *)
(* arrives last.  One share, of one document or of a folder, whose web     *)
(* slug is known from the start.                                           *)
(***************************************************************************)
EXTENDS Naturals, FiniteSets

CONSTANTS
  Paths,    \* where files can be
  Home,     \* the path a document's share was made for
  Folder,   \* the path of the folder share
  Pushes,   \* bounds how many pushes are in flight
  NoFile,
  MaxContent, MaxInfo, MaxTries, MaxEvents

WebAssumption ==
  /\ Home \in Paths /\ Folder \notin Paths
  /\ {MaxContent, MaxInfo, MaxTries, MaxEvents} \subseteq Nat
  /\ NoFile \notin Nat /\ IsFiniteSet(Pushes)

VARIABLES
  kind,       \* "doc" or "folder"
  disk,       \* the vault: [Paths -> content or NoFile]
  web, list,  \* the server: contents, and web_folder_items
  reg,        \* autoSyncShares: [path -> the ShareInfo object, 0 if none]
  recent,     \* ShareInfo objects whose lastSync is less than minSyncIntervalMs ago
  closure,    \* debouncedFolderFileSyncMap: [Paths -> the ShareInfo closed over, or 0]
  timers,     \* debounced calls to come: <<path, ShareInfo closed over, or 0>>
  push,       \* [Pushes -> what is being pushed]
  outbound,   \* _outboundSyncCount
  made, infos, events, \* what the bounds count
  waived, listWaived   \* history: see WebFollowsTheVault

server == <<web, list>>
manager == <<reg, recent, closure, timers, push, outbound>>
vars == <<kind, disk, server, manager, made, infos, events, waived, listWaived>>

-----------------------------------------------------------------------------
(* Shares, contents and pushes *)

Files == {p \in Paths : disk[p] # NoFile}

\* What of the server's share a file is: all of it, or the file of that name.
Slot(p) == IF kind = "doc" THEN Home ELSE p

\* The registration an event of this file finds, 0 if none.
ShareInfo(p) == IF kind = "doc" THEN reg[p] ELSE reg[Folder]

\* what: "file" for an automatic push, "list" for web_folder_items, "sweep" for
\* a command's, which may begin with the list and go on with the files in todo.
\* file is where the file being read is now: a TFile follows a rename.
Quiet == [what |-> "none", stage |-> "none", path |-> Home, file |-> Home, text |-> NoFile,
          info |-> 0, tries |-> 0, items |-> {}, todo |-> {}]

Free(k) == push[k] = Quiet
Guarded(k) == push[k].what \in {"file", "sweep"}
Sending(k) == push[k].stage \in {"send", "wait"}
Goes(k, stage) == push' = [push EXCEPT ![k].stage = stage]

\* Another push of the same slot has another text under way: either may be last.
Contested(p, k, text) ==
  \E j \in Pushes \ {k} : Sending(j) /\ push[j].text # text /\ Slot(push[j].path) = Slot(p)
ListContested(k, items) ==
  \E j \in Pushes \ {k} : push[j].stage = "list" /\ push[j].items # items

Waive(p) == waived' = waived \cup {Slot(p)}
Event == events < MaxEvents /\ events' = events + 1

\* A flag and not a count (TR-25; a faulty variant).
BeginOutbound_Flag == outbound' = 1

\* _beginOutboundSync, around every push of contents.
BeginOutbound == outbound' = outbound + 1
EndOutbound == IF outbound = 0 THEN 0 ELSE outbound - 1

\* vault.read is called with the count already raised.
FilePush(p, i) == [Quiet EXCEPT !.what = "file", !.stage = "read", !.path = p, !.file = p,
                                !.info = i]

(***************************************************************************)
(* The push k is done with its file: a sweep goes on with the next.        *)
(***************************************************************************)
Ends(k) ==
  IF push[k].todo = {}
  THEN /\ push' = [push EXCEPT ![k] = Quiet]
       /\ outbound' = IF Guarded(k) THEN EndOutbound ELSE outbound
  ELSE /\ \E p \in push[k].todo :
            push' = [push EXCEPT ![k] = [push[k] EXCEPT !.stage = "read", !.path = p, !.file = p,
                                                  !.tries = 0, !.todo = @ \ {p}]]
       /\ UNCHANGED outbound

-----------------------------------------------------------------------------
(* Events of the vault *)

\* The folder's own debounced call is used, which finds no file (TR-23; a faulty variant).
Debounced_Folder(p) ==
  /\ kind = "doc" \/ reg[Folder] \in recent
  /\ timers' = IF kind = "doc" THEN timers \cup {<<p, 0>>} ELSE timers
  /\ UNCHANGED <<closure, push, outbound>>

\* onFileModified: an edit of a document waits; one in a folder only if the share
\* was pushed just now.
Debounced(p) ==
  /\ kind = "doc" \/ reg[Folder] \in recent
  /\ closure' = IF kind = "folder" /\ closure[p] = 0
                THEN [closure EXCEPT ![p] = reg[Folder]] ELSE closure
  /\ timers' = timers \cup {<<p, closure'[p]>>}
  /\ UNCHANGED <<push, outbound>>

PushedAtOnce(p) ==
  /\ kind = "folder" /\ reg[Folder] \notin recent
  /\ \E k \in Pushes : Free(k) /\ push' = [push EXCEPT ![k] = FilePush(p, reg[Folder])]
  /\ BeginOutbound
  /\ UNCHANGED <<closure, timers>>

Edit(p) ==
  /\ p \in Files /\ made < MaxContent
  /\ made' = made + 1 /\ disk' = [disk EXCEPT ![p] = made']
  /\ IF ShareInfo(p) # 0
     THEN /\ Debounced(p) \/ PushedAtOnce(p)
          /\ waived' = waived \ {Slot(p)}
     ELSE Waive(p) /\ UNCHANGED <<closure, timers, push, outbound>>
  /\ UNCHANGED <<kind, server, reg, recent, infos, events, listWaived>>

\* getFolderItems and updateShare: the list as it is now, besides the pushes in flight.
ListPush(inFlight) ==
  IF kind = "folder" /\ reg[Folder] # 0
  THEN \E k \in Pushes :
         /\ Free(k)
         /\ LET items == {p \in Paths : disk'[p] # NoFile}
            IN /\ push' = [inFlight EXCEPT ![k] = [Quiet EXCEPT !.what = "list", !.stage = "list",
                                                                 !.items = items]]
               /\ listWaived' = ListContested(k, items)
  ELSE push' = inFlight /\ listWaived' = (kind = "folder" \/ listWaived)

\* No call and no push is under way that may change what the share shows here.
AtRest(s) ==
  /\ \A t \in timers : Slot(t[1]) # s
  /\ \A k \in Pushes : push[k].stage \in {"read", "send", "wait"} => Slot(push[k].path) # s

\* onFileCreated: what the new file holds is not pushed.
Create(p) ==
  /\ kind = "folder" /\ p \notin Files /\ made < MaxContent /\ Event
  /\ made' = made + 1 /\ disk' = [disk EXCEPT ![p] = made']
  /\ ListPush(push) /\ Waive(p)
  /\ UNCHANGED <<kind, server, reg, recent, closure, timers, outbound, infos>>

\* The reads follow the file, and what the old path held is on its way, or not yet:
\* what the new path shows is waived unless it is this file's text already.
Moved(p, q) ==
  /\ disk' = [disk EXCEPT ![p] = NoFile, ![q] = disk[p]]
  /\ ListPush([k \in Pushes |-> IF push[k].stage = "read" /\ push[k].file = p
                                 THEN [push[k] EXCEPT !.file = q] ELSE push[k]])
  /\ waived' = IF kind = "folder" /\ ~(AtRest(q) /\ web[q] = disk[p])
               THEN waived \cup {q} ELSE waived

\* onFileRenamed: a document's registration follows it, its pending call does not.
Rename(p, q) ==
  /\ p \in Files /\ q \notin Files /\ Event
  /\ Moved(p, q)
  /\ reg' = IF kind = "doc" /\ reg[p] # 0 THEN [reg EXCEPT ![p] = 0, ![q] = reg[p]] ELSE reg
  /\ UNCHANGED <<kind, server, recent, closure, timers, outbound, made, infos>>

\* onFileDeleted
Delete(p) ==
  /\ p \in Files /\ Event
  /\ disk' = [disk EXCEPT ![p] = NoFile]
  /\ reg' = IF kind = "doc" THEN [reg EXCEPT ![p] = 0] ELSE reg
  /\ ListPush(push)
  /\ UNCHANGED <<kind, server, recent, closure, timers, outbound, made, infos, waived>>

-----------------------------------------------------------------------------
(* Timers and pushes *)

\* syncFile, of a document, asks again; syncFolderFileByPath does not.
TimerFires(p, i) ==
  /\ <<p, i>> \in timers /\ timers' = timers \ {<<p, i>>}
  /\ LET info == IF kind = "doc" THEN reg[p] ELSE i
     IN IF \/ p \notin Files
           \/ kind = "doc" /\ (info = 0 \/ info \in recent)
        THEN Waive(p) /\ UNCHANGED <<push, outbound>>
        ELSE /\ \E k \in Pushes : Free(k) /\ push' = [push EXCEPT ![k] = FilePush(p, info)]
             /\ BeginOutbound /\ UNCHANGED waived
  /\ UNCHANGED <<kind, disk, server, reg, recent, closure, made, infos, events, listWaived>>

\* Date.now() - lastSync reaches minSyncIntervalMs.
IntervalElapses(i) ==
  /\ i \in recent /\ recent' = recent \ {i}
  /\ UNCHANGED <<kind, disk, server, reg, closure, timers, push, outbound, made, infos,
                 events, waived, listWaived>>

\* vault.read has answered.  An automatic push of a folder's file takes the path the
\* file has now, and ends here if its ShareInfo is no longer the registered one; a
\* sweep sends what it read to the path it looked up.
Reads(k) ==
  /\ push[k].stage = "read"
  /\ LET f == push[k].file
         auto == push[k].what = "file"
         p == IF auto THEN f ELSE push[k].path
     IN IF f \in Files /\ (auto /\ kind = "folder" => push[k].info = reg[Folder])
        THEN /\ push' = [push EXCEPT ![k] = [push[k] EXCEPT !.stage = "send", !.path = p,
                                                      !.text = disk[f]]]
             /\ IF Contested(p, k, disk[f]) \/ Slot(p) # Slot(f)
                THEN Waive(p) ELSE UNCHANGED waived
             /\ UNCHANGED outbound
        ELSE Ends(k) /\ Waive(p)
  /\ UNCHANGED <<kind, disk, server, reg, recent, closure, timers, made, infos, events,
                 listWaived>>

Arrives(k) == web' = [web EXCEPT ![Slot(push[k].path)] = push[k].text] /\ UNCHANGED list

Pushed(k) ==
  /\ push[k].stage = "send"
  /\ Arrives(k) /\ Ends(k)
  /\ recent' = IF push[k].what = "file" THEN recent \cup {push[k].info} ELSE recent
  /\ UNCHANGED <<kind, disk, reg, closure, timers, made, infos, events, waived, listWaived>>

\* The request fails, or only its answer is lost.
PushFails(k) ==
  /\ push[k].stage = "send" /\ Event
  /\ \/ Arrives(k) /\ UNCHANGED waived
     \/ /\ UNCHANGED server
        /\ IF push[k].text = disk[push[k].path] \/ kind = "doc"
           THEN Waive(push[k].path) ELSE UNCHANGED waived
  /\ Ends(k)
  /\ UNCHANGED <<kind, disk, reg, recent, closure, timers, made, infos, listWaived>>

\* 429: syncFolderFileContent sends the same text again later.
TooMany(k) ==
  /\ push[k].stage = "send" /\ kind = "folder" /\ push[k].tries < MaxTries /\ Event
  /\ push' = [push EXCEPT ![k] = [push[k] EXCEPT !.stage = "wait", !.tries = @ + 1]]
  /\ UNCHANGED <<kind, disk, server, reg, recent, closure, timers, outbound, made, infos,
                 waived, listWaived>>

SendsAgain(k) ==
  /\ push[k].stage = "wait" /\ Goes(k, "send")
  /\ UNCHANGED <<kind, disk, server, reg, recent, closure, timers, outbound, made, infos,
                 events, waived, listWaived>>

ListPushed(k) ==
  /\ push[k].stage = "list"
  /\ list' = push[k].items /\ Ends(k)
  /\ UNCHANGED <<kind, disk, web, reg, recent, closure, timers, made, infos, events, waived,
                 listWaived>>

\* A sweep that could not push the list leaves the share alone.
ListFails(k) ==
  /\ push[k].stage = "list" /\ Event
  /\ push' = [push EXCEPT ![k] = Quiet]
  /\ outbound' = IF Guarded(k) THEN EndOutbound ELSE outbound
  /\ listWaived' = TRUE
  /\ UNCHANGED <<kind, disk, server, reg, recent, closure, timers, made, infos, waived>>

-----------------------------------------------------------------------------
(* Commands, registration and restarts *)

\* syncAllShares and _initialFullSync, under withOutboundSyncGuard.
SyncAll ==
  /\ Event
  /\ \E k \in Pushes :
       /\ Free(k)
       /\ IF kind = "doc"
          THEN /\ Home \in Files
               /\ push' = [push EXCEPT ![k] = [Quiet EXCEPT !.what = "sweep", !.stage = "read"]]
               /\ UNCHANGED listWaived
          ELSE /\ push' = [push EXCEPT ![k] = [Quiet EXCEPT !.what = "sweep", !.stage = "list",
                                                            !.items = Files, !.todo = Files]]
               /\ listWaived' = ListContested(k, Files)
  /\ BeginOutbound
  /\ UNCHANGED <<kind, disk, server, reg, recent, closure, timers, made, infos, waived>>

SyncCurrentFile(p) ==
  /\ p \in Files /\ (kind = "doc" => p = Home) /\ Event
  /\ \E k \in Pushes :
       /\ Free(k)
       /\ push' = [push EXCEPT ![k] = [Quiet EXCEPT !.what = "sweep", !.stage = "read",
                                                    !.path = p, !.file = p]]
  /\ BeginOutbound
  /\ UNCHANGED <<kind, disk, server, reg, recent, closure, timers, made, infos, waived,
                 listWaived>>

\* registerAutoSyncShare: when the shares are loaded after a login, whether or not
\* they were registered before, and when the user turns automatic publishing on.
Register ==
  /\ infos < MaxInfo
  /\ infos' = infos + 1
  /\ reg' = [reg EXCEPT ![IF kind = "doc" THEN Home ELSE Folder] = infos']
  /\ UNCHANGED <<kind, disk, server, recent, closure, timers, push, outbound, made, events,
                 waived, listWaived>>

\* unregisterAutoSyncShare: the debounced calls are forgotten, not cancelled.
Unregister ==
  /\ Event
  /\ reg' = [reg EXCEPT ![IF kind = "doc" THEN Home ELSE Folder] = 0]
  /\ closure' = [p \in Paths |-> 0]
  /\ UNCHANGED <<kind, disk, server, recent, timers, push, outbound, made, infos, waived,
                 listWaived>>

\* The application is closed and started; the shares are not loaded yet.
Restart ==
  /\ Event
  /\ reg' = [r \in DOMAIN reg |-> 0] /\ recent' = {} /\ closure' = [p \in Paths |-> 0]
  /\ timers' = {} /\ push' = [k \in Pushes |-> Quiet] /\ outbound' = 0
  /\ waived' = waived \cup {Slot(t[1]) : t \in timers}
                      \cup {Slot(push[k].path) : k \in {k \in Pushes : push[k].what = "file"}}
  /\ listWaived' = (listWaived \/ \E k \in Pushes : push[k].stage = "list")
  /\ UNCHANGED <<kind, disk, server, made, infos>>

-----------------------------------------------------------------------------

Init ==
  /\ kind \in {"doc", "folder"}
  /\ \E there \in IF kind = "doc" THEN {{Home}} ELSE {{Home}, Paths} :
       /\ disk = [p \in Paths |-> IF p \in there THEN 1 ELSE NoFile]
       /\ list = IF kind = "doc" THEN {} ELSE there
  /\ web = disk /\ made = 1
  /\ reg = [r \in Paths \cup {Folder} |-> 0]
  /\ recent = {} /\ closure = [p \in Paths |-> 0] /\ timers = {}
  /\ push = [k \in Pushes |-> Quiet] /\ outbound = 0
  /\ infos = 0 /\ events = 0 /\ waived = {} /\ listWaived = FALSE

Next ==
  \/ \E p \in Paths : Edit(p) \/ Create(p) \/ Delete(p) \/ SyncCurrentFile(p)
  \/ \E p, q \in Paths : Rename(p, q)
  \/ \E p \in Paths, i \in 0..MaxInfo : TimerFires(p, i)
  \/ \E i \in recent : IntervalElapses(i)
  \/ \E k \in Pushes : \/ Reads(k) \/ Pushed(k) \/ PushFails(k) \/ TooMany(k)
                       \/ SendsAgain(k) \/ ListPushed(k) \/ ListFails(k)
  \/ SyncAll \/ Register \/ Unregister \/ Restart

Spec == Init /\ [][Next]_vars

-----------------------------------------------------------------------------
(* Properties *)

(***************************************************************************)
(* The published share shows the vault: when nothing is under way for a    *)
(* file, the server has its last edit, and the folder's list is the        *)
(* vault's.  Excepted (until the file's next edit, or the next list) is    *)
(* what the manager gives up or never takes up: a failed push, a document  *)
(* edited again within the interval (syncFile), a debounced call that      *)
(* closed over an earlier registration, the content of a created or moved  *)
(* file, edits of a share that is not registered or before a restart; and  *)
(* texts that were on their way at the same time, since the later request  *)
(* may arrive first.                                                       *)
(***************************************************************************)
WebFollowsTheVault ==
  /\ \A p \in Files : AtRest(Slot(p)) => Slot(p) \in waived \/ web[Slot(p)] = disk[p]
  /\ kind = "folder" /\ (\A k \in Pushes : push[k].stage # "list")
       => listWaived \/ list = Files

(***************************************************************************)
(* The echo guard: isOutboundSyncing holds as long as any push of contents *)
(* is in flight, however they overlap and end, and no longer, so that      *)
(* inbound polling neither meets a push nor stops for good.                *)
(***************************************************************************)
OutboundExact == (outbound > 0) <=> \E k \in Pushes : Guarded(k)
=============================================================================
