----------------------------- MODULE InboundSync -----------------------------
(***************************************************************************)
(* How files written to a folder share on the server reach the vault:      *)
(* InboundSyncPoller.ts watches each share's web_content_updated_at, and   *)
(* InboundFileDownloader.ts fetches the files that changed, refusing to    *)
(* write over what the user has edited.  Both stand aside while            *)
(* WebSyncManager.ts pushes a file out.  One server; of an equal pair of   *)
(* hashes the contents are equal, so a content stands for its hash.        *)
(***************************************************************************)
EXTENDS Naturals, FiniteSets

CONSTANTS
  Shares, Files, ShareOf, \* [Files -> Shares]
  MaxContent, \* contents ever made, on the server or by the user
  MaxEvents,  \* how many failures, pushes and restarts there are
  None

Contents == 1..MaxContent
Maybe(S) == S \cup {None}

ASSUME InboundAssumption ==
  /\ ShareOf \in [Files -> Shares] /\ Shares # {}
  /\ {MaxContent, MaxEvents} \subseteq Nat /\ MaxContent > 0
  /\ None \notin Nat \cup Shares \cup Files
  /\ \A l, r \in Contents : None # [local |-> l, server |-> r]

VARIABLES
  srv, bump,      \* server: the files' contents, the shares' update counters
  disk,           \* the vault: [Files -> Maybe(Contents)]
  manifest, seen, \* persisted: lastWrittenHash, persistedUpdatedAt
  watched,        \* watchedShares: [Shares -> lastUpdatedAt, None when unwatched]
  conflicts,      \* [Files -> None or the local and the server hash]
  job,            \* the poll under way and its download
  backoff,        \* the server's retryAt has not come yet
  pushing,        \* WebSyncManager: [Files -> the content being pushed]
  made, events,    \* what the bounds count
  here,           \* history: contents the user made and the server never had
  waived,         \* history: files whose download was given up, see WatermarkIsHonest
  kept            \* history: [Files -> the server hash accepted by "Keep local"]

server == <<srv, bump>>
vars == <<srv, bump, disk, manifest, seen, watched, conflicts, job, backoff, pushing,
          made, events, here, waived, kept>>

FilesOf(s) == {f \in Files : ShareOf[f] = s}

\* isOutboundSyncing
OutboundSyncing == \E f \in Files : pushing[f] # None

-----------------------------------------------------------------------------
(* The poll: one share after another, and of a share one file after        *)
(* another.  The phase names what is awaited; "next" and "file" are loops. *)

Phases == {"idle", "next", "share", "index", "file", "fetch", "write"}

NoFiles == [f \in {} |-> None]
Idle == [phase |-> "idle", visited |-> {}, share |-> None, last |-> None, new |-> None,
         index |-> NoFiles, copy |-> NoFiles, todo |-> {}, file |-> None, text |-> None,
         raced |-> FALSE]
NextShare == [Idle EXCEPT !.phase = "next", !.visited = job.visited]
NextFile == [job EXCEPT !.phase = "file", !.file = None, !.text = None, !.raced = FALSE]

\* The file changes under a download of it (a history variable).
Raced(f) == [job EXCEPT !.raced = @ \/ job.file = f]

Polling == job.phase # "idle"
Downloading(s) == job.phase \in {"index", "file", "fetch", "write"} /\ job.share = s

\* A failure, a push or a restart.
Event == events < MaxEvents /\ events' = events + 1
NoEvent == UNCHANGED events

Others == UNCHANGED <<made, here, kept>>

\* The interval's callback, _poll.
PollTick ==
  /\ ~Polling /\ ~OutboundSyncing /\ \E s \in Shares : watched[s] # None
  /\ job' = [Idle EXCEPT !.phase = "next"]
  /\ NoEvent /\ Others
  /\ UNCHANGED <<server, disk, manifest, seen, watched, conflicts, backoff, pushing, waived>>

Visit(s) ==
  /\ job.phase = "next" /\ watched[s] # None /\ s \notin job.visited
  /\ job' = IF backoff THEN [job EXCEPT !.visited = @ \cup {s}]
            ELSE [job EXCEPT !.phase = "share", !.visited = @ \cup {s},
                             !.share = s, !.last = watched[s]]
  /\ NoEvent /\ Others
  /\ UNCHANGED <<server, disk, manifest, seen, watched, conflicts, backoff, pushing, waived>>

PollEnds ==
  /\ job.phase = "next" /\ \A s \in Shares : watched[s] # None => s \in job.visited
  /\ job' = Idle
  /\ NoEvent /\ Others
  /\ UNCHANGED <<server, disk, manifest, seen, watched, conflicts, backoff, pushing, waived>>

\* getShare answers _checkShare; downloadShare asks again, out of the cache.
ShareAnswers ==
  /\ job.phase = "share"
  /\ LET new == bump[job.share] IN
       job' = IF new \in {0, job.last} \/ OutboundSyncing THEN NextShare
              ELSE [job EXCEPT !.phase = "index", !.new = new]
  /\ NoEvent /\ Others
  /\ UNCHANGED <<server, disk, manifest, seen, watched, conflicts, backoff, pushing, waived>>

\* A transient failure of any request ends the share's turn and backs off.
BacksOff == job' = NextShare /\ backoff' = TRUE

ShareFails ==
  /\ job.phase = "share" /\ BacksOff
  /\ Event /\ Others
  /\ UNCHANGED <<server, disk, manifest, seen, watched, conflicts, pushing, waived>>

\* Faulty: the watermark is what the share's counter has become meanwhile.
Advance_Now(s) ==
  /\ watched' = [watched EXCEPT ![s] = bump[s]]
  /\ seen' = [seen EXCEPT ![s] = bump[s]]

\* The share's download has run.
Advance(s) ==
  /\ watched' = [watched EXCEPT ![s] = job.new]
  /\ seen' = [seen EXCEPT ![s] = job.new]

IndexAnswers ==
  /\ job.phase = "index"
  /\ LET s == job.share IN
       IF FilesOf(s) = {} THEN Advance(s) /\ job' = NextShare
       ELSE /\ job' = [job EXCEPT !.phase = "file", !.todo = FilesOf(s),
                                  !.index = [f \in FilesOf(s) |-> srv[f]],
                                  !.copy = [f \in FilesOf(s) |-> manifest[f]]]
            /\ UNCHANGED <<watched, seen>>
  /\ NoEvent /\ Others
  /\ UNCHANGED <<server, disk, manifest, conflicts, backoff, pushing, waived>>

\* Only a transient failure is thrown; after another one the download "ran".
IndexFails ==
  /\ job.phase = "index"
  /\ \/ BacksOff /\ UNCHANGED <<watched, seen, waived>>
     \/ /\ Advance(job.share) /\ job' = NextShare
        /\ waived' = waived \cup FilesOf(job.share)
        /\ UNCHANGED backoff
  /\ Event /\ Others
  /\ UNCHANGED <<server, disk, manifest, conflicts, pushing>>

-----------------------------------------------------------------------------
(* _downloadItem.                                                          *)

Unchanged(f) == job.copy[f] = job.index[f]

\* Faulty: without a recorded hash nothing is compared.
MayOverwrite_Unrecorded(f) == disk[f] = None \/ job.copy[f] \in {None, disk[f]}

\* What is there may be replaced: lastHash ?? serverSha256.
MayOverwrite(f) ==
  disk[f] \in {None, IF job.copy[f] # None THEN job.copy[f] ELSE job.index[f]}

\* The file is looked at, up to the decision to download it.
CheckFile(f) ==
  /\ job.phase = "file" /\ f \in job.todo
  /\ LET rest == [job EXCEPT !.todo = @ \ {f}] IN
       \/ Unchanged(f) /\ job' = rest /\ UNCHANGED conflicts
       \/ /\ ~Unchanged(f) /\ ~MayOverwrite(f)
          /\ conflicts' = [conflicts EXCEPT ![f] = [local |-> disk[f], server |-> job.index[f]]]
          /\ job' = rest
       \/ /\ ~Unchanged(f) /\ MayOverwrite(f)
          /\ conflicts' = [conflicts EXCEPT ![f] = None]
          /\ job' = [rest EXCEPT !.phase = "fetch", !.file = f]
  /\ waived' = waived \ {f}
  /\ NoEvent /\ Others
  /\ UNCHANGED <<server, disk, manifest, seen, watched, backoff, pushing>>

\* A file that cannot be read is passed over.
ReadFails(f) ==
  /\ job.phase = "file" /\ f \in job.todo /\ ~Unchanged(f) /\ disk[f] # None
  /\ job' = [job EXCEPT !.todo = @ \ {f}]
  /\ waived' = waived \cup {f}
  /\ Event /\ Others
  /\ UNCHANGED <<server, disk, manifest, seen, watched, conflicts, backoff, pushing>>

FetchAnswers ==
  /\ job.phase = "fetch"
  /\ job' = [job EXCEPT !.phase = "write", !.text = srv[job.file]]
  /\ NoEvent /\ Others
  /\ UNCHANGED <<server, disk, manifest, seen, watched, conflicts, backoff, pushing, waived>>

\* The share's copy of the manifest replaces what is stored.
ManifestStored == manifest' = [f \in Files |-> IF f \in DOMAIN job.copy THEN job.copy[f] ELSE manifest[f]]

\* After a failure that is not transient the loop goes on.
GivesUp == job' = NextFile

FetchFails ==
  /\ job.phase = "fetch"
  /\ \/ ManifestStored /\ BacksOff /\ UNCHANGED waived
     \/ GivesUp /\ waived' = waived \cup {job.file} /\ UNCHANGED <<manifest, backoff>>
  /\ Event /\ Others
  /\ UNCHANGED <<server, disk, seen, watched, conflicts, pushing>>

Writes ==
  /\ job.phase = "write"
  /\ disk' = [disk EXCEPT ![job.file] = job.text]
  /\ job' = [NextFile EXCEPT !.copy[job.file] = job.index[job.file]]
  /\ kept' = [kept EXCEPT ![job.file] = None]
  /\ NoEvent
  /\ UNCHANGED <<server, manifest, seen, watched, conflicts, backoff, pushing, waived,
                 made, here>>

WriteFails ==
  /\ job.phase = "write" /\ job' = NextFile
  /\ waived' = waived \cup {job.file}
  /\ Event /\ Others
  /\ UNCHANGED <<server, disk, manifest, seen, watched, conflicts, backoff, pushing>>

DownloadEnds ==
  /\ job.phase = "file" /\ job.todo = {}
  /\ ManifestStored /\ Advance(job.share) /\ job' = NextShare
  /\ NoEvent /\ Others
  /\ UNCHANGED <<server, disk, conflicts, backoff, pushing, waived>>

\* Faulty: a share that fails again does not wait for less than for ever.
Due_Never == FALSE

\* now() has reached retryAt.
Due == TRUE

BackoffOver ==
  /\ backoff /\ Due /\ backoff' = FALSE
  /\ NoEvent /\ Others
  /\ UNCHANGED <<server, disk, manifest, seen, watched, conflicts, job, pushing, waived>>

-----------------------------------------------------------------------------
(* The user's decision on a conflict.                                      *)

TakeServer(f) ==
  /\ conflicts[f] # None
  /\ disk' = [disk EXCEPT ![f] = None]
  /\ conflicts' = [conflicts EXCEPT ![f] = None]
  /\ job' = Raced(f) /\ waived' = waived \cup {f}
  /\ NoEvent /\ Others
  /\ UNCHANGED <<server, manifest, seen, watched, backoff, pushing>>

\* Faulty: the server's hash is not recorded.
Accepted_Not(f) == manifest

\* The server's content counts as written.
Accepted(f) == [manifest EXCEPT ![f] = conflicts[f].server]

KeepLocal(f) ==
  /\ conflicts[f] # None
  /\ manifest' = Accepted(f)
  /\ conflicts' = [conflicts EXCEPT ![f] = None]
  /\ waived' = IF Downloading(ShareOf[f]) \/ conflicts[f].server # srv[f]
               THEN waived \cup {f} ELSE waived
  /\ kept' = [kept EXCEPT ![f] = IF Downloading(ShareOf[f]) THEN None ELSE conflicts[f].server]
  /\ NoEvent
  /\ UNCHANGED <<server, disk, seen, watched, job, backoff, pushing,
                 made, here>>

-----------------------------------------------------------------------------
(* The server, the user, the push to the server, and restarts.             *)

\* With the new counter the files that were given up are tried again.
Bumped(s) ==
  /\ bump' = [bump EXCEPT ![s] = @ + 1]
  /\ waived' = waived \ FilesOf(s)

ServerEdits(f) ==
  /\ made < MaxContent /\ made' = made + 1
  /\ srv' = [srv EXCEPT ![f] = made + 1]
  /\ Bumped(ShareOf[f])
  /\ UNCHANGED <<disk, manifest, seen, watched, conflicts, job, backoff, pushing,
                 events, here, kept>>

UserEdits(f) ==
  /\ made < MaxContent /\ made' = made + 1
  /\ disk' = [disk EXCEPT ![f] = made + 1]
  /\ here' = here \cup {made + 1} /\ job' = Raced(f)
  /\ UNCHANGED <<server, manifest, seen, watched, conflicts, backoff, pushing,
                 events, waived, kept>>

\* WebSyncManager.syncFolderFile: the count is up, the file is read and sent.
PushBegins(f) ==
  /\ Event
  /\ disk[f] # None /\ pushing[f] = None
  /\ pushing' = [pushing EXCEPT ![f] = disk[f]]
  /\ UNCHANGED <<server, disk, manifest, seen, watched, conflicts, job, backoff,
                 made, here, waived, kept>>

PushEnds(f) ==
  /\ pushing[f] # None
  /\ \/ /\ srv' = [srv EXCEPT ![f] = pushing[f]]
        /\ Bumped(ShareOf[f])
        /\ here' = here \ {pushing[f]} 
     \/ UNCHANGED <<server, here, waived>>
  /\ pushing' = [pushing EXCEPT ![f] = None]
  /\ UNCHANGED <<disk, manifest, seen, watched, conflicts, job, backoff,
                 made, events, kept>>

\* loadRelayOnPremShares registers what the server lists.
RegisterShare(s) ==
  /\ watched[s] = None
  /\ watched' = [watched EXCEPT ![s] = seen[s]]
  /\ NoEvent /\ Others
  /\ UNCHANGED <<server, disk, manifest, seen, conflicts, job, backoff, pushing, waived>>

\* The application ends at any point: what is not persisted is gone.
Restart ==
  /\ Event
  /\ watched' = [s \in Shares |-> None]
  /\ conflicts' = [f \in Files |-> None]
  /\ pushing' = [f \in Files |-> None]
  /\ job' = Idle /\ backoff' = FALSE
  /\ waived' = waived \cup {f \in Files : conflicts[f] # None}
  /\ UNCHANGED <<server, disk, manifest, seen, made, here, kept>>

-----------------------------------------------------------------------------
Init ==
  /\ srv = [f \in Files |-> 1]
  /\ bump \in {b \in [Shares -> {0, 1}] : \A f \in Files : b[ShareOf[f]] = 1}
  /\ disk = [f \in Files |-> None] /\ manifest = [f \in Files |-> None]
  /\ seen = [s \in Shares |-> 0] /\ watched = [s \in Shares |-> None]
  /\ conflicts = [f \in Files |-> None] /\ job = Idle /\ backoff = FALSE
  /\ pushing = [f \in Files |-> None]
  /\ made = 1 /\ events = 0
  /\ here = {} /\ waived = {} /\ kept = [f \in Files |-> None]

\* What the poll does by itself once its requests are answered.
PollStep ==
  \/ \E s \in Shares : Visit(s)
  \/ PollEnds
  \/ ShareAnswers \/ ShareFails
  \/ IndexAnswers \/ IndexFails
  \/ \E f \in Files : CheckFile(f) \/ ReadFails(f)
  \/ FetchAnswers \/ FetchFails
  \/ Writes \/ WriteFails
  \/ DownloadEnds

Next ==
  \/ PollTick
  \/ PollStep
  \/ BackoffOver
  \/ \E f \in Files :
       \/ TakeServer(f) \/ KeepLocal(f)
       \/ ServerEdits(f) \/ UserEdits(f)
       \/ PushBegins(f) \/ PushEnds(f)
  \/ \E s \in Shares : RegisterShare(s)
  \/ Restart

\* Requests end, timers fire, and the shares are registered after a start.
Fairness ==
  /\ WF_vars(PollTick) /\ WF_vars(PollStep) /\ WF_vars(BackoffOver)
  /\ \A f \in Files : WF_vars(PushEnds(f))
  /\ \A s \in Shares : WF_vars(RegisterShare(s))

Spec == Init /\ [][Next]_vars /\ Fairness

-----------------------------------------------------------------------------
(* Properties.                                                             *)

\* The poller, the downloader and the stores hold values of their kinds; a
\* file is only written with something that was downloaded.
TypeOK ==
  /\ srv \in [Files -> Contents] /\ bump \in [Shares -> Nat]
  /\ {disk, manifest, pushing, kept} \subseteq [Files -> Maybe(Contents)]
  /\ seen \in [Shares -> Nat] /\ watched \in [Shares -> Maybe(Nat)]
  /\ conflicts \in [Files -> Maybe([local : Contents, server : Contents])]
  /\ job.phase \in Phases /\ {job.todo, waived} \subseteq SUBSET Files
  /\ job.phase \in {"idle", "next"} <=> job.share = None
  /\ job.phase = "write" => job.text \in Contents
  /\ job.phase \in {"fetch", "write"} <=> job.file \in Files
  /\ backoff \in BOOLEAN /\ here \subseteq Contents

\* A download never replaces a content that only this vault holds: what the
\* user has typed, before this start of the application or after it, is only
\* ever overwritten when it is typed while its file is being downloaded
\* (the window between _downloadItem's hash and its writeBinary).
EditsKept ==
  [][\A f \in Files :
       job.phase = "write" /\ job.file = f /\ ~job.raced /\ disk'[f] # disk[f]
         => disk[f] \notin here]_vars

\* A share's watermark says what it claims: once it has reached the server's
\* counter, each of the share's files is the server's, or in a conflict the
\* user can see, or was given up: a failure that is not transient, a conflict
\* forgotten by a restart, one resolved for the server, or one resolved for
\* the vault while a download held an older copy of the manifest.
WatermarkIsHonest ==
  \A s \in Shares :
    seen[s] = bump[s] =>
      \A f \in FilesOf(s) \ waived : manifest[f] = srv[f] \/ conflicts[f] # None

\* "Keep local" holds: the server content it was decided against raises no
\* second conflict, over restarts, further edits and changes of other files
\* (unless the decision was made while the share was being downloaded).
KeptStaysKept ==
  \A f \in Files : conflicts[f] # None => conflicts[f].server # kept[f]

\* Every change of a share on the server is taken up in the end, whatever
\* pushes, failures and restarts come in between.
ChangesAreTakenUp ==
  \A s \in Shares : []<>(watched[s] = bump[s])
=============================================================================
