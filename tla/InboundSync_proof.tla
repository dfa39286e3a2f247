-------------------------- MODULE InboundSync_proof --------------------------
(***************************************************************************)
(* Proofs about the inbound file sync, for every number of shares, files   *)
(* and contents: the types, that no download replaces what only this vault *)
(* holds, that "Keep local" holds and that a watermark is honest.          *)
(***************************************************************************)
EXTENDS InboundSync, TLAPS

-----------------------------------------------------------------------------
(* The types.                                                              *)

Partial == UNION {[D -> Maybe(Contents)] : D \in SUBSET Files}

Jobs == [phase : Phases, visited : SUBSET Shares, share : Maybe(Shares), last : Maybe(Nat),
         new : Maybe(Nat), index : Partial, copy : Partial, todo : SUBSET Files,
         file : Maybe(Files), text : Maybe(Contents), raced : BOOLEAN]

InFlight == job.phase \in {"file", "fetch", "write"}

\* The files of the share that is being downloaded.
Listed == FilesOf(job.share)

StoresOK ==
  /\ srv \in [Files -> Contents] /\ bump \in [Shares -> Nat]
  /\ disk \in [Files -> Maybe(Contents)] /\ manifest \in [Files -> Maybe(Contents)]
  /\ pushing \in [Files -> Maybe(Contents)] /\ kept \in [Files -> Maybe(Contents)]
  /\ seen \in [Shares -> Nat] /\ watched \in [Shares -> Maybe(Nat)]
  /\ conflicts \in [Files -> Maybe([local : Contents, server : Contents])]
  /\ waived \subseteq Files /\ here \subseteq Contents
  /\ made \in Contents /\ backoff \in BOOLEAN

JobOK ==
  /\ job \in Jobs
  /\ job.phase \in {"idle", "next"} <=> job.share = None
  /\ job.phase = "write" => job.text \in Contents
  /\ job.phase \in {"fetch", "write"} <=> job.file # None
  /\ job.phase = "index" \/ InFlight => job.new \in Nat
  /\ InFlight => /\ job.index \in [Listed -> Contents] /\ job.copy \in [Listed -> Maybe(Contents)]
                 /\ job.todo \subseteq Listed /\ job.file \in Maybe(Listed)

TypesInv == StoresOK /\ JobOK

LEMMA PartialFunctions ==
  ASSUME NEW D \in SUBSET Files
  PROVE  /\ [D -> Contents] \subseteq Partial /\ [D -> Maybe(Contents)] \subseteq Partial
BY DEF Partial, Maybe

LEMMA FilesOfShare == \A s : FilesOf(s) \subseteq Files
BY DEF FilesOf

LEMMA IdleOK == Idle \in Jobs /\ NoFiles \in Partial
<1>1. NoFiles \in [{} -> Maybe(Contents)]
  BY DEF NoFiles
<1>2. NoFiles \in Partial
  BY <1>1, PartialFunctions
<1> QED BY <1>2 DEF Idle, Jobs, Phases, Maybe

LEMMA TypesInit == Init => TypesInv
<1> SUFFICES ASSUME Init PROVE TypesInv
  OBVIOUS
<1>1. job = Idle /\ Idle \in Jobs
  BY IdleOK DEF Init
<1>2. JobOK
  BY <1>1 DEF JobOK, InFlight, Idle
<1>3. 1 \in Contents
  BY InboundAssumption DEF Contents
<1>4. /\ srv \in [Files -> Contents] /\ bump \in [Shares -> Nat]
      /\ disk \in [Files -> Maybe(Contents)] /\ manifest \in [Files -> Maybe(Contents)]
      /\ pushing \in [Files -> Maybe(Contents)] /\ kept \in [Files -> Maybe(Contents)]
      /\ seen \in [Shares -> Nat] /\ watched \in [Shares -> Maybe(Nat)]
      /\ conflicts \in [Files -> Maybe([local : Contents, server : Contents])]
      /\ waived \subseteq Files /\ here \subseteq Contents /\ made \in Contents
  BY <1>3 DEF Init, Maybe
<1>5. backoff \in BOOLEAN
  BY DEF Init
<1> QED BY <1>2, <1>4, <1>5 DEF TypesInv, StoresOK

\* The jobs that NextShare, NextFile and Raced make.
LEMMA NextShareOK ==
  ASSUME JobOK, job' = NextShare
  PROVE  JobOK'
BY IdleOK DEF NextShare, Idle, JobOK, Jobs, InFlight, Phases, Maybe

LEMMA NextFileOK ==
  ASSUME JobOK, job.phase \in {"fetch", "write"}, job' = NextFile
  PROVE  JobOK'
BY InboundAssumption DEF NextFile, JobOK, Jobs, InFlight, Listed, Phases, Maybe

LEMMA RacedOK ==
  ASSUME JobOK, NEW f \in Files, job' = Raced(f)
  PROVE  /\ JobOK'
         /\ \A x \in {"phase", "visited", "share", "last", "new", "index", "copy", "todo", "file", "text"} :
              job'[x] = job[x]
         /\ job'.raced = (job.raced \/ job.file = f)
<1>1. job \in Jobs
  BY DEF JobOK
<1>2. /\ job'.raced = (job.raced \/ job.file = f)
      /\ \A x \in {"phase", "visited", "share", "last", "new", "index", "copy", "todo", "file", "text"} :
              job'[x] = job[x]
  BY <1>1 DEF Raced, Jobs
<1>3. (job.raced \/ job.file = f) \in BOOLEAN
  BY Zenon
<1>4. job' \in Jobs
  BY <1>1, <1>3 DEF Raced, Jobs
<1> QED BY <1>2, <1>4 DEF JobOK, InFlight, Listed

\* The poll, as far as the files of a share.
LEMMA TypesPoll ==
  ASSUME TypesInv,
         \/ PollTick \/ (\E s \in Shares : Visit(s)) \/ PollEnds
         \/ ShareAnswers \/ ShareFails \/ IndexAnswers \/ IndexFails
  PROVE  TypesInv'
<1> USE DEF TypesInv
<1>1. CASE PollTick
  BY <1>1, IdleOK DEF PollTick, Idle, StoresOK, JobOK, Jobs, InFlight, Phases, Maybe, Others, server
<1>2. ASSUME NEW s \in Shares, Visit(s) PROVE TypesInv'
  <2>1. StoresOK'
    BY <1>2 DEF Visit, StoresOK, Others, server
  <2>2. watched[s] \in Nat /\ s # None
    BY <1>2, InboundAssumption DEF Visit, StoresOK, Maybe
  <2>3. JobOK'
    BY <1>2, <2>2 DEF Visit, JobOK, Jobs, InFlight, Phases, Maybe
  <2> QED BY <2>1, <2>3
<1>3. CASE PollEnds
  BY <1>3, IdleOK DEF PollEnds, Idle, StoresOK, JobOK, Jobs, InFlight, Phases, Maybe, Others, server
<1>4. CASE ShareAnswers
  <2>1. StoresOK'
    BY <1>4 DEF ShareAnswers, StoresOK, Others, server
  <2>2. CASE job' = NextShare
    BY <2>1, <2>2, NextShareOK
  <2>3. CASE job' = [job EXCEPT !.phase = "index", !.new = bump[job.share]]
    <3>1. job.share \in Shares /\ bump[job.share] \in Nat
      BY <1>4 DEF ShareAnswers, StoresOK, JobOK, Jobs, Maybe
    <3>2. JobOK'
      BY <1>4, <2>3, <3>1 DEF ShareAnswers, JobOK, Jobs, InFlight, Phases, Maybe
    <3> QED BY <2>1, <3>2
  <2> QED BY <1>4, <2>2, <2>3 DEF ShareAnswers
<1>5. CASE ShareFails
  <2>1. StoresOK'
    BY <1>5 DEF ShareFails, BacksOff, StoresOK, Others, server
  <2> QED BY <1>5, <2>1, NextShareOK DEF ShareFails, BacksOff
<1>6. CASE IndexAnswers
  <2>1. job.share \in Shares /\ FilesOf(job.share) \subseteq Files /\ job.new \in Nat
    BY <1>6, FilesOfShare DEF IndexAnswers, JobOK, Jobs, Phases, Maybe
  <2>2. CASE Advance(job.share) /\ job' = NextShare
    <3>1. StoresOK'
      BY <1>6, <2>1, <2>2 DEF IndexAnswers, Advance, StoresOK, Others, server, Maybe
    <3> QED BY <2>2, <3>1, NextShareOK
  <2>3. CASE /\ job' = [job EXCEPT !.phase = "file", !.todo = FilesOf(job.share),
                                  !.index = [f \in FilesOf(job.share) |-> srv[f]],
                                  !.copy = [f \in FilesOf(job.share) |-> manifest[f]]]
             /\ UNCHANGED <<watched, seen>>
    <3>1. StoresOK'
      BY <1>6, <2>3 DEF IndexAnswers, StoresOK, Others, server
    <3>2. /\ [f \in Listed |-> srv[f]] \in [Listed -> Contents]
          /\ [f \in Listed |-> manifest[f]] \in [Listed -> Maybe(Contents)]
      BY <2>1 DEF StoresOK, Listed
    <3>3. [f \in Listed |-> srv[f]] \in Partial /\ [f \in Listed |-> manifest[f]] \in Partial
      BY <2>1, <3>2, PartialFunctions DEF Listed
    <3>4. JobOK'
      BY <1>6, <2>1, <2>3, <3>2, <3>3 DEF IndexAnswers, JobOK, Jobs, InFlight, Listed, Phases, Maybe
    <3> QED BY <3>1, <3>4
  <2> QED BY <1>6, <2>2, <2>3 DEF IndexAnswers
<1>7. CASE IndexFails
  <2>1. job.share \in Shares /\ FilesOf(job.share) \subseteq Files /\ job.new \in Nat
    BY <1>7, FilesOfShare DEF IndexFails, JobOK, Jobs, Phases, Maybe
  <2>2. StoresOK' /\ job' = NextShare
    BY <1>7, <2>1 DEF IndexFails, BacksOff, Advance, StoresOK, Others, server, Maybe
  <2> QED BY <2>2, NextShareOK
<1> QED BY <1>1, <1>2, <1>3, <1>4, <1>5, <1>6, <1>7

\* The files of a share, one after another.
LEMMA TypesFiles ==
  ASSUME TypesInv,
         \/ \E f \in Files : CheckFile(f) \/ ReadFails(f)
         \/ FetchAnswers \/ FetchFails \/ Writes \/ WriteFails \/ DownloadEnds
  PROVE  TypesInv'
<1> USE DEF TypesInv
<1>1. ASSUME NEW f \in Files, CheckFile(f) PROVE TypesInv'
  <2>1. /\ job.phase = "file" /\ f \in job.todo /\ job.todo \subseteq Listed /\ f \in Listed
        /\ job.index[f] \in Contents
    BY <1>1 DEF CheckFile, JobOK, InFlight
  <2>2. job.file = None /\ f # None
    BY <2>1, InboundAssumption DEF JobOK
  <2>3. conflicts' \in [Files -> Maybe([local : Contents, server : Contents])]
    <3>1. CASE UNCHANGED conflicts \/ conflicts' = [conflicts EXCEPT ![f] = None]
      BY <3>1 DEF StoresOK, Maybe
    <3>2. CASE /\ ~MayOverwrite(f)
               /\ conflicts' = [conflicts EXCEPT ![f] = [local |-> disk[f], server |-> job.index[f]]]
      <4>1. disk[f] \in Contents
        BY <3>2 DEF MayOverwrite, StoresOK, Maybe
      <4> QED BY <2>1, <3>2, <4>1 DEF StoresOK, Maybe
    <3> QED BY <1>1, <3>1, <3>2 DEF CheckFile
  <2>4. StoresOK'
    BY <1>1, <2>3 DEF CheckFile, StoresOK, Others, NoEvent, server
  <2>5. \/ job' = [job EXCEPT !.todo = @ \ {f}]
        \/ job' = [job EXCEPT !.todo = @ \ {f}, !.phase = "fetch", !.file = f]
    BY <1>1 DEF CheckFile, JobOK, Jobs
  <2>6. CASE job' = [job EXCEPT !.todo = @ \ {f}]
    <3>1. JobOK'
      BY <2>1, <2>6 DEF JobOK, Jobs, InFlight, Listed, Phases, Maybe
    <3> QED BY <2>4, <3>1
  <2>7. CASE job' = [job EXCEPT !.todo = @ \ {f}, !.phase = "fetch", !.file = f]
    <3>1. job' \in Jobs
      BY <2>7 DEF JobOK, Jobs, Phases, Maybe
    <3>2. /\ job'.phase = "fetch" /\ job'.file = f /\ job'.todo = job.todo \ {f}
          /\ job'.share = job.share /\ job'.new = job.new /\ job'.index = job.index /\ job'.copy = job.copy
      BY <2>7 DEF JobOK, Jobs
    <3>3. job.share # None /\ job.new \in Nat /\ Listed' = Listed
      BY <2>1, <3>2 DEF JobOK, InFlight, Listed
    <3>4. /\ job.index \in [Listed -> Contents] /\ job.copy \in [Listed -> Maybe(Contents)]
          /\ job.todo \ {f} \subseteq Listed /\ f \in Maybe(Listed)
      BY <2>1 DEF JobOK, InFlight, Maybe
    <3>5. JobOK'
      BY <2>2, <3>1, <3>2, <3>3, <3>4 DEF JobOK, InFlight
    <3> QED BY <2>4, <3>5
  <2> QED BY <2>4, <2>5, <2>6, <2>7
<1>2. ASSUME NEW f \in Files, ReadFails(f) PROVE TypesInv'
  <2>1. StoresOK'
    BY <1>2 DEF ReadFails, StoresOK, Others, server
  <2>2. JobOK'
    BY <1>2 DEF ReadFails, JobOK, Jobs, InFlight, Listed, Phases, Maybe
  <2> QED BY <2>1, <2>2
<1>3. CASE FetchAnswers
  <2>1. job.file \in Files /\ srv[job.file] \in Contents
    BY <1>3 DEF FetchAnswers, StoresOK, JobOK, Jobs, Maybe
  <2>2. StoresOK'
    BY <1>3 DEF FetchAnswers, StoresOK, Others, server
  <2>3. JobOK'
    BY <1>3, <2>1 DEF FetchAnswers, JobOK, Jobs, InFlight, Listed, Phases, Maybe
  <2> QED BY <2>2, <2>3
<1>4. ASSUME InFlight, ManifestStored PROVE manifest' \in [Files -> Maybe(Contents)]
  <2>1. job.copy \in [Listed -> Maybe(Contents)]
    BY <1>4 DEF JobOK
  <2> QED BY <1>4, <2>1 DEF ManifestStored, StoresOK
<1>5. CASE FetchFails
  <2>1. job.file \in Files /\ InFlight /\ job.phase = "fetch"
    BY <1>5 DEF FetchFails, JobOK, Jobs, InFlight, Maybe
  <2>2. StoresOK'
    BY <1>4, <1>5, <2>1 DEF FetchFails, BacksOff, StoresOK, Others, server
  <2>3. JobOK'
    BY <1>5, <2>1, NextShareOK, NextFileOK DEF FetchFails, BacksOff, GivesUp
  <2> QED BY <2>2, <2>3
<1>6. CASE Writes
  <2>1. /\ job.phase = "write" /\ job.file \in Files /\ job.file \in Listed
        /\ job.text \in Contents /\ job.index[job.file] \in Contents
    BY <1>6 DEF Writes, JobOK, Jobs, InFlight, Maybe
  <2>2. StoresOK'
    BY <1>6, <2>1 DEF Writes, StoresOK, server, Maybe
  <2>3. JobOK'
    <3> DEFINE copy == [job.copy EXCEPT ![job.file] = job.index[job.file]]
    <3>1. copy \in [Listed -> Maybe(Contents)]
      BY <2>1 DEF JobOK, InFlight, Maybe
    <3>2. copy \in Partial
      BY <3>1, FilesOfShare, PartialFunctions DEF Listed
    <3>3. job' = [job EXCEPT !.phase = "file", !.file = None, !.text = None, !.raced = FALSE, !.copy = copy]
      BY <1>6 DEF Writes, NextFile, JobOK, Jobs
    <3> HIDE DEF copy
    <3> QED BY <2>1, <3>1, <3>2, <3>3, InboundAssumption
            DEF JobOK, Jobs, InFlight, Listed, Phases, Maybe
  <2> QED BY <2>2, <2>3
<1>7. CASE WriteFails
  <2>1. job.file \in Files /\ job.phase = "write"
    BY <1>7 DEF WriteFails, JobOK, Jobs, Maybe
  <2>2. StoresOK'
    BY <1>7, <2>1 DEF WriteFails, StoresOK, Others, server
  <2> QED BY <1>7, <2>1, <2>2, NextFileOK DEF WriteFails
<1>8. CASE DownloadEnds
  <2>1. InFlight /\ job.share \in Shares /\ job.new \in Nat
    BY <1>8 DEF DownloadEnds, JobOK, Jobs, InFlight, Maybe
  <2>2. StoresOK'
    BY <1>4, <1>8, <2>1 DEF DownloadEnds, Advance, StoresOK, Others, server, Maybe
  <2> QED BY <1>8, <2>2, NextShareOK DEF DownloadEnds
<1> QED BY <1>1, <1>2, <1>3, <1>5, <1>6, <1>7, <1>8

\* The user, the server, pushes, registrations and restarts.
LEMMA TypesRest ==
  ASSUME TypesInv,
         \/ \E f \in Files : \/ TakeServer(f) \/ KeepLocal(f) \/ ServerEdits(f) \/ UserEdits(f)
                             \/ PushBegins(f) \/ PushEnds(f)
         \/ BackoffOver \/ (\E s \in Shares : RegisterShare(s)) \/ Restart
  PROVE  TypesInv'
<1> USE DEF TypesInv
<1>0. ASSUME UNCHANGED job PROVE JobOK'
  BY <1>0 DEF JobOK, InFlight, Listed
<1>1. ASSUME NEW f \in Files, TakeServer(f) PROVE TypesInv'
  <2>1. StoresOK'
    BY <1>1 DEF TakeServer, StoresOK, Others, server, Maybe
  <2> QED BY <1>1, <2>1, RacedOK DEF TakeServer
<1>2. ASSUME NEW f \in Files, KeepLocal(f) PROVE TypesInv'
  <2>1. conflicts[f].server \in Contents
    BY <1>2 DEF KeepLocal, StoresOK, Maybe
  <2>2. StoresOK'
    BY <1>2, <2>1 DEF KeepLocal, Accepted, StoresOK, server, Maybe
  <2> QED BY <1>0, <1>2, <2>2 DEF KeepLocal
<1>3. ASSUME NEW f \in Files, made < MaxContent, made' = made + 1
      PROVE  made' \in Contents
  BY <1>3, InboundAssumption DEF StoresOK, Contents
<1>4. ASSUME NEW f \in Files, ServerEdits(f) PROVE TypesInv'
  <2>1. made' \in Contents /\ ShareOf[f] \in Shares /\ made' = made + 1
    BY <1>3, <1>4, InboundAssumption DEF ServerEdits
  <2>2. StoresOK'
    <3>1. srv' \in [Files -> Contents] /\ bump' \in [Shares -> Nat] /\ waived' \subseteq Files
      BY <1>4, <2>1 DEF ServerEdits, Bumped, StoresOK
    <3> QED BY <1>4, <2>1, <3>1 DEF ServerEdits, StoresOK
  <2> QED BY <1>0, <1>4, <2>2 DEF ServerEdits
<1>5. ASSUME NEW f \in Files, UserEdits(f) PROVE TypesInv'
  <2>1. made' \in Contents /\ made' = made + 1
    BY <1>3, <1>5 DEF UserEdits
  <2>2. StoresOK'
    BY <1>5, <2>1 DEF UserEdits, StoresOK, server, Maybe
  <2> QED BY <1>5, <2>2, RacedOK DEF UserEdits
<1>6. ASSUME NEW f \in Files, PushBegins(f) PROVE TypesInv'
  <2>1. StoresOK'
    BY <1>6 DEF PushBegins, StoresOK, server
  <2> QED BY <1>0, <1>6, <2>1 DEF PushBegins
<1>7. ASSUME NEW f \in Files, PushEnds(f) PROVE TypesInv'
  <2>1. pushing[f] \in Contents /\ ShareOf[f] \in Shares
    BY <1>7, InboundAssumption DEF PushEnds, StoresOK, Maybe
  <2>2. StoresOK'
    BY <1>7, <2>1 DEF PushEnds, Bumped, StoresOK, server, Maybe
  <2> QED BY <1>0, <1>7, <2>2 DEF PushEnds
<1>8. CASE BackoffOver
  <2>1. StoresOK'
    BY <1>8 DEF BackoffOver, StoresOK, Others, server
  <2> QED BY <1>0, <1>8, <2>1 DEF BackoffOver
<1>9. ASSUME NEW s \in Shares, RegisterShare(s) PROVE TypesInv'
  <2>1. StoresOK'
    BY <1>9 DEF RegisterShare, StoresOK, Others, server, Maybe
  <2> QED BY <1>0, <1>9, <2>1 DEF RegisterShare
<1>10. CASE Restart
  <2>1. StoresOK'
    BY <1>10 DEF Restart, StoresOK, server, Maybe
  <2>2. JobOK'
    BY <1>10, IdleOK DEF Restart, Idle, JobOK, InFlight
  <2> QED BY <2>1, <2>2
<1> QED BY <1>1, <1>2, <1>4, <1>5, <1>6, <1>7, <1>8, <1>9, <1>10

LEMMA TypesStep == TypesInv /\ [Next]_vars => TypesInv'
<1> SUFFICES ASSUME TypesInv, [Next]_vars PROVE TypesInv'
  OBVIOUS
<1>1. CASE Next
  BY <1>1, TypesPoll, TypesFiles, TypesRest DEF Next, PollStep
<1>2. CASE UNCHANGED vars
  BY <1>2 DEF vars, server, TypesInv, StoresOK, JobOK, InFlight, Listed
<1> QED BY <1>1, <1>2

\* Every state reachable under Next has values of the right kinds.
LEMMA TypesAlways == Spec => []TypesInv
<1> QED BY TypesInit, TypesStep, PTL DEF Spec

\* The poller, the downloader and the stores hold values of their kinds.
THEOREM TypesHold == Spec => []TypeOK
<1>1. TypesInv => TypeOK
  <2> SUFFICES ASSUME TypesInv PROVE TypeOK
    OBVIOUS
  <2>1. /\ {disk, manifest, pushing, kept} \subseteq [Files -> Maybe(Contents)]
        /\ {job.todo, waived} \subseteq SUBSET Files /\ job.phase \in Phases
    BY DEF TypesInv, StoresOK, JobOK, Jobs
  <2>2. job.phase \in {"fetch", "write"} <=> job.file \in Files
    BY InboundAssumption DEF TypesInv, JobOK, Jobs, Maybe
  <2>3. backoff \in BOOLEAN
    BY DEF TypesInv, StoresOK
  <2> QED BY <2>1, <2>2, <2>3 DEF TypeOK, TypesInv, StoresOK, JobOK
<1> QED BY <1>1, TypesAlways, PTL

-----------------------------------------------------------------------------
(* No download replaces what only this vault holds.                        *)

\* What the server or the manifest may name: the contents the user has made and
\* the server never had are not among them.
Known == (1..made) \ here

EditStores ==
  /\ here \subseteq 1..made
  /\ \A f \in Files :
       /\ srv[f] \in Known /\ manifest[f] \in Maybe(Known)
       /\ disk[f] \in Maybe(1..made) /\ pushing[f] \in Maybe(1..made)
       /\ conflicts[f] # None => conflicts[f].server \in Known

EditJob ==
  /\ InFlight => \A f \in Listed : job.index[f] \in Known /\ job.copy[f] \in Maybe(Known)
  /\ job.phase = "write" => job.text \in Known
  /\ job.phase \in {"fetch", "write"} /\ ~job.raced => disk[job.file] \notin here

EditInv == EditStores /\ EditJob

LEMMA EditInit == Init => EditInv
<1> SUFFICES ASSUME Init PROVE EditInv
  OBVIOUS
<1>1. EditStores
  BY InboundAssumption DEF Init, EditStores, Known, Maybe
<1>2. job.phase = "idle"
  BY DEF Init, Idle
<1> QED BY <1>1, <1>2 DEF EditInv, EditJob, InFlight

LEMMA NoneIsNoEdit == TypesInv /\ EditInv => None \notin here /\ None \notin Known
<1> SUFFICES ASSUME TypesInv, EditInv PROVE None \notin here /\ None \notin Known
  OBVIOUS
<1>1. made \in Nat
  BY InboundAssumption DEF TypesInv, StoresOK, Contents
<1>2. None \notin 1..made
  BY <1>1, InboundAssumption
<1>3. here \subseteq 1..made
  BY DEF EditInv, EditStores
<1> QED BY <1>2, <1>3 DEF Known

\* A step between files, or to the next share.
LEMMA EditOutside ==
  ASSUME TypesInv, EditInv,
         UNCHANGED <<srv, disk, pushing, conflicts, made, here>>,
         \A f \in Files : manifest'[f] \in Maybe(Known),
         job'.phase \in Phases \ {"file", "fetch", "write"}
  PROVE  EditInv'
BY DEF EditInv, EditStores, EditJob, InFlight, Known

LEMMA EditPoll ==
  ASSUME TypesInv, TypesInv', EditInv,
         \/ PollTick \/ (\E s \in Shares : Visit(s)) \/ PollEnds
         \/ ShareAnswers \/ ShareFails \/ IndexAnswers \/ IndexFails
  PROVE  EditInv'
<1>1. \A f \in Files : manifest[f] \in Maybe(Known)
  BY DEF EditInv, EditStores
<1>2. job \in Jobs
  BY DEF TypesInv, JobOK
<1>3. CASE PollTick
  BY <1>1, <1>3, EditOutside DEF PollTick, Idle, Phases, Others, server
<1>4. ASSUME NEW s \in Shares, Visit(s) PROVE EditInv'
  BY <1>1, <1>2, <1>4, EditOutside DEF Visit, Jobs, Phases, Others, server
<1>5. CASE PollEnds
  BY <1>1, <1>5, EditOutside DEF PollEnds, Idle, Phases, Others, server
<1>6. CASE ShareAnswers
  BY <1>1, <1>2, <1>6, EditOutside DEF ShareAnswers, NextShare, Idle, Jobs, Phases, Others, server
<1>7. CASE ShareFails
  BY <1>1, <1>7, EditOutside DEF ShareFails, BacksOff, NextShare, Idle, Phases, Others, server
<1>8. CASE IndexAnswers
  <2>1. CASE job' = NextShare
    BY <1>1, <1>8, <2>1, EditOutside DEF IndexAnswers, NextShare, Idle, Phases, Others, server
  <2>2. CASE job' = [job EXCEPT !.phase = "file", !.todo = FilesOf(job.share),
                                !.index = [f \in FilesOf(job.share) |-> srv[f]],
                                !.copy = [f \in FilesOf(job.share) |-> manifest[f]]]
    <3>1. /\ job'.phase = "file" /\ job'.share = job.share
          /\ job'.index = [f \in Listed |-> srv[f]] /\ job'.copy = [f \in Listed |-> manifest[f]]
      BY <1>2, <2>2 DEF Jobs, Listed
    <3>2. EditStores' /\ Known' = Known
      BY <1>8 DEF IndexAnswers, EditInv, EditStores, Known, Others, server
    <3>3. Listed' = Listed /\ Listed \subseteq Files
      BY <3>1, FilesOfShare DEF Listed
    <3>4. EditJob'
      BY <3>1, <3>2, <3>3 DEF EditJob, EditInv, EditStores
    <3> QED BY <3>2, <3>4 DEF EditInv
  <2> QED BY <1>8, <2>1, <2>2 DEF IndexAnswers
<1>9. CASE IndexFails
  BY <1>1, <1>9, EditOutside DEF IndexFails, BacksOff, NextShare, Idle, Phases, Others, server
<1> QED BY <1>3, <1>4, <1>5, <1>6, <1>7, <1>8, <1>9

LEMMA EditFiles ==
  ASSUME TypesInv, TypesInv', EditInv,
         \/ \E f \in Files : CheckFile(f) \/ ReadFails(f)
         \/ FetchAnswers \/ FetchFails \/ Writes \/ WriteFails \/ DownloadEnds
  PROVE  EditInv'
<1>1. job \in Jobs /\ Listed \subseteq Files
  BY FilesOfShare DEF TypesInv, JobOK, Listed
<1>2. ASSUME NEW f \in Files, CheckFile(f) PROVE EditInv'
  <2>1. /\ job.phase = "file" /\ f \in Listed /\ UNCHANGED <<srv, manifest, disk, pushing, made, here>>
        /\ job.index[f] \in Known /\ job.copy[f] \in Maybe(Known)
    BY <1>2 DEF CheckFile, TypesInv, JobOK, EditInv, EditJob, InFlight, Others, server
  <2>2. EditStores' /\ Known' = Known
    <3>1. Known' = Known
      BY <2>1 DEF Known
    <3>2. \/ conflicts' = conflicts
          \/ conflicts' = [conflicts EXCEPT ![f] = None]
          \/ conflicts' = [conflicts EXCEPT ![f] = [local |-> disk[f], server |-> job.index[f]]]
      BY <1>2 DEF CheckFile
    <3>3. \A g \in Files \ {f} : conflicts'[g] = conflicts[g]
      BY <3>2 DEF TypesInv, StoresOK
    <3>4. conflicts'[f] # None => conflicts'[f] = conflicts[f] \/ conflicts'[f].server = job.index[f]
      BY <3>2 DEF TypesInv, StoresOK
    <3>5. \A g \in Files : conflicts'[g] # None => conflicts'[g].server \in Known
      BY <2>1, <3>3, <3>4 DEF EditInv, EditStores
    <3> QED BY <2>1, <3>1, <3>5 DEF EditInv, EditStores
  <2>3. /\ job'.index = job.index /\ job'.copy = job.copy /\ job'.share = job.share
        /\ \/ job'.phase = "file"
           \/ job'.phase = "fetch" /\ job'.file = f /\ MayOverwrite(f)
    BY <1>1, <1>2, <2>1 DEF CheckFile, Jobs
  <2>4. MayOverwrite(f) => disk[f] \notin here
    BY <2>1, NoneIsNoEdit DEF MayOverwrite, Known, Maybe
  <2>5. EditJob'
    BY <2>1, <2>2, <2>3, <2>4 DEF EditJob, EditInv, InFlight, Listed
  <2> QED BY <2>2, <2>5 DEF EditInv
<1>3. ASSUME UNCHANGED <<srv, disk, pushing, conflicts, made, here, manifest>>,
             job'.phase = "file", job'.index = job.index, job'.share = job.share, InFlight,
             \A f \in Listed : job'.copy[f] \in Maybe(Known)
      PROVE  EditInv'
  BY <1>3 DEF EditInv, EditStores, EditJob, InFlight, Known, Listed
<1>4. InFlight => \A f \in Listed : job.copy[f] \in Maybe(Known)
  BY DEF EditInv, EditJob
<1>5. ASSUME NEW f \in Files, ReadFails(f) PROVE EditInv'
  BY <1>1, <1>3, <1>4, <1>5 DEF ReadFails, Jobs, InFlight, Others, server
<1>6. CASE FetchAnswers
  <2>1. job.file \in Files /\ job.phase = "fetch"
    BY <1>1, <1>6 DEF FetchAnswers, TypesInv, JobOK, Jobs, Maybe
  <2>2. /\ job'.phase = "write" /\ job'.text = srv[job.file] /\ job'.file = job.file
        /\ job'.raced = job.raced /\ job'.index = job.index /\ job'.copy = job.copy
        /\ job'.share = job.share
    BY <1>1, <1>6 DEF FetchAnswers, Jobs
  <2>3. UNCHANGED <<srv, disk, pushing, conflicts, made, here, manifest>>
    BY <1>6 DEF FetchAnswers, Others, server
  <2> QED BY <2>1, <2>2, <2>3 DEF EditInv, EditStores, EditJob, InFlight, Known, Listed
<1>7. ASSUME InFlight, ManifestStored \/ UNCHANGED manifest
      PROVE  \A f \in Files : manifest'[f] \in Maybe(Known)
  BY <1>4, <1>7 DEF ManifestStored, EditInv, EditStores, TypesInv, JobOK
<1>8. CASE FetchFails
  <2>1. CASE job' = NextShare
    BY <1>7, <1>8, <2>1, EditOutside DEF FetchFails, NextShare, Idle, Phases, InFlight, Others, server
  <2>2. CASE GivesUp /\ UNCHANGED manifest
    BY <1>1, <1>3, <1>4, <1>8, <2>2 DEF FetchFails, GivesUp, NextFile, Jobs, InFlight, Others, server
  <2> QED BY <1>8, <2>1, <2>2 DEF FetchFails, BacksOff
<1>9. CASE Writes
  <2>1. /\ job.phase = "write" /\ InFlight /\ job.file \in Files /\ job.file \in Listed
        /\ job.text \in Known /\ job.index[job.file] \in Known
        /\ job.copy \in [Listed -> Maybe(Contents)]
    BY <1>1, <1>9 DEF Writes, TypesInv, JobOK, Jobs, InFlight, Maybe, EditInv, EditJob
  <2>2. /\ job'.phase = "file" /\ job'.index = job.index /\ job'.share = job.share
        /\ job'.copy = [job.copy EXCEPT ![job.file] = job.index[job.file]]
    BY <1>1, <1>9 DEF Writes, NextFile, Jobs
  <2>3. \A f \in Listed : job'.copy[f] \in Maybe(Known)
    BY <1>4, <2>1, <2>2 DEF Maybe
  <2>4. EditStores' /\ Known' = Known
    BY <1>9, <2>1 DEF Writes, TypesInv, StoresOK, EditInv, EditStores, Known, Maybe, server
  <2>5. EditJob'
    BY <2>1, <2>2, <2>3, <2>4 DEF EditJob, EditInv, InFlight, Listed
  <2> QED BY <2>4, <2>5 DEF EditInv
<1>10. CASE WriteFails
  BY <1>1, <1>3, <1>4, <1>10 DEF WriteFails, NextFile, Jobs, InFlight, Others, server
<1>11. CASE DownloadEnds
  BY <1>7, <1>11, EditOutside DEF DownloadEnds, NextShare, Idle, Phases, InFlight, Others, server
<1> QED BY <1>2, <1>5, <1>6, <1>8, <1>9, <1>10, <1>11

LEMMA EditRest ==
  ASSUME TypesInv, TypesInv', EditInv,
         \/ \E f \in Files : \/ TakeServer(f) \/ KeepLocal(f) \/ ServerEdits(f) \/ UserEdits(f)
                             \/ PushBegins(f) \/ PushEnds(f)
         \/ BackoffOver \/ (\E s \in Shares : RegisterShare(s)) \/ Restart
  PROVE  EditInv'
<1>1. job \in Jobs /\ Listed \subseteq Files /\ made \in Nat /\ None \notin Nat
  BY FilesOfShare, InboundAssumption DEF TypesInv, StoresOK, JobOK, Listed, Contents
\* The job is as it was, and more is known.
<1>2. ASSUME Known \subseteq Known', UNCHANGED <<disk, job>>, here' \subseteq here
      PROVE  EditJob'
  BY <1>2 DEF EditJob, EditInv, InFlight, Listed, Maybe
<1>3. ASSUME NEW f \in Files, TakeServer(f) PROVE EditInv'
  <2>1. EditStores' /\ Known' = Known
    BY <1>3 DEF TakeServer, TypesInv, StoresOK, EditInv, EditStores, Known, Maybe, Others, server
  <2>2. /\ \A g \in Files \ {f} : disk'[g] = disk[g]
        /\ disk'[f] = None /\ here' = here /\ None \notin here
    BY <1>3, NoneIsNoEdit DEF TakeServer, TypesInv, StoresOK, Others, EditInv, EditStores
  <2>3. EditJob'
    BY <1>1, <1>3, <2>1, <2>2, RacedOK
       DEF TakeServer, TypesInv, JobOK, Jobs, EditJob, EditInv, InFlight, Listed, Maybe
  <2> QED BY <2>1, <2>3 DEF EditInv
<1>4. ASSUME NEW f \in Files, KeepLocal(f) PROVE EditInv'
  <2>1. EditStores' /\ Known' = Known
    BY <1>4 DEF KeepLocal, Accepted, TypesInv, StoresOK, EditInv, EditStores, Known, Maybe, server
  <2> QED BY <1>2, <1>4, <2>1 DEF KeepLocal, EditInv
<1>5. ASSUME NEW f \in Files, ServerEdits(f) PROVE EditInv'
  <2>1. Known \subseteq Known' /\ made + 1 \in Known' /\ 1..made \subseteq (1..made)' /\ here' = here
    BY <1>1, <1>5 DEF ServerEdits, Known, EditInv, EditStores
  <2>2. EditStores'
    BY <1>5, <2>1 DEF ServerEdits, TypesInv, StoresOK, EditInv, EditStores, Maybe
  <2> QED BY <1>2, <1>5, <2>1, <2>2 DEF ServerEdits, EditInv
<1>6. ASSUME NEW f \in Files, UserEdits(f) PROVE EditInv'
  <2>1. /\ Known' = Known /\ made + 1 \in (1..made)' /\ 1..made \subseteq (1..made)'
        /\ made + 1 \notin 1..made /\ here' = here \cup {made + 1}
    BY <1>1, <1>6 DEF UserEdits, Known, EditInv, EditStores
  <2>2. EditStores'
    BY <1>6, <2>1 DEF UserEdits, TypesInv, StoresOK, EditInv, EditStores, Maybe, server
  <2>3. /\ \A g \in Files \ {f} : disk'[g] = disk[g]
        /\ \A g \in Files : disk[g] # made + 1
    BY <1>1, <1>6, <2>1 DEF UserEdits, TypesInv, StoresOK, EditInv, EditStores, Maybe
  <2>4. EditJob'
    BY <1>1, <1>6, <2>1, <2>3, RacedOK
       DEF UserEdits, TypesInv, JobOK, Jobs, EditJob, EditInv, InFlight, Listed, Maybe
  <2> QED BY <2>2, <2>4 DEF EditInv
<1>7. ASSUME NEW f \in Files, PushBegins(f) PROVE EditInv'
  <2>1. EditStores' /\ Known' = Known
    BY <1>7 DEF PushBegins, TypesInv, StoresOK, EditInv, EditStores, Known, server
  <2> QED BY <1>2, <1>7, <2>1 DEF PushBegins, EditInv
<1>8. ASSUME NEW f \in Files, PushEnds(f) PROVE EditInv'
  <2>1. pushing[f] \in 1..made /\ made' = made
    BY <1>8 DEF PushEnds, EditInv, EditStores, Maybe
  <2>2. /\ Known \subseteq Known' /\ here' \subseteq here
        /\ \/ srv' = srv
           \/ srv' = [srv EXCEPT ![f] = pushing[f]] /\ pushing[f] \in Known'
    BY <1>8, <2>1 DEF PushEnds, Known, server
  <2>3. EditStores'
    BY <1>8, <2>1, <2>2 DEF PushEnds, TypesInv, StoresOK, EditInv, EditStores, Maybe
  <2> QED BY <1>2, <1>8, <2>2, <2>3 DEF PushEnds, EditInv
<1>9. CASE BackoffOver \/ \E s \in Shares : RegisterShare(s)
  <2>1. UNCHANGED <<srv, disk, pushing, conflicts, made, here, manifest, job>>
    BY <1>9 DEF BackoffOver, RegisterShare, Others, server
  <2> QED BY <2>1 DEF EditInv, EditStores, EditJob, InFlight, Known, Listed
<1>10. CASE Restart
  <2>1. EditStores' /\ job'.phase = "idle"
    BY <1>10 DEF Restart, EditInv, EditStores, Known, Maybe, server, Idle
  <2> QED BY <2>1 DEF EditInv, EditJob, InFlight
<1> QED BY <1>3, <1>4, <1>5, <1>6, <1>7, <1>8, <1>9, <1>10

LEMMA EditStep == TypesInv /\ TypesInv' /\ EditInv /\ [Next]_vars => EditInv'
<1> SUFFICES ASSUME TypesInv, TypesInv', EditInv, [Next]_vars PROVE EditInv'
  OBVIOUS
<1>1. CASE Next
  BY <1>1, EditPoll, EditFiles, EditRest DEF Next, PollStep
<1>2. CASE UNCHANGED vars
  BY <1>2 DEF vars, server, EditInv, EditStores, EditJob, InFlight, Known, Listed
<1> QED BY <1>1, <1>2

\* A download never replaces a content that only this vault holds, unless it was
\* typed while its file was being downloaded: what the file held when it was
\* looked at is known to the server, and stays so until the file is written.
THEOREM NoEditOverwritten == Spec => EditsKept
<1>1. EditInv => (\A f \in Files :
        job.phase = "write" /\ job.file = f /\ ~job.raced /\ disk'[f] # disk[f] => disk[f] \notin here)
  BY DEF EditInv, EditJob
<1> QED BY <1>1, EditInit, EditStep, TypesAlways, PTL DEF Spec, EditsKept

-----------------------------------------------------------------------------
(* "Keep local" holds.                                                     *)

\* What was decided is in the manifest, in the copy of a download of the share,
\* and no conflict is about it.
KeepInv ==
  \A f \in Files :
    kept[f] # None =>
      /\ manifest[f] = kept[f]
      /\ InFlight /\ f \in Listed => job.copy[f] = kept[f]
      /\ conflicts[f] # None => conflicts[f].server # kept[f]

LEMMA KeepInit == Init => KeepInv
BY DEF Init, KeepInv

\* No download is under way after the step.
LEMMA KeepOutside ==
  ASSUME KeepInv, UNCHANGED <<manifest, kept, conflicts>>, job'.phase \notin {"file", "fetch", "write"}
  PROVE  KeepInv'
BY DEF KeepInv, InFlight

\* The download's copy is as it was.
LEMMA KeepUnmoved ==
  ASSUME KeepInv, UNCHANGED <<manifest, kept>>, InFlight' => InFlight,
         job'.copy = job.copy, job'.share = job.share,
         \A f \in Files : conflicts'[f] \in {conflicts[f], None}
  PROVE  KeepInv'
BY DEF KeepInv, InFlight, Listed

LEMMA KeepStep == TypesInv /\ KeepInv /\ [Next]_vars => KeepInv'
<1> SUFFICES ASSUME TypesInv, KeepInv, [Next]_vars PROVE KeepInv'
  OBVIOUS
<1>1. job \in Jobs /\ Listed \subseteq Files
  BY FilesOfShare DEF TypesInv, JobOK, Listed
<1>2. ASSUME InFlight, ManifestStored, UNCHANGED <<kept, conflicts>>, job' = NextShare
      PROVE  KeepInv'
  <2>1. DOMAIN job.copy = Listed
    BY <1>2 DEF TypesInv, JobOK
  <2> QED BY <1>2, <2>1 DEF ManifestStored, NextShare, Idle, KeepInv, InFlight
<1>3. CASE PollTick
  BY <1>3, KeepOutside DEF PollTick, Idle, Others
<1>4. ASSUME NEW s \in Shares, Visit(s) PROVE KeepInv'
  BY <1>1, <1>4, KeepOutside DEF Visit, Jobs, Others
<1>5. CASE PollEnds
  BY <1>5, KeepOutside DEF PollEnds, Idle, Others
<1>6. CASE ShareAnswers
  BY <1>1, <1>6, KeepOutside DEF ShareAnswers, NextShare, Idle, Jobs, Others
<1>7. CASE ShareFails
  BY <1>7, KeepOutside DEF ShareFails, BacksOff, NextShare, Idle, Others
<1>8. CASE IndexAnswers
  <2>1. CASE job' = NextShare
    BY <1>8, <2>1, KeepOutside DEF IndexAnswers, NextShare, Idle, Others
  <2>2. CASE job' = [job EXCEPT !.phase = "file", !.todo = FilesOf(job.share),
                                !.index = [f \in FilesOf(job.share) |-> srv[f]],
                                !.copy = [f \in FilesOf(job.share) |-> manifest[f]]]
    <3>1. job'.share = job.share /\ job'.copy = [f \in Listed |-> manifest[f]]
      BY <1>1, <2>2 DEF Jobs, Listed
    <3>2. UNCHANGED <<manifest, kept, conflicts>>
      BY <1>8 DEF IndexAnswers, Others
    <3> QED BY <3>1, <3>2 DEF KeepInv, Listed
  <2> QED BY <1>8, <2>1, <2>2 DEF IndexAnswers
<1>9. CASE IndexFails
  BY <1>9, KeepOutside DEF IndexFails, BacksOff, NextShare, Idle, Others
<1>10. ASSUME NEW f \in Files, CheckFile(f) PROVE KeepInv'
  <2>1. /\ InFlight /\ f \in Listed /\ UNCHANGED <<manifest, kept>>
        /\ job'.copy = job.copy /\ job'.share = job.share
    BY <1>1, <1>10 DEF CheckFile, TypesInv, JobOK, Jobs, InFlight, Others
  <2>2. CASE UNCHANGED conflicts \/ conflicts' = [conflicts EXCEPT ![f] = None]
    <3>1. \A g \in Files : conflicts'[g] \in {conflicts[g], None}
      BY <2>2 DEF TypesInv, StoresOK
    <3> QED BY <2>1, <3>1, KeepUnmoved
  <2>3. CASE /\ ~Unchanged(f)
             /\ conflicts' = [conflicts EXCEPT ![f] = [local |-> disk[f], server |-> job.index[f]]]
    <3>1. kept[f] # None => job.index[f] # kept[f]
      BY <2>1, <2>3 DEF KeepInv, Unchanged
    <3>2. conflicts'[f].server = job.index[f] /\ \A g \in Files \ {f} : conflicts'[g] = conflicts[g]
      BY <2>3 DEF TypesInv, StoresOK
    <3> QED BY <2>1, <3>1, <3>2 DEF KeepInv, InFlight, Listed
  <2> QED BY <1>10, <2>2, <2>3 DEF CheckFile
<1>11. ASSUME UNCHANGED <<manifest, kept, conflicts>>, InFlight' => InFlight,
              job'.copy = job.copy, job'.share = job.share
       PROVE  KeepInv'
  BY <1>11, KeepUnmoved
<1>12. ASSUME NEW f \in Files, ReadFails(f) PROVE KeepInv'
  BY <1>1, <1>11, <1>12 DEF ReadFails, Jobs, InFlight, Others
<1>13. CASE FetchAnswers
  BY <1>1, <1>11, <1>13 DEF FetchAnswers, Jobs, InFlight, Others
<1>14. CASE FetchFails
  <2>1. CASE ManifestStored /\ BacksOff
    BY <1>2, <1>14, <2>1 DEF FetchFails, BacksOff, InFlight, Others
  <2>2. CASE GivesUp /\ UNCHANGED manifest
    BY <1>1, <1>11, <1>14, <2>2 DEF FetchFails, GivesUp, NextFile, Jobs, InFlight, Others
  <2> QED BY <1>14, <2>1, <2>2 DEF FetchFails
<1>15. CASE Writes
  <2>1. InFlight /\ job.file \in Files /\ job.copy \in [Listed -> Maybe(Contents)]
    BY <1>1, <1>15 DEF Writes, TypesInv, JobOK, Jobs, InFlight, Maybe
  <2>2. job'.copy = [job.copy EXCEPT ![job.file] = job.index[job.file]] /\ job'.share = job.share
    BY <1>1, <1>15 DEF Writes, NextFile, Jobs
  <2>3. /\ kept'[job.file] = None /\ \A f \in Files \ {job.file} : kept'[f] = kept[f]
        /\ UNCHANGED <<manifest, conflicts>>
    BY <1>15, <2>1 DEF Writes, TypesInv, StoresOK
  <2> QED BY <2>1, <2>2, <2>3 DEF KeepInv, InFlight, Listed
<1>16. CASE WriteFails
  BY <1>1, <1>11, <1>16 DEF WriteFails, NextFile, Jobs, InFlight, Others
<1>17. CASE DownloadEnds
  BY <1>2, <1>17 DEF DownloadEnds, InFlight, Others
<1>18. CASE BackoffOver
  BY <1>11, <1>18 DEF BackoffOver, InFlight, Others
<1>19. ASSUME NEW f \in Files, TakeServer(f) PROVE KeepInv'
  <2>1. \A g \in Files : conflicts'[g] \in {conflicts[g], None}
    BY <1>19 DEF TakeServer, TypesInv, StoresOK
  <2>2. job'.phase = job.phase /\ job'.copy = job.copy /\ job'.share = job.share
    BY <1>1, <1>19 DEF TakeServer, Raced, Jobs
  <2> QED BY <1>19, <2>1, <2>2, KeepUnmoved DEF TakeServer, Others, InFlight
<1>20. ASSUME NEW f \in Files, KeepLocal(f) PROVE KeepInv'
  <2>1. /\ \A g \in Files \ {f} : /\ conflicts'[g] = conflicts[g] /\ kept'[g] = kept[g]
                                  /\ manifest'[g] = manifest[g]
        /\ conflicts'[f] = None /\ manifest'[f] = conflicts[f].server
        /\ kept'[f] = IF Downloading(ShareOf[f]) THEN None ELSE conflicts[f].server
        /\ UNCHANGED job
    BY <1>20 DEF KeepLocal, Accepted, TypesInv, StoresOK
  <2>2. InFlight /\ f \in Listed => Downloading(ShareOf[f])
    BY DEF InFlight, Listed, FilesOf, Downloading
  <2> QED BY <2>1, <2>2 DEF KeepInv, InFlight, Listed
<1>21. ASSUME NEW f \in Files, ServerEdits(f) \/ PushBegins(f) \/ PushEnds(f) PROVE KeepInv'
  BY <1>11, <1>21 DEF ServerEdits, PushBegins, PushEnds, InFlight
<1>22. ASSUME NEW f \in Files, UserEdits(f) PROVE KeepInv'
  <2>1. job'.phase = job.phase /\ job'.copy = job.copy /\ job'.share = job.share
    BY <1>1, <1>22 DEF UserEdits, Raced, Jobs
  <2> QED BY <1>11, <1>22, <2>1 DEF UserEdits, InFlight
<1>23. ASSUME NEW s \in Shares, RegisterShare(s) PROVE KeepInv'
  BY <1>11, <1>23 DEF RegisterShare, InFlight, Others
<1>24. CASE Restart
  BY <1>24 DEF Restart, Idle, KeepInv, InFlight
<1>25. CASE UNCHANGED vars
  BY <1>11, <1>25 DEF vars, InFlight
<1> QED BY <1>3, <1>4, <1>5, <1>6, <1>7, <1>8, <1>9, <1>10, <1>12, <1>13, <1>14, <1>15, <1>16, <1>17,
           <1>18, <1>19, <1>20, <1>21, <1>22, <1>23, <1>24, <1>25 DEF Next, PollStep

\* A content the user has decided against raises no second conflict.
THEOREM KeptIsKept == Spec => []KeptStaysKept
<1>1. TypesInv /\ KeepInv => KeptStaysKept
  <2> SUFFICES ASSUME TypesInv, KeepInv, NEW f \in Files, conflicts[f] # None
               PROVE  conflicts[f].server # kept[f]
    BY DEF KeptStaysKept
  <2>1. conflicts[f].server \in Nat /\ None \notin Nat
    BY InboundAssumption DEF TypesInv, StoresOK, Maybe, Contents
  <2> QED BY <2>1 DEF KeepInv
<1> QED BY <1>1, KeepInit, KeepStep, TypesAlways, PTL DEF Spec

-----------------------------------------------------------------------------
(* The watermarks are honest.  A watermark only moves when a download of   *)
(* the share has run, and the download then vouches for each of the        *)
(* share's files; whatever moves the server's counter meanwhile leaves the *)
(* watermark behind it.                                                    *)

\* Why a file need not be the server's.
Explained(f) == f \in waived \/ conflicts[f] # None

\* The watermarks, and the update that the poll is after.
MarkInv ==
  /\ \A s \in Shares : seen[s] <= bump[s] /\ (watched[s] # None => watched[s] = seen[s])
  /\ job.phase = "share" => watched[job.share] # None /\ job.last = watched[job.share]
  /\ job.phase = "index" \/ InFlight => seen[job.share] < job.new /\ job.new <= bump[job.share]

\* A download of the newest update knows the server's files, and has brought its
\* copy of the manifest up to them but for those it has yet to come to.
CopyInv ==
  InFlight /\ job.new = bump[job.share] =>
    \A f \in Listed :
      /\ job.index[f] = srv[f]
      /\ f \in job.todo \/ f = job.file \/ job.copy[f] = srv[f] \/ Explained(f)

HonestInv ==
  \A s \in Shares :
    seen[s] = bump[s] => \A f \in FilesOf(s) : manifest[f] = srv[f] \/ Explained(f)

WatermarkInv == MarkInv /\ CopyInv /\ HonestInv

LEMMA WatermarkInit == Init => WatermarkInv
<1> SUFFICES ASSUME Init PROVE WatermarkInv
  OBVIOUS
<1>1. job.phase = "idle" /\ job.share = None
  BY DEF Init, Idle
<1>2. MarkInv
  BY <1>1 DEF Init, MarkInv, InFlight
<1>3. HonestInv
  <2> SUFFICES ASSUME NEW s \in Shares, seen[s] = bump[s], NEW f \in FilesOf(s) PROVE FALSE
    BY DEF HonestInv
  <2>1. f \in Files /\ ShareOf[f] = s
    BY DEF FilesOf
  <2> QED BY <2>1 DEF Init
<1> QED BY <1>1, <1>2, <1>3 DEF WatermarkInv, CopyInv, InFlight

\* A step that moves neither the server nor the watermarks, after which no share
\* is being asked for or downloaded.
LEMMA MarkOutside ==
  ASSUME WatermarkInv, UNCHANGED <<srv, bump, seen, watched>>,
         job'.phase \in {"idle", "next"},
         \A s \in Shares : seen[s] = bump[s] =>
           \A f \in FilesOf(s) : manifest'[f] = manifest[f] /\ (Explained(f) => Explained(f)')
  PROVE  WatermarkInv'
<1>1. MarkInv' /\ CopyInv'
  BY DEF WatermarkInv, MarkInv, CopyInv, InFlight
<1>2. HonestInv'
  BY DEF WatermarkInv, HonestInv, FilesOf
<1> QED BY <1>1, <1>2 DEF WatermarkInv

\* A step of the user or the server: the download goes on as it was.
LEMMA MarkBeside ==
  ASSUME WatermarkInv, UNCHANGED <<srv, bump, seen, watched, manifest>>,
         \A x \in {"phase", "share", "last", "new", "index", "copy", "todo", "file"} : job'[x] = job[x],
         \A f \in Files : Explained(f) => Explained(f)'
  PROVE  WatermarkInv'
<1>1. /\ job'.phase = job.phase /\ job'.share = job.share /\ job'.last = job.last /\ job'.new = job.new
      /\ job'.index = job.index /\ job'.copy = job.copy /\ job'.todo = job.todo /\ job'.file = job.file
  OBVIOUS
<1>2. InFlight' = InFlight /\ Listed' = Listed /\ Listed \subseteq Files
  BY <1>1, FilesOfShare DEF InFlight, Listed
<1>3. MarkInv'
  BY <1>1, <1>2 DEF WatermarkInv, MarkInv
<1>4. CopyInv'
  BY <1>1, <1>2 DEF WatermarkInv, CopyInv
<1>5. HonestInv'
  BY FilesOfShare DEF WatermarkInv, HonestInv
<1> QED BY <1>3, <1>4, <1>5 DEF WatermarkInv

\* The server's counter of a share goes up: whatever the share held, its
\* watermark and any download of it are behind.
LEMMA MarkBumped ==
  ASSUME TypesInv, WatermarkInv, NEW f \in Files, Bumped(ShareOf[f]),
         UNCHANGED <<seen, watched, manifest, conflicts, job>>,
         \A g \in Files \ {f} : srv'[g] = srv[g]
  PROVE  WatermarkInv'
<1>1. /\ bump'[ShareOf[f]] = bump[ShareOf[f]] + 1 /\ \A s \in Shares \ {ShareOf[f]} : bump'[s] = bump[s]
      /\ ShareOf[f] \in Shares /\ \A s \in Shares : bump[s] \in Nat /\ seen[s] \in Nat
      /\ waived' = waived \ FilesOf(ShareOf[f])
  BY InboundAssumption DEF Bumped, TypesInv, StoresOK
<1>2. job.phase = "index" \/ InFlight => job.share \in Shares /\ job.new \in Nat
  BY DEF TypesInv, JobOK, Jobs, InFlight, Maybe
<1>3. MarkInv'
  BY <1>1, <1>2 DEF WatermarkInv, MarkInv, InFlight
<1>4. CopyInv'
  <2> SUFFICES ASSUME InFlight, job.new = bump'[job.share] PROVE CopyInv'
    BY DEF CopyInv, InFlight
  <2>1. job.share # ShareOf[f] /\ bump'[job.share] = bump[job.share]
    BY <1>1, <1>2 DEF WatermarkInv, MarkInv
  <2>2. \A g \in Listed : srv'[g] = srv[g] /\ (Explained(g) => Explained(g)')
    BY <1>1, <2>1 DEF Listed, FilesOf, Explained
  <2> QED BY <2>1, <2>2 DEF WatermarkInv, CopyInv, InFlight, Listed
<1>5. HonestInv'
  <2> SUFFICES ASSUME NEW s \in Shares, seen[s] = bump'[s], NEW g \in FilesOf(s)
               PROVE  manifest[g] = srv'[g] \/ Explained(g)'
    BY DEF HonestInv, FilesOf
  <2>1. s # ShareOf[f] /\ seen[s] = bump[s]
    BY <1>1 DEF WatermarkInv, MarkInv
  <2>2. srv'[g] = srv[g] /\ (Explained(g) => Explained(g)')
    BY <1>1, <2>1 DEF FilesOf, Explained
  <2> QED BY <2>1, <2>2 DEF WatermarkInv, HonestInv
<1> QED BY <1>3, <1>4, <1>5 DEF WatermarkInv

\* A download goes from one of its files to the next.
LEMMA MarkGoesOn ==
  ASSUME TypesInv, WatermarkInv, UNCHANGED <<srv, bump, seen, watched, manifest>>, InFlight, InFlight',
         job'.share = job.share, job'.new = job.new, job'.index = job.index,
         \A f \in Files \ Listed : Explained(f) => Explained(f)',
         \A f \in Listed :
           (f \in job.todo \/ f = job.file \/ job.copy[f] = job.index[f] \/ Explained(f))
           => (f \in job'.todo \/ f = job'.file \/ job'.copy[f] = job.index[f] \/ Explained(f)')
  PROVE  WatermarkInv'
<1>1. seen[job.share] < job.new /\ job.new <= bump[job.share] /\ Listed' = Listed
  BY DEF WatermarkInv, MarkInv, Listed
<1>2. MarkInv'
  BY DEF WatermarkInv, MarkInv, InFlight
<1>3. CopyInv'
  BY <1>1 DEF WatermarkInv, CopyInv
<1>4. job.share \in Shares /\ job.new \in Nat /\ \A s \in Shares : seen[s] \in Nat /\ bump[s] \in Nat
  BY DEF TypesInv, StoresOK, JobOK, Jobs, InFlight, Maybe
<1>5. seen[job.share] # bump[job.share]
  BY <1>1, <1>4
<1>6. \A s \in Shares \ {job.share} : FilesOf(s) \subseteq Files \ Listed
  BY DEF FilesOf, Listed
<1>7. HonestInv'
  BY <1>5, <1>6 DEF WatermarkInv, HonestInv
<1> QED BY <1>2, <1>3, <1>7 DEF WatermarkInv

\* The download of a share has run: its watermark moves, to what it vouches for.
LEMMA MarkAdvanced ==
  ASSUME TypesInv, WatermarkInv, UNCHANGED <<srv, bump>>, Advance(job.share), job' = NextShare,
         job.phase = "index" \/ InFlight,
         \A f \in Files \ Listed : manifest'[f] = manifest[f] /\ (Explained(f) => Explained(f)'),
         job.new = bump[job.share] => \A f \in Listed : manifest'[f] = srv[f] \/ Explained(f)'
  PROVE  WatermarkInv'
<1>1. /\ job.share \in Shares /\ job.new \in Nat /\ job.new <= bump[job.share]
      /\ \A s \in Shares : seen[s] \in Nat /\ bump[s] \in Nat
  BY DEF TypesInv, StoresOK, JobOK, Jobs, InFlight, Maybe, WatermarkInv, MarkInv
<1>2. /\ watched'[job.share] = job.new /\ seen'[job.share] = job.new
      /\ \A s \in Shares \ {job.share} : watched'[s] = watched[s] /\ seen'[s] = seen[s]
  BY <1>1 DEF Advance, TypesInv, StoresOK
<1>3. job'.phase = "next"
  BY DEF NextShare, Idle
<1>4. MarkInv' /\ CopyInv'
  BY <1>1, <1>2, <1>3 DEF WatermarkInv, MarkInv, CopyInv, InFlight
<1>5. \A s \in Shares \ {job.share} : FilesOf(s) \subseteq Files \ Listed
  BY DEF FilesOf, Listed
<1>6. HonestInv'
  <2> SUFFICES ASSUME NEW s \in Shares, seen'[s] = bump[s], NEW f \in FilesOf(s)
               PROVE  manifest'[f] = srv[f] \/ Explained(f)'
    BY DEF HonestInv, FilesOf
  <2>1. CASE s = job.share
    BY <1>2, <2>1 DEF Listed
  <2>2. CASE s # job.share
    BY <1>2, <1>5, <2>2 DEF WatermarkInv, HonestInv
  <2> QED BY <2>1, <2>2
<1> QED BY <1>4, <1>6 DEF WatermarkInv

LEMMA WatermarkPoll ==
  ASSUME TypesInv, WatermarkInv,
         \/ PollTick \/ (\E s \in Shares : Visit(s)) \/ PollEnds
         \/ ShareAnswers \/ ShareFails \/ IndexAnswers \/ IndexFails
  PROVE  WatermarkInv'
<1>1. job \in Jobs /\ \A s \in Shares : seen[s] \in Nat /\ bump[s] \in Nat
  BY DEF TypesInv, StoresOK, JobOK
<1>2. ASSUME UNCHANGED <<srv, bump, seen, watched, manifest, conflicts>>, waived' = waived,
             job'.phase \in {"idle", "next"}
      PROVE  WatermarkInv'
  BY <1>2, MarkOutside DEF Explained
<1>3. CASE PollTick
  BY <1>2, <1>3 DEF PollTick, Idle, server
<1>4. ASSUME NEW s \in Shares, Visit(s) PROVE WatermarkInv'
  <2>1. CASE job' = [job EXCEPT !.visited = @ \cup {s}]
    BY <1>1, <1>2, <1>4, <2>1 DEF Visit, Jobs, server
  <2>2. CASE job' = [job EXCEPT !.phase = "share", !.visited = @ \cup {s}, !.share = s, !.last = watched[s]]
    <3>1. job'.phase = "share" /\ job'.share = s /\ job'.last = watched[s] /\ watched[s] # None
      BY <1>1, <1>4, <2>2 DEF Visit, Jobs
    <3>2. UNCHANGED <<srv, bump, seen, watched, manifest, conflicts, waived>>
      BY <1>4 DEF Visit, server
    <3> QED BY <3>1, <3>2 DEF WatermarkInv, MarkInv, CopyInv, HonestInv, InFlight, FilesOf, Explained
  <2> QED BY <1>4, <2>1, <2>2 DEF Visit
<1>5. CASE PollEnds
  BY <1>2, <1>5 DEF PollEnds, Idle, server
<1>6. CASE ShareAnswers
  <2>1. UNCHANGED <<srv, bump, seen, watched, manifest, conflicts, waived>>
    BY <1>6 DEF ShareAnswers, server
  <2>2. CASE job' = NextShare
    BY <1>2, <2>1, <2>2 DEF NextShare, Idle
  <2>3. CASE /\ bump[job.share] \notin {0, job.last}
             /\ job' = [job EXCEPT !.phase = "index", !.new = bump[job.share]]
    <3>1. job'.phase = "index" /\ job'.share = job.share /\ job'.new = bump[job.share]
      BY <1>1, <2>3 DEF Jobs
    <3>2. job.share \in Shares /\ job.last = watched[job.share] /\ watched[job.share] = seen[job.share]
          /\ seen[job.share] <= bump[job.share]
      BY <1>1, <1>6 DEF ShareAnswers, TypesInv, JobOK, Jobs, Maybe, WatermarkInv, MarkInv
    <3>3. seen[job.share] < bump[job.share]
      BY <1>1, <2>3, <3>2
    <3>4. MarkInv' /\ CopyInv'
      BY <1>1, <2>1, <3>1, <3>2, <3>3 DEF WatermarkInv, MarkInv, CopyInv, InFlight
    <3> QED BY <2>1, <3>4 DEF WatermarkInv, HonestInv, FilesOf, Explained
  <2> QED BY <1>6, <2>2, <2>3 DEF ShareAnswers
<1>7. CASE ShareFails
  BY <1>2, <1>7 DEF ShareFails, BacksOff, NextShare, Idle, server
<1>8. CASE IndexAnswers
  <2>1. UNCHANGED <<srv, bump, manifest, conflicts, waived>>
    BY <1>8 DEF IndexAnswers, server
  <2>2. CASE Listed = {} /\ Advance(job.share) /\ job' = NextShare
    BY <1>8, <2>1, <2>2, MarkAdvanced DEF IndexAnswers, Explained
  <2>3. CASE /\ job' = [job EXCEPT !.phase = "file", !.todo = FilesOf(job.share),
                                  !.index = [f \in FilesOf(job.share) |-> srv[f]],
                                  !.copy = [f \in FilesOf(job.share) |-> manifest[f]]]
             /\ UNCHANGED <<watched, seen>>
    <3>1. /\ job'.phase = "file" /\ job'.share = job.share /\ job'.new = job.new
          /\ job'.todo = Listed /\ job'.index = [f \in Listed |-> srv[f]]
      BY <1>1, <2>3 DEF Jobs, Listed
    <3>2. MarkInv'
      BY <1>8, <2>1, <2>3, <3>1 DEF IndexAnswers, WatermarkInv, MarkInv, InFlight
    <3>3. CopyInv'
      BY <2>1, <3>1 DEF CopyInv, Listed
    <3> QED BY <2>1, <2>3, <3>2, <3>3 DEF WatermarkInv, HonestInv, FilesOf, Explained
  <2> QED BY <1>8, <2>2, <2>3 DEF IndexAnswers, Listed
<1>9. CASE IndexFails
  <2>1. CASE BacksOff /\ UNCHANGED <<watched, seen, waived>>
    BY <1>2, <1>9, <2>1 DEF IndexFails, BacksOff, NextShare, Idle, server
  <2>2. CASE /\ Advance(job.share) /\ job' = NextShare
             /\ waived' = waived \cup FilesOf(job.share)
    BY <1>9, <2>2, MarkAdvanced DEF IndexFails, Explained, Listed, server
  <2> QED BY <1>9, <2>1, <2>2 DEF IndexFails
<1> QED BY <1>3, <1>4, <1>5, <1>6, <1>7, <1>8, <1>9

LEMMA WatermarkFiles ==
  ASSUME TypesInv, WatermarkInv,
         \/ \E f \in Files : CheckFile(f) \/ ReadFails(f)
         \/ FetchAnswers \/ FetchFails \/ Writes \/ WriteFails \/ DownloadEnds
  PROVE  WatermarkInv'
<1>1. job \in Jobs /\ Listed \subseteq Files
  BY FilesOfShare DEF TypesInv, JobOK, Listed
<1>2. ASSUME NEW f \in Files, CheckFile(f) PROVE WatermarkInv'
  <2>1. /\ InFlight /\ f \in Listed /\ job.file = None /\ UNCHANGED <<srv, bump, seen, watched, manifest>>
        /\ waived' = waived \ {f}
    BY <1>1, <1>2, InboundAssumption
       DEF CheckFile, TypesInv, JobOK, Jobs, InFlight, Maybe, server
  <2>0. job.index[f] \in Contents
    BY <2>1 DEF TypesInv, JobOK
  <2>2. /\ InFlight' /\ job'.todo = job.todo \ {f} /\ job'.share = job.share /\ job'.new = job.new
        /\ job'.index = job.index /\ job'.copy = job.copy
    BY <1>1, <1>2 DEF CheckFile, Jobs, InFlight
  <2>3. /\ \A g \in Files \ {f} : conflicts'[g] = conflicts[g]
        /\ job.copy[f] = job.index[f] \/ conflicts'[f] # None \/ f = job'.file
    <3>1. CASE Unchanged(f) /\ UNCHANGED conflicts
      BY <3>1 DEF Unchanged
    <3>2. CASE conflicts' = [conflicts EXCEPT ![f] = [local |-> disk[f], server |-> job.index[f]]]
               /\ ~MayOverwrite(f)
      <4>0. disk[f] # None
        BY <3>2 DEF MayOverwrite
      <4>1. disk[f] \in Contents
        BY <4>0 DEF TypesInv, StoresOK, Maybe
      <4>2. conflicts'[f] # None
        BY <2>0, <3>2, <4>1, InboundAssumption DEF TypesInv, StoresOK
      <4> QED BY <3>2, <4>2 DEF TypesInv, StoresOK
    <3>3. CASE /\ conflicts' = [conflicts EXCEPT ![f] = None]
               /\ job' = [job EXCEPT !.todo = @ \ {f}, !.phase = "fetch", !.file = f]
      <4>1. job'.file = f
        BY <1>1, <3>3 DEF Jobs
      <4> QED BY <3>3, <4>1 DEF TypesInv, StoresOK
    <3> QED BY <1>1, <1>2, <3>1, <3>2, <3>3 DEF CheckFile, Jobs
  <2>4. \A g \in Files \ {f} : (Explained(g) => Explained(g)') /\ g # job.file
    BY <2>1, <2>3, InboundAssumption DEF Explained
  <2>5. \A g \in Listed :
          (g \in job.todo \/ g = job.file \/ job.copy[g] = job.index[g] \/ Explained(g))
          => (g \in job'.todo \/ g = job'.file \/ job'.copy[g] = job.index[g] \/ Explained(g)')
    BY <1>1, <2>2, <2>3, <2>4 DEF Explained
  <2>6. \A g \in Files \ Listed : Explained(g) => Explained(g)'
    BY <2>1, <2>4
  <2> QED BY <2>1, <2>2, <2>5, <2>6, MarkGoesOn
<1>3. ASSUME NEW f \in Files, ReadFails(f) PROVE WatermarkInv'
  <2>1. /\ InFlight /\ UNCHANGED <<srv, bump, seen, watched, manifest, conflicts>>
        /\ waived' = waived \cup {f}
    BY <1>3 DEF ReadFails, InFlight, server
  <2>2. /\ InFlight' /\ job'.todo = job.todo \ {f} /\ job'.share = job.share /\ job'.new = job.new
        /\ job'.index = job.index /\ job'.copy = job.copy /\ job'.file = job.file
    BY <1>1, <1>3 DEF ReadFails, Jobs, InFlight
  <2> QED BY <2>1, <2>2, MarkGoesOn DEF Explained
<1>4. CASE FetchAnswers
  <2>1. UNCHANGED <<srv, bump, seen, watched, manifest, conflicts, waived>> /\ InFlight
    BY <1>4 DEF FetchAnswers, InFlight, server
  <2>2. /\ InFlight' /\ job'.todo = job.todo /\ job'.share = job.share /\ job'.new = job.new
        /\ job'.index = job.index /\ job'.copy = job.copy /\ job'.file = job.file
    BY <1>1, <1>4 DEF FetchAnswers, Jobs, InFlight
  <2> QED BY <2>1, <2>2, MarkGoesOn DEF Explained
<1>5. ASSUME InFlight, job' = NextFile, waived' = waived \cup {job.file},
             UNCHANGED <<srv, bump, seen, watched, manifest, conflicts>>
      PROVE  WatermarkInv'
  <2>1. /\ InFlight' /\ job'.todo = job.todo /\ job'.share = job.share /\ job'.new = job.new
        /\ job'.index = job.index /\ job'.copy = job.copy
    BY <1>1, <1>5 DEF NextFile, Jobs, InFlight
  <2> QED BY <1>5, <2>1, MarkGoesOn DEF Explained
<1>6. InFlight => /\ job.share \in Shares /\ DOMAIN job.copy = Listed
                  /\ seen[job.share] # bump[job.share]
  BY <1>1 DEF TypesInv, StoresOK, JobOK, Jobs, InFlight, Maybe, WatermarkInv, MarkInv
<1>7. InFlight /\ ManifestStored =>
        /\ \A f \in Files \ Listed : manifest'[f] = manifest[f]
        /\ \A f \in Listed : manifest'[f] = job.copy[f]
  BY <1>1, <1>6 DEF ManifestStored
<1>8. CASE FetchFails
  <2>1. InFlight /\ UNCHANGED <<srv, bump, seen, watched, conflicts>>
    BY <1>8 DEF FetchFails, InFlight, server
  <2>2. CASE ManifestStored /\ BacksOff /\ UNCHANGED waived
    <3>1. job'.phase = "next"
      BY <2>2 DEF BacksOff, NextShare, Idle
    <3>2. \A s \in Shares : seen[s] = bump[s] => FilesOf(s) \subseteq Files \ Listed
      BY <1>6, <2>1 DEF FilesOf, Listed
    <3> QED BY <1>7, <2>1, <2>2, <3>1, <3>2, MarkOutside DEF Explained
  <2> QED BY <1>5, <1>8, <2>1, <2>2 DEF FetchFails, GivesUp
<1>9. CASE Writes
  <2>1. /\ InFlight /\ job.file \in Listed /\ job.copy \in [Listed -> Maybe(Contents)]
        /\ UNCHANGED <<srv, bump, seen, watched, manifest, conflicts, waived>>
    BY <1>1, <1>9 DEF Writes, TypesInv, JobOK, Jobs, InFlight, Maybe, server
  <2>2. /\ InFlight' /\ job'.todo = job.todo /\ job'.share = job.share /\ job'.new = job.new
        /\ job'.index = job.index /\ job'.copy = [job.copy EXCEPT ![job.file] = job.index[job.file]]
    BY <1>1, <1>9 DEF Writes, NextFile, Jobs, InFlight
  <2> QED BY <2>1, <2>2, MarkGoesOn DEF Explained
<1>10. CASE WriteFails
  BY <1>5, <1>10 DEF WriteFails, InFlight, server
<1>11. CASE DownloadEnds
  <2>1. /\ InFlight /\ job.todo = {} /\ job.file = None /\ UNCHANGED <<srv, bump, conflicts, waived>>
    BY <1>1, <1>11 DEF DownloadEnds, TypesInv, JobOK, Jobs, InFlight, Maybe, server
  <2>2. job.new = bump[job.share] => \A f \in Listed : job.copy[f] = srv[f] \/ Explained(f)
    BY <1>1, <2>1, InboundAssumption DEF WatermarkInv, CopyInv
  <2> QED BY <1>7, <1>11, <2>1, <2>2, MarkAdvanced DEF DownloadEnds, Explained
<1> QED BY <1>2, <1>3, <1>4, <1>8, <1>9, <1>10, <1>11

LEMMA WatermarkRest ==
  ASSUME TypesInv, WatermarkInv,
         \/ \E f \in Files : \/ TakeServer(f) \/ KeepLocal(f) \/ ServerEdits(f) \/ UserEdits(f)
                             \/ PushBegins(f) \/ PushEnds(f)
         \/ BackoffOver \/ (\E s \in Shares : RegisterShare(s)) \/ Restart
  PROVE  WatermarkInv'
<1>1. job \in Jobs /\ Listed \subseteq Files
  BY FilesOfShare DEF TypesInv, JobOK, Listed
<1>2. ASSUME UNCHANGED <<srv, bump, seen, watched, manifest, conflicts, waived, job>> PROVE WatermarkInv'
  BY <1>2, MarkBeside DEF Explained
<1>3. ASSUME NEW f \in Files, TakeServer(f) PROVE WatermarkInv'
  <2>1. \A g \in Files : Explained(g) => Explained(g)'
    BY <1>3 DEF TakeServer, Explained, TypesInv, StoresOK
  <2> QED BY <1>3, <2>1, RacedOK, MarkBeside DEF TakeServer, TypesInv, server
<1>4. ASSUME NEW f \in Files, KeepLocal(f) PROVE WatermarkInv'
  <2>1. /\ UNCHANGED <<srv, bump, seen, watched, job>>
        /\ \A g \in Files \ {f} : manifest'[g] = manifest[g] /\ conflicts'[g] = conflicts[g]
        /\ manifest'[f] = conflicts[f].server /\ waived \subseteq waived'
        /\ conflicts[f].server # srv[f] \/ Downloading(ShareOf[f]) => f \in waived'
    BY <1>4 DEF KeepLocal, Accepted, TypesInv, StoresOK, server
  <2>2. \A g \in Files \ {f} : Explained(g) => Explained(g)'
    BY <2>1 DEF Explained
  <2>3. InFlight /\ f \in Listed => Explained(f)'
    BY <2>1 DEF InFlight, Listed, FilesOf, Downloading, Explained
  <2>4. MarkInv'
    BY <2>1 DEF WatermarkInv, MarkInv, InFlight
  <2>5. CopyInv'
    BY <1>1, <2>1, <2>2, <2>3 DEF WatermarkInv, CopyInv, InFlight, Listed
  <2>6. HonestInv'
    <3> SUFFICES ASSUME NEW s \in Shares, seen[s] = bump[s], NEW g \in FilesOf(s)
                 PROVE  manifest'[g] = srv[g] \/ Explained(g)'
      BY <2>1 DEF HonestInv, FilesOf
    <3>1. g \in Files
      BY FilesOfShare
    <3> QED BY <2>1, <2>2, <3>1 DEF WatermarkInv, HonestInv, Explained
  <2> QED BY <2>4, <2>5, <2>6 DEF WatermarkInv
<1>5. ASSUME NEW f \in Files, ServerEdits(f) PROVE WatermarkInv'
  <2>1. \A g \in Files \ {f} : srv'[g] = srv[g]
    BY <1>5 DEF ServerEdits, TypesInv, StoresOK
  <2> QED BY <1>5, <2>1, MarkBumped DEF ServerEdits
<1>6. ASSUME NEW f \in Files, UserEdits(f) PROVE WatermarkInv'
  <2>1. \A g \in Files : Explained(g) => Explained(g)'
    BY <1>6 DEF UserEdits, Explained
  <2> QED BY <1>6, <2>1, RacedOK, MarkBeside DEF UserEdits, TypesInv, server
<1>7. ASSUME NEW f \in Files, PushBegins(f) PROVE WatermarkInv'
  BY <1>2, <1>7 DEF PushBegins, server
<1>8. ASSUME NEW f \in Files, PushEnds(f) PROVE WatermarkInv'
  <2>1. CASE UNCHANGED <<server, here, waived>>
    BY <1>2, <1>8, <2>1 DEF PushEnds, server
  <2>2. CASE srv' = [srv EXCEPT ![f] = pushing[f]] /\ Bumped(ShareOf[f])
    <3>1. \A g \in Files \ {f} : srv'[g] = srv[g]
      BY <2>2 DEF TypesInv, StoresOK
    <3> QED BY <1>8, <2>2, <3>1, MarkBumped DEF PushEnds
  <2> QED BY <1>8, <2>1, <2>2 DEF PushEnds
<1>9. CASE BackoffOver
  BY <1>2, <1>9 DEF BackoffOver, server
<1>10. ASSUME NEW s \in Shares, RegisterShare(s) PROVE WatermarkInv'
  <2>1. /\ watched[s] = None /\ watched'[s] = seen[s]
        /\ \A t \in Shares \ {s} : watched'[t] = watched[t]
        /\ UNCHANGED <<srv, bump, seen, manifest, conflicts, waived, job>>
    BY <1>10 DEF RegisterShare, TypesInv, StoresOK, server
  <2>2. job.phase = "share" => job.share # s /\ job.share \in Shares
    BY <1>1, <2>1 DEF WatermarkInv, MarkInv, TypesInv, JobOK, Jobs, Maybe
  <2>3. MarkInv'
    BY <2>1, <2>2 DEF WatermarkInv, MarkInv, InFlight
  <2> QED BY <2>1, <2>3 DEF WatermarkInv, CopyInv, HonestInv, InFlight, Listed, FilesOf, Explained
<1>11. CASE Restart
  <2>1. /\ UNCHANGED <<srv, bump, seen, manifest>> /\ job'.phase = "idle"
        /\ \A s \in Shares : watched'[s] = None
    BY <1>11 DEF Restart, Idle, server
  <2>2. \A g \in Files : Explained(g) => Explained(g)'
    BY <1>11 DEF Restart, Explained
  <2>3. MarkInv' /\ CopyInv'
    BY <2>1 DEF WatermarkInv, MarkInv, CopyInv, InFlight
  <2>4. HonestInv'
    BY <2>1, <2>2, FilesOfShare DEF WatermarkInv, HonestInv
  <2> QED BY <2>3, <2>4 DEF WatermarkInv
<1> QED BY <1>3, <1>4, <1>5, <1>6, <1>7, <1>8, <1>9, <1>10, <1>11

LEMMA WatermarkStep == TypesInv /\ WatermarkInv /\ [Next]_vars => WatermarkInv'
<1> SUFFICES ASSUME TypesInv, WatermarkInv, [Next]_vars PROVE WatermarkInv'
  OBVIOUS
<1>1. CASE Next
  BY <1>1, WatermarkPoll, WatermarkFiles, WatermarkRest DEF Next, PollStep
<1>2. CASE UNCHANGED vars
  BY <1>2, MarkBeside DEF vars, server, Explained
<1> QED BY <1>1, <1>2

\* Once a share's watermark has reached the server's counter, each of its files
\* is the server's, or its difference can be accounted for.
THEOREM MarksAreHonest == Spec => []WatermarkIsHonest
<1>1. WatermarkInv => WatermarkIsHonest
  BY DEF WatermarkInv, HonestInv, WatermarkIsHonest, Explained
<1> QED BY <1>1, WatermarkInit, WatermarkStep, TypesAlways, PTL DEF Spec
=============================================================================
