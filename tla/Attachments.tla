---------------------------- MODULE Attachments -----------------------------
(***************************************************************************)
(* One attachment of a shared folder on several clients: AttachmentFile.ts *)
(* (runSync, pushToRemote, pullFromRemote), the transfers of BlobClient.ts *)
(* and what starts them: the modify and create events of main.ts, the scan *)
(* of the tree, the lanes and the commands.  The bytes are kept on the     *)
(* server under their hash, and a record in the folder's Y.Map names the   *)
(* hash and the time of the last change.  Nothing keeps two flows of one   *)
(* attachment apart.                                                       *)
(*                                                                         *)
(* A content is its hash: the number of the edit that made it, or Garbage, *)
(* the body of a failed response.  The clients' clocks agree, and no two   *)
(* writes of files happen at the same time.                                *)
(***************************************************************************)
EXTENDS YMapEntry, FiniteSets

CONSTANTS
  Clients,    \* numbers: of two concurrent writes of a record the greater client's wins
  Owner,      \* who has the file at first
  Slots,      \* flows of one client at a time
  MaxEvents,  \* edits, with the first, faults and commands
  MaxWrites,  \* writes of the record
  Garbage, None

ASSUME AttachmentAssumption ==
  /\ Clients \subseteq Nat /\ Owner \in Clients /\ Slots # {} /\ Slots \subseteq Nat
  /\ MaxEvents \in Nat \ {0} /\ MaxWrites \in Nat
  /\ Garbage \notin Nat /\ None \notin Nat /\ Garbage # None

VARIABLES
  disk,      \* [Clients -> the file: its bytes and mtime, None when there is none]
  record,    \* [Clients -> its replica of the record: hash, synctime, by]
  relay,     \* the relay's replica of it
  blobs,     \* the server: what it keeps under each hash
  up,        \* clients whose plugin is loaded
  online,    \* clients whose share is connected
  wrapper,   \* [Clients -> the AttachmentFile with its syncMeta, None when there is none]
  modified,  \* clients with a modify event to handle
  scan,      \* clients whose tree is to be scanned
  flow,      \* [Clients -> [Slots -> a flow under way or None]]
  edits,     \* edits so far, and faults
  faults,
  clock,     \* of the last write of a file
  windows    \* history: the races and failures the properties name

net == <<record, relay, blobs>>
counts == <<edits, faults>>
vars == <<disk, net, up, online, wrapper, modified, scan, flow, counts, clock, windows>>

Bytes == 1..MaxEvents \cup {Garbage}
Maybe(S) == S \cup {None}

File == [bytes : Bytes, mtime : Nat]
Record == [hash : Bytes, synctime : Nat, by : Seq(Clients)]
SyncMeta == [hash : Bytes, synctime : Nat]
Flows == [at : {"hashing", "naming", "putting", "noting", "comparing", "checking", "fetching"},
          meta : Maybe(SyncMeta), want : Maybe(Bytes), bytes : Maybe(Bytes), hash : Maybe(Bytes)]

Wrapper == [meta : Maybe(SyncMeta)]

ASSUME NoneAssumption == None \notin File \cup Record \cup SyncMeta \cup Wrapper \cup Flows

Meta(r) == IF r = None THEN None ELSE [hash |-> r.hash, synctime |-> r.synctime]

-----------------------------------------------------------------------------
(* Flows.  A flow that goes on with what it read keeps it: meta, what       *)
(* runSync decides by; want, the hash to be fetched; bytes and hash, what   *)
(* is being uploaded, and under which name.                                 *)

Flow(at) == [at |-> at, meta |-> None, want |-> None, bytes |-> None, hash |-> None]

Free(c) == {s \in Slots : flow[c][s] = None}
Slot(c) == CHOOSE s \in Free(c) : \A t \in Free(c) : s <= t

\* pushToRemote up to its first await; an attachment whose share is offline is not pushed.
Pushing(c) == IF c \in online THEN Flow("hashing") ELSE None

\* pullFromRemote up to its first await.
Pulling(c) ==
  IF record[c] = None THEN None
  ELSE IF disk[c] # None THEN Flow("checking")
  ELSE [Flow("fetching") EXCEPT !.want = record[c].hash]

\* runSync up to its first await.
Syncing(c) ==
  IF disk[c] = None THEN Pulling(c)
  ELSE IF record[c] = None THEN Pushing(c)
  ELSE [Flow("comparing") EXCEPT !.meta = Meta(record[c])]

\* Each of them begins with refreshRemoteMeta.
Refreshed(c) == wrapper' = [wrapper EXCEPT ![c] = [meta |-> Meta(record[c])]]

Starts(c, f) ==
  /\ Free(c) # {}
  /\ flow' = [flow EXCEPT ![c][Slot(c)] = f]
  /\ Refreshed(c)

At(c, s, stage) == c \in up /\ flow[c][s] # None /\ flow[c][s].at = stage
Goes(c, s, f) == flow' = [flow EXCEPT ![c][s] = f]
Ends(c, s) == Goes(c, s, None)

Still == <<disk, net, up, online, counts, clock>>

-----------------------------------------------------------------------------
(* runSync.                                                                  *)

LocalIsNewer_Swapped(c, meta) == disk[c].mtime < meta.synctime
LocalIsNewer(c, meta) == disk[c].mtime > meta.synctime

Compare(c, s) ==
  /\ At(c, s, "comparing")
  /\ LET meta == flow[c][s].meta IN
       Goes(c, s, IF disk[c].bytes = meta.hash THEN None
                  ELSE IF LocalIsNewer(c, meta) THEN Pushing(c) ELSE Pulling(c))
  /\ IF flow'[c][s] # None /\ flow'[c][s].at = "checking" THEN Refreshed(c) ELSE UNCHANGED wrapper
  /\ UNCHANGED <<Still, modified, scan, windows>>

(* pushToRemote and pushFile.                                                *)

OutOfDate(c) == record[c] = None \/ record[c].hash # disk[c].bytes

Hashed(c, s) ==
  /\ At(c, s, "hashing")
  /\ Refreshed(c)
  /\ Goes(c, s, IF OutOfDate(c) THEN [Flow("naming") EXCEPT !.bytes = disk[c].bytes] ELSE None)
  /\ UNCHANGED <<Still, modified, scan, windows>>

\* The bytes were read before the hash they are named by.
Named(c, s) ==
  /\ At(c, s, "naming")
  /\ Goes(c, s, [flow[c][s] EXCEPT !.at = "putting", !.hash = disk[c].bytes])
  /\ UNCHANGED <<Still, wrapper, modified, scan, windows>>

Put(c, s) ==
  /\ At(c, s, "putting")
  /\ blobs' = [blobs EXCEPT ![flow[c][s].hash] = flow[c][s].bytes]
  /\ Goes(c, s, Flow("noting"))
  /\ UNCHANGED <<disk, record, relay, up, online, counts, clock, wrapper, modified, scan, windows>>

Fault == edits + faults < MaxEvents /\ faults' = faults + 1 /\ UNCHANGED edits

\* The answer to the PUT is not looked at: refused or lost, it counts as done.
PutRefused(c, s) ==
  /\ At(c, s, "putting") /\ Fault
  /\ Goes(c, s, Flow("noting"))
  /\ windows' = windows \cup {"put refused"}
  /\ UNCHANGED <<disk, net, up, online, clock, wrapper, modified, scan>>

\* A request that fails with an exception: the flow ends.
Fails_GoesOn(c, s) ==
  /\ At(c, s, "putting") /\ Fault
  /\ Goes(c, s, Flow("noting"))
  /\ windows' = windows \cup {"failed"}
  /\ UNCHANGED <<disk, net, up, online, clock, wrapper, modified, scan>>

Fails(c, s) ==
  /\ At(c, s, "putting") \/ At(c, s, "fetching")
  /\ Fault /\ Ends(c, s)
  /\ windows' = windows \cup {"failed"}
  /\ UNCHANGED <<disk, net, up, online, clock, wrapper, modified, scan>>

\* noteUploaded: what the file is by now; an equal record is left as it is.
Noted(c, s) ==
  /\ At(c, s, "noting")
  /\ LET hash == disk[c].bytes
         by == IF record[c] = None THEN <<>> ELSE record[c].by
     IN  IF record[c] # None /\ record[c].hash = hash THEN UNCHANGED <<record, scan, windows>>
         ELSE /\ Len(by) < MaxWrites
              /\ record' = [record EXCEPT ![c] = [hash |-> hash, synctime |-> disk[c].mtime, by |-> Append(by, c)]]
              /\ scan' = scan \cup {c}
              /\ windows' = windows \cup
                   (IF record[c] # None /\ record[c].synctime > disk[c].mtime THEN {"late push"} ELSE {})
  /\ Ends(c, s)
  /\ UNCHANGED <<disk, relay, blobs, up, online, counts, clock, wrapper, modified>>

-----------------------------------------------------------------------------
(* pullFromRemote.                                                           *)

Checked(c, s) ==
  /\ At(c, s, "checking")
  /\ Goes(c, s, IF disk[c].bytes = wrapper[c].meta.hash THEN None
                ELSE [Flow("fetching") EXCEPT !.want = wrapper[c].meta.hash])
  /\ UNCHANGED <<Still, wrapper, modified, scan, windows>>

\* Stages at which a flow goes on with what it has found in the file.
Reads == {"naming", "putting", "noting"}
Raced(c) == IF \E s \in Slots : flow[c][s] # None /\ flow[c][s].at \in Reads
            THEN {"changed during a push"} ELSE {}

Writes(c, bytes) ==
  /\ clock' = clock + 1
  /\ disk' = [disk EXCEPT ![c] = [bytes |-> bytes, mtime |-> clock + 1]]
  /\ modified' = modified \cup {c}

\* The server answers, and writeBinary writes whatever there is now over; the
\* vault reports its write like a user's.
Fetched(c, s) ==
  /\ At(c, s, "fetching")
  /\ LET bytes == blobs[flow[c][s].want] IN
       IF bytes = None
       THEN UNCHANGED <<disk, clock, modified, windows>>
       ELSE /\ Writes(c, bytes)
            /\ windows' = windows \cup Raced(c) \cup (IF bytes # edits THEN {"late pull"} ELSE {})
  /\ Ends(c, s)
  /\ UNCHANGED <<net, up, online, counts, wrapper, scan>>

\* The body of a failed download is taken for the file.
Garbled(c, s) ==
  /\ At(c, s, "fetching") /\ Fault
  /\ Writes(c, Garbage)
  /\ Ends(c, s)
  /\ windows' = windows \cup {"garbled"} \cup Raced(c)
  /\ UNCHANGED <<net, up, online, wrapper, scan>>

-----------------------------------------------------------------------------
(* What starts flows.                                                        *)

\* attachmentAt, for an attachment that has no wrapper: without a record it is
\* pushed; with one it is pulled, whatever the file is.
Taken(c) == IF record[c] = None THEN Pushing(c) ELSE Pulling(c)

\* The vault's modify event.
Modified(c) ==
  /\ c \in up /\ c \in modified
  /\ IF wrapper[c] # None THEN Starts(c, Syncing(c))
     ELSE \E s, t \in Free(c) :
            /\ s < t /\ flow' = [flow EXCEPT ![c][s] = Taken(c), ![c][t] = Syncing(c)]
            /\ Refreshed(c)
  /\ modified' = modified \ {c}
  /\ UNCHANGED <<Still, scan, windows>>

\* At start-up: the create event of a file that is there, or its adoption.
Adopt(c) ==
  /\ c \in up /\ wrapper[c] = None /\ disk[c] # None /\ (record[c] # None \/ c = Owner)
  /\ Starts(c, Taken(c))
  /\ UNCHANGED <<Still, modified, scan, windows>>

\* The scan of the tree: a file that is missing or older than its record is fetched.
NeedsPull_WhenMissing(c) == disk[c] = None
NeedsPull(c) == disk[c] = None \/ (wrapper[c] # None /\ record[c].synctime > disk[c].mtime)

Scan(c) ==
  /\ c \in up /\ c \in scan
  /\ IF record[c] # None /\ NeedsPull(c)
     THEN Starts(c, Pulling(c)) ELSE UNCHANGED <<flow, wrapper>>
  /\ scan' = scan \ {c}
  /\ UNCHANGED <<Still, modified, windows>>

\* "Relay: sync" has every attachment synchronised by the lane.
SyncCommand(c) ==
  /\ c \in online /\ record[c] = relay /\ wrapper[c] # None /\ Fault
  /\ Starts(c, Syncing(c))
  /\ UNCHANGED <<disk, net, up, online, clock, modified, scan, windows>>

-----------------------------------------------------------------------------
(* The user, the plugin and the network.                                     *)

Unsaved(c) == disk[c] # None /\ (record[c] = None \/ record[c].hash # disk[c].bytes)

Edit(c) ==
  /\ edits + faults < MaxEvents /\ disk[c] # None /\ disk[c].bytes # Garbage
  /\ edits' = edits + 1 /\ clock' = clock + 1
  /\ disk' = [disk EXCEPT ![c] = [bytes |-> edits + 1, mtime |-> clock + 1]]
  /\ modified' = IF c \in up THEN modified \cup {c} ELSE modified
  /\ windows' = windows \cup Raced(c)
       \cup (IF \E s \in Slots : flow[c][s] # None /\ flow[c][s].at \in {"checking", "fetching"}
             THEN {"edited during a pull"} ELSE {})
       \cup (IF c \notin online THEN {"unsaved offline"} ELSE {})
       \cup (IF wrapper[c] = None THEN {"edited before it was taken up"} ELSE {})
       \cup (IF disk[c].bytes # edits THEN {"crossed"} ELSE {})
  /\ UNCHANGED <<net, up, online, wrapper, scan, flow, faults>>

Offline(c) == windows' = windows \cup IF Unsaved(c) THEN {"unsaved offline"} ELSE {}

Stop(c) ==
  /\ c \in up /\ Fault
  /\ up' = up \ {c} /\ online' = online \ {c}
  /\ wrapper' = [wrapper EXCEPT ![c] = None]
  /\ flow' = [flow EXCEPT ![c] = [s \in Slots |-> None]]
  /\ modified' = modified \ {c} /\ scan' = scan \ {c}
  /\ Offline(c)
  /\ UNCHANGED <<disk, net, clock>>

Start(c) ==
  /\ c \notin up
  /\ up' = up \cup {c} /\ scan' = scan \cup {c}
  /\ UNCHANGED <<disk, net, online, wrapper, modified, flow, counts, clock, windows>>

Drop(c) ==
  /\ c \in online /\ Fault
  /\ online' = online \ {c}
  /\ Offline(c)
  /\ UNCHANGED <<disk, net, up, wrapper, modified, scan, flow, clock>>

Connect(c) ==
  /\ c \in up /\ c \notin online
  /\ online' = online \cup {c}
  /\ UNCHANGED <<disk, net, up, wrapper, modified, scan, flow, counts, clock, windows>>

Merged(a, b) ==
  IF a = None THEN b ELSE IF b = None THEN a ELSE IF Later(a.by, b.by) THEN a ELSE b

Send(c) ==
  /\ c \in online /\ relay' = Merged(relay, record[c]) /\ relay' # relay
  /\ UNCHANGED <<disk, record, blobs, up, online, wrapper, modified, scan, flow, counts, clock, windows>>

\* Of concurrent records the one that is kept may be the older one: a file that is
\* not on the server was no newer than the record the client had, and is newer than
\* this one.
WentBack(c, r) ==
  /\ record[c] # None /\ disk[c] # None /\ blobs[disk[c].bytes] # disk[c].bytes
  /\ r.synctime < disk[c].mtime /\ disk[c].mtime <= record[c].synctime

Receive(c) ==
  /\ c \in online /\ record' = [record EXCEPT ![c] = Merged(@, relay)] /\ record' # record
  /\ scan' = scan \cup {c}
  /\ windows' = windows \cup (IF WentBack(c, record'[c]) THEN {"record went back"} ELSE {})
  /\ UNCHANGED <<disk, relay, blobs, up, online, wrapper, modified, flow, counts, clock>>

-----------------------------------------------------------------------------

\* The attachment is shared and in sync, or the owner has just added it.
Init ==
  /\ clock = 1 /\ edits = 1 /\ faults = 0 /\ windows = {}
  /\ up = Clients /\ online = Clients /\ modified = {} /\ scan = {}
  /\ LET file == [bytes |-> 1, mtime |-> 1]
         first == [hash |-> 1, synctime |-> 1, by |-> <<Owner>>]
     IN  \/ /\ disk = [c \in Clients |-> file] /\ relay = first
            /\ record = [c \in Clients |-> first]
            /\ blobs = [b \in Bytes |-> IF b = 1 THEN 1 ELSE None]
            /\ wrapper = [c \in Clients |-> [meta |-> Meta(first)]]
            /\ flow = [c \in Clients |-> [s \in Slots |-> None]]
         \/ /\ disk = [c \in Clients |-> IF c = Owner THEN file ELSE None] /\ relay = None
            /\ record = [c \in Clients |-> None]
            /\ blobs = [b \in Bytes |-> None]
            /\ wrapper = [c \in Clients |-> IF c = Owner THEN [meta |-> None] ELSE None]
            /\ flow = [c \in Clients |-> [s \in Slots |->
                        IF c = Owner /\ \A t \in Slots : s <= t THEN Flow("hashing") ELSE None]]

Steps(c, s) ==
  \/ Compare(c, s) \/ Hashed(c, s) \/ Named(c, s) \/ Put(c, s) \/ PutRefused(c, s)
  \/ Fails(c, s) \/ Noted(c, s) \/ Checked(c, s) \/ Fetched(c, s) \/ Garbled(c, s)

Events(c) ==
  \/ Modified(c) \/ Adopt(c) \/ Scan(c) \/ SyncCommand(c) \/ Edit(c)
  \/ Stop(c) \/ Start(c) \/ Drop(c) \/ Connect(c) \/ Send(c) \/ Receive(c)

Next == \E c \in Clients : Events(c) \/ \E s \in Slots : Steps(c, s)

Spec == Init /\ [][Next]_vars

-----------------------------------------------------------------------------

Lost(names) == windows \cap names # {}

\* What the record names is on the server, whole: the other clients never see a
\* record before its bytes, though the push is two requests and a write of the
\* Y.Map, and its failures, restarts and a second push may come between them.
\* Excepted are a PUT whose refusal nobody looks at, and a file that changes
\* between the reads of one push.
RecordHasBytes ==
  relay # None /\ ~Lost({"put refused", "changed during a push"}) => blobs[relay.hash] = relay.hash

\* The plugin writes over a file only what is saved on the server or no newer than
\* the client's record: no download, scan, command or start takes an edit that
\* exists on this client alone.  Excepted are edits in the course of a push or a
\* pull, those attachmentAt or an offline share keeps from being pushed, and a
\* record that gave way to a concurrent older one after a pull was decided.
EditsKept ==
  [][\A c \in Clients :
       disk[c] # None /\ disk'[c].bytes # disk[c].bytes /\ edits' = edits /\ disk[c].bytes # Garbage
         => \/ blobs[disk[c].bytes] = disk[c].bytes
            \/ record[c] # None /\ disk[c].mtime <= record[c].synctime
            \/ Lost({"changed during a push", "edited during a pull", "unsaved offline",
                     "edited before it was taken up", "record went back"})]_vars

Quiet ==
  /\ up = Clients /\ online = Clients /\ modified = {} /\ scan = {}
  /\ \A c \in Clients : record[c] = relay /\ wrapper[c] # None /\ \A s \in Slots : flow[c][s] = None

Newest == \A c \in Clients : disk[c] # None /\ disk[c].bytes = edits

\* Once everybody is online and nothing is under way every client has the last
\* edit, whatever was restarted, disconnected and asked for twice before;
\* a failure and the races named in windows are excepted.
NewestEverywhere == Quiet /\ windows = {} => Newest
=============================================================================
