------------------------------ MODULE AuthStore ------------------------------
(***************************************************************************)
(* Where sessions outlive the application (RelayOnPremAuthStore.ts): one   *)
(* blob, of a session for each server, in the vault's local storage, which *)
(* may be full; a copy of it in memory, which takes over when a save       *)
(* fails; and the keys of older versions, one for each server, which are   *)
(* moved into the blob once.  Every operation is synchronous.  The store   *)
(* has its host before anything is stored (main.ts registers it first);    *)
(* clearAll has no caller.                                                 *)
(***************************************************************************)
EXTENDS Naturals

CONSTANTS
  Servers,
  Saved,     \* sessions; those of older versions are in Legacies
  Legacies,
  MaxStorageEvents, \* how often the storage changes or the application restarts
  Nothing

AuthStoreAssumption ==
  Legacies \subseteq Saved /\ Nothing \notin Saved /\ MaxStorageEvents \in Nat

VARIABLES
  storage,  \* "ok"; "full", when saves throw; "partial": the old keys cannot be reached
  host,     \* AUTH_BLOB_KEY: [Servers -> a session or Nothing]
  legacy,   \* the keys of older versions: [Servers -> a session or Nothing]
  memory,   \* memoryFallback
  failed,   \* saveFailed
  moved,    \* legacyMigrated
  latest,   \* history: what the last operation on a server left it with
  excepted, \* history: see SessionsStay
  storageEvents

vars == <<storage, host, legacy, memory, failed, moved, latest, excepted, storageEvents>>

Empty == [s \in Servers |-> Nothing]

-----------------------------------------------------------------------------
(* _migrateLegacy, which comes first in every operation: what it leaves.   *)

OldKeys == {s \in Servers : legacy[s] # Nothing}
CanMove == ~moved /\ storage # "partial" /\ (OldKeys # {} => storage = "ok")

HostMoved ==
  IF CanMove THEN [s \in Servers |-> IF host[s] = Nothing THEN legacy[s] ELSE host[s]] ELSE host

MigrateLegacy ==
  /\ moved' = (moved \/ CanMove)
  /\ legacy' = IF CanMove THEN Empty ELSE legacy

\* _readBlob, after the migration.
ReadBlob == IF failed THEN memory ELSE HostMoved

\* _writeBlob.  Full storage still takes an empty blob, which removes the key.
WriteBlob(blob) ==
  /\ memory' = blob
  /\ failed' = (storage = "full" /\ blob # Empty)
  /\ host' = IF failed' THEN HostMoved ELSE blob

\* What an operation on the servers of S gets wrong of the old keys: those that cannot
\* be moved now may come back later; those that are moved beside a newer memory are
\* not in what the next save writes.
Excepts(S) ==
  LET wrong == IF ~CanMove THEN S \cap OldKeys ELSE IF failed THEN OldKeys ELSE {}
  IN excepted' = excepted \cup wrong \cup (IF S \cap (excepted \cup wrong) # {} THEN S ELSE {})

-----------------------------------------------------------------------------

Operation(S) == MigrateLegacy /\ Excepts(S) /\ UNCHANGED <<storage, storageEvents>>

\* load, hasAuthData, getStoredServerIds
Load ==
  /\ Operation({})
  /\ host' = HostMoved
  /\ UNCHANGED <<memory, failed, latest>>

Persist(s, session) ==
  /\ Operation({s})
  /\ WriteBlob([ReadBlob EXCEPT ![s] = session])
  /\ latest' = [latest EXCEPT ![s] = session]

Evict(s) ==
  /\ Operation({s})
  /\ WriteBlob([ReadBlob EXCEPT ![s] = Nothing])
  /\ latest' = [latest EXCEPT ![s] = Nothing]

\* The session found at the new id is replaced (a faulty variant).
RenameServer_Overwrites(s, t) ==
  /\ Operation({s, t})
  /\ IF s # t /\ ReadBlob[s] # Nothing
     THEN /\ WriteBlob([ReadBlob EXCEPT ![s] = Nothing, ![t] = ReadBlob[s]])
          /\ latest' = [latest EXCEPT ![s] = Nothing, ![t] = @]
     ELSE host' = HostMoved /\ UNCHANGED <<memory, failed, latest>>

\* renameServer: two writes, the second of what the first left.
RenameServer(s, t) ==
  /\ Operation({s, t})
  /\ IF s # t /\ ReadBlob[s] # Nothing /\ ReadBlob[t] = Nothing
     THEN /\ WriteBlob([ReadBlob EXCEPT ![s] = Nothing, ![t] = ReadBlob[s]])
          /\ latest' = [latest EXCEPT ![s] = Nothing, ![t] = latest[s]]
     ELSE host' = HostMoved /\ UNCHANGED <<memory, failed, latest>>

\* What cannot be saved is lost when the application ends.
Restart ==
  /\ storageEvents < MaxStorageEvents /\ storageEvents' = storageEvents + 1
  /\ memory' = Empty /\ failed' = FALSE /\ moved' = FALSE
  /\ latest' = IF failed THEN [s \in Servers |-> IF host[s] = Nothing THEN legacy[s] ELSE host[s]]
               ELSE latest
  /\ excepted' = IF failed THEN {} ELSE excepted
  /\ UNCHANGED <<storage, host, legacy>>

StorageChanges ==
  /\ storageEvents < MaxStorageEvents /\ storageEvents' = storageEvents + 1
  /\ storage' \in {"ok", "full", "partial"} \ {storage}
  /\ UNCHANGED <<host, legacy, memory, failed, moved, latest, excepted>>

-----------------------------------------------------------------------------

Init ==
  /\ storage = "ok" /\ storageEvents = 0
  /\ legacy \in [Servers -> Legacies \cup {Nothing}]
  /\ host = Empty /\ memory = Empty
  /\ failed = FALSE /\ moved = FALSE
  /\ latest = legacy /\ excepted = {}

Next ==
  \/ Load \/ Restart \/ StorageChanges
  \/ \E s \in Servers : \/ Evict(s)
                        \/ \E session \in Saved \ Legacies : Persist(s, session)
                        \/ \E t \in Servers : RenameServer(s, t)

Spec == Init /\ [][Next]_vars

-----------------------------------------------------------------------------
(* Properties *)

\* What load would find of each server if the old keys could be moved now.
Found(s) ==
  LET blob == IF failed THEN memory ELSE host
  IN IF blob[s] = Nothing /\ ~moved THEN legacy[s] ELSE blob[s]

(***************************************************************************)
(* Users stay signed in, and out: the session of every server is the one   *)
(* stored last, through full storage, restarts, renames and the move from  *)
(* the old keys; only what could not be saved goes back at a restart.      *)
(* Excepted are servers whose old key an operation found and could not     *)
(* move, since it may come back after that operation, and those whose old  *)
(* key was moved while memory held the newest blob: see NoSessionVanishes. *)
(***************************************************************************)
SessionsStay == \A s \in Servers \ excepted : Found(s) = latest[s]

(***************************************************************************)
(* A session that was stored and not evicted is kept somewhere.  False of  *)
(* the code: keys moved while the last save had failed are in host, and    *)
(* not in memory, from which the next save is made.                        *)
(***************************************************************************)
NoSessionVanishes ==
  \A s \in Servers : latest[s] # Nothing => {memory[s], host[s], legacy[s]} # {Nothing}
=============================================================================
