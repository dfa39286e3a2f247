----------------------------- MODULE MCSessions -----------------------------
(***************************************************************************)
(* Sessions, and the two places where what outlives a start is kept.       *)
(* part says which one a behaviour is about; the variables of AuthStore and*)
(* of Settings have no value in the others.                                *)
(*   "sessions"  Sessions, which takes its store to be one atomic value    *)
(*   "store"     AuthStore, that store in detail, of two servers           *)
(*   "settings"  Settings, the rest of what is persisted                   *)
(***************************************************************************)
EXTENDS Sessions

CONSTANTS
  h1, p1,                                     \* where Sessions stands still
  Servers, Saved, Legacies, MaxStorageEvents, \* of AuthStore
  Guids, Values, Writes, MaxWrites, MaxArrays \* of Settings

VARIABLES
  part,
  storage, host, legacy, memory, failed, moved, latest, excepted, storageEvents,
  settings, arrays, write, saves, file, wanted, allowed, writes

kept == <<storage, host, legacy, memory, failed, moved, latest, excepted, storageEvents>>
configured == <<settings, arrays, write, saves, file, wanted, allowed, writes>>

Store == INSTANCE AuthStore WITH Nothing <- None

Prefs == INSTANCE Settings WITH
  Nothing <- None,
  current <- settings, disk <- file, latest <- wanted, excepted <- allowed

ASSUME KeptAssumption == Store!AuthStoreAssumption /\ Prefs!SettingsAssumption

NotStored ==
  /\ storage = None /\ host = None /\ legacy = None /\ memory = None /\ failed = None
  /\ moved = None /\ latest = None /\ excepted = None /\ storageEvents = None

NotConfigured ==
  /\ settings = None /\ arrays = None /\ write = None /\ saves = None /\ file = None
  /\ wanted = None /\ allowed = None /\ writes = None

MCInit ==
  /\ part \in {"sessions", "store", "settings"}
  /\ Init /\ (part # "sessions" => current = p1 /\ object[p1].host = h1)
  /\ IF part = "store" THEN Store!Init ELSE NotStored
  /\ IF part = "settings" THEN Prefs!Init ELSE NotConfigured

MCNext ==
  /\ UNCHANGED part
  /\ \/ part = "sessions" /\ Next /\ UNCHANGED <<kept, configured>>
     \/ part = "store" /\ Store!Next /\ UNCHANGED <<vars, configured>>
     \/ part = "settings" /\ Prefs!Next /\ UNCHANGED <<vars, kept>>

MCSpec == MCInit /\ [][MCNext]_<<vars, part, kept, configured>>

\* The properties of AuthStore and of Settings, stated there.
SessionsStay == part = "store" => Store!SessionsStay
SettledIsLatest == part = "settings" => Prefs!SettledIsLatest
=============================================================================
