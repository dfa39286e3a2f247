------------------------------ MODULE MCShare ------------------------------
(***************************************************************************)
(* A share's files outside the exchange of their texts.  part says which   *)
(* concern a behaviour is about; the variables of Adoption and of WebSync  *)
(* have no value in the others.                                            *)
(*   "blob"  Attachments, one attachment on two clients                    *)
(*   "guid"  Adoption, one document on two clients                         *)
(*   "web"   WebSync, one share over a few paths, some pushes at once      *)
(***************************************************************************)
EXTENDS Attachments

CONSTANTS
  MaxGuidEvents, MaxMints,                         \* of Adoption
  Paths, Home, Folder, Pushes,                     \* of WebSync
  MaxContent, MaxInfo, MaxTries, MaxWebEvents

VARIABLES
  part,
  client, replica, shared, claimless, trashed, incidents,
  kind, vault, web, list, reg, recent, closure, timers, push, outbound,
  made, infos, events, waived, listWaived

adopted == <<client, replica, shared, claimless, trashed, incidents>>
published == <<kind, vault, web, list, reg, recent, closure, timers, push, outbound,
               made, infos, events, waived, listWaived>>

A == INSTANCE Adoption WITH
  MaxEvents <- MaxGuidEvents, relay <- shared, windows <- claimless, events <- incidents

W == INSTANCE WebSync WITH
  NoFile <- None, MaxEvents <- MaxWebEvents, disk <- vault

ASSUME ShareAssumption == A!AdoptionAssumption /\ W!WebAssumption

NotAdopted ==
  /\ client = None /\ replica = None /\ shared = None
  /\ claimless = None /\ trashed = None /\ incidents = None

NotPublished ==
  /\ kind = None /\ vault = None /\ web = None /\ list = None /\ reg = None
  /\ recent = None /\ closure = None /\ timers = None /\ push = None /\ outbound = None
  /\ made = None /\ infos = None /\ events = None /\ waived = None /\ listWaived = None

MCInit ==
  /\ part \in {"blob", "guid", "web"}
  /\ Init /\ (part # "blob" => relay # None)
  /\ IF part = "guid" THEN A!Init ELSE NotAdopted
  /\ IF part = "web" THEN W!Init ELSE NotPublished

MCNext ==
  /\ UNCHANGED part
  /\ \/ part = "blob" /\ Next /\ UNCHANGED <<adopted, published>>
     \/ part = "guid" /\ A!Next /\ UNCHANGED <<vars, published>>
     \/ part = "web" /\ W!Next /\ UNCHANGED <<vars, adopted>>

MCSpec == MCInit /\ [][MCNext]_<<vars, part, adopted, published>>

\* CONSTRAINT: the states a window of Adoption leads to are of no interest.
OutsideWindows == part = "guid" => A!OutsideWindows

\* The properties of Adoption and of WebSync, stated there.
OneGuid == part = "guid" => A!OneGuid
PruneIsSafe == part = "guid" => A!PruneIsSafe
WebFollowsTheVault == part = "web" => W!WebFollowsTheVault
OutboundExact == part = "web" => W!OutboundExact
=============================================================================
