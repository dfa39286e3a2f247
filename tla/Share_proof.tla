---------------------------- MODULE Share_proof ----------------------------
(***************************************************************************)
(* What a share publishes, what an attachment's record names and which     *)
(* document a shared file is, for any number of paths, pushes, clients,    *)
(* flows, sessions and minted guids.                                       *)
(*                                                                         *)
(* WebInv: of every file either its slot is waived, or a call or an        *)
(* automatic push that has yet to read it is due, or every text of it      *)
(* under way is the file's, and the server has that text or an automatic   *)
(* push carries it; of the list the same.  The count is the number of      *)
(* pushes of contents.                                                     *)
(*                                                                         *)
(* BlobInv: a push that has read the file's bytes and not yet noted them   *)
(* still has what the file is, so that it puts them under their own hash   *)
(* and notes that hash; and every record of every client names such bytes. *)
(*                                                                         *)
(* SafeInv: a flow that pulls, or would after its comparison, is of a      *)
(* client whose file the server has or whose record is no older than the   *)
(* file; whoever has what a record names has it saved or from no later.    *)
(*                                                                         *)
(* NewestInv: the records are a chain, each made over the one before.      *)
(* Whoever has the last edit has the last record or is about to push, and  *)
(* whoever is behind its record is about to pull.                          *)
(*                                                                         *)
(* AdoptOK: every claim is of a session whose client has it, and a client  *)
(* whose claim can still win is alone: no other one is about to publish,   *)
(* and it has every record there is.  So who wins publishes what nobody    *)
(* else will, the records are a chain of which all but the last one are    *)
(* deleted, and every file has that one's document or is about to.         *)
(***************************************************************************)
EXTENDS MCShare, FiniteSetTheorems, SequenceTheorems, WellFoundedInduction, TLAPS

-----------------------------------------------------------------------------
(* What the published share's variables may be.                             *)

Contents == Nat \cup {None}

PushStates ==
  [what : {"none", "file", "list", "sweep"},
   stage : {"none", "read", "send", "wait", "list"},
   path : Paths, file : Paths, text : Contents, info : Nat, tries : Nat,
   items : SUBSET Paths, todo : SUBSET Paths]

WebTypes ==
  /\ kind \in {"doc", "folder"}
  /\ vault \in [Paths -> Contents] /\ web \in [Paths -> Contents]
  /\ list \in SUBSET Paths
  /\ reg \in [Paths \cup {Folder} -> Nat]
  /\ recent \in SUBSET Nat
  /\ closure \in [Paths -> Nat]
  /\ timers \in SUBSET (Paths \X Nat)
  /\ push \in [Pushes -> PushStates]
  /\ outbound \in Nat /\ made \in Nat /\ infos \in Nat /\ events \in Nat
  /\ waived \in SUBSET Paths /\ listWaived \in BOOLEAN

\* What the constants are assumed to be.
LEMMA Given ==
  /\ Home \in Paths /\ Folder \notin Paths
  /\ MaxContent \in Nat /\ MaxInfo \in Nat /\ MaxTries \in Nat
  /\ None \notin Nat /\ IsFiniteSet(Pushes)
<1>1. W!IsFiniteSet(Pushes) => IsFiniteSet(Pushes)
  BY DEF W!IsFiniteSet, IsFiniteSet
<1> QED BY <1>1, ShareAssumption DEF W!WebAssumption

LEMMA QuietIsAPush == W!Quiet \in PushStates
BY Given DEF W!Quiet, PushStates, Contents

LEMMA SlotsArePaths == ASSUME WebTypes, NEW p \in Paths PROVE W!Slot(p) \in Paths
BY Given DEF W!Slot, WebTypes

LEMMA FilePushes ==
  ASSUME NEW p \in Paths, NEW i \in Nat
  PROVE  W!FilePush(p, i) \in PushStates
BY QuietIsAPush DEF W!FilePush, PushStates, W!Quiet

LEMMA PushUpdates ==
  ASSUME NEW r \in PushStates, NEW p \in Paths, NEW t \in Contents
  PROVE  /\ [r EXCEPT !.stage = "send", !.path = p, !.text = t] \in PushStates
         /\ [r EXCEPT !.stage = "wait", !.tries = r.tries + 1] \in PushStates
         /\ [r EXCEPT !.stage = "send"] \in PushStates
         /\ [r EXCEPT !.stage = "read", !.path = p, !.file = p, !.tries = 0,
                      !.todo = r.todo \ {p}] \in PushStates
<1>1. r.tries + 1 \in Nat /\ r.todo \ {p} \in SUBSET Paths
  BY DEF PushStates
<1> QED BY <1>1 DEF PushStates

LEMMA EndsTypes ==
  ASSUME WebTypes, NEW k \in Pushes, W!Ends(k)
  PROVE  push' \in [Pushes -> PushStates] /\ outbound' \in Nat
<1>1. CASE push[k].todo = {}
  BY <1>1, QuietIsAPush, Given DEF W!Ends, W!EndOutbound, WebTypes
<1>2. CASE push[k].todo # {}
  <2>1. PICK p \in push[k].todo :
          push' = [push EXCEPT ![k] = [push[k] EXCEPT !.stage = "read", !.path = p, !.file = p,
                                                 !.tries = 0, !.todo = push[k].todo \ {p}]]
    BY <1>2, Zenon DEF W!Ends
  <2>2. p \in Paths /\ push[k] \in PushStates
    BY <2>1 DEF WebTypes, PushStates
  <2>3. [push[k] EXCEPT !.stage = "read", !.path = p, !.file = p, !.tries = 0,
                        !.todo = push[k].todo \ {p}] \in PushStates
    BY <2>2 DEF PushStates
  <2>4. outbound' = outbound
    BY <1>2 DEF W!Ends
  <2> QED BY <2>1, <2>3, <2>4 DEF WebTypes
<1> QED BY <1>1, <1>2

LEMMA ListPushTypes ==
  ASSUME WebTypes, NEW inFlight \in [Pushes -> PushStates], W!ListPush(inFlight)
  PROVE  push' \in [Pushes -> PushStates] /\ listWaived' \in BOOLEAN
<1>1. \A items \in SUBSET Paths :
        [W!Quiet EXCEPT !.what = "list", !.stage = "list", !.items = items] \in PushStates
  BY QuietIsAPush DEF PushStates, W!Quiet
<1>2. PICK items \in SUBSET Paths : items = {p \in Paths : vault'[p] # None}
  OBVIOUS
<1>3. push' \in [Pushes -> PushStates]
  BY <1>1, <1>2 DEF W!ListPush
<1>4. listWaived' \in BOOLEAN
  BY DEF W!ListPush, W!ListContested, WebTypes
<1> QED BY <1>3, <1>4

LEMMA WebTypesKept == ASSUME WebTypes, [W!Next]_(W!vars) PROVE WebTypes'
<1> USE Given
<1>1. ASSUME NEW p \in Paths, W!Edit(p) PROVE WebTypes'
  <2>1. made' \in Nat /\ vault' \in [Paths -> Contents]
    BY <1>1 DEF W!Edit, WebTypes, Contents
  <2>2. waived' \in SUBSET Paths
    BY <1>1, SlotsArePaths DEF W!Edit, WebTypes, W!Waive
  <2>3. closure' \in [Paths -> Nat] /\ timers' \in SUBSET (Paths \X Nat)
    BY <1>1 DEF W!Edit, W!Debounced, W!PushedAtOnce, WebTypes
  <2>4. push' \in [Pushes -> PushStates] /\ outbound' \in Nat
    BY <1>1, FilePushes DEF W!Edit, W!Debounced, W!PushedAtOnce, W!BeginOutbound, WebTypes
  <2> QED BY <1>1, <2>1, <2>2, <2>3, <2>4 DEF W!Edit, WebTypes, W!server
<1>2. ASSUME NEW p \in Paths, W!Create(p) PROVE WebTypes'
  <2>1. made' \in Nat /\ vault' \in [Paths -> Contents] /\ waived' \in SUBSET Paths /\ events' \in Nat
    BY <1>2, SlotsArePaths DEF W!Create, WebTypes, Contents, W!Waive, W!Event
  <2>2. push' \in [Pushes -> PushStates] /\ listWaived' \in BOOLEAN
    BY <1>2, ListPushTypes DEF W!Create, WebTypes
  <2> QED BY <1>2, <2>1, <2>2 DEF W!Create, WebTypes, W!server
<1>3. ASSUME NEW p \in Paths, W!Delete(p) PROVE WebTypes'
  <2>1. vault' \in [Paths -> Contents] /\ reg' \in [Paths \cup {Folder} -> Nat] /\ events' \in Nat
    BY <1>3 DEF W!Delete, WebTypes, Contents, W!Event
  <2>2. push' \in [Pushes -> PushStates] /\ listWaived' \in BOOLEAN
    BY <1>3, ListPushTypes DEF W!Delete, WebTypes
  <2> QED BY <1>3, <2>1, <2>2 DEF W!Delete, WebTypes, W!server
<1>4. ASSUME NEW p \in Paths, W!SyncCurrentFile(p) PROVE WebTypes'
  <2>1. [W!Quiet EXCEPT !.what = "sweep", !.stage = "read", !.path = p, !.file = p] \in PushStates
    BY QuietIsAPush DEF PushStates, W!Quiet
  <2> QED BY <1>4, <2>1 DEF W!SyncCurrentFile, WebTypes, W!server, W!BeginOutbound, W!Event
<1>5. ASSUME NEW p \in Paths, NEW q \in Paths, W!Rename(p, q) PROVE WebTypes'
  <2>1. vault' \in [Paths -> Contents] /\ reg' \in [Paths \cup {Folder} -> Nat] /\ events' \in Nat
    BY <1>5 DEF W!Rename, W!Moved, WebTypes, Contents, W!Event
  <2>2. waived' \in SUBSET Paths
    BY <1>5 DEF W!Rename, W!Moved, WebTypes
  <2>3. [k \in Pushes |-> IF push[k].stage = "read" /\ push[k].file = p
                          THEN [push[k] EXCEPT !.file = q] ELSE push[k]] \in [Pushes -> PushStates]
    BY DEF WebTypes, PushStates
  <2>4. push' \in [Pushes -> PushStates] /\ listWaived' \in BOOLEAN
    BY <1>5, <2>3, ListPushTypes DEF W!Rename, W!Moved
  <2> QED BY <1>5, <2>1, <2>2, <2>4 DEF W!Rename, WebTypes, W!server
<1>6. ASSUME NEW p \in Paths, NEW i \in 0..MaxInfo, W!TimerFires(p, i) PROVE WebTypes'
  <2>1. reg[p] \in Nat /\ i \in Nat
    BY DEF WebTypes
  <2>2. push' \in [Pushes -> PushStates] /\ outbound' \in Nat
    BY <1>6, <2>1, FilePushes DEF W!TimerFires, WebTypes, W!BeginOutbound
  <2>3. waived' \in SUBSET Paths
    BY <1>6, SlotsArePaths DEF W!TimerFires, WebTypes, W!Waive
  <2> QED BY <1>6, <2>2, <2>3 DEF W!TimerFires, WebTypes, W!server
<1>7. ASSUME NEW i \in recent, W!IntervalElapses(i) PROVE WebTypes'
  BY <1>7 DEF W!IntervalElapses, WebTypes, W!server
<1>8. ASSUME NEW k \in Pushes, W!Reads(k) PROVE WebTypes'
  <2>1. push' \in [Pushes -> PushStates] /\ outbound' \in Nat
    <3>1. CASE W!Ends(k)
      BY <3>1, EndsTypes
    <3>2. CASE ~W!Ends(k)
      <4>1. PICK p, f \in Paths :
              push' = [push EXCEPT ![k] = [push[k] EXCEPT !.stage = "send", !.path = p,
                                                          !.text = vault[f]]]
        <5>1. push[k].file \in Paths /\ push[k].path \in Paths
          BY DEF WebTypes, PushStates
        <5> QED BY <1>8, <3>2, <5>1, Zenon DEF W!Reads
      <4>2. [push[k] EXCEPT !.stage = "send", !.path = p, !.text = vault[f]] \in PushStates
        BY PushUpdates DEF WebTypes
      <4>3. outbound' = outbound
        BY <1>8, <3>2 DEF W!Reads
      <4> QED BY <4>1, <4>2, <4>3 DEF WebTypes
    <3> QED BY <3>1, <3>2
  <2>2. waived' \in SUBSET Paths
    <3>1. push[k].file \in Paths /\ push[k].path \in Paths
      BY DEF WebTypes, PushStates
    <3> QED BY <1>8, <3>1, SlotsArePaths DEF W!Reads, W!Waive, WebTypes
  <2> QED BY <1>8, <2>1, <2>2 DEF W!Reads, WebTypes, W!server
<1>9. ASSUME NEW k \in Pushes, W!Arrives(k) PROVE web' \in [Paths -> Contents] /\ list' = list
  <2>1. push[k].path \in Paths /\ push[k].text \in Contents
    BY DEF WebTypes, PushStates
  <2> QED BY <1>9, <2>1, SlotsArePaths DEF W!Arrives, WebTypes
<1>10. ASSUME NEW k \in Pushes, W!Pushed(k) PROVE WebTypes'
  <2>1. recent' \in SUBSET Nat
    BY <1>10 DEF W!Pushed, WebTypes, PushStates
  <2>2. web' \in [Paths -> Contents] /\ list' = list /\ push' \in [Pushes -> PushStates] /\ outbound' \in Nat
    BY <1>9, <1>10, EndsTypes DEF W!Pushed
  <2> QED BY <1>10, <2>1, <2>2 DEF W!Pushed, WebTypes
<1>11. ASSUME NEW k \in Pushes, W!PushFails(k) PROVE WebTypes'
  <2>1. push' \in [Pushes -> PushStates] /\ outbound' \in Nat
    BY <1>11, EndsTypes DEF W!PushFails
  <2>2. web' \in [Paths -> Contents] /\ list' = list
    BY <1>9, <1>11 DEF W!PushFails, WebTypes, W!server
  <2>3. waived' \in SUBSET Paths
    <3>1. push[k].path \in Paths
      BY DEF WebTypes, PushStates
    <3> QED BY <1>11, <3>1, SlotsArePaths DEF W!PushFails, WebTypes, W!Waive
  <2> QED BY <1>11, <2>1, <2>2, <2>3 DEF W!PushFails, WebTypes, W!Event
<1>12. ASSUME NEW k \in Pushes, W!TooMany(k) PROVE WebTypes'
  <2>1. [push[k] EXCEPT !.stage = "wait", !.tries = push[k].tries + 1] \in PushStates
    BY PushUpdates, Given DEF WebTypes, Contents
  <2> QED BY <1>12, <2>1 DEF W!TooMany, WebTypes, W!server, W!Event
<1>13. ASSUME NEW k \in Pushes, W!SendsAgain(k) PROVE WebTypes'
  <2>1. [push EXCEPT ![k].stage = "send"] \in [Pushes -> PushStates]
    BY DEF WebTypes, PushStates
  <2> QED BY <1>13, <2>1 DEF W!SendsAgain, WebTypes, W!server, W!Goes
<1>14. ASSUME NEW k \in Pushes, W!ListPushed(k) PROVE WebTypes'
  <2>1. list' \in SUBSET Paths
    BY <1>14 DEF W!ListPushed, WebTypes, PushStates
  <2> QED BY <1>14, <2>1, EndsTypes DEF W!ListPushed, WebTypes
<1>15. ASSUME NEW k \in Pushes, W!ListFails(k) PROVE WebTypes'
  <2>1. push' \in [Pushes -> PushStates] /\ outbound' \in Nat
    BY <1>15, QuietIsAPush DEF W!ListFails, WebTypes, W!EndOutbound
  <2> QED BY <1>15, <2>1 DEF W!ListFails, WebTypes, W!server, W!Event
<1>16. CASE W!SyncAll
  <2>1. \A items \in SUBSET Paths :
          /\ [W!Quiet EXCEPT !.what = "sweep", !.stage = "read"] \in PushStates
          /\ [W!Quiet EXCEPT !.what = "sweep", !.stage = "list", !.items = items, !.todo = items] \in PushStates
    BY QuietIsAPush DEF PushStates, W!Quiet
  <2>2. W!Files \in SUBSET Paths
    BY DEF W!Files
  <2>3. push' \in [Pushes -> PushStates]
    BY <1>16, <2>1, <2>2 DEF W!SyncAll, WebTypes
  <2>4. listWaived' \in BOOLEAN
    BY <1>16 DEF W!SyncAll, WebTypes, W!ListContested
  <2>5. outbound' \in Nat /\ events' \in Nat /\ UNCHANGED <<kind, vault, web, list, reg, recent, closure,
                                               timers, made, infos, waived>>
    BY <1>16 DEF W!SyncAll, WebTypes, W!BeginOutbound, W!Event, W!server
  <2> QED BY <2>3, <2>4, <2>5 DEF WebTypes
<1>17. CASE W!Register
  BY <1>17 DEF W!Register, WebTypes, W!server
<1>18. CASE W!Unregister
  BY <1>18 DEF W!Unregister, WebTypes, W!server, W!Event
<1>19. CASE W!Restart
  <2>1. {W!Slot(t[1]) : t \in timers} \in SUBSET Paths
    BY SlotsArePaths DEF WebTypes
  <2>2. {W!Slot(push[k].path) : k \in {k \in Pushes : push[k].what = "file"}} \in SUBSET Paths
    <3>1. \A k \in Pushes : push[k].path \in Paths
      BY DEF WebTypes, PushStates
    <3> QED BY <3>1, SlotsArePaths
  <2>3. push' \in [Pushes -> PushStates] /\ outbound' \in Nat /\ listWaived' \in BOOLEAN
    BY <1>19, QuietIsAPush DEF W!Restart, WebTypes
  <2> QED BY <1>19, <2>1, <2>2, <2>3 DEF W!Restart, WebTypes, W!server, W!Event
<1>20. CASE UNCHANGED W!vars
  BY <1>20 DEF W!vars, W!server, W!manager, WebTypes
<1> QED
  BY <1>1, <1>2, <1>3, <1>4, <1>5, <1>6, <1>7, <1>8, <1>10, <1>11, <1>12, <1>13, <1>14, <1>15,
     <1>16, <1>17, <1>18, <1>19, <1>20 DEF W!Next

-----------------------------------------------------------------------------
(* The invariant of the published share.                                    *)

GuardedPushes == {k \in Pushes : W!Guarded(k)}
OutboundCounts == outbound = Cardinality(GuardedPushes)

OneDoc == kind = "doc" => \A p, q \in W!Files : p = q

Due(s) ==
  \/ \E t \in timers : W!Slot(t[1]) = s
  \/ \E k \in Pushes : /\ push[k].what = "file" /\ push[k].stage = "read"
                       /\ W!Slot(push[k].path) = s /\ W!Slot(push[k].file) = s

Followed(p) ==
  /\ \A k \in Pushes : W!Sending(k) /\ W!Slot(push[k].path) = W!Slot(p) => push[k].text = vault[p]
  /\ \/ web[W!Slot(p)] = vault[p]
     \/ \E k \in Pushes : W!Sending(k) /\ push[k].what = "file" /\ W!Slot(push[k].path) = W!Slot(p)

FilesFollowed == \A p \in W!Files : W!Slot(p) \in waived \/ Due(W!Slot(p)) \/ Followed(p)

ListFollowed ==
  kind = "folder" => \/ listWaived
                     \/ /\ \A k \in Pushes : push[k].stage = "list" => push[k].items = W!Files
                        /\ list = W!Files \/ \E k \in Pushes : push[k].stage = "list"

WebInv == WebTypes /\ OutboundCounts /\ OneDoc /\ FilesFollowed /\ ListFollowed

LEMMA CountKept ==
  ASSUME OutboundCounts, outbound' = outbound,
         \A j \in Pushes : push'[j].what \in {"file", "sweep"} <=> push[j].what \in {"file", "sweep"}
  PROVE  OutboundCounts'
<1>1. GuardedPushes' = GuardedPushes
  BY DEF GuardedPushes, W!Guarded
<1> QED BY <1>1 DEF OutboundCounts

LEMMA CountRaised ==
  ASSUME OutboundCounts, NEW k \in Pushes, outbound' = outbound + 1, push[k].what = "none",
         push'[k].what \in {"file", "sweep"}, \A j \in Pushes \ {k} : push'[j] = push[j]
  PROVE  OutboundCounts'
<1>1. GuardedPushes' = GuardedPushes \cup {k} /\ k \notin GuardedPushes
  BY DEF GuardedPushes, W!Guarded
<1>2. IsFiniteSet(GuardedPushes)
  BY Given, FS_Subset DEF GuardedPushes
<1>3. Cardinality(GuardedPushes \cup {k}) = Cardinality(GuardedPushes) + 1
  BY <1>1, <1>2, FS_AddElement
<1> QED BY <1>1, <1>3 DEF OutboundCounts

LEMMA CountLowered ==
  ASSUME OutboundCounts, NEW k \in Pushes, outbound' = W!EndOutbound, W!Guarded(k),
         push'[k].what = "none", \A j \in Pushes \ {k} : push'[j] = push[j]
  PROVE  OutboundCounts'
<1>1. GuardedPushes' = GuardedPushes \ {k} /\ k \in GuardedPushes
  BY DEF GuardedPushes, W!Guarded
<1>2. IsFiniteSet(GuardedPushes)
  BY Given, FS_Subset DEF GuardedPushes
<1>3. Cardinality(GuardedPushes \ {k}) = Cardinality(GuardedPushes) - 1
  BY <1>1, <1>2, FS_RemoveElement
<1>4. Cardinality(GuardedPushes) # 0 /\ Cardinality(GuardedPushes) \in Nat
  BY <1>1, <1>2, FS_EmptySet, FS_CardinalityType
<1> QED BY <1>1, <1>3, <1>4 DEF OutboundCounts, W!EndOutbound

\* A push that is done with its file is quiet, or a sweep that reads the next one.
LEMMA EndsEffect ==
  ASSUME WebTypes, NEW k \in Pushes, W!Ends(k)
  PROVE  /\ \A j \in Pushes \ {k} : push'[j] = push[j]
         /\ push'[k].stage \in {"none", "read"}
         /\ \/ push'[k].what = push[k].what /\ outbound' = outbound
            \/ push'[k].what = "none" /\ outbound' = IF W!Guarded(k) THEN W!EndOutbound ELSE outbound
<1>1. CASE push[k].todo = {}
  BY <1>1 DEF W!Ends, WebTypes, W!Quiet
<1>2. CASE push[k].todo # {}
  <2>1. PICK p \in push[k].todo :
          push' = [push EXCEPT ![k] = [push[k] EXCEPT !.stage = "read", !.path = p, !.file = p,
                                                 !.tries = 0, !.todo = push[k].todo \ {p}]]
    BY <1>2, Zenon DEF W!Ends
  <2>2. outbound' = outbound
    BY <1>2 DEF W!Ends
  <2> QED BY <2>1, <2>2 DEF WebTypes, PushStates
<1> QED BY <1>1, <1>2

LEMMA EndsCounts ==
  ASSUME WebTypes, OutboundCounts, NEW k \in Pushes, W!Ends(k)
  PROVE  OutboundCounts'
<1>1. CASE push'[k].what = push[k].what /\ outbound' = outbound
  BY <1>1, EndsEffect, CountKept
<1>2. CASE push'[k].what = "none" /\ W!Guarded(k) /\ outbound' = W!EndOutbound
  BY <1>2, EndsEffect, CountLowered
<1>3. CASE push'[k].what = "none" /\ ~W!Guarded(k) /\ outbound' = outbound
  BY <1>3, EndsEffect, CountKept DEF W!Guarded
<1> QED BY <1>1, <1>2, <1>3, EndsEffect

LEMMA ReadsEffect ==
  ASSUME WebTypes, NEW k \in Pushes, W!Reads(k)
  PROVE  /\ push[k].stage = "read"
         /\ \A j \in Pushes \ {k} : push'[j] = push[j]
         /\ UNCHANGED <<kind, vault, web, list, timers, listWaived>>
         /\ \E f, p \in Paths :
              /\ f = push[k].file /\ p = IF push[k].what = "file" THEN f ELSE push[k].path
              /\ \/ /\ f \in W!Files /\ outbound' = outbound
                    /\ push'[k].what = push[k].what /\ push'[k].stage = "send"
                    /\ push'[k].path = p /\ push'[k].text = vault[f]
                    /\ waived' = waived \cup {W!Slot(p)}
                       \/ /\ waived' = waived /\ W!Slot(p) = W!Slot(f)
                          /\ ~W!Contested(p, k, vault[f])
                 \/ W!Ends(k) /\ push'[k].stage \in {"none", "read"} /\ waived' = waived \cup {W!Slot(p)}
<1> DEFINE f == push[k].file
           p == IF push[k].what = "file" THEN f ELSE push[k].path
<1>1. f \in Paths /\ p \in Paths
  BY DEF WebTypes, PushStates
<1>2. push[k].stage = "read" /\ UNCHANGED <<kind, vault, web, list, timers, listWaived>>
  BY DEF W!Reads, W!server
<1>3. CASE W!Ends(k) /\ W!Waive(p)
  BY <1>1, <1>2, <1>3, EndsEffect DEF W!Waive
<1>4. CASE ~(W!Ends(k) /\ W!Waive(p))
  <2>1. /\ f \in W!Files
        /\ push' = [push EXCEPT ![k] = [push[k] EXCEPT !.stage = "send", !.path = p, !.text = vault[f]]]
        /\ IF W!Contested(p, k, vault[f]) \/ W!Slot(p) # W!Slot(f) THEN W!Waive(p) ELSE UNCHANGED waived
        /\ UNCHANGED outbound
    BY <1>4, Zenon DEF W!Reads
  <2>2. /\ \A j \in Pushes \ {k} : push'[j] = push[j]
        /\ push'[k].what = push[k].what /\ push'[k].stage = "send"
        /\ push'[k].path = p /\ push'[k].text = vault[f]
    BY <2>1 DEF WebTypes, PushStates
  <2> HIDE DEF f, p
  <2> QED BY <1>1, <1>2, <2>1, <2>2, Zenon DEF W!Waive, f, p
<1> QED BY <1>3, <1>4

LEMMA ReadsKeeps ==
  ASSUME WebInv, NEW k \in Pushes, W!Reads(k)
  PROVE  OutboundCounts' /\ OneDoc' /\ FilesFollowed' /\ ListFollowed'
<1>0. WebTypes /\ OutboundCounts /\ OneDoc /\ FilesFollowed /\ ListFollowed
  BY DEF WebInv
<1>1. /\ push[k].stage = "read"
      /\ \A j \in Pushes \ {k} : push'[j] = push[j]
      /\ UNCHANGED <<kind, vault, web, list, timers, listWaived>>
  BY <1>0, ReadsEffect
<1>2. PICK f, p \in Paths :
        /\ f = push[k].file /\ p = IF push[k].what = "file" THEN f ELSE push[k].path
        /\ \/ /\ f \in W!Files /\ outbound' = outbound
              /\ push'[k].what = push[k].what /\ push'[k].stage = "send"
              /\ push'[k].path = p /\ push'[k].text = vault[f]
              /\ waived' = waived \cup {W!Slot(p)}
                 \/ /\ waived' = waived /\ W!Slot(p) = W!Slot(f)
                    /\ ~W!Contested(p, k, vault[f])
           \/ W!Ends(k) /\ push'[k].stage \in {"none", "read"} /\ waived' = waived \cup {W!Slot(p)}
  BY <1>0, ReadsEffect
<1>3. W!Files' = W!Files /\ \A x \in Paths : W!Slot(x)' = W!Slot(x)
  BY <1>1 DEF W!Files, W!Slot
<1>4. push'[k].stage # "list"
  BY <1>2
<1>5. ListFollowed'
  BY <1>0, <1>1, <1>3, <1>4 DEF ListFollowed
<1>6. OneDoc'
  BY <1>0, <1>1, <1>3 DEF OneDoc
<1>7. OutboundCounts'
  BY <1>0, <1>1, <1>2, EndsCounts, CountKept
<1>8. FilesFollowed'
  <2> SUFFICES ASSUME NEW q \in W!Files, W!Slot(q) \notin waived'
               PROVE  Due(W!Slot(q))' \/ Followed(q)'
    BY <1>3, <1>1 DEF FilesFollowed, W!Slot
  <2>0. q \in Paths /\ W!Slot(q) \notin waived /\ (W!Slot(p) \notin waived' \/ W!Slot(p) # W!Slot(q))
    BY <1>2 DEF W!Files
  <2>1. W!Slot(q)' = W!Slot(q)
    BY <1>3, <2>0
  <2>2. ASSUME W!Slot(p) = W!Slot(q)
        PROVE  /\ f = q /\ push'[k].what = push[k].what /\ push'[k].stage = "send"
               /\ push'[k].path = p /\ push'[k].text = vault[q]
               /\ \A j \in Pushes \ {k} : W!Sending(j) /\ W!Slot(push[j].path) = W!Slot(q) => push[j].text = vault[q]
    <3>1. W!Slot(p) = W!Slot(f) /\ ~W!Contested(p, k, vault[f]) /\ f \in W!Files
      BY <1>2, <2>0, <2>2
    <3>2. f = q
      BY <3>1, <2>2, <1>0 DEF W!Slot, OneDoc, WebTypes
    <3> QED BY <1>2, <2>0, <2>2, <3>1, <3>2 DEF W!Contested
  <2>3. ASSUME NEW j \in Pushes, push'[j] = push[j]
        PROVE  W!Sending(j)' = W!Sending(j) /\ W!Slot(push[j].path)' = W!Slot(push[j].path)
               /\ W!Slot(push[j].file)' = W!Slot(push[j].file)
    BY <1>1, <2>3 DEF W!Sending, W!Slot
  <2>4. CASE \E t \in timers : W!Slot(t[1]) = W!Slot(q)
    BY <1>1, <2>4 DEF Due, W!Slot
  <2>5. CASE \E j \in Pushes \ {k} : /\ push[j].what = "file" /\ push[j].stage = "read"
                                     /\ W!Slot(push[j].path) = W!Slot(q) /\ W!Slot(push[j].file) = W!Slot(q)
    BY <1>1, <2>1, <2>3, <2>5 DEF Due
  <2>6. CASE push[k].what = "file" /\ W!Slot(push[k].file) = W!Slot(q)
    <3>1. W!Slot(p) = W!Slot(q)
      BY <1>2, <2>6
    <3>2. Followed(q)'
      BY <1>1, <1>3, <2>1, <2>2, <2>3, <2>6, <3>1 DEF Followed, W!Sending
    <3> QED BY <3>2
  <2>7. CASE Followed(q)
    <3>1. CASE W!Slot(p) = W!Slot(q)
      BY <1>1, <1>3, <2>1, <2>2, <2>3, <2>7, <3>1 DEF Followed, W!Sending
    <3>2. CASE W!Slot(p) # W!Slot(q)
      BY <1>1, <1>2, <1>3, <2>1, <2>3, <2>7, <3>2 DEF Followed, W!Sending
    <3> QED BY <3>1, <3>2
  <2> QED BY <1>0, <2>0, <2>4, <2>5, <2>6, <2>7 DEF FilesFollowed, Due
<1> QED BY <1>5, <1>6, <1>7, <1>8

\* What a step does to a slot is told by the pushes whose record it leaves alone.
LEMMA SamePush ==
  ASSUME kind' = kind, NEW j \in Pushes, push'[j] = push[j]
  PROVE  /\ W!Sending(j)' = W!Sending(j)
         /\ W!Slot(push[j].path)' = W!Slot(push[j].path)
         /\ W!Slot(push[j].file)' = W!Slot(push[j].file)
BY DEF W!Sending, W!Slot

LEMMA SameFiles ==
  ASSUME UNCHANGED <<kind, vault>>
  PROVE  W!Files' = W!Files /\ (\A x : W!Slot(x)' = W!Slot(x)) /\ (OneDoc => OneDoc')
BY DEF W!Files, W!Slot, OneDoc

\* A text has arrived.
LEMMA ArrivalKeeps ==
  ASSUME WebInv, NEW k \in Pushes, push[k].stage = "send", W!Arrives(k), W!Ends(k),
         UNCHANGED <<kind, vault, timers, waived, listWaived>>
  PROVE  OutboundCounts' /\ OneDoc' /\ FilesFollowed' /\ ListFollowed'
<1>0. WebTypes /\ OutboundCounts /\ OneDoc /\ FilesFollowed /\ ListFollowed
  BY DEF WebInv
<1>1. (\A j \in Pushes \ {k} : push'[j] = push[j]) /\ push'[k].stage \in {"none", "read"}
  BY <1>0, EndsEffect
<1>2. /\ list' = list
      /\ web' = [web EXCEPT ![W!Slot(push[k].path)] = push[k].text]
  BY DEF W!Arrives
<1>3. W!Files' = W!Files /\ (\A x : W!Slot(x)' = W!Slot(x)) /\ OneDoc'
  BY <1>0, SameFiles
<1>4. ListFollowed'
  BY <1>0, <1>1, <1>2, <1>3 DEF ListFollowed
<1>5. OutboundCounts'
  BY <1>0, EndsCounts
<1>6. FilesFollowed'
  <2> SUFFICES ASSUME NEW q \in W!Files, W!Slot(q) \notin waived
               PROVE  Due(W!Slot(q))' \/ Followed(q)'
    BY <1>3 DEF FilesFollowed
  <2>1. q \in Paths /\ W!Slot(q) \in Paths /\ W!Slot(q)' = W!Slot(q)
    BY <1>0, <1>3, SlotsArePaths DEF W!Files
  <2>2. CASE Due(W!Slot(q))
    BY <1>1, <1>3, <2>1, <2>2 DEF Due
  <2>3. CASE Followed(q) /\ W!Slot(push[k].path) = W!Slot(q)
    <3>1. push[k].text = vault[q]
      BY <2>3 DEF Followed, W!Sending
    <3>2. web'[W!Slot(q)] = vault'[q]
      BY <1>0, <1>2, <2>1, <2>3, <3>1 DEF WebTypes
    <3> QED BY <1>1, <1>3, <2>1, <2>3, <3>2, SamePush DEF Followed, W!Sending
  <2>4. CASE Followed(q) /\ W!Slot(push[k].path) # W!Slot(q)
    <3>1. web'[W!Slot(q)] = web[W!Slot(q)]
      BY <1>0, <1>2, <2>1, <2>4 DEF WebTypes
    <3> QED BY <1>1, <1>3, <2>1, <2>4, <3>1, SamePush DEF Followed, W!Sending
  <2> QED BY <1>0, <2>2, <2>3, <2>4 DEF FilesFollowed
<1> QED BY <1>3, <1>4, <1>5, <1>6

LEMMA PushFailsKeeps ==
  ASSUME WebInv, NEW k \in Pushes, W!PushFails(k)
  PROVE  OutboundCounts' /\ OneDoc' /\ FilesFollowed' /\ ListFollowed'
<1>0. WebTypes /\ OutboundCounts /\ OneDoc /\ FilesFollowed /\ ListFollowed
  BY DEF WebInv
<1>a. /\ push[k].stage = "send" /\ W!Ends(k) /\ UNCHANGED <<kind, vault, timers, listWaived>>
      /\ \/ W!Arrives(k) /\ waived' = waived
         \/ /\ web' = web /\ list' = list
            /\ IF push[k].text = vault[push[k].path] \/ kind = "doc"
               THEN W!Waive(push[k].path) ELSE UNCHANGED waived
  BY DEF W!PushFails, W!server
<1>b. CASE W!Arrives(k) /\ waived' = waived
  BY <1>a, <1>b, ArrivalKeeps
<1>c. CASE /\ web' = web /\ list' = list
           /\ IF push[k].text = vault[push[k].path] \/ kind = "doc"
              THEN W!Waive(push[k].path) ELSE UNCHANGED waived
  <2>1. (\A j \in Pushes \ {k} : push'[j] = push[j]) /\ push'[k].stage \in {"none", "read"}
    BY <1>0, <1>a, EndsEffect
  <2>2. W!Files' = W!Files /\ (\A x : W!Slot(x)' = W!Slot(x)) /\ OneDoc'
    BY <1>0, <1>a, SameFiles
  <2>3. ListFollowed'
    BY <1>0, <1>a, <1>c, <2>1, <2>2 DEF ListFollowed
  <2>4. OutboundCounts'
    BY <1>0, <1>a, EndsCounts
  <2>5. FilesFollowed'
    <3> SUFFICES ASSUME NEW q \in W!Files, W!Slot(q) \notin waived'
                 PROVE  Due(W!Slot(q))' \/ Followed(q)'
      BY <2>2 DEF FilesFollowed
    <3>1. q \in Paths /\ W!Slot(q)' = W!Slot(q) /\ W!Slot(q) \notin waived
      BY <1>0, <1>c, <2>2 DEF W!Files, W!Waive
    <3>2. CASE Due(W!Slot(q))
      BY <1>a, <2>1, <2>2, <3>1, <3>2 DEF Due
    <3>3. CASE Followed(q) /\ W!Slot(push[k].path) # W!Slot(q)
      BY <1>a, <1>c, <2>1, <2>2, <3>1, <3>3, SamePush DEF Followed, W!Sending
    <3>4. CASE Followed(q) /\ W!Slot(push[k].path) = W!Slot(q)
      <4>1. push[k].text = vault[q]
        BY <1>a, <3>4 DEF Followed, W!Sending
      <4>2. kind = "doc" \/ push[k].path = q
        BY <1>0, <3>4 DEF W!Slot, WebTypes
      <4> QED BY <1>c, <3>1, <3>4, <4>1, <4>2 DEF W!Waive
    <3> QED BY <1>0, <3>1, <3>2, <3>3, <3>4 DEF FilesFollowed
  <2> QED BY <2>2, <2>3, <2>4, <2>5
<1> QED BY <1>a, <1>b, <1>c

LEMMA TooManyKeeps ==
  ASSUME WebInv, NEW k \in Pushes, W!TooMany(k) \/ W!SendsAgain(k)
  PROVE  OutboundCounts' /\ OneDoc' /\ FilesFollowed' /\ ListFollowed'
<1>0. WebTypes /\ OutboundCounts /\ OneDoc /\ FilesFollowed /\ ListFollowed
  BY DEF WebInv
<1>1. /\ UNCHANGED <<kind, vault, web, list, timers, waived, listWaived, outbound>>
      /\ push[k].stage \in {"send", "wait"}
  BY DEF W!TooMany, W!SendsAgain, W!server
<1>2. /\ push'[k].stage \in {"send", "wait"} /\ push'[k].what = push[k].what
      /\ push'[k].path = push[k].path /\ push'[k].text = push[k].text
      /\ \A j \in Pushes \ {k} : push'[j] = push[j]
  <2>1. CASE W!TooMany(k)
    <3>1. push' = [push EXCEPT ![k] = [push[k] EXCEPT !.stage = "wait", !.tries = push[k].tries + 1]]
      BY <2>1 DEF W!TooMany
    <3> QED BY <1>0, <3>1 DEF WebTypes, PushStates
  <2>2. CASE W!SendsAgain(k)
    <3>1. push' = [push EXCEPT ![k].stage = "send"]
      BY <2>2 DEF W!SendsAgain, W!Goes
    <3> QED BY <1>0, <3>1 DEF WebTypes, PushStates
  <2> QED BY <2>1, <2>2
<1>3. W!Files' = W!Files /\ (\A x : W!Slot(x)' = W!Slot(x)) /\ OneDoc'
  BY <1>0, <1>1, SameFiles
<1>4. ListFollowed'
  BY <1>0, <1>1, <1>2, <1>3 DEF ListFollowed
<1>5. OutboundCounts'
  BY <1>0, <1>1, <1>2, CountKept
<1>6. FilesFollowed'
  <2> SUFFICES ASSUME NEW q \in W!Files, W!Slot(q) \notin waived
               PROVE  Due(W!Slot(q))' \/ Followed(q)'
    BY <1>1, <1>3 DEF FilesFollowed
  <2>1. CASE Due(W!Slot(q))
    BY <1>1, <1>2, <1>3, <2>1 DEF Due
  <2>2. CASE Followed(q)
    BY <1>1, <1>2, <1>3, <2>2 DEF Followed, W!Sending
  <2> QED BY <1>0, <2>1, <2>2 DEF FilesFollowed
<1> QED BY <1>3, <1>4, <1>5, <1>6

\* Nothing of the files changes: pushes of lists, and those that begin.
LEMMA FilesStay ==
  ASSUME WebInv, UNCHANGED <<kind, vault, web, timers, waived>>,
         \A j \in Pushes : push'[j] = push[j] \/ (/\ push[j].stage \notin {"read", "send", "wait"}
                                                  /\ push'[j].stage \notin {"send", "wait"})
  PROVE  OneDoc' /\ FilesFollowed'
<1>0. OneDoc /\ FilesFollowed
  BY DEF WebInv
<1>1. W!Files' = W!Files /\ (\A x : W!Slot(x)' = W!Slot(x)) /\ OneDoc'
  BY <1>0, SameFiles
<1>2. FilesFollowed'
  <2> SUFFICES ASSUME NEW q \in W!Files, W!Slot(q) \notin waived
               PROVE  Due(W!Slot(q))' \/ Followed(q)'
    BY <1>1 DEF FilesFollowed
  <2>1. CASE Due(W!Slot(q))
    BY <1>1, <2>1 DEF Due
  <2>2. CASE Followed(q)
    BY <1>1, <2>2 DEF Followed, W!Sending
  <2> QED BY <1>0, <2>1, <2>2 DEF FilesFollowed
<1> QED BY <1>1, <1>2

LEMMA ListPushedKeeps ==
  ASSUME WebInv, NEW k \in Pushes, W!ListPushed(k)
  PROVE  OutboundCounts' /\ OneDoc' /\ FilesFollowed' /\ ListFollowed'
<1>0. WebTypes /\ OutboundCounts /\ OneDoc /\ FilesFollowed /\ ListFollowed
  BY DEF WebInv
<1>1. /\ UNCHANGED <<kind, vault, web, timers, waived, listWaived>>
      /\ push[k].stage = "list" /\ list' = push[k].items /\ W!Ends(k)
  BY DEF W!ListPushed
<1>2. (\A j \in Pushes \ {k} : push'[j] = push[j]) /\ push'[k].stage \in {"none", "read"}
  BY <1>0, <1>1, EndsEffect
<1>3. OneDoc' /\ FilesFollowed'
  BY <1>1, <1>2, FilesStay
<1>4. ListFollowed'
  BY <1>0, <1>1, <1>2, SameFiles DEF ListFollowed
<1> QED BY <1>0, <1>1, <1>3, <1>4, EndsCounts

LEMMA ListFailsKeeps ==
  ASSUME WebInv, NEW k \in Pushes, W!ListFails(k)
  PROVE  OutboundCounts' /\ OneDoc' /\ FilesFollowed' /\ ListFollowed'
<1>0. WebTypes /\ OutboundCounts
  BY DEF WebInv
<1>1. /\ UNCHANGED <<kind, vault, web, timers, waived>> /\ listWaived' = TRUE
      /\ push[k].stage = "list"
      /\ outbound' = IF W!Guarded(k) THEN W!EndOutbound ELSE outbound
  BY DEF W!ListFails, W!server
<1>2. (\A j \in Pushes \ {k} : push'[j] = push[j]) /\ push'[k].stage = "none" /\ push'[k].what = "none"
  BY <1>0 DEF W!ListFails, W!Quiet, WebTypes
<1>3. OneDoc' /\ FilesFollowed'
  BY <1>1, <1>2, FilesStay
<1>4. ListFollowed'
  BY <1>1 DEF ListFollowed
<1>5. OutboundCounts'
  <2>1. CASE W!Guarded(k)
    BY <1>0, <1>1, <1>2, <2>1, CountLowered
  <2>2. CASE ~W!Guarded(k)
    BY <1>0, <1>1, <1>2, <2>2, CountKept DEF W!Guarded
  <2> QED BY <2>1, <2>2
<1> QED BY <1>3, <1>4, <1>5

\* Commands, registrations and the passing of time leave the files alone.
LEMMA SyncAllKeeps ==
  ASSUME WebInv, W!SyncAll
  PROVE  OutboundCounts' /\ OneDoc' /\ FilesFollowed' /\ ListFollowed'
<1>0. WebTypes /\ OutboundCounts /\ ListFollowed
  BY DEF WebInv
<1>1. UNCHANGED <<kind, vault, web, list, timers, waived>> /\ outbound' = outbound + 1
  BY DEF W!SyncAll, W!server, W!BeginOutbound
<1>2. PICK k \in Pushes :
        /\ W!Free(k)
        /\ IF kind = "doc"
           THEN /\ push' = [push EXCEPT ![k] = [W!Quiet EXCEPT !.what = "sweep", !.stage = "read"]]
                /\ UNCHANGED listWaived
           ELSE /\ push' = [push EXCEPT ![k] = [W!Quiet EXCEPT !.what = "sweep", !.stage = "list",
                                                               !.items = W!Files, !.todo = W!Files]]
                /\ listWaived' = W!ListContested(k, W!Files)
  BY Zenon DEF W!SyncAll
<1>3. /\ push[k].stage = "none" /\ push[k].what = "none"
      /\ \A j \in Pushes \ {k} : push'[j] = push[j]
      /\ push'[k].what = "sweep"
      /\ kind = "doc" => push'[k].stage = "read"
      /\ kind # "doc" => push'[k].stage = "list" /\ push'[k].items = W!Files
  <2>1. push[k].stage = "none" /\ push[k].what = "none"
    BY <1>2 DEF W!Free, W!Quiet
  <2>2. CASE kind = "doc"
    <3>1. push' = [push EXCEPT ![k] = [W!Quiet EXCEPT !.what = "sweep", !.stage = "read"]]
      BY <1>2, <2>2
    <3> QED BY <1>0, <2>1, <2>2, <3>1 DEF W!Quiet, WebTypes
  <2>3. CASE kind # "doc"
    <3>1. push' = [push EXCEPT ![k] = [W!Quiet EXCEPT !.what = "sweep", !.stage = "list",
                                                      !.items = W!Files, !.todo = W!Files]]
      BY <1>2, <2>3
    <3> QED BY <1>0, <2>1, <2>3, <3>1 DEF W!Quiet, WebTypes
  <2> QED BY <2>2, <2>3
<1>4. OneDoc' /\ FilesFollowed'
  BY <1>1, <1>3, FilesStay
<1>5. ListFollowed'
  BY <1>0, <1>1, <1>2, <1>3, SameFiles DEF ListFollowed, W!ListContested
<1>6. OutboundCounts'
  BY <1>0, <1>1, <1>3, CountRaised
<1> QED BY <1>4, <1>5, <1>6

LEMMA SyncCurrentFileKeeps ==
  ASSUME WebInv, NEW p \in Paths, W!SyncCurrentFile(p)
  PROVE  OutboundCounts' /\ OneDoc' /\ FilesFollowed' /\ ListFollowed'
<1>0. WebTypes /\ OutboundCounts /\ ListFollowed
  BY DEF WebInv
<1>1. UNCHANGED <<kind, vault, web, list, timers, waived, listWaived>> /\ outbound' = outbound + 1
  BY DEF W!SyncCurrentFile, W!server, W!BeginOutbound
<1>2. PICK k \in Pushes :
        /\ W!Free(k)
        /\ push' = [push EXCEPT ![k] = [W!Quiet EXCEPT !.what = "sweep", !.stage = "read",
                                                       !.path = p, !.file = p]]
  BY Zenon DEF W!SyncCurrentFile
<1>3. /\ push[k].stage = "none" /\ push[k].what = "none"
      /\ \A j \in Pushes \ {k} : push'[j] = push[j]
      /\ push'[k].what = "sweep" /\ push'[k].stage = "read"
  BY <1>0, <1>2 DEF W!Free, W!Quiet, WebTypes
<1>4. OneDoc' /\ FilesFollowed'
  BY <1>1, <1>3, FilesStay
<1>5. ListFollowed'
  BY <1>0, <1>1, <1>3, SameFiles DEF ListFollowed
<1>6. OutboundCounts'
  BY <1>0, <1>1, <1>3, CountRaised
<1> QED BY <1>4, <1>5, <1>6

LEMMA QuietStepsKeep ==
  ASSUME WebInv, UNCHANGED <<kind, vault, web, list, timers, push, outbound, waived, listWaived>>
  PROVE  OutboundCounts' /\ OneDoc' /\ FilesFollowed' /\ ListFollowed'
<1>1. OneDoc' /\ FilesFollowed'
  BY FilesStay
<1>2. ListFollowed'
  BY SameFiles DEF WebInv, ListFollowed
<1> QED BY <1>1, <1>2, CountKept DEF WebInv

\* What was under way is forgotten, and the slots it was about are waived.
LEMMA RestartKeeps ==
  ASSUME WebInv, W!Restart
  PROVE  OutboundCounts' /\ OneDoc' /\ FilesFollowed' /\ ListFollowed'
<1>0. WebTypes /\ OutboundCounts /\ OneDoc /\ FilesFollowed /\ ListFollowed
  BY DEF WebInv
<1>1. /\ UNCHANGED <<kind, vault, web, list>> /\ outbound' = 0 /\ timers' = {}
      /\ listWaived' = (listWaived \/ \E k \in Pushes : push[k].stage = "list")
      /\ \A j \in Pushes : push'[j].stage = "none" /\ push'[j].what = "none"
      /\ waived \subseteq waived'
      /\ \A t \in timers : W!Slot(t[1]) \in waived'
      /\ \A k \in Pushes : push[k].what = "file" => W!Slot(push[k].path) \in waived'
  BY DEF W!Restart, W!server, W!Quiet
<1>2. W!Files' = W!Files /\ (\A x : W!Slot(x)' = W!Slot(x)) /\ OneDoc'
  BY <1>0, <1>1, SameFiles
<1>3. ListFollowed'
  BY <1>0, <1>1, <1>2 DEF ListFollowed
<1>4. OutboundCounts'
  <2>1. GuardedPushes' = {}
    BY <1>1 DEF GuardedPushes, W!Guarded
  <2> QED BY <1>1, <2>1, FS_EmptySet DEF OutboundCounts
<1>5. FilesFollowed'
  <2> SUFFICES ASSUME NEW q \in W!Files, W!Slot(q) \notin waived' PROVE Followed(q)'
    BY <1>2 DEF FilesFollowed
  <2>1. W!Slot(q) \notin waived /\ ~Due(W!Slot(q))
    BY <1>1 DEF Due
  <2>2. Followed(q)
    BY <1>0, <2>1 DEF FilesFollowed
  <2> QED BY <1>1, <1>2, <2>2 DEF Followed, W!Sending
<1> QED BY <1>2, <1>3, <1>4, <1>5

LEMMA TimerFiresKeeps ==
  ASSUME WebInv, NEW p \in Paths, NEW i \in 0..MaxInfo, W!TimerFires(p, i)
  PROVE  OutboundCounts' /\ OneDoc' /\ FilesFollowed' /\ ListFollowed'
<1>0. WebTypes /\ OutboundCounts /\ OneDoc /\ FilesFollowed /\ ListFollowed
  BY DEF WebInv
<1>1. UNCHANGED <<kind, vault, web, list, listWaived>> /\ timers' = timers \ {<<p, i>>}
  BY DEF W!TimerFires, W!server
<1>2. W!Files' = W!Files /\ (\A x : W!Slot(x)' = W!Slot(x)) /\ OneDoc'
  BY <1>0, <1>1, SameFiles
<1>3. \/ push' = push /\ outbound' = outbound /\ waived' = waived \cup {W!Slot(p)}
      \/ /\ outbound' = outbound + 1 /\ waived' = waived
         /\ \E k \in Pushes :
              /\ push[k].stage = "none" /\ push[k].what = "none"
              /\ \A j \in Pushes \ {k} : push'[j] = push[j]
              /\ push'[k].what = "file" /\ push'[k].stage = "read"
              /\ push'[k].path = p /\ push'[k].file = p
  <2>1. CASE push' = push /\ outbound' = outbound
    <3>1. W!Waive(p) \/ W!BeginOutbound
      BY Zenon DEF W!TimerFires
    <3> QED BY <1>0, <2>1, <3>1 DEF W!Waive, W!BeginOutbound, WebTypes
  <2>2. CASE ~(push' = push /\ outbound' = outbound)
    <3>1. /\ outbound' = outbound + 1 /\ waived' = waived
          /\ \E info : \E k \in Pushes : W!Free(k) /\ push' = [push EXCEPT ![k] = W!FilePush(p, info)]
      BY <2>2, Zenon DEF W!TimerFires, W!BeginOutbound
    <3>2. PICK info : \E k \in Pushes : W!Free(k) /\ push' = [push EXCEPT ![k] = W!FilePush(p, info)]
      BY <3>1
    <3>3. PICK k \in Pushes : W!Free(k) /\ push' = [push EXCEPT ![k] = W!FilePush(p, info)]
      BY <3>2
    <3>4. /\ push[k].stage = "none" /\ push[k].what = "none"
          /\ \A j \in Pushes \ {k} : push'[j] = push[j]
          /\ push'[k].what = "file" /\ push'[k].stage = "read"
          /\ push'[k].path = p /\ push'[k].file = p
      BY <1>0, <3>3 DEF W!Free, W!FilePush, W!Quiet, WebTypes
    <3> QED BY <3>1, <3>4
  <2> QED BY <2>1, <2>2
<1>4. ListFollowed'
  BY <1>0, <1>1, <1>2, <1>3 DEF ListFollowed
<1>5. OutboundCounts'
  <2>1. CASE push' = push /\ outbound' = outbound
    BY <1>0, <2>1, CountKept
  <2>2. CASE ~(push' = push /\ outbound' = outbound)
    BY <1>0, <1>3, <2>2, CountRaised
  <2> QED BY <2>1, <2>2
<1>6. FilesFollowed'
  <2> SUFFICES ASSUME NEW q \in W!Files, W!Slot(q) \notin waived'
               PROVE  Due(W!Slot(q))' \/ Followed(q)'
    BY <1>2 DEF FilesFollowed
  <2>0. W!Slot(q) \notin waived /\ W!Slot(q)' = W!Slot(q)
    BY <1>2, <1>3
  <2>1. CASE W!Slot(p) = W!Slot(q)
    BY <1>2, <1>3, <2>1, <2>0 DEF Due
  <2>2. CASE W!Slot(p) # W!Slot(q) /\ Due(W!Slot(q))
    <3>1. CASE \E t \in timers : W!Slot(t[1]) = W!Slot(q)
      BY <1>1, <1>2, <2>2, <3>1 DEF Due
    <3>2. CASE ~\E t \in timers : W!Slot(t[1]) = W!Slot(q)
      BY <1>2, <1>3, <2>2, <3>2 DEF Due
    <3> QED BY <3>1, <3>2
  <2>3. CASE Followed(q)
    BY <1>1, <1>2, <1>3, <2>0, <2>3 DEF Followed, W!Sending
  <2> QED BY <1>0, <2>0, <2>1, <2>2, <2>3 DEF FilesFollowed
<1> QED BY <1>2, <1>4, <1>5, <1>6

\* onFileModified: the new text is due, by a call or a push, or its slot is waived.
LEMMA EditKeeps ==
  ASSUME WebInv, NEW p \in Paths, W!Edit(p)
  PROVE  OutboundCounts' /\ OneDoc' /\ FilesFollowed' /\ ListFollowed'
<1>0. WebTypes /\ OutboundCounts /\ OneDoc /\ FilesFollowed /\ ListFollowed
  BY DEF WebInv
<1>1. /\ UNCHANGED <<kind, web, list, listWaived>> /\ p \in W!Files
      /\ vault' = [vault EXCEPT ![p] = made + 1]
  BY DEF W!Edit, W!server
<1>2. W!Files' = W!Files /\ (\A x : W!Slot(x)' = W!Slot(x))
  BY <1>0, <1>1, Given DEF W!Files, W!Slot, WebTypes
<1>3. OneDoc'
  BY <1>0, <1>1, <1>2 DEF OneDoc
<1>4. \/ /\ UNCHANGED <<push, outbound>> /\ timers \subseteq timers'
         /\ \/ waived' = waived \cup {W!Slot(p)}
            \/ waived' = waived \ {W!Slot(p)} /\ \E t \in timers' : t[1] = p
      \/ /\ outbound' = outbound + 1 /\ timers' = timers /\ waived' = waived \ {W!Slot(p)}
         /\ \E k \in Pushes :
              /\ push[k].stage = "none" /\ push[k].what = "none"
              /\ \A j \in Pushes \ {k} : push'[j] = push[j]
              /\ push'[k].what = "file" /\ push'[k].stage = "read"
              /\ push'[k].path = p /\ push'[k].file = p
  <2>1. CASE W!ShareInfo(p) = 0
    BY <2>1 DEF W!Edit, W!Waive
  <2>2. CASE W!ShareInfo(p) # 0 /\ W!Debounced(p)
    <3>1. timers' = timers \cup {<<p, closure'[p]>>} /\ UNCHANGED <<push, outbound>>
      BY <2>2 DEF W!Debounced
    <3>2. waived' = waived \ {W!Slot(p)}
      BY <2>2 DEF W!Edit
    <3>3. <<p, closure'[p]>> \in timers' /\ <<p, closure'[p]>>[1] = p
      BY <3>1
    <3> QED BY <3>1, <3>2, <3>3
  <2>3. CASE W!ShareInfo(p) # 0 /\ W!PushedAtOnce(p)
    <3>1. outbound' = outbound + 1 /\ timers' = timers /\ waived' = waived \ {W!Slot(p)}
      BY <2>3 DEF W!Edit, W!PushedAtOnce, W!BeginOutbound
    <3>2. PICK k \in Pushes : W!Free(k) /\ push' = [push EXCEPT ![k] = W!FilePush(p, reg[Folder])]
      BY <2>3, Zenon DEF W!PushedAtOnce
    <3>3. /\ push[k].stage = "none" /\ push[k].what = "none"
          /\ \A j \in Pushes \ {k} : push'[j] = push[j]
          /\ push'[k].what = "file" /\ push'[k].stage = "read"
          /\ push'[k].path = p /\ push'[k].file = p
      BY <1>0, <3>2 DEF W!Free, W!FilePush, W!Quiet, WebTypes
    <3> QED BY <3>1, <3>3
  <2> QED BY <2>1, <2>2, <2>3 DEF W!Edit
<1>5. ListFollowed'
  BY <1>0, <1>1, <1>2, <1>4 DEF ListFollowed
<1>6. OutboundCounts'
  <2>1. CASE UNCHANGED <<push, outbound>>
    BY <1>0, <2>1, CountKept
  <2>2. CASE ~UNCHANGED <<push, outbound>>
    BY <1>0, <1>4, <2>2, CountRaised
  <2> QED BY <2>1, <2>2
<1>7. FilesFollowed'
  <2> SUFFICES ASSUME NEW q \in W!Files, W!Slot(q) \notin waived'
               PROVE  Due(W!Slot(q))' \/ Followed(q)'
    BY <1>2 DEF FilesFollowed
  <2>1. W!Slot(q)' = W!Slot(q) /\ q \in Paths /\ p \in Paths
    BY <1>2 DEF W!Files
  <2>2. CASE W!Slot(p) = W!Slot(q)
    BY <1>2, <1>4, <2>1, <2>2 DEF Due
  <2>3. CASE W!Slot(p) # W!Slot(q)
    <3>1. W!Slot(q) \notin waived /\ vault'[q] = vault[q]
      BY <1>0, <1>1, <1>4, <2>1, <2>3 DEF WebTypes
    <3>2. CASE Due(W!Slot(q))
      BY <1>2, <1>4, <3>2 DEF Due
    <3>3. CASE Followed(q)
      BY <1>1, <1>2, <1>4, <2>1, <3>1, <3>3 DEF Followed, W!Sending
    <3> QED BY <1>0, <3>1, <3>2, <3>3 DEF FilesFollowed
  <2> QED BY <2>2, <2>3
<1> QED BY <1>3, <1>5, <1>6, <1>7

\* The list is pushed with what it is after the step, or given up.
LEMMA ListPushEffect ==
  ASSUME WebTypes, NEW inFlight \in [Pushes -> PushStates], W!ListPush(inFlight), kind' = kind,
         \A j \in Pushes : /\ inFlight[j].what = push[j].what /\ inFlight[j].stage = push[j].stage
                           /\ inFlight[j].items = push[j].items
  PROVE  /\ \/ push' = inFlight
            \/ \E k \in Pushes : /\ push[k] = W!Quiet /\ push'[k].what = "list" /\ push'[k].stage = "list"
                                 /\ \A j \in Pushes \ {k} : push'[j] = inFlight[j]
         /\ \A j \in Pushes : push'[j].what \in {"file", "sweep"} <=> push[j].what \in {"file", "sweep"}
         /\ ListFollowed'
<1>1. CASE kind = "folder" /\ reg[Folder] # 0
  <2>1. PICK k \in Pushes :
          /\ W!Free(k)
          /\ LET items == {p \in Paths : vault'[p] # None}
             IN /\ push' = [inFlight EXCEPT ![k] = [W!Quiet EXCEPT !.what = "list", !.stage = "list",
                                                                   !.items = items]]
                /\ listWaived' = W!ListContested(k, items)
    BY <1>1, Zenon DEF W!ListPush
  <2>2. W!Files' = {p \in Paths : vault'[p] # None}
    BY DEF W!Files
  <2>3. listWaived' = W!ListContested(k, W!Files')
    BY <2>1, <2>2, Zenon
  <2>4. /\ push[k] = W!Quiet /\ push[k].what = "none" /\ push'[k].what = "list"
        /\ push'[k].stage = "list" /\ push'[k].items = W!Files'
        /\ \A j \in Pushes \ {k} : push'[j] = inFlight[j]
    BY <2>1, <2>2 DEF W!Free, W!Quiet
  <2>5. ListFollowed'
    BY <2>3, <2>4 DEF ListFollowed, W!ListContested
  <2> QED BY <2>4, <2>5
<1>2. CASE ~(kind = "folder" /\ reg[Folder] # 0)
  <2>1. push' = inFlight /\ listWaived' = (kind = "folder" \/ listWaived)
    BY <1>2 DEF W!ListPush
  <2> QED BY <2>1 DEF ListFollowed
<1> QED BY <1>1, <1>2

\* onFileCreated: its content is waived.
LEMMA CreateKeeps ==
  ASSUME WebInv, NEW p \in Paths, W!Create(p)
  PROVE  OutboundCounts' /\ OneDoc' /\ FilesFollowed' /\ ListFollowed'
<1>0. WebTypes /\ OutboundCounts /\ OneDoc /\ FilesFollowed
  BY DEF WebInv
<1>1. /\ UNCHANGED <<kind, web, timers, outbound>> /\ kind = "folder"
      /\ vault' = [vault EXCEPT ![p] = made + 1] /\ waived' = waived \cup {W!Slot(p)}
      /\ W!ListPush(push)
  BY DEF W!Create, W!server, W!Waive
<1>2. /\ \/ push' = push
         \/ \E k \in Pushes : /\ push[k] = W!Quiet /\ push'[k].what = "list" /\ push'[k].stage = "list"
                              /\ \A j \in Pushes \ {k} : push'[j] = push[j]
      /\ \A j \in Pushes : push'[j].what \in {"file", "sweep"} <=> push[j].what \in {"file", "sweep"}
      /\ ListFollowed'
  BY <1>0, <1>1, ListPushEffect DEF WebTypes
<1>3. OutboundCounts'
  BY <1>0, <1>1, <1>2, CountKept
<1>4. OneDoc'
  BY <1>1 DEF OneDoc
<1>5. FilesFollowed'
  <2> SUFFICES ASSUME NEW q \in W!Files', W!Slot(q)' \notin waived'
               PROVE  Due(W!Slot(q))' \/ Followed(q)'
    BY DEF FilesFollowed
  <2>1. \A x : W!Slot(x)' = W!Slot(x)
    BY <1>1 DEF W!Slot
  <2>2. q \in Paths /\ q # p /\ vault'[q] = vault[q] /\ q \in W!Files /\ W!Slot(q) \notin waived
    BY <1>0, <1>1, <2>1 DEF W!Files, WebTypes
  <2>3. CASE Due(W!Slot(q))
    BY <1>1, <1>2, <2>1, <2>3 DEF Due, W!Quiet
  <2>4. CASE Followed(q)
    BY <1>1, <1>2, <2>1, <2>2, <2>4 DEF Followed, W!Sending, W!Quiet
  <2> QED BY <1>0, <2>2, <2>3, <2>4 DEF FilesFollowed
<1> QED BY <1>2, <1>3, <1>4, <1>5

LEMMA DeleteKeeps ==
  ASSUME WebInv, NEW p \in Paths, W!Delete(p)
  PROVE  OutboundCounts' /\ OneDoc' /\ FilesFollowed' /\ ListFollowed'
<1>0. WebTypes /\ OutboundCounts /\ OneDoc /\ FilesFollowed
  BY DEF WebInv
<1>1. /\ UNCHANGED <<kind, web, timers, outbound, waived>>
      /\ vault' = [vault EXCEPT ![p] = None] /\ W!ListPush(push)
  BY DEF W!Delete, W!server
<1>2. /\ \/ push' = push
         \/ \E k \in Pushes : /\ push[k] = W!Quiet /\ push'[k].what = "list" /\ push'[k].stage = "list"
                              /\ \A j \in Pushes \ {k} : push'[j] = push[j]
      /\ \A j \in Pushes : push'[j].what \in {"file", "sweep"} <=> push[j].what \in {"file", "sweep"}
      /\ ListFollowed'
  BY <1>0, <1>1, ListPushEffect DEF WebTypes
<1>3. OutboundCounts'
  BY <1>0, <1>1, <1>2, CountKept
<1>4. W!Files' \subseteq W!Files /\ \A q \in W!Files' : q \in Paths /\ vault'[q] = vault[q]
  BY <1>0, <1>1 DEF W!Files, WebTypes
<1>5. OneDoc'
  BY <1>0, <1>1, <1>4 DEF OneDoc
<1>6. FilesFollowed'
  <2> SUFFICES ASSUME NEW q \in W!Files', W!Slot(q)' \notin waived'
               PROVE  Due(W!Slot(q))' \/ Followed(q)'
    BY DEF FilesFollowed
  <2>1. \A x : W!Slot(x)' = W!Slot(x)
    BY <1>1 DEF W!Slot
  <2>2. q \in W!Files /\ vault'[q] = vault[q] /\ W!Slot(q) \notin waived
    BY <1>1, <1>4, <2>1
  <2>3. CASE Due(W!Slot(q))
    BY <1>1, <1>2, <2>1, <2>3 DEF Due, W!Quiet
  <2>4. CASE Followed(q)
    BY <1>1, <1>2, <2>1, <2>2, <2>4 DEF Followed, W!Sending, W!Quiet
  <2> QED BY <1>0, <2>2, <2>3, <2>4 DEF FilesFollowed
<1> QED BY <1>2, <1>3, <1>5, <1>6

\* onFileRenamed: the reads follow the file.
LEMMA RenameKeeps ==
  ASSUME WebInv, NEW p \in Paths, NEW q \in Paths, W!Rename(p, q)
  PROVE  OutboundCounts' /\ OneDoc' /\ FilesFollowed' /\ ListFollowed'
<1> DEFINE inFlight == [k \in Pushes |-> IF push[k].stage = "read" /\ push[k].file = p
                                          THEN [push[k] EXCEPT !.file = q] ELSE push[k]]
<1>0. WebTypes /\ OutboundCounts /\ OneDoc /\ FilesFollowed
  BY DEF WebInv
<1>1. /\ UNCHANGED <<kind, web, timers, outbound>> /\ p \in W!Files /\ q \notin W!Files
      /\ vault' = [vault EXCEPT ![p] = None, ![q] = vault[p]] /\ W!ListPush(inFlight)
      /\ waived' = IF kind = "folder" /\ ~(W!AtRest(q) /\ web[q] = vault[p])
                   THEN waived \cup {q} ELSE waived
  BY DEF W!Rename, W!Moved, W!server
<1>2. inFlight \in [Pushes -> PushStates]
  BY <1>0 DEF WebTypes, PushStates
<1>3. \A j \in Pushes :
        /\ inFlight[j].what = push[j].what /\ inFlight[j].stage = push[j].stage
        /\ inFlight[j].items = push[j].items /\ inFlight[j].path = push[j].path
        /\ inFlight[j].text = push[j].text
        /\ inFlight[j].file = IF push[j].stage = "read" /\ push[j].file = p THEN q ELSE push[j].file
  BY <1>0 DEF WebTypes, PushStates
<1> HIDE DEF inFlight
<1>4. /\ \/ push' = inFlight
         \/ \E k \in Pushes : /\ push[k] = W!Quiet /\ push'[k].what = "list" /\ push'[k].stage = "list"
                              /\ \A j \in Pushes \ {k} : push'[j] = inFlight[j]
      /\ \A j \in Pushes : push'[j].what \in {"file", "sweep"} <=> push[j].what \in {"file", "sweep"}
      /\ ListFollowed'
  BY <1>0, <1>1, <1>2, <1>3, ListPushEffect
<1>5. \A j \in Pushes :
        push[j].stage \in {"read", "send", "wait"} \/ push'[j].stage \in {"read", "send", "wait"} =>
          /\ push'[j].what = push[j].what /\ push'[j].stage = push[j].stage
          /\ push'[j].path = push[j].path /\ push'[j].text = push[j].text
          /\ push'[j].file = IF push[j].stage = "read" /\ push[j].file = p THEN q ELSE push[j].file
  BY <1>3, <1>4 DEF W!Quiet
<1>6. OutboundCounts'
  BY <1>0, <1>1, <1>4, CountKept
<1>7. /\ p \in Paths /\ p # q /\ vault'[p] = None /\ vault'[q] = vault[p] /\ vault[p] # None
      /\ \A x \in Paths \ {p, q} : vault'[x] = vault[x]
  BY <1>0, <1>1 DEF W!Files, WebTypes
<1>8. W!Files' = (W!Files \ {p}) \cup {q}
  BY <1>1, <1>7 DEF W!Files
<1>9. OneDoc'
  BY <1>0, <1>1, <1>8 DEF OneDoc
<1>10. FilesFollowed'
  <2> SUFFICES ASSUME NEW f \in W!Files', W!Slot(f)' \notin waived'
               PROVE  Due(W!Slot(f))' \/ Followed(f)'
    BY DEF FilesFollowed
  <2>1. \A x : W!Slot(x)' = W!Slot(x)
    BY <1>1 DEF W!Slot
  <2>2. CASE kind = "folder" /\ f = q
    <3>1. W!AtRest(q) /\ web[q] = vault[p] /\ \A x : W!Slot(x) = x /\ W!Slot(x)' = x
      BY <1>1, <2>1, <2>2 DEF W!Slot
    <3>2. \A j \in Pushes : push'[j].stage \in {"send", "wait"} => push'[j].path # q
      BY <1>5, <3>1 DEF W!AtRest
    <3> QED BY <1>1, <1>7, <2>2, <3>1, <3>2 DEF Followed, W!Sending
  <2>3. CASE kind = "folder" /\ f # q
    <3>1. f \in W!Files /\ vault'[f] = vault[f] /\ f \notin waived /\ f # p /\ \A x : W!Slot(x) = x /\ W!Slot(x)' = x
      BY <1>1, <1>7, <1>8, <2>1, <2>3 DEF W!Slot, W!Files
    <3>2. CASE Due(f)
      BY <1>1, <1>5, <3>1, <3>2 DEF Due
    <3>3. CASE Followed(f)
      BY <1>1, <1>5, <3>1, <3>3 DEF Followed, W!Sending
    <3> QED BY <1>0, <3>1, <3>2, <3>3 DEF FilesFollowed
  <2>4. CASE kind = "doc"
    <3>1. f = q /\ vault'[f] = vault[p] /\ waived' = waived /\ \A x : W!Slot(x) = Home /\ W!Slot(x)' = Home
      BY <1>0, <1>1, <1>7, <1>8, <2>1, <2>4 DEF W!Slot, OneDoc
    <3>2. CASE Due(Home)
      BY <1>1, <1>5, <3>1, <3>2 DEF Due
    <3>3. CASE Followed(p)
      BY <1>1, <1>5, <3>1, <3>3 DEF Followed, W!Sending
    <3> QED BY <1>0, <1>1, <3>1, <3>2, <3>3 DEF FilesFollowed
  <2> QED BY <1>0, <2>2, <2>3, <2>4 DEF WebTypes
<1> QED BY <1>4, <1>6, <1>9, <1>10

LEMMA WebInvKept == ASSUME WebInv, [W!Next]_(W!vars) PROVE WebInv'
<1>1. WebTypes'
  BY WebTypesKept DEF WebInv
<1>2. OutboundCounts' /\ OneDoc' /\ FilesFollowed' /\ ListFollowed'
  <2>1. ASSUME NEW k \in Pushes, W!Pushed(k)
        PROVE  OutboundCounts' /\ OneDoc' /\ FilesFollowed' /\ ListFollowed'
    <3>1. push[k].stage = "send" /\ W!Arrives(k) /\ W!Ends(k)
          /\ UNCHANGED <<kind, vault, timers, waived, listWaived>>
      BY <2>1 DEF W!Pushed
    <3> QED BY <3>1, ArrivalKeeps
  <2>2. ASSUME NEW i \in recent, W!IntervalElapses(i)
        PROVE  OutboundCounts' /\ OneDoc' /\ FilesFollowed' /\ ListFollowed'
    BY <2>2, QuietStepsKeep DEF W!IntervalElapses, W!server
  <2>3. CASE W!Register
    BY <2>3, QuietStepsKeep DEF W!Register, W!server
  <2>4. CASE W!Unregister
    BY <2>4, QuietStepsKeep DEF W!Unregister, W!server
  <2>5. CASE UNCHANGED W!vars
    BY <2>5, QuietStepsKeep DEF W!vars, W!server, W!manager
  <2> QED
    BY <2>1, <2>2, <2>3, <2>4, <2>5, EditKeeps, CreateKeeps, DeleteKeeps, SyncCurrentFileKeeps,
       RenameKeeps, TimerFiresKeeps, ReadsKeeps, PushFailsKeeps, TooManyKeeps, ListPushedKeeps,
       ListFailsKeeps, SyncAllKeeps, RestartKeeps DEF W!Next
<1> QED BY <1>1, <1>2 DEF WebInv

LEMMA WebInvInit == ASSUME W!Init PROVE WebInv
<1>1. PICK there \in {{Home}, Paths} :
        /\ vault = [p \in Paths |-> IF p \in there THEN 1 ELSE None]
        /\ list = (IF kind = "doc" THEN {} ELSE there)
        /\ kind = "doc" => there = {Home}
  BY DEF W!Init
<1>2. /\ kind \in {"doc", "folder"} /\ web = vault /\ timers = {} /\ waived = {} /\ listWaived = FALSE
      /\ push = [k \in Pushes |-> W!Quiet] /\ outbound = 0
  BY DEF W!Init
<1>3. WebTypes
  <2>1. vault \in [Paths -> Contents] /\ list \in SUBSET Paths
    BY <1>1, Given DEF Contents
  <2>2. push \in [Pushes -> PushStates]
    BY <1>2, QuietIsAPush
  <2>3. /\ reg \in [Paths \cup {Folder} -> Nat] /\ recent = {} /\ closure \in [Paths -> Nat]
        /\ made \in Nat /\ infos \in Nat /\ events \in Nat
    BY DEF W!Init
  <2> QED BY <1>2, <2>1, <2>2, <2>3 DEF WebTypes
<1>4. W!Files = there
  BY <1>1, Given DEF W!Files
<1>5. GuardedPushes = {}
  BY <1>2 DEF GuardedPushes, W!Guarded, W!Quiet
<1>6. \A k \in Pushes : push[k].stage = "none"
  BY <1>2 DEF W!Quiet
<1>7. FilesFollowed
  <2> SUFFICES ASSUME NEW p \in W!Files PROVE Followed(p)
    BY DEF FilesFollowed
  <2>1. p \in Paths /\ (kind = "doc" => p = Home)
    BY <1>1, <1>4 DEF W!Files
  <2>2. W!Slot(p) = p
    BY <2>1 DEF W!Slot
  <2> QED BY <1>2, <1>6, <2>2 DEF Followed, W!Sending
<1> QED BY <1>1, <1>2, <1>3, <1>4, <1>5, <1>6, <1>7, FS_EmptySet
      DEF WebInv, OutboundCounts, OneDoc, ListFollowed

-----------------------------------------------------------------------------
(* The published share as one part of MCShare.                              *)

PublishedInv == part = "web" => WebInv

LEMMA PublishedInvHolds == MCSpec => []PublishedInv
<1>1. MCInit => PublishedInv
  BY WebInvInit DEF MCInit, PublishedInv
<1>2. PublishedInv /\ [MCNext]_<<vars, part, adopted, published>> => PublishedInv'
  <2> SUFFICES ASSUME PublishedInv, [MCNext]_<<vars, part, adopted, published>>, part' = "web"
               PROVE  WebInv'
    BY DEF PublishedInv
  <2>1. part = "web"
    BY DEF MCNext
  <2>2. W!Next \/ UNCHANGED W!vars
    BY <2>1 DEF MCNext, published, W!vars, W!server, W!manager
  <2> QED BY <2>1, <2>2, WebInvKept DEF PublishedInv
<1> QED BY <1>1, <1>2, PTL DEF MCSpec

(***************************************************************************)
(* For any paths, contents and number of pushes in flight, the published   *)
(* share shows the vault whenever nothing is under way for a file, and the *)
(* folder's list is the vault's, except for what is waived.                *)
(***************************************************************************)
THEOREM PublishedIsTheVault == MCSpec => []WebFollowsTheVault
<1>1. PublishedInv => WebFollowsTheVault
  <2> SUFFICES ASSUME part = "web", WebInv PROVE W!WebFollowsTheVault
    BY DEF PublishedInv, WebFollowsTheVault
  <2>1. ASSUME NEW p \in W!Files, W!AtRest(W!Slot(p)), W!Slot(p) \notin waived
        PROVE  web[W!Slot(p)] = vault[p]
    <3>1. ~Due(W!Slot(p))
      BY <2>1 DEF W!AtRest, Due
    <3>2. Followed(p)
      BY <2>1, <3>1 DEF WebInv, FilesFollowed
    <3> QED BY <2>1, <3>2 DEF Followed, W!AtRest, W!Sending
  <2> QED BY <2>1 DEF WebInv, ListFollowed, W!WebFollowsTheVault
<1> QED BY <1>1, PublishedInvHolds, PTL

(***************************************************************************)
(* For any number of pushes in flight the echo guard is up exactly while   *)
(* one of contents is, however they overlap: its count is their number.    *)
(***************************************************************************)
THEOREM EchoGuardIsExact == MCSpec => []OutboundExact
<1>1. PublishedInv => OutboundExact
  <2> SUFFICES ASSUME part = "web", WebInv PROVE W!OutboundExact
    BY DEF PublishedInv, OutboundExact
  <2>1. outbound = Cardinality(GuardedPushes) /\ IsFiniteSet(GuardedPushes)
    BY Given, FS_Subset DEF WebInv, OutboundCounts, GuardedPushes
  <2>2. outbound \in Nat /\ (outbound = 0 <=> GuardedPushes = {})
    BY <2>1, FS_EmptySet, FS_CardinalityType
  <2> QED BY <2>2 DEF GuardedPushes, W!OutboundExact
<1> QED BY <1>1, PublishedInvHolds, PTL

-----------------------------------------------------------------------------
(* The invariant of an attachment.                                          *)

BlobTypes ==
  /\ disk \in [Clients -> Maybe(File)]
  /\ record \in [Clients -> Maybe(Record)] /\ relay \in Maybe(Record)
  /\ blobs \in [Bytes -> Maybe(Bytes)]
  /\ wrapper \in [Clients -> Maybe(Wrapper)]
  /\ modified \in SUBSET Clients
  /\ flow \in [Clients -> [Slots -> Maybe(Flows)]]
  /\ edits \in Nat \ {0} /\ faults \in Nat /\ clock \in Nat

\* A flow has what its stage goes on with.
StageOK(c, f) ==
  /\ f.at # "fetching" => disk[c] # None
  /\ f.at = "fetching" => f.want # None
  /\ f.at = "checking" => record[c] # None /\ wrapper[c] # None /\ wrapper[c].meta # None

Stages == \A c \in Clients : \A s \in Slots : flow[c][s] # None => StageOK(c, flow[c][s])

Kept(h) == blobs[h] = h

\* What a push has read is still what the file is, and what it notes is on the server.
PushOK(c, f) ==
  /\ f.at \in {"naming", "putting"} => f.bytes = disk[c].bytes
  /\ f.at = "putting" => f.hash = disk[c].bytes
  /\ f.at = "noting" => Kept(disk[c].bytes)

Unraced == ~Lost({"put refused", "changed during a push"})

PushesKeep ==
  Unraced => /\ \A c \in Clients : \A s \in Slots : flow[c][s] # None => PushOK(c, flow[c][s])
             /\ \A c \in Clients : record[c] # None => Kept(record[c].hash)
             /\ relay # None => Kept(relay.hash)

BlobInv ==
  /\ BlobTypes /\ Stages /\ PushesKeep
  /\ \A c \in modified : disk[c] # None

LEMMA Nones == /\ None \notin Nat /\ None \notin File /\ None \notin Record /\ None \notin SyncMeta
               /\ None \notin Wrapper /\ None \notin Flows /\ None # Garbage
               /\ None \notin Bytes /\ MaxEvents \in Nat
BY AttachmentAssumption, NoneAssumption DEF Bytes

Ats == {"hashing", "naming", "putting", "noting", "comparing", "checking", "fetching"}

LEMMA FlowTypes ==
  ASSUME NEW at \in Ats
  PROVE  /\ Flow(at) \in Flows /\ Flow(at) # None /\ Flow(at).at = at
         /\ \A h \in Bytes : /\ [Flow(at) EXCEPT !.want = h] \in Flows
                             /\ [Flow(at) EXCEPT !.bytes = h] \in Flows
         /\ \A m \in Maybe(SyncMeta) : [Flow(at) EXCEPT !.meta = m] \in Flows
<1>1. Flow(at) \in Flows
  BY DEF Flow, Flows, Maybe, Ats
<1>2. \A h \in Bytes : [Flow(at) EXCEPT !.want = h] \in Flows /\ [Flow(at) EXCEPT !.bytes = h] \in Flows
  BY DEF Flow, Flows, Maybe, Ats
<1>3. \A m \in Maybe(SyncMeta) : [Flow(at) EXCEPT !.meta = m] \in Flows
  BY DEF Flow, Flows, Maybe, Ats
<1> QED BY <1>1, <1>2, <1>3, Nones DEF Flow

LEMMA MetaType == ASSUME NEW r \in Maybe(Record)
  PROVE Meta(r) \in Maybe(SyncMeta) /\ (r # None => Meta(r) # None) /\ (r # None => Meta(r).hash = r.hash)
BY Nones DEF Meta, Maybe, Record, SyncMeta

\* What the operators that start or continue a flow return.
GoodStart(c, f) ==
  \/ f = None
  \/ /\ f \in Flows /\ f # None /\ f.at \in {"hashing", "comparing", "checking", "fetching"}
     /\ f.at # "fetching" => disk[c] # None
     /\ f.at = "fetching" => f.want # None
     /\ f.at = "checking" => record[c] # None

LEMMA StartsAreGood ==
  ASSUME BlobTypes, NEW c \in Clients
  PROVE  /\ disk[c] # None => GoodStart(c, Pushing(c))
         /\ GoodStart(c, Pulling(c)) /\ GoodStart(c, Syncing(c))
         /\ disk[c] # None => GoodStart(c, Taken(c))
<1>1. disk[c] # None => GoodStart(c, Pushing(c))
  BY FlowTypes DEF GoodStart, Pushing, Ats
<1>2. GoodStart(c, Pulling(c))
  <2>1. CASE record[c] = None
    BY <2>1 DEF Pulling, GoodStart
  <2>2. CASE record[c] # None /\ disk[c] # None
    <3>1. Pulling(c) = Flow("checking")
      BY <2>2 DEF Pulling
    <3> QED BY <2>2, <3>1, FlowTypes DEF GoodStart, Ats
  <2>3. CASE record[c] # None /\ disk[c] = None
    <3>1. Pulling(c) = [Flow("fetching") EXCEPT !.want = record[c].hash]
      BY <2>3 DEF Pulling
    <3>2. record[c].hash \in Bytes
      BY <2>3 DEF BlobTypes, Maybe, Record
    <3>3. Pulling(c) \in Flows
      BY <3>1, <3>2, FlowTypes DEF Ats
    <3>4. Pulling(c).at = "fetching" /\ Pulling(c).want = record[c].hash
      BY <3>1 DEF Flow
    <3> QED BY <3>2, <3>3, <3>4, Nones DEF GoodStart
  <2> QED BY <2>1, <2>2, <2>3
<1>3. GoodStart(c, Syncing(c))
  <2>1. CASE disk[c] = None
    BY <1>2, <2>1 DEF Syncing
  <2>2. CASE disk[c] # None /\ record[c] = None
    BY <1>1, <2>2 DEF Syncing
  <2>3. CASE disk[c] # None /\ record[c] # None
    <3>1. Syncing(c) = [Flow("comparing") EXCEPT !.meta = Meta(record[c])]
      BY <2>3 DEF Syncing
    <3>2. Meta(record[c]) \in Maybe(SyncMeta)
      BY MetaType DEF BlobTypes
    <3>3. Syncing(c) \in Flows
      BY <3>1, <3>2, FlowTypes DEF Ats
    <3>4. Syncing(c).at = "comparing"
      BY <3>1 DEF Flow
    <3> QED BY <2>3, <3>3, <3>4, Nones DEF GoodStart
  <2> QED BY <2>1, <2>2, <2>3
<1>4. disk[c] # None => GoodStart(c, Taken(c))
  BY <1>1, <1>2 DEF Taken
<1> QED BY <1>1, <1>2, <1>3, <1>4

LEMMA OneFlow ==
  ASSUME BlobTypes, NEW c \in Clients, NEW s, NEW f \in Maybe(Flows), flow' = [flow EXCEPT ![c][s] = f]
  PROVE  /\ flow' \in [Clients -> [Slots -> Maybe(Flows)]]
         /\ \A d \in Clients : \A t \in Slots : (d = c /\ t = s) \/ flow'[d][t] = flow[d][t]
         /\ s \in Slots => flow'[c][s] = f
BY DEF BlobTypes

\* A flow that is not there yet, at a stage where it has read nothing but what it was given.
NewFlow(c, f) ==
  /\ f \in Flows
  /\ f.at \in {"hashing", "naming", "comparing", "checking", "fetching"}
  /\ f.at # "fetching" => disk[c] # None
  /\ f.at = "fetching" => f.want # None
  /\ f.at = "checking" => record[c] # None /\ wrapper'[c] = [meta |-> Meta(record[c])]
  /\ f.at = "naming" => f.bytes = disk[c].bytes

\* Steps that start, continue and end flows, and leave files and records alone.
LEMMA FlowsChange ==
  ASSUME BlobInv, UNCHANGED <<disk, record, relay, blobs, edits, clock>>, faults' \in Nat,
         modified' \in SUBSET modified, windows \subseteq windows',
         flow' \in [Clients -> [Slots -> Maybe(Flows)]],
         wrapper' \in [Clients -> Maybe(Wrapper)],
         \A c \in Clients : \A s \in Slots :
           flow'[c][s] = flow[c][s] \/ flow'[c][s] = None \/ NewFlow(c, flow'[c][s]),
         \A c \in Clients : \/ wrapper'[c] = wrapper[c] \/ wrapper'[c] = [meta |-> Meta(record[c])]
                            \/ \A s \in Slots : flow'[c][s] = None
  PROVE  BlobInv'
<1>1. BlobTypes'
  BY DEF BlobInv, BlobTypes
<1>2. Stages'
  <2> SUFFICES ASSUME NEW c \in Clients, NEW s \in Slots, flow'[c][s] # None
               PROVE  StageOK(c, flow[c][s])'
    BY DEF Stages
  <2>1. record[c] # None => /\ [meta |-> Meta(record[c])] # None
                            /\ [meta |-> Meta(record[c])].meta # None
    <3>1. Meta(record[c]) \in Maybe(SyncMeta) /\ (record[c] # None => Meta(record[c]) # None)
      BY MetaType DEF BlobInv, BlobTypes
    <3>2. [meta |-> Meta(record[c])] \in Wrapper
      BY <3>1 DEF Wrapper
    <3> QED BY <3>1, <3>2, Nones
  <2>2. CASE flow'[c][s] = flow[c][s]
    <3>1. StageOK(c, flow[c][s])
      BY <2>2 DEF BlobInv, Stages
    <3> QED BY <2>1, <2>2, <3>1 DEF StageOK
  <2>3. CASE NewFlow(c, flow'[c][s])
    BY <2>1, <2>3 DEF NewFlow, StageOK
  <2> QED BY <2>2, <2>3
<1>3. PushesKeep'
  <2> SUFFICES ASSUME Unraced' PROVE PushesKeep'
    BY DEF PushesKeep
  <2>1. Unraced
    BY DEF Unraced, Lost
  <2>2. ASSUME NEW c \in Clients, NEW s \in Slots, flow'[c][s] # None
        PROVE  PushOK(c, flow[c][s])'
    <3>1. CASE flow'[c][s] = flow[c][s]
      BY <2>1, <2>2, <3>1 DEF BlobInv, PushesKeep, PushOK, Kept
    <3>2. CASE NewFlow(c, flow'[c][s])
      BY <3>2 DEF NewFlow, PushOK
    <3> QED BY <2>2, <3>1, <3>2
  <2> QED BY <2>1, <2>2 DEF BlobInv, PushesKeep, Kept
<1> QED BY <1>1, <1>2, <1>3 DEF BlobInv

LEMMA RefreshedWrapper ==
  ASSUME BlobTypes, NEW c \in Clients, Refreshed(c)
  PROVE  /\ wrapper' \in [Clients -> Maybe(Wrapper)]
         /\ wrapper'[c] = [meta |-> Meta(record[c])]
         /\ \A d \in Clients \ {c} : wrapper'[d] = wrapper[d]
<1>1. [meta |-> Meta(record[c])] \in Maybe(Wrapper)
  BY MetaType DEF BlobTypes, Wrapper, Maybe
<1> QED BY <1>1 DEF Refreshed, BlobTypes

\* What starts a flow.
LEMMA StartsKeeps ==
  ASSUME BlobInv, NEW c \in Clients, NEW f, GoodStart(c, f), Starts(c, f),
         UNCHANGED <<disk, record, relay, blobs, edits, clock, windows>>, faults' \in Nat,
         modified' \in SUBSET modified
  PROVE  BlobInv'
<1>0. BlobTypes
  BY DEF BlobInv
<1>1. f \in Maybe(Flows)
  BY DEF GoodStart, Maybe
<1>2. flow' = [flow EXCEPT ![c][Slot(c)] = f] /\ Refreshed(c)
  BY DEF Starts
<1>3. /\ flow' \in [Clients -> [Slots -> Maybe(Flows)]]
      /\ \A d \in Clients : \A t \in Slots : (d = c /\ t = Slot(c)) \/ flow'[d][t] = flow[d][t]
      /\ Slot(c) \in Slots => flow'[c][Slot(c)] = f
  BY <1>0, <1>1, <1>2, OneFlow
<1>4. /\ wrapper' \in [Clients -> Maybe(Wrapper)]
      /\ wrapper'[c] = [meta |-> Meta(record[c])]
      /\ \A d \in Clients \ {c} : wrapper'[d] = wrapper[d]
  BY <1>0, <1>2, RefreshedWrapper
<1>5. f = None \/ NewFlow(c, f)
  BY <1>4 DEF GoodStart, NewFlow
<1>6. \A d \in Clients : \A t \in Slots :
        flow'[d][t] = flow[d][t] \/ flow'[d][t] = None \/ NewFlow(d, flow'[d][t])
  BY <1>3, <1>5
<1> QED BY <1>3, <1>4, <1>6, FlowsChange

\* What continues or ends one.
LEMMA GoesKeeps ==
  ASSUME BlobInv, NEW c \in Clients, NEW s \in Slots, NEW f,
         Goes(c, s, f), f = None \/ NewFlow(c, f), Refreshed(c) \/ UNCHANGED wrapper,
         UNCHANGED <<disk, record, relay, blobs, edits, clock, modified>>, faults' \in Nat,
         windows \subseteq windows'
  PROVE  BlobInv'
<1>0. BlobTypes
  BY DEF BlobInv
<1>1. f \in Maybe(Flows)
  BY DEF NewFlow, Maybe
<1>2. /\ flow' \in [Clients -> [Slots -> Maybe(Flows)]]
      /\ \A d \in Clients : \A t \in Slots : (d = c /\ t = s) \/ flow'[d][t] = flow[d][t]
      /\ flow'[c][s] = f
  BY <1>0, <1>1, OneFlow DEF Goes
<1>3. /\ wrapper' \in [Clients -> Maybe(Wrapper)]
      /\ \A d \in Clients : wrapper'[d] = [meta |-> Meta(record[d])] \/ wrapper'[d] = wrapper[d]
  BY <1>0, RefreshedWrapper DEF BlobTypes
<1>4. \A d \in Clients : \A t \in Slots :
        flow'[d][t] = flow[d][t] \/ flow'[d][t] = None \/ NewFlow(d, flow'[d][t])
  BY <1>2
<1> QED BY <1>2, <1>3, <1>4, FlowsChange

LEMMA GoodIsNew ==
  ASSUME BlobTypes, NEW c \in Clients, NEW f, GoodStart(c, f), f # None /\ f.at = "checking" => Refreshed(c)
  PROVE  f = None \/ NewFlow(c, f)
BY RefreshedWrapper DEF GoodStart, NewFlow

LEMMA CompareKeeps == ASSUME BlobInv, NEW c \in Clients, NEW s \in Slots, Compare(c, s) PROVE BlobInv'
<1>0. BlobTypes /\ Stages
  BY DEF BlobInv
<1> DEFINE f == IF disk[c].bytes = flow[c][s].meta.hash THEN None
                ELSE IF LocalIsNewer(c, flow[c][s].meta) THEN Pushing(c) ELSE Pulling(c)
<1>1. /\ Goes(c, s, f) /\ UNCHANGED <<Still, modified, windows>>
      /\ IF flow'[c][s] # None /\ flow'[c][s].at = "checking" THEN Refreshed(c) ELSE UNCHANGED wrapper
      /\ flow[c][s] # None /\ flow[c][s].at = "comparing"
  BY Zenon DEF Compare, At
<1>2. disk[c] # None
  BY <1>0, <1>1 DEF Stages, StageOK
<1>3. GoodStart(c, f)
  BY <1>0, <1>2, StartsAreGood DEF GoodStart
<1> HIDE DEF f
<1>4. f \in Maybe(Flows)
  BY <1>3 DEF GoodStart, Maybe
<1>5. flow'[c][s] = f
  BY <1>0, <1>1, <1>4, OneFlow DEF Goes
<1>6. f = None \/ NewFlow(c, f)
  BY <1>0, <1>1, <1>3, <1>5, GoodIsNew
<1>7. faults' \in Nat /\ UNCHANGED <<disk, record, relay, blobs, edits, clock, modified>>
      /\ windows \subseteq windows' /\ (Refreshed(c) \/ UNCHANGED wrapper)
  BY <1>0, <1>1 DEF Still, net, counts, BlobTypes
<1> QED BY <1>1, <1>6, <1>7, GoesKeeps

LEMMA HashedKeeps == ASSUME BlobInv, NEW c \in Clients, NEW s \in Slots, Hashed(c, s) PROVE BlobInv'
<1>0. BlobTypes /\ Stages
  BY DEF BlobInv
<1> DEFINE f == IF OutOfDate(c) THEN [Flow("naming") EXCEPT !.bytes = disk[c].bytes] ELSE None
<1>1. /\ Goes(c, s, f) /\ UNCHANGED <<Still, modified, windows>> /\ Refreshed(c)
      /\ flow[c][s] # None /\ flow[c][s].at = "hashing"
  BY Zenon DEF Hashed, At
<1>2. disk[c] # None /\ disk[c].bytes \in Bytes
  BY <1>0, <1>1 DEF Stages, StageOK, BlobTypes, Maybe, File
<1>3. f = None \/ NewFlow(c, f)
  <2>1. [Flow("naming") EXCEPT !.bytes = disk[c].bytes] \in Flows
    BY <1>2, FlowTypes DEF Ats
  <2>2. [Flow("naming") EXCEPT !.bytes = disk[c].bytes].at = "naming"
        /\ [Flow("naming") EXCEPT !.bytes = disk[c].bytes].bytes = disk[c].bytes
    BY DEF Flow
  <2> QED BY <1>2, <2>1, <2>2 DEF NewFlow
<1> HIDE DEF f
<1>4. faults' \in Nat /\ UNCHANGED <<disk, record, relay, blobs, edits, clock, modified>>
      /\ windows \subseteq windows'
  BY <1>0, <1>1 DEF Still, net, counts, BlobTypes
<1> QED BY <1>1, <1>3, <1>4, GoesKeeps

LEMMA CheckedKeeps == ASSUME BlobInv, NEW c \in Clients, NEW s \in Slots, Checked(c, s) PROVE BlobInv'
<1>0. BlobTypes /\ Stages
  BY DEF BlobInv
<1> DEFINE f == IF disk[c].bytes = wrapper[c].meta.hash THEN None
                ELSE [Flow("fetching") EXCEPT !.want = wrapper[c].meta.hash]
<1>1. /\ Goes(c, s, f) /\ UNCHANGED <<Still, modified, windows, wrapper>>
      /\ flow[c][s] # None /\ flow[c][s].at = "checking"
  BY Zenon DEF Checked, At
<1>2. wrapper[c] # None /\ wrapper[c].meta # None
  BY <1>0, <1>1 DEF Stages, StageOK
<1>3. wrapper[c].meta.hash \in Bytes
  BY <1>0, <1>2 DEF BlobTypes, Maybe, Wrapper, SyncMeta
<1>4. f = None \/ NewFlow(c, f)
  <2>1. [Flow("fetching") EXCEPT !.want = wrapper[c].meta.hash] \in Flows
    BY <1>3, FlowTypes DEF Ats
  <2>2. [Flow("fetching") EXCEPT !.want = wrapper[c].meta.hash].at = "fetching"
        /\ [Flow("fetching") EXCEPT !.want = wrapper[c].meta.hash].want = wrapper[c].meta.hash
    BY DEF Flow
  <2> QED BY <1>3, <2>1, <2>2, Nones DEF NewFlow
<1> HIDE DEF f
<1>5. faults' \in Nat /\ UNCHANGED <<disk, record, relay, blobs, edits, clock, modified>>
      /\ windows \subseteq windows'
  BY <1>0, <1>1 DEF Still, net, counts, BlobTypes
<1> QED BY <1>1, <1>4, <1>5, GoesKeeps

LEMMA FailsKeeps ==
  ASSUME BlobInv, NEW c \in Clients, NEW s \in Slots, Fails(c, s) \/ PutRefused(c, s)
  PROVE  BlobInv'
<1>0. BlobTypes /\ Stages
  BY DEF BlobInv
<1>1. UNCHANGED <<disk, record, relay, blobs, edits, clock, modified, wrapper>> /\ faults' \in Nat
      /\ windows \subseteq windows'
  <2>1. UNCHANGED <<disk, record, relay, blobs, clock, modified, wrapper>> /\ windows \subseteq windows' /\ Fault
    BY DEF Fails, PutRefused, net
  <2> QED BY <1>0, <2>1 DEF Fault, BlobTypes
<1>2. CASE Fails(c, s)
  <2>1. Goes(c, s, None)
    BY <1>2 DEF Fails, Ends
  <2> QED BY <1>1, <2>1, GoesKeeps
<1>3. CASE PutRefused(c, s)
  <2>1. /\ Goes(c, s, Flow("noting")) /\ windows' = windows \cup {"put refused"}
        /\ flow[c][s] # None /\ flow[c][s].at = "putting"
    BY <1>3, Zenon DEF PutRefused, At
  <2>2. Flow("noting") \in Maybe(Flows) /\ Flow("noting").at = "noting"
    BY FlowTypes DEF Ats, Maybe
  <2>3. /\ flow' \in [Clients -> [Slots -> Maybe(Flows)]]
        /\ \A d \in Clients : \A t \in Slots : (d = c /\ t = s) \/ flow'[d][t] = flow[d][t]
        /\ flow'[c][s] = Flow("noting")
    BY <1>0, <2>1, <2>2, OneFlow DEF Goes
  <2>4. disk[c] # None
    BY <1>0, <2>1 DEF Stages, StageOK
  <2>5. BlobTypes'
    BY <1>0, <1>1, <2>3 DEF BlobTypes
  <2>6. Stages'
    BY <1>0, <1>1, <2>2, <2>3, <2>4 DEF Stages, StageOK
  <2>7. ~Unraced'
    BY <2>1 DEF Unraced, Lost
  <2> QED BY <1>1, <2>5, <2>6, <2>7 DEF BlobInv, PushesKeep
<1> QED BY <1>2, <1>3

LEMMA StartingKeeps ==
  ASSUME BlobInv, NEW c \in Clients, Adopt(c) \/ Scan(c) \/ SyncCommand(c)
  PROVE  BlobInv'
<1>0. BlobTypes /\ Stages
  BY DEF BlobInv
<1>1. CASE Adopt(c)
  <2>1. Starts(c, Taken(c)) /\ disk[c] # None /\ UNCHANGED <<Still, modified, windows>>
    BY <1>1 DEF Adopt
  <2>2. GoodStart(c, Taken(c))
    BY <1>0, <2>1, StartsAreGood
  <2>3. UNCHANGED <<disk, record, relay, blobs, edits, clock, windows>> /\ faults' \in Nat
        /\ modified' \in SUBSET modified
    BY <1>0, <2>1 DEF Still, net, counts, BlobTypes
  <2> QED BY <2>1, <2>2, <2>3, StartsKeeps
<1>2. CASE Scan(c)
  <2>1. /\ Starts(c, Pulling(c)) \/ UNCHANGED <<flow, wrapper>>
        /\ UNCHANGED <<Still, modified, windows>>
    BY <1>2 DEF Scan
  <2>2. GoodStart(c, Pulling(c))
    BY <1>0, StartsAreGood
  <2>3. UNCHANGED <<disk, record, relay, blobs, edits, clock, windows>> /\ faults' \in Nat
        /\ modified' \in SUBSET modified
    BY <1>0, <2>1 DEF Still, net, counts, BlobTypes
  <2>4. CASE Starts(c, Pulling(c))
    BY <2>2, <2>3, <2>4, StartsKeeps
  <2>5. CASE UNCHANGED <<flow, wrapper>>
    BY <1>0, <2>3, <2>5, FlowsChange DEF BlobTypes
  <2> QED BY <2>1, <2>4, <2>5
<1>3. CASE SyncCommand(c)
  <2>1. Starts(c, Syncing(c)) /\ Fault /\ UNCHANGED <<disk, net, clock, modified, windows>>
    BY <1>3 DEF SyncCommand
  <2>2. GoodStart(c, Syncing(c))
    BY <1>0, StartsAreGood
  <2>3. UNCHANGED <<disk, record, relay, blobs, edits, clock, windows>> /\ faults' \in Nat
        /\ modified' \in SUBSET modified
    BY <1>0, <2>1 DEF Fault, net, BlobTypes
  <2> QED BY <2>1, <2>2, <2>3, StartsKeeps
<1> QED BY <1>1, <1>2, <1>3

\* The modify event may start two flows.
LEMMA ModifiedKeeps == ASSUME BlobInv, NEW c \in Clients, Modified(c) PROVE BlobInv'
<1>0. BlobTypes /\ Stages /\ \A d \in modified : disk[d] # None
  BY DEF BlobInv
<1>1. disk[c] # None /\ UNCHANGED <<disk, record, relay, blobs, edits, clock, windows>>
      /\ faults' \in Nat /\ modified' \in SUBSET modified
  BY <1>0 DEF Modified, Still, net, counts, BlobTypes
<1>2. GoodStart(c, Syncing(c)) /\ GoodStart(c, Taken(c))
  BY <1>0, <1>1, StartsAreGood
<1>3. CASE Starts(c, Syncing(c))
  BY <1>1, <1>2, <1>3, StartsKeeps
<1>4. CASE ~Starts(c, Syncing(c))
  <2>1. PICK s, t \in Free(c) :
          /\ s < t /\ flow' = [flow EXCEPT ![c][s] = Taken(c), ![c][t] = Syncing(c)]
          /\ Refreshed(c)
    BY <1>4, Zenon DEF Modified
  <2>2. s \in Slots /\ t \in Slots /\ Taken(c) \in Maybe(Flows) /\ Syncing(c) \in Maybe(Flows)
    BY <1>2 DEF Free, GoodStart, Maybe
  <2>3. /\ flow' \in [Clients -> [Slots -> Maybe(Flows)]]
        /\ \A d \in Clients : \A u \in Slots : \/ flow'[d][u] = flow[d][u]
                                               \/ d = c /\ flow'[d][u] \in {Taken(c), Syncing(c)}
    <3>1. /\ \A d \in Clients \ {c} : flow'[d] = flow[d]
          /\ flow'[c] = [flow[c] EXCEPT ![s] = Taken(c), ![t] = Syncing(c)]
          /\ flow' = [d \in Clients |-> flow'[d]]
      BY <1>0, <2>1, <2>2 DEF BlobTypes
    <3>2. flow[c] \in [Slots -> Maybe(Flows)]
      BY <1>0 DEF BlobTypes
    <3>3. /\ flow'[c] \in [Slots -> Maybe(Flows)]
          /\ \A u \in Slots : flow'[c][u] = flow[c][u] \/ flow'[c][u] \in {Taken(c), Syncing(c)}
      BY <2>2, <3>1, <3>2
    <3>4. \A d \in Clients : flow'[d] \in [Slots -> Maybe(Flows)]
      BY <1>0, <3>1, <3>3 DEF BlobTypes
    <3>5. flow' \in [Clients -> [Slots -> Maybe(Flows)]]
      BY <3>1, <3>4
    <3>6. ASSUME NEW d \in Clients, NEW u \in Slots
          PROVE  flow'[d][u] = flow[d][u] \/ (d = c /\ flow'[d][u] \in {Taken(c), Syncing(c)})
      BY <3>1, <3>3
    <3> QED BY <3>5, <3>6
  <2>4. /\ wrapper' \in [Clients -> Maybe(Wrapper)]
        /\ wrapper'[c] = [meta |-> Meta(record[c])]
        /\ \A d \in Clients \ {c} : wrapper'[d] = wrapper[d]
    BY <1>0, <2>1, RefreshedWrapper
  <2>5. \A f \in {Taken(c), Syncing(c)} : f = None \/ NewFlow(c, f)
    BY <1>0, <1>2, <2>1, GoodIsNew
  <2>6. \A d \in Clients : \A u \in Slots :
          flow'[d][u] = flow[d][u] \/ flow'[d][u] = None \/ NewFlow(d, flow'[d][u])
    BY <2>3, <2>5
  <2> QED BY <1>1, <2>3, <2>4, <2>6, FlowsChange
<1> QED BY <1>3, <1>4

\* The hash names what the file is, and nobody wrote the file since its bytes were read.
LEMMA NamedKeeps == ASSUME BlobInv, NEW c \in Clients, NEW s \in Slots, Named(c, s) PROVE BlobInv'
<1>0. BlobTypes /\ Stages /\ PushesKeep
  BY DEF BlobInv
<1> DEFINE f == [flow[c][s] EXCEPT !.at = "putting", !.hash = disk[c].bytes]
<1>1. /\ flow[c][s] # None /\ flow[c][s].at = "naming" /\ Goes(c, s, f)
      /\ UNCHANGED <<disk, record, relay, blobs, edits, faults, clock, wrapper, modified, windows>>
  BY DEF Named, At, Still, net, counts
<1>2. disk[c] # None /\ disk[c].bytes \in Bytes /\ flow[c][s] \in Flows
  BY <1>0, <1>1 DEF Stages, StageOK, BlobTypes, Maybe, File
<1>3. f \in Flows /\ f.at = "putting" /\ f.hash = disk[c].bytes /\ f.bytes = flow[c][s].bytes
  BY <1>2 DEF Flows, Maybe
<1> HIDE DEF f
<1>4. /\ flow' \in [Clients -> [Slots -> Maybe(Flows)]]
      /\ \A d \in Clients : \A t \in Slots : (d = c /\ t = s) \/ flow'[d][t] = flow[d][t]
      /\ flow'[c][s] = f
  BY <1>0, <1>1, <1>3, OneFlow DEF Goes, Maybe
<1>5. BlobTypes'
  BY <1>0, <1>1, <1>4 DEF BlobTypes
<1>6. Stages'
  BY <1>0, <1>1, <1>2, <1>3, <1>4 DEF Stages, StageOK
<1>7. PushesKeep'
  <2> SUFFICES ASSUME Unraced' PROVE PushesKeep'
    BY DEF PushesKeep
  <2>1. Unraced
    BY <1>1 DEF Unraced, Lost
  <2>2. f.bytes = disk[c].bytes
    BY <1>0, <1>1, <1>3, <2>1 DEF PushesKeep, PushOK
  <2> QED BY <1>0, <1>1, <1>3, <1>4, <2>1, <2>2 DEF PushesKeep, PushOK, Kept
<1> QED BY <1>1, <1>5, <1>6, <1>7 DEF BlobInv

\* What is on the server under its own hash stays there.
LEMMA PutKeeps == ASSUME BlobInv, NEW c \in Clients, NEW s \in Slots, Put(c, s) PROVE BlobInv'
<1>0. BlobTypes /\ Stages /\ PushesKeep
  BY DEF BlobInv
<1>1. /\ flow[c][s] # None /\ flow[c][s].at = "putting" /\ Goes(c, s, Flow("noting"))
      /\ blobs' = [blobs EXCEPT ![flow[c][s].hash] = flow[c][s].bytes]
      /\ UNCHANGED <<disk, record, relay, edits, faults, clock, wrapper, modified, windows>>
  BY DEF Put, At, counts
<1>2. disk[c] # None /\ disk[c].bytes \in Bytes /\ flow[c][s] \in Flows
  BY <1>0, <1>1 DEF Stages, StageOK, BlobTypes, Maybe, File
<1>3. Flow("noting") \in Maybe(Flows) /\ Flow("noting").at = "noting"
  BY FlowTypes DEF Ats, Maybe
<1>4. /\ flow' \in [Clients -> [Slots -> Maybe(Flows)]]
      /\ \A d \in Clients : \A t \in Slots : (d = c /\ t = s) \/ flow'[d][t] = flow[d][t]
      /\ flow'[c][s] = Flow("noting")
  BY <1>0, <1>1, <1>3, OneFlow DEF Goes
<1>5. BlobTypes'
  <2>1. blobs' \in [Bytes -> Maybe(Bytes)]
    BY <1>0, <1>1, <1>2 DEF BlobTypes, Flows, Maybe
  <2> QED BY <1>0, <1>1, <1>4, <2>1 DEF BlobTypes
<1>6. Stages'
  BY <1>0, <1>1, <1>2, <1>3, <1>4 DEF Stages, StageOK
<1>7. PushesKeep'
  <2> SUFFICES ASSUME Unraced' PROVE PushesKeep'
    BY DEF PushesKeep
  <2>1. Unraced
    BY <1>1 DEF Unraced, Lost
  <2>2. flow[c][s].hash = disk[c].bytes /\ flow[c][s].bytes = disk[c].bytes
    BY <1>0, <1>1, <2>1 DEF PushesKeep, PushOK
  <2>3. /\ \A h \in Bytes : Kept(h) => Kept(h)'
        /\ Kept(disk[c].bytes)'
    BY <1>0, <1>1, <1>2, <2>2 DEF Kept, BlobTypes
  <2>4. ASSUME NEW d \in Clients, NEW t \in Slots, flow'[d][t] # None
        PROVE  PushOK(d, flow[d][t])'
    <3>1. CASE d = c /\ t = s
      BY <1>1, <1>3, <1>4, <2>3, <3>1 DEF PushOK, Kept
    <3>2. CASE ~(d = c /\ t = s)
      <4>1. flow'[d][t] = flow[d][t] /\ PushOK(d, flow[d][t]) /\ StageOK(d, flow[d][t])
        BY <1>0, <1>4, <2>1, <2>4, <3>2 DEF PushesKeep, Stages
      <4>2. CASE flow[d][t].at = "noting"
        <5>1. disk[d].bytes \in Bytes /\ Kept(disk[d].bytes)
          BY <1>0, <4>1, <4>2 DEF PushOK, StageOK, BlobTypes, Maybe, File
        <5> QED BY <1>1, <2>3, <4>1, <4>2, <5>1 DEF PushOK, Kept
      <4>3. CASE flow[d][t].at # "noting"
        BY <1>1, <4>1, <4>3 DEF PushOK
      <4> QED BY <4>2, <4>3
    <3> QED BY <3>1, <3>2
  <2>5. \A d \in Clients : record'[d] # None => Kept(record[d].hash)'
    <3> SUFFICES ASSUME NEW d \in Clients, record[d] # None PROVE Kept(record[d].hash)'
      BY <1>1
    <3>1. record[d].hash \in Bytes /\ Kept(record[d].hash)
      BY <1>0, <2>1 DEF PushesKeep, BlobTypes, Maybe, Record
    <3> QED BY <1>1, <2>3, <3>1 DEF Kept
  <2>6. relay' # None => Kept(relay.hash)'
    <3> SUFFICES ASSUME relay # None PROVE Kept(relay.hash)'
      BY <1>1
    <3>1. relay.hash \in Bytes /\ Kept(relay.hash)
      BY <1>0, <2>1 DEF PushesKeep, BlobTypes, Maybe, Record
    <3> QED BY <1>1, <2>3, <3>1 DEF Kept
  <2> QED BY <2>4, <2>5, <2>6 DEF PushesKeep, Kept
<1> QED BY <1>1, <1>5, <1>6, <1>7 DEF BlobInv

\* A file is written while no push of it is between its reads, or a window is noted.
LEMMA WritingKeeps ==
  ASSUME BlobInv, NEW c \in Clients, NEW file \in File, disk' = [disk EXCEPT ![c] = file],
         UNCHANGED <<record, relay, blobs, wrapper>>,
         edits' \in Nat \ {0}, faults' \in Nat, clock' \in Nat,
         modified' \in SUBSET (modified \cup {c}), (windows \cup Raced(c)) \subseteq windows',
         flow' \in [Clients -> [Slots -> Maybe(Flows)]],
         \A d \in Clients : \A s \in Slots : flow'[d][s] = flow[d][s] \/ flow'[d][s] = None
  PROVE  BlobInv'
<1>0. BlobTypes /\ Stages /\ PushesKeep /\ \A d \in modified : disk[d] # None
  BY DEF BlobInv
<1>1. /\ disk' \in [Clients -> Maybe(File)] /\ disk'[c] = file /\ file # None
      /\ \A d \in Clients \ {c} : disk'[d] = disk[d]
  BY <1>0, Nones DEF BlobTypes, Maybe
<1>2. BlobTypes'
  BY <1>0, <1>1 DEF BlobTypes
<1>3. Stages'
  BY <1>0, <1>1 DEF Stages, StageOK
<1>4. PushesKeep'
  <2> SUFFICES ASSUME Unraced' PROVE PushesKeep'
    BY DEF PushesKeep
  <2>1. Unraced /\ Raced(c) = {}
    BY DEF Unraced, Lost, Raced
  <2>2. ASSUME NEW d \in Clients, NEW s \in Slots, flow'[d][s] # None
        PROVE  PushOK(d, flow[d][s])'
    <3>1. flow'[d][s] = flow[d][s] /\ PushOK(d, flow[d][s])
      BY <1>0, <2>1, <2>2 DEF PushesKeep
    <3>2. CASE d = c
      <4>1. flow[d][s].at \notin Reads
        BY <2>1, <2>2, <3>1, <3>2 DEF Raced
      <4> QED BY <3>1, <4>1 DEF PushOK, Reads
    <3>3. CASE d # c
      BY <1>1, <3>1, <3>3 DEF PushOK, Kept
    <3> QED BY <3>2, <3>3
  <2> QED BY <1>0, <2>1, <2>2 DEF PushesKeep, Kept
<1>5. \A d \in modified' : disk'[d] # None
  BY <1>0, <1>1 DEF BlobTypes
<1> QED BY <1>2, <1>3, <1>4, <1>5 DEF BlobInv

LEMMA FlowEnds ==
  ASSUME BlobTypes, NEW c \in Clients, NEW s \in Slots, Goes(c, s, None)
  PROVE  /\ flow' \in [Clients -> [Slots -> Maybe(Flows)]]
         /\ \A d \in Clients : \A t \in Slots : flow'[d][t] = flow[d][t] \/ flow'[d][t] = None
<1>1. None \in Maybe(Flows) /\ flow' = [flow EXCEPT ![c][s] = None]
  BY DEF Maybe, Goes
<1>2. /\ flow' \in [Clients -> [Slots -> Maybe(Flows)]]
      /\ \A d \in Clients : \A t \in Slots : (d = c /\ t = s) \/ flow'[d][t] = flow[d][t]
      /\ flow'[c][s] = None
  BY <1>1, OneFlow
<1> QED BY <1>2

LEMMA FetchedKeeps ==
  ASSUME BlobInv, NEW c \in Clients, NEW s \in Slots, Fetched(c, s) \/ Garbled(c, s)
  PROVE  BlobInv'
<1>0. BlobTypes /\ Stages
  BY DEF BlobInv
<1>1. /\ flow[c][s] # None /\ flow[c][s].at = "fetching" /\ Goes(c, s, None)
      /\ UNCHANGED <<record, relay, blobs, wrapper, edits>> /\ faults' \in Nat
  <2>1. CASE Fetched(c, s)
    <3>1. At(c, s, "fetching") /\ Ends(c, s) /\ UNCHANGED <<net, counts, wrapper>>
      BY <2>1, Zenon DEF Fetched
    <3> QED BY <1>0, <3>1 DEF At, Ends, net, counts, BlobTypes
  <2>2. CASE Garbled(c, s)
    <3>1. At(c, s, "fetching") /\ Ends(c, s) /\ Fault /\ UNCHANGED <<net, wrapper>>
      BY <2>2, Zenon DEF Garbled
    <3> QED BY <1>0, <3>1 DEF At, Ends, Fault, net, BlobTypes
  <2> QED BY <2>1, <2>2
<1>2. /\ flow' \in [Clients -> [Slots -> Maybe(Flows)]]
      /\ \A d \in Clients : \A t \in Slots : flow'[d][t] = flow[d][t] \/ flow'[d][t] = None
  BY <1>0, <1>1, FlowEnds
<1>3. ASSUME NEW b \in Bytes, Writes(c, b), (windows \cup Raced(c)) \subseteq windows' PROVE BlobInv'
  <2>1. /\ [bytes |-> b, mtime |-> clock + 1] \in File /\ clock' \in Nat /\ edits' \in Nat \ {0}
        /\ disk' = [disk EXCEPT ![c] = [bytes |-> b, mtime |-> clock + 1]]
        /\ modified' \in SUBSET (modified \cup {c})
    BY <1>0, <1>1, <1>3 DEF Writes, File, BlobTypes
  <2> QED BY <1>1, <1>2, <1>3, <2>1, WritingKeeps
<1>4. CASE Fetched(c, s)
  <2>1. blobs[flow[c][s].want] \in Maybe(Bytes)
    <3>1. flow[c][s].want \in Bytes
      BY <1>0, <1>1 DEF Stages, StageOK, BlobTypes, Maybe, Flows
    <3> QED BY <1>0, <3>1 DEF BlobTypes
  <2>2. CASE blobs[flow[c][s].want] = None
    <3>1. UNCHANGED <<disk, clock, modified, windows>>
      BY <1>4, <2>2 DEF Fetched
    <3>2. modified' \in SUBSET modified /\ windows \subseteq windows' /\ wrapper' \in [Clients -> Maybe(Wrapper)]
      BY <1>0, <1>1, <3>1 DEF BlobTypes
    <3> QED BY <1>1, <1>2, <3>1, <3>2, FlowsChange
  <2>3. CASE blobs[flow[c][s].want] # None
    <3>1. Writes(c, blobs[flow[c][s].want]) /\ (windows \cup Raced(c)) \subseteq windows'
      BY <1>4, <2>3 DEF Fetched
    <3>2. blobs[flow[c][s].want] \in Bytes
      BY <2>1, <2>3 DEF Maybe
    <3> QED BY <1>3, <3>1, <3>2
  <2> QED BY <2>2, <2>3
<1>5. CASE Garbled(c, s)
  BY <1>3, <1>5 DEF Garbled, Bytes
<1> QED BY <1>4, <1>5

LEMMA EditKeepsBlobs == ASSUME BlobInv, NEW c \in Clients, Edit(c) PROVE BlobInv'
<1>0. BlobTypes
  BY DEF BlobInv
<1>1. edits + 1 \in Bytes
  <2>1. edits + faults < MaxEvents
    BY DEF Edit
  <2>2. edits + 1 \in 1..MaxEvents
    BY <1>0, <2>1, AttachmentAssumption DEF BlobTypes
  <2> QED BY <2>2 DEF Bytes
<1>2. /\ disk' = [disk EXCEPT ![c] = [bytes |-> edits + 1, mtime |-> clock + 1]]
      /\ UNCHANGED <<record, relay, blobs, wrapper, flow, faults>>
      /\ edits' = edits + 1 /\ clock' = clock + 1
      /\ modified' \in SUBSET (modified \cup {c}) /\ (windows \cup Raced(c)) \subseteq windows'
  BY DEF Edit, net
<1>3. [bytes |-> edits + 1, mtime |-> clock + 1] \in File
  BY <1>0, <1>1 DEF File, BlobTypes
<1>4. /\ edits' \in Nat \ {0} /\ faults' \in Nat /\ clock' \in Nat
      /\ flow' \in [Clients -> [Slots -> Maybe(Flows)]]
      /\ \A d \in Clients : \A s \in Slots : flow'[d][s] = flow[d][s] \/ flow'[d][s] = None
  <2>1. edits + 1 \in Nat \ {0} /\ clock + 1 \in Nat
    BY <1>0 DEF BlobTypes
  <2> QED BY <1>0, <1>2, <2>1 DEF BlobTypes
<1> QED BY <1>2, <1>3, <1>4, WritingKeeps

LEMMA PluginKeeps ==
  ASSUME BlobInv, NEW c \in Clients, Stop(c) \/ Start(c) \/ Drop(c) \/ Connect(c)
  PROVE  BlobInv'
<1>0. BlobTypes
  BY DEF BlobInv
<1>1. /\ UNCHANGED <<disk, record, relay, blobs, edits, clock>> /\ faults' \in Nat
      /\ modified' \in SUBSET modified /\ windows \subseteq windows'
  <2>1. CASE Stop(c) \/ Drop(c)
    <3>1. /\ UNCHANGED <<disk, net, clock>> /\ Fault /\ Offline(c)
          /\ \/ modified' = modified
             \/ modified' = modified \ {c}
      BY <2>1, Zenon DEF Stop, Drop
    <3>2. UNCHANGED edits /\ faults' \in Nat
      BY <1>0, <3>1 DEF Fault, BlobTypes
    <3>3. UNCHANGED <<record, relay, blobs>> /\ modified' \in SUBSET modified /\ windows \subseteq windows'
      BY <3>1 DEF Offline, net
    <3> QED BY <3>1, <3>2, <3>3
  <2>2. CASE Start(c) \/ Connect(c)
    <3>1. UNCHANGED <<disk, net, counts, clock, windows>> /\ modified' \in SUBSET modified
      BY <2>2 DEF Start, Connect
    <3> QED BY <1>0, <3>1 DEF net, counts, BlobTypes
  <2> QED BY <2>1, <2>2
<1>2. CASE Stop(c)
  <2>1. /\ flow' = [flow EXCEPT ![c] = [s \in Slots |-> None]]
        /\ wrapper' = [wrapper EXCEPT ![c] = None]
    BY <1>2 DEF Stop
  <2>2. [s \in Slots |-> None] \in [Slots -> Maybe(Flows)]
    BY DEF Maybe
  <2>3. /\ flow' \in [Clients -> [Slots -> Maybe(Flows)]]
        /\ \A d \in Clients : \A s \in Slots :
             (flow'[d][s] = flow[d][s] /\ d # c) \/ flow'[d][s] = None
        /\ \A s \in Slots : flow'[c][s] = None
    BY <1>0, <2>1, <2>2 DEF BlobTypes
  <2>4. /\ wrapper' \in [Clients -> Maybe(Wrapper)]
        /\ \A d \in Clients \ {c} : wrapper'[d] = wrapper[d]
    BY <1>0, <2>1 DEF BlobTypes, Maybe
  <2> QED BY <1>1, <2>3, <2>4, FlowsChange
<1>3. CASE Start(c) \/ Drop(c) \/ Connect(c)
  <2>1. UNCHANGED <<flow, wrapper>>
    BY <1>3 DEF Start, Drop, Connect
  <2> QED BY <1>0, <1>1, <2>1, FlowsChange DEF BlobTypes
<1> QED BY <1>2, <1>3

\* A record that is made or passed on names bytes the server has.
LEMMA RecordingKeeps ==
  ASSUME BlobInv, UNCHANGED <<disk, blobs, wrapper, modified, edits, faults, clock>>,
         record' \in [Clients -> Maybe(Record)], relay' \in Maybe(Record),
         flow' \in [Clients -> [Slots -> Maybe(Flows)]], windows \subseteq windows',
         \A d \in Clients : \A s \in Slots : flow'[d][s] = flow[d][s] \/ flow'[d][s] = None,
         \A d \in Clients : record[d] # None => record'[d] # None,
         Unraced => /\ \A d \in Clients : record'[d] # None => Kept(record'[d].hash)
                    /\ relay' # None => Kept(relay'.hash)
  PROVE  BlobInv'
<1>0. BlobTypes /\ Stages /\ PushesKeep
  BY DEF BlobInv
<1>1. BlobTypes'
  BY <1>0 DEF BlobTypes
<1>2. Stages'
  BY <1>0 DEF Stages, StageOK
<1>3. PushesKeep'
  <2> SUFFICES ASSUME Unraced' PROVE PushesKeep'
    BY DEF PushesKeep
  <2>1. Unraced
    BY DEF Unraced, Lost
  <2> QED BY <1>0, <2>1 DEF PushesKeep, PushOK, Kept
<1> QED BY <1>1, <1>2, <1>3 DEF BlobInv

LEMMA NotedKeeps == ASSUME BlobInv, NEW c \in Clients, NEW s \in Slots, Noted(c, s) PROVE BlobInv'
<1>0. BlobTypes /\ Stages /\ PushesKeep
  BY DEF BlobInv
<1>1. /\ flow[c][s] # None /\ flow[c][s].at = "noting" /\ Goes(c, s, None)
      /\ UNCHANGED <<disk, blobs, wrapper, modified, edits, faults, clock, relay>>
      /\ windows \subseteq windows'
  BY DEF Noted, At, Ends, counts
<1>2. /\ flow' \in [Clients -> [Slots -> Maybe(Flows)]]
      /\ \A d \in Clients : \A t \in Slots : flow'[d][t] = flow[d][t] \/ flow'[d][t] = None
  BY <1>0, <1>1, FlowEnds
<1>3. disk[c] # None /\ disk[c].bytes \in Bytes /\ disk[c].mtime \in Nat
  BY <1>0, <1>1 DEF Stages, StageOK, BlobTypes, Maybe, File
<1>4. record' = record \/ \E r \in Record : record' = [record EXCEPT ![c] = r] /\ r.hash = disk[c].bytes
  <2> DEFINE by == IF record[c] = None THEN <<>> ELSE record[c].by
             r == [hash |-> disk[c].bytes, synctime |-> disk[c].mtime, by |-> Append(by, c)]
  <2>1. by \in Seq(Clients)
    BY <1>0 DEF BlobTypes, Maybe, Record
  <2>2. r \in Record /\ r.hash = disk[c].bytes
    BY <1>3, <2>1 DEF Record
  <2>3. record' = record \/ record' = [record EXCEPT ![c] = r]
    BY Zenon DEF Noted
  <2> QED BY <2>2, <2>3
<1>5. /\ record' \in [Clients -> Maybe(Record)]
      /\ \A d \in Clients : \/ record'[d] = record[d]
                            \/ record'[d] # None /\ record'[d].hash = disk[c].bytes
  <2>1. CASE record' = record
    BY <1>0, <2>1 DEF BlobTypes
  <2>2. CASE \E r \in Record : record' = [record EXCEPT ![c] = r] /\ r.hash = disk[c].bytes
    <3>1. PICK r \in Record : record' = [record EXCEPT ![c] = r] /\ r.hash = disk[c].bytes
      BY <2>2
    <3>2. r # None
      BY Nones
    <3> QED BY <1>0, <3>1, <3>2 DEF BlobTypes, Maybe
  <2> QED BY <1>4, <2>1, <2>2
<1>6. Unraced => Kept(disk[c].bytes)
  BY <1>0, <1>1 DEF PushesKeep, PushOK
<1>7. Unraced => /\ \A d \in Clients : record'[d] # None => Kept(record'[d].hash)
                 /\ relay' # None => Kept(relay'.hash)
  BY <1>0, <1>1, <1>5, <1>6 DEF PushesKeep
<1> QED BY <1>0, <1>1, <1>2, <1>5, <1>7, RecordingKeeps DEF BlobTypes

LEMMA MergeKeeps ==
  ASSUME BlobInv, NEW c \in Clients, Send(c) \/ Receive(c)
  PROVE  BlobInv'
<1>0. BlobTypes /\ PushesKeep
  BY DEF BlobInv
<1>1. UNCHANGED <<disk, blobs, wrapper, modified, edits, faults, clock, flow>> /\ windows \subseteq windows'
  BY DEF Send, Receive, counts
<1>2. \A a, b : Merged(a, b) \in {a, b} /\ (a # None => Merged(a, b) # None)
  BY DEF Merged
<1>3. /\ record' \in [Clients -> Maybe(Record)]
      /\ \A d \in Clients : record'[d] = record[d] \/ record'[d] = relay
      /\ \A d \in Clients : record[d] # None => record'[d] # None
  <2>1. CASE Receive(c)
    <3>1. record' = [record EXCEPT ![c] = Merged(record[c], relay)]
      BY <2>1 DEF Receive
    <3> QED BY <1>0, <1>2, <3>1 DEF BlobTypes
  <2>2. CASE Send(c)
    BY <1>0, <2>2 DEF Send, BlobTypes
  <2> QED BY <2>1, <2>2
<1>4. relay' = relay \/ relay' = record[c]
  BY <1>2 DEF Send, Receive
<1>5. Unraced => /\ \A d \in Clients : record'[d] # None => Kept(record'[d].hash)
                 /\ relay' # None => Kept(relay'.hash)
  BY <1>0, <1>3, <1>4 DEF PushesKeep
<1>6. relay' \in Maybe(Record)
  BY <1>0, <1>4 DEF BlobTypes
<1> QED BY <1>0, <1>1, <1>3, <1>5, <1>6, RecordingKeeps DEF BlobTypes

LEMMA BlobInvKept == ASSUME BlobInv, [Next]_vars PROVE BlobInv'
<1>1. ASSUME NEW c \in Clients, NEW s \in Slots, Steps(c, s) PROVE BlobInv'
  BY <1>1, CompareKeeps, HashedKeeps, NamedKeeps, PutKeeps, FailsKeeps, NotedKeeps, CheckedKeeps,
     FetchedKeeps DEF Steps
<1>2. ASSUME NEW c \in Clients, Events(c) PROVE BlobInv'
  BY <1>2, ModifiedKeeps, StartingKeeps, EditKeepsBlobs, PluginKeeps, MergeKeeps DEF Events
<1>3. CASE UNCHANGED vars
  BY <1>3 DEF vars, net, counts, BlobInv, BlobTypes, Stages, StageOK, PushesKeep, PushOK, Kept,
              Unraced, Lost
<1> QED BY <1>1, <1>2, <1>3 DEF Next

LEMMA BlobInvInit == ASSUME Init PROVE BlobInv
<1> DEFINE file == [bytes |-> 1, mtime |-> 1]
           first == [hash |-> 1, synctime |-> 1, by |-> <<Owner>>]
<1>0. /\ clock = 1 /\ edits = 1 /\ faults = 0 /\ modified = {} /\ 1 \in Bytes
      /\ file \in File /\ first \in Record /\ file # None
  BY AttachmentAssumption, Nones DEF Init, Bytes, File, Record
<1>1. CASE /\ disk = [c \in Clients |-> file] /\ relay = first
           /\ record = [c \in Clients |-> first]
           /\ blobs = [b \in Bytes |-> IF b = 1 THEN 1 ELSE None]
           /\ wrapper = [c \in Clients |-> [meta |-> Meta(first)]]
           /\ flow = [c \in Clients |-> [s \in Slots |-> None]]
  <2>1. [meta |-> Meta(first)] \in Wrapper
    BY <1>0, MetaType DEF Maybe, Wrapper
  <2> HIDE DEF file
  <2>2. BlobTypes
    BY <1>0, <1>1, <2>1 DEF BlobTypes, Maybe
  <2>3. Stages
    BY <1>1 DEF Stages
  <2>4. PushesKeep
    BY <1>0, <1>1 DEF PushesKeep, Kept
  <2> QED BY <1>0, <2>2, <2>3, <2>4 DEF BlobInv
<1>2. CASE /\ disk = [c \in Clients |-> IF c = Owner THEN file ELSE None] /\ relay = None
           /\ record = [c \in Clients |-> None]
           /\ blobs = [b \in Bytes |-> None]
           /\ wrapper = [c \in Clients |-> IF c = Owner THEN [meta |-> None] ELSE None]
           /\ flow = [c \in Clients |-> [s \in Slots |->
                       IF c = Owner /\ \A t \in Slots : s <= t THEN Flow("hashing") ELSE None]]
  <2>1. [meta |-> None] \in Wrapper
    BY DEF Maybe, Wrapper
  <2>2. Flow("hashing") \in Flows /\ Flow("hashing").at = "hashing"
    BY FlowTypes DEF Ats
  <2> HIDE DEF file
  <2>3. BlobTypes
    BY <1>0, <1>2, <2>1, <2>2 DEF BlobTypes, Maybe
  <2>4. \A c \in Clients : \A s \in Slots :
          flow[c][s] = None \/ (flow[c][s].at = "hashing" /\ disk[c] # None)
    BY <1>0, <1>2, <2>2
  <2>5. Stages
    BY <2>4 DEF Stages, StageOK
  <2>6. PushesKeep
    BY <1>2, <2>4 DEF PushesKeep, PushOK
  <2> QED BY <1>0, <2>3, <2>5, <2>6 DEF BlobInv
<1> QED BY <1>1, <1>2 DEF Init

LEMMA BlobInvHolds == Spec => []BlobInv
<1> QED BY BlobInvInit, BlobInvKept, PTL DEF Spec

(***************************************************************************)
(* For any clients, flows and contents, while no file changed between the  *)
(* reads of a push and no PUT was refused, what the relay's record names   *)
(* is on the server, whole.                                                *)
(***************************************************************************)
THEOREM RecordsHaveTheirBytes == Spec => []RecordHasBytes
<1>1. BlobInv => RecordHasBytes
  BY DEF BlobInv, PushesKeep, Unraced, Kept, RecordHasBytes
<1> QED BY <1>1, BlobInvHolds, PTL

-----------------------------------------------------------------------------
(***************************************************************************)
(* What a download may write over.  An edit is Safe while the server has   *)
(* it or the client's record is no older.  Only safe files are pulled, and *)
(* only those of a client without a wrapper; a push that is under way has  *)
(* what the file is; every content of a record or of a second file is on   *)
(* the server, or is the record's noter's own file.                        *)
(***************************************************************************)

\* Contents there are, and no time is to come.
Made == 1..edits \cup {Garbage}
FlowMade(f) ==
  /\ f.bytes # None => f.bytes \in Made
  /\ f.at = "comparing" => f.meta # None /\ f.meta.synctime <= clock

MadeOK ==
  /\ \A c \in Clients : disk[c] # None => disk[c].bytes \in Made /\ disk[c].mtime <= clock
  /\ \A c \in Clients : record[c] # None => record[c].hash \in Made /\ record[c].synctime <= clock
  /\ relay # None => relay.hash \in Made /\ relay.synctime <= clock
  /\ \A h \in Bytes : blobs[h] # None => blobs[h] \in Made
  /\ \A c \in Clients : \A s \in Slots : flow[c][s] # None => FlowMade(flow[c][s])

Secure == ~Lost({"changed during a push", "edited during a pull", "unsaved offline",
                 "edited before it was taken up", "record went back"})

Safe(c) ==
  disk[c] # None /\ disk[c].bytes # Garbage =>
    Kept(disk[c].bytes) \/ (record[c] # None /\ disk[c].mtime <= record[c].synctime)

FlowSafe(c, f) ==
  /\ f.at \in {"checking", "fetching"} => Safe(c)
  /\ f.at = "comparing" /\ disk[c].mtime <= f.meta.synctime => Safe(c)
  /\ f.at \in {"naming", "putting"} => f.bytes = disk[c].bytes
  /\ f.at = "putting" => f.hash = disk[c].bytes

RecordSafe(r) ==
  \A c \in Clients : disk[c] # None /\ disk[c].bytes = r.hash /\ r.hash # Garbage =>
    Kept(r.hash) \/ disk[c].mtime <= r.synctime

SafeOK ==
  /\ \A c \in Clients : \A s \in Slots : flow[c][s] # None => FlowSafe(c, flow[c][s])
  /\ \A c \in Clients : wrapper[c] = None => Safe(c)
  /\ \A c \in Clients : record[c] # None => RecordSafe(record[c])
  /\ relay # None => RecordSafe(relay)
  /\ \A h \in Bytes : blobs[h] \in {None, h}
  /\ \A c, d \in Clients :
       c # d /\ disk[c] # None /\ disk[d] # None /\ disk[c].bytes = disk[d].bytes
       /\ disk[c].bytes # Garbage => Kept(disk[c].bytes)

SafeInv == BlobInv /\ MadeOK /\ (Secure => SafeOK)

LEMMA StaysSecure == ASSUME Secure', windows \subseteq windows' PROVE Secure
BY DEF Secure, Lost

LEMMA FileIs ==
  ASSUME BlobTypes, NEW c \in Clients, disk[c] # None
  PROVE  disk[c] \in File /\ disk[c].bytes \in Bytes /\ disk[c].mtime \in Nat
BY DEF BlobTypes, Maybe, File

LEMMA RecordIsOne ==
  ASSUME BlobTypes
  PROVE  /\ \A c \in Clients : record[c] # None =>
              record[c] \in Record /\ record[c].hash \in Bytes /\ record[c].synctime \in Nat
         /\ relay # None => relay \in Record /\ relay.hash \in Bytes /\ relay.synctime \in Nat
BY DEF BlobTypes, Maybe, Record

\* Steps that leave files, records and the server alone.
LEMMA FlowsSafe ==
  ASSUME SafeInv, BlobInv', UNCHANGED <<disk, record, relay, blobs, edits, clock>>, windows \subseteq windows',
         \A c \in Clients : \A s \in Slots :
           flow'[c][s] = flow[c][s] \/ flow'[c][s] = None
           \/ (FlowMade(flow'[c][s]) /\ (Secure => FlowSafe(c, flow'[c][s]))),
         \A c \in Clients : wrapper'[c] = None => wrapper[c] = None \/ (Secure' => Safe(c))
  PROVE  SafeInv'
<1>1. MadeOK'
  <2>1. \A c \in Clients : \A s \in Slots : flow'[c][s] # None => FlowMade(flow'[c][s])
    BY DEF SafeInv, MadeOK
  <2> QED BY <2>1 DEF SafeInv, MadeOK, FlowMade, Made
<1>2. ASSUME Secure' PROVE SafeOK'
  <2>1. Secure /\ SafeOK
    BY <1>2, StaysSecure DEF SafeInv
  <2>2. \A c \in Clients : \A s \in Slots : flow'[c][s] # None => FlowSafe(c, flow'[c][s])
    BY <2>1 DEF SafeOK
  <2>3. \A c \in Clients : Safe(c)' = Safe(c)
    BY DEF Safe, Kept
  <2>4. \A c \in Clients : \A s \in Slots : flow'[c][s] # None => FlowSafe(c, flow[c][s])'
    BY <2>2, <2>3 DEF FlowSafe
  <2>5. \A c \in Clients : wrapper'[c] = None => Safe(c)'
    BY <1>2, <2>1, <2>3 DEF SafeOK
  <2> QED BY <2>1, <2>4, <2>5 DEF SafeOK, RecordSafe, Kept
<1> QED BY <1>1, <1>2 DEF SafeInv

SafeStart(c, f) == f = None \/ (FlowMade(f) /\ (Secure => FlowSafe(c, f)))

LEMMA StartsAreSafe ==
  ASSUME SafeInv, NEW c \in Clients
  PROVE  /\ SafeStart(c, Pushing(c)) /\ SafeStart(c, Syncing(c))
         /\ (Secure => Safe(c)) => SafeStart(c, Pulling(c))
         /\ wrapper[c] = None => SafeStart(c, Taken(c))
<1>0. BlobTypes
  BY DEF SafeInv, BlobInv
<1>1. SafeStart(c, Pushing(c))
  BY DEF SafeStart, Pushing, Flow, FlowMade, FlowSafe
<1>2. (Secure => Safe(c)) => SafeStart(c, Pulling(c))
  <2> SUFFICES ASSUME Secure => Safe(c), record[c] # None PROVE SafeStart(c, Pulling(c))
    BY DEF SafeStart, Pulling
  <2>1. /\ Pulling(c).at \in {"checking", "fetching"} /\ Pulling(c).bytes = None
    BY DEF Pulling, Flow
  <2> QED BY <2>1 DEF SafeStart, FlowMade, FlowSafe
<1>3. disk[c] = None => Safe(c)
  BY DEF Safe
<1>4. SafeStart(c, Syncing(c))
  <2>1. CASE disk[c] = None
    BY <1>2, <1>3, <2>1 DEF Syncing
  <2>2. CASE disk[c] # None /\ record[c] = None
    BY <1>1, <2>2 DEF Syncing
  <2>3. CASE disk[c] # None /\ record[c] # None
    <3>1. Meta(record[c]) # None /\ Meta(record[c]).synctime = record[c].synctime
      BY <1>0, <2>3, MetaType DEF Meta, BlobTypes
    <3>2. /\ Syncing(c).at = "comparing" /\ Syncing(c).bytes = None
          /\ Syncing(c).meta = Meta(record[c])
      BY <2>3 DEF Syncing, Flow
    <3>3. record[c].synctime <= clock
      BY <2>3 DEF SafeInv, MadeOK
    <3>4. disk[c].mtime <= record[c].synctime => Safe(c)
      BY <2>3 DEF Safe
    <3> HIDE DEF Safe
    <3> QED BY <3>1, <3>2, <3>3, <3>4 DEF SafeStart, FlowMade, FlowSafe
  <2> QED BY <2>1, <2>2, <2>3
<1>5. wrapper[c] = None => SafeStart(c, Taken(c))
  <2> SUFFICES ASSUME wrapper[c] = None PROVE SafeStart(c, Taken(c))
    OBVIOUS
  <2>1. Secure => Safe(c)
    BY DEF SafeInv, SafeOK
  <2> QED BY <1>1, <1>2, <2>1 DEF Taken
<1> QED BY <1>1, <1>2, <1>4, <1>5

LEMMA RefreshedNotNone ==
  ASSUME BlobTypes, NEW c \in Clients, Refreshed(c)
  PROVE  \A d \in Clients : wrapper'[d] = None => wrapper[d] = None
<1>1. [meta |-> Meta(record[c])] # None
  <2>1. [meta |-> Meta(record[c])] \in Wrapper
    BY MetaType DEF BlobTypes, Wrapper
  <2> QED BY <2>1, Nones
<1> QED BY <1>1, RefreshedWrapper

LEMMA StartsOne ==
  ASSUME BlobTypes, NEW c \in Clients, NEW f \in Maybe(Flows), Starts(c, f)
  PROVE  /\ \A d \in Clients : \A t \in Slots : flow'[d][t] = flow[d][t] \/ (d = c /\ flow'[d][t] = f)
         /\ \A d \in Clients : wrapper'[d] = None => wrapper[d] = None
<1>1. flow' = [flow EXCEPT ![c][Slot(c)] = f] /\ Refreshed(c)
  BY DEF Starts
<1>2. /\ flow' \in [Clients -> [Slots -> Maybe(Flows)]]
      /\ \A d \in Clients : \A t \in Slots : (d = c /\ t = Slot(c)) \/ flow'[d][t] = flow[d][t]
      /\ Slot(c) \in Slots => flow'[c][Slot(c)] = f
  BY <1>1, OneFlow
<1>3. \A d \in Clients : wrapper'[d] = None => wrapper[d] = None
  BY <1>1, RefreshedNotNone
<1> QED BY <1>2, <1>3

LEMMA StartsStaySafe ==
  ASSUME SafeInv, BlobInv', NEW c \in Clients, NEW f, Starts(c, f), SafeStart(c, f), f \in Maybe(Flows),
         UNCHANGED <<disk, record, relay, blobs, edits, clock, windows>>
  PROVE  SafeInv'
<1>1. /\ \A d \in Clients : \A t \in Slots : flow'[d][t] = flow[d][t] \/ (d = c /\ flow'[d][t] = f)
      /\ \A d \in Clients : wrapper'[d] = None => wrapper[d] = None
  BY StartsOne DEF SafeInv, BlobInv
<1>2. \A d \in Clients : \A t \in Slots :
        flow'[d][t] = flow[d][t] \/ flow'[d][t] = None
        \/ (FlowMade(flow'[d][t]) /\ (Secure => FlowSafe(d, flow'[d][t])))
  BY <1>1 DEF SafeStart
<1>3. windows \subseteq windows' /\ UNCHANGED <<disk, record, relay, blobs, edits, clock>>
  OBVIOUS
<1> QED BY <1>1, <1>2, <1>3, FlowsSafe

LEMMA GoesStaysSafe ==
  ASSUME SafeInv, BlobInv', NEW c \in Clients, NEW s \in Slots, NEW f, Goes(c, s, f), SafeStart(c, f),
         f \in Maybe(Flows), Refreshed(c) \/ UNCHANGED wrapper, windows \subseteq windows',
         UNCHANGED <<disk, record, relay, blobs, edits, clock>>
  PROVE  SafeInv'
<1>0. BlobTypes
  BY DEF SafeInv, BlobInv
<1>1. /\ \A d \in Clients : \A t \in Slots : (d = c /\ t = s) \/ flow'[d][t] = flow[d][t]
      /\ flow'[c][s] = f
  BY <1>0, OneFlow DEF Goes
<1>2. \A d \in Clients : wrapper'[d] = None => wrapper[d] = None
  BY <1>0, RefreshedNotNone
<1> QED BY <1>1, <1>2, FlowsSafe DEF SafeStart

LEMMA StartIsFlow ==
  ASSUME BlobTypes, NEW c \in Clients
  PROVE  /\ disk[c] # None => Pushing(c) \in Maybe(Flows) /\ Taken(c) \in Maybe(Flows)
         /\ Pulling(c) \in Maybe(Flows) /\ Syncing(c) \in Maybe(Flows)
BY StartsAreGood DEF GoodStart, Maybe

LEMMA CompareSafe ==
  ASSUME SafeInv, BlobInv', NEW c \in Clients, NEW s \in Slots, Compare(c, s)
  PROVE  SafeInv'
<1>0. BlobTypes /\ Stages /\ MadeOK
  BY DEF SafeInv, BlobInv
<1> DEFINE f == IF disk[c].bytes = flow[c][s].meta.hash THEN None
                ELSE IF LocalIsNewer(c, flow[c][s].meta) THEN Pushing(c) ELSE Pulling(c)
<1>1. /\ Goes(c, s, f) /\ UNCHANGED <<Still, windows>>
      /\ Refreshed(c) \/ UNCHANGED wrapper
      /\ flow[c][s] # None /\ flow[c][s].at = "comparing"
  BY Zenon DEF Compare, At
<1>2. disk[c] # None /\ disk[c].mtime \in Nat
  BY <1>0, <1>1, FileIs DEF Stages, StageOK
<1>3. flow[c][s].meta \in SyncMeta
  BY <1>0, <1>1 DEF MadeOK, FlowMade, BlobTypes, Maybe, Flows
<1>4. ~LocalIsNewer(c, flow[c][s].meta) => (Secure => Safe(c))
  <2>1. flow[c][s].meta.synctime \in Nat
    BY <1>3 DEF SyncMeta
  <2>2. Secure => FlowSafe(c, flow[c][s])
    BY <1>1 DEF SafeInv, SafeOK
  <2> QED BY <1>1, <1>2, <2>1, <2>2 DEF LocalIsNewer, FlowSafe
<1>5. SafeStart(c, f)
  <2>1. SafeStart(c, None)
    BY DEF SafeStart
  <2> QED BY <1>4, <2>1, StartsAreSafe
<1>6. f \in Maybe(Flows)
  BY <1>0, <1>2, StartIsFlow DEF Maybe
<1> HIDE DEF f
<1>7. UNCHANGED <<disk, record, relay, blobs, edits, clock>> /\ windows \subseteq windows'
  BY <1>1 DEF Still, net, counts
<1> QED BY <1>1, <1>5, <1>6, <1>7, GoesStaysSafe

LEMMA HashedSafe ==
  ASSUME SafeInv, BlobInv', NEW c \in Clients, NEW s \in Slots, Hashed(c, s)
  PROVE  SafeInv'
<1>0. BlobTypes /\ Stages /\ MadeOK
  BY DEF SafeInv, BlobInv
<1> DEFINE f == IF OutOfDate(c) THEN [Flow("naming") EXCEPT !.bytes = disk[c].bytes] ELSE None
<1>1. /\ Goes(c, s, f) /\ UNCHANGED <<Still, windows>> /\ Refreshed(c)
      /\ flow[c][s] # None /\ flow[c][s].at = "hashing"
  BY Zenon DEF Hashed, At
<1>2. disk[c] # None /\ disk[c].bytes \in Bytes /\ disk[c].bytes \in Made
  BY <1>0, <1>1, FileIs DEF Stages, StageOK, MadeOK
<1>3. SafeStart(c, f) /\ f \in Maybe(Flows)
  <2> DEFINE g == [Flow("naming") EXCEPT !.bytes = disk[c].bytes]
  <2>1. g.at = "naming" /\ g.bytes = disk[c].bytes
    BY DEF Flow
  <2>2. g \in Flows
    BY <1>2, FlowTypes DEF Ats
  <2> HIDE DEF g
  <2>3. FlowMade(g) /\ FlowSafe(c, g)
    BY <1>2, <2>1 DEF FlowMade, FlowSafe
  <2>4. f = g \/ f = None
    BY DEF g
  <2> QED BY <2>2, <2>3, <2>4 DEF SafeStart, Maybe
<1> HIDE DEF f
<1>4. UNCHANGED <<disk, record, relay, blobs, edits, clock>> /\ windows \subseteq windows'
  BY <1>1 DEF Still, net, counts
<1> QED BY <1>1, <1>3, <1>4, GoesStaysSafe

LEMMA NamedSafe ==
  ASSUME SafeInv, BlobInv', NEW c \in Clients, NEW s \in Slots, Named(c, s)
  PROVE  SafeInv'
<1>0. BlobTypes /\ Stages /\ MadeOK
  BY DEF SafeInv, BlobInv
<1> DEFINE f == [flow[c][s] EXCEPT !.at = "putting", !.hash = disk[c].bytes]
<1>1. /\ Goes(c, s, f) /\ UNCHANGED <<Still, windows, wrapper>>
      /\ flow[c][s] # None /\ flow[c][s].at = "naming"
  BY Zenon DEF Named, At
<1>2. flow[c][s] \in Flows /\ disk[c].bytes \in Bytes
  BY <1>0, <1>1, FileIs DEF Stages, StageOK, BlobTypes, Maybe
<1>3. f \in Flows /\ f.at = "putting" /\ f.bytes = flow[c][s].bytes /\ f.hash = disk[c].bytes
  BY <1>2 DEF Flows, Maybe
<1> HIDE DEF f
<1>4. FlowMade(f)
  BY <1>0, <1>1, <1>3 DEF MadeOK, FlowMade
<1>5. Secure => FlowSafe(c, f)
  <2>1. Secure => FlowSafe(c, flow[c][s])
    BY <1>1 DEF SafeInv, SafeOK
  <2> QED BY <1>1, <1>3, <2>1 DEF FlowSafe
<1>6. SafeStart(c, f) /\ f \in Maybe(Flows)
  BY <1>3, <1>4, <1>5 DEF SafeStart, Maybe
<1>7. UNCHANGED <<disk, record, relay, blobs, edits, clock>> /\ windows \subseteq windows'
  BY <1>1 DEF Still, net, counts
<1> QED BY <1>1, <1>6, <1>7, GoesStaysSafe

LEMMA CheckedSafe ==
  ASSUME SafeInv, BlobInv', NEW c \in Clients, NEW s \in Slots, Checked(c, s)
  PROVE  SafeInv'
<1>0. BlobTypes /\ Stages /\ MadeOK
  BY DEF SafeInv, BlobInv
<1> DEFINE f == IF disk[c].bytes = wrapper[c].meta.hash THEN None
                ELSE [Flow("fetching") EXCEPT !.want = wrapper[c].meta.hash]
<1>1. /\ Goes(c, s, f) /\ UNCHANGED <<Still, windows, wrapper>>
      /\ flow[c][s] # None /\ flow[c][s].at = "checking"
  BY Zenon DEF Checked, At
<1>2. Secure => Safe(c)
  BY <1>1 DEF SafeInv, SafeOK, FlowSafe
<1>3. wrapper[c].meta.hash \in Bytes
  BY <1>0, <1>1 DEF Stages, StageOK, BlobTypes, Maybe, Wrapper, SyncMeta
<1>4. SafeStart(c, f) /\ f \in Maybe(Flows)
  <2> DEFINE g == [Flow("fetching") EXCEPT !.want = wrapper[c].meta.hash]
  <2>1. g.at = "fetching" /\ g.bytes = None
    BY DEF Flow
  <2>2. g \in Flows
    BY <1>3, FlowTypes DEF Ats
  <2> HIDE DEF g
  <2>3. FlowMade(g) /\ (Secure => FlowSafe(c, g))
    BY <1>2, <2>1 DEF FlowMade, FlowSafe
  <2>4. f = g \/ f = None
    BY DEF g
  <2> QED BY <2>2, <2>3, <2>4 DEF SafeStart, Maybe
<1> HIDE DEF f
<1>5. UNCHANGED <<disk, record, relay, blobs, edits, clock>> /\ windows \subseteq windows'
  BY <1>1 DEF Still, net, counts
<1> QED BY <1>1, <1>4, <1>5, GoesStaysSafe

LEMMA FailsSafe ==
  ASSUME SafeInv, BlobInv', NEW c \in Clients, NEW s \in Slots, Fails(c, s) \/ PutRefused(c, s)
  PROVE  SafeInv'
<1>1. /\ UNCHANGED <<disk, record, relay, blobs, edits, clock, wrapper>> /\ windows \subseteq windows'
      /\ Goes(c, s, None) \/ Goes(c, s, Flow("noting"))
  BY DEF Fails, PutRefused, Fault, Ends, net
<1>2. /\ SafeStart(c, None) /\ None \in Maybe(Flows)
      /\ SafeStart(c, Flow("noting")) /\ Flow("noting") \in Maybe(Flows)
  <2>1. SafeStart(c, Flow("noting"))
    BY DEF SafeStart, Flow, FlowMade, FlowSafe
  <2> QED BY <2>1, FlowTypes DEF SafeStart, Maybe, Ats
<1> QED BY <1>1, <1>2, GoesStaysSafe

LEMMA StartingSafe ==
  ASSUME SafeInv, BlobInv', NEW c \in Clients, Adopt(c) \/ Scan(c) \/ SyncCommand(c)
  PROVE  SafeInv'
<1>0. BlobTypes
  BY DEF SafeInv, BlobInv
<1>1. UNCHANGED <<disk, record, relay, blobs, edits, clock, windows>>
  BY DEF Adopt, Scan, SyncCommand, Still, net, counts, Fault
<1>2. CASE Adopt(c)
  <2>1. wrapper[c] = None /\ disk[c] # None /\ Starts(c, Taken(c))
    BY <1>2 DEF Adopt
  <2> QED BY <1>0, <1>1, <2>1, StartsAreSafe, StartIsFlow, StartsStaySafe
<1>3. CASE SyncCommand(c)
  <2>1. Starts(c, Syncing(c))
    BY <1>3 DEF SyncCommand
  <2> QED BY <1>0, <1>1, <2>1, StartsAreSafe, StartIsFlow, StartsStaySafe
<1>4. CASE Scan(c)
  <2>1. CASE record[c] # None /\ NeedsPull(c)
    <3>1. Starts(c, Pulling(c))
      BY <1>4, <2>1 DEF Scan
    <3>2. Safe(c)
      <4>1. CASE disk[c] = None
        BY <4>1 DEF Safe
      <4>2. CASE disk[c] # None
        <5>1. record[c].synctime > disk[c].mtime /\ disk[c].mtime \in Nat /\ record[c].synctime \in Nat
          BY <1>0, <2>1, <4>2, FileIs, RecordIsOne DEF NeedsPull
        <5>2. disk[c].mtime <= record[c].synctime
          BY <5>1
        <5> QED BY <2>1, <5>2 DEF Safe
      <4> QED BY <4>1, <4>2
    <3> QED BY <1>0, <1>1, <3>1, <3>2, StartsAreSafe, StartIsFlow, StartsStaySafe
  <2>2. CASE ~(record[c] # None /\ NeedsPull(c))
    <3>1. UNCHANGED <<flow, wrapper>>
      BY <1>4, <2>2 DEF Scan
    <3> QED BY <1>1, <3>1, FlowsSafe
  <2> QED BY <2>1, <2>2
<1> QED BY <1>2, <1>3, <1>4

LEMMA ModifiedSafe ==
  ASSUME SafeInv, BlobInv', NEW c \in Clients, Modified(c)
  PROVE  SafeInv'
<1>0. BlobTypes
  BY DEF SafeInv, BlobInv
<1>1. UNCHANGED <<disk, record, relay, blobs, edits, clock, windows>>
  BY DEF Modified, Still, net, counts
<1>2. CASE wrapper[c] # None
  <2>1. Starts(c, Syncing(c))
    BY <1>2 DEF Modified
  <2> QED BY <1>0, <1>1, <2>1, StartsAreSafe, StartIsFlow, StartsStaySafe
<1>3. CASE wrapper[c] = None
  <2>1. PICK s, t \in Free(c) :
          /\ s < t /\ flow' = [flow EXCEPT ![c][s] = Taken(c), ![c][t] = Syncing(c)]
          /\ Refreshed(c)
    BY <1>3, Zenon DEF Modified
  <2>2. s \in Slots /\ t \in Slots
    BY DEF Free
  <2>3. \A d \in Clients : \A u \in Slots :
          flow'[d][u] = flow[d][u] \/ (d = c /\ flow'[d][u] \in {Taken(c), Syncing(c)})
    <3>1. /\ \A d \in Clients \ {c} : flow'[d] = flow[d]
          /\ flow'[c] = [flow[c] EXCEPT ![s] = Taken(c), ![t] = Syncing(c)]
      BY <1>0, <2>1, <2>2 DEF BlobTypes
    <3>2. flow[c] \in [Slots -> Maybe(Flows)]
      BY <1>0 DEF BlobTypes
    <3>3. \A u \in Slots : flow'[c][u] = flow[c][u] \/ flow'[c][u] \in {Taken(c), Syncing(c)}
      BY <2>2, <3>1, <3>2
    <3> QED BY <3>1, <3>3
  <2>4. SafeStart(c, Taken(c)) /\ SafeStart(c, Syncing(c))
    BY <1>3, StartsAreSafe
  <2>5. \A d \in Clients : \A u \in Slots :
          flow'[d][u] = flow[d][u] \/ flow'[d][u] = None
          \/ (FlowMade(flow'[d][u]) /\ (Secure => FlowSafe(d, flow'[d][u])))
    BY <2>3, <2>4 DEF SafeStart
  <2>6. \A d \in Clients : wrapper'[d] = None => wrapper[d] = None
    BY <1>0, <2>1, RefreshedNotNone
  <2> QED BY <1>1, <2>5, <2>6, FlowsSafe
<1> QED BY <1>2, <1>3

\* What is not saved when the plugin stops opens a window; the rest is safe without a wrapper.
LEMMA PluginSafe ==
  ASSUME SafeInv, BlobInv', NEW c \in Clients, Stop(c) \/ Start(c) \/ Drop(c) \/ Connect(c)
  PROVE  SafeInv'
<1>0. BlobTypes
  BY DEF SafeInv, BlobInv
<1>1. CASE Stop(c)
  <2>1. /\ UNCHANGED <<disk, record, relay, blobs, edits, clock>> /\ windows \subseteq windows'
        /\ windows' = windows \cup IF Unsaved(c) THEN {"unsaved offline"} ELSE {}
    BY <1>1 DEF Stop, Offline, Fault, net
  <2>2. \A d \in Clients : \A s \in Slots : flow'[d][s] = flow[d][s] \/ flow'[d][s] = None
    <3>1. flow' = [flow EXCEPT ![c] = [s \in Slots |-> None]]
      BY <1>1 DEF Stop
    <3> QED BY <1>0, <3>1 DEF BlobTypes
  <2>3. \A d \in Clients \ {c} : wrapper'[d] = wrapper[d]
    <3>1. wrapper' = [wrapper EXCEPT ![c] = None]
      BY <1>1 DEF Stop
    <3> QED BY <1>0, <3>1 DEF BlobTypes
  <2>4. Secure' => Safe(c)
    <3> SUFFICES ASSUME Secure' PROVE Safe(c)
      OBVIOUS
    <3>1. Secure /\ SafeOK
      BY <2>1, StaysSecure DEF SafeInv
    <3>2. ~Unsaved(c)
      BY <2>1 DEF Secure, Lost
    <3>3. disk[c] # None => record[c] # None /\ RecordSafe(record[c]) /\ record[c].hash = disk[c].bytes
      BY <3>1, <3>2 DEF Unsaved, SafeOK
    <3> QED BY <3>3 DEF RecordSafe, Safe
  <2> QED BY <2>1, <2>2, <2>3, <2>4, FlowsSafe
<1>2. CASE Start(c) \/ Drop(c) \/ Connect(c)
  <2>1. UNCHANGED <<disk, record, relay, blobs, edits, clock, flow, wrapper>> /\ windows \subseteq windows'
    BY <1>2 DEF Start, Drop, Connect, Offline, Fault, net, counts
  <2> QED BY <2>1, FlowsSafe
<1> QED BY <1>1, <1>2

\* Steps that leave files and the server alone, and change records.
LEMMA RecordingSafe ==
  ASSUME SafeInv, BlobInv', UNCHANGED <<disk, blobs, edits, clock, wrapper>>, windows \subseteq windows',
         \A c \in Clients : \A s \in Slots : flow'[c][s] = flow[c][s] \/ flow'[c][s] = None,
         \A c \in Clients : record'[c] # None => record'[c].hash \in Made /\ record'[c].synctime <= clock,
         relay' # None => relay'.hash \in Made /\ relay'.synctime <= clock,
         Secure' /\ SafeOK => /\ \A c \in Clients : record'[c] # None => RecordSafe(record'[c])
                              /\ relay' # None => RecordSafe(relay')
                              /\ \A c \in Clients : Safe(c) => Safe(c)'
  PROVE  SafeInv'
<1>1. MadeOK'
  BY DEF SafeInv, MadeOK, FlowMade, Made
<1>2. ASSUME Secure' PROVE SafeOK'
  <2>1. Secure /\ SafeOK
    BY <1>2, StaysSecure DEF SafeInv
  <2>2. /\ \A c \in Clients : record'[c] # None => RecordSafe(record'[c])
        /\ relay' # None => RecordSafe(relay')
        /\ \A c \in Clients : Safe(c) => Safe(c)'
    BY <1>2, <2>1
  <2>3. \A c \in Clients : \A s \in Slots : flow'[c][s] # None => FlowSafe(c, flow[c][s])'
    <3> SUFFICES ASSUME NEW c \in Clients, NEW s \in Slots, flow'[c][s] # None
                 PROVE  FlowSafe(c, flow[c][s])'
      OBVIOUS
    <3>1. flow'[c][s] = flow[c][s] /\ FlowSafe(c, flow[c][s])
      BY <2>1 DEF SafeOK
    <3> QED BY <2>2, <3>1 DEF FlowSafe
  <2>4. \A c \in Clients : wrapper'[c] = None => Safe(c)'
    BY <2>1, <2>2 DEF SafeOK
  <2>5. /\ \A c \in Clients : record'[c] # None => RecordSafe(record[c])'
        /\ relay' # None => RecordSafe(relay)'
    BY <2>2 DEF RecordSafe, Kept
  <2>6. /\ \A h \in Bytes : blobs'[h] \in {None, h}
        /\ \A c, d \in Clients :
             c # d /\ disk'[c] # None /\ disk'[d] # None /\ disk'[c].bytes = disk'[d].bytes
             /\ disk'[c].bytes # Garbage => Kept(disk[c].bytes)'
    BY <2>1 DEF SafeOK, Kept
  <2> QED BY <2>3, <2>4, <2>5, <2>6 DEF SafeOK
<1> QED BY <1>1, <1>2 DEF SafeInv

LEMMA NotedSafe ==
  ASSUME SafeInv, BlobInv', NEW c \in Clients, NEW s \in Slots, Noted(c, s)
  PROVE  SafeInv'
<1>0. BlobTypes /\ Stages /\ MadeOK
  BY DEF SafeInv, BlobInv
<1>1. /\ flow[c][s] # None /\ flow[c][s].at = "noting" /\ Goes(c, s, None)
      /\ UNCHANGED <<disk, blobs, wrapper, edits, clock, relay>> /\ windows \subseteq windows'
  BY DEF Noted, At, Ends, counts
<1>2. \A d \in Clients : \A t \in Slots : flow'[d][t] = flow[d][t] \/ flow'[d][t] = None
  BY <1>0, <1>1, FlowEnds
<1>3. disk[c] # None /\ disk[c].bytes \in Made /\ disk[c].mtime \in Nat /\ disk[c].mtime <= clock
  BY <1>0, <1>1, FileIs DEF Stages, StageOK, MadeOK
<1>4. CASE record' = record
  BY <1>1, <1>2, <1>4, FlowsSafe
<1>5. CASE record' # record
  <2> DEFINE by == IF record[c] = None THEN <<>> ELSE record[c].by
             r == [hash |-> disk[c].bytes, synctime |-> disk[c].mtime, by |-> Append(by, c)]
  <2>1. record' = [record EXCEPT ![c] = r]
    BY <1>5, Zenon DEF Noted
  <2>2. r.hash = disk[c].bytes /\ r.synctime = disk[c].mtime /\ r # None
    <3>1. by \in Seq(Clients)
      BY <1>0 DEF BlobTypes, Maybe, Record
    <3>2. r \in Record
      BY <1>0, <1>3, <3>1, FileIs DEF Record
    <3> QED BY <3>2, Nones
  <2> HIDE DEF r
  <2>3. /\ record'[c] = r
        /\ \A d \in Clients \ {c} : record'[d] = record[d]
    BY <1>0, <2>1 DEF BlobTypes
  <2>4. \A d \in Clients : record'[d] # None => record'[d].hash \in Made /\ record'[d].synctime <= clock
    BY <1>0, <1>3, <2>2, <2>3 DEF MadeOK
  <2>5. relay' # None => relay'.hash \in Made /\ relay'.synctime <= clock
    BY <1>0, <1>1 DEF MadeOK
  <2>6. ASSUME SafeOK
        PROVE  /\ \A d \in Clients : record'[d] # None => RecordSafe(record'[d])
               /\ relay' # None => RecordSafe(relay')
               /\ \A d \in Clients : Safe(d) => Safe(d)'
    <3>1. RecordSafe(r)
      <4> SUFFICES ASSUME NEW d \in Clients, disk[d] # None, disk[d].bytes = r.hash, r.hash # Garbage
                   PROVE  Kept(r.hash) \/ disk[d].mtime <= r.synctime
        BY DEF RecordSafe
      <4>1. CASE d = c
        BY <1>3, <2>2, <4>1
      <4>2. CASE d # c
        BY <1>3, <2>2, <2>6, <4>2 DEF SafeOK
      <4> QED BY <4>1, <4>2
    <3>2. \A d \in Clients \ {c} : Safe(d) => Safe(d)'
      BY <1>1, <2>3 DEF Safe, Kept
    <3>3. Safe(c)'
      BY <1>1, <1>3, <2>2, <2>3 DEF Safe
    <3> QED BY <1>1, <2>3, <2>6, <3>1, <3>2, <3>3 DEF SafeOK
  <2> QED BY <1>1, <1>2, <2>4, <2>5, <2>6, RecordingSafe
<1> QED BY <1>4, <1>5

\* A record that came from the relay is no older than the file, or what it replaced was not either.
LEMMA MergeSafe ==
  ASSUME SafeInv, BlobInv', NEW c \in Clients, Send(c) \/ Receive(c)
  PROVE  SafeInv'
<1>0. BlobTypes /\ MadeOK
  BY DEF SafeInv, BlobInv
<1>1. UNCHANGED <<disk, blobs, wrapper, edits, clock, flow>> /\ windows \subseteq windows'
  BY DEF Send, Receive, counts
<1>2. \A a, b : Merged(a, b) \in {a, b}
  BY DEF Merged
<1>3. CASE Send(c)
  <2>1. UNCHANGED record /\ relay' \in {relay, record[c]}
    BY <1>2, <1>3 DEF Send
  <2>2. \A d \in Clients : Safe(d) => Safe(d)'
    BY <1>1, <2>1 DEF Safe, Kept
  <2>3. relay' # None => relay'.hash \in Made /\ relay'.synctime <= clock
    BY <1>0, <2>1 DEF MadeOK
  <2>4. SafeOK => (relay' # None => RecordSafe(relay')) /\ \A d \in Clients : record'[d] # None => RecordSafe(record'[d])
    BY <2>1 DEF SafeOK
  <2>5. \A d \in Clients : record'[d] # None => record'[d].hash \in Made /\ record'[d].synctime <= clock
    BY <1>0, <2>1 DEF MadeOK
  <2> QED BY <1>1, <2>2, <2>3, <2>4, <2>5, RecordingSafe
<1>4. CASE Receive(c)
  <2>1. /\ record' = [record EXCEPT ![c] = Merged(record[c], relay)] /\ record' # record
        /\ UNCHANGED relay
        /\ windows' = windows \cup (IF WentBack(c, record'[c]) THEN {"record went back"} ELSE {})
    BY <1>4 DEF Receive
  <2>2. Merged(record[c], relay) = relay /\ relay # None
    <3>1. Merged(record[c], relay) = record[c] => record' = record
      BY <1>0, <2>1 DEF BlobTypes
    <3>2. Merged(record[c], relay) # record[c]
      BY <2>1, <3>1
    <3>3. relay = None => Merged(record[c], relay) = record[c]
      BY DEF Merged
    <3> QED BY <1>2, <3>2, <3>3
  <2>3. /\ record'[c] = relay
        /\ \A d \in Clients \ {c} : record'[d] = record[d]
    BY <1>0, <2>1, <2>2 DEF BlobTypes
  <2>4. Secure' => (Safe(c) => Safe(c)')
    <3> SUFFICES ASSUME Secure', Safe(c), disk[c] # None, disk[c].bytes # Garbage, ~Kept(disk[c].bytes)
                 PROVE  disk[c].mtime <= relay.synctime
      BY <1>1, <2>2, <2>3 DEF Safe, Kept
    <3>1. record[c] # None /\ disk[c].mtime <= record[c].synctime
      BY DEF Safe
    <3>2. ~WentBack(c, relay)
      BY <2>1, <2>3 DEF Secure, Lost
    <3>3. ~(relay.synctime < disk[c].mtime)
      BY <3>1, <3>2 DEF WentBack, Kept
    <3> QED BY <1>0, <2>2, <3>3, FileIs, RecordIsOne
  <2>5. \A d \in Clients \ {c} : Safe(d) => Safe(d)'
    BY <1>1, <2>3 DEF Safe, Kept
  <2>6. /\ \A d \in Clients : record'[d] # None => record'[d].hash \in Made /\ record'[d].synctime <= clock
        /\ relay' # None => relay'.hash \in Made /\ relay'.synctime <= clock
    BY <1>0, <2>1, <2>3 DEF MadeOK
  <2>7. SafeOK => (relay' # None => RecordSafe(relay')) /\ \A d \in Clients : record'[d] # None => RecordSafe(record'[d])
    BY <2>1, <2>3 DEF SafeOK
  <2> QED BY <1>1, <2>4, <2>5, <2>6, <2>7, RecordingSafe
<1> QED BY <1>3, <1>4

\* What a push uploads is what it says: more is kept, and nothing less.
LEMMA PutSafe ==
  ASSUME SafeInv, BlobInv', NEW c \in Clients, NEW s \in Slots, Put(c, s)
  PROVE  SafeInv'
<1>0. BlobTypes /\ Stages /\ MadeOK
  BY DEF SafeInv, BlobInv
<1> DEFINE h == flow[c][s].hash
           b == flow[c][s].bytes
<1>1. /\ flow[c][s] # None /\ flow[c][s].at = "putting" /\ Goes(c, s, Flow("noting"))
      /\ blobs' = [blobs EXCEPT ![h] = b]
      /\ UNCHANGED <<disk, record, relay, edits, clock, wrapper, windows>>
  BY DEF Put, At, counts
<1>2. Flow("noting") \in Maybe(Flows) /\ Flow("noting").at = "noting" /\ Flow("noting").bytes = None
  BY FlowTypes DEF Ats, Maybe, Flow
<1>3. /\ \A d \in Clients : \A t \in Slots : (d = c /\ t = s) \/ flow'[d][t] = flow[d][t]
      /\ flow'[c][s] = Flow("noting")
  BY <1>0, <1>1, <1>2, OneFlow DEF Goes
<1>4. MadeOK'
  <2>1. FlowMade(flow[c][s])
    BY <1>0, <1>1 DEF MadeOK
  <2>2. \A x \in Bytes : blobs'[x] # None => blobs'[x] \in Made
    BY <1>0, <1>1, <2>1 DEF MadeOK, FlowMade, BlobTypes
  <2>3. \A d \in Clients : \A t \in Slots : flow'[d][t] # None => FlowMade(flow'[d][t])
    BY <1>0, <1>2, <1>3 DEF MadeOK, FlowMade
  <2> QED BY <1>0, <1>1, <2>2, <2>3 DEF MadeOK, FlowMade, Made
<1>5. ASSUME Secure' PROVE SafeOK'
  <2>1. Secure /\ SafeOK
    BY <1>1, <1>5 DEF Secure, Lost, SafeInv
  <2>2. h = disk[c].bytes /\ b = h /\ h \in Bytes
    <3>1. FlowSafe(c, flow[c][s]) /\ disk[c] # None
      BY <1>0, <1>1, <2>1 DEF SafeOK, Stages, StageOK
    <3> QED BY <1>0, <1>1, <3>1, FileIs DEF FlowSafe
  <2> HIDE DEF h, b
  <2>3. \A x \in Bytes : Kept(x) => Kept(x)'
    BY <1>0, <1>1, <2>2 DEF Kept, BlobTypes
  <2>4. \A x \in Bytes : blobs'[x] \in {None, x}
    BY <1>0, <1>1, <2>1, <2>2 DEF SafeOK, BlobTypes
  <2>5. \A d \in Clients : Safe(d) => Safe(d)'
    BY <1>0, <1>1, <2>3, FileIs DEF Safe
  <2>6. \A d \in Clients : \A t \in Slots : flow'[d][t] # None => FlowSafe(d, flow[d][t])'
    <3> SUFFICES ASSUME NEW d \in Clients, NEW t \in Slots, flow'[d][t] # None
                 PROVE  FlowSafe(d, flow[d][t])'
      OBVIOUS
    <3>1. CASE d = c /\ t = s
      BY <1>2, <1>3, <3>1 DEF FlowSafe
    <3>2. CASE ~(d = c /\ t = s)
      <4>1. flow'[d][t] = flow[d][t] /\ FlowSafe(d, flow[d][t])
        BY <1>3, <2>1, <3>2 DEF SafeOK
      <4> QED BY <1>1, <2>5, <4>1 DEF FlowSafe
    <3> QED BY <3>1, <3>2
  <2>7. \A d \in Clients : wrapper'[d] = None => Safe(d)'
    BY <1>1, <2>1, <2>5 DEF SafeOK
  <2>8. \A r : r.hash \in Bytes /\ RecordSafe(r) => RecordSafe(r)'
    BY <1>1, <2>3 DEF RecordSafe
  <2>9. /\ \A d \in Clients : record'[d] # None => RecordSafe(record[d])'
        /\ relay' # None => RecordSafe(relay)'
    BY <1>0, <1>1, <2>1, <2>3, RecordIsOne DEF SafeOK, RecordSafe
  <2>10. \A d, e \in Clients :
           d # e /\ disk'[d] # None /\ disk'[e] # None /\ disk'[d].bytes = disk'[e].bytes
           /\ disk'[d].bytes # Garbage => Kept(disk[d].bytes)'
    BY <1>0, <1>1, <2>1, <2>3, FileIs DEF SafeOK
  <2> QED BY <2>4, <2>6, <2>7, <2>9, <2>10 DEF SafeOK
<1> QED BY <1>4, <1>5 DEF SafeInv

\* A file is written with what the server has or a failed response, or by an edit
\* that no pull is to write over.
LEMMA WritingSafe ==
  ASSUME SafeInv, BlobInv', NEW c \in Clients, NEW b \in Bytes,
         disk' = [disk EXCEPT ![c] = [bytes |-> b, mtime |-> clock + 1]], clock' = clock + 1,
         UNCHANGED <<record, relay, blobs, wrapper>>, edits' \in {edits, edits + 1}, b \in 1..edits' \cup {Garbage},
         (windows \cup Raced(c)) \subseteq windows',
         \A d \in Clients : \A s \in Slots : flow'[d][s] = flow[d][s] \/ flow'[d][s] = None,
         Secure' /\ SafeOK =>
           \/ b = Garbage
           \/ Kept(b)
           \/ /\ b \notin Made /\ wrapper[c] # None
              /\ \A s \in Slots : flow[c][s] # None => flow[c][s].at \notin {"checking", "fetching"}
  PROVE  SafeInv'
<1>0. BlobTypes /\ MadeOK
  BY DEF SafeInv, BlobInv
<1> DEFINE file == [bytes |-> b, mtime |-> clock + 1]
<1>1. /\ disk'[c] = file /\ file.bytes = b /\ file.mtime = clock + 1 /\ file # None
      /\ \A d \in Clients \ {c} : disk'[d] = disk[d]
  <2>1. file \in File
    BY <1>0 DEF File, BlobTypes
  <2> QED BY <1>0, <2>1, Nones DEF BlobTypes
<1> HIDE DEF file
<1>2. edits \in Nat /\ clock \in Nat
  BY <1>0 DEF BlobTypes
<1>3. \A h : h \in Made => h \in Made'
  BY <1>2 DEF Made
<1>4. MadeOK'
  <2>1. \A d \in Clients : disk'[d] # None => disk'[d].bytes \in Made' /\ disk'[d].mtime <= clock'
    <3>1. b \in Made'
      BY DEF Made
    <3>2. \A d \in Clients : disk[d] # None => disk[d].mtime \in Nat
      BY <1>0, FileIs
    <3> QED BY <1>0, <1>1, <1>2, <1>3, <3>1, <3>2 DEF MadeOK
  <2>2. /\ \A d \in Clients : record[d] # None => record[d].hash \in Made' /\ record[d].synctime <= clock'
        /\ relay # None => relay.hash \in Made' /\ relay.synctime <= clock'
    BY <1>0, <1>2, <1>3, RecordIsOne DEF MadeOK
  <2>3. \A h \in Bytes : blobs[h] # None => blobs[h] \in Made'
    BY <1>0, <1>3 DEF MadeOK
  <2>4. ASSUME NEW d \in Clients, NEW s \in Slots, flow'[d][s] # None
        PROVE  /\ flow'[d][s].bytes # None => flow'[d][s].bytes \in Made'
               /\ flow'[d][s].at = "comparing" => flow'[d][s].meta # None /\ flow'[d][s].meta.synctime <= clock'
    <3>1. flow'[d][s] = flow[d][s] /\ FlowMade(flow[d][s]) /\ flow[d][s] \in Flows
      BY <1>0, <2>4 DEF MadeOK, BlobTypes, Maybe
    <3>2. flow[d][s].meta # None => flow[d][s].meta.synctime \in Nat
      BY <3>1 DEF Flows, Maybe, SyncMeta
    <3> QED BY <1>2, <1>3, <3>1, <3>2 DEF FlowMade
  <2>5. \A d \in Clients : \A s \in Slots : flow'[d][s] # None => FlowMade(flow[d][s])'
    BY <2>4 DEF FlowMade
  <2> QED BY <2>1, <2>2, <2>3, <2>5 DEF MadeOK
<1>5. ASSUME Secure' PROVE SafeOK'
  <2>1. Secure /\ SafeOK
    BY <1>5 DEF Secure, Lost, SafeInv
  <2>2. \/ b = Garbage
        \/ Kept(b)
        \/ /\ b \notin Made /\ wrapper[c] # None
           /\ \A s \in Slots : flow[c][s] # None => flow[c][s].at \notin {"checking", "fetching"}
    BY <1>5, <2>1
  <2>3. \A d \in Clients \ {c} : Safe(d) => Safe(d)'
    BY <1>1 DEF Safe, Kept
  <2>4. b = Garbage \/ Kept(b) => Safe(c)'
    BY <1>1 DEF Safe, Kept
  <2>5. \A s \in Slots : flow[c][s] # None => flow[c][s].at \notin Reads
    BY <1>5 DEF Secure, Lost, Raced
  <2>6. ASSUME NEW d \in Clients, NEW s \in Slots, flow'[d][s] # None
        PROVE  FlowSafe(d, flow[d][s])'
    <3>1. flow'[d][s] = flow[d][s] /\ FlowSafe(d, flow[d][s]) /\ FlowMade(flow[d][s]) /\ flow[d][s] \in Flows
      BY <1>0, <2>1, <2>6 DEF MadeOK, SafeOK, BlobTypes, Maybe
    <3>2. CASE d # c
      BY <1>1, <2>3, <3>1, <3>2 DEF FlowSafe
    <3>3. CASE d = c
      <4>1. flow[c][s].at \notin Reads
        BY <2>5, <2>6, <3>1, <3>3
      <4>2. CASE b = Garbage \/ Kept(b)
        BY <2>4, <3>1, <3>3, <4>1, <4>2 DEF FlowSafe, Reads
      <4>3. CASE \A t \in Slots : flow[c][t] # None => flow[c][t].at \notin {"checking", "fetching"}
        <5>1. flow[c][s].at \notin {"checking", "fetching"}
          BY <2>6, <3>1, <3>3, <4>3
        <5>2. flow[c][s].at = "comparing" => ~(disk'[c].mtime <= flow[c][s].meta.synctime)
          <6> SUFFICES ASSUME flow[c][s].at = "comparing" PROVE ~(clock + 1 <= flow[c][s].meta.synctime)
            BY <1>1
          <6>1. flow[c][s].meta # None /\ flow[c][s].meta.synctime <= clock
            BY <3>1, <3>3 DEF FlowMade
          <6>2. flow[c][s].meta.synctime \in Nat
            BY <3>1, <3>3, <6>1 DEF Flows, Maybe, SyncMeta
          <6> QED BY <1>2, <6>1, <6>2
        <5> QED BY <3>1, <3>3, <4>1, <5>1, <5>2 DEF FlowSafe, Reads
      <4> QED BY <2>2, <4>2, <4>3
    <3> QED BY <3>2, <3>3
  <2>7. \A d \in Clients : wrapper'[d] = None => Safe(d)'
    BY <2>1, <2>2, <2>3, <2>4 DEF SafeOK
  <2>8. ASSUME NEW r, r.hash \in Made, RecordSafe(r)
        PROVE  \A d \in Clients : disk'[d] # None /\ disk'[d].bytes = r.hash /\ r.hash # Garbage =>
                 Kept(r.hash) \/ disk'[d].mtime <= r.synctime
    BY <1>1, <2>2, <2>8 DEF RecordSafe
  <2>9. /\ \A d \in Clients : record'[d] # None => RecordSafe(record[d])'
        /\ relay' # None => RecordSafe(relay)'
    <3>1. /\ \A d \in Clients : record[d] # None => record[d].hash \in Made /\ RecordSafe(record[d])
          /\ relay # None => relay.hash \in Made /\ RecordSafe(relay)
      BY <1>0, <2>1 DEF MadeOK, SafeOK
    <3> QED BY <2>8, <3>1 DEF RecordSafe, Kept
  <2>10. ASSUME NEW d \in Clients, NEW e \in Clients, d # e, disk'[d] # None, disk'[e] # None,
                disk'[d].bytes = disk'[e].bytes, disk'[d].bytes # Garbage
         PROVE  Kept(disk[d].bytes)'
    <3>1. CASE d # c /\ e # c
      BY <1>1, <2>1, <2>10, <3>1 DEF SafeOK, Kept
    <3>2. CASE d = c \/ e = c
      <4>1. b = disk'[d].bytes /\ b \in Made
        BY <1>0, <1>1, <2>10, <3>2 DEF MadeOK
      <4> QED BY <2>2, <2>10, <4>1 DEF Kept
    <3> QED BY <3>1, <3>2
  <2>11. \A h \in Bytes : blobs'[h] \in {None, h}
    BY <2>1 DEF SafeOK
  <2> QED BY <2>6, <2>7, <2>9, <2>10, <2>11 DEF SafeOK
<1> QED BY <1>4, <1>5 DEF SafeInv

LEMMA FetchedSafe ==
  ASSUME SafeInv, BlobInv', NEW c \in Clients, NEW s \in Slots, Fetched(c, s) \/ Garbled(c, s)
  PROVE  SafeInv'
<1>0. BlobTypes /\ Stages /\ MadeOK
  BY DEF SafeInv, BlobInv
<1>1. /\ flow[c][s] # None /\ flow[c][s].at = "fetching" /\ Goes(c, s, None)
      /\ UNCHANGED <<record, relay, blobs, wrapper, edits>>
  <2>1. CASE Fetched(c, s)
    <3>1. At(c, s, "fetching") /\ Ends(c, s) /\ UNCHANGED <<net, counts, wrapper>>
      BY <2>1, Zenon DEF Fetched
    <3> QED BY <3>1 DEF At, Ends, net, counts
  <2>2. CASE Garbled(c, s)
    <3>1. At(c, s, "fetching") /\ Ends(c, s) /\ Fault /\ UNCHANGED <<net, wrapper>>
      BY <2>2, Zenon DEF Garbled
    <3> QED BY <3>1 DEF At, Ends, Fault, net
  <2> QED BY <2>1, <2>2
<1>2. \A d \in Clients : \A t \in Slots : flow'[d][t] = flow[d][t] \/ flow'[d][t] = None
  BY <1>0, <1>1, FlowEnds
<1>3. CASE Garbled(c, s)
  <2>1. Writes(c, Garbage) /\ (windows \cup Raced(c)) \subseteq windows' /\ Garbage \in Bytes
    BY <1>3 DEF Garbled, Bytes
  <2> QED BY <1>1, <1>2, <2>1, WritingSafe DEF Writes
<1>4. CASE Fetched(c, s)
  <2> DEFINE b == blobs[flow[c][s].want]
  <2>1. flow[c][s].want \in Bytes
    BY <1>0, <1>1 DEF Stages, StageOK, BlobTypes, Maybe, Flows
  <2>2. CASE b = None
    <3>1. UNCHANGED <<disk, clock, windows>>
      BY <1>4, <2>2 DEF Fetched
    <3> QED BY <1>1, <1>2, <3>1, FlowsSafe
  <2>3. CASE b # None
    <3>1. Writes(c, b) /\ (windows \cup Raced(c)) \subseteq windows'
      BY <1>4, <2>3 DEF Fetched
    <3>2. b \in Bytes /\ b \in 1..edits \cup {Garbage}
      BY <1>0, <2>1, <2>3 DEF BlobTypes, Maybe, MadeOK, Made
    <3>3. SafeOK => Kept(b)
      BY <2>1, <2>3 DEF SafeOK, Kept
    <3> HIDE DEF b
    <3> QED BY <1>1, <1>2, <3>1, <3>2, <3>3, WritingSafe DEF Writes
  <2> QED BY <2>2, <2>3
<1> QED BY <1>3, <1>4

LEMMA EditSafe ==
  ASSUME SafeInv, BlobInv', NEW c \in Clients, Edit(c)
  PROVE  SafeInv'
<1>0. BlobTypes /\ edits \in Nat
  BY DEF SafeInv, BlobInv, BlobTypes
<1>1. /\ disk' = [disk EXCEPT ![c] = [bytes |-> edits + 1, mtime |-> clock + 1]]
      /\ UNCHANGED <<record, relay, blobs, wrapper, flow>>
      /\ edits' = edits + 1 /\ clock' = clock + 1
      /\ (windows \cup Raced(c)) \subseteq windows'
  BY DEF Edit, net
<1>2. edits + 1 \in Bytes
  <2>1. edits + faults < MaxEvents
    BY DEF Edit
  <2>2. edits + 1 \in 1..MaxEvents
    BY <1>0, <2>1, AttachmentAssumption DEF BlobTypes
  <2> QED BY <2>2 DEF Bytes
<1>3. edits + 1 \notin Made /\ edits + 1 \in 1..edits' \cup {Garbage}
  BY <1>0, <1>1, AttachmentAssumption DEF Made
<1>4. Secure' => /\ wrapper[c] # None
                 /\ \A s \in Slots : flow[c][s] # None => flow[c][s].at \notin {"checking", "fetching"}
  BY DEF Edit, Secure, Lost
<1> QED BY <1>1, <1>2, <1>3, <1>4, WritingSafe

LEMMA SafeInvKept == ASSUME SafeInv, [Next]_vars PROVE SafeInv'
<1>0. BlobInv'
  BY BlobInvKept DEF SafeInv
<1>1. ASSUME NEW c \in Clients, NEW s \in Slots, Steps(c, s) PROVE SafeInv'
  BY <1>0, <1>1, CompareSafe, HashedSafe, NamedSafe, PutSafe, FailsSafe, NotedSafe, CheckedSafe,
     FetchedSafe DEF Steps
<1>2. ASSUME NEW c \in Clients, Events(c) PROVE SafeInv'
  BY <1>0, <1>2, ModifiedSafe, StartingSafe, EditSafe, PluginSafe, MergeSafe DEF Events
<1>3. CASE UNCHANGED vars
  <2>1. UNCHANGED <<disk, record, relay, blobs, edits, clock, flow, wrapper, windows>>
    BY <1>3 DEF vars, net, counts
  <2> QED BY <1>0, <2>1, FlowsSafe
<1> QED BY <1>1, <1>2, <1>3 DEF Next

LEMMA SafeInvInit == ASSUME Init PROVE SafeInv
<1> DEFINE file == [bytes |-> 1, mtime |-> 1]
           first == [hash |-> 1, synctime |-> 1, by |-> <<Owner>>]
<1>0. BlobInv
  BY BlobInvInit
<1>1. /\ clock = 1 /\ edits = 1 /\ 1 \in Bytes /\ file # None /\ 1 \in Made /\ Owner \in Clients
  <2>1. file \in File /\ 1 \in Bytes
    BY AttachmentAssumption DEF Bytes, File
  <2> QED BY <2>1, AttachmentAssumption, Nones DEF Init, Made
<1>2. CASE /\ disk = [c \in Clients |-> file] /\ relay = first
           /\ record = [c \in Clients |-> first]
           /\ blobs = [b \in Bytes |-> IF b = 1 THEN 1 ELSE None]
           /\ wrapper = [c \in Clients |-> [meta |-> Meta(first)]]
           /\ flow = [c \in Clients |-> [s \in Slots |-> None]]
  <2>1. MadeOK
    BY <1>1, <1>2 DEF MadeOK
  <2>2. Kept(1)
    BY <1>1, <1>2 DEF Kept
  <2>3. \A c \in Clients : Safe(c)
    BY <1>1, <1>2, <2>2 DEF Safe
  <2>4. \A r : r = first => RecordSafe(r)
    BY <2>2 DEF RecordSafe
  <2>5. SafeOK
    BY <1>1, <1>2, <2>2, <2>3, <2>4 DEF SafeOK
  <2> QED BY <1>0, <2>1, <2>5 DEF SafeInv
<1>3. CASE /\ disk = [c \in Clients |-> IF c = Owner THEN file ELSE None] /\ relay = None
           /\ record = [c \in Clients |-> None]
           /\ blobs = [b \in Bytes |-> None]
           /\ wrapper = [c \in Clients |-> IF c = Owner THEN [meta |-> None] ELSE None]
           /\ flow = [c \in Clients |-> [s \in Slots |->
                       IF c = Owner /\ \A t \in Slots : s <= t THEN Flow("hashing") ELSE None]]
  <2>1. \A c \in Clients : \A s \in Slots :
          flow[c][s] = None \/ (flow[c][s].at = "hashing" /\ flow[c][s].bytes = None)
    BY <1>3 DEF Flow
  <2>2. MadeOK
    BY <1>1, <1>3, <2>1 DEF MadeOK, FlowMade
  <2>3. [meta |-> None] # None
    <3>1. [meta |-> None] \in Wrapper
      BY DEF Maybe, Wrapper
    <3> QED BY <3>1, Nones
  <2>4. /\ \A c \in Clients : \A s \in Slots : flow[c][s] # None => FlowSafe(c, flow[c][s])
        /\ \A c \in Clients : wrapper[c] = None => Safe(c)
    BY <1>3, <2>1, <2>3 DEF FlowSafe, Safe
  <2>5. SafeOK
    BY <1>3, <2>4 DEF SafeOK
  <2> QED BY <1>0, <2>2, <2>5 DEF SafeInv
<1> QED BY <1>2, <1>3 DEF Init

LEMMA SafeInvHolds == Spec => []SafeInv
<1> QED BY SafeInvInit, SafeInvKept, PTL DEF Spec

\* Who writes a file.
LEMMA WhoWrites ==
  ASSUME BlobTypes, [Next]_vars, NEW c \in Clients, disk'[c] # disk[c], edits' = edits
  PROVE  \E s \in Slots : flow[c][s] # None /\ flow[c][s].at = "fetching"
<1>0. edits + 1 # edits
  BY DEF BlobTypes
<1>1. ASSUME NEW d \in Clients, NEW s \in Slots, Steps(d, s), disk' # disk
      PROVE  /\ flow[d][s] # None /\ flow[d][s].at = "fetching"
             /\ \E file : disk' = [disk EXCEPT ![d] = file]
  <2>1. Fetched(d, s) \/ Garbled(d, s)
    BY <1>1 DEF Steps, Compare, Hashed, Named, Put, PutRefused, Fails, Noted, Checked, Still
  <2> QED BY <1>1, <2>1 DEF Fetched, Garbled, At, Writes
<1>2. ASSUME NEW d \in Clients, Events(d) PROVE UNCHANGED disk
  BY <1>0, <1>2 DEF Events, Modified, Adopt, Scan, SyncCommand, Edit, Stop, Start, Drop, Connect, Send, Receive,
                    Still
<1>3. PICK d \in Clients, s \in Slots : Steps(d, s)
  BY <1>2 DEF Next, vars
<1>4. /\ flow[d][s] # None /\ flow[d][s].at = "fetching"
      /\ \E file : disk' = [disk EXCEPT ![d] = file]
  BY <1>1, <1>3
<1>5. d = c
  BY <1>4 DEF BlobTypes
<1> QED BY <1>4, <1>5

(***************************************************************************)
(* For any clients, flows and contents: no download, scan, command or      *)
(* start writes over an edit the server does not have and that is newer    *)
(* than the client's record, but for the windows EditsKept names.          *)
(***************************************************************************)
THEOREM DownloadsTakeNoEdits == Spec => EditsKept
<1> DEFINE Kind == \A c \in Clients :
       disk[c] # None /\ disk'[c].bytes # disk[c].bytes /\ edits' = edits /\ disk[c].bytes # Garbage
         => \/ blobs[disk[c].bytes] = disk[c].bytes
            \/ record[c] # None /\ disk[c].mtime <= record[c].synctime
            \/ Lost({"changed during a push", "edited during a pull", "unsaved offline",
                     "edited before it was taken up", "record went back"})
<1>1. SafeInv /\ [Next]_vars => Kind
  <2> SUFFICES ASSUME SafeInv, [Next]_vars, NEW c \in Clients, disk[c] # None,
                      disk'[c].bytes # disk[c].bytes, edits' = edits, disk[c].bytes # Garbage, Secure
               PROVE  Kept(disk[c].bytes) \/ (record[c] # None /\ disk[c].mtime <= record[c].synctime)
    BY DEF Secure, Kept
  <2>1. BlobTypes
    BY DEF SafeInv, BlobInv
  <2>2. PICK s \in Slots : flow[c][s] # None /\ flow[c][s].at = "fetching"
    BY <2>1, WhoWrites
  <2>3. Safe(c)
    BY <2>2 DEF SafeInv, SafeOK, FlowSafe
  <2> QED BY <2>3 DEF Safe
<1> QED BY <1>1, SafeInvHolds, PTL DEF Spec, EditsKept

-----------------------------------------------------------------------------
(***************************************************************************)
(* At rest every client has the last edit.  While no window is open the    *)
(* records there are were made one over another, each of a later content   *)
(* than the one before.  Whoever has the last edit has the last of them,   *)
(* or is about to make it; whoever is behind its own record is about to    *)
(* pull.                                                                   *)
(***************************************************************************)

Records == {relay} \cup {record[c] : c \in Clients}

Before(q, r) ==
  /\ Len(q.by) < Len(r.by) /\ \A i \in 1..Len(q.by) : q.by[i] = r.by[i]
  /\ q.hash < r.hash /\ q.synctime < r.synctime

UpTo(q, r) == q = None \/ q = r \/ (r # None /\ Before(q, r))

\* Contents, records and their times are in one order.
Pure ==
  /\ \A c \in Clients : disk[c] # None => disk[c].bytes # Garbage
  /\ \A r \in Records : r # None => r.hash # Garbage

Chained == \A q, r \in Records : UpTo(q, r) \/ UpTo(r, q)

InOrder ==
  /\ \A c, d \in Clients : disk[c] # None /\ disk[d] # None /\ disk[c].bytes < disk[d].bytes =>
       disk[c].mtime < disk[d].mtime
  /\ \A c \in Clients, r \in Records : disk[c] # None /\ r # None =>
       /\ disk[c].bytes < r.hash => disk[c].mtime < r.synctime
       /\ disk[c].bytes > r.hash => disk[c].mtime > r.synctime

HasLast(c) == disk[c] # None /\ disk[c].bytes = edits

LastIsSomewhere == \E c \in Clients : HasLast(c)

LastHasTheRecord ==
  /\ \A c \in Clients : HasLast(c) => \A r \in Records : UpTo(r, record[c])
  /\ \A c \in Clients : disk[c] # None /\ ~HasLast(c) => record[c] # None /\ disk[c].bytes <= record[c].hash

\* The last edit is on its way to the server.
PushFlow(c, f) ==
  \/ f.at \in {"hashing", "naming", "putting", "noting"}
  \/ f.at = "comparing" /\ f.meta.hash # disk[c].bytes /\ f.meta.synctime < disk[c].mtime

PushDue(c) ==
  /\ c \in online /\ wrapper[c] # None
  /\ c \in modified \/ \E s \in Slots : flow[c][s] # None /\ PushFlow(c, flow[c][s])

LastUnsaved(c) == HasLast(c) /\ Unsaved(c)

PushesDue ==
  \A c \in Clients : LastUnsaved(c) =>
    /\ PushDue(c)
    /\ \A r \in Records : r # None => r.hash # edits
    /\ \A d \in Clients \ {c} : ~HasLast(d)

\* A client whose file is missing or older than its record is to pull.
Behind(c) == record[c] # None /\ (disk[c] = None \/ disk[c].bytes < record[c].hash)

PullFlow(c, f) ==
  \/ f.at = "checking" /\ wrapper[c] # None /\ wrapper[c].meta # None /\ wrapper[c].meta.hash = record[c].hash
  \/ f.at = "fetching" /\ f.want = record[c].hash

PullDue(c) ==
  \/ c \notin up \/ c \in scan \/ (wrapper[c] = None /\ disk[c] # None)
  \/ \E s \in Slots : flow[c][s] # None /\ PullFlow(c, flow[c][s])

PullsDue == \A c \in Clients : Behind(c) => PullDue(c)

\* What a pull knows is not newer than the record.
KnownOK ==
  /\ online \subseteq up
  /\ \A c \in Clients : \A s \in Slots : flow[c][s] # None =>
       /\ wrapper[c] # None
       /\ flow[c][s].at = "fetching" =>
            record[c] # None /\ flow[c][s].want \in Nat /\ flow[c][s].want <= record[c].hash
  /\ \A c \in Clients : wrapper[c] # None /\ wrapper[c].meta # None =>
       record[c] # None /\ wrapper[c].meta.hash \in Nat /\ wrapper[c].meta.hash <= record[c].hash

NewOK ==
  /\ Pure /\ Chained /\ InOrder /\ LastIsSomewhere /\ LastHasTheRecord
  /\ PushesDue /\ PullsDue /\ KnownOK

NewestInv == SafeInv /\ (windows = {} => NewOK)

\* A set of numbers has a least one.
LEMMA Least ==
  ASSUME NEW T \in SUBSET Nat, T # {}
  PROVE \E m \in T : \A n \in T : m <= n
<1>1. IsWellFoundedOn(OpToRel(<, Nat), Nat)
  BY NatLessThanWellFounded
<1> DEFINE R == OpToRel(<, Nat)
<1>2. \A x, y \in Nat : <<x, y>> \in R <=> x < y
  BY DEF OpToRel
<1>3. IsWellFoundedOn(R, Nat)
  BY <1>1
<1> HIDE DEF R
<1>4. PICK m \in T : \A y \in T : ~ (<<y, m>> \in R)
  BY <1>3, WFMin
<1>5. \A y \in T : ~(y < m)
  <2> TAKE y \in T
  <2>1. y \in Nat /\ m \in Nat
    OBVIOUS
  <2>2. ~(<<y, m>> \in R)
    BY <1>4
  <2> QED BY <1>2, <2>1, <2>2
<1>6. m \in Nat
  OBVIOUS
<1> QED BY <1>5, <1>6

LEMMA Numbers ==
  ASSUME NewestInv, windows = {}
  PROVE  /\ BlobTypes /\ Stages /\ MadeOK /\ SafeOK /\ NewOK
         /\ edits \in Nat \ {0} /\ clock \in Nat
         /\ \A c \in Clients : disk[c] # None =>
              disk[c] \in File /\ disk[c].bytes \in 1..edits /\ disk[c].mtime \in Nat /\ disk[c].mtime <= clock
         /\ \A r \in Records : r # None =>
              r \in Record /\ r.hash \in 1..edits /\ r.synctime \in Nat /\ r.synctime <= clock
         /\ \A c \in Clients : record[c] \in Records
         /\ \A c \in Clients : record[c] # None => Kept(record[c].hash)
<1>1. BlobTypes /\ Stages /\ MadeOK /\ SafeOK /\ NewOK /\ PushesKeep
  BY DEF NewestInv, SafeInv, BlobInv, Secure, Lost
<1>2. edits \in Nat \ {0} /\ clock \in Nat
  BY <1>1 DEF BlobTypes
<1>3. \A c \in Clients : disk[c] # None =>
        disk[c] \in File /\ disk[c].bytes \in 1..edits /\ disk[c].mtime \in Nat /\ disk[c].mtime <= clock
  BY <1>1, FileIs DEF NewOK, Pure, MadeOK, Made
<1>4. \A r \in Records : r # None =>
        r \in Record /\ r.hash \in 1..edits /\ r.synctime \in Nat /\ r.synctime <= clock
  BY <1>1, RecordIsOne DEF NewOK, Pure, MadeOK, Made, Records
<1>5. \A c \in Clients : record[c] # None => Kept(record[c].hash)
  BY <1>1 DEF PushesKeep, Unraced, Lost
<1> QED BY <1>1, <1>2, <1>3, <1>4, <1>5 DEF Records

LEMMA SlotIsFree == ASSUME NEW c \in Clients, Free(c) # {} PROVE Slot(c) \in Free(c)
<1>1. Free(c) \in SUBSET Nat
  BY AttachmentAssumption DEF Free
<1>2. \E s \in Free(c) : \A t \in Free(c) : s <= t
  BY <1>1, Least
<1> QED BY <1>2 DEF Slot

\* Of two records in a chain the later one is kept.
LEMMA MergedIsLater ==
  ASSUME NEW q \in Maybe(Record), NEW r \in Maybe(Record), UpTo(q, r)
  PROVE  Merged(q, r) = r /\ Merged(r, q) = r
<1>1. CASE q = None \/ q = r
  BY <1>1 DEF Merged
<1>2. CASE q # None /\ r # None /\ Before(q, r)
  <2>1. /\ q.by \in Seq(Clients) /\ r.by \in Seq(Clients) /\ Len(q.by) \in Nat /\ Len(r.by) \in Nat
        /\ Clients \subseteq Nat
    BY <1>2, AttachmentAssumption DEF Maybe, Record
  <2>2. SubSeq(r.by, 1, Len(q.by)) = q.by
    BY <1>2, <2>1 DEF Before
  <2>3. Later(r.by, q.by)
    BY <1>2, <2>1, <2>2 DEF Before, Later
  <2>4. ~Later(q.by, r.by)
    <3>1. ~(Len(q.by) > Len(r.by))
      BY <1>2, <2>1 DEF Before
    <3>2. \A i \in 1..Len(q.by) : ~(q.by[i] > r.by[i])
      <4> TAKE i \in 1..Len(q.by)
      <4>0. q.by[i] \in Clients
        BY <2>1, ElementOfSeq
      <4>1. r.by[i] = q.by[i] /\ q.by[i] \in Nat
        BY <1>2, <2>1, <4>0 DEF Before
      <4>2. \A n \in Nat : ~(n > n)
        OBVIOUS
      <4>3. ~(q.by[i] > q.by[i])
        BY <4>1, <4>2
      <4> QED BY <4>1, <4>3, Zenon
    <3> QED BY <3>1, <3>2 DEF Later
  <2> QED BY <1>2, <2>3, <2>4 DEF Merged
<1> QED BY <1>1, <1>2 DEF UpTo

LEMMA RefreshedMeta ==
  ASSUME BlobTypes, NEW c \in Clients, Refreshed(c)
  PROVE  /\ wrapper'[c] # None
         /\ wrapper'[c].meta # None => record[c] # None
         /\ record[c] # None => wrapper'[c].meta # None /\ wrapper'[c].meta.hash = record[c].hash
         /\ \A d \in Clients \ {c} : wrapper'[d] = wrapper[d]
<1>1. /\ wrapper'[c] = [meta |-> Meta(record[c])]
      /\ \A d \in Clients \ {c} : wrapper'[d] = wrapper[d]
  BY RefreshedWrapper
<1>2. Meta(record[c]) \in Maybe(SyncMeta) /\ (record[c] # None => Meta(record[c]) # None)
      /\ (record[c] # None => Meta(record[c]).hash = record[c].hash)
      /\ (Meta(record[c]) # None => record[c] # None)
  BY MetaType DEF BlobTypes, Meta
<1>3. [meta |-> Meta(record[c])] # None
  BY <1>2, Nones DEF Wrapper
<1> QED BY <1>1, <1>2, <1>3

\* Steps that leave files, records and the server alone.
LEMMA FlowsNew ==
  ASSUME NewestInv, windows = {}, UNCHANGED <<disk, record, relay, edits>>, KnownOK',
         \A c \in Clients : LastUnsaved(c) /\ PushDue(c) => PushDue(c)',
         \A c \in Clients : Behind(c) /\ PullDue(c) => PullDue(c)'
  PROVE  NewOK'
<1>0. NewOK
  BY Numbers
<1>1. Records' = Records
  BY DEF Records
<1>2. (Pure /\ Chained /\ InOrder /\ LastIsSomewhere /\ LastHasTheRecord)'
  BY <1>0, <1>1 DEF NewOK, Pure, Chained, InOrder, LastIsSomewhere, LastHasTheRecord, HasLast, UpTo, Before
<1>3. PushesDue'
  BY <1>0, <1>1 DEF NewOK, PushesDue, LastUnsaved, Unsaved, HasLast
<1>4. PullsDue'
  BY <1>0 DEF NewOK, PullsDue, Behind
<1> QED BY <1>2, <1>3, <1>4 DEF NewOK

LEMMA PullFlowStays ==
  ASSUME BlobTypes, NEW c \in Clients, Refreshed(c) \/ UNCHANGED wrapper, UNCHANGED record
  PROVE  \A d \in Clients : \A g : Behind(d) /\ PullFlow(d, g) => PullFlow(d, g)'
BY RefreshedMeta DEF Behind, PullFlow

KnownWant(c, f) == record[c] # None /\ f.want \in Nat /\ f.want <= record[c].hash

LEMMA MetasKnown ==
  ASSUME NewestInv, windows = {}, NEW c \in Clients, Refreshed(c) \/ UNCHANGED wrapper, UNCHANGED record
  PROVE  \A d \in Clients : /\ wrapper'[d] # None /\ wrapper'[d].meta # None =>
                                 /\ record'[d] # None /\ wrapper'[d].meta.hash \in Nat
                                 /\ wrapper'[d].meta.hash <= record'[d].hash
                            /\ wrapper[d] # None => wrapper'[d] # None
<1>1. BlobTypes /\ KnownOK /\ \A d \in Clients : record[d] # None => record[d].hash \in Nat
  BY Numbers DEF NewOK
<1>2. CASE UNCHANGED wrapper
  BY <1>1, <1>2 DEF KnownOK
<1>3. CASE Refreshed(c)
  <2> SUFFICES ASSUME NEW d \in Clients
               PROVE  /\ wrapper'[d] # None /\ wrapper'[d].meta # None =>
                           /\ record'[d] # None /\ wrapper'[d].meta.hash \in Nat
                           /\ wrapper'[d].meta.hash <= record'[d].hash
                      /\ wrapper[d] # None => wrapper'[d] # None
    OBVIOUS
  <2>1. CASE d = c
    <3>1. /\ wrapper'[c] # None
          /\ wrapper'[c].meta # None => record[c] # None
          /\ record[c] # None => wrapper'[c].meta # None /\ wrapper'[c].meta.hash = record[c].hash
      BY <1>1, <1>3, RefreshedMeta
    <3> QED BY <1>1, <2>1, <3>1
  <2>2. CASE d # c
    <3>1. wrapper'[d] = wrapper[d]
      BY <1>1, <1>3, <2>2, RefreshedMeta
    <3> QED BY <1>1, <3>1 DEF KnownOK
  <2> QED BY <2>1, <2>2
<1> QED BY <1>2, <1>3

\* A step of a flow.
LEMMA GoesNew ==
  ASSUME NewestInv, windows = {}, NEW c \in Clients, NEW s \in Slots, NEW f \in Maybe(Flows),
         flow[c][s] # None, Goes(c, s, f), Refreshed(c) \/ UNCHANGED wrapper,
         UNCHANGED <<disk, record, relay, edits, up, online, modified, scan>>,
         f # None /\ f.at = "fetching" => KnownWant(c, f),
         LastUnsaved(c) /\ PushFlow(c, flow[c][s]) => f # None /\ PushFlow(c, f),
         Behind(c) /\ PullFlow(c, flow[c][s]) => f # None /\ f.at = "fetching" /\ f.want = record[c].hash
  PROVE  NewOK'
<1>0. BlobTypes /\ KnownOK
  BY Numbers DEF NewOK
<1>1. /\ \A d \in Clients : \A t \in Slots : (d = c /\ t = s) \/ flow'[d][t] = flow[d][t]
      /\ flow'[c][s] = f
  BY <1>0, OneFlow DEF Goes
<1>2. \A d \in Clients : /\ wrapper'[d] # None /\ wrapper'[d].meta # None =>
                              /\ record'[d] # None /\ wrapper'[d].meta.hash \in Nat
                              /\ wrapper'[d].meta.hash <= record'[d].hash
                         /\ wrapper[d] # None => wrapper'[d] # None
  BY MetasKnown
<1>3. KnownOK'
  <2>1. \A d \in Clients : \A t \in Slots : flow'[d][t] # None =>
          /\ wrapper'[d] # None
          /\ flow'[d][t].at = "fetching" =>
               record'[d] # None /\ flow'[d][t].want \in Nat /\ flow'[d][t].want <= record'[d].hash
    BY <1>0, <1>1, <1>2 DEF KnownOK, KnownWant
  <2> QED BY <1>0, <1>2, <2>1 DEF KnownOK
<1>4. ASSUME NEW d \in Clients, LastUnsaved(d), PushDue(d) PROVE PushDue(d)'
  <2>1. d \in online' /\ wrapper'[d] # None
    BY <1>2, <1>4 DEF PushDue
  <2>2. ASSUME NEW t \in Slots, flow[d][t] # None, PushFlow(d, flow[d][t])
        PROVE  flow'[d][t] # None /\ PushFlow(d, flow[d][t])'
    <3>1. CASE d = c /\ t = s
      BY <1>1, <1>4, <2>2, <3>1 DEF PushFlow
    <3>2. CASE ~(d = c /\ t = s)
      BY <1>1, <2>2, <3>2 DEF PushFlow
    <3> QED BY <3>1, <3>2
  <2> QED BY <1>4, <2>1, <2>2 DEF PushDue
<1>5. ASSUME NEW d \in Clients, Behind(d), PullDue(d) PROVE PullDue(d)'
  <2>1. ASSUME NEW t \in Slots, flow[d][t] # None, PullFlow(d, flow[d][t])
        PROVE  flow'[d][t] # None /\ PullFlow(d, flow[d][t])'
    <3>1. CASE d = c /\ t = s
      BY <1>1, <1>5, <2>1, <3>1 DEF PullFlow
    <3>2. CASE ~(d = c /\ t = s)
      <4>1. flow'[d][t] = flow[d][t]
        BY <1>1, <3>2
      <4>2. \A g : PullFlow(d, g) => PullFlow(d, g)'
        BY <1>0, <1>5, PullFlowStays
      <4> QED BY <2>1, <4>1, <4>2 DEF PullFlow
    <3> QED BY <3>1, <3>2
  <2>2. wrapper[d] = None => wrapper'[d] = None
    <3>1. d # c \/ wrapper[c] # None
      BY <1>0 DEF KnownOK
    <3> QED BY <1>0, <3>1, RefreshedMeta
  <2> QED BY <1>5, <2>1, <2>2 DEF PullDue
<1> QED BY <1>3, <1>4, <1>5, FlowsNew

\* Steps that start flows.
LEMMA AddsNew ==
  ASSUME NewestInv, windows = {}, NEW c \in Clients, Refreshed(c),
         UNCHANGED <<disk, record, relay, edits, up, online>>,
         modified \ {c} \subseteq modified', scan \ {c} \subseteq scan',
         \A d \in Clients : \A t \in Slots :
           \/ flow'[d][t] = flow[d][t]
           \/ /\ d = c /\ flow[d][t] = None
              /\ flow'[d][t] # None /\ flow'[d][t].at = "fetching" => KnownWant(c, flow'[d][t]),
         LastUnsaved(c) =>
           c \in modified' \/ c \notin modified \/ \E t \in Slots : flow'[c][t] # None /\ PushFlow(c, flow'[c][t]),
         Behind(c) /\ (c \in scan \/ wrapper[c] = None) =>
           \/ c \in scan'
           \/ \E t \in Slots : /\ flow'[c][t] # None
                               /\ \/ flow'[c][t].at = "checking"
                                  \/ flow'[c][t].at = "fetching" /\ flow'[c][t].want = record[c].hash
  PROVE  NewOK'
<1>0. BlobTypes /\ KnownOK
  BY Numbers DEF NewOK
<1>1. \A d \in Clients : /\ wrapper'[d] # None /\ wrapper'[d].meta # None =>
                              /\ record'[d] # None /\ wrapper'[d].meta.hash \in Nat
                              /\ wrapper'[d].meta.hash <= record'[d].hash
                         /\ wrapper[d] # None => wrapper'[d] # None
  BY MetasKnown
<1>2. /\ wrapper'[c] # None
      /\ record[c] # None => wrapper'[c].meta # None /\ wrapper'[c].meta.hash = record[c].hash
      /\ \A d \in Clients \ {c} : wrapper'[d] = wrapper[d]
  BY <1>0, RefreshedMeta
<1>3. KnownOK'
  <2>1. \A d \in Clients : \A t \in Slots : flow'[d][t] # None =>
          /\ wrapper'[d] # None
          /\ flow'[d][t].at = "fetching" =>
               record'[d] # None /\ flow'[d][t].want \in Nat /\ flow'[d][t].want <= record'[d].hash
    BY <1>0, <1>1, <1>2 DEF KnownOK, KnownWant
  <2> QED BY <1>0, <1>1, <2>1 DEF KnownOK
<1>4. \A d \in Clients : \A t \in Slots : flow[d][t] # None => flow'[d][t] = flow[d][t]
  OBVIOUS
<1>5. ASSUME NEW d \in Clients, LastUnsaved(d), PushDue(d) PROVE PushDue(d)'
  <2>1. d \in online' /\ wrapper'[d] # None
    BY <1>1, <1>5 DEF PushDue
  <2>2. \A t \in Slots : \A g : PushFlow(d, g) => PushFlow(d, g)'
    BY DEF PushFlow
  <2>3. CASE d \in modified /\ ~(d \in modified')
    <3>1. d = c
      BY <2>3
    <3>2. PICK t \in Slots : flow'[c][t] # None /\ PushFlow(c, flow'[c][t])
      BY <1>5, <2>3, <3>1
    <3>3. PushFlow(c, flow[c][t])'
      BY <3>2 DEF PushFlow
    <3> QED BY <2>1, <3>1, <3>2, <3>3 DEF PushDue
  <2>4. CASE d \notin modified
    <3>1. PICK t \in Slots : flow[d][t] # None /\ PushFlow(d, flow[d][t])
      BY <1>5, <2>4 DEF PushDue
    <3>2. flow'[d][t] # None /\ PushFlow(d, flow[d][t])'
      BY <1>4, <3>1 DEF PushFlow
    <3> QED BY <2>1, <3>2 DEF PushDue
  <2> QED BY <2>1, <2>3, <2>4 DEF PushDue
<1>6. ASSUME NEW d \in Clients, Behind(d), PullDue(d) PROVE PullDue(d)'
  <2>1. ASSUME NEW t \in Slots, flow[d][t] # None, PullFlow(d, flow[d][t])
        PROVE  flow'[d][t] # None /\ PullFlow(d, flow[d][t])'
    <3>1. flow'[d][t] = flow[d][t]
      BY <1>4, <2>1
    <3>2. \A g : PullFlow(d, g) => PullFlow(d, g)'
      BY <1>0, <1>6, PullFlowStays
    <3> QED BY <2>1, <3>1, <3>2 DEF PullFlow
  <2>2. CASE d = c /\ (c \in scan \/ wrapper[c] = None)
    <3>1. CASE c \in scan'
      BY <2>2, <3>1 DEF PullDue
    <3>2. CASE c \notin scan'
      <4>1. PICK t \in Slots : /\ flow'[c][t] # None
                               /\ \/ flow'[c][t].at = "checking"
                                  \/ flow'[c][t].at = "fetching" /\ flow'[c][t].want = record[c].hash
        BY <1>6, <2>2, <3>2
      <4>2. PullFlow(c, flow[c][t])'
        BY <1>2, <1>6, <2>2, <4>1 DEF PullFlow, Behind
      <4> QED BY <2>2, <4>1, <4>2 DEF PullDue
    <3> QED BY <3>1, <3>2
  <2>3. CASE ~(d = c /\ (c \in scan \/ wrapper[c] = None))
    <3>1. (d \notin up => d \notin up') /\ (d \in scan => d \in scan')
          /\ (wrapper[d] = None => wrapper'[d] = None)
      BY <1>2, <2>3
    <3> QED BY <1>6, <2>1, <3>1 DEF PullDue
  <2> QED BY <2>2, <2>3
<1> QED BY <1>3, <1>5, <1>6, FlowsNew

\* What the operators that start a flow return.
LEMMA StartsKnow ==
  ASSUME NewestInv, windows = {}, NEW c \in Clients
  PROVE  /\ \A f \in {Pushing(c), Pulling(c), Syncing(c), Taken(c)} :
              f # None /\ f.at = "fetching" => KnownWant(c, f)
         /\ LastUnsaved(c) /\ c \in online => /\ Pushing(c) # None /\ PushFlow(c, Pushing(c))
                                              /\ Syncing(c) # None /\ PushFlow(c, Syncing(c))
         /\ record[c] # None => /\ Pulling(c) # None
                                /\ \/ Pulling(c).at = "checking"
                                   \/ Pulling(c).at = "fetching" /\ Pulling(c).want = record[c].hash
<1>0. BlobTypes /\ InOrder /\ record[c] \in Records
  BY Numbers DEF NewOK
<1>1. /\ record[c] # None => record[c].hash \in 1..edits /\ record[c].synctime \in Nat
      /\ disk[c] # None => disk[c].bytes \in 1..edits /\ disk[c].mtime \in Nat
      /\ edits \in Nat
  BY Numbers
<1>2. Pushing(c) # None => Pushing(c).at = "hashing"
  BY DEF Pushing, Flow
<1>3. record[c] = None => Pulling(c) = None
  BY DEF Pulling
<1>4. record[c] # None => /\ Pulling(c) # None
                          /\ \/ Pulling(c).at = "checking"
                             \/ Pulling(c).at = "fetching" /\ Pulling(c).want = record[c].hash
  <2> SUFFICES ASSUME record[c] # None
               PROVE  /\ Pulling(c) # None
                      /\ \/ Pulling(c).at = "checking"
                         \/ Pulling(c).at = "fetching" /\ Pulling(c).want = record[c].hash
    OBVIOUS
  <2>1. CASE disk[c] # None
    BY <2>1, FlowTypes DEF Pulling, Ats
  <2>2. CASE disk[c] = None
    <3>1. Pulling(c) = [Flow("fetching") EXCEPT !.want = record[c].hash]
      BY <2>2 DEF Pulling
    <3>2. Pulling(c) \in Flows
      BY <1>0, <3>1, RecordIsOne, FlowTypes DEF Ats
    <3>3. Pulling(c).at = "fetching" /\ Pulling(c).want = record[c].hash
      BY <3>1 DEF Flow
    <3> QED BY <3>2, <3>3, Nones
  <2> QED BY <2>1, <2>2
<1>5. disk[c] # None /\ record[c] # None =>
        Syncing(c) # None /\ Syncing(c).at = "comparing" /\ Syncing(c).meta = Meta(record[c])
  <2> SUFFICES ASSUME disk[c] # None, record[c] # None
               PROVE  Syncing(c) # None /\ Syncing(c).at = "comparing" /\ Syncing(c).meta = Meta(record[c])
    OBVIOUS
  <2>1. Syncing(c) = [Flow("comparing") EXCEPT !.meta = Meta(record[c])]
    BY DEF Syncing
  <2>2. Meta(record[c]) \in Maybe(SyncMeta)
    BY <1>0, MetaType DEF BlobTypes
  <2>3. Syncing(c) \in Flows
    BY <2>1, <2>2, FlowTypes DEF Ats
  <2>4. Syncing(c).at = "comparing" /\ Syncing(c).meta = Meta(record[c])
    BY <2>1 DEF Flow
  <2> QED BY <2>3, <2>4, Nones
<1>6. Syncing(c) \in {Pushing(c), Pulling(c)} \/ (disk[c] # None /\ record[c] # None)
  BY DEF Syncing
<1>7. Taken(c) \in {Pushing(c), Pulling(c)}
  BY DEF Taken
<1>8. \A f \in {Pushing(c), Pulling(c), Syncing(c), Taken(c)} :
        f # None /\ f.at = "fetching" => KnownWant(c, f)
  <2>1. Pulling(c) # None /\ Pulling(c).at = "fetching" => KnownWant(c, Pulling(c))
    BY <1>1, <1>3, <1>4 DEF KnownWant
  <2>2. Pushing(c) # None => Pushing(c).at # "fetching"
    BY <1>2
  <2> HIDE DEF KnownWant
  <2> QED BY <1>5, <1>6, <1>7, <2>1, <2>2
<1>9. LastUnsaved(c) /\ c \in online => /\ Pushing(c) # None /\ PushFlow(c, Pushing(c))
                                        /\ Syncing(c) # None /\ PushFlow(c, Syncing(c))
  <2> SUFFICES ASSUME LastUnsaved(c), c \in online
               PROVE  /\ Pushing(c) # None /\ PushFlow(c, Pushing(c))
                      /\ Syncing(c) # None /\ PushFlow(c, Syncing(c))
    OBVIOUS
  <2>1. disk[c] # None /\ disk[c].bytes = edits /\ (record[c] = None \/ record[c].hash # disk[c].bytes)
    BY DEF LastUnsaved, HasLast, Unsaved
  <2>2. Pushing(c) # None /\ PushFlow(c, Pushing(c))
    BY <1>2, FlowTypes DEF Pushing, PushFlow, Ats
  <2>3. CASE record[c] = None
    BY <2>1, <2>2, <2>3 DEF Syncing
  <2>4. CASE record[c] # None
    <3>1. Syncing(c) # None /\ Syncing(c).at = "comparing" /\ Syncing(c).meta = Meta(record[c])
      BY <1>5, <2>1, <2>4
    <3>2. Meta(record[c]).hash = record[c].hash /\ Meta(record[c]).synctime = record[c].synctime
      BY <2>4 DEF Meta
    <3>3. record[c].synctime < disk[c].mtime
      <4>1. record[c].hash < disk[c].bytes
        BY <1>1, <2>1, <2>4
      <4>2. disk[c].bytes > record[c].hash => disk[c].mtime > record[c].synctime
        BY <1>0, <2>1, <2>4 DEF InOrder
      <4> QED BY <1>1, <2>1, <2>4, <4>1, <4>2
    <3> QED BY <2>1, <2>2, <2>4, <3>1, <3>2, <3>3 DEF PushFlow
  <2> QED BY <2>3, <2>4
<1> QED BY <1>4, <1>8, <1>9

LEMMA CompareNew ==
  ASSUME NewestInv, windows = {}, NEW c \in Clients, NEW s \in Slots, Compare(c, s)
  PROVE  NewOK'
<1>0. BlobTypes /\ Stages /\ MadeOK /\ NewOK
  BY Numbers
<1> DEFINE f == IF disk[c].bytes = flow[c][s].meta.hash THEN None
                ELSE IF LocalIsNewer(c, flow[c][s].meta) THEN Pushing(c) ELSE Pulling(c)
<1>1. /\ Goes(c, s, f) /\ UNCHANGED <<Still, modified, scan>>
      /\ Refreshed(c) \/ UNCHANGED wrapper
      /\ flow[c][s] # None /\ flow[c][s].at = "comparing"
  BY Zenon DEF Compare, At
<1>2. disk[c] # None /\ disk[c].mtime \in Nat /\ flow[c][s].meta \in SyncMeta
  <2>1. flow[c][s] \in Flows /\ flow[c][s].meta # None
    BY <1>0, <1>1 DEF MadeOK, FlowMade, BlobTypes, Maybe
  <2> QED BY <1>0, <1>1, <2>1, FileIs DEF Stages, StageOK, Flows, Maybe
<1>3. f \in Maybe(Flows)
  BY <1>0, <1>2, StartIsFlow DEF Maybe
<1>4. f # None /\ f.at = "fetching" => KnownWant(c, f)
  BY StartsKnow
<1>5. LastUnsaved(c) /\ PushFlow(c, flow[c][s]) => f # None /\ PushFlow(c, f)
  <2> SUFFICES ASSUME LastUnsaved(c), PushFlow(c, flow[c][s]) PROVE f # None /\ PushFlow(c, f)
    OBVIOUS
  <2>1. flow[c][s].meta.hash # disk[c].bytes /\ flow[c][s].meta.synctime < disk[c].mtime
    BY <1>1 DEF PushFlow
  <2>2. LocalIsNewer(c, flow[c][s].meta)
    BY <1>2, <2>1 DEF LocalIsNewer, SyncMeta
  <2>3. f = Pushing(c)
    BY <2>1, <2>2
  <2>4. c \in online
    BY <1>0 DEF NewOK, PushesDue, PushDue
  <2> QED BY <2>3, <2>4, StartsKnow
<1>6. ~PullFlow(c, flow[c][s])
  BY <1>1 DEF PullFlow
<1> HIDE DEF f
<1>7. UNCHANGED <<disk, record, relay, edits, up, online, modified, scan>>
  BY <1>1 DEF Still, net, counts
<1> QED BY <1>1, <1>3, <1>4, <1>5, <1>6, <1>7, GoesNew

LEMMA HashedNew ==
  ASSUME NewestInv, windows = {}, NEW c \in Clients, NEW s \in Slots, Hashed(c, s)
  PROVE  NewOK'
<1>0. BlobTypes /\ Stages
  BY Numbers
<1> DEFINE g == [Flow("naming") EXCEPT !.bytes = disk[c].bytes]
           f == IF OutOfDate(c) THEN g ELSE None
<1>1. /\ Goes(c, s, f) /\ UNCHANGED <<Still, modified, scan>> /\ Refreshed(c)
      /\ flow[c][s] # None /\ flow[c][s].at = "hashing"
  BY Zenon DEF Hashed, At
<1>2. disk[c] # None /\ disk[c].bytes \in Bytes
  BY <1>0, <1>1, FileIs DEF Stages, StageOK
<1>3. g \in Flows /\ g # None /\ g.at = "naming"
  <2>1. g \in Flows
    BY <1>2, FlowTypes DEF Ats
  <2> QED BY <2>1, Nones DEF Flow
<1> HIDE DEF g
<1>4. f \in Maybe(Flows) /\ (f # None => f.at = "naming")
  BY <1>3 DEF Maybe
<1>5. LastUnsaved(c) => f # None
  BY <1>3 DEF LastUnsaved, Unsaved, OutOfDate
<1> HIDE DEF f
<1>6. UNCHANGED <<disk, record, relay, edits, up, online, modified, scan>>
  BY <1>1 DEF Still, net, counts
<1>7. LastUnsaved(c) => f # None /\ PushFlow(c, f)
  BY <1>4, <1>5 DEF PushFlow
<1>8. ~PullFlow(c, flow[c][s])
  BY <1>1 DEF PullFlow
<1> QED BY <1>1, <1>4, <1>6, <1>7, <1>8, GoesNew

LEMMA NamedNew ==
  ASSUME NewestInv, windows = {}, NEW c \in Clients, NEW s \in Slots, Named(c, s) \/ Put(c, s)
  PROVE  NewOK'
<1>0. BlobTypes /\ Stages
  BY Numbers
<1> DEFINE g == [flow[c][s] EXCEPT !.at = "putting", !.hash = disk[c].bytes]
<1>1. /\ Goes(c, s, g) \/ Goes(c, s, Flow("noting"))
      /\ UNCHANGED <<disk, record, relay, edits, up, online, modified, scan, wrapper>>
      /\ flow[c][s] # None /\ flow[c][s].at \in {"naming", "putting"}
  BY DEF Named, Put, At, Still, net, counts
<1>2. g \in Maybe(Flows) /\ g # None /\ g.at = "putting"
  <2>1. flow[c][s] \in Flows /\ disk[c].bytes \in Bytes
    BY <1>0, <1>1, FileIs DEF Stages, StageOK, BlobTypes, Maybe
  <2>2. g \in Flows /\ g.at = "putting"
    BY <2>1 DEF Flows, Maybe
  <2> QED BY <2>2, Nones DEF Maybe
<1>3. Flow("noting") \in Maybe(Flows) /\ Flow("noting") # None /\ Flow("noting").at = "noting"
  BY FlowTypes DEF Ats, Maybe
<1> HIDE DEF g
<1>4. ~PullFlow(c, flow[c][s]) /\ PushFlow(c, g) /\ PushFlow(c, Flow("noting"))
  BY <1>1, <1>2, <1>3 DEF PullFlow, PushFlow
<1>5. CASE Goes(c, s, g)
  BY <1>1, <1>2, <1>4, <1>5, GoesNew
<1>6. CASE Goes(c, s, Flow("noting"))
  BY <1>1, <1>3, <1>4, <1>6, GoesNew
<1> QED BY <1>1, <1>5, <1>6

LEMMA CheckedNew ==
  ASSUME NewestInv, windows = {}, NEW c \in Clients, NEW s \in Slots, Checked(c, s)
  PROVE  NewOK'
<1>0. BlobTypes /\ Stages /\ KnownOK
  BY Numbers DEF NewOK
<1> DEFINE g == [Flow("fetching") EXCEPT !.want = wrapper[c].meta.hash]
           f == IF disk[c].bytes = wrapper[c].meta.hash THEN None ELSE g
<1>1. /\ Goes(c, s, f) /\ UNCHANGED <<Still, modified, scan, wrapper>>
      /\ flow[c][s] # None /\ flow[c][s].at = "checking"
  BY Zenon DEF Checked, At
<1>2. /\ disk[c] # None /\ wrapper[c] # None /\ wrapper[c].meta # None /\ wrapper[c].meta.hash \in Bytes
      /\ record[c] # None /\ wrapper[c].meta.hash \in Nat /\ wrapper[c].meta.hash <= record[c].hash
  <2>1. disk[c] # None /\ wrapper[c] # None /\ wrapper[c].meta # None
    BY <1>0, <1>1 DEF Stages, StageOK
  <2> QED BY <1>0, <2>1 DEF BlobTypes, Maybe, Wrapper, SyncMeta, KnownOK
<1>3. g \in Flows /\ g # None /\ g.at = "fetching" /\ g.want = wrapper[c].meta.hash
  <2>1. g \in Flows
    BY <1>2, FlowTypes DEF Ats
  <2> QED BY <2>1, Nones DEF Flow
<1> HIDE DEF g
<1>4. f \in Maybe(Flows) /\ (f # None => KnownWant(c, f))
  BY <1>2, <1>3 DEF Maybe, KnownWant
<1>5. Behind(c) /\ PullFlow(c, flow[c][s]) => f # None /\ f.at = "fetching" /\ f.want = record[c].hash
  <2> SUFFICES ASSUME Behind(c), wrapper[c].meta.hash = record[c].hash
               PROVE  f # None /\ f.at = "fetching" /\ f.want = record[c].hash
    BY <1>1 DEF PullFlow
  <2>1. disk[c].bytes < record[c].hash /\ disk[c].bytes \in Nat /\ record[c].hash \in Nat
    BY <1>2, Numbers DEF Behind
  <2>2. disk[c].bytes # wrapper[c].meta.hash
    BY <2>1
  <2> QED BY <1>3, <2>2
<1>6. ~PushFlow(c, flow[c][s])
  BY <1>1 DEF PushFlow
<1> HIDE DEF f
<1>7. UNCHANGED <<disk, record, relay, edits, up, online, modified, scan>>
  BY <1>1 DEF Still, net, counts
<1> QED BY <1>1, <1>4, <1>5, <1>6, <1>7, GoesNew

LEMMA StartingNew ==
  ASSUME NewestInv, windows = {}, NEW c \in Clients, Adopt(c) \/ Scan(c) \/ SyncCommand(c)
  PROVE  NewOK'
<1>0. BlobTypes /\ NewOK /\ KnownOK /\ record[c] \in Records
  BY Numbers DEF NewOK
<1>1. UNCHANGED <<disk, record, relay, edits, up, online, modified>> /\ scan \ {c} \subseteq scan'
  BY DEF Adopt, Scan, SyncCommand, Still, net, counts, Fault
<1>2. ASSUME NEW f \in Maybe(Flows), Starts(c, f)
      PROVE  /\ \A d \in Clients : \A t \in Slots :
                  flow'[d][t] = flow[d][t] \/ (d = c /\ flow[d][t] = None /\ flow'[d][t] = f)
             /\ \E t \in Slots : flow'[c][t] = f
             /\ Refreshed(c)
  <2>1. flow' = [flow EXCEPT ![c][Slot(c)] = f] /\ Refreshed(c) /\ Slot(c) \in Free(c)
    BY <1>2, SlotIsFree DEF Starts
  <2>2. Slot(c) \in Slots /\ flow[c][Slot(c)] = None
    BY <2>1 DEF Free
  <2>3. /\ flow' \in [Clients -> [Slots -> Maybe(Flows)]]
        /\ \A d \in Clients : \A t \in Slots : (d = c /\ t = Slot(c)) \/ flow'[d][t] = flow[d][t]
        /\ Slot(c) \in Slots => flow'[c][Slot(c)] = f
    BY <1>0, <2>1, OneFlow
  <2> QED BY <2>1, <2>2, <2>3
<1>3. CASE Adopt(c)
  <2>1. wrapper[c] = None /\ disk[c] # None /\ Starts(c, Taken(c)) /\ scan' = scan
    BY <1>3 DEF Adopt
  <2>2. Taken(c) \in Maybe(Flows)
    BY <1>0, <2>1, StartIsFlow
  <2>3. ~LastUnsaved(c)
    BY <1>0, <2>1 DEF NewOK, PushesDue, PushDue
  <2>4. Taken(c) # None /\ Taken(c).at = "fetching" => KnownWant(c, Taken(c))
    BY StartsKnow
  <2>5. Behind(c) => /\ Taken(c) # None
                     /\ \/ Taken(c).at = "checking"
                        \/ Taken(c).at = "fetching" /\ Taken(c).want = record[c].hash
    BY StartsKnow DEF Behind, Taken
  <2>6. /\ \A d \in Clients : \A t \in Slots :
             flow'[d][t] = flow[d][t] \/ (d = c /\ flow[d][t] = None /\ flow'[d][t] = Taken(c))
        /\ \E t \in Slots : flow'[c][t] = Taken(c)
        /\ Refreshed(c)
    BY <1>2, <2>1, <2>2
  <2> QED BY <1>1, <2>3, <2>4, <2>5, <2>6, AddsNew
<1>4. CASE SyncCommand(c)
  <2>1. Starts(c, Syncing(c)) /\ wrapper[c] # None /\ scan' = scan
    BY <1>4 DEF SyncCommand
  <2>2. Syncing(c) \in Maybe(Flows) /\ (Syncing(c) # None /\ Syncing(c).at = "fetching" => KnownWant(c, Syncing(c)))
    BY <1>0, StartIsFlow, StartsKnow
  <2>3. /\ \A d \in Clients : \A t \in Slots :
             flow'[d][t] = flow[d][t] \/ (d = c /\ flow[d][t] = None /\ flow'[d][t] = Syncing(c))
        /\ Refreshed(c)
    BY <1>2, <2>1, <2>2
  <2> QED BY <1>1, <2>1, <2>2, <2>3, AddsNew
<1>5. CASE Scan(c)
  <2>1. CASE record[c] # None /\ NeedsPull(c)
    <3>1. Starts(c, Pulling(c))
      BY <1>5, <2>1 DEF Scan
    <3>2. /\ Pulling(c) \in Maybe(Flows)
          /\ Pulling(c) # None /\ Pulling(c).at = "fetching" => KnownWant(c, Pulling(c))
          /\ Pulling(c) # None
          /\ \/ Pulling(c).at = "checking"
             \/ Pulling(c).at = "fetching" /\ Pulling(c).want = record[c].hash
      BY <1>0, <2>1, StartIsFlow, StartsKnow
    <3>3. /\ \A d \in Clients : \A t \in Slots :
               flow'[d][t] = flow[d][t] \/ (d = c /\ flow[d][t] = None /\ flow'[d][t] = Pulling(c))
          /\ \E t \in Slots : flow'[c][t] = Pulling(c)
          /\ Refreshed(c)
      BY <1>2, <3>1, <3>2
    <3> QED BY <1>1, <3>2, <3>3, AddsNew
  <2>2. CASE ~(record[c] # None /\ NeedsPull(c))
    <3>1. UNCHANGED <<flow, wrapper>> /\ scan' = scan \ {c}
      BY <1>5, <2>2 DEF Scan
    <3>2. KnownOK'
      BY <1>0, <1>1, <3>1 DEF KnownOK
    <3>3. \A d \in Clients : LastUnsaved(d) /\ PushDue(d) => PushDue(d)'
      BY <1>1, <3>1 DEF PushDue, PushFlow
    <3>4. ASSUME Behind(c) PROVE wrapper[c] = None /\ disk[c] # None
      <4>1. record[c] # None /\ disk[c] # None /\ disk[c].bytes < record[c].hash
        BY <2>2, <3>4 DEF Behind, NeedsPull
      <4>2. disk[c].mtime < record[c].synctime
        BY <1>0, <4>1 DEF NewOK, InOrder
      <4>3. record[c].synctime > disk[c].mtime
        BY <1>0, <4>1, <4>2, Numbers
      <4> QED BY <2>2, <4>1, <4>3 DEF NeedsPull
    <3>5. \A d \in Clients : Behind(d) /\ PullDue(d) => PullDue(d)'
      BY <1>1, <3>1, <3>4 DEF PullDue, PullFlow
    <3> QED BY <1>1, <3>2, <3>3, <3>5, FlowsNew
  <2> QED BY <2>1, <2>2
<1> QED BY <1>3, <1>4, <1>5

LEMMA ModifiedNew ==
  ASSUME NewestInv, windows = {}, NEW c \in Clients, Modified(c)
  PROVE  NewOK'
<1>0. BlobTypes /\ NewOK /\ disk[c] # None
  BY Numbers DEF NewestInv, SafeInv, BlobInv, Modified
<1>1. /\ UNCHANGED <<disk, record, relay, edits, up, online, scan>>
      /\ modified \ {c} \subseteq modified'
  BY DEF Modified, Still, net, counts
<1>2. /\ Taken(c) \in Maybe(Flows) /\ (Taken(c) # None /\ Taken(c).at = "fetching" => KnownWant(c, Taken(c)))
      /\ Syncing(c) \in Maybe(Flows) /\ (Syncing(c) # None /\ Syncing(c).at = "fetching" => KnownWant(c, Syncing(c)))
  BY <1>0, StartIsFlow, StartsKnow
<1>3. CASE wrapper[c] # None
  <2>1. flow' = [flow EXCEPT ![c][Slot(c)] = Syncing(c)] /\ Refreshed(c) /\ Slot(c) \in Free(c)
    BY <1>3, SlotIsFree DEF Modified, Starts
  <2>2. Slot(c) \in Slots /\ flow[c][Slot(c)] = None
    BY <2>1 DEF Free
  <2>3. /\ flow' \in [Clients -> [Slots -> Maybe(Flows)]]
        /\ \A d \in Clients : \A t \in Slots : (d = c /\ t = Slot(c)) \/ flow'[d][t] = flow[d][t]
        /\ Slot(c) \in Slots => flow'[c][Slot(c)] = Syncing(c)
    BY <1>0, <1>2, <2>1, OneFlow
  <2>4. LastUnsaved(c) => Syncing(c) # None /\ PushFlow(c, Syncing(c))
    BY <1>0, StartsKnow DEF NewOK, PushesDue, PushDue
  <2>5. \A d \in Clients : \A t \in Slots :
          \/ flow'[d][t] = flow[d][t]
          \/ /\ d = c /\ flow[d][t] = None
             /\ flow'[d][t] # None /\ flow'[d][t].at = "fetching" => KnownWant(c, flow'[d][t])
    BY <1>2, <2>2, <2>3
  <2>6. LastUnsaved(c) => \E t \in Slots : flow'[c][t] # None /\ PushFlow(c, flow'[c][t])
    BY <2>2, <2>3, <2>4
  <2> QED BY <1>1, <1>3, <2>1, <2>5, <2>6, AddsNew
<1>4. CASE wrapper[c] = None
  <2>1. PICK s, t \in Free(c) :
          /\ s < t /\ flow' = [flow EXCEPT ![c][s] = Taken(c), ![c][t] = Syncing(c)]
          /\ Refreshed(c)
    BY <1>4, Zenon DEF Modified
  <2>2. s \in Slots /\ t \in Slots /\ flow[c][s] = None /\ flow[c][t] = None /\ s # t
    BY <2>1, AttachmentAssumption DEF Free
  <2>3. /\ \A d \in Clients \ {c} : flow'[d] = flow[d]
        /\ flow'[c] = [flow[c] EXCEPT ![s] = Taken(c), ![t] = Syncing(c)]
        /\ flow[c] \in [Slots -> Maybe(Flows)]
    BY <1>0, <2>1, <2>2 DEF BlobTypes
  <2>4. /\ \A u \in Slots : flow'[c][u] = flow[c][u] \/ (flow[c][u] = None /\ flow'[c][u] \in {Taken(c), Syncing(c)})
        /\ flow'[c][s] = Taken(c)
    BY <2>2, <2>3
  <2>5. \A d \in Clients : \A u \in Slots :
          \/ flow'[d][u] = flow[d][u]
          \/ /\ d = c /\ flow[d][u] = None
             /\ flow'[d][u] # None /\ flow'[d][u].at = "fetching" => KnownWant(c, flow'[d][u])
    <3> TAKE d \in Clients
    <3> TAKE u \in Slots
    <3>1. CASE d # c
      BY <2>3, <3>1
    <3>2. CASE d = c
      BY <1>2, <2>4, <3>2
    <3> QED BY <3>1, <3>2
  <2>6. ~LastUnsaved(c)
    BY <1>0, <1>4 DEF NewOK, PushesDue, PushDue
  <2>7. Behind(c) => /\ Taken(c) # None
                     /\ \/ Taken(c).at = "checking"
                        \/ Taken(c).at = "fetching" /\ Taken(c).want = record[c].hash
    BY StartsKnow DEF Behind, Taken
  <2>8. Behind(c) => \E u \in Slots : /\ flow'[c][u] # None
                                      /\ \/ flow'[c][u].at = "checking"
                                         \/ flow'[c][u].at = "fetching" /\ flow'[c][u].want = record[c].hash
    BY <2>2, <2>4, <2>7
  <2> QED BY <1>1, <2>1, <2>5, <2>6, <2>8, AddsNew
<1> QED BY <1>3, <1>4

LEMMA PluginNew ==
  ASSUME NewestInv, windows = {}, windows' = {}, NEW c \in Clients, Stop(c) \/ Start(c) \/ Drop(c) \/ Connect(c)
  PROVE  NewOK'
<1>0. BlobTypes /\ NewOK /\ KnownOK
  BY Numbers DEF NewOK
<1>1. UNCHANGED <<disk, record, relay, edits>>
  BY DEF Stop, Start, Drop, Connect, Fault, net, counts
<1>2. CASE Stop(c)
  <2>1. /\ up' = up \ {c} /\ online' = online \ {c}
        /\ wrapper' = [wrapper EXCEPT ![c] = None]
        /\ flow' = [flow EXCEPT ![c] = [s \in Slots |-> None]]
        /\ modified' = modified \ {c} /\ scan' = scan \ {c}
        /\ windows' = windows \cup IF Unsaved(c) THEN {"unsaved offline"} ELSE {}
    BY <1>2 DEF Stop, Offline
  <2>2. /\ \A d \in Clients \ {c} : wrapper'[d] = wrapper[d] /\ flow'[d] = flow[d]
        /\ wrapper'[c] = None /\ \A s \in Slots : flow'[c][s] = None
    BY <1>0, <2>1 DEF BlobTypes
  <2>3. ~Unsaved(c)
    BY <2>1
  <2>4. KnownOK'
    <3>1. online' \subseteq up'
      BY <1>0, <2>1 DEF KnownOK
    <3>2. ASSUME NEW d \in Clients, NEW s \in Slots, flow'[d][s] # None
          PROVE  d # c /\ flow[d][s] # None /\ flow'[d][s] = flow[d][s] /\ wrapper'[d] = wrapper[d]
      BY <2>2, <3>2
    <3>3. ASSUME NEW d \in Clients, wrapper'[d] # None
          PROVE  d # c /\ wrapper'[d] = wrapper[d]
      BY <2>2, <3>3
    <3> QED BY <1>0, <1>1, <3>1, <3>2, <3>3 DEF KnownOK
  <2>5. \A d \in Clients : LastUnsaved(d) /\ PushDue(d) => PushDue(d)'
    <3> SUFFICES ASSUME NEW d \in Clients, LastUnsaved(d), PushDue(d) PROVE PushDue(d)'
      OBVIOUS
    <3>1. d # c
      BY <2>3 DEF LastUnsaved
    <3> QED BY <1>1, <2>1, <2>2, <3>1 DEF PushDue, PushFlow
  <2>6. \A d \in Clients : Behind(d) /\ PullDue(d) => PullDue(d)'
    <3> SUFFICES ASSUME NEW d \in Clients, d # c, PullDue(d) PROVE PullDue(d)'
      BY <2>1 DEF PullDue
    <3> QED BY <1>1, <2>1, <2>2 DEF PullDue, PullFlow
  <2> QED BY <1>1, <2>4, <2>5, <2>6, FlowsNew
<1>3. CASE Drop(c)
  <2>1. /\ online' = online \ {c} /\ UNCHANGED <<up, wrapper, modified, scan, flow>>
        /\ windows' = windows \cup IF Unsaved(c) THEN {"unsaved offline"} ELSE {}
    BY <1>3 DEF Drop, Offline
  <2>2. ~Unsaved(c)
    BY <2>1
  <2>3. KnownOK'
    BY <1>0, <1>1, <2>1 DEF KnownOK
  <2>4. \A d \in Clients : LastUnsaved(d) /\ PushDue(d) => PushDue(d)'
    BY <1>1, <2>1, <2>2 DEF PushDue, PushFlow, LastUnsaved
  <2>5. \A d \in Clients : Behind(d) /\ PullDue(d) => PullDue(d)'
    BY <1>1, <2>1 DEF PullDue, PullFlow
  <2> QED BY <1>1, <2>3, <2>4, <2>5, FlowsNew
<1>4. CASE Start(c) \/ Connect(c)
  <2>1. /\ online \subseteq online' /\ online' \subseteq up' /\ scan \subseteq scan'
        /\ \A d \in Clients : d \notin up => d \notin up' \/ d \in scan'
        /\ UNCHANGED <<wrapper, modified, flow>>
    BY <1>0, <1>4 DEF Start, Connect, KnownOK
  <2>2. KnownOK'
    BY <1>0, <1>1, <2>1 DEF KnownOK
  <2>3. \A d \in Clients : LastUnsaved(d) /\ PushDue(d) => PushDue(d)'
    BY <1>1, <2>1 DEF PushDue, PushFlow
  <2>4. \A d \in Clients : Behind(d) /\ PullDue(d) => PullDue(d)'
    BY <1>1, <2>1 DEF PullDue, PullFlow
  <2> QED BY <1>1, <2>2, <2>3, <2>4, FlowsNew
<1> QED BY <1>2, <1>3, <1>4

\* Files as they are and no record that was not there.
LEMMA RecordsStay ==
  ASSUME NewOK, UNCHANGED <<disk, edits>>, Records' \subseteq Records
  PROVE  Pure' /\ Chained' /\ InOrder' /\ LastIsSomewhere'
BY DEF NewOK, Pure, Chained, InOrder, LastIsSomewhere, HasLast, UpTo, Before

\* Steps of which a client whose record, files and flows are the same notices nothing.
LEMMA OthersStay ==
  ASSUME NEW d \in Clients, disk'[d] = disk[d], record'[d] = record[d], wrapper'[d] = wrapper[d],
         UNCHANGED <<up, online>>, d \in modified => d \in modified', d \in scan => d \in scan',
         \A t \in Slots : flow'[d][t] = flow[d][t]
  PROVE  (PushDue(d) => PushDue(d)') /\ (Behind(d)' => Behind(d)) /\ (PullDue(d) => PullDue(d)')
BY DEF PushDue, PushFlow, Behind, PullDue, PullFlow

LEMMA SendNew ==
  ASSUME NewestInv, windows = {}, NEW c \in Clients, Send(c)
  PROVE  NewOK'
<1>0. BlobTypes /\ NewOK
  BY Numbers
<1>1. /\ UNCHANGED <<disk, record, edits, up, online, wrapper, modified, scan, flow>>
      /\ relay' \in {relay, record[c]}
  BY DEF Send, counts, Merged
<1>2. Records' \subseteq Records
  BY <1>1 DEF Records
<1>3. (Pure /\ Chained /\ InOrder /\ LastIsSomewhere)'
  BY <1>0, <1>1, <1>2, RecordsStay
<1>4. LastHasTheRecord'
  BY <1>0, <1>1, <1>2 DEF NewOK, LastHasTheRecord, HasLast, UpTo, Before
<1>5. PushesDue'
  BY <1>0, <1>1, <1>2 DEF NewOK, PushesDue, LastUnsaved, HasLast, Unsaved, PushDue, PushFlow
<1>6. PullsDue'
  BY <1>0, <1>1 DEF NewOK, PullsDue, Behind, PullDue, PullFlow
<1>7. KnownOK'
  BY <1>0, <1>1 DEF NewOK, KnownOK
<1> QED BY <1>3, <1>4, <1>5, <1>6, <1>7 DEF NewOK

LEMMA ReceiveNew ==
  ASSUME NewestInv, windows = {}, NEW c \in Clients, Receive(c)
  PROVE  NewOK'
<1>0. BlobTypes /\ NewOK /\ relay \in Records /\ record[c] \in Records
  BY Numbers DEF Records
<1>1. /\ UNCHANGED <<disk, relay, edits, up, online, wrapper, modified, flow>>
      /\ record' = [record EXCEPT ![c] = Merged(record[c], relay)] /\ record' # record
      /\ scan' = scan \cup {c}
  BY DEF Receive, counts
<1>2. Merged(record[c], relay) # record[c]
  <2>1. Merged(record[c], relay) = record[c] => record' = record
    BY <1>0, <1>1 DEF BlobTypes
  <2> QED BY <1>1, <2>1
<1>3. UpTo(record[c], relay) /\ Merged(record[c], relay) = relay /\ relay # None
  <2>1. record[c] \in Maybe(Record) /\ relay \in Maybe(Record)
    BY <1>0 DEF BlobTypes
  <2>2. ~UpTo(relay, record[c])
    BY <1>2, <2>1, MergedIsLater
  <2>3. UpTo(record[c], relay)
    BY <1>0, <2>2 DEF NewOK, Chained
  <2> QED BY <2>1, <2>2, <2>3, MergedIsLater DEF UpTo
<1>4. /\ record'[c] = relay /\ record[c] # relay
      /\ \A d \in Clients \ {c} : record'[d] = record[d]
  BY <1>0, <1>1, <1>2, <1>3 DEF BlobTypes
<1>5. ~UpTo(relay, record[c])
  <2>1. record[c] \in Maybe(Record) /\ relay \in Maybe(Record)
    BY <1>0 DEF BlobTypes
  <2> QED BY <1>2, <2>1, MergedIsLater
<1>6. Records' \subseteq Records
  <2>1. \A d \in Clients : record'[d] \in {relay, record[d]}
    BY <1>4
  <2> QED BY <1>1, <2>1 DEF Records
<1>7. (Pure /\ Chained /\ InOrder /\ LastIsSomewhere)'
  BY <1>0, <1>1, <1>6, RecordsStay
<1>8. ~HasLast(c)
  BY <1>0, <1>5 DEF NewOK, LastHasTheRecord
<1>9. record[c] # None => record[c].hash < relay.hash /\ record[c].hash \in Nat /\ relay.hash \in Nat
  <2>1. record[c] # None => record[c].hash < relay.hash
    BY <1>3, <1>4 DEF UpTo, Before
  <2> QED BY <1>0, <1>3, <2>1, Numbers
<1>10. LastHasTheRecord'
  <2>1. ASSUME NEW d \in Clients, HasLast(d)' PROVE \A r \in Records' : UpTo(r, record[d])'
    <3>1. HasLast(d) /\ d # c
      BY <1>1, <1>8, <2>1 DEF HasLast
    <3>2. \A r \in Records' : UpTo(r, record[d])
      BY <1>0, <1>6, <3>1 DEF NewOK, LastHasTheRecord
    <3> QED BY <1>4, <3>1, <3>2 DEF UpTo, Before
  <2>2. ASSUME NEW d \in Clients, disk'[d] # None, ~HasLast(d)'
        PROVE  record'[d] # None /\ disk'[d].bytes <= record'[d].hash
    <3>1. record[d] # None /\ disk[d].bytes <= record[d].hash
      BY <1>0, <1>1, <2>2 DEF NewOK, LastHasTheRecord, HasLast
    <3>2. CASE d # c
      BY <1>1, <1>4, <3>1, <3>2
    <3>3. CASE d = c
      <4>1. disk[c].bytes \in Nat
        BY <1>1, <2>2, <3>3, Numbers
      <4>2. disk[c].bytes <= relay.hash
        BY <1>9, <3>1, <3>3, <4>1
      <4> QED BY <1>1, <1>3, <1>4, <3>3, <4>2
    <3> QED BY <3>2, <3>3
  <2> QED BY <2>1, <2>2 DEF LastHasTheRecord
<1>11. PushesDue'
  <2> SUFFICES ASSUME NEW d \in Clients, LastUnsaved(d)'
               PROVE  /\ PushDue(d)'
                      /\ \A r \in Records' : r # None => r.hash # edits'
                      /\ \A e \in Clients \ {d} : ~HasLast(e)'
    BY DEF PushesDue
  <2>1. d # c /\ LastUnsaved(d)
    BY <1>1, <1>4, <1>8 DEF LastUnsaved, HasLast, Unsaved
  <2>2. PushDue(d)'
    <3>1. PushDue(d)
      BY <1>0, <2>1 DEF NewOK, PushesDue
    <3>2. /\ disk'[d] = disk[d] /\ record'[d] = record[d] /\ wrapper'[d] = wrapper[d]
          /\ \A t \in Slots : flow'[d][t] = flow[d][t]
          /\ d \in scan => d \in scan'
      BY <1>1, <1>4, <2>1
    <3> QED BY <1>1, <3>1, <3>2, OthersStay
  <2> QED BY <1>0, <1>1, <1>6, <2>1, <2>2 DEF NewOK, PushesDue, HasLast
<1>12. PullsDue'
  <2> SUFFICES ASSUME NEW d \in Clients, Behind(d)' PROVE PullDue(d)'
    BY DEF PullsDue
  <2>1. CASE d = c
    BY <1>1, <2>1 DEF PullDue
  <2>2. CASE d # c
    <3>1. /\ disk'[d] = disk[d] /\ record'[d] = record[d] /\ wrapper'[d] = wrapper[d]
          /\ \A t \in Slots : flow'[d][t] = flow[d][t]
          /\ d \in scan => d \in scan'
      BY <1>1, <1>4, <2>2
    <3>2. Behind(d) /\ (PullDue(d) => PullDue(d)')
      BY <1>1, <3>1, OthersStay
    <3> QED BY <1>0, <3>2 DEF NewOK, PullsDue
  <2> QED BY <2>1, <2>2
<1>13. KnownOK'
  <2>1. KnownOK
    BY <1>0 DEF NewOK
  <2>2. \A d \in Clients, n \in Nat : record[d] # None /\ n <= record[d].hash =>
          record'[d] # None /\ n <= record'[d].hash
    <3> SUFFICES ASSUME NEW d \in Clients, NEW n \in Nat, record[d] # None, n <= record[d].hash
                 PROVE  record'[d] # None /\ n <= record'[d].hash
      OBVIOUS
    <3>1. CASE d = c
      BY <1>3, <1>4, <1>9, <3>1
    <3>2. CASE d # c
      BY <1>4, <3>2
    <3> QED BY <3>1, <3>2
  <2> QED BY <1>1, <2>1, <2>2 DEF KnownOK
<1> QED BY <1>7, <1>10, <1>11, <1>12, <1>13 DEF NewOK

\* Only who has the last edit notes anything, and makes the last record.
LEMMA NotedNew ==
  ASSUME NewestInv, windows = {}, windows' = {}, NEW c \in Clients, NEW s \in Slots, Noted(c, s)
  PROVE  NewOK'
<1>0. BlobTypes /\ Stages /\ NewOK /\ record[c] \in Records /\ edits \in Nat
  BY Numbers
<1>1. /\ flow[c][s] # None /\ flow[c][s].at = "noting" /\ Goes(c, s, None)
      /\ UNCHANGED <<disk, relay, edits, up, online, wrapper, modified>>
  BY DEF Noted, At, Ends, counts
<1>2. disk[c] # None /\ disk[c].bytes \in 1..edits /\ disk[c].mtime \in Nat
  BY <1>0, <1>1, Numbers DEF Stages, StageOK
<1>3. CASE record[c] # None /\ record[c].hash = disk[c].bytes
  <2>1. UNCHANGED <<record, scan>>
    BY <1>3 DEF Noted
  <2>2. ~LastUnsaved(c)
    BY <1>3 DEF LastUnsaved, Unsaved
  <2>3. ~PullFlow(c, flow[c][s])
    BY <1>1 DEF PullFlow
  <2> QED BY <1>1, <2>1, <2>2, <2>3, GoesNew DEF Maybe
<1>4. CASE ~(record[c] # None /\ record[c].hash = disk[c].bytes)
  <2> DEFINE by == IF record[c] = None THEN <<>> ELSE record[c].by
             new == [hash |-> disk[c].bytes, synctime |-> disk[c].mtime, by |-> Append(by, c)]
  <2>1. record' = [record EXCEPT ![c] = new] /\ scan' = scan \cup {c}
    BY <1>4, Zenon DEF Noted
  <2>2. record[c] # None => ~(record[c].synctime > disk[c].mtime)
    BY <1>4 DEF Noted
  <2>3. by \in Seq(Clients) /\ (record[c] # None => by = record[c].by)
    BY <1>0 DEF BlobTypes, Maybe, Record
  <2>4. /\ new.hash = disk[c].bytes /\ new.synctime = disk[c].mtime /\ new.by = Append(by, c)
        /\ new # None
    <3>1. new \in Record
      BY <1>0, <1>2, <2>3, FileIs DEF Record
    <3> QED BY <3>1, Nones
  <2> HIDE DEF new, by
  <2>5. HasLast(c) /\ LastUnsaved(c) /\ disk[c].bytes = edits
    <3>1. HasLast(c)
      <4> SUFFICES ASSUME ~HasLast(c) PROVE FALSE
        OBVIOUS
      <4>1. record[c] # None /\ disk[c].bytes <= record[c].hash
        BY <1>0, <1>2 DEF NewOK, LastHasTheRecord
      <4>2. record[c].hash \in Nat /\ record[c].synctime \in Nat
        BY <1>0, <4>1, Numbers
      <4>3. disk[c].bytes < record[c].hash
        BY <1>2, <1>4, <4>1, <4>2
      <4>4. disk[c].mtime < record[c].synctime
        BY <1>0, <1>2, <4>1, <4>3 DEF NewOK, InOrder
      <4> QED BY <1>2, <2>2, <4>1, <4>2, <4>4
    <3> QED BY <1>4, <3>1 DEF LastUnsaved, Unsaved, HasLast
  <2>6. /\ \A r \in Records : r # None => r.hash # edits
        /\ \A d \in Clients \ {c} : ~HasLast(d)
        /\ \A r \in Records : UpTo(r, record[c])
    BY <1>0, <2>5 DEF NewOK, PushesDue, LastHasTheRecord
  <2>7. record[c] # None => Before(record[c], new)
    <3> SUFFICES ASSUME record[c] # None PROVE Before(record[c], new)
      OBVIOUS
    <3>1. record[c].hash \in 1..edits /\ record[c].hash # edits /\ record[c].synctime \in Nat
      BY <1>0, <2>6, Numbers
    <3>2. record[c].hash < disk[c].bytes
      BY <1>0, <2>5, <3>1
    <3>3. record[c].synctime < disk[c].mtime
      <4>1. disk[c].bytes > record[c].hash
        BY <1>0, <2>5, <3>1
      <4>2. disk[c].mtime > record[c].synctime
        BY <1>0, <1>2, <4>1 DEF NewOK, InOrder
      <4> QED BY <1>2, <3>1, <4>2
    <3>4. Len(by) < Len(new.by) /\ \A i \in 1..Len(by) : by[i] = new.by[i]
      BY <2>3, <2>4
    <3> QED BY <2>3, <2>4, <3>2, <3>3, <3>4 DEF Before
  <2>8. \A q \in Records : UpTo(q, new)
    <3> SUFFICES ASSUME NEW q \in Records, q # None PROVE UpTo(q, new)
      BY DEF UpTo
    <3>1. q = record[c] \/ (record[c] # None /\ Before(q, record[c]))
      BY <2>6 DEF UpTo
    <3>2. CASE q = record[c]
      BY <2>4, <2>7, <3>2 DEF UpTo
    <3>3. CASE record[c] # None /\ Before(q, record[c])
      <4>1. Before(record[c], new)
        BY <2>7, <3>3
      <4>2. /\ q \in Record /\ record[c] \in Record
            /\ q.hash \in Nat /\ record[c].hash \in Nat /\ new.hash \in Nat
            /\ q.synctime \in Nat /\ record[c].synctime \in Nat /\ new.synctime \in Nat
        BY <1>0, <1>2, <2>4, <3>3, Numbers
      <4>3. Len(q.by) \in Nat /\ Len(record[c].by) \in Nat /\ Len(new.by) \in Nat
        BY <2>3, <2>4, <4>2 DEF Record
      <4>4. Len(q.by) < Len(new.by) /\ \A i \in 1..Len(q.by) : q.by[i] = new.by[i]
        <5>1. \A i \in 1..Len(q.by) : i \in 1..Len(record[c].by)
          BY <3>3, <4>3 DEF Before
        <5> QED BY <3>3, <4>1, <4>3, <5>1 DEF Before
      <4>5. q.hash < new.hash /\ q.synctime < new.synctime
        BY <3>3, <4>1, <4>2 DEF Before
      <4> QED BY <2>4, <4>4, <4>5 DEF UpTo, Before
    <3> QED BY <3>1, <3>2, <3>3
  <2>9. /\ record'[c] = new
        /\ \A d \in Clients \ {c} : record'[d] = record[d]
    BY <1>0, <2>1 DEF BlobTypes
  <2>10. \A r \in Records' : r = new \/ r \in Records
    <3>1. \A d \in Clients : record'[d] \in {new, record[d]}
      BY <2>9
    <3> QED BY <1>1, <3>1 DEF Records
  <2>11. Pure'
    <3>1. new.hash # Garbage
      BY <1>2, <2>4, AttachmentAssumption
    <3> QED BY <1>0, <1>1, <2>10, <3>1 DEF NewOK, Pure
  <2>12. Chained'
    <3>1. \A q, r \in Records' : UpTo(q, r) \/ UpTo(r, q)
      BY <1>0, <2>8, <2>10 DEF NewOK, Chained, UpTo
    <3> QED BY <3>1 DEF Chained, UpTo, Before
  <2>13. InOrder'
    <3>1. \A d \in Clients, r \in Records' : disk[d] # None /\ r # None =>
            /\ disk[d].bytes < r.hash => disk[d].mtime < r.synctime
            /\ disk[d].bytes > r.hash => disk[d].mtime > r.synctime
      <4> SUFFICES ASSUME NEW d \in Clients, disk[d] # None
                   PROVE  /\ disk[d].bytes < new.hash => disk[d].mtime < new.synctime
                          /\ ~(disk[d].bytes > new.hash)
        BY <1>0, <2>10 DEF NewOK, InOrder
      <4>1. disk[d].bytes \in 1..edits
        BY Numbers
      <4> QED BY <1>0, <1>2, <2>4, <2>5, <4>1 DEF NewOK, InOrder
    <3> QED BY <1>0, <1>1, <3>1 DEF NewOK, InOrder
  <2>14. LastIsSomewhere'
    BY <1>0, <1>1 DEF NewOK, LastIsSomewhere, HasLast
  <2>15. LastHasTheRecord'
    <3>1. ASSUME NEW d \in Clients, HasLast(d)' PROVE \A r \in Records' : UpTo(r, record[d])'
      <4>1. d = c
        BY <1>1, <2>6, <3>1 DEF HasLast
      <4>2. \A r \in Records' : UpTo(r, new)
        BY <2>8, <2>10 DEF UpTo
      <4> QED BY <2>9, <4>1, <4>2 DEF UpTo, Before
    <3>2. ASSUME NEW d \in Clients, disk'[d] # None, ~HasLast(d)'
          PROVE  record'[d] # None /\ disk'[d].bytes <= record'[d].hash
      <4>1. d # c /\ ~HasLast(d)
        BY <1>1, <2>5, <3>2 DEF HasLast
      <4> QED BY <1>0, <1>1, <2>9, <3>2, <4>1 DEF NewOK, LastHasTheRecord
    <3> QED BY <3>1, <3>2 DEF LastHasTheRecord
  <2>16. PushesDue'
    <3>1. \A d \in Clients : ~LastUnsaved(d)'
      <4> SUFFICES ASSUME NEW d \in Clients, HasLast(d)' PROVE ~Unsaved(d)'
        BY DEF LastUnsaved
      <4>1. d = c
        BY <1>1, <2>6 DEF HasLast
      <4> QED BY <1>1, <2>4, <2>9, <4>1 DEF Unsaved
    <3> QED BY <3>1 DEF PushesDue
  <2>17. \A d \in Clients : \A t \in Slots : flow'[d][t] = flow[d][t] \/ (d = c /\ flow'[d][t] = None)
    <3>1. flow' = [flow EXCEPT ![c][s] = None] /\ None \in Maybe(Flows)
      BY <1>1 DEF Goes, Maybe
    <3> QED BY <1>0, <3>1, OneFlow
  <2>18. PullsDue'
    <3> SUFFICES ASSUME NEW d \in Clients, Behind(d)' PROVE PullDue(d)'
      BY DEF PullsDue
    <3>1. CASE d = c
      BY <2>1, <3>1 DEF PullDue
    <3>2. CASE d # c
      <4>1. /\ disk'[d] = disk[d] /\ record'[d] = record[d] /\ wrapper'[d] = wrapper[d]
            /\ \A t \in Slots : flow'[d][t] = flow[d][t]
            /\ d \in scan => d \in scan'
        BY <1>1, <2>1, <2>9, <2>17, <3>2
      <4>2. Behind(d) /\ (PullDue(d) => PullDue(d)')
        BY <1>1, <4>1, OthersStay
      <4> QED BY <1>0, <4>2 DEF NewOK, PullsDue
    <3> QED BY <3>1, <3>2
  <2>19. KnownOK'
    <3>1. KnownOK
      BY <1>0 DEF NewOK
    <3>2. \A d \in Clients, n \in Nat : record[d] # None /\ n <= record[d].hash =>
            record'[d] # None /\ n <= record'[d].hash
      <4> SUFFICES ASSUME NEW d \in Clients, NEW n \in Nat, record[d] # None, n <= record[d].hash
                   PROVE  record'[d] # None /\ n <= record'[d].hash
        OBVIOUS
      <4>1. CASE d = c
        <5>1. record[c].hash \in Nat /\ record[c].hash <= edits
          BY <1>0, <4>1, Numbers
        <5>2. n <= new.hash
          BY <1>0, <2>4, <2>5, <4>1, <5>1
        <5> QED BY <2>4, <2>9, <4>1, <5>2
      <4>2. CASE d # c
        BY <2>9, <4>2
      <4> QED BY <4>1, <4>2
    <3> QED BY <1>1, <2>17, <3>1, <3>2 DEF KnownOK
  <2> QED BY <2>11, <2>12, <2>13, <2>14, <2>15, <2>16, <2>18, <2>19 DEF NewOK
<1> QED BY <1>3, <1>4

\* No record goes back while no other window is open: NewestEverywhere excepts nothing on its account.
LEMMA NothingGoesBackFirst ==
  ASSUME NewestInv, windows = {}, NEW c \in Clients, Receive(c)
  PROVE  windows' = {}
<1>0. BlobTypes /\ NewOK /\ relay \in Records /\ record[c] \in Records
  BY Numbers DEF Records
<1>1. /\ record' = [record EXCEPT ![c] = Merged(record[c], relay)] /\ record' # record
      /\ windows' = windows \cup (IF WentBack(c, record'[c]) THEN {"record went back"} ELSE {})
  BY DEF Receive
<1>2. record'[c] = Merged(record[c], relay) /\ Merged(record[c], relay) # record[c]
  <2>1. Merged(record[c], relay) = record[c] => record' = record
    BY <1>0, <1>1 DEF BlobTypes
  <2> QED BY <1>0, <1>1, <2>1 DEF BlobTypes
<1>3. Merged(record[c], relay) = relay /\ UpTo(record[c], relay)
  <2>1. record[c] \in Maybe(Record) /\ relay \in Maybe(Record)
    BY <1>0 DEF BlobTypes
  <2>2. ~UpTo(relay, record[c])
    BY <1>2, <2>1, MergedIsLater
  <2>3. UpTo(record[c], relay)
    BY <1>0, <2>2 DEF NewOK, Chained
  <2> QED BY <2>1, <2>3, MergedIsLater
<1>4. ~WentBack(c, relay)
  <2> SUFFICES ASSUME record[c] # None, disk[c] # None, disk[c].mtime <= record[c].synctime
               PROVE  ~(relay.synctime < disk[c].mtime)
    BY DEF WentBack
  <2>1. relay # None /\ record[c].synctime < relay.synctime
    BY <1>2, <1>3 DEF UpTo, Before
  <2>2. disk[c].mtime \in Nat /\ record[c].synctime \in Nat /\ relay.synctime \in Nat
    BY <1>0, <2>1, Numbers
  <2> QED BY <2>1, <2>2
<1> QED BY <1>1, <1>2, <1>3, <1>4

\* A file is written with the last edit, by who can push it or has its record.
LEMMA FetchedNew ==
  ASSUME NewestInv, windows = {}, windows' = {}, NEW c \in Clients, NEW s \in Slots, Fetched(c, s)
  PROVE  NewOK'
<1>0. BlobTypes /\ Stages /\ NewOK /\ KnownOK /\ SafeOK /\ record[c] \in Records
      /\ edits \in Nat /\ clock \in Nat
  BY Numbers DEF NewOK
<1> DEFINE b == blobs[flow[c][s].want]
<1>1. /\ flow[c][s] # None /\ flow[c][s].at = "fetching" /\ Goes(c, s, None)
      /\ UNCHANGED <<record, relay, edits, up, online, wrapper, scan>>
  <2>1. At(c, s, "fetching") /\ Ends(c, s) /\ UNCHANGED <<net, up, online, counts, wrapper, scan>>
    BY Zenon DEF Fetched
  <2> QED BY <2>1 DEF At, Ends, net, counts
<1>2. /\ flow[c][s].want \in Bytes /\ record[c] # None
      /\ flow[c][s].want \in Nat /\ flow[c][s].want <= record[c].hash
  BY <1>0, <1>1 DEF Stages, StageOK, BlobTypes, Maybe, Flows, KnownOK
<1>3. CASE b = None
  <2>1. UNCHANGED <<disk, modified>>
    BY <1>3 DEF Fetched
  <2>2. ~PushFlow(c, flow[c][s])
    BY <1>1 DEF PushFlow
  <2>3. ~PullFlow(c, flow[c][s])
    <3>1. blobs[record[c].hash] = record[c].hash /\ record[c].hash \in Bytes
      BY <1>0, <1>2, Numbers, RecordIsOne DEF Kept
    <3> QED BY <1>1, <1>3, <3>1, Nones DEF PullFlow
  <2> QED BY <1>1, <2>1, <2>2, <2>3, GoesNew DEF Maybe
<1>4. CASE b # None
  <2>1. b = edits /\ Writes(c, b)
    BY <1>4 DEF Fetched
  <2>2. b = flow[c][s].want
    BY <1>0, <1>2, <1>4 DEF SafeOK
  <2>3. record[c].hash = edits
    <3>1. record[c].hash \in 1..edits
      BY <1>0, <1>2, Numbers
    <3> QED BY <1>0, <1>2, <2>1, <2>2, <3>1
  <2>4. disk' = [disk EXCEPT ![c] = [bytes |-> edits, mtime |-> clock + 1]] /\ modified' = modified \cup {c}
    BY <2>1 DEF Writes
  <2> HIDE DEF b
  <2>5. /\ disk'[c] # None /\ disk'[c].bytes = edits /\ disk'[c].mtime = clock + 1
        /\ \A d \in Clients \ {c} : disk'[d] = disk[d]
    <3> DEFINE file == [bytes |-> edits, mtime |-> clock + 1]
    <3>1. edits \in Bytes
      BY <1>2, <2>1, <2>2
    <3>2. file \in File /\ file.bytes = edits /\ file.mtime = clock + 1
      BY <1>0, <3>1 DEF File
    <3> HIDE DEF file
    <3>3. disk' = [disk EXCEPT ![c] = file]
      BY <2>4 DEF file
    <3> QED BY <1>0, <3>2, <3>3, Nones DEF BlobTypes
  <2>6. Records' = Records
    BY <1>1 DEF Records
  <2>7. /\ \A d \in Clients : disk[d] # None =>
             disk[d].bytes \in 1..edits /\ disk[d].mtime \in Nat /\ disk[d].mtime <= clock
        /\ \A r \in Records : r # None => r.hash \in 1..edits /\ r.synctime \in Nat /\ r.synctime <= clock
    BY Numbers
  <2>8. Pure'
    BY <1>0, <2>5, <2>6, AttachmentAssumption DEF NewOK, Pure
  <2>9. Chained'
    BY <1>0, <2>6 DEF NewOK, Chained, UpTo, Before
  <2>10. InOrder'
    <3>1. ASSUME NEW d \in Clients, NEW e \in Clients, disk'[d] # None, disk'[e] # None,
                 disk'[d].bytes < disk'[e].bytes
          PROVE  disk'[d].mtime < disk'[e].mtime
      <4>1. d # c
        <5>1. disk'[e].bytes \in 1..edits
          BY <1>0, <2>5, <2>7, <3>1
        <5> QED BY <1>0, <2>5, <3>1, <5>1
      <4>2. CASE e = c
        BY <1>0, <2>5, <2>7, <3>1, <4>1, <4>2
      <4>3. CASE e # c
        BY <1>0, <2>5, <3>1, <4>1, <4>3 DEF NewOK, InOrder
      <4> QED BY <4>2, <4>3
    <3>2. ASSUME NEW d \in Clients, NEW r \in Records', disk'[d] # None, r # None
          PROVE  /\ disk'[d].bytes < r.hash => disk'[d].mtime < r.synctime
                 /\ disk'[d].bytes > r.hash => disk'[d].mtime > r.synctime
      <4>1. CASE d = c
        <5>1. r.hash \in 1..edits /\ r.synctime \in Nat /\ r.synctime <= clock
          BY <2>6, <2>7, <3>2
        <5> QED BY <1>0, <2>5, <4>1, <5>1
      <4>2. CASE d # c
        BY <1>0, <2>5, <2>6, <3>2, <4>2 DEF NewOK, InOrder
      <4> QED BY <4>1, <4>2
    <3> QED BY <3>1, <3>2 DEF InOrder
  <2>11. HasLast(c)' /\ LastIsSomewhere'
    BY <1>1, <2>5 DEF HasLast, LastIsSomewhere
  <2>12. LastHasTheRecord'
    <3>1. ASSUME NEW d \in Clients, HasLast(d)' PROVE \A r \in Records' : UpTo(r, record[d])'
      <4>1. \A r \in Records : UpTo(r, record[d])
        <5>1. CASE d = c
          <6> SUFFICES ASSUME NEW r \in Records, ~UpTo(r, record[c]) PROVE FALSE
            BY <5>1
          <6>1. UpTo(record[c], r)
            BY <1>0 DEF NewOK, Chained
          <6>2. r # None /\ record[c].hash < r.hash
            BY <1>2, <6>1 DEF UpTo, Before
          <6> QED BY <1>0, <2>3, <2>7, <6>2
        <5>2. CASE d # c
          <6>1. HasLast(d)
            BY <1>1, <2>5, <3>1, <5>2 DEF HasLast
          <6> QED BY <1>0, <6>1 DEF NewOK, LastHasTheRecord
        <5> QED BY <5>1, <5>2
      <4> QED BY <1>1, <2>6, <4>1 DEF UpTo, Before
    <3>2. ASSUME NEW d \in Clients, disk'[d] # None, ~HasLast(d)'
          PROVE  record'[d] # None /\ disk'[d].bytes <= record'[d].hash
      <4>1. d # c /\ disk'[d] = disk[d] /\ ~HasLast(d)
        BY <1>1, <2>5, <2>11, <3>2 DEF HasLast
      <4> QED BY <1>0, <1>1, <3>2, <4>1 DEF NewOK, LastHasTheRecord
    <3> QED BY <3>1, <3>2 DEF LastHasTheRecord
  <2>13. PushesDue'
    <3>1. \A d \in Clients : ~LastUnsaved(d)'
      <4> SUFFICES ASSUME NEW d \in Clients, LastUnsaved(d)' PROVE FALSE
        OBVIOUS
      <4>1. d # c
        BY <1>1, <1>2, <2>3, <2>5 DEF LastUnsaved, Unsaved
      <4>2. LastUnsaved(d)
        BY <1>1, <2>5, <4>1 DEF LastUnsaved, Unsaved, HasLast
      <4> QED BY <1>0, <1>2, <2>3, <4>2 DEF NewOK, PushesDue
    <3> QED BY <3>1 DEF PushesDue
  <2>14. \A d \in Clients : \A t \in Slots : flow'[d][t] = flow[d][t] \/ (d = c /\ flow'[d][t] = None)
    <3>1. flow' = [flow EXCEPT ![c][s] = None] /\ None \in Maybe(Flows)
      BY <1>1 DEF Goes, Maybe
    <3> QED BY <1>0, <3>1, OneFlow
  <2>15. PullsDue'
    <3> SUFFICES ASSUME NEW d \in Clients, Behind(d)' PROVE PullDue(d)'
      BY DEF PullsDue
    <3>1. d # c
      BY <1>0, <1>1, <2>3, <2>5 DEF Behind
    <3>2. /\ disk'[d] = disk[d] /\ record'[d] = record[d] /\ wrapper'[d] = wrapper[d]
          /\ \A t \in Slots : flow'[d][t] = flow[d][t]
          /\ d \in modified => d \in modified'
      BY <1>1, <2>4, <2>5, <2>14, <3>1
    <3>3. Behind(d) /\ (PullDue(d) => PullDue(d)')
      BY <1>1, <3>2, OthersStay
    <3> QED BY <1>0, <3>3 DEF NewOK, PullsDue
  <2>16. KnownOK'
    BY <1>0, <1>1, <2>14 DEF KnownOK
  <2> QED BY <2>8, <2>9, <2>10, <2>11, <2>12, <2>13, <2>15, <2>16 DEF NewOK
<1> QED BY <1>3, <1>4

LEMMA EditNew ==
  ASSUME NewestInv, windows = {}, windows' = {}, NEW c \in Clients, Edit(c)
  PROVE  NewOK'
<1>0. BlobTypes /\ NewOK /\ KnownOK /\ edits \in Nat /\ clock \in Nat
  BY Numbers DEF NewOK
<1>1. /\ disk' = [disk EXCEPT ![c] = [bytes |-> edits + 1, mtime |-> clock + 1]]
      /\ UNCHANGED <<record, relay, up, online, wrapper, scan, flow>>
      /\ edits' = edits + 1
      /\ modified' = IF c \in up THEN modified \cup {c} ELSE modified
  BY DEF Edit, net
<1>2. c \in online /\ wrapper[c] # None /\ HasLast(c) /\ c \in modified'
  <2>1. c \in online /\ wrapper[c] # None /\ HasLast(c)
    BY DEF Edit, HasLast
  <2> QED BY <1>0, <1>1, <2>1 DEF KnownOK
<1>3. /\ disk'[c] # None /\ disk'[c].bytes = edits + 1 /\ disk'[c].mtime = clock + 1
      /\ \A d \in Clients \ {c} : disk'[d] = disk[d]
  <2> DEFINE file == [bytes |-> edits + 1, mtime |-> clock + 1]
  <2>1. edits + 1 \in Bytes
    <3>1. edits + faults < MaxEvents
      BY DEF Edit
    <3>2. edits + 1 \in 1..MaxEvents
      BY <1>0, <3>1, AttachmentAssumption DEF BlobTypes
    <3> QED BY <3>2 DEF Bytes
  <2>2. file \in File /\ file.bytes = edits + 1 /\ file.mtime = clock + 1
    BY <1>0, <2>1 DEF File
  <2> HIDE DEF file
  <2>3. disk' = [disk EXCEPT ![c] = file]
    BY <1>1 DEF file
  <2> QED BY <1>0, <2>2, <2>3, Nones DEF BlobTypes
<1>4. Records' = Records
  BY <1>1 DEF Records
<1>5. /\ \A d \in Clients : disk[d] # None =>
           disk[d].bytes \in 1..edits /\ disk[d].mtime \in Nat /\ disk[d].mtime <= clock
      /\ \A r \in Records : r # None => r.hash \in 1..edits /\ r.synctime \in Nat /\ r.synctime <= clock
  BY Numbers
<1>6. \A d \in Clients \ {c} : ~HasLast(d)'
  BY <1>0, <1>1, <1>3, <1>5 DEF HasLast
<1>7. Pure'
  <2>1. edits + 1 # Garbage
    BY <1>0, AttachmentAssumption
  <2> QED BY <1>0, <1>3, <1>4, <2>1 DEF NewOK, Pure
<1>8. Chained'
  BY <1>0, <1>4 DEF NewOK, Chained, UpTo, Before
<1>9. InOrder'
  <2>1. ASSUME NEW d \in Clients, NEW e \in Clients, disk'[d] # None, disk'[e] # None,
               disk'[d].bytes < disk'[e].bytes
        PROVE  disk'[d].mtime < disk'[e].mtime
    <3>1. d # c
      <4>1. disk'[e].bytes \in 1..(edits + 1)
        BY <1>0, <1>3, <1>5, <2>1
      <4> QED BY <1>0, <1>3, <2>1, <4>1
    <3>2. CASE e = c
      BY <1>0, <1>3, <1>5, <2>1, <3>1, <3>2
    <3>3. CASE e # c
      BY <1>0, <1>3, <2>1, <3>1, <3>3 DEF NewOK, InOrder
    <3> QED BY <3>2, <3>3
  <2>2. ASSUME NEW d \in Clients, NEW r \in Records', disk'[d] # None, r # None
        PROVE  /\ disk'[d].bytes < r.hash => disk'[d].mtime < r.synctime
               /\ disk'[d].bytes > r.hash => disk'[d].mtime > r.synctime
    <3>1. CASE d = c
      <4>1. r.hash \in 1..edits /\ r.synctime \in Nat /\ r.synctime <= clock
        BY <1>4, <1>5, <2>2
      <4> QED BY <1>0, <1>3, <3>1, <4>1
    <3>2. CASE d # c
      BY <1>0, <1>3, <1>4, <2>2, <3>2 DEF NewOK, InOrder
    <3> QED BY <3>1, <3>2
  <2> QED BY <2>1, <2>2 DEF InOrder
<1>10. LastIsSomewhere'
  BY <1>1, <1>3 DEF LastIsSomewhere, HasLast
<1>11. LastHasTheRecord'
  <2>1. \A r \in Records' : UpTo(r, record[c])'
    <3>1. \A r \in Records : UpTo(r, record[c])
      BY <1>0, <1>2 DEF NewOK, LastHasTheRecord
    <3> QED BY <1>1, <1>4, <3>1 DEF UpTo, Before
  <2>2. ASSUME NEW d \in Clients, disk'[d] # None, d # c
        PROVE  record'[d] # None /\ disk'[d].bytes <= record'[d].hash
    <3>1. disk'[d] = disk[d]
      BY <1>3, <2>2
    <3>2. CASE ~HasLast(d)
      BY <1>0, <1>1, <2>2, <3>1, <3>2 DEF NewOK, LastHasTheRecord
    <3>3. CASE HasLast(d)
      <4>1. ~LastUnsaved(d)
        BY <1>0, <1>2, <2>2 DEF NewOK, PushesDue
      <4>2. record[d] # None /\ record[d].hash = disk[d].bytes
        BY <2>2, <3>1, <3>3, <4>1 DEF LastUnsaved, Unsaved
      <4>3. disk[d].bytes \in Nat
        BY <1>5, <2>2, <3>1
      <4> QED BY <1>1, <3>1, <4>2, <4>3
    <3> QED BY <3>2, <3>3
  <2> QED BY <1>3, <1>6, <2>1, <2>2, <1>1 DEF LastHasTheRecord, HasLast
<1>12. PushesDue'
  <2>1. PushDue(c)'
    BY <1>1, <1>2 DEF PushDue
  <2>2. \A r \in Records' : r # None => r.hash # edits'
    BY <1>0, <1>1, <1>4, <1>5
  <2> QED BY <1>6, <2>1, <2>2 DEF PushesDue, LastUnsaved
<1>13. PullsDue'
  <2> SUFFICES ASSUME NEW d \in Clients, Behind(d)' PROVE PullDue(d)'
    BY DEF PullsDue
  <2>1. d # c
    <3>1. record[c] # None => record[c].hash \in 1..edits
      BY <1>5 DEF Records
    <3> QED BY <1>0, <1>1, <1>3, <3>1 DEF Behind
  <2>2. /\ disk'[d] = disk[d] /\ record'[d] = record[d] /\ wrapper'[d] = wrapper[d]
        /\ \A t \in Slots : flow'[d][t] = flow[d][t]
        /\ d \in modified => d \in modified'
    BY <1>1, <1>3, <2>1
  <2>3. Behind(d) /\ (PullDue(d) => PullDue(d)')
    BY <1>1, <2>2, OthersStay
  <2> QED BY <1>0, <2>3 DEF NewOK, PullsDue
<1>14. KnownOK'
  BY <1>0, <1>1 DEF KnownOK
<1> QED BY <1>7, <1>8, <1>9, <1>10, <1>11, <1>12, <1>13, <1>14 DEF NewOK

LEMMA WindowsGrow == ASSUME [Next]_vars PROVE windows \subseteq windows'
<1>1. ASSUME NEW c \in Clients, NEW s \in Slots, Steps(c, s) PROVE windows \subseteq windows'
  <2>1. CASE Compare(c, s) \/ Hashed(c, s) \/ Named(c, s) \/ Put(c, s) \/ Checked(c, s)
    BY <2>1 DEF Compare, Hashed, Named, Put, Checked
  <2>2. CASE PutRefused(c, s) \/ Fails(c, s) \/ Noted(c, s) \/ Garbled(c, s)
    BY <2>2 DEF PutRefused, Fails, Noted, Garbled
  <2>3. CASE Fetched(c, s)
    BY <2>3 DEF Fetched
  <2> QED BY <1>1, <2>1, <2>2, <2>3 DEF Steps
<1>2. ASSUME NEW c \in Clients, Events(c) PROVE windows \subseteq windows'
  BY <1>2 DEF Events, Modified, Adopt, Scan, SyncCommand, Edit, Stop, Start, Drop, Connect, Send, Receive, Offline
<1> QED BY <1>1, <1>2 DEF Next, vars

LEMMA NewestInvKept == ASSUME NewestInv, [Next]_vars PROVE NewestInv'
<1>0. SafeInv' /\ windows \subseteq windows'
  BY SafeInvKept, WindowsGrow DEF NewestInv
<1> SUFFICES ASSUME windows' = {} PROVE NewOK'
  BY <1>0 DEF NewestInv
<1>1. windows = {}
  BY <1>0
<1>2. ASSUME NEW c \in Clients, NEW s \in Slots, Steps(c, s) PROVE NewOK'
  <2>1. ~PutRefused(c, s) /\ ~Fails(c, s) /\ ~Garbled(c, s)
    BY DEF PutRefused, Fails, Garbled
  <2> QED BY <1>1, <1>2, <2>1, CompareNew, HashedNew, NamedNew, NotedNew, CheckedNew, FetchedNew DEF Steps
<1>3. ASSUME NEW c \in Clients, Events(c) PROVE NewOK'
  BY <1>1, <1>3, ModifiedNew, StartingNew, EditNew, PluginNew, SendNew, ReceiveNew DEF Events
<1>4. CASE UNCHANGED vars
  <2>1. UNCHANGED <<disk, record, relay, edits, up, online, wrapper, modified, scan, flow>>
    BY <1>4 DEF vars, net, counts
  <2>2. KnownOK'
    BY <1>1, <2>1, Numbers DEF NewOK, KnownOK
  <2> QED BY <1>1, <2>1, <2>2, FlowsNew DEF PushDue, PushFlow, PullDue, PullFlow
<1> QED BY <1>2, <1>3, <1>4 DEF Next

LEMMA NewestInvInit == ASSUME Init PROVE NewestInv
<1> DEFINE file == [bytes |-> 1, mtime |-> 1]
           first == [hash |-> 1, synctime |-> 1, by |-> <<Owner>>]
<1>0. SafeInv /\ BlobTypes
  BY SafeInvInit DEF SafeInv, BlobInv
<1>1. /\ edits = 1 /\ up = Clients /\ online = Clients /\ file # None /\ first # None
      /\ Owner \in Clients /\ Garbage # 1
      /\ file.bytes = 1 /\ file.mtime = 1 /\ first.hash = 1 /\ first.synctime = 1
  <2>1. file \in File /\ first \in Record
    BY AttachmentAssumption DEF Bytes, File, Record
  <2> QED BY <2>1, AttachmentAssumption, Nones DEF Init
<1> HIDE DEF file, first
<1>2. CASE /\ disk = [c \in Clients |-> file] /\ relay = first
           /\ record = [c \in Clients |-> first]
           /\ wrapper = [c \in Clients |-> [meta |-> Meta(first)]]
           /\ flow = [c \in Clients |-> [s \in Slots |-> None]]
  <2>1. Records = {first}
    BY <1>2, <1>1 DEF Records
  <2>2. Pure /\ Chained /\ LastIsSomewhere /\ LastHasTheRecord
    BY <1>1, <1>2, <2>1 DEF Pure, Chained, UpTo, LastIsSomewhere, LastHasTheRecord, HasLast
  <2>3. InOrder
    BY <1>1, <1>2, <2>1 DEF InOrder
  <2>4. PushesDue
    BY <1>1, <1>2 DEF PushesDue, LastUnsaved, Unsaved
  <2>5. PullsDue
    BY <1>1, <1>2 DEF PullsDue, Behind
  <2>6. KnownOK
    <3>1. Meta(first).hash = 1
      BY <1>1 DEF Meta
    <3> QED BY <1>1, <1>2, <3>1 DEF KnownOK
  <2> QED BY <1>0, <2>2, <2>3, <2>4, <2>5, <2>6 DEF NewestInv, NewOK
<1>3. CASE /\ disk = [c \in Clients |-> IF c = Owner THEN file ELSE None] /\ relay = None
           /\ record = [c \in Clients |-> None]
           /\ wrapper = [c \in Clients |-> IF c = Owner THEN [meta |-> None] ELSE None]
           /\ flow = [c \in Clients |-> [s \in Slots |->
                       IF c = Owner /\ \A t \in Slots : s <= t THEN Flow("hashing") ELSE None]]
  <2>1. Records = {None}
    BY <1>3 DEF Records
  <2>2. Pure /\ Chained /\ LastIsSomewhere /\ LastHasTheRecord
    BY <1>1, <1>3, <2>1 DEF Pure, Chained, UpTo, LastIsSomewhere, LastHasTheRecord, HasLast
  <2>3. InOrder
    BY <1>1, <1>3, <2>1 DEF InOrder
  <2>4. [meta |-> None] # None
    <3>1. [meta |-> None] \in Wrapper
      BY DEF Maybe, Wrapper
    <3> QED BY <3>1, Nones
  <2>5. Flow("hashing") # None /\ Flow("hashing").at = "hashing"
    BY FlowTypes DEF Ats
  <2>6. PushesDue
    <3>1. \A c \in Clients : HasLast(c) => c = Owner
      BY <1>3 DEF HasLast
    <3>2. PushDue(Owner)
      <4>1. PICK s \in Slots : \A t \in Slots : s <= t
        BY Least, AttachmentAssumption
      <4>2. flow[Owner][s] = Flow("hashing")
        BY <1>1, <1>3, <4>1
      <4> QED BY <1>1, <1>3, <2>4, <2>5, <4>2 DEF PushDue, PushFlow
    <3> QED BY <2>1, <3>1, <3>2 DEF PushesDue, LastUnsaved
  <2>7. PullsDue
    BY <1>3 DEF PullsDue, Behind
  <2>8. KnownOK
    BY <1>1, <1>3, <2>4, <2>5 DEF KnownOK
  <2> QED BY <1>0, <2>2, <2>3, <2>6, <2>7, <2>8 DEF NewestInv, NewOK
<1> QED BY <1>2, <1>3 DEF Init, file, first

LEMMA NewestInvHolds == Spec => []NewestInv
<1> QED BY NewestInvInit, NewestInvKept, PTL DEF Spec

(***************************************************************************)
(* For any clients, flows and edits: when everybody is online and nothing  *)
(* is under way every client has the last edit, unless a window was opened.*)
(***************************************************************************)
THEOREM EveryoneGetsTheLastEdit == Spec => []NewestEverywhere
<1>1. NewestInv => NewestEverywhere
  <2> SUFFICES ASSUME NewestInv, Quiet, windows = {}, NEW c \in Clients
               PROVE  disk[c] # None /\ disk[c].bytes = edits
    BY DEF NewestEverywhere, Newest
  <2>1. NewOK /\ \A d \in Clients : disk[d] # None => disk[d].bytes \in 1..edits
    BY Numbers
  <2>2. PICK l \in Clients : HasLast(l)
    BY <2>1 DEF NewOK, LastIsSomewhere
  <2>3. ~LastUnsaved(l)
    BY <2>1 DEF NewOK, PushesDue, PushDue, Quiet
  <2>4. record[l] # None /\ record[l].hash = edits
    BY <2>2, <2>3 DEF LastUnsaved, HasLast, Unsaved
  <2>5. record[c] = record[l]
    BY DEF Quiet
  <2>6. ~Behind(c)
    BY <2>1 DEF NewOK, PullsDue, PullDue, Quiet
  <2>7. disk[c] # None /\ ~(disk[c].bytes < edits)
    BY <2>4, <2>5, <2>6 DEF Behind
  <2>8. edits \in Nat
    BY Numbers
  <2> QED BY <2>1, <2>7, <2>8
<1> QED BY <1>1, NewestInvHolds, PTL

-----------------------------------------------------------------------------
(***************************************************************************)
(* Adoption.  Beats, on sequences of items, is a strict total order: that  *)
(* of the first place in which two of them differ, with -1 behind the end  *)
(* of the shorter one; a prefix is beaten by what it is a prefix of.       *)
(***************************************************************************)

Place(p, i) == IF i <= Len(p) THEN p[i].by ELSE -1

\* Every item has an author.
Items(I) == \A x \in I : x.by \in Nat

LEMMA Places ==
  ASSUME NEW I, Items(I), NEW p \in Seq(I)
  PROVE /\ Len(p) \in Nat /\ DOMAIN p = 1..Len(p)
        /\ \A i \in 1..Len(p) : p[i] \in I /\ p[i].by \in Nat
        /\ \A i \in Nat \ {0} : Place(p, i) \in Int /\ Place(p, i) >= -1
        /\ \A i \in Nat \ {0} : i <= Len(p) => Place(p, i) = p[i].by /\ Place(p, i) >= 0
        /\ \A i \in Nat \ {0} : i > Len(p) => Place(p, i) = -1
<1>1. Len(p) \in Nat /\ DOMAIN p = 1..Len(p) /\ \A i \in 1..Len(p) : p[i] \in I
  BY LenProperties, ElementOfSeq
<1>2. \A i \in 1..Len(p) : p[i].by \in Nat
  BY <1>1 DEF Items
<1>3. \A i \in Nat \ {0} : i <= Len(p) => i \in 1..Len(p)
  BY <1>1
<1>4. \A i \in Nat \ {0} : i <= Len(p) => Place(p, i) = p[i].by /\ Place(p, i) \in Nat
  BY <1>2, <1>3 DEF Place
<1>5. \A i \in Nat \ {0} : i > Len(p) => Place(p, i) = -1
  BY <1>1 DEF Place
<1>6. \A i \in Nat \ {0} : i <= Len(p) \/ i > Len(p)
  BY <1>1
<1> QED BY <1>1, <1>2, <1>4, <1>5, <1>6

\* What it is to be a strict prefix.
LEMMA PrefixIs ==
  ASSUME NEW I, NEW p \in Seq(I), NEW q \in Seq(I)
  PROVE A!IsStrictPrefix(q, p) <=> Len(q) < Len(p) /\ \A i \in 1..Len(q) : q[i] = p[i]
<1>0. Len(p) \in Nat /\ Len(q) \in Nat
  BY LenProperties
<1>1. ASSUME Len(q) <= Len(p)
      PROVE  SubSeq(q, 1, Len(q)) = SubSeq(p, 1, Len(q)) <=> \A i \in 1..Len(q) : q[i] = p[i]
  <2>1. \A i \in 1..Len(q) : q[i] \in I /\ p[i] \in I
    BY <1>0, <1>1, ElementOfSeq
  <2>2. /\ SubSeq(q, 1, Len(q)) \in Seq(I)
        /\ Len(SubSeq(q, 1, Len(q))) = Len(q)
        /\ \A i \in 1..Len(q) : SubSeq(q, 1, Len(q))[i] = q[i]
    <3>1. /\ SubSeq(q, 1, Len(q)) \in Seq(I)
          /\ Len(SubSeq(q, 1, Len(q))) = IF 1 <= Len(q) THEN Len(q) - 1 + 1 ELSE 0
          /\ \A i \in 1..(Len(q) - 1 + 1) : SubSeq(q, 1, Len(q))[i] = q[1 + i - 1]
      BY <1>0, <2>1, SubSeqProperties
    <3> QED BY <3>1, <1>0
  <2>3. /\ SubSeq(p, 1, Len(q)) \in Seq(I)
        /\ Len(SubSeq(p, 1, Len(q))) = Len(q)
        /\ \A i \in 1..Len(q) : SubSeq(p, 1, Len(q))[i] = p[i]
    <3>1. /\ SubSeq(p, 1, Len(q)) \in Seq(I)
          /\ Len(SubSeq(p, 1, Len(q))) = IF 1 <= Len(q) THEN Len(q) - 1 + 1 ELSE 0
          /\ \A i \in 1..(Len(q) - 1 + 1) : SubSeq(p, 1, Len(q))[i] = p[1 + i - 1]
      BY <1>0, <2>1, SubSeqProperties
    <3> QED BY <3>1, <1>0
  <2>4. ASSUME SubSeq(q, 1, Len(q)) = SubSeq(p, 1, Len(q))
        PROVE  \A i \in 1..Len(q) : q[i] = p[i]
    BY <2>2, <2>3, <2>4
  <2>5. ASSUME \A i \in 1..Len(q) : q[i] = p[i]
        PROVE  SubSeq(q, 1, Len(q)) = SubSeq(p, 1, Len(q))
    BY <2>2, <2>3, <2>5, SeqEqual
  <2> QED BY <2>4, <2>5
<1>2. ASSUME Len(q) = Len(p), \A i \in 1..Len(q) : q[i] = p[i] PROVE q = p
  BY <1>2, SeqEqual
<1>3. A!IsStrictPrefix(q, p) <=>
        q # p /\ Len(q) <= Len(p) /\ SubSeq(q, 1, Len(q)) = SubSeq(p, 1, Len(q))
  BY DEF A!IsStrictPrefix, A!IsPrefix
<1> QED BY <1>0, <1>1, <1>2, <1>3

\* The definition of Beats, place by place.
LEMMA BeatsIs ==
  ASSUME NEW I, Items(I), NEW p \in Seq(I), NEW q \in Seq(I)
  PROVE /\ A!Beats(p, q) => \E i \in Nat \ {0} :
                              /\ Place(p, i) > Place(q, i)
                              /\ \A j \in 1..(i - 1) : Place(p, j) = Place(q, j)
        /\ A!IsStrictPrefix(q, p) => A!Beats(p, q)
        /\ \A i \in DOMAIN p \cap DOMAIN q :
             p[i].by > q[i].by /\ (\A j \in 1..(i - 1) : p[j] = q[j]) => A!Beats(p, q)
<1>0. /\ Len(p) \in Nat /\ Len(q) \in Nat /\ DOMAIN p = 1..Len(p) /\ DOMAIN q = 1..Len(q)
  BY Places
<1>1. ASSUME A!IsStrictPrefix(q, p)
      PROVE \E i \in Nat \ {0} : /\ Place(p, i) > Place(q, i)
                                 /\ \A j \in 1..(i - 1) : Place(p, j) = Place(q, j)
  <2>1. Len(q) < Len(p) /\ \A i \in 1..Len(q) : q[i] = p[i]
    BY <1>1, PrefixIs
  <2> DEFINE k == Len(q) + 1
  <2>2. k \in Nat \ {0} /\ k <= Len(p) /\ k > Len(q)
    BY <1>0, <2>1
  <2>3. Place(p, k) >= 0 /\ Place(q, k) = -1 /\ Place(p, k) \in Int
    BY <2>2, Places
  <2>4. \A j \in 1..(k - 1) : Place(p, j) = Place(q, j)
    BY <1>0, <2>1 DEF Place
  <2> HIDE DEF k
  <2> QED BY <2>2, <2>3, <2>4
<1>2. ASSUME NEW i \in DOMAIN p \cap DOMAIN q, p[i].by > q[i].by, \A j \in 1..(i - 1) : p[j] = q[j]
      PROVE \E k \in Nat \ {0} : /\ Place(p, k) > Place(q, k)
                                 /\ \A j \in 1..(k - 1) : Place(p, j) = Place(q, j)
  <2>1. i \in Nat \ {0} /\ i <= Len(p) /\ i <= Len(q)
    BY <1>0
  <2>2. \A j \in 1..(i - 1) : Place(p, j) = Place(q, j)
    BY <2>1, <1>0, <1>2 DEF Place
  <2>3. Place(p, i) > Place(q, i)
    BY <2>1, <1>2 DEF Place
  <2> QED BY <2>1, <2>2, <2>3
<1> QED BY <1>1, <1>2 DEF A!Beats

LEMMA BeatsAsymmetric ==
  ASSUME NEW I, Items(I), NEW p \in Seq(I), NEW q \in Seq(I), A!Beats(p, q)
  PROVE p # q /\ ~A!Beats(q, p)
<1> DEFINE P(i) == Place(p, i)
           Q(i) == Place(q, i)
<1>1. \A i \in Nat \ {0} : P(i) \in Int /\ Q(i) \in Int
  BY Places
<1>2. PICK i \in Nat \ {0} : P(i) > Q(i) /\ \A j \in 1..(i - 1) : P(j) = Q(j)
  BY BeatsIs
<1>3. p # q
  BY <1>1, <1>2
<1>4. A!Beats(q, p) => \E k \in Nat \ {0} : Q(k) > P(k) /\ \A j \in 1..(k - 1) : Q(j) = P(j)
  BY BeatsIs
<1> HIDE DEF P, Q
<1>5. ASSUME NEW k \in Nat \ {0}, Q(k) > P(k), \A j \in 1..(k - 1) : Q(j) = P(j)
      PROVE FALSE
  <2>1. CASE k < i
    BY <2>1, <1>1, <1>2, <1>5
  <2>2. CASE k = i
    BY <2>2, <1>1, <1>2, <1>5
  <2>3. CASE k > i
    BY <2>3, <1>1, <1>2, <1>5
  <2> QED BY <2>1, <2>2, <2>3
<1> QED BY <1>3, <1>4, <1>5

\* Claims, as sequences of their claimants, and records.
ClaimItems == [by : Nat]
ClaimSeqs == Seq(ClaimItems) \ {<<>>}
RecordItems == [by : Nat, guid : A!Guids]
RecordSeqs == Seq(RecordItems) \ {<<>>}

LEMMA ItemsAre == Items(ClaimItems) /\ Items(RecordItems)
BY DEF Items, ClaimItems, RecordItems

\* Of two claims in the same place the claimants decide.
LEMMA ClaimBeatsIs ==
  ASSUME NEW p \in Seq(ClaimItems), NEW q \in Seq(ClaimItems), NEW i \in Nat \ {0},
         Place(p, i) > Place(q, i), \A j \in 1..(i - 1) : Place(p, j) = Place(q, j)
  PROVE A!Beats(p, q)
<1>0. /\ Len(p) \in Nat /\ Len(q) \in Nat /\ DOMAIN p = 1..Len(p) /\ DOMAIN q = 1..Len(q)
      /\ \A k \in 1..Len(p) : p[k] \in ClaimItems
      /\ \A k \in 1..Len(q) : q[k] \in ClaimItems
  BY Places, ItemsAre
<1>1. i <= Len(p)
  <2> SUFFICES ASSUME i > Len(p) PROVE FALSE
    BY <1>0
  <2>1. Place(p, i) = -1
    BY Places, ItemsAre
  <2>2. Place(q, i) \in Int /\ Place(q, i) >= -1
    BY Places, ItemsAre
  <2> QED BY <2>1, <2>2
<1>2. ASSUME NEW j \in 1..(i - 1) PROVE j <= Len(q) /\ j <= Len(p) /\ p[j] = q[j]
  <2>1. j \in Nat \ {0} /\ j <= Len(p) /\ Place(p, j) = Place(q, j)
    BY <1>0, <1>1
  <2>2. Place(p, j) = p[j].by /\ Place(p, j) >= 0
    BY <2>1, Places, ItemsAre
  <2>3. j <= Len(q)
    <3> SUFFICES ASSUME j > Len(q) PROVE FALSE
      BY <1>0
    <3>1. Place(q, j) = -1
      BY <2>1, Places, ItemsAre
    <3> QED BY <3>1, <2>1, <2>2
  <2>4. Place(q, j) = q[j].by
    BY <2>1, <2>3, Places, ItemsAre
  <2>5. p[j] \in ClaimItems /\ q[j] \in ClaimItems /\ p[j].by = q[j].by
    BY <1>0, <2>1, <2>2, <2>3, <2>4
  <2> QED BY <2>1, <2>3, <2>5 DEF ClaimItems
<1>3. CASE i <= Len(q)
  <2>1. i \in DOMAIN p \cap DOMAIN q
    BY <1>0, <1>1, <1>3
  <2>2. p[i].by > q[i].by
    BY <1>1, <1>3, Places, ItemsAre
  <2> QED BY <1>2, <2>1, <2>2, BeatsIs, ItemsAre
<1>4. CASE i > Len(q)
  <2>1. Len(q) = i - 1
    <3>1. CASE i = 1
      BY <3>1, <1>4, <1>0
    <3>2. CASE i # 1
      <4>1. i - 1 \in 1..(i - 1)
        BY <3>2
      <4> QED BY <4>1, <1>2, <1>4, <1>0
    <3> QED BY <3>1, <3>2
  <2>2. \A j \in 1..Len(q) : q[j] = p[j]
    BY <2>1, <1>2
  <2>3. A!IsStrictPrefix(q, p)
    BY <1>0, <1>1, <1>4, <2>2, PrefixIs
  <2> QED BY <2>3, BeatsIs, ItemsAre
<1> QED BY <1>0, <1>3, <1>4

LEMMA BeatsTransitive ==
  ASSUME NEW p \in Seq(ClaimItems), NEW q \in Seq(ClaimItems), NEW r \in Seq(ClaimItems),
         A!Beats(p, q), A!Beats(q, r)
  PROVE A!Beats(p, r)
<1> DEFINE P(i) == Place(p, i)
           Q(i) == Place(q, i)
           R(i) == Place(r, i)
<1>1. \A i \in Nat \ {0} : P(i) \in Int /\ Q(i) \in Int /\ R(i) \in Int
  BY Places, ItemsAre
<1>2. PICK i \in Nat \ {0} : P(i) > Q(i) /\ \A j \in 1..(i - 1) : P(j) = Q(j)
  BY BeatsIs, ItemsAre
<1>3. PICK k \in Nat \ {0} : Q(k) > R(k) /\ \A j \in 1..(k - 1) : Q(j) = R(j)
  BY BeatsIs, ItemsAre
<1>4. SUFFICES \E m \in Nat \ {0} : P(m) > R(m) /\ \A j \in 1..(m - 1) : P(j) = R(j)
  BY ClaimBeatsIs
<1> HIDE DEF P, Q, R
<1>5. CASE i <= k
  <2>1. P(i) > R(i)
    <3>1. CASE i = k
      BY <3>1, <1>1, <1>2, <1>3
    <3>2. CASE i < k
      <4>1. i \in 1..(k - 1)
        BY <3>2
      <4> QED BY <4>1, <1>1, <1>2, <1>3
    <3> QED BY <3>1, <3>2, <1>5
  <2>2. \A j \in 1..(i - 1) : j \in 1..(k - 1)
    BY <1>5
  <2> QED BY <2>1, <2>2, <1>2, <1>3
<1>6. CASE k < i
  <2>1. k \in 1..(i - 1)
    BY <1>6
  <2>2. P(k) > R(k)
    BY <2>1, <1>1, <1>2, <1>3
  <2>3. \A j \in 1..(k - 1) : j \in 1..(i - 1)
    BY <1>6
  <2> QED BY <2>2, <2>3, <1>2, <1>3
<1> QED BY <1>5, <1>6

LEMMA BeatsTotal ==
  ASSUME NEW p \in Seq(ClaimItems), NEW q \in Seq(ClaimItems), p # q
  PROVE A!Beats(p, q) \/ A!Beats(q, p)
<1> DEFINE P(i) == Place(p, i)
           Q(i) == Place(q, i)
           Differ == {i \in Nat \ {0} : P(i) # Q(i)}
<1>1. \A i \in Nat \ {0} : P(i) \in Int /\ Q(i) \in Int
  BY Places, ItemsAre
<1>2. Len(p) \in Nat /\ Len(q) \in Nat
  BY LenProperties
<1>3. Differ # {}
  <2> SUFFICES ASSUME \A i \in Nat \ {0} : Place(p, i) = Place(q, i) PROVE FALSE
    OBVIOUS
  <2>1. ASSUME NEW a \in Seq(ClaimItems), NEW b \in Seq(ClaimItems), Len(a) < Len(b),
               \A i \in Nat \ {0} : Place(a, i) = Place(b, i)
        PROVE FALSE
    <3>1. Len(b) \in Nat \ {0} /\ Len(b) > Len(a)
      BY <2>1, LenProperties
    <3>2. Place(a, Len(b)) = -1 /\ Place(b, Len(b)) >= 0
      BY <3>1, Places, ItemsAre
    <3> QED BY <3>1, <3>2, <2>1
  <2>2. Len(p) = Len(q)
    BY <1>2, <2>1
  <2>3. \A i \in 1..Len(p) : p[i] = q[i]
    <3> TAKE i \in 1..Len(p)
    <3>1. i \in Nat \ {0} /\ i <= Len(p) /\ i <= Len(q)
      BY <1>2, <2>2
    <3>2. p[i] \in ClaimItems /\ q[i] \in ClaimItems
      BY <2>2, Places, ItemsAre
    <3>3. p[i].by = q[i].by
      BY <3>1, Places, ItemsAre
    <3> QED BY <3>2, <3>3 DEF ClaimItems
  <2> QED BY <2>2, <2>3, SeqEqual
<1>4. PICK i \in Differ : \A j \in Differ : i <= j
  <2>1. Differ \in SUBSET Nat
    OBVIOUS
  <2> HIDE DEF Differ
  <2> QED BY <2>1, <1>3, Least
<1>5. i \in Nat \ {0} /\ P(i) # Q(i) /\ \A j \in 1..(i - 1) : P(j) = Q(j) /\ Q(j) = P(j)
  <2>1. i \in Nat \ {0} /\ P(i) # Q(i)
    BY DEF Differ
  <2>2. \A j \in 1..(i - 1) : j \in Nat \ {0} /\ ~(i <= j)
    BY <2>1
  <2>3. \A j \in 1..(i - 1) : j \notin Differ
    BY <2>2, <1>4
  <2>4. \A j \in 1..(i - 1) : P(j) = Q(j)
    BY <2>2, <2>3 DEF Differ
  <2> QED BY <2>1, <2>4
<1>6. P(i) > Q(i) \/ Q(i) > P(i)
  <2> HIDE DEF P, Q
  <2> QED BY <1>1, <1>5
<1> QED BY <1>5, <1>6, ClaimBeatsIs

LEMMA PrefixTransitive ==
  ASSUME NEW I, NEW p \in Seq(I), NEW q \in Seq(I), NEW r \in Seq(I),
         A!IsStrictPrefix(p, q), A!IsStrictPrefix(q, r)
  PROVE  A!IsStrictPrefix(p, r)
<1>1. /\ Len(p) < Len(q) /\ \A i \in 1..Len(p) : p[i] = q[i]
      /\ Len(q) < Len(r) /\ \A i \in 1..Len(q) : q[i] = r[i]
  BY PrefixIs
<1>2. Len(p) \in Nat /\ Len(q) \in Nat /\ Len(r) \in Nat
  BY LenProperties
<1>3. Len(p) < Len(r) /\ \A i \in 1..Len(p) : p[i] = r[i]
  BY <1>1, <1>2
<1> QED BY <1>3, PrefixIs

\* An item set over a sequence.
LEMMA AppendedIs ==
  ASSUME NEW I, NEW p \in Seq(I), NEW x \in I
  PROVE /\ Append(p, x) \in Seq(I) \ {<<>>}
        /\ A!Last(Append(p, x)) = x
        /\ A!IsStrictPrefix(p, Append(p, x))
<1>1. /\ Append(p, x) \in Seq(I) /\ Len(Append(p, x)) = Len(p) + 1
      /\ Append(p, x)[Len(p) + 1] = x
      /\ \A i \in 1..Len(p) : Append(p, x)[i] = p[i]
  BY AppendProperties
<1>2. Len(p) \in Nat
  BY LenProperties
<1>3. A!Last(Append(p, x)) = x
  BY <1>1 DEF A!Last
<1>4. Append(p, x) # <<>>
  BY <1>1, <1>2, EmptySeq
<1>5. A!IsStrictPrefix(p, Append(p, x))
  <2>1. PICK a \in Seq(I) : a = Append(p, x)
    BY <1>1
  <2>2. Len(p) < Len(a) /\ \A i \in 1..Len(p) : p[i] = a[i]
    BY <1>1, <1>2, <2>1
  <2> QED BY <2>1, <2>2, PrefixIs
<1> QED BY <1>1, <1>3, <1>4, <1>5

-----------------------------------------------------------------------------
(* The top of a set of items, which beats every other one.                   *)

HasTop(S) == S = {} \/ \E p \in S : \A q \in S \ {p} : A!Beats(p, q)

LEMMA TopIs ==
  ASSUME NEW I, Items(I), NEW S \in SUBSET Seq(I), NEW p \in S, \A q \in S \ {p} : A!Beats(p, q)
  PROVE A!Top(S) = p
<1>1. S # {}
  OBVIOUS
<1>2. \A r \in S : (\A q \in S \ {r} : A!Beats(r, q)) => r = p
  <2> SUFFICES ASSUME NEW r \in S, \A q \in S \ {r} : A!Beats(r, q), r # p
               PROVE FALSE
    OBVIOUS
  <2>1. A!Beats(r, p) /\ A!Beats(p, r)
    OBVIOUS
  <2>2. r \in Seq(I) /\ p \in Seq(I)
    OBVIOUS
  <2> QED BY <2>1, <2>2, BeatsAsymmetric
<1> DEFINE Wins(r) == \A q \in S \ {r} : A!Beats(r, q)
<1>3. A!Top(S) = CHOOSE r \in S : Wins(r)
  BY <1>1 DEF A!Top
<1>4. (\E r \in S : Wins(r)) /\ (\A r \in S : Wins(r) => r = p)
  BY <1>2
<1> HIDE DEF Wins
<1>5. (CHOOSE r \in S : Wins(r)) = p
  BY <1>4, Zenon
<1> QED BY <1>3, <1>5

LEMMA TopWins ==
  ASSUME NEW I, Items(I), NEW S \in SUBSET Seq(I), HasTop(S), S # {}
  PROVE A!Top(S) \in S /\ \A q \in S \ {A!Top(S)} : A!Beats(A!Top(S), q)
<1>1. PICK p \in S : \A q \in S \ {p} : A!Beats(p, q)
  BY DEF HasTop
<1>2. A!Top(S) = p
  BY <1>1, TopIs
<1> QED BY <1>1, <1>2

\* Of two sets the better one of their tops is the top of both.
LEMMA ClaimsMerge ==
  ASSUME NEW S \in SUBSET Seq(ClaimItems), NEW T \in SUBSET Seq(ClaimItems), HasTop(S), HasTop(T)
  PROVE HasTop(S \cup T)
<1>1. CASE S = {} \/ T = {}
  BY <1>1 DEF HasTop
<1>2. ASSUME NEW U \in SUBSET Seq(ClaimItems), NEW V \in SUBSET Seq(ClaimItems),
             NEW a \in U, NEW b \in V,
             \A q \in U \ {a} : A!Beats(a, q), \A q \in V \ {b} : A!Beats(b, q),
             a = b \/ A!Beats(a, b)
      PROVE \A q \in (U \cup V) \ {a} : A!Beats(a, q)
  <2> TAKE q \in (U \cup V) \ {a}
  <2>1. CASE q \in U
    BY <2>1, <1>2
  <2>2. CASE q \in V /\ a = b
    BY <2>2, <1>2
  <2>3. CASE q \in V /\ A!Beats(a, b)
    <3>1. CASE q = b
      BY <3>1, <2>3
    <3>2. CASE q # b
      <4>1. A!Beats(b, q)
        BY <3>2, <2>3, <1>2
      <4>2. a \in Seq(ClaimItems) /\ b \in Seq(ClaimItems) /\ q \in Seq(ClaimItems)
        BY <2>3, <1>2
      <4> QED BY <4>1, <4>2, <2>3, BeatsTransitive
    <3> QED BY <3>1, <3>2
  <2> QED BY <2>1, <2>2, <2>3, <1>2
<1>3. CASE S # {} /\ T # {}
  <2>1. PICK s \in S : \A q \in S \ {s} : A!Beats(s, q)
    BY <1>3 DEF HasTop
  <2>2. PICK t \in T : \A q \in T \ {t} : A!Beats(t, q)
    BY <1>3 DEF HasTop
  <2>3. s = t \/ A!Beats(s, t) \/ A!Beats(t, s)
    <3>1. s \in Seq(ClaimItems) /\ t \in Seq(ClaimItems)
      BY <2>1, <2>2
    <3> QED BY <3>1, BeatsTotal
  <2>4. CASE s = t \/ A!Beats(s, t)
    <3>1. \A q \in (S \cup T) \ {s} : A!Beats(s, q)
      BY <2>1, <2>2, <2>4, <1>2
    <3> QED BY <3>1 DEF HasTop
  <2>5. CASE A!Beats(t, s)
    <3>1. \A q \in (T \cup S) \ {t} : A!Beats(t, q)
      BY <2>1, <2>2, <2>5, <1>2
    <3> QED BY <3>1 DEF HasTop
  <2> QED BY <2>3, <2>4, <2>5
<1> QED BY <1>1, <1>3

\* A claim set over what is there is the top.
LEMMA ClaimSetOver ==
  ASSUME NEW S \in SUBSET ClaimSeqs, HasTop(S), NEW x \in ClaimItems
  PROVE  \E p \in ClaimSeqs : /\ A!SetOver(S, x) = S \cup {p} /\ A!Last(p) = x
                              /\ HasTop(S \cup {p}) /\ A!Top(S \cup {p}) = p
<1>1. PICK p : p = Append(A!Top(S), x)
  OBVIOUS
<1>2. A!SetOver(S, x) = S \cup {p}
  BY <1>1 DEF A!SetOver
<1>3. S \in SUBSET Seq(ClaimItems)
  BY DEF ClaimSeqs
<1>4. A!Top(S) \in Seq(ClaimItems)
  <2>1. CASE S = {}
    BY <2>1, EmptySeq DEF A!Top
  <2>2. CASE S # {}
    BY <1>3, <2>2, TopWins, ItemsAre
  <2> QED BY <2>1, <2>2
<1>5. p \in ClaimSeqs /\ A!Last(p) = x /\ A!IsStrictPrefix(A!Top(S), p)
  BY <1>1, <1>4, AppendedIs DEF ClaimSeqs
<1>6. p \in Seq(ClaimItems) /\ A!Beats(p, A!Top(S))
  BY <1>4, <1>5, BeatsIs, ItemsAre DEF ClaimSeqs
<1>7. ASSUME NEW q \in (S \cup {p}) \ {p} PROVE A!Beats(p, q)
  <2>1. q \in S /\ S # {} /\ q \in Seq(ClaimItems)
    BY <1>3, <1>7
  <2>2. CASE q = A!Top(S)
    BY <1>6, <2>2
  <2>3. CASE q # A!Top(S)
    <3>1. A!Beats(A!Top(S), q)
      BY <1>3, <2>1, <2>3, TopWins, ItemsAre
    <3> QED BY <1>4, <1>6, <2>1, <3>1, BeatsTransitive
  <2> QED BY <2>2, <2>3
<1>8. HasTop(S \cup {p})
  BY <1>7 DEF HasTop
<1>9. A!Top(S \cup {p}) = p
  <2>1. S \cup {p} \in SUBSET Seq(ClaimItems) /\ p \in S \cup {p}
    BY <1>3, <1>6
  <2> QED BY <1>7, <2>1, TopIs, ItemsAre
<1> QED BY <1>2, <1>5, <1>8, <1>9

(***************************************************************************)
(* Records.  A chain of them, each but the last one deleted: what is read  *)
(* is the last one, if it is not deleted.  all are the records there are.  *)
(***************************************************************************)
Chain(all) == \A p, q \in all : p = q \/ A!IsStrictPrefix(p, q) \/ A!IsStrictPrefix(q, p)

Follows(X, all) ==
  /\ X.gone \subseteq X.records /\ X.records \subseteq all
  /\ \A r \in X.records : \A q \in all : A!IsStrictPrefix(q, r) => q \in X.gone

Documents == [claims : SUBSET ClaimSeqs, records : SUBSET RecordSeqs, gone : SUBSET RecordSeqs]

LEMMA RecordTop ==
  ASSUME NEW all \in SUBSET RecordSeqs, Chain(all), NEW S \in SUBSET all, HasTop(S), S # {}
  PROVE A!Top(S) \in S /\ \A q \in S \ {A!Top(S)} : A!IsStrictPrefix(q, A!Top(S))
<1>1. S \in SUBSET Seq(RecordItems)
  BY DEF RecordSeqs
<1>2. A!Top(S) \in S /\ \A q \in S \ {A!Top(S)} : A!Beats(A!Top(S), q)
  BY <1>1, TopWins, ItemsAre
<1>3. ASSUME NEW q \in S \ {A!Top(S)} PROVE A!IsStrictPrefix(q, A!Top(S))
  <2>1. PICK t \in S : t = A!Top(S)
    BY <1>2
  <2>2. A!Beats(t, q) /\ t # q /\ t \in Seq(RecordItems) /\ q \in Seq(RecordItems)
    BY <1>1, <1>2, <2>1
  <2>3. ~A!Beats(q, t)
    BY <2>2, BeatsAsymmetric, ItemsAre
  <2>4. ~A!IsStrictPrefix(t, q)
    BY <2>2, <2>3, BeatsIs, ItemsAre
  <2> QED BY <2>1, <2>2, <2>4 DEF Chain
<1> QED BY <1>2, <1>3

\* What eachRecord lists.
LEMMA RecordIs ==
  ASSUME NEW all \in SUBSET RecordSeqs, Chain(all), NEW X \in Documents,
         Follows(X, all), HasTop(X.records)
  PROVE  /\ A!RecordIn(X) = A!NoGuid <=> X.records \subseteq X.gone
         /\ A!RecordIn(X) # A!NoGuid =>
              \E r \in X.records : /\ r \notin X.gone /\ X.records \ {r} \subseteq X.gone
                                   /\ A!Last(r).guid = A!RecordIn(X) /\ A!Top(X.records) = r
         /\ A!RecordIn(X) \in A!Guids \cup {A!NoGuid}
<1>1. CASE X.records = {}
  BY <1>1 DEF A!RecordIn, A!Top, A!NoGuid
<1>2. CASE X.records # {}
  <2>1. PICK t \in X.records : t = A!Top(X.records) /\ \A q \in X.records \ {t} : A!IsStrictPrefix(q, t)
    BY <1>2, RecordTop DEF Follows
  <2>2. \A q \in X.records \ {t} : q \in X.gone
    BY <2>1 DEF Follows
  <2>3. t # <<>> /\ A!Last(t).guid \in A!Guids
    <3>1. t \in Seq(RecordItems) /\ t # <<>>
      BY DEF RecordSeqs, Follows
    <3>2. Len(t) \in 1..Len(t) /\ Len(t) \in Nat
      BY <3>1, LenProperties, EmptySeq
    <3>3. t[Len(t)] \in RecordItems
      BY <3>1, <3>2, ElementOfSeq
    <3> QED BY <3>1, <3>3 DEF A!Last, RecordItems
  <2>4. A!Last(t).guid # A!NoGuid
    <3>1. <<>> \notin Clients \X (1..MaxMints)
      OBVIOUS
    <3> QED BY <2>3, <3>1 DEF A!Guids, A!NoGuid
  <2>5. A!RecordIn(X) = IF t \in X.gone THEN A!NoGuid ELSE A!Last(t).guid
    BY <2>1, <2>3 DEF A!RecordIn
  <2> QED BY <2>1, <2>2, <2>3, <2>4, <2>5
<1> QED BY <1>1, <1>2

-----------------------------------------------------------------------------
(***************************************************************************)
(* The invariant of Adoption, outside of the windows.  That a client alone *)
(* publishes is not inductive: a client decides on the claims it has, so   *)
(* it takes that a live claim is either known to everybody or still        *)
(* settling, and either already lost to one the server has or its          *)
(* claimant's alone; and that no guid is published before there is a claim *)
(* everybody in contact has.                                               *)
(***************************************************************************)

AdoptStates ==
  [session : Nat, synced : BOOLEAN, tree : BOOLEAN, startup : {"waiting", "done"},
   file : A!Files, announced : BOOLEAN, minted : A!Guids \cup {A!NoGuid}, mints : 0..MaxMints,
   wrappers : SUBSET A!Guids, boots : SUBSET A!Guids, acked : SUBSET A!Guids,
   create : {"idle", "settling", "waiting"}, adopt : {"idle", "settling"},
   scan : BOOLEAN, trash : {"no", "plain", "copied"}]

AdoptTypes ==
  /\ client \in [Clients -> AdoptStates]
  /\ replica \in [Clients -> Documents] /\ shared \in Documents

AllClaims == shared.claims \cup UNION {replica[d].claims : d \in Clients}
AllRecords == UNION {replica[d].records : d \in Clients}

\* Every claim is one of a session of a client, which knows those of its own.
ClaimsOK ==
  /\ HasTop(shared.claims) /\ \A c \in Clients : HasTop(replica[c].claims)
  /\ \A p \in AllClaims : \E d \in Clients : \E s \in Nat :
       s <= client[d].session /\ A!Last(p).by = A!Cardinality(Clients) * s + d
  /\ \A p \in AllClaims : \A c \in Clients : A!Last(p).by = A!Id(c) => p \in replica[c].claims

\* The records are a chain, of guids that have been minted.
RecordsOK ==
  /\ Chain(AllRecords)
  /\ HasTop(shared.records) /\ Follows(shared, AllRecords)
  /\ \A c \in Clients : HasTop(replica[c].records) /\ Follows(replica[c], AllRecords)
  /\ \A r \in AllRecords : \E d \in Clients : \E i \in 1..client[d].mints :
       A!Last(r).guid = <<d, i>>

Settling(c) == client[c].create = "settling" \/ client[c].adopt = "settling"

\* The client is about to publish the guid it has minted.
Sure(c) == client[c].minted # A!NoGuid /\ client[c].minted \in client[c].wrappers

\* The claims of the client's session, and a claim that has lost to one the server has.
Live(c) == {p \in replica[c].claims : A!Last(p).by = A!Id(c)}
Overdue(p) == \E t \in shared.claims : A!Beats(t, p)

\* No other client is about to publish a guid, or has one the client has not heard of.
Alone(c) ==
  /\ \A d \in Clients \ {c} : ~Sure(d)
  /\ AllRecords \subseteq replica[c].records

LiveOK(c) ==
  /\ Settling(c) => A!Synced(c)
  /\ \A p \in Live(c) : p \in shared.claims \/ Settling(c)
  /\ \A p \in Live(c) : \/ Overdue(p)
                        \/ Alone(c) /\ (Settling(c) /\ client[c].minted # A!NoGuid => A!Record(c) = A!NoGuid)

SureOK(c) ==
  Sure(c) => /\ A!Record(c) = A!NoGuid /\ Alone(c)
             /\ client[c].minted \in client[c].boots /\ client[c].create # "settling"

\* A guid or a record there is only after a claim that everybody knows.
ClaimKnown ==
  (\E d \in Clients : Sure(d) \/ replica[d].records # {}) =>
    /\ shared.claims # {}
    /\ \A d \in Clients : A!Synced(d) => replica[d].claims # {}

\* A client's own bookkeeping.
GuidsOK(c) ==
  /\ client[c].boots \subseteq client[c].wrappers
  /\ client[c].adopt # "idle" => client[c].startup = "done"
  /\ client[c].synced => client[c].tree
  /\ \A g \in client[c].wrappers :
       g = client[c].minted \/ \E r \in replica[c].records : A!Last(r).guid = g
  /\ client[c].minted # A!NoGuid =>
       /\ client[c].file # "none" /\ \E i \in 1..client[c].mints : client[c].minted = <<c, i>>
       /\ client[c].minted \in client[c].boots \/ Settling(c) \/ client[c].startup = "waiting"

TrashOK(c) ==
  client[c].trash # "no" =>
    /\ client[c].trash = "copied" /\ A!Record(c) \in {A!NoGuid} \cup A!MintedBy(c)
    /\ \E r \in replica[c].gone : A!Last(r).guid \in client[c].wrappers

\* A file that no decision is due for has a wrapper of its record's guid, or,
\* without a record, one of a guid that is gone and a scan or a trashing to come.
FileOK(c) ==
  (/\ client[c].startup = "done" /\ client[c].file # "none"
   /\ client[c].minted = A!NoGuid /\ client[c].create # "waiting")
  => /\ client[c].wrappers # {}
     /\ A!Record(c) = A!NoGuid => client[c].scan \/ client[c].trash # "no"
     /\ A!Record(c) # A!NoGuid => A!Record(c) \in client[c].wrappers

AdoptOK ==
  /\ AdoptTypes /\ ClaimsOK /\ RecordsOK /\ ClaimKnown
  /\ \A c \in Clients : LiveOK(c) /\ SureOK(c) /\ GuidsOK(c) /\ TrashOK(c) /\ FileOK(c)
  /\ trashed = {}

AdoptInv == claimless = {} => AdoptOK

LEMMA AdoptGiven ==
  /\ A!Cardinality(Clients) \in Nat /\ MaxMints \in Nat
  /\ \A c \in Clients : c \in Nat /\ 1 <= c /\ c <= A!Cardinality(Clients)
  /\ A!NoGuid \notin A!Guids
<1>1. A!IsFiniteSet(Clients) => IsFiniteSet(Clients)
  BY DEF A!IsFiniteSet, IsFiniteSet
<1>2. A!Cardinality(Clients) = Cardinality(Clients)
  BY DEF A!Cardinality, Cardinality
<1>3. A!Cardinality(Clients) \in Nat
  BY <1>1, <1>2, FS_CardinalityType, ShareAssumption DEF A!AdoptionAssumption
<1>4. Clients = 1..A!Cardinality(Clients) /\ MaxMints \in Nat
  BY ShareAssumption DEF A!AdoptionAssumption
<1>5. <<>> \notin Clients \X (1..MaxMints)
  OBVIOUS
<1> QED BY <1>3, <1>4, <1>5 DEF A!Guids, A!NoGuid

\* An id belongs to one session of one client.
LEMMA IdsDiffer ==
  ASSUME NEW c \in Clients, NEW d \in Clients, NEW s \in Nat, NEW t \in Nat,
         A!Cardinality(Clients) * s + c = A!Cardinality(Clients) * t + d
  PROVE  s = t /\ c = d
<1> DEFINE n == A!Cardinality(Clients)
<1>1. n \in Nat /\ c \in 1..n /\ d \in 1..n
  BY AdoptGiven
<1>2. n * s + c = n * t + d
  OBVIOUS
<1> HIDE DEF n
<1>3. ASSUME NEW u \in Nat, NEW v \in Nat, NEW e \in 1..n, NEW f \in 1..n,
             n * u + e = n * v + f, u < v
      PROVE  FALSE
  <2>1. PICK k \in Nat : v = u + 1 + k
    <3>1. v - u - 1 \in Nat /\ v = u + 1 + (v - u - 1)
      BY <1>3
    <3> QED BY <3>1
  <2>2. n * v = n * u + n + n * k
    BY <2>1, <1>1
  <2>3. n * u \in Nat /\ n * k \in Nat
    BY <1>1
  <2> QED BY <2>2, <2>3, <1>1, <1>3
<1>4. ~(s < t) /\ ~(t < s)
  BY <1>1, <1>2, <1>3
<1>5. s = t
  BY <1>4
<1> QED BY <1>1, <1>2, <1>5

\* A step of a client leaves the others and their replicas alone.
Step(c) ==
  /\ \A d \in Clients \ {c} : client'[d] = client[d] /\ replica'[d] = replica[d]
  /\ AdoptTypes /\ AdoptTypes'

\* What Becomes leaves: the state given, and a scan due if the record changed.
Becoming(c, cl, r) ==
  /\ replica'[c] = r
  /\ client'[c].session = cl.session /\ client'[c].synced = cl.synced
  /\ client'[c].tree = cl.tree /\ client'[c].startup = cl.startup
  /\ client'[c].file = cl.file /\ client'[c].minted = cl.minted
  /\ client'[c].mints = cl.mints /\ client'[c].wrappers = cl.wrappers
  /\ client'[c].boots = cl.boots /\ client'[c].create = cl.create
  /\ client'[c].adopt = cl.adopt /\ client'[c].trash = cl.trash
  /\ client'[c].scan = (cl.scan \/ (cl.tree /\ A!RecordIn(r) # A!Record(c)))

LEMMA StateIs ==
  ASSUME NEW cl \in AdoptStates
  PROVE /\ cl.session \in Nat /\ cl.synced \in BOOLEAN /\ cl.tree \in BOOLEAN
        /\ cl.startup \in {"waiting", "done"} /\ cl.file \in A!Files
        /\ cl.announced \in BOOLEAN /\ cl.minted \in A!Guids \cup {A!NoGuid}
        /\ cl.mints \in 0..MaxMints /\ cl.wrappers \in SUBSET A!Guids
        /\ cl.boots \in SUBSET A!Guids /\ cl.acked \in SUBSET A!Guids
        /\ cl.create \in {"idle", "settling", "waiting"} /\ cl.adopt \in {"idle", "settling"}
        /\ cl.scan \in BOOLEAN /\ cl.trash \in {"no", "plain", "copied"}
BY DEF AdoptStates

LEMMA BecomesIs ==
  ASSUME AdoptTypes, NEW c \in Clients, NEW cl \in AdoptStates, NEW r \in Documents,
         A!Becomes(c, cl, r), shared' \in Documents
  PROVE  Step(c) /\ Becoming(c, cl, r)
<1> DEFINE s == cl.scan \/ (cl.tree /\ r # replica[c] /\ A!RecordIn(r) # A!Record(c))
           dl == [cl EXCEPT !.scan = s]
<1>1. /\ client' = [client EXCEPT ![c] = dl] /\ replica' = [replica EXCEPT ![c] = r]
  BY DEF A!Becomes
<1>2. s \in BOOLEAN
  BY DEF AdoptStates
<1>3. s = (cl.scan \/ (cl.tree /\ A!RecordIn(r) # A!Record(c)))
  BY DEF A!Record
<1> HIDE DEF s
<1>4. /\ dl \in AdoptStates /\ dl.scan = s
      /\ dl.session = cl.session /\ dl.synced = cl.synced
      /\ dl.tree = cl.tree /\ dl.startup = cl.startup
      /\ dl.file = cl.file /\ dl.minted = cl.minted
      /\ dl.mints = cl.mints /\ dl.wrappers = cl.wrappers
      /\ dl.boots = cl.boots /\ dl.create = cl.create
      /\ dl.adopt = cl.adopt /\ dl.trash = cl.trash
  BY <1>2 DEF AdoptStates
<1> HIDE DEF dl
<1>5. /\ client'[c] = dl /\ replica'[c] = r
      /\ \A d \in Clients \ {c} : client'[d] = client[d] /\ replica'[d] = replica[d]
      /\ client' \in [Clients -> AdoptStates] /\ replica' \in [Clients -> Documents]
  BY <1>1, <1>4 DEF AdoptTypes
<1> QED BY <1>3, <1>4, <1>5 DEF Step, Becoming, AdoptTypes

LEMMA WrappedIs ==
  ASSUME NEW cl \in AdoptStates, NEW g \in A!Guids
  PROVE LET dl == A!Wrapped(cl, g) IN
        /\ dl \in AdoptStates
        /\ dl.wrappers = cl.wrappers \cup {g}
        /\ dl.boots = IF g \in cl.wrappers THEN cl.boots ELSE cl.boots \cup {g}
        /\ dl.session = cl.session /\ dl.synced = cl.synced
        /\ dl.tree = cl.tree /\ dl.startup = cl.startup
        /\ dl.file = cl.file /\ dl.minted = cl.minted /\ dl.mints = cl.mints
        /\ dl.create = cl.create /\ dl.adopt = cl.adopt
        /\ dl.scan = cl.scan /\ dl.trash = cl.trash
BY DEF A!Wrapped, AdoptStates

LEMMA MintedIs ==
  ASSUME NEW c \in Clients, NEW cl \in AdoptStates, cl.mints < MaxMints
  PROVE LET dl == A!Minted(c, cl) IN
        /\ dl \in AdoptStates
        /\ dl.minted = <<c, cl.mints + 1>> /\ dl.minted \in A!Guids /\ dl.mints = cl.mints + 1
        /\ dl.wrappers = cl.wrappers /\ dl.boots = cl.boots
        /\ dl.session = cl.session /\ dl.synced = cl.synced
        /\ dl.tree = cl.tree /\ dl.startup = cl.startup /\ dl.file = cl.file
        /\ dl.create = cl.create /\ dl.adopt = cl.adopt
        /\ dl.scan = cl.scan /\ dl.trash = cl.trash
<1>1. cl.mints + 1 \in 1..MaxMints
  BY AdoptGiven, StateIs
<1>2. <<c, cl.mints + 1>> \in A!Guids
  BY <1>1 DEF A!Guids
<1> DEFINE g == <<c, cl.mints + 1>>
           m == cl.mints + 1
<1>3. A!Minted(c, cl) = [cl EXCEPT !.minted = g, !.mints = m]
  BY DEF A!Minted, AdoptStates
<1>4. g \in A!Guids /\ m \in 0..MaxMints
  BY <1>1, <1>2
<1> HIDE DEF g, m
<1>5. LET dl == [cl EXCEPT !.minted = g, !.mints = m] IN
        /\ dl \in AdoptStates /\ dl.minted = g /\ dl.mints = m
        /\ dl.wrappers = cl.wrappers /\ dl.boots = cl.boots
        /\ dl.session = cl.session /\ dl.synced = cl.synced
        /\ dl.tree = cl.tree /\ dl.startup = cl.startup /\ dl.file = cl.file
        /\ dl.create = cl.create /\ dl.adopt = cl.adopt
        /\ dl.scan = cl.scan /\ dl.trash = cl.trash
  BY <1>4 DEF AdoptStates
<1> QED BY <1>3, <1>4, <1>5 DEF g, m

LEMMA RemovedIs ==
  ASSUME NEW cl \in AdoptStates
  PROVE LET dl == A!Removed(cl) IN
        /\ dl \in AdoptStates
        /\ dl.file = "none" /\ dl.minted = A!NoGuid /\ dl.trash = "no"
        /\ dl.wrappers = {} /\ dl.boots = {}
        /\ dl.session = cl.session /\ dl.synced = cl.synced /\ dl.mints = cl.mints
        /\ dl.tree = cl.tree /\ dl.startup = cl.startup
        /\ dl.create = cl.create /\ dl.adopt = cl.adopt /\ dl.scan = cl.scan
BY DEF A!Removed, AdoptStates, A!Files

-----------------------------------------------------------------------------
(* What a step means for the other clients.                                  *)

\* No other client publishes a guid, nor will one whose claim is under way.
Quiets(c) == \A d \in Clients \ {c} : ~Sure(d) /\ \A p \in Live(d) : Overdue(p)

OwnOK(c) == LiveOK(c) /\ SureOK(c) /\ GuidsOK(c) /\ TrashOK(c) /\ FileOK(c)

LEMMA SureQuiets ==
  ASSUME \A d \in Clients : LiveOK(d) /\ SureOK(d), NEW c \in Clients, Sure(c)
  PROVE  Quiets(c)
<1>1. ASSUME NEW d \in Clients \ {c} PROVE ~Sure(d) /\ \A p \in Live(d) : Overdue(p)
  <2>1. ~Sure(d)
    BY DEF SureOK, Alone
  <2>2. ~Alone(d)
    BY DEF Alone
  <2> QED BY <2>1, <2>2 DEF LiveOK
<1> QED BY <1>1 DEF Quiets

LEMMA OthersKept ==
  ASSUME \A d \in Clients : OwnOK(d), NEW c \in Clients, Step(c),
         shared.claims \subseteq shared'.claims,
         Sure(c)' => Sure(c) \/ Quiets(c),
         replica'[c].records \subseteq AllRecords \/ Quiets(c)
  PROVE  \A d \in Clients \ {c} : OwnOK(d)'
<1> SUFFICES ASSUME NEW d \in Clients \ {c} PROVE OwnOK(d)'
  OBVIOUS
<1>1. client'[d] = client[d] /\ replica'[d] = replica[d]
  BY DEF Step
<1>2. /\ A!Id(d)' = A!Id(d) /\ Live(d)' = Live(d) /\ A!Record(d)' = A!Record(d)
      /\ (Settling(d) <=> Settling(d)') /\ (A!Synced(d) <=> A!Synced(d)') /\ (Sure(d) <=> Sure(d)')
  BY <1>1 DEF A!Id, Live, A!Record, A!RecordIn, A!Top, Settling, A!Synced, Sure
<1>3. GuidsOK(d)' /\ TrashOK(d)' /\ FileOK(d)'
  <2>1. GuidsOK(d) /\ TrashOK(d) /\ FileOK(d)
    BY DEF OwnOK
  <2>2. GuidsOK(d)'
    BY <1>1, <1>2, <2>1 DEF GuidsOK
  <2>3. TrashOK(d)'
    BY <1>1, <1>2, <2>1 DEF TrashOK, A!MintedBy
  <2>4. FileOK(d)'
    BY <1>1, <1>2, <2>1 DEF FileOK
  <2> QED BY <2>2, <2>3, <2>4
<1>4. \A p : Overdue(p) => Overdue(p)'
  BY DEF Overdue
<1>5. Sure(c) => Quiets(c)
  BY SureQuiets DEF OwnOK
<1>6. CASE Quiets(c)
  <2>1. ~Sure(d) /\ \A p \in Live(d) : Overdue(p)
    BY <1>6 DEF Quiets
  <2>2. LiveOK(d)
    BY DEF OwnOK
  <2>3. LiveOK(d)'
    BY <1>2, <1>4, <2>1, <2>2 DEF LiveOK
  <2>4. SureOK(d)'
    BY <1>2, <2>1 DEF SureOK
  <2> QED BY <1>3, <2>3, <2>4 DEF OwnOK
<1>7. CASE ~Quiets(c)
  <2>1. ~Sure(c)' /\ replica'[c].records \subseteq AllRecords
    BY <1>5, <1>7
  <2>2. \A e \in Clients \ {c} : replica'[e] = replica[e] /\ (Sure(e) <=> Sure(e)')
    BY DEF Step, Sure
  <2>3. AllRecords' \subseteq AllRecords
    BY <2>1, <2>2 DEF AllRecords
  <2>4. Alone(d) => Alone(d)'
    BY <1>1, <2>1, <2>2, <2>3 DEF Alone
  <2>5. LiveOK(d) /\ SureOK(d)
    BY DEF OwnOK
  <2>6. LiveOK(d)'
    BY <1>1, <1>2, <1>4, <2>4, <2>5 DEF LiveOK
  <2>7. SureOK(d)'
    BY <1>1, <1>2, <2>4, <2>5 DEF SureOK
  <2> QED BY <1>3, <2>6, <2>7 DEF OwnOK
<1> QED BY <1>6, <1>7

(***************************************************************************)
(* A step after which the client has no new claim or guid.                 *)
(***************************************************************************)
Calm(c) ==
  /\ shared.claims \subseteq shared'.claims
  /\ replica[c].claims \subseteq replica'[c].claims
  /\ replica[c].records \subseteq replica'[c].records /\ replica'[c].records \subseteq AllRecords
  /\ Live(c)' \subseteq Live(c)
  /\ Sure(c)' => /\ Sure(c) /\ client'[c].minted \in client'[c].boots
                 /\ client'[c].create # "settling"
  /\ Settling(c)' => Settling(c) /\ A!Synced(c)'
  /\ Settling(c)' /\ client'[c].minted # A!NoGuid => client[c].minted # A!NoGuid
  /\ \A p \in Live(c)' : p \in shared'.claims \/ Settling(c)'
  /\ A!Synced(c)' => A!Synced(c) \/ shared.claims \subseteq replica'[c].claims
  /\ A!Record(c) = A!NoGuid /\ AllRecords \subseteq replica[c].records => A!Record(c)' = A!NoGuid

LEMMA CalmKept ==
  ASSUME \A d \in Clients : OwnOK(d), ClaimKnown, NEW c \in Clients, Step(c), Calm(c)
  PROVE  ClaimKnown' /\ LiveOK(c)' /\ SureOK(c)' /\ \A d \in Clients \ {c} : OwnOK(d)'
<1>1. \A d \in Clients \ {c} : OwnOK(d)'
  BY OthersKept DEF Calm
<1>2. \A e \in Clients \ {c} : client'[e] = client[e] /\ replica'[e] = replica[e] /\ (Sure(e) <=> Sure(e)')
  BY DEF Step, Sure
<1>3. AllRecords' \subseteq AllRecords
  BY <1>2 DEF AllRecords, Calm
<1>4. Alone(c) => Alone(c)'
  BY <1>2, <1>3 DEF Alone, Calm
<1>5. LiveOK(c)'
  <2>1. \A p : Overdue(p) => Overdue(p)'
    BY DEF Overdue, Calm
  <2>2. LiveOK(c)
    BY DEF OwnOK
  <2>3. ASSUME NEW p \in Live(c)', ~Overdue(p)'
        PROVE  Alone(c)' /\ (Settling(c)' /\ client'[c].minted # A!NoGuid => A!Record(c)' = A!NoGuid)
    <3>1. p \in Live(c) /\ ~Overdue(p)
      BY <2>1, <2>3 DEF Calm
    <3>2. Alone(c) /\ (Settling(c) /\ client[c].minted # A!NoGuid => A!Record(c) = A!NoGuid)
      BY <2>2, <3>1 DEF LiveOK
    <3> QED BY <1>4, <3>2 DEF Calm, Alone
  <2>4. (Settling(c) => A!Synced(c))' /\ (\A p \in Live(c) : p \in shared.claims \/ Settling(c))'
    BY DEF Calm
  <2> QED BY <2>3, <2>4 DEF LiveOK
<1>6. SureOK(c)'
  <2> SUFFICES ASSUME Sure(c)' PROVE SureOK(c)'
    BY DEF SureOK
  <2>1. Sure(c) /\ SureOK(c)
    BY DEF Calm, OwnOK
  <2>2. A!Record(c) = A!NoGuid /\ Alone(c)
    BY <2>1 DEF SureOK
  <2>3. A!Record(c)' = A!NoGuid
    BY <2>2 DEF Calm, Alone
  <2> QED BY <1>4, <2>2, <2>3 DEF SureOK, Calm
<1>7. ClaimKnown'
  <2> SUFFICES ASSUME NEW d \in Clients, Sure(d)' \/ replica'[d].records # {}
               PROVE  shared'.claims # {} /\ \A e \in Clients : A!Synced(e)' => replica'[e].claims # {}
    BY DEF ClaimKnown
  <2>1. Sure(d) \/ \E e \in Clients : replica[e].records # {}
    <3>1. replica'[d].records \subseteq AllRecords
      BY <1>3 DEF AllRecords
    <3>2. Sure(d)' => Sure(d)
      BY <1>2 DEF Calm
    <3> QED BY <3>1, <3>2 DEF AllRecords
  <2>2. shared.claims # {} /\ \A e \in Clients : A!Synced(e) => replica[e].claims # {}
    BY <2>1 DEF ClaimKnown
  <2>3. shared'.claims # {}
    BY <2>2 DEF Calm
  <2>4. ASSUME NEW e \in Clients, A!Synced(e)' PROVE replica'[e].claims # {}
    <3>1. CASE e = c
      BY <2>2, <2>4, <3>1 DEF Calm
    <3>2. CASE e # c
      BY <1>2, <2>2, <2>4, <3>2 DEF A!Synced
    <3> QED BY <3>1, <3>2
  <2> QED BY <2>3, <2>4
<1> QED BY <1>1, <1>5, <1>6, <1>7

\* A step by which the client claims the path, or finds it claimed, and mints.
Claiming(c) ==
  /\ shared' = shared /\ Settling(c)' /\ A!Synced(c) /\ A!Synced(c)' /\ ~Sure(c)'
  /\ replica[c].claims \subseteq replica'[c].claims
  /\ replica'[c].records = replica[c].records
  /\ Live(c)' \subseteq Live(c) \/ Alone(c)
  /\ A!Record(c)' = A!NoGuid

LEMMA ClaimingKept ==
  ASSUME \A d \in Clients : OwnOK(d), ClaimKnown, NEW c \in Clients, Step(c), Claiming(c)
  PROVE  ClaimKnown' /\ LiveOK(c)' /\ SureOK(c)' /\ \A d \in Clients \ {c} : OwnOK(d)'
<1>0. replica'[c].records \subseteq AllRecords
  BY DEF Claiming, AllRecords
<1>1. \A d \in Clients \ {c} : OwnOK(d)'
  BY <1>0, OthersKept DEF Claiming
<1>2. \A e \in Clients \ {c} : client'[e] = client[e] /\ replica'[e] = replica[e] /\ (Sure(e) <=> Sure(e)')
  BY DEF Step, Sure
<1>3. AllRecords' = AllRecords
  BY <1>2 DEF AllRecords, Claiming
<1>4. Alone(c) => Alone(c)'
  BY <1>2, <1>3 DEF Alone, Claiming
<1>5. LiveOK(c)'
  <2>1. \A p : Overdue(p) => Overdue(p)'
    BY DEF Overdue, Claiming
  <2>2. LiveOK(c)
    BY DEF OwnOK
  <2>3. ASSUME NEW p \in Live(c)', ~Overdue(p)' PROVE Alone(c)'
    <3>1. CASE p \in Live(c)
      BY <1>4, <2>1, <2>2, <2>3, <3>1 DEF LiveOK
    <3>2. CASE Alone(c)
      BY <1>4, <3>2
    <3> QED BY <3>1, <3>2 DEF Claiming
  <2> QED BY <2>3 DEF LiveOK, Claiming
<1>6. SureOK(c)'
  BY DEF SureOK, Claiming
<1>7. ClaimKnown'
  <2> SUFFICES ASSUME NEW d \in Clients, Sure(d)' \/ replica'[d].records # {}
               PROVE  shared'.claims # {} /\ \A e \in Clients : A!Synced(e)' => replica'[e].claims # {}
    BY DEF ClaimKnown
  <2>1. Sure(d) \/ replica[d].records # {}
    BY <1>2 DEF Claiming
  <2>2. shared.claims # {} /\ \A e \in Clients : A!Synced(e) => replica[e].claims # {}
    BY <2>1 DEF ClaimKnown
  <2>4. ASSUME NEW e \in Clients, A!Synced(e)' PROVE replica'[e].claims # {}
    <3>1. CASE e = c
      BY <2>2, <2>4, <3>1 DEF Claiming
    <3>2. CASE e # c
      BY <1>2, <2>2, <2>4, <3>2 DEF A!Synced
    <3> QED BY <3>1, <3>2
  <2> QED BY <2>2, <2>4 DEF Claiming
<1> QED BY <1>1, <1>5, <1>6, <1>7

\* Every claim of the path's is known where the client may publish.
ClaimsSeen ==
  /\ shared.claims # {}
  /\ \A d \in Clients : A!Synced(d) => replica[d].claims # {}

\* A step by which the client wraps or publishes the guid it has minted.
Publishing(c) ==
  /\ shared' = shared /\ A!Synced(c)' = A!Synced(c)
  /\ replica'[c].claims = replica[c].claims /\ replica[c].records \subseteq replica'[c].records
  /\ Live(c)' = Live(c)
  /\ Settling(c)' => Settling(c)
  /\ \A p \in Live(c) : p \in shared.claims \/ Settling(c)'
  /\ Sure(c)' => client'[c].minted \in client'[c].boots /\ client'[c].create # "settling"
  /\ client'[c].minted # A!NoGuid => A!Record(c)' = A!NoGuid

LEMMA PublishingKept ==
  ASSUME \A d \in Clients : OwnOK(d), NEW c \in Clients, Step(c), Publishing(c),
         Quiets(c), Alone(c), ClaimsSeen
  PROVE  ClaimKnown' /\ LiveOK(c)' /\ SureOK(c)' /\ \A d \in Clients \ {c} : OwnOK(d)'
<1>1. \A d \in Clients \ {c} : OwnOK(d)'
  BY OthersKept DEF Publishing
<1>2. \A e \in Clients \ {c} : client'[e] = client[e] /\ replica'[e] = replica[e] /\ (Sure(e) <=> Sure(e)')
  BY DEF Step, Sure
<1>3. AllRecords' \subseteq AllRecords \cup replica'[c].records
  BY <1>2 DEF AllRecords
<1>4. Alone(c)'
  BY <1>2, <1>3 DEF Alone, Publishing
<1>5. LiveOK(c)'
  <2>1. (Settling(c) => A!Synced(c))' /\ (\A p \in Live(c) : p \in shared.claims \/ Settling(c))'
    BY DEF LiveOK, Publishing, OwnOK
  <2> QED BY <1>4, <2>1 DEF LiveOK, Publishing
<1>6. SureOK(c)'
  BY <1>4 DEF SureOK, Publishing, Sure
<1>7. ClaimKnown'
  <2>4. ASSUME NEW e \in Clients, A!Synced(e)' PROVE replica'[e].claims # {}
    <3>1. CASE e = c
      BY <2>4, <3>1 DEF Publishing, ClaimsSeen
    <3>2. CASE e # c
      BY <1>2, <2>4, <3>2 DEF A!Synced, ClaimsSeen
    <3> QED BY <3>1, <3>2
  <2> QED BY <2>4 DEF ClaimKnown, ClaimsSeen, Publishing
<1> QED BY <1>1, <1>5, <1>6, <1>7

-----------------------------------------------------------------------------
(* What a step means for the claims and the records.                         *)

LEMMA ClaimsKept ==
  ASSUME ClaimsOK, NEW c \in Clients, Step(c), HasTop(shared'.claims), HasTop(replica'[c].claims),
         shared'.claims \subseteq AllClaims, replica'[c].claims \subseteq AllClaims,
         replica[c].claims \subseteq replica'[c].claims,
         client[c].session <= client'[c].session
  PROVE  /\ ClaimsOK'
         /\ client'[c].session = client[c].session => Live(c)' \subseteq Live(c)
         /\ client'[c].session # client[c].session => Live(c)' = {}
<1>1. \A d \in Clients \ {c} : client'[d] = client[d] /\ replica'[d] = replica[d]
  BY DEF Step
<1>2. AllClaims' \subseteq AllClaims
  BY <1>1 DEF AllClaims
<1>3. \A d \in Clients : client[d].session \in Nat /\ client'[d].session \in Nat
                         /\ client[d].session <= client'[d].session
  <2> TAKE d \in Clients
  <2>1. client[d] \in AdoptStates /\ client'[d] \in AdoptStates
    BY DEF Step, AdoptTypes
  <2>2. client[d].session \in Nat /\ client'[d].session \in Nat
    BY <2>1, StateIs
  <2> QED BY <2>2, <1>1
<1>4. \A d \in Clients : HasTop(replica'[d].claims)
  BY <1>1 DEF ClaimsOK
<1>5. ASSUME NEW p \in AllClaims'
      PROVE  \E d \in Clients : \E s \in Nat :
               s <= client'[d].session /\ A!Last(p).by = A!Cardinality(Clients) * s + d
  <2>1. PICK d \in Clients : \E s \in Nat :
          s <= client[d].session /\ A!Last(p).by = A!Cardinality(Clients) * s + d
    BY <1>2, <1>5 DEF ClaimsOK
  <2>2. PICK s \in Nat : s <= client[d].session /\ A!Last(p).by = A!Cardinality(Clients) * s + d
    BY <2>1
  <2>3. s <= client'[d].session
    BY <1>3, <2>2
  <2> QED BY <2>2, <2>3
<1>6. ASSUME NEW p \in AllClaims, A!Last(p).by = A!Id(c)'
      PROVE  client'[c].session = client[c].session /\ A!Last(p).by = A!Id(c)
  <2>1. PICK d \in Clients : \E s \in Nat :
          s <= client[d].session /\ A!Last(p).by = A!Cardinality(Clients) * s + d
    BY <1>6 DEF ClaimsOK
  <2>2. PICK s \in Nat : s <= client[d].session /\ A!Last(p).by = A!Cardinality(Clients) * s + d
    BY <2>1
  <2>3. A!Last(p).by = A!Cardinality(Clients) * client'[c].session + c
    BY <1>6 DEF A!Id
  <2>4. s = client'[c].session /\ d = c
    BY <1>3, <2>2, <2>3, IdsDiffer
  <2>5. client'[c].session = client[c].session
    BY <1>3, <2>2, <2>4
  <2> QED BY <2>3, <2>5 DEF A!Id
<1>7. ASSUME NEW p \in AllClaims', NEW d \in Clients, A!Last(p).by = A!Id(d)'
      PROVE  p \in replica'[d].claims
  <2>1. CASE d = c
    BY <1>2, <1>6, <1>7, <2>1 DEF ClaimsOK
  <2>2. CASE d # c
    <3>1. A!Id(d)' = A!Id(d)
      BY <1>1, <2>2 DEF A!Id
    <3> QED BY <1>1, <1>2, <1>7, <2>2, <3>1 DEF ClaimsOK
  <2> QED BY <2>1, <2>2
<1>8. ClaimsOK'
  BY <1>4, <1>5, <1>7 DEF ClaimsOK
<1>9. \A p \in Live(c)' : /\ p \in AllClaims /\ A!Last(p).by = A!Id(c)'
  BY DEF Live
<1>10. \A p \in Live(c)' : client'[c].session = client[c].session /\ p \in Live(c)
  <2> TAKE p \in Live(c)'
  <2>1. client'[c].session = client[c].session /\ A!Last(p).by = A!Id(c)
    BY <1>6, <1>9
  <2>2. p \in replica[c].claims
    BY <1>9, <2>1 DEF ClaimsOK
  <2> QED BY <2>1, <2>2 DEF Live
<1> QED BY <1>8, <1>10

LEMMA ClaimAdded ==
  ASSUME ClaimsOK, NEW c \in Clients, Step(c), shared' = shared, NEW p,
         replica'[c].claims = replica[c].claims \cup {p}, A!Last(p).by = A!Id(c),
         HasTop(replica'[c].claims), client'[c].session = client[c].session
  PROVE  ClaimsOK'
<1>1. \A d \in Clients \ {c} : client'[d] = client[d] /\ replica'[d] = replica[d]
  BY DEF Step
<1>2. AllClaims' \subseteq AllClaims \cup {p}
  BY <1>1 DEF AllClaims
<1>3. client[c].session \in Nat /\ client[c].session <= client[c].session
  <2>1. client[c] \in AdoptStates
    BY DEF Step, AdoptTypes
  <2>2. client[c].session \in Nat
    BY <2>1, StateIs
  <2> QED BY <2>2
<1>4. \A d \in Clients : client'[d].session = client[d].session /\ A!Id(d)' = A!Id(d)
  BY <1>1 DEF A!Id
<1>5. \A d \in Clients : HasTop(replica'[d].claims)
  BY <1>1 DEF ClaimsOK
<1>6. ASSUME NEW q \in AllClaims'
      PROVE  \E d \in Clients : \E s \in Nat :
               s <= client'[d].session /\ A!Last(q).by = A!Cardinality(Clients) * s + d
  <2>1. CASE q \in AllClaims
    BY <2>1, <1>4 DEF ClaimsOK
  <2>2. CASE q = p
    <3>1. A!Last(q).by = A!Cardinality(Clients) * client[c].session + c
      BY <2>2 DEF A!Id
    <3> QED BY <1>3, <1>4, <3>1
  <2> QED BY <1>2, <2>1, <2>2
<1>7. ASSUME NEW q \in AllClaims', NEW d \in Clients, A!Last(q).by = A!Id(d)'
      PROVE  q \in replica'[d].claims
  <2>1. CASE q = p
    <3>1. A!Cardinality(Clients) * client[c].session + c = A!Cardinality(Clients) * client[d].session + d
      BY <2>1, <1>4, <1>7 DEF A!Id
    <3>2. client[d].session \in Nat
      <4>1. client[d] \in AdoptStates
        BY DEF Step, AdoptTypes
      <4> QED BY <4>1, StateIs
    <3>3. c = d
      BY <1>3, <3>1, <3>2, IdsDiffer
    <3> QED BY <2>1, <3>3
  <2>2. CASE q \in AllClaims
    <3>1. q \in replica[d].claims
      BY <2>2, <1>4, <1>7 DEF ClaimsOK
    <3> QED BY <1>1, <3>1
  <2> QED BY <1>2, <2>1, <2>2
<1>8. HasTop(shared'.claims)
  BY DEF ClaimsOK
<1> QED BY <1>5, <1>6, <1>7, <1>8 DEF ClaimsOK

LEMMA RecordsKept ==
  ASSUME RecordsOK, NEW c \in Clients, Step(c), HasTop(shared'.records), HasTop(replica'[c].records),
         Follows(shared', AllRecords), Follows(replica'[c], AllRecords),
         replica[c].records \subseteq replica'[c].records,
         client[c].mints <= client'[c].mints
  PROVE  RecordsOK' /\ AllRecords' = AllRecords
<1>1. \A d \in Clients \ {c} : client'[d] = client[d] /\ replica'[d] = replica[d]
  BY DEF Step
<1>2. replica'[c].records \subseteq AllRecords
  BY DEF Follows
<1>3. AllRecords' = AllRecords
  BY <1>1, <1>2 DEF AllRecords
<1>4. ASSUME NEW r \in AllRecords
      PROVE  \E d \in Clients : \E i \in 1..client'[d].mints : A!Last(r).guid = <<d, i>>
  <2>0. PICK d \in Clients : \E i \in 1..client[d].mints : A!Last(r).guid = <<d, i>>
    BY DEF RecordsOK
  <2>1. PICK i \in 1..client[d].mints : A!Last(r).guid = <<d, i>>
    BY <2>0
  <2>2. client[d].mints \in Nat /\ client'[d].mints \in Nat
    <3>1. client[d] \in AdoptStates /\ client'[d] \in AdoptStates
      BY DEF Step, AdoptTypes
    <3> QED BY <3>1, StateIs, AdoptGiven
  <2>3. i \in 1..client'[d].mints
    BY <1>1, <2>2
  <2> QED BY <2>1, <2>3
<1>5. \A d \in Clients : HasTop(replica'[d].records) /\ Follows(replica'[d], AllRecords)
  BY <1>1 DEF RecordsOK
<1>6. Chain(AllRecords)
  BY DEF RecordsOK
<1> QED BY <1>3, <1>4, <1>5, <1>6 DEF RecordsOK

\* A record put where all the others are known and deleted.
LEMMA RecordPut ==
  ASSUME RecordsOK, NEW c \in Clients, Step(c), AllRecords \subseteq replica[c].records,
         A!Record(c) = A!NoGuid, shared' = shared, NEW x \in RecordItems,
         replica'[c] = [replica[c] EXCEPT !.records = A!SetOver(@, x)],
         \E i \in 1..client'[c].mints : x.guid = <<c, i>>, client[c].mints <= client'[c].mints
  PROVE  /\ RecordsOK' /\ A!Record(c)' = x.guid
         /\ replica'[c].claims = replica[c].claims /\ replica'[c].gone = replica[c].gone
         /\ replica[c].records \subseteq replica'[c].records
         /\ \E r \in replica'[c].records : A!Last(r).guid = x.guid
<1> DEFINE S == replica[c].records
           r == Append(A!Top(S), x)
<1>1. \A d \in Clients \ {c} : client'[d] = client[d] /\ replica'[d] = replica[d]
  BY DEF Step
<1>2. \A d \in Clients : replica[d] \in Documents /\ replica'[d] \in Documents
  BY DEF Step, AdoptTypes
<1>3. /\ S \in SUBSET RecordSeqs /\ AllRecords = S /\ HasTop(S) /\ Chain(S)
      /\ replica[c].gone \subseteq S /\ Follows(replica[c], S)
  <2>1. AllRecords = S
    BY DEF AllRecords
  <2>2. replica[c] \in Documents
    BY <1>2
  <2> QED BY <2>1, <2>2 DEF RecordsOK, Follows, Documents
<1>4. S \subseteq replica[c].gone
  <2>1. replica[c] \in Documents
    BY <1>2
  <2> QED BY <2>1, <1>3, RecordIs DEF A!Record
<1>5. A!Top(S) \in Seq(RecordItems) /\ \A q \in S : q = A!Top(S) \/ A!IsStrictPrefix(q, A!Top(S))
  <2>1. CASE S = {}
    BY <2>1, EmptySeq DEF A!Top
  <2>2. CASE S # {}
    <3>1. A!Top(S) \in S /\ \A q \in S \ {A!Top(S)} : A!IsStrictPrefix(q, A!Top(S))
      BY <1>3, <2>2, RecordTop
    <3> QED BY <1>3, <3>1 DEF RecordSeqs
  <2> QED BY <2>1, <2>2
<1>6. r \in RecordSeqs /\ A!Last(r) = x /\ A!IsStrictPrefix(A!Top(S), r)
  BY <1>5, AppendedIs DEF RecordSeqs
<1>7. /\ replica'[c].records = S \cup {r} /\ replica'[c].claims = replica[c].claims
      /\ replica'[c].gone = replica[c].gone
  <2>1. replica'[c].records = A!SetOver(S, x)
    BY <1>2 DEF Documents
  <2>2. A!SetOver(S, x) = S \cup {r}
    BY DEF A!SetOver
  <2> QED BY <1>2, <2>1, <2>2 DEF Documents
<1> HIDE DEF r
<1>8. /\ r \in Seq(RecordItems) /\ S \in SUBSET Seq(RecordItems)
  BY <1>3, <1>6 DEF RecordSeqs
<1>9. \A q \in S : A!IsStrictPrefix(q, r)
  <2> TAKE q \in S
  <2>1. CASE q = A!Top(S)
    BY <2>1, <1>6
  <2>2. CASE q # A!Top(S)
    <3>1. A!IsStrictPrefix(q, A!Top(S)) /\ q \in Seq(RecordItems)
      BY <2>2, <1>5, <1>8
    <3> QED BY <3>1, <1>5, <1>6, <1>8, PrefixTransitive
  <2> QED BY <2>1, <2>2
<1>10. \A q \in S : A!Beats(r, q) /\ ~A!IsStrictPrefix(r, q) /\ q # r
  <2> TAKE q \in S
  <2>1. q \in Seq(RecordItems)
    BY <1>8
  <2>2. A!Beats(r, q)
    BY <2>1, <1>8, <1>9, BeatsIs, ItemsAre
  <2>3. ~A!Beats(q, r) /\ q # r
    BY <2>1, <2>2, <1>8, BeatsAsymmetric, ItemsAre
  <2> QED BY <2>1, <2>2, <2>3, <1>8, BeatsIs, ItemsAre
<1>11. ~A!IsStrictPrefix(r, r)
  BY DEF A!IsStrictPrefix
<1>12. AllRecords' = S \cup {r}
  <2>1. \A d \in Clients : replica[d].records \subseteq S
    BY <1>3 DEF AllRecords
  <2>2. \A d \in Clients : replica'[d].records \subseteq S \cup {r}
    BY <2>1, <1>1, <1>7
  <2>3. AllRecords' \subseteq S \cup {r}
    BY <2>2 DEF AllRecords
  <2>4. S \cup {r} \subseteq AllRecords'
    BY <1>7 DEF AllRecords
  <2> QED BY <2>3, <2>4
<1>13. HasTop(S \cup {r}) /\ A!Top(S \cup {r}) = r
  <2>1. \A q \in (S \cup {r}) \ {r} : A!Beats(r, q)
    BY <1>10
  <2>2. r \in S \cup {r} /\ S \cup {r} \in SUBSET Seq(RecordItems)
    BY <1>8
  <2>3. A!Top(S \cup {r}) = r
    <3> HIDE DEF S
    <3>1. PICK T \in SUBSET Seq(RecordItems) : T = S \cup {r}
      BY <2>2
    <3>2. A!Top(T) = r
      BY <2>1, <2>2, <3>1, TopIs, ItemsAre
    <3> QED BY <3>1, <3>2
  <2> QED BY <2>1, <2>2, <2>3 DEF HasTop
<1>14. Chain(S \cup {r})
  BY <1>3, <1>9 DEF Chain
<1>15. \A Y : Follows(Y, S) => Follows(Y, S \cup {r})
  BY <1>10 DEF Follows
<1>16. Follows(replica'[c], S \cup {r})
  <2>1. ASSUME NEW y \in S \cup {r}, NEW q \in S \cup {r}, A!IsStrictPrefix(q, y)
        PROVE  q \in replica'[c].gone
    <3>1. q \in S
      BY <2>1, <1>10, <1>11
    <3> QED BY <3>1, <1>4, <1>7
  <2>2. replica'[c].gone \subseteq S \cup {r}
    BY <1>3, <1>7
  <2> QED BY <1>7, <2>1, <2>2 DEF Follows
<1>17. ASSUME NEW q \in S \cup {r}
       PROVE  \E d \in Clients : \E i \in 1..client'[d].mints : A!Last(q).guid = <<d, i>>
  <2>1. CASE q \in S
    <3>0. PICK d \in Clients : \E i \in 1..client[d].mints : A!Last(q).guid = <<d, i>>
      BY <2>1, <1>3 DEF RecordsOK
    <3>1. PICK i \in 1..client[d].mints : A!Last(q).guid = <<d, i>>
      BY <3>0
    <3>2. client[d].mints \in Nat /\ client'[d].mints \in Nat
      <4>1. client[d] \in AdoptStates /\ client'[d] \in AdoptStates
        BY DEF Step, AdoptTypes
      <4> QED BY <4>1, StateIs, AdoptGiven
    <3>3. i \in 1..client'[d].mints
      BY <1>1, <3>2
    <3> QED BY <3>1, <3>3
  <2>2. CASE q = r
    BY <2>2, <1>6
  <2> QED BY <2>1, <2>2
<1>18. RecordsOK'
  <2>1. HasTop(shared'.records) /\ Follows(shared', S \cup {r})
    BY <1>3, <1>15 DEF RecordsOK
  <2>2. ASSUME NEW d \in Clients PROVE HasTop(replica'[d].records) /\ Follows(replica'[d], S \cup {r})
    <3>1. CASE d = c
      BY <3>1, <1>7, <1>13, <1>16
    <3>2. CASE d # c
      BY <3>2, <1>1, <1>3, <1>15 DEF RecordsOK
    <3> QED BY <3>1, <3>2
  <2> QED BY <2>1, <2>2, <1>12, <1>14, <1>17 DEF RecordsOK
<1>19. A!Record(c)' = x.guid
  <2>1. r \notin replica'[c].gone \cup {<<>>}
    BY <1>3, <1>6, <1>7, <1>10 DEF RecordSeqs
  <2>2. A!Top(replica'[c].records) = r
    BY <1>7, <1>13
  <2>3. A!RecordIn(replica'[c]) = A!Last(r).guid
    BY <2>1, <2>2 DEF A!RecordIn
  <2>4. A!Record(c)' = A!RecordIn(replica'[c])
    BY DEF A!Record, A!RecordIn, A!Top
  <2> QED BY <2>3, <2>4, <1>6
<1>20. \E q \in replica'[c].records : A!Last(q).guid = x.guid
  BY <1>6, <1>7
<1> QED BY <1>7, <1>18, <1>19, <1>20

LEMMA RecordsMerge ==
  ASSUME NEW all \in SUBSET RecordSeqs, Chain(all), NEW S \in SUBSET all, NEW T \in SUBSET all,
         HasTop(S), HasTop(T)
  PROVE  HasTop(S \cup T)
<1>1. CASE S = {} \/ T = {}
  BY <1>1 DEF HasTop
<1>2. ASSUME NEW U \in SUBSET all, NEW V \in SUBSET all, HasTop(U), HasTop(V), U # {}, V # {},
             A!Top(U) = A!Top(V) \/ A!IsStrictPrefix(A!Top(V), A!Top(U))
      PROVE  HasTop(U \cup V)
  <2>1. PICK s \in U : s = A!Top(U) /\ \A q \in U \ {s} : A!IsStrictPrefix(q, s)
    BY <1>2, RecordTop
  <2>2. PICK t \in V : t = A!Top(V) /\ \A q \in V \ {t} : A!IsStrictPrefix(q, t)
    BY <1>2, RecordTop
  <2>3. s = t \/ A!IsStrictPrefix(t, s)
    BY <1>2, <2>1, <2>2
  <2>4. s \in Seq(RecordItems) /\ t \in Seq(RecordItems) /\ U \cup V \subseteq Seq(RecordItems)
    BY DEF RecordSeqs
  <2>5. ASSUME NEW q \in (U \cup V) \ {s} PROVE A!Beats(s, q)
    <3>1. A!IsStrictPrefix(q, s)
      <4>1. CASE q \in U
        BY <4>1, <2>1, <2>5
      <4>2. CASE q \in V /\ q = t
        BY <4>2, <2>3, <2>5
      <4>3. CASE q \in V /\ q # t
        <5>1. A!IsStrictPrefix(q, t)
          BY <4>3, <2>2
        <5>2. q \in Seq(RecordItems)
          BY <2>4
        <5> QED BY <5>1, <5>2, <2>3, <2>4, PrefixTransitive
      <4> QED BY <4>1, <4>2, <4>3, <2>5
    <3>2. q \in Seq(RecordItems)
      BY <2>4
    <3> QED BY <3>1, <3>2, <2>4, BeatsIs, ItemsAre
  <2> QED BY <2>5 DEF HasTop
<1>3. CASE S # {} /\ T # {}
  <2>1. A!Top(S) \in S /\ A!Top(T) \in T
    BY <1>3, RecordTop
  <2>2. CASE A!Top(S) = A!Top(T) \/ A!IsStrictPrefix(A!Top(T), A!Top(S))
    BY <1>2, <1>3, <2>2
  <2>3. CASE A!IsStrictPrefix(A!Top(S), A!Top(T))
    <3>1. HasTop(T \cup S)
      BY <1>2, <1>3, <2>3
    <3>2. T \cup S = S \cup T
      OBVIOUS
    <3> QED BY <3>1, <3>2
  <2> QED BY <2>1, <2>2, <2>3 DEF Chain
<1> QED BY <1>1, <1>3

LEMMA MergedIs ==
  ASSUME NEW all \in SUBSET RecordSeqs, Chain(all), NEW X \in Documents, NEW Y \in Documents,
         Follows(X, all), Follows(Y, all), HasTop(X.records), HasTop(Y.records),
         HasTop(X.claims), HasTop(Y.claims)
  PROVE  LET Z == A!Merged(X, Y) IN
         /\ Z \in Documents /\ Follows(Z, all) /\ HasTop(Z.records) /\ HasTop(Z.claims)
         /\ Z.claims = X.claims \cup Y.claims /\ Z.records = X.records \cup Y.records
         /\ Z.gone = X.gone \cup Y.gone
         /\ A!RecordIn(X) = A!NoGuid /\ Y.records \subseteq X.records => A!RecordIn(Z) = A!NoGuid
<1> DEFINE Z == A!Merged(X, Y)
<1>1. /\ Z \in Documents
      /\ Z.claims = X.claims \cup Y.claims /\ Z.records = X.records \cup Y.records
      /\ Z.gone = X.gone \cup Y.gone
  BY DEF A!Merged, Documents
<1>2. Follows(Z, all)
  BY <1>1 DEF Follows
<1>3. HasTop(Z.records)
  <2>1. X.records \in SUBSET all /\ Y.records \in SUBSET all
    BY DEF Follows
  <2> QED BY <1>1, <2>1, RecordsMerge
<1>4. HasTop(Z.claims)
  <2>1. X.claims \in SUBSET Seq(ClaimItems) /\ Y.claims \in SUBSET Seq(ClaimItems)
    BY DEF Documents, ClaimSeqs
  <2> QED BY <1>1, <2>1, ClaimsMerge
<1> HIDE DEF Z
<1>5. ASSUME A!RecordIn(X) = A!NoGuid, Y.records \subseteq X.records PROVE A!RecordIn(Z) = A!NoGuid
  <2>1. X.records \subseteq X.gone
    BY <1>5, RecordIs
  <2>2. Z.records \subseteq Z.gone
    BY <1>1, <1>5, <2>1
  <2> QED BY <1>1, <1>2, <1>3, <2>2, RecordIs
<1> QED BY <1>1, <1>2, <1>3, <1>4, <1>5 DEF Z

LEMMA DeletedIs ==
  ASSUME NEW all \in SUBSET RecordSeqs, Chain(all), NEW X \in Documents,
         Follows(X, all), HasTop(X.records)
  PROVE  LET Z == A!Deleted(X) IN
         /\ Z \in Documents /\ Follows(Z, all) /\ A!RecordIn(Z) = A!NoGuid
         /\ Z.claims = X.claims /\ Z.records = X.records
<1> DEFINE Z == A!Deleted(X)
<1>1. CASE A!RecordIn(X) = A!NoGuid
  BY <1>1 DEF A!Deleted
<1>2. CASE A!RecordIn(X) # A!NoGuid
  <2>1. PICK r \in X.records : /\ r \notin X.gone /\ X.records \ {r} \subseteq X.gone
                               /\ A!Top(X.records) = r
    BY <1>2, RecordIs
  <2>2. Z = [X EXCEPT !.gone = @ \cup {r}]
    BY <1>2, <2>1 DEF A!Deleted
  <2>3. r \in RecordSeqs
    BY DEF Documents
  <2>4. /\ Z \in Documents /\ Z.claims = X.claims /\ Z.records = X.records /\ Z.gone = X.gone \cup {r}
    BY <2>2, <2>3 DEF Documents
  <2> HIDE DEF Z
  <2>5. Follows(Z, all)
    BY <2>4 DEF Follows
  <2>6. Z.records \subseteq Z.gone
    BY <2>1, <2>4
  <2>7. HasTop(Z.records)
    BY <2>4
  <2>8. A!RecordIn(Z) = A!NoGuid
    BY <2>4, <2>5, <2>6, <2>7, RecordIs
  <2> QED BY <2>4, <2>5, <2>8 DEF Z
<1> QED BY <1>1, <1>2

LEMMA WithClaimIs ==
  ASSUME AdoptTypes, ClaimsOK, NEW c \in Clients, NEW stale, NEW r, r = A!WithClaim(c, stale)
  PROVE  /\ r \in Documents /\ r.records = replica[c].records /\ r.gone = replica[c].gone
         /\ A!RecordIn(r) = A!Record(c)
         /\ \/ r = replica[c] /\ A!Claimed(c)
            \/ /\ ~A!Claimed(c) \/ stale
               /\ \E p : /\ r.claims = replica[c].claims \cup {p} /\ A!Last(p).by = A!Id(c)
                         /\ HasTop(r.claims)
<1>1. client[c] \in AdoptStates /\ replica[c] \in Documents
  BY DEF AdoptTypes
<1>2. A!Id(c) \in Nat
  <2>1. client[c].session \in Nat
    BY <1>1, StateIs
  <2> QED BY <2>1, AdoptGiven DEF A!Id
<1>3. CASE r = replica[c] /\ A!Claimed(c)
  BY <1>1, <1>3 DEF A!Record
<1>4. CASE (~A!Claimed(c) \/ stale) /\ r = [replica[c] EXCEPT !.claims = A!SetOver(@, [by |-> A!Id(c)])]
  <2> DEFINE x == [by |-> A!Id(c)]
             S == replica[c].claims
  <2>1. x \in ClaimItems
    BY <1>2 DEF ClaimItems
  <2>2. S \in SUBSET ClaimSeqs /\ HasTop(S)
    BY <1>1 DEF Documents, ClaimsOK
  <2>3. PICK p \in ClaimSeqs : A!SetOver(S, x) = S \cup {p} /\ A!Last(p) = x /\ HasTop(S \cup {p})
    BY <2>1, <2>2, ClaimSetOver
  <2>4. r = [replica[c] EXCEPT !.claims = S \cup {p}]
    BY <1>1, <1>4, <2>3 DEF Documents
  <2>5. /\ r \in Documents /\ r.claims = S \cup {p}
        /\ r.records = replica[c].records /\ r.gone = replica[c].gone
    BY <1>1, <2>2, <2>4 DEF Documents
  <2>6. A!RecordIn(r) = A!Record(c)
    BY <2>5 DEF A!RecordIn, A!Record
  <2>7. A!Last(p).by = A!Id(c)
    BY <2>3
  <2> QED BY <1>4, <2>3, <2>5, <2>6, <2>7
<1> QED BY <1>3, <1>4 DEF A!WithClaim

(***************************************************************************)
(* What the claims are for: who finds the claim its own when everybody's   *)
(* have been exchanged is alone, and no other claim can still win.         *)
(***************************************************************************)
LEMMA WinnerIs ==
  ASSUME AdoptTypes, ClaimsOK, \A d \in Clients : LiveOK(d), NEW c \in Clients,
         Settling(c), A!Settled(c), A!Mine(c)
  PROVE  /\ Quiets(c) /\ Alone(c) /\ ClaimsSeen
         /\ client[c].minted # A!NoGuid => A!Record(c) = A!NoGuid
         /\ \A p \in Live(c) : p \in shared.claims
<1>1. A!Synced(c) /\ \A d \in Clients : A!Synced(d) => replica[d].claims = shared.claims
  BY DEF LiveOK, A!Settled
<1> DEFINE S == replica[c].claims
           t == A!Top(S)
<1>2. S = shared.claims /\ S # {}
  BY <1>1 DEF A!Mine, A!Claimed
<1>3. HasTop(S) /\ S \in SUBSET Seq(ClaimItems)
  BY DEF ClaimsOK, AdoptTypes, Documents, ClaimSeqs
<1>4. t \in S /\ \A q \in S \ {t} : A!Beats(t, q)
  BY <1>2, <1>3, TopWins, ItemsAre
<1>5. A!Last(t).by = A!Id(c)
  BY DEF A!Mine, A!Claimant
<1> HIDE DEF t
<1>6. t \in Live(c)
  BY <1>4, <1>5 DEF Live
<1>7. ~Overdue(t)
  <2> SUFFICES ASSUME NEW q \in shared.claims, A!Beats(q, t) PROVE FALSE
    BY DEF Overdue
  <2>1. q \in Seq(ClaimItems) /\ t \in Seq(ClaimItems) /\ q \in S
    BY <1>2, <1>3, <1>4
  <2>2. q # t /\ ~A!Beats(t, q)
    BY <2>1, BeatsAsymmetric, ItemsAre
  <2> QED BY <1>4, <2>1, <2>2
<1>8. Alone(c) /\ (client[c].minted # A!NoGuid => A!Record(c) = A!NoGuid)
  BY <1>6, <1>7 DEF LiveOK
<1>9. ASSUME NEW d \in Clients \ {c}, NEW p \in Live(d) PROVE Overdue(p)
  <2>1. p \in shared.claims
    BY <1>1 DEF LiveOK, Live
  <2>2. p # t
    <3> SUFFICES ASSUME p = t PROVE FALSE
      OBVIOUS
    <3>1. A!Cardinality(Clients) * client[d].session + d = A!Cardinality(Clients) * client[c].session + c
      BY <1>5, <1>9 DEF Live, A!Id
    <3>2. client[d].session \in Nat /\ client[c].session \in Nat
      <4>1. client[d] \in AdoptStates /\ client[c] \in AdoptStates
        BY DEF AdoptTypes
      <4> QED BY <4>1, StateIs
    <3> QED BY <3>1, <3>2, IdsDiffer
  <2> QED BY <1>2, <1>4, <2>1, <2>2 DEF Overdue
<1>10. Quiets(c)
  BY <1>8, <1>9 DEF Quiets, Alone
<1>11. ClaimsSeen
  BY <1>1, <1>2 DEF ClaimsSeen
<1>12. \A p \in Live(c) : p \in shared.claims
  BY <1>2 DEF Live
<1> QED BY <1>8, <1>10, <1>11, <1>12

-----------------------------------------------------------------------------
(* The steps of Adoption, outside of the windows.                            *)

LEMMA NoneFalls ==
  ASSUME NEW c \in Clients, NEW set, A!Falls(c, set), claimless' = {}
  PROVE  claimless = {} /\ set = {}
<1>1. claimless = {} /\ {c} \X set = {}
  BY DEF A!Falls
<1>2. \A w \in set : <<c, w>> \in {c} \X set
  OBVIOUS
<1> QED BY <1>1, <1>2

LEMMA WhenIs ==
  ASSUME NEW P, NEW w, A!When(P, w) = {}
  PROVE  ~P
BY DEF A!When

LEMMA SameClaims ==
  ASSUME ClaimsOK, NEW c \in Clients, Step(c), shared' = shared,
         replica'[c].claims = replica[c].claims, client'[c].session = client[c].session
  PROVE  ClaimsOK' /\ Live(c)' = Live(c)
<1>1. client[c].session <= client'[c].session
  <2>1. client[c] \in AdoptStates
    BY DEF Step, AdoptTypes
  <2>2. client[c].session \in Nat
    BY <2>1, StateIs
  <2> QED BY <2>2
<1>2. HasTop(shared'.claims) /\ HasTop(replica'[c].claims)
  BY DEF ClaimsOK
<1>3. shared'.claims \subseteq AllClaims /\ replica'[c].claims \subseteq AllClaims
  BY DEF AllClaims
<1>4. ClaimsOK'
  BY <1>1, <1>2, <1>3, ClaimsKept
<1>5. Live(c)' = Live(c)
  BY DEF Live, A!Id
<1> QED BY <1>4, <1>5

LEMMA SameRecords ==
  ASSUME RecordsOK, NEW c \in Clients, Step(c), shared' = shared,
         replica'[c].records = replica[c].records, replica'[c].gone = replica[c].gone,
         client[c].mints <= client'[c].mints
  PROVE  RecordsOK' /\ AllRecords' = AllRecords /\ A!Record(c)' = A!Record(c)
<1>1. HasTop(shared'.records) /\ HasTop(replica'[c].records)
  BY DEF RecordsOK
<1>2. Follows(shared', AllRecords) /\ Follows(replica'[c], AllRecords)
  BY DEF RecordsOK, Follows
<1>3. RecordsOK' /\ AllRecords' = AllRecords
  BY <1>1, <1>2, RecordsKept
<1>4. A!Record(c)' = A!Record(c)
  BY DEF A!Record, A!RecordIn, A!Top
<1> QED BY <1>3, <1>4

\* A step of the client's own bookkeeping.
LEMMA StillStep ==
  ASSUME AdoptOK, NEW c \in Clients, Step(c), shared' = shared, replica'[c] = replica[c],
         client'[c].session = client[c].session, client[c].mints <= client'[c].mints,
         Sure(c)' => Sure(c) /\ client'[c].minted \in client'[c].boots
                             /\ client'[c].create # "settling",
         Settling(c)' => Settling(c) /\ A!Synced(c)',
         Settling(c)' /\ client'[c].minted # A!NoGuid => client[c].minted # A!NoGuid,
         \A p \in Live(c) : p \in shared.claims \/ Settling(c)',
         A!Synced(c)' => A!Synced(c),
         GuidsOK(c)', TrashOK(c)', FileOK(c)', trashed' = trashed
  PROVE  AdoptOK'
<1>1. ClaimsOK' /\ Live(c)' = Live(c)
  BY SameClaims DEF AdoptOK
<1>2. RecordsOK' /\ A!Record(c)' = A!Record(c)
  BY SameRecords DEF AdoptOK
<1>3. Calm(c)
  BY <1>1, <1>2 DEF Calm, AllRecords
<1>4. ClaimKnown' /\ LiveOK(c)' /\ SureOK(c)' /\ \A d \in Clients \ {c} : OwnOK(d)'
  <2>1. ClaimKnown /\ \A d \in Clients : OwnOK(d)
    BY DEF AdoptOK, OwnOK
  <2> QED BY <1>3, <2>1, CalmKept
<1>5. \A d \in Clients : OwnOK(d)'
  BY <1>4 DEF OwnOK
<1>6. AdoptTypes' /\ trashed' = {}
  BY DEF AdoptOK, Step
<1> QED BY <1>1, <1>2, <1>4, <1>5, <1>6 DEF AdoptOK, OwnOK

\* The client wraps the document its record names.
LEMMA WrapStep ==
  ASSUME AdoptOK, NEW c \in Clients, Step(c), shared' = shared, replica'[c] = replica[c],
         client[c].minted = A!NoGuid, A!Record(c) # A!NoGuid,
         client'[c].session = client[c].session, client'[c].mints = client[c].mints,
         client'[c].minted = A!NoGuid,
         client'[c].wrappers = client[c].wrappers \cup {A!Record(c)},
         client'[c].boots \subseteq client[c].boots \cup {A!Record(c)},
         client'[c].trash = client[c].trash, client'[c].tree = client[c].tree,
         client'[c].synced = client[c].synced,
         client'[c].adopt # "idle" => client'[c].startup = "done",
         Settling(c)' => Settling(c),
         \A p \in Live(c) : p \in shared.claims \/ Settling(c)',
         trashed' = trashed
  PROVE  AdoptOK'
<1>0. client[c] \in AdoptStates /\ replica[c] \in Documents
  BY DEF AdoptOK, AdoptTypes
<1>1. A!Record(c)' = A!Record(c)
  BY DEF A!Record, A!RecordIn, A!Top
<1>2. \E r \in replica[c].records : A!Last(r).guid = A!Record(c)
  <2>1. AllRecords \in SUBSET RecordSeqs
    BY DEF AllRecords, AdoptOK, AdoptTypes, Documents
  <2> QED BY <1>0, <2>1, RecordIs DEF AdoptOK, RecordsOK, A!Record
<1>3. \A g \in client[c].wrappers : \E r \in replica[c].records : A!Last(r).guid = g
  <2> TAKE g \in client[c].wrappers
  <2>1. g \in A!Guids
    BY <1>0, StateIs
  <2>2. g # client[c].minted
    BY <2>1, AdoptGiven
  <2> QED BY <2>2 DEF AdoptOK, GuidsOK
<1>4. client[c].mints <= client'[c].mints
  <2>1. client[c].mints \in Nat
    BY <1>0, StateIs, AdoptGiven
  <2> QED BY <2>1
<1>5. GuidsOK(c)'
  BY <1>2, <1>3 DEF AdoptOK, GuidsOK
<1>6. TrashOK(c)'
  BY <1>1 DEF AdoptOK, TrashOK, A!MintedBy
<1>7. FileOK(c)'
  BY <1>1 DEF FileOK
<1>8. ~Sure(c)'
  BY DEF Sure
<1>9. A!Synced(c)' = A!Synced(c) /\ (Settling(c) => A!Synced(c))
  BY DEF A!Synced, AdoptOK, LiveOK
<1> QED BY <1>4, <1>5, <1>6, <1>7, <1>8, <1>9, StillStep

LEMMA RecordTyped ==
  ASSUME AdoptTypes, RecordsOK, NEW c \in Clients
  PROVE  A!Record(c) \in A!Guids \cup {A!NoGuid}
<1>1. AllRecords \in SUBSET RecordSeqs /\ replica[c] \in Documents
  BY DEF AllRecords, AdoptTypes, Documents
<1> QED BY <1>1, RecordIs DEF RecordsOK, A!Record

\* The same client, but for its file and how far it has started.
Alike(cl, dl) ==
  /\ cl.session = dl.session /\ cl.synced = dl.synced /\ cl.tree = dl.tree
  /\ cl.minted = dl.minted /\ cl.mints = dl.mints /\ cl.wrappers = dl.wrappers
  /\ cl.boots = dl.boots /\ cl.create = dl.create /\ cl.adopt = dl.adopt
  /\ cl.trash = dl.trash

\* A client that may claim the path is alone.
LEMMA ClaimantIsAlone ==
  ASSUME AdoptOK, NEW c \in Clients, A!Synced(c),
         ~A!Claimed(c) \/ ~A!OthersPublish(c)
  PROVE  Alone(c)
<1>1. CASE ~A!Claimed(c)
  <2>1. replica[c].claims = {}
    BY <1>1 DEF A!Claimed
  <2>2. \A d \in Clients : ~Sure(d) /\ replica[d].records = {}
    BY <2>1 DEF AdoptOK, ClaimKnown
  <2> QED BY <2>2 DEF Alone, AllRecords
<1>2. CASE ~A!OthersPublish(c)
  <2>1. \A d \in Clients \ {c} : client[d].minted = A!NoGuid /\ replica[d].records \subseteq replica[c].records
    BY <1>2 DEF A!OthersPublish
  <2>2. \A d \in Clients : replica[d].records \subseteq replica[c].records
    BY <2>1
  <2> QED BY <2>1, <2>2 DEF Alone, AllRecords, Sure
<1> QED BY <1>1, <1>2

\* A guid that has just been minted is nobody's.
LEMMA MintedIsNew ==
  ASSUME AdoptOK, NEW c \in Clients, client[c].minted = A!NoGuid
  PROVE  <<c, client[c].mints + 1>> \notin client[c].wrappers
<1> DEFINE g == <<c, client[c].mints + 1>>
<1> SUFFICES ASSUME g \in client[c].wrappers PROVE FALSE
  OBVIOUS
<1>0. client[c] \in AdoptStates
  BY DEF AdoptOK, AdoptTypes
<1>1. g \in A!Guids /\ client[c].mints \in Nat
  BY <1>0, StateIs, AdoptGiven
<1>2. PICK r \in replica[c].records : A!Last(r).guid = g
  BY <1>1, AdoptGiven DEF AdoptOK, GuidsOK
<1>3. PICK d \in Clients : \E i \in 1..client[d].mints : A!Last(r).guid = <<d, i>>
  BY DEF AdoptOK, RecordsOK, AllRecords
<1>4. PICK i \in 1..client[d].mints : A!Last(r).guid = <<d, i>>
  BY <1>3
<1>5. d = c /\ i = client[c].mints + 1
  BY <1>2, <1>4
<1> QED BY <1>1, <1>4, <1>5

LEMMA MintAndClaimStep ==
  ASSUME AdoptOK, NEW c \in Clients, NEW cl \in AdoptStates, NEW how \in {"create", "adopt"}, NEW stale,
         Alike(cl, client[c]), cl.file # "none", ~A!Tracks(c),
         how = "adopt" => cl.startup = "done", cl.adopt # "idle" => cl.startup = "done",
         A!MintAndClaim(c, cl, how, stale), claimless' = {}, shared' = shared, trashed' = trashed
  PROVE  AdoptOK'
<1>1. AdoptTypes /\ client[c] \in AdoptStates /\ shared' \in Documents
  BY DEF AdoptOK, AdoptTypes
<1>2. client[c].minted = A!NoGuid /\ A!Record(c) = A!NoGuid
  BY DEF A!Tracks, A!Guid
<1>3. A!Synced(c) /\ ~(stale /\ A!Claimed(c) /\ A!OthersPublish(c))
  <2>1. /\ A!When(~A!Synced(c), "no connection") = {}
        /\ A!When(stale /\ A!Claimed(c) /\ A!OthersPublish(c), "claim taken over") = {}
    BY NoneFalls DEF A!MintAndClaim
  <2> QED BY <2>1, WhenIs DEF A!Synced
<1>4. cl.mints < MaxMints
  BY DEF A!MintAndClaim, A!MayMint, Alike
<1> DEFINE ml == A!Minted(c, cl)
           dl == [ml EXCEPT ![how] = "settling"]
           r == A!WithClaim(c, stale)
<1>5. /\ ml \in AdoptStates
      /\ ml.minted = <<c, client[c].mints + 1>> /\ ml.mints = client[c].mints + 1
      /\ ml.wrappers = client[c].wrappers /\ ml.boots = client[c].boots
      /\ ml.session = client[c].session /\ ml.synced = client[c].synced
      /\ ml.tree = client[c].tree /\ ml.startup = cl.startup /\ ml.file = cl.file
      /\ ml.create = client[c].create /\ ml.adopt = client[c].adopt
      /\ ml.trash = client[c].trash
  BY <1>4, MintedIs DEF Alike
<1> HIDE DEF ml
<1>6. /\ dl \in AdoptStates
      /\ dl.minted = ml.minted /\ dl.mints = ml.mints
      /\ dl.wrappers = ml.wrappers /\ dl.boots = ml.boots
      /\ dl.session = ml.session /\ dl.synced = ml.synced
      /\ dl.tree = ml.tree /\ dl.startup = ml.startup /\ dl.file = ml.file
      /\ dl.trash = ml.trash
      /\ dl.create = "settling" \/ dl.adopt = "settling"
      /\ dl.adopt # "idle" => dl.startup = "done"
  <2>1. CASE how = "create"
    <3>1. dl = [ml EXCEPT !.create = "settling"]
      BY <2>1
    <3> HIDE DEF dl
    <3>2. /\ dl \in AdoptStates
          /\ dl.minted = ml.minted /\ dl.mints = ml.mints
          /\ dl.wrappers = ml.wrappers /\ dl.boots = ml.boots
          /\ dl.session = ml.session /\ dl.synced = ml.synced
          /\ dl.tree = ml.tree /\ dl.startup = ml.startup /\ dl.file = ml.file
          /\ dl.trash = ml.trash /\ dl.create = "settling" /\ dl.adopt = ml.adopt
      BY <3>1, <1>5 DEF AdoptStates
    <3> QED BY <3>2, <1>5 DEF Alike
  <2>2. CASE how = "adopt"
    <3>1. dl = [ml EXCEPT !.adopt = "settling"]
      BY <2>2
    <3> HIDE DEF dl
    <3>2. /\ dl \in AdoptStates
          /\ dl.minted = ml.minted /\ dl.mints = ml.mints
          /\ dl.wrappers = ml.wrappers /\ dl.boots = ml.boots
          /\ dl.session = ml.session /\ dl.synced = ml.synced
          /\ dl.tree = ml.tree /\ dl.startup = ml.startup /\ dl.file = ml.file
          /\ dl.trash = ml.trash /\ dl.adopt = "settling"
      BY <3>1, <1>5 DEF AdoptStates
    <3> QED BY <3>2, <2>2, <1>5
  <2> QED BY <2>1, <2>2
<1>7. /\ r \in Documents /\ r.records = replica[c].records /\ r.gone = replica[c].gone
      /\ A!RecordIn(r) = A!Record(c)
      /\ \/ r = replica[c] /\ A!Claimed(c)
         \/ /\ ~A!Claimed(c) \/ stale
            /\ \E p : /\ r.claims = replica[c].claims \cup {p} /\ A!Last(p).by = A!Id(c)
                      /\ HasTop(r.claims)
  BY <1>1, WithClaimIs DEF AdoptOK
<1>8. A!Becomes(c, dl, r)
  BY DEF A!MintAndClaim, ml
<1> HIDE DEF dl, r
<1>9. Step(c) /\ Becoming(c, dl, r)
  BY <1>1, <1>6, <1>7, <1>8, BecomesIs
<1>10. /\ replica'[c] = r
       /\ client'[c].session = client[c].session /\ client'[c].synced = client[c].synced
       /\ client'[c].tree = client[c].tree /\ client'[c].file # "none"
       /\ client'[c].minted = <<c, client[c].mints + 1>>
       /\ client'[c].mints = client[c].mints + 1
       /\ client'[c].wrappers = client[c].wrappers /\ client'[c].boots = client[c].boots
       /\ client'[c].trash = client[c].trash
       /\ client'[c].adopt # "idle" => client'[c].startup = "done"
       /\ Settling(c)'
  BY <1>5, <1>6, <1>9 DEF Becoming, Settling
<1>11. client[c].mints \in Nat /\ client'[c].minted # A!NoGuid
  <2>1. client[c].mints \in Nat /\ client'[c].minted \in A!Guids
    BY <1>1, <1>4, <1>10, StateIs, AdoptGiven, MintedIs DEF Alike
  <2> QED BY <2>1, AdoptGiven
<1>12. RecordsOK' /\ A!Record(c)' = A!NoGuid
  <2>1. client[c].mints <= client'[c].mints
    BY <1>10, <1>11
  <2> QED BY <1>2, <1>7, <1>9, <1>10, <2>1, SameRecords DEF AdoptOK
<1>13. ClaimsOK' /\ replica[c].claims \subseteq replica'[c].claims /\ (Live(c)' \subseteq Live(c) \/ Alone(c))
  <2>1. CASE r = replica[c] /\ A!Claimed(c)
    BY <1>9, <1>10, <2>1, SameClaims DEF AdoptOK
  <2>2. CASE (~A!Claimed(c) \/ stale) /\ \E p : /\ r.claims = replica[c].claims \cup {p}
                                              /\ A!Last(p).by = A!Id(c) /\ HasTop(r.claims)
    <3>1. PICK p : /\ r.claims = replica[c].claims \cup {p}
                   /\ A!Last(p).by = A!Id(c) /\ HasTop(r.claims)
      BY <2>2
    <3>2. ClaimsOK'
      BY <1>9, <1>10, <3>1, ClaimAdded DEF AdoptOK
    <3>3. Alone(c)
      BY <1>3, <2>2, ClaimantIsAlone
    <3> QED BY <1>10, <3>1, <3>2, <3>3
  <2> QED BY <1>7, <2>1, <2>2
<1>14. Claiming(c)
  <2>1. ~Sure(c)'
    BY <1>2, <1>10, MintedIsNew DEF Sure
  <2> QED BY <1>3, <1>7, <1>10, <1>12, <1>13, <2>1 DEF Claiming, A!Synced
<1>15. ClaimKnown' /\ LiveOK(c)' /\ SureOK(c)' /\ \A d \in Clients \ {c} : OwnOK(d)'
  <2>1. ClaimKnown /\ \A d \in Clients : OwnOK(d)
    BY DEF AdoptOK, OwnOK
  <2> QED BY <1>9, <1>14, <2>1, ClaimingKept
<1>16. GuidsOK(c)'
  <2>1. \A g \in client[c].wrappers : \E q \in replica[c].records : A!Last(q).guid = g
    <3> TAKE g \in client[c].wrappers
    <3>1. g \in A!Guids /\ g # client[c].minted
      BY <1>1, <1>2, StateIs, AdoptGiven
    <3> QED BY <3>1 DEF AdoptOK, GuidsOK
  <2>2. client'[c].mints \in 1..client'[c].mints
    BY <1>10, <1>11
  <2>3. client'[c].minted = <<c, client'[c].mints>>
    BY <1>10
  <2> QED BY <1>7, <1>10, <2>1, <2>2, <2>3 DEF AdoptOK, GuidsOK
<1>17. TrashOK(c)'
  BY <1>2, <1>7, <1>10, <1>12 DEF AdoptOK, TrashOK
<1>18. FileOK(c)'
  BY <1>11 DEF FileOK
<1>19. \A d \in Clients : OwnOK(d)'
  BY <1>15, <1>16, <1>17, <1>18 DEF OwnOK
<1>20. AdoptTypes' /\ trashed' = {}
  BY <1>9 DEF AdoptOK, Step
<1> QED BY <1>12, <1>13, <1>15, <1>19, <1>20 DEF AdoptOK, OwnOK

LEMMA CreateEventStep ==
  ASSUME AdoptOK, NEW c \in Clients, NEW cl \in AdoptStates, NEW stale,
         Alike(cl, client[c]), cl.file # "none", cl.startup = client[c].startup,
         A!CreateEvent(c, cl, stale), claimless' = {}, shared' = shared, trashed' = trashed
  PROVE  AdoptOK'
<1>1. AdoptTypes /\ client[c] \in AdoptStates /\ replica[c] \in Documents /\ shared' \in Documents
  BY DEF AdoptOK, AdoptTypes
<1>2. cl.adopt # "idle" => cl.startup = "done"
  BY DEF Alike, AdoptOK, GuidsOK
<1>3. CASE A!Tracks(c)
  <2>1. A!Becomes(c, A!Wrapped(cl, A!Guid(c)), replica[c]) /\ A!Falls(c, A!When(cl.minted # A!NoGuid, "unclaimed"))
    BY <1>3 DEF A!CreateEvent
  <2>2. client[c].minted = A!NoGuid
    BY <2>1, NoneFalls, WhenIs DEF Alike
  <2>3. A!Guid(c) = A!Record(c) /\ A!Record(c) # A!NoGuid
    BY <1>3, <2>2 DEF A!Tracks, A!Guid
  <2>4. A!Record(c) \in A!Guids
    BY <1>1, <2>3, RecordTyped DEF AdoptOK
  <2> DEFINE dl == A!Wrapped(cl, A!Record(c))
  <2>5. /\ dl \in AdoptStates
        /\ dl.wrappers = cl.wrappers \cup {A!Record(c)}
        /\ dl.boots \subseteq cl.boots \cup {A!Record(c)}
        /\ dl.session = cl.session /\ dl.synced = cl.synced
        /\ dl.tree = cl.tree /\ dl.startup = cl.startup
        /\ dl.minted = cl.minted /\ dl.mints = cl.mints
        /\ dl.create = cl.create /\ dl.adopt = cl.adopt /\ dl.trash = cl.trash
    BY <2>4, WrappedIs
  <2> HIDE DEF dl
  <2>6. Step(c) /\ Becoming(c, dl, replica[c])
    BY <1>1, <2>1, <2>3, <2>5, BecomesIs DEF dl
  <2>7. /\ client'[c].create = client[c].create /\ client'[c].adopt = client[c].adopt
        /\ Settling(c)' = Settling(c)
    BY <2>5, <2>6 DEF Becoming, Alike, Settling
  <2>8. \A p \in Live(c) : p \in shared.claims \/ Settling(c)'
    BY <2>7 DEF AdoptOK, LiveOK
  <2> QED BY <1>2, <2>2, <2>3, <2>5, <2>6, <2>7, <2>8, WrapStep DEF Becoming, Alike
<1>4. CASE ~A!Tracks(c)
  <2>1. A!MintAndClaim(c, cl, "create", stale)
    BY <1>4 DEF A!CreateEvent
  <2> QED BY <1>2, <1>4, <2>1, MintAndClaimStep
<1> QED BY <1>3, <1>4

LEMMA FileAppearsStep ==
  ASSUME AdoptOK, NEW c \in Clients, NEW stale, A!FileAppears(c, stale), claimless' = {}
  PROVE  AdoptOK'
<1>1. client[c] \in AdoptStates
  BY DEF AdoptOK, AdoptTypes
<1> DEFINE cl == [client[c] EXCEPT !.file = "own"]
<1>2. cl \in AdoptStates /\ Alike(cl, client[c]) /\ cl.file = "own" /\ cl.startup = client[c].startup
  BY <1>1 DEF AdoptStates, Alike, A!Files
<1>3. A!CreateEvent(c, cl, stale) /\ shared' = shared /\ trashed' = trashed
  BY DEF A!FileAppears
<1> HIDE DEF cl
<1> QED BY <1>2, <1>3, CreateEventStep

LEMMA FileAnnouncedStep ==
  ASSUME AdoptOK, NEW c \in Clients, NEW stale, A!FileAnnounced(c, stale), claimless' = {}
  PROVE  AdoptOK'
<1>1. client[c] \in AdoptStates
  BY DEF AdoptOK, AdoptTypes
<1> DEFINE cl == [client[c] EXCEPT !.announced = TRUE]
<1>2. /\ cl \in AdoptStates /\ Alike(cl, client[c]) /\ cl.file = client[c].file
      /\ cl.startup = client[c].startup
  BY <1>1 DEF AdoptStates, Alike
<1>3. A!CreateEvent(c, cl, stale) /\ shared' = shared /\ trashed' = trashed /\ client[c].file # "none"
  BY DEF A!FileAnnounced
<1> HIDE DEF cl
<1> QED BY <1>2, <1>3, CreateEventStep

\* The client wraps or publishes the guid it has minted.
LEMMA PublishStep ==
  ASSUME AdoptOK, NEW c \in Clients, Step(c), Publishing(c), Quiets(c), Alone(c), ClaimsSeen,
         ClaimsOK', RecordsOK', GuidsOK(c)', TrashOK(c)', FileOK(c)', trashed' = trashed
  PROVE  AdoptOK'
<1>1. ClaimKnown' /\ LiveOK(c)' /\ SureOK(c)' /\ \A d \in Clients \ {c} : OwnOK(d)'
  <2>1. \A d \in Clients : OwnOK(d)
    BY DEF AdoptOK, OwnOK
  <2> QED BY <2>1, PublishingKept
<1>2. \A d \in Clients : OwnOK(d)'
  BY <1>1 DEF OwnOK
<1>3. AdoptTypes' /\ trashed' = {}
  BY DEF AdoptOK, Step
<1> QED BY <1>1, <1>2, <1>3 DEF AdoptOK, OwnOK

LEMMA PutStep ==
  ASSUME AdoptOK, NEW c \in Clients, Step(c), shared' = shared,
         client[c].minted # A!NoGuid, A!Record(c) = A!NoGuid, Quiets(c), Alone(c), ClaimsSeen,
         replica'[c] = A!Put(c, client[c].minted),
         client'[c].session = client[c].session, client'[c].mints = client[c].mints,
         client'[c].minted = A!NoGuid,
         client'[c].wrappers = client[c].wrappers \cup {client[c].minted},
         client'[c].boots \subseteq client'[c].wrappers,
         client'[c].trash = client[c].trash, client'[c].tree = client[c].tree,
         client'[c].synced = client[c].synced,
         client'[c].adopt # "idle" => client'[c].startup = "done",
         Settling(c)' => Settling(c),
         \A p \in Live(c) : p \in shared.claims \/ Settling(c)',
         trashed' = trashed
  PROVE  AdoptOK'
<1> DEFINE g == client[c].minted
           x == [by |-> A!Id(c), guid |-> g]
<1>1. client[c] \in AdoptStates
  BY DEF AdoptOK, AdoptTypes
<1>2. g \in A!Guids /\ client[c].session \in Nat /\ client[c].mints \in 0..MaxMints
  BY <1>1, StateIs
<1>3. A!Id(c) \in Nat
  BY <1>2, AdoptGiven DEF A!Id
<1>4. x \in RecordItems
  BY <1>2, <1>3 DEF RecordItems
<1>5. replica'[c] = [replica[c] EXCEPT !.records = A!SetOver(@, x)]
  BY DEF A!Put
<1>6. PICK i \in 1..client[c].mints : g = <<c, i>>
  BY DEF AdoptOK, GuidsOK
<1>7. \E j \in 1..client'[c].mints : x.guid = <<c, j>>
  BY <1>6
<1>8. client[c].mints <= client'[c].mints
  BY <1>2
<1>9. AllRecords \subseteq replica[c].records
  BY DEF Alone
<1>10. x.guid = g
  OBVIOUS
<1> HIDE DEF x
<1>11. /\ RecordsOK' /\ A!Record(c)' = g
       /\ replica'[c].claims = replica[c].claims /\ replica'[c].gone = replica[c].gone
       /\ replica[c].records \subseteq replica'[c].records
       /\ \E r \in replica'[c].records : A!Last(r).guid = g
  <2>1. /\ RecordsOK' /\ A!Record(c)' = x.guid
        /\ replica'[c].claims = replica[c].claims /\ replica'[c].gone = replica[c].gone
        /\ replica[c].records \subseteq replica'[c].records
        /\ \E r \in replica'[c].records : A!Last(r).guid = x.guid
    BY <1>4, <1>5, <1>7, <1>8, <1>9, RecordPut DEF AdoptOK
  <2> QED BY <2>1, <1>10
<1>12. ClaimsOK' /\ Live(c)' = Live(c)
  BY <1>11, SameClaims DEF AdoptOK
<1>13. Publishing(c)
  <2>1. ~Sure(c)'
    BY DEF Sure
  <2> QED BY <1>11, <1>12, <2>1 DEF Publishing, A!Synced
<1>14. GuidsOK(c)'
  <2>1. \A h \in client'[c].wrappers : \E r \in replica'[c].records : A!Last(r).guid = h
    BY <1>11 DEF AdoptOK, GuidsOK
  <2> QED BY <2>1 DEF AdoptOK, GuidsOK
<1>15. TrashOK(c)'
  <2>1. g \in A!MintedBy(c)
    BY <1>2, <1>6, AdoptGiven DEF A!MintedBy
  <2> QED BY <1>11, <2>1 DEF AdoptOK, TrashOK, A!MintedBy
<1>16. FileOK(c)'
  BY <1>11 DEF FileOK
<1> QED BY <1>11, <1>12, <1>13, <1>14, <1>15, <1>16, PublishStep

LEMMA SettledLive ==
  ASSUME AdoptOK, NEW c \in Clients, Settling(c), A!Settled(c)
  PROVE  A!Synced(c) /\ \A p \in Live(c) : p \in shared.claims
<1>1. A!Synced(c)
  BY DEF AdoptOK, LiveOK
<1>2. replica[c].claims = shared.claims
  BY <1>1 DEF A!Settled
<1> QED BY <1>1, <1>2 DEF Live

LEMMA WinnerPublishes ==
  ASSUME AdoptOK, NEW c \in Clients, Settling(c), A!Settled(c), A!Mine(c)
  PROVE  /\ Quiets(c) /\ Alone(c) /\ ClaimsSeen
         /\ client[c].minted # A!NoGuid => A!Record(c) = A!NoGuid
         /\ \A p \in Live(c) : p \in shared.claims
<1>1. AdoptTypes /\ ClaimsOK /\ \A d \in Clients : LiveOK(d)
  BY DEF AdoptOK
<1> QED BY <1>1, WinnerIs

LEMMA CreateWinsStep ==
  ASSUME AdoptOK, NEW c \in Clients, A!CreateWins(c), claimless' = {}
  PROVE  AdoptOK'
<1>1. /\ AdoptTypes /\ RecordsOK /\ client[c] \in AdoptStates /\ replica[c] \in Documents
      /\ shared' \in Documents /\ shared' = shared /\ trashed' = trashed
  BY DEF AdoptOK, AdoptTypes, A!CreateWins
<1>2. Settling(c) /\ A!Settled(c) /\ A!Mine(c) /\ client[c].create = "settling"
  BY DEF A!CreateWins, Settling
<1>3. /\ Quiets(c) /\ Alone(c) /\ ClaimsSeen
      /\ client[c].minted # A!NoGuid => A!Record(c) = A!NoGuid
      /\ \A p \in Live(c) : p \in shared.claims
  BY <1>2, WinnerPublishes
<1>4. A!Synced(c)
  BY <1>2, SettledLive
<1>5. client[c].mints <= client[c].mints
  BY <1>1, StateIs
<1>6. client[c].adopt # "idle" => client[c].startup = "done"
  BY DEF AdoptOK, GuidsOK
<1>7. CASE ~A!Tracks(c)
  <2> DEFINE dl == [client[c] EXCEPT !.create = "idle"]
  <2>1. client[c].minted = A!NoGuid
    BY <1>7 DEF A!Tracks, A!Guid
  <2>2. dl \in AdoptStates /\ dl.create = "idle"
    BY <1>1 DEF AdoptStates
  <2>3. /\ dl.session = client[c].session /\ dl.synced = client[c].synced /\ dl.tree = client[c].tree
        /\ dl.minted = client[c].minted /\ dl.mints = client[c].mints /\ dl.wrappers = client[c].wrappers
        /\ dl.boots = client[c].boots /\ dl.adopt = client[c].adopt /\ dl.trash = client[c].trash
        /\ dl.file = client[c].file /\ dl.startup = client[c].startup /\ dl.scan = client[c].scan
    BY <1>1 DEF AdoptStates
  <2>4. A!Becomes(c, dl, replica[c])
    BY <1>7 DEF A!CreateWins
  <2> HIDE DEF dl
  <2>5. Step(c) /\ Becoming(c, dl, replica[c])
    BY <1>1, <2>2, <2>4, BecomesIs
  <2>6. A!Record(c)' = A!Record(c)
    BY <1>1, <2>5, SameRecords, <2>3, <1>5 DEF Becoming
  <2>7. GuidsOK(c)' /\ TrashOK(c)' /\ FileOK(c)'
    <3>1. GuidsOK(c) /\ TrashOK(c) /\ FileOK(c)
      BY DEF AdoptOK
    <3>2. GuidsOK(c)'
      BY <2>1, <2>3, <2>5, <3>1 DEF GuidsOK, Becoming
    <3>3. TrashOK(c)'
      BY <2>3, <2>5, <2>6, <3>1 DEF TrashOK, Becoming, A!MintedBy
    <3>4. FileOK(c)'
      BY <1>2, <2>3, <2>5, <2>6, <3>1 DEF FileOK, Becoming
    <3> QED BY <3>2, <3>3, <3>4
  <2>8. ~Sure(c)' /\ (Settling(c)' => A!Synced(c)') /\ client'[c].minted = A!NoGuid
        /\ (A!Synced(c)' => A!Synced(c))
    BY <1>4, <2>1, <2>3, <2>5 DEF Sure, Becoming, A!Synced
  <2> QED BY <1>1, <1>2, <1>3, <1>5, <2>3, <2>5, <2>7, <2>8, StillStep DEF Becoming
<1>8. CASE A!Tracks(c)
  <2> DEFINE g == A!Guid(c)
             wl == A!Wrapped(client[c], g)
             dl == [wl EXCEPT !.create = "idle"]
  <2>1. g \in A!Guids
    BY <1>1, <1>8, StateIs, RecordTyped DEF A!Tracks, A!Guid
  <2>2. /\ wl \in AdoptStates
        /\ wl.wrappers = client[c].wrappers \cup {g}
        /\ wl.boots = IF g \in client[c].wrappers THEN client[c].boots ELSE client[c].boots \cup {g}
        /\ wl.session = client[c].session /\ wl.synced = client[c].synced
        /\ wl.tree = client[c].tree /\ wl.startup = client[c].startup
        /\ wl.minted = client[c].minted /\ wl.mints = client[c].mints
        /\ wl.adopt = client[c].adopt /\ wl.trash = client[c].trash /\ wl.file = client[c].file
    BY <1>1, <2>1, WrappedIs
  <2>3. A!Becomes(c, dl, replica[c])
    BY <1>8 DEF A!CreateWins
  <2> HIDE DEF wl, g
  <2>4. /\ dl \in AdoptStates /\ dl.create = "idle"
        /\ dl.wrappers = wl.wrappers /\ dl.boots = wl.boots
        /\ dl.session = wl.session /\ dl.synced = wl.synced
        /\ dl.tree = wl.tree /\ dl.startup = wl.startup
        /\ dl.minted = wl.minted /\ dl.mints = wl.mints
        /\ dl.adopt = wl.adopt /\ dl.trash = wl.trash /\ dl.file = wl.file
    BY <2>2 DEF AdoptStates
  <2> HIDE DEF dl
  <2>5. Step(c) /\ Becoming(c, dl, replica[c])
    BY <1>1, <2>3, <2>4, BecomesIs
  <2>6. /\ replica'[c] = replica[c] /\ client'[c].create = "idle"
        /\ client'[c].wrappers = client[c].wrappers \cup {g}
        /\ client'[c].boots = IF g \in client[c].wrappers THEN client[c].boots ELSE client[c].boots \cup {g}
        /\ client'[c].session = client[c].session /\ client'[c].synced = client[c].synced
        /\ client'[c].tree = client[c].tree /\ client'[c].startup = client[c].startup
        /\ client'[c].minted = client[c].minted /\ client'[c].mints = client[c].mints
        /\ client'[c].adopt = client[c].adopt /\ client'[c].trash = client[c].trash
        /\ client'[c].file = client[c].file
    BY <2>2, <2>4, <2>5 DEF Becoming
  <2>7. CASE client[c].minted = A!NoGuid
    <3>1. g = A!Record(c) /\ A!Record(c) # A!NoGuid
      BY <2>7, <1>8 DEF g, A!Guid, A!Tracks
    <3>2. client'[c].boots \subseteq client[c].boots \cup {A!Record(c)}
      BY <2>6, <3>1
    <3> QED BY <1>1, <1>2, <1>3, <1>6, <2>5, <2>6, <2>7, <3>1, <3>2, WrapStep
  <2>8. CASE client[c].minted # A!NoGuid
    <3>1. g = client[c].minted /\ A!Record(c) = A!NoGuid
      BY <1>3, <2>8 DEF g, A!Guid
    <3>2. g \notin client[c].wrappers
      BY <1>2, <2>8, <3>1 DEF AdoptOK, SureOK, Sure
    <3>3. ClaimsOK' /\ Live(c)' = Live(c)
      BY <1>1, <2>5, <2>6, SameClaims DEF AdoptOK
    <3>4. RecordsOK' /\ A!Record(c)' = A!NoGuid
      BY <1>1, <1>5, <2>5, <2>6, <3>1, SameRecords
    <3>5. Publishing(c)
      BY <1>1, <1>2, <1>3, <2>6, <3>1, <3>2, <3>3, <3>4 DEF Publishing, A!Synced
    <3>6. GuidsOK(c)'
      <4>1. GuidsOK(c)
        BY DEF AdoptOK
      <4> QED BY <2>6, <2>8, <3>1, <3>2, <4>1 DEF GuidsOK
    <3>7. TrashOK(c)'
      BY <2>6, <3>1, <3>4 DEF AdoptOK, TrashOK
    <3>8. FileOK(c)'
      BY <2>6, <2>8 DEF FileOK
    <3> QED BY <1>1, <1>3, <2>5, <3>3, <3>4, <3>5, <3>6, <3>7, <3>8, PublishStep
  <2> QED BY <2>7, <2>8
<1> QED BY <1>7, <1>8

LEMMA PutTyped ==
  ASSUME AdoptTypes, RecordsOK, NEW c \in Clients, NEW g \in A!Guids
  PROVE  A!Put(c, g) \in Documents
<1> DEFINE S == replica[c].records
           x == [by |-> A!Id(c), guid |-> g]
<1>1. client[c] \in AdoptStates /\ replica[c] \in Documents
  BY DEF AdoptTypes
<1>2. A!Id(c) \in Nat
  <2>1. client[c].session \in Nat
    BY <1>1, StateIs
  <2> QED BY <2>1, AdoptGiven DEF A!Id
<1>3. x \in RecordItems
  BY <1>2 DEF RecordItems
<1>4. S \in SUBSET Seq(RecordItems) /\ HasTop(S)
  BY <1>1 DEF Documents, RecordSeqs, RecordsOK
<1>5. A!Top(S) \in Seq(RecordItems)
  <2>1. CASE S = {}
    BY <2>1, EmptySeq DEF A!Top
  <2>2. CASE S # {}
    BY <1>4, <2>2, TopWins, ItemsAre
  <2> QED BY <2>1, <2>2
<1>6. Append(A!Top(S), x) \in RecordSeqs
  BY <1>3, <1>5, AppendedIs DEF RecordSeqs
<1>7. A!SetOver(S, x) \in SUBSET RecordSeqs
  BY <1>1, <1>6 DEF A!SetOver, Documents
<1>8. [replica[c] EXCEPT !.records = A!SetOver(@, x)] \in Documents
  BY <1>1, <1>7 DEF Documents
<1> QED BY <1>1, <1>8 DEF A!Put

LEMMA CreateLosesStep ==
  ASSUME AdoptOK, NEW c \in Clients, A!CreateLoses(c), claimless' = {}
  PROVE  AdoptOK'
<1>1. /\ AdoptTypes /\ RecordsOK /\ client[c] \in AdoptStates /\ replica[c] \in Documents
      /\ shared' \in Documents /\ shared' = shared /\ trashed' = trashed
  BY DEF AdoptOK, AdoptTypes, A!CreateLoses
<1>2. Settling(c) /\ A!Settled(c) /\ client[c].create = "settling"
  BY DEF A!CreateLoses, Settling
<1>3. A!Synced(c) /\ \A p \in Live(c) : p \in shared.claims
  BY <1>2, SettledLive
<1>4. client[c].mints <= client[c].mints
  BY <1>1, StateIs
<1> DEFINE dl == [client[c] EXCEPT !.minted = A!NoGuid, !.create = "waiting"]
<1>5. /\ dl \in AdoptStates /\ dl.create = "waiting" /\ dl.minted = A!NoGuid
      /\ dl.session = client[c].session /\ dl.synced = client[c].synced /\ dl.tree = client[c].tree
      /\ dl.mints = client[c].mints /\ dl.wrappers = client[c].wrappers
      /\ dl.boots = client[c].boots /\ dl.adopt = client[c].adopt /\ dl.trash = client[c].trash
      /\ dl.file = client[c].file /\ dl.startup = client[c].startup
  BY <1>1 DEF AdoptStates
<1>6. A!Becomes(c, dl, replica[c])
  <2>1. [A!ForgetsGuid(client[c]) EXCEPT !.create = "waiting"] = dl
    BY DEF A!ForgetsGuid
  <2> QED BY <2>1 DEF A!CreateLoses
<1> HIDE DEF dl
<1>7. Step(c) /\ Becoming(c, dl, replica[c])
  BY <1>1, <1>5, <1>6, BecomesIs
<1>8. A!Record(c)' = A!Record(c)
  BY <1>1, <1>4, <1>5, <1>7, SameRecords DEF Becoming
<1>9. client[c].minted \notin client[c].wrappers
  <2>1. A!NoGuid \notin client[c].wrappers
    BY <1>1, StateIs, AdoptGiven
  <2> QED BY <1>2, <2>1 DEF AdoptOK, SureOK, Sure
<1>10. GuidsOK(c)'
  <2>1. GuidsOK(c)
    BY DEF AdoptOK
  <2> QED BY <1>5, <1>7, <1>9, <2>1 DEF GuidsOK, Becoming
<1>11. TrashOK(c)'
  BY <1>5, <1>7, <1>8 DEF AdoptOK, TrashOK, Becoming, A!MintedBy
<1>12. FileOK(c)'
  BY <1>5, <1>7 DEF FileOK, Becoming
<1>13. ~Sure(c)' /\ (Settling(c)' => A!Synced(c)') /\ client'[c].minted = A!NoGuid
       /\ (A!Synced(c)' => A!Synced(c))
  BY <1>3, <1>5, <1>7 DEF Sure, Becoming, A!Synced
<1> QED BY <1>1, <1>2, <1>3, <1>4, <1>5, <1>7, <1>10, <1>11, <1>12, <1>13, StillStep DEF Becoming

LEMMA CreateAdoptsStep ==
  ASSUME AdoptOK, NEW c \in Clients, A!CreateAdopts(c), claimless' = {}
  PROVE  AdoptOK'
<1>1. /\ AdoptTypes /\ RecordsOK /\ client[c] \in AdoptStates /\ replica[c] \in Documents
      /\ shared' \in Documents /\ shared' = shared /\ trashed' = trashed
  BY DEF AdoptOK, AdoptTypes, A!CreateAdopts
<1>2. client[c].minted = A!NoGuid
  BY NoneFalls, WhenIs DEF A!CreateAdopts
<1>3. A!Guid(c) = A!Record(c) /\ A!Record(c) # A!NoGuid /\ A!Record(c) \in A!Guids
  BY <1>1, <1>2, RecordTyped DEF A!CreateAdopts, A!Tracks, A!Guid
<1> DEFINE wl == A!Wrapped(client[c], A!Record(c))
           dl == [wl EXCEPT !.create = "idle"]
<1>4. /\ wl \in AdoptStates
      /\ wl.wrappers = client[c].wrappers \cup {A!Record(c)}
      /\ wl.boots \subseteq client[c].boots \cup {A!Record(c)}
      /\ wl.session = client[c].session /\ wl.synced = client[c].synced
      /\ wl.tree = client[c].tree /\ wl.startup = client[c].startup
      /\ wl.minted = client[c].minted /\ wl.mints = client[c].mints
      /\ wl.adopt = client[c].adopt /\ wl.trash = client[c].trash
  BY <1>1, <1>3, WrappedIs
<1>5. A!Becomes(c, dl, replica[c])
  BY <1>3 DEF A!CreateAdopts
<1> HIDE DEF wl
<1>6. /\ dl \in AdoptStates /\ dl.create = "idle"
      /\ dl.wrappers = wl.wrappers /\ dl.boots = wl.boots
      /\ dl.session = wl.session /\ dl.synced = wl.synced
      /\ dl.tree = wl.tree /\ dl.startup = wl.startup
      /\ dl.minted = wl.minted /\ dl.mints = wl.mints
      /\ dl.adopt = wl.adopt /\ dl.trash = wl.trash
  BY <1>4 DEF AdoptStates
<1> HIDE DEF dl
<1>7. Step(c) /\ Becoming(c, dl, replica[c])
  BY <1>1, <1>5, <1>6, BecomesIs
<1>8. Settling(c)' = Settling(c)
  BY <1>4, <1>6, <1>7 DEF Becoming, Settling, A!CreateAdopts
<1>9. \A p \in Live(c) : p \in shared.claims \/ Settling(c)'
  BY <1>8 DEF AdoptOK, LiveOK
<1>10. client[c].adopt # "idle" => client[c].startup = "done"
  BY DEF AdoptOK, GuidsOK
<1> QED BY <1>1, <1>2, <1>3, <1>4, <1>6, <1>7, <1>8, <1>9, <1>10, WrapStep DEF Becoming

LEMMA CreateTimesOutStep ==
  ASSUME AdoptOK, NEW c \in Clients, A!CreateTimesOut(c), claimless' = {}
  PROVE  AdoptOK'
<1>1. /\ AdoptTypes /\ RecordsOK /\ client[c] \in AdoptStates /\ replica[c] \in Documents
      /\ shared' \in Documents /\ shared' = shared /\ trashed' = trashed
  BY DEF AdoptOK, AdoptTypes, A!CreateTimesOut
<1>2. client[c].file = "none"
  <2> SUFFICES ASSUME client[c].file # "none" PROVE FALSE
    OBVIOUS
  <2>1. A!Falls(c, {"winner slow"})
    BY DEF A!CreateTimesOut
  <2> QED BY <2>1, NoneFalls
<1>3. client[c].mints <= client[c].mints
  BY <1>1, StateIs
<1> DEFINE dl == [client[c] EXCEPT !.create = "idle"]
<1>4. /\ dl \in AdoptStates /\ dl.create = "idle" /\ dl.minted = client[c].minted
      /\ dl.session = client[c].session /\ dl.synced = client[c].synced /\ dl.tree = client[c].tree
      /\ dl.mints = client[c].mints /\ dl.wrappers = client[c].wrappers
      /\ dl.boots = client[c].boots /\ dl.adopt = client[c].adopt /\ dl.trash = client[c].trash
      /\ dl.file = client[c].file /\ dl.startup = client[c].startup
  BY <1>1 DEF AdoptStates
<1>5. A!Becomes(c, dl, replica[c]) /\ client[c].create = "waiting"
  BY <1>2 DEF A!CreateTimesOut
<1> HIDE DEF dl
<1>6. Step(c) /\ Becoming(c, dl, replica[c])
  BY <1>1, <1>4, <1>5, BecomesIs
<1>7. A!Record(c)' = A!Record(c)
  BY <1>1, <1>3, <1>4, <1>6, SameRecords DEF Becoming
<1>8. client[c].minted = A!NoGuid
  BY <1>2 DEF AdoptOK, GuidsOK
<1>9. GuidsOK(c)'
  <2>1. GuidsOK(c)
    BY DEF AdoptOK
  <2> QED BY <1>4, <1>6, <1>8, <2>1 DEF GuidsOK, Becoming
<1>10. TrashOK(c)'
  BY <1>4, <1>6, <1>7 DEF AdoptOK, TrashOK, Becoming, A!MintedBy
<1>11. FileOK(c)'
  BY <1>2, <1>4, <1>6 DEF FileOK, Becoming
<1>12. /\ ~Sure(c)' /\ Settling(c)' = Settling(c) /\ client'[c].minted = A!NoGuid
       /\ A!Synced(c)' = A!Synced(c) /\ (Settling(c) => A!Synced(c))
       /\ \A p \in Live(c) : p \in shared.claims \/ Settling(c)
  BY <1>4, <1>5, <1>6, <1>8 DEF Sure, Becoming, A!Synced, Settling, AdoptOK, LiveOK
<1> QED BY <1>1, <1>3, <1>4, <1>6, <1>9, <1>10, <1>11, <1>12, StillStep DEF Becoming

\* Adoption of a file whose record is known.
LEMMA AdoptsRecord ==
  ASSUME AdoptOK, NEW c \in Clients, NEW lost, A!Adopts(c, lost),
         client[c].minted = A!NoGuid, A!Record(c) # A!NoGuid,
         client[c].adopt # "idle" => \A p \in Live(c) : p \in shared.claims,
         shared' = shared, trashed' = trashed
  PROVE  AdoptOK'
<1>1. /\ AdoptTypes /\ RecordsOK /\ client[c] \in AdoptStates /\ replica[c] \in Documents
      /\ shared' \in Documents
  BY DEF AdoptOK, AdoptTypes
<1>2. A!Guid(c) = A!Record(c) /\ A!Record(c) \in A!Guids /\ A!Tracks(c)
  BY <1>1, RecordTyped DEF A!Tracks, A!Guid
<1> DEFINE cl == [client[c] EXCEPT !.startup = "done", !.adopt = "idle", !.scan = TRUE]
           dl == A!Wrapped(cl, A!Record(c))
<1>3. /\ cl \in AdoptStates /\ cl.startup = "done" /\ cl.adopt = "idle"
      /\ cl.wrappers = client[c].wrappers /\ cl.boots = client[c].boots
      /\ cl.session = client[c].session /\ cl.synced = client[c].synced
      /\ cl.tree = client[c].tree /\ cl.create = client[c].create
      /\ cl.minted = client[c].minted /\ cl.mints = client[c].mints
      /\ cl.trash = client[c].trash
  BY <1>1 DEF AdoptStates
<1>4. A!Becomes(c, dl, replica[c])
  BY <1>2 DEF A!Adopts
<1> HIDE DEF cl
<1>5. /\ dl \in AdoptStates /\ dl.startup = "done" /\ dl.adopt = "idle"
      /\ dl.wrappers = client[c].wrappers \cup {A!Record(c)}
      /\ dl.boots \subseteq client[c].boots \cup {A!Record(c)}
      /\ dl.session = client[c].session /\ dl.synced = client[c].synced
      /\ dl.tree = client[c].tree /\ dl.create = client[c].create
      /\ dl.minted = client[c].minted /\ dl.mints = client[c].mints
      /\ dl.trash = client[c].trash
  <2>1. /\ dl \in AdoptStates /\ dl.startup = cl.startup /\ dl.adopt = cl.adopt
        /\ dl.wrappers = cl.wrappers \cup {A!Record(c)}
        /\ dl.boots = IF A!Record(c) \in cl.wrappers THEN cl.boots ELSE cl.boots \cup {A!Record(c)}
        /\ dl.session = cl.session /\ dl.synced = cl.synced
        /\ dl.tree = cl.tree /\ dl.create = cl.create
        /\ dl.minted = cl.minted /\ dl.mints = cl.mints
        /\ dl.trash = cl.trash
    BY <1>2, <1>3, WrappedIs
  <2> QED BY <2>1, <1>2, <1>3
<1> HIDE DEF dl
<1>6. Step(c) /\ Becoming(c, dl, replica[c])
  BY <1>1, <1>4, <1>5, BecomesIs
<1>7. Settling(c)' => Settling(c)
  BY <1>5, <1>6 DEF Becoming, Settling
<1>8. \A p \in Live(c) : p \in shared.claims \/ Settling(c)'
  <2>1. client[c].adopt = "idle" => Settling(c)' = Settling(c)
    BY <1>5, <1>6 DEF Becoming, Settling
  <2> QED BY <2>1 DEF AdoptOK, LiveOK
<1> QED BY <1>5, <1>6, <1>7, <1>8, WrapStep DEF Becoming

LEMMA AdoptLocalFilesStep ==
  ASSUME AdoptOK, NEW c \in Clients, NEW allowMint, NEW stale, A!AdoptLocalFiles(c, allowMint, stale),
         claimless' = {}
  PROVE  AdoptOK'
<1>1. /\ AdoptTypes /\ RecordsOK /\ client[c] \in AdoptStates /\ replica[c] \in Documents
      /\ shared' \in Documents /\ shared' = shared /\ trashed' = trashed
      /\ client[c].adopt = "idle"
  BY DEF AdoptOK, AdoptTypes, A!AdoptLocalFiles
<1> DEFINE started == [client[c] EXCEPT !.startup = "done"]
           dl == [started EXCEPT !.scan = TRUE]
<1>2. /\ started \in AdoptStates /\ Alike(started, client[c])
      /\ started.file = client[c].file /\ started.startup = "done"
  BY <1>1 DEF AdoptStates, Alike
<1>3. CASE /\ A!Becomes(c, dl, replica[c])
           /\ A!Falls(c, A!When(client[c].file # "none", "deferred"))
  <2>1. client[c].file = "none"
    BY <1>3, NoneFalls, WhenIs
  <2>2. client[c].minted = A!NoGuid
    BY <2>1 DEF AdoptOK, GuidsOK
  <2>3. client[c].mints <= client[c].mints
    BY <1>1, StateIs
  <2>4. /\ dl \in AdoptStates /\ dl.create = client[c].create /\ dl.minted = client[c].minted
        /\ dl.session = client[c].session /\ dl.synced = client[c].synced /\ dl.tree = client[c].tree
        /\ dl.mints = client[c].mints /\ dl.wrappers = client[c].wrappers
        /\ dl.boots = client[c].boots /\ dl.adopt = client[c].adopt /\ dl.trash = client[c].trash
        /\ dl.file = client[c].file /\ dl.startup = "done"
    BY <1>1 DEF AdoptStates
  <2> HIDE DEF dl
  <2>5. Step(c) /\ Becoming(c, dl, replica[c])
    BY <1>1, <1>3, <2>4, BecomesIs
  <2>6. A!Record(c)' = A!Record(c)
    BY <1>1, <2>3, <2>4, <2>5, SameRecords DEF Becoming
  <2>7. GuidsOK(c)'
    <3>1. GuidsOK(c)
      BY DEF AdoptOK
    <3> QED BY <2>2, <2>4, <2>5, <3>1 DEF GuidsOK, Becoming
  <2>8. TrashOK(c)'
    BY <2>4, <2>5, <2>6 DEF AdoptOK, TrashOK, Becoming, A!MintedBy
  <2>9. FileOK(c)'
    BY <2>1, <2>4, <2>5 DEF FileOK, Becoming
  <2>10. /\ ~Sure(c)' /\ Settling(c)' = Settling(c) /\ client'[c].minted = A!NoGuid
         /\ A!Synced(c)' = A!Synced(c) /\ (Settling(c) => A!Synced(c))
         /\ \A p \in Live(c) : p \in shared.claims \/ Settling(c)
    BY <2>2, <2>4, <2>5 DEF Sure, Becoming, A!Synced, Settling, AdoptOK, LiveOK
  <2> QED BY <1>1, <2>3, <2>4, <2>5, <2>7, <2>8, <2>9, <2>10, StillStep DEF Becoming
<1>4. CASE /\ A!Tracks(c) /\ A!Adopts(c, FALSE)
           /\ A!Falls(c, A!When(client[c].minted # A!NoGuid, "unclaimed"))
  <2>1. client[c].minted = A!NoGuid
    BY <1>4, NoneFalls, WhenIs
  <2>2. A!Record(c) # A!NoGuid
    BY <1>4, <2>1 DEF A!Tracks, A!Guid
  <2> QED BY <1>1, <1>4, <2>1, <2>2, AdoptsRecord
<1>5. CASE client[c].file # "none" /\ ~A!Tracks(c) /\ A!MintAndClaim(c, started, "adopt", stale)
  <2> HIDE DEF started
  <2> QED BY <1>1, <1>2, <1>5, MintAndClaimStep
<1> QED BY <1>3, <1>4, <1>5 DEF A!AdoptLocalFiles

LEMMA AdoptDecidesStep ==
  ASSUME AdoptOK, NEW c \in Clients, A!AdoptDecides(c), claimless' = {}
  PROVE  AdoptOK'
<1>1. /\ AdoptTypes /\ RecordsOK /\ client[c] \in AdoptStates /\ replica[c] \in Documents
      /\ shared' \in Documents /\ shared' = shared /\ trashed' = trashed
  BY DEF AdoptOK, AdoptTypes, A!AdoptDecides
<1>2. Settling(c) /\ A!Settled(c) /\ client[c].adopt = "settling"
  BY DEF A!AdoptDecides, Settling
<1>3. A!Mine(c)
  <2>1. A!When(~A!Mine(c), "adoption lost") = {}
    BY NoneFalls DEF A!AdoptDecides
  <2> QED BY <2>1, WhenIs
<1>4. /\ Quiets(c) /\ Alone(c) /\ ClaimsSeen
      /\ client[c].minted # A!NoGuid => A!Record(c) = A!NoGuid
      /\ \A p \in Live(c) : p \in shared.claims
  BY <1>2, <1>3, WinnerPublishes
<1>5. A!Synced(c) /\ client[c].startup = "done"
  BY <1>2, SettledLive DEF AdoptOK, GuidsOK
<1>6. A!Adopts(c, ~A!Mine(c))
  BY DEF A!AdoptDecides
<1>7. CASE ~A!Tracks(c)
  <2> DEFINE dl == [client[c] EXCEPT !.startup = "done", !.adopt = "idle"]
  <2>1. client[c].minted = A!NoGuid
    BY <1>7 DEF A!Tracks, A!Guid
  <2>2. client[c].mints <= client[c].mints
    BY <1>1, StateIs
  <2>3. /\ dl \in AdoptStates /\ dl.adopt = "idle" /\ dl.startup = "done"
        /\ dl.session = client[c].session /\ dl.synced = client[c].synced /\ dl.tree = client[c].tree
        /\ dl.minted = client[c].minted /\ dl.mints = client[c].mints /\ dl.wrappers = client[c].wrappers
        /\ dl.boots = client[c].boots /\ dl.create = client[c].create /\ dl.trash = client[c].trash
        /\ dl.file = client[c].file /\ dl.scan = client[c].scan
    BY <1>1 DEF AdoptStates
  <2>4. A!Becomes(c, dl, replica[c])
    BY <1>6, <1>7 DEF A!Adopts
  <2> HIDE DEF dl
  <2>5. Step(c) /\ Becoming(c, dl, replica[c])
    BY <1>1, <2>3, <2>4, BecomesIs
  <2>6. A!Record(c)' = A!Record(c)
    BY <1>1, <2>2, <2>3, <2>5, SameRecords DEF Becoming
  <2>7. GuidsOK(c)' /\ TrashOK(c)' /\ FileOK(c)'
    <3>1. GuidsOK(c) /\ TrashOK(c) /\ FileOK(c)
      BY DEF AdoptOK
    <3>2. GuidsOK(c)'
      BY <2>1, <2>3, <2>5, <3>1 DEF GuidsOK, Becoming
    <3>3. TrashOK(c)'
      BY <2>3, <2>5, <2>6, <3>1 DEF TrashOK, Becoming, A!MintedBy
    <3>4. FileOK(c)'
      BY <1>5, <2>3, <2>5, <2>6, <3>1 DEF FileOK, Becoming
    <3> QED BY <3>2, <3>3, <3>4
  <2>8. ~Sure(c)' /\ (Settling(c)' => A!Synced(c)') /\ client'[c].minted = A!NoGuid
        /\ (A!Synced(c)' => A!Synced(c))
    BY <1>5, <2>1, <2>3, <2>5 DEF Sure, Becoming, A!Synced
  <2> QED BY <1>1, <1>2, <1>4, <2>2, <2>3, <2>5, <2>7, <2>8, StillStep DEF Becoming
<1>8. CASE A!Tracks(c) /\ client[c].minted = A!NoGuid
  <2>1. A!Record(c) # A!NoGuid
    BY <1>8 DEF A!Tracks, A!Guid
  <2> QED BY <1>1, <1>4, <1>6, <1>8, <2>1, AdoptsRecord
<1>9. CASE client[c].minted # A!NoGuid
  <2> DEFINE g == client[c].minted
             cl == [client[c] EXCEPT !.startup = "done", !.adopt = "idle", !.scan = TRUE]
             wl == A!Wrapped(cl, g)
             dl == [wl EXCEPT !.minted = A!NoGuid]
             r == A!Put(c, g)
  <2>1. A!Guid(c) = g /\ A!Record(c) = A!NoGuid /\ g \in A!Guids /\ A!Tracks(c)
    BY <1>1, <1>4, <1>9, StateIs DEF A!Guid, A!Tracks
  <2>2. /\ cl \in AdoptStates /\ cl.startup = "done" /\ cl.adopt = "idle"
        /\ cl.wrappers = client[c].wrappers /\ cl.boots = client[c].boots
        /\ cl.session = client[c].session /\ cl.synced = client[c].synced
        /\ cl.tree = client[c].tree /\ cl.create = client[c].create
        /\ cl.mints = client[c].mints /\ cl.trash = client[c].trash
    BY <1>1 DEF AdoptStates
  <2>3. A!Becomes(c, dl, r)
    BY <1>3, <1>6, <2>1 DEF A!Adopts
  <2>4. r \in Documents
    BY <1>1, <1>4, <2>1, PutTyped DEF AdoptOK
  <2> HIDE DEF cl
  <2>5. /\ wl \in AdoptStates /\ wl.startup = "done" /\ wl.adopt = "idle"
        /\ wl.wrappers = client[c].wrappers \cup {g}
        /\ wl.boots \subseteq client[c].boots \cup {g}
        /\ wl.session = client[c].session /\ wl.synced = client[c].synced
        /\ wl.tree = client[c].tree /\ wl.create = client[c].create
        /\ wl.mints = client[c].mints /\ wl.trash = client[c].trash
    <3>1. /\ wl \in AdoptStates /\ wl.startup = cl.startup /\ wl.adopt = cl.adopt
          /\ wl.wrappers = cl.wrappers \cup {g}
          /\ wl.boots = IF g \in cl.wrappers THEN cl.boots ELSE cl.boots \cup {g}
          /\ wl.session = cl.session /\ wl.synced = cl.synced
          /\ wl.tree = cl.tree /\ wl.create = cl.create
          /\ wl.minted = cl.minted /\ wl.mints = cl.mints
          /\ wl.trash = cl.trash
      BY <2>1, <2>2, WrappedIs
    <3> QED BY <3>1, <2>1, <2>2
  <2> HIDE DEF wl
  <2>6. /\ dl \in AdoptStates /\ dl.startup = "done" /\ dl.adopt = "idle"
        /\ dl.wrappers = client[c].wrappers \cup {g}
        /\ dl.boots \subseteq client[c].boots \cup {g}
        /\ dl.session = client[c].session /\ dl.synced = client[c].synced
        /\ dl.tree = client[c].tree /\ dl.create = client[c].create
        /\ dl.mints = client[c].mints /\ dl.trash = client[c].trash /\ dl.minted = A!NoGuid
    BY <2>5 DEF AdoptStates
  <2> HIDE DEF dl, r
  <2>7. Step(c) /\ Becoming(c, dl, r)
    BY <1>1, <2>3, <2>4, <2>6, BecomesIs
  <2>8. client[c].boots \subseteq client[c].wrappers
    BY DEF AdoptOK, GuidsOK
  <2>9. /\ replica'[c] = A!Put(c, client[c].minted)
        /\ client'[c].session = client[c].session /\ client'[c].mints = client[c].mints
        /\ client'[c].minted = A!NoGuid
        /\ client'[c].wrappers = client[c].wrappers \cup {client[c].minted}
        /\ client'[c].boots \subseteq client'[c].wrappers
        /\ client'[c].trash = client[c].trash /\ client'[c].tree = client[c].tree
        /\ client'[c].synced = client[c].synced
        /\ client'[c].adopt # "idle" => client'[c].startup = "done"
        /\ Settling(c)' => Settling(c)
    BY <1>2, <2>6, <2>7, <2>8 DEF Becoming, r, Settling
  <2> QED BY <1>1, <1>4, <1>9, <2>1, <2>7, <2>9, PutStep
<1> QED BY <1>7, <1>8, <1>9

LEMMA BootstrappedStep ==
  ASSUME AdoptOK, NEW c \in Clients, NEW g \in client[c].boots, A!Bootstrapped(c, g), claimless' = {}
  PROVE  AdoptOK'
<1>1. /\ AdoptTypes /\ RecordsOK /\ client[c] \in AdoptStates /\ replica[c] \in Documents
      /\ shared' \in Documents /\ shared' = shared /\ trashed' = trashed
  BY DEF AdoptOK, AdoptTypes, A!Bootstrapped
<1>2. g \in A!Guids /\ g # A!NoGuid /\ g \in client[c].wrappers /\ client[c].mints <= client[c].mints
  <2>1. g \in A!Guids
    BY <1>1, StateIs
  <2> QED BY <1>1, <2>1, StateIs, AdoptGiven DEF AdoptOK, GuidsOK
<1> DEFINE m == IF A!Record(c) = g THEN client[c].minted ELSE A!NoGuid
           f == IF A!Synced(c) THEN "shared" ELSE client[c].file
           b == client[c].boots \ {g}
           a == client[c].acked \cup {g}
           dl == [client[c] EXCEPT !.boots = b, !.acked = a, !.minted = m, !.file = f]
           r == A!Put(c, g)
<1>3. m \in A!Guids \cup {A!NoGuid} /\ f \in A!Files /\ b \in SUBSET A!Guids /\ a \in SUBSET A!Guids
  BY <1>1, <1>2, StateIs DEF A!Files
<1>4. A!Becomes(c, dl, r)
  BY DEF A!Bootstrapped
<1>5. r \in Documents
  BY <1>1, <1>2, PutTyped
<1>6. A!Record(c) # g => client[c].minted = g
  <2>1. A!When(A!Record(c) # g /\ client[c].minted # g, "stale wrapper") = {}
    BY NoneFalls DEF A!Bootstrapped
  <2> QED BY <2>1, WhenIs
<1> HIDE DEF m, f, b, a
<1>7. /\ dl \in AdoptStates /\ dl.boots = b /\ dl.minted = m /\ dl.file = f
      /\ dl.session = client[c].session /\ dl.synced = client[c].synced /\ dl.tree = client[c].tree
      /\ dl.mints = client[c].mints /\ dl.wrappers = client[c].wrappers
      /\ dl.create = client[c].create /\ dl.adopt = client[c].adopt /\ dl.trash = client[c].trash
      /\ dl.startup = client[c].startup
  BY <1>1, <1>3 DEF AdoptStates
<1> HIDE DEF dl, r
<1>8. Step(c) /\ Becoming(c, dl, r)
  BY <1>1, <1>4, <1>5, <1>7, BecomesIs
<1>9. /\ Settling(c)' = Settling(c) /\ A!Synced(c)' = A!Synced(c)
      /\ Settling(c) => A!Synced(c)
      /\ \A p \in Live(c) : p \in shared.claims \/ Settling(c)
      /\ GuidsOK(c) /\ TrashOK(c) /\ FileOK(c)
  BY <1>7, <1>8 DEF Settling, A!Synced, Becoming, AdoptOK, LiveOK
<1>10. CASE A!Record(c) = g
  <2>1. r = replica[c] /\ m = client[c].minted
    BY <1>10 DEF r, m, A!Put
  <2>2. ~Sure(c) /\ ~Sure(c)'
    <3>1. ~Sure(c)
      BY <1>2, <1>10 DEF AdoptOK, SureOK
    <3> QED BY <1>7, <1>8, <2>1, <3>1 DEF Sure, Becoming
  <2>3. A!Record(c)' = A!Record(c)
    BY <1>1, <1>2, <1>7, <1>8, <2>1, SameRecords DEF Becoming
  <2>4. GuidsOK(c)'
    <3>1. client[c].minted # A!NoGuid => client[c].minted \notin client[c].boots
      BY <1>9, <2>2 DEF GuidsOK, Sure
    <3>2. b \subseteq client[c].wrappers
      BY <1>9 DEF GuidsOK, b
    <3>3. client[c].file # "none" => f # "none"
      BY DEF f
    <3>4. client'[c].minted # A!NoGuid =>
            /\ client'[c].file # "none" /\ \E i \in 1..client'[c].mints : client'[c].minted = <<c, i>>
            /\ Settling(c)' \/ client'[c].startup = "waiting"
      BY <1>7, <1>8, <1>9, <2>1, <3>1, <3>3 DEF GuidsOK, Becoming
    <3> QED BY <1>7, <1>8, <1>9, <2>1, <3>2, <3>4 DEF GuidsOK, Becoming
  <2>5. TrashOK(c)'
    BY <1>7, <1>8, <1>9, <2>1, <2>3 DEF TrashOK, Becoming, A!MintedBy
  <2>6. FileOK(c)'
    BY <1>2, <1>7, <1>8, <1>10, <2>3 DEF FileOK, Becoming
  <2> QED BY <1>1, <1>2, <1>7, <1>8, <1>9, <2>1, <2>2, <2>4, <2>5, <2>6, StillStep DEF Becoming
<1>11. CASE A!Record(c) # g
  <2>1. client[c].minted = g /\ m = A!NoGuid /\ Sure(c)
    BY <1>2, <1>6, <1>11 DEF m, Sure
  <2>2. Quiets(c)
    BY <2>1, SureQuiets DEF AdoptOK
  <2>3. Alone(c) /\ A!Record(c) = A!NoGuid
    BY <2>1 DEF AdoptOK, SureOK
  <2>4. ClaimsSeen
    BY <2>1 DEF AdoptOK, ClaimKnown, ClaimsSeen
  <2>5. /\ replica'[c] = A!Put(c, client[c].minted)
        /\ client'[c].session = client[c].session /\ client'[c].mints = client[c].mints
        /\ client'[c].minted = A!NoGuid
        /\ client'[c].wrappers = client[c].wrappers \cup {client[c].minted}
        /\ client'[c].trash = client[c].trash /\ client'[c].tree = client[c].tree
        /\ client'[c].synced = client[c].synced
        /\ client'[c].adopt = client[c].adopt /\ client'[c].startup = client[c].startup
    BY <1>2, <1>7, <1>8, <2>1 DEF Becoming, r
  <2>6. client'[c].boots \subseteq client'[c].wrappers
    BY <1>7, <1>8, <1>9 DEF Becoming, b, GuidsOK
  <2>7. client'[c].adopt # "idle" => client'[c].startup = "done"
    BY <1>9, <2>5 DEF GuidsOK
  <2> QED BY <1>1, <1>2, <1>8, <1>9, <2>1, <2>2, <2>3, <2>4, <2>5, <2>6, <2>7, PutStep
<1> QED BY <1>10, <1>11

LEMMA ScanStep ==
  ASSUME AdoptOK, NEW c \in Clients, A!Scan(c), claimless' = {}
  PROVE  AdoptOK'
<1>1. /\ AdoptTypes /\ RecordsOK /\ client[c] \in AdoptStates /\ replica[c] \in Documents
      /\ shared' \in Documents /\ shared' = shared /\ trashed' = trashed
  BY DEF AdoptOK, AdoptTypes, A!Scan
<1>2. client[c].mints <= client[c].mints
  BY <1>1, StateIs
<1> DEFINE cl == [client[c] EXCEPT !.scan = FALSE]
           Pulls == client[c].file = "none" /\ A!Record(c) # A!NoGuid
           Prunes == A!Orphaned(c) /\ client[c].synced
           el == [cl EXCEPT !.trash = IF cl.wrappers = {} THEN "plain" ELSE "copied"]
           dl == IF Pulls THEN A!Wrapped(cl, A!Guid(c)) ELSE IF Prunes THEN el ELSE cl
<1>3. /\ cl \in AdoptStates /\ cl.scan = FALSE /\ cl.create = client[c].create /\ cl.minted = client[c].minted
      /\ cl.session = client[c].session /\ cl.synced = client[c].synced /\ cl.tree = client[c].tree
      /\ cl.mints = client[c].mints /\ cl.wrappers = client[c].wrappers
      /\ cl.boots = client[c].boots /\ cl.adopt = client[c].adopt /\ cl.trash = client[c].trash
      /\ cl.file = client[c].file /\ cl.startup = client[c].startup
  BY <1>1 DEF AdoptStates
<1>4. /\ client[c].startup = "done" /\ client[c].trash = "no"
      /\ A!Becomes(c, dl, replica[c])
  BY <1>3 DEF A!Scan
<1>5. /\ ~(Prunes /\ client[c].create = "waiting") /\ ~(A!Orphaned(c) /\ ~client[c].synced)
  <2>1. /\ A!When(A!Orphaned(c) /\ cl.synced /\ cl.create = "waiting", "pruned while waiting") = {}
        /\ A!When(A!Orphaned(c) /\ ~cl.synced, "prune skipped") = {}
    BY NoneFalls DEF A!Scan
  <2> QED BY <1>3, <2>1, WhenIs
<1>6. /\ Settling(c) => A!Synced(c)
      /\ \A p \in Live(c) : p \in shared.claims \/ Settling(c)
      /\ GuidsOK(c) /\ TrashOK(c) /\ FileOK(c) /\ SureOK(c)
  BY DEF AdoptOK, LiveOK
<1>7. CASE Pulls
  <2>1. client[c].minted = A!NoGuid
    BY <1>6, <1>7 DEF GuidsOK
  <2>2. A!Guid(c) = A!Record(c) /\ A!Record(c) # A!NoGuid /\ A!Record(c) \in A!Guids
    BY <1>1, <1>7, <2>1, RecordTyped DEF A!Guid
  <2> DEFINE wl == A!Wrapped(cl, A!Record(c))
  <2>3. A!Becomes(c, wl, replica[c])
    BY <1>4, <1>7, <2>2
  <2> HIDE DEF cl
  <2>4. /\ wl \in AdoptStates
        /\ wl.wrappers = cl.wrappers \cup {A!Record(c)}
        /\ wl.boots \subseteq cl.boots \cup {A!Record(c)}
        /\ wl.session = cl.session /\ wl.synced = cl.synced
        /\ wl.tree = cl.tree /\ wl.startup = cl.startup
        /\ wl.minted = cl.minted /\ wl.mints = cl.mints
        /\ wl.create = cl.create /\ wl.adopt = cl.adopt /\ wl.trash = cl.trash
    BY <1>3, <2>2, WrappedIs
  <2> HIDE DEF wl
  <2>5. Step(c) /\ Becoming(c, wl, replica[c])
    BY <1>1, <2>3, <2>4, BecomesIs
  <2>6. Settling(c)' = Settling(c)
    BY <1>3, <2>4, <2>5 DEF Becoming, Settling
  <2>7. client[c].adopt # "idle" => client[c].startup = "done"
    BY <1>6 DEF GuidsOK
  <2> QED BY <1>1, <1>3, <1>6, <2>1, <2>2, <2>4, <2>5, <2>6, <2>7, WrapStep DEF Becoming
<1>8. CASE ~Pulls
  <2> DEFINE tl == IF Prunes THEN el ELSE cl
  <2>1. A!Becomes(c, tl, replica[c])
    BY <1>4, <1>8
  <2>2. Prunes => client[c].wrappers # {} /\ client[c].minted = A!NoGuid /\ A!Record(c) = A!NoGuid
    BY <1>4, <1>5, <1>6 DEF A!Orphaned, FileOK
  <2>3. /\ tl \in AdoptStates /\ tl.create = client[c].create /\ tl.minted = client[c].minted
        /\ tl.session = client[c].session /\ tl.synced = client[c].synced /\ tl.tree = client[c].tree
        /\ tl.mints = client[c].mints /\ tl.wrappers = client[c].wrappers
        /\ tl.boots = client[c].boots /\ tl.adopt = client[c].adopt
        /\ tl.file = client[c].file /\ tl.startup = client[c].startup
        /\ tl.trash = IF Prunes THEN "copied" ELSE client[c].trash
    <3>1. CASE Prunes
      <4>1. el = [cl EXCEPT !.trash = "copied"]
        BY <1>3, <2>2, <3>1
      <4> HIDE DEF cl, el
      <4>2. /\ el \in AdoptStates /\ el.create = cl.create /\ el.minted = cl.minted
            /\ el.session = cl.session /\ el.synced = cl.synced /\ el.tree = cl.tree
            /\ el.mints = cl.mints /\ el.wrappers = cl.wrappers
            /\ el.boots = cl.boots /\ el.adopt = cl.adopt
            /\ el.file = cl.file /\ el.startup = cl.startup /\ el.trash = "copied"
        BY <1>3, <4>1 DEF AdoptStates
      <4> QED BY <1>3, <3>1, <4>2
    <3>2. CASE ~Prunes
      BY <1>3, <3>2
    <3> QED BY <3>1, <3>2
  <2> HIDE DEF tl
  <2>4. Step(c) /\ Becoming(c, tl, replica[c])
    BY <1>1, <2>1, <2>3, BecomesIs
  <2>5. A!Record(c)' = A!Record(c)
    BY <1>1, <1>2, <2>3, <2>4, SameRecords DEF Becoming
  <2>6. /\ Settling(c)' = Settling(c) /\ A!Synced(c)' = A!Synced(c) /\ Sure(c)' = Sure(c)
    BY <2>3, <2>4 DEF Becoming, Settling, A!Synced, Sure
  <2>7. GuidsOK(c)'
    BY <1>6, <2>3, <2>4, <2>6 DEF GuidsOK, Becoming
  <2>8. TrashOK(c)'
    <3>1. CASE Prunes
      <4>1. PICK h \in client[c].wrappers : TRUE
        BY <2>2, <3>1
      <4>2. h # client[c].minted
        BY <1>1, <2>2, <3>1, StateIs, AdoptGiven
      <4>3. PICK q \in replica[c].records : A!Last(q).guid = h
        BY <1>6, <4>2 DEF GuidsOK
      <4>4. replica[c].records \subseteq replica[c].gone
        <5>1. AllRecords \in SUBSET RecordSeqs
          BY <1>1 DEF AllRecords, AdoptTypes, Documents
        <5> QED BY <1>1, <2>2, <3>1, <5>1, RecordIs DEF RecordsOK, A!Record
      <4> QED BY <2>2, <2>3, <2>4, <2>5, <3>1, <4>3, <4>4 DEF TrashOK, Becoming
    <3>2. CASE ~Prunes
      BY <1>4, <2>3, <2>4, <3>2 DEF TrashOK, Becoming
    <3> QED BY <3>1, <3>2
  <2>9. FileOK(c)'
    <3>1. CASE Prunes
      BY <2>2, <2>3, <2>4, <2>5, <3>1 DEF FileOK, Becoming
    <3>2. CASE ~Prunes
      <4>1. client[c].file # "none" /\ client[c].minted = A!NoGuid => A!Record(c) # A!NoGuid
        BY <1>5, <3>2 DEF A!Orphaned
      <4> QED BY <1>6, <2>3, <2>4, <2>5, <4>1 DEF FileOK, Becoming
    <3> QED BY <3>1, <3>2
  <2>10. Sure(c)' => /\ Sure(c) /\ client'[c].minted \in client'[c].boots
                     /\ client'[c].create # "settling"
    BY <1>6, <2>3, <2>4, <2>6 DEF SureOK, Becoming
  <2> QED BY <1>1, <1>2, <1>6, <2>3, <2>4, <2>6, <2>7, <2>8, <2>9, <2>10, StillStep DEF Becoming
<1> QED BY <1>7, <1>8

LEMMA CalmStep ==
  ASSUME AdoptOK, NEW c \in Clients, Step(c), Calm(c), ClaimsOK', RecordsOK',
         GuidsOK(c)', TrashOK(c)', FileOK(c)', trashed' = {}
  PROVE  AdoptOK'
<1>1. ClaimKnown' /\ LiveOK(c)' /\ SureOK(c)' /\ \A d \in Clients \ {c} : OwnOK(d)'
  <2>1. ClaimKnown /\ \A d \in Clients : OwnOK(d)
    BY DEF AdoptOK, OwnOK
  <2> QED BY <2>1, CalmKept
<1>2. \A d \in Clients : OwnOK(d)'
  BY <1>1 DEF OwnOK
<1>3. AdoptTypes'
  BY DEF Step
<1> QED BY <1>1, <1>2, <1>3 DEF AdoptOK, OwnOK

\* The file is gone, and with it the record.
LEMMA RemovedStep ==
  ASSUME AdoptOK, NEW c \in Clients, A!Becomes(c, A!Removed(client[c]), A!Deleted(replica[c])),
         shared' = shared, trashed' = {}
  PROVE  AdoptOK'
<1>1. /\ AdoptTypes /\ RecordsOK /\ client[c] \in AdoptStates /\ replica[c] \in Documents
      /\ shared' \in Documents /\ AllRecords \in SUBSET RecordSeqs
  BY DEF AdoptOK, AdoptTypes, AllRecords, Documents
<1> DEFINE dl == A!Removed(client[c])
           r == A!Deleted(replica[c])
<1>2. /\ dl \in AdoptStates
      /\ dl.file = "none" /\ dl.minted = A!NoGuid /\ dl.trash = "no"
      /\ dl.wrappers = {} /\ dl.boots = {}
      /\ dl.session = client[c].session /\ dl.synced = client[c].synced /\ dl.mints = client[c].mints
      /\ dl.tree = client[c].tree /\ dl.startup = client[c].startup
      /\ dl.create = client[c].create /\ dl.adopt = client[c].adopt
  BY <1>1, RemovedIs
<1>3. /\ r \in Documents /\ Follows(r, AllRecords) /\ A!RecordIn(r) = A!NoGuid
      /\ r.claims = replica[c].claims /\ r.records = replica[c].records
  BY <1>1, DeletedIs DEF RecordsOK
<1> HIDE DEF dl, r
<1>4. Step(c) /\ Becoming(c, dl, r)
  BY <1>1, <1>2, <1>3, BecomesIs DEF dl, r
<1>5. /\ replica'[c] = r /\ client'[c].file = "none" /\ client'[c].minted = A!NoGuid
      /\ client'[c].trash = "no" /\ client'[c].wrappers = {} /\ client'[c].boots = {}
      /\ client'[c].session = client[c].session /\ client'[c].synced = client[c].synced
      /\ client'[c].mints = client[c].mints
      /\ client'[c].tree = client[c].tree /\ client'[c].startup = client[c].startup
      /\ client'[c].create = client[c].create /\ client'[c].adopt = client[c].adopt
  BY <1>2, <1>4 DEF Becoming
<1>6. ClaimsOK' /\ Live(c)' = Live(c)
  BY <1>3, <1>4, <1>5, SameClaims DEF AdoptOK
<1>7. RecordsOK'
  <2>1. HasTop(shared'.records) /\ HasTop(replica'[c].records) /\ Follows(shared', AllRecords)
    BY <1>3, <1>5 DEF AdoptOK, RecordsOK
  <2>2. client[c].mints <= client'[c].mints
    BY <1>1, <1>5, StateIs
  <2> QED BY <1>1, <1>3, <1>4, <1>5, <2>1, <2>2, RecordsKept
<1>8. A!Record(c)' = A!NoGuid
  <2>1. A!Record(c)' = A!RecordIn(replica'[c])
    BY DEF A!Record, A!RecordIn, A!Top
  <2> QED BY <1>3, <1>5, <2>1
<1>9. Calm(c)
  <2>1. /\ ~Sure(c)' /\ Settling(c)' = Settling(c) /\ A!Synced(c)' = A!Synced(c)
        /\ Settling(c) => A!Synced(c)
        /\ \A p \in Live(c) : p \in shared.claims \/ Settling(c)
    BY <1>5 DEF Sure, Settling, A!Synced, AdoptOK, LiveOK
  <2> QED BY <1>3, <1>5, <1>6, <1>8, <2>1 DEF Calm, AllRecords
<1>10. GuidsOK(c)'
  BY <1>5 DEF AdoptOK, GuidsOK
<1>11. TrashOK(c)' /\ FileOK(c)'
  BY <1>5 DEF TrashOK, FileOK
<1> QED BY <1>4, <1>6, <1>7, <1>9, <1>10, <1>11, CalmStep

LEMMA TrashStep ==
  ASSUME AdoptOK, NEW c \in Clients, A!Trash(c), claimless' = {}
  PROVE  AdoptOK'
<1>1. client[c].trash = "copied" /\ A!Record(c) \in {A!NoGuid} \cup A!MintedBy(c)
  BY DEF A!Trash, AdoptOK, TrashOK
<1>2. /\ A!When(client[c].file = "own" /\ client[c].trash = "plain", "unshared file") = {}
      /\ A!When(A!Record(c) \notin {A!NoGuid} \cup A!MintedBy(c), "another's record") = {}
  BY <1>1 DEF A!When
<1>3. trashed' = trashed \cup ({c} \X ({} \cup {}))
  BY <1>2 DEF A!Trash
<1>4. trashed' = {}
  BY <1>3 DEF AdoptOK
<1>5. A!Becomes(c, A!Removed(client[c]), A!Deleted(replica[c])) /\ shared' = shared
  BY DEF A!Trash
<1> QED BY <1>4, <1>5, RemovedStep

LEMMA FileDeletedStep ==
  ASSUME AdoptOK, NEW c \in Clients, A!FileDeleted(c), claimless' = {}
  PROVE  AdoptOK'
<1>1. /\ A!Becomes(c, A!Removed(client[c]), A!Deleted(replica[c]))
      /\ shared' = shared /\ trashed' = {}
  BY DEF A!FileDeleted, AdoptOK
<1> QED BY <1>1, RemovedStep

LEMMA DropStep ==
  ASSUME AdoptOK, NEW c \in Clients, A!Drop(c), claimless' = {}
  PROVE  AdoptOK'
<1>1. /\ AdoptTypes /\ RecordsOK /\ client[c] \in AdoptStates
      /\ shared' \in Documents /\ shared' = shared /\ trashed' = trashed /\ replica' = replica
  BY DEF AdoptOK, AdoptTypes, A!Drop
<1>2. client[c].mints <= client[c].mints
  BY <1>1, StateIs
<1>3. ~Settling(c)
  <2>1. A!When("settling" \in {client[c].create, client[c].adopt}, "no connection") = {}
    BY NoneFalls DEF A!Drop
  <2> QED BY <2>1, WhenIs DEF Settling
<1> DEFINE dl == [client[c] EXCEPT !.synced = FALSE]
<1>4. /\ dl \in AdoptStates /\ dl.synced = FALSE
      /\ dl.session = client[c].session /\ dl.tree = client[c].tree /\ dl.minted = client[c].minted
      /\ dl.mints = client[c].mints /\ dl.wrappers = client[c].wrappers
      /\ dl.boots = client[c].boots /\ dl.adopt = client[c].adopt /\ dl.trash = client[c].trash
      /\ dl.create = client[c].create /\ dl.scan = client[c].scan
      /\ dl.file = client[c].file /\ dl.startup = client[c].startup
  BY <1>1 DEF AdoptStates
<1>5. client' = [client EXCEPT ![c] = dl]
  BY DEF A!Drop
<1> HIDE DEF dl
<1>6. /\ client'[c] = dl /\ client' \in [Clients -> AdoptStates]
      /\ \A d \in Clients \ {c} : client'[d] = client[d]
  BY <1>1, <1>4, <1>5 DEF AdoptTypes
<1>7. Step(c)
  BY <1>1, <1>6 DEF Step, AdoptTypes
<1>8. A!Record(c)' = A!Record(c)
  BY <1>1 DEF A!Record, A!RecordIn, A!Top
<1>9. /\ ~Settling(c)' /\ Sure(c)' = Sure(c) /\ ~A!Synced(c)'
  BY <1>3, <1>4, <1>6 DEF Settling, Sure, A!Synced
<1>10. GuidsOK(c)' /\ TrashOK(c)' /\ FileOK(c)'
  <2>1. GuidsOK(c) /\ TrashOK(c) /\ FileOK(c)
    BY DEF AdoptOK
  <2>2. GuidsOK(c)'
    BY <1>1, <1>3, <1>4, <1>6, <2>1 DEF GuidsOK
  <2>3. TrashOK(c)'
    BY <1>1, <1>4, <1>6, <1>8, <2>1 DEF TrashOK, A!MintedBy
  <2>4. FileOK(c)'
    BY <1>4, <1>6, <1>8, <2>1 DEF FileOK
  <2> QED BY <2>2, <2>3, <2>4
<1>11. Sure(c)' => /\ Sure(c) /\ client'[c].minted \in client'[c].boots
                   /\ client'[c].create # "settling"
  BY <1>4, <1>6, <1>9 DEF AdoptOK, SureOK
<1>12. \A p \in Live(c) : p \in shared.claims
  BY <1>3 DEF AdoptOK, LiveOK
<1> QED BY <1>1, <1>2, <1>4, <1>6, <1>7, <1>9, <1>10, <1>11, <1>12, StillStep

-----------------------------------------------------------------------------
(* What the client hears of.                                                 *)

LEMMA MergeStep ==
  ASSUME AdoptOK, NEW c \in Clients, Step(c), NEW r, r = A!Merged(replica[c], shared),
         Becoming(c, [client[c] EXCEPT !.synced = TRUE, !.tree = TRUE], r),
         shared' = shared \/ shared' = r,
         A!Overtaken(c, r) = {}, trashed' = trashed
  PROVE  AdoptOK'
<1>1. /\ AdoptTypes /\ ClaimsOK /\ RecordsOK /\ client[c] \in AdoptStates /\ replica[c] \in Documents
      /\ shared \in Documents /\ AllRecords \in SUBSET RecordSeqs
  BY DEF AdoptOK, AdoptTypes, AllRecords, Documents
<1>2. /\ replica'[c] = r /\ client'[c].synced /\ client'[c].tree
      /\ client'[c].session = client[c].session /\ client'[c].startup = client[c].startup
      /\ client'[c].file = client[c].file /\ client'[c].minted = client[c].minted
      /\ client'[c].mints = client[c].mints /\ client'[c].wrappers = client[c].wrappers
      /\ client'[c].boots = client[c].boots /\ client'[c].create = client[c].create
      /\ client'[c].adopt = client[c].adopt /\ client'[c].trash = client[c].trash
      /\ client'[c].scan = (client[c].scan \/ A!RecordIn(r) # A!Record(c))
  <2> DEFINE dl == [client[c] EXCEPT !.synced = TRUE, !.tree = TRUE]
  <2>1. /\ dl.synced = TRUE /\ dl.tree = TRUE /\ dl.scan = client[c].scan
        /\ dl.session = client[c].session /\ dl.startup = client[c].startup
        /\ dl.file = client[c].file /\ dl.minted = client[c].minted
        /\ dl.mints = client[c].mints /\ dl.wrappers = client[c].wrappers
        /\ dl.boots = client[c].boots /\ dl.create = client[c].create
        /\ dl.adopt = client[c].adopt /\ dl.trash = client[c].trash
    BY <1>1 DEF AdoptStates
  <2> HIDE DEF dl
  <2>2. Becoming(c, dl, r)
    BY DEF dl
  <2> QED BY <2>1, <2>2 DEF Becoming
<1>3. /\ r \in Documents /\ Follows(r, AllRecords) /\ HasTop(r.records) /\ HasTop(r.claims)
      /\ r.claims = replica[c].claims \cup shared.claims
      /\ r.records = replica[c].records \cup shared.records
      /\ r.gone = replica[c].gone \cup shared.gone
      /\ A!Record(c) = A!NoGuid /\ shared.records \subseteq replica[c].records => A!RecordIn(r) = A!NoGuid
  BY <1>1, MergedIs DEF RecordsOK, ClaimsOK, A!Record
<1>4. A!Record(c)' = A!RecordIn(r)
  BY <1>2 DEF A!Record, A!RecordIn, A!Top
<1>5. client[c].session <= client'[c].session /\ client[c].mints <= client'[c].mints
  BY <1>1, <1>2, StateIs
<1>6. shared.records \subseteq AllRecords /\ replica[c].records \subseteq AllRecords
  BY DEF AdoptOK, RecordsOK, Follows
<1>7. ClaimsOK' /\ Live(c)' \subseteq Live(c)
  <2>1. HasTop(shared'.claims) /\ HasTop(replica'[c].claims)
    BY <1>1, <1>2, <1>3 DEF ClaimsOK
  <2>2. shared'.claims \subseteq AllClaims /\ replica'[c].claims \subseteq AllClaims
    BY <1>2, <1>3 DEF AllClaims
  <2>3. replica[c].claims \subseteq replica'[c].claims
    BY <1>2, <1>3
  <2> QED BY <1>1, <1>2, <1>5, <2>1, <2>2, <2>3, ClaimsKept
<1>8. RecordsOK'
  <2>1. HasTop(shared'.records) /\ Follows(shared', AllRecords)
    BY <1>1, <1>3 DEF RecordsOK
  <2>2. HasTop(replica'[c].records) /\ Follows(replica'[c], AllRecords)
    BY <1>2, <1>3
  <2>3. replica[c].records \subseteq replica'[c].records
    BY <1>2, <1>3
  <2> QED BY <1>1, <1>5, <2>1, <2>2, <2>3, RecordsKept
<1>9. Calm(c)
  <2>1. /\ Settling(c)' = Settling(c) /\ A!Synced(c)' /\ Sure(c)' = Sure(c)
        /\ \A p \in Live(c) : p \in shared.claims \/ Settling(c)
        /\ Sure(c) => client[c].minted \in client[c].boots /\ client[c].create # "settling"
    BY <1>2 DEF Settling, A!Synced, Sure, AdoptOK, LiveOK, SureOK
  <2>2. shared.claims \subseteq shared'.claims
    BY <1>3
  <2>3. A!Record(c) = A!NoGuid /\ AllRecords \subseteq replica[c].records => A!Record(c)' = A!NoGuid
    BY <1>3, <1>4, <1>6
  <2>4. replica'[c].records \subseteq AllRecords
    BY <1>2, <1>3, <1>6
  <2> QED BY <1>2, <1>3, <1>7, <2>1, <2>2, <2>3, <2>4 DEF Calm
<1>10. A!RecordIn(r) \in {A!NoGuid, A!Record(c)} \/ ~\E p \in r.gone : A!Last(p).guid \in client[c].wrappers
  BY WhenIs DEF A!Overtaken
<1>11. GuidsOK(c) /\ TrashOK(c) /\ FileOK(c)
  BY DEF AdoptOK
<1>12. GuidsOK(c)'
  <2>1. Settling(c)' = Settling(c)
    BY <1>2 DEF Settling
  <2> QED BY <1>2, <1>3, <1>11, <2>1 DEF GuidsOK
<1>13. TrashOK(c)'
  <2> SUFFICES ASSUME client[c].trash # "no" PROVE TrashOK(c)'
    BY <1>2 DEF TrashOK
  <2>1. PICK q \in replica[c].gone : A!Last(q).guid \in client[c].wrappers
    BY <1>11 DEF TrashOK
  <2>2. q \in r.gone
    BY <1>3
  <2>3. A!Record(c)' \in {A!NoGuid, A!Record(c)}
    BY <1>4, <1>10, <2>1, <2>2
  <2> QED BY <1>2, <1>11, <2>1, <2>2, <2>3 DEF TrashOK, A!MintedBy
<1>14. FileOK(c)'
  <2> SUFFICES ASSUME client[c].startup = "done", client[c].file # "none",
                      client[c].minted = A!NoGuid, client[c].create # "waiting"
               PROVE  /\ client[c].wrappers # {}
                      /\ A!RecordIn(r) = A!NoGuid => client'[c].scan \/ client[c].trash # "no"
                      /\ A!RecordIn(r) # A!NoGuid => A!RecordIn(r) \in client[c].wrappers
    BY <1>2, <1>4 DEF FileOK
  <2>1. client[c].wrappers # {}
    BY <1>11 DEF FileOK
  <2>2. A!RecordIn(r) = A!NoGuid => client'[c].scan \/ client[c].trash # "no"
    BY <1>2, <1>11 DEF FileOK
  <2>3. ASSUME A!RecordIn(r) # A!NoGuid PROVE A!RecordIn(r) \in client[c].wrappers
    <3>1. CASE A!RecordIn(r) = A!Record(c)
      BY <1>11, <2>3, <3>1 DEF FileOK
    <3>2. CASE A!RecordIn(r) # A!Record(c)
      <4>1. PICK h \in client[c].wrappers : TRUE
        BY <2>1
      <4>2. h # client[c].minted
        BY <1>1, StateIs, AdoptGiven
      <4>3. PICK q \in replica[c].records : A!Last(q).guid = h
        BY <1>11, <4>2 DEF GuidsOK
      <4>4. q \in r.records /\ q \notin r.gone
        BY <1>3, <1>10, <2>3, <3>2, <4>3
      <4>5. PICK t \in r.records : r.records \ {t} \subseteq r.gone /\ A!Last(t).guid = A!RecordIn(r)
        BY <1>1, <1>3, <2>3, RecordIs DEF RecordsOK
      <4>6. q = t
        BY <4>4, <4>5
      <4> QED BY <4>3, <4>5, <4>6
    <3> QED BY <3>1, <3>2
  <2> QED BY <2>1, <2>2, <2>3
<1>15. trashed' = {}
  BY DEF AdoptOK
<1> QED BY <1>7, <1>8, <1>9, <1>12, <1>13, <1>14, <1>15, CalmStep

LEMMA SharedMerged ==
  ASSUME AdoptOK, NEW c \in Clients
  PROVE  A!Merged(replica[c], shared) \in Documents
BY DEF AdoptOK, AdoptTypes, A!Merged, Documents

LEMMA SyncStep ==
  ASSUME AdoptOK, NEW c \in Clients, A!Sync(c), claimless' = {}
  PROVE  AdoptOK'
<1> DEFINE r == A!Merged(replica[c], shared)
           dl == [client[c] EXCEPT !.synced = TRUE, !.tree = TRUE]
<1>1. A!Becomes(c, dl, r) /\ shared' = r /\ A!Falls(c, A!Overtaken(c, r)) /\ trashed' = trashed
  BY DEF A!Sync
<1>2. r \in Documents
  BY SharedMerged
<1>3. dl \in AdoptStates /\ AdoptTypes
  <2>1. AdoptTypes /\ client[c] \in AdoptStates
    BY DEF AdoptOK, AdoptTypes
  <2>2. dl \in AdoptStates
    BY <2>1 DEF AdoptStates
  <2> QED BY <2>1, <2>2
<1> HIDE DEF r
<1>4. A!Overtaken(c, r) = {}
  BY <1>1, NoneFalls
<1>5. Step(c) /\ Becoming(c, dl, r)
  BY <1>1, <1>2, <1>3, BecomesIs
<1> QED BY <1>1, <1>4, <1>5, MergeStep DEF r

LEMMA ReceiveStep ==
  ASSUME AdoptOK, NEW c \in Clients, A!Receive(c), claimless' = {}
  PROVE  AdoptOK'
<1> DEFINE r == A!Merged(replica[c], shared)
           dl == [client[c] EXCEPT !.synced = TRUE, !.tree = TRUE]
<1>1. /\ A!Becomes(c, client[c], r) /\ shared' = shared /\ A!Falls(c, A!Overtaken(c, r))
      /\ trashed' = trashed /\ client[c].synced
  BY DEF A!Receive, A!Synced
<1>2. r \in Documents
  BY SharedMerged
<1>3. client[c] \in AdoptStates /\ AdoptTypes /\ shared' \in Documents
  BY <1>1 DEF AdoptOK, AdoptTypes
<1>4. dl = client[c]
  <2>1. client[c].synced = TRUE /\ client[c].tree = TRUE
    BY <1>1, <1>3, StateIs DEF AdoptOK, GuidsOK
  <2> QED BY <1>3, <2>1 DEF AdoptStates
<1> HIDE DEF r
<1>5. A!Overtaken(c, r) = {}
  BY <1>1, NoneFalls
<1>6. Step(c) /\ Becoming(c, client[c], r)
  BY <1>1, <1>2, <1>3, BecomesIs
<1>7. Becoming(c, dl, r)
  BY <1>4, <1>6
<1> HIDE DEF dl
<1> QED BY <1>1, <1>5, <1>6, <1>7, MergeStep DEF r, dl

LEMMA PushStep ==
  ASSUME AdoptOK, NEW c \in Clients, A!Push(c)
  PROVE  AdoptOK'
<1>1. /\ AdoptTypes /\ ClaimsOK /\ RecordsOK /\ client[c] \in AdoptStates /\ replica[c] \in Documents
      /\ shared \in Documents /\ AllRecords \in SUBSET RecordSeqs
  BY DEF AdoptOK, AdoptTypes, AllRecords, Documents
<1>2. /\ client' = client /\ replica' = replica /\ trashed' = trashed
      /\ shared' = A!Merged(shared, replica[c])
  BY DEF A!Push
<1>3. /\ shared' \in Documents /\ Follows(shared', AllRecords)
      /\ HasTop(shared'.records) /\ HasTop(shared'.claims)
      /\ shared'.claims = shared.claims \cup replica[c].claims
  BY <1>1, <1>2, MergedIs DEF RecordsOK, ClaimsOK
<1>4. Step(c)
  BY <1>1, <1>2, <1>3 DEF Step, AdoptTypes
<1>5. client[c].session <= client'[c].session /\ client[c].mints <= client'[c].mints
  BY <1>1, <1>2, StateIs
<1>6. ClaimsOK' /\ Live(c)' \subseteq Live(c)
  <2>1. shared'.claims \subseteq AllClaims /\ replica'[c].claims \subseteq AllClaims
    BY <1>2, <1>3 DEF AllClaims
  <2>2. HasTop(replica'[c].claims)
    BY <1>1, <1>2 DEF ClaimsOK
  <2> QED BY <1>1, <1>2, <1>3, <1>4, <1>5, <2>1, <2>2, ClaimsKept
<1>7. RecordsOK'
  <2>1. HasTop(replica'[c].records) /\ Follows(replica'[c], AllRecords)
    BY <1>1, <1>2 DEF RecordsOK
  <2> QED BY <1>1, <1>2, <1>3, <1>4, <1>5, <2>1, RecordsKept
<1>8. A!Record(c)' = A!Record(c)
  BY <1>2 DEF A!Record, A!RecordIn, A!Top
<1>9. Calm(c)
  <2>1. /\ Settling(c)' = Settling(c) /\ A!Synced(c)' = A!Synced(c) /\ Sure(c)' = Sure(c)
        /\ Settling(c) => A!Synced(c)
        /\ \A p \in Live(c) : p \in shared.claims \/ Settling(c)
        /\ Sure(c) => client[c].minted \in client[c].boots /\ client[c].create # "settling"
    BY <1>2 DEF Settling, A!Synced, Sure, AdoptOK, LiveOK, SureOK
  <2> QED BY <1>2, <1>3, <1>6, <1>8, <2>1 DEF Calm, AllRecords
<1>10. GuidsOK(c) /\ TrashOK(c) /\ FileOK(c)
  BY DEF AdoptOK
<1>11. GuidsOK(c)'
  BY <1>2, <1>10 DEF GuidsOK, Settling
<1>12. TrashOK(c)' /\ FileOK(c)'
  BY <1>2, <1>8, <1>10 DEF TrashOK, FileOK, A!MintedBy
<1>13. trashed' = {}
  BY <1>2 DEF AdoptOK
<1> QED BY <1>4, <1>6, <1>7, <1>9, <1>11, <1>12, <1>13, CalmStep

LEMMA RestartStep ==
  ASSUME AdoptOK, NEW c \in Clients, NEW file \in A!Files, A!Restart(c, file)
  PROVE  AdoptOK'
<1>1. /\ AdoptTypes /\ ClaimsOK /\ RecordsOK /\ client[c] \in AdoptStates /\ replica[c] \in Documents
      /\ shared \in Documents
  BY DEF AdoptOK, AdoptTypes
<1> DEFINE m == IF file = "none" THEN A!NoGuid ELSE client[c].minted
           sl == A!Started(client[c].session + 1, file)
           dl == [sl EXCEPT !.minted = m, !.mints = client[c].mints, !.acked = client[c].acked]
<1>2. /\ client' = [client EXCEPT ![c] = dl] /\ replica' = replica /\ shared' = shared
      /\ trashed' = trashed
      /\ file \in {client[c].file, IF client[c].file = "none" THEN "own" ELSE "none"}
  BY DEF A!Restart
<1>3. /\ client[c].session \in Nat /\ client[c].mints \in 0..MaxMints /\ MaxMints \in Nat
      /\ client[c].acked \in SUBSET A!Guids
      /\ m \in A!Guids \cup {A!NoGuid}
  BY <1>1, StateIs, AdoptGiven
<1>4. m # A!NoGuid => client[c].minted = m /\ file # "none"
  OBVIOUS
<1> HIDE DEF m
<1>5. /\ sl \in AdoptStates
      /\ sl.session = client[c].session + 1 /\ sl.synced = FALSE /\ sl.startup = "waiting"
      /\ sl.file = file /\ sl.wrappers = {} /\ sl.boots = {} /\ sl.create = "idle"
      /\ sl.adopt = "idle" /\ sl.trash = "no"
  BY <1>3 DEF A!Started, AdoptStates
<1> HIDE DEF sl
<1>6. /\ dl \in AdoptStates
      /\ dl.session = client[c].session + 1 /\ dl.synced = FALSE /\ dl.startup = "waiting"
      /\ dl.file = file /\ dl.wrappers = {} /\ dl.boots = {} /\ dl.create = "idle"
      /\ dl.adopt = "idle" /\ dl.trash = "no" /\ dl.minted = m /\ dl.mints = client[c].mints
  BY <1>3, <1>5 DEF AdoptStates
<1> HIDE DEF dl
<1>7. /\ client'[c] = dl /\ client' \in [Clients -> AdoptStates]
      /\ \A d \in Clients \ {c} : client'[d] = client[d]
  BY <1>1, <1>2, <1>6 DEF AdoptTypes
<1>8. Step(c)
  BY <1>1, <1>2, <1>7 DEF Step, AdoptTypes
<1>9. ClaimsOK' /\ Live(c)' = {}
  <2>1. /\ client[c].session <= client'[c].session /\ client'[c].session # client[c].session
    BY <1>3, <1>6, <1>7
  <2>2. /\ HasTop(shared'.claims) /\ HasTop(replica'[c].claims)
        /\ shared'.claims \subseteq AllClaims /\ replica'[c].claims \subseteq AllClaims
    BY <1>1, <1>2 DEF ClaimsOK, AllClaims
  <2> QED BY <1>1, <1>2, <1>8, <2>1, <2>2, ClaimsKept
<1>10. RecordsOK' /\ A!Record(c)' = A!Record(c)
  <2>1. client[c].mints <= client'[c].mints
    BY <1>3, <1>6, <1>7
  <2> QED BY <1>1, <1>2, <1>8, <2>1, SameRecords
<1>11. Calm(c)
  <2>1. ~Settling(c)' /\ ~A!Synced(c)' /\ ~Sure(c)'
    BY <1>6, <1>7 DEF Settling, A!Synced, Sure
  <2> QED BY <1>2, <1>9, <1>10, <2>1 DEF Calm, AllRecords
<1>12. GuidsOK(c)'
  <2>1. m # A!NoGuid => \E i \in 1..client[c].mints : m = <<c, i>>
    BY <1>4 DEF AdoptOK, GuidsOK
  <2> QED BY <1>4, <1>6, <1>7, <2>1 DEF GuidsOK
<1>13. TrashOK(c)' /\ FileOK(c)'
  BY <1>6, <1>7 DEF TrashOK, FileOK
<1>14. trashed' = {}
  BY <1>2 DEF AdoptOK
<1> QED BY <1>8, <1>9, <1>10, <1>11, <1>12, <1>13, <1>14, CalmStep

LEMMA AdoptInit ==
  ASSUME A!Init
  PROVE  AdoptOK
<1>1. /\ \A c \in Clients : \E file \in {"none", "own"} : client[c] = A!Started(0, file)
      /\ \A c \in Clients : replica[c] = A!Nothing
      /\ shared = A!Nothing /\ trashed = {}
  BY DEF A!Init
<1>2. A!Nothing \in Documents /\ A!Nothing.claims = {} /\ A!Nothing.records = {} /\ A!Nothing.gone = {}
  BY DEF A!Nothing, Documents
<1>3. ASSUME NEW file \in {"none", "own"}
      PROVE  LET cl == A!Started(0, file) IN
             /\ cl \in AdoptStates
             /\ cl.session = 0 /\ cl.synced = FALSE /\ cl.startup = "waiting"
             /\ cl.wrappers = {} /\ cl.boots = {} /\ cl.create = "idle"
             /\ cl.adopt = "idle" /\ cl.trash = "no" /\ cl.minted = A!NoGuid
  BY AdoptGiven DEF A!Started, AdoptStates, A!Files
<1>4. \A c \in Clients :
        /\ client[c] \in AdoptStates
        /\ client[c].session = 0 /\ client[c].synced = FALSE /\ client[c].startup = "waiting"
        /\ client[c].wrappers = {} /\ client[c].boots = {} /\ client[c].create = "idle"
        /\ client[c].adopt = "idle" /\ client[c].trash = "no" /\ client[c].minted = A!NoGuid
  <2> TAKE c \in Clients
  <2>1. PICK file \in {"none", "own"} : client[c] = A!Started(0, file)
    BY <1>1
  <2> QED BY <1>3, <2>1
<1>5. AdoptTypes
  <2>1. client \in [Clients -> AdoptStates]
    <3>1. client = [c \in Clients |-> client[c]]
      BY DEF A!Init
    <3> QED BY <1>4, <3>1
  <2>2. replica \in [Clients -> Documents]
    BY <1>2 DEF A!Init
  <2> QED BY <1>1, <1>2, <2>1, <2>2 DEF AdoptTypes
<1>6. /\ shared.claims = {} /\ shared.records = {} /\ shared.gone = {}
      /\ \A c \in Clients : replica[c].claims = {} /\ replica[c].records = {} /\ replica[c].gone = {}
  BY <1>1, <1>2
<1>7. AllClaims = {} /\ AllRecords = {}
  BY <1>6 DEF AllClaims, AllRecords
<1>8. ClaimsOK
  BY <1>6, <1>7 DEF ClaimsOK, HasTop
<1>9. RecordsOK
  BY <1>6, <1>7 DEF RecordsOK, HasTop, Chain, Follows
<1>10. \A c \in Clients : ~Sure(c) /\ ~Settling(c) /\ Live(c) = {}
  BY <1>4, <1>6 DEF Sure, Settling, Live
<1>11. ClaimKnown
  BY <1>6, <1>10 DEF ClaimKnown
<1>12. ASSUME NEW c \in Clients PROVE LiveOK(c) /\ SureOK(c) /\ GuidsOK(c) /\ TrashOK(c) /\ FileOK(c)
  BY <1>4, <1>10 DEF LiveOK, SureOK, GuidsOK, TrashOK, FileOK
<1> QED BY <1>1, <1>5, <1>8, <1>9, <1>11, <1>12 DEF AdoptOK

\* A behaviour that fell into no window has always been outside of them.
LEMMA NoneFell ==
  ASSUME A!Next, claimless' = {}
  PROVE  claimless = {}
<1>1. ASSUME NEW c \in Clients, NEW cl, NEW how, NEW stale, A!MintAndClaim(c, cl, how, stale)
      PROVE  claimless = {}
  BY <1>1, NoneFalls DEF A!MintAndClaim
<1>2. ASSUME NEW c \in Clients, NEW cl, NEW stale, A!CreateEvent(c, cl, stale)
      PROVE  claimless = {}
  BY <1>1, <1>2, NoneFalls DEF A!CreateEvent
<1>3. ASSUME NEW c \in Clients, NEW stale, NEW allowMint, A!AdoptLocalFiles(c, allowMint, stale)
      PROVE  claimless = {}
  BY <1>1, <1>3, NoneFalls DEF A!AdoptLocalFiles
<1>4. ASSUME NEW c \in Clients, NEW stale \in BOOLEAN,
             A!FileAppears(c, stale) \/ A!FileAnnounced(c, stale) \/ A!OnReady(c, stale) \/ A!SyncCommand(c, stale)
      PROVE  claimless = {}
  <2>1. CASE A!FileAppears(c, stale)
    BY <1>2, <2>1 DEF A!FileAppears
  <2>2. CASE A!FileAnnounced(c, stale)
    BY <1>2, <2>2 DEF A!FileAnnounced
  <2>3. CASE A!OnReady(c, stale)
    BY <1>3, <2>3 DEF A!OnReady
  <2>4. CASE A!SyncCommand(c, stale)
    BY <1>3, <2>4 DEF A!SyncCommand
  <2> QED BY <1>4, <2>1, <2>2, <2>3, <2>4
<1>5. ASSUME NEW c \in Clients,
             A!CreateWins(c) \/ A!CreateLoses(c) \/ A!CreateAdopts(c) \/ A!CreateTimesOut(c) \/ A!AdoptDecides(c)
      PROVE  claimless = {}
  <2>1. CASE A!CreateWins(c)
    BY <2>1, NoneFalls DEF A!CreateWins
  <2>2. CASE A!CreateLoses(c)
    BY <2>2, NoneFalls DEF A!CreateLoses
  <2>3. CASE A!CreateAdopts(c)
    BY <2>3, NoneFalls DEF A!CreateAdopts
  <2>4. CASE A!CreateTimesOut(c)
    <3>1. UNCHANGED claimless \/ A!Falls(c, {"winner slow"})
      BY <2>4 DEF A!CreateTimesOut
    <3> QED BY <3>1, NoneFalls
  <2>5. CASE A!AdoptDecides(c)
    BY <2>5, NoneFalls DEF A!AdoptDecides
  <2> QED BY <1>5, <2>1, <2>2, <2>3, <2>4, <2>5
<1>6. ASSUME NEW c \in Clients, NEW g, A!Bootstrapped(c, g) PROVE claimless = {}
  BY <1>6, NoneFalls DEF A!Bootstrapped
<1>7. ASSUME NEW c \in Clients,
             A!Scan(c) \/ A!Trash(c) \/ A!TrashSkipped(c) \/ A!FileDeleted(c)
      PROVE  claimless = {}
  <2>1. CASE A!Scan(c)
    <3>1. PICK set : A!Falls(c, set)
      BY <2>1 DEF A!Scan
    <3> QED BY <3>1, NoneFalls
  <2>2. CASE A!Trash(c) \/ A!FileDeleted(c)
    BY <2>2 DEF A!Trash, A!FileDeleted
  <2>3. CASE A!TrashSkipped(c)
    BY <2>3, NoneFalls DEF A!TrashSkipped
  <2> QED BY <1>7, <2>1, <2>2, <2>3
<1>8. ASSUME NEW c \in Clients, A!Sync(c) \/ A!Drop(c) \/ A!Push(c) \/ A!Receive(c)
      PROVE  claimless = {}
  <2>1. CASE A!Sync(c)
    <3>1. PICK set : A!Falls(c, set)
      BY <2>1 DEF A!Sync
    <3> QED BY <3>1, NoneFalls
  <2>2. CASE A!Drop(c)
    BY <2>2, NoneFalls DEF A!Drop
  <2>3. CASE A!Push(c)
    BY <2>3 DEF A!Push
  <2>4. CASE A!Receive(c)
    <3>1. PICK set : A!Falls(c, set)
      BY <2>4 DEF A!Receive
    <3> QED BY <3>1, NoneFalls
  <2> QED BY <1>8, <2>1, <2>2, <2>3, <2>4
<1>9. ASSUME NEW c \in Clients, NEW file \in A!Files, A!Restart(c, file) PROVE claimless = {}
  BY <1>9 DEF A!Restart
<1> QED BY <1>4, <1>5, <1>6, <1>7, <1>8, <1>9 DEF A!Next

LEMMA AdoptStep ==
  ASSUME AdoptOK, A!Next, claimless' = {}
  PROVE  AdoptOK'
<1>1. PICK c \in Clients :
        \/ \E stale \in BOOLEAN : A!FileAppears(c, stale) \/ A!FileAnnounced(c, stale)
                                  \/ A!OnReady(c, stale) \/ A!SyncCommand(c, stale)
        \/ A!CreateWins(c) \/ A!CreateLoses(c) \/ A!CreateAdopts(c) \/ A!CreateTimesOut(c)
        \/ A!AdoptDecides(c)
        \/ \E g \in client[c].boots : A!Bootstrapped(c, g)
        \/ A!Scan(c) \/ A!Trash(c) \/ A!TrashSkipped(c) \/ A!FileDeleted(c)
        \/ A!Sync(c) \/ A!Drop(c) \/ A!Push(c) \/ A!Receive(c)
        \/ \E file \in A!Files : A!Restart(c, file)
  BY DEF A!Next
<1>2. ASSUME NEW stale \in BOOLEAN, A!FileAppears(c, stale) \/ A!FileAnnounced(c, stale)
                                    \/ A!OnReady(c, stale) \/ A!SyncCommand(c, stale)
      PROVE  AdoptOK'
  <2>1. CASE A!FileAppears(c, stale)
    BY <2>1, FileAppearsStep
  <2>2. CASE A!FileAnnounced(c, stale)
    BY <2>2, FileAnnouncedStep
  <2>3. CASE A!OnReady(c, stale)
    BY <2>3, AdoptLocalFilesStep DEF A!OnReady
  <2>4. CASE A!SyncCommand(c, stale)
    BY <2>4, AdoptLocalFilesStep DEF A!SyncCommand
  <2> QED BY <1>2, <2>1, <2>2, <2>3, <2>4
<1>3. ~A!TrashSkipped(c)
  <2> SUFFICES ASSUME A!TrashSkipped(c) PROVE FALSE
    OBVIOUS
  <2>1. A!Falls(c, {"prune skipped"})
    BY DEF A!TrashSkipped
  <2> QED BY <2>1, NoneFalls
<1>4. CASE A!CreateWins(c)
  BY <1>4, CreateWinsStep
<1>5. CASE A!CreateLoses(c)
  BY <1>5, CreateLosesStep
<1>6. CASE A!CreateAdopts(c)
  BY <1>6, CreateAdoptsStep
<1>7. CASE A!CreateTimesOut(c)
  BY <1>7, CreateTimesOutStep
<1>8. CASE A!AdoptDecides(c)
  BY <1>8, AdoptDecidesStep
<1>9. CASE \E g \in client[c].boots : A!Bootstrapped(c, g)
  BY <1>9, BootstrappedStep
<1>10. CASE A!Scan(c)
  BY <1>10, ScanStep
<1>11. CASE A!Trash(c)
  BY <1>11, TrashStep
<1>12. CASE A!FileDeleted(c)
  BY <1>12, FileDeletedStep
<1>13. CASE A!Sync(c)
  BY <1>13, SyncStep
<1>14. CASE A!Drop(c)
  BY <1>14, DropStep
<1>15. CASE A!Push(c)
  BY <1>15, PushStep
<1>16. CASE A!Receive(c)
  BY <1>16, ReceiveStep
<1>17. CASE \E file \in A!Files : A!Restart(c, file)
  BY <1>17, RestartStep
<1> QED BY <1>1, <1>2, <1>3, <1>4, <1>5, <1>6, <1>7, <1>8, <1>9, <1>10, <1>11, <1>12, <1>13,
           <1>14, <1>15, <1>16, <1>17

LEMMA AdoptStutters ==
  ASSUME AdoptOK, UNCHANGED adopted
  PROVE  AdoptOK'
<1>1. /\ client' = client /\ replica' = replica /\ shared' = shared /\ trashed' = trashed
  BY DEF adopted
<1>2. AllClaims' = AllClaims /\ AllRecords' = AllRecords
  BY <1>1 DEF AllClaims, AllRecords
<1>3. AdoptTypes' /\ ClaimsOK' /\ RecordsOK' /\ trashed' = {}
  BY <1>1, <1>2 DEF AdoptOK, AdoptTypes, ClaimsOK, RecordsOK, A!Id
<1>4. \A c \in Clients : /\ Sure(c)' = Sure(c) /\ Settling(c)' = Settling(c) /\ Live(c)' = Live(c)
                         /\ A!Synced(c)' = A!Synced(c) /\ A!Record(c)' = A!Record(c)
  BY <1>1 DEF Sure, Settling, Live, A!Synced, A!Record, A!RecordIn, A!Top, A!Id
<1>5. ClaimKnown'
  BY <1>1, <1>4 DEF AdoptOK, ClaimKnown
<1>6. \A c \in Clients : Alone(c)' = Alone(c)
  BY <1>1, <1>2, <1>4 DEF Alone
<1>7. \A p : Overdue(p)' = Overdue(p)
  BY <1>1 DEF Overdue
<1>8. ASSUME NEW c \in Clients PROVE (LiveOK(c) /\ SureOK(c) /\ GuidsOK(c) /\ TrashOK(c) /\ FileOK(c))'
  <2>1. LiveOK(c) /\ SureOK(c) /\ GuidsOK(c) /\ TrashOK(c) /\ FileOK(c)
    BY DEF AdoptOK
  <2>2. LiveOK(c)'
    BY <1>1, <1>4, <1>6, <1>7, <2>1 DEF LiveOK
  <2>3. SureOK(c)'
    BY <1>1, <1>4, <1>6, <2>1 DEF SureOK
  <2>4. GuidsOK(c)'
    BY <1>1, <1>4, <2>1 DEF GuidsOK
  <2>5. TrashOK(c)' /\ FileOK(c)'
    BY <1>1, <1>4, <2>1 DEF TrashOK, FileOK, A!MintedBy
  <2> QED BY <2>2, <2>3, <2>4, <2>5
<1> QED BY <1>3, <1>5, <1>8 DEF AdoptOK

-----------------------------------------------------------------------------
(* Adoption as one part of MCShare.                                          *)

AdoptedInv == part = "guid" => AdoptInv

LEMMA AdoptedInvHolds == MCSpec => []AdoptedInv
<1>1. MCInit => AdoptedInv
  BY AdoptInit DEF MCInit, AdoptedInv, AdoptInv
<1>2. AdoptedInv /\ [MCNext]_<<vars, part, adopted, published>> => AdoptedInv'
  <2> SUFFICES ASSUME AdoptedInv, [MCNext]_<<vars, part, adopted, published>>, part' = "guid", claimless' = {}
               PROVE  AdoptOK'
    BY DEF AdoptedInv, AdoptInv
  <2>1. part = "guid"
    BY DEF MCNext
  <2>2. A!Next \/ UNCHANGED adopted
    BY <2>1 DEF MCNext
  <2>3. claimless = {}
    BY <2>2, NoneFell DEF adopted
  <2>4. AdoptOK
    BY <2>1, <2>3 DEF AdoptedInv, AdoptInv
  <2> QED BY <2>2, <2>4, AdoptStep, AdoptStutters
<1> QED BY <1>1, <1>2, PTL DEF MCSpec

(***************************************************************************)
(* For any number of clients, restarts, dropped connections and minted     *)
(* guids: when nothing is left to do outside of the windows, every client  *)
(* that has the file follows the document the share's record names.        *)
(***************************************************************************)
THEOREM ClientsShareOneDocument == MCSpec => []OneGuid
<1>1. AdoptedInv => OneGuid
  <2> SUFFICES ASSUME part = "guid", AdoptOK, A!Quiet, NEW c \in Clients, client[c].file # "none"
               PROVE  A!Record(c) # A!NoGuid /\ A!Guid(c) = A!Record(c) /\ A!Record(c) \in client[c].wrappers
    BY DEF AdoptedInv, AdoptInv, OneGuid, A!OneGuid
  <2>1. /\ client[c].startup = "done" /\ client[c].create = "idle" /\ client[c].adopt = "idle"
        /\ client[c].boots = {} /\ ~client[c].scan /\ client[c].trash = "no"
    BY DEF A!Quiet
  <2>2. client[c].minted = A!NoGuid
    BY <2>1 DEF AdoptOK, GuidsOK, Settling
  <2>3. A!Record(c) # A!NoGuid /\ A!Record(c) \in client[c].wrappers
    BY <2>1, <2>2 DEF AdoptOK, FileOK
  <2> QED BY <2>2, <2>3 DEF A!Guid
<1> QED BY <1>1, AdoptedInvHolds, PTL

(***************************************************************************)
(* For any number of clients the scan that prunes what has no record takes *)
(* no file that was never shared without a copy, and no record of another  *)
(* client's goes with it, outside of the windows.                          *)
(***************************************************************************)
THEOREM PruningTakesNoOthers == MCSpec => []PruneIsSafe
<1>1. AdoptedInv => PruneIsSafe
  BY DEF AdoptedInv, AdoptInv, AdoptOK, PruneIsSafe, A!PruneIsSafe
<1> QED BY <1>1, AdoptedInvHolds, PTL
=============================================================================
