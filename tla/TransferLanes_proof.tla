------------------------ MODULE TransferLanes_proof ------------------------
(***************************************************************************)
(* Proofs about the lanes of TransferQueue, for every number of documents, *)
(* shares and calls and every lane limit: the types, the exactness of the  *)
(* in-flight set and the pairing of waiters with unfinished tasks, that a  *)
(* completed batch has no task left, and that a lane implements JobPool.   *)
(***************************************************************************)
EXTENDS TransferLanes, FiniteSetTheorems, TLAPS

-----------------------------------------------------------------------------
(* The inductive invariant *)

\* The types of everything but the progress counters.
LaneTypeOK ==
  /\ queue \in [Lanes -> SUBSET Calls]
  /\ active \in [Lanes -> SUBSET Calls]
  /\ settled \in SUBSET Calls
  /\ inFlight \in [Lanes -> SUBSET Items]
  /\ waiter \in [Lanes -> [Items -> Calls \cup {NoCall}]]
  /\ promise \in [Calls -> {"unused", "pending", "resolved", "rejected"}]
  /\ todo \in SUBSET Items
  /\ rebatched \in SUBSET Shares
  /\ online \in SUBSET Shares
  /\ paused \in BOOLEAN
  /\ down \in BOOLEAN

Batches == [queued : [Lanes -> Nat], finished : [Lanes -> Nat],
            phase : {"none", "pending", "running", "completed", "failed"}]

BatchTypeOK == batch \in [Shares -> Batches]

\* A task is in its own lane, once, and is no longer a call to be made.
TaskPlaced ==
  /\ \A l \in Lanes : \A t \in Tasks(l) : LaneOf[t] = l /\ promise[t] # "unused"
  /\ \A l \in Lanes : queue[l] \cap active[l] = {}
  /\ \A t \in settled : t \in active[LaneOf[t]]

\* A waiter is a call about the very item and lane it is stored under.
WaiterPlaced ==
  \A l \in Lanes : \A i \in Items :
    waiter[l][i] # NoCall => ItemOf[waiter[l][i]] = i /\ LaneOf[waiter[l][i]] = l

LaneInv ==
  /\ LaneTypeOK
  /\ TaskPlaced
  /\ WaiterPlaced
  /\ InFlightExact
  /\ WaiterPerTask

-----------------------------------------------------------------------------
(* What draining does *)

LEMMA DrainEffect ==
  ASSUME NEW l \in Lanes, NEW q \in SUBSET Calls, LaneTypeOK,
         q \cap active[l] = {}, QueueAndDrain(l, q)
  PROVE  /\ queue' \in [Lanes -> SUBSET Calls]
         /\ active' \in [Lanes -> SUBSET Calls]
         /\ Tasks(l)' = q \cup active[l]
         /\ active[l] \subseteq active'[l]
         /\ queue'[l] \cap active'[l] = {}
         /\ \A k \in Lanes \ {l} : queue'[k] = queue[k] /\ active'[k] = active[k]
<1>1. PICK go \in SUBSET q : /\ queue' = [queue EXCEPT ![l] = q \ go]
                             /\ active' = [active EXCEPT ![l] = @ \cup go]
  BY DEF QueueAndDrain, Drains, Runnable
<1> QED BY <1>1 DEF LaneTypeOK, Tasks

\* A drain that adds nothing only moves tasks from the queue to the running set.
LEMMA DrainKeepsTasks ==
  ASSUME NEW l \in Lanes, LaneTypeOK, TaskPlaced, QueueAndDrain(l, queue[l])
  PROVE  /\ queue' \in [Lanes -> SUBSET Calls]
         /\ active' \in [Lanes -> SUBSET Calls]
         /\ \A k \in Lanes : /\ Tasks(k)' = Tasks(k)
                             /\ active[k] \subseteq active'[k]
                             /\ queue'[k] \cap active'[k] = {}
<1>1. queue[l] \in SUBSET Calls /\ queue[l] \cap active[l] = {}
  BY DEF LaneTypeOK, TaskPlaced
<1>2. /\ queue' \in [Lanes -> SUBSET Calls]
      /\ active' \in [Lanes -> SUBSET Calls]
      /\ Tasks(l)' = queue[l] \cup active[l]
      /\ active[l] \subseteq active'[l]
      /\ queue'[l] \cap active'[l] = {}
      /\ \A k \in Lanes \ {l} : queue'[k] = queue[k] /\ active'[k] = active[k]
  BY <1>1, DrainEffect
<1> QED BY <1>2 DEF Tasks, TaskPlaced

-----------------------------------------------------------------------------
(* Each way a call or the clock changes a lane keeps the invariant.  These *)
(* lemmas say nothing of the batch, which LaneInv does not mention.        *)

\* Nothing but the queue and the running set changes.
LEMMA JustDrainKeepsInv ==
  ASSUME LaneInv, NEW l \in Lanes, QueueAndDrain(l, queue[l]),
         UNCHANGED <<settled, inFlight, waiter, promise, rebatched, online, paused, down>>,
         todo' \in SUBSET Items
  PROVE  LaneInv'
<1> USE DEF LaneInv
<1>1. /\ queue' \in [Lanes -> SUBSET Calls]
      /\ active' \in [Lanes -> SUBSET Calls]
      /\ \A k \in Lanes : /\ Tasks(k)' = Tasks(k)
                          /\ active[k] \subseteq active'[k]
                          /\ queue'[k] \cap active'[k] = {}
  BY DrainKeepsTasks
<1>2. LaneTypeOK'
  BY <1>1 DEF LaneTypeOK
<1>3. TaskPlaced'
  BY <1>1, LaneAssumption DEF TaskPlaced, LaneTypeOK
<1>4. WaiterPlaced'
  BY DEF WaiterPlaced
<1>5. InFlightExact'
  BY <1>1 DEF InFlightExact
<1>6. WaiterPerTask'
  BY <1>1 DEF WaiterPerTask
<1> QED BY <1>2, <1>3, <1>4, <1>5, <1>6

\* A call takes over the waiter: tasks and in-flight guids stay as they are.
LEMMA TakeOverKeepsInv ==
  ASSUME LaneInv, NEW c \in Calls, Fresh(c), TakeOverWaiter(c),
         \/ NoDrain
         \/ JustDrain(c),
         UNCHANGED <<settled, rebatched, online, paused, down>>,
         todo' \in SUBSET Items
  PROVE  LaneInv'
<1> USE DEF LaneInv
<1> DEFINE l == LaneOf[c]
           i == ItemOf[c]
<1>1. l \in Lanes /\ i \in Items
  BY LaneAssumption
<1>2. /\ queue' \in [Lanes -> SUBSET Calls]
      /\ active' \in [Lanes -> SUBSET Calls]
      /\ \A k \in Lanes : /\ Tasks(k)' = Tasks(k)
                          /\ active[k] \subseteq active'[k]
                          /\ queue'[k] \cap active'[k] = {}
  <2>1. CASE NoDrain
    BY <2>1 DEF NoDrain, Tasks, LaneTypeOK, TaskPlaced
  <2>2. CASE JustDrain(c)
    BY <2>2, <1>1, DrainKeepsTasks DEF JustDrain
  <2> QED BY <2>1, <2>2
<1>3. /\ promise' = [promise EXCEPT ![c] = "pending"]
      /\ waiter' = [waiter EXCEPT ![l][i] = c]
      /\ inFlight' = inFlight
      /\ waiter[l][i] # NoCall
      /\ promise[c] = "unused"
  BY DEF TakeOverWaiter, WaiterOf, Fresh
<1>4. LaneTypeOK'
  BY <1>1, <1>2, <1>3 DEF LaneTypeOK
<1>5. TaskPlaced'
  BY <1>2, <1>3, LaneAssumption DEF TaskPlaced, LaneTypeOK, Tasks
<1>6. WaiterPlaced'
  BY <1>1, <1>3 DEF WaiterPlaced, LaneTypeOK
<1>7. InFlightExact'
  BY <1>2, <1>3 DEF InFlightExact
<1>8. WaiterPerTask'
  <2> SUFFICES ASSUME ~down, NEW k \in Lanes, NEW j \in Items
               PROVE /\ (waiter'[k][j] # NoCall)
                           <=> (\E t \in Tasks(k)' \ settled : ItemOf[t] = j)
                     /\ waiter'[k][j] # NoCall => promise'[waiter'[k][j]] = "pending"
    BY DEF WaiterPerTask
  <2>1. /\ (waiter[k][j] # NoCall) <=> (\E t \in Tasks(k) \ settled : ItemOf[t] = j)
        /\ waiter[k][j] # NoCall => promise[waiter[k][j]] = "pending"
    BY DEF WaiterPerTask
  <2>2. waiter'[k][j] = IF k = l /\ j = i THEN c ELSE waiter[k][j]
    BY <1>1, <1>3 DEF LaneTypeOK
  <2>3. c # NoCall
    BY LaneAssumption
  <2> QED BY <1>2, <1>3, <2>1, <2>2, <2>3 DEF LaneTypeOK
<1> QED BY <1>4, <1>5, <1>6, <1>7, <1>8

\* A call finds nothing to wait for: its own promise alone changes.
LEMMA NothingToAwaitKeepsInv ==
  ASSUME LaneInv, NEW c \in Calls, Fresh(c), NothingToAwait(c),
         \/ NoDrain
         \/ JustDrain(c),
         UNCHANGED <<settled, rebatched, online, paused, down>>,
         todo' \in SUBSET Items
  PROVE  LaneInv'
<1> USE DEF LaneInv
<1>1. LaneOf[c] \in Lanes /\ ItemOf[c] \in Items
  BY LaneAssumption
<1>2. /\ queue' \in [Lanes -> SUBSET Calls]
      /\ active' \in [Lanes -> SUBSET Calls]
      /\ \A k \in Lanes : /\ Tasks(k)' = Tasks(k)
                          /\ active[k] \subseteq active'[k]
                          /\ queue'[k] \cap active'[k] = {}
  <2>1. CASE NoDrain
    BY <2>1 DEF NoDrain, Tasks, LaneTypeOK, TaskPlaced
  <2>2. CASE JustDrain(c)
    BY <2>2, <1>1, DrainKeepsTasks DEF JustDrain
  <2> QED BY <2>1, <2>2
<1>3. /\ promise' = [promise EXCEPT ![c] = "resolved"]
      /\ waiter' = waiter
      /\ inFlight' = inFlight
      /\ promise[c] = "unused"
  BY DEF NothingToAwait, Fresh
<1>4. LaneTypeOK'
  BY <1>2, <1>3 DEF LaneTypeOK
<1>5. TaskPlaced'
  BY <1>2, <1>3, LaneAssumption DEF TaskPlaced, LaneTypeOK, Tasks
<1>6. WaiterPlaced'
  BY <1>3 DEF WaiterPlaced
<1>7. InFlightExact'
  BY <1>2, <1>3 DEF InFlightExact
<1>8. WaiterPerTask'
  BY <1>2, <1>3 DEF WaiterPerTask, LaneTypeOK
<1> QED BY <1>4, <1>5, <1>6, <1>7, <1>8

\* A new task: its item was not in flight, so no other task has the item.
LEMMA PushKeepsInv ==
  ASSUME LaneInv, NEW c \in Calls, Fresh(c), PushToLane(c),
         UNCHANGED <<settled, rebatched, online, paused, down>>,
         todo' \in SUBSET Items
  PROVE  LaneInv'
<1> USE DEF LaneInv
<1> DEFINE l == LaneOf[c]
           i == ItemOf[c]
<1>1. l \in Lanes /\ i \in Items /\ c # NoCall
  BY LaneAssumption
<1>2. /\ i \notin inFlight[l]
      /\ inFlight' = [inFlight EXCEPT ![l] = @ \cup {i}]
      /\ waiter' = [waiter EXCEPT ![l][i] = c]
      /\ promise' = [promise EXCEPT ![c] = "pending"]
      /\ promise[c] = "unused"
  BY DEF PushToLane, Fresh, Busy
<1>3. c \notin settled /\ \A k \in Lanes : c \notin Tasks(k)
  BY <1>1, <1>2 DEF TaskPlaced, Tasks
<1>4. /\ queue' \in [Lanes -> SUBSET Calls]
      /\ active' \in [Lanes -> SUBSET Calls]
      /\ Tasks(l)' = Tasks(l) \cup {c}
      /\ active[l] \subseteq active'[l]
      /\ queue'[l] \cap active'[l] = {}
      /\ \A k \in Lanes \ {l} : queue'[k] = queue[k] /\ active'[k] = active[k]
  <2>1. /\ queue[l] \cup {c} \in SUBSET Calls
        /\ (queue[l] \cup {c}) \cap active[l] = {}
    BY <1>1, <1>3 DEF LaneTypeOK, TaskPlaced, Tasks
  <2>2. QueueAndDrain(l, queue[l] \cup {c})
    BY DEF PushToLane
  <2> HIDE DEF l
  <2>3. /\ queue' \in [Lanes -> SUBSET Calls]
        /\ active' \in [Lanes -> SUBSET Calls]
        /\ Tasks(l)' = (queue[l] \cup {c}) \cup active[l]
        /\ active[l] \subseteq active'[l]
        /\ queue'[l] \cap active'[l] = {}
        /\ \A k \in Lanes \ {l} : queue'[k] = queue[k] /\ active'[k] = active[k]
    BY <1>1, <2>1, <2>2, DrainEffect
  <2> QED BY <2>3 DEF Tasks
<1>5. LaneTypeOK'
  BY <1>1, <1>2, <1>4 DEF LaneTypeOK
<1>6. \A k \in Lanes : /\ active[k] \subseteq active'[k]
                       /\ queue'[k] \cap active'[k] = {}
                       /\ Tasks(k)' = IF k = l THEN Tasks(k) \cup {c} ELSE Tasks(k)
  BY <1>4 DEF TaskPlaced, Tasks
<1>7. TaskPlaced'
  <2>1. \A k \in Lanes : \A t \in Tasks(k)' : LaneOf[t] = k /\ promise'[t] # "unused"
    BY <1>2, <1>6 DEF TaskPlaced, LaneTypeOK, Tasks
  <2>2. \A t \in settled : t \in active'[LaneOf[t]]
    BY <1>6, LaneAssumption DEF TaskPlaced, LaneTypeOK
  <2> QED BY <2>1, <2>2, <1>6 DEF TaskPlaced
<1>8. WaiterPlaced'
  BY <1>1, <1>2 DEF WaiterPlaced, LaneTypeOK
<1>9. InFlightExact'
  <2> SUFFICES ASSUME ~down, NEW k \in Lanes
               PROVE /\ inFlight'[k] = {ItemOf[t] : t \in Tasks(k)'}
                     /\ \A t, u \in Tasks(k)' : ItemOf[t] = ItemOf[u] => t = u
    BY DEF InFlightExact
  <2>1. /\ inFlight[k] = {ItemOf[t] : t \in Tasks(k)}
        /\ \A t, u \in Tasks(k) : ItemOf[t] = ItemOf[u] => t = u
    BY DEF InFlightExact
  <2>2. CASE k # l
    BY <1>2, <1>6, <2>1, <2>2 DEF LaneTypeOK
  <2>3. CASE k = l
    <3>1. \A t \in Tasks(k) : ItemOf[t] # i
      BY <1>2, <2>1, <2>3
    <3>2. inFlight'[k] = inFlight[k] \cup {i} /\ Tasks(k)' = Tasks(k) \cup {c}
      BY <1>1, <1>2, <1>6, <2>3 DEF LaneTypeOK
    <3> QED BY <2>1, <3>1, <3>2
  <2> QED BY <2>2, <2>3
<1>10. WaiterPerTask'
  <2> SUFFICES ASSUME ~down, NEW k \in Lanes, NEW j \in Items
               PROVE /\ (waiter'[k][j] # NoCall)
                           <=> (\E t \in Tasks(k)' \ settled : ItemOf[t] = j)
                     /\ waiter'[k][j] # NoCall => promise'[waiter'[k][j]] = "pending"
    BY DEF WaiterPerTask
  <2>1. /\ (waiter[k][j] # NoCall) <=> (\E t \in Tasks(k) \ settled : ItemOf[t] = j)
        /\ waiter[k][j] # NoCall => promise[waiter[k][j]] = "pending"
    BY DEF WaiterPerTask
  <2>2. waiter'[k][j] = IF k = l /\ j = i THEN c ELSE waiter[k][j]
    BY <1>1, <1>2 DEF LaneTypeOK
  <2>3. Tasks(k)' = IF k = l THEN Tasks(k) \cup {c} ELSE Tasks(k)
    BY <1>6
  <2> HIDE DEF l
  <2> QED BY <1>1, <1>2, <1>3, <2>1, <2>2, <2>3 DEF LaneTypeOK
<1> QED BY <1>5, <1>7, <1>8, <1>9, <1>10

\* The end of a run: its waiter is told, whoever that is by now.
LEMMA SettleKeepsInv ==
  ASSUME LaneInv, NEW t \in Calls, Running(t), NEW outcome \in {"resolved", "rejected"},
         SettleWaiter(t, outcome), settled' = settled \cup {t},
         UNCHANGED <<queue, active, inFlight, todo, rebatched, online, paused, down>>
  PROVE  LaneInv'
<1> USE DEF LaneInv
<1> DEFINE l == LaneOf[t]
           i == ItemOf[t]
           w == waiter[l][i]
<1>1. l \in Lanes /\ i \in Items
  BY LaneAssumption
<1>2. /\ promise' = [c \in Calls |-> IF c = w THEN outcome ELSE promise[c]]
      /\ waiter' = [waiter EXCEPT ![l][i] = NoCall]
      /\ t \in active[l] /\ t \notin settled
  BY DEF SettleWaiter, WaiterOf, Running
<1>3. LaneTypeOK'
  BY <1>1, <1>2 DEF LaneTypeOK
<1>4. TaskPlaced'
  BY <1>2 DEF TaskPlaced, LaneTypeOK, Tasks
<1>5. WaiterPlaced'
  BY <1>1, <1>2 DEF WaiterPlaced, LaneTypeOK
<1>6. InFlightExact'
  BY DEF InFlightExact, Tasks
<1>7. WaiterPerTask'
  <2> SUFFICES ASSUME ~down, NEW k \in Lanes, NEW j \in Items
               PROVE /\ (waiter'[k][j] # NoCall)
                           <=> (\E u \in Tasks(k) \ settled' : ItemOf[u] = j)
                     /\ waiter'[k][j] # NoCall => promise'[waiter'[k][j]] = "pending"
    BY DEF WaiterPerTask, Tasks
  <2>1. /\ (waiter[k][j] # NoCall) <=> (\E u \in Tasks(k) \ settled : ItemOf[u] = j)
        /\ waiter[k][j] # NoCall => promise[waiter[k][j]] = "pending"
    BY DEF WaiterPerTask
  <2>2. waiter'[k][j] = IF k = l /\ j = i THEN NoCall ELSE waiter[k][j]
    BY <1>1, <1>2 DEF LaneTypeOK
  <2>3. CASE k = l /\ j = i
    <3>1. \A u \in Tasks(l) : ItemOf[u] = i => u = t
      BY <1>1, <1>2 DEF InFlightExact, Tasks
    <3> QED BY <2>2, <2>3, <3>1
  <2>4. CASE ~(k = l /\ j = i)
    <3>1. \A u \in Tasks(k) : ItemOf[u] = j => u # t
      BY <2>4 DEF TaskPlaced
    <3>2. waiter[k][j] # NoCall => waiter[k][j] # w /\ waiter[k][j] \in Calls
      BY <1>1, <2>4 DEF WaiterPlaced, LaneTypeOK
    <3> QED BY <1>2, <2>1, <2>2, <2>4, <3>1, <3>2
  <2> QED BY <2>3, <2>4
<1> QED BY <1>3, <1>4, <1>5, <1>6, <1>7

LEMMA ReleaseKeepsInv ==
  ASSUME LaneInv, NEW t \in Calls, Release(t)
  PROVE  LaneInv'
<1> USE DEF LaneInv
<1> DEFINE l == LaneOf[t]
<1>1. l \in Lanes /\ ItemOf[t] \in Items
  BY LaneAssumption
<1>2. /\ t \in settled /\ t \in active[l]
      /\ settled' = settled \ {t}
      /\ active' = [active EXCEPT ![l] = @ \ {t}]
      /\ inFlight' = [inFlight EXCEPT ![l] = @ \ {ItemOf[t]}]
      /\ UNCHANGED <<queue, waiter, promise, todo, rebatched, online, paused, down>>
  BY DEF Release, TaskPlaced
<1>3. \A k \in Lanes : Tasks(k)' = IF k = l THEN Tasks(k) \ {t} ELSE Tasks(k)
  BY <1>1, <1>2 DEF Tasks, TaskPlaced, LaneTypeOK
<1>4. LaneTypeOK'
  BY <1>1, <1>2 DEF LaneTypeOK
<1>5. TaskPlaced'
  BY <1>2, <1>3, LaneAssumption DEF TaskPlaced, LaneTypeOK
<1>6. WaiterPlaced'
  BY <1>2 DEF WaiterPlaced
<1>7. InFlightExact'
  BY <1>1, <1>2, <1>3 DEF InFlightExact, LaneTypeOK, Tasks
<1>8. WaiterPerTask'
  BY <1>1, <1>2, <1>3 DEF WaiterPerTask, TaskPlaced, Tasks
<1> QED BY <1>4, <1>5, <1>6, <1>7, <1>8

\* wake() starts tasks that were queued.
LEMMA WakeStarts ==
  ASSUME LaneTypeOK, Wake
  PROVE  \E go \in [Lanes -> SUBSET Calls] :
           /\ \A l \in Lanes : go[l] \subseteq queue[l]
           /\ queue' = [l \in Lanes |-> queue[l] \ go[l]]
           /\ active' = [l \in Lanes |-> active[l] \cup go[l]]
<1>1. PICK goSync \in Drains("sync", queue["sync"]),
           goDown \in Drains("download", queue["download"]) :
        LET go == [l \in Lanes |-> IF l = "sync" THEN goSync ELSE goDown]
        IN  /\ queue' = [l \in Lanes |-> queue[l] \ go[l]]
            /\ active' = [l \in Lanes |-> active[l] \cup go[l]]
  BY DEF Wake
<1>2. goSync \subseteq queue["sync"] /\ goDown \subseteq queue["download"]
  BY DEF Drains, Runnable
<1> DEFINE both == [l \in Lanes |-> IF l = "sync" THEN goSync ELSE goDown]
<1>3. both \in [Lanes -> SUBSET Calls] /\ \A l \in Lanes : both[l] \subseteq queue[l]
  BY <1>2 DEF Lanes, LaneTypeOK
<1>4. /\ queue' = [l \in Lanes |-> queue[l] \ both[l]]
      /\ active' = [l \in Lanes |-> active[l] \cup both[l]]
  BY <1>1
<1> HIDE DEF both
<1> QED BY <1>3, <1>4

LEMMA WakeKeepsInv ==
  ASSUME LaneInv, Wake
  PROVE  LaneInv'
<1> USE DEF LaneInv
<1>1. PICK go \in [Lanes -> SUBSET Calls] :
        /\ \A l \in Lanes : go[l] \subseteq queue[l]
        /\ queue' = [l \in Lanes |-> queue[l] \ go[l]]
        /\ active' = [l \in Lanes |-> active[l] \cup go[l]]
  BY WakeStarts
<1>2. /\ UNCHANGED <<settled, inFlight, waiter, promise, todo, rebatched, online, down>>
      /\ paused' = FALSE
  BY DEF Wake
<1>3. \A k \in Lanes : /\ Tasks(k)' = Tasks(k)
                       /\ active[k] \subseteq active'[k]
                       /\ queue'[k] \cap active'[k] = {}
  BY <1>1 DEF Tasks, TaskPlaced
<1>4. LaneTypeOK'
  BY <1>1, <1>2 DEF LaneTypeOK
<1>5. TaskPlaced'
  BY <1>2, <1>3, LaneAssumption DEF TaskPlaced, LaneTypeOK
<1>6. WaiterPlaced'
  BY <1>2 DEF WaiterPlaced
<1>7. InFlightExact'
  BY <1>2, <1>3 DEF InFlightExact
<1>8. WaiterPerTask'
  BY <1>2, <1>3 DEF WaiterPerTask
<1> QED BY <1>4, <1>5, <1>6, <1>7, <1>8

\* shutdown(): the running tasks are all that is left, and they run on.
LEMMA ShutdownKeepsInv ==
  ASSUME LaneInv, Shutdown
  PROVE  LaneInv'
<1> USE DEF LaneInv, Shutdown
<1>1. LaneTypeOK'
  BY DEF LaneTypeOK
<1>2. TaskPlaced'
  BY DEF TaskPlaced, LaneTypeOK, Tasks
<1>3. WaiterPlaced'
  BY DEF WaiterPlaced
<1>4. InFlightExact' /\ WaiterPerTask'
  BY DEF InFlightExact, WaiterPerTask
<1> QED BY <1>1, <1>2, <1>3, <1>4

-----------------------------------------------------------------------------
(* The progress counters *)

LEMMA BatchInit == Init => BatchTypeOK
BY DEF BatchTypeOK, Init, NoBatch, Batches, Lanes

\* One more operation counted in, or out, of a share's batch.
LEMMA BatchCounts ==
  ASSUME batch \in [Shares -> Batches], NEW c \in Calls,
         CountQueued(c) \/ CountFinished(c)
  PROVE  batch' \in [Shares -> Batches]
<1> DEFINE s == ShareOfCall(c)
           b == batch[s]
           l == LaneOf[c]
<1>1. s \in Shares /\ l \in Lanes
  BY LaneAssumption DEF ShareOfCall
<1>2. b \in Batches
  BY <1>1
<1>0. /\ OneMore(b.queued, l) \in [Lanes -> Nat]
      /\ OneMore(b.finished, l) \in [Lanes -> Nat]
  BY <1>1, <1>2 DEF Batches, OneMore
<1>3. CASE CountQueued(c)
  <2> DEFINE p == IF b.phase = "none" THEN "pending" ELSE b.phase
  <2>1. [b EXCEPT !.queued = OneMore(b.queued, l), !.phase = p] \in Batches
    BY <1>2, <1>0 DEF Batches
  <2>2. batch' = [batch EXCEPT ![s] = [b EXCEPT !.queued = OneMore(b.queued, l), !.phase = p]]
    BY <1>3 DEF CountQueued
  <2> QED BY <1>1, <2>1, <2>2
<1>4. CASE CountFinished(c)
  <2> DEFINE counted == [b EXCEPT !.finished = OneMore(b.finished, l)]
  <2>1. counted \in Batches
    BY <1>2, <1>0 DEF Batches
  <2>2. [counted EXCEPT !.phase = "completed"] \in Batches
    BY <2>1 DEF Batches
  <2>3. \/ batch' = batch
        \/ batch' = [batch EXCEPT ![s] = counted]
        \/ batch' = [batch EXCEPT ![s] = [counted EXCEPT !.phase = "completed"]]
    BY <1>4 DEF CountFinished
  <2> QED BY <1>1, <2>1, <2>2, <2>3
<1> QED BY <1>3, <1>4

LEMMA BatchStep == BatchTypeOK /\ [Next]_vars => BatchTypeOK'
<1> SUFFICES ASSUME batch \in [Shares -> Batches], [Next]_vars
             PROVE  batch' \in [Shares -> Batches]
  BY DEF BatchTypeOK
<1>1. CASE UNCHANGED batch
  BY <1>1
<1>2. ASSUME NEW c \in Calls, CountQueued(c) \/ CountFinished(c)
      PROVE  batch' \in [Shares -> Batches]
  BY <1>2, BatchCounts
<1>3. ASSUME NEW t \in Calls, FailQueueItem(t)
      PROVE  batch' \in [Shares -> Batches]
  BY <1>3, LaneAssumption DEF FailQueueItem, Batches, ShareOfCall
<1>4. ASSUME NEW s \in Shares, EnqueueShareUpload(s)
      PROVE  batch' \in [Shares -> Batches]
  <2> DEFINE n == Cardinality(ItemsOf(s))
             b == [NoBatch EXCEPT !.queued["sync"] = n, !.phase = "running"]
  <2>1. n \in Nat
    <3>1. ItemsOf(s) \subseteq Items
      BY DEF ItemsOf
    <3>2. IsFiniteSet(Items)
      BY LaneAssumption
    <3>3. IsFiniteSet(ItemsOf(s))
      BY <3>1, <3>2, FS_Subset
    <3> QED BY <3>3, FS_CardinalityType
  <2>2. b \in Batches
    <3> HIDE DEF n
    <3> QED BY <2>1 DEF NoBatch, Batches, Lanes
  <2>3. batch' = [batch EXCEPT ![s] = b]
    BY <1>4 DEF EnqueueShareUpload
  <2> HIDE DEF b
  <2> QED BY <2>2, <2>3
<1>5. CASE UNCHANGED vars
  BY <1>1, <1>5 DEF vars
<1>6. CASE \E c \in Calls : EnqueueInBatch(c)
  BY <1>1, <1>6 DEF EnqueueInBatch
<1>7. CASE \E c \in Calls : EnqueueUpload(c) \/ EnqueueFetch(c)
  BY <1>1, <1>2, <1>7 DEF EnqueueUpload, EnqueueFetch
<1>8. CASE \E t \in Calls : CompleteQueueItem(t) \/ FailQueueItem(t) \/ Release(t)
  BY <1>1, <1>2, <1>3, <1>8 DEF CompleteQueueItem, Release
<1>9. CASE \/ \E l \in Lanes : DrainLane(l)
           \/ \E s \in Shares : ShareOnline(s) \/ ShareOffline(s)
           \/ Suspend \/ Wake \/ Shutdown
  BY <1>1, <1>9 DEF DrainLane, ShareOnline, ShareOffline, Suspend, Wake, Shutdown
<1> QED BY <1>4, <1>5, <1>6, <1>7, <1>8, <1>9 DEF Next

-----------------------------------------------------------------------------
(* The theorems *)

LEMMA LaneInvInit == Init => LaneInv
<1> SUFFICES ASSUME Init PROVE LaneInv
  OBVIOUS
<1> USE DEF Init
<1>1. LaneTypeOK
  BY DEF LaneTypeOK
<1>2. TaskPlaced /\ WaiterPlaced
  BY DEF TaskPlaced, WaiterPlaced, Tasks
<1>3. InFlightExact /\ WaiterPerTask
  BY DEF InFlightExact, WaiterPerTask, Tasks
<1> QED BY <1>1, <1>2, <1>3 DEF LaneInv

LEMMA LaneInvStep == LaneInv /\ [Next]_vars => LaneInv'
<1> SUFFICES ASSUME LaneInv, [Next]_vars PROVE LaneInv'
  OBVIOUS
<1>0. LaneTypeOK
  BY DEF LaneInv
<1>1. ASSUME NEW c \in Calls, EnqueueUpload(c) PROVE LaneInv'
  BY <1>0, <1>1, TakeOverKeepsInv, NothingToAwaitKeepsInv, PushKeepsInv
     DEF EnqueueUpload, LaneTypeOK
<1>2. ASSUME NEW c \in Calls, EnqueueFetch(c) PROVE LaneInv'
  BY <1>0, <1>2, TakeOverKeepsInv, NothingToAwaitKeepsInv, PushKeepsInv
     DEF EnqueueFetch, LaneTypeOK
<1>3. ASSUME NEW c \in Calls, EnqueueInBatch(c) PROVE LaneInv'
  BY <1>0, <1>3, TakeOverKeepsInv, NothingToAwaitKeepsInv, PushKeepsInv
     DEF EnqueueInBatch, LaneTypeOK
<1>4. ASSUME NEW t \in Calls, CompleteQueueItem(t) PROVE LaneInv'
  BY <1>4, SettleKeepsInv DEF CompleteQueueItem
<1>5. ASSUME NEW t \in Calls, FailQueueItem(t) PROVE LaneInv'
  BY <1>5, SettleKeepsInv DEF FailQueueItem
<1>6. ASSUME NEW t \in Calls, Release(t) PROVE LaneInv'
  BY <1>6, ReleaseKeepsInv
<1>7. ASSUME NEW l \in Lanes, DrainLane(l) PROVE LaneInv'
  BY <1>0, <1>7, JustDrainKeepsInv DEF DrainLane, LaneTypeOK
<1>8. CASE \/ \E s \in Shares : EnqueueShareUpload(s) \/ ShareOnline(s) \/ ShareOffline(s)
           \/ Suspend
           \/ UNCHANGED vars
  <2>1. UNCHANGED laneVars /\ UNCHANGED down /\ todo' \in SUBSET Items
        /\ rebatched' \in SUBSET Shares /\ online' \in SUBSET Shares
        /\ paused' \in BOOLEAN
    BY <1>0, <1>8 DEF EnqueueShareUpload, ShareOnline, ShareOffline, Suspend, vars,
                      laneVars, LaneTypeOK, ItemsOf
  <2>2. LaneTypeOK'
    BY <1>0, <2>1 DEF LaneTypeOK, laneVars
  <2>3. UNCHANGED <<TaskPlaced, WaiterPlaced, InFlightExact, WaiterPerTask>>
    BY <2>1 DEF laneVars, TaskPlaced, WaiterPlaced, InFlightExact, WaiterPerTask, Tasks
  <2> QED BY <2>2, <2>3 DEF LaneInv
<1>9. CASE Wake
  BY <1>9, WakeKeepsInv
<1>10. CASE Shutdown
  BY <1>10, ShutdownKeepsInv
<1> QED BY <1>1, <1>2, <1>3, <1>4, <1>5, <1>6, <1>7, <1>8, <1>9, <1>10 DEF Next

LEMMA LaneInvAlways == Spec => []LaneInv
BY LaneInvInit, LaneInvStep, PTL DEF Spec

(***************************************************************************)
(* Every variable of the queue keeps its type: in particular the progress  *)
(* counters stay natural numbers.                                          *)
(***************************************************************************)
THEOREM TypesHold == Spec => []TypeOK
<1>1. Spec => []BatchTypeOK
  BY BatchInit, BatchStep, PTL DEF Spec
<1>2. LaneInv /\ BatchTypeOK => TypeOK
  BY DEF LaneInv, LaneTypeOK, BatchTypeOK, Batches, TypeOK
<1> QED BY <1>1, <1>2, LaneInvAlways, PTL

(***************************************************************************)
(* pushToLane and the .finally() of a run keep inFlight equal to the items *)
(* of the queued and running tasks, with one task per item and lane.       *)
(***************************************************************************)
THEOREM InFlightIsExact == Spec => []InFlightExact
<1>1. LaneInv => InFlightExact
  BY DEF LaneInv
<1> QED BY <1>1, LaneInvAlways, PTL

(***************************************************************************)
(* Each task whose run has not ended has one waiter, with a pending        *)
(* promise, and no other item has one.                                     *)
(***************************************************************************)
THEOREM OneWaiterPerTask == Spec => []WaiterPerTask
<1>1. LaneInv => WaiterPerTask
  BY DEF LaneInv
<1> QED BY <1>1, LaneInvAlways, PTL

\* Both at once: the books of every lane agree with its tasks.
THEOREM LaneBooksAreExact == Spec => []LaneBooksExact
<1>1. LaneInv => LaneBooksExact
  BY DEF LaneInv, LaneBooksExact
<1> QED BY <1>1, LaneInvAlways, PTL

-----------------------------------------------------------------------------
(* The progress counters cover the tasks.  A share's batch counts at least *)
(* the tasks that are not finished besides those it has counted finished,  *)
(* so when the two totals meet none is left.  enqueueShareUpload starts    *)
(* counting anew, and from then on nothing is said of that share.          *)

CountsCover(s) ==
  /\ IsFiniteSet(Unfinished(s))
  /\ Cardinality(Unfinished(s)) + Total(batch[s].finished) <= Total(batch[s].queued)
  /\ batch[s].phase = "none" => Unfinished(s) = {}

CountInv ==
  /\ \A s \in Shares \ rebatched : CountsCover(s)
  /\ \A i \in todo : ShareOf[i] \in rebatched

\* A step after which the counters cover the tasks of s, and complete its batch
\* only when no task is left.
CountsOn(s) ==
  /\ CountsCover(s)'
  /\ batch[s].phase # "completed" /\ batch'[s].phase = "completed" => Unfinished(s)' = {}

LEMMA UnfinishedAre ==
  ASSUME NEW s, NEW t
  PROVE  /\ t \in Unfinished(s) <=>
              (\E l \in Lanes : t \in Tasks(l) \ settled /\ ShareOfCall(t) = s)
         /\ t \in Unfinished(s)' <=>
              (\E l \in Lanes : t \in Tasks(l)' \ settled' /\ ShareOfCall(t) = s)
BY DEF Unfinished, ShareOfCall

\* A drain takes no task in but those it was given.
LEMMA DrainTakesNoOther ==
  ASSUME LaneTypeOK, NEW l \in Lanes, NEW q \in SUBSET Calls, QueueAndDrain(l, q)
  PROVE  \A k \in Lanes : Tasks(k)' \subseteq Tasks(k) \cup q
<1>1. PICK go \in SUBSET q : /\ queue' = [queue EXCEPT ![l] = q \ go]
                             /\ active' = [active EXCEPT ![l] = @ \cup go]
  BY DEF QueueAndDrain, Drains, Runnable
<1> QED BY <1>1 DEF LaneTypeOK, Tasks

\* The tasks of s are not more, and its counters stand.
LEMMA FewerTasksCount ==
  ASSUME NEW s \in Shares, BatchTypeOK, CountsCover(s), Unfinished(s)' \subseteq Unfinished(s),
         batch'[s].queued = batch[s].queued, batch'[s].finished = batch[s].finished,
         batch'[s].phase = batch[s].phase
           \/ (batch[s].phase # "none" /\ batch'[s].phase = "failed")
  PROVE  CountsOn(s)
<1>1. /\ IsFiniteSet(Unfinished(s)')
      /\ Cardinality(Unfinished(s)') <= Cardinality(Unfinished(s))
      /\ Cardinality(Unfinished(s)) \in Nat /\ Cardinality(Unfinished(s)') \in Nat
  BY FS_Subset, FS_CardinalityType DEF CountsCover
<1>2. Total(batch[s].finished) \in Nat /\ Total(batch[s].queued) \in Nat
  BY DEF BatchTypeOK, Batches, Total, Lanes
<1> DEFINE m == Cardinality(Unfinished(s))
           n == Cardinality(Unfinished(s)')
           f == Total(batch[s].finished)
           g == Total(batch[s].queued)
<1>3. n + f <= g
  <2>1. m + f <= g
    BY DEF CountsCover
  <2> HIDE DEF m, n, f, g
  <2>2. n <= m /\ m \in Nat /\ n \in Nat /\ f \in Nat /\ g \in Nat
    BY <1>1, <1>2 DEF m, n, f, g
  <2> QED BY <2>1, <2>2
<1> QED BY <1>1, <1>3 DEF CountsOn, CountsCover, Total

\* A new task of s, counted.
LEMMA OneTaskMoreCounts ==
  ASSUME NEW s \in Shares, BatchTypeOK, CountsCover(s),
         NEW c, Unfinished(s)' \subseteq Unfinished(s) \cup {c},
         Total(batch'[s].queued) = Total(batch[s].queued) + 1,
         batch'[s].finished = batch[s].finished,
         batch'[s].phase = IF batch[s].phase = "none" THEN "pending" ELSE batch[s].phase
  PROVE  CountsOn(s)
<1> DEFINE more == Unfinished(s) \cup {c}
<1>1. /\ IsFiniteSet(more) /\ Cardinality(more) <= Cardinality(Unfinished(s)) + 1
      /\ Cardinality(more) \in Nat /\ Cardinality(Unfinished(s)) \in Nat
  <2>1. IsFiniteSet(Unfinished(s)) /\ Cardinality(Unfinished(s)) \in Nat
    BY FS_CardinalityType DEF CountsCover
  <2>2. /\ IsFiniteSet(more)
        /\ Cardinality(more) = IF c \in Unfinished(s) THEN Cardinality(Unfinished(s))
                               ELSE Cardinality(Unfinished(s)) + 1
    BY <2>1, FS_AddElement
  <2> HIDE DEF more
  <2> QED BY <2>1, <2>2
<1>2. /\ IsFiniteSet(Unfinished(s)') /\ Cardinality(Unfinished(s)') <= Cardinality(more)
      /\ Cardinality(Unfinished(s)') \in Nat
  <2> HIDE DEF more
  <2> QED BY <1>1, FS_Subset, FS_CardinalityType DEF more
<1>3. Total(batch[s].finished) \in Nat /\ Total(batch[s].queued) \in Nat
  BY DEF BatchTypeOK, Batches, Total, Lanes
<1> DEFINE m == Cardinality(Unfinished(s))
           k == Cardinality(more)
           n == Cardinality(Unfinished(s)')
           f == Total(batch[s].finished)
           g == Total(batch[s].queued)
<1>4. n + f <= g + 1
  <2>1. m + f <= g
    BY DEF CountsCover
  <2> HIDE DEF m, n, f, g, k
  <2>2. n <= k /\ k <= m + 1 /\ m \in Nat /\ n \in Nat /\ k \in Nat /\ f \in Nat /\ g \in Nat
    BY <1>1, <1>2, <1>3 DEF m, n, f, g, k
  <2> QED BY <2>1, <2>2
<1> QED BY <1>2, <1>4 DEF CountsOn, CountsCover, Total

\* A task of s has finished and is counted.
LEMMA FinishedTaskCounts ==
  ASSUME NEW s \in Shares, BatchTypeOK, CountsCover(s),
         NEW t \in Unfinished(s), Unfinished(s)' = Unfinished(s) \ {t},
         batch'[s].queued = batch[s].queued,
         Total(batch'[s].finished) = Total(batch[s].finished) + 1,
         batch'[s].phase = IF Total(batch'[s].finished) = Total(batch'[s].queued)
                           THEN "completed" ELSE batch[s].phase
  PROVE  CountsOn(s)
<1>1. /\ IsFiniteSet(Unfinished(s)')
      /\ Cardinality(Unfinished(s)') = Cardinality(Unfinished(s)) - 1
      /\ Cardinality(Unfinished(s)) \in Nat /\ Cardinality(Unfinished(s)') \in Nat
  BY FS_RemoveElement, FS_CardinalityType DEF CountsCover
<1>2. Total(batch[s].finished) \in Nat /\ Total(batch[s].queued) \in Nat
  BY DEF BatchTypeOK, Batches, Total, Lanes
<1> DEFINE m == Cardinality(Unfinished(s))
           n == Cardinality(Unfinished(s)')
           f == Total(batch[s].finished)
           g == Total(batch[s].queued)
<1>3. n + (f + 1) <= g /\ (f + 1 = g => n = 0)
  <2>1. m + f <= g
    BY DEF CountsCover
  <2> HIDE DEF m, n, f, g
  <2>2. n = m - 1 /\ m \in Nat /\ n \in Nat /\ f \in Nat /\ g \in Nat
    BY <1>1, <1>2 DEF m, n, f, g
  <2> QED BY <2>1, <2>2
<1>4. n = 0 => Unfinished(s)' = {}
  <2> HIDE DEF n
  <2> QED BY <1>1, FS_EmptySet DEF n
<1>5. batch[s].phase # "none"
  BY DEF CountsCover
<1>6. batch'[s].phase = "completed" => batch[s].phase = "completed" \/ Unfinished(s)' = {}
  <2>1. CASE f + 1 = g
    BY <1>3, <1>4, <2>1
  <2>2. CASE f + 1 # g
    BY <2>2
  <2> QED BY <2>1, <2>2
<1>7. Cardinality(Unfinished(s)') + Total(batch'[s].finished) <= Total(batch'[s].queued)
  <2> HIDE DEF n, f, g
  <2>1. n + (f + 1) <= g
    BY <1>3
  <2> QED BY <2>1 DEF n, f, g
<1>8. batch'[s].phase # "none"
  BY <1>5
<1> QED BY <1>1, <1>6, <1>7, <1>8 DEF CountsOn, CountsCover, Total

LEMMA OneMoreIsOneMore ==
  ASSUME NEW n \in [Lanes -> Nat], NEW l \in Lanes
  PROVE  Total(OneMore(n, l)) = Total(n) + 1
BY DEF Total, OneMore, Lanes

LEMMA SharesOfCalls == \A c \in Calls : LaneOf[c] \in Lanes /\ ShareOfCall(c) \in Shares
BY LaneAssumption DEF ShareOfCall

\* A call that makes no task, or whose task is none of the share's.
LEMMA CallsElsewhereCount ==
  ASSUME LaneInv, BatchTypeOK, NEW s \in Shares, CountsCover(s), NEW c \in Calls,
         \/ NoDrain \/ JustDrain(c)
         \/ PushToLane(c) /\ ShareOfCall(c) # s,
         settled' = settled, batch'[s] = batch[s]
  PROVE  CountsOn(s)
<1>1. LaneTypeOK
  BY DEF LaneInv
<1> DEFINE l == LaneOf[c]
<1>2. l \in Lanes /\ queue[l] \in SUBSET Calls /\ queue[l] \cup {c} \in SUBSET Calls
  BY <1>1, SharesOfCalls DEF LaneTypeOK
<1>3. \A k \in Lanes : Tasks(k)' \subseteq Tasks(k) \cup (queue[l] \cup (IF ShareOfCall(c) # s THEN {c} ELSE {}))
  <2>1. CASE NoDrain
    BY <2>1 DEF NoDrain, Tasks
  <2>2. CASE JustDrain(c)
    BY <1>1, <1>2, <2>2, DrainTakesNoOther DEF JustDrain
  <2>3. CASE PushToLane(c) /\ ShareOfCall(c) # s
    <3>1. QueueAndDrain(l, queue[l] \cup {c})
      BY <2>3 DEF PushToLane
    <3> HIDE DEF l
    <3>2. \A k \in Lanes : Tasks(k)' \subseteq Tasks(k) \cup (queue[l] \cup {c})
      BY <1>1, <1>2, <3>1, DrainTakesNoOther
    <3> QED BY <2>3, <3>2
  <2> QED BY <2>1, <2>2, <2>3
<1>4. Unfinished(s)' \subseteq Unfinished(s)
  <2> SUFFICES ASSUME NEW t \in Unfinished(s)' PROVE t \in Unfinished(s)
    OBVIOUS
  <2>1. PICK k \in Lanes : t \in Tasks(k)' \ settled' /\ ShareOfCall(t) = s
    BY UnfinishedAre
  <2>2. t \in Tasks(k) \/ t \in queue[l]
    BY <1>3, <2>1
  <2>3. queue[l] \subseteq Tasks(l)
    BY DEF Tasks
  <2> HIDE DEF l
  <2> QED BY <1>2, <2>1, <2>2, <2>3, UnfinishedAre
<1> QED BY <1>4, FewerTasksCount

\* pushToLane, and the operation counted in the share's batch.
LEMMA CountedPushCounts ==
  ASSUME LaneInv, BatchTypeOK, NEW c \in Calls, CountsCover(ShareOfCall(c)),
         PushToLane(c), CountQueued(c), settled' = settled
  PROVE  CountsOn(ShareOfCall(c))
<1> DEFINE s == ShareOfCall(c)
           l == LaneOf[c]
<1>1. LaneTypeOK /\ s \in Shares /\ l \in Lanes
  BY SharesOfCalls DEF LaneInv
<1>2. queue[l] \cup {c} \in SUBSET Calls /\ QueueAndDrain(l, queue[l] \cup {c})
  BY <1>1 DEF LaneTypeOK, PushToLane
<1>3. Unfinished(s)' \subseteq Unfinished(s) \cup {c}
  <2> SUFFICES ASSUME NEW t \in Unfinished(s)' PROVE t \in Unfinished(s) \cup {c}
    OBVIOUS
  <2> HIDE DEF s, l
  <2>1. PICK k \in Lanes : t \in Tasks(k)' \ settled' /\ ShareOfCall(t) = s
    BY UnfinishedAre
  <2>2. Tasks(k)' \subseteq Tasks(k) \cup (queue[l] \cup {c})
    BY <1>1, <1>2, DrainTakesNoOther
  <2>3. queue[l] \subseteq Tasks(l)
    BY DEF Tasks
  <2> QED BY <1>1, <2>1, <2>2, <2>3, UnfinishedAre
<1>4. batch[s].queued \in [Lanes -> Nat] /\ batch[s] \in Batches
  BY <1>1 DEF BatchTypeOK, Batches
<1>5. batch'[s] = [batch[s] EXCEPT !.queued = OneMore(batch[s].queued, l),
                                  !.phase = IF batch[s].phase = "none" THEN "pending" ELSE batch[s].phase]
  BY <1>1 DEF CountQueued, BatchTypeOK
<1>6. /\ batch'[s].queued = OneMore(batch[s].queued, l)
      /\ batch'[s].finished = batch[s].finished
      /\ batch'[s].phase = IF batch[s].phase = "none" THEN "pending" ELSE batch[s].phase
  BY <1>4, <1>5 DEF Batches
<1> HIDE DEF s, l
<1>7. Total(batch'[s].queued) = Total(batch[s].queued) + 1
  BY <1>1, <1>4, <1>6, OneMoreIsOneMore
<1>8. CountsOn(s)
  BY <1>1, <1>3, <1>6, <1>7, OneTaskMoreCounts DEF s
<1> QED BY <1>8 DEF s

\* The end of a run: its task, in its own lane and no other, is one of the
\* share's unfinished ones.
LEMMA EndedRun ==
  ASSUME LaneInv, NEW t \in Calls, Running(t), settled' = settled \cup {t},
         UNCHANGED <<queue, active>>
  PROVE  /\ t \in Unfinished(ShareOfCall(t))
         /\ \A s : Unfinished(s)' = Unfinished(s) \ {t}
<1>1. LaneOf[t] \in Lanes /\ t \in Tasks(LaneOf[t]) \ settled
  BY SharesOfCalls DEF Running, Tasks
<1>2. t \in Unfinished(ShareOfCall(t))
  BY <1>1, UnfinishedAre
<1>3. ASSUME NEW s PROVE Unfinished(s)' = Unfinished(s) \ {t}
  BY UnfinishedAre DEF Unfinished, Tasks
<1> QED BY <1>2, <1>3

LEMMA CompleteCounts ==
  ASSUME LaneInv, BatchTypeOK, NEW s \in Shares, CountsCover(s), NEW t \in Calls,
         CompleteQueueItem(t)
  PROVE  CountsOn(s)
<1>1. t \in Unfinished(ShareOfCall(t)) /\ Unfinished(s)' = Unfinished(s) \ {t}
  BY EndedRun DEF CompleteQueueItem
<1>2. CASE ShareOfCall(t) # s \/ batch[ShareOfCall(t)].phase = "none"
  <2>1. batch'[s] = batch[s]
    BY <1>2 DEF CompleteQueueItem, CountFinished, BatchTypeOK
  <2> QED BY <1>1, <2>1, FewerTasksCount
<1>3. CASE ShareOfCall(t) = s /\ batch[s].phase # "none"
  <2> DEFINE l == LaneOf[t]
             counted == [batch[s] EXCEPT !.finished = OneMore(batch[s].finished, l)]
  <2>1. l \in Lanes /\ batch[s] \in Batches /\ batch[s].finished \in [Lanes -> Nat]
    BY SharesOfCalls DEF BatchTypeOK, Batches
  <2>2. batch'[s] = IF Total(counted.finished) = Total(counted.queued)
                    THEN [counted EXCEPT !.phase = "completed"] ELSE counted
    BY <1>3 DEF CompleteQueueItem, CountFinished, BatchTypeOK
  <2>3. /\ counted.finished = OneMore(batch[s].finished, l)
        /\ counted.queued = batch[s].queued /\ counted.phase = batch[s].phase
        /\ [counted EXCEPT !.phase = "completed"].finished = OneMore(batch[s].finished, l)
        /\ [counted EXCEPT !.phase = "completed"].queued = batch[s].queued
        /\ [counted EXCEPT !.phase = "completed"].phase = "completed"
    BY <2>1 DEF Batches
  <2> HIDE DEF counted
  <2>4. /\ batch'[s].finished = OneMore(batch[s].finished, l)
        /\ batch'[s].queued = batch[s].queued
        /\ batch'[s].phase = IF Total(batch'[s].finished) = Total(batch'[s].queued)
                             THEN "completed" ELSE batch[s].phase
    BY <2>2, <2>3
  <2> HIDE DEF l
  <2>5. Total(batch'[s].finished) = Total(batch[s].finished) + 1
    BY <2>1, <2>4, OneMoreIsOneMore
  <2> QED BY <1>1, <1>3, <2>4, <2>5, FinishedTaskCounts
<1> QED BY <1>2, <1>3

LEMMA FailCounts ==
  ASSUME LaneInv, BatchTypeOK, NEW s \in Shares, CountsCover(s), NEW t \in Calls,
         FailQueueItem(t)
  PROVE  CountsOn(s)
<1>1. Unfinished(s)' \subseteq Unfinished(s)
  BY EndedRun DEF FailQueueItem
<1>2. /\ batch'[s].queued = batch[s].queued /\ batch'[s].finished = batch[s].finished
      /\ \/ batch'[s].phase = batch[s].phase
         \/ batch[s].phase # "none" /\ batch'[s].phase = "failed"
  BY SharesOfCalls DEF FailQueueItem, BatchTypeOK, Batches
<1> QED BY <1>1, <1>2, FewerTasksCount

LEMMA CountsStep ==
  ASSUME LaneInv, BatchTypeOK, CountInv, [Next]_vars, NEW s \in Shares \ rebatched'
  PROVE  s \notin rebatched /\ CountsOn(s)
<1>0. rebatched \subseteq rebatched'
  BY DEF Next, EnqueueInBatch, EnqueueUpload, EnqueueFetch, CompleteQueueItem, FailQueueItem,
         Release, DrainLane, EnqueueShareUpload, ShareOnline, ShareOffline, Suspend, Wake,
         Shutdown, vars
<1>1. s \in Shares /\ s \notin rebatched /\ CountsCover(s) /\ LaneTypeOK
  BY <1>0 DEF CountInv, LaneInv
<1>2. ASSUME NEW c \in Calls, EnqueueInBatch(c) PROVE CountsOn(s)
  <2>1. ShareOfCall(c) # s
    BY <1>1, <1>2 DEF EnqueueInBatch, CountInv, ShareOfCall
  <2>2. settled' = settled /\ batch' = batch
    BY <1>2 DEF EnqueueInBatch
  <2>3. NoDrain \/ JustDrain(c) \/ PushToLane(c)
    BY <1>2 DEF EnqueueInBatch
  <2> QED BY <1>1, <2>1, <2>2, <2>3, CallsElsewhereCount
<1>3. ASSUME NEW c \in Calls, EnqueueUpload(c) \/ EnqueueFetch(c) PROVE CountsOn(s)
  <2>1. settled' = settled
    BY <1>3 DEF EnqueueUpload, EnqueueFetch
  <2>2. CASE (NoDrain \/ JustDrain(c)) /\ batch' = batch
    BY <1>1, <2>1, <2>2, CallsElsewhereCount
  <2>3. CASE PushToLane(c) /\ CountQueued(c)
    <3>1. CASE ShareOfCall(c) = s
      BY <1>1, <2>1, <2>3, <3>1, CountedPushCounts
    <3>2. CASE ShareOfCall(c) # s
      <4>1. batch'[s] = batch[s]
        BY <1>1, <2>3, <3>2 DEF CountQueued, BatchTypeOK
      <4> QED BY <1>1, <2>1, <2>3, <3>2, <4>1, CallsElsewhereCount
    <3> QED BY <3>1, <3>2
  <2> QED BY <1>3, <2>2, <2>3 DEF EnqueueUpload, EnqueueFetch
<1>4. ASSUME NEW t \in Calls, CompleteQueueItem(t) PROVE CountsOn(s)
  BY <1>1, <1>4, CompleteCounts
<1>5. ASSUME NEW t \in Calls, FailQueueItem(t) PROVE CountsOn(s)
  BY <1>1, <1>5, FailCounts
\* Of what is left only the drains, a released task and shutdown() touch a task.
<1>6. ASSUME batch' = batch, \A k \in Lanes : Tasks(k)' \ settled' \subseteq Tasks(k) \ settled
      PROVE  CountsOn(s)
  <2>1. Unfinished(s)' \subseteq Unfinished(s)
    BY <1>6, UnfinishedAre
  <2> QED BY <1>1, <1>6, <2>1, FewerTasksCount
<1>7. ASSUME NEW t \in Calls, Release(t) PROVE CountsOn(s)
  <2>1. \A k \in Lanes : Tasks(k)' \ settled' \subseteq Tasks(k) \ settled
    <3>1. t \in active[LaneOf[t]] /\ LaneOf[t] \in Lanes
      BY <1>7, SharesOfCalls DEF Release, LaneInv, TaskPlaced
    <3>2. \A k \in Lanes : t \in Tasks(k) => k = LaneOf[t]
      BY DEF LaneInv, TaskPlaced
    <3>3. \A k \in Lanes : Tasks(k)' = IF k = LaneOf[t] THEN Tasks(k) \ {t} ELSE Tasks(k)
      BY <1>1, <1>7, <3>1 DEF Release, Tasks, LaneInv, LaneTypeOK, TaskPlaced
    <3>4. settled' = settled \ {t}
      BY <1>7 DEF Release
    <3> QED BY <3>2, <3>3, <3>4
  <2>2. batch' = batch
    BY <1>7 DEF Release
  <2> QED BY <1>6, <2>1, <2>2
<1>8. ASSUME NEW l \in Lanes, DrainLane(l) PROVE CountsOn(s)
  <2>1. queue[l] \in SUBSET Calls /\ QueueAndDrain(l, queue[l])
    BY <1>1, <1>8 DEF DrainLane, LaneTypeOK
  <2>2. \A k \in Lanes : Tasks(k)' = Tasks(k)
    BY <1>1, <2>1, DrainKeepsTasks DEF LaneInv
  <2> QED BY <1>6, <1>8, <2>2 DEF DrainLane
<1>9. ASSUME NEW x \in Shares, EnqueueShareUpload(x) PROVE CountsOn(s)
  <2>1. x # s /\ batch'[s] = batch[s]
    BY <1>1, <1>9 DEF EnqueueShareUpload, BatchTypeOK
  <2>2. Unfinished(s)' = Unfinished(s)
    BY <1>9 DEF EnqueueShareUpload, laneVars, Unfinished, Tasks
  <2> QED BY <1>1, <2>1, <2>2, FewerTasksCount
<1>10. CASE Wake
  <2>1. PICK go \in [Lanes -> SUBSET Calls] :
          /\ \A l \in Lanes : go[l] \subseteq queue[l]
          /\ queue' = [l \in Lanes |-> queue[l] \ go[l]]
          /\ active' = [l \in Lanes |-> active[l] \cup go[l]]
    BY <1>1, <1>10, WakeStarts
  <2> QED BY <1>6, <1>10, <2>1 DEF Wake, Tasks
<1>11. CASE Shutdown
  BY <1>6, <1>11 DEF Shutdown, Tasks
<1>12. CASE (\E x \in Shares : ShareOnline(x) \/ ShareOffline(x)) \/ Suspend \/ UNCHANGED vars
  BY <1>6, <1>12 DEF ShareOnline, ShareOffline, Suspend, vars, laneVars, Tasks
<1> QED BY <1>1, <1>2, <1>3, <1>4, <1>5, <1>7, <1>8, <1>9, <1>10, <1>11, <1>12 DEF Next

LEMMA CountInvInit == Init => CountInv
<1> SUFFICES ASSUME Init PROVE CountInv
  OBVIOUS
<1>1. \A s \in Shares : Unfinished(s) = {}
  BY DEF Init, Unfinished, Tasks
<1>2. \A s \in Shares : batch[s] = NoBatch
  BY DEF Init
<1>3. Total(NoBatch.queued) = 0 /\ Total(NoBatch.finished) = 0
  BY DEF NoBatch, Total, Lanes
<1>4. \A s \in Shares : CountsCover(s)
  BY <1>1, <1>2, <1>3, FS_EmptySet DEF CountsCover
<1> QED BY <1>4 DEF Init, CountInv

LEMMA CountInvStep == LaneInv /\ BatchTypeOK /\ CountInv /\ [Next]_vars => CountInv'
<1> SUFFICES ASSUME LaneInv, BatchTypeOK, CountInv, [Next]_vars PROVE CountInv'
  OBVIOUS
<1>1. \A s \in Shares \ rebatched' : CountsCover(s)'
  BY CountsStep DEF CountsOn
<1>2. \A i \in todo' : ShareOf[i] \in rebatched'
  BY DEF CountInv, ItemsOf, Next, EnqueueInBatch, EnqueueUpload, EnqueueFetch,
         CompleteQueueItem, FailQueueItem, Release, DrainLane, EnqueueShareUpload,
         ShareOnline, ShareOffline, Suspend, Wake, Shutdown, vars
<1> QED BY <1>1, <1>2 DEF CountInv

(***************************************************************************)
(* completeQueueItem calls a share's batch completed only when no task of  *)
(* the share is left in either lane, unless enqueueShareUpload has         *)
(* replaced the counters.                                                  *)
(***************************************************************************)
THEOREM CompletedIsIdle == Spec => CompletedMeansIdle
<1> DEFINE Idles == \A s \in Shares \ rebatched :
                      (batch[s].phase # "completed" /\ batch'[s].phase = "completed")
                        => Unfinished(s)' = {}
<1>1. LaneInv /\ BatchTypeOK /\ CountInv /\ [Next]_vars => [Idles]_vars
  <2> SUFFICES ASSUME LaneInv, BatchTypeOK, CountInv, [Next]_vars,
                      NEW s \in Shares \ rebatched,
                      batch[s].phase # "completed", batch'[s].phase = "completed"
               PROVE  Unfinished(s)' = {}
    OBVIOUS
  <2>1. s \notin rebatched'
    <3>1. ASSUME NEW x \in Shares, EnqueueShareUpload(x) PROVE s # x
      <4>1. [NoBatch EXCEPT !.queued["sync"] = Cardinality(ItemsOf(x)), !.phase = "running"].phase = "running"
        BY DEF NoBatch
      <4>2. x = s => batch'[s].phase = "running"
        BY <3>1, <4>1 DEF EnqueueShareUpload, BatchTypeOK
      <4> QED BY <4>2
    <3>2. \A x \in Shares : EnqueueShareUpload(x) => rebatched' = rebatched \cup {x}
      BY DEF EnqueueShareUpload
    <3> QED BY <3>1, <3>2 DEF Next, EnqueueInBatch, EnqueueUpload, EnqueueFetch,
               CompleteQueueItem, FailQueueItem, Release, DrainLane, ShareOnline,
               ShareOffline, Suspend, Wake, Shutdown, vars
  <2> QED BY <2>1, CountsStep DEF CountsOn
<1>2. Spec => []BatchTypeOK
  BY BatchInit, BatchStep, PTL DEF Spec
<1>3. Spec => []CountInv
  BY <1>2, CountInvInit, CountInvStep, LaneInvAlways, PTL DEF Spec
<1> QED BY <1>1, <1>2, <1>3, LaneInvAlways, PTL DEF Spec, CompletedMeansIdle

-----------------------------------------------------------------------------
(* The steps of JobPool, for lane l: the substitution of SyncPool and of   *)
(* DownloadPool written once.                                              *)

Waiting(l) == IF down THEN {} ELSE {ItemOf[t] : t \in queue[l]}
Started(l) == IF down THEN {} ELSE {ItemOf[t] : t \in active[l]}

PoolAdvance(l) ==
  \E new \in SUBSET (Items \ (Waiting(l) \cup Started(l))) :
    \E go \in SUBSET (Waiting(l) \cup new) :
      /\ Waiting(l)' = (Waiting(l) \cup new) \ go
      /\ Started(l)' = Started(l) \cup go
      /\ go # {} => Cardinality(Started(l)') <= LaneLimit

PoolFinish(l) ==
  \E i \in Started(l) : Started(l)' = Started(l) \ {i} /\ Waiting(l)' = Waiting(l)

PoolClose(l) == Waiting(l)' = {} /\ Started(l)' = {}

PoolStutter(l) == Waiting(l)' = Waiting(l) /\ Started(l)' = Started(l)

PoolStep(l) == PoolAdvance(l) \/ PoolFinish(l) \/ PoolClose(l) \/ PoolStutter(l)

-----------------------------------------------------------------------------
(* Tasks of a lane and their items *)

\* Tasks with different items are at most as many as the items, so finite.
LEMMA AsManyItemsAsTasks ==
  ASSUME NEW T \in SUBSET Calls, \A t, u \in T : ItemOf[t] = ItemOf[u] => t = u
  PROVE  /\ IsFiniteSet(T)
         /\ Cardinality({ItemOf[t] : t \in T}) <= Cardinality(T)
<1> DEFINE named == {ItemOf[t] : t \in T}
           name == [t \in T |-> ItemOf[t]]
<1>1. named \subseteq Items
  BY LaneAssumption
<1>2. IsFiniteSet(named)
  BY <1>1, LaneAssumption, FS_Subset
<1>3. name \in Injection(T, named) /\ name \in Surjection(T, named)
  BY DEF Injection, IsInjective, Surjection
<1> HIDE DEF named, name
<1>4. IsFiniteSet(T)
  BY <1>2, <1>3, FS_Injection
<1>5. Cardinality(named) <= Cardinality(T)
  BY <1>3, <1>4, FS_Surjection
<1> QED BY <1>4, <1>5 DEF named

(***************************************************************************)
(* A drain, alone or with a new task: the items of the new tasks are       *)
(* accepted, those of the started ones go on to run, and fit.              *)
(***************************************************************************)
LEMMA StartingAdvances ==
  ASSUME LaneInv, ~down, ~down', NEW l \in Lanes,
         NEW q \in SUBSET Calls, queue[l] \subseteq q,
         \A t, u \in q \cup active[l] : ItemOf[t] = ItemOf[u] => t = u,
         q \cap active[l] = {},
         NEW go \in SUBSET q, Fits(active[l], go),
         queue'[l] = q \ go, active'[l] = active[l] \cup go
  PROVE  PoolAdvance(l)
<1> DEFINE new == {ItemOf[t] : t \in q \ queue[l]}
           begun == {ItemOf[t] : t \in go}
<1>0. active[l] \subseteq Calls
  BY DEF LaneInv, LaneTypeOK
<1>1. new \subseteq Items \ (Waiting(l) \cup Started(l))
  BY LaneAssumption DEF Waiting, Started
<1>2. begun \subseteq Waiting(l) \cup new
  BY DEF Waiting
<1>3. Waiting(l)' = (Waiting(l) \cup new) \ begun
  BY DEF Waiting
<1>4. Started(l)' = Started(l) \cup begun
  BY DEF Started
<1>5. ASSUME begun # {} PROVE Cardinality(Started(l)') <= LaneLimit
  <2> DEFINE T == active[l] \cup go
  <2>1. T \in SUBSET Calls /\ \A t, u \in T : ItemOf[t] = ItemOf[u] => t = u
    BY <1>0
  <2>2. Cardinality(T) <= LaneLimit
    BY <1>5 DEF Fits
  <2>3. Started(l)' = {ItemOf[t] : t \in T}
    BY DEF Started
  <2> HIDE DEF T
  <2>4. IsFiniteSet(T) /\ Cardinality({ItemOf[t] : t \in T}) <= Cardinality(T)
    BY <2>1, AsManyItemsAsTasks
  <2>5. IsFiniteSet({ItemOf[t] : t \in T})
    <3>1. {ItemOf[t] : t \in T} \subseteq Items
      BY <2>1, LaneAssumption
    <3> QED BY <3>1, LaneAssumption, FS_Subset
  <2>6. /\ Cardinality(T) \in Nat
        /\ Cardinality({ItemOf[t] : t \in T}) \in Nat
    BY <2>4, <2>5, FS_CardinalityType
  <2>7. LaneLimit \in Nat
    BY LaneAssumption
  <2> DEFINE n == Cardinality({ItemOf[t] : t \in T})
  <2>8. n <= LaneLimit
    <3> HIDE DEF n
    <3>1. n <= Cardinality(T) /\ n \in Nat
      BY <2>4, <2>6 DEF n
    <3> QED BY <3>1, <2>2, <2>6, <2>7
  <2> QED BY <2>3, <2>8
<1> HIDE DEF new, begun
<1> QED BY <1>1, <1>2, <1>3, <1>4, <1>5 DEF PoolAdvance

\* A drain of one lane is a step of that lane's pool and leaves the other's alone.
LEMMA DrainIsPoolStep ==
  ASSUME LaneInv, ~down, ~down', NEW k \in Lanes,
         NEW q \in SUBSET Calls, queue[k] \subseteq q,
         \A t, u \in q \cup active[k] : ItemOf[t] = ItemOf[u] => t = u,
         q \cap active[k] = {},
         QueueAndDrain(k, q),
         NEW l \in Lanes
  PROVE  PoolStep(l)
<1>1. PICK go \in IF paused THEN {{}} ELSE Drains(k, q) :
        /\ queue' = [queue EXCEPT ![k] = q \ go]
        /\ active' = [active EXCEPT ![k] = @ \cup go]
  BY DEF QueueAndDrain
<1>2. go \in SUBSET q /\ Fits(active[k], go)
  BY DEF Drains, Runnable, Fits
<1>3. queue \in [Lanes -> SUBSET Calls] /\ active \in [Lanes -> SUBSET Calls]
  BY DEF LaneInv, LaneTypeOK
<1>4. CASE l = k
  <2>1. queue'[l] = q \ go /\ active'[l] = active[l] \cup go
    BY <1>1, <1>3, <1>4
  <2>2. PoolAdvance(l)
    BY <1>2, <1>4, <2>1, StartingAdvances
  <2> QED BY <2>2 DEF PoolStep
<1>5. CASE l # k
  <2>1. queue'[l] = queue[l] /\ active'[l] = active[l]
    BY <1>1, <1>3, <1>5
  <2> QED BY <2>1 DEF PoolStep, PoolStutter, Waiting, Started
<1> QED BY <1>4, <1>5

\* The same for a drain that adds no task, whose premises the invariant gives.
LEMMA JustDrainIsPoolStep ==
  ASSUME LaneInv, ~down, ~down', NEW k \in Lanes, QueueAndDrain(k, queue[k]),
         NEW l \in Lanes
  PROVE  PoolStep(l)
<1>1. /\ queue[k] \in SUBSET Calls
      /\ \A t, u \in queue[k] \cup active[k] : ItemOf[t] = ItemOf[u] => t = u
      /\ queue[k] \cap active[k] = {}
  BY DEF LaneInv, LaneTypeOK, InFlightExact, TaskPlaced, Tasks
<1> QED BY <1>1, DrainIsPoolStep

\* And for a call that adds one, whose item is in no task of the lane.
LEMMA PushIsPoolStep ==
  ASSUME LaneInv, ~down, ~down', NEW c \in Calls, Fresh(c), PushToLane(c),
         NEW l \in Lanes
  PROVE  PoolStep(l)
<1> DEFINE k == LaneOf[c]
<1>1. k \in Lanes /\ ItemOf[c] \notin inFlight[k]
  BY LaneAssumption DEF PushToLane, Busy
<1>2. /\ queue[k] \in SUBSET Calls
      /\ \A t, u \in queue[k] \cup active[k] : ItemOf[t] = ItemOf[u] => t = u
      /\ queue[k] \cap active[k] = {}
      /\ \A t \in queue[k] \cup active[k] : ItemOf[t] \in inFlight[k] /\ t # c
  BY <1>1 DEF LaneInv, LaneTypeOK, InFlightExact, TaskPlaced, Tasks, Fresh
<1> DEFINE q == queue[k] \cup {c}
<1>3. /\ q \in SUBSET Calls /\ queue[k] \subseteq q
      /\ \A t, u \in q \cup active[k] : ItemOf[t] = ItemOf[u] => t = u
      /\ q \cap active[k] = {}
  BY <1>1, <1>2
<1>4. QueueAndDrain(k, q)
  BY DEF PushToLane
<1> HIDE DEF q, k
<1> QED BY <1>1, <1>3, <1>4, DrainIsPoolStep

\* What leaves queue and running set alone, and does not shut down.
LEMMA StillIsPoolStep ==
  ASSUME UNCHANGED <<queue, active, down>>, NEW l \in Lanes
  PROVE  PoolStep(l)
BY DEF PoolStep, PoolStutter, Waiting, Started

LEMMA WakeIsPoolStep ==
  ASSUME LaneInv, ~down, Wake, NEW l \in Lanes
  PROVE  PoolStep(l)
<1>1. PICK goSync \in Drains("sync", queue["sync"]),
           goDown \in Drains("download", queue["download"]) :
        LET go == [x \in Lanes |-> IF x = "sync" THEN goSync ELSE goDown]
        IN  /\ queue' = [x \in Lanes |-> queue[x] \ go[x]]
            /\ active' = [x \in Lanes |-> active[x] \cup go[x]]
  BY DEF Wake
<1> DEFINE started == IF l = "sync" THEN goSync ELSE goDown
<1>2. started \in Drains(l, queue[l])
  BY DEF Lanes
<1>3. queue'[l] = queue[l] \ started /\ active'[l] = active[l] \cup started
  BY <1>1
<1> HIDE DEF started
<1>4. started \in SUBSET queue[l] /\ Fits(active[l], started)
  BY <1>2 DEF Drains, Runnable
<1>5. /\ queue[l] \in SUBSET Calls
      /\ \A t, u \in queue[l] \cup active[l] : ItemOf[t] = ItemOf[u] => t = u
      /\ queue[l] \cap active[l] = {}
  BY DEF LaneInv, LaneTypeOK, InFlightExact, TaskPlaced, Tasks
<1>6. ~down'
  BY DEF Wake
<1>7. PoolAdvance(l)
  BY <1>3, <1>4, <1>5, <1>6, StartingAdvances
<1> QED BY <1>7 DEF PoolStep

LEMMA ReleaseIsPoolStep ==
  ASSUME LaneInv, ~down, NEW t \in Calls, Release(t), NEW l \in Lanes
  PROVE  PoolStep(l)
<1>1. /\ t \in active[LaneOf[t]]
      /\ active' = [active EXCEPT ![LaneOf[t]] = @ \ {t}]
      /\ UNCHANGED <<queue, down>>
  BY DEF Release, LaneInv, TaskPlaced
<1>2. active \in [Lanes -> SUBSET Calls]
  BY DEF LaneInv, LaneTypeOK
<1>3. CASE l = LaneOf[t]
  <2>1. active'[l] = active[l] \ {t} /\ t \in active[l]
    BY <1>1, <1>2, <1>3
  <2>2. \A u \in active[l] : ItemOf[u] = ItemOf[t] => u = t
    BY <2>1 DEF LaneInv, InFlightExact, Tasks
  <2>3. /\ ItemOf[t] \in Started(l)
        /\ Started(l)' = Started(l) \ {ItemOf[t]}
        /\ Waiting(l)' = Waiting(l)
    BY <1>1, <2>1, <2>2 DEF Started, Waiting
  <2> QED BY <2>3 DEF PoolStep, PoolFinish
<1>4. CASE l # LaneOf[t]
  <2>1. active'[l] = active[l]
    BY <1>1, <1>2, <1>4
  <2> QED BY <1>1, <2>1 DEF PoolStep, PoolStutter, Waiting, Started
<1> QED BY <1>3, <1>4

-----------------------------------------------------------------------------
\* Every step of the queue is a step, or a stutter, of either pool.
LEMMA EveryStepIsPoolStep ==
  ASSUME LaneInv, [Next]_vars, NEW l \in Lanes
  PROVE  PoolStep(l)
<1>1. CASE down
  <2>1. down'
    BY <1>1 DEF Next, vars, laneVars, EnqueueUpload, EnqueueFetch, EnqueueInBatch,
                CompleteQueueItem, FailQueueItem, Release, DrainLane, EnqueueShareUpload,
                ShareOnline, ShareOffline, Suspend, Wake, Shutdown
  <2> QED BY <1>1, <2>1 DEF PoolStep, PoolStutter, Waiting, Started
<1>2. CASE ~down
  <2>1. ASSUME NEW c \in Calls, EnqueueUpload(c) PROVE PoolStep(l)
    <3>1. Fresh(c) /\ LaneOf[c] \in Lanes /\ ~down'
      BY <1>2, <2>1, LaneAssumption DEF EnqueueUpload
    <3> QED BY <1>2, <2>1, <3>1, JustDrainIsPoolStep, PushIsPoolStep, StillIsPoolStep
            DEF EnqueueUpload, NoDrain, JustDrain
  <2>2. ASSUME NEW c \in Calls, EnqueueFetch(c) PROVE PoolStep(l)
    <3>1. Fresh(c) /\ LaneOf[c] \in Lanes /\ ~down'
      BY <1>2, <2>2, LaneAssumption DEF EnqueueFetch
    <3> QED BY <1>2, <2>2, <3>1, JustDrainIsPoolStep, PushIsPoolStep
            DEF EnqueueFetch, JustDrain
  <2>3. ASSUME NEW c \in Calls, EnqueueInBatch(c) PROVE PoolStep(l)
    <3>1. Fresh(c) /\ LaneOf[c] \in Lanes /\ ~down'
      BY <1>2, <2>3, LaneAssumption DEF EnqueueInBatch
    <3> QED BY <1>2, <2>3, <3>1, JustDrainIsPoolStep, PushIsPoolStep, StillIsPoolStep
            DEF EnqueueInBatch, NoDrain, JustDrain
  <2>4. ASSUME NEW t \in Calls, CompleteQueueItem(t) \/ FailQueueItem(t) PROVE PoolStep(l)
    BY <2>4, StillIsPoolStep DEF CompleteQueueItem, FailQueueItem
  <2>5. ASSUME NEW t \in Calls, Release(t) PROVE PoolStep(l)
    BY <1>2, <2>5, ReleaseIsPoolStep
  <2>6. ASSUME NEW k \in Lanes, DrainLane(k) PROVE PoolStep(l)
    BY <1>2, <2>6, JustDrainIsPoolStep DEF DrainLane
  <2>7. CASE \/ \E s \in Shares : EnqueueShareUpload(s) \/ ShareOnline(s) \/ ShareOffline(s)
             \/ Suspend
             \/ UNCHANGED vars
    BY <2>7, StillIsPoolStep DEF EnqueueShareUpload, ShareOnline, ShareOffline, Suspend,
                                 vars, laneVars
  <2>8. CASE Wake
    BY <1>2, <2>8, WakeIsPoolStep
  <2>9. CASE Shutdown
    BY <2>9 DEF Shutdown, PoolStep, PoolClose, Waiting, Started
  <2> QED BY <2>1, <2>2, <2>3, <2>4, <2>5, <2>6, <2>7, <2>8, <2>9 DEF Next
<1> QED BY <1>1, <1>2

\* JobPool counts with the same Cardinality.
LEMMA SameCount ==
  \A S : SyncPool!Cardinality(S) = Cardinality(S) /\ DownloadPool!Cardinality(S) = Cardinality(S)
BY DEF Cardinality, SyncPool!Cardinality, DownloadPool!Cardinality

(***************************************************************************)
(* Each lane implements a JobPool: drainLane, pushToLane and the           *)
(* .finally() of a run never accept a queued or running guid again and     *)
(* never start a task beyond laneLimit, whatever else goes on.             *)
(***************************************************************************)
THEOREM LanesImplementPools == Spec => LanesArePools
<1>1. Init => SyncPool!Init /\ DownloadPool!Init
  BY DEF Init, SyncPool!Init, DownloadPool!Init, Lanes
<1>2. LaneInv /\ [Next]_vars => [SyncPool!Next]_(SyncPool!poolVars)
  <2> SUFFICES ASSUME LaneInv, [Next]_vars PROVE [SyncPool!Next]_(SyncPool!poolVars)
    OBVIOUS
  <2>1. PoolStep("sync")
    BY EveryStepIsPoolStep DEF Lanes
  <2> QED BY <2>1, SameCount DEF PoolStep, PoolAdvance, PoolFinish, PoolClose, PoolStutter, Waiting,
                      Started, SyncPool!Next, SyncPool!Advance, SyncPool!Finish,
                      SyncPool!Close, SyncPool!poolVars
<1>3. LaneInv /\ [Next]_vars => [DownloadPool!Next]_(DownloadPool!poolVars)
  <2> SUFFICES ASSUME LaneInv, [Next]_vars PROVE [DownloadPool!Next]_(DownloadPool!poolVars)
    OBVIOUS
  <2>1. PoolStep("download")
    BY EveryStepIsPoolStep DEF Lanes
  <2> QED BY <2>1, SameCount DEF PoolStep, PoolAdvance, PoolFinish, PoolClose, PoolStutter, Waiting,
                      Started, DownloadPool!Next, DownloadPool!Advance, DownloadPool!Finish,
                      DownloadPool!Close, DownloadPool!poolVars
<1> QED BY <1>1, <1>2, <1>3, LaneInvAlways, PTL
        DEF Spec, LanesArePools, SyncPool!Spec, DownloadPool!Spec
=============================================================================
