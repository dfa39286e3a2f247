--------------------------- MODULE TransferLanes ---------------------------
(***************************************************************************)
(* The two lanes of TransferQueue (src/src/TransferQueue.ts): the queue,   *)
(* the set of running tasks, the in-flight guids and the waiters of each   *)
(* lane, the promises handed to callers, and the per-share progress batch. *)
(*                                                                         *)
(* One call of enqueueUpload, enqueueFetch or enqueueInBatch is one member *)
(* of Calls, and stands both for the promise it returns and for the task   *)
(* it creates when it creates one.  What a task does to its document is    *)
(* the subject of DocSync: here a run only starts, ends and is released.   *)
(***************************************************************************)
EXTENDS Integers, FiniteSets

CONSTANTS
  Items,      \* guids of documents and attachments
  Shares,     \* vault shares
  Calls,      \* one value per call that can be made
  ItemOf,     \* [Calls -> Items]  the document a call is about
  LaneOf,     \* [Calls -> Lanes]  the lane it goes to
  ShareOf,    \* [Items -> Shares]
  Rank,       \* [Items -> Nat]    the place of the item's full path in path order
  LaneLimit,  \* how many tasks a lane runs at once (3 in the shipped plugin)
  Stuck,      \* items whose run may never end (no timeout guards awaitFirstSync)
  NoCall      \* no waiter

Lanes == {"sync", "download"}

ASSUME LaneAssumption ==
  /\ IsFiniteSet(Items)
  /\ ItemOf \in [Calls -> Items]
  /\ LaneOf \in [Calls -> Lanes]
  /\ ShareOf \in [Items -> Shares]
  /\ Rank \in [Items -> Nat]
  /\ LaneLimit \in Nat
  /\ NoCall \notin Calls

VARIABLES
  queue,     \* [Lanes -> SUBSET Calls]  accepted tasks, started in path order
  active,    \* [Lanes -> SUBSET Calls]  tasks between start and .finally()
  settled,   \* the active tasks whose run has ended and is not yet released
  inFlight,  \* [Lanes -> SUBSET Items]  guids queued or running
  waiter,    \* [Lanes -> [Items -> Calls \cup {NoCall}]]  whose promise to settle
  promise,   \* [Calls -> "unused" | "pending" | "resolved" | "rejected"]
  batch,     \* [Shares -> progress record]
  todo,      \* items enqueueShareUpload still has to enqueue in this same turn
  rebatched, \* history: shares whose batch was replaced by enqueueShareUpload
  online,    \* shares whose isOnline is true
  paused,
  down       \* shutdown() has run

laneVars == <<queue, active, settled, inFlight, waiter, promise>>
vars == <<queue, active, settled, inFlight, waiter, promise, batch, todo,
          rebatched, online, paused, down>>

NoBatch == [queued |-> [l \in Lanes |-> 0], finished |-> [l \in Lanes |-> 0],
            phase |-> "none"]

Total(counts) == counts["sync"] + counts["download"]
OneMore(counts, l) == [counts EXCEPT ![l] = @ + 1]
ShareOfCall(c) == ShareOf[ItemOf[c]]

-----------------------------------------------------------------------------
(* drainLane *)

(***************************************************************************)
(* The sets of tasks one drain of lane l, whose queue holds q, may start:  *)
(* tasks of shares that are online, in path order, until the lane is full  *)
(* or none is left.                                                        *)
(***************************************************************************)
Runnable(q) == {t \in q : ShareOfCall(t) \in online}

Room(running) == Cardinality(running) < LaneLimit

\* Faulty: counts what it starts, not what already runs.
Fits_IgnoresRunning(running, go) == go = {} \/ Cardinality(go) <= LaneLimit

Fits(running, go) == go = {} \/ Cardinality(running \cup go) <= LaneLimit

Drains(l, q) ==
  {go \in SUBSET Runnable(q) :
     /\ Fits(active[l], go)
     /\ go = Runnable(q) \/ ~Room(active[l] \cup go)
     /\ \A t \in go, u \in Runnable(q) \ go : Rank[ItemOf[t]] <= Rank[ItemOf[u]]}

\* Lane l's queue becomes q, and is drained.
QueueAndDrain(l, q) ==
  \E go \in IF paused THEN {{}} ELSE Drains(l, q) :
    /\ queue' = [queue EXCEPT ![l] = q \ go]
    /\ active' = [active EXCEPT ![l] = @ \cup go]

\* Faulty: waits until everything the lane runs is done.
DrainLane_WhenIdle(l) ==
  /\ ~down /\ active[l] = {}
  /\ QueueAndDrain(l, queue[l])
  /\ UNCHANGED <<settled, inFlight, waiter, promise, batch, todo, rebatched,
                 online, paused, down>>

\* The one-second interval, and the zero-delay timer a released task leaves.
\* Both are the clock's, and the clock is torn down before the queue is.
DrainLane(l) ==
  /\ ~down
  /\ QueueAndDrain(l, queue[l])
  /\ UNCHANGED <<settled, inFlight, waiter, promise, batch, todo, rebatched,
                 online, paused, down>>

-----------------------------------------------------------------------------
(* The enqueue calls *)

Fresh(c) == promise[c] = "unused"
Busy(c) == ItemOf[c] \in inFlight[LaneOf[c]]
WaiterOf(c) == waiter[LaneOf[c]][ItemOf[c]]

(***************************************************************************)
(* The item is in flight and somebody waits for it: the waiter's resolve   *)
(* and reject are overwritten with this call's, so that from now on only   *)
(* this call's promise can be settled.                                     *)
(***************************************************************************)
TakeOverWaiter(c) ==
  /\ Busy(c) /\ WaiterOf(c) # NoCall
  /\ promise' = [promise EXCEPT ![c] = "pending"]
  /\ waiter' = [waiter EXCEPT ![LaneOf[c]][ItemOf[c]] = c]
  /\ UNCHANGED inFlight

\* The item is in flight but its run has ended: nothing to wait for.
NothingToAwait(c) ==
  /\ Busy(c) /\ WaiterOf(c) = NoCall
  /\ promise' = [promise EXCEPT ![c] = "resolved"]
  /\ UNCHANGED <<inFlight, waiter>>

\* pushToLane: a new task, drained at once.
PushToLane(c) ==
  /\ ~Busy(c)
  /\ inFlight' = [inFlight EXCEPT ![LaneOf[c]] = @ \cup {ItemOf[c]}]
  /\ waiter' = [waiter EXCEPT ![LaneOf[c]][ItemOf[c]] = c]
  /\ promise' = [promise EXCEPT ![c] = "pending"]
  /\ QueueAndDrain(LaneOf[c], queue[LaneOf[c]] \cup {c})

JustDrain(c) == QueueAndDrain(LaneOf[c], queue[LaneOf[c]])
NoDrain == UNCHANGED <<queue, active>>

\* One more operation of this lane in the share's batch (groupFor, then ++).
CountQueued(c) ==
  LET b == batch[ShareOfCall(c)]
  IN  batch' = [batch EXCEPT ![ShareOfCall(c)] =
                  [b EXCEPT !.queued = OneMore(b.queued, LaneOf[c]),
                            !.phase = IF b.phase = "none" THEN "pending" ELSE b.phase]]

EnqueueUpload(c) ==
  /\ Fresh(c) /\ LaneOf[c] = "sync"
  /\ \/ TakeOverWaiter(c) /\ NoDrain /\ UNCHANGED batch
     \/ NothingToAwait(c) /\ JustDrain(c) /\ UNCHANGED batch
     \/ PushToLane(c) /\ CountQueued(c)
  /\ UNCHANGED <<settled, todo, rebatched, online, paused, down>>

EnqueueFetch(c) ==
  /\ Fresh(c) /\ LaneOf[c] = "download"
  /\ \/ TakeOverWaiter(c) /\ JustDrain(c) /\ UNCHANGED batch
     \/ NothingToAwait(c) /\ JustDrain(c) /\ UNCHANGED batch
     \/ PushToLane(c) /\ CountQueued(c)
  /\ UNCHANGED <<settled, todo, rebatched, online, paused, down>>

(***************************************************************************)
(* enqueueShareUpload: a batch of its own for the share, replacing the one *)
(* it had, and then enqueueInBatch for every tracked item in path order,   *)
(* all in one turn of the event loop (todo is non-empty only during it).   *)
(***************************************************************************)
ItemsOf(s) == {i \in Items : ShareOf[i] = s}
SpareCall(i) == \E c \in Calls : Fresh(c) /\ LaneOf[c] = "sync" /\ ItemOf[c] = i

EnqueueShareUpload(s) ==
  /\ \A i \in ItemsOf(s) : SpareCall(i)
  /\ batch' = [batch EXCEPT ![s] =
                 [NoBatch EXCEPT !.queued["sync"] = Cardinality(ItemsOf(s)),
                                 !.phase = "running"]]
  /\ rebatched' = rebatched \cup {s}
  /\ todo' = ItemsOf(s)
  /\ UNCHANGED <<laneVars, online, paused, down>>

EnqueueInBatch(c) ==
  /\ Fresh(c) /\ LaneOf[c] = "sync" /\ ItemOf[c] \in todo
  /\ \A i \in todo : Rank[ItemOf[c]] <= Rank[i]
  /\ \/ TakeOverWaiter(c) /\ JustDrain(c)
     \/ NothingToAwait(c) /\ NoDrain
     \/ PushToLane(c)
  /\ todo' = todo \ {ItemOf[c]}
  /\ UNCHANGED <<settled, batch, rebatched, online, paused, down>>

-----------------------------------------------------------------------------
(* The end of a run *)

Running(t) == t \in active[LaneOf[t]] \ settled

\* Faulty: the settled waiter stays in the map.
SettleWaiter_KeepsEntry(t, outcome) ==
  /\ promise' = [c \in Calls |-> IF c = WaiterOf(t) THEN outcome ELSE promise[c]]
  /\ UNCHANGED waiter

SettleWaiter(t, outcome) ==
  /\ promise' = [c \in Calls |-> IF c = WaiterOf(t) THEN outcome ELSE promise[c]]
  /\ waiter' = [waiter EXCEPT ![LaneOf[t]][ItemOf[t]] = NoCall]

\* Faulty: compares this lane's counters only.
CountFinished_OneLane(t) ==
  LET b == batch[ShareOfCall(t)]
      counted == [b EXCEPT !.finished = OneMore(b.finished, LaneOf[t])]
      isAll == counted.finished[LaneOf[t]] = counted.queued[LaneOf[t]]
  IN  batch' = IF b.phase = "none" THEN batch
               ELSE [batch EXCEPT ![ShareOfCall(t)] =
                       IF isAll THEN [counted EXCEPT !.phase = "completed"] ELSE counted]

CountFinished(t) ==
  LET b == batch[ShareOfCall(t)]
      counted == [b EXCEPT !.finished = OneMore(b.finished, LaneOf[t])]
      isAll == Total(counted.finished) = Total(counted.queued)
  IN  batch' = IF b.phase = "none" THEN batch
               ELSE [batch EXCEPT ![ShareOfCall(t)] =
                       IF isAll THEN [counted EXCEPT !.phase = "completed"] ELSE counted]

\* completeQueueItem
CompleteQueueItem(t) ==
  /\ Running(t)
  /\ settled' = settled \cup {t}
  /\ SettleWaiter(t, "resolved")
  /\ CountFinished(t)
  /\ UNCHANGED <<queue, active, inFlight, todo, rebatched, online, paused, down>>

\* failQueueItem and markGroupFailed: a failure is never counted as finished.
FailQueueItem(t) ==
  /\ Running(t)
  /\ settled' = settled \cup {t}
  /\ SettleWaiter(t, "rejected")
  /\ batch' = [batch EXCEPT ![ShareOfCall(t)].phase = IF @ = "none" THEN @ ELSE "failed"]
  /\ UNCHANGED <<queue, active, inFlight, todo, rebatched, online, paused, down>>

\* Faulty: the guid stays in flight.
Release_KeepsInFlight(t) ==
  /\ t \in settled
  /\ settled' = settled \ {t}
  /\ active' = [active EXCEPT ![LaneOf[t]] = @ \ {t}]
  /\ UNCHANGED <<queue, inFlight, waiter, promise, batch, todo, rebatched, online,
                 paused, down>>

\* The .finally() of the run, some microtasks after the waiter was settled.
Release(t) ==
  /\ t \in settled
  /\ settled' = settled \ {t}
  /\ active' = [active EXCEPT ![LaneOf[t]] = @ \ {t}]
  /\ inFlight' = [inFlight EXCEPT ![LaneOf[t]] = @ \ {ItemOf[t]}]
  /\ UNCHANGED <<queue, waiter, promise, batch, todo, rebatched, online, paused, down>>

-----------------------------------------------------------------------------
(* Control *)

Suspend ==
  /\ paused' = TRUE
  /\ UNCHANGED <<laneVars, batch, todo, rebatched, online, down>>

\* wake() drains both lanes itself.
Wake ==
  /\ paused' = FALSE
  /\ UNCHANGED <<settled, inFlight, waiter, promise, batch, todo, rebatched, online, down>>
  /\ \E goSync \in Drains("sync", queue["sync"]), goDown \in Drains("download", queue["download"]) :
       LET go == [l \in Lanes |-> IF l = "sync" THEN goSync ELSE goDown]
       IN  /\ queue' = [l \in Lanes |-> queue[l] \ go[l]]
           /\ active' = [l \in Lanes |-> active[l] \cup go[l]]

Shutdown ==
  /\ ~down
  /\ down' = TRUE
  /\ promise' = [c \in Calls |->
                   IF \E l \in Lanes, i \in Items : waiter[l][i] = c
                   THEN "rejected" ELSE promise[c]]
  /\ waiter' = [l \in Lanes |-> [i \in Items |-> NoCall]]
  /\ queue' = [l \in Lanes |-> {}]
  /\ inFlight' = [l \in Lanes |-> {}]
  /\ UNCHANGED <<active, settled, batch, todo, rebatched, online, paused>>

\* The share's own connection comes and goes; nobody tells the lanes.
ShareOnline(s) ==
  /\ online' = online \cup {s}
  /\ UNCHANGED <<laneVars, batch, todo, rebatched, paused, down>>

ShareOffline(s) ==
  /\ online' = online \ {s}
  /\ UNCHANGED <<laneVars, batch, todo, rebatched, paused, down>>

-----------------------------------------------------------------------------
Init ==
  /\ queue = [l \in Lanes |-> {}]
  /\ active = [l \in Lanes |-> {}]
  /\ settled = {}
  /\ inFlight = [l \in Lanes |-> {}]
  /\ waiter = [l \in Lanes |-> [i \in Items |-> NoCall]]
  /\ promise = [c \in Calls |-> "unused"]
  /\ batch = [s \in Shares |-> NoBatch]
  /\ todo = {}
  /\ rebatched = {}
  /\ online \in SUBSET Shares
  /\ paused = TRUE
  /\ down = FALSE

Next ==
  \/ \E c \in Calls : EnqueueInBatch(c)
  \/ /\ todo = {}
     /\ \/ \E c \in Calls : EnqueueUpload(c) \/ EnqueueFetch(c)
        \/ \E t \in Calls : CompleteQueueItem(t) \/ FailQueueItem(t) \/ Release(t)
        \/ \E l \in Lanes : DrainLane(l)
        \/ \E s \in Shares : EnqueueShareUpload(s) \/ ShareOnline(s) \/ ShareOffline(s)
        \/ Suspend \/ Wake \/ Shutdown

(***************************************************************************)
(* The interval fires for ever, a promise's reactions run, a turn of the   *)
(* event loop is finished once begun; and a run ends, except a stuck one.  *)
(***************************************************************************)
Fairness ==
  /\ \A l \in Lanes : WF_vars(todo = {} /\ DrainLane(l))
  /\ \A t \in Calls : WF_vars(todo = {} /\ Release(t))
  /\ \A t \in Calls : ItemOf[t] \notin Stuck =>
       WF_vars(todo = {} /\ (CompleteQueueItem(t) \/ FailQueueItem(t)))
  /\ WF_vars(\E c \in Calls : EnqueueInBatch(c))

Spec == Init /\ [][Next]_vars
FairSpec == Spec /\ Fairness

-----------------------------------------------------------------------------
(* Properties *)

TypeOK ==
  /\ queue \in [Lanes -> SUBSET Calls]
  /\ active \in [Lanes -> SUBSET Calls]
  /\ settled \in SUBSET Calls
  /\ inFlight \in [Lanes -> SUBSET Items]
  /\ waiter \in [Lanes -> [Items -> Calls \cup {NoCall}]]
  /\ promise \in [Calls -> {"unused", "pending", "resolved", "rejected"}]
  /\ batch \in [Shares -> [queued : [Lanes -> Nat], finished : [Lanes -> Nat],
                           phase : {"none", "pending", "running", "completed", "failed"}]]
  /\ todo \in SUBSET Items
  /\ rebatched \in SUBSET Shares
  /\ online \in SUBSET Shares
  /\ paused \in BOOLEAN
  /\ down \in BOOLEAN

Tasks(l) == queue[l] \cup active[l]

(***************************************************************************)
(* The in-flight set names exactly the items that have a task in the lane, *)
(* and each has one: no document is transferred twice at once in a lane,   *)
(* and no guid stays behind in inFlight, where it would turn away every    *)
(* later request for its document.  (shutdown() forgets the queue and the  *)
(* in-flight guids, and lets what runs run on.)                            *)
(***************************************************************************)
InFlightExact ==
  ~down => \A l \in Lanes :
    /\ inFlight[l] = {ItemOf[t] : t \in Tasks(l)}
    /\ \A t, u \in Tasks(l) : ItemOf[t] = ItemOf[u] => t = u

(***************************************************************************)
(* There is a waiter for an item exactly while it has a task whose run has *)
(* not ended, and the waiter's promise is one that is still pending: no    *)
(* task ends with nobody to tell, and nobody is told twice.                *)
(***************************************************************************)
WaiterPerTask ==
  ~down => \A l \in Lanes : \A i \in Items :
    /\ (waiter[l][i] # NoCall) <=> (\E t \in Tasks(l) \ settled : ItemOf[t] = i)
    /\ waiter[l][i] # NoCall => promise[waiter[l][i]] = "pending"

\* A lane's books, the in-flight set and the waiters, agree with its tasks.
LaneBooksExact == InFlightExact /\ WaiterPerTask

Unfinished(s) ==
  UNION {{t \in Tasks(l) \ settled : ShareOfCall(t) = s} : l \in Lanes}

(***************************************************************************)
(* A batch becomes "completed" only when no task of its share is waiting   *)
(* or running, in either lane -- as long as enqueueShareUpload has not     *)
(* replaced the share's counters while transfers were going on.            *)
(***************************************************************************)
CompletedMeansIdle ==
  [][\A s \in Shares \ rebatched :
       (batch[s].phase # "completed" /\ batch'[s].phase = "completed")
         => Unfinished(s)' = {}]_vars

(***************************************************************************)
(* Every accepted task leaves the queue, unless its share goes offline or  *)
(* the queue is paused or shut down: fewer stuck runs than the lane has    *)
(* slots never wedge it, and path order starves nobody.                    *)
(***************************************************************************)
AcceptedTaskStarts ==
  \A t \in Calls :
    (t \in queue[LaneOf[t]]) ~>
      (t \notin queue[LaneOf[t]] \/ ShareOfCall(t) \notin online \/ paused \/ down)

SyncPool == INSTANCE JobPool WITH
  Keys <- Items, Limit <- LaneLimit,
  waiting <- IF down THEN {} ELSE {ItemOf[t] : t \in queue["sync"]},
  running <- IF down THEN {} ELSE {ItemOf[t] : t \in active["sync"]}

DownloadPool == INSTANCE JobPool WITH
  Keys <- Items, Limit <- LaneLimit,
  waiting <- IF down THEN {} ELSE {ItemOf[t] : t \in queue["download"]},
  running <- IF down THEN {} ELSE {ItemOf[t] : t \in active["download"]}

(***************************************************************************)
(* Each lane implements a JobPool: whatever mixture of enqueue calls,      *)
(* interval ticks and released tasks drains it, drainLane never runs more  *)
(* than laneLimit tasks of a lane at once and never accepts a guid it has  *)
(* queued or running a second time.  shutdown() closes the pool; runs that *)
(* were going on then are no longer the lane's.                            *)
(***************************************************************************)
LanesArePools == SyncPool!Spec /\ DownloadPool!Spec
=============================================================================
