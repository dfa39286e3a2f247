---------------------------- MODULE Credentials ----------------------------
(***************************************************************************)
(* CredentialCache.ts and its subclass RelayCredentialCache.ts: the cache  *)
(* of the documents' tokens.  A token is fetched when a document asks and  *)
(* none is good enough, and renewed by a sweep while the document stays    *)
(* subscribed; the sweep runs at most ConnectionCap renewals at a time and *)
(* queues the others.  A token's time is its age: "due" is within the      *)
(* renewal margin.  The queue is a set (its order is left out), and a      *)
(* request's wait in the throttle of RelayOnPremTokenProvider.ts is part   *)
(* of its flight.                                                          *)
(***************************************************************************)
EXTENDS Integers, FiniteSets, FiniteSetsExt, Functions

CONSTANTS
  Documents,
  ConnectionCap, \* maxConnections
  MaxAttempts,   \* MAX_ATTEMPTS
  MaxFetches     \* how many fetches run at a time

ASSUME CredentialsAssumption ==
  /\ IsFiniteSet(Documents)
  /\ ConnectionCap \in Nat \ {0} /\ MaxAttempts \in Nat \ {0} /\ MaxFetches \in Nat \ {0}

VARIABLES
  token,           \* tokenEntries: "absent", "empty" (no token) or the token's age
  attempts,        \* tokenEntries: the failures counted, 0 without an entry
  subscribed,      \* the keys of subscriberCallbacks
  shared,          \* the keys of _inFlightPromises
  pendingQueue,    \* renewals that wait for a connection
  liveConnections, \* renewals counted as running
  renewing,        \* [Documents -> the renewals that run]
  fetching,        \* [Documents -> the fetches that run]
  sweeping,        \* the sweep's interval is set
  given,           \* [Documents -> the age of the token the document was last given]
  waived           \* history: documents the sweep may have lost, see StaysInTheSweep

entries == <<token, attempts>>
queue == <<pendingQueue, liveConnections, renewing>>
cacheVars == <<entries, subscribed, shared, queue, fetching, sweeping, given, waived>>

Promised == INSTANCE TokenSource WITH
  Docs <- Documents, asked <- fetching, held <- given

HasToken(d) == token[d] \in {"fresh", "due", "expired"}

\* Faulty: a token that is due for renewal counts as invalid.
Valid_Margin(d) == token[d] = "fresh"

\* tokenIsValid; an entry without a token has no expiry to wait for.
Valid(d) == token[d] \in {"fresh", "due"}

\* needsRefresh, of an entry the sweep has not pruned.
Due(d) == token[d] = "due"

\* Faulty: a token is served until it expires.
ServedFromCache_Valid(d) == token[d] \in {"fresh", "due"}

\* acquireToken finds a token that is valid and not due.
ServedFromCache(d) == token[d] = "fresh"

-----------------------------------------------------------------------------
(* A document asks: getToken, acquireToken, fetchTokenFromNetwork.         *)

\* Faulty: the token goes to the caller only.
Serves_Silently(d) == UNCHANGED given

\* The callback is called with the cached token.
Serves(d) == given' = [given EXCEPT ![d] = token[d]]

Serve(d) ==
  /\ ServedFromCache(d)
  /\ subscribed' = subscribed \cup {d} /\ shared' = shared \ {d}
  /\ Serves(d)
  /\ UNCHANGED <<entries, queue, fetching, sweeping, waived>>

Join(d) ==
  /\ ~ServedFromCache(d) /\ d \in shared
  /\ subscribed' = subscribed \cup {d}
  /\ UNCHANGED <<entries, shared, queue, fetching, sweeping, given, waived>>

Fetch(d) ==
  /\ ~ServedFromCache(d) /\ d \notin shared /\ SumFunction(fetching) < MaxFetches
  /\ token' = [token EXCEPT ![d] = "empty"]
  /\ subscribed' = subscribed \cup {d} /\ shared' = shared \cup {d}
  /\ fetching' = [fetching EXCEPT ![d] = @ + 1]
  /\ waived' = waived \ {d}
  /\ UNCHANGED <<attempts, queue, sweeping, given>>

-----------------------------------------------------------------------------
(* What an answer does to the cache.                                       *)

\* handleTokenRefreshed: without an entry the token is dropped.
Refreshed(d) ==
  token' = IF token[d] = "absent" THEN token ELSE [token EXCEPT ![d] = "fresh"]

\* The subscriber, if there is one, is told.
Told(d) ==
  given' = IF token[d] # "absent" /\ d \in subscribed THEN [given EXCEPT ![d] = "fresh"] ELSE given

Exhausted(d) == attempts[d] >= MaxAttempts

\* handleRefreshFailure; a failure without an entry leaves one without a token.
Failed(d) ==
  IF Exhausted(d)
  THEN /\ token' = [token EXCEPT ![d] = "absent"] /\ attempts' = [attempts EXCEPT ![d] = 0]
  ELSE /\ token' = [token EXCEPT ![d] = IF @ = "absent" THEN "empty" ELSE @]
       /\ attempts' = [attempts EXCEPT ![d] = @ + 1]

\* The fourth failure in the entry's life, not in a row, loses the document.
Waives(d) == waived' = IF attempts[d] >= MaxAttempts THEN waived \cup {d} ELSE waived

\* The fetch's promise settles.
Settles(d) ==
  /\ fetching' = [fetching EXCEPT ![d] = @ - 1] /\ shared' = shared \ {d}

\* Its caller applies the token even if it was not cached (bringOnline).
FetchAnswers(d) ==
  /\ fetching[d] > 0 /\ Settles(d)
  /\ Refreshed(d) /\ given' = [given EXCEPT ![d] = "fresh"]
  /\ UNCHANGED <<attempts, subscribed, queue, sweeping, waived>>

\* requestRefresh's error takes the document from the queue as well.
FetchFails(d) ==
  /\ fetching[d] > 0 /\ Settles(d)
  /\ pendingQueue' = pendingQueue \ {d}
  /\ Failed(d) /\ Waives(d)
  /\ UNCHANGED <<subscribed, liveConnections, renewing, sweeping, given>>

\* A 429 has the same effect on the queue; refreshWithRetry tries again.
FetchRetries(d) ==
  /\ fetching[d] > 0 /\ pendingQueue' = pendingQueue \ {d}
  /\ UNCHANGED <<entries, subscribed, shared, liveConnections, renewing, fetching,
                 sweeping, given, waived>>

-----------------------------------------------------------------------------
(* The renewals: sweepExpiringTokens, dispatchOrEnqueue.                   *)

\* Faulty: the connection is given back and the queue left alone.
Advance_NoPop(d) ==
  /\ liveConnections' = liveConnections - 1
  /\ renewing' = [renewing EXCEPT ![d] = @ - 1]
  /\ UNCHANGED pendingQueue

\* A renewal of d has ended; its connection goes to the next in the queue.
Advance(d) ==
  LET ended == [renewing EXCEPT ![d] = @ - 1] IN
    IF pendingQueue = {}
    THEN /\ liveConnections' = liveConnections - 1
         /\ renewing' = ended /\ UNCHANGED pendingQueue
    ELSE \E next \in pendingQueue :
           /\ pendingQueue' = pendingQueue \ {next}
           /\ renewing' = [ended EXCEPT ![next] = @ + 1]
           /\ UNCHANGED liveConnections

RenewalAnswers(d) ==
  /\ renewing[d] > 0
  /\ Refreshed(d) /\ Told(d) /\ Advance(d)
  /\ UNCHANGED <<attempts, subscribed, shared, fetching, sweeping, waived>>

RenewalFails(d) ==
  /\ renewing[d] > 0
  /\ Failed(d) /\ Waives(d) /\ Advance(d)
  /\ UNCHANGED <<subscribed, shared, fetching, sweeping, given>>

Pruned == {d \in Documents : token[d] # "absent" /\ ~Valid(d)}

\* As many as there are connections for, in the order of the entries.
Dispatched(due) ==
  {run \in SUBSET due :
     Cardinality(run) = Min({Cardinality(due), Max({ConnectionCap - liveConnections, 0})})}

\* What the sweep loses: placeholders of fetches, and tokens that expired.
SweepExpiringTokens ==
  LET due == {d \in subscribed \ Pruned : Due(d)} IN
    /\ token' = [d \in Documents |-> IF d \in Pruned THEN "absent" ELSE token[d]]
    /\ attempts' = [d \in Documents |-> IF d \in Pruned THEN 0 ELSE attempts[d]]
    /\ \E run \in Dispatched(due) :
         /\ renewing' = [d \in Documents |-> renewing[d] + IF d \in run THEN 1 ELSE 0]
         /\ liveConnections' = liveConnections + Cardinality(run)
         /\ pendingQueue' = pendingQueue \cup (due \ run)
    /\ waived' = waived \cup {d \in Documents : token[d] \in {"empty", "expired"}}
    /\ UNCHANGED <<subscribed, shared, fetching, given>>

Sweep == sweeping /\ SweepExpiringTokens /\ UNCHANGED sweeping

\* The health monitor's "online" and "offline".
StartSweeping == sweeping' = TRUE /\ SweepExpiringTokens

StopSweeping ==
  /\ sweeping /\ sweeping' = FALSE
  /\ UNCHANGED <<entries, subscribed, shared, queue, fetching, given, waived>>

-----------------------------------------------------------------------------
\* The transfer queue lets go of a document nobody edits.  (ProviderBacked's
\* goOffline drops the key `entityGuid`, which names no entry.)
DropFromQueue(d) ==
  /\ d \in subscribed
  /\ subscribed' = subscribed \ {d} /\ pendingQueue' = pendingQueue \ {d}
  /\ UNCHANGED <<entries, shared, liveConnections, renewing, fetching, sweeping, given, waived>>

\* clear: of all entries (a sign-out), or of those with a token of a folder
\* whose server changes; the subscribers stay.
Clear(gone) ==
  /\ \A d \in gone : token[d] # "absent"
  /\ token' = [d \in Documents |-> IF d \in gone THEN "absent" ELSE token[d]]
  /\ attempts' = [d \in Documents |-> IF d \in gone THEN 0 ELSE attempts[d]]
  /\ waived' = waived \cup gone
  /\ UNCHANGED <<subscribed, shared, liveConnections, renewing, fetching, sweeping, given>>

SignOut == Clear({d \in Documents : token[d] # "absent"}) /\ pendingQueue' = {}

FolderMoves(d) == HasToken(d) /\ Clear({d}) /\ pendingQueue' = pendingQueue \ {d}

\* Time passes; of the same age they may be the same token.
TokensAge(d) ==
  LET old == [token EXCEPT ![d] = Promised!Older(@)] IN
    /\ \/ token' = old /\ given' = [given EXCEPT ![d] = Promised!Older(@)]
       \/ token[d] # given[d] /\ token' = old /\ UNCHANGED given
       \/ token[d] # given[d] /\ given' = [given EXCEPT ![d] = Promised!Older(@)] /\ UNCHANGED token
    /\ <<token, given>>' # <<token, given>>
    /\ UNCHANGED <<attempts, subscribed, shared, queue, fetching, sweeping, waived>>

\* The plugin unloads and starts again: the entries are persisted, and a
\* document begins with the token it finds (peekToken), of whatever age.
Restart ==
  /\ UNCHANGED entries
  /\ given' = [d \in Documents |-> IF HasToken(d) THEN token[d] ELSE "none"]
  /\ subscribed' = {} /\ shared' = {} /\ pendingQueue' = {} /\ liveConnections' = 0
  /\ renewing' = [d \in Documents |-> 0] /\ fetching' = [d \in Documents |-> 0]
  /\ sweeping' = FALSE /\ waived' = {}

CacheInit ==
  /\ token = [d \in Documents |-> "absent"] /\ attempts = [d \in Documents |-> 0]
  /\ subscribed = {} /\ shared = {} /\ pendingQueue = {} /\ liveConnections = 0
  /\ renewing = [d \in Documents |-> 0] /\ fetching = [d \in Documents |-> 0]
  /\ sweeping = FALSE /\ given = [d \in Documents |-> "none"] /\ waived = {}

CacheNext ==
  \/ \E d \in Documents :
       \/ Serve(d) \/ Join(d) \/ Fetch(d)
       \/ FetchAnswers(d) \/ FetchFails(d) \/ FetchRetries(d)
       \/ RenewalAnswers(d) \/ RenewalFails(d)
       \/ DropFromQueue(d) \/ FolderMoves(d) \/ TokensAge(d)
  \/ Sweep \/ StartSweeping \/ StopSweeping
  \/ SignOut \/ Restart

\* A fetch is answered or fails; how often a 429 is retried is bounded.
CacheFairness == \A d \in Documents : WF_cacheVars(FetchAnswers(d) \/ FetchFails(d))

CacheSpec == CacheInit /\ [][CacheNext]_cacheVars /\ CacheFairness

-----------------------------------------------------------------------------
(* Properties.                                                             *)

\* The cache's maps hold values of their kinds; only fetches are shared.
CacheTypeOK ==
  /\ token \in [Documents -> {"absent", "empty", "fresh", "due", "expired"}]
  /\ attempts \in [Documents -> 0..MaxAttempts]
  /\ {subscribed, shared, pendingQueue, waived} \subseteq SUBSET Documents
  /\ liveConnections \in Int /\ sweeping \in BOOLEAN
  /\ {renewing, fetching} \subseteq [Documents -> Nat] /\ given \in [Documents -> Promised!Ages]
  /\ \A d \in shared : fetching[d] > 0

\* The renewals that run: of each document the first, the second and so on.
Renewals == UNION {{d} \X (1..renewing[d]) : d \in Documents}

\* The connection count is that of the renewals which run, never more than
\* the cap, and a renewal only waits while others hold all connections: a
\* connection given back goes to the queue, so the queue cannot get stuck.
QueueMoves ==
  /\ liveConnections = Cardinality(Renewals) /\ liveConnections <= ConnectionCap
  /\ pendingQueue # {} => liveConnections = ConnectionCap

\* A subscriber holds the fresh token the cache holds: none that arrives is
\* kept from it, by whichever of the fetches and renewals in flight.
SubscriberInStep ==
  \A d \in subscribed : token[d] = "fresh" => given[d] = "fresh"

\* A document in use is in the sweep's sight, unless a sweep pruned the
\* placeholder of its fetch (or its token expired), its entry's failures
\* were used up, or the cache was cleared.
StaysInTheSweep ==
  \A d \in subscribed \ waived : token[d] # "absent"

\* To a document the cache is a TokenSource.
IsATokenSource == Promised!Spec
=============================================================================
