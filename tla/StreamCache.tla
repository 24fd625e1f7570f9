----------------------------- MODULE StreamCache -----------------------------
(***************************************************************************)
(* The cache of stream lists: served while stale and refreshed in the      *)
(* background, one refresh per URL at a time; filled by requests that miss *)
(* it; busted by the prefetcher, cleared by the administrator, expired.    *)
(*                                                                         *)
(* What the sources offer for a key is a version number that grows.  A     *)
(* fetch reads the sources at one moment and stores what it read at        *)
(* another; when every source fails it stores a list without streams.      *)
(***************************************************************************)
EXTENDS Naturals

CONSTANTS
    Keys,        \* target URLs
    NoKey,
    Requests,    \* requests that missed the cache and fetch on their own
    Refreshers,  \* background refreshes
    Backend,     \* "local" (SQL table stream_cache) or "redis"
    Changing,    \* keys of which the sources find more: a model bound
    MaxVersion   \* model bound on the versions of those

ASSUME CacheAssumption ==
    /\ NoKey \notin Keys \cup Refreshers
    /\ Requests \cap Refreshers = {}
    /\ Backend \in {"local", "redis"}
    /\ Changing \subseteq Keys
    /\ MaxVersion \in Nat

VARIABLES
    sources,     \* the version the sources offer now
    entry,       \* the cached list of each key
    task,        \* what each request and each refresher is doing
    swrInFlight, \* keys with a refresh in progress
    busted       \* history: the version of the sources when the key was
                 \* last busted or cleared

vars == <<sources, entry, task, swrInFlight, busted>>

Versions == 0..MaxVersion

List == [state : {"absent", "streams", "empty"}, version : Versions]

Absent == [state |-> "absent", version |-> 0]

Pcs == {"idle", "start", "fetch", "store", "release"}

IdleTask == [pc |-> "idle", key |-> NoKey, list |-> Absent]

TypeOK ==
    /\ sources \in [Keys -> Versions]
    /\ entry \in [Keys -> List]
    /\ task \in [Requests \cup Refreshers ->
                    [pc : Pcs, key : Keys \cup {NoKey}, list : List]]
    /\ \A p \in Requests \cup Refreshers : task[p].pc # "idle" => task[p].key \in Keys
    /\ \A q \in Requests : task[q].pc \in {"idle", "fetch", "store"}
    /\ swrInFlight \in SUBSET Keys
    /\ busted \in [Keys -> Versions]

Init ==
    /\ sources = [k \in Keys |-> 0]
    /\ entry = [k \in Keys |-> Absent]
    /\ task = [p \in Requests \cup Refreshers |-> IdleTask]
    /\ swrInFlight = {}
    /\ busted = [k \in Keys |-> 0]

-----------------------------------------------------------------------------
(* streamHandler and maybeRefreshStreams.                                  *)

\* A cached list is served at once and a refresh is started for it.
Hit(r, k) ==
    /\ entry[k].state # "absent"
    /\ task[r].pc = "idle"
    /\ task' = [task EXCEPT ![r] = [IdleTask EXCEPT !.pc = "start", !.key = k]]
    /\ UNCHANGED <<sources, entry, swrInFlight, busted>>

\* Without a cached list (or when Redis does not answer in time) the request
\* fetches by itself and does not look at swrInFlight.
Miss(q, k) ==
    /\ entry[k].state = "absent" \/ Backend = "redis"
    /\ task[q].pc = "idle"
    /\ task' = [task EXCEPT ![q] = [IdleTask EXCEPT !.pc = "fetch", !.key = k]]
    /\ UNCHANGED <<sources, entry, swrInFlight, busted>>

RefreshUnchecked(r) ==
    /\ task[r].pc = "start"
    /\ task' = [task EXCEPT ![r].pc = "fetch"]
    /\ swrInFlight' = swrInFlight \cup {task[r].key}
    /\ UNCHANGED <<sources, entry, busted>>

\* Under swrMu: give up when the key is being refreshed, else claim it.
Refresh(r) ==
    /\ task[r].pc = "start"
    /\ IF task[r].key \in swrInFlight
       THEN /\ task' = [task EXCEPT ![r] = IdleTask]
            /\ UNCHANGED swrInFlight
       ELSE /\ task' = [task EXCEPT ![r].pc = "fetch"]
            /\ swrInFlight' = swrInFlight \cup {task[r].key}
    /\ UNCHANGED <<sources, entry, busted>>

\* fetchAndCacheStreams reads the sources; when all fail (or the client went
\* away) it goes on with a list that has no streams, and reports no error.
Fetch(p) ==
    /\ task[p].pc = "fetch"
    /\ \E state \in {"streams", "empty"} :
         task' = [task EXCEPT ![p].pc = "store",
                              ![p].list = [state |-> state, version |-> sources[task[p].key]]]
    /\ UNCHANGED <<sources, entry, swrInFlight, busted>>

StoreAsRefresher(p) ==
    /\ task[p].pc = "store"
    /\ entry' = [entry EXCEPT ![task[p].key] = task[p].list]
    /\ task' = [task EXCEPT ![p].pc = "release"]
    /\ UNCHANGED <<sources, swrInFlight, busted>>

\* It always writes the cache; a failed write is only logged.
Store(p) ==
    /\ task[p].pc = "store"
    /\ \/ entry' = [entry EXCEPT ![task[p].key] = task[p].list]
       \/ UNCHANGED entry
    /\ task' = [task EXCEPT ![p] = IF p \in Refreshers THEN [@ EXCEPT !.pc = "release"]
                                                       ELSE IdleTask]
    /\ UNCHANGED <<sources, swrInFlight, busted>>

ReleaseForgotten(r) ==
    /\ task[r].pc = "release"
    /\ task' = [task EXCEPT ![r] = IdleTask]
    /\ UNCHANGED <<sources, entry, swrInFlight, busted>>

\* The deferred delete.
Release(r) ==
    /\ task[r].pc = "release"
    /\ task' = [task EXCEPT ![r] = IdleTask]
    /\ swrInFlight' = swrInFlight \ {task[r].key}
    /\ UNCHANGED <<sources, entry, busted>>

-----------------------------------------------------------------------------
(* Everyone else.                                                          *)

\* A torrent of the key becomes available on Real-Debrid.
SourcesChange(k) ==
    /\ k \in Changing
    /\ sources[k] < MaxVersion
    /\ sources' = [sources EXCEPT ![k] = @ + 1]
    /\ UNCHANGED <<entry, task, swrInFlight, busted>>

\* DELETE FROM stream_cache, by the prefetcher for one title or by DELETE
\* /api/cache for all: SQL, whatever the backend.
Bust(ks) ==
    /\ entry' = [k \in Keys |-> IF k \in ks /\ Backend = "local" THEN Absent ELSE entry[k]]
    /\ busted' = [k \in Keys |-> IF k \in ks THEN sources[k] ELSE busted[k]]
    /\ UNCHANGED <<sources, task, swrInFlight>>

\* The TTL of Redis or the hourly maintenance.
Expire(k) ==
    /\ entry' = [entry EXCEPT ![k] = Absent]
    /\ UNCHANGED <<sources, task, swrInFlight, busted>>

\* The process restarts; the cached lists stay.
Restart ==
    /\ task' = [p \in Requests \cup Refreshers |-> IdleTask]
    /\ swrInFlight' = {}
    /\ UNCHANGED <<sources, entry, busted>>

-----------------------------------------------------------------------------
RefresherStep(r) == Refresh(r) \/ Fetch(r) \/ Store(r) \/ Release(r)

Next ==
    \/ \E r \in Refreshers : (\E k \in Keys : Hit(r, k)) \/ RefresherStep(r)
    \/ \E q \in Requests : (\E k \in Keys : Miss(q, k)) \/ Fetch(q) \/ Store(q)
    \/ \E k \in Keys : SourcesChange(k) \/ Bust({k}) \/ Expire(k)
    \/ Bust(Keys)
    \/ Restart

\* A refresh runs under a ten-second timeout, so its steps are taken.
Spec == Init /\ [][Next]_vars /\ \A r \in Refreshers : WF_vars(RefresherStep(r))

-----------------------------------------------------------------------------
(* Properties.                                                             *)

Refreshing(r, k) == task[r].key = k /\ task[r].pc \in {"fetch", "store", "release"}

\* "maybeRefreshStreams deduplicates concurrent SWR refreshes for the same
\* URL" (handlers.go:245).
OneRefreshPerKey ==
    \A k \in Keys : \A r, s \in Refreshers :
        Refreshing(r, k) /\ Refreshing(s, k) => r = s

\* A key is in swrInFlight only while a refresh of it runs, so a key is never
\* cut off from refreshes for good.
InFlightHasRefresher ==
    \A k \in swrInFlight : \E r \in Refreshers : Refreshing(r, k)

\* Who is refreshing each key.
RefresherOf ==
    [k \in Keys |-> IF \E r \in Refreshers : Refreshing(r, k)
                    THEN CHOOSE r \in Refreshers : Refreshing(r, k)
                    ELSE NoKey]

Flight == INSTANCE SingleFlight WITH
    Workers <- Refreshers, Nobody <- NoKey, holder <- RefresherOf

\* The refreshes implement the table of work in progress: besides mutual
\* exclusion, every key that was claimed is given back (handlers.go:245-264).
FlightSpec == Flight!Spec

\* "bust the stream_cache so next Stremio request gets fresh RD links"
\* (prefetch.go:622): what is cached after a bust is not older than it.
BustedListsStayAway ==
    \A k \in Keys : entry[k].state # "absent" => entry[k].version >= busted[k]
=============================================================================
