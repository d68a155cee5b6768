-------------------------- MODULE DatabaseOptimizer --------------------------
(***************************************************************************)
(* services/database-optimizer.ts: statements sent to PostgreSQL, the query   *)
(* cache in front of the SELECTs, and the analysis of the slow ones.  A call  *)
(* awaits its statement and, when it was slow, an EXPLAIN of it; other calls  *)
(* run meanwhile.                                                            *)
(***************************************************************************)
EXTENDS Naturals, FiniteSets, Sequences, SequencesExt, Subsequences

CONSTANTS
    Calls,        \* calls of query and queryWithCache
    Queries,      \* SELECT statements with their parameters
    Ttls,         \* times to live given to queryWithCache; 0 stands for query
    DefaultTtl,   \* defaultTTL
    MaxEntries,   \* maxEntries
    MaxSlowLog,   \* maxSlowQueryLogSize
    MaxDbTime     \* the clock stops there (bound)

VARIABLES
    calls,        \* what each call is doing
    table,        \* the database: how many statements have changed it
    applied,      \* history: how often the statement of a call changed the database
    queryCache,   \* query -> entry
    cacheOrder,   \* the keys of queryCache in the order of the Map
    enabled,      \* queryCacheConfig.enabled
    slowLog,      \* slowQueryLog: the calls logged
    forgotten,    \* history: queries a pattern was meant for and that were not cached since
    dbNow

dbVars == <<calls, table, applied, queryCache, cacheOrder, enabled, slowLog, forgotten, dbNow>>

None == [table |-> 0, at |-> 0, ttl |-> 0]
Idle == [phase |-> "idle", write |-> FALSE, query |-> "none", ttl |-> 0, table |-> 0, slow |-> FALSE]

Init ==
    /\ calls = [c \in Calls |-> Idle]
    /\ table = 0 /\ applied = [c \in Calls |-> 0]
    /\ queryCache = [q \in Queries |-> None] /\ cacheOrder = <<>>
    /\ enabled = TRUE
    /\ slowLog = <<>> /\ forgotten = {}
    /\ dbNow = 1

-----------------------------------------------------------------------------
(* The query cache.                                                          *)

\* getCachedQuery finds an entry no older than its ttl.
Cached(q) == q \in ToSet(cacheOrder) /\ dbNow - queryCache[q].at <= queryCache[q].ttl

\* setCachedQuery: a full cache loses its first entry, even for one that is there.
Store(cache, q, version, ttl) ==
    LET rest == IF Len(cache.order) >= MaxEntries THEN Tail(cache.order) ELSE cache.order
    IN  [map |-> [cache.map EXCEPT ![q] = [table |-> version, at |-> dbNow, ttl |-> ttl]],
         order |-> IF q \in ToSet(rest) THEN rest ELSE Append(rest, q)]

Cache == [map |-> queryCache, order |-> cacheOrder]
CacheBecomes(cache) == queryCache' = cache.map /\ cacheOrder' = cache.order

\* query caches a SELECT while the cache is enabled; queryWithCache caches again, with
\* its ttl and whatever enabled says.
AfterCaching(call) ==
    LET first == IF enabled THEN Store(Cache, call.query, call.table, DefaultTtl) ELSE Cache
    IN  IF call.ttl > 0 THEN Store(first, call.query, call.table, call.ttl) ELSE first

-----------------------------------------------------------------------------
(* Calls.                                                                    *)

\* query (ttl = 0) asks the cache when it is enabled, queryWithCache always.
Select(c, q, ttl) ==
    /\ calls[c].phase = "idle"
    /\ LET asked == enabled \/ ttl > 0
           hit == asked /\ Cached(q)
       IN  /\ calls' = [calls EXCEPT ![c] = [Idle EXCEPT
                            !.phase = IF hit THEN "done" ELSE "sent", !.query = q, !.ttl = ttl]]
           \* an entry past its time is removed when it is met
           /\ cacheOrder' = IF asked /\ ~hit THEN Without(cacheOrder, {q}) ELSE cacheOrder
    /\ UNCHANGED <<table, applied, queryCache, enabled, slowLog, forgotten, dbNow>>

Write(c) ==
    /\ calls[c].phase = "idle"
    /\ calls' = [calls EXCEPT ![c] = [Idle EXCEPT !.phase = "sent", !.write = TRUE]]
    /\ UNCHANGED <<table, applied, queryCache, cacheOrder, enabled, slowLog, forgotten, dbNow>>

\* The database runs the statement of a call.
Runs(c) ==
    IF calls[c].write
    THEN table' = table + 1 /\ applied' = [applied EXCEPT ![c] = @ + 1]
    ELSE UNCHANGED <<table, applied>>

\* The statement runs, and fast or slowly its result comes back.
Execute(c, slow) ==
    /\ calls[c].phase = "sent"
    /\ Runs(c)
    /\ calls' = [calls EXCEPT ![c].phase = "returned", ![c].table = table, ![c].slow = slow]
    /\ UNCHANGED <<queryCache, cacheOrder, enabled, slowLog, forgotten, dbNow>>

Finish(c) ==
    /\ calls' = [calls EXCEPT ![c].phase = "done"]
    /\ IF calls[c].write THEN UNCHANGED <<queryCache, cacheOrder, forgotten>>
       ELSE /\ CacheBecomes(AfterCaching(calls[c]))
            /\ forgotten' = forgotten \ {calls[c].query}

ReturnFast(c) ==
    /\ calls[c].phase = "returned" /\ ~calls[c].slow
    /\ Finish(c)
    /\ UNCHANGED <<table, applied, enabled, slowLog, dbNow>>

Logged(c) ==
    LET grown == Append(slowLog, c)
    IN  slowLog' = IF Len(grown) > MaxSlowLog THEN Tail(grown) ELSE grown

\* logSlowQuery awaits EXPLAIN (ANALYZE), which runs the statement once more.
ReturnSlow(c) ==
    /\ calls[c].phase = "returned" /\ calls[c].slow
    /\ Runs(c) /\ Logged(c)
    /\ Finish(c)
    /\ UNCHANGED <<enabled, dbNow>>

\* An EXPLAIN that fails is caught; the call goes on.
ExplainFails(c) ==
    /\ calls[c].phase = "returned" /\ calls[c].slow
    /\ Finish(c)
    /\ UNCHANGED <<table, applied, enabled, slowLog, dbNow>>

\* A statement that fails is logged and thrown on.
StatementFails(c) ==
    /\ calls[c].phase = "sent"
    /\ calls' = [calls EXCEPT ![c].phase = "done"]
    /\ UNCHANGED <<table, applied, queryCache, cacheOrder, enabled, slowLog, forgotten, dbNow>>

-----------------------------------------------------------------------------
(* Administration of the cache.                                              *)

\* clearCache.
ClearCache ==
    /\ cacheOrder' = <<>>
    /\ UNCHANGED <<calls, table, applied, queryCache, enabled, slowLog, forgotten, dbNow>>

\* getQueryCacheKey: the key of an entry is a SHA-256 digest.
CacheKey(q) == <<"sha256", q>>

\* invalidateCache(pattern), for a pattern that occurs in the text of some queries, is
\* compared with the keys and finds none of them.
InvalidateCache(pattern) ==
    /\ cacheOrder' = Without(cacheOrder, {q \in Queries : CacheKey(q) \in pattern})
    /\ forgotten' = forgotten \cup pattern
    /\ UNCHANGED <<calls, table, applied, queryCache, enabled, slowLog, dbNow>>

\* configureQueryCache.
ConfigureQueryCache(on) ==
    /\ enabled' = on
    /\ cacheOrder' = IF on THEN cacheOrder ELSE <<>>
    /\ UNCHANGED <<calls, table, applied, queryCache, slowLog, forgotten, dbNow>>

ClearSlowQueryLog ==
    /\ slowLog' = <<>>
    /\ UNCHANGED <<calls, table, applied, queryCache, cacheOrder, enabled, forgotten, dbNow>>

DbTick ==
    /\ dbNow < MaxDbTime
    /\ dbNow' = dbNow + 1
    /\ UNCHANGED <<calls, table, applied, queryCache, cacheOrder, enabled, slowLog, forgotten>>

Next ==
    \/ \E c \in Calls :
          \/ \E q \in Queries, ttl \in Ttls : Select(c, q, ttl)
          \/ Write(c)
          \/ \E slow \in BOOLEAN : Execute(c, slow)
          \/ ReturnFast(c) \/ ReturnSlow(c) \/ ExplainFails(c) \/ StatementFails(c)
    \/ ClearCache
    \/ \E pattern \in SUBSET Queries : InvalidateCache(pattern)
    \/ \E on \in BOOLEAN : ConfigureQueryCache(on)
    \/ ClearSlowQueryLog
    \/ DbTick

Spec == Init /\ [][Next]_dbVars

-----------------------------------------------------------------------------
(* Properties.                                                               *)

\* The cache and the log of slow queries keep to their limits.
OptimizerBounded ==
    /\ Len(cacheOrder) <= MaxEntries /\ IsInjective(cacheOrder)
    /\ Len(slowLog) <= MaxSlowLog

\* A call that the application made once changes the database once, unless the
\* statement was slow: then the analysis may have run it again.
RepeatedOnlyWhenSlow == \A c \in Calls : applied[c] <= IF calls[c].slow THEN 2 ELSE 1

\* While the cache is disabled it holds only what queryWithCache put there.
DisabledHoldsOnlyAsked ==
    ~enabled => \A q \in ToSet(cacheOrder) :
        \E c \in Calls : calls[c].query = q /\ calls[c].ttl > 0 /\ calls[c].phase = "done"

\* Documented, and not kept (README, "What the code does not keep").
\* "Execute a query with optimization tracking": the statement is executed once.
StatementRunsOnce == \A c \in Calls : applied[c] <= 1

\* Documented, and not kept (README, "What the code does not keep").
\* "Invalidate specific cache entries": no query a pattern was meant for stays cached.
InvalidateForgets == forgotten \cap ToSet(cacheOrder) = {}

=============================================================================
