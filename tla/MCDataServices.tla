----------------------------- MODULE MCDataServices -----------------------------
(***************************************************************************)
(* The data services: ObjectPool, CacheService, DatabaseOptimizer and          *)
(* PerformanceProfiler.  They share no state, so a behaviour exercises one of  *)
(* them (part) while the others rest.                                       *)
(***************************************************************************)
EXTENDS ObjectPool

CONSTANTS
    CacheKeys, Ttls, MinTtl, MemoryLimit, MaxInFlight, MaxWrites, MaxCacheTime,
    Calls, Queries, DefaultTtl, MaxEntries, MaxSlowLog, MaxDbTime,
    Durations, Heaps, Percents, Retention, MinSnapshots, LeakWindow, LeakThreshold,
    MaxSamples

\* The limits and times of the configurations.  A Map at its limit has an entry to evict.
ASSUME DataAssumption ==
    /\ MemoryLimit \in Nat \ {0} /\ MaxEntries \in Nat \ {0} /\ MaxSlowLog \in Nat
    /\ Ttls \subseteq Nat /\ MinTtl \in Nat /\ DefaultTtl \in Nat
    /\ Durations \subseteq Nat /\ Percents \subseteq 1 .. 100
    /\ Heaps \subseteq Nat /\ LeakThreshold \in Nat
    /\ MinSnapshots \in Nat \ {0, 1} /\ LeakWindow \in Nat \ {0, 1}

VARIABLES
    part,
    memory, order, redis, pipe, writes, latest, raced, lost, cacheNow,
    calls, table, applied, queryCache, cacheOrder, enabled, slowLog, forgotten, dbNow,
    durations, percentiles, snapshots, reporting, reportTimer, snapshotTimer, destroyed

cacheVars == <<memory, order, redis, pipe, writes, latest, raced, lost, cacheNow>>
dbVars ==
    <<calls, table, applied, queryCache, cacheOrder, enabled, slowLog, forgotten, dbNow>>
profilerVars ==
    <<durations, percentiles, snapshots, reporting, reportTimer, snapshotTimer, destroyed>>
dataVars == <<part, poolVars, cacheVars, dbVars, profilerVars>>

Cache == INSTANCE CacheService
Db == INSTANCE DatabaseOptimizer WITH Ttls <- Ttls \cup {0}
Profiler == INSTANCE PerformanceProfiler

\* A profiler that does not run keeps one initial state.
DataInit ==
    /\ part \in {"pool", "cache", "db", "profiler"}
    /\ Init /\ Cache!Init /\ Db!Init /\ Profiler!Init
    /\ part # "profiler" => reporting

DataNext ==
    /\ UNCHANGED part
    /\ \/ part = "pool" /\ Next /\ UNCHANGED <<cacheVars, dbVars, profilerVars>>
       \/ part = "cache" /\ Cache!Next /\ UNCHANGED <<poolVars, dbVars, profilerVars>>
       \/ part = "db" /\ Db!Next /\ UNCHANGED <<poolVars, cacheVars, profilerVars>>
       \/ part = "profiler" /\ Profiler!Next /\ UNCHANGED <<poolVars, cacheVars, dbVars>>

DataSpec == DataInit /\ [][DataNext]_dataVars

-----------------------------------------------------------------------------
(* The properties, as in MCTokens (PoolSound is in ObjectPool).                *)

\* Both caches keep to their limits.  Memory is current unless a write overtook a read or
\* Redis is behind, and never more than two times to live old.  A disabled query cache
\* holds only what queryWithCache put there, and a statement runs twice only when slow.
CachesSound ==
    /\ part = "cache" =>
          Cache!MemoryBounded /\ Cache!StalenessBounded /\ Cache!MemoryCurrent
    /\ part = "db" =>
          Db!OptimizerBounded /\ Db!DisabledHoldsOnlyAsked /\ Db!RepeatedOnlyWhenSlow

\* Percentiles are what their name says, and no timer runs after destroy.
ProfilerRight ==
    part = "profiler" => Profiler!PercentilesRight /\ Profiler!DestroyedIsQuiet

\* A heap that always grows by more than the threshold is a leak, and one that never
\* does is not.
LeaksFound == part = "profiler" => Profiler!LeaksRight

=================================================================================
