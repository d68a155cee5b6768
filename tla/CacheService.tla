---------------------------- MODULE CacheService ----------------------------
(***************************************************************************)
(* services/cache-service.ts: a memory cache (L1) in front of Redis (L2).     *)
(* Every method changes memory first and then awaits Redis; what comes back  *)
(* from Redis is promoted to memory.  Commands of a process go down one       *)
(* connection, so Redis serves them in order.                                *)
(***************************************************************************)
EXTENDS Naturals, FiniteSets, Sequences, SequencesExt, FiniteSetsExt, Subsequences

CONSTANTS
    CacheKeys,     \* keys, after generateKey
    Ttls,          \* the times to live callers ask for
    MinTtl,        \* minTTL
    MemoryLimit,   \* memoryLimit
    MaxInFlight,   \* commands waiting at Redis (bound)
    MaxWrites,     \* sets of a behaviour (bound)
    MaxCacheTime   \* the clock stops there (bound)

VARIABLES
    memory,        \* memoryCache: key -> entry
    order,         \* the keys of memoryCache in the order of the Map
    redis,         \* key -> entry, the contents of Redis
    pipe,          \* commands on the connection, with what follows their reply
    writes,        \* history: the entries set; a value is its index here
    latest,        \* history: the last write to a key, 0 after a delete
    raced,         \* history: keys written or deleted while a read of them was in flight
    lost,          \* history: keys of which Redis kept a value past a write or a delete
    cacheNow

cacheVars == <<memory, order, redis, pipe, writes, latest, raced, lost, cacheNow>>

NoEntry == [value |-> 0, at |-> 0, ttl |-> 0, used |-> 0]
Entry(value, at, ttl) == [value |-> value, at |-> at, ttl |-> ttl, used |-> cacheNow]

\* isValid.
IsValid(entry) == entry # NoEntry /\ cacheNow - entry.at < entry.ttl

Init ==
    /\ memory = [k \in CacheKeys |-> NoEntry] /\ order = <<>>
    /\ redis = [k \in CacheKeys |-> NoEntry]
    /\ pipe = <<>> /\ writes = <<>>
    /\ latest = [k \in CacheKeys |-> 0]
    /\ raced = {} /\ lost = {}
    /\ cacheNow = 1

-----------------------------------------------------------------------------
(* Memory.                                                                   *)

\* evictLeastRecentlyUsed: the first key of the Map among those used longest ago.
Victim(m, o) == o[Min({i \in DOMAIN o : \A j \in DOMAIN o : m[o[i]].used <= m[o[j]].used})]

\* setInMemory: a full Map loses an entry even when the key is there already.
Put(k, entry) ==
    LET full == Len(order) >= MemoryLimit
        victim == IF full THEN Victim(memory, order) ELSE k
        rest == IF full THEN Without(order, {victim}) ELSE order
    IN  /\ memory' = [memory EXCEPT ![victim] = NoEntry, ![k] = entry]
        /\ order' = IF k \in ToSet(rest) THEN rest ELSE Append(rest, k)

Drop(ks) ==
    /\ memory' = [k \in CacheKeys |-> IF k \in ks THEN NoEntry ELSE memory[k]]
    /\ order' = Without(order, ks)

\* cleanupExpiredEntries, every minute.
CleanupExpiredEntries ==
    /\ Drop({k \in CacheKeys : ~IsValid(memory[k])})
    /\ UNCHANGED <<redis, pipe, writes, latest, raced, lost, cacheNow>>

-----------------------------------------------------------------------------
(* The methods, up to their first await.                                     *)

Send(command) == Len(pipe) < MaxInFlight /\ pipe' = Append(pipe, command)

Reading(k) == \E i \in DOMAIN pipe : pipe[i].op = "get" /\ pipe[i].key = k

\* A write or a delete notes whether it overtakes a read.
Overtakes(ks) == raced' = raced \cup {k \in ks : Reading(k)}

\* get: from memory, or a GET sent to Redis.
GetFromMemory(k) ==
    /\ IsValid(memory[k])
    /\ memory' = [memory EXCEPT ![k].used = cacheNow]
    /\ UNCHANGED <<order, redis, pipe, writes, latest, raced, lost, cacheNow>>

GetFromRedis(k) ==
    /\ ~IsValid(memory[k])
    /\ Send([op |-> "get", key |-> k])
    /\ UNCHANGED <<memory, order, redis, writes, latest, raced, lost, cacheNow>>

\* set.
Set(k, ttl) ==
    LET value == Len(writes) + 1
    IN  /\ Len(writes) < MaxWrites
        /\ writes' = Append(writes, [at |-> cacheNow, ttl |-> ttl])
        /\ Put(k, Entry(value, cacheNow, ttl))
        /\ Send([op |-> "setex", key |-> k, entry |-> Entry(value, cacheNow, ttl)])
        /\ latest' = [latest EXCEPT ![k] = value]
        /\ Overtakes({k})
        /\ UNCHANGED <<redis, lost, cacheNow>>

\* warmCache sets, one after the other, the keys that memory has no valid entry for.
WarmCache(k, ttl) == ~IsValid(memory[k]) /\ Set(k, ttl)

\* Mistakes: memory is left alone.
DeleteOnlyRedis(k) ==
    /\ Send([op |-> "del", key |-> k])
    /\ latest' = [latest EXCEPT ![k] = 0]
    /\ Overtakes({k})
    /\ UNCHANGED <<memory, order, redis, writes, lost, cacheNow>>

\* delete.
Delete(k) ==
    /\ Drop({k})
    /\ Send([op |-> "del", key |-> k])
    /\ latest' = [latest EXCEPT ![k] = 0]
    /\ Overtakes({k})
    /\ UNCHANGED <<redis, writes, lost, cacheNow>>

\* invalidate(pattern) and clear: the keys matched leave memory, a SCAN is sent.
Invalidate(ks) ==
    /\ Drop(ks)
    /\ Send([op |-> "scan", keys |-> ks])
    /\ latest' = [k \in CacheKeys |-> IF k \in ks THEN 0 ELSE latest[k]]
    /\ Overtakes(ks)
    /\ UNCHANGED <<redis, writes, lost, cacheNow>>

-----------------------------------------------------------------------------
(* Redis serves the first command, and the method goes on.                   *)

Reply == Head(pipe)
Served == pipe' = Tail(pipe)

\* A command that had no effect leaves in Redis what was there.
Outlived(ks) == lost' = lost \cup ks

\* calculateAdaptiveTTL: no one writes accessCount to Redis, so an entry that comes
\* back from there counts as rarely accessed.
AdaptiveTtl(entry) == IF MinTtl > entry.ttl \div 2 THEN MinTtl ELSE entry.ttl \div 2

\* The reply to a GET is promoted, with a time to live that begins now.
GetFound ==
    /\ Reply.op = "get" /\ IsValid(redis[Reply.key])
    /\ LET entry == redis[Reply.key]
       IN  Put(Reply.key, Entry(entry.value, cacheNow, AdaptiveTtl(entry)))
    /\ Served
    /\ UNCHANGED <<redis, writes, latest, raced, lost, cacheNow>>

\* An entry past its time is deleted, by a command at the end of the queue.
GetStale ==
    /\ Reply.op = "get" /\ redis[Reply.key] # NoEntry /\ ~IsValid(redis[Reply.key])
    /\ pipe' = Append(Tail(pipe), [op |-> "del", key |-> Reply.key])
    /\ UNCHANGED <<memory, order, redis, writes, latest, raced, lost, cacheNow>>

GetMissing ==
    /\ Reply.op = "get" /\ redis[Reply.key] = NoEntry
    /\ Served
    /\ UNCHANGED <<memory, order, redis, writes, latest, raced, lost, cacheNow>>

SetServed ==
    /\ Reply.op = "setex"
    /\ redis' = [redis EXCEPT ![Reply.key] = Reply.entry]
    /\ lost' = lost \ {Reply.key}
    /\ Served
    /\ UNCHANGED <<memory, order, writes, latest, raced, cacheNow>>

\* The client puts keyPrefix before the keys of a command; a name is a path, so that
\* Redis stores a key under <<KeyPrefix, key>>.
KeyPrefix == "captcha:cache:"
Prefixed(name) == <<KeyPrefix>> \o name

Deleted(names) ==
    [k \in CacheKeys |-> IF Prefixed(<<k>>) \in {Prefixed(name) : name \in names}
                         THEN NoEntry ELSE redis[k]]

DelServed ==
    /\ Reply.op = "del"
    /\ redis' = Deleted({<<Reply.key>>})
    /\ Served
    /\ UNCHANGED <<memory, order, writes, latest, raced, lost, cacheNow>>

\* scanKeys and the DEL of what it found: a SCAN returns the names as Redis stores
\* them, and the DEL puts the prefix before them once more.
ScanServed ==
    /\ Reply.op = "scan"
    /\ redis' = Deleted({Prefixed(<<k>>) : k \in Reply.keys})
    /\ Outlived({k \in Reply.keys : IsValid(redis'[k])})
    /\ Served
    /\ UNCHANGED <<memory, order, writes, latest, raced, cacheNow>>

\* A command that fails is logged and the method goes on: nothing is promoted.
CommandFails ==
    /\ Reply.op # "scan"
    /\ IF Reply.op = "get" THEN UNCHANGED lost ELSE Outlived({k \in {Reply.key} : IsValid(redis[k])})
    /\ Served
    /\ UNCHANGED <<memory, order, redis, writes, latest, raced, cacheNow>>

RedisServes ==
    /\ pipe # <<>>
    /\ GetFound \/ GetStale \/ GetMissing \/ SetServed \/ DelServed \/ ScanServed \/ CommandFails

\* SETEX: Redis drops an entry after its time.
RedisExpires(k) ==
    /\ redis[k] # NoEntry /\ ~IsValid(redis[k])
    /\ redis' = [redis EXCEPT ![k] = NoEntry]
    /\ UNCHANGED <<memory, order, pipe, writes, latest, raced, lost, cacheNow>>

CacheTick ==
    /\ cacheNow < MaxCacheTime
    /\ cacheNow' = cacheNow + 1
    /\ UNCHANGED <<memory, order, redis, pipe, writes, latest, raced, lost>>

Next ==
    \/ \E k \in CacheKeys :
          \/ GetFromMemory(k) \/ GetFromRedis(k) \/ Delete(k) \/ RedisExpires(k)
          \/ \E ttl \in Ttls : Set(k, ttl) \/ WarmCache(k, ttl)
    \/ \E ks \in SUBSET CacheKeys : Invalidate(ks)
    \/ RedisServes
    \/ CleanupExpiredEntries
    \/ CacheTick

Spec == Init /\ [][Next]_cacheVars

-----------------------------------------------------------------------------
(* Properties.                                                               *)

\* The Map holds its keys once, and at most memoryLimit of them.
MemoryBounded ==
    /\ Len(order) <= MemoryLimit
    /\ IsInjective(order) /\ ToSet(order) = {k \in CacheKeys : memory[k] # NoEntry}

\* What memory can answer with was set no longer ago than its time to live and the
\* one it got by promotion, however often it went to Redis and back.
StalenessBounded ==
    \A k \in CacheKeys : IsValid(memory[k]) =>
        LET write == writes[memory[k].value]
            age == cacheNow - write.at
        IN  age < write.ttl + MinTtl \/ age < write.ttl + write.ttl \div 2

\* Memory holds the last value set and nothing that was deleted, unless a write, a
\* delete or an invalidation overtook a read on its way to Redis, or Redis kept an older
\* value because the command failed or was the DEL of names that no key has.
MemoryCurrent ==
    \A k \in CacheKeys :
        IsValid(memory[k]) /\ memory[k].value # latest[k] => k \in raced \/ k \in lost

\* Documented, and not kept (README, "What the code does not keep").
\* "Invalidate cache by pattern": once the command has been served, Redis has
\* nothing older than the invalidation.
InvalidateReachesRedis ==
    [][pipe # <<>> /\ ScanServed => \A k \in Reply.keys : redis'[k] = NoEntry]_cacheVars

=============================================================================
