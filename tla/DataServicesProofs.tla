-------------------------- MODULE DataServicesProofs --------------------------
(***************************************************************************)
(* Proofs about the data services of MCDataServices, for any configuration:    *)
(* ObjectPool, CacheService, DatabaseOptimizer and the profiler; and about the  *)
(* record keepers of MCRecords, for any number of events, samples, indicators,  *)
(* consents and requests and any times.  Each is proved on its own variables;  *)
(* the composition leaves them alone while another part runs.                *)
(*                                                                         *)
(* What retention and the availability window drop is the beginning of a      *)
(* sequence, because entries are appended in the order of their times: that    *)
(* order is what the inductive invariants of the record keepers add.         *)
(***************************************************************************)
EXTENDS MCDataServices, MCRecords, SeriesProofs

-----------------------------------------------------------------------------
(* ObjectPool.  The four parts of PoolSound are proved together: that an idle     *)
(* object is not held needs that objects are numbered (types), and that an     *)
(* object in use has a holder needs that it has only one (sharing).           *)

\* A prefix of a sequence is a sequence of the same elements.
LEMMA PrefixOf ==
    ASSUME NEW S, NEW s \in Seq(S), NEW n \in 0 .. Len(s)
    PROVE  /\ SubSeq(s, 1, n) \in Seq(S)
           /\ Len(SubSeq(s, 1, n)) = n
           /\ \A i \in 1 .. n : SubSeq(s, 1, n)[i] = s[i]
  OBVIOUS

\* An appended sequence has the old elements and the new one.
LEMMA AppendedTo ==
    ASSUME NEW S, NEW s \in Seq(S), NEW e \in S
    PROVE  /\ Append(s, e) \in Seq(S)
           /\ Len(Append(s, e)) = Len(s) + 1
           /\ \A i \in 1 .. Len(s) : Append(s, e)[i] = s[i]
           /\ Append(s, e)[Len(s) + 1] = e
  OBVIOUS

\* Elements of a sequence over the first n numbers are such numbers, also for larger n.
LEMMA Wider ==
    ASSUME NEW n \in Nat, NEW s \in Seq(1 .. n)
    PROVE  /\ s \in Seq(1 .. (n + 1))
           /\ DOMAIN s = 1 .. Len(s) /\ Len(s) \in Nat
           /\ \A i \in 1 .. Len(s) : s[i] \in 1 .. n
  OBVIOUS

\* A pool that holds a prefix of the old one, with nobody given anything, shares nothing.
LEMMA Shrunk ==
    ASSUME PoolTypeOK, NoSharing, IdleBounded, PoolAssumption,
           NEW n \in 0 .. Len(pool), pool' = SubSeq(pool, 1, n), UNCHANGED <<held, totalCreated>>
    PROVE  pool' \in Seq(1 .. totalCreated') /\ NoSharing' /\ IdleBounded'
  <1>1. /\ pool' \in Seq(1 .. totalCreated) /\ Len(pool') = n
        /\ \A i \in 1 .. n : pool'[i] = pool[i]
    BY PrefixOf DEF PoolTypeOK
  <1>2. DOMAIN pool' = 1 .. n /\ DOMAIN pool = 1 .. Len(pool) /\ Len(pool) \in Nat
    BY <1>1, Wider DEF PoolTypeOK
  <1>3. NoSharing'
    BY <1>1, <1>2 DEF NoSharing
  <1> QED
    BY <1>1, <1>2, <1>3 DEF IdleBounded, PoolAssumption

-----------------------------------------------------------------------------
(* The invariant of the pool.                                                *)

\* The invariant holds initially: the pool starts with as many objects as it keeps.
LEMMA InitPool ==
    ASSUME PoolAssumption, Init
    PROVE  PoolSound
  <1> DEFINE s == [i \in 1 .. MinSize |-> i]
  <1>1. s \in Seq(1 .. MinSize) /\ Len(s) = MinSize /\ DOMAIN s = 1 .. MinSize
    BY DEF PoolAssumption
  <1>2. \A i \in 1 .. MinSize : s[i] = i
    OBVIOUS
  <1> HIDE DEF s
  <1>3. pool = s
    BY DEF s, Init
  <1>4. PoolTypeOK
    BY <1>1, <1>3 DEF PoolTypeOK, Init, PoolAssumption
  <1>5. NoSharing
    BY <1>1, <1>2, <1>3 DEF NoSharing, Init, PoolAssumption
  <1>6. IdleBounded /\ InUseHeld
    BY <1>1, <1>3 DEF IdleBounded, InUseHeld, Init, PoolAssumption
  <1> QED
    BY <1>4, <1>5, <1>6 DEF PoolSound

\* acquire hands out the last idle object, which nobody has.
LEMMA AcquireIdlePool ==
    ASSUME PoolAssumption, PoolSound, NEW h \in Holders, AcquireIdle(h)
    PROVE  PoolSound'
  <1> DEFINE n == Len(pool)
             o == pool[n]
  <1>1. n \in Nat /\ n > 0 /\ DOMAIN pool = 1 .. n /\ o \in 1 .. totalCreated
    BY Wider DEF PoolSound, PoolTypeOK, AcquireIdle
  <1>2. /\ pool' \in Seq(1 .. totalCreated) /\ Len(pool') = n - 1
        /\ \A i \in 1 .. (n - 1) : pool'[i] = pool[i]
    BY <1>1, PrefixOf DEF PoolSound, PoolTypeOK, AcquireIdle
  <1>3. DOMAIN pool' = 1 .. (n - 1)
    BY <1>1, <1>2
  <1>4. /\ held' = [held EXCEPT ![h] = o] /\ inUse' = inUse \cup {o}
        /\ UNCHANGED <<totalCreated, cleanupTimer>> /\ held[h] = 0
    BY DEF AcquireIdle, Handed
  <1>5. \A g \in Holders : held[g] # o
    BY <1>1 DEF PoolSound, NoSharing
  <1>6. \A i \in 1 .. (n - 1) : pool[i] # o
    BY <1>1 DEF PoolSound, NoSharing
  <1> HIDE DEF n, o
  <1>7. PoolTypeOK'
    BY <1>1, <1>2, <1>4 DEF PoolSound, PoolTypeOK
  <1>8. NoSharing'
    <2>1. \A g \in Holders : held'[g] = IF g = h THEN o ELSE held[g]
      BY <1>4 DEF PoolSound, PoolTypeOK
    <2>2. \A g, k \in Holders : held'[g] # 0 /\ held'[g] = held'[k] => g = k
      BY <1>5, <2>1 DEF PoolSound, NoSharing
    <2>3. \A i \in 1 .. (n - 1) : i \in DOMAIN pool /\ pool'[i] = pool[i]
      BY <1>1, <1>2
    <2>4. \A g \in Holders, i \in 1 .. (n - 1) : pool'[i] # held'[g]
      BY <1>6, <2>1, <2>3 DEF PoolSound, NoSharing
    <2>5. \A i, j \in 1 .. (n - 1) : pool'[i] = pool'[j] => i = j
      BY <2>3 DEF PoolSound, NoSharing
    <2> QED
      BY <1>3, <2>2, <2>4, <2>5 DEF NoSharing
  <1>9. IdleBounded'
    BY <1>1, <1>2 DEF PoolSound, IdleBounded, PoolAssumption, n
  <1>10. InUseHeld'
    BY <1>1, <1>4 DEF PoolSound, InUseHeld, PoolTypeOK
  <1> QED
    BY <1>7, <1>8, <1>9, <1>10 DEF PoolSound

\* acquire creates an object when none is idle; its number is new.
LEMMA AcquireNewPool ==
    ASSUME PoolAssumption, PoolSound, NEW h \in Holders, AcquireNew(h)
    PROVE  PoolSound'
  <1>1. /\ totalCreated \in Nat /\ totalCreated' = totalCreated + 1
        /\ held' = [held EXCEPT ![h] = totalCreated + 1]
        /\ inUse' = inUse \cup {totalCreated + 1}
        /\ pool = <<>> /\ pool' = <<>> /\ cleanupTimer' = cleanupTimer /\ held[h] = 0
    BY DEF PoolSound, PoolTypeOK, AcquireNew, Handed
  <1>2. PoolTypeOK'
    BY <1>1 DEF PoolSound, PoolTypeOK
  <1>3. NoSharing'
    BY <1>1 DEF PoolSound, NoSharing, PoolTypeOK
  <1>4. IdleBounded' /\ InUseHeld'
    BY <1>1 DEF PoolSound, IdleBounded, InUseHeld, PoolTypeOK, PoolAssumption
  <1> QED
    BY <1>2, <1>3, <1>4 DEF PoolSound

\* release puts back what the pool still counts as in use, when there is room.
LEMMA ReleasePool ==
    ASSUME PoolAssumption, PoolSound, NEW h \in Holders, Release(h)
    PROVE  PoolSound'
  <1> DEFINE o == held[h]
             n == Len(pool)
  <1>1. /\ o \in 1 .. totalCreated /\ totalCreated \in Nat /\ n \in Nat /\ DOMAIN pool = 1 .. n
        /\ held' = [held EXCEPT ![h] = 0] /\ inUse' = inUse \ {o}
        /\ UNCHANGED <<totalCreated, cleanupTimer>>
    BY Wider DEF PoolSound, PoolTypeOK, Release
  <1>2. \A g \in Holders : g # h => held'[g] # o
    BY <1>1 DEF PoolSound, NoSharing, PoolTypeOK
  <1>3. \A i \in 1 .. n : pool[i] # o /\ pool[i] \in 1 .. totalCreated
    BY <1>1, Wider DEF PoolSound, NoSharing, PoolTypeOK
  <1>4. InUseHeld'
    BY <1>1 DEF PoolSound, InUseHeld, PoolTypeOK
  <1>7. \A g \in Holders : held'[g] = IF g = h THEN 0 ELSE held[g]
    BY <1>1 DEF PoolSound, PoolTypeOK
  <1>5. CASE held[h] \in inUse /\ Len(pool) < MaxSize
    <2>1. pool' = Append(pool, o)
      BY <1>5 DEF Release
    <2>2. /\ pool' \in Seq(1 .. totalCreated) /\ Len(pool') = n + 1
          /\ \A i \in 1 .. n : pool'[i] = pool[i]
          /\ pool'[n + 1] = o
      BY <1>1, <2>1, AppendedTo DEF PoolSound, PoolTypeOK
    <2>3. DOMAIN pool' = 1 .. (n + 1)
      BY <1>1, <2>2
    <2>4. IdleBounded'
      BY <1>1, <1>5, <2>2 DEF IdleBounded, PoolAssumption
    <2> HIDE DEF n, o
    <2>5. PoolTypeOK'
      BY <1>1, <2>2 DEF PoolSound, PoolTypeOK
    <2>6. NoSharing'
      <3>1. \A g, k \in Holders : held'[g] # 0 /\ held'[g] = held'[k] => g = k
        BY <1>7 DEF PoolSound, NoSharing
      <3>2. \A g \in Holders, i \in 1 .. n : pool'[i] # held'[g]
        <4>1. \A i \in 1 .. n : i \in DOMAIN pool /\ pool'[i] = pool[i] /\ pool'[i] # 0
          BY <1>1, <1>3, <2>2
        <4>2. \A g \in Holders, i \in DOMAIN pool : pool[i] # held[g]
          BY DEF PoolSound, NoSharing
        <4> QED
          BY <1>7, <4>1, <4>2
      <3>3. \A g \in Holders : pool'[n + 1] # held'[g]
        BY <1>1, <1>2, <1>7, <2>2
      <3>4. \A i, j \in 1 .. n : pool'[i] = pool'[j] => i = j
        BY <1>1, <2>2 DEF PoolSound, NoSharing
      <3>5. \A i \in 1 .. n : pool'[i] # pool'[n + 1]
        BY <1>3, <2>2
      <3>6. \A i \in DOMAIN pool' : i \in 1 .. n \/ i = n + 1
        BY <1>1, <2>3
      <3> QED
        BY <2>3, <3>1, <3>2, <3>3, <3>4, <3>5, <3>6 DEF NoSharing
    <2> QED
      BY <1>4, <2>4, <2>5, <2>6 DEF PoolSound
  <1>6. CASE ~(held[h] \in inUse /\ Len(pool) < MaxSize)
    <2>1. pool' = pool
      BY <1>6 DEF Release
    <2> HIDE DEF n, o
    <2>2. PoolTypeOK'
      BY <1>1, <2>1 DEF PoolSound, PoolTypeOK
    <2>3. NoSharing'
      BY <1>1, <1>3, <1>7, <2>1 DEF PoolSound, NoSharing
    <2> QED
      BY <1>4, <2>1, <2>2, <2>3 DEF PoolSound, IdleBounded
  <1> QED
    BY <1>5, <1>6

\* clear and destroy empty the pool and forget what is in use.
LEMMA ClearPool ==
    ASSUME PoolAssumption, PoolSound, Clear \/ Destroy
    PROVE  PoolSound'
  <1>1. /\ pool' = <<>> /\ inUse' = {} /\ cleanupTimer' \in BOOLEAN
        /\ UNCHANGED <<held, totalCreated>>
    BY DEF Clear, Destroy, PoolSound, PoolTypeOK
  <1> QED
    BY <1>1 DEF PoolSound, PoolTypeOK, NoSharing, IdleBounded, InUseHeld, PoolAssumption

\* The timer keeps the first objects of the stack.
LEMMA ShrinkPool ==
    ASSUME PoolAssumption, PoolSound, Shrink
    PROVE  PoolSound'
  <1>1. /\ MinSize \in 0 .. Len(pool) /\ pool' = SubSeq(pool, 1, MinSize)
        /\ UNCHANGED <<inUse, held, totalCreated, cleanupTimer>>
    BY Wider DEF Shrink, PoolAssumption, PoolSound, PoolTypeOK
  <1>2. pool' \in Seq(1 .. totalCreated') /\ NoSharing' /\ IdleBounded'
    BY <1>1, Shrunk DEF PoolSound
  <1> QED
    BY <1>1, <1>2 DEF PoolSound, PoolTypeOK, InUseHeld

\* Every step preserves the invariant.
LEMMA NextPool ==
    ASSUME PoolAssumption, PoolSound, [Next]_poolVars
    PROVE  PoolSound'
  <1>1. ASSUME NEW h \in Holders, AcquireIdle(h) PROVE PoolSound'
    BY <1>1, AcquireIdlePool
  <1>2. ASSUME NEW h \in Holders, AcquireNew(h) PROVE PoolSound'
    BY <1>2, AcquireNewPool
  <1>3. ASSUME NEW h \in Holders, Release(h) PROVE PoolSound'
    BY <1>3, ReleasePool
  <1>4. CASE Clear \/ Destroy
    BY <1>4, ClearPool
  <1>5. CASE Shrink
    BY <1>5, ShrinkPool
  <1>6. CASE UNCHANGED poolVars
    BY <1>6 DEF PoolSound, PoolTypeOK, NoSharing, IdleBounded, InUseHeld, poolVars
  <1> QED
    BY <1>1, <1>2, <1>3, <1>4, <1>5, <1>6 DEF Next

-----------------------------------------------------------------------------
(* The theorem about the pool.                                               *)

\* Every object has one owner, the pool or one holder, within the limits of the pool, and
\* the pool counts in use only what somebody can release: through every clear, destroy
\* and shrinking that happens while objects are out.
THEOREM PoolAlwaysSound == Spec => []PoolSound
  <1>1. Init => PoolSound
    BY InitPool, PoolAssumption
  <1>2. PoolSound /\ [Next]_poolVars => PoolSound'
    BY NextPool, PoolAssumption
  <1> QED
    BY <1>1, <1>2, PTL DEF Spec

-----------------------------------------------------------------------------
(* CacheService: types, and the limit of memory.                              *)

\* The operators of the instance are the ones the lemmas are about.
LEMMA CacheNames ==
    /\ \A s, S : Cache!Without(s, S) = Without(s, S)
    /\ \A s : Cache!ToSet(s) = {s[i] : i \in DOMAIN s}
    /\ \A f : Cache!IsInjective(f) <=> \A i, j \in DOMAIN f : f[i] = f[j] => i = j
  <1>1. \A S : Cache!Cardinality(S) = Cardinality(S)
    BY DEF Cache!Cardinality, Cardinality
  <1>2. \A I, i : Cache!Rank(I, i) = Rank(I, i)
    BY <1>1 DEF Cache!Rank, Rank
  <1>3. \A I, n : Cache!Nth(I, n) = Nth(I, n)
    BY <1>2 DEF Cache!Nth, Nth
  <1>4. \A s, I : Cache!Picked(s, I) = Picked(s, I)
    BY <1>1, <1>3 DEF Cache!Picked, Picked
  <1>5. \A s, S : Cache!Without(s, S) = Without(s, S)
    BY <1>4 DEF Cache!Without, Without
  <1> QED
    BY <1>5 DEF Cache!ToSet, Cache!IsInjective

\* What memory and Redis hold of a key, and the commands on the connection.
CEntries == [value : Nat, at : Nat, ttl : Nat, used : Nat]
CWrites == [at : Nat, ttl : Nat]
Commands ==
    [op : {"get", "del"}, key : CacheKeys]
    \cup [op : {"setex"}, key : CacheKeys, entry : CEntries]
    \cup [op : {"scan"}, keys : SUBSET CacheKeys]

LEMMA CommandKinds ==
    ASSUME NEW c \in Commands
    PROVE  /\ c.op \in {"get", "del", "setex", "scan"}
           /\ c.op \in {"get", "del", "setex"} => c.key \in CacheKeys
           /\ c.op = "setex" => c.entry \in CEntries
           /\ c.op = "scan" => c.keys \subseteq CacheKeys
  BY DEF Commands

CacheTypes ==
    /\ memory \in [CacheKeys -> CEntries] /\ redis \in [CacheKeys -> CEntries]
    /\ order \in Seq(CacheKeys)
    /\ pipe \in Seq(Commands)
    /\ writes \in Seq(CWrites)
    /\ latest \in [CacheKeys -> Nat]
    /\ raced \subseteq CacheKeys /\ lost \subseteq CacheKeys
    /\ cacheNow \in Nat

\* The keys of the Map are those that memory has an entry for, each once.
MapKept ==
    /\ Len(order) <= MemoryLimit
    /\ \A i, j \in DOMAIN order : order[i] = order[j] => i = j
    /\ {order[i] : i \in DOMAIN order} = {k \in CacheKeys : memory[k] # Cache!NoEntry}

LEMMA MapKeptIsBounded == MapKept <=> Cache!MemoryBounded
  BY CacheNames DEF MapKept, Cache!MemoryBounded

\* A full Map has a key that was used longest ago.
LEMMA VictimIsThere ==
    ASSUME CacheTypes, Len(order) # 0
    PROVE  Cache!Victim(memory, order) \in {order[i] : i \in DOMAIN order}
  <1> DEFINE used == {memory[order[i]].used : i \in DOMAIN order}
             oldest == {i \in DOMAIN order :
                          \A j \in DOMAIN order : memory[order[i]].used <= memory[order[j]].used}
  <1>1. DOMAIN order = 1 .. Len(order) /\ Len(order) \in Nat
    BY DEF CacheTypes
  <1>2. \A i \in DOMAIN order : order[i] \in CacheKeys
    BY DEF CacheTypes
  <1>3. \A i \in DOMAIN order : memory[order[i]].used \in Nat
    BY <1>2 DEF CacheTypes, CEntries
  <1>4. 1 \in DOMAIN order
    BY <1>1
  <1>5. used \in SUBSET Nat /\ used # {}
    BY <1>3, <1>4
  <1> HIDE DEF used
  <1>6. PICK least \in used : \A u \in used : least <= u
    BY <1>5, LeastExists
  <1>7. oldest \in SUBSET Nat /\ oldest # {}
    <2>1. PICK i \in DOMAIN order : least = memory[order[i]].used
      BY <1>6 DEF used
    <2>2. \A j \in DOMAIN order : memory[order[i]].used <= memory[order[j]].used
      BY <1>6, <2>1 DEF used
    <2> QED
      BY <1>1, <2>2
  <1> HIDE DEF oldest
  <1>8. \E i \in oldest : \A j \in oldest : i <= j
    BY <1>7, LeastExists
  <1>9. Cache!Min(oldest) \in oldest
    BY <1>8 DEF Cache!Min
  <1>10. Cache!Victim(memory, order) = order[Cache!Min(oldest)]
    BY DEF Cache!Victim, oldest
  <1> QED
    BY <1>9, <1>10 DEF oldest

\* A key more or less in the Map.
LEMMA MapWithout ==
    ASSUME CacheTypes, MapKept, NEW S \in SUBSET CacheKeys
    PROVE  /\ Cache!Without(order, S) \in Seq(CacheKeys)
           /\ Len(Cache!Without(order, S)) <= MemoryLimit
           /\ Len(Cache!Without(order, S)) <= Len(order)
           /\ \A i, j \in DOMAIN Cache!Without(order, S) :
                 Cache!Without(order, S)[i] = Cache!Without(order, S)[j] => i = j
           /\ {Cache!Without(order, S)[i] : i \in DOMAIN Cache!Without(order, S)} =
                 {k \in CacheKeys : memory[k] # Cache!NoEntry} \ S
  <1> DEFINE rest == Without(order, S)
  <1>1. order \in Seq(CacheKeys)
    BY DEF CacheTypes
  <1>2. /\ rest \in Seq(CacheKeys) /\ Len(rest) \in 0 .. Len(order)
        /\ {rest[n] : n \in DOMAIN rest} = {order[i] : i \in DOMAIN order} \ S
        /\ \A n, k \in DOMAIN rest : rest[n] = rest[k] => n = k
    <2>1. \A i, j \in DOMAIN order : order[i] = order[j] => i = j
      BY DEF MapKept
    <2>2. /\ rest \in Seq(CacheKeys) /\ Len(rest) \in 0 .. Len(order)
          /\ {rest[n] : n \in DOMAIN rest} = {order[i] : i \in DOMAIN order} \ S
          /\ (\A i, j \in DOMAIN order : order[i] = order[j] => i = j) =>
                \A n, k \in DOMAIN rest : rest[n] = rest[k] => n = k
      BY <1>1, WithoutFacts, Zenon
    <2> QED
      BY <2>1, <2>2
  <1>3. Cache!Without(order, S) = rest
    BY CacheNames
  <1> HIDE DEF rest
  <1>4. Len(rest) <= Len(order) /\ Len(rest) <= MemoryLimit
    BY <1>1, <1>2, DataAssumption DEF MapKept
  <1> QED
    BY <1>2, <1>3, <1>4 DEF MapKept

\* Entries that a Map without some keys goes with.
LEMMA DropBounds ==
    ASSUME CacheTypes, MapKept, NEW ks \in SUBSET CacheKeys, Cache!Drop(ks)
    PROVE  /\ MapKept' /\ order' \in Seq(CacheKeys) /\ memory' \in [CacheKeys -> CEntries]
           /\ \A k \in CacheKeys :
                 memory'[k] = IF k \in ks THEN Cache!NoEntry ELSE memory[k]
  <1>1. /\ order' = Cache!Without(order, ks)
        /\ memory' = [k \in CacheKeys |-> IF k \in ks THEN Cache!NoEntry ELSE memory[k]]
    BY DEF Cache!Drop
  <1>2. \A k \in CacheKeys : memory'[k] = IF k \in ks THEN Cache!NoEntry ELSE memory[k]
    BY <1>1
  <1>3. memory' \in [CacheKeys -> CEntries]
    BY <1>1 DEF CacheTypes, CEntries, Cache!NoEntry
  <1>4. {k \in CacheKeys : memory'[k] # Cache!NoEntry} =
            {k \in CacheKeys : memory[k] # Cache!NoEntry} \ ks
    BY <1>2
  <1> QED
    BY <1>1, <1>2, <1>3, <1>4, MapWithout DEF MapKept

LEMMA PutBounds ==
    ASSUME CacheTypes, MapKept, NEW k \in CacheKeys, NEW entry \in CEntries,
           entry # Cache!NoEntry, Cache!Put(k, entry)
    PROVE  /\ MapKept' /\ order' \in Seq(CacheKeys) /\ memory' \in [CacheKeys -> CEntries]
           /\ memory'[k] = entry
           /\ \A j \in CacheKeys \ {k} : memory'[j] = memory[j] \/ memory'[j] = Cache!NoEntry
  <1> DEFINE full == Len(order) >= MemoryLimit
             victim == IF full THEN Cache!Victim(memory, order) ELSE k
             rest == IF full THEN Cache!Without(order, {victim}) ELSE order
             kept == {j \in CacheKeys : memory[j] # Cache!NoEntry}
  <1>1. Len(order) \in Nat /\ MemoryLimit \in Nat /\ MemoryLimit > 0
    BY DataAssumption DEF CacheTypes
  <1>2. full => victim \in {order[i] : i \in DOMAIN order}
    BY <1>1, VictimIsThere
  <1>3. victim \in CacheKeys
    BY <1>2 DEF CacheTypes
  <1>4. /\ memory' = [memory EXCEPT ![victim] = Cache!NoEntry, ![k] = entry]
        /\ order' = IF k \in Cache!ToSet(rest) THEN rest ELSE Append(rest, k)
    BY DEF Cache!Put
  <1>5. /\ rest \in Seq(CacheKeys) /\ Len(rest) < MemoryLimit
        /\ \A i, j \in DOMAIN rest : rest[i] = rest[j] => i = j
        /\ {rest[i] : i \in DOMAIN rest} = IF full THEN kept \ {victim} ELSE kept
    <2>1. CASE full
      <3>1. rest = Cache!Without(order, {victim})
        BY <2>1
      <3>2. Len(Without(order, {victim})) = Len(order) - 1
        BY <1>2, <2>1, WithoutOne DEF CacheTypes, MapKept
      <3>3. Len(rest) < MemoryLimit
        BY <1>1, <3>1, <3>2, CacheNames DEF MapKept
      <3>4. {victim} \in SUBSET CacheKeys
        BY <1>3
      <3>5. /\ Cache!Without(order, {victim}) \in Seq(CacheKeys)
            /\ \A i, j \in DOMAIN Cache!Without(order, {victim}) :
                  Cache!Without(order, {victim})[i] = Cache!Without(order, {victim})[j] => i = j
            /\ {Cache!Without(order, {victim})[i] : i \in DOMAIN Cache!Without(order, {victim})} =
                  kept \ {victim}
        <4> HIDE DEF victim
        <4> QED
          BY <3>4, MapWithout
      <3> HIDE DEF victim, full, rest, kept
      <3> QED
        BY <2>1, <3>1, <3>3, <3>5
    <2>2. CASE ~full
      BY <1>1, <2>2 DEF CacheTypes, MapKept
    <2> QED
      BY <2>1, <2>2
  <1> HIDE DEF rest, victim, full
  <1>6. \A j \in CacheKeys : memory'[j] =
            IF j = k THEN entry ELSE IF j = victim THEN Cache!NoEntry ELSE memory[j]
    BY <1>3, <1>4 DEF CacheTypes
  <1>7. memory' \in [CacheKeys -> CEntries]
    BY <1>3, <1>4 DEF CacheTypes, CEntries, Cache!NoEntry
  <1>8. {j \in CacheKeys : memory'[j] # Cache!NoEntry} = {rest[i] : i \in DOMAIN rest} \cup {k}
    <2>1. ~full => victim = k
      BY DEF victim
    <2> QED
      BY <1>5, <1>6, <2>1
  <1>9. MapKept' /\ order' \in Seq(CacheKeys)
    <2>1. CASE k \in {rest[i] : i \in DOMAIN rest}
      <3>1. order' = rest
        BY <1>4, <2>1, CacheNames
      <3>2. {rest[i] : i \in DOMAIN rest} = {rest[i] : i \in DOMAIN rest} \cup {k}
        BY <2>1
      <3>3. Len(rest) <= MemoryLimit
        BY <1>1, <1>5
      <3> QED
        BY <1>5, <1>8, <3>1, <3>2, <3>3 DEF MapKept
    <2>2. CASE k \notin {rest[i] : i \in DOMAIN rest}
      <3>1. order' = Append(rest, k)
        BY <1>4, <2>2, CacheNames
      <3>2. /\ Append(rest, k) \in Seq(CacheKeys)
            /\ Len(Append(rest, k)) = Len(rest) + 1
            /\ \A i \in 1 .. Len(rest) : Append(rest, k)[i] = rest[i]
            /\ Append(rest, k)[Len(rest) + 1] = k
            /\ DOMAIN Append(rest, k) = 1 .. Len(rest) + 1 /\ DOMAIN rest = 1 .. Len(rest)
            /\ Len(rest) \in Nat
        BY <1>5
      <3>3. {order'[i] : i \in DOMAIN order'} = {rest[i] : i \in DOMAIN rest} \cup {k}
        BY <3>1, <3>2
      <3>4. \A i, j \in DOMAIN order' : order'[i] = order'[j] => i = j
        <4>1. \A i \in DOMAIN order' : i \in 1 .. Len(rest) \/ i = Len(rest) + 1
          BY <3>1, <3>2
        <4>2. \A i \in 1 .. Len(rest) : order'[i] = rest[i] /\ i \in DOMAIN rest
          BY <3>1, <3>2
        <4>3. order'[Len(rest) + 1] = k
          BY <3>1, <3>2
        <4> QED
          BY <1>5, <2>2, <4>1, <4>2, <4>3
      <3>5. Len(order') <= MemoryLimit
        BY <1>1, <1>5, <3>1, <3>2
      <3> QED
        BY <1>8, <3>1, <3>2, <3>3, <3>4, <3>5 DEF MapKept
    <2> QED
      BY <2>1, <2>2
  <1> QED
    BY <1>6, <1>7, <1>9

-----------------------------------------------------------------------------
(* CacheService: the age of what memory answers with.                          *)

\* An entry as it was set, and one that came back from Redis before its time was over.
Faithful(e, w) ==
    e # Cache!NoEntry =>
        e.value \in DOMAIN w /\ e.at = w[e.value].at /\ e.ttl = w[e.value].ttl
Promoted(e, w) ==
    e # Cache!NoEntry =>
        /\ e.value \in DOMAIN w /\ e.at < w[e.value].at + w[e.value].ttl
        /\ e.ttl = Cache!AdaptiveTtl(w[e.value])

\* Redis and the commands have entries as they were set; memory has also promoted ones.
Aged ==
    /\ \A k \in CacheKeys : Faithful(redis[k], writes)
    /\ \A k \in CacheKeys : Faithful(memory[k], writes) \/ Promoted(memory[k], writes)
    /\ \A i \in DOMAIN pipe : pipe[i].op = "setex" => Faithful(pipe[i].entry, writes)

LEMMA WriteAt ==
    ASSUME CacheTypes, NEW i \in DOMAIN writes
    PROVE  i \in Nat \ {0} /\ writes[i].at \in Nat /\ writes[i].ttl \in Nat
  <1>1. writes \in Seq(CWrites)
    BY DEF CacheTypes
  <1>2. i \in 1 .. Len(writes) /\ Len(writes) \in Nat
    BY <1>1
  <1>3. writes[i] \in CWrites
    BY <1>1, <1>2
  <1> QED
    BY <1>2, <1>3 DEF CWrites

LEMMA AgedIsStalenessBounded ==
    ASSUME CacheTypes, Aged
    PROVE  Cache!StalenessBounded
  <1> SUFFICES ASSUME NEW k \in CacheKeys, Cache!IsValid(memory[k])
               PROVE  LET write == writes[memory[k].value]
                          age == cacheNow - write.at
                      IN  age < write.ttl + MinTtl \/ age < write.ttl + write.ttl \div 2
    BY DEF Cache!StalenessBounded
  <1> DEFINE e == memory[k]
             w == writes[e.value]
  <1>1. e \in CEntries /\ cacheNow \in Nat /\ MinTtl \in Nat
    BY DataAssumption DEF CacheTypes
  <1>2. e # Cache!NoEntry /\ cacheNow - e.at < e.ttl
    BY DEF Cache!IsValid
  <1>3. e.value \in DOMAIN writes
    BY <1>2 DEF Aged, Faithful, Promoted
  <1>5. w.at \in Nat /\ w.ttl \in Nat /\ e.at \in Nat /\ e.ttl \in Nat
    BY <1>1, <1>3, WriteAt DEF CEntries
  <1>6. CASE Faithful(e, writes)
    <2>1. e.at = w.at /\ e.ttl = w.ttl
      BY <1>2, <1>6 DEF Faithful
    <2> QED
      BY <1>1, <1>2, <1>5, <2>1
  <1>7. CASE Promoted(e, writes)
    <2>1. e.at < w.at + w.ttl /\ e.ttl = Cache!AdaptiveTtl(w)
      BY <1>2, <1>7 DEF Promoted
    <2>2. e.ttl = MinTtl \/ e.ttl = w.ttl \div 2
      BY <2>1 DEF Cache!AdaptiveTtl
    <2>3. w.ttl \div 2 \in Nat
      BY <1>5
    <2>4. cacheNow - w.at < w.ttl + e.ttl
      <3> HIDE DEF e, w
      <3> QED
        BY <1>1, <1>2, <1>5, <2>1
    <2> QED
      BY <2>2, <2>4
  <1> QED
    BY <1>6, <1>7 DEF Aged

\* A write more does not change what the others were.
LEMMA WritesGrow ==
    ASSUME CacheTypes, NEW w \in CWrites, NEW e
    PROVE  /\ Faithful(e, writes) => Faithful(e, Append(writes, w))
           /\ Promoted(e, writes) => Promoted(e, Append(writes, w))
  <1>1. \A i \in DOMAIN writes : i \in DOMAIN Append(writes, w) /\ Append(writes, w)[i] = writes[i]
    <2>1. writes \in Seq(CWrites)
      BY DEF CacheTypes
    <2> QED
      BY <2>1
  <1> QED
    BY <1>1 DEF Faithful, Promoted

-----------------------------------------------------------------------------
(* CacheService: what a read on its way will find.                             *)

WritesTo(c, k) == IF c.op = "scan" THEN k \in c.keys ELSE c.op \in {"setex", "del"} /\ c.key = k
Reads(c, k) == c.op = "get" /\ c.key = k
Sets(c, k) == c.op = "setex" /\ c.key = k

\* The value that a command leaves, and whether it is neither the last one nor none.
Left(c) == IF c.op = "setex" THEN c.entry.value ELSE 0
Older(v, last) == v # 0 /\ v # last

\* The places of the reads of a key, the next one included.
ReadPlaces(p, k) == {i \in 1 .. Len(p) + 1 : i = Len(p) + 1 \/ Reads(p[i], k)}

\* Every older value of a key is written over before a read gets there, the one that
\* Redis has included.
Flowing(p, k, last, inRedis) ==
    \A i \in ReadPlaces(p, k) :
        /\ \A m \in 1 .. i - 1 :
              WritesTo(p[m], k) /\ Older(Left(p[m]), last) =>
                  \E j \in m + 1 .. i - 1 : WritesTo(p[j], k)
        /\ inRedis => \E j \in 1 .. i - 1 : WritesTo(p[j], k)

\* A command that leaves no older value is sent.
LEMMA FlowSent ==
    ASSUME NEW p \in Seq(Commands), NEW c \in Commands, NEW k, NEW last, NEW inRedis,
           Flowing(p, k, last, inRedis), WritesTo(c, k) => ~Older(Left(c), last)
    PROVE  Flowing(Append(p, c), k, last, inRedis)
  <1> DEFINE n == Len(p)
             q == Append(p, c)
  <1>1. /\ n \in Nat /\ Len(q) = n + 1
        /\ \A i \in 1 .. n : q[i] = p[i]
        /\ q[n + 1] = c
    OBVIOUS
  <1> HIDE DEF n, q
  <1> SUFFICES ASSUME NEW i \in ReadPlaces(q, k)
               PROVE  /\ \A m \in 1 .. i - 1 :
                            WritesTo(q[m], k) /\ Older(Left(q[m]), last) =>
                                \E j \in m + 1 .. i - 1 : WritesTo(q[j], k)
                      /\ inRedis => \E j \in 1 .. i - 1 : WritesTo(q[j], k)
    BY DEF Flowing, q
  <1>2. PICK h \in ReadPlaces(p, k) : h \in 1 .. n + 1 /\ (h = i \/ (h = n + 1 /\ i = n + 2))
    <2>1. i \in 1 .. n + 2 /\ (i = n + 2 \/ Reads(q[i], k))
      BY <1>1 DEF ReadPlaces
    <2>2. n + 1 \in ReadPlaces(p, k)
      BY <1>1 DEF ReadPlaces, n
    <2>3. CASE i \in 1 .. n
      <3>1. i \in ReadPlaces(p, k)
        BY <1>1, <2>1, <2>3 DEF ReadPlaces, n
      <3> QED
        BY <1>1, <2>3, <3>1
    <2>4. CASE i \in {n + 1, n + 2}
      BY <1>1, <2>2, <2>4
    <2> QED
      BY <1>1, <2>1, <2>3, <2>4
  <1>3. /\ \A m \in 1 .. h - 1 :
              WritesTo(p[m], k) /\ Older(Left(p[m]), last) =>
                  \E j \in m + 1 .. h - 1 : WritesTo(p[j], k)
        /\ inRedis => \E j \in 1 .. h - 1 : WritesTo(p[j], k)
    BY <1>2 DEF Flowing
  <1>4. i \in Nat /\ h \in Nat /\ h <= i
    BY <1>1, <1>2
  <1>5. \A j \in 1 .. h - 1 : j \in 1 .. i - 1 /\ q[j] = p[j]
    BY <1>1, <1>2, <1>4
  <1>6. ASSUME NEW m \in 1 .. i - 1, WritesTo(q[m], k), Older(Left(q[m]), last)
        PROVE  \E j \in m + 1 .. i - 1 : WritesTo(q[j], k)
    <2>1. m \in 1 .. h - 1
      <3>1. m # n + 1
        BY <1>1, <1>6
      <3> QED
        BY <1>1, <1>2, <1>4, <3>1
    <2>2. PICK j \in m + 1 .. h - 1 : WritesTo(p[j], k)
      BY <1>3, <1>5, <1>6, <2>1
    <2>3. j \in 1 .. h - 1 /\ j \in m + 1 .. i - 1
      BY <1>4, <2>1, <2>2
    <2> QED
      BY <1>5, <2>2, <2>3
  <1>7. ASSUME inRedis PROVE \E j \in 1 .. i - 1 : WritesTo(q[j], k)
    BY <1>3, <1>5, <1>7
  <1> QED
    BY <1>6, <1>7

\* A command that writes or deletes the key is sent while nobody reads it.
LEMMA FlowWritten ==
    ASSUME NEW p \in Seq(Commands), NEW c \in Commands, NEW k, NEW inRedis,
           WritesTo(c, k), \A i \in DOMAIN p : ~Reads(p[i], k)
    PROVE  Flowing(Append(p, c), k, Left(c), inRedis)
  <1> DEFINE n == Len(p)
             q == Append(p, c)
             last == Left(c)
  <1>1. /\ n \in Nat /\ Len(q) = n + 1 /\ DOMAIN p = 1 .. n
        /\ \A i \in 1 .. n : q[i] = p[i]
        /\ q[n + 1] = c
    OBVIOUS
  <1>2. ~Older(Left(c), last)
    BY DEF Older
  <1>3. ~Reads(c, k)
    BY DEF WritesTo, Reads
  <1> HIDE DEF n, q, last
  <1> SUFFICES ASSUME NEW i \in ReadPlaces(q, k)
               PROVE  /\ \A m \in 1 .. i - 1 :
                            WritesTo(q[m], k) /\ Older(Left(q[m]), last) =>
                                \E j \in m + 1 .. i - 1 : WritesTo(q[j], k)
                      /\ inRedis => \E j \in 1 .. i - 1 : WritesTo(q[j], k)
    BY DEF Flowing, q, last
  <1>4. i = n + 2
    <2>1. i \in 1 .. n + 2 /\ (i = n + 2 \/ Reads(q[i], k))
      BY <1>1 DEF ReadPlaces
    <2>2. i \in 1 .. n => ~Reads(q[i], k)
      BY <1>1
    <2> QED
      BY <1>1, <1>3, <2>1, <2>2
  <1>5. ASSUME NEW m \in 1 .. i - 1, Older(Left(q[m]), last)
        PROVE  \E j \in m + 1 .. i - 1 : WritesTo(q[j], k)
    <2>1. m # n + 1
      BY <1>1, <1>2, <1>5
    <2>2. n + 1 \in m + 1 .. i - 1
      BY <1>1, <1>4, <2>1
    <2> QED
      BY <1>1, <2>2
  <1>6. n + 1 \in 1 .. i - 1
    BY <1>1, <1>4
  <1> QED
    BY <1>1, <1>5, <1>6

\* The first command is served: Redis has what it had, or what the command left.
LEMMA FlowServed ==
    ASSUME NEW p \in Seq(Commands), p # <<>>, NEW k, NEW last, NEW inRedis, NEW thenInRedis,
           Flowing(p, k, last, inRedis),
           thenInRedis => \/ inRedis /\ ~WritesTo(p[1], k)
                          \/ WritesTo(p[1], k) /\ Older(Left(p[1]), last)
    PROVE  Flowing(Tail(p), k, last, thenInRedis)
  <1> DEFINE n == Len(p)
             q == Tail(p)
  <1>1. /\ n \in Nat \ {0} /\ Len(q) = n - 1
        /\ \A i \in 1 .. n - 1 : q[i] = p[i + 1]
    OBVIOUS
  <1> HIDE DEF n, q
  <1> SUFFICES ASSUME NEW i \in ReadPlaces(q, k)
               PROVE  /\ \A m \in 1 .. i - 1 :
                            WritesTo(q[m], k) /\ Older(Left(q[m]), last) =>
                                \E j \in m + 1 .. i - 1 : WritesTo(q[j], k)
                      /\ thenInRedis => \E j \in 1 .. i - 1 : WritesTo(q[j], k)
    BY DEF Flowing, q
  <1>2. i \in 1 .. n /\ i + 1 \in ReadPlaces(p, k)
    <2>1. i \in 1 .. n /\ (i = n \/ Reads(q[i], k))
      BY <1>1 DEF ReadPlaces
    <2>2. i + 1 \in 1 .. n + 1 /\ (i + 1 = n + 1 \/ Reads(p[i + 1], k))
      BY <1>1, <2>1
    <2> QED
      BY <2>1, <2>2 DEF ReadPlaces, n
  <1>3. /\ \A m \in 1 .. i :
              WritesTo(p[m], k) /\ Older(Left(p[m]), last) =>
                  \E j \in m + 1 .. i : WritesTo(p[j], k)
        /\ inRedis => \E j \in 1 .. i : WritesTo(p[j], k)
    <2>1. (i + 1) - 1 = i
      BY <1>1, <1>2
    <2> QED
      BY <1>2, <2>1 DEF Flowing
  <1>4. i \in Nat
    BY <1>1, <1>2
  <1>5. \A m \in 1 .. i - 1 : m + 1 \in 1 .. i /\ q[m] = p[m + 1] /\ m \in Nat
    BY <1>1, <1>2
  <1>6. \A j \in 2 .. i : j - 1 \in 1 .. i - 1 /\ q[j - 1] = p[j]
    BY <1>1, <1>2
  <1>7. ASSUME NEW m \in 1 .. i - 1, WritesTo(q[m], k), Older(Left(q[m]), last)
        PROVE  \E j \in m + 1 .. i - 1 : WritesTo(q[j], k)
    <2>1. PICK j \in (m + 1) + 1 .. i : WritesTo(p[j], k)
      BY <1>3, <1>5, <1>7
    <2>2. j \in 2 .. i /\ j - 1 \in m + 1 .. i - 1
      BY <1>4, <1>5, <2>1
    <2> QED
      BY <1>6, <2>1, <2>2
  <1>8. ASSUME thenInRedis PROVE \E j \in 1 .. i - 1 : WritesTo(q[j], k)
    <2>1. PICK j \in 2 .. i : WritesTo(p[j], k)
      <3>1. CASE inRedis /\ ~WritesTo(p[1], k)
        <4>1. PICK j \in 1 .. i : WritesTo(p[j], k)
          BY <1>3, <3>1
        <4>2. j \in 2 .. i
          BY <1>4, <3>1, <4>1
        <4> QED
          BY <4>1, <4>2
      <3>2. CASE WritesTo(p[1], k) /\ Older(Left(p[1]), last)
        <4>1. 1 \in 1 .. i
          BY <1>1, <1>2
        <4>2. PICK j \in 1 + 1 .. i : WritesTo(p[j], k)
          BY <1>3, <3>2, <4>1
        <4> QED
          BY <4>2
      <3> QED
        BY <1>8, <3>1, <3>2
    <2> QED
      BY <1>6, <2>1
  <1> QED
    BY <1>7, <1>8

\* The older value of a key that Redis answers with, unless it kept one past a write.
InRedis(k) == k \notin lost /\ Cache!IsValid(redis[k]) /\ Older(redis[k].value, latest[k])

\* No value is on its way behind a read, nor when memory has an older one.
SetsFirst(p, k) == \A i, j \in DOMAIN p : Reads(p[i], k) /\ i < j => ~Sets(p[j], k)
OlderLost(k) ==
    Older(memory[k].value, latest[k]) => k \in lost /\ \A j \in DOMAIN pipe : ~Sets(pipe[j], k)

Flows(k) ==
    k \notin raced =>
        Flowing(pipe, k, latest[k], InRedis(k)) /\ SetsFirst(pipe, k) /\ OlderLost(k)

LEMMA FlowsIsCurrent ==
    ASSUME CacheTypes, Aged, \A k \in CacheKeys : Flows(k)
    PROVE  Cache!MemoryCurrent
  <1> SUFFICES ASSUME NEW k \in CacheKeys, Cache!IsValid(memory[k]), memory[k].value # latest[k],
                      k \notin raced
               PROVE  k \in lost
    BY DEF Cache!MemoryCurrent
  <1>1. memory[k] # Cache!NoEntry
    BY DEF Cache!IsValid
  <1>2. memory[k].value \in DOMAIN writes
    BY <1>1 DEF Aged, Faithful, Promoted
  <1>3. memory[k].value # 0
    BY <1>2, WriteAt
  <1> QED
    BY <1>3 DEF Flows, OlderLost, Older

\* What is sent comes behind every read.
LEMMA SetsFirstSent ==
    ASSUME NEW p \in Seq(Commands), NEW c \in Commands, NEW k,
           SetsFirst(p, k), Sets(c, k) => \A i \in DOMAIN p : ~Reads(p[i], k)
    PROVE  SetsFirst(Append(p, c), k)
  <1> DEFINE n == Len(p)
             q == Append(p, c)
  <1>1. /\ n \in Nat /\ DOMAIN q = 1 .. n + 1 /\ DOMAIN p = 1 .. n
        /\ \A i \in 1 .. n : q[i] = p[i]
        /\ q[n + 1] = c
    OBVIOUS
  <1> HIDE DEF n, q
  <1> SUFFICES ASSUME NEW i \in DOMAIN q, NEW j \in DOMAIN q, Reads(q[i], k), i < j
               PROVE  ~Sets(q[j], k)
    BY DEF SetsFirst, q
  <1>2. i \in DOMAIN p /\ q[i] = p[i]
    BY <1>1
  <1>3. j = n + 1 \/ (j \in DOMAIN p /\ q[j] = p[j])
    BY <1>1
  <1> QED
    BY <1>1, <1>2, <1>3 DEF SetsFirst

LEMMA SetsFirstServed ==
    ASSUME NEW p \in Seq(Commands), p # <<>>, NEW k, SetsFirst(p, k)
    PROVE  /\ SetsFirst(Tail(p), k)
           /\ Reads(p[1], k) => \A j \in DOMAIN Tail(p) : ~Sets(Tail(p)[j], k)
           /\ (\A j \in DOMAIN p : ~Sets(p[j], k)) => \A j \in DOMAIN Tail(p) : ~Sets(Tail(p)[j], k)
  <1> DEFINE n == Len(p)
             q == Tail(p)
  <1>1. /\ n \in Nat \ {0} /\ DOMAIN q = 1 .. n - 1 /\ DOMAIN p = 1 .. n
        /\ \A i \in 1 .. n - 1 : q[i] = p[i + 1]
    OBVIOUS
  <1> HIDE DEF n, q
  <1>2. \A i \in DOMAIN q : i \in Nat /\ i + 1 \in DOMAIN p /\ 1 < i + 1 /\ q[i] = p[i + 1]
    BY <1>1
  <1>3. SetsFirst(q, k)
    <2> SUFFICES ASSUME NEW i \in DOMAIN q, NEW j \in DOMAIN q, Reads(q[i], k), i < j
                 PROVE  ~Sets(q[j], k)
      BY DEF SetsFirst
    <2>1. i + 1 < j + 1
      BY <1>2
    <2> QED
      BY <1>2, <2>1 DEF SetsFirst
  <1>4. 1 \in DOMAIN p
    BY <1>1
  <1> QED
    BY <1>2, <1>3, <1>4 DEF SetsFirst, q

-----------------------------------------------------------------------------
(* CacheService: the inductive invariant and the steps.                        *)

CacheInv == CacheTypes /\ MapKept /\ Aged /\ \A k \in CacheKeys : Flows(k)

\* What a step does to the entries of memory: none is new but the one given for a key.
Loses(ks) == \A j \in ks : memory'[j] = memory[j] \/ memory'[j] = Cache!NoEntry

LEMMA NoEntryFacts ==
    /\ Cache!NoEntry \in CEntries /\ Cache!NoEntry.value = 0
    /\ \A w : Faithful(Cache!NoEntry, w)
    /\ \A last : ~Older(0, last)
  BY DEF Cache!NoEntry, CEntries, Faithful, Older

LEMMA InitCacheInv ==
    ASSUME Cache!Init
    PROVE  CacheInv
  <1>1. CacheTypes
    BY NoEntryFacts DEF Cache!Init, CacheTypes
  <1>2. MapKept
    BY DataAssumption DEF Cache!Init, MapKept
  <1>3. Aged
    BY NoEntryFacts DEF Cache!Init, Aged
  <1>4. ASSUME NEW k \in CacheKeys PROVE Flows(k)
    <2>1. memory[k] = Cache!NoEntry /\ redis[k] = Cache!NoEntry /\ pipe = <<>>
      BY DEF Cache!Init
    <2>2. ~InRedis(k)
      BY <2>1 DEF InRedis, Cache!IsValid
    <2>3. Flowing(pipe, k, latest[k], InRedis(k))
      BY <2>1, <2>2 DEF Flowing, ReadPlaces
    <2>4. SetsFirst(pipe, k) /\ OlderLost(k)
      BY <2>1, NoEntryFacts DEF SetsFirst, OlderLost
    <2> QED
      BY <2>3, <2>4 DEF Flows
  <1> QED
    BY <1>1, <1>2, <1>3, <1>4 DEF CacheInv

\* Entries go, or time does: nothing is sent or served.
LEMMA QuietCache ==
    ASSUME CacheInv, UNCHANGED <<pipe, writes, latest, raced, lost>>,
           CacheTypes', MapKept', 
           \A k \in CacheKeys :
              /\ redis'[k] = redis[k] \/ redis'[k] = Cache!NoEntry
              /\ Cache!IsValid(redis[k])' /\ redis'[k] = redis[k] => Cache!IsValid(redis[k])
              /\ \/ memory'[k] = memory[k] \/ memory'[k] = Cache!NoEntry
                 \/ /\ memory[k] # Cache!NoEntry /\ memory'[k].value = memory[k].value
                    /\ memory'[k].at = memory[k].at /\ memory'[k].ttl = memory[k].ttl
    PROVE  CacheInv'
  <1>1. Aged'
    <2>1. \A k \in CacheKeys : Faithful(redis'[k], writes)
      BY NoEntryFacts DEF CacheInv, Aged
    <2>2. \A k \in CacheKeys : Faithful(memory'[k], writes) \/ Promoted(memory'[k], writes)
      <3> SUFFICES ASSUME NEW k \in CacheKeys
                   PROVE  Faithful(memory'[k], writes) \/ Promoted(memory'[k], writes)
        OBVIOUS
      <3>1. Faithful(memory[k], writes) \/ Promoted(memory[k], writes)
        BY DEF CacheInv, Aged
      <3> QED
        BY <3>1, NoEntryFacts DEF Faithful, Promoted
    <2> QED
      BY <2>1, <2>2 DEF CacheInv, Aged
  <1>2. ASSUME NEW k \in CacheKeys PROVE Flows(k)'
    <2> SUFFICES ASSUME k \notin raced
                 PROVE  /\ Flowing(pipe, k, latest[k], InRedis(k)') /\ SetsFirst(pipe, k)
                        /\ OlderLost(k)'
      BY DEF Flows
    <2>1. Flowing(pipe, k, latest[k], InRedis(k)) /\ SetsFirst(pipe, k) /\ OlderLost(k)
      BY DEF CacheInv, Flows
    <2>2. InRedis(k)' => InRedis(k)
      BY NoEntryFacts DEF InRedis
    <2>3. Flowing(pipe, k, latest[k], InRedis(k)')
      BY <2>1, <2>2 DEF Flowing
    <2>4. OlderLost(k)'
      BY <2>1, NoEntryFacts DEF OlderLost
    <2> QED
      BY <2>1, <2>3, <2>4
  <1> QED
    BY <1>1, <1>2 DEF CacheInv

\* A write or a delete is sent, for the keys it concerns.
LEMMA SentCache ==
    ASSUME CacheInv, NEW c \in Commands, c.op # "get", pipe' = Append(pipe, c),
           CacheTypes', MapKept', Aged', UNCHANGED <<redis, lost, cacheNow>>,
           \A k \in CacheKeys :
              /\ WritesTo(c, k) =>
                    /\ latest'[k] = Left(c)
                    /\ memory'[k].value = Left(c) \/ memory'[k].value = 0
                    /\ k \in raced' <=> k \in raced \/ Cache!Reading(k)
              /\ ~WritesTo(c, k) =>
                    /\ latest'[k] = latest[k]
                    /\ memory'[k].value = memory[k].value \/ memory'[k].value = 0
                    /\ k \in raced' <=> k \in raced
    PROVE  CacheInv'
  <1>1. ASSUME NEW k \in CacheKeys PROVE Flows(k)'
    <2> SUFFICES ASSUME k \notin raced'
                 PROVE  /\ Flowing(pipe', k, latest'[k], InRedis(k)') /\ SetsFirst(pipe', k)
                        /\ OlderLost(k)'
      BY DEF Flows
    <2>0. pipe \in Seq(Commands) /\ k \notin raced
      BY DEF CacheInv, CacheTypes
    <2>1. Flowing(pipe, k, latest[k], InRedis(k)) /\ SetsFirst(pipe, k) /\ OlderLost(k)
      BY <2>0 DEF CacheInv, Flows
    <2>2. Sets(c, k) => WritesTo(c, k)
      BY DEF Sets, WritesTo
    <2>3. CASE WritesTo(c, k)
      <3>1. \A i \in DOMAIN pipe : ~Reads(pipe[i], k)
        BY <2>3 DEF Cache!Reading, Reads
      <3>2. Flowing(pipe', k, latest'[k], InRedis(k)')
        BY <2>0, <2>3, <3>1, FlowWritten
      <3>3. SetsFirst(pipe', k)
        BY <2>0, <2>1, <3>1, SetsFirstSent
      <3>4. OlderLost(k)'
        BY <2>3 DEF OlderLost, Older
      <3> QED
        BY <3>2, <3>3, <3>4
    <2>4. CASE ~WritesTo(c, k)
      <3>1. InRedis(k)' <=> InRedis(k)
        BY <2>4 DEF InRedis, Cache!IsValid
      <3>2. Flowing(pipe', k, latest[k], InRedis(k))
        BY <2>0, <2>1, <2>4, FlowSent
      <3>3. Flowing(pipe', k, latest'[k], InRedis(k)')
        BY <2>4, <3>1, <3>2 DEF Flowing
      <3>4. SetsFirst(pipe', k)
        BY <2>0, <2>1, <2>2, <2>4, SetsFirstSent
      <3>5. OlderLost(k)'
        <4>1. \A j \in DOMAIN pipe' : (j \in DOMAIN pipe /\ pipe'[j] = pipe[j]) \/ pipe'[j] = c
          BY <2>0
        <4> QED
          BY <2>1, <2>2, <2>4, <4>1 DEF OlderLost, Older
      <3> QED
        BY <3>3, <3>4, <3>5
    <2> QED
      BY <2>3, <2>4
  <1> QED
    BY <1>1 DEF CacheInv

\* The first command is served, and what the reply makes of memory, Redis and lost.
LEMMA ServedCache ==
    ASSUME CacheInv, pipe # <<>>,
           \/ pipe' = Tail(pipe)
           \/ \E c \in Commands : c.op = "del" /\ pipe' = Append(Tail(pipe), c),
           CacheTypes', MapKept', Aged', UNCHANGED <<latest, raced, cacheNow>>,
           \A k \in CacheKeys :
              /\ k \notin lost' /\ Cache!IsValid(redis'[k]) =>
                    \/ redis'[k] = redis[k] /\ k \notin lost /\ ~WritesTo(pipe[1], k)
                    \/ Sets(pipe[1], k) /\ redis'[k] = pipe[1].entry
              /\ k \in lost /\ k \notin lost' => Sets(pipe[1], k)
              /\ \/ memory'[k].value = memory[k].value \/ memory'[k].value = 0
                 \/ /\ Reads(pipe[1], k) /\ Cache!IsValid(redis[k])
                    /\ memory'[k].value = redis[k].value /\ lost' = lost
    PROVE  CacheInv'
  <1>1. ASSUME NEW k \in CacheKeys PROVE Flows(k)'
    <2> DEFINE q == Tail(pipe)
    <2> SUFFICES ASSUME k \notin raced
                 PROVE  /\ Flowing(pipe', k, latest[k], InRedis(k)') /\ SetsFirst(pipe', k)
                        /\ OlderLost(k)'
      BY DEF Flows
    <2>0. pipe \in Seq(Commands) /\ q \in Seq(Commands) /\ 1 \in DOMAIN pipe
      BY DEF CacheInv, CacheTypes
    <2>1. Flowing(pipe, k, latest[k], InRedis(k)) /\ SetsFirst(pipe, k) /\ OlderLost(k)
      BY <2>0 DEF CacheInv, Flows
    <2>2. InRedis(k)' => \/ InRedis(k) /\ ~WritesTo(pipe[1], k)
                         \/ WritesTo(pipe[1], k) /\ Older(Left(pipe[1]), latest[k])
      <3> SUFFICES ASSUME InRedis(k)'
                   PROVE  \/ InRedis(k) /\ ~WritesTo(pipe[1], k)
                          \/ WritesTo(pipe[1], k) /\ Older(Left(pipe[1]), latest[k])
        OBVIOUS
      <3>1. k \notin lost' /\ Cache!IsValid(redis'[k]) /\ Older(redis'[k].value, latest[k])
        BY DEF InRedis, Cache!IsValid, Cache!NoEntry
      <3>2. CASE redis'[k] = redis[k] /\ k \notin lost /\ ~WritesTo(pipe[1], k)
        BY <3>1, <3>2 DEF InRedis
      <3>3. CASE Sets(pipe[1], k) /\ redis'[k] = pipe[1].entry
        BY <3>1, <3>3 DEF Sets, WritesTo, Left
      <3> QED
        BY <3>1, <3>2, <3>3
    <2>3. Flowing(q, k, latest[k], InRedis(k)')
      BY <2>0, <2>1, <2>2, FlowServed
    <2>4. /\ SetsFirst(q, k)
          /\ Reads(pipe[1], k) => \A j \in DOMAIN q : ~Sets(q[j], k)
          /\ (\A j \in DOMAIN pipe : ~Sets(pipe[j], k)) => \A j \in DOMAIN q : ~Sets(q[j], k)
      BY <2>0, <2>1, SetsFirstServed
    <2> HIDE DEF q
    <2>5. /\ Flowing(pipe', k, latest[k], InRedis(k)') /\ SetsFirst(pipe', k)
          /\ (\A j \in DOMAIN q : ~Sets(q[j], k)) => \A j \in DOMAIN pipe' : ~Sets(pipe'[j], k)
      <3>1. CASE pipe' = q
        BY <2>3, <2>4, <3>1
      <3>2. CASE \E c \in Commands : c.op = "del" /\ pipe' = Append(q, c)
        <4>1. PICK c \in Commands : c.op = "del" /\ pipe' = Append(q, c)
          BY <3>2
        <4>2. ~Sets(c, k) /\ ~Older(Left(c), latest[k])
          BY <4>1 DEF Sets, Left, Older
        <4>3. Flowing(pipe', k, latest[k], InRedis(k)')
          BY <2>0, <2>3, <4>1, <4>2, FlowSent
        <4>4. SetsFirst(pipe', k)
          BY <2>0, <2>4, <4>1, <4>2, SetsFirstSent
        <4>5. \A j \in DOMAIN pipe' : (j \in DOMAIN q /\ pipe'[j] = q[j]) \/ pipe'[j] = c
          BY <2>0, <4>1
        <4> QED
          BY <4>2, <4>3, <4>4, <4>5
      <3> QED
        BY <3>1, <3>2 DEF q
    <2>6. OlderLost(k)'
      <3> SUFFICES ASSUME Older(memory'[k].value, latest[k])
                   PROVE  k \in lost' /\ \A j \in DOMAIN pipe' : ~Sets(pipe'[j], k)
        BY DEF OlderLost
      <3>1. CASE memory'[k].value = memory[k].value
        <4>1. k \in lost /\ \A j \in DOMAIN pipe : ~Sets(pipe[j], k)
          BY <2>1, <3>1 DEF OlderLost
        <4>2. ~Sets(pipe[1], k)
          BY <2>0, <4>1
        <4> QED
          BY <2>4, <2>5, <4>1, <4>2
      <3>2. CASE /\ Reads(pipe[1], k) /\ Cache!IsValid(redis[k])
                 /\ memory'[k].value = redis[k].value /\ lost' = lost
        <4>1. 1 \in ReadPlaces(pipe, k)
          BY <2>0, <3>2 DEF ReadPlaces
        <4>2. ~InRedis(k)
          BY <2>1, <4>1 DEF Flowing
        <4>3. k \in lost
          BY <3>2, <4>2 DEF InRedis
        <4> QED
          BY <2>4, <2>5, <3>2, <4>3
      <3>3. memory'[k].value # 0
        BY NoEntryFacts
      <3> QED
        BY <3>1, <3>2, <3>3
    <2> QED
      BY <2>5, <2>6
  <1> QED
    BY <1>1 DEF CacheInv

\* Time passes, entries end, memory is read or cleaned up.
LEMMA TickCache ==
    ASSUME CacheInv, Cache!CacheTick
    PROVE  CacheInv'
  <1>1. /\ cacheNow' = cacheNow + 1 /\ cacheNow \in Nat
        /\ UNCHANGED <<memory, order, redis, pipe, writes, latest, raced, lost>>
    BY DEF Cache!CacheTick, CacheInv, CacheTypes
  <1>2. CacheTypes' /\ MapKept'
    BY <1>1 DEF CacheInv, CacheTypes, MapKept
  <1>3. ASSUME NEW k \in CacheKeys, Cache!IsValid(redis[k])' PROVE Cache!IsValid(redis[k])
    <2>1. redis[k].at \in Nat /\ redis[k].ttl \in Nat
      BY DEF CacheInv, CacheTypes, CEntries
    <2> QED
      BY <1>1, <1>3, <2>1 DEF Cache!IsValid, Cache!NoEntry
  <1> QED
    BY <1>1, <1>2, <1>3, QuietCache

LEMMA ExpireCache ==
    ASSUME CacheInv, NEW k \in CacheKeys, Cache!RedisExpires(k)
    PROVE  CacheInv'
  <1>1. /\ redis' = [redis EXCEPT ![k] = Cache!NoEntry]
        /\ UNCHANGED <<memory, order, pipe, writes, latest, raced, lost, cacheNow>>
    BY DEF Cache!RedisExpires
  <1>2. CacheTypes' /\ MapKept'
    BY <1>1, NoEntryFacts DEF CacheInv, CacheTypes, MapKept
  <1>3. \A j \in CacheKeys : redis'[j] = redis[j] \/ redis'[j] = Cache!NoEntry
    BY <1>1 DEF CacheInv, CacheTypes
  <1>4. \A j \in CacheKeys :
            Cache!IsValid(redis[j])' /\ redis'[j] = redis[j] => Cache!IsValid(redis[j])
    BY <1>1 DEF Cache!IsValid, Cache!NoEntry
  <1> QED
    BY <1>1, <1>2, <1>3, <1>4, QuietCache

LEMMA CleanupCache ==
    ASSUME CacheInv, Cache!CleanupExpiredEntries
    PROVE  CacheInv'
  <1> DEFINE ks == {k \in CacheKeys : ~Cache!IsValid(memory[k])}
  <1>1. /\ Cache!Drop(ks) /\ ks \in SUBSET CacheKeys
        /\ UNCHANGED <<redis, pipe, writes, latest, raced, lost, cacheNow>>
    BY DEF Cache!CleanupExpiredEntries
  <1> HIDE DEF ks
  <1>2. /\ MapKept' /\ order' \in Seq(CacheKeys) /\ memory' \in [CacheKeys -> CEntries]
        /\ \A k \in CacheKeys : memory'[k] = memory[k] \/ memory'[k] = Cache!NoEntry
    BY <1>1, DropBounds DEF CacheInv
  <1>3. CacheTypes'
    BY <1>1, <1>2 DEF CacheInv, CacheTypes
  <1>4. \A k \in CacheKeys : Cache!IsValid(redis[k])' => Cache!IsValid(redis[k])
    BY <1>1 DEF Cache!IsValid, Cache!NoEntry
  <1> QED
    BY <1>1, <1>2, <1>3, <1>4, QuietCache

LEMMA ReadCache ==
    ASSUME CacheInv, NEW k \in CacheKeys, Cache!GetFromMemory(k)
    PROVE  CacheInv'
  <1>1. /\ memory' = [memory EXCEPT ![k].used = cacheNow] /\ memory[k] # Cache!NoEntry
        /\ UNCHANGED <<order, redis, pipe, writes, latest, raced, lost, cacheNow>>
    BY DEF Cache!GetFromMemory, Cache!IsValid
  <1>2. cacheNow \in Nat /\ memory \in [CacheKeys -> CEntries]
    BY DEF CacheInv, CacheTypes
  <1>3. /\ \A j \in CacheKeys \ {k} : memory'[j] = memory[j]
        /\ memory'[k] = [memory[k] EXCEPT !.used = cacheNow]
    BY <1>1, <1>2
  <1>4. /\ memory'[k] \in CEntries /\ memory'[k].value = memory[k].value
        /\ memory'[k].at = memory[k].at /\ memory'[k].ttl = memory[k].ttl
    <2>1. memory[k] \in CEntries
      BY <1>2
    <2> QED
      BY <1>2, <1>3, <2>1 DEF CEntries
  <1>5. memory'[k] # Cache!NoEntry
    <2>1. memory[k].value # 0
      <3>1. memory[k].value \in DOMAIN writes
        BY <1>1 DEF CacheInv, Aged, Faithful, Promoted
      <3> QED
        BY <3>1, WriteAt DEF CacheInv
    <2> QED
      BY <1>4, <2>1, NoEntryFacts
  <1>6. memory' \in [CacheKeys -> CEntries]
    <2>1. memory' = [j \in CacheKeys |-> memory'[j]]
      BY <1>1, <1>2
    <2>2. \A j \in CacheKeys : memory'[j] \in CEntries
      BY <1>2, <1>3, <1>4
    <2> QED
      BY <2>1, <2>2
  <1>7. CacheTypes'
    BY <1>1, <1>6 DEF CacheInv, CacheTypes
  <1>8. MapKept'
    <2>1. {j \in CacheKeys : memory'[j] # Cache!NoEntry} = {j \in CacheKeys : memory[j] # Cache!NoEntry}
      BY <1>1, <1>3, <1>5
    <2> QED
      BY <1>1, <2>1 DEF CacheInv, MapKept
  <1>9. \A j \in CacheKeys : Cache!IsValid(redis[j])' => Cache!IsValid(redis[j])
    BY <1>1 DEF Cache!IsValid, Cache!NoEntry
  <1>10. \A j \in CacheKeys : \/ memory'[j] = memory[j]
                              \/ /\ memory[j] # Cache!NoEntry /\ memory'[j].value = memory[j].value
                                 /\ memory'[j].at = memory[j].at /\ memory'[j].ttl = memory[j].ttl
    BY <1>1, <1>3, <1>4
  <1> QED
    BY <1>1, <1>7, <1>8, <1>9, <1>10, QuietCache

\* A GET is sent.
LEMMA AskRedisCache ==
    ASSUME CacheInv, NEW k \in CacheKeys, Cache!GetFromRedis(k)
    PROVE  CacheInv'
  <1> DEFINE c == [op |-> "get", key |-> k]
  <1>1. /\ pipe' = Append(pipe, c)
        /\ UNCHANGED <<memory, order, redis, writes, latest, raced, lost, cacheNow>>
    BY DEF Cache!GetFromRedis, Cache!Send
  <1>2. c \in Commands /\ c.op = "get" /\ pipe \in Seq(Commands)
    BY DEF Commands, CacheInv, CacheTypes
  <1> HIDE DEF c
  <1>3. CacheTypes' /\ MapKept'
    BY <1>1, <1>2 DEF CacheInv, CacheTypes, MapKept
  <1>4. Aged'
    <2>1. \A i \in DOMAIN pipe' : (i \in DOMAIN pipe /\ pipe'[i] = pipe[i]) \/ pipe'[i] = c
      BY <1>1, <1>2
    <2> QED
      BY <1>1, <1>2, <2>1 DEF CacheInv, Aged
  <1>5. ASSUME NEW j \in CacheKeys PROVE Flows(j)'
    <2> SUFFICES ASSUME j \notin raced
                 PROVE  /\ Flowing(pipe', j, latest[j], InRedis(j)') /\ SetsFirst(pipe', j)
                        /\ OlderLost(j)'
      BY <1>1 DEF Flows
    <2>1. Flowing(pipe, j, latest[j], InRedis(j)) /\ SetsFirst(pipe, j) /\ OlderLost(j)
      BY DEF CacheInv, Flows
    <2>2. ~WritesTo(c, j) /\ ~Sets(c, j)
      BY <1>2 DEF WritesTo, Sets
    <2>3. InRedis(j)' <=> InRedis(j)
      BY <1>1 DEF InRedis, Cache!IsValid
    <2>4. Flowing(pipe', j, latest[j], InRedis(j))
      BY <1>1, <1>2, <2>1, <2>2, FlowSent
    <2>5. Flowing(pipe', j, latest[j], InRedis(j)')
      BY <2>3, <2>4 DEF Flowing
    <2>6. SetsFirst(pipe', j)
      BY <1>1, <1>2, <2>1, <2>2, SetsFirstSent
    <2>7. \A i \in DOMAIN pipe' : (i \in DOMAIN pipe /\ pipe'[i] = pipe[i]) \/ pipe'[i] = c
      BY <1>1, <1>2
    <2>8. OlderLost(j)'
      BY <1>1, <2>1, <2>2, <2>7 DEF OlderLost
    <2> QED
      BY <2>5, <2>6, <2>8
  <1> QED
    BY <1>3, <1>4, <1>5 DEF CacheInv

\* set, and warmCache for a key without a valid entry.
LEMMA SetCache ==
    ASSUME CacheInv, NEW k \in CacheKeys, NEW ttl \in Ttls, Cache!Set(k, ttl)
    PROVE  CacheInv'
  <1> DEFINE value == Len(writes) + 1
             entry == [value |-> value, at |-> cacheNow, ttl |-> ttl, used |-> cacheNow]
             c == [op |-> "setex", key |-> k, entry |-> entry]
             w == [at |-> cacheNow, ttl |-> ttl]
  <1>1. /\ cacheNow \in Nat /\ ttl \in Nat /\ writes \in Seq(CWrites) /\ value \in Nat \ {0}
        /\ pipe \in Seq(Commands) /\ latest \in [CacheKeys -> Nat]
    BY DataAssumption DEF CacheInv, CacheTypes
  <1>2. w \in CWrites /\ entry \in CEntries /\ entry # Cache!NoEntry
    <2>1. entry.value # 0
      BY <1>1
    <2> QED
      BY <1>1, <2>1, NoEntryFacts DEF CWrites, CEntries
  <1>3. /\ c \in Commands /\ c.op = "setex" /\ c.key = k /\ c.entry = entry
    BY <1>2 DEF Commands
  <1>4. /\ writes' = Append(writes, w) /\ Cache!Put(k, entry) /\ pipe' = Append(pipe, c)
        /\ latest' = [latest EXCEPT ![k] = value]
        /\ raced' = raced \cup {j \in {k} : Cache!Reading(j)}
        /\ UNCHANGED <<redis, lost, cacheNow>>
    BY DEF Cache!Set, Cache!Send, Cache!Overtakes, Cache!Entry
  <1>5. entry.value = value /\ entry.at = w.at /\ entry.ttl = w.ttl
    OBVIOUS
  <1> HIDE DEF entry, c, w
  <1>6. /\ MapKept' /\ order' \in Seq(CacheKeys) /\ memory' \in [CacheKeys -> CEntries]
        /\ memory'[k] = entry
        /\ \A j \in CacheKeys \ {k} : memory'[j] = memory[j] \/ memory'[j] = Cache!NoEntry
    BY <1>2, <1>4, PutBounds DEF CacheInv
  <1>7. writes' \in Seq(CWrites) /\ value \in DOMAIN writes' /\ writes'[value] = w
    BY <1>1, <1>2, <1>4
  <1>8. CacheTypes'
    <2>1. pipe' \in Seq(Commands)
      BY <1>1, <1>3, <1>4
    <2>2. latest' \in [CacheKeys -> Nat]
      BY <1>1, <1>4
    <2>3. raced' \subseteq CacheKeys
      BY <1>4 DEF CacheInv, CacheTypes
    <2> HIDE DEF value
    <2> QED
      BY <1>4, <1>6, <1>7, <2>1, <2>2, <2>3 DEF CacheInv, CacheTypes
  <1>9. Faithful(entry, writes')
    BY <1>5, <1>7 DEF Faithful
  <1>10. Aged'
    <2>1. \A e : /\ Faithful(e, writes) => Faithful(e, writes')
                 /\ Promoted(e, writes) => Promoted(e, writes')
      BY <1>2, <1>4, WritesGrow DEF CacheInv
    <2>2. \A j \in CacheKeys : Faithful(redis'[j], writes')
      BY <1>4, <2>1 DEF CacheInv, Aged
    <2>3. \A j \in CacheKeys : Faithful(memory'[j], writes') \/ Promoted(memory'[j], writes')
      BY <1>6, <1>9, <2>1, NoEntryFacts DEF CacheInv, Aged
    <2>4. \A i \in DOMAIN pipe' : (i \in DOMAIN pipe /\ pipe'[i] = pipe[i]) \/ pipe'[i] = c
      BY <1>1, <1>3, <1>4
    <2>5. \A i \in DOMAIN pipe' : pipe'[i].op = "setex" => Faithful(pipe'[i].entry, writes')
      BY <1>3, <1>9, <2>1, <2>4 DEF CacheInv, Aged
    <2> QED
      BY <2>2, <2>3, <2>5 DEF Aged
  <1>11. Left(c) = value
    BY <1>3, <1>5 DEF Left
  <1>12. \A j \in CacheKeys : WritesTo(c, j) <=> j = k
    BY <1>3 DEF WritesTo
  <1>13. ASSUME NEW j \in CacheKeys
         PROVE  /\ WritesTo(c, j) =>
                      /\ latest'[j] = Left(c)
                      /\ memory'[j].value = Left(c) \/ memory'[j].value = 0
                      /\ j \in raced' <=> j \in raced \/ Cache!Reading(j)
                /\ ~WritesTo(c, j) =>
                      /\ latest'[j] = latest[j]
                      /\ memory'[j].value = memory[j].value \/ memory'[j].value = 0
                      /\ j \in raced' <=> j \in raced
    <2>1. CASE j = k
      BY <1>1, <1>4, <1>5, <1>6, <1>11, <1>12, <2>1
    <2>2. CASE j # k
      BY <1>1, <1>4, <1>6, <1>12, <2>2, NoEntryFacts
    <2> QED
      BY <2>1, <2>2
  <1> QED
    BY <1>3, <1>4, <1>6, <1>8, <1>10, <1>13, SentCache

\* delete and invalidate: keys leave memory and a command for them is sent.
LEMMA DropCache ==
    ASSUME CacheInv, NEW ks \in SUBSET CacheKeys, NEW c \in Commands, c.op \in {"del", "scan"},
           \A j \in CacheKeys : WritesTo(c, j) <=> j \in ks,
           Cache!Drop(ks), pipe' = Append(pipe, c), Cache!Overtakes(ks),
           latest' = [j \in CacheKeys |-> IF j \in ks THEN 0 ELSE latest[j]],
           UNCHANGED <<redis, writes, lost, cacheNow>>
    PROVE  CacheInv'
  <1>1. /\ pipe \in Seq(Commands) /\ latest \in [CacheKeys -> Nat] /\ raced \subseteq CacheKeys
        /\ raced' = raced \cup {j \in ks : Cache!Reading(j)}
    BY DEF CacheInv, CacheTypes, Cache!Overtakes
  <1>2. /\ MapKept' /\ order' \in Seq(CacheKeys) /\ memory' \in [CacheKeys -> CEntries]
        /\ \A j \in CacheKeys : memory'[j] = IF j \in ks THEN Cache!NoEntry ELSE memory[j]
    BY DropBounds DEF CacheInv
  <1>3. CacheTypes'
    BY <1>1, <1>2 DEF CacheInv, CacheTypes
  <1>4. Aged'
    <2>1. \A i \in DOMAIN pipe' : (i \in DOMAIN pipe /\ pipe'[i] = pipe[i]) \/ pipe'[i] = c
      BY <1>1
    <2> QED
      BY <1>2, <2>1, NoEntryFacts DEF CacheInv, Aged
  <1>5. Left(c) = 0
    BY DEF Left
  <1>6. ASSUME NEW j \in CacheKeys
        PROVE  /\ WritesTo(c, j) =>
                     /\ latest'[j] = Left(c)
                     /\ memory'[j].value = Left(c) \/ memory'[j].value = 0
                     /\ j \in raced' <=> j \in raced \/ Cache!Reading(j)
               /\ ~WritesTo(c, j) =>
                     /\ latest'[j] = latest[j]
                     /\ memory'[j].value = memory[j].value \/ memory'[j].value = 0
                     /\ j \in raced' <=> j \in raced
    BY <1>1, <1>2, <1>5, NoEntryFacts
  <1> QED
    BY <1>2, <1>3, <1>4, <1>6, SentCache

LEMMA DeleteCache ==
    ASSUME CacheInv, NEW k \in CacheKeys, Cache!Delete(k)
    PROVE  CacheInv'
  <1> DEFINE c == [op |-> "del", key |-> k]
  <1>1. /\ c \in Commands /\ c.op = "del" /\ c.key = k
    BY DEF Commands
  <1>2. \A j \in CacheKeys : WritesTo(c, j) <=> j \in {k}
    BY DEF WritesTo
  <1>3. latest' = [j \in CacheKeys |-> IF j \in {k} THEN 0 ELSE latest[j]]
    BY DEF Cache!Delete, CacheInv, CacheTypes
  <1>4. /\ Cache!Drop({k}) /\ pipe' = Append(pipe, c) /\ Cache!Overtakes({k})
        /\ UNCHANGED <<redis, writes, lost, cacheNow>>
    BY DEF Cache!Delete, Cache!Send
  <1> HIDE DEF c
  <1> QED
    BY <1>1, <1>2, <1>3, <1>4, DropCache

LEMMA InvalidateCache ==
    ASSUME CacheInv, NEW ks \in SUBSET CacheKeys, Cache!Invalidate(ks)
    PROVE  CacheInv'
  <1> DEFINE c == [op |-> "scan", keys |-> ks]
  <1>1. c \in Commands /\ c.op = "scan"
    BY DEF Commands
  <1>2. \A j \in CacheKeys : WritesTo(c, j) <=> j \in ks
    BY DEF WritesTo
  <1>4. /\ Cache!Drop(ks) /\ pipe' = Append(pipe, c) /\ Cache!Overtakes(ks)
        /\ latest' = [j \in CacheKeys |-> IF j \in ks THEN 0 ELSE latest[j]]
        /\ UNCHANGED <<redis, writes, lost, cacheNow>>
    BY DEF Cache!Invalidate, Cache!Send
  <1> HIDE DEF c
  <1> QED
    BY <1>1, <1>2, <1>4, DropCache

\* The first command, and what its service leaves of the others.
LEMMA ReplyFacts ==
    ASSUME CacheInv, pipe # <<>>
    PROVE  /\ pipe \in Seq(Commands) /\ Tail(pipe) \in Seq(Commands)
           /\ Cache!Reply = pipe[1] /\ pipe[1] \in Commands /\ 1 \in DOMAIN pipe
           /\ \A i \in DOMAIN Tail(pipe) : i + 1 \in DOMAIN pipe /\ Tail(pipe)[i] = pipe[i + 1]
  BY DEF CacheInv, CacheTypes, Cache!Reply

LEMMA AgedServed ==
    ASSUME CacheInv, pipe # <<>>, pipe' = Tail(pipe), UNCHANGED writes,
           \A k \in CacheKeys : /\ Faithful(redis'[k], writes)
                                /\ Faithful(memory'[k], writes) \/ Promoted(memory'[k], writes)
    PROVE  Aged'
  BY ReplyFacts DEF CacheInv, Aged

\* The reply to a GET is promoted.
LEMMA FoundCache ==
    ASSUME CacheInv, pipe # <<>>, Cache!GetFound
    PROVE  CacheInv'
  <1> DEFINE k == pipe[1].key
             e == redis[k]
             entry == [value |-> e.value, at |-> cacheNow, ttl |-> Cache!AdaptiveTtl(e),
                       used |-> cacheNow]
  <1>1. /\ pipe \in Seq(Commands) /\ Tail(pipe) \in Seq(Commands) /\ pipe[1] \in Commands
        /\ Cache!Reply = pipe[1]
    BY ReplyFacts
  <1>2. /\ pipe[1].op = "get" /\ Cache!IsValid(e) /\ Cache!Put(k, entry) /\ pipe' = Tail(pipe)
        /\ UNCHANGED <<redis, writes, latest, raced, lost, cacheNow>>
    BY <1>1 DEF Cache!GetFound, Cache!Served, Cache!Entry
  <1>3. k \in CacheKeys
    BY <1>1, <1>2, CommandKinds
  <1>4. e \in CEntries /\ cacheNow \in Nat /\ MinTtl \in Nat /\ e.ttl \in Nat /\ e.at \in Nat
        /\ e.value \in Nat
    BY <1>3, DataAssumption DEF CacheInv, CacheTypes, CEntries
  <1>5. Cache!AdaptiveTtl(e) \in Nat
    <2>1. e.ttl \div 2 \in Nat
      BY <1>4
    <2> HIDE DEF e
    <2> QED
      BY <1>4, <2>1 DEF Cache!AdaptiveTtl
  <1>6. e # Cache!NoEntry /\ cacheNow - e.at < e.ttl
    BY <1>2 DEF Cache!IsValid
  <1>7. e.value \in DOMAIN writes /\ e.at = writes[e.value].at /\ e.ttl = writes[e.value].ttl
    BY <1>3, <1>6 DEF CacheInv, Aged, Faithful
  <1>8. e.value # 0
    BY <1>7, WriteAt DEF CacheInv
  <1>9. /\ entry.value = e.value /\ entry.at = cacheNow /\ entry.ttl = Cache!AdaptiveTtl(e)
        /\ entry \in CEntries /\ entry # Cache!NoEntry
    <2>1. entry.value = e.value /\ entry.at = cacheNow /\ entry.ttl = Cache!AdaptiveTtl(e)
      OBVIOUS
    <2>2. entry \in CEntries
      BY <1>4, <1>5 DEF CEntries
    <2> HIDE DEF entry
    <2> QED
      BY <1>8, <2>1, <2>2, NoEntryFacts
  <1>10. Promoted(entry, writes)
    <2>1. cacheNow < writes[e.value].at + writes[e.value].ttl
      <3>1. \A t, a, l \in Nat : t - a < l => t < a + l
        OBVIOUS
      <3>2. cacheNow < e.at + e.ttl
        <4> HIDE DEF e
        <4> QED
          BY <1>4, <1>6, <3>1
      <3> HIDE DEF e
      <3> QED
        BY <1>7, <3>2, Zenon
    <2>2. Cache!AdaptiveTtl(e) = Cache!AdaptiveTtl(writes[e.value])
      BY <1>7 DEF Cache!AdaptiveTtl
    <2> HIDE DEF entry
    <2> QED
      BY <1>7, <1>9, <2>1, <2>2 DEF Promoted
  <1> HIDE DEF entry
  <1>11. /\ MapKept' /\ order' \in Seq(CacheKeys) /\ memory' \in [CacheKeys -> CEntries]
         /\ memory'[k] = entry
         /\ \A j \in CacheKeys \ {k} : memory'[j] = memory[j] \/ memory'[j] = Cache!NoEntry
    BY <1>2, <1>3, <1>9, PutBounds DEF CacheInv
  <1>12. CacheTypes'
    BY <1>1, <1>2, <1>11 DEF CacheInv, CacheTypes
  <1>13. Aged'
    <2>1. \A j \in CacheKeys : Faithful(redis'[j], writes)
      BY <1>2 DEF CacheInv, Aged
    <2>2. \A j \in CacheKeys : Faithful(memory'[j], writes) \/ Promoted(memory'[j], writes)
      BY <1>10, <1>11, NoEntryFacts DEF CacheInv, Aged
    <2> QED
      BY <1>2, <2>1, <2>2, AgedServed
  <1>14. ASSUME NEW j \in CacheKeys
         PROVE  /\ redis'[j] = redis[j] /\ lost' = lost /\ ~WritesTo(pipe[1], j)
                /\ \/ memory'[j].value = memory[j].value \/ memory'[j].value = 0
                   \/ /\ Reads(pipe[1], j) /\ Cache!IsValid(redis[j])
                      /\ memory'[j].value = redis[j].value /\ lost' = lost
    <2>1. ~WritesTo(pipe[1], j)
      BY <1>2 DEF WritesTo
    <2>2. CASE j = k
      BY <1>2, <1>9, <1>11, <2>1, <2>2 DEF Reads
    <2>3. CASE j # k
      BY <1>2, <1>11, <2>1, <2>3, NoEntryFacts
    <2> QED
      BY <2>2, <2>3
  <1> QED
    BY <1>2, <1>11, <1>12, <1>13, <1>14, ServedCache

\* A GET finds nothing, or fails.
LEMMA MissedCache ==
    ASSUME CacheInv, pipe # <<>>, pipe[1].op = "get", pipe' = Tail(pipe),
           UNCHANGED <<memory, order, redis, writes, latest, raced, lost, cacheNow>>
    PROVE  CacheInv'
  <1>1. CacheTypes' /\ MapKept'
    BY ReplyFacts DEF CacheInv, CacheTypes, MapKept
  <1>2. Aged'
    BY AgedServed DEF CacheInv, Aged
  <1>3. \A j \in CacheKeys : ~WritesTo(pipe[1], j)
    BY DEF WritesTo
  <1> QED
    BY <1>1, <1>2, <1>3, ServedCache

\* A GET finds an entry past its time: a DEL is sent.
LEMMA StaleCache ==
    ASSUME CacheInv, pipe # <<>>, Cache!GetStale
    PROVE  CacheInv'
  <1> DEFINE c == [op |-> "del", key |-> pipe[1].key]
             q == Tail(pipe)
  <1>1. /\ pipe \in Seq(Commands) /\ q \in Seq(Commands) /\ pipe[1] \in Commands
        /\ Cache!Reply = pipe[1]
        /\ \A i \in DOMAIN q : i + 1 \in DOMAIN pipe /\ q[i] = pipe[i + 1]
    BY ReplyFacts
  <1>2. /\ pipe[1].op = "get" /\ pipe' = Append(q, c)
        /\ UNCHANGED <<memory, order, redis, writes, latest, raced, lost, cacheNow>>
    BY <1>1 DEF Cache!GetStale
  <1>3. c \in Commands /\ c.op = "del"
    BY <1>1, <1>2, CommandKinds DEF Commands
  <1> HIDE DEF c, q
  <1>4. CacheTypes' /\ MapKept'
    BY <1>1, <1>2, <1>3 DEF CacheInv, CacheTypes, MapKept
  <1>5. Aged'
    <2>1. \A i \in DOMAIN pipe' : (i \in DOMAIN q /\ pipe'[i] = q[i]) \/ pipe'[i] = c
      BY <1>1, <1>2, <1>3
    <2> QED
      BY <1>1, <1>2, <1>3, <2>1 DEF CacheInv, Aged
  <1>6. \A j \in CacheKeys : ~WritesTo(pipe[1], j)
    BY <1>2 DEF WritesTo
  <1>7. \E d \in Commands : d.op = "del" /\ pipe' = Append(Tail(pipe), d)
    BY <1>2, <1>3 DEF q
  <1> QED
    BY <1>2, <1>4, <1>5, <1>6, <1>7, ServedCache

\* A SETEX is served.
LEMMA SetServedCache ==
    ASSUME CacheInv, pipe # <<>>, Cache!SetServed
    PROVE  CacheInv'
  <1>1. /\ pipe \in Seq(Commands) /\ Tail(pipe) \in Seq(Commands) /\ pipe[1] \in Commands
        /\ Cache!Reply = pipe[1] /\ 1 \in DOMAIN pipe
    BY ReplyFacts
  <1>2. /\ pipe[1].op = "setex" /\ redis' = [redis EXCEPT ![pipe[1].key] = pipe[1].entry]
        /\ lost' = lost \ {pipe[1].key} /\ pipe' = Tail(pipe)
        /\ UNCHANGED <<memory, order, writes, latest, raced, cacheNow>>
    BY <1>1 DEF Cache!SetServed, Cache!Served
  <1>3. pipe[1].key \in CacheKeys /\ pipe[1].entry \in CEntries
    BY <1>1, <1>2, CommandKinds
  <1>4. CacheTypes' /\ MapKept'
    <2>1. redis' \in [CacheKeys -> CEntries]
      BY <1>2, <1>3 DEF CacheInv, CacheTypes
    <2>2. lost' \subseteq CacheKeys
      BY <1>2 DEF CacheInv, CacheTypes
    <2> QED
      BY <1>1, <1>2, <2>1, <2>2 DEF CacheInv, CacheTypes, MapKept
  <1>5. \A j \in CacheKeys : redis'[j] = IF j = pipe[1].key THEN pipe[1].entry ELSE redis[j]
    BY <1>2, <1>3 DEF CacheInv, CacheTypes
  <1>6. Aged'
    <2>1. Faithful(pipe[1].entry, writes)
      BY <1>1, <1>2 DEF CacheInv, Aged
    <2> QED
      BY <1>2, <1>5, <2>1, AgedServed DEF CacheInv, Aged
  <1>7. ASSUME NEW j \in CacheKeys
        PROVE  /\ j \notin lost' /\ Cache!IsValid(redis'[j]) =>
                     \/ redis'[j] = redis[j] /\ j \notin lost /\ ~WritesTo(pipe[1], j)
                     \/ Sets(pipe[1], j) /\ redis'[j] = pipe[1].entry
               /\ j \in lost /\ j \notin lost' => Sets(pipe[1], j)
    BY <1>2, <1>5 DEF Sets, WritesTo
  <1> QED
    BY <1>2, <1>4, <1>6, <1>7, ServedCache

\* A command that had no effect, or made Redis forget.
LEMMA ForgottenCache ==
    ASSUME CacheInv, pipe # <<>>, pipe' = Tail(pipe), pipe[1].op # "get",
           UNCHANGED <<memory, order, writes, latest, raced, cacheNow>>,
           redis' \in [CacheKeys -> CEntries], lost' \subseteq CacheKeys, lost \subseteq lost',
           \A j \in CacheKeys :
              /\ redis'[j] = redis[j] \/ redis'[j] = Cache!NoEntry
              /\ WritesTo(pipe[1], j) => ~Cache!IsValid(redis'[j]) \/ j \in lost'
    PROVE  CacheInv'
  <1>1. CacheTypes' /\ MapKept'
    BY ReplyFacts DEF CacheInv, CacheTypes, MapKept
  <1>2. Aged'
    <2>1. \A k \in CacheKeys : Faithful(redis'[k], writes)
      BY NoEntryFacts DEF CacheInv, Aged
    <2> QED
      BY <2>1, AgedServed DEF CacheInv, Aged
  <1>3. ASSUME NEW j \in CacheKeys
        PROVE  /\ j \notin lost' /\ Cache!IsValid(redis'[j]) =>
                     redis'[j] = redis[j] /\ j \notin lost /\ ~WritesTo(pipe[1], j)
               /\ j \in lost => j \in lost'
    <2>1. ~Cache!IsValid(Cache!NoEntry)
      BY DEF Cache!IsValid
    <2> QED
      BY <2>1
  <1> QED
    BY <1>1, <1>2, <1>3, ServedCache

\* What Deleted leaves of a key.
LEMMA ErasedEntry ==
    ASSUME NEW r, NEW names, NEW j \in CacheKeys
    PROVE  LET f == [k \in CacheKeys |-> IF Cache!Prefixed(<<k>>) \in names
                                         THEN Cache!NoEntry ELSE r[k]]
           IN  f[j] = r[j] \/ f[j] = Cache!NoEntry
  <1>1. CASE Cache!Prefixed(<<j>>) \in names
    BY <1>1
  <1>2. CASE Cache!Prefixed(<<j>>) \notin names
    BY <1>2
  <1> QED
    BY <1>1, <1>2

LEMMA DelServedCache ==
    ASSUME CacheInv, pipe # <<>>, Cache!DelServed
    PROVE  CacheInv'
  <1> DEFINE k == pipe[1].key
             names == {Cache!Prefixed(name) : name \in {<<k>>}}
  <1>1. pipe[1] \in Commands /\ Cache!Reply = pipe[1]
    BY ReplyFacts
  <1>2. /\ pipe[1].op = "del" /\ redis' = Cache!Deleted({<<k>>}) /\ pipe' = Tail(pipe)
        /\ UNCHANGED <<memory, order, writes, latest, raced, lost, cacheNow>>
    BY <1>1 DEF Cache!DelServed, Cache!Served
  <1>3. k \in CacheKeys
    BY <1>1, <1>2, CommandKinds
  <1>4. redis' = [j \in CacheKeys |-> IF Cache!Prefixed(<<j>>) \in names
                                      THEN Cache!NoEntry ELSE redis[j]]
    BY <1>2 DEF Cache!Deleted
  <1>5. Cache!Prefixed(<<k>>) \in names
    OBVIOUS
  <1> HIDE DEF names
  <1>6. redis' \in [CacheKeys -> CEntries]
    BY <1>4, NoEntryFacts DEF CacheInv, CacheTypes
  <1>7. ASSUME NEW j \in CacheKeys PROVE redis'[j] = redis[j] \/ redis'[j] = Cache!NoEntry
    BY <1>4, ErasedEntry
  <1>8. redis'[k] = Cache!NoEntry
    BY <1>3, <1>4, <1>5
  <1>9. \A j \in CacheKeys : WritesTo(pipe[1], j) => ~Cache!IsValid(redis'[j])
    BY <1>2, <1>8 DEF WritesTo, Cache!IsValid
  <1>10. lost' \subseteq CacheKeys
    BY <1>2 DEF CacheInv, CacheTypes
  <1> QED
    BY <1>2, <1>6, <1>7, <1>9, <1>10, ForgottenCache

LEMMA ScanServedCache ==
    ASSUME CacheInv, pipe # <<>>, Cache!ScanServed
    PROVE  CacheInv'
  <1> DEFINE names == {Cache!Prefixed(name) : name \in {Cache!Prefixed(<<k>>) : k \in pipe[1].keys}}
  <1>1. pipe[1] \in Commands /\ Cache!Reply = pipe[1]
    BY ReplyFacts
  <1>2. /\ pipe[1].op = "scan" /\ pipe' = Tail(pipe)
        /\ lost' = lost \cup {k \in pipe[1].keys : Cache!IsValid(redis'[k])}
        /\ UNCHANGED <<memory, order, writes, latest, raced, cacheNow>>
    BY <1>1 DEF Cache!ScanServed, Cache!Served, Cache!Outlived
  <1>3. pipe[1].keys \subseteq CacheKeys
    BY <1>1, <1>2, CommandKinds
  <1>4. redis' = [j \in CacheKeys |-> IF Cache!Prefixed(<<j>>) \in names
                                      THEN Cache!NoEntry ELSE redis[j]]
    BY <1>1 DEF Cache!ScanServed, Cache!Deleted
  <1> HIDE DEF names
  <1>5. redis' \in [CacheKeys -> CEntries]
    BY <1>4, NoEntryFacts DEF CacheInv, CacheTypes
  <1>6. ASSUME NEW j \in CacheKeys PROVE redis'[j] = redis[j] \/ redis'[j] = Cache!NoEntry
    BY <1>4, ErasedEntry
  <1>7. lost' \subseteq CacheKeys /\ lost \subseteq lost'
    BY <1>2, <1>3 DEF CacheInv, CacheTypes
  <1>8. \A j \in CacheKeys : WritesTo(pipe[1], j) => ~Cache!IsValid(redis'[j]) \/ j \in lost'
    BY <1>2 DEF WritesTo
  <1> QED
    BY <1>2, <1>5, <1>6, <1>7, <1>8, ForgottenCache

LEMMA FailsCache ==
    ASSUME CacheInv, pipe # <<>>, Cache!CommandFails
    PROVE  CacheInv'
  <1>1. pipe[1] \in Commands /\ Cache!Reply = pipe[1]
    BY ReplyFacts
  <1>2. /\ pipe[1].op # "scan" /\ pipe' = Tail(pipe)
        /\ UNCHANGED <<memory, order, redis, writes, latest, raced, cacheNow>>
    BY <1>1 DEF Cache!CommandFails, Cache!Served
  <1>3. CASE pipe[1].op = "get"
    <2>1. lost' = lost
      BY <1>1, <1>3 DEF Cache!CommandFails
    <2> QED
      BY <1>2, <1>3, <2>1, MissedCache
  <1>4. CASE pipe[1].op # "get"
    <2>1. lost' = lost \cup {k \in {pipe[1].key} : Cache!IsValid(redis[k])}
      BY <1>1, <1>4 DEF Cache!CommandFails, Cache!Outlived
    <2>2. pipe[1].key \in CacheKeys
      BY <1>1, <1>2, CommandKinds
    <2>3. lost' \subseteq CacheKeys /\ lost \subseteq lost' /\ redis' \in [CacheKeys -> CEntries]
      BY <1>2, <2>1, <2>2 DEF CacheInv, CacheTypes
    <2>4. \A j \in CacheKeys : WritesTo(pipe[1], j) => ~Cache!IsValid(redis'[j]) \/ j \in lost'
      BY <1>2, <2>1 DEF WritesTo
    <2>5. \A j \in CacheKeys : redis'[j] = redis[j]
      BY <1>2
    <2> QED
      BY <1>2, <1>4, <2>3, <2>4, <2>5, ForgottenCache
  <1> QED
    BY <1>3, <1>4

\* Every step of the cache preserves the invariant.
LEMMA NextCache ==
    ASSUME CacheInv, Cache!Next
    PROVE  CacheInv'
  <1>1. CASE Cache!RedisServes
    <2>1. pipe # <<>>
      BY <1>1 DEF Cache!RedisServes
    <2>2. CASE Cache!GetMissing
      <3>1. pipe[1].op = "get" /\ pipe' = Tail(pipe)
        BY <2>1, <2>2, ReplyFacts DEF Cache!GetMissing, Cache!Served
      <3> QED
        BY <2>1, <2>2, <3>1, MissedCache DEF Cache!GetMissing
    <2> QED
      BY <1>1, <2>1, <2>2, FoundCache, StaleCache, SetServedCache, DelServedCache,
         ScanServedCache, FailsCache DEF Cache!RedisServes
  <1>2. ASSUME NEW k \in CacheKeys, Cache!GetFromMemory(k) PROVE CacheInv'
    BY <1>2, ReadCache
  <1>3. ASSUME NEW k \in CacheKeys, Cache!GetFromRedis(k) PROVE CacheInv'
    BY <1>3, AskRedisCache
  <1>4. ASSUME NEW k \in CacheKeys, Cache!Delete(k) PROVE CacheInv'
    BY <1>4, DeleteCache
  <1>5. ASSUME NEW k \in CacheKeys, Cache!RedisExpires(k) PROVE CacheInv'
    BY <1>5, ExpireCache
  <1>6. ASSUME NEW k \in CacheKeys, NEW ttl \in Ttls, Cache!Set(k, ttl) \/ Cache!WarmCache(k, ttl)
        PROVE  CacheInv'
    BY <1>6, SetCache DEF Cache!WarmCache
  <1>7. ASSUME NEW ks \in SUBSET CacheKeys, Cache!Invalidate(ks) PROVE CacheInv'
    BY <1>7, InvalidateCache
  <1>8. CASE Cache!CleanupExpiredEntries
    BY <1>8, CleanupCache
  <1>9. CASE Cache!CacheTick
    BY <1>9, TickCache
  <1> QED
    BY <1>1, <1>2, <1>3, <1>4, <1>5, <1>6, <1>7, <1>8, <1>9 DEF Cache!Next

\* The memory cache keeps to its limit, answers with nothing older than two times to
\* live, and with the last value set unless a write overtook a read or Redis is behind.
LEMMA CacheInvIsSound ==
    ASSUME CacheInv
    PROVE  Cache!MemoryBounded /\ Cache!StalenessBounded /\ Cache!MemoryCurrent
  BY MapKeptIsBounded, AgedIsStalenessBounded, FlowsIsCurrent DEF CacheInv

-----------------------------------------------------------------------------
(* DatabaseOptimizer.  A statement repeats only when it was slow because a call    *)
(* that has not returned has changed the database at most once; a disabled     *)
(* cache holds what was asked for because a call that is done stays done.      *)

LEMMA DbNames ==
    /\ \A s, S : Db!Without(s, S) = Without(s, S)
    /\ \A s : Db!ToSet(s) = {s[i] : i \in DOMAIN s}
    /\ \A f : Db!IsInjective(f) <=> \A i, j \in DOMAIN f : f[i] = f[j] => i = j
  <1>1. \A S : Db!Cardinality(S) = Cardinality(S)
    BY DEF Db!Cardinality, Cardinality
  <1>2. \A I, i : Db!Rank(I, i) = Rank(I, i)
    BY <1>1 DEF Db!Rank, Rank
  <1>3. \A I, n : Db!Nth(I, n) = Nth(I, n)
    BY <1>2 DEF Db!Nth, Nth
  <1>4. \A s, I : Db!Picked(s, I) = Picked(s, I)
    BY <1>1, <1>3 DEF Db!Picked, Picked
  <1>5. \A s, S : Db!Without(s, S) = Without(s, S)
    BY <1>4 DEF Db!Without, Without
  <1> QED
    BY <1>5 DEF Db!ToSet, Db!IsInjective

DbCalls ==
    [phase : {"idle", "sent", "returned", "done"}, write : BOOLEAN,
     query : Queries \cup {"none"}, ttl : Nat, table : Nat, slow : BOOLEAN]

\* How often the statement of a call has changed the database.
CallRight(call, n) ==
    /\ call \in DbCalls /\ n \in Nat
    /\ call.phase \in {"sent", "returned"} /\ ~call.write => call.query \in Queries
    /\ call.phase \in {"idle", "sent"} => n = 0 /\ ~call.slow
    /\ call.phase = "returned" => n <= 1
    /\ n <= IF call.slow THEN 2 ELSE 1

CallsRight ==
    /\ calls \in [Calls -> DbCalls] /\ applied \in [Calls -> Nat] /\ table \in Nat
    /\ \A c \in Calls : CallRight(calls[c], applied[c])

\* The order of the Map, and the queries in it.
DbKept(o) ==
    o \in Seq(Queries) /\ Len(o) <= MaxEntries /\ \A i, j \in DOMAIN o : o[i] = o[j] => i = j
DbHeld(o) == {o[i] : i \in DOMAIN o}

Asked(q) == \E c \in Calls : calls[c].query = q /\ calls[c].ttl > 0 /\ calls[c].phase = "done"
OnlyAsked == ~enabled => \A q \in DbHeld(cacheOrder) : Asked(q)

LogKept == slowLog \in Seq(Calls) /\ Len(slowLog) <= MaxSlowLog

DbInv == CallsRight /\ DbKept(cacheOrder) /\ enabled \in BOOLEAN /\ OnlyAsked /\ LogKept

LEMMA DbInvIsSound ==
    ASSUME DbInv
    PROVE  Db!OptimizerBounded /\ Db!DisabledHoldsOnlyAsked /\ Db!RepeatedOnlyWhenSlow
  <1>1. Db!OptimizerBounded
    BY DbNames DEF DbInv, DbKept, LogKept, Db!OptimizerBounded
  <1>2. Db!DisabledHoldsOnlyAsked
    BY DbNames DEF DbInv, OnlyAsked, Asked, DbHeld, Db!DisabledHoldsOnlyAsked
  <1>3. Db!RepeatedOnlyWhenSlow
    BY DEF DbInv, CallsRight, CallRight, Db!RepeatedOnlyWhenSlow
  <1> QED
    BY <1>1, <1>2, <1>3

LEMMA InitDb == Db!Init => DbInv
  <1> SUFFICES ASSUME Db!Init PROVE DbInv
    OBVIOUS
  <1>1. /\ calls = [c \in Calls |-> Db!Idle] /\ table = 0 /\ applied = [c \in Calls |-> 0]
        /\ cacheOrder = <<>> /\ enabled = TRUE /\ slowLog = <<>>
    BY DEF Db!Init
  <1>2. Db!Idle \in DbCalls /\ Db!Idle.phase = "idle" /\ ~Db!Idle.slow
    BY DEF Db!Idle, DbCalls
  <1>3. CallsRight
    <2> HIDE DEF DbCalls
    <2> QED
      BY <1>1, <1>2 DEF CallsRight, CallRight
  <1>4. DbKept(cacheOrder) /\ LogKept
    BY <1>1, DataAssumption DEF DbKept, LogKept
  <1> QED
    BY <1>1, <1>3, <1>4 DEF DbInv, OnlyAsked

\* A query less.
LEMMA LessKept ==
    ASSUME NEW o, DbKept(o), NEW S
    PROVE  DbKept(Db!Without(o, S)) /\ DbHeld(Db!Without(o, S)) = DbHeld(o) \ S
  <1> DEFINE rest == Without(o, S)
  <1>1. o \in Seq(Queries) /\ Len(o) <= MaxEntries /\ Len(o) \in Nat
    BY DEF DbKept
  <1>2. /\ rest \in Seq(Queries) /\ Len(rest) \in 0 .. Len(o)
        /\ {rest[n] : n \in DOMAIN rest} = {o[i] : i \in DOMAIN o} \ S
        /\ (\A i, j \in DOMAIN o : o[i] = o[j] => i = j) =>
              \A n, k \in DOMAIN rest : rest[n] = rest[k] => n = k
    BY <1>1, WithoutFacts, Zenon
  <1>3. Db!Without(o, S) = rest
    BY DbNames
  <1> HIDE DEF rest
  <1>4. Len(rest) <= MaxEntries
    BY <1>1, <1>2, DataAssumption
  <1> QED
    BY <1>2, <1>3, <1>4 DEF DbKept, DbHeld

\* setCachedQuery: the cache stays within its limit and holds one more query at most.
LEMMA StoreKept ==
    ASSUME NEW cache, DbKept(cache.order), NEW q \in Queries, NEW version, NEW ttl
    PROVE  /\ DbKept(Db!Store(cache, q, version, ttl).order)
           /\ DbHeld(Db!Store(cache, q, version, ttl).order) \subseteq DbHeld(cache.order) \cup {q}
  <1> DEFINE o == cache.order
             rest == IF Len(o) >= MaxEntries THEN Tail(o) ELSE o
             grown == IF q \in DbHeld(rest) THEN rest ELSE Append(rest, q)
  <1>1. Db!Store(cache, q, version, ttl).order = grown
    BY DbNames DEF Db!Store, DbHeld
  <1>2. /\ o \in Seq(Queries) /\ Len(o) <= MaxEntries /\ Len(o) \in Nat
        /\ MaxEntries \in Nat /\ MaxEntries > 0
        /\ \A i, j \in DOMAIN o : o[i] = o[j] => i = j
    BY DataAssumption DEF DbKept
  <1> HIDE DEF o
  <1>3. /\ rest \in Seq(Queries) /\ Len(rest) < MaxEntries
        /\ \A i, j \in DOMAIN rest : rest[i] = rest[j] => i = j
        /\ DbHeld(rest) \subseteq DbHeld(o)
    <2>1. CASE Len(o) >= MaxEntries
      <3>1. rest = Tail(o) /\ o # <<>>
        BY <1>2, <2>1
      <3>2. /\ Tail(o) \in Seq(Queries) /\ Len(Tail(o)) = Len(o) - 1
            /\ DOMAIN Tail(o) = 1 .. Len(o) - 1 /\ DOMAIN o = 1 .. Len(o)
            /\ \A i \in 1 .. Len(o) - 1 : Tail(o)[i] = o[i + 1]
        BY <1>2, <3>1
      <3>3. \A i \in DOMAIN Tail(o) : i \in Nat /\ i + 1 \in DOMAIN o /\ Tail(o)[i] = o[i + 1]
        BY <1>2, <3>2
      <3>4. \A i, j \in DOMAIN Tail(o) : Tail(o)[i] = Tail(o)[j] => i = j
        <4> SUFFICES ASSUME NEW i \in DOMAIN Tail(o), NEW j \in DOMAIN Tail(o),
                            Tail(o)[i] = Tail(o)[j]
                     PROVE  i = j
          OBVIOUS
        <4>1. i + 1 = j + 1
          BY <1>2, <3>3
        <4> QED
          BY <3>3, <4>1
      <3>5. DbHeld(Tail(o)) \subseteq DbHeld(o)
        BY <3>3 DEF DbHeld
      <3>6. Len(Tail(o)) < MaxEntries
        BY <1>2, <3>2
      <3> HIDE DEF rest
      <3> QED
        BY <3>1, <3>2, <3>4, <3>5, <3>6
    <2>2. CASE ~(Len(o) >= MaxEntries)
      BY <1>2, <2>2
    <2> QED
      BY <2>1, <2>2
  <1> HIDE DEF rest
  <1>4. DbKept(grown) /\ DbHeld(grown) \subseteq DbHeld(rest) \cup {q}
    <2>1. CASE q \in DbHeld(rest)
      BY <1>2, <1>3, <2>1 DEF DbKept
    <2>2. CASE q \notin DbHeld(rest)
      <3>1. grown = Append(rest, q)
        BY <2>2
      <3>2. /\ grown \in Seq(Queries) /\ Len(grown) = Len(rest) + 1
            /\ DOMAIN grown = 1 .. Len(rest) + 1 /\ DOMAIN rest = 1 .. Len(rest)
            /\ Len(rest) \in Nat
            /\ \A i \in 1 .. Len(rest) : grown[i] = rest[i]
            /\ grown[Len(rest) + 1] = q
        BY <1>3, <3>1
      <3> HIDE DEF grown
      <3>3. \A i \in DOMAIN grown :
               (i \in DOMAIN rest /\ grown[i] = rest[i]) \/ (i = Len(rest) + 1 /\ grown[i] = q)
        BY <3>2
      <3>4. \A i, j \in DOMAIN grown : grown[i] = grown[j] => i = j
        BY <1>3, <2>2, <3>3 DEF DbHeld
      <3>5. DbHeld(grown) \subseteq DbHeld(rest) \cup {q}
        BY <3>3 DEF DbHeld
      <3> QED
        BY <1>2, <1>3, <3>2, <3>4, <3>5 DEF DbKept
    <2> QED
      BY <2>1, <2>2
  <1> QED
    BY <1>1, <1>3, <1>4 DEF o

\* What a SELECT leaves in the cache when it has returned.
LEMMA CachedAfter ==
    ASSUME DbKept(cacheOrder), NEW call, call.query \in Queries
    PROVE  /\ DbKept(Db!AfterCaching(call).order)
           /\ DbHeld(Db!AfterCaching(call).order) \subseteq DbHeld(cacheOrder) \cup {call.query}
           /\ ~enabled /\ ~(call.ttl > 0) => Db!AfterCaching(call).order = cacheOrder
  <1> DEFINE first == IF enabled THEN Db!Store(Db!Cache, call.query, call.table, DefaultTtl)
                                 ELSE Db!Cache
             last == IF call.ttl > 0 THEN Db!Store(first, call.query, call.table, call.ttl)
                                     ELSE first
  <1>1. Db!Cache.order = cacheOrder
    BY DEF Db!Cache
  <1>2. Db!AfterCaching(call) = last
    BY DEF Db!AfterCaching
  <1>3. DbKept(first.order) /\ DbHeld(first.order) \subseteq DbHeld(cacheOrder) \cup {call.query}
    <2>1. DbKept(Db!Cache.order)
      BY <1>1
    <2>2. CASE enabled
      BY <1>1, <2>1, <2>2, StoreKept
    <2>3. CASE ~enabled
      BY <1>1, <2>1, <2>3
    <2> QED
      BY <2>2, <2>3
  <1>4. ~enabled => first = Db!Cache
    OBVIOUS
  <1> HIDE DEF first
  <1>5. DbKept(last.order) /\ DbHeld(last.order) \subseteq DbHeld(first.order) \cup {call.query}
    BY <1>3, StoreKept
  <1> QED
    BY <1>1, <1>2, <1>3, <1>4, <1>5

\* One call moves on.  What was asked for by a call that is done stays so.
LEMMA CallMoves ==
    ASSUME CallsRight, NEW c \in Calls, NEW call, NEW n, CallRight(call, n),
           calls' = [calls EXCEPT ![c] = call],
           applied' = [applied EXCEPT ![c] = n], table' \in Nat
    PROVE  /\ CallsRight' /\ calls'[c] = call
           /\ calls[c].phase # "done" => \A q : Asked(q) => Asked(q)'
  <1>1. call \in DbCalls /\ n \in Nat
    BY DEF CallRight
  <1>2. calls' \in [Calls -> DbCalls] /\ applied' \in [Calls -> Nat]
    BY <1>1 DEF CallsRight
  <1>3. \A d \in Calls : /\ calls'[d] = IF d = c THEN call ELSE calls[d]
                         /\ applied'[d] = IF d = c THEN n ELSE applied[d]
    BY DEF CallsRight
  <1>4. \A d \in Calls : CallRight(calls'[d], applied'[d])
    BY <1>3 DEF CallsRight
  <1>5. ASSUME NEW q, Asked(q), calls[c].phase # "done" PROVE Asked(q)'
    <2>1. PICK d \in Calls : calls[d].query = q /\ calls[d].ttl > 0 /\ calls[d].phase = "done"
      BY <1>5 DEF Asked
    <2>2. calls'[d] = calls[d]
      BY <1>3, <1>5, <2>1
    <2> QED
      BY <2>1, <2>2 DEF Asked
  <1> QED
    BY <1>2, <1>3, <1>4, <1>5 DEF CallsRight

\* A step that leaves the counts alone.
LEMMA CallMovesOnly ==
    ASSUME CallsRight, NEW c \in Calls, NEW call, CallRight(call, applied[c]),
           calls' = [calls EXCEPT ![c] = call], UNCHANGED <<applied, table>>
    PROVE  /\ CallsRight' /\ calls'[c] = call
           /\ calls[c].phase # "done" => \A q : Asked(q) => Asked(q)'
  <1>1. applied' = [applied EXCEPT ![c] = applied[c]] /\ table' \in Nat
    BY DEF CallsRight
  <1> QED
    BY <1>1, CallMoves

LEMMA SelectDb ==
    ASSUME DbInv, NEW c \in Calls, NEW q \in Queries, NEW ttl \in Ttls \cup {0},
           Db!Select(c, q, ttl)
    PROVE  DbInv'
  <1> DEFINE hit == (enabled \/ ttl > 0) /\ Db!Cached(q)
             call == [Db!Idle EXCEPT !.phase = IF hit THEN "done" ELSE "sent",
                                     !.query = q, !.ttl = ttl]
  <1>1. /\ calls[c].phase = "idle" /\ calls' = [calls EXCEPT ![c] = call]
        /\ cacheOrder' = cacheOrder \/ cacheOrder' = Db!Without(cacheOrder, {q})
        /\ UNCHANGED <<table, applied, enabled, slowLog>>
    BY DEF Db!Select
  <1>2. /\ call \in DbCalls /\ call.phase \in {"done", "sent"} /\ ~call.write
        /\ call.query = q /\ ~call.slow
    <2> HIDE DEF hit
    <2>1. ttl \in Nat
      BY DataAssumption
    <2> QED
      BY <2>1 DEF Db!Idle, DbCalls
  <1> HIDE DEF call
  <1>3. applied[c] = 0
    BY <1>1 DEF DbInv, CallsRight, CallRight
  <1>4. CallRight(call, applied[c])
    BY <1>2, <1>3 DEF CallRight
  <1>5. CallsRight' /\ \A r : Asked(r) => Asked(r)'
    BY <1>1, <1>4, CallMovesOnly DEF DbInv
  <1>6. DbKept(cacheOrder') /\ DbHeld(cacheOrder') \subseteq DbHeld(cacheOrder)
    BY <1>1, LessKept DEF DbInv
  <1> QED
    BY <1>1, <1>5, <1>6 DEF DbInv, OnlyAsked, LogKept, DbHeld

LEMMA WriteDb ==
    ASSUME DbInv, NEW c \in Calls, Db!Write(c)
    PROVE  DbInv'
  <1> DEFINE call == [Db!Idle EXCEPT !.phase = "sent", !.write = TRUE]
  <1>1. /\ calls[c].phase = "idle" /\ calls' = [calls EXCEPT ![c] = call]
        /\ UNCHANGED <<table, applied, cacheOrder, enabled, slowLog>>
    BY DEF Db!Write
  <1>2. call \in DbCalls /\ call.phase = "sent" /\ call.write /\ ~call.slow
    BY DEF Db!Idle, DbCalls
  <1> HIDE DEF call
  <1>3. applied[c] = 0
    BY <1>1 DEF DbInv, CallsRight, CallRight
  <1>4. CallRight(call, applied[c])
    BY <1>2, <1>3 DEF CallRight
  <1>5. CallsRight' /\ \A r : Asked(r) => Asked(r)'
    BY <1>1, <1>4, CallMovesOnly DEF DbInv
  <1> QED
    BY <1>1, <1>5 DEF DbInv, OnlyAsked, LogKept, DbKept, DbHeld

\* The statement of a call runs.
LEMMA RunsOnce ==
    ASSUME CallsRight, NEW c \in Calls, Db!Runs(c)
    PROVE  /\ table' \in Nat
           /\ \E n \in {applied[c], applied[c] + 1} : applied' = [applied EXCEPT ![c] = n]
  <1>1. applied = [applied EXCEPT ![c] = applied[c]]
    BY DEF CallsRight
  <1> QED
    BY <1>1 DEF CallsRight, Db!Runs

LEMMA ExecuteDb ==
    ASSUME DbInv, NEW c \in Calls, NEW slow \in BOOLEAN, Db!Execute(c, slow)
    PROVE  DbInv'
  <1> DEFINE call == [calls[c] EXCEPT !.phase = "returned", !.table = table, !.slow = slow]
  <1>1. /\ calls[c].phase = "sent" /\ Db!Runs(c)
        /\ UNCHANGED <<cacheOrder, enabled, slowLog>>
        /\ calls' = [calls EXCEPT ![c].phase = "returned", ![c].table = table, ![c].slow = slow]
    BY DEF Db!Execute
  <1>2. calls' = [calls EXCEPT ![c] = call]
    BY <1>1 DEF DbInv, CallsRight
  <1>3. /\ calls[c] \in DbCalls /\ table \in Nat /\ applied[c] = 0
        /\ ~calls[c].write => calls[c].query \in Queries
    BY <1>1 DEF DbInv, CallsRight, CallRight
  <1>4. /\ call \in DbCalls /\ call.phase = "returned"
        /\ call.write = calls[c].write /\ call.query = calls[c].query
    BY <1>3 DEF DbCalls
  <1> HIDE DEF call
  <1>5. PICK n \in {0, 1} : applied' = [applied EXCEPT ![c] = n]
    BY <1>1, <1>3, RunsOnce DEF DbInv
  <1>6. CallRight(call, n)
    BY <1>3, <1>4 DEF CallRight
  <1>7. CallsRight' /\ \A r : Asked(r) => Asked(r)'
    BY <1>1, <1>2, <1>5, <1>6, CallMoves, RunsOnce DEF DbInv
  <1> QED
    BY <1>1, <1>7 DEF DbInv, OnlyAsked, LogKept, DbKept, DbHeld

\* A call returns: it is done, and a SELECT is cached.
LEMMA FinishDb ==
    ASSUME DbInv, NEW c \in Calls, calls[c].phase = "returned", Db!Finish(c),
           NEW n \in Nat, n <= IF calls[c].slow THEN 2 ELSE 1,
           applied' = [applied EXCEPT ![c] = n], table' \in Nat, UNCHANGED enabled
    PROVE  CallsRight' /\ DbKept(cacheOrder)' /\ OnlyAsked'
  <1> DEFINE call == [calls[c] EXCEPT !.phase = "done"]
  <1>1. /\ calls' = [calls EXCEPT ![c].phase = "done"]
        /\ calls[c].write => cacheOrder' = cacheOrder
        /\ ~calls[c].write => cacheOrder' = Db!AfterCaching(calls[c]).order
    BY DEF Db!Finish, Db!CacheBecomes
  <1>2. /\ calls[c] \in DbCalls
        /\ ~calls[c].write => calls[c].query \in Queries
    BY DEF DbInv, CallsRight, CallRight
  <1>3. calls' = [calls EXCEPT ![c] = call]
    BY <1>1 DEF DbInv, CallsRight
  <1>4. /\ call \in DbCalls /\ call.phase = "done" /\ call.slow = calls[c].slow
        /\ call.query = calls[c].query /\ call.ttl = calls[c].ttl
    BY <1>2 DEF DbCalls
  <1> HIDE DEF call
  <1>5. CallRight(call, n)
    BY <1>4 DEF CallRight
  <1>6. CallsRight' /\ calls'[c] = call /\ \A r : Asked(r) => Asked(r)'
    BY <1>3, <1>5, CallMoves DEF DbInv
  <1>7. CASE calls[c].write
    BY <1>1, <1>6, <1>7 DEF DbInv, OnlyAsked, DbKept, DbHeld
  <1>8. CASE ~calls[c].write
    <2>1. /\ DbKept(cacheOrder')
          /\ DbHeld(cacheOrder') \subseteq DbHeld(cacheOrder) \cup {calls[c].query}
          /\ ~enabled /\ ~(calls[c].ttl > 0) => cacheOrder' = cacheOrder
      BY <1>1, <1>2, <1>8, CachedAfter DEF DbInv
    <2>2. DbKept(cacheOrder)'
      BY <2>1 DEF DbKept
    <2>3. ASSUME ~enabled, NEW q \in DbHeld(cacheOrder') PROVE Asked(q)'
      <3>1. CASE calls[c].ttl > 0
        <4>1. CASE q = calls[c].query
          BY <1>4, <1>6, <3>1, <4>1 DEF Asked
        <4>2. CASE q \in DbHeld(cacheOrder)
          BY <1>6, <2>3, <4>2 DEF DbInv, OnlyAsked
        <4> QED
          BY <2>1, <2>3, <4>1, <4>2
      <3>2. CASE ~(calls[c].ttl > 0)
        BY <1>6, <2>1, <2>3, <3>2 DEF DbInv, OnlyAsked
      <3> QED
        BY <3>1, <3>2
    <2> QED
      BY <1>6, <2>2, <2>3 DEF OnlyAsked, DbHeld
  <1> QED
    BY <1>7, <1>8

LEMMA LoggedKept ==
    ASSUME LogKept, NEW c \in Calls, Db!Logged(c)
    PROVE  LogKept'
  <1> DEFINE grown == Append(slowLog, c)
  <1>1. /\ slowLog \in Seq(Calls) /\ Len(slowLog) <= MaxSlowLog /\ Len(slowLog) \in Nat
        /\ MaxSlowLog \in Nat
    BY DataAssumption DEF LogKept
  <1>2. grown \in Seq(Calls) /\ Len(grown) = Len(slowLog) + 1 /\ grown # <<>>
    BY <1>1
  <1>3. slowLog' = IF Len(grown) > MaxSlowLog THEN Tail(grown) ELSE grown
    BY DEF Db!Logged
  <1> HIDE DEF grown
  <1>4. Tail(grown) \in Seq(Calls) /\ Len(Tail(grown)) = Len(slowLog)
    BY <1>1, <1>2
  <1> QED
    BY <1>1, <1>2, <1>3, <1>4 DEF LogKept

LEMMA ReturnDb ==
    ASSUME DbInv, NEW c \in Calls, Db!ReturnFast(c) \/ Db!ReturnSlow(c) \/ Db!ExplainFails(c)
    PROVE  DbInv'
  <1>1. calls[c].phase = "returned" /\ Db!Finish(c) /\ enabled' = enabled
    BY DEF Db!ReturnFast, Db!ReturnSlow, Db!ExplainFails
  <1>2. applied[c] \in Nat /\ applied[c] <= 1 /\ table \in Nat /\ calls[c].slow \in BOOLEAN
    BY <1>1 DEF DbInv, CallsRight, CallRight, DbCalls
  <1>3. LogKept'
    <2>1. slowLog' = slowLog \/ Db!Logged(c)
      BY DEF Db!ReturnFast, Db!ReturnSlow, Db!ExplainFails
    <2>2. slowLog' = slowLog => LogKept'
      BY DEF DbInv, LogKept
    <2> QED
      BY <2>1, <2>2, LoggedKept DEF DbInv
  <1>4. \E n \in Nat : /\ n <= IF calls[c].slow THEN 2 ELSE 1
                       /\ applied' = [applied EXCEPT ![c] = n] /\ table' \in Nat
    <2>1. CASE Db!ReturnSlow(c)
      <3>1. calls[c].slow /\ Db!Runs(c)
        BY <2>1 DEF Db!ReturnSlow
      <3> QED
        BY <1>2, <3>1, RunsOnce DEF DbInv
    <2>2. CASE ~Db!ReturnSlow(c)
      <3>1. applied' = [applied EXCEPT ![c] = applied[c]] /\ table' = table
        BY <2>2 DEF Db!ReturnFast, Db!ExplainFails, DbInv, CallsRight
      <3>2. applied[c] <= IF calls[c].slow THEN 2 ELSE 1
        BY <1>2
      <3> QED
        BY <1>2, <3>1, <3>2, Zenon
    <2> QED
      BY <2>1, <2>2
  <1>5. CallsRight' /\ DbKept(cacheOrder)' /\ OnlyAsked'
    BY <1>1, <1>4, FinishDb
  <1> QED
    BY <1>1, <1>3, <1>5 DEF DbInv

LEMMA StatementFailsDb ==
    ASSUME DbInv, NEW c \in Calls, Db!StatementFails(c)
    PROVE  DbInv'
  <1> DEFINE call == [calls[c] EXCEPT !.phase = "done"]
  <1>1. /\ calls[c].phase = "sent" /\ calls' = [calls EXCEPT ![c].phase = "done"]
        /\ UNCHANGED <<table, applied, cacheOrder, enabled, slowLog>>
    BY DEF Db!StatementFails
  <1>2. calls[c] \in DbCalls /\ applied[c] = 0
    BY <1>1 DEF DbInv, CallsRight, CallRight
  <1>3. calls' = [calls EXCEPT ![c] = call]
    BY <1>1 DEF DbInv, CallsRight
  <1>4. call \in DbCalls /\ call.phase = "done"
    BY <1>2 DEF DbCalls
  <1> HIDE DEF call
  <1>5. CallRight(call, applied[c])
    BY <1>2, <1>4 DEF CallRight
  <1>6. CallsRight' /\ \A r : Asked(r) => Asked(r)'
    BY <1>1, <1>3, <1>5, CallMovesOnly DEF DbInv
  <1> QED
    BY <1>1, <1>6 DEF DbInv, OnlyAsked, LogKept, DbKept, DbHeld

\* The cache is administered: it holds no more than before.
LEMMA LessDb ==
    ASSUME DbInv, UNCHANGED <<calls, table, applied>>, enabled' \in BOOLEAN,
           DbKept(cacheOrder'), DbHeld(cacheOrder') \subseteq DbHeld(cacheOrder),
           ~enabled' => ~enabled \/ DbHeld(cacheOrder') = {},
           slowLog' \in {slowLog, <<>>}
    PROVE  DbInv'
  <1>1. CallsRight' /\ \A q : Asked(q) => Asked(q)'
    BY DEF DbInv, CallsRight, Asked
  <1>2. LogKept'
    <2>1. CASE slowLog' = slowLog
      BY <2>1 DEF DbInv, LogKept
    <2>2. CASE slowLog' = <<>>
      BY <2>2, DataAssumption DEF LogKept
    <2> QED
      BY <2>1, <2>2
  <1>3. OnlyAsked'
    BY <1>1 DEF DbInv, OnlyAsked, DbHeld
  <1> QED
    BY <1>1, <1>2, <1>3 DEF DbInv, DbKept

\* Every step of the optimizer preserves the invariant.
LEMMA NextDb ==
    ASSUME DbInv, Db!Next
    PROVE  DbInv'
  <1>1. DbKept(<<>>) /\ DbHeld(<<>>) = {}
    BY DataAssumption DEF DbKept, DbHeld
  <1>2. DbKept(cacheOrder)
    BY DEF DbInv
  <1>3. ASSUME NEW c \in Calls, NEW q \in Queries, NEW ttl \in Ttls \cup {0}, Db!Select(c, q, ttl)
        PROVE  DbInv'
    BY <1>3, SelectDb
  <1>4. ASSUME NEW c \in Calls, Db!Write(c) PROVE DbInv'
    BY <1>4, WriteDb
  <1>5. ASSUME NEW c \in Calls, NEW slow \in BOOLEAN, Db!Execute(c, slow) PROVE DbInv'
    BY <1>5, ExecuteDb
  <1>6. ASSUME NEW c \in Calls, Db!ReturnFast(c) \/ Db!ReturnSlow(c) \/ Db!ExplainFails(c)
        PROVE  DbInv'
    BY <1>6, ReturnDb
  <1>7. ASSUME NEW c \in Calls, Db!StatementFails(c) PROVE DbInv'
    BY <1>7, StatementFailsDb
  <1>8. CASE Db!ClearCache
    <2>1. /\ cacheOrder' = <<>> /\ UNCHANGED <<calls, table, applied, enabled, slowLog>>
      BY <1>8 DEF Db!ClearCache
    <2> QED
      BY <1>1, <2>1, LessDb DEF DbInv
  <1>9. ASSUME NEW pattern \in SUBSET Queries, Db!InvalidateCache(pattern) PROVE DbInv'
    <2> DEFINE S == {q \in Queries : Db!CacheKey(q) \in pattern}
    <2>1. /\ cacheOrder' = Db!Without(cacheOrder, S)
          /\ UNCHANGED <<calls, table, applied, enabled, slowLog>>
      BY <1>9 DEF Db!InvalidateCache
    <2> HIDE DEF S
    <2>2. DbKept(cacheOrder') /\ DbHeld(cacheOrder') \subseteq DbHeld(cacheOrder)
      BY <1>2, <2>1, LessKept
    <2> QED
      BY <2>1, <2>2, LessDb DEF DbInv
  <1>10. ASSUME NEW on \in BOOLEAN, Db!ConfigureQueryCache(on) PROVE DbInv'
    <2>1. /\ enabled' = on /\ cacheOrder' = (IF on THEN cacheOrder ELSE <<>>)
          /\ UNCHANGED <<calls, table, applied, slowLog>>
      BY <1>10 DEF Db!ConfigureQueryCache
    <2> QED
      BY <1>1, <1>2, <2>1, LessDb
  <1>11. CASE Db!ClearSlowQueryLog \/ Db!DbTick
    <2>1. /\ slowLog' \in {slowLog, <<>>}
          /\ UNCHANGED <<calls, table, applied, enabled, cacheOrder>>
      BY <1>11 DEF Db!ClearSlowQueryLog, Db!DbTick
    <2> QED
      BY <1>2, <2>1, LessDb DEF DbInv
  <1> QED
    BY <1>3, <1>4, <1>5, <1>6, <1>7, <1>8, <1>9, <1>10, <1>11 DEF Db!Next

-----------------------------------------------------------------------------
(* PerformanceProfiler.  Sorting permutes the samples: as many samples are at most  *)
(* the one at an index as there are indices up to it.                         *)

LEMMA ProfilerNames ==
    /\ \A S : Profiler!Cardinality(S) = Cardinality(S)
    /\ \A s : Profiler!ToSet(s) = {s[i] : i \in DOMAIN s}
    /\ \A f : Profiler!IsInjective(f) <=> \A i, j \in DOMAIN f : f[i] = f[j] => i = j
  BY DEF Profiler!Cardinality, Cardinality, Profiler!ToSet, Profiler!IsInjective

\* A set goes into another one, element by element.
LEMMA OneToOne ==
    ASSUME NEW S, NEW T, IsFiniteSet(T), NEW f \in [S -> T],
           \A a, b \in S : f[a] = f[b] => a = b
    PROVE  Cardinality(S) <= Cardinality(T)
  <1>1. f \in Injection(S, T)
    BY DEF Injection, IsInjective
  <1> QED
    BY <1>1, FS_Injection

\* A permutation of indices reaches all of them.
LEMMA OntoIndices ==
    ASSUME NEW n \in Nat, NEW f \in [1 .. n -> 1 .. n],
           \A a, b \in 1 .. n : f[a] = f[b] => a = b, NEW t \in 1 .. n
    PROVE  \E a \in 1 .. n : f[a] = t
  <1> DEFINE N == 1 .. n
  <1>1. IsFiniteSet(N)
    BY UpTo
  <1>2. f \in Injection(N, N)
    BY DEF Injection, IsInjective
  <1> HIDE DEF N
  <1>3. Cardinality(N) = Cardinality(N) <=> f \in Surjection(N, N)
    BY <1>1, <1>2, FS_Injection, Zenon
  <1> QED
    BY <1>3 DEF Surjection, N

\* The index of a percentile is the least one that covers the percentage.
LEMMA PercentileIndex ==
    ASSUME NEW p \in 1 .. 100, NEW n \in Nat, n > 0
    PROVE  LET index == (p * n + 99) \div 100
           IN  /\ index \in 1 .. n /\ 100 * index >= p * n
               /\ \A m \in Nat : m < index => 100 * m < p * n
  <1> DEFINE m == p * n
             index == (m + 99) \div 100
  <1>1. m \in Nat /\ m >= 1 /\ m <= 100 * n
    <2>1. p \in Nat /\ p >= 1 /\ p <= 100
      OBVIOUS
    <2>2. p * n <= 100 * n
      BY <2>1, SMTT(30)
    <2>3. p * n >= n
      BY <2>1, SMTT(30)
    <2>4. p * n \in Nat
      BY <2>1
    <2> QED
      BY <2>2, <2>3, <2>4
  <1> HIDE DEF m
  <1>2. index \in Nat /\ 100 * index >= m /\ 100 * index <= m + 99
    BY <1>1
  <1>3. index >= 1
    BY <1>1, <1>2
  <1>4. index <= n
    BY <1>1, <1>2
  <1>5. \A k \in Nat : k < index => 100 * k < m
    BY <1>1, <1>2
  <1> QED
    BY <1>2, <1>3, <1>4, <1>5 DEF m

\* The samples that do not exceed one of them.
AtMost(s, n, w) == {i \in 1 .. n : s[i] <= w}

LEMMA AtMostFacts ==
    ASSUME NEW n \in Nat, NEW s, NEW w
    PROVE  IsFiniteSet(AtMost(s, n, w)) /\ Cardinality(AtMost(s, n, w)) \in Nat
  <1>1. AtMost(s, n, w) \in SUBSET (1 .. n)
    BY DEF AtMost
  <1>2. IsFiniteSet(1 .. n)
    BY UpTo
  <1> QED
    BY <1>1, <1>2, FS_Subset, FS_CardinalityType

\* In the k-th place of the sorted samples is one that k samples do not exceed, and fewer
\* than k are less than it.
LEMMA SortedCount ==
    ASSUME NEW n \in Nat, NEW s, NEW sorted \in [1 .. n -> Nat],
           NEW place \in [1 .. n -> 1 .. n],
           \A i, j \in 1 .. n : place[i] = place[j] => i = j,
           \A i \in 1 .. n : sorted[i] = s[place[i]],
           \A i, j \in 1 .. n : i < j => sorted[i] <= sorted[j],
           NEW k \in 1 .. n
    PROVE  /\ Cardinality(AtMost(s, n, sorted[k])) >= k
           /\ \A w \in Nat : w < sorted[k] => Cardinality(AtMost(s, n, w)) < k
  <1>1. k \in Nat /\ k - 1 \in Nat /\ sorted[k] \in Nat
    OBVIOUS
  <1>2. \A j \in 1 .. k : j \in 1 .. n
    BY <1>1
  <1>3. \A i \in 1 .. n : \E j \in 1 .. n : place[j] = i
    BY OntoIndices
  <1>4. Cardinality(AtMost(s, n, sorted[k])) >= k
    <2> DEFINE f == [j \in 1 .. k |-> place[j]]
               S == 1 .. k
               T == AtMost(s, n, sorted[k])
    <2>1. ASSUME NEW j \in 1 .. k PROVE sorted[j] <= sorted[k]
      <3>1. j \in Nat /\ j \in 1 .. n /\ (j < k \/ j = k)
        BY <1>1, <1>2
      <3>2. sorted[k] <= sorted[k]
        BY <1>1
      <3> QED
        BY <3>1, <3>2
    <2>2. f \in [S -> T]
      BY <1>2, <2>1 DEF AtMost
    <2>3. \A a, b \in S : f[a] = f[b] => a = b
      BY <1>2
    <2>4. IsFiniteSet(T) /\ Cardinality(T) \in Nat
      BY AtMostFacts
    <2>5. Cardinality(S) = k
      BY <1>1, UpTo
    <2> HIDE DEF f, S, T
    <2>6. Cardinality(S) <= Cardinality(T)
      BY <2>2, <2>3, <2>4, OneToOne
    <2> QED
      BY <1>1, <2>4, <2>5, <2>6 DEF T
  <1>5. ASSUME NEW w \in Nat, w < sorted[k] PROVE Cardinality(AtMost(s, n, w)) < k
    <2> DEFINE at == [i \in AtMost(s, n, w) |-> CHOOSE j \in 1 .. n : place[j] = i]
               S == AtMost(s, n, w)
               T == 1 .. (k - 1)
    <2>1. \A i \in S : at[i] \in 1 .. n /\ place[at[i]] = i /\ s[i] <= w
      BY <1>3 DEF AtMost
    <2>2. IsFiniteSet(S) /\ Cardinality(S) \in Nat
      BY AtMostFacts
    <2>3. DOMAIN at = S /\ at = [i \in S |-> at[i]]
      OBVIOUS
    <2> HIDE DEF at, S
    <2>4. ASSUME NEW i \in S PROVE at[i] \in T
      <3> DEFINE j == at[i]
      <3>1. j \in 1 .. n /\ sorted[j] <= w
        BY <2>1
      <3> HIDE DEF j
      <3>2. j \in Nat /\ sorted[j] \in Nat
        BY <3>1
      <3>3. ~(sorted[k] <= sorted[j])
        BY <1>1, <1>5, <3>1, <3>2
      <3>4. ~(k < j) /\ k # j
        BY <1>1, <3>1, <3>2, <3>3
      <3>5. j >= 1 /\ j <= k - 1
        BY <1>1, <3>1, <3>2, <3>4
      <3> QED
        BY <1>1, <3>2, <3>5 DEF j
    <2>5. at \in [S -> T]
      BY <2>3, <2>4
    <2>6. \A a, b \in S : at[a] = at[b] => a = b
      BY <2>1
    <2>7. IsFiniteSet(T)
      BY <1>1, UpTo
    <2>8. Cardinality(T) = k - 1
      BY <1>1, UpTo
    <2> HIDE DEF T
    <2>9. Cardinality(S) <= Cardinality(T)
      BY <2>5, <2>6, <2>7, OneToOne, Zenon
    <2> QED
      BY <1>1, <2>2, <2>8, <2>9 DEF S
  <1> QED
    BY <1>4, <1>5

\* The p-th percentile of the sorted samples is the least of them that p percent do not
\* exceed.
LEMMA PercentileIsLeast ==
    ASSUME NEW s \in Seq(Nat), s # <<>>, NEW sorted \in Profiler!Reorderings(s),
           \A i, j \in DOMAIN sorted : i < j => sorted[i] <= sorted[j],
           NEW p \in 1 .. 100
    PROVE  Profiler!Percentile(sorted, p) =
              Profiler!Min({v \in Profiler!ToSet(s) :
                 100 * Profiler!Cardinality({i \in DOMAIN s : s[i] <= v}) >= p * Len(s)})
  <1> DEFINE n == Len(s)
             N == 1 .. n
             index == (p * n + 99) \div 100
             Enough == {v \in Profiler!ToSet(s) :
                          100 * Profiler!Cardinality({i \in DOMAIN s : s[i] <= v}) >= p * Len(s)}
  <1>1. n \in Nat /\ n > 0 /\ DOMAIN s = N /\ \A i \in N : s[i] \in Nat
    OBVIOUS
  <1>2. PICK place \in [N -> N] : /\ \A i, j \in N : place[i] = place[j] => i = j
                                  /\ sorted = [i \in N |-> s[place[i]]]
    BY <1>1, ProfilerNames DEF Profiler!Reorderings
  <1>3. sorted \in [N -> Nat] /\ DOMAIN sorted = N /\ \A i \in N : sorted[i] = s[place[i]]
    <2> HIDE DEF N
    <2> QED
      BY <1>1, <1>2
  <1>4. Len(sorted) = n
    BY <1>1, <1>3
  <1>5. /\ index \in N /\ index >= 1 /\ index \in Nat /\ 100 * index >= p * n
        /\ \A m \in Nat : m < index => 100 * m < p * n
    BY <1>1, PercentileIndex
  <1>6. Profiler!Percentile(sorted, p) = sorted[index]
    <2>1. Profiler!Percentile(sorted, p) = sorted[IF index < 1 THEN 1 ELSE index]
      BY <1>4 DEF Profiler!Percentile
    <2> HIDE DEF index
    <2> QED
      BY <1>5, <2>1
  <1>7. p * n \in Nat
    BY <1>1
  <1>8. Enough = {v \in {s[i] : i \in N} : 100 * Cardinality(AtMost(s, n, v)) >= p * n}
    BY <1>1, ProfilerNames DEF AtMost
  <1> HIDE DEF index, Enough
  <1> DEFINE v == sorted[index]
  <1>9. /\ v \in Nat /\ v \in {s[i] : i \in N}
        /\ Cardinality(AtMost(s, n, v)) >= index
        /\ \A w \in Nat : w < v => Cardinality(AtMost(s, n, w)) < index
    <2>1. v \in Nat /\ v \in {s[i] : i \in N}
      <3> HIDE DEF N
      <3> QED
        BY <1>2, <1>3, <1>5
    <2>2. \A i, j \in 1 .. n : i < j => sorted[i] <= sorted[j]
      BY <1>3
    <2>3. n \in Nat /\ index \in 1 .. n /\ sorted \in [1 .. n -> Nat]
      BY <1>1, <1>3, <1>5
    <2> HIDE DEF n
    <2>4. /\ Cardinality(AtMost(s, n, sorted[index])) >= index
          /\ \A w \in Nat : w < sorted[index] => Cardinality(AtMost(s, n, w)) < index
      BY <1>2, <1>3, <2>2, <2>3, SortedCount
    <2> QED
      BY <2>1, <2>4
  <1> HIDE DEF v
  <1>10. v \in Enough
    <2> DEFINE count == Cardinality(AtMost(s, n, v))
    <2>1. count \in Nat /\ count >= index
      BY <1>1, <1>9, AtMostFacts
    <2> HIDE DEF count
    <2>2. 100 * count >= p * n
      <3> DEFINE m == p * n
      <3>1. m \in Nat /\ 100 * index >= m
        BY <1>5, <1>7
      <3> HIDE DEF m
      <3>2. 100 * count >= m
        BY <1>5, <2>1, <3>1
      <3> QED
        BY <3>2 DEF m
    <2> QED
      BY <1>8, <1>9, <2>2 DEF count
  <1>11. ASSUME NEW w \in Enough PROVE w \in Nat /\ v <= w
    <2> DEFINE count == Cardinality(AtMost(s, n, w))
    <2>1. w \in Nat /\ 100 * count >= p * n
      BY <1>1, <1>8
    <2>2. ASSUME w < v PROVE FALSE
      <3>1. count < index /\ count \in Nat
        BY <1>1, <1>9, <2>1, <2>2, AtMostFacts
      <3> HIDE DEF count
      <3>2. 100 * count < p * n
        BY <1>5, <3>1
      <3>3. 100 * count \in Nat
        BY <3>1
      <3> HIDE DEF n
      <3> QED
        BY <1>7, <2>1, <3>2, <3>3
    <2> QED
      BY <1>9, <2>1, <2>2
  <1>12. Profiler!Min(Enough) = v
    <2>1. Profiler!Min(Enough) \in Enough /\ \A y \in Enough : Profiler!Min(Enough) <= y
      BY <1>10, <1>11 DEF Profiler!Min
    <2>2. Profiler!Min(Enough) <= v /\ v <= Profiler!Min(Enough) /\ Profiler!Min(Enough) \in Nat
      BY <1>10, <1>11, <2>1
    <2> QED
      BY <1>9, <2>2
  <1> QED
    BY <1>6, <1>12 DEF v, Enough

\* The sums of the slope are those of SeriesProofs.
LEMMA ProfilerTotal == \A f : Profiler!Total(f) = Sum(f, DOMAIN f)
  BY DEF Profiler!Total, Profiler!SumFunction, Profiler!SumFunctionOnSet,
     Profiler!FoldFunctionOnSet, Profiler!MapThenFoldSet, Sum

\* The numbers from nought, against which the values are drawn.
Places(n) == [i \in 1 .. n |-> i - 1]

\* The slope is a covariance over a variance.
LEMMA SlopeIs ==
    ASSUME NEW v \in Seq(Nat), NEW n \in Nat, n = Len(v)
    PROVE  Profiler!Slope(v) = <<Spread(Places(n), v, n, n), Spread(Places(n), Places(n), n, n)>>
  <1> DEFINE xs == [i \in 1 .. n |-> i - 1]
             xy == [i \in 1 .. n |-> xs[i] * v[i]]
             xx == [i \in 1 .. n |-> xs[i] * xs[i]]
  <1>1. Profiler!Slope(v) = <<n * Profiler!Total(xy) - Profiler!Total(xs) * Profiler!Total(v),
                              n * Profiler!Total(xx) - Profiler!Total(xs) * Profiler!Total(xs)>>
    BY DEF Profiler!Slope
  <1>2. xs = Places(n) /\ xy = Products(Places(n), v, n)
        /\ xx = Products(Places(n), Places(n), n)
    BY DEF Places, Products
  <1>3. DOMAIN xs = 1 .. n /\ DOMAIN xy = 1 .. n /\ DOMAIN xx = 1 .. n /\ DOMAIN v = 1 .. n
    OBVIOUS
  <1> HIDE DEF xs, xy, xx
  <1>4. /\ Profiler!Total(xs) = Sum(xs, 1 .. n) /\ Profiler!Total(xy) = Sum(xy, 1 .. n)
        /\ Profiler!Total(xx) = Sum(xx, 1 .. n) /\ Profiler!Total(v) = Sum(v, 1 .. n)
    BY <1>3, ProfilerTotal
  <1> QED
    BY <1>1, <1>2, <1>4 DEF Spread

\* The values grow by no more than t for a thousand at every step, or by more.
Slow(v, n, t) == \A j \in 1 .. (n - 1) : 1000 * (v[j + 1] - v[j]) <= t
Fast(v, n, t) == \A j \in 1 .. (n - 1) : 1000 * (v[j + 1] - v[j]) > t

\* Values that grow by more than t for a thousand at every step are further apart, the
\* further apart their places are; likewise if they grow by less.
LEMMA StepsAdd ==
    ASSUME NEW v \in Seq(Nat), NEW t \in Nat, NEW n \in Nat, n = Len(v),
           NEW k \in 1 .. n, NEW i \in 1 .. (k - 1)
    PROVE  /\ Slow(v, n, t) => Apart(Places(n), v, 1000, t, i, k) <= 0
           /\ Fast(v, n, t) => Apart(Places(n), v, 1000, t, i, k) > 0
  <1> DEFINE m == k - i
             w == [l \in 0 .. m |-> 1000 * (v[i + l] - v[i]) - t * l]
  <1>1. m \in Nat /\ m > 0 /\ i + m = k /\ k <= n /\ i >= 1 /\ i \in Nat
    OBVIOUS
  <1>2. \A j \in 1 .. n : v[j] \in Nat
    OBVIOUS
  <1>3. \A l \in 0 .. m : i + l \in 1 .. n /\ w[l] \in Int
    BY <1>1, <1>2
  <1>4. Whole(w, 0 .. m) /\ w[0] = 0
    <2>1. 0 \in 0 .. m /\ i + 0 = i /\ v[i] \in Nat
      BY <1>1, <1>2
    <2>2. w[0] = 1000 * (v[i] - v[i]) - t * 0
      BY <2>1
    <2> QED
      BY <1>3, <2>1, <2>2 DEF Whole
  <1>5. ASSUME NEW l \in 1 .. m
        PROVE  (Slow(v, n, t) => w[l] <= w[l - 1]) /\ (Fast(v, n, t) => w[l] > w[l - 1])
    <2> DEFINE j == i + l - 1
    <2>1. /\ j \in 1 .. (n - 1) /\ j + 1 = i + l /\ i + (l - 1) = j
          /\ l - 1 \in 0 .. m /\ l \in 0 .. m
      BY <1>1
    <2>2. w[l] = 1000 * (v[j + 1] - v[i]) - t * l /\ w[l - 1] = 1000 * (v[j] - v[i]) - t * (l - 1)
      BY <2>1
    <2>3. v[j + 1] \in Nat /\ v[j] \in Nat /\ v[i] \in Nat
      <3>1. j + 1 \in 1 .. n /\ j \in 1 .. n /\ i \in 1 .. n
        BY <1>1, <2>1
      <3> QED
        BY <1>2, <3>1
    <2>4. /\ Slow(v, n, t) => 1000 * (v[j + 1] - v[j]) <= t
          /\ Fast(v, n, t) => 1000 * (v[j + 1] - v[j]) > t
      BY <2>1 DEF Slow, Fast
    <2>5. t * l \in Int /\ t * (l - 1) = t * l - t
      OBVIOUS
    <2> HIDE DEF w, j
    <2>6. w[l] - w[l - 1] = 1000 * (v[j + 1] - v[j]) - t
      <3> DEFINE a == v[j + 1]
                 b == v[j]
                 c == v[i]
                 e == t * l
                 f == t * (l - 1)
      <3>1. a \in Nat /\ b \in Nat /\ c \in Nat /\ e \in Int /\ f = e - t
        BY <2>3, <2>5
      <3>2. w[l] = 1000 * (a - c) - e /\ w[l - 1] = 1000 * (b - c) - f
        BY <2>2
      <3> HIDE DEF a, b, c, e, f
      <3>3. (1000 * (a - c) - e) - (1000 * (b - c) - f) = 1000 * (a - b) - t
        BY <3>1
      <3>4. w[l] - w[l - 1] = 1000 * (a - b) - t
        BY <3>2, <3>3
      <3> QED
        BY <3>4 DEF a, b
    <2>7. 1000 * (v[j + 1] - v[j]) \in Int /\ w[l] \in Int /\ w[l - 1] \in Int
      BY <1>3, <2>1, <2>3
    <2>8. ASSUME Slow(v, n, t) PROVE w[l] <= w[l - 1]
      BY <2>4, <2>6, <2>7, <2>8
    <2>9. ASSUME Fast(v, n, t) PROVE w[l] > w[l - 1]
      BY <2>4, <2>6, <2>7, <2>9
    <2> QED
      BY <2>8, <2>9
  <1> DEFINE d == 1000 * (v[k] - v[i]) - t * m
  <1>6. w[m] = d /\ d \in Int /\ m \in 0 .. m
    BY <1>1, <1>3
  <1>7. Apart(Places(n), v, 1000, t, i, k) = m * d
    <2>1. Places(n)[k] - Places(n)[i] = m
      BY <1>1 DEF Places
    <2> QED
      BY <2>1 DEF Apart
  <1> HIDE DEF w, d
  <1>8. (Slow(v, n, t) => d <= 0) /\ (Fast(v, n, t) => d > 0)
    BY <1>1, <1>4, <1>5, <1>6, Telescope
  <1>9. (d <= 0 => m * d <= 0) /\ (d > 0 => m * d > 0)
    <2> HIDE DEF m
    <2> QED
      BY <1>1, <1>6
  <1> QED
    BY <1>7, <1>8, <1>9

\* The recent snapshots are snapshots, and at least two.
LEMMA RecentType ==
    ASSUME DataAssumption, snapshots \in Seq(Nat), Len(snapshots) >= MinSnapshots
    PROVE  Profiler!Recent \in Seq(Nat) /\ Len(Profiler!Recent) > 1
  <1>1. Len(snapshots) \in Nat /\ LeakWindow \in Nat /\ LeakWindow > 1 /\ Len(snapshots) > 1
    BY DEF DataAssumption
  <1>2. CASE Len(snapshots) <= LeakWindow
    BY <1>1, <1>2 DEF Profiler!Recent
  <1>3. CASE Len(snapshots) > LeakWindow
    <2> DEFINE a == Len(snapshots) - LeakWindow + 1
               b == Len(snapshots)
    <2>1. a \in Int /\ b \in Nat /\ a >= 1 /\ b - a + 1 = LeakWindow /\ a <= b
      BY <1>1, <1>3
    <2>2. Profiler!Recent = SubSeq(snapshots, a, b)
      BY <1>1, <1>3 DEF Profiler!Recent
    <2>3. SubSeq(snapshots, a, b) \in Seq(Nat) /\ Len(SubSeq(snapshots, a, b)) = b - a + 1
      BY <2>1, SubSeqProperties
    <2> QED
      BY <1>1, <2>1, <2>2, <2>3
  <1> QED
    BY <1>1, <1>2, <1>3

\* The slope is above the threshold when every step is, and not when none is.
LEMMA SlopeOfSteps ==
    ASSUME NEW v \in Seq(Nat), NEW t \in Nat, NEW n \in Nat, n = Len(v), n > 1
    PROVE  /\ Slow(v, n, t) => ~(1000 * Profiler!Slope(v)[1] > t * Profiler!Slope(v)[2])
           /\ Fast(v, n, t) => 1000 * Profiler!Slope(v)[1] > t * Profiler!Slope(v)[2]
  <1> DEFINE x == Places(n)
  <1>1. /\ Profiler!Slope(v)[1] = Spread(x, v, n, n)
        /\ Profiler!Slope(v)[2] = Spread(x, x, n, n)
    BY SlopeIs
  <1>2. Whole(x, 1 .. n) /\ Whole(v, 1 .. n)
    BY DEF Whole, Places
  <1>3. Slow(v, n, t) => NoneAbove(x, v, 1000, t, n)
    BY StepsAdd DEF NoneAbove
  <1>4. Fast(v, n, t) => AllAbove(x, v, 1000, t, n)
    BY StepsAdd DEF AllAbove
  <1> HIDE DEF x
  <1>5. /\ Spread(x, v, n, n) \in Int /\ Spread(x, x, n, n) \in Int
        /\ NoneAbove(x, v, 1000, t, n) => 1000 * Spread(x, v, n, n) <= t * Spread(x, x, n, n)
        /\ AllAbove(x, v, 1000, t, n) => 1000 * Spread(x, v, n, n) > t * Spread(x, x, n, n)
    BY <1>2, Covariance
  <1> DEFINE a == 1000 * Spread(x, v, n, n)
             b == t * Spread(x, x, n, n)
  <1>6. a \in Int /\ b \in Int
    BY <1>5
  <1>7. 1000 * Profiler!Slope(v)[1] = a /\ t * Profiler!Slope(v)[2] = b
    BY <1>1
  <1>8. (NoneAbove(x, v, 1000, t, n) => a <= b) /\ (AllAbove(x, v, 1000, t, n) => a > b)
    BY <1>5
  <1> HIDE DEF a, b
  <1>9. a <= b => ~(a > b)
    BY <1>6
  <1> QED
    BY <1>3, <1>4, <1>7, <1>8, <1>9

\* A leak is found whenever there is one, and only then.
LEMMA LeaksHold ==
    ASSUME DataAssumption, snapshots \in Seq(Nat)
    PROVE  Profiler!LeaksRight
  <1> SUFFICES ASSUME Len(snapshots) >= MinSnapshots
               PROVE  /\ (\A step \in Profiler!Steps : 1000 * step <= LeakThreshold)
                            => ~Profiler!LeakSuspected
                      /\ (\A step \in Profiler!Steps : 1000 * step > LeakThreshold)
                            => Profiler!LeakSuspected
    BY DEF Profiler!LeaksRight
  <1> DEFINE v == Profiler!Recent
             n == Len(v)
  <1>1. v \in Seq(Nat) /\ n \in Nat /\ n > 1 /\ LeakThreshold \in Nat
    BY RecentType DEF DataAssumption
  <1>2. \A j \in 1 .. (n - 1) : v[j + 1] - v[j] \in Profiler!Steps
    BY <1>1 DEF Profiler!Steps
  <1>3. Profiler!LeakSuspected <=>
           1000 * Profiler!Slope(v)[1] > LeakThreshold * Profiler!Slope(v)[2]
    BY DEF Profiler!LeakSuspected
  <1> HIDE DEF v
  <1>4. /\ Slow(v, n, LeakThreshold)
              => ~(1000 * Profiler!Slope(v)[1] > LeakThreshold * Profiler!Slope(v)[2])
        /\ Fast(v, n, LeakThreshold)
              => 1000 * Profiler!Slope(v)[1] > LeakThreshold * Profiler!Slope(v)[2]
    BY <1>1, SlopeOfSteps
  <1>5. /\ (\A step \in Profiler!Steps : 1000 * step <= LeakThreshold) => Slow(v, n, LeakThreshold)
        /\ (\A step \in Profiler!Steps : 1000 * step > LeakThreshold) => Fast(v, n, LeakThreshold)
    BY <1>2 DEF Slow, Fast
  <1> QED
    BY <1>3, <1>4, <1>5

ProfilerInv ==
    /\ durations \in Seq(Nat) /\ snapshots \in Seq(Nat)
    /\ Profiler!PercentilesRight /\ Profiler!DestroyedIsQuiet

LEMMA InitProfiler == Profiler!Init => ProfilerInv
  BY DEF Profiler!Init, ProfilerInv, Profiler!PercentilesRight, Profiler!DestroyedIsQuiet

LEMMA RecordProfiler ==
    ASSUME ProfilerInv, NEW d \in Durations, Profiler!RecordCpuProfile(d)
    PROVE  ProfilerInv'
  <1>1. /\ durations' = Append(durations, d)
        /\ UNCHANGED <<snapshots, reportTimer, snapshotTimer, destroyed>>
    BY DEF Profiler!RecordCpuProfile
  <1>2. PICK sorted \in Profiler!Reorderings(durations') :
            /\ \A i, j \in DOMAIN sorted : i < j => sorted[i] <= sorted[j]
            /\ percentiles' = [p \in Percents |-> Profiler!Percentile(sorted, p)]
    BY DEF Profiler!RecordCpuProfile
  <1>3. durations' \in Seq(Nat) /\ durations' # <<>>
    <2>1. durations \in Seq(Nat) /\ d \in Nat
      BY DataAssumption DEF ProfilerInv
    <2> QED
      BY <1>1, <2>1
  <1>4. ASSUME NEW p \in Percents
        PROVE  percentiles'[p] =
                  Profiler!Min({v \in Profiler!ToSet(durations') :
                     100 * Profiler!Cardinality({i \in DOMAIN durations' : durations'[i] <= v})
                        >= p * Len(durations')})
    <2>1. p \in 1 .. 100 /\ percentiles'[p] = Profiler!Percentile(sorted, p)
      BY <1>2, DataAssumption
    <2> QED
      BY <1>2, <1>3, <2>1, PercentileIsLeast
  <1>5. Profiler!PercentilesRight'
    BY <1>4 DEF Profiler!PercentilesRight, Profiler!Within
  <1> QED
    BY <1>1, <1>3, <1>5 DEF ProfilerInv, Profiler!DestroyedIsQuiet

LEMMA NextProfiler ==
    ASSUME ProfilerInv, Profiler!Next
    PROVE  ProfilerInv'
  <1>1. ASSUME NEW d \in Durations, Profiler!RecordCpuProfile(d) PROVE ProfilerInv'
    BY <1>1, RecordProfiler
  <1>2. ASSUME NEW heap \in Heaps, Profiler!TakeMemorySnapshot(heap) PROVE ProfilerInv'
    <2>1. UNCHANGED <<durations, percentiles, reportTimer, snapshotTimer, destroyed>>
      BY <1>2 DEF Profiler!TakeMemorySnapshot
    <2>2. snapshots' \in Seq(Nat)
      <3> DEFINE grown == Append(snapshots, heap)
      <3>1. grown \in Seq(Nat) /\ grown # <<>>
        BY DataAssumption DEF ProfilerInv
      <3>2. Tail(grown) \in Seq(Nat)
        BY <3>1
      <3>3. snapshots' = grown \/ snapshots' = Tail(grown)
        BY <1>2 DEF Profiler!TakeMemorySnapshot
      <3> QED
        BY <3>1, <3>2, <3>3
    <2> QED
      BY <2>1, <2>2 DEF ProfilerInv, Profiler!PercentilesRight, Profiler!Within,
         Profiler!DestroyedIsQuiet
  <1>3. ASSUME NEW on \in BOOLEAN, Profiler!UpdateConfig(on) PROVE ProfilerInv'
    <2>1. /\ UNCHANGED <<durations, percentiles, snapshots, snapshotTimer, destroyed>>
          /\ reportTimer' = (reportTimer /\ on)
      BY <1>3 DEF Profiler!UpdateConfig
    <2>2. Profiler!DestroyedIsQuiet'
      BY <2>1 DEF ProfilerInv, Profiler!DestroyedIsQuiet
    <2>3. Profiler!PercentilesRight'
      BY <2>1 DEF ProfilerInv, Profiler!PercentilesRight, Profiler!Within
    <2> QED
      BY <2>1, <2>2, <2>3 DEF ProfilerInv
  <1>4. CASE Profiler!Reset \/ Profiler!DestroyProfiler
    <2>1. /\ durations' = <<>> /\ snapshots' = <<>>
          /\ \/ UNCHANGED <<reportTimer, snapshotTimer, destroyed>>
             \/ ~reportTimer' /\ ~snapshotTimer'
      BY <1>4 DEF Profiler!Reset, Profiler!DestroyProfiler, Profiler!Cleared
    <2>2. Profiler!DestroyedIsQuiet'
      BY <2>1 DEF ProfilerInv, Profiler!DestroyedIsQuiet
    <2>3. Profiler!PercentilesRight'
      BY <2>1 DEF Profiler!PercentilesRight
    <2> QED
      BY <2>1, <2>2, <2>3 DEF ProfilerInv
  <1> QED
    BY <1>1, <1>2, <1>3, <1>4 DEF Profiler!Next

\* Another part runs.
LEMMA RestCache == CacheInv /\ UNCHANGED cacheVars => CacheInv'
  <1> SUFFICES ASSUME CacheInv, UNCHANGED cacheVars PROVE CacheInv'
    OBVIOUS
  <1>1. UNCHANGED <<memory, order, redis, pipe, writes, latest, raced, lost, cacheNow>>
    BY DEF cacheVars
  <1> QED
    BY <1>1 DEF CacheInv, CacheTypes, MapKept, Aged, Flows, OlderLost, InRedis, Cache!IsValid

LEMMA RestDb == DbInv /\ UNCHANGED dbVars => DbInv'
  <1> SUFFICES ASSUME DbInv, UNCHANGED dbVars PROVE DbInv'
    OBVIOUS
  <1>1. UNCHANGED <<calls, table, applied, cacheOrder, enabled, slowLog>>
    BY DEF dbVars
  <1> QED
    BY <1>1 DEF DbInv, CallsRight, DbKept, OnlyAsked, DbHeld, Asked, LogKept

LEMMA RestProfiler == ProfilerInv /\ UNCHANGED profilerVars => ProfilerInv'
  <1> SUFFICES ASSUME ProfilerInv, UNCHANGED profilerVars PROVE ProfilerInv'
    OBVIOUS
  <1>1. UNCHANGED <<durations, percentiles, snapshots, reportTimer, snapshotTimer, destroyed>>
    BY DEF profilerVars
  <1> QED
    BY <1>1 DEF ProfilerInv, Profiler!PercentilesRight, Profiler!Within,
       Profiler!DestroyedIsQuiet

-----------------------------------------------------------------------------
(* The composition of the data services: while one part runs, the others rest.  *)

\* Every behaviour of the composition keeps what PoolAlwaysSound says of the pool.
THEOREM DataKeepsPool == DataSpec => []PoolSound
  <1>1. DataInit => Init
    BY DEF DataInit
  <1>2. [DataNext]_dataVars => [Next]_poolVars
    BY DEF DataNext, dataVars
  <1> QED
    BY <1>1, <1>2, PoolAlwaysSound, PTL DEF DataSpec, Spec

\* For any limits of both caches and any timing of Redis and the database: neither cache
\* outgrows its limit, memory answers with nothing older than two times to live and with
\* the last value set unless a write overtook a read or Redis is behind, a disabled query
\* cache holds only what was asked for, and a statement repeats only when it was slow.
THEOREM CachesAlwaysSound == DataSpec => []CachesSound
  <1> DEFINE Inv == CacheInv /\ DbInv
  <1>1. DataInit => Inv
    BY InitCacheInv, InitDb DEF DataInit
  <1>2. Inv /\ [DataNext]_dataVars => Inv'
    <2> SUFFICES ASSUME Inv, [DataNext]_dataVars PROVE Inv'
      OBVIOUS
    <2>1. Cache!Next \/ UNCHANGED cacheVars
      BY DEF DataNext, dataVars
    <2>2. Db!Next \/ UNCHANGED dbVars
      BY DEF DataNext, dataVars
    <2>3. CacheInv'
      BY <2>1, NextCache, RestCache
    <2>4. DbInv'
      BY <2>2, NextDb, RestDb
    <2> QED
      BY <2>3, <2>4
  <1>3. Inv => CachesSound
    BY CacheInvIsSound, DbInvIsSound DEF CachesSound
  <1> QED
    BY <1>1, <1>2, <1>3, PTL DEF DataSpec

\* Whatever is sampled, each percentile is the least sample that its percentage of the
\* samples do not exceed; and no order of updateConfig and destroy leaves a timer running.
THEOREM ProfilerAlwaysRight == DataSpec => []ProfilerRight
  <1>1. DataInit => ProfilerInv
    BY InitProfiler DEF DataInit
  <1>2. ProfilerInv /\ [DataNext]_dataVars => ProfilerInv'
    <2> SUFFICES ASSUME ProfilerInv, [DataNext]_dataVars PROVE ProfilerInv'
      OBVIOUS
    <2>1. Profiler!Next \/ UNCHANGED profilerVars
      BY DEF DataNext, dataVars
    <2> QED
      BY <2>1, NextProfiler, RestProfiler
  <1>3. ProfilerInv => ProfilerRight
    BY DEF ProfilerInv, ProfilerRight
  <1> QED
    BY <1>1, <1>2, <1>3, PTL DEF DataSpec

\* In every state the recent snapshots are judged to leak if the heap grows by more than
\* the threshold at each of them, and not if it does so at none, however many there are.
THEOREM LeaksAlwaysFound == DataSpec => []LeaksFound
  <1>1. DataInit => ProfilerInv
    BY InitProfiler DEF DataInit
  <1>2. ProfilerInv /\ [DataNext]_dataVars => ProfilerInv'
    <2> SUFFICES ASSUME ProfilerInv, [DataNext]_dataVars PROVE ProfilerInv'
      OBVIOUS
    <2>1. Profiler!Next \/ UNCHANGED profilerVars
      BY DEF DataNext, dataVars
    <2> QED
      BY <2>1, NextProfiler, RestProfiler
  <1>3. ProfilerInv => LeaksFound
    BY LeaksHold, DataAssumption DEF ProfilerInv, LeaksFound
  <1> QED
    BY <1>1, <1>2, <1>3, PTL DEF DataSpec

-----------------------------------------------------------------------------
(* AuditLogger.  What retention keeps is the end of the log, because events are   *)
(* logged in the order of their times; so their links stay.  Numbers that grow  *)
(* make every hash of the log different, so that tampering shows.             *)

LEMMA AuditNames ==
    /\ \A s, I : Audit!Picked(s, I) = Picked(s, I)
    /\ \A S : Audit!Cardinality(S) = Cardinality(S)
    /\ \A s : Audit!Last(s) = s[Len(s)]
    /\ \A s, i : Audit!RemoveAt(s, i) = SubSeq(s, 1, i - 1) \o SubSeq(s, i + 1, Len(s))
  <1>1. \A S : Audit!Cardinality(S) = Cardinality(S)
    BY DEF Audit!Cardinality, Cardinality
  <1>2. \A I, i : Audit!Rank(I, i) = Rank(I, i)
    BY <1>1 DEF Audit!Rank, Rank
  <1>3. \A I, n : Audit!Nth(I, n) = Nth(I, n)
    BY <1>2 DEF Audit!Nth, Nth
  <1>4. \A s, I : Audit!Picked(s, I) = Picked(s, I)
    BY <1>1, <1>3 DEF Audit!Picked, Picked
  <1> QED
    BY <1>1, <1>4 DEF Audit!Last, Audit!RemoveAt

\* Two hashes are equal only for events with the same number, type, details and link.
LEMMA HashTells ==
    ASSUME NEW e, NEW f
    PROVE  /\ Audit!CalculateHash(e) # Audit!Undefined
           /\ Audit!CalculateHash(e) = Audit!CalculateHash(f) =>
                 /\ e.number = f.number /\ e.type = f.type
                 /\ e.details = f.details /\ e.previous = f.previous
  <1> DEFINE h == Audit!CalculateHash(e)
             g == Audit!CalculateHash(f)
  <1>1. h[2] = e.number /\ h[3] = e.details /\ h[4] = e.type /\ h[6] = e.previous /\ Len(h) = 6
    BY DEF Audit!CalculateHash
  <1>2. g[2] = f.number /\ g[3] = f.details /\ g[4] = f.type /\ g[6] = f.previous
    BY DEF Audit!CalculateHash
  <1>3. Len(Audit!Undefined) = 0
    BY DEF Audit!Undefined
  <1> HIDE DEF h, g
  <1>4. h # Audit!Undefined
    <2> SUFFICES ASSUME h = Audit!Undefined PROVE FALSE
      OBVIOUS
    <2>1. Len(h) = 0
      BY <1>3, Zenon
    <2>2. 0 = 6
      BY <1>1, <2>1, Zenon
    <2> QED
      BY <2>2
  <1>5. h = g => /\ e.number = f.number /\ e.type = f.type
                 /\ e.details = f.details /\ e.previous = f.previous
    BY <1>1, <1>2
  <1> QED
    BY <1>4, <1>5 DEF h, g

\* An event is a record of these fields.
IsEvent(e) ==
    /\ e = [number |-> e.number, at |-> e.at, type |-> e.type, severity |-> e.severity,
            details |-> e.details, previous |-> e.previous, hash |-> e.hash]
    /\ e.number \in Nat /\ e.at \in Nat

Logged(log, now, next) ==
    \A i \in DOMAIN log : IsEvent(log[i]) /\ log[i].at <= now /\ log[i].number < next
InOrder(log) ==
    \A i, j \in DOMAIN log : i < j => log[i].at <= log[j].at /\ log[i].number < log[j].number
Linked(log) == \A i \in 2 .. Len(log) : log[i].previous = log[i - 1].hash
Hashed(log) == \A i \in DOMAIN log : log[i].hash = Audit!CalculateHash(log[i])

\* The first event begins the chain, and the last one ends it.
Begun(log) == log # <<>> => log[1].previous = Audit!Undefined
Ends(log, hash) == log # <<>> => log[Len(log)].hash = hash

IsLog(log) == \E S : log \in Seq(S)

LEMMA LogTypes ==
    ASSUME NEW log, IsLog(log)
    PROVE  /\ Len(log) \in Nat /\ DOMAIN log = 1 .. Len(log)
           /\ \A i \in DOMAIN log : i \in Nat /\ i >= 1 /\ i <= Len(log)
           /\ log # <<>> <=> Len(log) > 0
  BY DEF IsLog

LEMMA VerifiesMeans ==
    ASSUME NEW log, IsLog(log)
    PROVE  Audit!Verifies(log) <=> Linked(log) /\ Hashed(log) /\ Begun(log)
  <1>1. /\ Len(log) \in Nat /\ DOMAIN log = 1 .. Len(log)
        /\ log # <<>> <=> Len(log) > 0
    BY LogTypes
  <1>2. ASSUME Audit!Verifies(log) PROVE Linked(log) /\ Hashed(log) /\ Begun(log)
    <2>1. Hashed(log)
      BY <1>2 DEF Audit!Verifies, Hashed
    <2>2. Begun(log)
      <3> SUFFICES ASSUME log # <<>> PROVE log[1].previous = Audit!Undefined
        BY DEF Begun
      <3>1. 1 \in DOMAIN log
        BY <1>1
      <3> QED
        BY <1>2, <3>1 DEF Audit!Verifies, Audit!LinkBefore
    <2>3. Linked(log)
      <3> SUFFICES ASSUME NEW i \in 2 .. Len(log) PROVE log[i].previous = log[i - 1].hash
        BY DEF Linked
      <3>1. i \in DOMAIN log /\ i # 1
        BY <1>1
      <3> QED
        BY <1>2, <3>1 DEF Audit!Verifies, Audit!LinkBefore
    <2> QED
      BY <2>1, <2>2, <2>3
  <1>3. ASSUME Linked(log), Hashed(log), Begun(log) PROVE Audit!Verifies(log)
    <2> SUFFICES ASSUME NEW i \in DOMAIN log
                 PROVE  log[i].previous = Audit!LinkBefore(log, i)
      BY <1>3 DEF Audit!Verifies, Hashed
    <2>1. CASE i = 1
      BY <1>1, <1>3, <2>1 DEF Begun, Audit!LinkBefore
    <2>2. CASE i # 1
      <3>1. i \in 2 .. Len(log)
        BY <1>1, <2>2
      <3> QED
        BY <1>3, <2>2, <3>1 DEF Linked, Audit!LinkBefore
    <2> QED
      BY <2>1, <2>2
  <1> QED
    BY <1>2, <1>3

\* A chain that verifies does not do so without one of its events but the last.
LEMMA RemovalShows ==
    ASSUME NEW log, IsLog(log), Audit!Verifies(log), InOrder(log),
           NEW now, NEW next, Logged(log, now, next), NEW i \in 1 .. Len(log) - 1
    PROVE  ~Audit!Verifies(Audit!RemoveAt(log, i))
  <1> DEFINE n == Len(log)
             front == SubSeq(log, 1, i - 1)
             back == SubSeq(log, i + 1, n)
             rest == front \o back
  <1>1. PICK S : log \in Seq(S)
    BY DEF IsLog
  <1>2. n \in Nat /\ DOMAIN log = 1 .. n /\ i \in Nat /\ i >= 1 /\ i < n
    BY <1>1
  <1>3. /\ front \in Seq(S) /\ Len(front) = i - 1
        /\ \A j \in 1 .. i - 1 : front[j] = log[j]
    BY <1>1, <1>2
  <1>4. /\ back \in Seq(S) /\ Len(back) = n - i
        /\ \A j \in 1 .. n - i : back[j] = log[j + i]
    BY <1>1, <1>2
  <1>5. /\ rest \in Seq(S) /\ Len(rest) = n - 1
        /\ \A j \in 1 .. i - 1 : rest[j] = log[j]
        /\ rest[i] = log[i + 1]
    <2> HIDE DEF front, back
    <2>1. rest \in Seq(S) /\ Len(rest) = Len(front) + Len(back)
      BY <1>3, <1>4, ConcatProperties
    <2>2. Len(rest) = n - 1
      BY <1>2, <1>3, <1>4, <2>1
    <2>3. \A j \in 1 .. i - 1 : rest[j] = log[j]
      BY <1>2, <1>3, <1>4
    <2>4. rest[i] = back[1]
      BY <1>2, <1>3, <1>4
    <2>5. back[1] = log[i + 1]
      BY <1>2, <1>4
    <2> QED
      BY <2>1, <2>2, <2>3, <2>4, <2>5
  <1>6. Audit!RemoveAt(log, i) = rest
    BY AuditNames
  <1> HIDE DEF rest, n
  <1> SUFFICES ASSUME Audit!Verifies(rest) PROVE FALSE
    BY <1>6
  <1>7. IsLog(rest)
    BY <1>5 DEF IsLog
  <1>8. Linked(rest) /\ Begun(rest) /\ Linked(log) /\ Hashed(log)
    BY <1>7, VerifiesMeans
  <1>9. log[i + 1].previous = log[i].hash /\ log[i].hash = Audit!CalculateHash(log[i])
    <2>1. i + 1 \in 2 .. Len(log) /\ i \in DOMAIN log /\ (i + 1) - 1 = i
      BY <1>2 DEF n
    <2> QED
      BY <1>8, <2>1 DEF Linked, Hashed
  <1>10. CASE i = 1
    <2>1. rest # <<>> /\ rest[1] = log[i + 1]
      BY <1>2, <1>5, <1>10
    <2> QED
      BY <1>8, <1>9, <2>1, HashTells DEF Begun
  <1>11. CASE i # 1
    <2>1. i \in 2 .. Len(rest) /\ i - 1 \in 1 .. i - 1 /\ i - 1 \in DOMAIN log /\ i \in DOMAIN log
      BY <1>2, <1>5, <1>11
    <2>2. rest[i].previous = rest[i - 1].hash /\ rest[i - 1] = log[i - 1]
      BY <1>5, <1>8, <2>1 DEF Linked
    <2>3. log[i - 1].hash = Audit!CalculateHash(log[i - 1])
      BY <1>8, <2>1 DEF Hashed
    <2>4. log[i].number = log[i - 1].number
      BY <1>5, <1>9, <2>2, <2>3, HashTells
    <2>5. log[i].number \in Nat
      BY <2>1 DEF Logged, IsEvent
    <2>6. i - 1 < i
      BY <1>2
    <2>7. log[i - 1].number < log[i].number
      BY <2>1, <2>6 DEF InOrder
    <2> QED
      BY <2>4, <2>5, <2>7
  <1> QED
    BY <1>10, <1>11

\* Nor with the type or the details of one of them changed, its hash or the next link put
\* right or not.
LEMMA ChangeShows ==
    ASSUME NEW log, IsLog(log), Audit!Verifies(log), NEW now, NEW next, Logged(log, now, next),
           NEW i \in 1 .. Len(log) - 1, NEW type \in Types, NEW d \in Details,
           NEW forged, forged = Audit!Forged(log[i], type, d), forged # log[i]
    PROVE  LET rehashed == Audit!Rehashed(forged)
           IN  /\ ~Audit!Verifies([log EXCEPT ![i] = forged])
               /\ ~Audit!Verifies([log EXCEPT ![i] = rehashed])
               /\ ~Audit!Verifies([log EXCEPT ![i] = rehashed,
                                              ![i + 1].previous = rehashed.hash])
  <1> DEFINE hash == Audit!CalculateHash(forged)
             rehashed == Audit!Rehashed(forged)
             relinked == [log[i + 1] EXCEPT !.previous = hash]
             log1 == [log EXCEPT ![i] = forged]
             log2 == [log EXCEPT ![i] = rehashed]
             log3 == [log EXCEPT ![i] = rehashed, ![i + 1].previous = rehashed.hash]
  <1>1. /\ i \in DOMAIN log /\ i + 1 \in DOMAIN log /\ i + 1 \in 2 .. Len(log)
        /\ (i + 1) - 1 = i /\ i # i + 1 /\ i + 1 # 1 /\ DOMAIN log = 1 .. Len(log)
    BY LogTypes
  <1>2. IsEvent(log[i]) /\ IsEvent(log[i + 1])
    BY <1>1 DEF Logged
  <1>3. forged = [log[i] EXCEPT !.type = type, !.details = <<d>>] /\ forged # log[i]
    BY DEF Audit!Forged
  <1> DEFINE old == log[i]
  <1>4. /\ IsEvent(forged) /\ forged.type = type /\ forged.details = <<d>>
        /\ forged.hash = log[i].hash
        /\ (forged.type # log[i].type \/ forged.details # log[i].details)
    <2>1. /\ old = [number |-> old.number, at |-> old.at, type |-> old.type,
                    severity |-> old.severity, details |-> old.details,
                    previous |-> old.previous, hash |-> old.hash]
          /\ old.number \in Nat /\ old.at \in Nat
      BY <1>2 DEF IsEvent
    <2>2. forged = [old EXCEPT !.type = type, !.details = <<d>>] /\ forged # old
      BY <1>3
    <2> HIDE DEF old
    <2>3. forged = [number |-> old.number, at |-> old.at, type |-> type,
                    severity |-> old.severity, details |-> <<d>>,
                    previous |-> old.previous, hash |-> old.hash]
      BY <2>1, <2>2
    <2>4. /\ forged.number = old.number /\ forged.at = old.at /\ forged.type = type
          /\ forged.severity = old.severity /\ forged.details = <<d>>
          /\ forged.previous = old.previous /\ forged.hash = old.hash
      BY <2>3
    <2>5. IsEvent(forged)
      BY <2>1, <2>3, <2>4 DEF IsEvent
    <2>6. type # old.type \/ <<d>> # old.details
      BY <2>1, <2>2, <2>3
    <2> QED
      BY <2>4, <2>5, <2>6 DEF old
  <1>5. rehashed.hash = hash
    <2>1. "hash" \in DOMAIN forged
      BY <1>4 DEF IsEvent
    <2>2. rehashed = [forged EXCEPT !.hash = hash]
      BY DEF Audit!Rehashed
    <2> HIDE DEF hash
    <2> QED
      BY <2>1, <2>2
  <1>6. /\ relinked.previous = hash /\ relinked.hash = log[i + 1].hash
    <2> HIDE DEF hash
    <2> QED
      BY <1>2 DEF IsEvent
  <1>7. /\ log[i].hash = Audit!CalculateHash(log[i])
        /\ log[i + 1].hash = Audit!CalculateHash(log[i + 1])
        /\ log[i + 1].previous = log[i].hash
    BY <1>1, VerifiesMeans DEF Hashed, Linked
  <1>8. hash # log[i].hash
    BY <1>4, <1>7, HashTells
  <1>9. ~Audit!Verifies(log1)
    <2>1. DOMAIN log1 = DOMAIN log /\ log1[i] = forged
      BY <1>1
    <2> HIDE DEF log1
    <2> SUFFICES ASSUME Audit!Verifies(log1) PROVE FALSE
      BY DEF log1
    <2>2. forged.hash = Audit!CalculateHash(forged)
      BY <1>1, <2>1 DEF Audit!Verifies
    <2> QED
      BY <1>4, <1>8, <2>2
  <1>10. ~Audit!Verifies(log2)
    <2>1. DOMAIN log2 = DOMAIN log /\ log2[i] = rehashed /\ log2[i + 1] = log[i + 1]
      <3> HIDE DEF rehashed
      <3> QED
        BY <1>1
    <2> HIDE DEF log2, rehashed, hash
    <2> SUFFICES ASSUME Audit!Verifies(log2) PROVE FALSE
      BY DEF log2, rehashed, hash
    <2>2. log2[i + 1].previous = log2[i].hash
      BY <1>1, <2>1 DEF Audit!Verifies, Audit!LinkBefore
    <2> QED
      BY <1>5, <1>7, <1>8, <2>1, <2>2
  <1>11. ~Audit!Verifies(log3)
    <2>1. DOMAIN log3 = DOMAIN log /\ log3[i + 1] = relinked
      <3> HIDE DEF rehashed, hash
      <3> QED
        BY <1>1, <1>5
    <2> HIDE DEF log3, relinked, rehashed, hash
    <2> SUFFICES ASSUME Audit!Verifies(log3) PROVE FALSE
      BY DEF log3, rehashed, hash
    <2>2. relinked.hash = Audit!CalculateHash(relinked)
      BY <1>1, <2>1 DEF Audit!Verifies
    <2>3. relinked.previous = log[i + 1].previous
      BY <1>6, <1>7, <2>2, HashTells
    <2> QED
      BY <1>6, <1>7, <1>8, <2>3
  <1> QED
    BY <1>9, <1>10, <1>11

\* Nor with two of them in each other's place.
LEMMA ExchangeShows ==
    ASSUME NEW log, IsLog(log), Audit!Verifies(log), InOrder(log),
           NEW now, NEW next, Logged(log, now, next),
           NEW i \in DOMAIN log, NEW j \in DOMAIN log, i # j
    PROVE  ~Audit!Verifies(Audit!Exchanged(log, i, j))
  <1> DEFINE moved == [log[j] EXCEPT !.number = log[i].number]
             swapped == Audit!Exchanged(log, i, j)
  <1>1. /\ IsEvent(log[i]) /\ IsEvent(log[j]) /\ log[i].number # log[j].number
        /\ log[j].hash = Audit!CalculateHash(log[j])
    <2>1. IsEvent(log[i]) /\ IsEvent(log[j])
      BY DEF Logged
    <2>2. i \in Nat /\ j \in Nat
      BY LogTypes
    <2>3. i < j \/ j < i
      BY <2>2
    <2>4. log[i].number \in Nat /\ log[j].number \in Nat
      BY <2>1 DEF IsEvent
    <2>5. log[i].number < log[j].number \/ log[j].number < log[i].number
      BY <2>3 DEF InOrder
    <2>6. log[j].hash = Audit!CalculateHash(log[j])
      BY VerifiesMeans DEF Hashed
    <2> QED
      BY <2>1, <2>4, <2>5, <2>6
  <1>2. moved.number = log[i].number /\ moved.hash = log[j].hash
    <2> DEFINE e == log[j]
               n == log[i].number
    <2>1. e = [number |-> e.number, at |-> e.at, type |-> e.type, severity |-> e.severity,
               details |-> e.details, previous |-> e.previous, hash |-> e.hash]
      BY <1>1 DEF IsEvent
    <2>2. moved = [e EXCEPT !.number = n]
      OBVIOUS
    <2> HIDE DEF e, n, moved
    <2>3. moved.number = n /\ moved.hash = e.hash
      BY <2>1, <2>2
    <2> QED
      BY <2>3 DEF e, n
  <1>3. swapped[i] = moved /\ i \in DOMAIN swapped
    BY DEF Audit!Exchanged
  <1> HIDE DEF moved, swapped
  <1> SUFFICES ASSUME Audit!Verifies(swapped) PROVE FALSE
    BY DEF swapped
  <1>4. moved.hash = Audit!CalculateHash(moved)
    BY <1>3 DEF Audit!Verifies
  <1>5. Audit!CalculateHash(moved) = Audit!CalculateHash(log[j])
    BY <1>1, <1>2, <1>4
  <1>6. moved.number = log[j].number
    BY <1>5, HashTells
  <1> QED
    BY <1>1, <1>2, <1>6

\* An event is logged at the end of the chain.
LEMMA LogGrows ==
    ASSUME NEW log, IsLog(log), NEW now \in Nat, NEW next \in Nat, Logged(log, now, next),
           InOrder(log), Linked(log), NEW last, Ends(log, last),
           NEW e, IsEvent(e), e.at = now, e.number = next, e.previous = last
    PROVE  /\ IsLog(Append(log, e)) /\ Logged(Append(log, e), now, next + 1)
           /\ InOrder(Append(log, e)) /\ Linked(Append(log, e)) /\ Ends(Append(log, e), e.hash)
           /\ Begun(log) /\ (log = <<>> => last = Audit!Undefined) => Begun(Append(log, e))
           /\ Hashed(log) /\ e.hash = Audit!CalculateHash(e) => Hashed(Append(log, e))
  <1> DEFINE n == Len(log)
             grown == Append(log, e)
  <1>1. PICK S : log \in Seq(S)
    BY DEF IsLog
  <1>2. /\ n \in Nat /\ DOMAIN log = 1 .. n /\ grown \in Seq(S \cup {e})
        /\ Len(grown) = n + 1 /\ DOMAIN grown = 1 .. n + 1
        /\ \A i \in 1 .. n : grown[i] = log[i]
        /\ grown[n + 1] = e
    <2>1. log \in Seq(S \cup {e}) /\ e \in S \cup {e}
      BY <1>1
    <2> QED
      BY <1>1, <2>1
  <1>3. log = <<>> <=> n = 0
    BY <1>1
  <1> HIDE DEF grown, n
  <1>4. \A i \in DOMAIN grown : (i \in DOMAIN log /\ grown[i] = log[i]) \/ (i = n + 1 /\ grown[i] = e)
    BY <1>2
  <1>5. \A i \in DOMAIN log : log[i].at \in Nat /\ log[i].number \in Nat /\ log[i].at <= now
                              /\ log[i].number < next
    BY DEF Logged, IsEvent
  <1>6. IsLog(grown)
    BY <1>2 DEF IsLog
  <1>7. Logged(grown, now, next + 1)
    <2> SUFFICES ASSUME NEW i \in DOMAIN grown
                 PROVE  IsEvent(grown[i]) /\ grown[i].at <= now /\ grown[i].number < next + 1
      BY DEF Logged
    <2>1. CASE i \in DOMAIN log /\ grown[i] = log[i]
      BY <1>5, <2>1 DEF Logged
    <2>2. CASE i = n + 1 /\ grown[i] = e
      BY <2>2
    <2> QED
      BY <1>4, <2>1, <2>2
  <1>8. InOrder(grown)
    <2> SUFFICES ASSUME NEW i \in DOMAIN grown, NEW j \in DOMAIN grown, i < j
                 PROVE  grown[i].at <= grown[j].at /\ grown[i].number < grown[j].number
      BY DEF InOrder
    <2>1. i \in DOMAIN log /\ grown[i] = log[i]
      BY <1>2, <1>4
    <2>2. CASE j \in DOMAIN log /\ grown[j] = log[j]
      BY <2>1, <2>2 DEF InOrder
    <2>3. CASE j = n + 1 /\ grown[j] = e
      BY <1>5, <2>1, <2>3
    <2> QED
      BY <1>4, <2>2, <2>3
  <1>9. Linked(grown)
    <2> SUFFICES ASSUME NEW i \in 2 .. Len(grown) PROVE grown[i].previous = grown[i - 1].hash
      BY DEF Linked
    <2>1. i - 1 \in 1 .. n /\ grown[i - 1] = log[i - 1]
      BY <1>2
    <2>2. CASE i = n + 1
      <3>1. n > 0 /\ log # <<>> /\ i - 1 = n
        BY <1>2, <1>3, <2>1, <2>2
      <3>2. log[n].hash = last
        BY <3>1 DEF Ends, n
      <3> QED
        BY <1>2, <2>1, <2>2, <3>1, <3>2
    <2>3. CASE i # n + 1
      <3>1. i \in 2 .. n /\ i \in 1 .. n
        BY <1>2, <2>3
      <3> QED
        BY <1>2, <2>1, <3>1 DEF Linked, n
    <2> QED
      BY <2>2, <2>3
  <1>10. Ends(grown, e.hash)
    BY <1>2 DEF Ends
  <1>11. ASSUME Begun(log), log = <<>> => last = Audit!Undefined PROVE Begun(grown)
    <2>1. CASE n = 0
      BY <1>2, <1>3, <1>11, <2>1 DEF Begun
    <2>2. CASE n # 0
      <3>1. grown[1] = log[1] /\ log # <<>>
        BY <1>2, <1>3, <2>2
      <3> QED
        BY <1>11, <3>1 DEF Begun
    <2> QED
      BY <2>1, <2>2
  <1>12. ASSUME Hashed(log), e.hash = Audit!CalculateHash(e) PROVE Hashed(grown)
    BY <1>4, <1>12 DEF Hashed
  <1> QED
    BY <1>6, <1>7, <1>8, <1>9, <1>10, <1>11, <1>12 DEF grown

\* What is no older than the retention is the end of the chain.
LEMMA LogShrinks ==
    ASSUME NEW log, IsLog(log), NEW now \in Nat, NEW next \in Nat, Logged(log, now, next),
           InOrder(log), Linked(log), NEW last, Ends(log, last), NEW age \in Nat,
           NEW kept, kept = Picked(log, {i \in DOMAIN log : now - log[i].at <= age})
    PROVE  /\ IsLog(kept) /\ Logged(kept, now, next)
           /\ InOrder(kept) /\ Linked(kept) /\ Ends(kept, last)
           /\ Hashed(log) => Hashed(kept)
  <1> DEFINE I == {i \in DOMAIN log : now - log[i].at <= age}
             c == Cardinality(I)
  <1>1. PICK S : log \in Seq(S)
    BY DEF IsLog
  <1>2. I \in SUBSET DOMAIN log
    OBVIOUS
  <1>3. \A i \in I : \A j \in DOMAIN log : i < j => j \in I
    <2> SUFFICES ASSUME NEW i \in I, NEW j \in DOMAIN log, i < j
                 PROVE  now - log[j].at <= age
      OBVIOUS
    <2>1. log[i].at <= log[j].at /\ now - log[i].at <= age
      BY DEF InOrder
    <2>2. log[i].at \in Nat /\ log[j].at \in Nat
      BY DEF Logged, IsEvent
    <2> QED
      BY <2>1, <2>2
  <1> HIDE DEF I
  <1>4. /\ kept \in Seq(S) /\ Len(kept) = c /\ c \in Nat /\ DOMAIN kept = 1 .. c
        /\ \A n \in 1 .. c : Nth(I, n) \in I /\ kept[n] = log[Nth(I, n)]
    <2>1. kept = Picked(log, I)
      BY DEF I
    <2> DEFINE p == Picked(log, I)
    <2>2. p \in Seq(S) /\ Len(p) = c
      BY <1>1, <1>2, PickedFacts, Zenon
    <2>3. DOMAIN p = 1 .. c
      BY <1>1, <1>2, PickedFacts, Zenon
    <2>4. \A n \in 1 .. c : Nth(I, n) \in I /\ p[n] = log[Nth(I, n)]
      BY <1>1, <1>2, PickedFacts, Zenon
    <2>5. c \in Nat
      BY <2>2
    <2> HIDE DEF p
    <2> QED
      BY <2>1, <2>2, <2>3, <2>4, <2>5 DEF p
  <1>5. \A n, k \in 1 .. c : n < k => Nth(I, n) < Nth(I, k)
    BY <1>1, <1>2, PickedFacts, Zenon
  <1>6. /\ \A n \in 1 .. c : n + 1 \in 1 .. c => Nth(I, n + 1) = Nth(I, n) + 1
        /\ I # {} => c \in 1 .. Len(log) /\ Nth(I, c) = Len(log)
    BY <1>1, <1>2, <1>3, PickedEnd
  <1> HIDE DEF c
  <1>7. \A n \in DOMAIN kept : Nth(I, n) \in DOMAIN log /\ kept[n] = log[Nth(I, n)]
    BY <1>2, <1>4
  <1>8. IsLog(kept) /\ Logged(kept, now, next) /\ (Hashed(log) => Hashed(kept))
    BY <1>4, <1>7 DEF IsLog, Logged, Hashed
  <1>9. InOrder(kept)
    BY <1>4, <1>5, <1>7 DEF InOrder
  <1>10. Linked(kept)
    <2> SUFFICES ASSUME NEW n \in 2 .. Len(kept) PROVE kept[n].previous = kept[n - 1].hash
      BY DEF Linked
    <2> DEFINE m == n - 1
    <2>1. m \in 1 .. c /\ m + 1 \in 1 .. c /\ n = m + 1
      BY <1>4
    <2>2. Nth(I, n) = Nth(I, m) + 1
      BY <1>6, <2>1
    <2>3. Nth(I, n) \in DOMAIN log /\ Nth(I, m) \in DOMAIN log /\ DOMAIN log = 1 .. Len(log)
      BY <1>1, <1>4, <1>7, <2>1
    <2>4. Nth(I, n) \in 2 .. Len(log) /\ Nth(I, n) - 1 = Nth(I, m)
      BY <1>1, <2>2, <2>3
    <2> QED
      BY <1>4, <1>7, <2>1, <2>4 DEF Linked
  <1>11. Ends(kept, last)
    <2> SUFFICES ASSUME kept # <<>> PROVE kept[Len(kept)].hash = last
      BY DEF Ends
    <2>1. c \in 1 .. c /\ c > 0
      BY <1>4
    <2>2. Nth(I, c) \in I /\ kept[c] = log[Nth(I, c)]
      BY <1>4, <2>1
    <2>3. kept[c] = log[Len(log)]
      BY <1>6, <2>2
    <2>4. log # <<>>
      BY <1>1, <1>2, <2>2
    <2> QED
      BY <1>4, <2>3, <2>4 DEF Ends
  <1> QED
    BY <1>8, <1>9, <1>10, <1>11

AuditInv ==
    /\ IsLog(auditEvents) /\ auditNow \in Nat /\ sequenceNumber \in Nat
    /\ Logged(auditEvents, auditNow, sequenceNumber)
    /\ InOrder(auditEvents) /\ Linked(auditEvents) /\ Ends(auditEvents, lastHash)
    /\ ~purged => Begun(auditEvents) /\ (auditEvents = <<>> => lastHash = Audit!Undefined)
    /\ ~encrypting => Hashed(auditEvents)

LEMMA AuditInvIsSound ==
    ASSUME AuditInv
    PROVE  Audit!ChainBrokenOnlyByPurge /\ Audit!TamperingShows
  <1>1. Audit!ChainBrokenOnlyByPurge
    <2>1. ~encrypting /\ ~purged => Audit!Verifies(auditEvents)
      BY VerifiesMeans DEF AuditInv
    <2>2. Audit!Last(auditEvents) = auditEvents[Len(auditEvents)]
      BY AuditNames
    <2> QED
      BY <2>1, <2>2 DEF AuditInv, Linked, Ends, Audit!ChainBrokenOnlyByPurge
  <1>2. ASSUME Audit!Verifies(auditEvents), NEW i \in 1 .. Len(auditEvents) - 1
        PROVE  ~Audit!Verifies(Audit!RemoveAt(auditEvents, i))
    BY <1>2, RemovalShows DEF AuditInv
  <1>3. ASSUME Audit!Verifies(auditEvents), NEW i \in 1 .. Len(auditEvents) - 1,
               NEW type \in Types, NEW d \in Details,
               NEW forged, forged = Audit!Forged(auditEvents[i], type, d), forged # auditEvents[i]
        PROVE  LET rehashed == Audit!Rehashed(forged)
               IN  /\ ~Audit!Verifies([auditEvents EXCEPT ![i] = forged])
                   /\ ~Audit!Verifies([auditEvents EXCEPT ![i] = rehashed])
                   /\ ~Audit!Verifies([auditEvents EXCEPT ![i] = rehashed,
                                                  ![i + 1].previous = rehashed.hash])
    BY <1>3, ChangeShows, Zenon DEF AuditInv
  <1>4. ASSUME Audit!Verifies(auditEvents), NEW i \in DOMAIN auditEvents,
               NEW j \in DOMAIN auditEvents, i # j
        PROVE  ~Audit!Verifies(Audit!Exchanged(auditEvents, i, j))
    BY <1>4, ExchangeShows DEF AuditInv
  <1>5. Audit!TamperingShows
    BY <1>2, <1>3, <1>4, Zenon DEF Audit!TamperingShows
  <1> QED
    BY <1>1, <1>5

LEMMA InitAudit == Audit!Init => AuditInv
  <1> SUFFICES ASSUME Audit!Init PROVE AuditInv
    OBVIOUS
  <1>1. auditEvents = <<>> /\ lastHash = Audit!Undefined /\ sequenceNumber = 0 /\ auditNow = 1
    BY DEF Audit!Init
  <1>2. <<>> \in Seq({}) /\ Len(<<>>) = 0 /\ DOMAIN <<>> = {}
    OBVIOUS
  <1>3. IsLog(auditEvents)
    BY <1>1, <1>2 DEF IsLog
  <1> QED
    BY <1>1, <1>2, <1>3 DEF AuditInv, Logged, InOrder, Linked, Ends, Begun, Hashed

LEMMA LogAudit ==
    ASSUME AuditInv, NEW type \in Types, NEW severity \in AuditLevels, NEW details \in Details,
           Audit!LogEvent(type, severity, details)
    PROVE  AuditInv'
  <1> DEFINE draft == [number |-> sequenceNumber, at |-> auditNow, type |-> type,
                       severity |-> severity, details |-> <<details>>, previous |-> lastHash,
                       hash |-> Audit!Undefined]
             hash == Audit!CalculateHash(draft)
             event == [draft EXCEPT !.hash = hash,
                          !.details = IF encrypting THEN Audit!Encrypted(@) ELSE @]
  <1>1. /\ auditEvents' = Append(auditEvents, event) /\ lastHash' = hash
        /\ sequenceNumber' = sequenceNumber + 1 /\ UNCHANGED <<encrypting, purged, auditNow>>
    BY DEF Audit!LogEvent
  <1>2. /\ event.hash = hash /\ event.at = auditNow /\ event.number = sequenceNumber
        /\ event.previous = lastHash /\ IsEvent(event) /\ event.type = type
        /\ ~encrypting => event.details = <<details>>
    <2> DEFINE d == IF encrypting THEN Audit!Encrypted(draft.details) ELSE draft.details
    <2>1. event = [draft EXCEPT !.hash = hash, !.details = d]
      OBVIOUS
    <2>2. ~encrypting => d = <<details>>
      OBVIOUS
    <2>3. draft = [number |-> sequenceNumber, at |-> auditNow, type |-> type,
                   severity |-> severity, details |-> <<details>>, previous |-> lastHash,
                   hash |-> Audit!Undefined]
      OBVIOUS
    <2> HIDE DEF event, d, draft, hash
    <2>4. /\ event = [number |-> event.number, at |-> event.at, type |-> event.type,
                      severity |-> event.severity, details |-> event.details, previous |-> event.previous, hash |-> event.hash]
          /\ event.hash = hash /\ event.at = auditNow /\ event.number = sequenceNumber
          /\ event.previous = lastHash /\ event.type = type /\ event.details = d
      BY <2>1, <2>3
    <2> QED
      BY <2>2, <2>4 DEF IsEvent, AuditInv
  <1>3. ~encrypting => Audit!CalculateHash(event) = hash
    <2>1. /\ draft.number = sequenceNumber /\ draft.at = auditNow /\ draft.type = type
          /\ draft.details = <<details>> /\ draft.previous = lastHash
      OBVIOUS
    <2> HIDE DEF event, draft
    <2> QED
      BY <1>2, <2>1 DEF Audit!CalculateHash
  <1> HIDE DEF event, hash
  <1>4. /\ IsLog(auditEvents') /\ Logged(auditEvents', auditNow, sequenceNumber + 1)
        /\ InOrder(auditEvents') /\ Linked(auditEvents') /\ Ends(auditEvents', hash)
        /\ Begun(auditEvents) /\ (auditEvents = <<>> => lastHash = Audit!Undefined) =>
              Begun(auditEvents')
        /\ Hashed(auditEvents) /\ event.hash = Audit!CalculateHash(event) => Hashed(auditEvents')
    BY <1>1, <1>2, LogGrows DEF AuditInv
  <1>5. auditEvents' # <<>>
    BY <1>1, <1>4, LogTypes DEF AuditInv, IsLog
  <1> QED
    BY <1>1, <1>2, <1>3, <1>4, <1>5
       DEF AuditInv, Logged, InOrder, Linked, Ends, Begun, Hashed, IsLog

LEMMA RetainAudit ==
    ASSUME AuditInv, Audit!ApplyRetentionPolicy
    PROVE  AuditInv'
  <1>1. /\ auditEvents' = Picked(auditEvents,
                              {i \in DOMAIN auditEvents : auditNow - auditEvents[i].at <= RetentionDays})
        /\ purged' /\ UNCHANGED <<encrypting, lastHash, sequenceNumber, auditNow>>
    BY AuditNames DEF Audit!ApplyRetentionPolicy
  <1>2. /\ IsLog(auditEvents') /\ Logged(auditEvents', auditNow, sequenceNumber)
        /\ InOrder(auditEvents') /\ Linked(auditEvents') /\ Ends(auditEvents', lastHash)
        /\ Hashed(auditEvents) => Hashed(auditEvents')
    BY <1>1, LogShrinks, RecordsAssumption DEF AuditInv
  <1> QED
    BY <1>1, <1>2 DEF AuditInv, Logged, InOrder, Linked, Ends, Hashed, IsLog

LEMMA NextAudit ==
    ASSUME AuditInv, Audit!Next \/ UNCHANGED auditVars
    PROVE  AuditInv'
  <1>1. ASSUME NEW type \in Types, NEW severity \in AuditLevels, NEW details \in Details,
               Audit!LogEvent(type, severity, details)
        PROVE  AuditInv'
    BY <1>1, LogAudit
  <1>2. CASE Audit!ApplyRetentionPolicy
    BY <1>2, RetainAudit
  <1>3. CASE Audit!AuditTick \/ UNCHANGED auditVars
    <2>1. /\ UNCHANGED <<encrypting, auditEvents, lastHash, sequenceNumber, purged>>
          /\ auditNow' \in {auditNow, auditNow + 1}
      BY <1>3 DEF Audit!AuditTick, auditVars
    <2>2. auditNow' \in Nat /\ Logged(auditEvents, auditNow', sequenceNumber)
      BY <2>1 DEF AuditInv, Logged, IsEvent
    <2> QED
      BY <2>1, <2>2 DEF AuditInv, Logged, InOrder, Linked, Ends, Begun, Hashed, IsLog
  <1> QED
    BY <1>1, <1>2, <1>3 DEF Audit!Next

\* An event counts for the alert that it raises.
LEMMA TimelyAudit ==
    ASSUME AuditInv, Audit!Next \/ UNCHANGED auditVars, sequenceNumber' > sequenceNumber,
           NEW alert \in DOMAIN AlertLimits
    PROVE  LET recent == {i \in DOMAIN auditEvents :
                             Audit!Counted(alert, auditEvents[i]) /\ auditNow - auditEvents[i].at <= Hour}
               mine == IF Audit!Counted(alert, Audit!Last(auditEvents')) THEN 1 ELSE 0
           IN  alert \in alerts' <=> Audit!Cardinality(recent) + mine >= AlertLimits[alert]
  <1> DEFINE n == Len(auditEvents)
             log == auditEvents'
             recent == {i \in DOMAIN auditEvents :
                           Audit!Counted(alert, auditEvents[i]) /\ auditNow - auditEvents[i].at <= Hour}
             now == {i \in DOMAIN log : Audit!Counted(alert, log[i]) /\ auditNow - log[i].at <= Hour}
             mine == IF Audit!Counted(alert, log[Len(log)]) THEN 1 ELSE 0
  <1>1. PICK event : /\ auditEvents' = Append(auditEvents, event) /\ event.at = auditNow
                     /\ alerts' = Audit!Exceeded(auditEvents') /\ auditNow' = auditNow
    <2>1. ASSUME NEW type \in Types, NEW severity \in AuditLevels,
                 NEW details \in Details, Audit!LogEvent(type, severity, details)
          PROVE  \E e : /\ auditEvents' = Append(auditEvents, e) /\ e.at = auditNow
                        /\ alerts' = Audit!Exceeded(auditEvents') /\ auditNow' = auditNow
      <3> DEFINE draft == [number |-> sequenceNumber, at |-> auditNow, type |-> type,
                           severity |-> severity, details |-> <<details>>, previous |-> lastHash,
                           hash |-> Audit!Undefined]
                 hash == Audit!CalculateHash(draft)
                 e == [draft EXCEPT !.hash = hash,
                          !.details = IF encrypting THEN Audit!Encrypted(@) ELSE @]
      <3>1. /\ auditEvents' = Append(auditEvents, e)
            /\ alerts' = Audit!Exceeded(auditEvents') /\ auditNow' = auditNow
        BY <2>1 DEF Audit!LogEvent
      <3> HIDE DEF hash
      <3>2. e.at = auditNow
        OBVIOUS
      <3> QED
        BY <3>1, <3>2 DEF hash
    <2>2. \E type \in Types, severity \in AuditLevels, details \in Details :
             Audit!LogEvent(type, severity, details)
      BY DEF Audit!Next, Audit!ApplyRetentionPolicy, Audit!AuditTick, auditVars, AuditInv
    <2> QED
      BY <2>1, <2>2
  <1>2. PICK S : auditEvents \in Seq(S)
    BY DEF AuditInv, IsLog
  <1>3. /\ n \in Nat /\ DOMAIN auditEvents = 1 .. n /\ Len(log) = n + 1
        /\ DOMAIN log = 1 .. n + 1 /\ log[n + 1] = event
        /\ \A i \in 1 .. n : log[i] = auditEvents[i]
    <2>1. auditEvents \in Seq(S \cup {event}) /\ event \in S \cup {event}
      BY <1>2
    <2> QED
      BY <1>1, <1>2, <2>1
  <1>4. IsFiniteSet(recent) /\ Cardinality(recent) \in Nat /\ n + 1 \notin recent
    <2>1. recent \in SUBSET (1 .. n)
      BY <1>3
    <2>2. IsFiniteSet(1 .. n) /\ n + 1 \notin 1 .. n
      BY <1>3, UpTo
    <2> QED
      BY <2>1, <2>2, FS_Subset, FS_CardinalityType
  <1>5. now = recent \cup (IF Audit!Counted(alert, event) THEN {n + 1} ELSE {})
    <2>1. \A i \in 1 .. n + 1 : i \in 1 .. n \/ i = n + 1
      BY <1>3
    <2>2. auditNow - event.at <= Hour
      BY <1>1, RecordsAssumption DEF AuditInv
    <2> HIDE DEF n
    <2>3. \A i \in 1 .. n : i \in now <=> i \in recent
      BY <1>3
    <2>4. n + 1 \in now <=> Audit!Counted(alert, event)
      BY <1>3, <2>2
    <2>5. now \subseteq 1 .. n + 1 /\ recent \subseteq 1 .. n
      BY <1>3
    <2>6. n + 1 \in 1 .. n + 1 /\ 1 .. n \subseteq 1 .. n + 1
      BY <1>3
    <2> HIDE DEF now, recent, log
    <2> QED
      BY <2>1, <2>3, <2>4, <2>5, <2>6
  <1>6. Cardinality(now) = Cardinality(recent) + mine
    <2> HIDE DEF now, recent, n
    <2>1. CASE Audit!Counted(alert, event)
      <3>1. now = recent \cup {n + 1} /\ mine = 1
        BY <1>3, <1>5, <2>1
      <3>2. Cardinality(recent \cup {n + 1}) = Cardinality(recent) + 1
        BY <1>4, FS_AddElement
      <3> QED
        BY <3>1, <3>2
    <2>2. CASE ~Audit!Counted(alert, event)
      <3>1. now = recent /\ mine = 0
        BY <1>3, <1>5, <2>2
      <3> QED
        BY <1>4, <3>1
    <2> QED
      BY <2>1, <2>2
  <1>7. alert \in alerts' <=> Cardinality(now) >= AlertLimits[alert]
    <2>1. \A s : Audit!Cardinality(s) = Cardinality(s)
      BY AuditNames
    <2> QED
      BY <1>1, <2>1 DEF Audit!Exceeded
  <1>8. Audit!Cardinality(recent) = Cardinality(recent) /\ Audit!Last(log) = log[Len(log)]
    BY AuditNames
  <1> HIDE DEF now, recent, log
  <1> QED
    BY <1>6, <1>7, <1>8 DEF recent, log

-----------------------------------------------------------------------------
(* SOC2Compliance.  Samples and metrics come in the order of their times, so that  *)
(* what is shifted off the front is what is too old.                         *)

LEMMA SocNames ==
    /\ \A s, I : Soc!Picked(s, I) = Picked(s, I)
    /\ \A S : Soc!Cardinality(S) = Cardinality(S)
    /\ \A s : Soc!Last(s) = s[Len(s)]
  <1>1. \A S : Soc!Cardinality(S) = Cardinality(S)
    BY DEF Soc!Cardinality, Cardinality
  <1>2. \A I, i : Soc!Rank(I, i) = Rank(I, i)
    BY <1>1 DEF Soc!Rank, Rank
  <1>3. \A I, n : Soc!Nth(I, n) = Nth(I, n)
    BY <1>2 DEF Soc!Nth, Nth
  <1>4. \A s, I : Soc!Picked(s, I) = Picked(s, I)
    BY <1>1, <1>3 DEF Soc!Picked, Picked
  <1> QED
    BY <1>1, <1>4 DEF Soc!Last

LEMMA SocMin ==
    ASSUME NEW S \in SUBSET Nat, S # {}
    PROVE  Soc!Min(S) \in S /\ \A i \in S : Soc!Min(S) <= i
  <1>1. \E i \in S : \A j \in S : i <= j
    BY LeastExists
  <1> QED
    BY <1>1 DEF Soc!Min

Samples == [at : Nat, up : BOOLEAN]
Metrics == [name : MetricNames, value : Values, at : Nat]

LEMMA SampleAt == \A x \in Samples : x.at \in Nat
  BY DEF Samples

LEMMA MetricAt == \A x \in Metrics : x.at \in Nat
  BY DEF Metrics

\* What is younger than something in the window is in the window.
LEMMA InWindow ==
    ASSUME NEW a \in Nat, NEW b \in Nat, NEW c \in Nat, NEW w \in Nat, a <= b, c - a <= w
    PROVE  c - b <= w
  OBVIOUS

Timed(s) == \A i, j \in DOMAIN s : i < j => s[i].at <= s[j].at

\* Old samples are shifted off the front, and no others.
LEMMA RecentSamples ==
    ASSUME NEW all \in Seq(Samples), all # <<>>, Timed(all), socNow \in Nat,
           all[Len(all)].at = socNow
    PROVE  \E first \in 1 .. Len(all) :
              /\ Soc!Recent(all) = SubSeq(all, first, Len(all))
              /\ \A k \in 1 .. Len(all) : socNow - all[k].at <= SampleWindow <=> k >= first
  <1> DEFINE n == Len(all)
             I == {k \in DOMAIN all : socNow - all[k].at <= SampleWindow}
             first == Soc!Min(I)
  <1>1. n \in Nat /\ n > 0 /\ DOMAIN all = 1 .. n /\ \A k \in 1 .. n : all[k].at \in Nat
    <2>1. n \in Nat /\ n > 0 /\ DOMAIN all = 1 .. n /\ \A k \in 1 .. n : all[k] \in Samples
      OBVIOUS
    <2> QED
      BY <2>1, SampleAt
  <1>2. n \in I
    <2>1. n \in DOMAIN all /\ socNow - all[n].at = 0
      BY <1>1
    <2> QED
      BY <2>1, RecordsAssumption
  <1>3. I \in SUBSET Nat
    BY <1>1
  <1>4. first \in I /\ \A i \in I : first <= i
    <2> HIDE DEF I
    <2> QED
      BY <1>2, <1>3, SocMin
  <1>5. Soc!Recent(all) = SubSeq(all, first, n)
    BY DEF Soc!Recent
  <1>6. \A k \in 1 .. n : k \in I <=> socNow - all[k].at <= SampleWindow
    BY <1>1
  <1>7. first \in 1 .. n /\ first \in Nat
    BY <1>1, <1>4
  <1> HIDE DEF I, first, n
  <1>8. ASSUME NEW k \in 1 .. n, k >= first PROVE k \in I
    <2>1. first \in DOMAIN all /\ k \in DOMAIN all /\ (k = first \/ first < k)
      BY <1>1, <1>7, <1>8
    <2> DEFINE a == all[first].at
               b == all[k].at
    <2>2. a \in Nat /\ b \in Nat /\ socNow - a <= SampleWindow /\ SampleWindow \in Nat
      BY <1>1, <1>4, <1>6, <1>7, RecordsAssumption
    <2>3. k = first => b = a
      OBVIOUS
    <2>4. first < k => a <= b
      BY <2>1 DEF Timed
    <2> HIDE DEF a, b
    <2>5. a <= b
      BY <2>1, <2>2, <2>3, <2>4
    <2>6. socNow - b <= SampleWindow
      BY <2>2, <2>5, InWindow
    <2> QED
      BY <1>6, <2>6 DEF b
  <1>9. \A k \in 1 .. n : socNow - all[k].at <= SampleWindow <=> k >= first
    BY <1>4, <1>6, <1>8
  <1> QED
    BY <1>5, <1>7, <1>9 DEF n

\* The samples after the first g are kept, and they are those in the window of the last.
KeptFrom(g) ==
    /\ samples = SubSeq(sampled, g + 1, Len(sampled))
    /\ \A k \in 1 .. Len(sampled) :
          sampled[Len(sampled)].at - sampled[k].at <= SampleWindow <=> k > g

SamplesKept ==
    /\ sampled \in Seq(Samples) /\ Timed(sampled)
    /\ \A k \in 1 .. Len(sampled) : sampled[k].at <= socNow
    /\ \E g \in 0 .. Len(sampled) : KeptFrom(g)

LEMMA KeptSamples ==
    ASSUME sampled \in Seq(Samples), NEW g \in 0 .. Len(sampled), KeptFrom(g)
    PROVE  /\ samples \in Seq(Samples) /\ Len(samples) = Len(sampled) - g
           /\ \A j \in 1 .. Len(samples) : samples[j] = sampled[g + j]
  <1> DEFINE n == Len(sampled)
  <1>1. n \in Nat /\ g \in Int /\ \A i \in g + 1 .. n : sampled[i] \in Samples
    OBVIOUS
  <1>2. samples = SubSeq(sampled, g + 1, n)
    BY DEF KeptFrom
  <1> HIDE DEF n
  <1>3. /\ samples \in Seq(Samples)
        /\ Len(samples) = IF g + 1 <= n THEN n - (g + 1) + 1 ELSE 0
        /\ \A j \in 1 .. n - (g + 1) + 1 : samples[j] = sampled[g + 1 + j - 1]
    BY <1>1, <1>2, SubSeqProperties
  <1>4. g <= n
    BY DEF n
  <1>5. Len(samples) = n - g
    BY <1>1, <1>3, <1>4
  <1>6. \A j \in 1 .. n - g : samples[j] = sampled[g + j]
    BY <1>1, <1>3
  <1> QED
    BY <1>3, <1>5, <1>6 DEF n

MetricsKept ==
    /\ metrics \in Seq(Metrics)
    /\ \A i \in DOMAIN metrics : metrics[i].at <= socNow
    /\ \A i, j \in DOMAIN metrics : i < j => metrics[i].at <= metrics[j].at

SocInv ==
    /\ control \in [Controls -> Soc!Statuses] /\ socNow \in Nat
    /\ SamplesKept /\ MetricsKept

\* Nothing within the window of the last sample is missing.
LEMMA SamplesKeptIsComplete ==
    ASSUME SocInv
    PROVE  Soc!SamplesComplete
  <1>1. sampled \in Seq(Samples)
    BY DEF SocInv, SamplesKept
  <1>2. PICK g \in 0 .. Len(sampled) : KeptFrom(g)
    BY DEF SocInv, SamplesKept
  <1>3. Len(samples) = Len(sampled) - g
    BY <1>1, <1>2, KeptSamples
  <1>4. Len(sampled) \in Nat /\ DOMAIN sampled = 1 .. Len(sampled) /\ g \in Nat /\ g <= Len(sampled)
    BY <1>1
  <1>5. Len(sampled) - Len(samples) = g
    BY <1>3, <1>4
  <1>6. Soc!Last(sampled) = sampled[Len(sampled)]
    BY SocNames
  <1> DEFINE gone == Len(sampled) - Len(samples)
  <1>7. gone = g /\ gone >= 0
    <2>1. gone = g
      BY <1>5
    <2> HIDE DEF gone
    <2> QED
      BY <1>4, <2>1
  <1> HIDE DEF gone
  <1>8. samples = SubSeq(sampled, gone + 1, Len(sampled))
    BY <1>2, <1>7 DEF KeptFrom
  <1>9. \A k \in DOMAIN sampled : Soc!Last(sampled).at - sampled[k].at <= SampleWindow <=> k > gone
    BY <1>2, <1>4, <1>6, <1>7 DEF KeptFrom
  <1> QED
    BY <1>7, <1>8, <1>9 DEF Soc!SamplesComplete, gone

LEMMA LatestIsLatest ==
    ASSUME SocInv
    PROVE  Soc!LatestNoOlder
  <1> SUFFICES ASSUME NEW k \in DOMAIN metrics
               PROVE  Soc!LatestMetric(metrics[k].name).at >= metrics[k].at
    BY DEF Soc!LatestNoOlder
  <1> DEFINE I == {i \in DOMAIN metrics : metrics[i].name = metrics[k].name}
             c == Cardinality(I)
             ofName == Picked(metrics, I)
             J == {n \in DOMAIN ofName : ofName[n].at = ofName[Len(ofName)].at}
  <1>1. /\ metrics \in Seq(Metrics) /\ DOMAIN metrics = 1 .. Len(metrics) /\ Len(metrics) \in Nat
        /\ \A i \in DOMAIN metrics : metrics[i].at \in Nat /\ i \in Nat
        /\ \A i, j \in DOMAIN metrics : i < j => metrics[i].at <= metrics[j].at
    <2>1. /\ metrics \in Seq(Metrics)
          /\ \A i, j \in DOMAIN metrics : i < j => metrics[i].at <= metrics[j].at
      BY DEF SocInv, MetricsKept
    <2>2. /\ DOMAIN metrics = 1 .. Len(metrics) /\ Len(metrics) \in Nat
          /\ \A i \in DOMAIN metrics : metrics[i] \in Metrics /\ i \in Nat
      BY <2>1
    <2> QED
      BY <2>1, <2>2, MetricAt
  <1>2. I \in SUBSET DOMAIN metrics /\ k \in I
    OBVIOUS
  <1> HIDE DEF I
  <1>3. ofName \in Seq(Metrics) /\ Len(ofName) = c /\ DOMAIN ofName = 1 .. c
    BY <1>1, <1>2, PickedFacts, Zenon
  <1>4. \A n \in 1 .. c : Nth(I, n) \in I /\ ofName[n] = metrics[Nth(I, n)]
    BY <1>1, <1>2, PickedFacts, Zenon
  <1>5. \A n, m \in 1 .. c : n < m => Nth(I, n) < Nth(I, m)
    BY <1>1, <1>2, PickedFacts, Zenon
  <1>6. Rank(I, k) \in 1 .. c /\ Nth(I, Rank(I, k)) = k
    <2>1. I \in SUBSET (1 .. Len(metrics))
      BY <1>1, <1>2
    <2> QED
      BY <1>1, <1>2, <2>1, NthOnto
  <1>7. c \in Nat
    BY <1>3
  <1> HIDE DEF c, ofName
  <1>8. c \in 1 .. c /\ Rank(I, k) \in Nat /\ (Rank(I, k) = c \/ Rank(I, k) < c)
    BY <1>6, <1>7
  <1>9. Nth(I, c) \in I /\ ofName[c] = metrics[Nth(I, c)] /\ (Nth(I, c) = k \/ k < Nth(I, c))
    BY <1>4, <1>5, <1>6, <1>8
  <1>10. ofName[c].at >= metrics[k].at
    <2>1. Nth(I, c) \in DOMAIN metrics
      BY <1>2, <1>9
    <2>2. metrics[k].at <= metrics[Nth(I, c)].at
      BY <1>1, <1>9, <2>1
    <2> QED
      BY <1>1, <1>9, <2>1, <2>2
  <1>11. J \in SUBSET Nat /\ J # {}
    <2>1. c \in J
      BY <1>3, <1>8
    <2> QED
      BY <1>3, <1>7, <2>1
  <1>12. Soc!Min(J) \in J
    <2> HIDE DEF J
    <2> QED
      BY <1>11, SocMin
  <1>13. Soc!LatestMetric(metrics[k].name) = ofName[Soc!Min(J)]
    BY SocNames DEF Soc!LatestMetric, ofName, I
  <1>14. ofName[Soc!Min(J)].at = ofName[c].at
    BY <1>3, <1>12
  <1> QED
    BY <1>10, <1>13, <1>14

LEMMA DivSelf ==
    ASSUME NEW i \in Nat, i > 0
    PROVE  ((2 * i + 0) * 50) \div i = 100
  OBVIOUS

LEMMA DivHalf ==
    ASSUME NEW p \in Nat, NEW a \in Nat, a > 0, p <= a
    PROVE  ((2 * 0 + p) * 50) \div a \in 0 .. 50
  OBVIOUS

InStatus(status) == {c \in Controls : control[c] = status}

LEMMA Counts ==
    /\ \A status : Soc!Count(status) = Cardinality(InStatus(status))
    /\ Soc!Cardinality(Controls) = Cardinality(Controls)
    /\ \A status : Cardinality(InStatus(status)) \in Nat /\ IsFiniteSet(InStatus(status))
    /\ Cardinality(Controls) \in Nat /\ IsFiniteSet(Controls)
  <1>1. \A status : InStatus(status) \subseteq Controls
    BY DEF InStatus
  <1>2. IsFiniteSet(Controls)
    BY RecordsAssumption
  <1>3. \A status : IsFiniteSet(InStatus(status))
    BY <1>1, <1>2, FS_Subset
  <1>4. \A status : Soc!Count(status) = Cardinality(InStatus(status))
    BY SocNames DEF Soc!Count, InStatus
  <1> QED
    BY <1>2, <1>3, <1>4, FS_CardinalityType, SocNames

\* Without a finding about a control the rate is 100, with one and no implemented
\* control at most 50.
LEMMA StatusFollows ==
    ASSUME SocInv
    PROVE  Soc!StatusFollowsFindings
  <1> DEFINE open == {c \in Controls : control[c] \in {"not_implemented", "partial"}}
             controls == {c \in Controls :
                            \E f \in Soc!Findings : "control" \in DOMAIN f /\ f.control = c}
             C == Cardinality(Controls)
             I == Cardinality(InStatus("implemented"))
             P == Cardinality(InStatus("partial"))
             N == Cardinality(InStatus("not_applicable"))
  <1>1. control \in [Controls -> Soc!Statuses]
    BY DEF SocInv
  <1>2. controls = open
    <2> DEFINE about == {[control |-> c, status |-> IF control[c] = "partial" THEN "in_progress" ELSE "open"] :
                            c \in {d \in Controls : control[d] \in {"not_implemented", "partial"}}}
               others == {[incident |-> i, status |-> IF i \in Soc!OpenIncidents THEN "open" ELSE "resolved"] :
                            i \in {j \in DOMAIN incidents : incidents[j].severity \in {"high", "critical"}}}
    <2>1. Soc!Findings = about \cup others
      BY DEF Soc!Findings
    <2>2. \A f \in others : "control" \notin DOMAIN f
      OBVIOUS
    <2>3. \A f \in about : f.control \in open
      OBVIOUS
    <2>4. ASSUME NEW c \in open
          PROVE  \E f \in about : "control" \in DOMAIN f /\ f.control = c
      <3> DEFINE f == [control |-> c, status |-> IF control[c] = "partial" THEN "in_progress" ELSE "open"]
      <3>1. f \in about
        OBVIOUS
      <3>2. "control" \in DOMAIN f /\ f.control = c
        OBVIOUS
      <3> HIDE DEF f, about
      <3> QED
        BY <3>1, <3>2
    <2>5. open \subseteq Controls
      OBVIOUS
    <2> HIDE DEF about, others, open
    <2> QED
      BY <2>1, <2>2, <2>3, <2>4, <2>5
  <1>3. C \in Nat /\ I \in Nat /\ P \in Nat /\ N \in Nat
    BY Counts
  <1>4. /\ Soc!Count("implemented") = I /\ Soc!Count("partial") = P
        /\ Soc!Count("not_applicable") = N /\ Soc!Cardinality(Controls) = C
    BY Counts
  <1>5. Soc!ComplianceRate = IF C - N = 0 THEN 100 ELSE ((2 * I + P) * 50) \div (C - N)
    BY <1>4, Zenon DEF Soc!ComplianceRate
  <1>6. ASSUME controls = {} PROVE C = I + N /\ P = 0
    <2>1. open = {}
      BY <1>2, <1>6
    <2>2. InStatus("partial") = {}
      BY <2>1 DEF InStatus
    <2>3. Controls = InStatus("implemented") \cup InStatus("not_applicable")
      BY <1>1, <2>1 DEF InStatus, Soc!Statuses
    <2>4. InStatus("implemented") \cap InStatus("not_applicable") = {}
      BY DEF InStatus
    <2>5. C = I + N - Cardinality(InStatus("implemented") \cap InStatus("not_applicable"))
      BY <2>3, Counts, FS_Union
    <2> QED
      BY <1>3, <2>2, <2>4, <2>5, FS_EmptySet
  <1>7. ASSUME controls # {} PROVE C - N \in Nat /\ C - N > 0 /\ P <= C - N
    <2> DEFINE rest == Controls \ InStatus("not_applicable")
    <2>1. IsFiniteSet(rest) /\ Cardinality(rest) = C - Cardinality(Controls \cap InStatus("not_applicable"))
      BY Counts, FS_Difference
    <2>2. Controls \cap InStatus("not_applicable") = InStatus("not_applicable")
      BY DEF InStatus
    <2>3. Cardinality(rest) = C - N /\ Cardinality(rest) \in Nat
      BY <2>1, <2>2, FS_CardinalityType
    <2>4. open \subseteq rest /\ open # {}
      BY <1>2, <1>7 DEF InStatus
    <2>5. rest # {}
      BY <2>4
    <2>6. InStatus("partial") \subseteq rest
      BY DEF InStatus
    <2>7. P <= Cardinality(rest)
      BY <2>1, <2>6, FS_Subset
    <2>8. Cardinality(rest) # 0
      BY <2>1, <2>5, FS_EmptySet
    <2> HIDE DEF rest
    <2> QED
      BY <2>3, <2>7, <2>8
  <1> HIDE DEF C, I, P, N, controls, open
  <1>8. ASSUME controls = {} PROVE Soc!OverallStatus = "compliant"
    <2>1. C - N = I /\ P = 0
      BY <1>3, <1>6, <1>8
    <2>2. Soc!ComplianceRate = 100
      <3>1. CASE I = 0
        BY <1>5, <2>1, <3>1
      <3>2. CASE I # 0
        <4>1. I > 0
          BY <1>3, <3>2
        <4>2. ((2 * I + 0) * 50) \div I = 100
          BY <1>3, <4>1, DivSelf
        <4> QED
          BY <1>5, <2>1, <3>2, <4>2
      <3> QED
        BY <3>1, <3>2
    <2> QED
      BY <2>2 DEF Soc!OverallStatus
  <1>9. ASSUME controls # {}, I = 0 PROVE Soc!OverallStatus = "non_compliant"
    <2>1. C - N \in Nat /\ C - N > 0 /\ P <= C - N
      BY <1>7, <1>9
    <2> DEFINE a == C - N
    <2>2. a \in Nat /\ a > 0 /\ P <= a
      BY <2>1
    <2>3. Soc!ComplianceRate = IF a = 0 THEN 100 ELSE ((2 * I + P) * 50) \div a
      BY <1>5
    <2> HIDE DEF a
    <2>4. ((2 * 0 + P) * 50) \div a \in 0 .. 50
      BY <1>3, <2>2, DivHalf
    <2>5. Soc!ComplianceRate \in 0 .. 50
      BY <1>9, <2>2, <2>3, <2>4
    <2> HIDE DEF Soc!ComplianceRate
    <2>6. Soc!ComplianceRate < 80 /\ ~(Soc!ComplianceRate \in 80 .. 94)
      BY <2>5
    <2> QED
      BY <2>6 DEF Soc!OverallStatus
  <1> QED
    BY <1>4, <1>8, <1>9 DEF Soc!StatusFollowsFindings, controls

LEMMA InitSoc ==
    ASSUME Soc!Init
    PROVE  SocInv
  <1>1. control \in [Controls -> Soc!Statuses] /\ socNow \in Nat
    BY DEF Soc!Init, Soc!Statuses
  <1>2. samples = <<>> /\ sampled = <<>> /\ sampled \in Seq(Samples) /\ Len(sampled) = 0
    BY DEF Soc!Init
  <1>3. SamplesKept
    <2>1. 0 \in 0 .. Len(sampled) /\ 1 .. Len(sampled) = {} /\ DOMAIN sampled = {}
      BY <1>2
    <2>2. SubSeq(sampled, 0 + 1, Len(sampled)) = <<>>
      BY <1>2, SubSeqEmpty
    <2>3. KeptFrom(0)
      BY <1>2, <2>1, <2>2 DEF KeptFrom
    <2> QED
      BY <1>2, <2>1, <2>3 DEF SamplesKept, Timed
  <1>4. metrics \in Seq(Metrics) /\ metrics = <<>>
    BY DEF Soc!Init
  <1>5. MetricsKept
    BY <1>4 DEF MetricsKept
  <1> QED
    BY <1>1, <1>3, <1>5 DEF SocInv

LEMMA MetricsStay ==
    ASSUME MetricsKept, UNCHANGED metrics, socNow \in Nat, socNow' \in Nat, socNow <= socNow'
    PROVE  MetricsKept'
  <1>1. \A i \in DOMAIN metrics : metrics[i].at \in Nat
    <2>1. \A i \in DOMAIN metrics : metrics[i] \in Metrics
      BY DEF MetricsKept
    <2> QED
      BY <2>1, MetricAt
  <1>2. \A i \in DOMAIN metrics : metrics[i].at <= socNow'
    BY <1>1 DEF MetricsKept
  <1> QED
    BY <1>2 DEF MetricsKept, Metrics

LEMMA SamplesStay ==
    ASSUME SamplesKept, UNCHANGED <<samples, sampled>>,
           socNow \in Nat, socNow' \in Nat, socNow <= socNow'
    PROVE  SamplesKept'
  <1>1. \A k \in 1 .. Len(sampled) : sampled[k].at \in Nat
    <2>1. \A k \in 1 .. Len(sampled) : sampled[k] \in Samples
      BY DEF SamplesKept
    <2> QED
      BY <2>1, SampleAt
  <1>2. \A k \in 1 .. Len(sampled) : sampled[k].at <= socNow'
    BY <1>1 DEF SamplesKept
  <1>3. \A g : KeptFrom(g)' <=> KeptFrom(g)
    BY DEF KeptFrom
  <1> QED
    BY <1>2, <1>3 DEF SamplesKept, Samples, Timed

\* A metric is appended at the present time.
LEMMA RecordMetricKeeps ==
    ASSUME SocInv, NEW name \in MetricNames, NEW value \in Values, Soc!RecordMetric(name, value)
    PROVE  SocInv'
  <1> DEFINE new == [name |-> name, value |-> value, at |-> socNow]
             n == Len(metrics)
  <1>1. metrics' = Append(metrics, new) /\ UNCHANGED <<control, samples, sampled, socNow>>
    BY DEF Soc!RecordMetric
  <1>2. socNow \in Nat /\ metrics \in Seq(Metrics) /\ n \in Nat
    BY DEF SocInv, MetricsKept
  <1>3. new \in Metrics /\ new.at = socNow
    BY <1>2 DEF Metrics
  <1> HIDE DEF new
  <1>4. /\ metrics' \in Seq(Metrics) /\ DOMAIN metrics' = 1 .. n + 1
        /\ \A i \in 1 .. n : metrics'[i] = metrics[i]
        /\ metrics'[n + 1] = new /\ DOMAIN metrics = 1 .. n
    BY <1>1, <1>2, <1>3
  <1> HIDE DEF n
  <1>5. \A i \in 1 .. n + 1 : i \in 1 .. n \/ i = n + 1
    BY <1>2
  <1>6. \A i \in DOMAIN metrics : metrics[i].at <= socNow
    BY DEF SocInv, MetricsKept
  <1>7. \A i \in DOMAIN metrics' : metrics'[i].at <= socNow
    <2>1. socNow <= socNow
      BY <1>2
    <2> QED
      BY <1>3, <1>4, <1>5, <1>6, <2>1
  <1>8. ASSUME NEW i \in DOMAIN metrics', NEW j \in DOMAIN metrics', i < j
        PROVE  metrics'[i].at <= metrics'[j].at
    <2>1. i \in 1 .. n
      BY <1>2, <1>4, <1>8
    <2>2. CASE j \in 1 .. n
      BY <1>4, <1>8, <2>1, <2>2 DEF SocInv, MetricsKept
    <2>3. CASE j = n + 1
      BY <1>3, <1>4, <1>6, <2>1, <2>3
    <2> QED
      BY <1>4, <1>5, <2>2, <2>3
  <1>9. MetricsKept'
    <2>1. Metrics' = Metrics
      BY DEF Metrics
    <2> QED
      BY <1>1, <1>4, <1>7, <1>8, <2>1 DEF MetricsKept
  <1>10. SamplesKept'
    <2>1. socNow' \in Nat /\ socNow <= socNow'
      BY <1>1, <1>2
    <2> QED
      BY <1>1, <1>2, <2>1, SamplesStay DEF SocInv
  <1> QED
    BY <1>1, <1>9, <1>10 DEF SocInv, Soc!Statuses

\* The new sample is the newest; those no older than the window remain.
\* One more sample: of those that are kept with it the oldest go.
LEMMA RecordAvailabilityKeeps ==
    ASSUME SocInv, NEW up \in BOOLEAN, Soc!RecordAvailability(up)
    PROVE  SocInv'
  <1> DEFINE new == [at |-> socNow, up |-> up]
             n == Len(sampled)
             m == Len(samples)
             all == Append(samples, new)
             more == Append(sampled, new)
  <1>1. /\ samples' = Soc!Recent(all) /\ sampled' = more
        /\ UNCHANGED <<control, metrics, socNow>>
    BY DEF Soc!RecordAvailability
  <1>2. /\ socNow \in Nat /\ sampled \in Seq(Samples) /\ n \in Nat /\ Timed(sampled)
        /\ \A k \in 1 .. n : sampled[k].at <= socNow
    BY DEF SocInv, SamplesKept
  <1>3. PICK g \in 0 .. n : KeptFrom(g)
    BY DEF SocInv, SamplesKept
  <1>4. /\ samples \in Seq(Samples) /\ m = n - g /\ m \in Nat
        /\ \A j \in 1 .. m : samples[j] = sampled[g + j]
    BY <1>2, <1>3, KeptSamples
  <1>5. new \in Samples /\ new.at = socNow
    BY <1>2 DEF Samples
  <1> HIDE DEF new
  <1>6. /\ more \in Seq(Samples) /\ Len(more) = n + 1 /\ DOMAIN more = 1 .. n + 1
        /\ \A i \in 1 .. n : more[i] = sampled[i]
        /\ more[n + 1] = new /\ DOMAIN sampled = 1 .. n
    BY <1>2, <1>5
  <1>7. /\ all \in Seq(Samples) /\ Len(all) = m + 1 /\ DOMAIN all = 1 .. m + 1
        /\ \A i \in 1 .. m : all[i] = samples[i]
        /\ all[m + 1] = new
    BY <1>4, <1>5
  <1> HIDE DEF all, more, n, m
  <1>8. \A i \in 1 .. n + 1 : i \in 1 .. n \/ i = n + 1
    BY <1>2
  <1>9. g \in Nat /\ g <= n
    BY <1>2, <1>3
  <1>10. ASSUME NEW j \in 1 .. m + 1 PROVE g + j \in 1 .. n + 1 /\ all[j] = more[g + j]
    <2>1. g + j \in 1 .. n + 1
      <3>1. j \in Nat /\ 1 <= j /\ j <= m + 1 /\ m = n - g /\ n \in Nat /\ g \in Nat /\ g <= n
        BY <1>2, <1>4, <1>9
      <3> QED
        BY ONLY <3>1
    <2>2. CASE j = m + 1
      <3>1. g + j = n + 1
        BY <1>2, <1>4, <1>9, <2>2
      <3> QED
        BY <1>6, <1>7, <2>1, <2>2, <3>1
    <2>3. CASE j # m + 1
      <3>1. j \in 1 .. m /\ g + j \in 1 .. n
        BY <1>2, <1>4, <1>9, <2>3
      <3> QED
        BY <1>4, <1>6, <1>7, <2>1, <3>1
    <2> QED
      BY <2>2, <2>3
  <1>11. /\ Timed(more) /\ \A k \in 1 .. n + 1 : more[k].at <= socNow
    <2>1. \A k \in 1 .. n + 1 : more[k].at <= socNow
      <3>1. socNow <= socNow
        BY <1>2
      <3> QED
        BY <1>2, <1>5, <1>6, <1>8, <3>1
    <2>2. ASSUME NEW i \in DOMAIN more, NEW j \in DOMAIN more, i < j
          PROVE  more[i].at <= more[j].at
      <3>1. i \in 1 .. n
        BY <1>2, <1>6, <2>2
      <3>2. CASE j \in 1 .. n
        BY <1>2, <1>6, <2>2, <3>1, <3>2 DEF Timed
      <3>3. CASE j = n + 1
        BY <1>5, <1>6, <2>1, <3>1, <3>3
      <3> QED
        BY <1>6, <1>8, <3>2, <3>3
    <2> QED
      BY <2>1, <2>2 DEF Timed
  <1>12. Timed(all)
    <2> SUFFICES ASSUME NEW i \in DOMAIN all, NEW j \in DOMAIN all, i < j
                 PROVE  all[i].at <= all[j].at
      BY DEF Timed
    <2>1. i \in 1 .. m + 1 /\ j \in 1 .. m + 1 /\ g + i < g + j
      BY <1>4, <1>7, <1>9
    <2>2. /\ all[i] = more[g + i] /\ all[j] = more[g + j]
          /\ g + i \in DOMAIN more /\ g + j \in DOMAIN more
      BY <1>6, <1>10, <2>1
    <2> QED
      BY <1>11, <2>1, <2>2 DEF Timed
  <1>13. all # <<>> /\ all[Len(all)].at = socNow
    <2>1. Len(all) # 0
      BY <1>4, <1>7
    <2> QED
      BY <1>5, <1>7, <2>1
  <1>14. PICK first \in 1 .. m + 1 :
            /\ Soc!Recent(all) = SubSeq(all, first, m + 1)
            /\ \A k \in 1 .. m + 1 : socNow - all[k].at <= SampleWindow <=> k >= first
    BY <1>2, <1>7, <1>12, <1>13, RecentSamples
  <1> DEFINE G == g + first - 1
  <1>15. G \in Nat /\ G \in 0 .. n + 1 /\ G + 1 = g + first /\ g <= G
    BY <1>2, <1>4, <1>9
  <1> HIDE DEF G
  <1>16. SubSeq(all, first, m + 1) = SubSeq(more, G + 1, n + 1)
    <2> DEFINE u == SubSeq(all, first, m + 1)
               v == SubSeq(more, G + 1, n + 1)
               l == m + 1 - first + 1
    <2>1. /\ first \in Int /\ m + 1 \in Int /\ first <= m + 1
          /\ \A i \in first .. m + 1 : all[i] \in Samples
      BY <1>4, <1>7
    <2>2. u \in Seq(Samples) /\ Len(u) = l /\ \A i \in 1 .. l : u[i] = all[first + i - 1]
      <3>1. PICK a \in Int, b \in Int : a = first /\ b = m + 1
        BY <2>1
      <3>2. \A i \in a .. b : all[i] \in Samples
        BY <2>1, <3>1
      <3>3. /\ SubSeq(all, a, b) \in Seq(Samples)
            /\ Len(SubSeq(all, a, b)) = IF a <= b THEN b - a + 1 ELSE 0
            /\ \A i \in 1 .. b - a + 1 : SubSeq(all, a, b)[i] = all[a + i - 1]
        BY <3>2, SubSeqProperties
      <3>4. u = SubSeq(all, a, b) /\ l = b - a + 1 /\ a <= b
        <4>1. u = SubSeq(all, a, b)
          BY <3>1, Zenon
        <4>2. l = b - a + 1
          BY <1>4, <2>1, <3>1
        <4>3. a <= b
          BY <2>1, <3>1
        <4> HIDE DEF u, l
        <4> QED
          BY <4>1, <4>2, <4>3
      <3> HIDE DEF u, l
      <3> QED
        BY ONLY <3>1, <3>3, <3>4
    <2>3. /\ G + 1 \in Int /\ n + 1 \in Int /\ G + 1 <= n + 1
          /\ \A i \in G + 1 .. n + 1 : more[i] \in Samples
      BY <1>2, <1>4, <1>6, <1>9, <1>15
    <2>4. /\ v \in Seq(Samples) /\ Len(v) = n + 1 - (G + 1) + 1
          /\ \A i \in 1 .. n + 1 - (G + 1) + 1 : v[i] = more[G + 1 + i - 1]
      <3>1. PICK a \in Int, b \in Int : a = G + 1 /\ b = n + 1
        BY <2>3
      <3>2. \A i \in a .. b : more[i] \in Samples
        BY <2>3, <3>1
      <3>3. /\ SubSeq(more, a, b) \in Seq(Samples)
            /\ Len(SubSeq(more, a, b)) = IF a <= b THEN b - a + 1 ELSE 0
            /\ \A i \in 1 .. b - a + 1 : SubSeq(more, a, b)[i] = more[a + i - 1]
        BY <3>2, SubSeqProperties
      <3> DEFINE L == n + 1 - (G + 1) + 1
      <3>4. v = SubSeq(more, a, b) /\ L = b - a + 1 /\ a <= b
        <4>1. v = SubSeq(more, a, b)
          BY <3>1, Zenon
        <4>2. L = b - a + 1
          BY <1>2, <1>15, <3>1
        <4>3. a <= b
          BY <2>3, <3>1
        <4> HIDE DEF v, L
        <4> QED
          BY <4>1, <4>2, <4>3
      <3> HIDE DEF v, L
      <3>5. v \in Seq(Samples) /\ Len(v) = L /\ \A i \in 1 .. L : v[i] = more[G + 1 + i - 1]
        BY ONLY <3>1, <3>3, <3>4
      <3> QED
        BY <3>5 DEF L
    <2>5. n + 1 - (G + 1) + 1 = l /\ l \in Nat
      BY <1>2, <1>4, <1>9, <1>15, <2>1
    <2>6. ASSUME NEW i \in 1 .. l PROVE u[i] = v[i]
      <3> DEFINE j == first + i - 1
      <3>1. j \in 1 .. m + 1 /\ g + j = G + 1 + i - 1
        BY <1>4, <1>9, <1>15, <2>1, <2>5
      <3>2. all[j] = more[g + j]
        BY <1>10, <3>1
      <3>3. u[i] = all[j] /\ v[i] = more[G + 1 + i - 1]
        BY <2>2, <2>4, <2>5
      <3> HIDE DEF j
      <3> QED
        BY <3>1, <3>2, <3>3
    <2> HIDE DEF u, v, l
    <2>7. u = v
      BY <2>2, <2>4, <2>5, <2>6, SeqEqual
    <2> QED
      BY <2>7 DEF u, v
  <1>17. ASSUME NEW k \in 1 .. n + 1
         PROVE  socNow - more[k].at <= SampleWindow <=> k > G
    <2>1. CASE k > g
      <3> DEFINE j == k - g
      <3>1. j \in 1 .. m + 1 /\ g + j = k /\ (j >= first <=> k > G)
        BY <1>2, <1>4, <1>9, <1>15, <2>1
      <3>2. all[j] = more[k]
        BY <1>10, <3>1
      <3> HIDE DEF j
      <3> QED
        BY <1>14, <3>1, <3>2
    <2>2. CASE ~(k > g)
      <3>1. k \in 1 .. n /\ n \in 1 .. n /\ ~(k > G)
        BY <1>2, <1>9, <1>15, <2>2
      <3> DEFINE a == sampled[k].at
                 b == sampled[n].at
      <3>2. ~(b - a <= SampleWindow) /\ b <= socNow /\ more[k].at = a
        BY <1>2, <1>3, <1>6, <2>2, <3>1 DEF KeptFrom, n
      <3>3. a \in Nat /\ b \in Nat /\ SampleWindow \in Nat
        <4>1. sampled[k] \in Samples /\ sampled[n] \in Samples
          BY <1>2, <1>6, <3>1
        <4> QED
          BY <4>1, SampleAt, RecordsAssumption
      <3> HIDE DEF a, b
      <3>4. ~(socNow - a <= SampleWindow)
        BY <1>2, <3>2, <3>3
      <3> QED
        BY <3>1, <3>2, <3>4
    <2> QED
      BY <2>1, <2>2
  <1>18. SamplesKept'
    <2>1. Len(sampled') = n + 1 /\ socNow' = socNow /\ sampled' = more
      BY <1>1, <1>6
    <2>2. samples' = SubSeq(sampled', G + 1, Len(sampled'))
      BY <1>1, <1>14, <1>16, <2>1
    <2>3. more[n + 1].at = socNow
      BY <1>5, <1>6
    <2>4. KeptFrom(G)'
      BY <1>17, <2>1, <2>2, <2>3 DEF KeptFrom
    <2>5. sampled' \in Seq(Samples) /\ Timed(sampled)'
      BY <1>6, <1>11, <2>1 DEF Timed
    <2> QED
      BY <1>11, <1>15, <2>1, <2>4, <2>5 DEF SamplesKept, Samples
  <1>19. MetricsKept'
    <2>1. socNow' \in Nat /\ socNow <= socNow'
      BY <1>1, <1>2
    <2> QED
      BY <1>1, <1>2, <2>1, MetricsStay DEF SocInv
  <1> QED
    BY <1>1, <1>18, <1>19 DEF SocInv, Soc!Statuses

LEMMA NextSoc ==
    ASSUME SocInv, Soc!Next
    PROVE  SocInv'
  <1>0. socNow \in Nat /\ socNow <= socNow /\ socNow + 1 \in Nat /\ socNow <= socNow + 1
    BY DEF SocInv
  <1>1. ASSUME UNCHANGED <<metrics, samples, sampled>>, socNow' \in {socNow, socNow + 1},
               control' \in [Controls -> Soc!Statuses]
        PROVE  SocInv'
    <2>1. socNow' \in Nat /\ socNow <= socNow'
      BY <1>0, <1>1
    <2>2. SamplesKept'
      BY <1>0, <1>1, <2>1, SamplesStay DEF SocInv
    <2>3. MetricsKept'
      BY <1>0, <1>1, <2>1, MetricsStay DEF SocInv
    <2> QED
      BY <1>1, <2>1, <2>2, <2>3 DEF SocInv, Soc!Statuses
  <1>2. ASSUME NEW c \in Controls, NEW status \in Soc!Statuses, Soc!UpdateControlStatus(c, status)
        PROVE  SocInv'
    <2>1. control' \in [Controls -> Soc!Statuses]
      BY <1>2 DEF Soc!UpdateControlStatus, SocInv
    <2> QED
      BY <1>1, <1>2, <2>1 DEF Soc!UpdateControlStatus
  <1>3. CASE \E name \in MetricNames, value \in Values : Soc!RecordMetric(name, value)
    BY <1>3, RecordMetricKeeps
  <1>4. CASE \E up \in BOOLEAN : Soc!RecordAvailability(up)
    BY <1>4, RecordAvailabilityKeeps
  <1>5. ASSUME NEW severity \in Severities, Soc!ReportIncident(severity)
        PROVE  SocInv'
    BY <1>1, <1>5 DEF Soc!ReportIncident, SocInv
  <1>6. ASSUME NEW i, NEW status, Soc!UpdateIncidentStatus(i, status)
        PROVE  SocInv'
    BY <1>1, <1>6 DEF Soc!UpdateIncidentStatus, SocInv
  <1>7. CASE Soc!SocTick
    BY <1>1, <1>7 DEF Soc!SocTick, SocInv
  <1> QED
    BY <1>2, <1>3, <1>4, <1>5, <1>6, <1>7 DEF Soc!Next

-----------------------------------------------------------------------------
(* ThreatIntelligence.  The indicators come one at a time, so that the levels    *)
(* whose maximum is taken are always from 1 to 4.                            *)

\* The maximum of some levels is one of them; of more levels it is no less.
LEMMA ThreatMax ==
    ASSUME NEW S \in SUBSET (0 .. 4), S # {}
    PROVE  Threat!Max(S) \in S /\ \A l \in S : l <= Threat!Max(S)
  <1> DEFINE U == {4 - l : l \in S}
  <1>1. U \in SUBSET Nat /\ U # {}
    <2>1. \A l \in S : l \in 0 .. 4 /\ 4 - l \in Nat
      OBVIOUS
    <2> QED
      BY <2>1
  <1>2. \E i \in U : \A j \in U : i <= j
    <2> HIDE DEF U
    <2> QED
      BY <1>1, LeastExists
  <1>3. PICK i \in U : \A j \in U : i <= j
    BY <1>2
  <1>4. PICK m \in S : i = 4 - m
    OBVIOUS
  <1>5. ASSUME NEW l \in S PROVE m >= l
    <2>1. 4 - m <= 4 - l
      BY <1>3, <1>4
    <2> QED
      BY <2>1
  <1>6. \E x \in S : \A y \in S : x >= y
    BY <1>5
  <1>7. Threat!Max(S) \in S /\ \A y \in S : Threat!Max(S) >= y
    BY <1>6 DEF Threat!Max
  <1> QED
    BY <1>7

LEMMA WorstGrows ==
    ASSUME NEW S \in SUBSET (0 .. 4), NEW T \in SUBSET (0 .. 4), S \subseteq T
    PROVE  /\ Threat!WorstOf(S) \in 0 .. 4 /\ Threat!WorstOf(S) <= Threat!WorstOf(T)
           /\ \A l \in S : l <= Threat!WorstOf(S)
           /\ S # {} => Threat!WorstOf(S) \in S
  <1>1. CASE S = {}
    <2>1. Threat!WorstOf(S) = 0 /\ Threat!WorstOf(T) \in 0 .. 4
      <3>1. T # {} => Threat!Max(T) \in 0 .. 4
        BY ThreatMax
      <3> QED
        BY <1>1, <3>1 DEF Threat!WorstOf
    <2> QED
      BY <1>1, <2>1
  <1>2. CASE S # {}
    <2>1. /\ Threat!WorstOf(S) = Threat!Max(S) /\ Threat!WorstOf(T) = Threat!Max(T)
          /\ T # {}
      BY <1>2 DEF Threat!WorstOf
    <2>2. Threat!Max(S) \in S /\ \A l \in S : l <= Threat!Max(S)
      BY <1>2, ThreatMax
    <2>3. \A l \in T : l <= Threat!Max(T)
      BY <2>1, ThreatMax
    <2> QED
      BY <2>1, <2>2, <2>3
  <1> QED
    BY <1>1, <1>2

Indicators == [ip : Ips, level : Threat!Levels]

LevelsOf(ip) == {i.level : i \in {j \in indicators : j.ip = ip}}

\* What is cached is no worse than the indicators say, and as bad unless one came later.
ThreatInv ==
    /\ indicators \subseteq Indicators /\ stale \subseteq Ips
    /\ reputation \in [Ips -> 0 .. 4]
    /\ level \in [Signatures \cup Patterns -> {0, 1, 4}]
    /\ \A ip \in Ips : reputation[ip] <= Threat!WorstOf(LevelsOf(ip))
    /\ \A ip \in Ips \ stale :
          reputation[ip] = 0 \/ reputation[ip] = Threat!WorstOf(LevelsOf(ip))

LEMMA LevelsType ==
    ASSUME indicators \subseteq Indicators, NEW ip
    PROVE  LevelsOf(ip) \in SUBSET (0 .. 4)
  BY DEF LevelsOf, Indicators, Threat!Levels

LEMMA ThreatExplained ==
    ASSUME ThreatInv
    PROVE  Threat!ReputationExplained
  <1> SUFFICES ASSUME NEW ip \in Ips, reputation[ip] # 0
               PROVE  /\ reputation[ip] <= Threat!WorstOf(LevelsOf(ip))
                      /\ ip \notin stale =>
                            \A i \in indicators : i.ip = ip => i.level <= reputation[ip]
    BY DEF Threat!ReputationExplained, Threat!NoReputation, LevelsOf
  <1>1. reputation[ip] <= Threat!WorstOf(LevelsOf(ip))
    BY DEF ThreatInv
  <1>2. ASSUME ip \notin stale, NEW i \in indicators, i.ip = ip
        PROVE  i.level <= reputation[ip]
    <2>1. reputation[ip] = Threat!WorstOf(LevelsOf(ip))
      BY <1>2 DEF ThreatInv
    <2>2. i.level \in LevelsOf(ip)
      BY <1>2 DEF LevelsOf
    <2>3. LevelsOf(ip) \in SUBSET (0 .. 4)
      BY LevelsType DEF ThreatInv
    <2> QED
      BY <2>1, <2>2, <2>3, WorstGrows
  <1> QED
    BY <1>1, <1>2

LEMMA VerdictsGrow ==
    ASSUME ThreatInv
    PROVE  Threat!VerdictMonotone
  <1> DEFINE all == Signatures \cup Patterns
             levelsOf(items) == {level[i] : i \in items}
  <1>1. \A i \in all : level[i] \in {0, 1, 4}
    BY DEF ThreatInv
  <1>2. ASSUME NEW few \in SUBSET all, NEW many \in SUBSET all, few \subseteq many
        PROVE  Threat!Active(few) \subseteq Threat!Active(many)
    BY <1>2 DEF Threat!Active
  <1>3. ASSUME NEW items \in SUBSET all
        PROVE  /\ levelsOf(Threat!Active(items)) \in SUBSET (0 .. 4)
               /\ \A l \in levelsOf(Threat!Active(items)) : l \in {1, 4}
    BY <1>1 DEF Threat!Active
  <1>4. ASSUME NEW items \in SUBSET all, Threat!Active(items) # {}
        PROVE  Threat!WorstOf(levelsOf(Threat!Active(items))) \in {1, 4}
    <2>1. levelsOf(Threat!Active(items)) # {}
      BY <1>4
    <2> HIDE DEF levelsOf
    <2> QED
      BY <1>3, <2>1, WorstGrows
  <1>5. ASSUME NEW few \in SUBSET all, NEW many \in SUBSET all, few \subseteq many
        PROVE  Threat!WorstOf(levelsOf(Threat!Active(few)))
                  <= Threat!WorstOf(levelsOf(Threat!Active(many)))
    <2>1. levelsOf(Threat!Active(few)) \subseteq levelsOf(Threat!Active(many))
      BY <1>2, <1>5
    <2> HIDE DEF levelsOf
    <2> QED
      BY <1>3, <2>1, WorstGrows
  <1> DEFINE patterns(hits) == Threat!Active(hits \cap Patterns)
             signatures(hits) == Threat!Active(hits \cap Signatures)
  <1>6. \A hits : Threat!VerdictLevel(hits) =
           IF patterns(hits) # {} THEN Threat!WorstOf(levelsOf(patterns(hits)))
           ELSE IF signatures(hits) # {} THEN Threat!WorstOf(levelsOf(signatures(hits))) ELSE 1
    BY DEF Threat!VerdictLevel
  <1>7. ASSUME NEW few \in SUBSET all, NEW many \in SUBSET all, few \subseteq many,
               patterns(few) # {} \/ patterns(many) = {}
        PROVE  Threat!VerdictLevel(few) <= Threat!VerdictLevel(many)
    <2>1. /\ few \cap Patterns \in SUBSET all /\ many \cap Patterns \in SUBSET all
          /\ few \cap Signatures \in SUBSET all /\ many \cap Signatures \in SUBSET all
          /\ few \cap Patterns \subseteq many \cap Patterns
          /\ few \cap Signatures \subseteq many \cap Signatures
      BY <1>7
    <2>2. patterns(few) \subseteq patterns(many) /\ signatures(few) \subseteq signatures(many)
      BY <1>2, <2>1
    <2>3. CASE patterns(few) # {}
      <3>1. patterns(many) # {}
        BY <2>2, <2>3
      <3>2. Threat!WorstOf(levelsOf(patterns(few))) <= Threat!WorstOf(levelsOf(patterns(many)))
        BY <1>5, <2>1
      <3> HIDE DEF levelsOf, patterns, signatures
      <3> QED
        BY <1>6, <2>3, <3>1, <3>2
    <2>4. CASE patterns(few) = {} /\ patterns(many) = {}
      <3>1. Threat!WorstOf(levelsOf(signatures(few))) <= Threat!WorstOf(levelsOf(signatures(many)))
        BY <1>5, <2>1
      <3>2. signatures(many) # {} => Threat!WorstOf(levelsOf(signatures(many))) \in {1, 4}
        BY <1>4, <2>1
      <3> HIDE DEF levelsOf, patterns, signatures
      <3> QED
        BY <1>6, <2>2, <2>4, <3>1, <3>2
    <2> QED
      BY <1>7, <2>3, <2>4
  <1>8. ASSUME NEW many, NEW ip, Threat!Active(many) # {}
        PROVE  Threat!IsThreat(ip, many)
    BY <1>8 DEF Threat!IsThreat, Threat!Categorised
  <1> HIDE DEF levelsOf
  <1> QED
    BY <1>7, <1>8 DEF Threat!VerdictMonotone

LEMMA InitThreat ==
    ASSUME Threat!Init
    PROVE  ThreatInv
  <1>1. \A ip \in Ips : reputation[ip] = 0 /\ LevelsOf(ip) = {}
    BY DEF Threat!Init, Threat!NoReputation, LevelsOf
  <1>2. Threat!WorstOf({}) = 0
    BY DEF Threat!WorstOf
  <1>3. \A ip \in Ips : reputation[ip] <= Threat!WorstOf(LevelsOf(ip))
    BY <1>1, <1>2
  <1> QED
    BY <1>1, <1>3 DEF Threat!Init, ThreatInv, Threat!NoReputation

LEMMA NextThreat ==
    ASSUME ThreatInv, Threat!Next
    PROVE  ThreatInv'
  <1> DEFINE worst(ip) == Threat!WorstOf(LevelsOf(ip))
  <1>0. /\ \A ip : LevelsOf(ip) \in SUBSET (0 .. 4) /\ worst(ip) \in 0 .. 4
        /\ \A ip \in Ips : reputation[ip] \in 0 .. 4 /\ reputation[ip] <= worst(ip)
        /\ \A ip \in Ips \ stale : reputation[ip] = 0 \/ reputation[ip] = worst(ip)
        /\ indicators \subseteq Indicators /\ stale \subseteq Ips
        /\ reputation \in [Ips -> 0 .. 4]
        /\ level \in [Signatures \cup Patterns -> {0, 1, 4}]
    BY LevelsType, WorstGrows DEF ThreatInv
  <1>1. ASSUME indicators' \subseteq Indicators, stale' \subseteq Ips, UNCHANGED level,
               reputation' \in [Ips -> 0 .. 4],
               \A ip \in Ips : /\ reputation'[ip] <= worst(ip)'
                               /\ ip \in stale' \/ reputation'[ip] = 0 \/ reputation'[ip] = worst(ip)'
        PROVE  ThreatInv'
    BY <1>0, <1>1 DEF ThreatInv, Indicators, Threat!Levels
  <1>2. ASSUME UNCHANGED indicators PROVE \A ip : worst(ip)' = worst(ip)
    BY <1>2 DEF LevelsOf, Threat!WorstOf
  <1>3. ASSUME NEW ip \in Ips, NEW lvl \in Threat!Levels, Threat!AddThreatIndicator(ip, lvl)
        PROVE  ThreatInv'
    <2> DEFINE new == [ip |-> ip, level |-> lvl]
    <2>1. /\ indicators' = indicators \cup {new} /\ UNCHANGED <<reputation, level>>
          /\ stale' = IF reputation[ip] # 0 THEN stale \cup {ip} ELSE stale
      BY <1>3 DEF Threat!AddThreatIndicator, Threat!NoReputation
    <2>2. new \in Indicators /\ new.ip = ip
      BY DEF Indicators
    <2> HIDE DEF new
    <2>3. indicators' \subseteq Indicators /\ Indicators' = Indicators
      BY <1>0, <2>1, <2>2 DEF Indicators, Threat!Levels
    <2>4. \A a : LevelsOf(a) \subseteq LevelsOf(a)' /\ LevelsOf(a)' \in SUBSET (0 .. 4)
      BY <2>1, <2>3 DEF LevelsOf, Indicators, Threat!Levels
    <2>5. \A a : Threat!WorstOf(LevelsOf(a)) <= Threat!WorstOf(LevelsOf(a)')
                 /\ Threat!WorstOf(LevelsOf(a)') \in 0 .. 4
      BY <1>0, <2>4, WorstGrows
    <2>6. \A a : worst(a)' = Threat!WorstOf(LevelsOf(a)')
      BY DEF Threat!WorstOf
    <2>7. \A a : a # ip => LevelsOf(a)' = LevelsOf(a)
      BY <2>1, <2>2 DEF LevelsOf
    <2>8. \A a : worst(a) \in 0 .. 4 /\ worst(a)' \in 0 .. 4 /\ worst(a) <= worst(a)'
                 /\ (a # ip => worst(a)' = worst(a))
      BY <1>0, <2>5, <2>6, <2>7
    <2> HIDE DEF worst
    <2>9. \A a \in Ips : reputation'[a] <= worst(a)'
      BY <1>0, <2>1, <2>8
    <2>10. \A a \in Ips : a \in stale' \/ reputation'[a] = 0 \/ reputation'[a] = worst(a)'
      BY <1>0, <2>1, <2>8
    <2> QED
      BY <1>0, <1>1, <2>1, <2>3, <2>9, <2>10
  <1>4. ASSUME NEW ip \in Ips, Threat!CheckIPReputation(ip)
        PROVE  ThreatInv'
    <2>1. /\ reputation' = [reputation EXCEPT ![ip] = worst(ip)]
          /\ UNCHANGED <<indicators, level, stale>>
      BY <1>4 DEF Threat!CheckIPReputation, Threat!Computed, LevelsOf
    <2> HIDE DEF worst
    <2> QED
      BY <1>0, <1>1, <1>2, <2>1
  <1>5. CASE Threat!ClearCaches
    <2>1. /\ reputation' = [ip \in Ips |-> 0] /\ stale' = {}
          /\ UNCHANGED <<indicators, level>>
      BY <1>5 DEF Threat!ClearCaches, Threat!NoReputation
    <2> HIDE DEF worst
    <2> QED
      BY <1>0, <1>1, <1>2, <2>1
  <1> QED
    BY <1>3, <1>4, <1>5 DEF Threat!Next

-----------------------------------------------------------------------------
(* GDPRCompliance.  A consent that an erasure found is no longer granted or is    *)
(* among those the erasure has still to look at.  What an operation does to a     *)
(* sequence is first said of its elements.                                    *)

Consents ==
    [subject : Subjects, purpose : Purposes, status : ConsentStatuses \cup {"withdrawn", "denied"},
     expires : Nat]

PersonalData ==
    [subject : Subjects, type : DataTypes, kept : {"raw", "anonymized", "corrected", "deleted"},
     expires : Nat]

Requests ==
    [subject : Subjects, right : Rights, status : {"pending", "processing", "completed"},
     verified : BOOLEAN, began : [records : Nat, consents : Nat], all : BOOLEAN]

Erasures == [awaits : BOOLEAN, left : SUBSET Nat]

LEMMA GdprMin ==
    ASSUME NEW S \in SUBSET Nat, S # {}
    PROVE  Gdpr!Min(S) \in S /\ \A i \in S : Gdpr!Min(S) <= i
  <1>1. \E i \in S : \A j \in S : i <= j
    BY LeastExists
  <1> QED
    BY <1>1 DEF Gdpr!Min

\* Sequences with elements added, changed in place or all rewritten.
LEMMA Appended ==
    ASSUME NEW S, NEW s \in Seq(S), NEW e \in S
    PROVE  /\ Append(s, e) \in Seq(S) /\ Len(Append(s, e)) = Len(s) + 1 /\ Len(s) \in Nat
           /\ DOMAIN Append(s, e) = 1 .. Len(s) + 1 /\ DOMAIN s = 1 .. Len(s)
           /\ Append(s, e)[Len(s) + 1] = e
           /\ \A i \in 1 .. Len(s) : Append(s, e)[i] = s[i]
  OBVIOUS

LEMMA Rewritten ==
    ASSUME NEW S, NEW s \in Seq(S), NEW f, DOMAIN f = DOMAIN s, f = [i \in DOMAIN s |-> f[i]],
           \A i \in DOMAIN s : f[i] \in S
    PROVE  f \in Seq(S) /\ Len(f) = Len(s) /\ Len(s) \in Nat /\ DOMAIN s = 1 .. Len(s)
  OBVIOUS

\* What an erasure leaves of a record, a later rectification of it included.
Away(kept) ==
    kept \in IF Anonymizing THEN {"anonymized", "corrected", "deleted"} ELSE {"deleted"}

\* No record is forgotten, changes hands or type, or comes back from an erasure.
RecordsKept(old, new) ==
    /\ Len(old) <= Len(new)
    /\ \A i \in 1 .. Len(old) : /\ new[i].subject = old[i].subject /\ new[i].type = old[i].type
                                /\ Away(old[i].kept) => Away(new[i].kept)
                                /\ old[i].kept = "deleted" => new[i].kept = "deleted"

ConsentsKept(old, new) ==
    /\ Len(old) <= Len(new)
    /\ \A i \in 1 .. Len(old) : /\ new[i].subject = old[i].subject
                                /\ old[i].status # "granted" => new[i].status # "granted"
                                /\ old[i].status = "withdrawn" => new[i].status = "withdrawn"

\* A request stays what it was, and of whom; who was verified stays verified.
SameRequest(old, new) ==
    /\ new.right = old.right /\ new.subject = old.subject
    /\ old.verified => new.verified

RequestsKept(old, new) ==
    /\ Len(old) <= Len(new)
    /\ \A r \in 1 .. Len(old) : SameRequest(old[r], new[r])

\* What was found when the erasure of a request began has been erased, and the consents
\* have been withdrawn but for those left.
Gone(request) ==
    request.all =>
        \A i \in 1 .. request.began.records :
            records[i].subject = request.subject => Away(records[i].kept)

Ended(request, left) ==
    \A i \in 1 .. request.began.consents :
        consents[i].subject = request.subject => consents[i].status # "granted" \/ i \in left

GdprTypeOK ==
    /\ consents \in Seq(Consents) /\ records \in Seq(PersonalData)
    /\ subjectRequests \in Seq(Requests) /\ erasing \in Seq(Erasures)
    /\ gdprNow \in Nat /\ Len(erasing) = Len(subjectRequests)

Followed(r) ==
    /\ subjectRequests[r].began.records <= Len(records) /\ Gone(subjectRequests[r])
    /\ subjectRequests[r].began.consents <= Len(consents)
    /\ Ended(subjectRequests[r], erasing[r].left)
    /\ erasing[r].left \subseteq 1 .. Len(consents)
    /\ ~erasing[r].awaits => erasing[r].left = {}

GdprInv == GdprTypeOK /\ \A r \in DOMAIN subjectRequests : Followed(r)

\* Where raw data is back a rectification has put it.
Corrections == \A i \in DOMAIN records : records[i].kept = "corrected" => Gdpr!Rectifiable(i)

LEMMA RequestFields ==
    \A q \in Requests : /\ q.began.records \in Nat /\ q.began.consents \in Nat
                        /\ q.subject \in Subjects
  BY DEF Requests

LEMMA GdprInvIsSound ==
    ASSUME GdprInv, Corrections
    PROVE  Gdpr!ErasedIsGone /\ Gdpr!ErasureEndsConsent
  <1>1. Gdpr!ErasedIsGone
    <2>1. ASSUME NEW r \in DOMAIN subjectRequests, subjectRequests[r].all,
                 NEW i \in 1 .. subjectRequests[r].began.records,
                 records[i].subject = subjectRequests[r].subject
          PROVE  Away(records[i].kept) /\ (records[i].kept = "corrected" => Gdpr!Rectifiable(i))
      <3>1. subjectRequests[r] \in Requests /\ records \in Seq(PersonalData)
        BY <2>1 DEF GdprInv, GdprTypeOK
      <3>2. subjectRequests[r].began.records \in Nat
        BY <3>1, RequestFields
      <3>3. subjectRequests[r].began.records <= Len(records) /\ Gone(subjectRequests[r])
        BY <2>1 DEF GdprInv, Followed
      <3>4. i \in DOMAIN records
        BY <3>1, <3>2, <3>3
      <3>5. Away(records[i].kept)
        BY <2>1, <3>3 DEF Gone
      <3> QED
        BY <3>4, <3>5 DEF Corrections
    <2> QED
      BY <2>1 DEF Gdpr!ErasedIsGone, Away
  <1>2. Gdpr!ErasureEndsConsent
    BY DEF Gdpr!ErasureEndsConsent, GdprInv, Followed, Ended
  <1> QED
    BY <1>1, <1>2

LEMMA InitGdpr ==
    ASSUME Gdpr!Init
    PROVE  GdprInv /\ Corrections
  <1>1. consents = <<>> /\ records = <<>> /\ subjectRequests = <<>> /\ erasing = <<>> /\ gdprNow = 1
    BY DEF Gdpr!Init
  <1>2. GdprTypeOK
    BY <1>1 DEF GdprTypeOK
  <1> QED
    BY <1>1, <1>2 DEF GdprInv, Corrections

\* What a request requires of the records and consents stays as they change.
LEMMA FollowedStays ==
    ASSUME GdprTypeOK, NEW r \in DOMAIN subjectRequests, Followed(r),
           RecordsKept(records, records'), ConsentsKept(consents, consents'),
           Len(records') \in Nat, Len(consents') \in Nat,
           subjectRequests'[r].subject = subjectRequests[r].subject,
           subjectRequests'[r].began = subjectRequests[r].began,
           subjectRequests'[r].all = subjectRequests[r].all,
           erasing'[r] = erasing[r]
    PROVE  Followed(r)'
  <1> DEFINE q == subjectRequests[r]
             n == q.began.records
             m == q.began.consents
  <1>1. q \in Requests
    BY DEF GdprTypeOK
  <1>2. n \in Nat /\ m \in Nat
    BY <1>1 DEF Requests
  <1>3. Len(records) \in Nat /\ Len(consents) \in Nat
    BY DEF GdprTypeOK
  <1>4. n <= Len(records) /\ m <= Len(consents)
    BY DEF Followed
  <1>5. n <= Len(records') /\ m <= Len(consents')
    BY <1>2, <1>3, <1>4 DEF RecordsKept, ConsentsKept
  <1>6. \A i \in 1 .. n : i \in 1 .. Len(records)
    BY <1>2, <1>3, <1>4
  <1>7. \A i \in 1 .. m : i \in 1 .. Len(consents)
    BY <1>2, <1>3, <1>4
  <1>8. Gone(q)'
    <2>1. Gone(q)
      BY DEF Followed
    <2>2. ASSUME q.all, NEW i \in 1 .. n, records'[i].subject = q.subject
          PROVE  Away(records'[i].kept)
      BY <1>6, <2>1, <2>2 DEF Gone, RecordsKept
    <2> QED
      BY <2>2 DEF Gone, Away
  <1>9. Ended(q, erasing[r].left)'
    <2>1. Ended(q, erasing[r].left)
      BY DEF Followed
    <2>2. ASSUME NEW i \in 1 .. m, consents'[i].subject = q.subject
          PROVE  consents'[i].status # "granted" \/ i \in erasing[r].left
      BY <1>7, <2>1, <2>2 DEF Ended, ConsentsKept
    <2> QED
      BY <2>2 DEF Ended
  <1>10. erasing[r].left \subseteq 1 .. Len(consents')
    <2>1. 1 .. Len(consents) \subseteq 1 .. Len(consents')
      BY <1>3 DEF ConsentsKept
    <2> QED
      BY <2>1 DEF Followed
  <1> QED
    BY <1>5, <1>8, <1>9, <1>10 DEF Followed

LEMMA SetStatus ==
    ASSUME NEW q \in Requests, NEW status \in {"pending", "processing", "completed"}
    PROVE  LET new == [q EXCEPT !.status = status]
           IN  /\ new \in Requests /\ SameRequest(q, new)
               /\ new.subject = q.subject /\ new.began = q.began /\ new.all = q.all
  BY DEF Requests, SameRequest

LEMMA SetConsent ==
    ASSUME NEW c \in Consents, NEW status \in {"withdrawn", "denied"}
    PROVE  LET new == [c EXCEPT !.status = status]
           IN  new \in Consents /\ new.subject = c.subject /\ new.status = status
  BY DEF Consents

\* Nothing is forgotten and nothing revoked by a change that touches none of them.
LEMMA KeptAsIs ==
    ASSUME GdprTypeOK
    PROVE  /\ RecordsKept(records, records) /\ ConsentsKept(consents, consents)
           /\ RequestsKept(subjectRequests, subjectRequests)
  <1>1. Len(records) \in Nat /\ Len(consents) \in Nat /\ Len(subjectRequests) \in Nat
    BY DEF GdprTypeOK
  <1> QED
    BY <1>1 DEF RecordsKept, ConsentsKept, RequestsKept, SameRequest

\* One request is replaced, by one that is the same but for its status.
LEMMA OneRequest ==
    ASSUME NEW requests \in Seq(Requests), NEW r \in DOMAIN requests, NEW new \in Requests,
           SameRequest(requests[r], new)
    PROVE  RequestsKept(requests, [requests EXCEPT ![r] = new])
  <1> DEFINE after == [requests EXCEPT ![r] = new]
  <1>1. /\ Len(after) = Len(requests) /\ Len(requests) \in Nat /\ DOMAIN requests = 1 .. Len(requests)
        /\ after[r] = new /\ \A p \in DOMAIN requests : p # r => after[p] = requests[p]
    OBVIOUS
  <1>2. ASSUME NEW p \in 1 .. Len(requests), p # r PROVE SameRequest(requests[p], after[p])
    <2>1. after[p] = requests[p]
      BY <1>1, <1>2
    <2> HIDE DEF after
    <2> QED
      BY <2>1 DEF SameRequest
  <1> HIDE DEF after
  <1> QED
    BY <1>1, <1>2 DEF RequestsKept, after

LEMMA RequestsKeptAgain ==
    ASSUME NEW a \in Seq(Requests), NEW b \in Seq(Requests), NEW c \in Seq(Requests),
           RequestsKept(a, b), RequestsKept(b, c)
    PROVE  RequestsKept(a, c)
  <1>1. Len(a) \in Nat /\ Len(b) \in Nat /\ Len(c) \in Nat
    OBVIOUS
  <1>2. Len(a) <= Len(b) /\ Len(b) <= Len(c)
    BY DEF RequestsKept
  <1>3. ASSUME NEW r \in 1 .. Len(a) PROVE SameRequest(a[r], c[r])
    <2>1. r \in 1 .. Len(b)
      BY <1>1, <1>2
    <2>2. SameRequest(a[r], b[r]) /\ SameRequest(b[r], c[r])
      BY <2>1 DEF RequestsKept
    <2> QED
      BY <2>2 DEF SameRequest
  <1> QED
    BY <1>1, <1>2, <1>3 DEF RequestsKept

LEMMA WithdrawnKeeps ==
    ASSUME GdprTypeOK, NEW i \in DOMAIN consents, consents' = Gdpr!Withdrawn(i)
    PROVE  /\ consents' \in Seq(Consents) /\ Len(consents') = Len(consents)
           /\ ConsentsKept(consents, consents') /\ consents'[i].status = "withdrawn"
           /\ \A j \in DOMAIN consents : j # i => consents'[j] = consents[j]
  <1> DEFINE new == [consents[i] EXCEPT !.status = "withdrawn"]
  <1>1. consents \in Seq(Consents) /\ Len(consents) \in Nat /\ DOMAIN consents = 1 .. Len(consents)
    BY DEF GdprTypeOK
  <1>2. consents' = [consents EXCEPT ![i] = new]
    BY DEF Gdpr!Withdrawn
  <1>3. new \in Consents /\ new.subject = consents[i].subject /\ new.status = "withdrawn"
    <2>1. consents[i] \in Consents
      BY <1>1
    <2> QED
      BY <2>1, SetConsent
  <1> HIDE DEF new
  <1>4. consents' \in Seq(Consents) /\ Len(consents') = Len(consents)
    BY <1>1, <1>2, <1>3
  <1>5. consents'[i] = new /\ \A j \in DOMAIN consents : j # i => consents'[j] = consents[j]
    BY <1>1, <1>2
  <1>6. ConsentsKept(consents, consents')
    <2>1. Len(consents) <= Len(consents')
      BY <1>1, <1>4
    <2>2. ASSUME NEW j \in 1 .. Len(consents)
          PROVE  /\ consents'[j].subject = consents[j].subject
                 /\ consents[j].status # "granted" => consents'[j].status # "granted"
                 /\ consents[j].status = "withdrawn" => consents'[j].status = "withdrawn"
      BY <1>1, <1>3, <1>5
    <2> QED
      BY <2>1, <2>2 DEF ConsentsKept
  <1> QED
    BY <1>3, <1>4, <1>5, <1>6

\* A turn of the loop looks at what is left of the consents that were found.
\* What every step keeps: the invariant, and of the data, consents and requests what the
\* lemmas before this one say.
GdprStep ==
    /\ GdprInv' /\ ConsentsKept(consents, consents') /\ RecordsKept(records, records')
    /\ RequestsKept(subjectRequests, subjectRequests')

LEMMA WithdrawNextKeeps ==
    ASSUME GdprInv, NEW r \in DOMAIN subjectRequests, NEW left \in SUBSET (1 .. Len(consents)),
           NEW requests \in Seq(Requests), Len(requests) = Len(subjectRequests),
           \A q \in DOMAIN subjectRequests : q # r => requests[q] = subjectRequests[q],
           records' \in Seq(PersonalData), RecordsKept(records, records'),
           requests[r].began.records <= Len(records'),
           requests[r].all =>
              \A i \in 1 .. requests[r].began.records :
                  records'[i].subject = requests[r].subject => Away(records'[i].kept),
           RequestsKept(subjectRequests, requests),
           requests[r].began.consents <= Len(consents), Ended(requests[r], left),
           Gdpr!WithdrawNext(r, left, requests), gdprNow' = gdprNow
    PROVE  GdprStep
  <1> DEFINE n == Len(subjectRequests)
             granted == {i \in left : consents[i].status = "granted"}
             next == Gdpr!Min(granted)
             rest == {i \in left : i > next}
             q == requests[r]
             done == [q EXCEPT !.status = "completed"]
  <1>1. /\ consents \in Seq(Consents) /\ subjectRequests \in Seq(Requests) /\ n \in Nat
        /\ erasing \in Seq(Erasures) /\ Len(erasing) = n /\ gdprNow \in Nat
        /\ DOMAIN subjectRequests = 1 .. n /\ DOMAIN requests = 1 .. n /\ DOMAIN erasing = 1 .. n
        /\ Len(consents) \in Nat /\ DOMAIN consents = 1 .. Len(consents)
    BY DEF GdprInv, GdprTypeOK
  <1>2. q \in Requests /\ q.began.consents \in Nat
    BY <1>1, RequestFields
  <1>3. /\ done \in Requests /\ done.subject = q.subject /\ done.began = q.began /\ done.all = q.all
        /\ SameRequest(q, done)
    BY <1>2, SetStatus
  <1>4. ASSUME granted = {}
        PROVE  /\ consents' = consents
               /\ subjectRequests' = [requests EXCEPT ![r] = done]
               /\ erasing' = [erasing EXCEPT ![r] = Gdpr!NotErasing]
    BY <1>4 DEF Gdpr!WithdrawNext, Gdpr!Complete
  <1>5. ASSUME granted # {}
        PROVE  /\ consents' = Gdpr!Withdrawn(next)
               /\ subjectRequests' = requests
               /\ erasing' = [erasing EXCEPT ![r] = [awaits |-> TRUE, left |-> rest]]
    BY <1>5 DEF Gdpr!WithdrawNext, Gdpr!WithdrawAndAwait
  <1> DEFINE erasure == erasing'[r]
             request == subjectRequests'[r]
  <1>6. /\ subjectRequests' \in Seq(Requests) /\ Len(subjectRequests') = n
        /\ request.subject = q.subject /\ request.began = q.began /\ request.all = q.all
        /\ \A p \in DOMAIN subjectRequests : p # r => subjectRequests'[p] = subjectRequests[p]
        /\ DOMAIN subjectRequests' = 1 .. n
    <2> HIDE DEF done, granted, next, rest, n, q
    <2>1. CASE granted = {}
      <3>1. subjectRequests' = [requests EXCEPT ![r] = done] /\ r \in 1 .. n
        BY <1>1, <1>4, <2>1
      <3>2. subjectRequests' \in Seq(Requests) /\ Len(subjectRequests') = n
        BY <1>1, <1>3, <3>1 DEF n
      <3>3. request = done /\ DOMAIN subjectRequests' = 1 .. n
        BY <1>1, <3>1, <3>2
      <3>4. \A p \in DOMAIN subjectRequests : p # r => subjectRequests'[p] = subjectRequests[p]
        BY <1>1, <3>1
      <3> QED
        BY <1>3, <3>2, <3>3, <3>4
    <2>2. CASE granted # {}
      BY <1>1, <1>5, <2>2 DEF n, q
    <2> QED
      BY <2>1, <2>2
  <1>7. /\ erasing' \in Seq(Erasures) /\ Len(erasing') = n
        /\ erasure \in Erasures /\ (~erasure.awaits => erasure.left = {})
        /\ erasure.left = IF granted = {} THEN {} ELSE rest
        /\ \A p \in DOMAIN subjectRequests : p # r => erasing'[p] = erasing[p]
    <2>0. left \subseteq Nat
      BY <1>1
    <2>1. Gdpr!NotErasing \in Erasures /\ [awaits |-> TRUE, left |-> rest] \in Erasures
      BY <2>0 DEF Gdpr!NotErasing, Erasures
    <2> DEFINE e == IF granted = {} THEN Gdpr!NotErasing ELSE [awaits |-> TRUE, left |-> rest]
    <2>2. e \in Erasures /\ (~e.awaits => e.left = {}) /\ e.left = IF granted = {} THEN {} ELSE rest
      BY <2>1 DEF Gdpr!NotErasing
    <2>3. erasing' = [erasing EXCEPT ![r] = e]
      BY <1>4, <1>5
    <2> HIDE DEF e, granted, rest, n
    <2> QED
      BY <1>1, <2>2, <2>3
  <1>8. /\ consents' \in Seq(Consents) /\ Len(consents') = Len(consents)
        /\ ConsentsKept(consents, consents')
        /\ \A j \in left : consents'[j].status # "granted" \/ j \in erasure.left
    <2>1. CASE granted = {}
      <3>1. consents' = consents /\ \A j \in left : consents[j].status # "granted"
        BY <1>4, <2>1
      <3> QED
        BY <1>1, <3>1, KeptAsIs DEF GdprInv
    <2>2. CASE granted # {}
      <3>1. granted \in SUBSET Nat
        <4>1. left \subseteq Nat
          BY <1>1
        <4> QED
          BY <4>1
      <3> HIDE DEF granted
      <3>2. next \in granted /\ \A i \in granted : next <= i
        BY <2>2, <3>1, GdprMin
      <3>3. next \in left /\ next \in DOMAIN consents /\ next \in Nat
        BY <1>1, <3>1, <3>2 DEF granted
      <3> HIDE DEF next
      <3>4. /\ consents' \in Seq(Consents) /\ Len(consents') = Len(consents)
            /\ ConsentsKept(consents, consents') /\ consents'[next].status = "withdrawn"
            /\ \A j \in DOMAIN consents : j # next => consents'[j] = consents[j]
        BY <1>5, <2>2, <3>3, WithdrawnKeeps DEF GdprInv
      <3>5. ASSUME NEW j \in left PROVE consents'[j].status # "granted" \/ j \in rest
        <4>1. j \in Nat /\ j \in DOMAIN consents
          BY <1>1
        <4>2. CASE j = next
          BY <3>4, <4>2
        <4>3. CASE j > next
          BY <4>3
        <4>4. CASE j < next
          <5>1. j \notin granted
            BY <3>2, <3>3, <4>1, <4>4
          <5>2. consents'[j] = consents[j]
            BY <3>3, <3>4, <4>1, <4>4
          <5> QED
            BY <5>1, <5>2 DEF granted
        <4> QED
          BY <3>3, <4>1, <4>2, <4>3, <4>4
      <3> QED
        BY <1>7, <2>2, <3>4, <3>5
    <2> QED
      BY <2>1, <2>2
  <1> HIDE DEF n, granted, next, rest, done
  <1>9. GdprTypeOK'
    BY <1>1, <1>6, <1>7, <1>8 DEF GdprTypeOK, Consents, PersonalData, Requests, Erasures
  <1>10. Followed(r)'
    <2>1. Gone(subjectRequests[r])'
      BY <1>6 DEF Gone
    <2>2. Ended(subjectRequests[r], erasing[r].left)'
      <3>1. ASSUME NEW i \in 1 .. q.began.consents, consents'[i].subject = q.subject
            PROVE  consents'[i].status # "granted" \/ i \in erasure.left
        <4>1. i \in 1 .. Len(consents)
          BY <1>1, <1>2
        <4>2. /\ consents'[i].subject = consents[i].subject
              /\ consents[i].status # "granted" => consents'[i].status # "granted"
          BY <1>8, <4>1 DEF ConsentsKept
        <4>3. consents[i].status # "granted" \/ i \in left
          BY <3>1, <4>2 DEF Ended
        <4> QED
          BY <1>8, <4>2, <4>3
      <3> QED
        BY <1>6, <3>1 DEF Ended
    <2>3. erasure.left \subseteq 1 .. Len(consents')
      BY <1>7, <1>8 DEF rest
    <2> QED
      <3>1. request.began.records <= Len(records')
        BY <1>6
      <3>2. request.began.consents <= Len(consents')
        BY <1>6, <1>8
      <3> QED
        BY <1>7, <2>1, <2>2, <2>3, <3>1, <3>2 DEF Followed
  <1>11. ASSUME NEW p \in DOMAIN subjectRequests, p # r PROVE Followed(p)'
    <2>1. subjectRequests'[p] = subjectRequests[p] /\ erasing'[p] = erasing[p]
      BY <1>6, <1>7, <1>11
    <2>2. Len(records') \in Nat /\ Len(consents') \in Nat
      BY <1>1, <1>8
    <2> QED
      BY <1>8, <2>1, <2>2, FollowedStays DEF GdprInv
  <1>12. GdprInv' /\ ConsentsKept(consents, consents')
    BY <1>1, <1>6, <1>8, <1>9, <1>10, <1>11 DEF GdprInv
  <1>13. RequestsKept(subjectRequests, subjectRequests')
    <2>1. CASE granted = {}
      <3>1. subjectRequests' = [requests EXCEPT ![r] = done] /\ requests[r] = q
        BY <1>4, <2>1
      <3>2. RequestsKept(requests, [requests EXCEPT ![r] = done])
        BY <1>1, <1>3, OneRequest
      <3>3. subjectRequests' \in Seq(Requests)
        BY <1>12 DEF GdprInv, GdprTypeOK
      <3> HIDE DEF done, q
      <3> QED
        BY <1>1, <3>1, <3>2, <3>3, RequestsKeptAgain
    <2>2. CASE granted # {}
      BY <1>5, <2>2
    <2> QED
      BY <2>1, <2>2
  <1> QED
    BY <1>12, <1>13 DEF GdprStep

\* The invariant when none of the requests began anything new.
LEMMA GdprRests ==
    ASSUME GdprInv, GdprTypeOK',
           RecordsKept(records, records'), ConsentsKept(consents, consents'),
           Len(subjectRequests') = Len(subjectRequests), UNCHANGED erasing,
           RequestsKept(subjectRequests, subjectRequests'),
           \A r \in DOMAIN subjectRequests :
              /\ subjectRequests'[r].subject = subjectRequests[r].subject
              /\ subjectRequests'[r].began = subjectRequests[r].began
              /\ subjectRequests'[r].all = subjectRequests[r].all
    PROVE  GdprStep
  <1>1. Len(records') \in Nat /\ Len(consents') \in Nat
    BY DEF GdprTypeOK
  <1>2. DOMAIN subjectRequests' = DOMAIN subjectRequests
    BY DEF GdprInv, GdprTypeOK
  <1>3. ASSUME NEW r \in DOMAIN subjectRequests PROVE Followed(r)'
    BY <1>1, FollowedStays DEF GdprInv
  <1> QED
    BY <1>2, <1>3 DEF GdprStep, GdprInv

LEMMA RecordConsentKeeps ==
    ASSUME GdprInv, NEW s \in Subjects, NEW p \in Purposes, NEW status \in ConsentStatuses,
           Gdpr!RecordConsent(s, p, status)
    PROVE  GdprStep
  <1> DEFINE new == [subject |-> s, purpose |-> p, status |-> status,
                     expires |-> gdprNow + ConsentLife]
  <1>1. consents' = Append(consents, new) /\ UNCHANGED <<records, subjectRequests, erasing, gdprNow>>
    BY DEF Gdpr!RecordConsent
  <1>2. new \in Consents
    BY RecordsAssumption DEF GdprInv, GdprTypeOK, Consents
  <1> HIDE DEF new
  <1>3. /\ consents' \in Seq(Consents) /\ Len(consents') = Len(consents) + 1
        /\ Len(consents) \in Nat
        /\ \A i \in 1 .. Len(consents) : consents'[i] = consents[i]
    <2>1. consents \in Seq(Consents)
      BY DEF GdprInv, GdprTypeOK
    <2> QED
      BY <1>1, <1>2, <2>1, Appended
  <1>4. ConsentsKept(consents, consents')
    BY <1>3 DEF ConsentsKept
  <1>5. GdprTypeOK'
    BY <1>1, <1>3 DEF GdprInv, GdprTypeOK, Consents, PersonalData, Requests, Erasures
  <1>6. RecordsKept(records, records') /\ RequestsKept(subjectRequests, subjectRequests')
    BY <1>1, KeptAsIs DEF GdprInv
  <1> QED
    BY <1>1, <1>4, <1>5, <1>6, GdprRests

LEMMA StorePersonalDataKeeps ==
    ASSUME GdprInv, NEW s \in Subjects, NEW type \in DataTypes, NEW p \in Purposes,
           \E basis \in {"consent", "contract"} : Gdpr!StorePersonalData(s, type, p, basis)
    PROVE  GdprStep
  <1>0. PICK basis \in {"consent", "contract"} : Gdpr!StorePersonalData(s, type, p, basis)
    OBVIOUS
  <1> DEFINE new == [subject |-> s, type |-> type, kept |-> "raw",
                     expires |-> gdprNow + RetentionLife]
  <1>1. records' = Append(records, new) /\ UNCHANGED <<consents, subjectRequests, erasing, gdprNow>>
    BY <1>0 DEF Gdpr!StorePersonalData
  <1>2. new \in PersonalData
    BY RecordsAssumption DEF GdprInv, GdprTypeOK, PersonalData
  <1> HIDE DEF new
  <1>3. /\ records' \in Seq(PersonalData) /\ Len(records') = Len(records) + 1
        /\ Len(records) \in Nat
        /\ \A i \in 1 .. Len(records) : records'[i] = records[i]
    <2>1. records \in Seq(PersonalData)
      BY DEF GdprInv, GdprTypeOK
    <2> QED
      BY <1>1, <1>2, <2>1, Appended
  <1>4. RecordsKept(records, records')
    BY <1>3 DEF RecordsKept
  <1>5. GdprTypeOK'
    BY <1>1, <1>3 DEF GdprInv, GdprTypeOK, Consents, PersonalData, Requests, Erasures
  <1>6. ConsentsKept(consents, consents') /\ RequestsKept(subjectRequests, subjectRequests')
    BY <1>1, KeptAsIs DEF GdprInv
  <1> QED
    BY <1>1, <1>4, <1>5, <1>6, GdprRests

LEMMA WithdrawConsentKeeps ==
    ASSUME GdprInv, NEW i \in DOMAIN consents, Gdpr!WithdrawConsent(i)
    PROVE  GdprStep
  <1>1. consents' = Gdpr!Withdrawn(i) /\ UNCHANGED <<records, subjectRequests, erasing, gdprNow>>
    BY DEF Gdpr!WithdrawConsent
  <1>2. consents' \in Seq(Consents) /\ ConsentsKept(consents, consents')
    BY <1>1, WithdrawnKeeps DEF GdprInv
  <1>3. GdprTypeOK'
    BY <1>1, <1>2 DEF GdprInv, GdprTypeOK, Consents, PersonalData, Requests, Erasures
  <1>4. RecordsKept(records, records') /\ RequestsKept(subjectRequests, subjectRequests')
    BY <1>1, KeptAsIs DEF GdprInv
  <1> QED
    BY <1>1, <1>2, <1>3, <1>4, GdprRests

LEMMA SetKept ==
    ASSUME NEW x \in PersonalData, NEW kept \in {"anonymized", "corrected", "deleted"}
    PROVE  LET new == [x EXCEPT !.kept = kept]
           IN  /\ new \in PersonalData /\ new.subject = x.subject /\ new.type = x.type
               /\ new.kept = kept
  BY DEF PersonalData

\* Retention deletes records and denies consents, both past their time.
LEMMA RetentionKeeps ==
    ASSUME GdprInv, Gdpr!ApplyRetentionPolicy
    PROVE  GdprStep
  <1> DEFINE newRecord(i) == IF records[i].expires < gdprNow
                             THEN [records[i] EXCEPT !.kept = "deleted"] ELSE records[i]
             newConsent(i) == IF consents[i].status = "granted" /\ consents[i].expires < gdprNow
                              THEN [consents[i] EXCEPT !.status = "denied"] ELSE consents[i]
  <1>1. /\ records' = [i \in DOMAIN records |-> newRecord(i)]
        /\ consents' = [i \in DOMAIN consents |-> newConsent(i)]
        /\ UNCHANGED <<subjectRequests, erasing, gdprNow>>
    BY DEF Gdpr!ApplyRetentionPolicy
  <1>2. /\ \A i \in DOMAIN records : records[i] \in PersonalData
        /\ \A i \in DOMAIN consents : consents[i] \in Consents
        /\ records \in Seq(PersonalData) /\ consents \in Seq(Consents)
    BY DEF GdprInv, GdprTypeOK
  <1>3. ASSUME NEW i \in DOMAIN records
        PROVE  /\ newRecord(i) \in PersonalData /\ newRecord(i).subject = records[i].subject
               /\ newRecord(i).type = records[i].type
               /\ Away(records[i].kept) => Away(newRecord(i).kept)
               /\ records[i].kept = "deleted" => newRecord(i).kept = "deleted"
    <2>1. /\ [records[i] EXCEPT !.kept = "deleted"] \in PersonalData
          /\ [records[i] EXCEPT !.kept = "deleted"].subject = records[i].subject
          /\ [records[i] EXCEPT !.kept = "deleted"].type = records[i].type
          /\ [records[i] EXCEPT !.kept = "deleted"].kept = "deleted"
      BY <1>2, SetKept
    <2>2. Away("deleted")
      BY DEF Away
    <2>3. CASE records[i].expires < gdprNow
      <3>1. newRecord(i) = [records[i] EXCEPT !.kept = "deleted"]
        BY <2>3
      <3> HIDE DEF newRecord
      <3> QED
        BY <2>1, <2>2, <3>1
    <2>4. CASE ~(records[i].expires < gdprNow)
      BY <1>2, <2>4
    <2> QED
      BY <2>3, <2>4
  <1>4. ASSUME NEW i \in DOMAIN consents
        PROVE  /\ newConsent(i) \in Consents /\ newConsent(i).subject = consents[i].subject
               /\ consents[i].status # "granted" => newConsent(i) = consents[i]
    <2>1. /\ [consents[i] EXCEPT !.status = "denied"] \in Consents
          /\ [consents[i] EXCEPT !.status = "denied"].subject = consents[i].subject
      BY <1>2, SetConsent
    <2> QED
      BY <1>2, <2>1
  <1> HIDE DEF newRecord, newConsent
  <1>5. /\ \A i \in DOMAIN records : records'[i] = newRecord(i)
        /\ \A i \in DOMAIN consents : consents'[i] = newConsent(i)
        /\ DOMAIN records' = DOMAIN records /\ records' = [i \in DOMAIN records |-> records'[i]]
        /\ DOMAIN consents' = DOMAIN consents /\ consents' = [i \in DOMAIN consents |-> consents'[i]]
    BY <1>1
  <1>6. /\ records' \in Seq(PersonalData) /\ Len(records') = Len(records)
        /\ Len(records) \in Nat /\ DOMAIN records = 1 .. Len(records)
    <2>1. \A i \in DOMAIN records : records'[i] \in PersonalData
      BY <1>3, <1>5
    <2> QED
      BY <1>2, <1>5, <2>1, Rewritten
  <1>7. /\ consents' \in Seq(Consents) /\ Len(consents') = Len(consents)
        /\ Len(consents) \in Nat /\ DOMAIN consents = 1 .. Len(consents)
    <2>1. \A i \in DOMAIN consents : consents'[i] \in Consents
      BY <1>4, <1>5
    <2> QED
      BY <1>2, <1>5, <2>1, Rewritten
  <1>8. RecordsKept(records, records')
    BY <1>3, <1>5, <1>6 DEF RecordsKept
  <1>9. ConsentsKept(consents, consents')
    <2>1. ASSUME NEW i \in 1 .. Len(consents)
          PROVE  /\ consents'[i].subject = consents[i].subject
                 /\ consents[i].status # "granted" => consents'[i].status # "granted"
                 /\ consents[i].status = "withdrawn" => consents'[i].status = "withdrawn"
      BY <1>4, <1>5, <1>7
    <2> QED
      BY <1>7, <2>1 DEF ConsentsKept
  <1>10. GdprTypeOK'
    BY <1>1, <1>6, <1>7 DEF GdprInv, GdprTypeOK, Consents, PersonalData, Requests, Erasures
  <1>11. RequestsKept(subjectRequests, subjectRequests')
    BY <1>1, KeptAsIs DEF GdprInv
  <1> QED
    BY <1>1, <1>8, <1>9, <1>10, <1>11, GdprRests

LEMMA SubmitKeeps ==
    ASSUME GdprInv, NEW s \in Subjects, NEW right \in Rights,
           Gdpr!SubmitDataSubjectRequest(s, right)
    PROVE  GdprStep
  <1> DEFINE new == [subject |-> s, right |-> right, status |-> "pending", verified |-> ~Verifying,
                     began |-> [records |-> 0, consents |-> 0], all |-> FALSE]
             n == Len(subjectRequests)
  <1>1. /\ subjectRequests' = Append(subjectRequests, new)
        /\ erasing' = Append(erasing, Gdpr!NotErasing)
        /\ UNCHANGED <<consents, records, gdprNow>>
    BY DEF Gdpr!SubmitDataSubjectRequest
  <1>2. new \in Requests /\ new.began.records = 0 /\ new.began.consents = 0 /\ ~new.all
    BY DEF Requests
  <1>3. Gdpr!NotErasing \in Erasures /\ ~Gdpr!NotErasing.awaits /\ Gdpr!NotErasing.left = {}
    BY DEF Gdpr!NotErasing, Erasures
  <1> HIDE DEF new
  <1>4. /\ subjectRequests' \in Seq(Requests) /\ Len(subjectRequests') = n + 1 /\ n \in Nat
        /\ DOMAIN subjectRequests' = 1 .. n + 1 /\ DOMAIN subjectRequests = 1 .. n
        /\ subjectRequests'[n + 1] = new
        /\ \A i \in 1 .. n : subjectRequests'[i] = subjectRequests[i]
    <2>1. subjectRequests \in Seq(Requests)
      BY DEF GdprInv, GdprTypeOK
    <2> QED
      BY <1>1, <1>2, <2>1, Appended
  <1>5. /\ erasing' \in Seq(Erasures) /\ Len(erasing') = n + 1
        /\ erasing'[n + 1] = Gdpr!NotErasing
        /\ \A i \in 1 .. n : erasing'[i] = erasing[i]
    <2>1. erasing \in Seq(Erasures) /\ Len(erasing) = n
      BY DEF GdprInv, GdprTypeOK
    <2> HIDE DEF n
    <2> QED
      BY <1>1, <1>3, <2>1, Appended
  <1>6. RecordsKept(records, records') /\ ConsentsKept(consents, consents')
    BY <1>1, KeptAsIs DEF GdprInv
  <1>7. GdprTypeOK'
    BY <1>1, <1>4, <1>5 DEF GdprInv, GdprTypeOK, Consents, PersonalData, Requests, Erasures
  <1>8. Len(records') \in Nat /\ Len(consents') \in Nat
    BY <1>7 DEF GdprTypeOK
  <1> HIDE DEF n
  <1>9. ASSUME NEW r \in 1 .. n PROVE Followed(r)'
    <2>1. r \in DOMAIN subjectRequests /\ Followed(r)
      BY <1>4 DEF GdprInv
    <2> QED
      BY <1>4, <1>5, <1>6, <1>8, <2>1, FollowedStays DEF GdprInv
  <1>10. PICK last : last = n + 1
    OBVIOUS
  <1>11. Followed(last)'
    <2>1. subjectRequests'[last] = new /\ erasing'[last] = Gdpr!NotErasing
      BY <1>4, <1>5, <1>10
    <2> QED
      BY <1>2, <1>3, <1>8, <2>1 DEF Followed, Gone, Ended
  <1>12. \A r \in DOMAIN subjectRequests' : r \in 1 .. n \/ r = last
    BY <1>4, <1>10
  <1>13. \A r \in DOMAIN subjectRequests' : Followed(r)'
    BY <1>9, <1>11, <1>12
  <1>14. RequestsKept(subjectRequests, subjectRequests')
    BY <1>4 DEF RequestsKept, SameRequest, n
  <1> QED
    BY <1>6, <1>7, <1>13, <1>14 DEF GdprStep, GdprInv

LEMMA Verified ==
    ASSUME NEW q \in Requests
    PROVE  LET seen == [q EXCEPT !.verified = TRUE]
               new == [seen EXCEPT !.status = "processing"]
           IN  /\ new \in Requests /\ SameRequest(q, new)
               /\ new.subject = q.subject /\ new.began = q.began /\ new.all = q.all
  <1> DEFINE seen == [q EXCEPT !.verified = TRUE]
  <1>1. /\ seen \in Requests /\ SameRequest(q, seen)
        /\ seen.subject = q.subject /\ seen.began = q.began /\ seen.all = q.all
    BY DEF Requests, SameRequest
  <1> HIDE DEF seen
  <1>2. LET new == [seen EXCEPT !.status = "processing"]
        IN  /\ new \in Requests /\ SameRequest(seen, new)
            /\ new.subject = seen.subject /\ new.began = seen.began /\ new.all = seen.all
    BY <1>1, SetStatus
  <1> QED
    BY <1>1, <1>2 DEF seen, SameRequest

\* A change of the status of a request.
LEMMA StatusStep ==
    ASSUME GdprInv, NEW r \in DOMAIN subjectRequests, NEW new \in Requests,
           new.subject = subjectRequests[r].subject, new.began = subjectRequests[r].began,
           new.all = subjectRequests[r].all, SameRequest(subjectRequests[r], new),
           subjectRequests' = [subjectRequests EXCEPT ![r] = new],
           UNCHANGED <<consents, records, erasing, gdprNow>>
    PROVE  GdprStep
  <1>1. subjectRequests \in Seq(Requests)
    BY DEF GdprInv, GdprTypeOK
  <1>2. /\ subjectRequests' \in Seq(Requests) /\ Len(subjectRequests') = Len(subjectRequests)
        /\ subjectRequests'[r] = new
        /\ \A q \in DOMAIN subjectRequests : q # r => subjectRequests'[q] = subjectRequests[q]
    BY <1>1
  <1>3. GdprTypeOK'
    BY <1>2 DEF GdprInv, GdprTypeOK, Consents, PersonalData, Requests, Erasures
  <1>4. RecordsKept(records, records') /\ ConsentsKept(consents, consents')
    BY KeptAsIs DEF GdprInv
  <1>5. RequestsKept(subjectRequests, subjectRequests')
    BY <1>1, OneRequest
  <1> QED
    BY <1>2, <1>3, <1>4, <1>5, GdprRests

LEMMA VerifyDataSubjectKeeps ==
    ASSUME GdprInv, NEW r \in DOMAIN subjectRequests, Gdpr!VerifyDataSubject(r)
    PROVE  GdprStep
  <1> DEFINE q == subjectRequests[r]
             seen == [q EXCEPT !.verified = TRUE]
             new == [seen EXCEPT !.status = "processing"]
  <1>1. /\ subjectRequests' = [subjectRequests EXCEPT ![r].verified = TRUE, ![r].status = "processing"]
        /\ UNCHANGED <<consents, records, erasing, gdprNow>>
    BY DEF Gdpr!VerifyDataSubject
  <1>2. q \in Requests /\ subjectRequests \in Seq(Requests)
    BY DEF GdprInv, GdprTypeOK
  <1>3. /\ new \in Requests /\ new.subject = q.subject /\ new.began = q.began /\ new.all = q.all
        /\ SameRequest(q, new)
    <2> HIDE DEF q
    <2> QED
      BY <1>2, Verified, Zenon
  <1>4. subjectRequests' = [subjectRequests EXCEPT ![r] = new]
    BY <1>1, <1>2
  <1> HIDE DEF new
  <1> QED
    BY <1>1, <1>3, <1>4, StatusStep

LEMMA ProcessWithoutErasingKeeps ==
    ASSUME GdprInv, NEW r \in DOMAIN subjectRequests, Gdpr!ProcessWithoutErasing(r)
    PROVE  GdprStep
  <1> DEFINE q == subjectRequests[r]
             new == [q EXCEPT !.status = "completed"]
  <1>1. /\ subjectRequests' = [subjectRequests EXCEPT ![r] = new]
        /\ UNCHANGED <<consents, records, erasing, gdprNow>>
    BY DEF Gdpr!ProcessWithoutErasing
  <1>2. q \in Requests
    BY DEF GdprInv, GdprTypeOK
  <1>3. /\ new \in Requests /\ new.subject = q.subject /\ new.began = q.began /\ new.all = q.all
        /\ SameRequest(q, new)
    BY <1>2, SetStatus
  <1> HIDE DEF new
  <1> QED
    BY <1>1, <1>3, StatusStep

\* A rectification: raw data goes into one record of the subject, which no erasure deleted.
LEMMA ProcessDataRectificationRequestKeeps ==
    ASSUME GdprInv, NEW r \in DOMAIN subjectRequests, NEW type \in DataTypes,
           Gdpr!ProcessDataRectificationRequest(r, type)
    PROVE  GdprStep
  <1> DEFINE found == Gdpr!RecordsOf(subjectRequests[r].subject, type)
             first == Gdpr!Min(found)
             x == records[first]
             kept == IF x.kept = "anonymized" THEN "corrected" ELSE x.kept
             after == [x EXCEPT !.kept = kept]
             q == subjectRequests[r]
             new == [q EXCEPT !.status = "completed"]
  <1>1. /\ found # {} /\ records' = [records EXCEPT ![first] = after]
        /\ subjectRequests' = [subjectRequests EXCEPT ![r] = new]
        /\ UNCHANGED <<consents, erasing, gdprNow>>
    BY DEF Gdpr!ProcessDataRectificationRequest
  <1>2. /\ records \in Seq(PersonalData) /\ subjectRequests \in Seq(Requests) /\ q \in Requests
        /\ Len(records) \in Nat /\ DOMAIN records = 1 .. Len(records)
    BY DEF GdprInv, GdprTypeOK
  <1>3. first \in DOMAIN records /\ x.kept # "deleted"
    <2>1. found \in SUBSET Nat
      BY <1>2 DEF Gdpr!RecordsOf
    <2>2. first \in found
      BY <1>1, <2>1, GdprMin
    <2> QED
      BY <2>2 DEF Gdpr!RecordsOf
  <1> HIDE DEF first, found
  <1>4. /\ after \in PersonalData /\ after.subject = x.subject /\ after.type = x.type
        /\ Away(x.kept) => Away(after.kept)
    <2>1. x \in PersonalData
      BY <1>2, <1>3
    <2> HIDE DEF x
    <2>2. x.kept \in {"raw", "anonymized", "corrected", "deleted"}
      BY <2>1 DEF PersonalData
    <2>3. after \in PersonalData /\ after.subject = x.subject /\ after.type = x.type /\ after.kept = kept
      BY <2>1 DEF PersonalData
    <2>4. Away(x.kept) => Away(kept)
      BY DEF Away
    <2> HIDE DEF after, kept
    <2> QED
      BY <2>3, <2>4
  <1> HIDE DEF after
  <1>5. /\ records' \in Seq(PersonalData) /\ Len(records') = Len(records) /\ records'[first] = after
        /\ \A i \in DOMAIN records : i # first => records'[i] = records[i]
    BY <1>1, <1>2, <1>3, <1>4
  <1>6. RecordsKept(records, records')
    <2>1. ASSUME NEW i \in 1 .. Len(records)
          PROVE  /\ records'[i].subject = records[i].subject /\ records'[i].type = records[i].type
                 /\ Away(records[i].kept) => Away(records'[i].kept)
                 /\ records[i].kept = "deleted" => records'[i].kept = "deleted"
      <3>1. CASE i = first
        BY <1>3, <1>4, <1>5, <3>1
      <3>2. CASE i # first
        BY <1>2, <1>5, <3>2
      <3> QED
        BY <3>1, <3>2
    <2> QED
      BY <1>2, <1>5, <2>1 DEF RecordsKept
  <1>7. /\ new \in Requests /\ new.subject = q.subject /\ new.began = q.began /\ new.all = q.all
        /\ SameRequest(q, new)
    BY <1>2, SetStatus
  <1> HIDE DEF new
  <1>8. /\ subjectRequests' \in Seq(Requests) /\ Len(subjectRequests') = Len(subjectRequests)
        /\ subjectRequests'[r] = new
        /\ \A p \in DOMAIN subjectRequests : p # r => subjectRequests'[p] = subjectRequests[p]
    BY <1>1, <1>2, <1>7
  <1>9. RequestsKept(subjectRequests, subjectRequests')
    BY <1>1, <1>2, <1>7, OneRequest
  <1>10. GdprTypeOK'
    BY <1>1, <1>5, <1>8 DEF GdprInv, GdprTypeOK, Consents, PersonalData, Requests, Erasures
  <1>11. ConsentsKept(consents, consents')
    BY <1>1, KeptAsIs DEF GdprInv
  <1>12. \A p \in DOMAIN subjectRequests :
            /\ subjectRequests'[p].subject = subjectRequests[p].subject
            /\ subjectRequests'[p].began = subjectRequests[p].began
            /\ subjectRequests'[p].all = subjectRequests[p].all
    BY <1>7, <1>8
  <1> HIDE DEF q, x
  <1> QED
    BY <1>1, <1>6, <1>8, <1>9, <1>10, <1>11, <1>12, GdprRests

Begin(q, every, n, m) ==
    [[q EXCEPT !.all = every] EXCEPT !.began = [records |-> n, consents |-> m]]

LEMMA BeginRequest ==
    ASSUME NEW q \in Requests, NEW every \in BOOLEAN, NEW n \in Nat, NEW m \in Nat
    PROVE  /\ Begin(q, every, n, m) \in Requests /\ Begin(q, every, n, m).subject = q.subject
           /\ Begin(q, every, n, m).all = every /\ SameRequest(q, Begin(q, every, n, m))
           /\ Begin(q, every, n, m).began.records = n /\ Begin(q, every, n, m).began.consents = m
  <1> DEFINE meant == [q EXCEPT !.all = every]
             new == [meant EXCEPT !.began = [records |-> n, consents |-> m]]
  <1>1. /\ meant \in Requests /\ meant.subject = q.subject /\ meant.all = every
        /\ meant.right = q.right /\ meant.verified = q.verified
    BY DEF Requests
  <1> HIDE DEF meant
  <1>2. /\ new \in Requests /\ new.subject = meant.subject /\ new.all = meant.all
        /\ new.right = meant.right /\ new.verified = meant.verified
    BY <1>1 DEF Requests
  <1>3. new.began = [records |-> n, consents |-> m]
    BY <1>1 DEF Requests
  <1>4. Begin(q, every, n, m) = new
    BY DEF Begin, meant
  <1> HIDE DEF new
  <1> QED
    BY <1>1, <1>2, <1>3, <1>4 DEF SameRequest

\* An erasure begins: no record of the subject and a type that is meant stays raw.
LEMMA ProcessDataErasureRequestKeeps ==
    ASSUME GdprInv, NEW r \in DOMAIN subjectRequests, NEW types \in SUBSET DataTypes,
           Gdpr!ProcessDataErasureRequest(r, types)
    PROVE  GdprStep
  <1> DEFINE s == subjectRequests[r].subject
             n == Len(records)
             m == Len(consents)
             q == subjectRequests[r]
             every == (types = {})
             new == Begin(q, every, n, m)
             requests == [subjectRequests EXCEPT ![r] = new]
             left == {i \in DOMAIN consents : consents[i].subject = s}
             how == IF Anonymizing THEN "anonymized" ELSE "deleted"
             newRecord(i) == IF /\ records[i].subject = s /\ records[i].kept # "deleted"
                                /\ types = {} \/ records[i].type \in types
                             THEN [records[i] EXCEPT !.kept = how] ELSE records[i]
  <1>1. /\ subjectRequests \in Seq(Requests) /\ records \in Seq(PersonalData)
        /\ consents \in Seq(Consents) /\ n \in Nat /\ m \in Nat
        /\ DOMAIN records = 1 .. n /\ DOMAIN consents = 1 .. m
    BY DEF GdprInv, GdprTypeOK
  <1>2. /\ records' = [i \in DOMAIN records |-> newRecord(i)] /\ gdprNow' = gdprNow
        /\ Gdpr!WithdrawNext(r, left, requests)
    <2> DEFINE begun == [subjectRequests EXCEPT
                ![r].all = (types = {}), ![r].began = [records |-> n, consents |-> m]]
    <2>1. /\ records' = Gdpr!Erased(s, types) /\ gdprNow' = gdprNow
          /\ Gdpr!WithdrawNext(r, Gdpr!ConsentsOf(s), begun)
      BY DEF Gdpr!ProcessDataErasureRequest
    <2>2. begun = requests
      BY <1>1 DEF Begin
    <2>3. Gdpr!ConsentsOf(s) = left
      BY DEF Gdpr!ConsentsOf
    <2>4. Gdpr!Erased(s, types) = [i \in DOMAIN records |-> newRecord(i)]
      BY DEF Gdpr!Erased
    <2> HIDE DEF requests, left, newRecord, begun
    <2> QED
      BY <2>1, <2>2, <2>3, <2>4
  <1>3. /\ new \in Requests /\ new.subject = s /\ new.all = (types = {})
        /\ new.began.records = n /\ new.began.consents = m /\ SameRequest(q, new)
    <2>1. q \in Requests /\ every \in BOOLEAN /\ n \in Nat /\ m \in Nat
      BY <1>1
    <2> HIDE DEF q, every, n, m
    <2>2. /\ new \in Requests /\ new.subject = q.subject /\ new.all = every
          /\ new.began.records = n /\ new.began.consents = m /\ SameRequest(q, new)
      BY <2>1, BeginRequest
    <2> QED
      BY <2>2 DEF q, every
  <1> HIDE DEF new
  <1>4. /\ requests \in Seq(Requests) /\ Len(requests) = Len(subjectRequests)
        /\ requests[r] = new
        /\ \A p \in DOMAIN subjectRequests : p # r => requests[p] = subjectRequests[p]
    BY <1>1, <1>3
  <1>5. ASSUME NEW i \in DOMAIN records
        PROVE  /\ newRecord(i) \in PersonalData /\ newRecord(i).subject = records[i].subject
               /\ newRecord(i).type = records[i].type
               /\ Away(records[i].kept) => Away(newRecord(i).kept)
               /\ records[i].kept = "deleted" => newRecord(i).kept = "deleted"
               /\ types = {} /\ records[i].subject = s => Away(newRecord(i).kept)
    <2>1. records[i] \in PersonalData /\ how \in {"anonymized", "corrected", "deleted"}
      BY <1>1
    <2>2. Away(how) /\ Away("deleted")
      BY DEF Away
    <2> HIDE DEF how
    <2>3. /\ [records[i] EXCEPT !.kept = how] \in PersonalData
          /\ [records[i] EXCEPT !.kept = how].subject = records[i].subject
          /\ [records[i] EXCEPT !.kept = how].type = records[i].type
          /\ [records[i] EXCEPT !.kept = how].kept = how
      <3>1. PICK x \in PersonalData : x = records[i]
        BY <2>1
      <3> QED
        BY <2>1, <3>1, SetKept
    <2>4. CASE newRecord(i) = [records[i] EXCEPT !.kept = how] /\ records[i].kept # "deleted"
      <3> HIDE DEF newRecord
      <3> QED
        BY <2>2, <2>3, <2>4
    <2>5. CASE /\ newRecord(i) = records[i]
               /\ ~(types = {} /\ records[i].subject = s) \/ records[i].kept = "deleted"
      <3> HIDE DEF newRecord
      <3> QED
        BY <2>1, <2>2, <2>5
    <2> QED
      BY <2>4, <2>5
  <1> HIDE DEF newRecord, requests
  <1>6. /\ \A i \in DOMAIN records : records'[i] = newRecord(i)
        /\ DOMAIN records' = DOMAIN records /\ records' = [i \in DOMAIN records |-> records'[i]]
    BY <1>2
  <1>7. records' \in Seq(PersonalData) /\ Len(records') = n
    <2>1. \A i \in DOMAIN records : records'[i] \in PersonalData
      BY <1>5, <1>6
    <2> QED
      BY <1>1, <1>6, <2>1, Rewritten
  <1>8. RecordsKept(records, records')
    BY <1>1, <1>5, <1>6, <1>7 DEF RecordsKept
  <1>9. requests[r].all =>
           \A i \in 1 .. requests[r].began.records :
              records'[i].subject = requests[r].subject => Away(records'[i].kept)
    <2>1. ASSUME new.all, NEW i \in 1 .. n, records'[i].subject = s
          PROVE  Away(records'[i].kept)
      <3>1. types = {} /\ i \in DOMAIN records
        BY <1>1, <1>3, <2>1
      <3>2. records'[i] = newRecord(i) /\ newRecord(i).subject = records[i].subject
        BY <1>5, <1>6, <3>1
      <3> QED
        BY <1>5, <2>1, <3>1, <3>2
    <2> QED
      BY <1>3, <1>4, <2>1
  <1>10. left \in SUBSET (1 .. m) /\ Ended(requests[r], left)
    BY <1>1, <1>3, <1>4 DEF Ended
  <1>11. requests[r].began.records <= Len(records') /\ requests[r].began.consents <= m
    BY <1>1, <1>3, <1>4, <1>7
  <1>12. RequestsKept(subjectRequests, requests)
    BY <1>1, <1>3, OneRequest DEF requests
  <1> HIDE DEF left, n, m
  <1> QED
    BY <1>2, <1>4, <1>7, <1>8, <1>9, <1>10, <1>11, <1>12, WithdrawNextKeeps DEF m

LEMMA ContinueErasureKeeps ==
    ASSUME GdprInv, NEW r \in DOMAIN subjectRequests, Gdpr!ContinueErasure(r)
    PROVE  GdprStep
  <1>1. Gdpr!WithdrawNext(r, erasing[r].left, subjectRequests) /\ UNCHANGED <<records, gdprNow>>
    BY DEF Gdpr!ContinueErasure
  <1>2. Followed(r) /\ subjectRequests \in Seq(Requests) /\ records \in Seq(PersonalData)
    BY DEF GdprInv, GdprTypeOK
  <1>3. /\ subjectRequests[r].began.records <= Len(records') /\ Gone(subjectRequests[r])
        /\ subjectRequests[r].began.consents <= Len(consents)
        /\ Ended(subjectRequests[r], erasing[r].left)
        /\ erasing[r].left \in SUBSET (1 .. Len(consents))
    BY <1>1, <1>2 DEF Followed
  <1>4. subjectRequests[r].all =>
           \A i \in 1 .. subjectRequests[r].began.records :
              records'[i].subject = subjectRequests[r].subject => Away(records'[i].kept)
    BY <1>1, <1>3 DEF Gone
  <1>5. /\ RecordsKept(records, records') /\ records' \in Seq(PersonalData)
        /\ RequestsKept(subjectRequests, subjectRequests)
    BY <1>1, <1>2, KeptAsIs DEF GdprInv
  <1>6. gdprNow' = gdprNow
    BY <1>1
  <1> QED
    BY <1>1, <1>2, <1>3, <1>4, <1>5, <1>6, WithdrawNextKeeps

LEMMA NextGdpr ==
    ASSUME GdprInv, Gdpr!Next \/ UNCHANGED gdprVars
    PROVE  GdprStep
  <1>1. ASSUME NEW s \in Subjects, NEW p \in Purposes, NEW status \in ConsentStatuses,
               Gdpr!RecordConsent(s, p, status)
        PROVE  GdprStep
    BY <1>1, RecordConsentKeeps
  <1>2. ASSUME NEW s \in Subjects, NEW type \in DataTypes, NEW p \in Purposes,
               \E basis \in {"consent", "contract"} : Gdpr!StorePersonalData(s, type, p, basis)
        PROVE  GdprStep
    BY <1>2, StorePersonalDataKeeps
  <1>3. ASSUME NEW s \in Subjects, NEW right \in Rights, Gdpr!SubmitDataSubjectRequest(s, right)
        PROVE  GdprStep
    BY <1>3, SubmitKeeps
  <1>4. ASSUME NEW i \in DOMAIN consents, Gdpr!WithdrawConsent(i) PROVE GdprStep
    BY <1>4, WithdrawConsentKeeps
  <1>5. ASSUME NEW r \in DOMAIN subjectRequests, Gdpr!VerifyDataSubject(r) PROVE GdprStep
    BY <1>5, VerifyDataSubjectKeeps
  <1>6. /\ \A r \in DOMAIN subjectRequests : Gdpr!ProcessWithoutErasing(r) => GdprStep
        /\ \A r \in DOMAIN subjectRequests, type \in DataTypes :
              Gdpr!ProcessDataRectificationRequest(r, type) => GdprStep
    BY ProcessWithoutErasingKeeps, ProcessDataRectificationRequestKeeps
  <1>7. ASSUME NEW r \in DOMAIN subjectRequests, NEW types \in SUBSET DataTypes,
               Gdpr!ProcessDataErasureRequest(r, types)
        PROVE  GdprStep
    BY <1>7, ProcessDataErasureRequestKeeps
  <1>8. ASSUME NEW r \in DOMAIN subjectRequests, Gdpr!ContinueErasure(r) PROVE GdprStep
    BY <1>8, ContinueErasureKeeps
  <1>9. CASE Gdpr!ApplyRetentionPolicy
    BY <1>9, RetentionKeeps
  <1>10. CASE Gdpr!GdprTick \/ UNCHANGED gdprVars
    <2>1. /\ UNCHANGED <<consents, records, subjectRequests, erasing>>
          /\ gdprNow' \in {gdprNow, gdprNow + 1}
      BY <1>10 DEF Gdpr!GdprTick, gdprVars
    <2>2. GdprTypeOK'
      BY <2>1 DEF GdprInv, GdprTypeOK, Consents, PersonalData, Requests, Erasures
    <2>3. /\ RecordsKept(records, records') /\ ConsentsKept(consents, consents')
          /\ RequestsKept(subjectRequests, subjectRequests')
      BY <2>1, KeptAsIs DEF GdprInv
    <2> QED
      BY <2>1, <2>2, <2>3, GdprRests
  <1> QED
    BY <1>1, <1>2, <1>3, <1>4, <1>5, <1>6, <1>7, <1>8, <1>9, <1>10 DEF Gdpr!Next

\* What a rectification was granted for stays granted: no step takes the rectification back,
\* and the records before the one it went into stay deleted.
LEMMA RectifiableStays ==
    ASSUME GdprInv, GdprStep, NEW i \in DOMAIN records, Gdpr!Rectifiable(i)
    PROVE  Gdpr!Rectifiable(i)'
  <1>1. /\ Len(records) \in Nat /\ DOMAIN records = 1 .. Len(records)
        /\ Len(subjectRequests) \in Nat /\ DOMAIN subjectRequests = 1 .. Len(subjectRequests)
        /\ Len(subjectRequests') \in Nat /\ DOMAIN subjectRequests' = 1 .. Len(subjectRequests')
    BY DEF GdprStep, GdprInv, GdprTypeOK
  <1>2. PICK r \in DOMAIN subjectRequests :
           /\ subjectRequests[r].right = "rectification" /\ subjectRequests[r].verified
           /\ subjectRequests[r].subject = records[i].subject
    BY DEF Gdpr!Rectifiable
  <1>3. /\ SameRequest(subjectRequests[r], subjectRequests'[r]) /\ r \in DOMAIN subjectRequests'
        /\ records'[i].subject = records[i].subject /\ records'[i].type = records[i].type
    BY <1>1 DEF GdprStep, RequestsKept, RecordsKept
  <1>4. ASSUME NEW j \in 1 .. i - 1,
               records'[j].subject = records'[i].subject, records'[j].type = records'[i].type
        PROVE  records'[j].kept = "deleted"
    <2>1. j \in 1 .. Len(records)
      BY <1>1
    <2>2. /\ records'[j].subject = records[j].subject /\ records'[j].type = records[j].type
          /\ records[j].kept = "deleted" => records'[j].kept = "deleted"
      BY <2>1 DEF GdprStep, RecordsKept
    <2> QED
      BY <1>3, <1>4, <2>2 DEF Gdpr!Rectifiable
  <1> QED
    BY <1>2, <1>3, <1>4 DEF Gdpr!Rectifiable, SameRequest

\* What is corrected was, or has just been rectified.
LEMMA CorrectedBefore ==
    ASSUME GdprInv, Gdpr!Next \/ UNCHANGED gdprVars,
           ~ \E r \in DOMAIN subjectRequests, type \in DataTypes :
                Gdpr!ProcessDataRectificationRequest(r, type),
           NEW i \in DOMAIN records', records'[i].kept = "corrected"
    PROVE  i \in DOMAIN records /\ records[i].kept = "corrected"
  <1>1. records \in Seq(PersonalData)
    BY DEF GdprInv, GdprTypeOK
  <1>2. CASE UNCHANGED records
    BY <1>2
  <1>3. ASSUME NEW s \in Subjects, NEW type \in DataTypes, NEW p \in Purposes,
               NEW basis \in {"consent", "contract"}, Gdpr!StorePersonalData(s, type, p, basis)
        PROVE  i \in DOMAIN records /\ records[i].kept = "corrected"
    <2> DEFINE new == [subject |-> s, type |-> type, kept |-> "raw",
                       expires |-> gdprNow + RetentionLife]
    <2>1. records' = Append(records, new)
      BY <1>3 DEF Gdpr!StorePersonalData
    <2>2. new \in PersonalData /\ new.kept = "raw"
      BY RecordsAssumption DEF GdprInv, GdprTypeOK, PersonalData
    <2> HIDE DEF new
    <2> QED
      BY <1>1, <2>1, <2>2, Appended
  <1>4. CASE Gdpr!ApplyRetentionPolicy
    <2>1. /\ DOMAIN records' = DOMAIN records
          /\ records'[i] = IF records[i].expires < gdprNow
                           THEN [records[i] EXCEPT !.kept = "deleted"] ELSE records[i]
      BY <1>4 DEF Gdpr!ApplyRetentionPolicy
    <2>2. records[i] \in PersonalData
      BY <1>1, <2>1
    <2>3. [records[i] EXCEPT !.kept = "deleted"].kept = "deleted"
      BY <2>2, SetKept
    <2> QED
      BY <2>1, <2>3
  <1>5. ASSUME NEW r \in DOMAIN subjectRequests, NEW types \in SUBSET DataTypes,
               Gdpr!ProcessDataErasureRequest(r, types)
        PROVE  i \in DOMAIN records /\ records[i].kept = "corrected"
    <2> DEFINE how == IF Anonymizing THEN "anonymized" ELSE "deleted"
    <2>1. /\ DOMAIN records' = DOMAIN records
          /\ records'[i] \in {records[i], [records[i] EXCEPT !.kept = how]}
      BY <1>5 DEF Gdpr!ProcessDataErasureRequest, Gdpr!Erased
    <2>2. records[i] \in PersonalData /\ how \in {"anonymized", "deleted"}
      BY <1>1, <2>1
    <2> HIDE DEF how
    <2>3. [records[i] EXCEPT !.kept = how].kept = how
      BY <2>2, SetKept
    <2> QED
      BY <2>1, <2>2, <2>3
  <1>6. /\ UNCHANGED gdprVars \/ Gdpr!GdprTick => UNCHANGED records
        /\ \A s \in Subjects, p \in Purposes, status \in ConsentStatuses :
              Gdpr!RecordConsent(s, p, status) => UNCHANGED records
        /\ \A s \in Subjects, right \in Rights :
              Gdpr!SubmitDataSubjectRequest(s, right) => UNCHANGED records
    BY DEF gdprVars, Gdpr!GdprTick, Gdpr!RecordConsent, Gdpr!SubmitDataSubjectRequest
  <1>7. /\ \A c \in DOMAIN consents : Gdpr!WithdrawConsent(c) => UNCHANGED records
        /\ \A r \in DOMAIN subjectRequests :
              Gdpr!VerifyDataSubject(r) \/ Gdpr!ProcessWithoutErasing(r) \/ Gdpr!ContinueErasure(r) =>
                  UNCHANGED records
    BY DEF Gdpr!WithdrawConsent, Gdpr!VerifyDataSubject, Gdpr!ProcessWithoutErasing, Gdpr!ContinueErasure
  <1> QED
    BY <1>2, <1>3, <1>4, <1>5, <1>6, <1>7, Zenon DEF Gdpr!Next

\* Corrections are rectifications in every step: the one that makes a correction finds the
\* records before it deleted.
LEMMA CorrectionsKept ==
    ASSUME GdprInv, Corrections, Gdpr!Next \/ UNCHANGED gdprVars
    PROVE  Corrections'
  <1>1. GdprStep
    BY NextGdpr
  <1>2. SUFFICES ASSUME NEW i \in DOMAIN records', records'[i].kept = "corrected"
                 PROVE  Gdpr!Rectifiable(i)'
    BY DEF Corrections
  <1>3. CASE i \in DOMAIN records /\ records[i].kept = "corrected"
    BY <1>1, <1>3, RectifiableStays DEF Corrections
  <1>4. ASSUME ~(i \in DOMAIN records /\ records[i].kept = "corrected"),
               NEW r \in DOMAIN subjectRequests, NEW type \in DataTypes,
               Gdpr!ProcessDataRectificationRequest(r, type)
        PROVE  Gdpr!Rectifiable(i)'
    <2> DEFINE found == Gdpr!RecordsOf(subjectRequests[r].subject, type)
               first == Gdpr!Min(found)
               kept == IF records[first].kept = "anonymized" THEN "corrected" ELSE records[first].kept
    <2>1. /\ found # {} /\ records' = [records EXCEPT ![first].kept = kept]
          /\ subjectRequests[r].right = "rectification" /\ subjectRequests[r].verified
      BY <1>4 DEF Gdpr!ProcessDataRectificationRequest
    <2>2. /\ records \in Seq(PersonalData) /\ Len(records) \in Nat /\ DOMAIN records = 1 .. Len(records)
          /\ DOMAIN records' = DOMAIN records
      BY <2>1 DEF GdprInv, GdprTypeOK
    <2>3. first \in found /\ \A j \in found : first <= j
      <3>1. found \in SUBSET Nat
        BY <2>2 DEF Gdpr!RecordsOf
      <3> HIDE DEF found
      <3> QED
        BY <2>1, <3>1, GdprMin
    <2>4. i = first
      <3> HIDE DEF first, kept
      <3> QED
        BY <1>2, <1>4, <2>1, <2>2
    <2>5. /\ first \in DOMAIN records /\ records[first].subject = subjectRequests[r].subject
          /\ records[first].type = type
      BY <2>3 DEF Gdpr!RecordsOf
    <2> HIDE DEF first
    <2>6. ASSUME NEW j \in 1 .. i - 1, records[j].subject = records[i].subject,
                 records[j].type = records[i].type
          PROVE  records[j].kept = "deleted"
      <3>1. j \in DOMAIN records /\ ~(first <= j)
        BY <2>2, <2>4, <2>5
      <3>2. j \notin found
        BY <2>3, <3>1
      <3> QED
        BY <2>4, <2>5, <2>6, <3>1, <3>2 DEF Gdpr!RecordsOf
    <2>7. /\ \A j \in DOMAIN records : /\ records'[j].subject = records[j].subject
                                       /\ records'[j].type = records[j].type
                                       /\ records[j].kept = "deleted" => records'[j].kept = "deleted"
          /\ SameRequest(subjectRequests[r], subjectRequests'[r]) /\ r \in DOMAIN subjectRequests'
      <3>1. /\ Len(subjectRequests) \in Nat /\ DOMAIN subjectRequests = 1 .. Len(subjectRequests)
            /\ Len(subjectRequests') \in Nat /\ DOMAIN subjectRequests' = 1 .. Len(subjectRequests')
        BY <1>1 DEF GdprStep, GdprInv, GdprTypeOK
      <3> QED
        BY <1>1, <2>2, <3>1 DEF GdprStep, RecordsKept, RequestsKept
    <2>8. ASSUME NEW j \in 1 .. i - 1, records'[j].subject = records'[i].subject,
                 records'[j].type = records'[i].type
          PROVE  records'[j].kept = "deleted"
      <3>1. j \in DOMAIN records /\ i \in DOMAIN records
        BY <2>2, <2>4, <2>5
      <3> QED
        BY <2>6, <2>7, <2>8, <3>1
    <2>9. subjectRequests'[r].subject = records'[i].subject
      BY <2>4, <2>5, <2>7 DEF SameRequest
    <2> QED
      BY <2>1, <2>7, <2>8, <2>9 DEF Gdpr!Rectifiable, SameRequest
  <1> QED
    BY <1>2, <1>3, <1>4, CorrectedBefore

-----------------------------------------------------------------------------
(* The composition of the record keepers, and an erasure.                     *)

LEMMA RestSoc ==
    ASSUME SocInv, UNCHANGED socVars
    PROVE  SocInv'
  <1>1. UNCHANGED <<control, metrics, samples, sampled, socNow>> /\ socNow \in Nat /\ socNow <= socNow
    BY DEF SocInv, socVars
  <1>2. SamplesKept' /\ MetricsKept'
    BY <1>1, SamplesStay, MetricsStay DEF SocInv
  <1> QED
    BY <1>1, <1>2 DEF SocInv, Soc!Statuses

LEMMA RestThreat ==
    ASSUME ThreatInv, UNCHANGED threatVars
    PROVE  ThreatInv'
  BY DEF ThreatInv, threatVars, Indicators, Threat!Levels, LevelsOf, Threat!WorstOf

\* Of every number and order of events, samples and indicators: only retention and
\* encryption break the hash chain, and an event before the newest that is missing, has
\* changed places with its neighbour or has another type or other details shows, which of
\* another severity or of a rehashed suffix is not claimed; the event that reaches a
\* threshold raises the alert; what is younger than the window of the availability samples
\* is all there, samples of one millisecond included, and a report says no more than its
\* findings; a cached reputation is explained by the indicators, and more evidence never
\* lowers a verdict.
THEOREM RecordsAlwaysSound == RecordsSpec => RecordsSound
  <1> DEFINE Inv == AuditInv /\ SocInv /\ ThreatInv
             Timely == \A alert \in DOMAIN AlertLimits :
                          sequenceNumber' > sequenceNumber =>
                             LET recent == {i \in DOMAIN auditEvents :
                                              /\ Audit!Counted(alert, auditEvents[i])
                                              /\ auditNow - auditEvents[i].at <= Hour}
                                 mine == IF Audit!Counted(alert, Audit!Last(auditEvents')) THEN 1 ELSE 0
                             IN  alert \in alerts' <=>
                                    Audit!Cardinality(recent) + mine >= AlertLimits[alert]
  <1>1. RecordsInit => Inv
    BY InitAudit, InitSoc, InitThreat DEF RecordsInit
  <1>2. Inv /\ [RecordsNext]_recordVars => Inv'
    <2> SUFFICES ASSUME Inv, [RecordsNext]_recordVars PROVE Inv'
      OBVIOUS
    <2>1. Audit!Next \/ UNCHANGED auditVars
      BY DEF RecordsNext, recordVars
    <2>2. Soc!Next \/ UNCHANGED socVars
      BY DEF RecordsNext, recordVars
    <2>3. Threat!Next \/ UNCHANGED threatVars
      BY DEF RecordsNext, recordVars
    <2>4. AuditInv'
      BY <2>1, NextAudit
    <2>5. SocInv'
      BY <2>2, NextSoc, RestSoc
    <2>6. ThreatInv'
      BY <2>3, NextThreat, RestThreat
    <2> QED
      BY <2>4, <2>5, <2>6
  <1>3. Inv => /\ Audit!ChainBrokenOnlyByPurge /\ Audit!TamperingShows
               /\ Soc!SamplesComplete /\ Soc!LatestNoOlder /\ Soc!StatusFollowsFindings
               /\ Threat!ReputationExplained /\ Threat!VerdictMonotone
    BY AuditInvIsSound, SamplesKeptIsComplete, LatestIsLatest, StatusFollows,
       ThreatExplained, VerdictsGrow
  <1>4. Inv /\ [RecordsNext]_recordVars => [Timely]_auditVars
    <2> SUFFICES ASSUME Inv, [RecordsNext]_recordVars PROVE Timely
      OBVIOUS
    <2>1. Audit!Next \/ UNCHANGED auditVars
      BY DEF RecordsNext, recordVars
    <2> QED
      BY <2>1, TimelyAudit
  <1>5. RecordsSpec => []Inv
    BY <1>1, <1>2, PTL DEF RecordsSpec
  <1>6. RecordsSpec => [](keeper = "audit" => Audit!ChainBrokenOnlyByPurge /\ Audit!TamperingShows)
    BY <1>3, <1>5, PTL
  <1>7. RecordsSpec => [](keeper = "soc" =>
                             Soc!SamplesComplete /\ Soc!LatestNoOlder /\ Soc!StatusFollowsFindings)
    BY <1>3, <1>5, PTL
  <1>8. RecordsSpec => [](keeper = "threat" => Threat!ReputationExplained /\ Threat!VerdictMonotone)
    BY <1>3, <1>5, PTL
  <1>9. RecordsSpec => Audit!AlertsTimely
    BY <1>4, <1>5, PTL DEF RecordsSpec, Audit!AlertsTimely, Audit!auditVars, auditVars
  <1> QED
    BY <1>6, <1>7, <1>8, <1>9, PTL DEF RecordsSound

\* Whatever happens between the awaits of an erasure: what it deleted never returns and what
\* it anonymized has raw data in it again only where a rectification of its subject was
\* granted and it is the first of its type that is left; no consent from before is in force
\* once it has completed, and a consent that ended never returns.
THEOREM ErasureAlwaysSound == RecordsSpec => ErasureSound
  <1> DEFINE NoReturn == \A i \in DOMAIN consents :
                /\ consents[i].status # "granted" => consents'[i].status # "granted"
                /\ consents[i].status = "withdrawn" => consents'[i].status = "withdrawn"
  <1>1. RecordsInit => GdprInv /\ Corrections
    BY InitGdpr DEF RecordsInit
  <1>2. GdprInv /\ [RecordsNext]_recordVars => GdprStep
    <2> SUFFICES ASSUME GdprInv, [RecordsNext]_recordVars PROVE GdprStep
      OBVIOUS
    <2>1. Gdpr!Next \/ UNCHANGED gdprVars
      BY DEF RecordsNext, recordVars
    <2> QED
      BY <2>1, NextGdpr
  <1>3. GdprInv /\ [RecordsNext]_recordVars => GdprInv'
    BY <1>2 DEF GdprStep
  <1>4. GdprInv /\ [RecordsNext]_recordVars => [NoReturn]_gdprVars
    <2> SUFFICES ASSUME GdprInv, [RecordsNext]_recordVars PROVE NoReturn
      OBVIOUS
    <2>1. ConsentsKept(consents, consents') /\ DOMAIN consents = 1 .. Len(consents)
      BY <1>2 DEF GdprStep, GdprInv, GdprTypeOK
    <2> QED
      BY <2>1 DEF ConsentsKept
  <1>5. GdprInv /\ Corrections /\ [RecordsNext]_recordVars => Corrections'
    <2> SUFFICES ASSUME GdprInv, Corrections, [RecordsNext]_recordVars PROVE Corrections'
      OBVIOUS
    <2>1. Gdpr!Next \/ UNCHANGED gdprVars
      BY DEF RecordsNext, recordVars
    <2> QED
      BY <2>1, CorrectionsKept
  <1>6. RecordsSpec => [](GdprInv /\ Corrections)
    BY <1>1, <1>3, <1>5, PTL DEF RecordsSpec
  <1>7. RecordsSpec => [](keeper = "gdpr" => Gdpr!ErasedIsGone /\ Gdpr!ErasureEndsConsent)
    BY <1>6, GdprInvIsSound, PTL
  <1>8. RecordsSpec => Gdpr!ConsentNeverReturns
    BY <1>4, <1>6, PTL DEF RecordsSpec, Gdpr!ConsentNeverReturns, Gdpr!gdprVars, gdprVars
  <1> QED
    BY <1>7, <1>8, PTL DEF ErasureSound

==============================================================================
