----------------------------- MODULE ObjectPool -----------------------------
(***************************************************************************)
(* services/performance-profiler.ts, ObjectPool: a stack of idle objects, the *)
(* set of those in use, a timer that shrinks the stack, and holders that      *)
(* outlive a clear of the pool.                                              *)
(***************************************************************************)
EXTENDS Naturals, FiniteSets, Sequences, SequencesExt

CONSTANTS
    Holders,      \* pieces of code that hold an object between acquire and release
    MaxSize,      \* poolMaxSize
    MinSize,      \* poolMinSize
    MaxCreated    \* objects of a behaviour (bound)

ASSUME PoolAssumption ==
    /\ MinSize \in Nat /\ MaxSize \in Nat /\ MaxCreated \in Nat
    /\ MinSize <= MaxSize

VARIABLES
    pool,         \* the idle objects; objects are numbered as they are created
    inUse,        \* the set inUse
    held,         \* the object a holder has, 0 for none
    totalCreated,
    cleanupTimer  \* whether the interval runs

poolVars == <<pool, inUse, held, totalCreated, cleanupTimer>>

Init ==
    /\ pool = [i \in 1 .. MinSize |-> i]
    /\ inUse = {}
    /\ held = [h \in Holders |-> 0]
    /\ totalCreated = MinSize
    /\ cleanupTimer = TRUE

Handed(h, o) == held' = [held EXCEPT ![h] = o] /\ inUse' = inUse \cup {o}

\* acquire: the last idle object, or a new one.
AcquireIdle(h) ==
    /\ held[h] = 0
    /\ pool # <<>>
    /\ Handed(h, pool[Len(pool)])
    /\ pool' = SubSeq(pool, 1, Len(pool) - 1)
    /\ UNCHANGED <<totalCreated, cleanupTimer>>

AcquireNew(h) ==
    /\ held[h] = 0
    /\ pool = <<>>
    /\ totalCreated < MaxCreated
    /\ totalCreated' = totalCreated + 1
    /\ Handed(h, totalCreated')
    /\ UNCHANGED <<pool, cleanupTimer>>

\* A mistake: a full pool leaves the object in use.
ReleaseForgetsFull(h) ==
    /\ held[h] # 0
    /\ held' = [held EXCEPT ![h] = 0]
    /\ IF held[h] \in inUse /\ Len(pool) < MaxSize
       THEN pool' = Append(pool, held[h]) /\ inUse' = inUse \ {held[h]}
       ELSE UNCHANGED <<pool, inUse>>
    /\ UNCHANGED <<totalCreated, cleanupTimer>>

\* release: an object that clear has forgotten, or that finds the pool full, is dropped.
Release(h) ==
    /\ held[h] # 0
    /\ held' = [held EXCEPT ![h] = 0]
    /\ inUse' = inUse \ {held[h]}
    /\ pool' = IF held[h] \in inUse /\ Len(pool) < MaxSize THEN Append(pool, held[h]) ELSE pool
    /\ UNCHANGED <<totalCreated, cleanupTimer>>

\* clear forgets the objects in use; their holders still have them.
Clear ==
    /\ pool' = <<>> /\ inUse' = {}
    /\ UNCHANGED <<held, totalCreated, cleanupTimer>>

\* destroy stops the timer; nothing keeps a holder from acquiring afterwards.
Destroy ==
    /\ cleanupTimer' = FALSE
    /\ pool' = <<>> /\ inUse' = {}
    /\ UNCHANGED <<held, totalCreated>>

\* startCleanupTimer: the interval shrinks the pool to its minimum.
Shrink ==
    /\ cleanupTimer
    /\ Len(pool) > MinSize
    /\ pool' = SubSeq(pool, 1, MinSize)
    /\ UNCHANGED <<inUse, held, totalCreated, cleanupTimer>>

Next ==
    \/ \E h \in Holders : AcquireIdle(h) \/ AcquireNew(h) \/ Release(h)
    \/ Clear \/ Destroy \/ Shrink

Spec == Init /\ [][Next]_poolVars

-----------------------------------------------------------------------------
(* Properties.                                                               *)

\* Variables keep their types.
PoolTypeOK ==
    /\ totalCreated \in Nat
    /\ pool \in Seq(1 .. totalCreated)
    /\ inUse \subseteq 1 .. totalCreated
    /\ held \in [Holders -> 0 .. totalCreated]
    /\ cleanupTimer \in BOOLEAN

\* Two holders never have the same object, and no holder has one that is idle, through
\* every clear and destroy that happens while objects are out.
NoSharing ==
    /\ \A g, h \in Holders : held[g] # 0 /\ held[g] = held[h] => g = h
    /\ \A h \in Holders, i \in DOMAIN pool : pool[i] # held[h]
    /\ \A i, j \in DOMAIN pool : pool[i] = pool[j] => i = j

\* The pool keeps at most poolMaxSize idle objects.
IdleBounded == Len(pool) <= MaxSize

\* What the pool counts as in use is held by someone: a release after a clear is
\* neither counted twice nor lost.
InUseHeld == \A o \in inUse : \E h \in Holders : held[h] = o

\* An object has one owner, the pool or a holder, and the pool's books say so.
PoolSound == PoolTypeOK /\ NoSharing /\ IdleBounded /\ InUseHeld

=============================================================================
