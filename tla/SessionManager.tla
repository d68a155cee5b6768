---------------------------- MODULE SessionManager ----------------------------
(***************************************************************************)
(* services/session-manager.ts: sessions kept in Redis, encrypted.  A call   *)
(* is a sequence of Redis commands with awaits between them; the calls of    *)
(* one process, of other processes, the cleanup jobs and the clock run in    *)
(* between.  Each SessionManager encrypts with the key its CryptoService     *)
(* drew at random when it was constructed, and can read nothing else.        *)
(***************************************************************************)
EXTENDS Naturals, FiniteSets

CONSTANTS
    Managers,       \* the processes that hold a SessionManager
    SessionIds,     \* UUIDs createSession may draw
    Calls,          \* API calls of a behaviour
    MaxAttempts,    \* options.maxAttempts
    DefaultTTL,     \* options.defaultTTL, in seconds
    AttemptWindow,  \* options.attemptWindow, in clock ticks
    Second,         \* clock ticks in a second
    MaxFaults,      \* Redis commands that fail in a behaviour (bound)
    MaxRestarts,    \* restarts of a process (bound)
    MaxTicks        \* the clock stops after so many ticks (bound)

ASSUME NoneAssumption == "none" \notin SessionIds

ASSUME SessionAssumption ==
    /\ IsFiniteSet(Calls)
    /\ IsFiniteSet(Managers)
    /\ MaxAttempts \in Nat \ {0}
    /\ DefaultTTL \in Nat \ {0}
    /\ AttemptWindow \in Nat
    /\ Second \in Nat \ {0}
    /\ MaxFaults \in Nat
    /\ MaxRestarts \in Nat
    /\ MaxTicks \in Nat

VARIABLES
    now,        \* Date.now(), and the clock of Redis
    redis,      \* the keys session:*
    epoch,      \* which key the CryptoService of each manager holds
    pc,         \* where each call is suspended
    call,       \* what each call was asked to do, and by which manager
    copy,       \* the session data a call holds
    asOf,       \* the `now` a call took before its last awaits
    result,     \* what each call returned
    job,        \* the cleanup job of each manager
    faults,     \* failed Redis commands so far
    tried,      \* history: update calls that counted their attempt
    seen,       \* history: updates completed when the call started
    disturbed,  \* history: sessions with overlapping calls or a reset counter
    ended,      \* history: sessions whose deleteSession completed
    swept       \* history: sessions a cleanup removed before their expiry

vars == <<now, redis, epoch, pc, call, copy, asOf, result, job, faults,
          tried, seen, disturbed, ended, swept>>
callVars == <<pc, call, copy, asOf, result, tried, seen>>
history == <<tried, seen, disturbed, ended, swept>>

-----------------------------------------------------------------------------
Ops == {"create", "get", "update", "check", "delete"}

\* The clock counts from 1970: any attempt window has passed since time 0.
StartTime == AttemptWindow + 1
LastTime == StartTime + MaxTicks

\* lastAttemptAt of a session nobody tried; deadline of a key without a time to
\* live.
Never == 0
Forever == 0

Data == [attempts : Nat, lastAttemptAt : Nat, verified : BOOLEAN, expiresAt : Nat]

NoData == [attempts |-> 0, lastAttemptAt |-> Never, verified |-> FALSE, expiresAt |-> 0]

NoEntry == [present |-> FALSE, data |-> NoData, key |-> <<"none", 0>>, deadline |-> 0]

Present(s) == redis[s].present
KeyOf(m) == <<m, epoch[m]>>
Readable(m, s) == redis[s].key = KeyOf(m)

FreshData == [NoData EXCEPT !.expiresAt = now + DefaultTTL * Second]

Target(c) == call[c].sid
Home(c) == call[c].at

\* A Redis command is executed and answered; or executed with the answer lost;
\* or refused.  ioredis gives up after three tries and rejects.
Outcomes == {"ok", "lost", "refused"}
Executed(out) == out # "refused"

Command(out) ==
    \/ out = "ok" /\ UNCHANGED faults
    \/ out # "ok" /\ faults < MaxFaults /\ faults' = faults + 1

Store(s, entry, out) ==
    redis' = IF Executed(out) THEN [redis EXCEPT ![s] = entry] ELSE redis

\* The call returns, and its locals are gone.
Finish(c, r) ==
    /\ pc' = [pc EXCEPT ![c] = "done"]
    /\ result' = [result EXCEPT ![c] = r]
    /\ copy' = [copy EXCEPT ![c] = NoData]
    /\ asOf' = [asOf EXCEPT ![c] = 0]

Idle == [pc |-> "idle", todo |-> {}, at |-> 0, target |-> "none"]

Init ==
    /\ now = StartTime
    /\ redis = [s \in SessionIds |-> NoEntry]
    /\ epoch = [m \in Managers |-> 0]
    /\ pc = [c \in Calls |-> "idle"]
    /\ call = [c \in Calls |-> [op |-> "none", sid |-> "none", at |-> "none",
                                correct |-> FALSE]]
    /\ copy = [c \in Calls |-> NoData]
    /\ asOf = [c \in Calls |-> 0]
    /\ result = [c \in Calls |-> "none"]
    /\ job = [m \in Managers |-> Idle]
    /\ faults = 0
    /\ tried = {}
    /\ seen = [c \in Calls |-> {}]
    /\ disturbed = {}
    /\ ended = {}
    /\ swept = {}

-----------------------------------------------------------------------------
(* Starting a call.                                                          *)

Running(c) == pc[c] \notin {"idle", "done"}
CallsOn(s) == {c \in Calls : Target(c) = s}
Drawn == {Target(c) : c \in {d \in Calls : call[d].op = "create"}}
CompletedUpdates(s) ==
    {c \in CallsOn(s) : call[c].op = "update" /\ result[c] = "updated"}

\* A client knows the id of a session once createSession returned it.
Known(s) ==
    \E c \in CallsOn(s) : call[c].op = "create" /\ result[c] = "created"

Begin(c, m, op, s, ok) ==
    /\ pc[c] = "idle"
    /\ call' = [call EXCEPT ![c] = [op |-> op, sid |-> s, at |-> m, correct |-> ok]]
    /\ seen' = [seen EXCEPT ![c] = CompletedUpdates(s)]
    /\ disturbed' = IF \E d \in CallsOn(s) : Running(d)
                    THEN disturbed \cup {s} ELSE disturbed
    /\ UNCHANGED <<now, redis, epoch, asOf, result, job, faults, tried, ended, swept>>

\* Sessions are created early enough for the clock to reach their expiry (bound).
CreateStart(c, m, s) ==
    /\ s \notin Drawn
    /\ now + DefaultTTL * Second < LastTime
    /\ Begin(c, m, "create", s, FALSE)
    /\ pc' = [pc EXCEPT ![c] = "creating"]
    /\ copy' = [copy EXCEPT ![c] = FreshData]

\* getSession, updateSession and isMaxAttemptsReached all start with the read.
ReadStart(c, m, op, s, ok) ==
    /\ op \in {"get", "update", "check"}
    /\ op # "update" => ~ok
    /\ Known(s)
    /\ Begin(c, m, op, s, ok)
    /\ pc' = [pc EXCEPT ![c] = "reading"]
    /\ UNCHANGED copy

DeleteStart(c, m, s) ==
    /\ Known(s)
    /\ Begin(c, m, "delete", s, FALSE)
    /\ pc' = [pc EXCEPT ![c] = "deleting"]
    /\ UNCHANGED copy

-----------------------------------------------------------------------------
(* The Redis commands of a call, and what it does with their answers.        *)

Entry(c, deadline) ==
    [present |-> TRUE, data |-> copy[c], key |-> KeyOf(Home(c)), deadline |-> deadline]

\* createSession: setex with the default time to live.
CreateStore(c, out) ==
    /\ pc[c] = "creating"
    /\ Command(out)
    /\ Store(Target(c), Entry(c, now + DefaultTTL * Second), out)
    /\ Finish(c, IF out = "ok" THEN "created" ELSE "createError")
    /\ UNCHANGED <<now, epoch, call, job, history>>

\* getSession: get and decrypt.  Missing, unreadable and failed are all null.
Read(c, out) ==
    /\ pc[c] = "reading"
    /\ Command(out)
    /\ \/ /\ out = "ok" /\ Present(Target(c)) /\ Readable(Home(c), Target(c))
          /\ copy' = [copy EXCEPT ![c] = redis[Target(c)].data]
          /\ pc' = [pc EXCEPT ![c] = "read"]
          /\ UNCHANGED <<result, asOf>>
       \/ /\ ~(out = "ok" /\ Present(Target(c)) /\ Readable(Home(c), Target(c)))
          /\ Finish(c, "missing")
    /\ UNCHANGED <<now, redis, epoch, call, job, history>>

Expired(c) == now > copy[c].expiresAt

ReadExpired(c) ==
    /\ pc[c] = "read"
    /\ Expired(c)
    /\ pc' = [pc EXCEPT ![c] = "expiring"]
    /\ UNCHANGED <<now, redis, epoch, call, copy, asOf, result, job, faults, history>>

ReadReturns(c) ==
    /\ pc[c] = "read"
    /\ ~Expired(c)
    /\ call[c].op = "get"
    /\ Finish(c, "found")
    /\ UNCHANGED <<now, redis, epoch, call, job, faults, history>>

\* Mistakes: the attempt is counted twice, or only when the answer is wrong; a wrong
\* answer verifies; the deadline is pushed back.
CountTwice(c) ==
    [copy[c] EXCEPT !.lastAttemptAt = now, !.attempts = @ + 2,
                    !.verified = @ \/ call[c].correct]
CountWrongOnly(c) ==
    [copy[c] EXCEPT !.lastAttemptAt = now,
                    !.attempts = IF call[c].correct THEN @ ELSE @ + 1,
                    !.verified = @ \/ call[c].correct]
CountVerifies(c) ==
    [copy[c] EXCEPT !.lastAttemptAt = now, !.attempts = @ + 1, !.verified = TRUE]
CountExtends(c) ==
    [copy[c] EXCEPT !.lastAttemptAt = now, !.attempts = @ + 1,
                    !.verified = @ \/ call[c].correct,
                    !.expiresAt = now + DefaultTTL * Second]

Counted(c) ==
    [copy[c] EXCEPT !.lastAttemptAt = now, !.attempts = @ + 1,
                    !.verified = @ \/ call[c].correct]

\* updateSession: count the attempt in the copy, then encrypt and store.
UpdateCounts(c) ==
    /\ pc[c] = "read"
    /\ ~Expired(c)
    /\ call[c].op = "update"
    /\ copy' = [copy EXCEPT ![c] = Counted(c)]
    /\ asOf' = [asOf EXCEPT ![c] = now]
    /\ tried' = tried \cup {c}
    /\ pc' = [pc EXCEPT ![c] = "updating"]
    /\ UNCHANGED <<now, redis, epoch, call, result, job, faults, seen, disturbed,
                   ended, swept>>

AtLeastOne(n) == IF n < 1 THEN 1 ELSE n
RemainingTTL(c) == AtLeastOne((copy[c].expiresAt - asOf[c]) \div Second)

\* setex with what remained when the attempt was counted: the key is written
\* whatever became of it since the read.
UpdateStore(c, out) ==
    /\ pc[c] = "updating"
    /\ Command(out)
    /\ Store(Target(c), Entry(c, now + RemainingTTL(c) * Second), out)
    /\ Finish(c, IF out = "ok" THEN "updated" ELSE "updateError")
    /\ UNCHANGED <<now, epoch, call, job, history>>

OutsideWindow(c) == now - copy[c].lastAttemptAt > AttemptWindow

\* isMaxAttemptsReached, inside the attempt window.
CheckReturns(c) ==
    /\ pc[c] = "read"
    /\ ~Expired(c)
    /\ call[c].op = "check"
    /\ ~OutsideWindow(c)
    /\ Finish(c, IF copy[c].attempts >= MaxAttempts THEN "reached" ELSE "notReached")
    /\ UNCHANGED <<now, redis, epoch, call, job, faults, history>>

\* Outside of it: reset the counter in the copy.
CheckResets(c) ==
    /\ pc[c] = "read"
    /\ ~Expired(c)
    /\ call[c].op = "check"
    /\ OutsideWindow(c)
    /\ copy' = [copy EXCEPT ![c].attempts = 0, ![c].lastAttemptAt = Never]
    /\ pc' = [pc EXCEPT ![c] = "resetting"]
    /\ disturbed' = disturbed \cup {Target(c)}
    /\ UNCHANGED <<now, redis, epoch, call, asOf, result, job, faults, tried, seen,
                   ended, swept>>

\* set, which drops the key's time to live; an error is logged and ignored.
ResetStore(c, out) ==
    /\ pc[c] = "resetting"
    /\ Command(out)
    /\ Store(Target(c), Entry(c, Forever), out)
    /\ Finish(c, "notReached")
    /\ UNCHANGED <<now, epoch, call, job, history>>

\* deleteSession, called by the client or by getSession on an expired session.
DeleteKey(c, out) ==
    /\ pc[c] \in {"deleting", "expiring"}
    /\ Command(out)
    /\ Store(Target(c), NoEntry, out)
    /\ Finish(c, IF call[c].op = "delete" THEN "deleted" ELSE "missing")
    /\ ended' = IF call[c].op = "delete" /\ out = "ok"
                THEN ended \cup {Target(c)} ELSE ended
    /\ UNCHANGED <<now, epoch, call, job, tried, seen, disturbed, swept>>

-----------------------------------------------------------------------------
(* The cleanup job of a manager.                                             *)

\* redis.keys, and the `now` the whole sweep compares with.
CleanupScan(m, out) ==
    /\ job[m].pc = "idle"
    /\ Command(out)
    /\ job' = IF out = "ok"
              THEN [job EXCEPT ![m] = [pc |-> "sweeping", at |-> now, target |-> "none",
                                       todo |-> {s \in SessionIds : Present(s)}]]
              ELSE job
    /\ UNCHANGED <<now, redis, epoch, callVars, disturbed, ended, swept>>

\* Mistakes: a session is expired at its deadline already; an unreadable session is
\* skipped, as getSessionStats does.
DoomedEarly(m, s) ==
    Present(s) /\ (~Readable(m, s) \/ job[m].at >= redis[s].data.expiresAt)
DoomedReadable(m, s) ==
    Present(s) /\ Readable(m, s) /\ job[m].at > redis[s].data.expiresAt

Doomed(m, s) ==
    Present(s) /\ (~Readable(m, s) \/ job[m].at > redis[s].data.expiresAt)

\* Get and decrypt the next key: keep it, or delete it as expired or invalid.
\* A failed get ends the sweep.
CleanupRead(m, s, out) ==
    /\ job[m].pc = "sweeping"
    /\ s \in job[m].todo
    /\ Command(out)
    /\ \/ /\ out # "ok"
          /\ job' = [job EXCEPT ![m] = Idle]
       \/ /\ out = "ok" /\ ~Doomed(m, s)
          /\ job' = [job EXCEPT ![m].todo = @ \ {s}]
       \/ /\ out = "ok" /\ Doomed(m, s)
          /\ job' = [job EXCEPT ![m].todo = @ \ {s}, ![m].target = s,
                               ![m].pc = IF Readable(m, s) THEN "expired" ELSE "invalid"]
    /\ UNCHANGED <<now, redis, epoch, callVars, disturbed, ended, swept>>

\* del.  Its failure on an expired session is caught as if the session were
\* invalid and it is deleted again; a second failure ends the sweep.
CleanupDelete(m, out) ==
    /\ job[m].pc \in {"expired", "invalid"}
    /\ Command(out)
    /\ Store(job[m].target, NoEntry, out)
    /\ \/ /\ out = "ok"
          /\ job' = [job EXCEPT ![m].pc = "sweeping", ![m].target = "none"]
       \/ /\ out # "ok" /\ job[m].pc = "expired"
          /\ job' = [job EXCEPT ![m].pc = "invalid"]
       \/ /\ out # "ok" /\ job[m].pc = "invalid"
          /\ job' = [job EXCEPT ![m] = Idle]
    /\ swept' = IF /\ Executed(out) /\ Present(job[m].target)
                   /\ now <= redis[job[m].target].data.expiresAt
                THEN swept \cup {job[m].target} ELSE swept
    /\ UNCHANGED <<now, epoch, callVars, disturbed, ended>>

CleanupEnd(m) ==
    /\ job[m].pc = "sweeping"
    /\ job[m].todo = {}
    /\ job' = [job EXCEPT ![m] = Idle]
    /\ UNCHANGED <<now, redis, epoch, callVars, faults, disturbed, ended, swept>>

-----------------------------------------------------------------------------
\* A process restarts: its calls are lost, its new CryptoService draws a new key.
Restart(m) ==
    /\ epoch[m] < MaxRestarts
    /\ epoch' = [epoch EXCEPT ![m] = @ + 1]
    /\ job' = [job EXCEPT ![m] = Idle]
    /\ pc' = [c \in Calls |-> IF Home(c) = m /\ Running(c) THEN "done" ELSE pc[c]]
    /\ result' = [c \in Calls |-> IF Home(c) = m /\ Running(c) THEN "lost" ELSE result[c]]
    /\ copy' = [c \in Calls |-> IF Home(c) = m THEN NoData ELSE copy[c]]
    /\ asOf' = [c \in Calls |-> IF Home(c) = m THEN 0 ELSE asOf[c]]
    /\ UNCHANGED <<now, redis, call, faults, history>>

\* Time passes, and Redis drops the keys past their deadline.
Tick ==
    /\ now < LastTime
    /\ now' = now + 1
    /\ redis' = [s \in SessionIds |->
                    IF Present(s) /\ redis[s].deadline # Forever /\ now' > redis[s].deadline
                    THEN NoEntry ELSE redis[s]]
    /\ UNCHANGED <<epoch, callVars, job, faults, disturbed, ended, swept>>

Start(c) ==
    \E m \in Managers, s \in SessionIds :
        \/ CreateStart(c, m, s)
        \/ \E op \in Ops, ok \in BOOLEAN : ReadStart(c, m, op, s, ok)
        \/ DeleteStart(c, m, s)

Continue(c) ==
    \/ \E out \in Outcomes :
          CreateStore(c, out) \/ Read(c, out) \/ UpdateStore(c, out)
              \/ ResetStore(c, out) \/ DeleteKey(c, out)
    \/ ReadExpired(c)
    \/ ReadReturns(c)
    \/ UpdateCounts(c)
    \/ CheckReturns(c)
    \/ CheckResets(c)

Cleanup(m) ==
    \/ \E out \in Outcomes :
          \/ CleanupScan(m, out)
          \/ \E s \in SessionIds : CleanupRead(m, s, out)
          \/ CleanupDelete(m, out)
    \/ CleanupEnd(m)

Next ==
    \/ \E c \in Calls : Start(c) \/ Continue(c)
    \/ \E m \in Managers : Cleanup(m) \/ Restart(m)
    \/ Tick

Spec == Init /\ [][Next]_vars

\* Started calls and the interval timer's cleanups run, and time passes.
FairSpec ==
    /\ Spec
    /\ WF_vars(Tick)
    /\ \A c \in Calls : WF_vars(Continue(c))
    /\ \A m \in Managers : WF_vars(Cleanup(m))

-----------------------------------------------------------------------------
(* Properties.                                                               *)

\* Every variable keeps its shape.
TypeOK ==
    /\ now \in StartTime .. LastTime
    /\ \A s \in SessionIds :
          Present(s) => /\ redis[s].data \in Data
                        /\ redis[s].key \in Managers \X (0 .. MaxRestarts)
                        /\ redis[s].deadline \in Nat
    /\ copy \in [Calls -> Data]
    /\ \A m \in Managers : job[m].todo \subseteq SessionIds
    /\ faults \in 0 .. MaxFaults

UpdatesOn(s) == {c \in tried : Target(c) = s}

\* However updates overlap, fail or are lost, the stored counter never exceeds
\* the number of attempts made.
NeverOvercounted ==
    \A s \in SessionIds :
        Present(s) => redis[s].data.attempts <= Cardinality(UpdatesOn(s))

\* A stored session is verified only if some attempt with a correct answer was
\* counted on it.
VerifiedJustified ==
    \A s \in SessionIds :
        (Present(s) /\ redis[s].data.verified) => \E c \in UpdatesOn(s) : call[c].correct

\* Without overlapping calls, failed commands and resets, the stored counter is
\* exactly the number of completed updates, and none of them is forgotten.
SerialUpdatesCounted ==
    \A s \in SessionIds \ disturbed :
        (Present(s) /\ faults = 0)
            => redis[s].data.attempts = Cardinality(CompletedUpdates(s))

\* A session whose deletion completed comes back only if calls on it overlapped or
\* its counter was reset: some write was in flight.
DeletionUndoneByOverlap ==
    \A s \in ended \ disturbed : ~Present(s)

\* Where no calls on a session overlap, it neither loses an attempt nor returns once it
\* was deleted.
OnlyOverlapsErr == SerialUpdatesCounted /\ DeletionUndoneByOverlap

\* "Cleanup expired sessions": the job removes no session before its expiry.
CleanupOnlyExpired == swept = {}

\* The job removes a live session only when it cannot read it: another process wrote
\* it, or this one did before it was restarted with a new key.
SweepNeedsForeignKey ==
    swept # {} => Cardinality(Managers) > 1 \/ \E m \in Managers : epoch[m] > 0

\* No operation moves a session's deadline, whoever rewrites it.
ExpiryFixed ==
    [][\A s \in SessionIds :
          (Present(s) /\ Present(s)')
              => redis'[s].data.expiresAt = redis[s].data.expiresAt]_vars

\* Every key is eventually gone, also one whose time to live was dropped: the
\* cleanup job finds it.
KeysCollected == \A s \in SessionIds : Present(s) ~> ~Present(s)

-----------------------------------------------------------------------------
(* What the comments and the documentation say.                              *)

\* "Store in Redis with TTL", "time-limited sessions": every key has a deadline.
EveryKeyHasTTL == \A s \in SessionIds : Present(s) => redis[s].deadline # Forever

\* "Check if session has exceeded max attempts": the check does not answer no
\* when maxAttempts attempts were completed before it started.
CheckSeesAttempts ==
    \A c \in Calls :
        (call[c].op = "check" /\ result[c] = "notReached")
            => Cardinality(seen[c]) < MaxAttempts

============================================================================
