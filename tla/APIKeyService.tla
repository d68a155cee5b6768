---------------------------- MODULE APIKeyService ----------------------------
(***************************************************************************)
(* security/api-key.ts: API keys, their rotation with a grace timer, the     *)
(* rate windows of a key and its capped usage history.  Methods do not       *)
(* await; the grace timers fire between them.                                *)
(***************************************************************************)
EXTENDS Naturals, Integers, FiniteSets, Sequences, SequencesExt, FiniteSetsExt, TLC

CONSTANTS
    Users,       \* users that own keys
    Limits,      \* defaultRateLimit: a limit for each window (minute, hour, day, burst)
    Spans,       \* the length of each window
    KeyLife,     \* lifetime of a generated key
    Grace,       \* rotationGracePeriod
    MaxKeysPerUser,
    HistoryCap,  \* usage records kept for a key (1000)
    MaxKeys,     \* keys of a behaviour (bound)
    MaxUses,     \* accepted validations of a behaviour (bound)
    MaxKeyTime   \* the clock stops there (bound)

VARIABLES
    keys,        \* the metadata of keys, in order of creation; a key is its index
    userKeys,    \* userKeys: the keys known for a user
    rates,       \* rateLimitStates: a counter and a reset time for each window
    timers,      \* pending grace timers: the key and when the timer is due
    usage,       \* usageHistory: timestamps
    keyNow,      \* Date.now()
    accepted,    \* history: when each key was accepted
    since,       \* history: how many of these are older than its counters
    reactivated  \* history: keys updateAPIKey made active again

apiKeyVars == <<keys, userKeys, rates, timers, usage, keyNow, accepted, since, reactivated>>

Statuses == {"active", "revoked", "expired", "suspended"}
Windows == DOMAIN Limits
KeyIds == DOMAIN keys

FreshRate == [w \in Windows |-> [count |-> 0, resetAt |-> keyNow + Spans[w]]]

Init ==
    /\ keys = <<>>
    /\ userKeys = [u \in Users |-> {}]
    /\ rates = <<>> /\ usage = <<>> /\ accepted = <<>> /\ since = <<>>
    /\ timers = {} /\ reactivated = {}
    /\ keyNow = 1

-----------------------------------------------------------------------------
(* Creation and rotation.                                                    *)

Store(metadata) ==
    /\ Len(keys) < MaxKeys
    /\ keys' = Append(keys, metadata)
    /\ rates' = Append(rates, FreshRate)
    /\ usage' = Append(usage, <<>>)
    /\ accepted' = Append(accepted, <<>>)
    /\ since' = Append(since, 0)

Known(u, k) == userKeys' = [userKeys EXCEPT ![u] = @ \cup {k}]

\* generateAPIKey.  Keys that were revoked or expired count too.
GenerateAPIKey(u) ==
    /\ Cardinality(userKeys[u]) < MaxKeysPerUser
    /\ Store([user |-> u, status |-> "active", expiresAt |-> keyNow + KeyLife, from |-> 0])
    /\ Known(u, Len(keys) + 1)
    /\ UNCHANGED <<timers, keyNow, reactivated>>

\* A mistake: the new key is not entered among the keys of its user.
RotateUnknown(k) ==
    /\ keys[k].status = "active"
    /\ Store([keys[k] EXCEPT !.from = k])
    /\ timers' = timers \cup {[key |-> k, at |-> keyNow + Grace]}
    /\ UNCHANGED <<userKeys, keyNow, reactivated>>

\* rotateAPIKey: a second key with the same claims and expiry, whatever the number of
\* keys; the old one lives on for the grace period.
RotateAPIKey(k) ==
    /\ keys[k].status = "active"
    /\ Store([keys[k] EXCEPT !.from = k])
    /\ Known(keys[k].user, Len(keys) + 1)
    /\ timers' = timers \cup {[key |-> k, at |-> keyNow + Grace]}
    /\ UNCHANGED <<keyNow, reactivated>>

\* The callback of setTimeout.
GracePeriodEnds(timer) ==
    /\ keyNow >= timer.at
    /\ timers' = timers \ {timer}
    /\ keys' = [keys EXCEPT ![timer.key].status = IF @ = "active" THEN "revoked" ELSE @]
    /\ UNCHANGED <<userKeys, rates, usage, keyNow, accepted, since, reactivated>>

-----------------------------------------------------------------------------
(* validateAPIKey and checkRateLimit.                                        *)

\* The windows that are over start again.
Refilled(r) ==
    [w \in Windows |-> IF keyNow > r[w].resetAt
                       THEN [count |-> 0, resetAt |-> keyNow + Spans[w]] ELSE r[w]]

\* trackUsage: "Keep only last 1000 usage records per key".
Tracked(h) ==
    LET grown == Append(h, keyNow)
    IN  IF Len(grown) > HistoryCap THEN SubSeq(grown, Len(grown) - HistoryCap + 1, Len(grown))
        ELSE grown

ExpiresOnUse(k) ==
    /\ keys' = [keys EXCEPT ![k].status = "expired"]
    /\ UNCHANGED <<userKeys, rates, timers, usage, keyNow, accepted, since, reactivated>>

\* A refusal by the rate limit: the windows that were over are renewed all the same.
OverLimit(k, r) ==
    /\ \E w \in Windows : r[w].count >= Limits[w]
    /\ rates' = [rates EXCEPT ![k] = r]
    /\ UNCHANGED <<keys, userKeys, timers, usage, keyNow, accepted, since, reactivated>>

\* A validation that names an endpoint, so that it is tracked.
Accept(k, r) ==
    /\ \A w \in Windows : r[w].count < Limits[w]
    /\ SumFunction([i \in KeyIds |-> Len(accepted[i])]) < MaxUses
    /\ rates' = [rates EXCEPT ![k] = [w \in Windows |-> [r[w] EXCEPT !.count = @ + 1]]]
    /\ usage' = [usage EXCEPT ![k] = Tracked(@)]
    /\ accepted' = [accepted EXCEPT ![k] = Append(@, keyNow)]
    /\ UNCHANGED <<keys, userKeys, timers, keyNow, since, reactivated>>

\* A key that is unknown or not active, and one without the permissions or the scopes
\* asked for, is refused without a change.
ValidateAPIKey(k) ==
    /\ keys[k].status = "active"
    /\ IF keys[k].expiresAt < keyNow THEN ExpiresOnUse(k)
       ELSE \/ OverLimit(k, Refilled(rates[k]))
            \/ Accept(k, Refilled(rates[k]))

-----------------------------------------------------------------------------
(* Administration.                                                           *)

Revoked(ks) ==
    [k \in KeyIds |-> IF k \in ks THEN [keys[k] EXCEPT !.status = "revoked"] ELSE keys[k]]

RevokeAPIKey(k) ==
    /\ keys' = Revoked({k})
    /\ UNCHANGED <<userKeys, rates, timers, usage, keyNow, accepted, since, reactivated>>

RevokeAllUserKeys(u) ==
    /\ keys' = Revoked(userKeys[u])
    /\ UNCHANGED <<userKeys, rates, timers, usage, keyNow, accepted, since, reactivated>>

\* updateAPIKey with a status: any status may follow any other.
UpdateStatus(k, status) ==
    /\ keys' = [keys EXCEPT ![k].status = status]
    /\ reactivated' = IF status = "active" THEN reactivated \cup {k} ELSE reactivated
    /\ UNCHANGED <<userKeys, rates, timers, usage, keyNow, accepted, since>>

\* updateAPIKey with a rate limit: the limit is not stored, the counters start anew.
UpdateRateLimit(k) ==
    /\ rates' = [rates EXCEPT ![k] = FreshRate]
    /\ since' = [since EXCEPT ![k] = Len(accepted[k])]
    /\ UNCHANGED <<keys, userKeys, timers, usage, keyNow, accepted, reactivated>>

NewestFirst(times, sorted) ==
    /\ \A i, j \in DOMAIN sorted : i < j => sorted[i] >= sorted[j]
    /\ \A i \in DOMAIN times : Cardinality({j \in DOMAIN sorted : sorted[j] = times[i]})
                               = Cardinality({j \in DOMAIN times : times[j] = times[i]})

\* getUsageHistory without a time filter sorts the stored array in place.
GetUsageHistory(k) ==
    /\ \E sorted \in [DOMAIN usage[k] -> Range(usage[k])] :
          NewestFirst(usage[k], sorted) /\ usage' = [usage EXCEPT ![k] = sorted]
    /\ UNCHANGED <<keys, userKeys, rates, timers, keyNow, accepted, since, reactivated>>

CleanupExpiredKeys ==
    /\ keys' = [k \in KeyIds |->
                   IF keys[k].expiresAt < keyNow /\ keys[k].status = "active"
                   THEN [keys[k] EXCEPT !.status = "expired"] ELSE keys[k]]
    /\ UNCHANGED <<userKeys, rates, timers, usage, keyNow, accepted, since, reactivated>>

KeyTick ==
    /\ keyNow < MaxKeyTime
    /\ keyNow' = keyNow + 1
    /\ UNCHANGED <<keys, userKeys, rates, timers, usage, accepted, since, reactivated>>

Next ==
    \/ \E u \in Users : GenerateAPIKey(u) \/ RevokeAllUserKeys(u)
    \/ \E k \in KeyIds :
          \/ RotateAPIKey(k)
          \/ ValidateAPIKey(k)
          \/ RevokeAPIKey(k)
          \/ \E status \in Statuses : UpdateStatus(k, status)
          \/ UpdateRateLimit(k)
          \/ GetUsageHistory(k)
    \/ \E timer \in timers : GracePeriodEnds(timer)
    \/ CleanupExpiredKeys
    \/ KeyTick

Spec == Init /\ [][Next]_apiKeyVars

-----------------------------------------------------------------------------
(* Properties.                                                               *)

\* Every variable keeps its shape; histories are capped and timers name known keys.
ApiKeyTypeOK ==
    /\ \A k \in KeyIds : keys[k].user \in Users /\ keys[k].status \in Statuses
    /\ DOMAIN rates = KeyIds /\ DOMAIN usage = KeyIds
    /\ \A k \in KeyIds : Len(usage[k]) <= HistoryCap /\ DOMAIN rates[k] = Windows
    /\ \A u \in Users : userKeys[u] \subseteq KeyIds
    /\ \A timer \in timers : timer.key \in KeyIds

\* The acceptances of a key, since its counters were last reset, within a stretch of time.
Counted(k) == since[k] + 1 .. Len(accepted[k])
Within(k, from, to) == Cardinality({i \in Counted(k) : accepted[k][i] \in from .. to})

\* Windows are fixed: between two resets of its counters a key is accepted at most
\* twice the limit of a window in any stretch of that window's length.
KeyRateBounded ==
    \A k \in KeyIds, w \in Windows, from \in 1 .. keyNow :
        Within(k, from, from + Spans[w]) <= 2 * Limits[w]

\* A rotated key that is still active has a timer that will end it, or updateAPIKey
\* made it active again after it had been suspended or had ended.
GraceCovered ==
    \A k, n \in KeyIds :
        keys[n].from = k /\ keys[k].status = "active"
            => k \in reactivated \/ \E timer \in timers : timer.key = k

\* revokeAllUserKeys leaves a user without an active key, the keys that rotations
\* made included.
RevokeAllReachesRotations ==
    [][\A u \in Users : RevokeAllUserKeys(u) =>
           \A k \in KeyIds : keys[k].user = u => keys'[k].status = "revoked"]_apiKeyVars

Latest(times) == SubSeq(times, Len(times) - Min({HistoryCap, Len(times)}) + 1, Len(times))

\* Documented, and not kept (README, "What the code does not keep").
\* "Keep only last 1000 usage records per key": whatever their order, the records kept
\* are those of the latest uses.
UsageRecent == \A k \in KeyIds : SortSeq(usage[k], <) = Latest(accepted[k])

=============================================================================
