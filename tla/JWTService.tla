----------------------------- MODULE JWTService -----------------------------
(***************************************************************************)
(* security/jwt.ts: signed tokens, the Maps that remember them, the blacklist *)
(* of revoked ones and the rate limits on issuing.  Every method runs to its *)
(* end without an await; what can go wrong is a sequence of calls over time, *)
(* and a method that throws after half of its work.                          *)
(***************************************************************************)
EXTENDS Naturals, FiniteSets, Sequences

CONSTANTS
    Users,          \* users tokens are issued for
    AccessLife,     \* accessTokenLifetime, in clock ticks
    RefreshLife,    \* refreshTokenLifetime
    IdLife,         \* idTokenLifetime
    ApiLife,        \* apiTokenLifetime
    MaxGenerations, \* maxRefreshTokenGenerations
    GenerateLimit,  \* tokenGenerationRateLimit
    RefreshLimit,   \* tokenRefreshRateLimit
    Window,         \* the minute of checkRateLimit
    MaxJwts,        \* tokens of a behaviour (bound)
    MaxJwtTime      \* the clock stops there (bound)

VARIABLES
    issued,         \* the payloads signed so far; a token is its index
    stored,         \* keys of accessTokens, refreshTokens, idTokens and apiTokens
    blacklist,      \* entries of the blacklist
    entries,        \* rateLimitEntries
    blacklisted,    \* stats.blacklistedTokens
    jwtNow,         \* Date.now()
    revoked         \* history: the tokens revokeToken revoked

jwtVars == <<issued, stored, blacklist, entries, blacklisted, jwtNow, revoked>>

TokenTypes == {"access", "refresh", "id", "api"}
Keys == {"access_token", "refresh_token"} \X Users
Jwts == 1 .. Len(issued)

Lifetime(type) ==
    CASE type = "access" -> AccessLife
      [] type = "refresh" -> RefreshLife
      [] type = "id" -> IdLife
      [] type = "api" -> ApiLife

\* The claims that matter; family and generation are those of a refresh token.
Payload(type, u, family, generation) ==
    [type |-> type, user |-> u, iat |-> jwtNow, exp |-> jwtNow + Lifetime(type),
     family |-> family, generation |-> generation]

Init ==
    /\ issued = <<>>
    /\ stored = {}
    /\ blacklist = {}
    /\ entries = [k \in Keys |-> [count |-> 0, resetAt |-> 0]]
    /\ blacklisted = 0
    /\ jwtNow = 1
    /\ revoked = {}

-----------------------------------------------------------------------------
(* checkRateLimit: a fixed window that starts with its first call.           *)

Over(e, k) == jwtNow > e[k].resetAt

Allowed(e, k, limit) == Over(e, k) \/ e[k].count < limit

Charged(e, k) ==
    IF Over(e, k) THEN [e EXCEPT ![k] = [count |-> 1, resetAt |-> jwtNow + Window]]
    ELSE [e EXCEPT ![k].count = @ + 1]

-----------------------------------------------------------------------------
(* Issuing.  A family is named by the token it starts with.                  *)

Issue(payloads) ==
    /\ Len(issued) + Len(payloads) <= MaxJwts
    /\ issued' = issued \o payloads

Access(u) == Payload("access", u, 0, 0)
Refresh(u, family, generation) == Payload("refresh", u, family, generation)
IdToken(u) == Payload("id", u, 0, 0)
ApiToken(u) == Payload("api", u, 0, 0)

\* generateAccessToken.
GenerateAccessToken(u) ==
    /\ Allowed(entries, <<"access_token", u>>, GenerateLimit)
    /\ Issue(<<Access(u)>>)
    /\ stored' = stored \cup {Len(issued) + 1}
    /\ entries' = Charged(entries, <<"access_token", u>>)
    /\ UNCHANGED <<blacklist, blacklisted, jwtNow, revoked>>

\* generateApiToken: no rate limit.  The user stands for the API key's id.
GenerateApiToken(u) ==
    /\ Issue(<<ApiToken(u)>>)
    /\ stored' = stored \cup {Len(issued) + 1}
    /\ UNCHANGED <<blacklist, entries, blacklisted, jwtNow, revoked>>

\* generateTokenPair, with an id token for the openid scope.  When the refresh token
\* is over its limit the call throws, and the access token is there all the same.
GenerateTokenPair(u, openid) ==
    LET n == Len(issued)
        charged == Charged(entries, <<"access_token", u>>)
        pair == <<Access(u), Refresh(u, n + 2, 0)>>
    IN  /\ Allowed(entries, <<"access_token", u>>, GenerateLimit)
        /\ IF Allowed(charged, <<"refresh_token", u>>, RefreshLimit)
           THEN /\ Issue(IF openid THEN pair \o <<IdToken(u)>> ELSE pair)
                /\ entries' = Charged(charged, <<"refresh_token", u>>)
           ELSE /\ Issue(<<Access(u)>>)
                /\ entries' = charged
        /\ stored' = stored \cup (n + 1 .. Len(issued'))
        /\ UNCHANGED <<blacklist, blacklisted, jwtNow, revoked>>

-----------------------------------------------------------------------------
(* validateToken.                                                            *)

Blacklisted(t) == \E b \in blacklist : b.jti = t

\* jwt.verify refuses a token at its expiry, and an id token always: its audience is
\* the client and not config.audience.  Only access and refresh tokens must be stored.
Validates(t) ==
    /\ jwtNow < issued[t].exp
    /\ issued[t].type # "id"
    /\ ~Blacklisted(t)
    /\ issued[t].type \in {"access", "refresh"} => t \in stored

\* A mistake: a revoked token stays in its Map, and its entry expires at once.
RevokeKeeps(ts) ==
    /\ blacklist' = blacklist \cup {[jti |-> t, expiresAt |-> jwtNow] : t \in ts}
    /\ blacklisted' = blacklisted + Cardinality(ts)
    /\ revoked' = revoked \cup ts
    /\ UNCHANGED stored

\* revokeToken on tokens that are stored; on others it changes nothing.
Revoke(ts) ==
    /\ stored' = stored \ ts
    /\ blacklist' = blacklist \cup {[jti |-> t, expiresAt |-> jwtNow + RefreshLife] : t \in ts}
    /\ blacklisted' = blacklisted + Cardinality(ts)
    /\ revoked' = revoked \cup ts

RevokeToken(t) ==
    /\ t \in stored
    /\ Revoke({t})
    /\ UNCHANGED <<issued, entries, jwtNow>>

\* revokeAllUserTokens: access, refresh and id tokens.
RevokeAllUserTokens(u) ==
    LET theirs == {t \in stored : issued[t].user = u /\ issued[t].type # "api"}
    IN  /\ theirs # {}
        /\ Revoke(theirs)
        /\ UNCHANGED <<issued, entries, jwtNow>>

-----------------------------------------------------------------------------
(* refreshAccessToken, with rotation enabled.  Each step that throws leaves  *)
(* what the steps before it did.                                             *)

Live(t) == t \in Jwts /\ issued[t].type = "refresh" /\ Validates(t)

\* The first charge of the limit, and a scope that was not granted.
RefreshRefused(t, scopeFits) ==
    LET u == issued[t].user
        once == Charged(entries, <<"refresh_token", u>>)
    IN  /\ Allowed(entries, <<"refresh_token", u>>, RefreshLimit)
        /\ ~scopeFits \/ ~Allowed(once, <<"access_token", u>>, GenerateLimit)
        /\ entries' = once
        /\ UNCHANGED <<issued, stored, blacklist, blacklisted, jwtNow, revoked>>

\* A new access token; the old refresh token is revoked; then generateRefreshToken
\* charges the limit again, checks the generation, and may throw for either.
Rotate(t) ==
    LET u == issued[t].user
        n == Len(issued)
        once == Charged(entries, <<"refresh_token", u>>)
        both == Charged(once, <<"access_token", u>>)
        again == Charged(both, <<"refresh_token", u>>)
        g == issued[t].generation + 1
        renewed == Allowed(both, <<"refresh_token", u>>, RefreshLimit) /\ g < MaxGenerations
    IN  /\ Allowed(entries, <<"refresh_token", u>>, RefreshLimit)
        /\ Allowed(once, <<"access_token", u>>, GenerateLimit)
        /\ Issue(IF renewed
                 THEN <<Access(u), Refresh(u, issued[t].family, g)>>
                 ELSE <<Access(u)>>)
        /\ entries' = IF Allowed(both, <<"refresh_token", u>>, RefreshLimit) THEN again ELSE both
        /\ stored' = (stored \ {t}) \cup (n + 1 .. Len(issued'))
        /\ blacklist' = blacklist \cup {[jti |-> t, expiresAt |-> jwtNow + RefreshLife]}
        /\ blacklisted' = blacklisted + 1
        /\ revoked' = revoked \cup {t}
        /\ UNCHANGED jwtNow

\* The branch that revokes a whole family is not there: generateRefreshToken never
\* issues a token of generation maxRefreshTokenGenerations.
RefreshAccessToken(t) ==
    /\ Live(t)
    /\ \/ \E fits \in BOOLEAN : RefreshRefused(t, fits)
       \/ Rotate(t)

-----------------------------------------------------------------------------
(* Time and cleanup.                                                         *)

Stale(b) == jwtNow > b.expiresAt

\* isTokenBlacklisted drops the entry it finds expired.
IsTokenBlacklisted(b) ==
    /\ b \in blacklist
    /\ Stale(b)
    /\ blacklist' = blacklist \ {b}
    /\ blacklisted' = blacklisted - 1
    /\ UNCHANGED <<issued, stored, entries, jwtNow, revoked>>

CleanupExpiredTokens ==
    /\ stored' = {t \in stored : issued[t].exp >= jwtNow}
    /\ blacklist' = {b \in blacklist : ~Stale(b)}
    /\ blacklisted' = blacklisted - Cardinality({b \in blacklist : Stale(b)})
    /\ UNCHANGED <<issued, entries, jwtNow, revoked>>

JwtTick ==
    /\ jwtNow < MaxJwtTime
    /\ jwtNow' = jwtNow + 1
    /\ UNCHANGED <<issued, stored, blacklist, entries, blacklisted, revoked>>

Next ==
    \/ \E u \in Users :
          \/ GenerateAccessToken(u)
          \/ GenerateApiToken(u)
          \/ \E openid \in BOOLEAN : GenerateTokenPair(u, openid)
          \/ RevokeAllUserTokens(u)
    \/ \E t \in Jwts : RevokeToken(t) \/ RefreshAccessToken(t)
    \/ \E b \in blacklist : IsTokenBlacklisted(b)
    \/ CleanupExpiredTokens
    \/ JwtTick

Spec == Init /\ [][Next]_jwtVars

-----------------------------------------------------------------------------
(* Properties.                                                               *)

\* Every variable keeps its shape, and what is stored or revoked was issued.
TypeOK ==
    /\ stored \subseteq Jwts /\ revoked \subseteq Jwts
    /\ \A t \in Jwts : issued[t].type \in TokenTypes /\ issued[t].user \in Users
    /\ \A b \in blacklist : b.jti \in revoked
    /\ entries \in [Keys -> [count : Nat, resetAt : Nat]]
    /\ blacklisted \in Nat

Refreshes(f) == {t \in Jwts : issued[t].type = "refresh" /\ issued[t].family = f}

\* "Token family for rotation": however refreshes succeed, fail halfway or expire, at
\* most one refresh token of a family is accepted, and it is the latest of them.
OneLivePerFamily ==
    \A t \in Jwts : Live(t) =>
        \A o \in Refreshes(issued[t].family) \ {t} :
            ~Validates(o) /\ issued[o].generation < issued[t].generation

\* stats.blacklistedTokens counts the blacklist, through revocations, rotations,
\* lookups that drop an entry, and cleanups.
BlacklistCounted == blacklisted = Cardinality(blacklist)

Contract == INSTANCE TokenContract WITH
    Token <- 1 .. MaxJwts,
    state <- [t \in 1 .. MaxJwts |->
                 IF t \notin Jwts THEN "unissued"
                 ELSE IF issued[t].type \in {"access", "refresh"} /\ Validates(t)
                      THEN "accepted" ELSE "refused"]

\* Access and refresh tokens: once refused, refused for ever, although the blacklist
\* forgets them.
JwtImplementsContract == Contract!Spec

\* Documented, and not kept (README, "What the code does not keep").
\* "Revoke token": what revokeToken revoked is not accepted again.
RevokedRefused == \A t \in revoked : ~Validates(t)

=============================================================================
