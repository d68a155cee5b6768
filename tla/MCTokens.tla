------------------------------- MODULE MCTokens -------------------------------
(***************************************************************************)
(* The issuers of credentials: JWTService, OAuth2Service, APIKeyService.      *)
(* They share no state, so a behaviour exercises one of them (issuer) while the *)
(* others rest: the state spaces add up instead of multiplying.              *)
(***************************************************************************)
EXTENDS Naturals, FiniteSets, Sequences

CONSTANTS
    Users,
    AccessLife, RefreshLife, IdLife, ApiLife, MaxGenerations, GenerateLimit, RefreshLimit,
    Window, MaxJwts, MaxJwtTime,
    Clients, Scopes, CodeLife, TokenLife, RenewLife, RotateRefresh, MaxCodes, MaxGrants,
    MaxOAuthTime,
    MinuteLimit, BurstLimit, MinuteSpan, BurstSpan,
    KeyLife, Grace, MaxKeysPerUser, HistoryCap, MaxKeys, MaxUses, MaxKeyTime

\* Lifetimes, windows and limits are configured numbers.
ASSUME TokensAssumption ==
    /\ {AccessLife, RefreshLife, IdLife, ApiLife, MaxGenerations, GenerateLimit, RefreshLimit,
        Window, MaxJwts, MaxJwtTime, CodeLife, TokenLife, RenewLife, MaxCodes, MaxGrants,
        MaxOAuthTime, MinuteLimit, BurstLimit, MinuteSpan, BurstSpan, KeyLife, Grace,
        MaxKeysPerUser, HistoryCap, MaxKeys, MaxUses, MaxKeyTime} \subseteq Nat
    /\ RotateRefresh \in BOOLEAN

VARIABLES
    issuer,
    issued, stored, blacklist, entries, blacklisted, jwtNow, revoked,
    clients, codes, codeStore, grants, accessStore, refreshStore, tokenCache, oauthNow,
    keys, userKeys, rates, timers, usage, keyNow, accepted, since, reactivated

jwtVars == <<issued, stored, blacklist, entries, blacklisted, jwtNow, revoked>>
oauthVars ==
    <<clients, codes, codeStore, grants, accessStore, refreshStore, tokenCache, oauthNow>>
apiKeyVars == <<keys, userKeys, rates, timers, usage, keyNow, accepted, since, reactivated>>
tokensVars == <<issuer, jwtVars, oauthVars, apiKeyVars>>

\* Two of the four windows of a key; the other two behave as the minute does.
KeyLimits == [minute |-> MinuteLimit, burst |-> BurstLimit]
KeySpans == [minute |-> MinuteSpan, burst |-> BurstSpan]

Jwt == INSTANCE JWTService
OAuth == INSTANCE OAuth2Service
Keys == INSTANCE APIKeyService WITH Limits <- KeyLimits, Spans <- KeySpans

TokensInit ==
    /\ issuer \in {"jwt", "oauth", "keys"}
    /\ Jwt!Init /\ OAuth!Init /\ Keys!Init

TokensNext ==
    /\ UNCHANGED issuer
    /\ \/ issuer = "jwt" /\ Jwt!Next /\ UNCHANGED <<oauthVars, apiKeyVars>>
       \/ issuer = "oauth" /\ OAuth!Next /\ UNCHANGED <<jwtVars, apiKeyVars>>
       \/ issuer = "keys" /\ Keys!Next /\ UNCHANGED <<jwtVars, oauthVars>>

TokensSpec == TokensInit /\ [][TokensNext]_tokensVars

-----------------------------------------------------------------------------
(* The properties: conjunctions of the named ones that are stated and explained  *)
(* in the components' modules.  A component at rest keeps its initial state, so    *)
(* each is evaluated where its component runs.                                   *)

\* A login and an authorization code begin one chain of tokens each: one refresh token of
\* a JWT family is accepted, the latest; a code is exchanged once, its refresh tokens can
\* be used one at a time and its scopes never widen.  The counter of blacklisted tokens
\* and the token cache follow what they stand for.
TokenChainsSound ==
    /\ issuer = "jwt" => Jwt!TypeOK /\ Jwt!OneLivePerFamily /\ Jwt!BlacklistCounted
    /\ issuer = "oauth" =>
          /\ OAuth!OAuthTypeOK
          /\ OAuth!CodeExchangedOnce
          /\ OAuth!OneRenewablePerCode
          /\ OAuth!ScopesOnlyShrink
          /\ OAuth!CacheFollowsStore

\* A token that is refused stays refused, JWT and OAuth alike, through blacklist, store
\* and cache: both services implement TokenContract.
TokensImplementContract == Jwt!JwtImplementsContract /\ OAuth!OAuthImplementsContract

\* Fixed windows admit at most twice the limit of a key; a rotated key that is active has
\* a timer to end it, or was made active again; and revokeAllUserKeys reaches the keys
\* that rotations made.
KeysSound ==
    /\ [](issuer = "keys" => Keys!ApiKeyTypeOK /\ Keys!KeyRateBounded /\ Keys!GraceCovered)
    /\ Keys!RevokeAllReachesRotations

=============================================================================
