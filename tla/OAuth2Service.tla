---------------------------- MODULE OAuth2Service ----------------------------
(***************************************************************************)
(* security/oauth2.ts: authorization codes, the access and refresh tokens    *)
(* they are exchanged for, and the cache in front of the access tokens.  The *)
(* methods are async and never await: each is one step.  Requests that are    *)
(* malformed or name another client throw before they change anything.       *)
(***************************************************************************)
EXTENDS Naturals, FiniteSets, Sequences

CONSTANTS
    Clients,        \* clients that may register
    Scopes,         \* scopes a client may ask for
    CodeLife,       \* authorizationCodeLifetime
    TokenLife,      \* accessTokenLifetime
    RenewLife,      \* refreshTokenLifetime
    RotateRefresh,  \* rotateRefreshTokens
    MaxCodes,       \* codes of a behaviour (bound)
    MaxGrants,      \* tokens of a behaviour (bound)
    MaxOAuthTime    \* the clock stops there (bound)

VARIABLES
    clients,        \* registered clients
    codes,          \* the codes created; a code is its index
    codeStore,      \* the keys of authorizationCodes
    grants,         \* the tokens generated; a token is its index
    accessStore,    \* the keys of accessTokens
    refreshStore,   \* the keys of refreshTokens
    tokenCache,     \* the keys of tokenCache
    oauthNow        \* Date.now()

oauthVars ==
    <<clients, codes, codeStore, grants, accessStore, refreshStore, tokenCache, oauthNow>>

Codes == 1 .. Len(codes)
Grants == 1 .. Len(grants)

Init ==
    /\ clients = {}
    /\ codes = <<>> /\ codeStore = {}
    /\ grants = <<>> /\ accessStore = {} /\ refreshStore = {} /\ tokenCache = {}
    /\ oauthNow = 1

RegisterClient(c) ==
    /\ clients' = clients \cup {c}
    /\ UNCHANGED <<codes, codeStore, grants, accessStore, refreshStore, tokenCache, oauthNow>>

CreateAuthorizationCode(c, scopes) ==
    /\ c \in clients
    /\ Len(codes) < MaxCodes
    /\ codes' = Append(codes, [client |-> c, scopes |-> scopes,
                               used |-> FALSE, expiresAt |-> oauthNow + CodeLife])
    /\ codeStore' = codeStore \cup {Len(codes) + 1}
    /\ UNCHANGED <<clients, grants, accessStore, refreshStore, tokenCache, oauthNow>>

-----------------------------------------------------------------------------
(* Tokens.  A token remembers the code its chain began with (0 for client      *)
(* credentials) and how many refreshes led to it.                            *)

Payload(kind, code, generation, scopes) ==
    [kind |-> kind, code |-> code, generation |-> generation, scopes |-> scopes,
     revoked |-> FALSE,
     expiresAt |-> oauthNow + (IF kind = "refresh" THEN RenewLife ELSE TokenLife)]

AccessToken(code, generation, scopes) == Payload("access", code, generation, scopes)
RefreshToken(code, generation, scopes) == Payload("refresh", code, generation, scopes)
IdToken(code, scopes) == Payload("id", code, 0, scopes)

\* The Maps keep what is made; id tokens are never read again.
Grant(earlier, fresh) ==
    /\ Len(earlier) + Len(fresh) <= MaxGrants
    /\ grants' = earlier \o fresh
    /\ LET made(kind) == {Len(earlier) + i : i \in {j \in DOMAIN fresh : fresh[j].kind = kind}}
       IN  /\ accessStore' = accessStore \cup made("access")
           /\ refreshStore' = refreshStore \cup made("refresh")

Exchangeable(c) == c \in codeStore /\ ~codes[c].used /\ oauthNow <= codes[c].expiresAt

ExchangeTokens(c) ==
    LET scopes == codes[c].scopes
        base == <<AccessToken(c, 0, scopes), RefreshToken(c, 0, scopes)>>
    IN  Grant(grants, IF "openid" \in scopes THEN Append(base, IdToken(c, scopes)) ELSE base)

\* exchangeCodeForTokens marks the code before it makes the tokens; a code verifier
\* that does not fit throws before that.
ExchangeCodeForTokens(c) ==
    /\ Exchangeable(c)
    /\ codes' = [codes EXCEPT ![c].used = TRUE]
    /\ ExchangeTokens(c)
    /\ UNCHANGED <<clients, codeStore, tokenCache, oauthNow>>

Renewable(t) ==
    /\ t \in refreshStore /\ grants[t].kind = "refresh"
    /\ ~grants[t].revoked /\ oauthNow <= grants[t].expiresAt

Renewed(t, scopes) ==
    LET next == grants[t].generation + 1
        access == <<AccessToken(grants[t].code, next, scopes)>>
    IN  IF RotateRefresh THEN Append(access, RefreshToken(grants[t].code, next, scopes))
        ELSE access

\* A mistake: the old token is not revoked.
RefreshKeepsOld(t, scopes) ==
    /\ Renewable(t) /\ scopes \subseteq grants[t].scopes
    /\ Grant(grants, Renewed(t, scopes))
    /\ UNCHANGED <<clients, codes, codeStore, tokenCache, oauthNow>>

\* refreshAccessToken, for the scopes of the token or fewer.
RefreshAccessToken(t, scopes) ==
    /\ Renewable(t) /\ scopes \subseteq grants[t].scopes
    /\ Grant([grants EXCEPT ![t].revoked = RotateRefresh], Renewed(t, scopes))
    /\ UNCHANGED <<clients, codes, codeStore, tokenCache, oauthNow>>

\* generateClientCredentialsToken.
ClientCredentialsToken(c, scopes) ==
    /\ c \in clients
    /\ Grant(grants, <<AccessToken(0, 0, scopes)>>)
    /\ UNCHANGED <<clients, codes, codeStore, tokenCache, oauthNow>>

-----------------------------------------------------------------------------
(* validateAccessToken, which introspectToken and getUserInfo call.          *)

Fresh(t) == oauthNow < grants[t].expiresAt

\* The cache is asked first; an entry that has expired is dropped and the store asked.
AccessValid(t) ==
    \/ t \in tokenCache /\ Fresh(t)
    \/ t \in accessStore /\ oauthNow <= grants[t].expiresAt

ValidateAccessToken(t) ==
    /\ t \in tokenCache \cup accessStore
    /\ tokenCache' = IF AccessValid(t) THEN tokenCache \cup {t} ELSE tokenCache \ {t}
    /\ UNCHANGED <<clients, codes, codeStore, grants, accessStore, refreshStore, oauthNow>>

\* revokeToken: an access token leaves store and cache, a refresh token is marked.
RevokeToken(t) ==
    /\ \/ /\ t \in accessStore
          /\ accessStore' = accessStore \ {t}
          /\ tokenCache' = tokenCache \ {t}
          /\ UNCHANGED grants
       \/ /\ t \in refreshStore
          /\ grants' = [grants EXCEPT ![t].revoked = TRUE]
          /\ UNCHANGED <<accessStore, tokenCache>>
    /\ UNCHANGED <<clients, codes, codeStore, refreshStore, oauthNow>>

\* cleanupExpired; the cache loses the tokens that leave the store.
CleanupExpired ==
    LET old(t) == oauthNow > grants[t].expiresAt
    IN  /\ codeStore' = {c \in codeStore : oauthNow <= codes[c].expiresAt /\ ~codes[c].used}
        /\ accessStore' = {t \in accessStore : ~old(t)}
        /\ tokenCache' = tokenCache \ {t \in accessStore : old(t)}
        /\ refreshStore' = {t \in refreshStore : ~old(t) /\ ~grants[t].revoked}
        /\ UNCHANGED <<clients, codes, grants, oauthNow>>

OAuthTick ==
    /\ oauthNow < MaxOAuthTime
    /\ oauthNow' = oauthNow + 1
    /\ UNCHANGED <<clients, codes, codeStore, grants, accessStore, refreshStore, tokenCache>>

Next ==
    \/ \E c \in Clients : RegisterClient(c)
    \/ \E c \in Clients, scopes \in SUBSET Scopes :
          CreateAuthorizationCode(c, scopes) \/ ClientCredentialsToken(c, scopes)
    \/ \E c \in Codes : ExchangeCodeForTokens(c)
    \/ \E t \in Grants, scopes \in SUBSET Scopes : RefreshAccessToken(t, scopes)
    \/ \E t \in Grants : ValidateAccessToken(t) \/ RevokeToken(t)
    \/ CleanupExpired
    \/ OAuthTick

Spec == Init /\ [][Next]_oauthVars

-----------------------------------------------------------------------------
(* Properties.                                                               *)

\* Every variable keeps its shape; stores hold tokens of their kind.
OAuthTypeOK ==
    /\ clients \subseteq Clients /\ codeStore \subseteq Codes
    /\ accessStore \cup tokenCache \subseteq {t \in Grants : grants[t].kind = "access"}
    /\ refreshStore \subseteq {t \in Grants : grants[t].kind = "refresh"}
    /\ \A t \in Grants : grants[t].code \in Codes \cup {0} /\ grants[t].scopes \subseteq Scopes

\* "Authorization code has already been used": whatever is refreshed, revoked or
\* cleaned up in between, a code begins one chain of tokens.
CodeExchangedOnce ==
    \A s, t \in Grants :
        /\ grants[s].code = grants[t].code /\ grants[s].code # 0
        /\ grants[s].kind = "refresh" /\ grants[t].kind = "refresh"
        /\ grants[s].generation = 0 /\ grants[t].generation = 0
        => s = t

\* With rotation, the refresh tokens of a code can be used one at a time.
OneRenewablePerCode ==
    RotateRefresh => \A s, t \in Grants :
        Renewable(s) /\ Renewable(t) /\ grants[s].code = grants[t].code => s = t

\* "Cannot grant scopes not in original token": the scopes of a chain never widen.
ScopesOnlyShrink ==
    \A t, s \in Grants :
        /\ grants[t].code # 0
        /\ grants[s].code = grants[t].code /\ grants[s].generation <= grants[t].generation
        => /\ grants[t].scopes \subseteq codes[grants[t].code].scopes
           /\ RotateRefresh => grants[t].scopes \subseteq grants[s].scopes

\* The cache never answers for a token that the store has lost: a revocation takes
\* effect at once.
CacheFollowsStore == \A t \in Grants : AccessValid(t) => t \in accessStore

Contract == INSTANCE TokenContract WITH
    Token <- 1 .. MaxGrants,
    state <- [t \in 1 .. MaxGrants |->
                 IF t \notin Grants THEN "unissued"
                 ELSE IF AccessValid(t) \/ Renewable(t) THEN "accepted" ELSE "refused"]

\* Access and refresh tokens are accepted until they are revoked, rotated or expire,
\* and then never again: the cache does not bring one back.
OAuthImplementsContract == Contract!Spec

=============================================================================
