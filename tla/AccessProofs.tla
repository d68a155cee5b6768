---------------------------- MODULE AccessProofs ----------------------------
(***************************************************************************)
(* Proofs about what grants access: the issuers of credentials (JWTService,  *)
(* OAuth2Service and APIKeyService, as MCTokens runs them) and what stands     *)
(* before a CaptchaService (the widgets, the plugins and the GraphQL API, as    *)
(* MCVisitors runs them).                                                   *)
(***************************************************************************)
EXTENDS MCTokens, MCVisitors, FiniteSetTheorems, SequenceTheorems, TLAPS

-----------------------------------------------------------------------------
(* A behaviour of all the services is one of each: what the others do leaves   *)
(* its variables alone.                                                     *)

LEMMA JwtPart == TokensSpec => Jwt!Spec
<1>1. TokensInit => Jwt!Init
  BY DEF TokensInit
<1>2. [TokensNext]_tokensVars => [Jwt!Next]_(Jwt!jwtVars)
  BY DEF TokensNext, tokensVars, jwtVars, Jwt!jwtVars
<1> QED BY <1>1, <1>2, PTL DEF TokensSpec, Jwt!Spec

LEMMA OAuthPart == TokensSpec => OAuth!Spec
<1>1. TokensInit => OAuth!Init
  BY DEF TokensInit
<1>2. [TokensNext]_tokensVars => [OAuth!Next]_(OAuth!oauthVars)
  BY DEF TokensNext, tokensVars, oauthVars, OAuth!oauthVars
<1> QED BY <1>1, <1>2, PTL DEF TokensSpec, OAuth!Spec

LEMMA KeysPart == TokensSpec => Keys!Spec
<1>1. TokensInit => Keys!Init
  BY DEF TokensInit
<1>2. [TokensNext]_tokensVars => [Keys!Next]_(Keys!apiKeyVars)
  BY DEF TokensNext, tokensVars, apiKeyVars, Keys!apiKeyVars
<1> QED BY <1>1, <1>2, PTL DEF TokensSpec, Keys!Spec

\* The numbers each service is configured with.
LEMMA JwtConfig ==
    /\ AccessLife \in Nat /\ RefreshLife \in Nat /\ IdLife \in Nat /\ ApiLife \in Nat
    /\ Window \in Nat /\ MaxJwts \in Nat /\ MaxJwtTime \in Nat
BY TokensAssumption

LEMMA OAuthConfig ==
    /\ CodeLife \in Nat /\ TokenLife \in Nat /\ RenewLife \in Nat
    /\ MaxCodes \in Nat /\ MaxGrants \in Nat /\ MaxOAuthTime \in Nat
    /\ RotateRefresh \in BOOLEAN
BY TokensAssumption

LEMMA KeysConfig ==
    /\ KeyLife \in Nat /\ Grace \in Nat /\ HistoryCap \in Nat
    /\ MaxKeys \in Nat /\ MaxUses \in Nat /\ MaxKeyTime \in Nat
BY TokensAssumption

-----------------------------------------------------------------------------
(* TokenContract, for any tokens: a step that never brings a token back.     *)

NeverBack(T, s, u) ==
    /\ s \in [T -> {"unissued", "accepted", "refused"}]
    /\ u \in [T -> {"unissued", "accepted", "refused"}]
    /\ \A t \in T : s[t] = "refused" => u[t] = "refused"
    /\ \A t \in T : s[t] = "accepted" => u[t] # "unissued"

ContractStep(T, s, u) ==
    \E born \in SUBSET {t \in T : s[t] = "unissued"},
       ended \in SUBSET {t \in T : s[t] # "refused"} :
          u = [t \in T |-> IF t \in ended THEN "refused"
                           ELSE IF t \in born THEN "accepted" ELSE s[t]]

LEMMA ContractSteps ==
    ASSUME NEW T, NEW s, NEW u, NeverBack(T, s, u) PROVE ContractStep(T, s, u)
<1> USE DEF NeverBack, ContractStep
<1> DEFINE born == {t \in T : s[t] = "unissued" /\ u[t] = "accepted"}
           ended == {t \in T : s[t] # "refused" /\ u[t] = "refused"}
<1>1. born \in SUBSET {t \in T : s[t] = "unissued"}
  OBVIOUS
<1>2. ended \in SUBSET {t \in T : s[t] # "refused"}
  OBVIOUS
<1>3. ASSUME NEW t \in T
      PROVE u[t] = IF t \in ended THEN "refused"
                   ELSE IF t \in born THEN "accepted" ELSE s[t]
  OBVIOUS
<1>4. u = [t \in T |-> IF t \in ended THEN "refused"
                       ELSE IF t \in born THEN "accepted" ELSE s[t]]
  BY <1>3
<1> QED BY <1>1, <1>2, <1>4

-----------------------------------------------------------------------------
(* Counting.                                                                *)

\* A set and its image under a function that tells its elements apart are equally large.
LEMMA CountImage ==
    ASSUME NEW S, IsFiniteSet(S), NEW T, NEW f \in [S -> T],
           \A x, y \in S : f[x] = f[y] => x = y,
           \A z \in T : \E x \in S : f[x] = z
    PROVE  IsFiniteSet(T) /\ Cardinality(T) = Cardinality(S)
<1>1. f \in Injection(S, T)
  BY DEF Injection, IsInjective
<1>2. f \in Surjection(S, T)
  BY DEF Surjection
<1>3. ExistsBijection(S, T)
  BY <1>1, <1>2 DEF ExistsBijection, Bijection
<1> QED BY <1>3, FS_Bijection

\* Indices are finitely many.
LEMMA IndicesFinite ==
    ASSUME NEW n \in Nat, NEW S \in SUBSET (1 .. n)
    PROVE  IsFiniteSet(S) /\ Cardinality(S) \in Nat /\ S \subseteq Nat
<1>1. IsFiniteSet(1 .. n)
  BY FS_Interval
<1>2. IsFiniteSet(S)
  BY <1>1, FS_Subset
<1> QED BY <1>2, FS_CardinalityType

-----------------------------------------------------------------------------
(* JWTService.                                                              *)

\* The instance's Cardinality is that of FiniteSets.
LEMMA JwtCardinality == \A S : Jwt!Cardinality(S) = Cardinality(S)
BY DEF Jwt!Cardinality, Cardinality

JwtPayloads == [type : Jwt!TokenTypes, user : Users, iat : Nat, exp : Nat,
                family : Nat, generation : Nat]

JwtTypes ==
    /\ issued \in Seq(JwtPayloads) /\ Len(issued) <= MaxJwts
    /\ jwtNow \in Nat
    /\ stored \subseteq Jwt!Jwts /\ revoked \subseteq Jwt!Jwts
    /\ blacklist \in SUBSET [jti : Nat, expiresAt : Nat]
    /\ IsFiniteSet(blacklist)
    /\ entries \in [Jwt!Keys -> [count : Nat, resetAt : Nat]]

\* A revoked token has left its Map, and the blacklist names revoked tokens only.
RevokedGone ==
    /\ revoked \cap stored = {}
    /\ \A b \in blacklist : b.jti \in revoked

RefreshJwt(t) == issued[t].type = "refresh"

\* A family is named by the first of its tokens.
FamiliesNamed == \A t \in Jwt!Jwts : RefreshJwt(t) => issued[t].family \in 1 .. t

\* Of the refresh tokens of a family the latest alone can be stored.
LatestStored ==
    \A t, o \in Jwt!Jwts :
        /\ RefreshJwt(t) /\ RefreshJwt(o) /\ issued[t].family = issued[o].family
        /\ t \in stored /\ o # t
        => o \notin stored /\ issued[o].generation < issued[t].generation

JwtInv ==
    /\ JwtTypes /\ RevokedGone /\ FamiliesNamed /\ LatestStored /\ Jwt!BlacklistCounted

\* What a step may issue: refresh tokens that begin a family or follow on the stored token
\* of one, which leaves the store, and one of them at most.
Successor(r) ==
    \/ issued'[r].family = r
    \/ \E t \in stored :
          /\ RefreshJwt(t) /\ t \notin stored'
          /\ issued'[r].family = issued[t].family
          /\ issued'[r].generation = issued[t].generation + 1

New == Jwt!Jwts' \ Jwt!Jwts

JwtMove ==
    /\ issued' \in Seq(JwtPayloads) /\ Len(issued') <= MaxJwts
    /\ \A t \in Jwt!Jwts : t \in Jwt!Jwts' /\ issued'[t] = issued[t]
    /\ jwtNow' \in Nat /\ jwtNow <= jwtNow'
    /\ stored' \subseteq stored \cup New
    /\ \A r \in New : RefreshJwt(r)' => Successor(r)
    /\ \A r, s \in New : RefreshJwt(r)' /\ RefreshJwt(s)' => r = s
    /\ revoked' \subseteq revoked \cup stored
    /\ revoked' \cap stored' = {}
    /\ \A b \in blacklist' : b \in [jti : Nat, expiresAt : Nat] /\ b.jti \in revoked'
    /\ IsFiniteSet(blacklist')
    /\ entries' \in [Jwt!Keys -> [count : Nat, resetAt : Nat]]
    /\ blacklisted' = Cardinality(blacklist')

LEMMA JwtInit == Jwt!Init => JwtInv
<1> SUFFICES ASSUME Jwt!Init PROVE JwtInv
  OBVIOUS
<1>1. Len(issued) = 0 /\ Jwt!Jwts = {}
  BY DEF Jwt!Init, Jwt!Jwts
<1>2. JwtTypes
  BY <1>1, JwtConfig, FS_EmptySet DEF JwtTypes, Jwt!Init
<1>3. RevokedGone /\ FamiliesNamed /\ LatestStored
  BY <1>1 DEF RevokedGone, FamiliesNamed, LatestStored, Jwt!Init
<1>4. Jwt!BlacklistCounted
  BY FS_EmptySet, JwtCardinality DEF Jwt!BlacklistCounted, Jwt!Init
<1> QED BY <1>2, <1>3, <1>4 DEF JwtInv

\* What follows from a move, whichever call makes it.
LEMMA JwtMoveInv == JwtInv /\ JwtMove => JwtInv'
<1> SUFFICES ASSUME JwtInv, JwtMove PROVE JwtInv'
  OBVIOUS
<1> USE DEF JwtInv
<1>1. /\ Jwt!Jwts \subseteq Jwt!Jwts'
      /\ Len(issued) \in Nat /\ Len(issued') \in Nat
      /\ Jwt!Jwts = 1 .. Len(issued) /\ Jwt!Jwts' = 1 .. Len(issued')
      /\ \A t \in Jwt!Jwts' : t \in Jwt!Jwts \/ t \in New
      /\ \A r \in New, t \in Jwt!Jwts : t < r
      /\ \A t \in Jwt!Jwts : issued[t] \in JwtPayloads
      /\ \A t \in Jwt!Jwts' : issued'[t] \in JwtPayloads
  <2>1. Jwt!Jwts = 1 .. Len(issued) /\ Jwt!Jwts' = 1 .. Len(issued')
    BY DEF Jwt!Jwts
  <2>2. Len(issued) \in Nat /\ Len(issued') \in Nat
    BY DEF JwtTypes, JwtMove
  <2>3. Jwt!Jwts \subseteq Jwt!Jwts' /\ \A t \in Jwt!Jwts' : t \in Jwt!Jwts \/ t \in New
    BY DEF JwtMove, New
  <2>4. \A r \in New, t \in Jwt!Jwts : t < r
    BY <2>1, <2>2 DEF New
  <2>5. /\ \A t \in Jwt!Jwts : issued[t] \in JwtPayloads
        /\ \A t \in Jwt!Jwts' : issued'[t] \in JwtPayloads
    BY <2>1 DEF JwtTypes, JwtMove
  <2> QED BY <2>1, <2>2, <2>3, <2>4, <2>5
<1>2. JwtTypes'
  BY <1>1 DEF JwtTypes, JwtMove, New
<1>3. RevokedGone'
  BY DEF RevokedGone, JwtMove
<1>4. FamiliesNamed'
  <2> SUFFICES ASSUME NEW t \in Jwt!Jwts', RefreshJwt(t)'
               PROVE  issued'[t].family \in 1 .. t
    BY DEF FamiliesNamed
  <2>1. CASE t \in Jwt!Jwts
    BY <2>1 DEF FamiliesNamed, JwtMove, RefreshJwt
  <2>2. CASE t \in New
    <3>1. Successor(t)
      BY <2>2 DEF JwtMove
    <3>2. CASE issued'[t].family = t
      BY <1>1, <3>2
    <3>3. CASE \E s \in stored : /\ RefreshJwt(s)
                                 /\ issued'[t].family = issued[s].family
      <4>1. PICK s \in stored : RefreshJwt(s) /\ issued'[t].family = issued[s].family
        BY <3>3
      <4>2. s \in Jwt!Jwts /\ s < t
        BY <1>1, <2>2 DEF JwtTypes
      <4>3. issued[s].family \in 1 .. s
        BY <4>1, <4>2 DEF FamiliesNamed
      <4> QED BY <1>1, <4>1, <4>2, <4>3
    <3> QED BY <3>1, <3>2, <3>3 DEF Successor
  <2> QED BY <1>1, <2>1, <2>2
<1>5. LatestStored'
  <2> SUFFICES ASSUME NEW t \in Jwt!Jwts', NEW o \in Jwt!Jwts',
                      RefreshJwt(t)', RefreshJwt(o)',
                      issued'[t].family = issued'[o].family, t \in stored', o # t
               PROVE  o \notin stored' /\ issued'[o].generation < issued'[t].generation
    BY DEF LatestStored
  <2>1. CASE t \in Jwt!Jwts /\ o \in Jwt!Jwts
    <3>1. t \in stored /\ (o \in stored' => o \in stored)
      BY <2>1 DEF JwtMove, New
    <3>2. issued'[t] = issued[t] /\ issued'[o] = issued[o]
      BY <2>1 DEF JwtMove
    <3> QED BY <2>1, <3>1, <3>2 DEF LatestStored, RefreshJwt
  <2>2. CASE t \in New /\ o \in Jwt!Jwts
    <3>1. issued'[o] = issued[o] /\ (o \in stored' => o \in stored) /\ RefreshJwt(o)
      BY <2>2 DEF JwtMove, New, RefreshJwt
    <3>2. issued'[o].family \in 1 .. o /\ o < t
      BY <1>1, <2>2, <3>1 DEF FamiliesNamed
    <3>3. issued'[t].family # t
      BY <1>1, <3>2
    <3>4. PICK s \in stored : /\ RefreshJwt(s) /\ s \notin stored'
                              /\ issued'[t].family = issued[s].family
                              /\ issued'[t].generation = issued[s].generation + 1
      BY <2>2, <3>3 DEF JwtMove, Successor
    <3>5. s \in Jwt!Jwts
      BY DEF JwtTypes
    <3>6. issued[s].generation \in Nat /\ issued[o].generation \in Nat
      BY <1>1, <2>2, <3>5 DEF JwtPayloads
    <3>7. CASE o = s
      BY <3>1, <3>4, <3>6, <3>7
    <3>8. CASE o # s
      <4>1. o \notin stored /\ issued[o].generation < issued[s].generation
        BY <2>2, <3>1, <3>4, <3>5, <3>8 DEF LatestStored
      <4> QED BY <3>1, <3>4, <3>6, <4>1
    <3> QED BY <3>7, <3>8
  <2>3. CASE t \in Jwt!Jwts /\ o \in New
    <3>1. issued'[t] = issued[t] /\ t \in stored /\ RefreshJwt(t)
      BY <2>3 DEF JwtMove, New, RefreshJwt
    <3>2. issued'[t].family \in 1 .. t /\ t < o
      BY <1>1, <2>3, <3>1 DEF FamiliesNamed
    <3>3. issued'[o].family # o
      BY <1>1, <3>2
    <3>4. PICK s \in stored : /\ RefreshJwt(s) /\ s \notin stored'
                              /\ issued'[o].family = issued[s].family
      BY <2>3, <3>3 DEF JwtMove, Successor
    <3>5. s \in Jwt!Jwts /\ s # t
      BY <3>4 DEF JwtTypes
    <3> QED BY <2>3, <3>1, <3>4, <3>5 DEF LatestStored
  <2>4. CASE t \in New /\ o \in New
    BY <2>4 DEF JwtMove
  <2> QED BY <1>1, <2>1, <2>2, <2>3, <2>4
<1>6. Jwt!BlacklistCounted'
  BY JwtCardinality DEF JwtMove, Jwt!BlacklistCounted
<1> QED BY <1>2, <1>3, <1>4, <1>5, <1>6

\* Tokens are issued at the end of the sequence.
LEMMA IssueJwts ==
    ASSUME JwtTypes, NEW p \in Seq(JwtPayloads), Jwt!Issue(p)
    PROVE  /\ issued' \in Seq(JwtPayloads) /\ Len(issued') <= MaxJwts
           /\ Len(issued') = Len(issued) + Len(p)
           /\ \A t \in Jwt!Jwts : t \in Jwt!Jwts' /\ issued'[t] = issued[t]
           /\ New = Len(issued) + 1 .. Len(issued')
           /\ \A r \in New : r - Len(issued) \in 1 .. Len(p) /\ issued'[r] = p[r - Len(issued)]
<1>1. /\ issued \in Seq(JwtPayloads) /\ Len(issued) \in Nat /\ Len(p) \in Nat
      /\ issued' = issued \o p /\ Len(issued) + Len(p) <= MaxJwts
      /\ Jwt!Jwts = 1 .. Len(issued) /\ Jwt!Jwts' = 1 .. Len(issued')
  BY DEF JwtTypes, Jwt!Issue, Jwt!Jwts
<1>2. /\ issued' \in Seq(JwtPayloads)
      /\ Len(issued') = Len(issued) + Len(p)
      /\ \A i \in 1 .. Len(issued) + Len(p) :
            issued'[i] = IF i <= Len(issued) THEN issued[i] ELSE p[i - Len(issued)]
  BY <1>1, ConcatProperties
<1>3. New = Len(issued) + 1 .. Len(issued')
  BY <1>1, <1>2 DEF New
<1> QED BY <1>1, <1>2, <1>3

\* The payloads of a call are payloads.
LEMMA JwtPayloadTypes ==
    ASSUME JwtTypes, NEW u \in Users, NEW f \in Nat, NEW g \in Nat
    PROVE  /\ Jwt!Access(u) \in JwtPayloads /\ Jwt!Access(u).type = "access"
           /\ Jwt!ApiToken(u) \in JwtPayloads /\ Jwt!ApiToken(u).type = "api"
           /\ Jwt!IdToken(u) \in JwtPayloads /\ Jwt!IdToken(u).type = "id"
           /\ Jwt!Refresh(u, f, g) \in JwtPayloads
           /\ Jwt!Refresh(u, f, g).family = f /\ Jwt!Refresh(u, f, g).generation = g
<1> USE JwtConfig
    DEF JwtTypes, JwtPayloads, Jwt!TokenTypes, Jwt!Payload, Jwt!Lifetime
<1>1. Jwt!Access(u) \in JwtPayloads /\ Jwt!Access(u).type = "access"
  BY DEF Jwt!Access
<1>2. Jwt!ApiToken(u) \in JwtPayloads /\ Jwt!ApiToken(u).type = "api"
  BY DEF Jwt!ApiToken
<1>3. Jwt!IdToken(u) \in JwtPayloads /\ Jwt!IdToken(u).type = "id"
  BY DEF Jwt!IdToken
<1>4. /\ Jwt!Refresh(u, f, g) \in JwtPayloads
      /\ Jwt!Refresh(u, f, g).family = f /\ Jwt!Refresh(u, f, g).generation = g
  BY DEF Jwt!Refresh
<1> QED BY <1>1, <1>2, <1>3, <1>4

\* checkRateLimit keeps the entries entries.
LEMMA JwtCharged ==
    ASSUME JwtTypes, NEW e \in [Jwt!Keys -> [count : Nat, resetAt : Nat]], NEW k \in Jwt!Keys
    PROVE  Jwt!Charged(e, k) \in [Jwt!Keys -> [count : Nat, resetAt : Nat]]
<1>1. e[k].count + 1 \in Nat /\ e[k] \in [count : Nat, resetAt : Nat]
  OBVIOUS
<1>2. jwtNow + Window \in Nat
  BY JwtConfig DEF JwtTypes
<1>3. [e EXCEPT ![k] = [count |-> 1, resetAt |-> jwtNow + Window]]
         \in [Jwt!Keys -> [count : Nat, resetAt : Nat]]
  BY <1>2
<1>4. [e EXCEPT ![k].count = @ + 1] \in [Jwt!Keys -> [count : Nat, resetAt : Nat]]
  BY <1>1
<1> QED BY <1>3, <1>4 DEF Jwt!Charged

\* Revoking stored tokens enters each of them once in the blacklist.
LEMMA RevokeJwts ==
    ASSUME JwtInv, NEW ts \in SUBSET stored,
           blacklist' = blacklist \cup {[jti |-> t, expiresAt |-> jwtNow + RefreshLife] : t \in ts},
           blacklisted' = blacklisted + Cardinality(ts),
           revoked' = revoked \cup ts
    PROVE  /\ revoked' \subseteq revoked \cup stored
           /\ \A b \in blacklist' : b \in [jti : Nat, expiresAt : Nat] /\ b.jti \in revoked'
           /\ IsFiniteSet(blacklist')
           /\ blacklisted' = Cardinality(blacklist')
<1>0. /\ IsFiniteSet(blacklist) /\ blacklist \in SUBSET [jti : Nat, expiresAt : Nat]
      /\ jwtNow + RefreshLife \in Nat /\ stored \subseteq Jwt!Jwts /\ Len(issued) \in Nat
      /\ revoked \cap stored = {} /\ \A b \in blacklist : b.jti \in revoked
  BY JwtConfig DEF JwtInv, JwtTypes, RevokedGone
<1> DEFINE entry(t) == [jti |-> t, expiresAt |-> jwtNow + RefreshLife]
           fresh == {entry(t) : t \in ts}
           f == [t \in ts |-> entry(t)]
<1>1. ts \subseteq Nat /\ IsFiniteSet(ts) /\ Cardinality(ts) \in Nat
  <2>1. ts \subseteq 1 .. Len(issued) /\ Len(issued) \in Nat
    BY <1>0 DEF Jwt!Jwts
  <2> QED BY <2>1, IndicesFinite
<1>2. IsFiniteSet(fresh) /\ Cardinality(fresh) = Cardinality(ts)
  <2>1. f \in [ts -> fresh] /\ \A t \in ts : f[t] = entry(t)
    OBVIOUS
  <2>2. \A s, t \in ts : f[s] = f[t] => s = t
    OBVIOUS
  <2>3. \A b \in fresh : \E t \in ts : f[t] = b
    OBVIOUS
  <2> HIDE DEF f, fresh
  <2> QED BY <1>1, <2>1, <2>2, <2>3, CountImage
<1>3. blacklist \cap fresh = {}
  <2>1. \A b \in fresh : b.jti \in stored
    OBVIOUS
  <2> QED BY <1>0, <2>1
<1>4. /\ IsFiniteSet(blacklist \cup fresh)
      /\ Cardinality(blacklist \cup fresh) = Cardinality(blacklist) + Cardinality(fresh)
  <2>1. Cardinality(blacklist \cap fresh) = 0 /\ Cardinality(blacklist) \in Nat
    BY <1>0, <1>3, FS_EmptySet, FS_CardinalityType
  <2>2. /\ IsFiniteSet(blacklist \cup fresh)
        /\ Cardinality(blacklist \cup fresh)
              = Cardinality(blacklist) + Cardinality(fresh) - Cardinality(blacklist \cap fresh)
    BY <1>0, <1>2, FS_Union
  <2> QED BY <1>1, <1>2, <2>1, <2>2
<1>5. blacklisted = Cardinality(blacklist)
  BY JwtCardinality DEF JwtInv, Jwt!BlacklistCounted
<1>6. /\ IsFiniteSet(blacklist') /\ blacklisted' = Cardinality(blacklist')
  BY <1>2, <1>4, <1>5
<1>7. \A b \in fresh : b \in [jti : Nat, expiresAt : Nat] /\ b.jti \in ts
  BY <1>0, <1>1
<1> QED BY <1>0, <1>6, <1>7

\* A call that issues and leaves the blacklist alone.
LEMMA IssueMove ==
    ASSUME JwtInv, NEW p \in Seq(JwtPayloads), Jwt!Issue(p),
           stored' = stored \cup (Len(issued) + 1 .. Len(issued')),
           entries' \in [Jwt!Keys -> [count : Nat, resetAt : Nat]],
           UNCHANGED <<blacklist, blacklisted, jwtNow, revoked>>,
           \A i \in 1 .. Len(p) :
               p[i].type = "refresh" => p[i].family = Len(issued) + i,
           \A i, j \in 1 .. Len(p) :
               p[i].type = "refresh" /\ p[j].type = "refresh" => i = j
    PROVE  JwtMove
<1>1. JwtTypes /\ RevokedGone /\ blacklisted = Cardinality(blacklist)
  BY JwtCardinality DEF JwtInv, Jwt!BlacklistCounted
<1>2. /\ issued' \in Seq(JwtPayloads) /\ Len(issued') <= MaxJwts
      /\ \A t \in Jwt!Jwts : t \in Jwt!Jwts' /\ issued'[t] = issued[t]
      /\ New = Len(issued) + 1 .. Len(issued')
      /\ \A r \in New : r - Len(issued) \in 1 .. Len(p) /\ issued'[r] = p[r - Len(issued)]
  BY <1>1, IssueJwts
<1>3. Len(issued) \in Nat /\ \A r \in New : r \in Int
  BY <1>1, <1>2 DEF JwtTypes
<1>4. \A r \in New : RefreshJwt(r)' => Successor(r)
  <2> SUFFICES ASSUME NEW r \in New, RefreshJwt(r)' PROVE Successor(r)
    OBVIOUS
  <2> DEFINE i == r - Len(issued)
  <2>1. i \in 1 .. Len(p) /\ issued'[r] = p[i] /\ Len(issued) + i = r
    BY <1>2, <1>3
  <2> HIDE DEF i
  <2>2. p[i].type = "refresh" => p[i].family = r
    BY <2>1
  <2> QED BY <2>1, <2>2 DEF RefreshJwt, Successor
<1>5. ASSUME NEW r \in New, NEW s \in New, RefreshJwt(r)', RefreshJwt(s)' PROVE r = s
  <2>1. /\ r - Len(issued) \in 1 .. Len(p) /\ s - Len(issued) \in 1 .. Len(p)
        /\ p[r - Len(issued)].type = "refresh" /\ p[s - Len(issued)].type = "refresh"
    BY <1>2, <1>5 DEF RefreshJwt
  <2>2. r - Len(issued) = s - Len(issued)
    BY <2>1
  <2> QED BY <1>3, <2>2
<1>6. revoked \cap stored' = {}
  <2>1. revoked \cap New = {}
    BY <1>1, <1>2, <1>3 DEF JwtTypes, Jwt!Jwts
  <2> QED BY <1>1, <1>2, <2>1 DEF RevokedGone
<1> QED BY <1>1, <1>2, <1>4, <1>5, <1>6 DEF JwtMove, JwtTypes, RevokedGone

LEMMA GenerateAccessTokenMoves ==
    ASSUME JwtInv, NEW u \in Users, Jwt!GenerateAccessToken(u) PROVE JwtMove
<1>0. JwtTypes /\ Len(issued) \in Nat
  BY DEF JwtInv, JwtTypes
<1>1. /\ Jwt!Access(u) \in JwtPayloads /\ Jwt!Access(u).type = "access"
  BY <1>0, JwtPayloadTypes
<1> DEFINE p == <<Jwt!Access(u)>>
<1>2. p \in Seq(JwtPayloads) /\ Len(p) = 1 /\ p[1] = Jwt!Access(u)
  BY <1>1
<1>3. Jwt!Issue(p) /\ stored' = stored \cup (Len(issued) + 1 .. Len(issued'))
  <2>1. Jwt!Issue(p) /\ stored' = stored \cup {Len(issued) + 1}
    BY DEF Jwt!GenerateAccessToken
  <2>2. Len(issued') = Len(issued) + 1 /\ Len(issued) \in Nat
    BY <1>0, <1>2, <2>1, IssueJwts
  <2> QED BY <2>1, <2>2
<1>4. entries' \in [Jwt!Keys -> [count : Nat, resetAt : Nat]]
  <2>1. <<"access_token", u>> \in Jwt!Keys
    BY DEF Jwt!Keys
  <2>2. entries \in [Jwt!Keys -> [count : Nat, resetAt : Nat]]
    BY <1>0 DEF JwtTypes
  <2> QED BY <1>0, <2>1, <2>2, JwtCharged DEF Jwt!GenerateAccessToken
<1>5. \A i \in 1 .. Len(p) : p[i].type # "refresh"
  BY <1>1, <1>2
<1>6. UNCHANGED <<blacklist, blacklisted, jwtNow, revoked>>
  BY DEF Jwt!GenerateAccessToken
<1> HIDE DEF p
<1> QED BY <1>2, <1>3, <1>4, <1>5, <1>6, IssueMove

LEMMA GenerateApiTokenMoves ==
    ASSUME JwtInv, NEW u \in Users, Jwt!GenerateApiToken(u) PROVE JwtMove
<1>0. JwtTypes /\ Len(issued) \in Nat
  BY DEF JwtInv, JwtTypes
<1>1. /\ Jwt!ApiToken(u) \in JwtPayloads /\ Jwt!ApiToken(u).type = "api"
  BY <1>0, JwtPayloadTypes
<1> DEFINE p == <<Jwt!ApiToken(u)>>
<1>2. p \in Seq(JwtPayloads) /\ Len(p) = 1 /\ p[1] = Jwt!ApiToken(u)
  BY <1>1
<1>3. Jwt!Issue(p) /\ stored' = stored \cup (Len(issued) + 1 .. Len(issued'))
  <2>1. Jwt!Issue(p) /\ stored' = stored \cup {Len(issued) + 1}
    BY DEF Jwt!GenerateApiToken
  <2>2. Len(issued') = Len(issued) + 1 /\ Len(issued) \in Nat
    BY <1>0, <1>2, <2>1, IssueJwts
  <2> QED BY <2>1, <2>2
<1>4. entries' \in [Jwt!Keys -> [count : Nat, resetAt : Nat]]
  BY DEF Jwt!GenerateApiToken, JwtInv, JwtTypes
<1>5. \A i \in 1 .. Len(p) : p[i].type # "refresh"
  BY <1>1, <1>2
<1>6. UNCHANGED <<blacklist, blacklisted, jwtNow, revoked>>
  BY DEF Jwt!GenerateApiToken
<1> HIDE DEF p
<1> QED BY <1>2, <1>3, <1>4, <1>5, <1>6, IssueMove

LEMMA GenerateTokenPairMoves ==
    ASSUME JwtInv, NEW u \in Users, NEW openid \in BOOLEAN, Jwt!GenerateTokenPair(u, openid)
    PROVE  JwtMove
<1> DEFINE n == Len(issued)
           charged == Jwt!Charged(entries, <<"access_token", u>>)
           pair == <<Jwt!Access(u), Jwt!Refresh(u, n + 2, 0)>>
           all == pair \o <<Jwt!IdToken(u)>>
           one == <<Jwt!Access(u)>>
<1>1. n \in Nat /\ JwtTypes
  BY DEF JwtInv, JwtTypes
<1>2. /\ Jwt!Access(u) \in JwtPayloads /\ Jwt!Access(u).type = "access"
      /\ Jwt!IdToken(u) \in JwtPayloads /\ Jwt!IdToken(u).type = "id"
      /\ Jwt!Refresh(u, n + 2, 0) \in JwtPayloads
      /\ Jwt!Refresh(u, n + 2, 0).family = n + 2
  BY <1>1, JwtPayloadTypes
<1>3. /\ \E p \in {one, pair, all} : Jwt!Issue(p)
      /\ stored' = stored \cup (n + 1 .. Len(issued'))
      /\ entries' = charged \/ entries' = Jwt!Charged(charged, <<"refresh_token", u>>)
      /\ UNCHANGED <<blacklist, blacklisted, jwtNow, revoked>>
  BY DEF Jwt!GenerateTokenPair
<1>4. entries' \in [Jwt!Keys -> [count : Nat, resetAt : Nat]]
  <2>1. <<"access_token", u>> \in Jwt!Keys /\ <<"refresh_token", u>> \in Jwt!Keys
    BY DEF Jwt!Keys
  <2>2. charged \in [Jwt!Keys -> [count : Nat, resetAt : Nat]]
    <3>1. entries \in [Jwt!Keys -> [count : Nat, resetAt : Nat]]
      BY <1>1 DEF JwtTypes
    <3> QED BY <1>1, <2>1, <3>1, JwtCharged
  <2> HIDE DEF charged
  <2>3. Jwt!Charged(charged, <<"refresh_token", u>>)
           \in [Jwt!Keys -> [count : Nat, resetAt : Nat]]
    BY <1>1, <2>1, <2>2, JwtCharged
  <2> QED BY <1>3, <2>2, <2>3
<1>5. ASSUME NEW p \in {one, pair, all}
      PROVE  /\ p \in Seq(JwtPayloads)
             /\ \A i \in 1 .. Len(p) : p[i].type = "refresh" => i = 2 /\ p[i].family = n + i
  <2>1. CASE p = one
    BY <1>2, <2>1
  <2>2. /\ pair \in Seq(JwtPayloads) /\ Len(pair) = 2
        /\ pair[1] = Jwt!Access(u) /\ pair[2] = Jwt!Refresh(u, n + 2, 0)
    BY <1>2
  <2>3. <<Jwt!IdToken(u)>> \in Seq(JwtPayloads) /\ Len(<<Jwt!IdToken(u)>>) = 1
    BY <1>2
  <2>4. CASE p = pair
    <3> HIDE DEF pair, one, all
    <3>0. Len(p) = 2
      BY <2>2, <2>4
    <3>1. \A i \in 1 .. Len(p) : i = 1 \/ i = 2
      BY <3>0
    <3>2. p[1].type = "access" /\ p[2].family = n + 2
      BY <1>2, <2>2, <2>4
    <3> QED BY <2>2, <2>4, <3>1, <3>2
  <2>5. CASE p = all
    <3> HIDE DEF pair
    <3>1. /\ p \in Seq(JwtPayloads) /\ Len(p) = 3
          /\ \A i \in 1 .. 3 : p[i] = IF i <= 2 THEN pair[i] ELSE <<Jwt!IdToken(u)>>[i - 2]
      BY <2>2, <2>3, <2>5, ConcatProperties
    <3>2. p[1] = Jwt!Access(u) /\ p[2] = Jwt!Refresh(u, n + 2, 0) /\ p[3] = Jwt!IdToken(u)
      BY <2>2, <3>1
    <3> QED BY <1>1, <1>2, <3>1, <3>2
  <2> QED BY <2>1, <2>4, <2>5
<1> HIDE DEF n, charged, pair, all, one
<1>6. PICK p \in {one, pair, all} : Jwt!Issue(p)
  BY <1>3
<1>7. \A i, j \in 1 .. Len(p) : p[i].type = "refresh" /\ p[j].type = "refresh" => i = j
  BY <1>5
<1>8. \A i \in 1 .. Len(p) : p[i].type = "refresh" => p[i].family = Len(issued) + i
  BY <1>5 DEF n
<1> QED BY <1>3, <1>4, <1>5, <1>6, <1>7, <1>8, IssueMove DEF n

\* A call that issues nothing.
LEMMA QuietMove ==
    ASSUME JwtInv, UNCHANGED <<issued, entries>>,
           jwtNow' \in Nat, jwtNow <= jwtNow',
           stored' \subseteq stored,
           revoked' \subseteq revoked \cup stored, revoked' \cap stored' = {},
           \A b \in blacklist' : b \in [jti : Nat, expiresAt : Nat] /\ b.jti \in revoked',
           IsFiniteSet(blacklist'), blacklisted' = Cardinality(blacklist')
    PROVE  JwtMove
<1>1. Jwt!Jwts' = Jwt!Jwts /\ New = {}
  BY DEF New, Jwt!Jwts
<1>2. JwtTypes
  BY DEF JwtInv
<1> QED BY <1>1, <1>2 DEF JwtMove, JwtTypes

LEMMA RevokeMoves ==
    ASSUME JwtInv, NEW ts \in SUBSET stored, Jwt!Revoke(ts), UNCHANGED <<issued, entries, jwtNow>>
    PROVE  JwtMove
<1>1. /\ stored' = stored \ ts
      /\ blacklist' = blacklist \cup {[jti |-> t, expiresAt |-> jwtNow + RefreshLife] : t \in ts}
      /\ blacklisted' = blacklisted + Cardinality(ts)
      /\ revoked' = revoked \cup ts
  BY JwtCardinality DEF Jwt!Revoke
<1>2. /\ revoked' \subseteq revoked \cup stored
      /\ \A b \in blacklist' : b \in [jti : Nat, expiresAt : Nat] /\ b.jti \in revoked'
      /\ IsFiniteSet(blacklist')
      /\ blacklisted' = Cardinality(blacklist')
  BY <1>1, RevokeJwts
<1>3. revoked' \cap stored' = {}
  BY <1>1 DEF JwtInv, RevokedGone
<1>4. jwtNow \in Nat
  BY DEF JwtInv, JwtTypes
<1> QED BY <1>1, <1>2, <1>3, <1>4, QuietMove

LEMMA CleanupMoves ==
    ASSUME JwtInv, Jwt!CleanupExpiredTokens PROVE JwtMove
<1> DEFINE gone == {b \in blacklist : Jwt!Stale(b)}
           kept == {b \in blacklist : ~Jwt!Stale(b)}
<1>1. /\ IsFiniteSet(blacklist) /\ blacklisted = Cardinality(blacklist)
      /\ blacklist \in SUBSET [jti : Nat, expiresAt : Nat] /\ jwtNow \in Nat
      /\ revoked \cap stored = {} /\ \A b \in blacklist : b.jti \in revoked
  BY JwtCardinality DEF JwtInv, JwtTypes, RevokedGone, Jwt!BlacklistCounted
<1>2. /\ stored' \subseteq stored /\ blacklist' = kept
      /\ blacklisted' = blacklisted - Cardinality(gone)
      /\ UNCHANGED <<issued, entries, jwtNow, revoked>>
  BY JwtCardinality DEF Jwt!CleanupExpiredTokens
<1>3. IsFiniteSet(kept) /\ blacklisted - Cardinality(gone) = Cardinality(kept)
  <2>1. blacklist = kept \cup gone /\ kept \cap gone = {}
    OBVIOUS
  <2>2. kept \in SUBSET blacklist /\ gone \in SUBSET blacklist
    OBVIOUS
  <2> HIDE DEF kept, gone
  <2>3. IsFiniteSet(kept) /\ IsFiniteSet(gone)
    BY <1>1, <2>2, FS_Subset
  <2>4. Cardinality(blacklist) = Cardinality(kept) + Cardinality(gone) - Cardinality(kept \cap gone)
    BY <2>1, <2>3, FS_Union
  <2>5. Cardinality(kept) \in Nat /\ Cardinality(gone) \in Nat /\ Cardinality(kept \cap gone) = 0
    BY <2>1, <2>3, FS_CardinalityType, FS_EmptySet
  <2> QED BY <1>1, <2>3, <2>4, <2>5
<1>4. /\ \A b \in blacklist' : b \in [jti : Nat, expiresAt : Nat] /\ b.jti \in revoked'
      /\ revoked' \cap stored' = {}
  BY <1>1, <1>2
<1> HIDE DEF kept, gone
<1> QED BY <1>1, <1>2, <1>3, <1>4, QuietMove

LEMMA RotateMoves ==
    ASSUME JwtInv, NEW t \in Jwt!Jwts, Jwt!Live(t), Jwt!Rotate(t) PROVE JwtMove
<1> DEFINE u == issued[t].user
           n == Len(issued)
           once == Jwt!Charged(entries, <<"refresh_token", u>>)
           both == Jwt!Charged(once, <<"access_token", u>>)
           again == Jwt!Charged(both, <<"refresh_token", u>>)
           g == issued[t].generation + 1
           next == Jwt!Refresh(u, issued[t].family, g)
           one == <<Jwt!Access(u)>>
           two == <<Jwt!Access(u), next>>
<1>1. /\ JwtTypes /\ t \in stored /\ RefreshJwt(t) /\ t \in 1 .. n
      /\ issued \in Seq(JwtPayloads) /\ n \in Nat /\ jwtNow \in Nat
      /\ entries \in [Jwt!Keys -> [count : Nat, resetAt : Nat]]
      /\ revoked \subseteq 1 .. n /\ stored \subseteq 1 .. n /\ revoked \cap stored = {}
  BY DEF JwtInv, JwtTypes, RevokedGone, Jwt!Live, Jwt!Validates, Jwt!Jwts, RefreshJwt
<1>2. /\ u \in Users /\ issued[t].family \in Nat /\ issued[t].generation \in Nat /\ g \in Nat
  <2>1. issued[t] \in JwtPayloads
    BY <1>1
  <2> QED BY <2>1 DEF JwtPayloads
<1>3. /\ Jwt!Access(u) \in JwtPayloads /\ Jwt!Access(u).type = "access"
      /\ next \in JwtPayloads
      /\ next.family = issued[t].family /\ next.generation = g
  BY <1>1, <1>2, JwtPayloadTypes
<1>4. entries' \in [Jwt!Keys -> [count : Nat, resetAt : Nat]]
  <2> <<"access_token", u>> \in Jwt!Keys /\ <<"refresh_token", u>> \in Jwt!Keys
    BY <1>2 DEF Jwt!Keys
  <2>1. once \in [Jwt!Keys -> [count : Nat, resetAt : Nat]]
    BY <1>1, JwtCharged
  <2>2. both \in [Jwt!Keys -> [count : Nat, resetAt : Nat]]
    BY <1>1, <2>1, JwtCharged
  <2>3. again \in [Jwt!Keys -> [count : Nat, resetAt : Nat]]
    BY <1>1, <2>2, JwtCharged
  <2>4. entries' = again \/ entries' = both
    BY DEF Jwt!Rotate
  <2> QED BY <2>2, <2>3, <2>4
<1>5. /\ \E p \in {one, two} : Jwt!Issue(p)
      /\ stored' = (stored \ {t}) \cup (n + 1 .. Len(issued'))
      /\ blacklist' = blacklist \cup {[jti |-> t, expiresAt |-> jwtNow + RefreshLife]}
      /\ blacklisted' = blacklisted + 1
      /\ revoked' = revoked \cup {t} /\ jwtNow' = jwtNow
  BY DEF Jwt!Rotate
<1>6. ASSUME NEW p \in {one, two}
      PROVE  /\ p \in Seq(JwtPayloads)
             /\ \A i \in 1 .. Len(p) : p[i].type = "refresh" => i = 2 /\ p[i] = next
  <2> HIDE DEF next
  <2>1. CASE p = one
    BY <1>3, <2>1
  <2>2. CASE p = two
    BY <1>3, <2>2
  <2> QED BY <2>1, <2>2
<1> HIDE DEF u, n, once, both, again, g, next, one, two
<1>7. PICK p \in {one, two} : Jwt!Issue(p)
  BY <1>5
<1>8. /\ issued' \in Seq(JwtPayloads) /\ Len(issued') <= MaxJwts
      /\ \A s \in Jwt!Jwts : s \in Jwt!Jwts' /\ issued'[s] = issued[s]
      /\ New = n + 1 .. Len(issued')
      /\ \A r \in New : r - n \in 1 .. Len(p) /\ issued'[r] = p[r - n]
  BY <1>1, <1>6, <1>7, IssueJwts DEF n
<1>9. \A r \in New : RefreshJwt(r)' => r = n + 2 /\ issued'[r] = next
  <2> SUFFICES ASSUME NEW r \in New, RefreshJwt(r)' PROVE r = n + 2 /\ issued'[r] = next
    OBVIOUS
  <2>1. r - n \in 1 .. Len(p) /\ p[r - n].type = "refresh" /\ issued'[r] = p[r - n]
    BY <1>8 DEF RefreshJwt
  <2>2. r - n = 2 /\ issued'[r] = next
    BY <1>6, <2>1
  <2>3. r \in Int
    BY <1>8, <1>1
  <2> QED BY <1>1, <2>2, <2>3
<1>10. /\ \A r \in New : RefreshJwt(r)' => Successor(r)
       /\ \A r, s \in New : RefreshJwt(r)' /\ RefreshJwt(s)' => r = s
  <2>1. t \notin stored'
    BY <1>1, <1>5
  <2> QED BY <1>1, <1>3, <1>9, <2>1 DEF Successor, g
<1>11. /\ revoked' \subseteq revoked \cup stored
       /\ \A b \in blacklist' : b \in [jti : Nat, expiresAt : Nat] /\ b.jti \in revoked'
       /\ IsFiniteSet(blacklist')
       /\ blacklisted' = Cardinality(blacklist')
  <2>1. {[jti |-> s, expiresAt |-> jwtNow + RefreshLife] : s \in {t}}
           = {[jti |-> t, expiresAt |-> jwtNow + RefreshLife]}
    OBVIOUS
  <2>2. Cardinality({t}) = 1 /\ {t} \in SUBSET stored
    BY <1>1, FS_Singleton
  <2> QED BY <1>5, <2>1, <2>2, RevokeJwts
<1>12. revoked' \cap stored' = {} /\ stored' \subseteq stored \cup New
  <2>1. New \cap 1 .. n = {} /\ stored' = (stored \ {t}) \cup New
    BY <1>1, <1>5, <1>8
  <2> QED BY <1>1, <1>5, <2>1
<1> QED BY <1>1, <1>4, <1>5, <1>8, <1>10, <1>11, <1>12 DEF JwtMove

\* Every call of JWTService is a move.
LEMMA JwtMoves == JwtInv /\ [Jwt!Next]_(Jwt!jwtVars) => JwtMove
<1> SUFFICES ASSUME JwtInv, [Jwt!Next]_(Jwt!jwtVars) PROVE JwtMove
  OBVIOUS
<1>0. /\ JwtTypes /\ RevokedGone /\ blacklisted = Cardinality(blacklist)
      /\ IsFiniteSet(blacklist) /\ blacklist \in SUBSET [jti : Nat, expiresAt : Nat]
      /\ jwtNow \in Nat /\ revoked \cap stored = {} /\ \A b \in blacklist : b.jti \in revoked
      /\ issued \in Seq(JwtPayloads) /\ Jwt!Jwts = 1 .. Len(issued)
  BY JwtCardinality DEF JwtInv, JwtTypes, RevokedGone, Jwt!BlacklistCounted, Jwt!Jwts
<1>1. ASSUME NEW u \in Users, Jwt!RevokeAllUserTokens(u) PROVE JwtMove
  <2> DEFINE theirs == {t \in stored : issued[t].user = u /\ issued[t].type # "api"}
  <2>1. theirs \in SUBSET stored /\ Jwt!Revoke(theirs) /\ UNCHANGED <<issued, entries, jwtNow>>
    BY <1>1 DEF Jwt!RevokeAllUserTokens
  <2> QED BY <2>1, RevokeMoves
<1>2. ASSUME NEW t \in Jwt!Jwts, Jwt!RevokeToken(t) PROVE JwtMove
  <2>1. {t} \in SUBSET stored /\ Jwt!Revoke({t}) /\ UNCHANGED <<issued, entries, jwtNow>>
    BY <1>2 DEF Jwt!RevokeToken
  <2> QED BY <2>1, RevokeMoves
<1>3. ASSUME NEW t \in Jwt!Jwts, NEW fits \in BOOLEAN, Jwt!RefreshRefused(t, fits) PROVE JwtMove
  <2>1. issued[t] \in JwtPayloads /\ issued[t].user \in Users
    <3>1. issued[t] \in JwtPayloads
      BY <1>0
    <3> QED BY <3>1 DEF JwtPayloads
  <2>2. /\ <<"refresh_token", issued[t].user>> \in Jwt!Keys
        /\ entries \in [Jwt!Keys -> [count : Nat, resetAt : Nat]]
    BY <1>0, <2>1 DEF Jwt!Keys, JwtTypes
  <2>3. /\ entries' \in [Jwt!Keys -> [count : Nat, resetAt : Nat]]
        /\ UNCHANGED <<issued, stored, blacklist, blacklisted, jwtNow, revoked>>
    BY <1>0, <1>3, <2>2, JwtCharged DEF Jwt!RefreshRefused
  <2>4. New = {} /\ Jwt!Jwts' = Jwt!Jwts
    BY <2>3 DEF New, Jwt!Jwts
  <2> QED BY <1>0, <2>3, <2>4 DEF JwtMove, JwtTypes
<1>4. ASSUME NEW t \in Jwt!Jwts, Jwt!RefreshAccessToken(t) PROVE JwtMove
  BY <1>3, <1>4, RotateMoves DEF Jwt!RefreshAccessToken
<1>5. ASSUME NEW b \in blacklist, Jwt!IsTokenBlacklisted(b) PROVE JwtMove
  <2>1. /\ blacklist' = blacklist \ {b} /\ blacklisted' = blacklisted - 1
        /\ UNCHANGED <<issued, stored, entries, jwtNow, revoked>>
    BY <1>5 DEF Jwt!IsTokenBlacklisted
  <2>2. IsFiniteSet(blacklist') /\ Cardinality(blacklist') = Cardinality(blacklist) - 1
    BY <1>0, <2>1, FS_RemoveElement
  <2> QED BY <1>0, <2>1, <2>2, QuietMove
<1>6. ASSUME Jwt!JwtTick PROVE JwtMove
  BY <1>0, <1>6, QuietMove DEF Jwt!JwtTick
<1>7. ASSUME UNCHANGED Jwt!jwtVars PROVE JwtMove
  BY <1>0, <1>7, QuietMove DEF Jwt!jwtVars
<1> QED
  BY <1>1, <1>2, <1>4, <1>5, <1>6, <1>7, GenerateAccessTokenMoves, GenerateApiTokenMoves,
     GenerateTokenPairMoves, CleanupMoves DEF Jwt!Next

\* The invariant of JWTService, for any users, lifetimes and limits.
LEMMA JwtInvariant == TokensSpec => []JwtInv
<1>1. JwtInv /\ [Jwt!Next]_(Jwt!jwtVars) => JwtInv'
  BY JwtMoves, JwtMoveInv
<1> QED BY JwtPart, JwtInit, <1>1, PTL DEF Jwt!Spec

\* What is stored or revoked was issued, and every variable keeps its shape.
LEMMA JwtTypesHold == JwtInv => Jwt!TypeOK
<1> SUFFICES ASSUME JwtInv PROVE Jwt!TypeOK
  OBVIOUS
<1>1. JwtTypes /\ RevokedGone /\ blacklisted = Cardinality(blacklist)
  BY JwtCardinality DEF JwtInv, Jwt!BlacklistCounted
<1>2. ASSUME NEW t \in Jwt!Jwts
      PROVE  issued[t].type \in Jwt!TokenTypes /\ issued[t].user \in Users
  <2>1. issued[t] \in JwtPayloads
    BY <1>1 DEF JwtTypes, Jwt!Jwts
  <2> QED BY <2>1 DEF JwtPayloads
<1>3. blacklisted \in Nat
  BY <1>1, FS_CardinalityType DEF JwtTypes
<1> QED BY <1>1, <1>2, <1>3 DEF Jwt!TypeOK, JwtTypes, RevokedGone

\* The accepted refresh token of a family is the stored one, and the latest.
LEMMA FamiliesHold == JwtInv => Jwt!OneLivePerFamily
<1> SUFFICES ASSUME JwtInv, NEW t \in Jwt!Jwts, Jwt!Live(t),
                    NEW o \in Jwt!Refreshes(issued[t].family) \ {t}
             PROVE  ~Jwt!Validates(o) /\ issued[o].generation < issued[t].generation
  BY DEF Jwt!OneLivePerFamily
<1>1. RefreshJwt(t) /\ t \in stored
  BY DEF Jwt!Live, Jwt!Validates, RefreshJwt
<1>2. o \in Jwt!Jwts /\ RefreshJwt(o) /\ issued[o].family = issued[t].family /\ o # t
  BY DEF Jwt!Refreshes, RefreshJwt
<1>3. o \notin stored /\ issued[o].generation < issued[t].generation
  BY <1>1, <1>2 DEF JwtInv, LatestStored
<1> QED BY <1>2, <1>3 DEF Jwt!Validates, RefreshJwt

\* However refreshes succeed, fail halfway or expire, one refresh token of a family is
\* accepted, the latest, and the counter of the blacklist counts it.
THEOREM JwtSound ==
    TokensSpec => [](Jwt!TypeOK /\ Jwt!OneLivePerFamily /\ Jwt!BlacklistCounted)
<1>1. JwtInv => Jwt!TypeOK /\ Jwt!OneLivePerFamily /\ Jwt!BlacklistCounted
  BY JwtTypesHold, FamiliesHold DEF JwtInv
<1> QED BY JwtInvariant, <1>1, PTL

\* A token that leaves its Map or expires does not come back: a move accepts no token
\* that was refused before it.
LEMMA NoJwtRevived ==
    ASSUME JwtInv, JwtMove, NEW t \in Jwt!Jwts, issued[t].type \in {"access", "refresh"},
           Jwt!Validates(t)'
    PROVE  Jwt!Validates(t)
<1>1. /\ jwtNow' < issued'[t].exp /\ issued'[t].type # "id"
      /\ issued'[t].type \in {"access", "refresh"} => t \in stored'
  BY DEF Jwt!Validates
<1>2. issued'[t] = issued[t] /\ jwtNow <= jwtNow' /\ jwtNow' \in Nat
  BY DEF JwtMove
<1>3. t \in stored
  BY <1>1, <1>2 DEF JwtMove, New
<1>4. ~Jwt!Blacklisted(t)
  BY <1>3 DEF JwtInv, RevokedGone, Jwt!Blacklisted
<1>5. issued[t].exp \in Nat /\ jwtNow \in Nat
  <2>1. issued[t] \in JwtPayloads
    BY DEF JwtInv, JwtTypes, Jwt!Jwts
  <2> QED BY <2>1 DEF JwtPayloads, JwtInv, JwtTypes
<1> QED BY <1>1, <1>2, <1>3, <1>4, <1>5 DEF Jwt!Validates

JwtState ==
    [t \in 1 .. MaxJwts |->
        IF t \notin Jwt!Jwts THEN "unissued"
        ELSE IF issued[t].type \in {"access", "refresh"} /\ Jwt!Validates(t)
             THEN "accepted" ELSE "refused"]

LEMMA JwtContractSteps == JwtInv /\ JwtMove => Jwt!Contract!Next
<1> SUFFICES ASSUME JwtInv, JwtMove PROVE Jwt!Contract!Next
  OBVIOUS
<1>1. /\ JwtState \in [1 .. MaxJwts -> {"unissued", "accepted", "refused"}]
      /\ JwtState' \in [1 .. MaxJwts -> {"unissued", "accepted", "refused"}]
  BY DEF JwtState
<1>2. ASSUME NEW t \in 1 .. MaxJwts, JwtState[t] = "refused" PROVE JwtState'[t] = "refused"
  <2>1. /\ t \in Jwt!Jwts
        /\ ~(issued[t].type \in {"access", "refresh"} /\ Jwt!Validates(t))
    BY <1>2 DEF JwtState
  <2>2. t \in Jwt!Jwts' /\ issued'[t] = issued[t]
    BY <2>1 DEF JwtMove
  <2>3. ~(issued'[t].type \in {"access", "refresh"} /\ Jwt!Validates(t)')
    BY <2>1, <2>2, NoJwtRevived
  <2> QED BY <2>2, <2>3 DEF JwtState
<1>3. ASSUME NEW t \in 1 .. MaxJwts, JwtState[t] = "accepted" PROVE JwtState'[t] # "unissued"
  <2>1. t \in Jwt!Jwts
    BY <1>3 DEF JwtState
  <2>2. t \in Jwt!Jwts'
    BY <2>1 DEF JwtMove
  <2> QED BY <2>2 DEF JwtState
<1>4. ContractStep(1 .. MaxJwts, JwtState, JwtState')
  <2>1. NeverBack(1 .. MaxJwts, JwtState, JwtState')
    BY <1>1, <1>2, <1>3 DEF NeverBack
  <2> QED BY <2>1, ContractSteps
<1> QED BY <1>4, Zenon DEF Jwt!Contract!Next, Jwt!Contract!Step, ContractStep, JwtState

\* JWTService implements TokenContract: a token that is refused stays refused, although
\* the blacklist forgets it.
THEOREM JwtContract == TokensSpec => Jwt!JwtImplementsContract
<1>1. Jwt!Init => Jwt!Contract!Init
  <2> SUFFICES ASSUME Jwt!Init PROVE Jwt!Contract!Init
    OBVIOUS
  <2>1. \A t \in 1 .. MaxJwts : t \notin Jwt!Jwts
    BY DEF Jwt!Init, Jwt!Jwts
  <2> QED BY <2>1 DEF Jwt!Contract!Init
<1>2. JwtInv /\ [Jwt!Next]_(Jwt!jwtVars) => Jwt!Contract!Next
  BY JwtMoves, JwtContractSteps
<1>3. Jwt!Contract!Spec => Jwt!JwtImplementsContract
  BY PTL DEF Jwt!JwtImplementsContract
<1>4. TokensSpec => Jwt!Contract!Spec
  BY JwtInvariant, JwtPart, <1>1, <1>2, PTL DEF Jwt!Spec, Jwt!Contract!Spec
<1> QED BY <1>3, <1>4

-----------------------------------------------------------------------------
(* OAuth2Service.                                                           *)

OAuthCodes == [client : Clients, scopes : SUBSET Scopes, used : BOOLEAN, expiresAt : Nat]
OAuthTokens == [kind : {"access", "refresh", "id"}, code : Nat, generation : Nat,
                scopes : SUBSET Scopes, revoked : BOOLEAN, expiresAt : Nat]

GrantsOf(sort) == {t \in OAuth!Grants : grants[t].kind = sort}

OAuthTypes ==
    /\ clients \subseteq Clients
    /\ codes \in Seq(OAuthCodes) /\ codeStore \subseteq OAuth!Codes
    /\ grants \in Seq(OAuthTokens) /\ Len(grants) <= MaxGrants
    /\ accessStore \subseteq GrantsOf("access") /\ tokenCache \subseteq accessStore
    /\ refreshStore \subseteq GrantsOf("refresh")
    /\ oauthNow \in Nat

\* A token's code was created, and used; the chain of a refresh token began with a code.
GrantsHaveCodes ==
    \A t \in OAuth!Grants :
        /\ grants[t].kind = "refresh" => grants[t].code # 0
        /\ grants[t].code # 0 =>
              /\ grants[t].code \in OAuth!Codes /\ codes[grants[t].code].used
              /\ grants[t].scopes \subseteq codes[grants[t].code].scopes

SameChain(s, t) == grants[s].code = grants[t].code /\ grants[t].code # 0

\* With rotation, a refresh token that is not revoked ends its chain: no token of the code
\* is of a later generation, and the other refresh tokens are earlier, and revoked.
LatestRefresh ==
    RotateRefresh => \A s, t \in OAuth!Grants :
        /\ SameChain(s, t) /\ grants[t].kind = "refresh" /\ ~grants[t].revoked
        => /\ grants[s].generation <= grants[t].generation
           /\ s # t /\ grants[s].kind = "refresh" =>
                 grants[s].revoked /\ grants[s].generation < grants[t].generation

\* With rotation, a later generation has the scopes of an earlier one or fewer.
ScopesFollow ==
    RotateRefresh => \A s, t \in OAuth!Grants :
        SameChain(s, t) /\ grants[s].generation <= grants[t].generation
        => grants[t].scopes \subseteq grants[s].scopes

OAuthInv ==
    /\ OAuthTypes /\ GrantsHaveCodes /\ LatestRefresh /\ ScopesFollow
    /\ OAuth!CodeExchangedOnce

\* What a step may grant: tokens without a code, the first tokens of a code that was not
\* used, or tokens that follow on a refresh token that rotation revokes.
NewGrants == OAuth!Grants' \ OAuth!Grants

Follows(r) ==
    \/ grants'[r].code = 0 /\ grants'[r].kind # "refresh"
    \/ \E c \in OAuth!Codes :
          /\ ~codes[c].used /\ codes'[c].used
          /\ grants'[r].code = c /\ grants'[r].generation = 0
          /\ grants'[r].scopes = codes[c].scopes
    \/ \E t \in OAuth!Grants :
          /\ grants[t].kind = "refresh" /\ ~grants[t].revoked
          /\ RotateRefresh => grants'[t].revoked
          /\ grants'[r].code = grants[t].code
          /\ grants'[r].generation = grants[t].generation + 1
          /\ grants'[r].scopes \subseteq grants[t].scopes

OAuthMove ==
    /\ clients' \subseteq Clients
    /\ codes' \in Seq(OAuthCodes) /\ codeStore' \subseteq OAuth!Codes'
    /\ \A c \in OAuth!Codes : /\ c \in OAuth!Codes' /\ codes'[c].scopes = codes[c].scopes
                              /\ codes[c].used => codes'[c].used
    /\ grants' \in Seq(OAuthTokens) /\ Len(grants') <= MaxGrants
    /\ \A t \in OAuth!Grants :
          /\ t \in OAuth!Grants'
          /\ grants'[t].kind = grants[t].kind /\ grants'[t].code = grants[t].code
          /\ grants'[t].generation = grants[t].generation
          /\ grants'[t].scopes = grants[t].scopes
          /\ grants'[t].expiresAt = grants[t].expiresAt
          /\ grants[t].revoked => grants'[t].revoked
    /\ \A r \in NewGrants : Follows(r)
    /\ \A r, s \in NewGrants :
          /\ grants'[r].code = grants'[s].code /\ grants'[r].scopes = grants'[s].scopes
          /\ grants'[r].generation = grants'[s].generation
          /\ grants'[r].kind = "refresh" /\ grants'[s].kind = "refresh" => r = s
    /\ accessStore' \subseteq accessStore \cup {r \in NewGrants : grants'[r].kind = "access"}
    /\ refreshStore' \subseteq refreshStore \cup {r \in NewGrants : grants'[r].kind = "refresh"}
    /\ tokenCache' \subseteq accessStore'
    /\ oauthNow' \in Nat /\ oauthNow <= oauthNow'

LEMMA OAuthInit == OAuth!Init => OAuthInv
<1> SUFFICES ASSUME OAuth!Init PROVE OAuthInv
  OBVIOUS
<1>1. OAuth!Grants = {} /\ OAuth!Codes = {} /\ Len(grants) = 0
  BY DEF OAuth!Init, OAuth!Grants, OAuth!Codes
<1>2. OAuthTypes
  BY <1>1, OAuthConfig DEF OAuthTypes, OAuth!Init
<1>3. GrantsHaveCodes /\ LatestRefresh /\ ScopesFollow /\ OAuth!CodeExchangedOnce
  BY <1>1 DEF GrantsHaveCodes, LatestRefresh, ScopesFollow, OAuth!CodeExchangedOnce
<1> QED BY <1>2, <1>3 DEF OAuthInv

\* What follows from a move, whichever call makes it.
LEMMA OAuthMoveInv == OAuthInv /\ OAuthMove => OAuthInv'
<1> SUFFICES ASSUME OAuthInv, OAuthMove PROVE OAuthInv'
  OBVIOUS
<1>1. /\ OAuth!Grants = 1 .. Len(grants) /\ OAuth!Grants' = 1 .. Len(grants')
      /\ OAuth!Codes = 1 .. Len(codes) /\ OAuth!Codes' = 1 .. Len(codes')
  BY DEF OAuth!Grants, OAuth!Codes
<1>2. /\ \A t \in OAuth!Grants : grants[t] \in OAuthTokens
      /\ \A t \in OAuth!Grants' : grants'[t] \in OAuthTokens
      /\ \A t \in OAuth!Grants' : t \in OAuth!Grants \/ t \in NewGrants
      /\ \A t \in OAuth!Grants : grants[t].generation \in Nat /\ grants[t].code \in Nat
      /\ \A t \in OAuth!Grants' : grants'[t].generation \in Nat
      /\ 0 \notin OAuth!Codes
  <2>1. /\ \A t \in OAuth!Grants : grants[t] \in OAuthTokens
        /\ \A t \in OAuth!Grants' : grants'[t] \in OAuthTokens
    BY <1>1 DEF OAuthInv, OAuthTypes, OAuthMove
  <2> QED BY <1>1, <2>1 DEF OAuthTokens, NewGrants
<1>3. OAuthTypes'
  <2>1. ASSUME NEW sort, NEW t \in GrantsOf(sort) PROVE t \in GrantsOf(sort)'
    BY <2>1 DEF GrantsOf, OAuthMove
  <2>2. ASSUME NEW sort, NEW t \in NewGrants, grants'[t].kind = sort PROVE t \in GrantsOf(sort)'
    BY <2>2 DEF GrantsOf, NewGrants
  <2>3. accessStore' \subseteq GrantsOf("access")'
    BY <2>1, <2>2 DEF OAuthInv, OAuthTypes, OAuthMove
  <2>4. refreshStore' \subseteq GrantsOf("refresh")'
    BY <2>1, <2>2 DEF OAuthInv, OAuthTypes, OAuthMove
  <2> QED BY <2>3, <2>4 DEF OAuthTypes, OAuthMove
<1>4. GrantsHaveCodes'
  <2> SUFFICES ASSUME NEW t \in OAuth!Grants'
               PROVE  /\ grants'[t].kind = "refresh" => grants'[t].code # 0
                      /\ grants'[t].code # 0 =>
                            /\ grants'[t].code \in OAuth!Codes'
                            /\ codes'[grants'[t].code].used
                            /\ grants'[t].scopes \subseteq codes'[grants'[t].code].scopes
    BY DEF GrantsHaveCodes
  <2>0. \A c \in OAuth!Codes : /\ c \in OAuth!Codes' /\ codes'[c].scopes = codes[c].scopes
                               /\ codes[c].used => codes'[c].used
    BY DEF OAuthMove
  <2>1. CASE t \in OAuth!Grants
    <3>1. /\ grants'[t].kind = grants[t].kind /\ grants'[t].code = grants[t].code
          /\ grants'[t].scopes = grants[t].scopes
      BY <2>1 DEF OAuthMove
    <3>2. /\ grants[t].kind = "refresh" => grants[t].code # 0
          /\ grants[t].code # 0 =>
                /\ grants[t].code \in OAuth!Codes /\ codes[grants[t].code].used
                /\ grants[t].scopes \subseteq codes[grants[t].code].scopes
      BY <2>1 DEF OAuthInv, GrantsHaveCodes
    <3>3. grants[t].code # 0 =>
             /\ grants[t].code \in OAuth!Codes' /\ codes'[grants[t].code].used
             /\ grants[t].scopes \subseteq codes'[grants[t].code].scopes
      BY <2>0, <3>2
    <3> QED BY <3>1, <3>2, <3>3
  <2>2. CASE t \in NewGrants
    <3>1. Follows(t)
      BY <2>2 DEF OAuthMove
    <3>2. CASE \E c \in OAuth!Codes :
                  /\ codes'[c].used /\ grants'[t].code = c
                  /\ grants'[t].scopes = codes[c].scopes
      <4>1. PICK c \in OAuth!Codes : /\ codes'[c].used /\ grants'[t].code = c
                                     /\ grants'[t].scopes = codes[c].scopes
        BY <3>2
      <4>2. c \in OAuth!Codes' /\ codes'[c].scopes = codes[c].scopes /\ c # 0
        BY <1>2, <2>0
      <4> QED BY <4>1, <4>2
    <3>3. CASE \E s \in OAuth!Grants :
                  /\ grants[s].kind = "refresh" /\ grants'[t].code = grants[s].code
                  /\ grants'[t].scopes \subseteq grants[s].scopes
      <4>1. PICK s \in OAuth!Grants :
                  /\ grants[s].kind = "refresh" /\ grants'[t].code = grants[s].code
                  /\ grants'[t].scopes \subseteq grants[s].scopes
        BY <3>3
      <4>2. /\ grants[s].code # 0 /\ grants[s].code \in OAuth!Codes /\ codes[grants[s].code].used
            /\ grants[s].scopes \subseteq codes[grants[s].code].scopes
        BY <4>1 DEF OAuthInv, GrantsHaveCodes
      <4>3. /\ grants[s].code \in OAuth!Codes' /\ codes'[grants[s].code].used
            /\ codes'[grants[s].code].scopes = codes[grants[s].code].scopes
        BY <2>0, <4>2
      <4>4. grants'[t].scopes \subseteq codes[grants[s].code].scopes
        BY <4>1, <4>2
      <4> QED BY <4>1, <4>2, <4>3, <4>4
    <3> QED BY <3>1, <3>2, <3>3 DEF Follows
  <2> QED BY <1>2, <2>1, <2>2
\* The token a new one of generation 1 and more follows on, with rotation.
<1>5. ASSUME NEW r \in NewGrants, NEW s \in OAuth!Grants,
             grants'[r].code # 0, grants'[s].code = grants'[r].code
      PROVE  \E t \in OAuth!Grants :
                /\ grants[t].kind = "refresh" /\ ~grants[t].revoked
                /\ RotateRefresh => grants'[t].revoked
                /\ SameChain(s, t)
                /\ grants'[r].generation = grants[t].generation + 1
                /\ grants'[r].scopes \subseteq grants[t].scopes
  <2>1. Follows(r) /\ grants[s].code = grants'[r].code
    BY <1>5 DEF OAuthMove
  <2>2. ~ \E c \in OAuth!Codes : ~codes[c].used /\ grants'[r].code = c
    BY <1>5, <2>1 DEF OAuthInv, GrantsHaveCodes
  <2> QED BY <1>5, <2>1, <2>2 DEF Follows, SameChain
<1>6. LatestRefresh'
  <2> SUFFICES ASSUME RotateRefresh,
                      NEW s \in OAuth!Grants', NEW t \in OAuth!Grants',
                      grants'[s].code = grants'[t].code, grants'[t].code # 0,
                      grants'[t].kind = "refresh", ~grants'[t].revoked
               PROVE  /\ grants'[s].generation <= grants'[t].generation
                      /\ s # t /\ grants'[s].kind = "refresh" =>
                            /\ grants'[s].revoked
                            /\ grants'[s].generation < grants'[t].generation
    BY DEF LatestRefresh, SameChain
  <2>1. CASE s \in OAuth!Grants /\ t \in OAuth!Grants
    BY <2>1 DEF OAuthMove, OAuthInv, LatestRefresh, SameChain
  <2>2. CASE s \in NewGrants /\ t \in NewGrants
    BY <1>2, <2>2 DEF OAuthMove
  <2>3. CASE s \in OAuth!Grants /\ t \in NewGrants
    <3>1. PICK o \in OAuth!Grants :
             /\ grants[o].kind = "refresh" /\ ~grants[o].revoked /\ grants'[o].revoked
             /\ SameChain(s, o) /\ grants'[t].generation = grants[o].generation + 1
      BY <1>5, <2>3
    <3>2. /\ grants[s].generation <= grants[o].generation
          /\ s # o /\ grants[s].kind = "refresh" => grants[s].revoked
      BY <2>3, <3>1 DEF OAuthInv, LatestRefresh
    <3>3. /\ grants'[s].kind = grants[s].kind /\ grants'[s].generation = grants[s].generation
          /\ grants[s].revoked => grants'[s].revoked
      BY <2>3 DEF OAuthMove
    <3>4. grants[s].generation \in Nat /\ grants[o].generation \in Nat
      BY <1>2, <2>3
    <3> QED BY <3>1, <3>2, <3>3, <3>4
  <2>4. CASE s \in NewGrants /\ t \in OAuth!Grants
    <3>1. PICK o \in OAuth!Grants :
             /\ grants[o].kind = "refresh" /\ ~grants[o].revoked /\ grants'[o].revoked
             /\ SameChain(t, o)
      BY <1>5, <2>4
    <3>2. grants[t].kind = "refresh" /\ ~grants[t].revoked /\ t # o
      BY <2>4, <3>1 DEF OAuthMove
    <3> QED BY <2>4, <3>1, <3>2 DEF OAuthInv, LatestRefresh
  <2> QED BY <1>2, <2>1, <2>2, <2>3, <2>4
<1>7. ScopesFollow'
  <2> SUFFICES ASSUME RotateRefresh,
                      NEW s \in OAuth!Grants', NEW t \in OAuth!Grants',
                      grants'[s].code = grants'[t].code, grants'[t].code # 0,
                      grants'[s].generation <= grants'[t].generation
               PROVE  grants'[t].scopes \subseteq grants'[s].scopes
    BY DEF ScopesFollow, SameChain
  <2>1. CASE s \in OAuth!Grants /\ t \in OAuth!Grants
    BY <2>1 DEF OAuthMove, OAuthInv, ScopesFollow, SameChain
  <2>2. CASE s \in NewGrants /\ t \in NewGrants
    BY <2>2 DEF OAuthMove
  <2>3. CASE s \in OAuth!Grants /\ t \in NewGrants
    <3>1. PICK o \in OAuth!Grants :
             /\ grants[o].kind = "refresh" /\ ~grants[o].revoked /\ SameChain(s, o)
             /\ grants'[t].scopes \subseteq grants[o].scopes
      BY <1>5, <2>3
    <3>2. grants[s].generation <= grants[o].generation
      BY <2>3, <3>1 DEF OAuthInv, LatestRefresh
    <3>3. grants[o].scopes \subseteq grants[s].scopes
      BY <2>3, <3>1, <3>2 DEF OAuthInv, ScopesFollow
    <3> QED BY <2>3, <3>1, <3>3 DEF OAuthMove
  <2>4. CASE s \in NewGrants /\ t \in OAuth!Grants
    <3>1. PICK o \in OAuth!Grants :
             /\ grants[o].kind = "refresh" /\ ~grants[o].revoked
             /\ SameChain(t, o) /\ grants'[s].generation = grants[o].generation + 1
      BY <1>5, <2>4
    <3>2. grants[t].generation <= grants[o].generation
      BY <2>4, <3>1 DEF OAuthInv, LatestRefresh
    <3>3. grants'[t].generation = grants[t].generation
      BY <2>4 DEF OAuthMove
    <3>4. grants[t].generation \in Nat /\ grants[o].generation \in Nat
      BY <1>2, <2>4
    <3> QED BY <3>1, <3>2, <3>3, <3>4
  <2> QED BY <1>2, <2>1, <2>2, <2>3, <2>4
<1>8. OAuth!CodeExchangedOnce'
  <2> SUFFICES ASSUME NEW s \in OAuth!Grants', NEW t \in OAuth!Grants',
                      grants'[s].code = grants'[t].code, grants'[s].code # 0,
                      grants'[s].kind = "refresh", grants'[t].kind = "refresh",
                      grants'[s].generation = 0, grants'[t].generation = 0
               PROVE  s = t
    BY DEF OAuth!CodeExchangedOnce
  <2>1. CASE s \in OAuth!Grants /\ t \in OAuth!Grants
    BY <2>1 DEF OAuthMove, OAuthInv, OAuth!CodeExchangedOnce
  <2>2. CASE s \in NewGrants /\ t \in NewGrants
    BY <2>2 DEF OAuthMove
  <2>3. CASE s \in OAuth!Grants /\ t \in NewGrants
    BY <1>2, <1>5, <2>3
  <2>4. CASE s \in NewGrants /\ t \in OAuth!Grants
    BY <1>2, <1>5, <2>4
  <2> QED BY <1>2, <2>1, <2>2, <2>3, <2>4
<1> QED BY <1>3, <1>4, <1>6, <1>7, <1>8 DEF OAuthInv

\* Tokens are granted at the end of the sequence.
LEMMA GrantOAuth ==
    ASSUME OAuthTypes, NEW earlier \in Seq(OAuthTokens), NEW fresh \in Seq(OAuthTokens),
           Len(earlier) = Len(grants), OAuth!Grant(earlier, fresh)
    PROVE  /\ grants' \in Seq(OAuthTokens) /\ Len(grants') <= MaxGrants
           /\ \A t \in OAuth!Grants : t \in OAuth!Grants' /\ grants'[t] = earlier[t]
           /\ \A r \in NewGrants : /\ r \in Int /\ r - Len(grants) \in 1 .. Len(fresh)
                                   /\ grants'[r] = fresh[r - Len(grants)]
           /\ accessStore' \subseteq accessStore \cup {r \in NewGrants : grants'[r].kind = "access"}
           /\ refreshStore' \subseteq refreshStore \cup {r \in NewGrants : grants'[r].kind = "refresh"}
<1> DEFINE n == Len(grants)
           made(sort) == {n + i : i \in {j \in DOMAIN fresh : fresh[j].kind = sort}}
<1>1. /\ n \in Nat /\ Len(fresh) \in Nat /\ DOMAIN fresh = 1 .. Len(fresh)
      /\ grants' = earlier \o fresh /\ n + Len(fresh) <= MaxGrants
      /\ OAuth!Grants = 1 .. n /\ OAuth!Grants' = 1 .. Len(grants')
  BY DEF OAuthTypes, OAuth!Grant, OAuth!Grants
<1>2. accessStore' = accessStore \cup made("access") /\ refreshStore' = refreshStore \cup made("refresh")
  BY DEF OAuth!Grant
<1>3. /\ grants' \in Seq(OAuthTokens) /\ Len(grants') = n + Len(fresh)
      /\ \A t \in 1 .. n + Len(fresh) :
            grants'[t] = IF t <= n THEN earlier[t] ELSE fresh[t - n]
  <2>1. /\ grants' \in Seq(OAuthTokens) /\ Len(grants') = Len(earlier) + Len(fresh)
        /\ \A t \in 1 .. Len(earlier) + Len(fresh) :
              grants'[t] = IF t <= Len(earlier) THEN earlier[t] ELSE fresh[t - Len(earlier)]
    BY <1>1, ConcatProperties
  <2> QED BY <2>1
<1>4. NewGrants = n + 1 .. n + Len(fresh)
  BY <1>1, <1>3 DEF NewGrants
<1>5. ASSUME NEW sort, NEW r \in made(sort) PROVE r \in NewGrants /\ grants'[r].kind = sort
  <2>1. PICK i \in 1 .. Len(fresh) : r = n + i /\ fresh[i].kind = sort
    BY <1>1
  <2>2. r \in n + 1 .. n + Len(fresh) /\ r - n = i
    BY <1>1, <2>1
  <2> QED BY <1>1, <1>3, <1>4, <2>1, <2>2
<1> HIDE DEF made
<1>6. /\ \A t \in OAuth!Grants : t \in OAuth!Grants' /\ grants'[t] = earlier[t]
      /\ \A r \in NewGrants : /\ r \in Int /\ r - n \in 1 .. Len(fresh)
                              /\ grants'[r] = fresh[r - n]
  BY <1>1, <1>3, <1>4
<1> QED BY <1>1, <1>2, <1>3, <1>5, <1>6

\* A step that makes no token and ends no code.
LEMMA OAuthQuiet ==
    ASSUME OAuthInv, clients' \subseteq Clients, UNCHANGED codes, codeStore' \subseteq OAuth!Codes,
           grants' \in Seq(OAuthTokens), Len(grants') = Len(grants),
           \A t \in OAuth!Grants :
              /\ grants'[t].kind = grants[t].kind /\ grants'[t].code = grants[t].code
              /\ grants'[t].generation = grants[t].generation
              /\ grants'[t].scopes = grants[t].scopes
              /\ grants'[t].expiresAt = grants[t].expiresAt
              /\ grants[t].revoked => grants'[t].revoked,
           accessStore' \subseteq accessStore, refreshStore' \subseteq refreshStore,
           tokenCache' \subseteq accessStore', oauthNow' \in Nat, oauthNow <= oauthNow'
    PROVE  OAuthMove
<1>1. OAuth!Grants' = OAuth!Grants /\ NewGrants = {} /\ OAuth!Codes' = OAuth!Codes
  BY DEF OAuth!Grants, OAuth!Codes, NewGrants
<1>2. Len(grants') <= MaxGrants /\ codes \in Seq(OAuthCodes)
  BY DEF OAuthInv, OAuthTypes
<1> QED BY <1>1, <1>2 DEF OAuthMove

\* What a token is made of.
LEMMA OAuthPayloads ==
    ASSUME oauthNow \in Nat, NEW code \in Nat, NEW generation \in Nat, NEW scopes \in SUBSET Scopes
    PROVE  LET a == OAuth!AccessToken(code, generation, scopes)
               r == OAuth!RefreshToken(code, generation, scopes)
               i == OAuth!IdToken(code, scopes)
           IN  /\ a \in OAuthTokens /\ a.kind = "access" /\ a.code = code
               /\ a.generation = generation /\ a.scopes = scopes
               /\ r \in OAuthTokens /\ r.kind = "refresh" /\ r.code = code
               /\ r.generation = generation /\ r.scopes = scopes
               /\ i \in OAuthTokens /\ i.kind = "id" /\ i.code = code
               /\ i.generation = 0 /\ i.scopes = scopes
<1>1. oauthNow + RenewLife \in Nat /\ oauthNow + TokenLife \in Nat
  BY OAuthConfig
<1> QED
  BY <1>1 DEF OAuth!AccessToken, OAuth!RefreshToken, OAuth!IdToken, OAuth!Payload, OAuthTokens

\* Tokens that a call makes together: of one code, generation and set of scopes, with one
\* refresh token at most.
Batch(fresh, code, generation, scopes) ==
    /\ fresh \in Seq(OAuthTokens)
    /\ \A i \in 1 .. Len(fresh) :
          /\ fresh[i].code = code /\ fresh[i].generation = generation
          /\ fresh[i].scopes = scopes
          /\ fresh[i].kind = "refresh" => i = 2

LEMMA BatchGranted ==
    ASSUME OAuthInv, NEW earlier \in Seq(OAuthTokens), Len(earlier) = Len(grants),
           NEW fresh, NEW code, NEW generation, NEW scopes,
           Batch(fresh, code, generation, scopes), OAuth!Grant(earlier, fresh)
    PROVE  /\ grants' \in Seq(OAuthTokens) /\ Len(grants') <= MaxGrants
           /\ \A t \in OAuth!Grants : t \in OAuth!Grants' /\ grants'[t] = earlier[t]
           /\ \A r, s \in NewGrants :
                 grants'[r].kind = "refresh" /\ grants'[s].kind = "refresh" => r = s
           /\ \A r \in NewGrants :
                 /\ grants'[r].code = code /\ grants'[r].generation = generation
                 /\ grants'[r].scopes = scopes
                 /\ \E i \in 1 .. Len(fresh) : grants'[r] = fresh[i]
           /\ accessStore' \subseteq accessStore \cup {r \in NewGrants : grants'[r].kind = "access"}
           /\ refreshStore' \subseteq refreshStore \cup {r \in NewGrants : grants'[r].kind = "refresh"}
<1>1. OAuthTypes /\ fresh \in Seq(OAuthTokens) /\ Len(grants) \in Nat
  BY DEF OAuthInv, OAuthTypes, Batch
<1>2. /\ grants' \in Seq(OAuthTokens) /\ Len(grants') <= MaxGrants
      /\ \A t \in OAuth!Grants : t \in OAuth!Grants' /\ grants'[t] = earlier[t]
      /\ \A r \in NewGrants :
            /\ r \in Int /\ r - Len(grants) \in 1 .. Len(fresh)
            /\ grants'[r] = fresh[r - Len(grants)]
      /\ accessStore' \subseteq accessStore \cup {r \in NewGrants : grants'[r].kind = "access"}
      /\ refreshStore' \subseteq refreshStore \cup {r \in NewGrants : grants'[r].kind = "refresh"}
  BY <1>1, GrantOAuth
<1>3. ASSUME NEW r \in NewGrants
      PROVE  /\ grants'[r].code = code /\ grants'[r].generation = generation
             /\ grants'[r].scopes = scopes
             /\ grants'[r].kind = "refresh" => r = Len(grants) + 2
             /\ \E i \in 1 .. Len(fresh) : grants'[r] = fresh[i]
  <2> DEFINE i == r - Len(grants)
  <2>1. i \in 1 .. Len(fresh) /\ grants'[r] = fresh[i] /\ r \in Int /\ r = Len(grants) + i
    BY <1>1, <1>2
  <2> HIDE DEF i
  <2>2. /\ fresh[i].code = code /\ fresh[i].generation = generation
        /\ fresh[i].scopes = scopes
        /\ fresh[i].kind = "refresh" => i = 2
    BY <2>1 DEF Batch
  <2> QED BY <2>1, <2>2
<1> QED BY <1>2, <1>3

\* The shapes a batch has.
Made(x, code, generation, scopes) ==
    x.code = code /\ x.generation = generation /\ x.scopes = scopes

LEMMA Batches ==
    ASSUME NEW code, NEW generation, NEW scopes,
           NEW a \in OAuthTokens, NEW r \in OAuthTokens, NEW i \in OAuthTokens,
           Made(a, code, generation, scopes), Made(r, code, generation, scopes),
           Made(i, code, generation, scopes), a.kind = "access", i.kind = "id"
    PROVE  /\ Batch(<<a>>, code, generation, scopes)
           /\ Batch(<<a, r>>, code, generation, scopes)
           /\ Batch(Append(<<a, r>>, i), code, generation, scopes)
           /\ Append(<<a>>, r) = <<a, r>>
<1> USE DEF Made
<1>1. Batch(<<a>>, code, generation, scopes)
  BY DEF Batch
<1>2. Batch(<<a, r>>, code, generation, scopes)
  BY DEF Batch
<1>3. Batch(Append(<<a, r>>, i), code, generation, scopes)
  <2> DEFINE p == <<a, r>>
  <2>1. p \in Seq(OAuthTokens) /\ Len(p) = 2 /\ p[1] = a /\ p[2] = r
    OBVIOUS
  <2> HIDE DEF p
  <2>2. /\ Append(p, i) \in Seq(OAuthTokens) /\ Len(Append(p, i)) = 3
        /\ Append(p, i)[1] = a /\ Append(p, i)[2] = r /\ Append(p, i)[3] = i
    <3>1. Append(p, i) \in Seq(OAuthTokens) /\ Len(Append(p, i)) = Len(p) + 1
      BY <2>1, AppendProperties
    <3>2. ASSUME NEW q \in Seq(OAuthTokens), NEW j \in 1 .. Len(q) PROVE Append(q, i)[j] = q[j]
      BY AppendProperties
    <3>3. Append(p, i)[Len(p) + 1] = i
      BY <2>1, AppendProperties
    <3> QED BY <2>1, <3>1, <3>2, <3>3
  <2>3. Batch(Append(p, i), code, generation, scopes)
    BY <2>2 DEF Batch
  <2> QED BY <2>3 DEF p
<1>4. Append(<<a>>, r) = <<a, r>>
  <2>1. <<a>> \in Seq(OAuthTokens) /\ Len(<<a>>) = 1 /\ <<a>>[1] = a
    OBVIOUS
  <2>2. <<a, r>> \in Seq(OAuthTokens) /\ Len(<<a, r>>) = 2 /\ <<a, r>>[1] = a /\ <<a, r>>[2] = r
    OBVIOUS
  <2>3. /\ Append(<<a>>, r) \in Seq(OAuthTokens) /\ Len(Append(<<a>>, r)) = 2
        /\ Append(<<a>>, r)[1] = a /\ Append(<<a>>, r)[2] = r
    BY <2>1, AppendProperties
  <2> DEFINE one == Append(<<a>>, r)
             two == <<a, r>>
  <2>4. \A j \in 1 .. 2 : j = 1 \/ j = 2
    OBVIOUS
  <2>5. \A j \in 1 .. 2 : one[j] = two[j]
    BY <2>2, <2>3, <2>4
  <2> HIDE DEF one, two
  <2>6. one \in Seq(OAuthTokens) /\ two \in Seq(OAuthTokens) /\ Len(one) = 2 /\ Len(two) = 2
    BY <2>2, <2>3 DEF one, two
  <2>7. one = two
    BY <2>5, <2>6, SeqEqual
  <2> QED BY <2>7 DEF one, two
<1> QED BY <1>1, <1>2, <1>3, <1>4

LEMMA ExchangeMoves ==
    ASSUME OAuthInv, NEW c \in OAuth!Codes, OAuth!ExchangeCodeForTokens(c) PROVE OAuthMove
<1> DEFINE scopes == codes[c].scopes
           a == OAuth!AccessToken(c, 0, scopes)
           r == OAuth!RefreshToken(c, 0, scopes)
           i == OAuth!IdToken(c, scopes)
           fresh == IF "openid" \in scopes THEN Append(<<a, r>>, i) ELSE <<a, r>>
<1>1. /\ OAuthTypes /\ codes \in Seq(OAuthCodes) /\ grants \in Seq(OAuthTokens)
      /\ c \in 1 .. Len(codes) /\ c \in Nat /\ codes[c] \in OAuthCodes /\ oauthNow \in Nat
      /\ OAuth!Codes = 1 .. Len(codes)
  BY DEF OAuthInv, OAuthTypes, OAuth!Codes
<1>2. /\ ~codes[c].used /\ codes' = [codes EXCEPT ![c].used = TRUE]
      /\ OAuth!Grant(grants, fresh)
      /\ UNCHANGED <<clients, codeStore, tokenCache, oauthNow>>
  BY DEF OAuth!ExchangeCodeForTokens, OAuth!Exchangeable, OAuth!ExchangeTokens
<1>3. Batch(fresh, c, 0, scopes)
  <2>1. scopes \in SUBSET Scopes
    BY <1>1 DEF OAuthCodes
  <2>2. /\ a \in OAuthTokens /\ r \in OAuthTokens /\ i \in OAuthTokens
        /\ a.kind = "access" /\ i.kind = "id"
        /\ Made(a, c, 0, scopes) /\ Made(r, c, 0, scopes) /\ Made(i, c, 0, scopes)
    <3> HIDE DEF scopes
    <3> QED BY <1>1, <2>1, OAuthPayloads DEF Made
  <2> HIDE DEF a, r, i
  <2>3. Batch(<<a, r>>, c, 0, scopes) /\ Batch(Append(<<a, r>>, i), c, 0, scopes)
    BY <2>2, Batches
  <2> QED BY <2>3
<1>4. /\ codes' \in Seq(OAuthCodes) /\ OAuth!Codes' = OAuth!Codes /\ codes'[c].used
      /\ \A d \in OAuth!Codes : /\ codes'[d].scopes = codes[d].scopes
                                /\ codes[d].used => codes'[d].used
  <2>1. [codes[c] EXCEPT !.used = TRUE] \in OAuthCodes
    BY <1>1 DEF OAuthCodes
  <2>2. codes' = [codes EXCEPT ![c] = [codes[c] EXCEPT !.used = TRUE]]
    BY <1>2
  <2>3. /\ codes' \in Seq(OAuthCodes) /\ Len(codes') = Len(codes)
        /\ \A d \in 1 .. Len(codes) :
              codes'[d] = IF d = c THEN [codes[c] EXCEPT !.used = TRUE] ELSE codes[d]
    BY <1>1, <2>1, <2>2, ExceptSeq
  <2>4. [codes[c] EXCEPT !.used = TRUE].used /\ [codes[c] EXCEPT !.used = TRUE].scopes = codes[c].scopes
    BY <1>1 DEF OAuthCodes
  <2> QED BY <1>1, <2>3, <2>4 DEF OAuth!Codes
<1> HIDE DEF fresh, scopes, a, r, i
<1>5. /\ grants' \in Seq(OAuthTokens) /\ Len(grants') <= MaxGrants
      /\ \A t \in OAuth!Grants : t \in OAuth!Grants' /\ grants'[t] = grants[t]
      /\ \A x, y \in NewGrants :
            grants'[x].kind = "refresh" /\ grants'[y].kind = "refresh" => x = y
      /\ \A x \in NewGrants :
            /\ grants'[x].code = c /\ grants'[x].generation = 0
            /\ grants'[x].scopes = scopes
      /\ accessStore' \subseteq accessStore \cup {x \in NewGrants : grants'[x].kind = "access"}
      /\ refreshStore' \subseteq refreshStore \cup {x \in NewGrants : grants'[x].kind = "refresh"}
  BY <1>1, <1>2, <1>3, BatchGranted
<1>6. \A x \in NewGrants : Follows(x)
  BY <1>2, <1>4, <1>5 DEF Follows, scopes
<1>7. tokenCache' \subseteq accessStore' /\ clients' \subseteq Clients /\ codeStore' \subseteq OAuth!Codes'
      /\ oauthNow' \in Nat /\ oauthNow <= oauthNow'
  <2>1. accessStore \subseteq accessStore'
    BY <1>2 DEF OAuth!Grant
  <2> QED BY <1>1, <1>2, <1>4, <2>1 DEF OAuthTypes
<1> QED BY <1>4, <1>5, <1>6, <1>7 DEF OAuthMove

\* A refresh token marked: everything else of it stays.
LEMMA MarkRevoked ==
    ASSUME OAuthInv, NEW t \in OAuth!Grants, NEW v \in BOOLEAN,
           v \/ ~grants[t].revoked
    PROVE  LET marked == [grants EXCEPT ![t].revoked = v]
           IN  /\ marked \in Seq(OAuthTokens) /\ Len(marked) = Len(grants)
               /\ marked[t].revoked = v
               /\ \A s \in OAuth!Grants :
                     /\ marked[s].kind = grants[s].kind /\ marked[s].code = grants[s].code
                     /\ marked[s].generation = grants[s].generation
                     /\ marked[s].scopes = grants[s].scopes
                     /\ marked[s].expiresAt = grants[s].expiresAt
                     /\ grants[s].revoked => marked[s].revoked
<1> DEFINE new == [grants[t] EXCEPT !.revoked = v]
           marked == [grants EXCEPT ![t] = new]
<1>1. /\ grants \in Seq(OAuthTokens) /\ t \in 1 .. Len(grants) /\ grants[t] \in OAuthTokens
      /\ OAuth!Grants = 1 .. Len(grants)
  BY DEF OAuthInv, OAuthTypes, OAuth!Grants
<1>2. /\ new \in OAuthTokens /\ new.revoked = v
      /\ new.kind = grants[t].kind /\ new.code = grants[t].code
      /\ new.generation = grants[t].generation /\ new.scopes = grants[t].scopes
      /\ new.expiresAt = grants[t].expiresAt
  BY <1>1 DEF OAuthTokens
<1>3. grants[t].revoked => new.revoked
  BY <1>2
<1> HIDE DEF new
<1>4. /\ marked \in Seq(OAuthTokens) /\ Len(marked) = Len(grants)
      /\ \A s \in 1 .. Len(grants) : marked[s] = IF s = t THEN new ELSE grants[s]
  BY <1>1, <1>2, ExceptSeq
<1> HIDE DEF marked
<1>5. marked[t] = new
  BY <1>1, <1>4
<1>6. ASSUME NEW s \in OAuth!Grants
      PROVE  /\ marked[s].kind = grants[s].kind /\ marked[s].code = grants[s].code
             /\ marked[s].generation = grants[s].generation
             /\ marked[s].scopes = grants[s].scopes
             /\ marked[s].expiresAt = grants[s].expiresAt
             /\ grants[s].revoked => marked[s].revoked
  <2>1. CASE s = t
    BY <1>2, <1>3, <1>5, <2>1
  <2>2. CASE s # t
    BY <1>1, <1>4, <2>2
  <2> QED BY <2>1, <2>2
<1>7. marked[t].revoked = v
  BY <1>2, <1>5
<1> DEFINE given == [grants EXCEPT ![t].revoked = v]
<1>8. given = marked
  BY DEF marked, new
<1> HIDE DEF given
<1>9. /\ given \in Seq(OAuthTokens) /\ Len(given) = Len(grants)
      /\ given[t].revoked = v
      /\ \A s \in OAuth!Grants :
            /\ given[s].kind = grants[s].kind /\ given[s].code = grants[s].code
            /\ given[s].generation = grants[s].generation
            /\ given[s].scopes = grants[s].scopes
            /\ given[s].expiresAt = grants[s].expiresAt
            /\ grants[s].revoked => given[s].revoked
  BY <1>4, <1>6, <1>7, <1>8
<1> QED BY <1>9 DEF given

LEMMA RefreshMoves ==
    ASSUME OAuthInv, NEW t \in OAuth!Grants, NEW scopes \in SUBSET Scopes,
           OAuth!RefreshAccessToken(t, scopes)
    PROVE  OAuthMove
<1> DEFINE code == grants[t].code
           next == grants[t].generation + 1
           a == OAuth!AccessToken(code, next, scopes)
           r == OAuth!RefreshToken(code, next, scopes)
           fresh == IF RotateRefresh THEN Append(<<a>>, r) ELSE <<a>>
           marked == [grants EXCEPT ![t].revoked = RotateRefresh]
<1>1. /\ OAuthTypes /\ grants[t] \in OAuthTokens /\ code \in Nat /\ next \in Nat /\ oauthNow \in Nat
  <2>1. OAuthTypes /\ grants[t] \in OAuthTokens
    BY DEF OAuthInv, OAuthTypes, OAuth!Grants
  <2> QED BY <2>1 DEF OAuthTokens, OAuthTypes
<1>2. /\ grants[t].kind = "refresh" /\ ~grants[t].revoked /\ scopes \subseteq grants[t].scopes
      /\ OAuth!Grant(marked, fresh)
      /\ UNCHANGED <<clients, codes, codeStore, tokenCache, oauthNow>>
  BY DEF OAuth!RefreshAccessToken, OAuth!Renewable, OAuth!Renewed
<1>3. Batch(fresh, code, next, scopes)
  <2>1. /\ a \in OAuthTokens /\ r \in OAuthTokens /\ a.kind = "access"
        /\ Made(a, code, next, scopes) /\ Made(r, code, next, scopes)
    <3> HIDE DEF code, next
    <3> QED BY <1>1, OAuthPayloads DEF Made
  <2>2. \E i \in OAuthTokens : Made(i, code, next, scopes) /\ i.kind = "id"
    <3>1. [a EXCEPT !.kind = "id"] \in OAuthTokens
      BY <2>1 DEF OAuthTokens
    <3>2. Made([a EXCEPT !.kind = "id"], code, next, scopes) /\ [a EXCEPT !.kind = "id"].kind = "id"
      BY <2>1 DEF OAuthTokens, Made
    <3> QED BY <3>1, <3>2
  <2> HIDE DEF a, r, code, next
  <2>3. /\ Batch(<<a>>, code, next, scopes) /\ Batch(<<a, r>>, code, next, scopes)
        /\ Append(<<a>>, r) = <<a, r>>
    BY <2>1, <2>2, Batches
  <2> QED BY <2>3
<1>4. /\ marked \in Seq(OAuthTokens) /\ Len(marked) = Len(grants)
      /\ RotateRefresh => marked[t].revoked
      /\ \A s \in OAuth!Grants :
            /\ marked[s].kind = grants[s].kind /\ marked[s].code = grants[s].code
            /\ marked[s].generation = grants[s].generation
            /\ marked[s].scopes = grants[s].scopes
            /\ marked[s].expiresAt = grants[s].expiresAt
            /\ grants[s].revoked => marked[s].revoked
  BY <1>2, OAuthConfig, MarkRevoked
<1> HIDE DEF fresh, marked, a, r
<1>5. /\ grants' \in Seq(OAuthTokens) /\ Len(grants') <= MaxGrants
      /\ \A s \in OAuth!Grants : s \in OAuth!Grants' /\ grants'[s] = marked[s]
      /\ \A x, y \in NewGrants :
            grants'[x].kind = "refresh" /\ grants'[y].kind = "refresh" => x = y
      /\ \A x \in NewGrants :
            /\ grants'[x].code = code /\ grants'[x].generation = next
            /\ grants'[x].scopes = scopes
      /\ accessStore' \subseteq accessStore \cup {x \in NewGrants : grants'[x].kind = "access"}
      /\ refreshStore' \subseteq refreshStore \cup {x \in NewGrants : grants'[x].kind = "refresh"}
  <2> HIDE DEF code, next
  <2> QED BY <1>2, <1>3, <1>4, BatchGranted
<1>6. \A x \in NewGrants : Follows(x)
  <2>1. RotateRefresh => grants'[t].revoked
    BY <1>4, <1>5
  <2> QED BY <1>2, <1>5, <2>1 DEF Follows
<1>7. /\ tokenCache' \subseteq accessStore' /\ clients' \subseteq Clients /\ codeStore' \subseteq OAuth!Codes'
      /\ oauthNow' \in Nat /\ oauthNow <= oauthNow'
      /\ codes' \in Seq(OAuthCodes) /\ OAuth!Codes' = OAuth!Codes /\ codes' = codes
  <2>1. accessStore \subseteq accessStore'
    BY <1>2 DEF OAuth!Grant
  <2> QED BY <1>1, <1>2, <2>1 DEF OAuthTypes, OAuth!Codes
<1>8. ASSUME NEW s \in OAuth!Grants
      PROVE  /\ s \in OAuth!Grants'
             /\ grants'[s].kind = grants[s].kind /\ grants'[s].code = grants[s].code
             /\ grants'[s].generation = grants[s].generation
             /\ grants'[s].scopes = grants[s].scopes
             /\ grants'[s].expiresAt = grants[s].expiresAt
             /\ grants[s].revoked => grants'[s].revoked
  BY <1>4, <1>5
<1> QED BY <1>5, <1>6, <1>7, <1>8 DEF OAuthMove

LEMMA ClientCredentialsMoves ==
    ASSUME OAuthInv, NEW c \in Clients, NEW scopes \in SUBSET Scopes,
           OAuth!ClientCredentialsToken(c, scopes)
    PROVE  OAuthMove
<1> DEFINE a == OAuth!AccessToken(0, 0, scopes)
<1>1. OAuthTypes /\ oauthNow \in Nat /\ grants \in Seq(OAuthTokens)
  BY DEF OAuthInv, OAuthTypes
<1>2. /\ OAuth!Grant(grants, <<a>>)
      /\ UNCHANGED <<clients, codes, codeStore, tokenCache, oauthNow>>
  BY DEF OAuth!ClientCredentialsToken
<1>3. a \in OAuthTokens /\ a.kind = "access" /\ Made(a, 0, 0, scopes)
  <2>1. ASSUME NEW code \in Nat, NEW generation \in Nat
        PROVE  /\ OAuth!AccessToken(code, generation, scopes) \in OAuthTokens
               /\ OAuth!AccessToken(code, generation, scopes).kind = "access"
               /\ Made(OAuth!AccessToken(code, generation, scopes), code, generation, scopes)
    BY <1>1, OAuthPayloads DEF Made
  <2> QED BY <2>1
<1> HIDE DEF a
<1>4. Batch(<<a>>, 0, 0, scopes) /\ \A i \in 1 .. Len(<<a>>) : <<a>>[i].kind = "access"
  BY <1>3 DEF Batch, Made
<1>5. /\ grants' \in Seq(OAuthTokens) /\ Len(grants') <= MaxGrants
      /\ \A t \in OAuth!Grants : t \in OAuth!Grants' /\ grants'[t] = grants[t]
      /\ \A x \in NewGrants :
            /\ grants'[x].code = 0 /\ grants'[x].generation = 0
            /\ grants'[x].scopes = scopes
            /\ \E i \in 1 .. Len(<<a>>) : grants'[x] = <<a>>[i]
      /\ accessStore' \subseteq accessStore \cup {x \in NewGrants : grants'[x].kind = "access"}
      /\ refreshStore' \subseteq refreshStore \cup {x \in NewGrants : grants'[x].kind = "refresh"}
  BY <1>1, <1>2, <1>4, BatchGranted
<1>6. \A x \in NewGrants : grants'[x].kind = "access" /\ Follows(x)
  BY <1>4, <1>5 DEF Follows
<1>7. /\ tokenCache' \subseteq accessStore' /\ clients' \subseteq Clients /\ codeStore' \subseteq OAuth!Codes'
      /\ oauthNow' \in Nat /\ oauthNow <= oauthNow'
      /\ codes' \in Seq(OAuthCodes) /\ OAuth!Codes' = OAuth!Codes /\ codes' = codes
  <2>1. accessStore \subseteq accessStore'
    BY <1>2 DEF OAuth!Grant
  <2> QED BY <1>1, <1>2, <2>1 DEF OAuthTypes, OAuth!Codes
<1> QED BY <1>5, <1>6, <1>7 DEF OAuthMove

LEMMA CreateCodeMoves ==
    ASSUME OAuthInv, NEW c \in Clients, NEW scopes \in SUBSET Scopes,
           OAuth!CreateAuthorizationCode(c, scopes)
    PROVE  OAuthMove
<1> DEFINE code == [client |-> c, scopes |-> scopes, used |-> FALSE,
                    expiresAt |-> oauthNow + CodeLife]
<1>1. /\ OAuthTypes /\ codes \in Seq(OAuthCodes) /\ Len(codes) \in Nat /\ oauthNow \in Nat
      /\ OAuth!Codes = 1 .. Len(codes) /\ OAuth!Codes' = 1 .. Len(codes')
  BY DEF OAuthInv, OAuthTypes, OAuth!Codes
<1>2. code \in OAuthCodes
  <2>1. oauthNow + CodeLife \in Nat
    BY <1>1, OAuthConfig
  <2> QED BY <2>1 DEF OAuthCodes
<1>3. /\ codes' = Append(codes, code) /\ codeStore' = codeStore \cup {Len(codes) + 1}
      /\ UNCHANGED <<clients, grants, accessStore, refreshStore, tokenCache, oauthNow>>
  BY DEF OAuth!CreateAuthorizationCode
<1> HIDE DEF code
<1>4. /\ codes' \in Seq(OAuthCodes) /\ Len(codes') = Len(codes) + 1
      /\ \A d \in 1 .. Len(codes) : codes'[d] = codes[d]
  BY <1>1, <1>2, <1>3, AppendProperties
<1>5. /\ codeStore' \subseteq OAuth!Codes'
      /\ \A d \in OAuth!Codes : d \in OAuth!Codes' /\ codes'[d] = codes[d]
  <2>1. OAuth!Codes' = 1 .. Len(codes) + 1 /\ codeStore \subseteq 1 .. Len(codes)
    BY <1>1, <1>4 DEF OAuthTypes
  <2>2. 1 .. Len(codes) \subseteq 1 .. Len(codes) + 1 /\ Len(codes) + 1 \in 1 .. Len(codes) + 1
    BY <1>1
  <2>3. codeStore' \subseteq OAuth!Codes'
    BY <1>3, <2>1, <2>2
  <2>4. \A d \in OAuth!Codes : d \in OAuth!Codes' /\ codes'[d] = codes[d]
    BY <1>1, <1>4, <2>1, <2>2
  <2> QED BY <2>3, <2>4
<1>6. OAuth!Grants' = OAuth!Grants /\ NewGrants = {}
  BY <1>3 DEF OAuth!Grants, NewGrants
<1> QED BY <1>1, <1>3, <1>4, <1>5, <1>6 DEF OAuthMove, OAuthTypes

\* Every call of OAuth2Service is a move.
LEMMA OAuthMoves == OAuthInv /\ [OAuth!Next]_(OAuth!oauthVars) => OAuthMove
<1> SUFFICES ASSUME OAuthInv, [OAuth!Next]_(OAuth!oauthVars) PROVE OAuthMove
  OBVIOUS
<1>0. /\ OAuthTypes /\ grants \in Seq(OAuthTokens) /\ oauthNow \in Nat /\ clients \subseteq Clients
      /\ tokenCache \subseteq accessStore /\ codeStore \subseteq OAuth!Codes
  BY DEF OAuthInv, OAuthTypes
<1>1. ASSUME NEW c \in Clients, OAuth!RegisterClient(c) PROVE OAuthMove
  BY <1>0, <1>1, OAuthQuiet DEF OAuth!RegisterClient
<1>2. ASSUME NEW t \in OAuth!Grants, OAuth!ValidateAccessToken(t) PROVE OAuthMove
  <2>1. tokenCache' \subseteq accessStore
    <3>1. OAuth!AccessValid(t) => t \in accessStore
      BY <1>0 DEF OAuth!AccessValid
    <3> QED BY <1>0, <1>2, <3>1 DEF OAuth!ValidateAccessToken
  <2> QED BY <1>0, <1>2, <2>1, OAuthQuiet DEF OAuth!ValidateAccessToken
<1>3. ASSUME NEW t \in OAuth!Grants, OAuth!RevokeToken(t) PROVE OAuthMove
  <2>1. CASE accessStore' = accessStore \ {t} /\ tokenCache' = tokenCache \ {t} /\ UNCHANGED grants
    BY <1>0, <1>3, <2>1, OAuthQuiet DEF OAuth!RevokeToken
  <2>2. CASE grants' = [grants EXCEPT ![t].revoked = TRUE] /\ UNCHANGED <<accessStore, tokenCache>>
    <3>1. /\ grants' \in Seq(OAuthTokens) /\ Len(grants') = Len(grants)
          /\ \A s \in OAuth!Grants :
                /\ grants'[s].kind = grants[s].kind /\ grants'[s].code = grants[s].code
                /\ grants'[s].generation = grants[s].generation
                /\ grants'[s].scopes = grants[s].scopes
                /\ grants'[s].expiresAt = grants[s].expiresAt
                /\ grants[s].revoked => grants'[s].revoked
      BY <2>2, MarkRevoked
    <3> QED BY <1>0, <1>3, <2>2, <3>1, OAuthQuiet DEF OAuth!RevokeToken
  <2> QED BY <1>3, <2>1, <2>2 DEF OAuth!RevokeToken
<1>4. ASSUME OAuth!CleanupExpired PROVE OAuthMove
  <2> DEFINE old(t) == oauthNow > grants[t].expiresAt
  <2>1. /\ codeStore' \subseteq codeStore
        /\ accessStore' = {t \in accessStore : ~old(t)}
        /\ tokenCache' = tokenCache \ {t \in accessStore : old(t)}
        /\ refreshStore' \subseteq refreshStore
        /\ UNCHANGED <<clients, codes, grants, oauthNow>>
    BY <1>4 DEF OAuth!CleanupExpired
  <2> HIDE DEF old
  <2>2. tokenCache' \subseteq accessStore' /\ accessStore' \subseteq accessStore
    BY <1>0, <2>1
  <2> QED BY <1>0, <2>1, <2>2, OAuthQuiet
<1>5. ASSUME OAuth!OAuthTick PROVE OAuthMove
  BY <1>0, <1>5, OAuthQuiet DEF OAuth!OAuthTick
<1>6. ASSUME UNCHANGED OAuth!oauthVars PROVE OAuthMove
  BY <1>0, <1>6, OAuthQuiet DEF OAuth!oauthVars
<1> QED
  BY <1>1, <1>2, <1>3, <1>4, <1>5, <1>6, CreateCodeMoves, ClientCredentialsMoves,
     ExchangeMoves, RefreshMoves DEF OAuth!Next

\* The invariant of OAuth2Service, for any clients, scopes and lifetimes.
LEMMA OAuthInvariant == TokensSpec => []OAuthInv
<1>1. OAuthInv /\ [OAuth!Next]_(OAuth!oauthVars) => OAuthInv'
  BY OAuthMoves, OAuthMoveInv
<1> QED BY OAuthPart, OAuthInit, <1>1, PTL DEF OAuth!Spec

LEMMA OAuthTypesHold == OAuthInv => OAuth!OAuthTypeOK
<1> SUFFICES ASSUME OAuthInv PROVE OAuth!OAuthTypeOK
  OBVIOUS
<1>1. /\ OAuthTypes /\ OAuth!Grants = 1 .. Len(grants)
      /\ \A t \in OAuth!Grants : grants[t].kind = "refresh" => grants[t].code # 0
      /\ \A t \in OAuth!Grants : grants[t].code # 0 => grants[t].code \in OAuth!Codes
  BY DEF OAuthInv, GrantsHaveCodes, OAuth!Grants
<1>2. ASSUME NEW t \in OAuth!Grants
      PROVE  grants[t].code \in OAuth!Codes \cup {0} /\ grants[t].scopes \subseteq Scopes
  <2>1. grants[t] \in OAuthTokens
    BY <1>1 DEF OAuthTypes
  <2> QED BY <1>1, <2>1 DEF OAuthTokens
<1> QED BY <1>1, <1>2 DEF OAuth!OAuthTypeOK, OAuthTypes, GrantsOf

\* With rotation two renewable tokens of a code would each be the latest.
LEMMA OneRenewable == OAuthInv => OAuth!OneRenewablePerCode
<1> SUFFICES ASSUME OAuthInv, RotateRefresh, NEW s \in OAuth!Grants, NEW t \in OAuth!Grants,
                    OAuth!Renewable(s), OAuth!Renewable(t), grants[s].code = grants[t].code
             PROVE  s = t
  BY DEF OAuth!OneRenewablePerCode
<1>1. /\ grants[s].kind = "refresh" /\ ~grants[s].revoked
      /\ grants[t].kind = "refresh" /\ ~grants[t].revoked
  BY DEF OAuth!Renewable
<1>2. SameChain(s, t)
  BY <1>1 DEF OAuthInv, GrantsHaveCodes, SameChain
<1> QED BY <1>1, <1>2 DEF OAuthInv, LatestRefresh

LEMMA ScopesShrink == OAuthInv => OAuth!ScopesOnlyShrink
<1> SUFFICES ASSUME OAuthInv, NEW t \in OAuth!Grants, NEW s \in OAuth!Grants,
                    grants[t].code # 0, grants[s].code = grants[t].code,
                    grants[s].generation <= grants[t].generation
             PROVE  /\ grants[t].scopes \subseteq codes[grants[t].code].scopes
                    /\ RotateRefresh => grants[t].scopes \subseteq grants[s].scopes
  BY DEF OAuth!ScopesOnlyShrink
<1>1. grants[t].scopes \subseteq codes[grants[t].code].scopes
  BY DEF OAuthInv, GrantsHaveCodes
<1>2. RotateRefresh => grants[t].scopes \subseteq grants[s].scopes
  BY DEF OAuthInv, ScopesFollow, SameChain
<1> QED BY <1>1, <1>2

LEMMA CacheFollows == OAuthInv => OAuth!CacheFollowsStore
BY DEF OAuthInv, OAuthTypes, OAuth!CacheFollowsStore, OAuth!AccessValid

\* Whatever is refreshed, revoked or cleaned up, a code begins one chain of tokens, whose
\* refresh tokens are used one at a time and whose scopes never widen; and the cache never
\* answers for a token the store has lost.
THEOREM OAuthSound ==
    TokensSpec => [](/\ OAuth!OAuthTypeOK
                     /\ OAuth!CodeExchangedOnce
                     /\ OAuth!OneRenewablePerCode
                     /\ OAuth!ScopesOnlyShrink
                     /\ OAuth!CacheFollowsStore)
<1>1. OAuthInv => /\ OAuth!OAuthTypeOK
                  /\ OAuth!CodeExchangedOnce
                  /\ OAuth!OneRenewablePerCode
                  /\ OAuth!ScopesOnlyShrink
                  /\ OAuth!CacheFollowsStore
  BY OAuthTypesHold, OneRenewable, ScopesShrink, CacheFollows DEF OAuthInv
<1> QED BY OAuthInvariant, <1>1, PTL

\* A move accepts no token that was refused before it.
LEMMA NoGrantRevived ==
    ASSUME OAuthInv, OAuthMove, NEW t \in OAuth!Grants,
           OAuth!AccessValid(t)' \/ OAuth!Renewable(t)'
    PROVE  OAuth!AccessValid(t) \/ OAuth!Renewable(t)
<1>1. /\ grants'[t].kind = grants[t].kind /\ grants'[t].expiresAt = grants[t].expiresAt
      /\ grants[t].revoked => grants'[t].revoked
      /\ oauthNow <= oauthNow' /\ t \notin NewGrants
  BY DEF OAuthMove, NewGrants
<1>2. oauthNow \in Nat /\ oauthNow' \in Nat /\ grants[t].expiresAt \in Nat
  <2>1. grants[t] \in OAuthTokens
    BY DEF OAuthInv, OAuthTypes, OAuth!Grants
  <2> QED BY <2>1 DEF OAuthTokens, OAuthInv, OAuthTypes, OAuthMove
<1>3. CASE OAuth!AccessValid(t)'
  <2>1. t \in accessStore' /\ oauthNow' <= grants'[t].expiresAt
    BY <1>1, <1>2, <1>3 DEF OAuth!AccessValid, OAuth!Fresh, OAuthMove
  <2>2. t \in accessStore
    BY <1>1, <2>1 DEF OAuthMove
  <2> QED BY <1>1, <1>2, <2>1, <2>2 DEF OAuth!AccessValid
<1>4. CASE OAuth!Renewable(t)'
  <2>1. /\ t \in refreshStore' /\ grants'[t].kind = "refresh" /\ ~grants'[t].revoked
        /\ oauthNow' <= grants'[t].expiresAt
    BY <1>4 DEF OAuth!Renewable
  <2>2. t \in refreshStore
    BY <1>1, <2>1 DEF OAuthMove
  <2> QED BY <1>1, <1>2, <2>1, <2>2 DEF OAuth!Renewable
<1> QED BY <1>3, <1>4

OAuthState ==
    [t \in 1 .. MaxGrants |->
        IF t \notin OAuth!Grants THEN "unissued"
        ELSE IF OAuth!AccessValid(t) \/ OAuth!Renewable(t) THEN "accepted" ELSE "refused"]

LEMMA OAuthContractSteps == OAuthInv /\ OAuthMove => OAuth!Contract!Next
<1> SUFFICES ASSUME OAuthInv, OAuthMove PROVE OAuth!Contract!Next
  OBVIOUS
<1>1. /\ OAuthState \in [1 .. MaxGrants -> {"unissued", "accepted", "refused"}]
      /\ OAuthState' \in [1 .. MaxGrants -> {"unissued", "accepted", "refused"}]
  BY DEF OAuthState
<1>2. ASSUME NEW t \in 1 .. MaxGrants, OAuthState[t] = "refused" PROVE OAuthState'[t] = "refused"
  <2>1. t \in OAuth!Grants /\ ~(OAuth!AccessValid(t) \/ OAuth!Renewable(t))
    BY <1>2 DEF OAuthState
  <2>2. t \in OAuth!Grants'
    BY <2>1 DEF OAuthMove
  <2>3. ~(OAuth!AccessValid(t)' \/ OAuth!Renewable(t)')
    BY <2>1, NoGrantRevived
  <2> QED BY <2>2, <2>3 DEF OAuthState
<1>3. ASSUME NEW t \in 1 .. MaxGrants, OAuthState[t] = "accepted"
      PROVE  OAuthState'[t] # "unissued"
  <2>1. t \in OAuth!Grants
    BY <1>3 DEF OAuthState
  <2>2. t \in OAuth!Grants'
    BY <2>1 DEF OAuthMove
  <2> QED BY <2>2 DEF OAuthState
<1>4. ContractStep(1 .. MaxGrants, OAuthState, OAuthState')
  <2>1. NeverBack(1 .. MaxGrants, OAuthState, OAuthState')
    BY <1>1, <1>2, <1>3 DEF NeverBack
  <2> QED BY <2>1, ContractSteps
<1> QED BY <1>4, Zenon DEF OAuth!Contract!Next, OAuth!Contract!Step, ContractStep, OAuthState

\* OAuth2Service implements TokenContract: neither the cache nor a cleanup brings a token
\* back that was revoked, rotated or had expired.
THEOREM OAuthContract == TokensSpec => OAuth!OAuthImplementsContract
<1>1. OAuth!Init => OAuth!Contract!Init
  <2> SUFFICES ASSUME OAuth!Init PROVE OAuth!Contract!Init
    OBVIOUS
  <2>1. \A t \in 1 .. MaxGrants : t \notin OAuth!Grants
    BY DEF OAuth!Init, OAuth!Grants
  <2> QED BY <2>1 DEF OAuth!Contract!Init
<1>2. OAuthInv /\ [OAuth!Next]_(OAuth!oauthVars) => OAuth!Contract!Next
  BY OAuthMoves, OAuthContractSteps
<1>3. OAuth!Contract!Spec => OAuth!OAuthImplementsContract
  BY PTL DEF OAuth!OAuthImplementsContract
<1>4. TokensSpec => OAuth!Contract!Spec
  BY OAuthInvariant, OAuthPart, <1>1, <1>2, PTL DEF OAuth!Spec, OAuth!Contract!Spec
<1> QED BY <1>3, <1>4

-----------------------------------------------------------------------------
(* APIKeyService: what a fixed window admits.  The times of the acceptances are a  *)
(* function on any finite set.                                               *)

Served(times, lo, hi) == {i \in DOMAIN times : times[i] \in lo .. hi}

\* No acceptance is later than the window's end; those in the window are counted, those in
\* the stretch of a window's length before it are within the limit, and any stretch of
\* that length has at most twice the limit.
Fair(times, r, span, limit) ==
    /\ \A i \in DOMAIN times : times[i] <= r.resetAt
    /\ Cardinality(Served(times, r.resetAt - span, r.resetAt)) <= r.count
    /\ r.count <= limit
    /\ Cardinality(Served(times, r.resetAt - 2 * span, r.resetAt - span - 1)) <= limit
    /\ \A from \in Nat : Cardinality(Served(times, from, from + span)) <= 2 * limit

LEMMA ServedFinite ==
    ASSUME NEW S, IsFiniteSet(S), NEW times \in [S -> Nat], NEW lo, NEW hi
    PROVE  /\ IsFiniteSet(Served(times, lo, hi))
           /\ Cardinality(Served(times, lo, hi)) \in Nat
           /\ Served(times, lo, hi) \subseteq S
<1>1. Served(times, lo, hi) \subseteq S
  BY DEF Served
<1> QED BY <1>1, FS_Subset, FS_CardinalityType

\* Counters that were just reset have nothing to count.
LEMMA FairFresh ==
    ASSUME NEW times, DOMAIN times = {}, NEW now \in Nat, NEW span \in Nat, NEW limit \in Nat
    PROVE  Fair(times, [count |-> 0, resetAt |-> now + span], span, limit)
<1>1. \A lo, hi : Served(times, lo, hi) = {}
  BY DEF Served
<1>2. \A lo, hi : Cardinality(Served(times, lo, hi)) = 0
  BY <1>1, FS_EmptySet
<1> QED BY <1>2 DEF Fair

\* A window that is over is renewed: what it counted is now within the stretch before.
LEMMA FairRefilled ==
    ASSUME NEW S, IsFiniteSet(S), NEW times \in [S -> Nat],
           NEW r \in [count : Nat, resetAt : Nat],
           NEW now \in Nat, NEW span \in Nat, NEW limit \in Nat,
           Fair(times, r, span, limit), now > r.resetAt
    PROVE  Fair(times, [count |-> 0, resetAt |-> now + span], span, limit)
<1>1. \A i \in S : times[i] \in Nat /\ times[i] < now /\ times[i] <= r.resetAt
  BY DEF Fair
<1>2. Served(times, now + span - span, now + span) = {}
  BY <1>1 DEF Served
<1>3. Served(times, now + span - 2 * span, now + span - span - 1)
      \subseteq Served(times, r.resetAt - span, r.resetAt)
  BY <1>1 DEF Served
<1>4. Cardinality(Served(times, now + span - 2 * span, now + span - span - 1)) <= limit
  <2>1. Cardinality(Served(times, now + span - 2 * span, now + span - span - 1))
        <= Cardinality(Served(times, r.resetAt - span, r.resetAt))
    BY <1>3, ServedFinite, FS_Subset
  <2>2. Cardinality(Served(times, r.resetAt - span, r.resetAt)) <= r.count /\ r.count <= limit
    BY DEF Fair
  <2>3. /\ Cardinality(Served(times, now + span - 2 * span, now + span - span - 1)) \in Nat
        /\ Cardinality(Served(times, r.resetAt - span, r.resetAt)) \in Nat
    BY ServedFinite
  <2> QED BY <2>1, <2>2, <2>3
<1>5. \A i \in DOMAIN times : times[i] <= now + span
  BY <1>1
<1>6. Cardinality(Served(times, now + span - span, now + span)) = 0
  BY <1>2, FS_EmptySet
<1>7. \A from \in Nat : Cardinality(Served(times, from, from + span)) <= 2 * limit
  BY DEF Fair
<1> QED BY <1>4, <1>5, <1>6, <1>7 DEF Fair

\* One more acceptance, in a window that is not over.
LEMMA FairAccepted ==
    ASSUME NEW S, IsFiniteSet(S), NEW times \in [S -> Nat], NEW last, last \notin S,
           NEW now \in Nat, NEW more \in [S \cup {last} -> Nat],
           more[last] = now, \A i \in S : more[i] = times[i],
           NEW r \in [count : Nat, resetAt : Nat], NEW span \in Nat, NEW limit \in Nat,
           now <= r.resetAt, r.resetAt <= now + span, r.count < limit,
           Fair(times, r, span, limit)
    PROVE  Fair(more, [r EXCEPT !.count = @ + 1], span, limit)
<1> DEFINE next == [r EXCEPT !.count = @ + 1]
           before == Served(times, r.resetAt - 2 * span, r.resetAt - span - 1)
           within == Served(more, r.resetAt - span, r.resetAt)
<1>1. /\ \A i \in S : times[i] \in Nat /\ times[i] <= r.resetAt
      /\ Cardinality(Served(times, r.resetAt - span, r.resetAt)) <= r.count
      /\ Cardinality(before) <= limit
      /\ r.resetAt \in Nat /\ r.count \in Nat
      /\ next.resetAt = r.resetAt /\ next.count = r.count + 1
  BY DEF Fair
<1>2. ASSUME NEW lo, NEW hi
      PROVE  Served(more, lo, hi) = IF now \in lo .. hi THEN Served(times, lo, hi) \cup {last}
                                    ELSE Served(times, lo, hi)
  BY DEF Served
<1>3. /\ IsFiniteSet(before) /\ Cardinality(before) \in Nat
      /\ IsFiniteSet(within) /\ Cardinality(within) \in Nat
      /\ Cardinality(within) <= r.count + 1
  <2>1. within \subseteq Served(times, r.resetAt - span, r.resetAt) \cup {last}
    BY <1>2
  <2>2. /\ IsFiniteSet(Served(times, r.resetAt - span, r.resetAt))
        /\ Cardinality(Served(times, r.resetAt - span, r.resetAt)) \in Nat
        /\ last \notin Served(times, r.resetAt - span, r.resetAt)
    BY ServedFinite
  <2>3. /\ IsFiniteSet(Served(times, r.resetAt - span, r.resetAt) \cup {last})
        /\ Cardinality(Served(times, r.resetAt - span, r.resetAt) \cup {last})
           = Cardinality(Served(times, r.resetAt - span, r.resetAt)) + 1
    BY <2>2, FS_AddElement
  <2>4. /\ IsFiniteSet(within) /\ Cardinality(within) \in Nat
        /\ Cardinality(within)
           <= Cardinality(Served(times, r.resetAt - span, r.resetAt) \cup {last})
    BY <2>1, <2>3, FS_Subset, FS_CardinalityType
  <2>5. IsFiniteSet(before) /\ Cardinality(before) \in Nat
    BY ServedFinite
  <2> HIDE DEF before, within
  <2> QED BY <1>1, <2>2, <2>3, <2>4, <2>5
<1>4. Served(more, r.resetAt - 2 * span, r.resetAt - span - 1) = before
  <2>1. now \notin r.resetAt - 2 * span .. r.resetAt - span - 1
    BY <1>1
  <2> QED BY <1>2, <2>1
<1>5. ASSUME NEW from \in Nat
      PROVE  Cardinality(Served(more, from, from + span)) <= 2 * limit
  <2>1. CASE now \notin from .. from + span
    <3>1. Served(more, from, from + span) = Served(times, from, from + span)
      BY <1>2, <2>1
    <3> QED BY <3>1 DEF Fair
  <2>2. CASE now \in from .. from + span
    <3>1. Served(more, from, from + span) \subseteq before \cup within
      <4> SUFFICES ASSUME NEW i \in Served(more, from, from + span)
                   PROVE  i \in before \/ i \in within
        OBVIOUS
      <4>1. i \in S \cup {last} /\ more[i] \in from .. from + span /\ more[i] \in Nat
        BY DEF Served
      <4>2. more[i] <= r.resetAt
        BY <1>1, <4>1
      <4>3. CASE more[i] >= r.resetAt - span
        BY <1>1, <4>1, <4>2, <4>3 DEF Served
      <4>4. CASE more[i] < r.resetAt - span
        <5>1. i \in S
          BY <1>1, <4>1, <4>4
        <5>2. more[i] \in r.resetAt - 2 * span .. r.resetAt - span - 1
          BY <1>1, <2>2, <4>1, <4>4
        <5> QED BY <5>1, <5>2 DEF Served
      <4> QED BY <1>1, <4>1, <4>3, <4>4
    <3> HIDE DEF before, within
    <3>2. /\ IsFiniteSet(before \cup within) /\ Cardinality(before \cup within) \in Nat
          /\ Cardinality(before \cup within) <= Cardinality(before) + Cardinality(within)
      <4>1. /\ IsFiniteSet(before \cup within)
            /\ Cardinality(before \cup within)
               = Cardinality(before) + Cardinality(within) - Cardinality(before \cap within)
        BY <1>3, FS_Union
      <4>2. Cardinality(before \cap within) \in Nat /\ Cardinality(before \cup within) \in Nat
        BY <1>3, <4>1, FS_Subset, FS_CardinalityType
      <4> HIDE DEF Fair
      <4> QED BY <1>3, <4>1, <4>2
    <3>3. /\ Cardinality(Served(more, from, from + span)) \in Nat
          /\ Cardinality(Served(more, from, from + span)) <= Cardinality(before \cup within)
      BY <3>1, <3>2, FS_Subset, FS_CardinalityType
    <3> QED BY <1>1, <1>3, <3>2, <3>3
  <2> QED BY <2>1, <2>2
<1>6. \A i \in DOMAIN more : more[i] <= r.resetAt
  BY <1>1
<1>7. Cardinality(Served(more, r.resetAt - span, r.resetAt)) <= r.count + 1 /\ r.count + 1 <= limit
  BY <1>1, <1>3
<1> HIDE DEF next
<1>8. Fair(more, next, span, limit)
  BY <1>1, <1>4, <1>5, <1>6, <1>7 DEF Fair
<1> QED BY <1>8 DEF next

-----------------------------------------------------------------------------
(* APIKeyService.                                                           *)

KeyRecords == [user : Users, status : Keys!Statuses, expiresAt : Nat, from : Nat]
RateStates == [Keys!Windows -> [count : Nat, resetAt : Nat]]
Histories == {h \in Seq(Nat) : Len(h) <= HistoryCap}

KeysTypes ==
    /\ keyNow \in Nat
    /\ keys \in Seq(KeyRecords)
    /\ rates \in Seq(RateStates) /\ Len(rates) = Len(keys)
    /\ usage \in Seq(Histories) /\ Len(usage) = Len(keys)
    /\ accepted \in Seq(Seq(Nat)) /\ Len(accepted) = Len(keys)
    /\ since \in Seq(Nat) /\ Len(since) = Len(keys)
    /\ userKeys \in [Users -> SUBSET (1 .. Len(keys))]
    /\ timers \subseteq [key : 1 .. Len(keys), at : Nat]

\* A key is known for its user, and is younger than the key it replaces.
KeysKnown == \A k \in 1 .. Len(keys) : k \in userKeys[keys[k].user] /\ keys[k].from < k

Hits(k) == [i \in since[k] + 1 .. Len(accepted[k]) |-> accepted[k][i]]

\* Every window of every key is fair, and ends within its length from now.
RatesFair ==
    \A k \in DOMAIN rates :
        /\ since[k] <= Len(accepted[k])
        /\ \A w \in Keys!Windows :
              /\ rates[k][w].resetAt <= keyNow + KeySpans[w]
              /\ Fair(Hits(k), rates[k][w], KeySpans[w], KeyLimits[w])

KeysInv == KeysTypes /\ KeysKnown /\ Keys!GraceCovered /\ RatesFair

LEMMA KeyWindows ==
    \A w \in Keys!Windows : KeySpans[w] \in Nat /\ KeyLimits[w] \in Nat
<1>1. MinuteLimit \in Nat /\ BurstLimit \in Nat /\ MinuteSpan \in Nat /\ BurstSpan \in Nat
  BY TokensAssumption
<1> QED BY <1>1 DEF Keys!Windows, KeyLimits, KeySpans

LEMMA KeysInitial == Keys!Init => KeysInv
<1> SUFFICES ASSUME Keys!Init PROVE KeysInv
  OBVIOUS
<1>1. /\ keys = <<>> /\ rates = <<>> /\ usage = <<>> /\ accepted = <<>> /\ since = <<>>
      /\ timers = {} /\ keyNow = 1 /\ userKeys = [u \in Users |-> {}]
  BY DEF Keys!Init
<1>2. KeysTypes
  BY <1>1 DEF KeysTypes
<1>3. KeysKnown /\ RatesFair
  BY <1>1 DEF KeysKnown, RatesFair
<1>4. Keys!GraceCovered
  BY <1>1 DEF Keys!GraceCovered, Keys!KeyIds
<1> QED BY <1>2, <1>3, <1>4 DEF KeysInv

\* What the invariant says of one key.
LEMMA KeyTyped ==
    ASSUME KeysTypes, NEW k \in Keys!KeyIds
    PROVE  /\ k \in 1 .. Len(keys) /\ Len(keys) \in Nat /\ keys[k] \in KeyRecords
           /\ rates[k] \in RateStates /\ usage[k] \in Histories
           /\ accepted[k] \in Seq(Nat) /\ since[k] \in Nat /\ keyNow \in Nat
           /\ Keys!KeyIds = 1 .. Len(keys)
<1>1. k \in 1 .. Len(keys) /\ Len(keys) \in Nat /\ Keys!KeyIds = 1 .. Len(keys)
  BY DEF KeysTypes, Keys!KeyIds
<1> QED BY <1>1 DEF KeysTypes

\* The acceptances since the counters were reset are finitely many times.
LEMMA HitsTyped ==
    ASSUME KeysTypes, NEW k \in Keys!KeyIds
    PROVE  /\ DOMAIN Hits(k) = since[k] + 1 .. Len(accepted[k])
           /\ IsFiniteSet(DOMAIN Hits(k)) /\ Hits(k) \in [DOMAIN Hits(k) -> Nat]
<1>1. accepted[k] \in Seq(Nat) /\ since[k] \in Nat /\ Len(accepted[k]) \in Nat
  BY KeyTyped
<1>2. since[k] + 1 .. Len(accepted[k]) \subseteq 1 .. Len(accepted[k])
  BY <1>1
<1>3. IsFiniteSet(since[k] + 1 .. Len(accepted[k]))
  BY <1>1, <1>2, IndicesFinite
<1>4. \A i \in since[k] + 1 .. Len(accepted[k]) : accepted[k][i] \in Nat
  BY <1>1, <1>2
<1>5. DOMAIN Hits(k) = since[k] + 1 .. Len(accepted[k])
  BY DEF Hits
<1>6. Hits(k) \in [since[k] + 1 .. Len(accepted[k]) -> Nat]
  BY <1>4 DEF Hits
<1> QED BY <1>3, <1>5, <1>6

-----------------------------------------------------------------------------
(* The keys and their statuses.                                             *)

\* A step that leaves the number of keys and what belongs to them alone: statuses change,
\* and only updateAPIKey makes a key active.
StatusMove ==
    /\ keys' \in Seq(KeyRecords) /\ Len(keys') = Len(keys)
    /\ \A k \in 1 .. Len(keys) :
          /\ keys'[k].user = keys[k].user /\ keys'[k].from = keys[k].from
          /\ keys'[k].status = "active" => keys[k].status = "active" \/ k \in reactivated'
    /\ reactivated \subseteq reactivated'
    /\ timers' \subseteq timers
    /\ \A waker \in timers : waker \in timers' \/ keys'[waker.key].status # "active"
    /\ UNCHANGED <<userKeys, rates, usage, accepted, since, keyNow>>

LEMMA StatusMoveInv == KeysInv /\ StatusMove => KeysInv'
<1> SUFFICES ASSUME KeysInv, StatusMove PROVE KeysInv'
  OBVIOUS
<1>1. /\ KeysTypes /\ KeysKnown /\ Keys!GraceCovered /\ RatesFair
      /\ Keys!KeyIds = 1 .. Len(keys) /\ Keys!KeyIds' = 1 .. Len(keys) /\ Len(keys) \in Nat
  BY DEF KeysInv, KeysTypes, StatusMove, Keys!KeyIds
<1>2. KeysTypes'
  BY <1>1 DEF KeysTypes, StatusMove
<1>3. KeysKnown'
  BY <1>1 DEF KeysKnown, StatusMove
<1>4. Keys!GraceCovered'
  <2> SUFFICES ASSUME NEW k \in 1 .. Len(keys), NEW n \in 1 .. Len(keys),
                      keys'[n].from = k, keys'[k].status = "active"
               PROVE  k \in reactivated' \/ \E waker \in timers' : waker.key = k
    BY <1>1 DEF Keys!GraceCovered
  <2>1. keys[n].from = k /\ (keys[k].status = "active" \/ k \in reactivated')
    BY DEF StatusMove
  <2>2. CASE keys[k].status = "active"
    <3>1. k \in reactivated \/ \E waker \in timers : waker.key = k
      BY <1>1, <2>1, <2>2 DEF Keys!GraceCovered
    <3> QED BY <3>1 DEF StatusMove
  <2> QED BY <2>1, <2>2
<1>5. RatesFair'
  BY <1>1 DEF RatesFair, StatusMove, Hits
<1> QED BY <1>2, <1>3, <1>4, <1>5 DEF KeysInv

\* Some keys get another status.
LEMMA StatusesChange ==
    ASSUME KeysInv, NEW S \in SUBSET Keys!KeyIds, NEW status \in Keys!Statuses,
           status = "active" => S \subseteq reactivated',
           reactivated \subseteq reactivated',
           keys' = [k \in Keys!KeyIds |-> IF k \in S THEN [keys[k] EXCEPT !.status = status]
                                          ELSE keys[k]],
           timers' \subseteq timers,
           \A waker \in timers : waker \in timers' \/ keys'[waker.key].status # "active",
           UNCHANGED <<userKeys, rates, usage, accepted, since, keyNow>>
    PROVE  KeysInv'
<1>1. /\ KeysTypes /\ Keys!KeyIds = 1 .. Len(keys) /\ Len(keys) \in Nat
      /\ \A k \in 1 .. Len(keys) : keys[k] \in KeyRecords
  BY DEF KeysInv, KeysTypes, Keys!KeyIds
<1>2. ASSUME NEW k \in 1 .. Len(keys)
      PROVE  /\ keys'[k] \in KeyRecords
             /\ keys'[k].user = keys[k].user /\ keys'[k].from = keys[k].from
             /\ keys'[k].status = IF k \in S THEN status ELSE keys[k].status
  <2>1. keys[k] \in KeyRecords
    BY <1>1
  <2>2. keys'[k] = IF k \in S THEN [keys[k] EXCEPT !.status = status] ELSE keys[k]
    BY <1>1
  <2> QED BY <2>1, <2>2 DEF KeyRecords
<1>3. keys' \in Seq(KeyRecords) /\ Len(keys') = Len(keys)
  <2>1. keys' \in [1 .. Len(keys) -> KeyRecords]
    BY <1>1, <1>2
  <2> QED BY <1>1, <2>1
<1>4. ASSUME NEW k \in 1 .. Len(keys), keys'[k].status = "active"
      PROVE  keys[k].status = "active" \/ k \in reactivated'
  <2>1. CASE k \in S
    <3>1. status = "active"
      BY <1>2, <1>4, <2>1
    <3> QED BY <2>1, <3>1
  <2>2. CASE k \notin S
    BY <1>2, <1>4, <2>2
  <2> QED BY <2>1, <2>2
<1>5. \A k \in 1 .. Len(keys) : keys'[k].user = keys[k].user /\ keys'[k].from = keys[k].from
  BY <1>2, Zenon
<1>6. StatusMove
  BY <1>3, <1>4, <1>5, Zenon DEF StatusMove
<1> QED BY <1>6, StatusMoveInv


-----------------------------------------------------------------------------
(* The windows.                                                             *)

\* A step that leaves the keys alone, and what it does with the counters is fair.
RateMove ==
    /\ rates' \in Seq(RateStates) /\ Len(rates') = Len(rates)
    /\ accepted' \in Seq(Seq(Nat)) /\ Len(accepted') = Len(accepted)
    /\ since' \in Seq(Nat) /\ Len(since') = Len(since)
    /\ usage' \in Seq(Histories) /\ Len(usage') = Len(usage)
    /\ keyNow' \in Nat
    /\ RatesFair'
    /\ UNCHANGED <<keys, userKeys, timers, reactivated>>

LEMMA RateMoveInv == KeysInv /\ RateMove => KeysInv'
<1> SUFFICES ASSUME KeysInv, RateMove PROVE KeysInv'
  OBVIOUS
<1>1. KeysTypes'
  BY DEF KeysInv, KeysTypes, RateMove
<1>2. KeysKnown'
  BY DEF KeysInv, KeysKnown, RateMove
<1>3. Keys!GraceCovered'
  BY DEF KeysInv, Keys!GraceCovered, Keys!KeyIds, RateMove
<1> QED BY <1>1, <1>2, <1>3 DEF KeysInv, RateMove

\* The windows of a key after a validation has renewed those that were over.
LEMMA RefilledFair ==
    ASSUME KeysInv, NEW k \in Keys!KeyIds
    PROVE  /\ Keys!Refilled(rates[k]) \in RateStates
           /\ \A w \in Keys!Windows :
                 /\ keyNow <= Keys!Refilled(rates[k])[w].resetAt
                 /\ Keys!Refilled(rates[k])[w].resetAt <= keyNow + KeySpans[w]
                 /\ Fair(Hits(k), Keys!Refilled(rates[k])[w], KeySpans[w], KeyLimits[w])
<1> DEFINE r == Keys!Refilled(rates[k])
<1>1. /\ KeysTypes /\ RatesFair /\ keyNow \in Nat /\ rates[k] \in RateStates
      /\ IsFiniteSet(DOMAIN Hits(k)) /\ Hits(k) \in [DOMAIN Hits(k) -> Nat]
      /\ k \in DOMAIN rates
  <2>1. KeysTypes /\ RatesFair
    BY DEF KeysInv
  <2> QED BY <2>1, KeyTyped, HitsTyped DEF KeysTypes
<1>2. ASSUME NEW w \in Keys!Windows
      PROVE  /\ r[w] \in [count : Nat, resetAt : Nat]
             /\ keyNow <= r[w].resetAt /\ r[w].resetAt <= keyNow + KeySpans[w]
             /\ Fair(Hits(k), r[w], KeySpans[w], KeyLimits[w])
  <2>1. /\ KeySpans[w] \in Nat /\ KeyLimits[w] \in Nat
        /\ rates[k][w] \in [count : Nat, resetAt : Nat]
        /\ rates[k][w].resetAt <= keyNow + KeySpans[w]
        /\ Fair(Hits(k), rates[k][w], KeySpans[w], KeyLimits[w])
    BY <1>1, KeyWindows DEF RatesFair, RateStates
  <2>2. r[w] = IF keyNow > rates[k][w].resetAt
               THEN [count |-> 0, resetAt |-> keyNow + KeySpans[w]] ELSE rates[k][w]
    BY DEF Keys!Refilled
  <2>3. CASE keyNow > rates[k][w].resetAt
    <3>1. Fair(Hits(k), [count |-> 0, resetAt |-> keyNow + KeySpans[w]], KeySpans[w], KeyLimits[w])
      BY <1>1, <2>1, <2>3, FairRefilled
    <3> QED BY <1>1, <2>1, <2>2, <2>3, <3>1
  <2>4. CASE ~(keyNow > rates[k][w].resetAt)
    BY <1>1, <2>1, <2>2, <2>4
  <2> QED BY <2>3, <2>4
<1>3. r \in RateStates
  <2>1. r = [w \in Keys!Windows |-> r[w]]
    BY DEF Keys!Refilled
  <2> HIDE DEF r
  <2> QED BY <1>2, <2>1 DEF RateStates
<1> QED BY <1>2, <1>3

LEMMA OverLimitMoves ==
    ASSUME KeysInv, NEW k \in Keys!KeyIds, Keys!OverLimit(k, Keys!Refilled(rates[k]))
    PROVE  KeysInv'
<1> DEFINE r == Keys!Refilled(rates[k])
<1>1. /\ KeysTypes /\ RatesFair /\ k \in DOMAIN rates /\ rates \in Seq(RateStates)
      /\ k \in 1 .. Len(rates)
  <2>1. KeysTypes /\ RatesFair
    BY DEF KeysInv
  <2> QED BY <2>1, KeyTyped DEF KeysTypes
<1>2. /\ rates' = [rates EXCEPT ![k] = r]
      /\ UNCHANGED <<keys, userKeys, timers, usage, keyNow, accepted, since, reactivated>>
  BY DEF Keys!OverLimit
<1>3. /\ r \in RateStates
      /\ \A w \in Keys!Windows :
            /\ r[w].resetAt <= keyNow + KeySpans[w]
            /\ Fair(Hits(k), r[w], KeySpans[w], KeyLimits[w])
  BY RefilledFair
<1> HIDE DEF r
<1>4. rates' \in Seq(RateStates) /\ Len(rates') = Len(rates) /\ rates'[k] = r
      /\ DOMAIN rates' = DOMAIN rates /\ \A o \in DOMAIN rates : o # k => rates'[o] = rates[o]
  BY <1>1, <1>2, <1>3
<1>5. ASSUME NEW o \in DOMAIN rates
      PROVE  Hits(o)' = Hits(o)
  BY <1>2 DEF Hits
<1>6. RatesFair'
  <2> SUFFICES ASSUME NEW o \in DOMAIN rates
               PROVE  /\ since'[o] <= Len(accepted'[o])
                      /\ \A w \in Keys!Windows :
                            /\ rates'[o][w].resetAt <= keyNow' + KeySpans[w]
                            /\ Fair(Hits(o)', rates'[o][w], KeySpans[w], KeyLimits[w])
    BY <1>4 DEF RatesFair
  <2>1. CASE o = k
    BY <1>1, <1>2, <1>3, <1>4, <1>5, <2>1 DEF RatesFair
  <2>2. CASE o # k
    BY <1>1, <1>2, <1>4, <1>5, <2>2 DEF RatesFair
  <2> QED BY <2>1, <2>2
<1>7. RateMove
  BY <1>1, <1>2, <1>4, <1>6 DEF RateMove, KeysTypes
<1> QED BY <1>7, RateMoveInv


LEMMA AcceptMoves ==
    ASSUME KeysInv, NEW k \in Keys!KeyIds, Keys!Accept(k, Keys!Refilled(rates[k]))
    PROVE  KeysInv'
<1> DEFINE r == Keys!Refilled(rates[k])
           counted == [w \in Keys!Windows |-> [r[w] EXCEPT !.count = @ + 1]]
           last == Len(accepted[k]) + 1
<1>1. /\ KeysTypes /\ RatesFair /\ keyNow \in Nat
      /\ k \in DOMAIN rates /\ k \in DOMAIN accepted /\ k \in DOMAIN usage
      /\ accepted[k] \in Seq(Nat) /\ since[k] \in Nat /\ usage[k] \in Histories
      /\ since[k] <= Len(accepted[k]) /\ Len(accepted[k]) \in Nat
      /\ DOMAIN Hits(k) = since[k] + 1 .. Len(accepted[k])
      /\ IsFiniteSet(DOMAIN Hits(k)) /\ Hits(k) \in [DOMAIN Hits(k) -> Nat]
  <2>1. KeysTypes /\ RatesFair
    BY DEF KeysInv
  <2>2. k \in DOMAIN rates /\ k \in DOMAIN accepted /\ k \in DOMAIN usage
    BY <2>1, KeyTyped DEF KeysTypes
  <2> QED BY <2>1, <2>2, KeyTyped, HitsTyped DEF RatesFair
<1>2. /\ rates' = [rates EXCEPT ![k] = counted]
      /\ usage' = [usage EXCEPT ![k] = Keys!Tracked(@)]
      /\ accepted' = [accepted EXCEPT ![k] = Append(@, keyNow)]
      /\ UNCHANGED <<keys, userKeys, timers, keyNow, since, reactivated>>
      /\ \A w \in Keys!Windows : r[w].count < KeyLimits[w]
  BY DEF Keys!Accept
<1>3. /\ r \in RateStates
      /\ \A w \in Keys!Windows :
            /\ keyNow <= r[w].resetAt
            /\ r[w].resetAt <= keyNow + KeySpans[w]
            /\ Fair(Hits(k), r[w], KeySpans[w], KeyLimits[w])
  BY RefilledFair
<1> HIDE DEF r
<1>4. counted \in RateStates /\ \A w \in Keys!Windows : counted[w].resetAt = r[w].resetAt
  BY <1>3 DEF RateStates
<1>5. /\ accepted'[k] = Append(accepted[k], keyNow) /\ accepted'[k] \in Seq(Nat)
      /\ Len(accepted'[k]) = last /\ accepted'[k][last] = keyNow
      /\ \A i \in 1 .. Len(accepted[k]) : accepted'[k][i] = accepted[k][i]
      /\ \A o \in DOMAIN accepted : o # k => accepted'[o] = accepted[o]
  BY <1>1, <1>2, AppendProperties
<1>6. /\ accepted' \in Seq(Seq(Nat)) /\ Len(accepted') = Len(accepted)
      /\ rates' \in Seq(RateStates) /\ Len(rates') = Len(rates)
      /\ DOMAIN rates' = DOMAIN rates /\ DOMAIN rates = DOMAIN accepted
      /\ rates'[k] = counted /\ \A o \in DOMAIN rates : o # k => rates'[o] = rates[o]
  BY <1>1, <1>2, <1>4, <1>5 DEF KeysTypes
<1>7. usage' \in Seq(Histories) /\ Len(usage') = Len(usage)
  <2>1. Keys!Tracked(usage[k]) \in Histories
    <3> DEFINE grown == Append(usage[k], keyNow)
    <3>1. /\ grown \in Seq(Nat) /\ Len(grown) = Len(usage[k]) + 1 /\ Len(usage[k]) \in Nat
          /\ Len(usage[k]) <= HistoryCap /\ HistoryCap \in Nat
      BY <1>1, KeysConfig, AppendProperties DEF Histories
    <3>2. Keys!Tracked(usage[k]) =
             IF Len(grown) > HistoryCap THEN SubSeq(grown, Len(grown) - HistoryCap + 1, Len(grown))
             ELSE grown
      BY DEF Keys!Tracked
    <3> HIDE DEF grown
    <3>3. CASE Len(grown) > HistoryCap
      <4>1. /\ SubSeq(grown, Len(grown) - HistoryCap + 1, Len(grown)) \in Seq(Nat)
            /\ Len(SubSeq(grown, Len(grown) - HistoryCap + 1, Len(grown))) = HistoryCap
        <5> DEFINE m == Len(grown) - HistoryCap + 1
        <5>1. m \in 1 .. Len(grown) + 1 /\ Len(grown) \in 1 .. Len(grown) /\ Len(grown) - m + 1 = HistoryCap
          BY <3>1, <3>3
        <5>2. SubSeq(grown, m, Len(grown)) \in Seq(Nat) /\ Len(SubSeq(grown, m, Len(grown))) = HistoryCap
          <6> HIDE DEF m
          <6> QED BY <3>1, <5>1, SubSeqProperties
        <5> QED BY <5>2
      <4> QED BY <3>1, <3>2, <3>3, <4>1 DEF Histories
    <3>4. CASE ~(Len(grown) > HistoryCap)
      BY <3>1, <3>2, <3>4 DEF Histories
    <3> QED BY <3>3, <3>4
  <2> QED BY <1>1, <1>2, <2>1 DEF KeysTypes
<1>8. ASSUME NEW o \in DOMAIN rates, o # k
      PROVE  Hits(o)' = Hits(o)
  BY <1>2, <1>5, <1>6, <1>8 DEF Hits
<1>9. /\ Hits(k)' \in [DOMAIN Hits(k) \cup {last} -> Nat]
      /\ Hits(k)'[last] = keyNow /\ last \notin DOMAIN Hits(k)
      /\ \A i \in DOMAIN Hits(k) : Hits(k)'[i] = Hits(k)[i]
  <2>1. since'[k] + 1 .. Len(accepted'[k]) = DOMAIN Hits(k) \cup {last}
    BY <1>1, <1>2, <1>5
  <2>2. Hits(k)' = [i \in DOMAIN Hits(k) \cup {last} |-> accepted'[k][i]]
    BY <2>1 DEF Hits
  <2>3. \A i \in DOMAIN Hits(k) :
           i \in 1 .. Len(accepted[k]) /\ i # last /\ Hits(k)[i] = accepted[k][i]
    BY <1>1 DEF Hits
  <2>4. \A i \in DOMAIN Hits(k) : accepted'[k][i] = Hits(k)[i] /\ Hits(k)[i] \in Nat
    BY <1>1, <1>5, <2>3
  <2>5. last \notin DOMAIN Hits(k)
    BY <2>3
  <2> HIDE DEF last
  <2> QED BY <1>1, <1>5, <2>2, <2>4, <2>5
<1>10. ASSUME NEW w \in Keys!Windows
       PROVE  Fair(Hits(k)', rates'[k][w], KeySpans[w], KeyLimits[w])
  <2>1. /\ KeySpans[w] \in Nat /\ KeyLimits[w] \in Nat
        /\ r[w] \in [count : Nat, resetAt : Nat] /\ r[w].count < KeyLimits[w]
        /\ keyNow <= r[w].resetAt /\ r[w].resetAt <= keyNow + KeySpans[w]
        /\ Fair(Hits(k), r[w], KeySpans[w], KeyLimits[w])
    BY <1>2, <1>3, KeyWindows DEF RateStates
  <2>2. Fair(Hits(k)', [r[w] EXCEPT !.count = @ + 1], KeySpans[w], KeyLimits[w])
    BY <1>1, <1>9, <2>1, FairAccepted
  <2> QED BY <1>6, <2>2
<1>11. RatesFair'
  <2> SUFFICES ASSUME NEW o \in DOMAIN rates
               PROVE  /\ since'[o] <= Len(accepted'[o])
                      /\ \A w \in Keys!Windows :
                            /\ rates'[o][w].resetAt <= keyNow' + KeySpans[w]
                            /\ Fair(Hits(o)', rates'[o][w], KeySpans[w], KeyLimits[w])
    BY <1>6 DEF RatesFair
  <2>1. CASE o = k
    <3>1. since'[k] <= Len(accepted'[k])
      BY <1>1, <1>2, <1>5
    <3>2. ASSUME NEW w \in Keys!Windows PROVE rates'[k][w].resetAt <= keyNow' + KeySpans[w]
      BY <1>2, <1>3, <1>4, <1>6
    <3> QED BY <1>10, <2>1, <3>1, <3>2
  <2>2. CASE o # k
    BY <1>1, <1>2, <1>5, <1>6, <1>8, <2>2 DEF RatesFair
  <2> QED BY <2>1, <2>2
<1>12. RateMove
  BY <1>1, <1>2, <1>6, <1>7, <1>11 DEF RateMove, KeysTypes
<1> QED BY <1>12, RateMoveInv


\* A window that starts now, for every window of a key.
LEMMA FreshRates ==
    ASSUME keyNow \in Nat
    PROVE  /\ Keys!FreshRate \in RateStates
           /\ \A w \in Keys!Windows :
                 /\ Keys!FreshRate[w] = [count |-> 0, resetAt |-> keyNow + KeySpans[w]]
                 /\ Keys!FreshRate[w].resetAt <= keyNow + KeySpans[w]
<1>1. /\ Keys!FreshRate = [w \in Keys!Windows |-> [count |-> 0, resetAt |-> keyNow + KeySpans[w]]]
      /\ \A w \in Keys!Windows : keyNow + KeySpans[w] \in Nat
  BY KeyWindows DEF Keys!FreshRate
<1> QED BY <1>1 DEF RateStates

LEMMA UpdateRateLimitMoves ==
    ASSUME KeysInv, NEW k \in Keys!KeyIds, Keys!UpdateRateLimit(k)
    PROVE  KeysInv'
<1>1. /\ KeysTypes /\ RatesFair /\ keyNow \in Nat
      /\ k \in DOMAIN rates /\ k \in DOMAIN since /\ DOMAIN since = DOMAIN rates
      /\ accepted[k] \in Seq(Nat) /\ Len(accepted[k]) \in Nat
  <2>1. KeysTypes /\ RatesFair
    BY DEF KeysInv
  <2>2. k \in DOMAIN rates /\ k \in DOMAIN since /\ DOMAIN since = DOMAIN rates
    BY <2>1, KeyTyped DEF KeysTypes
  <2> QED BY <2>1, <2>2, KeyTyped
<1>2. /\ rates' = [rates EXCEPT ![k] = Keys!FreshRate]
      /\ since' = [since EXCEPT ![k] = Len(accepted[k])]
      /\ UNCHANGED <<keys, userKeys, timers, usage, keyNow, accepted, reactivated>>
  BY DEF Keys!UpdateRateLimit
<1>3. /\ Keys!FreshRate \in RateStates
      /\ \A w \in Keys!Windows :
            /\ Keys!FreshRate[w] = [count |-> 0, resetAt |-> keyNow + KeySpans[w]]
            /\ Keys!FreshRate[w].resetAt <= keyNow + KeySpans[w]
  BY <1>1, FreshRates
<1>4. /\ rates' \in Seq(RateStates) /\ Len(rates') = Len(rates) /\ DOMAIN rates' = DOMAIN rates
      /\ rates'[k] = Keys!FreshRate /\ since'[k] = Len(accepted[k])
      /\ since' \in Seq(Nat) /\ Len(since') = Len(since)
      /\ \A o \in DOMAIN rates : o # k => rates'[o] = rates[o] /\ since'[o] = since[o]
  BY <1>1, <1>2, <1>3 DEF KeysTypes
<1>5. DOMAIN Hits(k)' = {}
  BY <1>1, <1>2, <1>4 DEF Hits
<1>6. ASSUME NEW w \in Keys!Windows
      PROVE  Fair(Hits(k)', rates'[k][w], KeySpans[w], KeyLimits[w])
  <2>1. KeySpans[w] \in Nat /\ KeyLimits[w] \in Nat
    BY KeyWindows
  <2>2. Fair(Hits(k)', [count |-> 0, resetAt |-> keyNow + KeySpans[w]], KeySpans[w], KeyLimits[w])
    BY <1>1, <1>5, <2>1, FairFresh
  <2> QED BY <1>3, <1>4, <2>2
<1>7. RatesFair'
  <2> SUFFICES ASSUME NEW o \in DOMAIN rates
               PROVE  /\ since'[o] <= Len(accepted'[o])
                      /\ \A w \in Keys!Windows :
                            /\ rates'[o][w].resetAt <= keyNow' + KeySpans[w]
                            /\ Fair(Hits(o)', rates'[o][w], KeySpans[w], KeyLimits[w])
    BY <1>4 DEF RatesFair
  <2>1. CASE o = k
    <3>1. since'[k] <= Len(accepted'[k])
      BY <1>1, <1>2, <1>4
    <3>2. ASSUME NEW w \in Keys!Windows PROVE rates'[k][w].resetAt <= keyNow' + KeySpans[w]
      BY <1>2, <1>3, <1>4
    <3> QED BY <1>6, <2>1, <3>1, <3>2
  <2>2. CASE o # k
    <3>1. Hits(o)' = Hits(o)
      BY <1>2, <1>4, <2>2 DEF Hits
    <3> QED BY <1>1, <1>2, <1>4, <2>2, <3>1 DEF RatesFair
  <2> QED BY <2>1, <2>2
<1>8. RateMove
  BY <1>1, <1>2, <1>4, <1>7 DEF RateMove, KeysTypes
<1> QED BY <1>8, RateMoveInv

\* Sorting a history in place keeps its length.
LEMMA GetUsageHistoryMoves ==
    ASSUME KeysInv, NEW k \in Keys!KeyIds, Keys!GetUsageHistory(k)
    PROVE  KeysInv'
<1>1. KeysTypes /\ RatesFair /\ k \in DOMAIN usage /\ usage[k] \in Histories
  <2>1. KeysTypes /\ RatesFair
    BY DEF KeysInv
  <2> QED BY <2>1, KeyTyped DEF KeysTypes
<1>2. PICK sorted \in [DOMAIN usage[k] -> Keys!Range(usage[k])] :
         usage' = [usage EXCEPT ![k] = sorted]
  BY DEF Keys!GetUsageHistory
<1>3. UNCHANGED <<keys, userKeys, rates, timers, keyNow, accepted, since, reactivated>>
  BY DEF Keys!GetUsageHistory
<1>4. sorted \in Histories
  <2>1. /\ usage[k] \in Seq(Nat) /\ Len(usage[k]) \in Nat /\ Len(usage[k]) <= HistoryCap
        /\ DOMAIN usage[k] = 1 .. Len(usage[k])
    BY <1>1 DEF Histories
  <2>2. Keys!Range(usage[k]) \subseteq Nat
    <3>1. \A i \in DOMAIN usage[k] : usage[k][i] \in Nat
      BY <2>1
    <3> QED BY <3>1, Zenon DEF Keys!Range
  <2>3. sorted \in [1 .. Len(usage[k]) -> Nat]
    BY <2>1, <2>2
  <2>4. sorted \in Seq(Nat) /\ Len(sorted) = Len(usage[k])
    BY <2>1, <2>3
  <2> QED BY <2>1, <2>4 DEF Histories
<1>5. usage' \in Seq(Histories) /\ Len(usage') = Len(usage)
  BY <1>1, <1>2, <1>4 DEF KeysTypes
<1>6. RatesFair'
  BY <1>1, <1>3 DEF RatesFair, Hits
<1>7. RateMove
  BY <1>1, <1>3, <1>5, <1>6 DEF RateMove, KeysTypes
<1> QED BY <1>7, RateMoveInv

LEMMA KeyTickMoves ==
    ASSUME KeysInv, Keys!KeyTick PROVE KeysInv'
<1>1. /\ KeysTypes /\ RatesFair /\ keyNow \in Nat /\ keyNow' = keyNow + 1
      /\ UNCHANGED <<keys, userKeys, rates, timers, usage, accepted, since, reactivated>>
  BY DEF KeysInv, KeysTypes, Keys!KeyTick
<1>2. RatesFair'
  <2> SUFFICES ASSUME NEW k \in DOMAIN rates
               PROVE  /\ since[k] <= Len(accepted[k])
                      /\ \A w \in Keys!Windows :
                            /\ rates[k][w].resetAt <= keyNow' + KeySpans[w]
                            /\ Fair(Hits(k), rates[k][w], KeySpans[w], KeyLimits[w])
    BY <1>1 DEF RatesFair, Hits
  <2>1. ASSUME NEW w \in Keys!Windows
        PROVE  rates[k][w].resetAt <= keyNow' + KeySpans[w]
    <3>1. /\ rates[k][w].resetAt <= keyNow + KeySpans[w] /\ KeySpans[w] \in Nat
          /\ rates[k][w] \in [count : Nat, resetAt : Nat]
      BY <1>1, KeyWindows DEF RatesFair, KeysTypes, RateStates
    <3> QED BY <1>1, <3>1
  <2> QED BY <1>1, <2>1 DEF RatesFair
<1>3. RateMove
  BY <1>1, <1>2 DEF RateMove, KeysTypes
<1> QED BY <1>3, RateMoveInv


-----------------------------------------------------------------------------
(* New keys.                                                                *)

\* A key is stored, with counters of its own, and entered among those of its user.
LEMMA StoreMoves ==
    ASSUME KeysInv, NEW m \in KeyRecords, Keys!Store(m), Keys!Known(m.user, Len(keys) + 1),
           m.from <= Len(keys), timers \subseteq timers',
           \A waker \in timers' : waker \in timers \/ waker \in [key : Keys!KeyIds, at : Nat],
           m.from \in Keys!KeyIds => \E waker \in timers' : waker.key = m.from,
           keyNow' = keyNow, reactivated' = reactivated
    PROVE  KeysInv'
<1> DEFINE new == Len(keys) + 1
<1>1. /\ KeysTypes /\ KeysKnown /\ Keys!GraceCovered /\ RatesFair
      /\ Len(keys) \in Nat /\ keyNow \in Nat /\ Keys!KeyIds = 1 .. Len(keys)
      /\ 1 .. new = (1 .. Len(keys)) \cup {new} /\ new \notin 1 .. Len(keys)
      /\ DOMAIN keys = 1 .. Len(keys) /\ DOMAIN rates = 1 .. Len(keys)
      /\ DOMAIN accepted = 1 .. Len(keys) /\ DOMAIN since = 1 .. Len(keys)
  BY DEF KeysInv, KeysTypes, Keys!KeyIds
<1>2. /\ keys' = Append(keys, m) /\ rates' = Append(rates, Keys!FreshRate)
      /\ usage' = Append(usage, <<>>) /\ accepted' = Append(accepted, <<>>)
      /\ since' = Append(since, 0)
      /\ userKeys' = [userKeys EXCEPT ![m.user] = @ \cup {new}]
      /\ m.user \in Users
  BY DEF Keys!Store, Keys!Known, KeyRecords
<1>3. /\ keys' \in Seq(KeyRecords) /\ Len(keys') = new /\ keys'[new] = m
      /\ \A k \in 1 .. Len(keys) : keys'[k] = keys[k]
  BY <1>1, <1>2, AppendProperties DEF KeysTypes
<1>4. /\ Keys!FreshRate \in RateStates
      /\ \A w \in Keys!Windows :
            /\ Keys!FreshRate[w] = [count |-> 0, resetAt |-> keyNow + KeySpans[w]]
            /\ Keys!FreshRate[w].resetAt <= keyNow + KeySpans[w]
  BY <1>1, FreshRates
<1>5. /\ rates' \in Seq(RateStates) /\ Len(rates') = new /\ rates'[new] = Keys!FreshRate
      /\ \A k \in 1 .. Len(keys) : rates'[k] = rates[k]
  BY <1>1, <1>2, <1>4, AppendProperties DEF KeysTypes
<1>6. /\ accepted' \in Seq(Seq(Nat)) /\ Len(accepted') = new /\ accepted'[new] = <<>>
      /\ \A k \in 1 .. Len(keys) : accepted'[k] = accepted[k]
  <2>1. <<>> \in Seq(Nat)
    OBVIOUS
  <2> QED BY <1>1, <1>2, <2>1, AppendProperties DEF KeysTypes
<1>7. /\ since' \in Seq(Nat) /\ Len(since') = new /\ since'[new] = 0
      /\ \A k \in 1 .. Len(keys) : since'[k] = since[k]
  BY <1>1, <1>2, AppendProperties DEF KeysTypes
<1>8. usage' \in Seq(Histories) /\ Len(usage') = new
  <2>1. <<>> \in Histories
    BY KeysConfig DEF Histories
  <2> QED BY <1>1, <1>2, <2>1, AppendProperties DEF KeysTypes
<1>9. userKeys' \in [Users -> SUBSET (1 .. new)]
  BY <1>1, <1>2 DEF KeysTypes
<1>10. timers' \subseteq [key : 1 .. new, at : Nat]
  BY <1>1 DEF KeysTypes
<1>11. KeysTypes'
  BY <1>1, <1>3, <1>5, <1>6, <1>7, <1>8, <1>9, <1>10 DEF KeysTypes
<1>12. KeysKnown'
  <2> SUFFICES ASSUME NEW k \in 1 .. new
               PROVE  k \in userKeys'[keys'[k].user] /\ keys'[k].from < k
    BY <1>3 DEF KeysKnown
  <2>1. CASE k = new
    <3>1. new \in userKeys'[m.user]
      BY <1>1, <1>2 DEF KeysTypes
    <3>2. m.from < new
      BY <1>1 DEF KeyRecords
    <3> QED BY <1>3, <2>1, <3>1, <3>2
  <2>2. CASE k \in 1 .. Len(keys)
    <3>1. keys'[k] = keys[k] /\ keys[k].user \in Users
      <4>1. keys[k] \in KeyRecords
        BY <1>1, <2>2 DEF KeysTypes
      <4> QED BY <1>3, <2>2, <4>1 DEF KeyRecords
    <3>2. userKeys[keys[k].user] \subseteq userKeys'[keys[k].user]
      BY <1>1, <1>2, <3>1 DEF KeysTypes
    <3> QED BY <1>1, <2>2, <3>1, <3>2 DEF KeysKnown
  <2> QED BY <1>1, <2>1, <2>2
<1>13. Keys!GraceCovered'
  <2> SUFFICES ASSUME NEW k \in 1 .. new, NEW n \in 1 .. new,
                      keys'[n].from = k, keys'[k].status = "active"
               PROVE  k \in reactivated \/ \E waker \in timers' : waker.key = k
    BY <1>3 DEF Keys!GraceCovered, Keys!KeyIds
  <2>1. k \in 1 .. Len(keys)
    <3>1. keys'[n].from < n
      BY <1>12, <1>3 DEF KeysKnown
    <3> QED BY <1>1, <3>1
  <2>2. CASE n = new
    BY <1>1, <1>3, <2>1, <2>2
  <2>3. CASE n \in 1 .. Len(keys)
    <3>1. k \in reactivated \/ \E waker \in timers : waker.key = k
      BY <1>1, <1>3, <2>1, <2>3 DEF Keys!GraceCovered
    <3> QED BY <3>1
  <2> QED BY <1>1, <2>2, <2>3
<1>14. RatesFair'
  <2> SUFFICES ASSUME NEW k \in 1 .. new
               PROVE  /\ since'[k] <= Len(accepted'[k])
                      /\ \A w \in Keys!Windows :
                            /\ rates'[k][w].resetAt <= keyNow + KeySpans[w]
                            /\ Fair(Hits(k)', rates'[k][w], KeySpans[w], KeyLimits[w])
    BY <1>5 DEF RatesFair
  <2>1. CASE k = new
    <3>1. Len(accepted'[k]) = 0 /\ since'[k] = 0 /\ rates'[k] = Keys!FreshRate
      BY <1>5, <1>6, <1>7, <2>1
    <3>2. DOMAIN Hits(k)' = {}
      BY <3>1 DEF Hits
    <3>3. ASSUME NEW w \in Keys!Windows
          PROVE  Fair(Hits(k)', rates'[k][w], KeySpans[w], KeyLimits[w])
      <4>1. KeySpans[w] \in Nat /\ KeyLimits[w] \in Nat
        BY KeyWindows
      <4>2. Fair(Hits(k)', [count |-> 0, resetAt |-> keyNow + KeySpans[w]],
                 KeySpans[w], KeyLimits[w])
        BY <1>1, <3>2, <4>1, FairFresh
      <4>3. rates'[k][w] = [count |-> 0, resetAt |-> keyNow + KeySpans[w]]
        BY <1>4, <3>1
      <4> QED BY <4>2, <4>3
    <3>4. since'[k] <= Len(accepted'[k])
      BY <3>1
    <3>5. \A w \in Keys!Windows : rates'[k][w].resetAt <= keyNow + KeySpans[w]
      BY <1>4, <3>1
    <3> QED BY <3>3, <3>4, <3>5
  <2>2. CASE k \in 1 .. Len(keys)
    <3>1. Hits(k)' = Hits(k)
      BY <1>6, <1>7, <2>2 DEF Hits
    <3>2. /\ since[k] <= Len(accepted[k])
          /\ \A w \in Keys!Windows :
                /\ rates[k][w].resetAt <= keyNow + KeySpans[w]
                /\ Fair(Hits(k), rates[k][w], KeySpans[w], KeyLimits[w])
      BY <1>1, <2>2 DEF RatesFair
    <3>3. rates'[k] = rates[k] /\ accepted'[k] = accepted[k] /\ since'[k] = since[k]
      BY <1>5, <1>6, <1>7, <2>2
    <3> QED BY <3>1, <3>2, <3>3
  <2> QED BY <1>1, <2>1, <2>2
<1> QED BY <1>11, <1>12, <1>13, <1>14 DEF KeysInv

LEMMA GenerateAPIKeyMoves ==
    ASSUME KeysInv, NEW u \in Users, Keys!GenerateAPIKey(u) PROVE KeysInv'
<1> DEFINE m == [user |-> u, status |-> "active", expiresAt |-> keyNow + KeyLife, from |-> 0]
<1>1. KeysTypes /\ keyNow \in Nat /\ Len(keys) \in Nat /\ Keys!KeyIds = 1 .. Len(keys)
  BY DEF KeysInv, KeysTypes, Keys!KeyIds
<1>2. m \in KeyRecords
  BY <1>1, KeysConfig DEF KeyRecords, Keys!Statuses
<1>3. Keys!Store(m) /\ Keys!Known(m.user, Len(keys) + 1) /\ UNCHANGED <<timers, keyNow, reactivated>>
  BY DEF Keys!GenerateAPIKey
<1>4. m.from <= Len(keys) /\ m.from \notin Keys!KeyIds
  BY <1>1
<1> HIDE DEF m
<1> QED BY <1>2, <1>3, <1>4, StoreMoves

LEMMA RotateAPIKeyMoves ==
    ASSUME KeysInv, NEW k \in Keys!KeyIds, Keys!RotateAPIKey(k) PROVE KeysInv'
<1> DEFINE m == [keys[k] EXCEPT !.from = k]
<1>1. /\ KeysTypes /\ keyNow \in Nat /\ Len(keys) \in Nat /\ Keys!KeyIds = 1 .. Len(keys)
      /\ keys[k] \in KeyRecords
  <2>1. KeysTypes
    BY DEF KeysInv
  <2> QED BY <2>1, KeyTyped
<1>2. m \in KeyRecords /\ m.from = k /\ m.user = keys[k].user /\ k <= Len(keys)
  BY <1>1 DEF KeyRecords
<1>3. /\ Keys!Store(m) /\ Keys!Known(m.user, Len(keys) + 1)
      /\ timers' = timers \cup {[key |-> k, at |-> keyNow + Grace]}
      /\ UNCHANGED <<keyNow, reactivated>>
  BY <1>2 DEF Keys!RotateAPIKey
<1>4. [key |-> k, at |-> keyNow + Grace] \in [key : Keys!KeyIds, at : Nat]
  BY <1>1, KeysConfig
<1>5. \E waker \in timers' : waker.key = m.from
  <2>1. [key |-> k, at |-> keyNow + Grace] \in timers'
    BY <1>3
  <2> QED BY <1>2, <2>1
<1> HIDE DEF m
<1> QED BY <1>2, <1>3, <1>4, <1>5, StoreMoves


-----------------------------------------------------------------------------
(* Every call keeps the invariant.                                          *)

LEMMA GracePeriodEndsMoves ==
    ASSUME KeysInv, NEW waker \in timers, Keys!GracePeriodEnds(waker) PROVE KeysInv'
<1> DEFINE k == waker.key
           S == IF keys[k].status = "active" THEN {k} ELSE {}
<1>1. /\ KeysTypes /\ k \in Keys!KeyIds
      /\ \A o \in Keys!KeyIds : keys[o] \in KeyRecords
      /\ DOMAIN keys = Keys!KeyIds
  BY DEF KeysInv, KeysTypes, Keys!KeyIds
<1>2. /\ timers' = timers \ {waker}
      /\ keys' = [keys EXCEPT ![k].status = IF @ = "active" THEN "revoked" ELSE @]
      /\ UNCHANGED <<userKeys, rates, usage, keyNow, accepted, since, reactivated>>
  BY DEF Keys!GracePeriodEnds
<1>3. ASSUME NEW o \in Keys!KeyIds
      PROVE  keys'[o] = IF o \in S THEN [keys[o] EXCEPT !.status = "revoked"] ELSE keys[o]
  <2>1. keys[o] \in KeyRecords /\ keys[k] \in KeyRecords
    BY <1>1
  <2> QED BY <1>1, <1>2, <2>1 DEF KeyRecords
<1>4. keys' = [o \in Keys!KeyIds |-> IF o \in S THEN [keys[o] EXCEPT !.status = "revoked"]
                                     ELSE keys[o]]
  BY <1>1, <1>2, <1>3
<1>5. keys'[k].status # "active"
  <2>1. keys[k] \in KeyRecords
    BY <1>1
  <2> QED BY <1>1, <1>3, <2>1 DEF KeyRecords
<1>6. /\ S \in SUBSET Keys!KeyIds /\ "revoked" \in Keys!Statuses /\ "revoked" # "active"
      /\ \A other \in timers : other \in timers' \/ keys'[other.key].status # "active"
  BY <1>1, <1>2, <1>5 DEF Keys!Statuses
<1> HIDE DEF S
<1> QED BY <1>2, <1>4, <1>6, StatusesChange

LEMMA ExpiresOnUseMoves ==
    ASSUME KeysInv, NEW k \in Keys!KeyIds, Keys!ExpiresOnUse(k) PROVE KeysInv'
<1>1. keys' = [o \in Keys!KeyIds |-> IF o \in {k} THEN [keys[o] EXCEPT !.status = "expired"]
                                     ELSE keys[o]]
  BY DEF Keys!ExpiresOnUse, Keys!KeyIds, KeysInv, KeysTypes
<1>2. UNCHANGED <<userKeys, rates, timers, usage, keyNow, accepted, since, reactivated>>
  BY DEF Keys!ExpiresOnUse
<1>3. {k} \in SUBSET Keys!KeyIds /\ "expired" \in Keys!Statuses
  BY DEF Keys!Statuses
<1> QED BY <1>1, <1>2, <1>3, StatusesChange

LEMMA RevokedMoves ==
    ASSUME KeysInv, NEW S \in SUBSET Keys!KeyIds, keys' = Keys!Revoked(S),
           UNCHANGED <<userKeys, rates, timers, usage, keyNow, accepted, since, reactivated>>
    PROVE  KeysInv'
<1>1. keys' = [k \in Keys!KeyIds |-> IF k \in S THEN [keys[k] EXCEPT !.status = "revoked"]
                                     ELSE keys[k]]
  BY DEF Keys!Revoked
<1>2. "revoked" \in Keys!Statuses
  BY DEF Keys!Statuses
<1> QED BY <1>1, <1>2, StatusesChange

LEMMA UpdateStatusMoves ==
    ASSUME KeysInv, NEW k \in Keys!KeyIds, NEW status \in Keys!Statuses,
           Keys!UpdateStatus(k, status)
    PROVE  KeysInv'
<1>1. keys' = [o \in Keys!KeyIds |-> IF o \in {k} THEN [keys[o] EXCEPT !.status = status]
                                     ELSE keys[o]]
  BY DEF Keys!UpdateStatus, Keys!KeyIds, KeysInv, KeysTypes
<1>2. UNCHANGED <<userKeys, rates, timers, usage, keyNow, accepted, since>>
  BY DEF Keys!UpdateStatus
<1>3. /\ {k} \in SUBSET Keys!KeyIds /\ reactivated \subseteq reactivated'
      /\ status = "active" => {k} \subseteq reactivated'
  BY DEF Keys!UpdateStatus
<1> QED BY <1>1, <1>2, <1>3, StatusesChange

LEMMA CleanupExpiredKeysMoves ==
    ASSUME KeysInv, Keys!CleanupExpiredKeys PROVE KeysInv'
<1> DEFINE S == {k \in Keys!KeyIds : keys[k].expiresAt < keyNow /\ keys[k].status = "active"}
<1>1. keys' = [k \in Keys!KeyIds |-> IF k \in S THEN [keys[k] EXCEPT !.status = "expired"]
                                     ELSE keys[k]]
  BY DEF Keys!CleanupExpiredKeys
<1>2. UNCHANGED <<userKeys, rates, timers, usage, keyNow, accepted, since, reactivated>>
  BY DEF Keys!CleanupExpiredKeys
<1>3. S \in SUBSET Keys!KeyIds /\ "expired" \in Keys!Statuses
  BY DEF Keys!Statuses
<1> HIDE DEF S
<1> QED BY <1>1, <1>2, <1>3, StatusesChange

LEMMA KeysSteps == KeysInv /\ [Keys!Next]_(Keys!apiKeyVars) => KeysInv'
<1> SUFFICES ASSUME KeysInv, [Keys!Next]_(Keys!apiKeyVars) PROVE KeysInv'
  OBVIOUS
<1>1. ASSUME NEW u \in Users, Keys!RevokeAllUserKeys(u) PROVE KeysInv'
  <2>1. userKeys[u] \in SUBSET Keys!KeyIds
    BY DEF KeysInv, KeysTypes, Keys!KeyIds
  <2>2. /\ keys' = Keys!Revoked(userKeys[u])
        /\ UNCHANGED <<userKeys, rates, timers, usage, keyNow, accepted, since, reactivated>>
    BY <1>1 DEF Keys!RevokeAllUserKeys
  <2> QED BY <2>1, <2>2, RevokedMoves
<1>2. ASSUME NEW k \in Keys!KeyIds, Keys!RevokeAPIKey(k) PROVE KeysInv'
  <2>1. /\ keys' = Keys!Revoked({k})
        /\ UNCHANGED <<userKeys, rates, timers, usage, keyNow, accepted, since, reactivated>>
    BY <1>2 DEF Keys!RevokeAPIKey
  <2> QED BY <2>1, RevokedMoves
<1>3. ASSUME NEW k \in Keys!KeyIds, Keys!ValidateAPIKey(k) PROVE KeysInv'
  BY <1>3, ExpiresOnUseMoves, OverLimitMoves, AcceptMoves DEF Keys!ValidateAPIKey
<1>4. ASSUME UNCHANGED Keys!apiKeyVars PROVE KeysInv'
  <2>1. UNCHANGED <<keys, userKeys, rates, timers, usage, keyNow, accepted, since, reactivated>>
    BY <1>4 DEF Keys!apiKeyVars
  <2>2. RateMove
    BY <2>1 DEF KeysInv, KeysTypes, RatesFair, Hits, RateMove
  <2> QED BY <2>2, RateMoveInv
<1> QED BY <1>1, <1>2, <1>3, <1>4, GenerateAPIKeyMoves, RotateAPIKeyMoves, UpdateStatusMoves,
           UpdateRateLimitMoves, GetUsageHistoryMoves, GracePeriodEndsMoves,
           CleanupExpiredKeysMoves, KeyTickMoves
        DEF Keys!Next

LEMMA KeysInvariant == TokensSpec => []KeysInv
<1>1. Keys!Spec => []KeysInv
  BY KeysInitial, KeysSteps, PTL DEF Keys!Spec
<1> QED BY <1>1, KeysPart, PTL

LEMMA KeyRates == KeysInv => Keys!KeyRateBounded
<1> SUFFICES ASSUME KeysInv, NEW k \in Keys!KeyIds, NEW w \in Keys!Windows,
                    NEW from \in 1 .. keyNow
             PROVE  Keys!Within(k, from, from + KeySpans[w]) <= 2 * KeyLimits[w]
  BY DEF Keys!KeyRateBounded
<1>1. KeysTypes /\ RatesFair /\ k \in DOMAIN rates /\ keyNow \in Nat
  <2>1. KeysTypes /\ RatesFair
    BY DEF KeysInv
  <2> QED BY <2>1, KeyTyped DEF KeysTypes
<1>2. Fair(Hits(k), rates[k][w], KeySpans[w], KeyLimits[w]) /\ from \in Nat
  BY <1>1 DEF RatesFair
<1>3. Cardinality(Served(Hits(k), from, from + KeySpans[w])) <= 2 * KeyLimits[w]
  BY <1>2 DEF Fair
<1>4. Served(Hits(k), from, from + KeySpans[w])
      = {i \in Keys!Counted(k) : accepted[k][i] \in from .. from + KeySpans[w]}
  BY DEF Served, Hits, Keys!Counted
<1>5. \A S : Keys!Cardinality(S) = Cardinality(S)
  BY DEF Keys!Cardinality, Cardinality
<1> QED BY <1>3, <1>4, <1>5 DEF Keys!Within

LEMMA KeyTypesHold == KeysInv => Keys!ApiKeyTypeOK
<1> SUFFICES ASSUME KeysInv PROVE Keys!ApiKeyTypeOK
  OBVIOUS
<1>1. /\ KeysTypes /\ Keys!KeyIds = 1 .. Len(keys) /\ Len(keys) \in Nat
      /\ DOMAIN rates = Keys!KeyIds /\ DOMAIN usage = Keys!KeyIds
  BY DEF KeysInv, KeysTypes, Keys!KeyIds
<1>2. ASSUME NEW k \in Keys!KeyIds
      PROVE  /\ keys[k].user \in Users /\ keys[k].status \in Keys!Statuses
             /\ Len(usage[k]) <= HistoryCap /\ DOMAIN rates[k] = Keys!Windows
  <2>1. keys[k] \in KeyRecords /\ usage[k] \in Histories /\ rates[k] \in RateStates
    BY <1>1, KeyTyped
  <2> QED BY <2>1 DEF KeyRecords, Histories, RateStates
<1>3. /\ \A u \in Users : userKeys[u] \subseteq Keys!KeyIds
      /\ \A waker \in timers : waker.key \in Keys!KeyIds
  BY <1>1 DEF KeysTypes
<1> QED BY <1>1, <1>2, <1>3 DEF Keys!ApiKeyTypeOK

\* Fixed windows admit at most twice their limit in any stretch of their length; a rotated
\* key that is active has a timer to end it, unless updateAPIKey made it active again; and
\* revokeAllUserKeys reaches the keys that rotations made.
THEOREM KeysAreSound == TokensSpec => KeysSound
<1>1. KeysInv => (issuer = "keys" =>
                     Keys!ApiKeyTypeOK /\ Keys!KeyRateBounded /\ Keys!GraceCovered)
  BY KeyTypesHold, KeyRates DEF KeysInv
<1>2. KeysInv /\ [Keys!Next]_(Keys!apiKeyVars)
         => [\A u \in Users : Keys!RevokeAllUserKeys(u) =>
                \A k \in Keys!KeyIds : keys[k].user = u => keys'[k].status = "revoked"
            ]_(Keys!apiKeyVars)
  <2> SUFFICES ASSUME KeysInv, NEW u \in Users, Keys!RevokeAllUserKeys(u),
                      NEW k \in Keys!KeyIds, keys[k].user = u
               PROVE  keys'[k].status = "revoked"
    OBVIOUS
  <2>1. KeysTypes /\ k \in userKeys[u]
    BY DEF KeysInv, KeysKnown, KeysTypes, Keys!KeyIds
  <2>2. keys[k] \in KeyRecords
    BY <2>1, KeyTyped
  <2>3. keys'[k] = [keys[k] EXCEPT !.status = "revoked"]
    BY <2>1 DEF Keys!RevokeAllUserKeys, Keys!Revoked
  <2> QED BY <2>2, <2>3 DEF KeyRecords
<1>3. TokensSpec => [](issuer = "keys" =>
                          Keys!ApiKeyTypeOK /\ Keys!KeyRateBounded /\ Keys!GraceCovered)
  BY KeysInvariant, <1>1, PTL
<1>4. TokensSpec => Keys!RevokeAllReachesRotations
  BY KeysInvariant, KeysPart, <1>2, PTL DEF Keys!Spec, Keys!RevokeAllReachesRotations
<1> QED BY <1>3, <1>4 DEF KeysSound

-----------------------------------------------------------------------------
(* Both issuers of tokens.                                                    *)

\* One chain of tokens for a login and for a code, and counters and caches that follow
\* what they stand for.
THEOREM TokenChains == TokensSpec => []TokenChainsSound
<1>1. /\ Jwt!TypeOK /\ Jwt!OneLivePerFamily /\ Jwt!BlacklistCounted
      /\ OAuth!OAuthTypeOK
      /\ OAuth!CodeExchangedOnce
      /\ OAuth!OneRenewablePerCode
      /\ OAuth!ScopesOnlyShrink
      /\ OAuth!CacheFollowsStore
      => TokenChainsSound
  BY DEF TokenChainsSound
<1> QED BY JwtSound, OAuthSound, <1>1, PTL

\* A token that is refused stays refused.
THEOREM TokensKeepContract == TokensSpec => TokensImplementContract
BY JwtContract, OAuthContract DEF TokensImplementContract

-----------------------------------------------------------------------------
(* CaptchaWidget.  A validation by a local service returns before anything else   *)
(* happens, so at most one is out and it is for the session of the state; the     *)
(* vanilla widget's may overlap, but each began below the limit of attempts.      *)

States ==
    [loading : BOOLEAN, session : Nat, validated : BOOLEAN, attempts : Nat, expiresIn : Nat]
Faces == [loading : BOOLEAN, session : Nat, validated : BOOLEAN]
CallRecords ==
    [op : {"none", "generate", "validate"}, session : Nat, shown : Nat, updates : BOOLEAN]

Places == 1 .. MaxCalls
Validating == {i \in Places : calls[i].op = "validate"}

WidgetTypeOK ==
    /\ kind \in WidgetKinds /\ mounted \in BOOLEAN /\ state \in States /\ ui \in Faces
    /\ timer \in BOOLEAN /\ calls \in [Places -> CallRecords] /\ generated \in Nat

\* Only the Angular screen may show another session than the state's.
OnScreen == kind # "angular" => ui.session = state.session

VanillaUpdates == kind = "vanilla" => ~timer /\ \A i \in Places : calls[i].updates

\* A local service.
OneValidation ==
    kind # "vanilla" =>
        /\ state.validated => state.session \in passed
        /\ state.attempts <= MaxAttempts
        /\ \A i \in Validating : /\ calls[i].session = state.session
                                 /\ state.attempts < MaxAttempts
                                 /\ \A j \in Validating : j = i

AttemptsCounted ==
    kind = "vanilla" => state.attempts + Cardinality(Validating) <= MaxAttempts + MaxCalls - 1

WidgetInv ==
    /\ WidgetTypeOK /\ OnScreen /\ VanillaUpdates /\ OneValidation /\ AttemptsCounted
    /\ Widget!AnswerForShown /\ Widget!CountdownHasSession

\* The fields of the states that the widgets make.
LEMMA LoadingSet ==
    ASSUME NEW s \in States, NEW b \in BOOLEAN
    PROVE  LET t == [s EXCEPT !.loading = b]
           IN  /\ t \in States /\ t.session = s.session /\ t.validated = s.validated
               /\ t.attempts = s.attempts
  BY DEF States

LEMMA VerdictSet ==
    ASSUME NEW s \in States, NEW valid \in BOOLEAN
    PROVE  LET t == [s EXCEPT !.loading = FALSE, !.validated = valid, !.attempts = @ + 1]
           IN  /\ t \in States /\ t.session = s.session /\ t.validated = valid
               /\ t.attempts = s.attempts + 1
  <1> DEFINE loaded == [s EXCEPT !.loading = FALSE]
             judged == [loaded EXCEPT !.validated = valid]
             counted == [judged EXCEPT !.attempts = s.attempts + 1]
  <1>1. /\ loaded \in States /\ loaded.session = s.session /\ loaded.attempts = s.attempts
    BY DEF States
  <1> HIDE DEF loaded
  <1>2. /\ judged \in States /\ judged.session = s.session /\ judged.attempts = s.attempts
        /\ judged.validated = valid
    BY <1>1 DEF States
  <1> HIDE DEF judged
  <1>3. /\ counted \in States /\ counted.session = s.session /\ counted.validated = valid
        /\ counted.attempts = s.attempts + 1
    BY <1>2 DEF States
  <1> QED
    BY <1>3 DEF judged, loaded

LEMMA FailureSet ==
    ASSUME NEW s \in States
    PROVE  LET t == [s EXCEPT !.loading = FALSE, !.attempts = @ + 1]
           IN  /\ t \in States /\ t.session = s.session /\ t.validated = s.validated
               /\ t.attempts = s.attempts + 1
  <1> DEFINE loaded == [s EXCEPT !.loading = FALSE]
             counted == [loaded EXCEPT !.attempts = s.attempts + 1]
  <1>1. /\ loaded \in States /\ loaded.session = s.session /\ loaded.attempts = s.attempts
        /\ loaded.validated = s.validated
    BY DEF States
  <1> HIDE DEF loaded
  <1>2. /\ counted \in States /\ counted.session = s.session
        /\ counted.validated = s.validated /\ counted.attempts = s.attempts + 1
    BY <1>1 DEF States
  <1> QED
    BY <1>2 DEF loaded

LEMMA CountedDown ==
    ASSUME NEW s \in States, s.expiresIn > 0
    PROVE  LET t == [s EXCEPT !.expiresIn = @ - 1]
           IN  /\ t \in States /\ t.session = s.session /\ t.validated = s.validated
               /\ t.attempts = s.attempts
  BY DEF States

LEMMA NoStateType ==
    /\ Widget!NoState \in States /\ Widget!NoState.session = 0 /\ ~Widget!NoState.validated
    /\ Widget!NoState.attempts = 0
  BY DEF Widget!NoState, States

LEMMA FreshType ==
    ASSUME NEW s \in Nat
    PROVE  /\ Widget!Fresh(s) \in States /\ Widget!Fresh(s).session = s
           /\ ~Widget!Fresh(s).validated /\ Widget!Fresh(s).attempts = 0
  BY VisitorsAssumption DEF Widget!Fresh, Widget!NoState, States

LEMMA FaceType ==
    ASSUME NEW s \in States
    PROVE  Widget!Face(s) \in Faces /\ Widget!Face(s).session = s.session
  BY DEF Widget!Face, Faces, States

LEMMA RenderedType ==
    ASSUME WidgetInv, NEW s \in States, NEW updated \in BOOLEAN
    PROVE  /\ Widget!Rendered(s, updated) \in Faces
           /\ kind # "angular" /\ (kind = "vanilla" => updated \/ s.session = state.session) =>
                 Widget!Rendered(s, updated).session = s.session
  <1>1. kind \in {"react", "vue", "angular", "svelte", "vanilla"}
    BY VisitorsAssumption DEF WidgetInv, WidgetTypeOK
  <1>2. Widget!Face(s) \in Faces /\ Widget!Face(s).session = s.session
    BY FaceType
  <1>3. ui \in Faces /\ (kind = "vanilla" => ui.session = state.session)
    BY DEF WidgetInv, WidgetTypeOK, OnScreen
  <1> QED
    BY <1>1, <1>2, <1>3 DEF Widget!Rendered, Widget!Reactive

LEMMA PlacesFinite ==
    /\ IsFiniteSet(Places) /\ Cardinality(Places) = MaxCalls /\ MaxCalls \in Nat /\ MaxCalls > 0
  BY VisitorsAssumption, FS_Interval DEF Places

LEMMA ValidatingCount ==
    ASSUME NEW V \in SUBSET Places
    PROVE  /\ IsFiniteSet(V) /\ Cardinality(V) \in Nat /\ Cardinality(V) <= MaxCalls
           /\ \A i \in Places : i \notin V => Cardinality(V) <= MaxCalls - 1
           /\ \A i \in V : Cardinality(V \ {i}) = Cardinality(V) - 1
  <1>1. IsFiniteSet(V) /\ Cardinality(V) \in Nat /\ Cardinality(V) <= MaxCalls
    BY PlacesFinite, FS_Subset, FS_CardinalityType
  <1>2. ASSUME NEW i \in Places, i \notin V PROVE Cardinality(V) <= MaxCalls - 1
    <2>1. V \in SUBSET (Places \ {i})
      BY <1>2
    <2>2. IsFiniteSet(Places \ {i}) /\ Cardinality(Places \ {i}) = MaxCalls - 1
      BY PlacesFinite, FS_RemoveElement
    <2> QED
      BY <2>1, <2>2, FS_Subset
  <1>3. ASSUME NEW i \in V PROVE Cardinality(V \ {i}) = Cardinality(V) - 1
    BY <1>1, FS_RemoveElement
  <1> QED
    BY <1>1, <1>2, <1>3

\* A call takes a free place.
LEMMA CallPlaced ==
    ASSUME WidgetInv, NEW new \in CallRecords, Widget!Call(new)
    PROVE  \E i \in Places :
              /\ calls[i].op = "none" /\ calls' \in [Places -> CallRecords] /\ calls'[i] = new
              /\ \A j \in Places : j # i => calls'[j] = calls[j]
  <1>1. PICK i \in Places : calls[i] = Widget!NoCall /\ calls' = [calls EXCEPT ![i] = new]
    BY DEF Widget!Call, Places
  <1>2. calls[i].op = "none"
    BY <1>1 DEF Widget!NoCall
  <1>3. calls \in [Places -> CallRecords]
    BY DEF WidgetInv, WidgetTypeOK
  <1> QED
    BY <1>1, <1>2, <1>3

LEMMA InitWidget ==
    ASSUME Widget!Init
    PROVE  WidgetInv
  <1> DEFINE none == Widget!NoCall
             first == [none EXCEPT !.op = "generate"]
             idle == [i \in Places |-> none]
             empty == Widget!NoState
             waiting == [empty EXCEPT !.loading = TRUE]
             face == Widget!Face(empty)
  <1>1. /\ kind \in WidgetKinds /\ mounted = TRUE /\ timer = FALSE /\ generated = 0
        /\ ui = [face EXCEPT !.loading = (kind = "vanilla")]
        /\ state \in {empty, waiting} /\ calls \in {idle, [idle EXCEPT ![1] = first]}
    BY DEF Widget!Init, Widget!NoCalls, Places
  <1>2. /\ none \in CallRecords /\ none.op = "none" /\ none.updates = TRUE
        /\ first \in CallRecords /\ first.op = "generate" /\ first.updates = TRUE
    BY DEF Widget!NoCall, CallRecords
  <1>3. /\ empty \in States /\ empty.session = 0 /\ ~empty.validated /\ empty.attempts = 0
    BY NoStateType
  <1>4. face \in Faces /\ face.session = 0
    BY <1>3, FaceType
  <1> HIDE DEF none, first, empty, face
  <1>5. calls \in [Places -> CallRecords] /\ \A i \in Places : calls[i] \in {none, first}
    BY <1>1, <1>2
  <1>6. Validating = {} /\ \A i \in Places : calls[i].updates
    BY <1>2, <1>5 DEF Validating
  <1>11. state \in States /\ state.session = 0 /\ ~state.validated /\ state.attempts = 0
    <2>1. /\ waiting \in States /\ waiting.session = 0 /\ ~waiting.validated /\ waiting.attempts = 0
      BY <1>3 DEF States
    <2> HIDE DEF waiting
    <2> QED
      BY <1>1, <1>3, <2>1
  <1>12. ui \in Faces /\ ui.session = 0
    BY <1>1, <1>4 DEF Faces
  <1>7. WidgetTypeOK /\ OnScreen /\ VanillaUpdates
    BY <1>1, <1>5, <1>6, <1>11, <1>12 DEF WidgetTypeOK, OnScreen, VanillaUpdates
  <1>8. OneValidation
    BY <1>6, <1>11, VisitorsAssumption DEF OneValidation
  <1>9. AttemptsCounted
    <2>1. Cardinality({}) = 0
      BY FS_EmptySet
    <2> QED
      BY <1>6, <1>11, <2>1, VisitorsAssumption DEF AttemptsCounted
  <1>10. Widget!AnswerForShown /\ Widget!CountdownHasSession
    BY <1>1, <1>2, <1>5 DEF Widget!AnswerForShown, Widget!CountdownHasSession, Places
  <1> QED
    BY <1>7, <1>8, <1>9, <1>10 DEF WidgetInv

LEMMA WidgetInvIsSound ==
    ASSUME WidgetInv
    PROVE  /\ Widget!Verified /\ Widget!AnswerForShown /\ Widget!AttemptsBounded
           /\ Widget!CountdownHasSession
  <1>1. Widget!Verified
    BY DEF WidgetInv, OneValidation, Widget!Verified
  <1>2. Widget!AttemptsBounded
    <2>1. state.attempts \in Nat /\ Cardinality(Validating) \in Nat
      <3>1. Validating \in SUBSET Places
        BY DEF Validating
      <3> QED
        BY <3>1, ValidatingCount DEF WidgetInv, WidgetTypeOK, States
    <2>2. CASE kind = "vanilla"
      BY <2>1, <2>2, VisitorsAssumption DEF WidgetInv, AttemptsCounted, Widget!AttemptsBounded
    <2>3. CASE kind # "vanilla"
      BY <2>1, <2>3, VisitorsAssumption DEF WidgetInv, OneValidation, Widget!AttemptsBounded
    <2> QED
      BY <2>2, <2>3
  <1> QED
    BY <1>1, <1>2 DEF WidgetInv

LEMMA SettledMeans ==
    ASSUME WidgetInv, Widget!Settled, kind # "vanilla"
    PROVE  Validating = {}
  BY DEF Widget!Settled, Widget!Out, Validating, Places

\* A challenge is asked for, of the state or of a new one.
LEMMA AskedKeeps ==
    ASSUME WidgetInv, Widget!Settled, NEW s \in {state, Widget!NoState}, NEW updates \in BOOLEAN,
           kind = "vanilla" => updates,
           Widget!Asked(s, updates), ui' \in Faces, kind # "angular" => ui'.session = s.session,
           timer' = FALSE \/ (timer' = timer /\ s = state)
    PROVE  WidgetInv'
  <1> DEFINE new == [op |-> "generate", session |-> 0, shown |-> 0, updates |-> updates]
  <1>1. /\ Widget!Call(new) /\ state' = [s EXCEPT !.loading = TRUE]
        /\ UNCHANGED <<kind, mounted, generated, passed>>
    BY DEF Widget!Asked
  <1>2. new \in CallRecords /\ new.op = "generate" /\ new.updates = updates
    BY DEF CallRecords
  <1> HIDE DEF new
  <1>3. PICK i \in Places : /\ calls[i].op = "none" /\ calls' \in [Places -> CallRecords]
                            /\ calls'[i] = new
                            /\ \A j \in Places : j # i => calls'[j] = calls[j]
    BY <1>1, <1>2, CallPlaced
  <1>4. /\ WidgetTypeOK /\ s \in States /\ s \in {state, Widget!NoState}
        /\ timer \in BOOLEAN /\ state \in States
    BY NoStateType DEF WidgetInv, WidgetTypeOK
  <1>5. /\ state' \in States /\ state'.session = s.session /\ state'.validated = s.validated
        /\ state'.attempts = s.attempts
    BY <1>1, <1>4, LoadingSet
  <1>6. Validating' = Validating /\ i \notin Validating
    BY <1>2, <1>3 DEF Validating, Places
  <1>7. \A j \in Validating : calls'[j] = calls[j]
    BY <1>3, <1>6 DEF Validating
  <1>8. WidgetTypeOK'
    BY <1>1, <1>3, <1>4, <1>5 DEF WidgetTypeOK, States, Faces, CallRecords, Places
  <1>9. OnScreen'
    BY <1>1, <1>5 DEF OnScreen
  <1>10. VanillaUpdates'
    BY <1>1, <1>2, <1>3 DEF WidgetInv, VanillaUpdates, Places
  <1>11. OneValidation'
    <2>1. ASSUME kind # "vanilla" PROVE Validating = {}
      BY <2>1, SettledMeans
    <2>2. ASSUME kind # "vanilla"
          PROVE  s.attempts <= MaxAttempts /\ (s.validated => s.session \in passed)
      BY <1>4, <2>2, NoStateType, VisitorsAssumption DEF WidgetInv, OneValidation
    <2> QED
      BY <1>1, <1>5, <1>6, <2>1, <2>2 DEF OneValidation
  <1>12. AttemptsCounted'
    <2> SUFFICES ASSUME kind = "vanilla"
                 PROVE  s.attempts + Cardinality(Validating) <= MaxAttempts + MaxCalls - 1
      BY <1>1, <1>5, <1>6 DEF AttemptsCounted
    <2>1. Validating \in SUBSET Places
      BY DEF Validating
    <2>2. Cardinality(Validating) \in Nat /\ Cardinality(Validating) <= MaxCalls - 1
      BY <1>3, <1>6, <2>1, ValidatingCount
    <2>3. CASE s = state
      BY <2>3 DEF WidgetInv, AttemptsCounted
    <2>4. CASE s.attempts = 0
      BY <2>2, <2>4, VisitorsAssumption
    <2> QED
      BY <1>4, <2>3, <2>4, NoStateType
  <1>13. Widget!AnswerForShown'
    BY <1>1, <1>2, <1>3 DEF WidgetInv, Widget!AnswerForShown, Places
  <1>14. Widget!CountdownHasSession'
    <2> SUFFICES ASSUME timer'
                 PROVE  state'.session # 0 /\ (kind = "react" => mounted /\ ~state'.validated)
      BY <1>1 DEF Widget!CountdownHasSession
    <2>1. timer /\ s = state
      OBVIOUS
    <2> QED
      BY <1>5, <2>1 DEF WidgetInv, Widget!CountdownHasSession
  <1> QED
    BY <1>8, <1>9, <1>10, <1>11, <1>12, <1>13, <1>14 DEF WidgetInv

LEMMA GenerateKeeps == WidgetInv /\ Widget!Generate => WidgetInv'
  <1> SUFFICES ASSUME WidgetInv, Widget!Generate PROVE WidgetInv'
    OBVIOUS
  <1>1. /\ Widget!Settled /\ Widget!Asked(state, TRUE) /\ ui' = Widget!Rendered(state', FALSE)
        /\ timer' = timer
    BY DEF Widget!Generate
  <1>2. state' \in States /\ state'.session = state.session
    <2>1. state' = [state EXCEPT !.loading = TRUE] /\ state \in States
      BY <1>1 DEF Widget!Asked, WidgetInv, WidgetTypeOK
    <2> QED
      BY <2>1, LoadingSet
  <1>3. ui' \in Faces /\ (kind # "angular" => ui'.session = state.session)
    BY <1>1, <1>2, RenderedType
  <1> QED
    BY <1>1, <1>3, AskedKeeps

LEMMA ResetKeeps ==
    ASSUME WidgetInv, Widget!Refresh \/ Widget!TypeChange
    PROVE  WidgetInv'
  <1> DEFINE none == Widget!NoState
  <1>1. /\ Widget!Settled /\ timer' = FALSE
        /\ Widget!Asked(none, kind # "angular") \/ Widget!Asked(none, TRUE)
    <2>1. ASSUME Widget!Refresh PROVE Widget!Settled /\ timer' = FALSE /\ Widget!Asked(none, TRUE)
      BY <2>1, Zenon DEF Widget!Refresh
    <2>2. ASSUME Widget!TypeChange
          PROVE  Widget!Settled /\ timer' = FALSE /\ Widget!Asked(none, kind # "angular")
      BY <2>2, Zenon DEF Widget!TypeChange
    <2> QED
      BY <2>1, <2>2, Zenon
  <1>2. /\ state' = [none EXCEPT !.loading = TRUE]
        /\ \E updated \in BOOLEAN :
              ui' = IF kind = "vanilla" THEN Widget!Face(none) ELSE Widget!Rendered(state', updated)
    BY DEF Widget!Refresh, Widget!TypeChange, Widget!Asked
  <1>3. state' \in States /\ state'.session = 0 /\ none \in States /\ none.session = 0
    BY <1>2, LoadingSet, NoStateType
  <1>4. Widget!Face(none) \in Faces /\ Widget!Face(none).session = 0
    BY <1>3, FaceType
  <1>5. PICK updated \in BOOLEAN :
           ui' = IF kind = "vanilla" THEN Widget!Face(none) ELSE Widget!Rendered(state', updated)
    BY <1>2
  <1>6. /\ Widget!Rendered(state', updated) \in Faces
        /\ kind # "angular" /\ kind # "vanilla" => Widget!Rendered(state', updated).session = 0
    BY <1>3, RenderedType
  <1>7. ui' \in Faces /\ (kind # "angular" => ui'.session = none.session)
    BY <1>3, <1>4, <1>5, <1>6
  <1>8. CASE Widget!Asked(none, kind # "angular")
    <2>1. (kind # "angular") \in BOOLEAN /\ (kind = "vanilla" => (kind # "angular"))
      OBVIOUS
    <2> QED
      BY <1>1, <1>7, <1>8, <2>1, AskedKeeps
  <1>9. CASE Widget!Asked(none, TRUE)
    BY <1>1, <1>7, <1>9, AskedKeeps
  <1> QED
    BY <1>1, <1>8, <1>9

\* The answer is for the session on the screen, which is the state's.
LEMMA VerifyKeeps ==
    ASSUME WidgetInv, Widget!Verify
    PROVE  WidgetInv'
  <1> DEFINE new == [op |-> "validate", session |-> state.session, shown |-> ui.session,
                     updates |-> TRUE]
  <1>1. /\ Widget!Settled /\ state.attempts < MaxAttempts /\ Widget!Call(new)
        /\ state' = [state EXCEPT !.loading = TRUE] /\ ui' = Widget!Rendered(state', FALSE)
        /\ UNCHANGED <<kind, mounted, timer, generated, passed>>
    BY DEF Widget!Verify, Widget!CanVerify, Widget!Open
  <1>2. WidgetTypeOK /\ state \in States /\ ui \in Faces
    BY DEF WidgetInv, WidgetTypeOK
  <1>3. /\ new \in CallRecords /\ new.op = "validate" /\ new.updates = TRUE
        /\ new.session = state.session /\ new.shown = ui.session
    BY <1>2 DEF CallRecords, States, Faces
  <1> HIDE DEF new
  <1>4. PICK i \in Places : /\ calls[i].op = "none" /\ calls' \in [Places -> CallRecords]
                            /\ calls'[i] = new
                            /\ \A j \in Places : j # i => calls'[j] = calls[j]
    BY <1>1, <1>3, CallPlaced
  <1>5. /\ state' \in States /\ state'.session = state.session
        /\ state'.validated = state.validated /\ state'.attempts = state.attempts
    BY <1>1, <1>2, LoadingSet
  <1>6. Validating' = Validating \cup {i} /\ i \notin Validating
    BY <1>3, <1>4 DEF Validating, Places
  <1>7. ui' \in Faces /\ (kind # "angular" => ui'.session = state.session)
    BY <1>1, <1>5, RenderedType
  <1>8. WidgetTypeOK'
    BY <1>1, <1>2, <1>4, <1>5, <1>7 DEF WidgetTypeOK, States, Faces, CallRecords, Places
  <1>9. OnScreen'
    BY <1>1, <1>5, <1>7 DEF OnScreen
  <1>10. VanillaUpdates'
    BY <1>1, <1>3, <1>4 DEF WidgetInv, VanillaUpdates, Places
  <1>11. OneValidation'
    <2> SUFFICES ASSUME kind # "vanilla" PROVE OneValidation'
      BY <1>1 DEF OneValidation
    <2>1. Validating' = {i}
      BY <1>1, <1>6, SettledMeans
    <2>2. calls'[i].session = state'.session /\ state'.attempts < MaxAttempts
      BY <1>1, <1>3, <1>4, <1>5
    <2>3. state.attempts <= MaxAttempts /\ (state.validated => state.session \in passed)
      BY DEF WidgetInv, OneValidation
    <2> QED
      BY <1>1, <1>5, <2>1, <2>2, <2>3 DEF OneValidation
  <1>12. AttemptsCounted'
    <2>1. Validating' \in SUBSET Places
      BY <1>6 DEF Validating
    <2>2. Cardinality(Validating') \in Nat /\ Cardinality(Validating') <= MaxCalls
      BY <2>1, ValidatingCount
    <2>3. state.attempts \in Nat /\ state.attempts <= MaxAttempts - 1
      BY <1>1, <1>2, VisitorsAssumption DEF States
    <2> DEFINE c == Cardinality(Validating')
               a == state.attempts
    <2>4. a + c <= MaxAttempts + MaxCalls - 1
      <3> HIDE DEF a, c
      <3>1. c \in Nat /\ c <= MaxCalls /\ a \in Nat /\ a <= MaxAttempts - 1
        BY <2>2, <2>3 DEF a, c
      <3> QED
        BY <3>1, VisitorsAssumption
    <2> QED
      BY <1>1, <1>5, <2>4 DEF AttemptsCounted
  <1>13. Widget!AnswerForShown'
    <2>1. kind # "angular" => new.session = new.shown
      BY <1>3 DEF WidgetInv, OnScreen
    <2> QED
      BY <1>1, <1>4, <2>1 DEF WidgetInv, Widget!AnswerForShown, Places
  <1>14. Widget!CountdownHasSession'
    BY <1>1, <1>5 DEF WidgetInv, Widget!CountdownHasSession
  <1> QED
    BY <1>8, <1>9, <1>10, <1>11, <1>12, <1>13, <1>14 DEF WidgetInv

LEMMA VerifyRefusedKeeps ==
    ASSUME WidgetInv, Widget!VerifyRefused
    PROVE  WidgetInv'
  <1>1. ui' = Widget!Rendered(state, kind = "angular")
        /\ UNCHANGED <<kind, mounted, state, timer, calls, generated, passed>>
    BY DEF Widget!VerifyRefused
  <1>2. WidgetTypeOK /\ state \in States /\ (kind = "angular") \in BOOLEAN
    BY DEF WidgetInv, WidgetTypeOK
  <1>3. ui' \in Faces /\ (kind # "angular" => ui'.session = state.session)
    BY <1>1, <1>2, RenderedType
  <1>4. WidgetTypeOK' /\ OnScreen'
    BY <1>1, <1>2, <1>3 DEF WidgetTypeOK, OnScreen, CallRecords
  <1>5. Validating' = Validating
    BY <1>1 DEF Validating
  <1>6. VanillaUpdates' /\ OneValidation' /\ AttemptsCounted'
    BY <1>1, <1>5 DEF WidgetInv, VanillaUpdates, OneValidation, AttemptsCounted
  <1>7. Widget!AnswerForShown' /\ Widget!CountdownHasSession'
    BY <1>1 DEF WidgetInv, Widget!AnswerForShown, Widget!CountdownHasSession
  <1> QED
    BY <1>4, <1>6, <1>7 DEF WidgetInv

\* A call has returned; what it does to the state, the screen and the timer.
LEMMA SetMeans ==
    ASSUME WidgetInv, NEW s \in States, NEW updates \in BOOLEAN, NEW byHand \in BOOLEAN,
           Widget!Set(s, updates, byHand), kind = "vanilla" => updates,
           kind = "react" /\ mounted /\ byHand => s.session # 0
    PROVE  /\ state' \in {s, state} /\ (kind # "react" => state' = s)
           /\ ui' \in Faces /\ (kind # "angular" => ui'.session = state'.session)
           /\ timer' \in BOOLEAN /\ (kind = "vanilla" => ~timer')
           /\ kind = "react" =>
                 (timer' => mounted /\ state'.session # 0 /\ ~state'.validated)
           /\ kind # "react" /\ timer' => byHand
  <1>1. Widget!Rendered(s, updates) \in Faces
        /\ (kind # "angular" => Widget!Rendered(s, updates).session = s.session)
    BY RenderedType
  <1>2. ui \in Faces /\ (kind # "angular" => ui.session = state.session) /\ mounted \in BOOLEAN
        /\ kind \in {"react", "vue", "angular", "svelte", "vanilla"}
    BY VisitorsAssumption DEF WidgetInv, WidgetTypeOK, OnScreen
  <1>3. CASE Widget!Listening
    <2>1. /\ state' = s /\ ui' = Widget!Rendered(s, updates)
          /\ timer' = (Widget!Listening /\ Widget!TimerIn(s, byHand))
      BY <1>3, Zenon DEF Widget!Set
    <2>2. CASE kind = "react"
      BY <1>1, <1>2, <1>3, <2>1, <2>2 DEF Widget!TimerIn
    <2>3. CASE kind = "vanilla"
      BY <1>1, <1>2, <1>3, <2>1, <2>3 DEF Widget!TimerIn
    <2>4. CASE kind \notin {"react", "vanilla"}
      BY <1>1, <1>2, <1>3, <2>1, <2>4 DEF Widget!TimerIn
    <2> QED
      BY <2>2, <2>3, <2>4
  <1>4. CASE ~Widget!Listening
    <2>1. state' = state /\ ui' = ui /\ timer' = FALSE
      BY <1>4 DEF Widget!Set
    <2>2. kind = "react"
      BY <1>4 DEF Widget!Listening
    <2> QED
      BY <1>2, <2>1, <2>2
  <1> QED
    BY <1>3, <1>4

\* What every return keeps.
LEMMA ReturnedKeeps ==
    ASSUME WidgetInv, NEW i \in Places, calls' = [calls EXCEPT ![i] = Widget!NoCall],
           UNCHANGED <<kind, mounted>>, state' \in States, ui' \in Faces, timer' \in BOOLEAN,
           generated' \in Nat, kind # "angular" => ui'.session = state'.session,
           kind = "vanilla" => ~timer'
    PROVE  /\ WidgetTypeOK' /\ OnScreen' /\ VanillaUpdates' /\ Widget!AnswerForShown'
           /\ Validating' = Validating \ {i} /\ \A j \in Validating' : calls'[j] = calls[j]
  <1>1. /\ Widget!NoCall \in CallRecords /\ Widget!NoCall.op = "none" /\ Widget!NoCall.updates
    BY DEF Widget!NoCall, CallRecords
  <1>2. /\ WidgetTypeOK /\ calls \in [Places -> CallRecords]
    BY DEF WidgetInv, WidgetTypeOK
  <1>3. /\ calls' \in [Places -> CallRecords] /\ calls'[i] = Widget!NoCall
        /\ \A j \in Places : j # i => calls'[j] = calls[j]
    BY <1>1, <1>2
  <1>4. Validating' = Validating \ {i}
    BY <1>1, <1>3 DEF Validating
  <1>5. \A j \in Validating' : calls'[j] = calls[j]
    BY <1>3, <1>4 DEF Validating
  <1>6. WidgetTypeOK' /\ OnScreen'
    BY <1>2, <1>3 DEF WidgetTypeOK, OnScreen, States, Faces, CallRecords, Places
  <1>7. VanillaUpdates'
    BY <1>1, <1>3 DEF WidgetInv, VanillaUpdates
  <1>8. Widget!AnswerForShown'
    BY <1>1, <1>3 DEF WidgetInv, Widget!AnswerForShown, Places
  <1> QED
    BY <1>4, <1>5, <1>6, <1>7, <1>8

\* A challenge arrives, or does not; no validation of a local service is out.
LEMMA GenerationReturns ==
    ASSUME WidgetInv, NEW i \in Places, calls' = [calls EXCEPT ![i] = Widget!NoCall],
           UNCHANGED <<kind, mounted>>, Widget!GenerateReturns(i) \/ Widget!GenerateFails(i)
    PROVE  WidgetInv'
  <1> DEFINE u == calls[i].updates
  <1>1. /\ WidgetTypeOK /\ state \in States /\ u \in BOOLEAN /\ (kind = "vanilla" => u)
        /\ calls[i].op = "generate" /\ timer \in BOOLEAN /\ generated \in Nat
        /\ kind \in {"react", "vue", "angular", "svelte", "vanilla"}
    BY VisitorsAssumption
    DEF WidgetInv, WidgetTypeOK, VanillaUpdates, CallRecords, Widget!GenerateReturns, Widget!GenerateFails
  <1>2. Widget!Settled /\ i \notin Validating /\ passed' = passed
    BY <1>1 DEF Widget!GenerateReturns, Widget!GenerateFails, Validating
  <1>3. PICK s \in States, byHand \in BOOLEAN :
          /\ Widget!Set(s, u, byHand) /\ generated' \in Nat
          /\ (byHand => s.session # 0)
          /\ \/ s.session = state.session /\ s.validated = state.validated /\ s.attempts = state.attempts
             \/ ~s.validated /\ s.attempts = 0
    <2>1. CASE Widget!GenerateReturns(i)
      <3>1. Widget!Set(Widget!Fresh(generated + 1), u, TRUE) /\ generated' = generated + 1
        BY <2>1, Zenon DEF Widget!GenerateReturns
      <3>2. /\ Widget!Fresh(generated + 1) \in States /\ ~Widget!Fresh(generated + 1).validated
            /\ Widget!Fresh(generated + 1).attempts = 0 /\ Widget!Fresh(generated + 1).session # 0
        BY <1>1, FreshType
      <3> DEFINE t == Widget!Fresh(generated + 1)
      <3>3. t \in States /\ TRUE \in BOOLEAN /\ Widget!Set(t, u, TRUE) /\ t.session # 0
        BY <3>1, <3>2
      <3>4. generated' \in Nat /\ ~t.validated /\ t.attempts = 0
        BY <1>1, <3>1, <3>2
      <3> HIDE DEF t, u
      <3> QED
        BY <3>3, <3>4, Zenon
    <2>2. CASE Widget!GenerateFails(i)
      <3> DEFINE t == [state EXCEPT !.loading = FALSE]
      <3>1. Widget!Set(t, u, timer) /\ generated' = generated
        BY <2>2, Zenon DEF Widget!GenerateFails
      <3>2. /\ t \in States /\ t.session = state.session /\ t.validated = state.validated
            /\ t.attempts = state.attempts
        BY <1>1, LoadingSet
      <3>3. timer => state.session # 0
        BY DEF WidgetInv, Widget!CountdownHasSession
      <3> HIDE DEF t, u
      <3> QED
        BY <1>1, <3>1, <3>2, <3>3
    <2> QED
      BY <2>1, <2>2
  <1> HIDE DEF u
  <1>4. /\ state' \in {s, state} /\ (kind # "react" => state' = s)
        /\ ui' \in Faces /\ (kind # "angular" => ui'.session = state'.session)
        /\ timer' \in BOOLEAN /\ (kind = "vanilla" => ~timer')
        /\ kind = "react" => (timer' => mounted /\ state'.session # 0 /\ ~state'.validated)
        /\ (kind # "react" /\ timer') => byHand
    BY <1>1, <1>3, SetMeans
  <1>5. /\ WidgetTypeOK' /\ OnScreen' /\ VanillaUpdates' /\ Widget!AnswerForShown'
        /\ Validating' = Validating
    BY <1>1, <1>2, <1>3, <1>4, ReturnedKeeps
  <1>6. \/ state'.session = state.session /\ state'.validated = state.validated
           /\ state'.attempts = state.attempts
        \/ ~state'.validated /\ state'.attempts = 0
    BY <1>3, <1>4
  <1>7. OneValidation'
    <2> SUFFICES ASSUME kind # "vanilla" PROVE OneValidation'
      BY DEF OneValidation
    <2>1. Validating' = {}
      BY <1>2, <1>5, SettledMeans
    <2>2. state'.attempts <= MaxAttempts /\ (state'.validated => state'.session \in passed)
      BY <1>6, VisitorsAssumption DEF WidgetInv, OneValidation
    <2> QED
      BY <1>2, <2>1, <2>2 DEF OneValidation
  <1>8. AttemptsCounted'
    <2> SUFFICES ASSUME kind = "vanilla"
                 PROVE  state'.attempts + Cardinality(Validating) <= MaxAttempts + MaxCalls - 1
      BY <1>5 DEF AttemptsCounted
    <2>1. Validating \in SUBSET Places
      BY DEF Validating
    <2>2. Cardinality(Validating) \in Nat /\ Cardinality(Validating) <= MaxCalls - 1
      BY <1>2, <2>1, ValidatingCount
    <2>3. CASE state'.attempts = state.attempts
      BY <2>3 DEF WidgetInv, AttemptsCounted
    <2>4. CASE state'.attempts = 0
      BY <2>2, <2>4, VisitorsAssumption
    <2> QED
      BY <1>6, <2>3, <2>4
  <1>9. Widget!CountdownHasSession'
    BY <1>3, <1>4 DEF Widget!CountdownHasSession
  <1> QED
    BY <1>5, <1>7, <1>8, <1>9 DEF WidgetInv

\* The attempt is counted; of a local service it was the only one out.
LEMMA ValidationReturns ==
    ASSUME WidgetInv, NEW i \in Places, calls' = [calls EXCEPT ![i] = Widget!NoCall],
           UNCHANGED <<kind, mounted>>, Widget!ValidateReturns(i) \/ Widget!ValidateFails(i)
    PROVE  WidgetInv'
  <1> DEFINE u == calls[i].updates
  <1>1. /\ WidgetTypeOK /\ state \in States /\ u \in BOOLEAN /\ (kind = "vanilla" => u)
        /\ i \in Validating /\ timer \in BOOLEAN /\ generated' \in Nat
        /\ kind \in {"react", "vue", "angular", "svelte", "vanilla"}
    <2>1. calls[i].op = "validate" /\ generated' = generated
      <3>1. CASE Widget!ValidateReturns(i)
        BY <3>1, Zenon DEF Widget!ValidateReturns
      <3>2. CASE Widget!ValidateFails(i)
        BY <3>2, Zenon DEF Widget!ValidateFails
      <3> QED
        BY <3>1, <3>2
    <2> QED
      BY <2>1, VisitorsAssumption DEF WidgetInv, WidgetTypeOK, VanillaUpdates, CallRecords, Validating
  <1>2. PICK s \in States :
          /\ Widget!Set(s, u, timer) /\ s.session = state.session
          /\ s.attempts = state.attempts + 1 /\ passed \subseteq passed'
          /\ s.validated => state.validated \/ calls[i].session \in passed'
    <2>1. CASE Widget!ValidateReturns(i)
      <3>1. PICK valid \in BOOLEAN :
              /\ Widget!Set([state EXCEPT !.loading = FALSE, !.validated = valid, !.attempts = @ + 1],
                            u, timer)
              /\ passed' = IF valid THEN passed \cup {calls[i].session} ELSE passed
        BY <2>1, Zenon DEF Widget!ValidateReturns
      <3> DEFINE t == [state EXCEPT !.loading = FALSE, !.validated = valid, !.attempts = @ + 1]
      <3>2. /\ t \in States /\ t.session = state.session /\ t.validated = valid
            /\ t.attempts = state.attempts + 1
        BY <1>1, VerdictSet, Zenon
      <3>3. Widget!Set(t, u, timer)
        BY <3>1, Zenon
      <3> HIDE DEF t, u
      <3> QED
        BY <3>1, <3>2, <3>3
    <2>2. CASE Widget!ValidateFails(i)
      <3> DEFINE t == [state EXCEPT !.loading = FALSE, !.attempts = @ + 1]
      <3>1. /\ t \in States /\ t.session = state.session /\ t.validated = state.validated
            /\ t.attempts = state.attempts + 1
        BY <1>1, FailureSet, Zenon
      <3>2. Widget!Set(t, u, timer) /\ passed' = passed
        BY <2>2, Zenon DEF Widget!ValidateFails
      <3> HIDE DEF t, u
      <3> QED
        BY <3>1, <3>2
    <2> QED
      BY <2>1, <2>2
  <1> HIDE DEF u
  <1>3. timer => state.session # 0
    BY DEF WidgetInv, Widget!CountdownHasSession
  <1>4. /\ state' \in {s, state} /\ (kind # "react" => state' = s)
        /\ ui' \in Faces /\ (kind # "angular" => ui'.session = state'.session)
        /\ timer' \in BOOLEAN /\ (kind = "vanilla" => ~timer')
        /\ kind = "react" => (timer' => mounted /\ state'.session # 0 /\ ~state'.validated)
        /\ (kind # "react" /\ timer') => timer
    BY <1>1, <1>2, <1>3, SetMeans
  <1>5. /\ WidgetTypeOK' /\ OnScreen' /\ VanillaUpdates' /\ Widget!AnswerForShown'
        /\ Validating' = Validating \ {i}
    BY <1>1, <1>2, <1>4, ReturnedKeeps
  <1>6. OneValidation'
    <2> SUFFICES ASSUME kind # "vanilla" PROVE OneValidation'
      BY DEF OneValidation
    <2>1. /\ calls[i].session = state.session /\ state.attempts < MaxAttempts
          /\ \A j \in Validating : j = i /\ (state.validated => state.session \in passed)
      BY <1>1 DEF WidgetInv, OneValidation
    <2>2. Validating' = {}
      BY <1>5, <2>1
    <2>3. state'.attempts <= MaxAttempts
      BY <1>1, <1>2, <1>4, <2>1, VisitorsAssumption DEF States
    <2>4. state'.validated => state'.session \in passed'
      BY <1>1, <1>2, <1>4, <2>1
    <2> QED
      BY <2>2, <2>3, <2>4 DEF OneValidation
  <1>7. AttemptsCounted'
    <2> SUFFICES ASSUME kind = "vanilla"
                 PROVE  state'.attempts + Cardinality(Validating') <= MaxAttempts + MaxCalls - 1
      BY DEF AttemptsCounted
    <2>1. Validating \in SUBSET Places
      BY DEF Validating
    <2>2. Cardinality(Validating) \in Nat /\ Cardinality(Validating') = Cardinality(Validating) - 1
      BY <1>1, <1>5, <2>1, ValidatingCount
    <2>3. state'.attempts = state.attempts + 1 /\ state.attempts \in Nat
      BY <1>1, <1>2, <1>4 DEF States
    <2>4. state.attempts + Cardinality(Validating) <= MaxAttempts + MaxCalls - 1
      BY DEF WidgetInv, AttemptsCounted
    <2> QED
      BY <2>2, <2>3, <2>4
  <1>8. Widget!CountdownHasSession'
    BY <1>2, <1>3, <1>4 DEF Widget!CountdownHasSession
  <1> QED
    BY <1>5, <1>6, <1>7, <1>8 DEF WidgetInv

LEMMA ReturnsKeeps ==
    ASSUME WidgetInv, NEW i \in Places, Widget!Returns(i)
    PROVE  WidgetInv'
  <1>1. /\ calls' = [calls EXCEPT ![i] = Widget!NoCall] /\ UNCHANGED <<kind, mounted>>
        /\ \/ Widget!GenerateReturns(i) \/ Widget!GenerateFails(i)
           \/ Widget!ValidateReturns(i) \/ Widget!ValidateFails(i)
    BY DEF Widget!Returns
  <1> QED
    BY <1>1, GenerationReturns, ValidationReturns

LEMMA TickKeeps == WidgetInv /\ Widget!Tick => WidgetInv'
  <1> SUFFICES ASSUME WidgetInv, Widget!Tick PROVE WidgetInv'
    OBVIOUS
  <1>1. timer /\ Widget!Settled /\ ui' = Widget!Rendered(state', FALSE) /\ timer' = timer
    BY DEF Widget!Tick
  <1>2. WidgetTypeOK /\ state \in States /\ kind # "vanilla"
    BY <1>1 DEF WidgetInv, WidgetTypeOK, VanillaUpdates
  <1>3. CASE Widget!Asked(state, FALSE)
    <2>1. state' \in States /\ state'.session = state.session
      BY <1>2, <1>3, LoadingSet DEF Widget!Asked
    <2>2. ui' \in Faces /\ (kind # "angular" => ui'.session = state.session)
      BY <1>1, <1>2, <2>1, RenderedType
    <2> QED
      BY <1>1, <1>2, <1>3, <2>2, AskedKeeps
  <1>4. CASE /\ state.expiresIn > 0 /\ state' = [state EXCEPT !.expiresIn = @ - 1]
             /\ UNCHANGED <<kind, mounted, calls, generated, passed>>
    <2>1. /\ state' \in States /\ state'.session = state.session
          /\ state'.validated = state.validated /\ state'.attempts = state.attempts
      BY <1>2, <1>4, CountedDown
    <2>2. ui' \in Faces /\ (kind # "angular" => ui'.session = state.session)
      BY <1>1, <1>2, <2>1, RenderedType
    <2>3. Validating' = Validating
      BY <1>4 DEF Validating
    <2>4. WidgetTypeOK' /\ OnScreen' /\ VanillaUpdates'
      BY <1>1, <1>2, <1>4, <2>1, <2>2
      DEF WidgetTypeOK, OnScreen, VanillaUpdates, CallRecords, States, Faces
    <2>5. OneValidation' /\ AttemptsCounted'
      BY <1>2, <1>4, <2>1, <2>3 DEF WidgetInv, OneValidation, AttemptsCounted
    <2>6. Widget!AnswerForShown' /\ Widget!CountdownHasSession'
      BY <1>1, <1>4, <2>1 DEF WidgetInv, Widget!AnswerForShown, Widget!CountdownHasSession
    <2> QED
      BY <2>4, <2>5, <2>6 DEF WidgetInv
  <1> QED
    BY <1>3, <1>4 DEF Widget!Tick

LEMMA UnmountKeeps == WidgetInv /\ Widget!Unmount => WidgetInv'
  <1> SUFFICES ASSUME WidgetInv, Widget!Unmount PROVE WidgetInv'
    OBVIOUS
  <1>1. /\ Widget!Settled /\ ~mounted' /\ mounted' \in BOOLEAN
        /\ timer' = (timer /\ kind = "angular")
        /\ state' = IF kind = "svelte" THEN Widget!NoState ELSE state
        /\ ui' = Widget!Rendered(state', FALSE)
        /\ UNCHANGED <<kind, calls, generated, passed>>
    BY DEF Widget!Unmount
  <1>2. WidgetTypeOK /\ state \in States /\ timer \in BOOLEAN
    BY DEF WidgetInv, WidgetTypeOK
  <1>3. state' \in States /\ (state' = state \/ kind = "svelte")
    BY <1>1, <1>2, NoStateType
  <1>4. ui' \in Faces /\ (kind # "angular" => ui'.session = state'.session)
    BY <1>1, <1>3, RenderedType
  <1>5. Validating' = Validating
    BY <1>1 DEF Validating
  <1>6. WidgetTypeOK' /\ OnScreen' /\ VanillaUpdates'
    BY <1>1, <1>2, <1>3, <1>4
    DEF WidgetInv, WidgetTypeOK, OnScreen, VanillaUpdates, CallRecords, States, Faces
  <1>7. OneValidation'
    <2> SUFFICES ASSUME kind # "vanilla" PROVE OneValidation'
      BY <1>1 DEF OneValidation
    <2>1. Validating' = {}
      BY <1>1, <1>5, SettledMeans
    <2>2. state'.attempts <= MaxAttempts /\ (state'.validated => state'.session \in passed)
      BY <1>1, NoStateType, VisitorsAssumption DEF WidgetInv, OneValidation
    <2> QED
      BY <1>1, <2>1, <2>2 DEF OneValidation
  <1>8. AttemptsCounted' /\ Widget!AnswerForShown'
    BY <1>1, <1>3, <1>5 DEF WidgetInv, AttemptsCounted, Widget!AnswerForShown
  <1>9. Widget!CountdownHasSession'
    BY <1>1, <1>3 DEF WidgetInv, Widget!CountdownHasSession
  <1> QED
    BY <1>6, <1>7, <1>8, <1>9 DEF WidgetInv

LEMMA WidgetRests ==
    ASSUME WidgetInv, UNCHANGED widgetVars
    PROVE  WidgetInv'
  <1>1. UNCHANGED <<kind, mounted, state, ui, timer, calls, generated, passed>>
    BY DEF widgetVars
  <1>2. Validating' = Validating
    BY <1>1 DEF Validating
  <1>3. WidgetTypeOK' /\ OnScreen' /\ VanillaUpdates'
    BY <1>1 DEF WidgetInv, WidgetTypeOK, OnScreen, VanillaUpdates
  <1>4. OneValidation' /\ AttemptsCounted'
    BY <1>1, <1>2 DEF WidgetInv, OneValidation, AttemptsCounted
  <1>5. Widget!AnswerForShown' /\ Widget!CountdownHasSession'
    BY <1>1 DEF WidgetInv, Widget!AnswerForShown, Widget!CountdownHasSession
  <1> QED
    BY <1>3, <1>4, <1>5 DEF WidgetInv

LEMMA WidgetStep ==
    ASSUME WidgetInv, Widget!Next
    PROVE  WidgetInv'
  <1>1. CASE Widget!Generate
    BY <1>1, GenerateKeeps
  <1>2. CASE Widget!Refresh \/ Widget!TypeChange
    BY <1>2, ResetKeeps
  <1>3. CASE Widget!Verify
    BY <1>3, VerifyKeeps
  <1>4. CASE Widget!VerifyRefused
    BY <1>4, VerifyRefusedKeeps
  <1>5. CASE \E i \in Places : Widget!Returns(i)
    BY <1>5, ReturnsKeeps
  <1>6. CASE Widget!Tick
    BY <1>6, TickKeeps
  <1>7. CASE Widget!Unmount
    BY <1>7, UnmountKeeps
  <1> QED
    BY <1>1, <1>2, <1>3, <1>4, <1>5, <1>6, <1>7 DEF Widget!Next, Places

\* What a widget shows as verified was verified, an answer is for the challenge the
\* visitor saw, the attempts are counted to their limit, and a countdown has a session.
THEOREM WidgetAlwaysSound == VisitorsSpec => []WidgetSound
  <1>1. VisitorsInit => WidgetInv
    BY InitWidget DEF VisitorsInit
  <1>2. WidgetInv /\ [VisitorsNext]_visitorsVars => WidgetInv'
    BY WidgetStep, WidgetRests DEF VisitorsNext, visitorsVars
  <1>3. WidgetInv => WidgetSound
    BY WidgetInvIsSound DEF WidgetSound
  <1> QED
    BY <1>1, <1>2, <1>3, PTL DEF VisitorsSpec

-----------------------------------------------------------------------------
(* CaptchaPlugins.  A session is spent by the request that found it valid; the     *)
(* request then waits for its handler, was served, or was told so.                *)

SessionRecords ==
    [at : Instances \cup {"nowhere"},
     status : {"none", "active", "overdue", "expired", "validated", "failed"}, attempts : Nat]
Asks == [op : {"generate", "validate", "protect"}, i : Instances, s : PluginSessions]

PluginTypeOK ==
    /\ sessions \in [PluginSessions -> SessionRecords]
    /\ request \in [PluginRequests -> {Plugin!NoRequest} \cup Asks]
    /\ at \in [PluginRequests -> {"idle", "generating", "passed", "done", "skipped"}]
    /\ told \in [PluginRequests -> Nat] /\ served \subseteq PluginRequests

Waiting(r) == at[r] \in {"idle", "generating", "passed"}

Coherent(r) ==
    /\ Waiting(r) => told[r] = 0 /\ r \notin served
    /\ at[r] # "idle" => request[r] \in Asks
    /\ at[r] = "generating" => request[r].op = "generate"
    /\ at[r] = "passed" => request[r].op = "protect"
    /\ r \in served => /\ at[r] = "done"
                       /\ told[r] \in {1, 200} \/ (told[r] = 500 /\ framework = "koa")

\* A session is not there while the request generates it, and no other generates it.
Reserved(r) ==
    at[r] = "generating" =>
        /\ sessions[request[r].s] = Plugin!NoSession
        /\ \A q \in PluginRequests :
              at[q] = "generating" /\ request[q].s = request[r].s => q = r

Spender(r) == at[r] = "passed" \/ r \in served \/ (request[r].op = "validate" /\ told[r] = 200)

Spent(r) ==
    Spender(r) =>
        /\ request[r] \in Asks
        /\ sessions[request[r].s].status = "validated"
        /\ sessions[request[r].s].at = request[r].i
        /\ \A q \in PluginRequests : Spender(q) /\ request[q].s = request[r].s => q = r

PluginInv ==
    /\ PluginTypeOK
    /\ \A r \in PluginRequests : Coherent(r)
    /\ \A r \in PluginRequests : Reserved(r)
    /\ \A r \in PluginRequests : Spent(r)

LEMMA InitPlugin ==
    ASSUME Plugin!Init
    PROVE  PluginInv
  <1>1. /\ sessions = [s \in PluginSessions |-> Plugin!NoSession]
        /\ request = [r \in PluginRequests |-> Plugin!NoRequest]
        /\ at = [r \in PluginRequests |-> "idle"] /\ told = [r \in PluginRequests |-> 0]
        /\ served = {}
    BY DEF Plugin!Init
  <1>2. Plugin!NoSession \in SessionRecords
    BY DEF Plugin!NoSession, Plugin!Nowhere, SessionRecords
  <1>3. PluginTypeOK
    BY <1>1, <1>2 DEF PluginTypeOK
  <1>4. \A r \in PluginRequests : at[r] = "idle" /\ told[r] = 0 /\ r \notin served
    BY <1>1
  <1> QED
    BY <1>3, <1>4 DEF PluginInv, Coherent, Waiting, Reserved, Spent, Spender

LEMMA PluginInvIsSound ==
    ASSUME PluginInv
    PROVE  Plugin!SpentOnce /\ Plugin!RefusedNotServed
  <1>1. served \subseteq PluginRequests
    BY DEF PluginInv, PluginTypeOK
  <1>2. Plugin!SpentOnce
    BY <1>1 DEF PluginInv, Spent, Spender, Plugin!SpentOnce
  <1>3. Plugin!RefusedNotServed
    BY <1>1 DEF PluginInv, Coherent, Plugin!RefusedNotServed
  <1> QED
    BY <1>2, <1>3

LEMMA StatusMeans ==
    ASSUME NEW v
    PROVE  /\ Plugin!StatusOf(v) \in Nat
           /\ Plugin!StatusOf(v) = 200 => v = "valid"
           /\ Plugin!StatusOf(v) = 404 => v = "not_found"
  BY DEF Plugin!StatusOf

LEMMA SessionSpent ==
    ASSUME NEW x \in SessionRecords
    PROVE  LET z == [x EXCEPT !.status = "validated", !.attempts = @ + 1]
           IN  z \in SessionRecords /\ z.status = "validated" /\ z.at = x.at
  <1> DEFINE y == [x EXCEPT !.status = "validated"]
             z == [y EXCEPT !.attempts = x.attempts + 1]
  <1>1. y \in SessionRecords /\ y.status = "validated" /\ y.at = x.at
    BY DEF SessionRecords
  <1>2. x.attempts + 1 \in Nat
    BY DEF SessionRecords
  <1> HIDE DEF y
  <1>3. z \in SessionRecords /\ z.status = "validated" /\ z.at = x.at
    BY <1>1, <1>2 DEF SessionRecords
  <1> QED
    BY <1>3 DEF y

\* The verdict of the service, and the session after it.
LEMMA VerdictMeans ==
    ASSUME NEW i \in Instances, NEW s \in PluginSessions, NEW right \in BOOLEAN,
           sessions \in [PluginSessions -> SessionRecords]
    PROVE  LET x == sessions[s]
               v == Plugin!Verdict(i, s, right)
               y == Plugin!SessionAfter(i, s, right)
           IN  /\ y \in SessionRecords
               /\ v = "valid" => /\ x.status # "validated" /\ x.at = i
                                 /\ y.status = "validated" /\ y.at = i
               /\ x.status = "validated" \/ x.at # i => y = x
               /\ Plugin!StatusOf(v) \in Nat
               /\ Plugin!StatusOf(v) = 200 => v = "valid"
               /\ Plugin!StatusOf(v) = 404 => x.at # i
  <1> DEFINE x == sessions[s]
             v == Plugin!Verdict(i, s, right)
             y == Plugin!SessionAfter(i, s, right)
  <1>1. x \in SessionRecords
    OBVIOUS
  <1>2. /\ v \in {"not_found", "expired", "inactive", "max_attempts", "valid", "incorrect"}
        /\ v = "not_found" <=> x.at # i
        /\ v = "valid" => x.status # "validated"
        /\ x.status = "validated" /\ x.at = i => v = "inactive"
    BY DEF Plugin!Verdict
  <1>3. y = CASE v = "expired" -> [x EXCEPT !.status = "expired"]
              [] v = "max_attempts" -> [x EXCEPT !.status = "failed"]
              [] v = "valid" -> [x EXCEPT !.status = "validated", !.attempts = @ + 1]
              [] v = "incorrect" -> [x EXCEPT !.attempts = @ + 1]
              [] OTHER -> x
    BY Zenon DEF Plugin!SessionAfter
  <1>4. /\ Plugin!StatusOf(v) \in Nat
        /\ Plugin!StatusOf(v) = 200 => v = "valid"
        /\ Plugin!StatusOf(v) = 404 => v = "not_found"
    BY <1>2, StatusMeans
  <1> HIDE DEF x, v, y
  <1>5. LET z == [x EXCEPT !.status = "validated", !.attempts = @ + 1]
        IN  z \in SessionRecords /\ z.status = "validated" /\ z.at = x.at
    BY <1>1, SessionSpent, Zenon
  <1>6. /\ y \in SessionRecords
        /\ v = "valid" => x.status # "validated" /\ x.at = i /\ y.status = "validated" /\ y.at = i
        /\ x.status = "validated" \/ x.at # i => y = x
    <2>1. CASE v = "valid"
      BY <1>2, <1>3, <1>5, <2>1
    <2>2. CASE v = "expired"
      BY <1>1, <1>2, <1>3, <2>2 DEF SessionRecords
    <2>3. CASE v = "max_attempts"
      BY <1>1, <1>2, <1>3, <2>3 DEF SessionRecords
    <2>4. CASE v = "incorrect"
      BY <1>1, <1>2, <1>3, <2>4 DEF SessionRecords
    <2>5. CASE v \in {"not_found", "inactive"}
      BY <1>1, <1>2, <1>3, <2>5
    <2> QED
      BY <1>2, <2>1, <2>2, <2>3, <2>4, <2>5
  <1> QED
    BY <1>2, <1>4, <1>6 DEF x, v, y

\* A step for one request: what the others have, and sessions that are spent, stay.
LEMMA RequestStep ==
    ASSUME PluginInv, PluginTypeOK', framework' = framework, NEW r \in PluginRequests,
           \A q \in PluginRequests \ {r} :
               /\ request'[q] = request[q] /\ at'[q] = at[q] /\ told'[q] = told[q]
               /\ q \in served' <=> q \in served,
           \A s \in PluginSessions :
               /\ sessions[s].status = "validated" => sessions'[s] = sessions[s]
               /\ \A q \in PluginRequests \ {r} :
                     at[q] = "generating" /\ request[q].s = s => sessions'[s] = sessions[s],
           Coherent(r)',
           at'[r] = "generating" =>
               /\ sessions'[request'[r].s] = Plugin!NoSession
               /\ \A q \in PluginRequests \ {r} :
                     at[q] = "generating" => request[q].s # request'[r].s,
           Spender(r)' =>
               /\ request'[r] \in Asks
               /\ sessions'[request'[r].s].status = "validated"
               /\ sessions'[request'[r].s].at = request'[r].i
               /\ \/ Spender(r) /\ request'[r] = request[r]
                  \/ sessions[request'[r].s].status # "validated",
           told[r] = 0 /\ told'[r] = 404 => sessions[request'[r].s].at # request'[r].i
    PROVE  /\ PluginInv'
           /\ \A q \in PluginRequests :
                 told[q] = 0 /\ told'[q] = 404 => sessions[request'[q].s].at # request'[q].i
  <1>1. \A q \in PluginRequests \ {r} : Spender(q)' <=> Spender(q)
    BY DEF Spender
  <1>2. \A q \in PluginRequests : Coherent(q)'
    BY DEF PluginInv, Coherent, Waiting
  <1>3. \A q \in PluginRequests : at[q] = "generating" => request[q].s \in PluginSessions
    BY DEF PluginInv, Coherent, Asks
  <1>4. \A q \in PluginRequests : Reserved(q)'
    BY <1>3 DEF PluginInv, Reserved
  <1>5. \A q \in PluginRequests : Spender(q) => request[q].s \in PluginSessions
    BY DEF PluginInv, Spent, Asks
  <1>6. ASSUME NEW q \in PluginRequests, q # r, Spender(q)'
        PROVE  /\ request'[q] = request[q] /\ request'[q] \in Asks
               /\ sessions'[request'[q].s] = sessions[request[q].s]
               /\ sessions'[request'[q].s].status = "validated"
               /\ sessions'[request'[q].s].at = request'[q].i
               /\ Spender(q) /\ (Spender(r)' => request'[q].s # request'[r].s)
    <2>1. Spender(q) /\ request'[q] = request[q]
      BY <1>1, <1>6
    <2>2. /\ request[q] \in Asks /\ sessions[request[q].s].status = "validated"
          /\ sessions[request[q].s].at = request[q].i
          /\ \A p \in PluginRequests : Spender(p) /\ request[p].s = request[q].s => p = q
      BY <2>1 DEF PluginInv, Spent
    <2>3. request[q].s \in PluginSessions
      BY <1>5, <2>1
    <2>4. sessions'[request[q].s] = sessions[request[q].s]
      BY <2>2, <2>3
    <2> QED
      BY <1>6, <2>1, <2>2, <2>4
  <1>7. \A q \in PluginRequests : Spent(q)'
    BY <1>1, <1>6 DEF PluginInv, Spent
  <1>8. PluginInv'
    BY <1>2, <1>4, <1>7 DEF PluginInv
  <1>9. ASSUME NEW q \in PluginRequests, told[q] = 0, told'[q] = 404
        PROVE  sessions[request'[q].s].at # request'[q].i
    <2>1. q = r
      BY <1>9
    <2> QED
      BY <1>9, <2>1
  <1> QED
    BY <1>8, <1>9

\* The request answers: the first answer stands, and the request is done.
LEMMA Answered ==
    ASSUME PluginInv, NEW r \in PluginRequests, Waiting(r), NEW status \in Nat,
           Plugin!Answer(r, status)
    PROVE  /\ at' \in [PluginRequests -> {"idle", "generating", "passed", "done", "skipped"}]
           /\ told' \in [PluginRequests -> Nat] /\ at'[r] = "done" /\ told'[r] = status
           /\ \A q \in PluginRequests \ {r} : at'[q] = at[q] /\ told'[q] = told[q]
  <1>1. PluginTypeOK /\ told[r] = 0
    BY DEF PluginInv, Coherent
  <1> QED
    BY <1>1 DEF Plugin!Answer, PluginTypeOK

LEMMA Asked ==
    ASSUME PluginInv, NEW r \in PluginRequests, NEW op \in {"generate", "validate", "protect"},
           NEW i \in Instances, NEW s \in PluginSessions, Plugin!Ask(r, op, i, s)
    PROVE  /\ at[r] = "idle" /\ Waiting(r) /\ told[r] = 0 /\ r \notin served
           /\ framework' = framework /\ ~Spender(r)
           /\ request' \in [PluginRequests -> {Plugin!NoRequest} \cup Asks]
           /\ request'[r] \in Asks /\ request'[r].op = op /\ request'[r].i = i /\ request'[r].s = s
           /\ \A q \in PluginRequests \ {r} : request'[q] = request[q]
  <1>1. PluginTypeOK /\ at[r] = "idle"
    BY DEF PluginInv, Plugin!Ask
  <1>2. Waiting(r) /\ told[r] = 0 /\ r \notin served
    BY <1>1 DEF PluginInv, Coherent, Waiting
  <1>3. [op |-> op, i |-> i, s |-> s] \in Asks
    BY DEF Asks
  <1>4. /\ request' = [request EXCEPT ![r] = [op |-> op, i |-> i, s |-> s]]
        /\ framework' = framework
    BY DEF Plugin!Ask
  <1>5. ~Spender(r)
    BY <1>1, <1>2 DEF Spender
  <1> QED
    BY <1>1, <1>2, <1>3, <1>4, <1>5 DEF PluginTypeOK

Denied(r) == told[r] = 0 /\ told'[r] = 404 => sessions[request'[r].s].at # request'[r].i

\* A request that is not for the service.
LEMMA PassedBy ==
    ASSUME PluginInv, NEW r \in PluginRequests, Plugin!Skipped(r) \/ Plugin!Invalid(r)
    PROVE  PluginInv' /\ \A q \in PluginRequests : Denied(q)
  <1>1. PICK op \in {"generate", "validate", "protect"}, i \in Instances, s \in PluginSessions :
           /\ Plugin!Ask(r, op, i, s) /\ UNCHANGED <<sessions, served>>
           /\ \/ at' = [at EXCEPT ![r] = "skipped"] /\ UNCHANGED told
              \/ \E status \in Plugin!InvalidStatuses(op) : Plugin!Answer(r, status)
    BY DEF Plugin!Skipped, Plugin!Invalid
  <1>2. /\ at[r] = "idle" /\ Waiting(r) /\ told[r] = 0 /\ r \notin served
        /\ framework' = framework /\ ~Spender(r)
        /\ request' \in [PluginRequests -> {Plugin!NoRequest} \cup Asks]
        /\ request'[r] \in Asks /\ request'[r].op = op
        /\ \A q \in PluginRequests \ {r} : request'[q] = request[q]
    BY <1>1, Asked
  <1>3. \A status \in Plugin!InvalidStatuses(op) : status \in {400, 403, 500}
    BY DEF Plugin!InvalidStatuses
  <1>4. PluginTypeOK
    BY DEF PluginInv
  <1>5. /\ at' \in [PluginRequests -> {"idle", "generating", "passed", "done", "skipped"}]
        /\ told' \in [PluginRequests -> Nat] /\ at'[r] \in {"skipped", "done"}
        /\ told'[r] \in {0, 400, 403, 500}
        /\ \A q \in PluginRequests \ {r} : at'[q] = at[q] /\ told'[q] = told[q]
    <2>1. CASE at' = [at EXCEPT ![r] = "skipped"] /\ UNCHANGED told
      BY <1>2, <1>4, <2>1 DEF PluginTypeOK
    <2>2. CASE \E status \in Plugin!InvalidStatuses(op) : Plugin!Answer(r, status)
      <3>1. PICK status \in {400, 403, 500} : Plugin!Answer(r, status)
        BY <1>3, <2>2
      <3> QED
        BY <1>2, <3>1, Answered
    <2> QED
      BY <1>1, <2>1, <2>2
  <1>6. PluginTypeOK'
    BY <1>1, <1>2, <1>4, <1>5 DEF PluginTypeOK
  <1>7. Coherent(r)'
    BY <1>1, <1>2, <1>5 DEF Coherent, Waiting
  <1>8. ~Spender(r)'
    BY <1>1, <1>2, <1>5 DEF Spender
  <1> QED
    BY <1>1, <1>2, <1>5, <1>6, <1>7, <1>8, RequestStep DEF Denied

LEMMA GenerateReserves ==
    ASSUME PluginInv, NEW r \in PluginRequests, Plugin!Generate(r)
    PROVE  PluginInv' /\ \A q \in PluginRequests : Denied(q)
  <1>1. PICK i \in Instances, s \in PluginSessions :
           /\ sessions[s] = Plugin!NoSession
           /\ \A q \in PluginRequests : ~(at[q] = "generating" /\ request[q].s = s)
           /\ Plugin!Ask(r, "generate", i, s)
           /\ at' = [at EXCEPT ![r] = "generating"]
           /\ UNCHANGED <<sessions, told, served>>
    BY DEF Plugin!Generate
  <1>2. /\ at[r] = "idle" /\ Waiting(r) /\ told[r] = 0 /\ r \notin served
        /\ framework' = framework /\ ~Spender(r)
        /\ request' \in [PluginRequests -> {Plugin!NoRequest} \cup Asks]
        /\ request'[r] \in Asks /\ request'[r].op = "generate" /\ request'[r].s = s
        /\ \A q \in PluginRequests \ {r} : request'[q] = request[q]
    BY <1>1, Asked
  <1>3. PluginTypeOK
    BY DEF PluginInv
  <1>4. at'[r] = "generating" /\ \A q \in PluginRequests \ {r} : at'[q] = at[q]
    BY <1>1, <1>3 DEF PluginTypeOK
  <1>5. PluginTypeOK'
    BY <1>1, <1>2, <1>3 DEF PluginTypeOK
  <1>6. Coherent(r)' /\ ~Spender(r)'
    BY <1>1, <1>2, <1>4 DEF Coherent, Waiting, Spender
  <1> QED
    BY <1>1, <1>2, <1>4, <1>5, <1>6, RequestStep DEF Denied

LEMMA GenerationAnswered ==
    ASSUME PluginInv, NEW r \in PluginRequests, Plugin!Generated(r) \/ Plugin!GenerateFailed(r)
    PROVE  PluginInv' /\ \A q \in PluginRequests : Denied(q)
  <1> DEFINE new == [at |-> request[r].i, status |-> "active", attempts |-> 0]
  <1>1. PICK status \in {200, 500} :
           /\ Plugin!Answer(r, status)
           /\ sessions' = [sessions EXCEPT ![request[r].s] = new] \/ sessions' = sessions
    <2>1. CASE Plugin!Generated(r)
      BY <2>1 DEF Plugin!Generated
    <2>2. CASE Plugin!GenerateFailed(r)
      BY <2>2 DEF Plugin!GenerateFailed
    <2> QED
      BY <2>1, <2>2
  <1>2. at[r] = "generating" /\ UNCHANGED <<framework, request, served>>
    BY DEF Plugin!Generated, Plugin!GenerateFailed
  <1>3. PluginTypeOK /\ Waiting(r)
    BY <1>2 DEF PluginInv, Waiting
  <1>4. /\ request[r] \in Asks /\ request[r].op = "generate" /\ r \notin served
        /\ sessions[request[r].s] = Plugin!NoSession
        /\ \A q \in PluginRequests : at[q] = "generating" /\ request[q].s = request[r].s => q = r
    BY <1>2, <1>3 DEF PluginInv, Coherent, Reserved
  <1>5. /\ at' \in [PluginRequests -> {"idle", "generating", "passed", "done", "skipped"}]
        /\ told' \in [PluginRequests -> Nat] /\ at'[r] = "done" /\ told'[r] \in {200, 500}
        /\ \A q \in PluginRequests \ {r} : at'[q] = at[q] /\ told'[q] = told[q]
    BY <1>1, <1>3, Answered
  <1>6. new \in SessionRecords /\ request[r].s \in PluginSessions
    BY <1>4 DEF SessionRecords, Asks
  <1> HIDE DEF new
  <1>7. /\ sessions' \in [PluginSessions -> SessionRecords]
        /\ \A s \in PluginSessions : s # request[r].s => sessions'[s] = sessions[s]
    BY <1>1, <1>3, <1>6 DEF PluginTypeOK
  <1>8. PluginTypeOK'
    BY <1>2, <1>3, <1>5, <1>7 DEF PluginTypeOK
  <1>9. Coherent(r)' /\ ~Spender(r)'
    BY <1>2, <1>4, <1>5 DEF Coherent, Waiting, Spender
  <1>10. sessions[request[r].s].status # "validated"
    BY <1>4 DEF Plugin!NoSession
  <1>11. \A s \in PluginSessions :
            /\ sessions[s].status = "validated" => sessions'[s] = sessions[s]
            /\ \A q \in PluginRequests \ {r} :
                  at[q] = "generating" /\ request[q].s = s => sessions'[s] = sessions[s]
    BY <1>4, <1>7, <1>10
  <1> QED
    BY <1>2, <1>5, <1>8, <1>9, <1>11, RequestStep DEF Denied

\* The sessions when one was asked about: a spent one stays, and so does one that
\* is not there yet.
LEMMA SessionAsked ==
    ASSUME PluginInv, NEW i \in Instances, NEW s \in PluginSessions, NEW right \in BOOLEAN,
           sessions' = [sessions EXCEPT ![s] = Plugin!SessionAfter(i, s, right)]
    PROVE  /\ sessions' \in [PluginSessions -> SessionRecords]
           /\ sessions'[s] = Plugin!SessionAfter(i, s, right)
           /\ \A t \in PluginSessions :
                 /\ sessions[t].status = "validated" => sessions'[t] = sessions[t]
                 /\ \A q \in PluginRequests :
                       at[q] = "generating" /\ request[q].s = t => sessions'[t] = sessions[t]
  <1>1. sessions \in [PluginSessions -> SessionRecords]
    BY DEF PluginInv, PluginTypeOK
  <1>2. /\ Plugin!SessionAfter(i, s, right) \in SessionRecords
        /\ sessions[s].status = "validated" \/ sessions[s].at # i =>
              Plugin!SessionAfter(i, s, right) = sessions[s]
    BY <1>1, VerdictMeans
  <1>3. \A t \in PluginSessions : t # s => sessions'[t] = sessions[t]
    BY <1>1
  <1>4. ASSUME NEW q \in PluginRequests, at[q] = "generating", request[q].s = s
        PROVE  sessions[s].at # i
    BY <1>4, VisitorsAssumption DEF PluginInv, Reserved, Plugin!NoSession, Plugin!Nowhere
  <1> QED
    BY <1>1, <1>2, <1>3, <1>4

LEMMA ValidateSpends ==
    ASSUME PluginInv, NEW r \in PluginRequests, Plugin!Validate(r)
    PROVE  PluginInv' /\ \A q \in PluginRequests : Denied(q)
  <1>1. PICK i \in Instances, s \in PluginSessions, right \in BOOLEAN, formats \in BOOLEAN :
           /\ Plugin!Ask(r, "validate", i, s)
           /\ sessions' = [sessions EXCEPT ![s] = Plugin!SessionAfter(i, s, right)]
           /\ Plugin!Answer(r, IF formats THEN Plugin!StatusOf(Plugin!Verdict(i, s, right)) ELSE 500)
           /\ UNCHANGED served
    BY DEF Plugin!Validate
  <1> DEFINE v == Plugin!Verdict(i, s, right)
             status == IF formats THEN Plugin!StatusOf(v) ELSE 500
  <1>2. /\ at[r] = "idle" /\ Waiting(r) /\ told[r] = 0 /\ r \notin served
        /\ framework' = framework /\ ~Spender(r)
        /\ request' \in [PluginRequests -> {Plugin!NoRequest} \cup Asks]
        /\ request'[r] \in Asks /\ request'[r].op = "validate"
        /\ request'[r].i = i /\ request'[r].s = s
        /\ \A q \in PluginRequests \ {r} : request'[q] = request[q]
    BY <1>1, Asked
  <1>3. PluginTypeOK
    BY DEF PluginInv
  <1>4. /\ v = "valid" => /\ sessions[s].status # "validated"
                          /\ Plugin!SessionAfter(i, s, right).status = "validated"
                          /\ Plugin!SessionAfter(i, s, right).at = i
        /\ Plugin!StatusOf(v) \in Nat
        /\ Plugin!StatusOf(v) = 200 => v = "valid"
        /\ Plugin!StatusOf(v) = 404 => sessions[s].at # i
    BY <1>3, VerdictMeans DEF PluginTypeOK
  <1> HIDE DEF v
  <1>5. /\ status \in Nat /\ (status = 200 => v = "valid")
        /\ status = 404 => sessions[s].at # i
    BY <1>4
  <1>6. Plugin!Answer(r, status)
    BY <1>1 DEF v
  <1> HIDE DEF status
  <1>7. /\ at' \in [PluginRequests -> {"idle", "generating", "passed", "done", "skipped"}]
        /\ told' \in [PluginRequests -> Nat] /\ at'[r] = "done" /\ told'[r] = status
        /\ \A q \in PluginRequests \ {r} : at'[q] = at[q] /\ told'[q] = told[q]
    BY <1>2, <1>5, <1>6, Answered
  <1>8. /\ sessions' \in [PluginSessions -> SessionRecords]
        /\ sessions'[s] = Plugin!SessionAfter(i, s, right)
        /\ \A t \in PluginSessions :
              /\ sessions[t].status = "validated" => sessions'[t] = sessions[t]
              /\ \A q \in PluginRequests :
                    at[q] = "generating" /\ request[q].s = t => sessions'[t] = sessions[t]
    BY <1>1, SessionAsked
  <1>9. PluginTypeOK'
    BY <1>1, <1>2, <1>3, <1>7, <1>8 DEF PluginTypeOK
  <1>10. Coherent(r)'
    BY <1>1, <1>2, <1>7 DEF Coherent, Waiting
  <1>11. Spender(r)' => v = "valid"
    BY <1>1, <1>2, <1>5, <1>7 DEF Spender
  <1>12. Spender(r)' =>
            /\ sessions'[request'[r].s].status = "validated"
            /\ sessions'[request'[r].s].at = request'[r].i
            /\ sessions[request'[r].s].status # "validated"
    BY <1>2, <1>4, <1>8, <1>11
  <1>13. told'[r] = 404 => sessions[request'[r].s].at # request'[r].i
    BY <1>2, <1>5, <1>7
  <1> QED
    BY <1>1, <1>2, <1>7, <1>8, <1>9, <1>10, <1>12, <1>13, RequestStep DEF Denied

LEMMA ProtectSpends ==
    ASSUME PluginInv, NEW r \in PluginRequests, Plugin!Protect(r)
    PROVE  PluginInv' /\ \A q \in PluginRequests : Denied(q)
  <1>1. PICK i \in Instances, s \in PluginSessions, right \in BOOLEAN :
           /\ Plugin!Ask(r, "protect", i, s)
           /\ sessions' = [sessions EXCEPT ![s] = Plugin!SessionAfter(i, s, right)]
           /\ \/ /\ Plugin!Verdict(i, s, right) = "valid"
                 /\ at' = [at EXCEPT ![r] = "passed"] /\ UNCHANGED told
              \/ Plugin!Answer(r, 403)
           /\ UNCHANGED served
    BY DEF Plugin!Protect
  <1>2. /\ at[r] = "idle" /\ Waiting(r) /\ told[r] = 0 /\ r \notin served
        /\ framework' = framework /\ ~Spender(r)
        /\ request' \in [PluginRequests -> {Plugin!NoRequest} \cup Asks]
        /\ request'[r] \in Asks /\ request'[r].op = "protect"
        /\ request'[r].i = i /\ request'[r].s = s
        /\ \A q \in PluginRequests \ {r} : request'[q] = request[q]
    BY <1>1, Asked
  <1>3. PluginTypeOK
    BY DEF PluginInv
  <1>4. Plugin!Verdict(i, s, right) = "valid" =>
           /\ sessions[s].status # "validated"
           /\ Plugin!SessionAfter(i, s, right).status = "validated"
           /\ Plugin!SessionAfter(i, s, right).at = i
    BY <1>3, VerdictMeans DEF PluginTypeOK
  <1>5. /\ at' \in [PluginRequests -> {"idle", "generating", "passed", "done", "skipped"}]
        /\ told' \in [PluginRequests -> Nat]
        /\ \A q \in PluginRequests \ {r} : at'[q] = at[q] /\ told'[q] = told[q]
        /\ \/ Plugin!Verdict(i, s, right) = "valid" /\ at'[r] = "passed" /\ told'[r] = 0
           \/ at'[r] = "done" /\ told'[r] = 403
    <2>1. CASE Plugin!Verdict(i, s, right) = "valid"
               /\ at' = [at EXCEPT ![r] = "passed"] /\ UNCHANGED told
      BY <1>2, <1>3, <2>1 DEF PluginTypeOK
    <2>2. CASE Plugin!Answer(r, 403)
      BY <1>2, <2>2, Answered
    <2> QED
      BY <1>1, <2>1, <2>2
  <1>6. /\ sessions' \in [PluginSessions -> SessionRecords]
        /\ sessions'[s] = Plugin!SessionAfter(i, s, right)
        /\ \A t \in PluginSessions :
              /\ sessions[t].status = "validated" => sessions'[t] = sessions[t]
              /\ \A q \in PluginRequests :
                    at[q] = "generating" /\ request[q].s = t => sessions'[t] = sessions[t]
    BY <1>1, SessionAsked
  <1>7. PluginTypeOK'
    BY <1>1, <1>2, <1>3, <1>5, <1>6 DEF PluginTypeOK
  <1>8. Coherent(r)'
    BY <1>1, <1>2, <1>5 DEF Coherent, Waiting
  <1>9. Spender(r)' => Plugin!Verdict(i, s, right) = "valid"
    BY <1>1, <1>2, <1>5 DEF Spender
  <1>10. Spender(r)' =>
            /\ sessions'[request'[r].s].status = "validated"
            /\ sessions'[request'[r].s].at = request'[r].i
            /\ sessions[request'[r].s].status # "validated"
    BY <1>2, <1>4, <1>6, <1>9
  <1> QED
    BY <1>1, <1>2, <1>5, <1>6, <1>7, <1>8, <1>10, RequestStep DEF Denied

LEMMA HandlerServes ==
    ASSUME PluginInv, NEW r \in PluginRequests, Plugin!Handler(r)
    PROVE  PluginInv' /\ \A q \in PluginRequests : Denied(q)
  <1>1. PICK throws \in BOOLEAN :
           Plugin!Answer(r, IF ~throws THEN 200 ELSE IF framework = "koa" THEN 500 ELSE 1)
    BY DEF Plugin!Handler
  <1>2. /\ at[r] = "passed" /\ served' = served \cup {r}
        /\ UNCHANGED <<framework, sessions, request>>
    BY DEF Plugin!Handler
  <1>3. PICK status \in {1, 200, 500} :
           Plugin!Answer(r, status) /\ (status = 500 => framework = "koa")
    BY <1>1
  <1>4. PluginTypeOK /\ Waiting(r)
    BY <1>2 DEF PluginInv, Waiting
  <1>5. /\ at' \in [PluginRequests -> {"idle", "generating", "passed", "done", "skipped"}]
        /\ told' \in [PluginRequests -> Nat] /\ at'[r] = "done" /\ told'[r] = status
        /\ \A q \in PluginRequests \ {r} : at'[q] = at[q] /\ told'[q] = told[q]
    BY <1>3, <1>4, Answered
  <1>6. PluginTypeOK'
    BY <1>2, <1>4, <1>5 DEF PluginTypeOK
  <1>7. request[r] \in Asks
    BY <1>2 DEF PluginInv, Coherent
  <1>8. Coherent(r)'
    BY <1>2, <1>3, <1>5, <1>7 DEF Coherent, Waiting
  <1>9. /\ Spender(r) /\ sessions[request[r].s].status = "validated"
        /\ sessions[request[r].s].at = request[r].i
    BY <1>2 DEF PluginInv, Spent, Spender
  <1> QED
    BY <1>2, <1>3, <1>5, <1>6, <1>7, <1>8, <1>9, RequestStep DEF Denied

LEMMA ExpireKeeps ==
    ASSUME PluginInv, NEW s \in PluginSessions, Plugin!Expire(s)
    PROVE  PluginInv' /\ \A q \in PluginRequests : Denied(q)
  <1>1. /\ sessions[s].status = "active" /\ sessions' = [sessions EXCEPT ![s].status = "overdue"]
        /\ UNCHANGED <<framework, request, at, told, served>>
    BY DEF Plugin!Expire
  <1>2. PluginTypeOK
    BY DEF PluginInv
  <1>3. PluginTypeOK'
    BY <1>1, <1>2 DEF PluginTypeOK, SessionRecords
  <1>4. \A t \in PluginSessions : sessions[t].status # "active" => sessions'[t] = sessions[t]
    BY <1>1, <1>2 DEF PluginTypeOK
  <1>5. \A r \in PluginRequests : Coherent(r)' /\ (Spender(r)' <=> Spender(r))
    BY <1>1 DEF PluginInv, Coherent, Waiting, Spender
  <1>6. \A r \in PluginRequests : Reserved(r)'
    <2> SUFFICES ASSUME NEW r \in PluginRequests, at[r] = "generating" PROVE Reserved(r)'
      BY <1>1 DEF Reserved
    <2>1. request[r].s \in PluginSessions /\ sessions[request[r].s].status = "none"
      BY DEF PluginInv, Coherent, Reserved, Asks, Plugin!NoSession
    <2> QED
      BY <1>1, <1>4, <2>1 DEF PluginInv, Reserved
  <1>7. \A r \in PluginRequests : Spent(r)'
    <2> SUFFICES ASSUME NEW r \in PluginRequests, Spender(r) PROVE Spent(r)'
      BY <1>5 DEF Spent
    <2>1. request[r].s \in PluginSessions /\ sessions[request[r].s].status = "validated"
      BY DEF PluginInv, Spent, Asks
    <2> QED
      BY <1>1, <1>4, <1>5, <2>1 DEF PluginInv, Spent
  <1> QED
    BY <1>1, <1>3, <1>5, <1>6, <1>7 DEF PluginInv, Denied

LEMMA PluginStep ==
    ASSUME PluginInv, Plugin!Next
    PROVE  PluginInv' /\ \A q \in PluginRequests : Denied(q)
  <1>1. CASE \E r \in PluginRequests :
                \/ Plugin!Skipped(r) \/ Plugin!Invalid(r) \/ Plugin!Generate(r)
                \/ Plugin!Generated(r) \/ Plugin!GenerateFailed(r)
                \/ Plugin!Validate(r) \/ Plugin!Protect(r) \/ Plugin!Handler(r)
    BY <1>1, PassedBy, GenerateReserves, GenerationAnswered, ValidateSpends, ProtectSpends, HandlerServes
  <1>2. CASE \E s \in PluginSessions : Plugin!Expire(s)
    BY <1>2, ExpireKeeps
  <1> QED
    BY <1>1, <1>2 DEF Plugin!Next

LEMMA PluginRests ==
    ASSUME PluginInv, UNCHANGED pluginVars
    PROVE  PluginInv' /\ \A q \in PluginRequests : Denied(q)
  <1>1. UNCHANGED <<framework, sessions, request, at, told, served>>
    BY DEF pluginVars
  <1> QED
    BY <1>1 DEF PluginInv, PluginTypeOK, Coherent, Waiting, Reserved, Spent, Spender, Denied

-----------------------------------------------------------------------------
(* GraphQLApi.                                                              *)

Events == [captcha : Captchas, valid : BOOLEAN]

Listenings == [topic : GraphQL!Topics \cup {"none"}, since : Nat]

\* Of a topic: its answers since a number of them.
Since(topic, k) == SubSeq(answers[topic], k + 1, Len(answers[topic]))

StreamInv ==
    /\ answers \in [GraphQL!Topics -> Seq(Events)]
    /\ listening \in [Subscribers -> Listenings] /\ received \in [Subscribers -> Seq(Events)]
    /\ \A b \in Subscribers : listening[b].topic # "none" =>
          listening[b].since <= Len(answers[listening[b].topic])
    /\ GraphQL!StreamFollowsAnswers

GraphQLInv == StreamInv /\ \A cred \in executed : GraphQL!Admitted(cred)

LEMMA StreamGrows ==
    ASSUME NEW E, NEW s \in Seq(E), NEW e \in E, NEW k \in 0 .. Len(s)
    PROVE  SubSeq(Append(s, e), k + 1, Len(s) + 1) = Append(SubSeq(s, k + 1, Len(s)), e)
  <1> DEFINE n == Len(s)
             long == Append(s, e)
             left == SubSeq(long, k + 1, n + 1)
             short == SubSeq(s, k + 1, n)
  <1>1. n \in Nat /\ k \in 0 .. n
    OBVIOUS
  <1>2. long \in Seq(E) /\ Len(long) = n + 1 /\ long[n + 1] = e /\ \A i \in 1 .. n : long[i] = s[i]
    OBVIOUS
  <1> HIDE DEF long
  <1>3. /\ left \in Seq(E) /\ Len(left) = n + 1 - k
        /\ \A i \in 1 .. n + 1 - k : left[i] = long[k + i]
    BY <1>1, <1>2
  <1>4. /\ short \in Seq(E) /\ Len(short) = n - k
        /\ \A i \in 1 .. n - k : short[i] = s[k + i]
    BY <1>1
  <1> HIDE DEF n, left, short
  <1>5. Append(short, e) \in Seq(E) /\ Len(Append(short, e)) = n + 1 - k
    BY <1>1, <1>4, AppendProperties
  <1>6. \A i \in 1 .. n + 1 - k : left[i] = Append(short, e)[i]
    BY <1>1, <1>2, <1>3, <1>4
  <1>7. left = Append(short, e)
    BY <1>3, <1>5, <1>6, SeqEqual
  <1> QED
    BY <1>7 DEF n, left, short, long

LEMMA InitGraphQL ==
    ASSUME GraphQL!Init
    PROVE  GraphQLInv
  <1>1. /\ executed = {} /\ answers = [t \in GraphQL!Topics |-> <<>>]
        /\ listening = [b \in Subscribers |-> GraphQL!NotListening]
        /\ received = [b \in Subscribers |-> <<>>]
    BY DEF GraphQL!Init
  <1>2. GraphQL!NotListening \in Listenings /\ GraphQL!NotListening.topic = "none"
    BY DEF GraphQL!NotListening, Listenings
  <1>3. GraphQL!StreamFollowsAnswers
    BY <1>1, <1>2 DEF GraphQL!StreamFollowsAnswers
  <1>4. StreamInv
    BY <1>1, <1>2, <1>3 DEF StreamInv
  <1> QED
    BY <1>1, <1>4 DEF GraphQLInv

LEMMA GraphQLInvIsSound ==
    ASSUME GraphQLInv
    PROVE  GraphQL!ScopeEnforced /\ GraphQL!StreamFollowsAnswers
  <1>1. \A cred \in executed : GraphQL!Admitted(cred)
    BY DEF GraphQLInv
  <1>2. GraphQL!ScopeEnforced
    BY <1>1 DEF GraphQL!ScopeEnforced, GraphQL!Admitted, GraphQL!Authenticated, GraphQL!HasScope
  <1> QED
    BY <1>2 DEF GraphQLInv, StreamInv

\* An answer reaches the listeners of its topic and no others.
LEMMA AnsweredFollows ==
    ASSUME StreamInv, NEW topic \in GraphQL!Topics, NEW e \in Events, GraphQL!Answered(topic, e)
    PROVE  StreamInv'
  <1>1. /\ answers \in [GraphQL!Topics -> Seq(Events)] /\ listening \in [Subscribers -> Listenings]
        /\ received \in [Subscribers -> Seq(Events)]
        /\ \A b \in Subscribers : listening[b].topic # "none" =>
              /\ listening[b].since <= Len(answers[listening[b].topic])
              /\ received[b] = Since(listening[b].topic, listening[b].since)
    BY DEF StreamInv, GraphQL!StreamFollowsAnswers, Since
  <1>2. /\ listening' = listening /\ answers' = [answers EXCEPT ![topic] = Append(@, e)]
        /\ received' = [b \in Subscribers |->
                          IF listening[b].topic = topic THEN Append(received[b], e) ELSE received[b]]
    BY DEF GraphQL!Answered, GraphQL!Publish
  <1>3. /\ answers[topic] \in Seq(Events) /\ Len(answers[topic]) \in Nat
        /\ answers'[topic] = Append(answers[topic], e)
        /\ \A t \in GraphQL!Topics : t # topic => answers'[t] = answers[t]
    BY <1>1, <1>2
  <1>4. Append(answers[topic], e) \in Seq(Events) /\ Len(Append(answers[topic], e)) = Len(answers[topic]) + 1
    BY <1>3, AppendProperties
  <1>5. answers' \in [GraphQL!Topics -> Seq(Events)]
    BY <1>1, <1>2, <1>3, <1>4
  <1>6. received' \in [Subscribers -> Seq(Events)]
    <2>1. \A b \in Subscribers : Append(received[b], e) \in Seq(Events) /\ received[b] \in Seq(Events)
      BY <1>1, AppendProperties
    <2> QED
      BY <1>2, <2>1
  <1>7. ASSUME NEW b \in Subscribers, listening[b].topic # "none"
        PROVE  /\ listening[b].since <= Len(answers'[listening[b].topic])
               /\ received'[b] = SubSeq(answers'[listening[b].topic], listening[b].since + 1,
                                       Len(answers'[listening[b].topic]))
    <2>1. listening[b].topic \in GraphQL!Topics /\ listening[b].since \in Nat
      BY <1>1, <1>7 DEF Listenings
    <2>2. /\ listening[b].since <= Len(answers[listening[b].topic])
          /\ received[b] = Since(listening[b].topic, listening[b].since)
      BY <1>1, <1>7
    <2>3. CASE listening[b].topic = topic
      <3>1. PICK k \in 0 .. Len(answers[topic]) : k = listening[b].since
        BY <1>3, <2>1, <2>2, <2>3
      <3>2. received'[b] = Append(received[b], e)
        BY <1>2, <2>3
      <3>3. SubSeq(Append(answers[topic], e), k + 1, Len(answers[topic]) + 1)
               = Append(SubSeq(answers[topic], k + 1, Len(answers[topic])), e)
        BY <1>3, StreamGrows
      <3>4. received[b] = SubSeq(answers[topic], k + 1, Len(answers[topic]))
        BY <2>2, <2>3, <3>1 DEF Since
      <3>5. received'[b] = SubSeq(answers'[topic], k + 1, Len(answers'[topic]))
        BY <1>3, <1>4, <3>2, <3>3, <3>4
      <3>6. k <= Len(answers'[topic])
        BY <1>3, <1>4, <3>1
      <3> QED
        BY <2>3, <3>1, <3>5, <3>6
    <2>4. CASE listening[b].topic # topic
      <3>1. received'[b] = received[b] /\ answers'[listening[b].topic] = answers[listening[b].topic]
        BY <1>2, <1>3, <2>1, <2>4
      <3> QED
        BY <2>2, <3>1 DEF Since
    <2> QED
      BY <2>3, <2>4
  <1>8. GraphQL!StreamFollowsAnswers'
    BY <1>2, <1>7 DEF GraphQL!StreamFollowsAnswers
  <1> QED
    BY <1>1, <1>2, <1>5, <1>6, <1>7, <1>8 DEF StreamInv

LEMMA StreamStays ==
    ASSUME StreamInv, UNCHANGED <<answers, listening, received>>
    PROVE  StreamInv'
  BY DEF StreamInv, GraphQL!StreamFollowsAnswers

\* A subscriber begins at what its topic has answered so far, and ends with what it has.
LEMMA SubscribeKeeps ==
    ASSUME StreamInv, NEW b \in Subscribers,
           (\E topic \in GraphQL!Topics : GraphQL!Subscribe(b, topic)) \/ GraphQL!Unsubscribe(b)
    PROVE  StreamInv'
  <1>1. /\ answers \in [GraphQL!Topics -> Seq(Events)] /\ listening \in [Subscribers -> Listenings]
        /\ received \in [Subscribers -> Seq(Events)]
        /\ \A q \in Subscribers : listening[q].topic # "none" =>
              /\ listening[q].since <= Len(answers[listening[q].topic])
              /\ received[q] = Since(listening[q].topic, listening[q].since)
    BY DEF StreamInv, GraphQL!StreamFollowsAnswers, Since
  <1>2. ASSUME NEW topic \in GraphQL!Topics, GraphQL!Subscribe(b, topic)
        PROVE  StreamInv'
    <2> DEFINE new == [topic |-> topic, since |-> Len(answers[topic])]
    <2>1. /\ listening' = [listening EXCEPT ![b] = new] /\ received' = [received EXCEPT ![b] = <<>>]
          /\ answers' = answers
      BY <1>2 DEF GraphQL!Subscribe
    <2>2. Len(answers[topic]) \in Nat
      BY <1>1
    <2>3. new \in Listenings /\ new.topic = topic /\ new.since = Len(answers[topic])
      BY <2>2 DEF Listenings
    <2> HIDE DEF new
    <2>4. /\ listening' \in [Subscribers -> Listenings] /\ received' \in [Subscribers -> Seq(Events)]
          /\ listening'[b] = new /\ received'[b] = <<>>
          /\ \A q \in Subscribers : q # b => listening'[q] = listening[q] /\ received'[q] = received[q]
      BY <1>1, <2>1, <2>3
    <2>5. SubSeq(answers[topic], Len(answers[topic]) + 1, Len(answers[topic])) = <<>>
      BY <2>2, SubSeqEmpty
    <2>6. ASSUME NEW q \in Subscribers, listening'[q].topic # "none"
          PROVE  /\ listening'[q].since <= Len(answers[listening'[q].topic])
                 /\ received'[q] = SubSeq(answers[listening'[q].topic], listening'[q].since + 1,
                                         Len(answers[listening'[q].topic]))
      <3>1. CASE q = b
        <4>1. listening'[q].topic = topic /\ listening'[q].since = Len(answers[topic]) /\ received'[q] = <<>>
          BY <2>3, <2>4, <3>1
        <4>2. Len(answers[topic]) <= Len(answers[topic])
          BY <2>2
        <4> QED
          BY <2>5, <4>1, <4>2, Zenon
      <3>2. CASE q # b
        BY <1>1, <2>4, <2>6, <3>2 DEF Since
      <3> QED
        BY <3>1, <3>2
    <2>7. GraphQL!StreamFollowsAnswers'
      BY <2>1, <2>6 DEF GraphQL!StreamFollowsAnswers
    <2> QED
      BY <1>1, <2>1, <2>4, <2>6, <2>7 DEF StreamInv
  <1>3. CASE GraphQL!Unsubscribe(b)
    <2>1. /\ listening' = [listening EXCEPT ![b] = GraphQL!NotListening] /\ received' = received
          /\ answers' = answers
      BY <1>3 DEF GraphQL!Unsubscribe
    <2>2. GraphQL!NotListening \in Listenings /\ GraphQL!NotListening.topic = "none"
      BY DEF GraphQL!NotListening, Listenings
    <2>3. /\ listening' \in [Subscribers -> Listenings] /\ listening'[b].topic = "none"
          /\ \A q \in Subscribers : q # b => listening'[q] = listening[q]
      BY <1>1, <2>1, <2>2
    <2>4. \A q \in Subscribers : listening'[q].topic # "none" => q # b /\ listening'[q] = listening[q]
      BY <2>3
    <2>5. GraphQL!StreamFollowsAnswers'
      BY <1>1, <2>1, <2>4 DEF GraphQL!StreamFollowsAnswers, Since
    <2> QED
      BY <1>1, <2>1, <2>3, <2>4, <2>5 DEF StreamInv
  <1> QED
    BY <1>2, <1>3

\* An operation runs under a credential that is admitted.
LEMMA OperationAdmitted ==
    ASSUME GraphQLInv, NEW cred, GraphQL!Operation(cred)
    PROVE  (\A c \in executed : GraphQL!Admitted(c))'
  <1>1. executed' = executed \cup {cred} /\ requireAuth' = requireAuth /\ scoped' = scoped
    BY DEF GraphQL!Operation, GraphQL!Requested
  <1>2. \A c \in executed' : GraphQL!Admitted(c)
    BY <1>1 DEF GraphQLInv, GraphQL!Operation
  <1> QED
    BY <1>1, <1>2 DEF GraphQL!Admitted

LEMMA ExecutedStays ==
    ASSUME GraphQLInv, UNCHANGED <<executed, requireAuth, scoped>>
    PROVE  (\A c \in executed : GraphQL!Admitted(c))'
  BY DEF GraphQLInv, GraphQL!Admitted

LEMMA GraphQLStep ==
    ASSUME GraphQLInv, GraphQL!Next
    PROVE  GraphQLInv'
  <1> USE DEF GraphQLInv
  <1>1. CASE \/ GraphQL!Limited \/ GraphQL!WindowEnds \/ GraphQL!Refuse
             \/ \E c \in Captchas : GraphQL!GenerateFails(c)
    <2>1. UNCHANGED <<requireAuth, scoped, executed, answers, listening, received>>
      BY <1>1 DEF GraphQL!Limited, GraphQL!WindowEnds, GraphQL!Refuse, GraphQL!GenerateFails,
                  GraphQL!Requested
    <2> QED
      BY <2>1, ExecutedStays, StreamStays
  <1>2. CASE GraphQL!GenerateCaptcha \/ GraphQL!SubscribeField
    <2>1. PICK cred : GraphQL!Operation(cred)
      BY <1>2 DEF GraphQL!GenerateCaptcha, GraphQL!SubscribeField
    <2>2. UNCHANGED <<answers, listening, received>>
      BY <1>2 DEF GraphQL!GenerateCaptcha, GraphQL!SubscribeField
    <2> QED
      BY <2>1, <2>2, OperationAdmitted, StreamStays
  <1>3. CASE GraphQL!ValidateCaptcha
    <2>1. PICK cred \in Credentials, c \in Captchas, right \in BOOLEAN :
             /\ GraphQL!Operation(cred)
             /\ GraphQL!Answered("validated", [captcha |-> c, valid |-> right /\ captcha[c] = "active"])
      BY <1>3 DEF GraphQL!ValidateCaptcha
    <2> DEFINE good == right /\ captcha[c] = "active"
               e == [captcha |-> c, valid |-> good]
    <2>2. e \in Events /\ "validated" \in GraphQL!Topics
      <3>1. good \in BOOLEAN
        OBVIOUS
      <3> HIDE DEF good
      <3> QED
        BY <3>1 DEF Events, GraphQL!Topics
    <2>3. GraphQL!Answered("validated", e)
      BY <2>1
    <2> HIDE DEF e
    <2> QED
      BY <2>1, <2>2, <2>3, OperationAdmitted, AnsweredFollows
  <1>4. ASSUME NEW c \in Captchas, GraphQL!GenerateReturns(c) PROVE GraphQLInv'
    <2> DEFINE e == [captcha |-> c, valid |-> TRUE]
    <2>1. GraphQL!Answered("generated", e) /\ UNCHANGED <<requireAuth, scoped, executed>>
      BY <1>4 DEF GraphQL!GenerateReturns
    <2>2. e \in Events /\ "generated" \in GraphQL!Topics
      BY DEF Events, GraphQL!Topics
    <2> HIDE DEF e
    <2> QED
      BY <2>1, <2>2, ExecutedStays, AnsweredFollows
  <1>5. ASSUME NEW b \in Subscribers,
               (\E topic \in GraphQL!Topics : GraphQL!Subscribe(b, topic)) \/ GraphQL!Unsubscribe(b)
        PROVE  GraphQLInv'
    <2>1. UNCHANGED <<requireAuth, scoped, executed>>
      BY <1>5 DEF GraphQL!Subscribe, GraphQL!Unsubscribe
    <2> QED
      BY <1>5, <2>1, ExecutedStays, SubscribeKeeps
  <1> QED
    BY <1>1, <1>2, <1>3, <1>4, <1>5 DEF GraphQL!Next

LEMMA GraphQLRests ==
    ASSUME GraphQLInv, UNCHANGED graphqlVars
    PROVE  GraphQLInv'
  <1>1. UNCHANGED <<requireAuth, scoped, executed, answers, listening, received>>
    BY DEF graphqlVars
  <1> QED
    BY <1>1, ExecutedStays, StreamStays DEF GraphQLInv

-----------------------------------------------------------------------------

\* A session admits one request, what is refused was not served, a session is denied
\* only by an instance that lacks it, a required scope is enforced, and who listens to a
\* topic of the exported pubsub has received what its mutation answered since, in order,
\* and nothing of the other topic.
THEOREM GatesAlwaysHold == VisitorsSpec => GatesHold
  <1> DEFINE Inv == PluginInv /\ GraphQLInv
  <1>1. VisitorsInit => Inv
    BY InitPlugin, InitGraphQL DEF VisitorsInit
  <1>2. Inv /\ [VisitorsNext]_visitorsVars => PluginInv' /\ \A r \in PluginRequests : Denied(r)
    BY PluginStep, PluginRests DEF VisitorsNext, visitorsVars
  <1>3. Inv /\ [VisitorsNext]_visitorsVars => GraphQLInv'
    BY GraphQLStep, GraphQLRests DEF VisitorsNext, visitorsVars
  <1>4. Inv => /\ front = "plugin" => Plugin!SpentOnce /\ Plugin!RefusedNotServed
               /\ front = "graphql" => GraphQL!ScopeEnforced /\ GraphQL!StreamFollowsAnswers
    BY PluginInvIsSound, GraphQLInvIsSound
  <1>5. Inv /\ [VisitorsNext]_visitorsVars
          => [\A r \in PluginRequests :
                told[r] = 0 /\ told'[r] = 404 => sessions[request'[r].s].at # request'[r].i]_Plugin!vars
    BY <1>2 DEF Denied
  <1> HIDE DEF Inv
  <1>6. Inv /\ [VisitorsNext]_visitorsVars => Inv'
    BY <1>2, <1>3 DEF Inv
  <1>7. VisitorsSpec => []Inv
    BY <1>1, <1>6, PTL DEF VisitorsSpec
  <1>8. VisitorsSpec => Plugin!DeniedIsForeign
    BY <1>5, <1>7, PTL DEF VisitorsSpec, Plugin!DeniedIsForeign
  <1> QED
    BY <1>4, <1>7, <1>8, PTL DEF GatesHold

=============================================================================
