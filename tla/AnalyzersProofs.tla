--------------------------- MODULE AnalyzersProofs ---------------------------
(***************************************************************************)
(* Proofs about the analyzers of a visitor's behaviour and device and about the   *)
(* generators of challenges, for any visitors, trails, keystrokes, sessions and    *)
(* numbers.  What is kept of an analysis is followed by an invariant over its      *)
(* cache, its sessions or its model; what a loop over metrics, keystrokes,         *)
(* movements or operands computes is found by unfolding its fold (SeriesProofs).   *)
(***************************************************************************)
EXTENDS MCAnalyzers, SeriesProofs

-----------------------------------------------------------------------------
(* BehaviorAnalysis.  A session ends no earlier than it starts, and no result *)
(* is of the future.                                                         *)

BehaviorTypes ==
    /\ analysisNow \in Nat \ {0} /\ changes \in Nat
    /\ tracked \in [Behavior!Analyzers -> [born : Nat, start : Nat, end : Nat, version : Nat]]
    /\ analyses \in [Behavior!Analyzers -> [version : Nat, at : Nat]]
    /\ detecting \in [born : Nat, start : Nat, end : Nat, version : Nat]

BehaviorInv ==
    /\ BehaviorTypes
    /\ \A a \in Behavior!Analyzers :
          /\ tracked[a].start <= analysisNow
          /\ tracked[a].end # 0 => tracked[a].start <= tracked[a].end
          /\ analyses[a].at <= analysisNow
    /\ Behavior!ResultsFresh

LEMMA InitBehavior == Behavior!Init => BehaviorInv
  <1> SUFFICES ASSUME Behavior!Init PROVE BehaviorInv
    OBVIOUS
  <1>1. /\ Behavior!NoSession \in [born : Nat, start : Nat, end : Nat, version : Nat]
        /\ Behavior!NoSession.start = 0 /\ Behavior!NoSession.end = 0
        /\ Behavior!NoResult \in [version : Nat, at : Nat] /\ Behavior!NoResult.at = 0
        /\ Behavior!NotEnded.age = 0
    BY DEF Behavior!NoSession, Behavior!NoResult, Behavior!NotEnded
  <1>2. /\ analysisNow = 1 /\ changes = 0 /\ ended = Behavior!NotEnded
        /\ detecting = Behavior!NoSession
        /\ tracked = [a \in Behavior!Analyzers |-> Behavior!NoSession]
        /\ analyses = [a \in Behavior!Analyzers |-> Behavior!NoResult]
    BY DEF Behavior!Init
  <1>3. BehaviorTypes
    BY <1>1, <1>2 DEF BehaviorTypes
  <1>4. Behavior!ResultsFresh
    BY <1>1, <1>2, AnalyzersAssumption DEF Behavior!ResultsFresh
  <1>5. \A a \in Behavior!Analyzers : tracked[a] = Behavior!NoSession /\ analyses[a] = Behavior!NoResult
    BY <1>2
  <1> QED
    BY <1>1, <1>2, <1>3, <1>4, <1>5 DEF BehaviorInv

\* A result that is used is of a session, now or less than the time to live ago.
LEMMA AnalysisIs ==
    ASSUME BehaviorInv, NEW a \in Behavior!Analyzers,
           NEW s \in [born : Nat, start : Nat, end : Nat, version : Nat]
    PROVE  LET r == Behavior!Analysis(a, s)
           IN  /\ r \in [version : Nat, at : Nat]
               /\ r.at <= analysisNow /\ analysisNow - r.at < CacheTTL
  <1>1. /\ analyses[a] \in [version : Nat, at : Nat] /\ analyses[a].at <= analysisNow
        /\ analysisNow \in Nat /\ CacheTTL \in Nat /\ CacheTTL > 0
    BY AnalyzersAssumption DEF BehaviorInv, BehaviorTypes
  <1>2. CASE Behavior!Fresh(analyses[a])
    BY <1>1, <1>2 DEF Behavior!Analysis, Behavior!Fresh
  <1>3. CASE ~Behavior!Fresh(analyses[a])
    BY <1>1, <1>3 DEF Behavior!Analysis
  <1> QED
    BY <1>2, <1>3

\* What a step of the analyzers does: it keeps the invariant, and only cleanup drops a
\* session, that has rested for longer than the age.
LEMMA NextBehavior ==
    ASSUME BehaviorInv, Behavior!Next
    PROVE  /\ BehaviorInv'
           /\ \A a \in Behavior!Analyzers :
                 (tracked[a] # Behavior!NoSession /\ tracked'[a] = Behavior!NoSession) =>
                    analysisNow - tracked[a].start > MaxAge /\ analysisNow - tracked[a].end > MaxAge
  <1> DEFINE Kept == \A a \in Behavior!Analyzers :
                 (tracked[a] # Behavior!NoSession /\ tracked'[a] = Behavior!NoSession) =>
                    analysisNow - tracked[a].start > MaxAge /\ analysisNow - tracked[a].end > MaxAge
             SessionType == [born : Nat, start : Nat, end : Nat, version : Nat]
  <1>0. /\ analysisNow \in Nat /\ analysisNow > 0 /\ changes \in Nat /\ changes + 1 # 0
        /\ changes + 1 \in Nat
        /\ tracked \in [Behavior!Analyzers -> SessionType]
        /\ \A a \in Behavior!Analyzers : tracked[a] \in SessionType
        /\ analyses \in [Behavior!Analyzers -> [version : Nat, at : Nat]]
        /\ detecting \in SessionType
    BY DEF BehaviorInv, BehaviorTypes
  <1>1. ASSUME NEW a \in Behavior!Analyzers, Behavior!CreateSession(a)
        PROVE  BehaviorInv' /\ Kept
    <2> DEFINE s == [born |-> changes + 1, start |-> analysisNow, end |-> 0, version |-> changes + 1]
    <2>1. /\ tracked' = [tracked EXCEPT ![a] = s] /\ changes' = changes + 1
          /\ UNCHANGED <<analysisNow, analyses, ended, detecting>>
      BY <1>1 DEF Behavior!CreateSession
    <2>2. /\ s \in SessionType /\ s # Behavior!NoSession /\ s.start = analysisNow /\ s.end = 0
      BY <1>0 DEF Behavior!NoSession
    <2> HIDE DEF s
    <2> QED
      BY <1>0, <2>1, <2>2 DEF BehaviorInv, BehaviorTypes, Behavior!ResultsFresh
  <1>2. ASSUME NEW a \in Behavior!Analyzers, Behavior!UpdateSession(a)
        PROVE  BehaviorInv' /\ Kept
    <2> DEFINE s == [tracked[a] EXCEPT !.version = changes + 1,
                                       !.end = IF a = "keystroke" THEN analysisNow ELSE @]
    <2>1. /\ tracked' = [tracked EXCEPT ![a] = s] /\ changes' = changes + 1
          /\ detecting' = detecting \/ detecting' = tracked'[a]
          /\ UNCHANGED <<analysisNow, analyses, ended>>
      BY <1>0, <1>2 DEF Behavior!UpdateSession
    <2>2. /\ s \in SessionType /\ s # Behavior!NoSession /\ s.start = tracked[a].start
          /\ s.end = tracked[a].end \/ s.end = analysisNow
      BY <1>0 DEF Behavior!NoSession
    <2> HIDE DEF s
    <2> QED
      BY <1>0, <2>1, <2>2 DEF BehaviorInv, BehaviorTypes, Behavior!ResultsFresh
  <1>3. ASSUME NEW a \in Behavior!Analyzers, Behavior!EndSession(a)
        PROVE  BehaviorInv' /\ Kept
    <2> DEFINE s == [tracked[a] EXCEPT !.end = analysisNow]
               r == Behavior!Analysis(a, tracked[a])
    <2>1. /\ tracked' = [tracked EXCEPT ![a] = s] /\ analyses' = [analyses EXCEPT ![a] = r]
          /\ ended' = [of |-> a, version |-> analyses'[a].version,
                       age |-> analysisNow - analyses'[a].at]
          /\ UNCHANGED <<analysisNow, changes, detecting>>
      BY <1>0, <1>3 DEF Behavior!EndSession
    <2>2. /\ s \in SessionType /\ s # Behavior!NoSession /\ s.start = tracked[a].start
          /\ s.end = analysisNow
      BY <1>0 DEF Behavior!NoSession
    <2>3. /\ r \in [version : Nat, at : Nat] /\ r.at <= analysisNow /\ analysisNow - r.at < CacheTTL
      BY <1>0, AnalysisIs
    <2> HIDE DEF s, r
    <2>4. analyses'[a] = r /\ ended'.age = analysisNow - r.at
      BY <1>0, <2>1
    <2> QED
      BY <1>0, <2>1, <2>2, <2>3, <2>4 DEF BehaviorInv, BehaviorTypes, Behavior!ResultsFresh
  <1>4. ASSUME NEW a \in Behavior!Analyzers, Behavior!Cleanup(a)
        PROVE  BehaviorInv' /\ Kept
    <2>1. /\ tracked' = [tracked EXCEPT ![a] =
                           IF Behavior!Expired(tracked[a]) THEN Behavior!NoSession ELSE tracked[a]]
          /\ UNCHANGED <<analysisNow, changes, ended, detecting>>
      BY <1>4 DEF Behavior!Cleanup
    <2>2. /\ analyses' \in [Behavior!Analyzers -> [version : Nat, at : Nat]]
          /\ \A b \in Behavior!Analyzers : analyses'[b] = analyses[b] \/ analyses'[b].at = 0
      BY <1>0, <1>4 DEF Behavior!Cleanup, Behavior!NoResult
    <2>3. Behavior!Expired(tracked[a]) =>
             analysisNow - tracked[a].start > MaxAge /\ analysisNow - tracked[a].end > MaxAge
      <3>1. /\ tracked[a].start \in Nat /\ tracked[a].end \in Nat /\ MaxAge \in Nat
            /\ tracked[a].end # 0 => tracked[a].start <= tracked[a].end
        BY <1>0, AnalyzersAssumption DEF BehaviorInv
      <3> QED
        BY <1>0, <3>1 DEF Behavior!Expired
    <2>4. /\ \A b \in Behavior!Analyzers : b # a => tracked'[b] = tracked[b]
          /\ \/ tracked'[a] = tracked[a]
             \/ tracked'[a] = Behavior!NoSession /\ Behavior!Expired(tracked[a])
          /\ tracked' \in [Behavior!Analyzers -> SessionType]
      <3>1. Behavior!NoSession \in SessionType
        BY DEF Behavior!NoSession
      <3> DEFINE next == IF Behavior!Expired(tracked[a]) THEN Behavior!NoSession ELSE tracked[a]
      <3>2. next \in SessionType /\ tracked' = [tracked EXCEPT ![a] = next]
        BY <1>0, <2>1, <3>1
      <3>3. \/ next = tracked[a]
            \/ next = Behavior!NoSession /\ Behavior!Expired(tracked[a])
        OBVIOUS
      <3> HIDE DEF SessionType, next
      <3>4. tracked \in [Behavior!Analyzers -> SessionType]
        BY <1>0
      <3>5. tracked'[a] = next /\ \A b \in Behavior!Analyzers : b # a => tracked'[b] = tracked[b]
        BY <3>2, <3>4
      <3>6. tracked' \in [Behavior!Analyzers -> SessionType]
        BY <3>2, <3>4
      <3>7. \/ tracked'[a] = tracked[a]
            \/ tracked'[a] = Behavior!NoSession /\ Behavior!Expired(tracked[a])
        BY <3>3, <3>5
      <3> QED
        BY <3>5, <3>6, <3>7
    <2>5. Kept
      BY <2>3, <2>4
    <2>6. \A b \in Behavior!Analyzers :
             /\ tracked'[b].start <= analysisNow'
             /\ tracked'[b].end # 0 => tracked'[b].start <= tracked'[b].end
             /\ analyses'[b].at <= analysisNow'
      <3>1. Behavior!NoSession.start = 0 /\ Behavior!NoSession.end = 0
        BY DEF Behavior!NoSession
      <3> QED
        BY <1>0, <2>1, <2>2, <2>4, <3>1 DEF BehaviorInv
    <2> QED
      BY <1>0, <2>1, <2>2, <2>4, <2>5, <2>6 DEF BehaviorInv, BehaviorTypes, Behavior!ResultsFresh
  <1>5. ASSUME NEW a \in Behavior!Analyzers, Behavior!DetectBot(a)
        PROVE  BehaviorInv' /\ Kept
    <2>1. /\ detecting' = tracked[a] /\ UNCHANGED <<analysisNow, changes, tracked, analyses, ended>>
      BY <1>5 DEF Behavior!DetectBot
    <2> QED
      BY <1>0, <2>1 DEF BehaviorInv, BehaviorTypes, Behavior!ResultsFresh
  <1>6. CASE Behavior!DetectReturns
    <2>1. /\ analyses' = [a \in Behavior!Analyzers |-> Behavior!Analysis(a, detecting)]
          /\ detecting' = Behavior!NoSession
          /\ UNCHANGED <<analysisNow, changes, tracked, ended>>
      BY <1>6 DEF Behavior!DetectReturns
    <2>2. \A a \in Behavior!Analyzers : /\ Behavior!Analysis(a, detecting) \in [version : Nat, at : Nat]
                                        /\ Behavior!Analysis(a, detecting).at <= analysisNow
      BY <1>0, AnalysisIs
    <2>3. /\ analyses' \in [Behavior!Analyzers -> [version : Nat, at : Nat]]
          /\ \A a \in Behavior!Analyzers : analyses'[a].at <= analysisNow
      BY <2>1, <2>2
    <2>4. Behavior!NoSession \in SessionType
      BY DEF Behavior!NoSession
    <2> QED
      BY <1>0, <2>1, <2>3, <2>4 DEF BehaviorInv, BehaviorTypes, Behavior!ResultsFresh
  <1>7. CASE Behavior!Tick
    <2>1. /\ analysisNow' = analysisNow + 1 /\ UNCHANGED <<changes, tracked, analyses, ended, detecting>>
      BY <1>7 DEF Behavior!Tick
    <2>2. \A a \in Behavior!Analyzers :
             analyses[a].at \in Nat /\ tracked[a].start \in Nat /\ tracked[a].end \in Nat
      BY <1>0
    <2> QED
      BY <1>0, <2>1, <2>2 DEF BehaviorInv, BehaviorTypes, Behavior!ResultsFresh
  <1> QED
    BY <1>1, <1>2, <1>3, <1>4, <1>5, <1>6, <1>7 DEF Behavior!Next

-----------------------------------------------------------------------------
(* BotModel.  The model in place is the latest one built.                    *)

BotInv ==
    /\ built \in Nat /\ model \in Nat /\ training \in Nat
    /\ model = Bot!None \/ model = built
    /\ training <= built

LEMMA InitBot == Bot!Init => BotInv
  BY DEF Bot!Init, BotInv, Bot!None

\* A step keeps the metrics and forgets the features with the model.
LEMMA NextBot ==
    ASSUME BotInv, Bot!Next
    PROVE  /\ BotInv'
           /\ fitMetrics # Bot!None => fitMetrics' # Bot!None
           /\ fitMetrics' # fitMetrics => fitMetrics' = training \/ training < built
           /\ model # Bot!None /\ model' = Bot!None => features' = Bot!None
  <1>1. CASE Bot!FitEnds
    BY <1>1 DEF Bot!FitEnds, BotInv, Bot!None
  <1>2. CASE Bot!Initialize
    BY <1>2 DEF Bot!Initialize, BotInv, Bot!None
  <1>3. CASE Bot!Dispose
    BY <1>3 DEF Bot!Dispose, BotInv, Bot!None
  <1>4. CASE Bot!Train
    BY <1>4 DEF Bot!Train, BotInv, Bot!None
  <1>5. CASE Bot!ClearCache \/ Bot!SessionUpdated \/ Bot!Predict
    BY <1>5 DEF Bot!ClearCache, Bot!SessionUpdated, Bot!Predict, BotInv, Bot!None
  <1> QED
    BY <1>1, <1>2, <1>3, <1>4, <1>5 DEF Bot!Next

\* A model that is as sure as the verdict demands is at 0.8 or above, or at 0.2 or below,
\* and then the analyzers cannot outweigh it.
LEMMA VerdictIs ==
    ASSUME NEW p \in 0 .. 10, NEW mouse \in 0 .. 10, NEW keystroke \in 0 .. 10
    PROVE  LET verdict == Bot!MLVerdict(Bot!CombinedScore(p, mouse, keystroke), Bot!Confidence(p))
           IN  (verdict = "bot" => p >= 8) /\ (verdict = "human" => p <= 2)
  <1> DEFINE score == Bot!CombinedScore(p, mouse, keystroke)
             confidence == Bot!Confidence(p)
             verdict == Bot!MLVerdict(score, confidence)
  <1>1. score = 5 * p + 3 * mouse + 2 * keystroke
    BY DEF Bot!CombinedScore
  <1>2. confidence >= 6 => p >= 8 \/ p <= 2
    BY DEF Bot!Confidence
  <1> HIDE DEF score, confidence
  <1>3. /\ verdict = "bot" => score >= 70 /\ confidence >= 6
        /\ verdict = "human" => score <= 30 /\ confidence >= 6
    BY DEF Bot!MLVerdict
  <1> HIDE DEF verdict
  <1> QED
    BY <1>1, <1>2, <1>3 DEF score, confidence, verdict

LEMMA VerdictsFollow == Bot!VerdictFollowsModel
  BY VerdictIs DEF Bot!VerdictFollowsModel

-----------------------------------------------------------------------------
(* DeviceFingerprint.  What is cached of a known device as unique was cached   *)
(* before it was registered.                                                 *)

Results == [unique : BOOLEAN, similarity : Nat, at : Nat]

FingerprintTypes ==
    /\ analysisNow \in Nat
    /\ known \in SUBSET Visitors
    /\ fingerprints \in [Visitors -> Results]
    /\ registered \in [Visitors -> Nat]

FingerprintInv ==
    /\ FingerprintTypes
    /\ \A d \in Visitors :
          /\ registered[d] <= analysisNow
          /\ fingerprints[d].at <= analysisNow
          /\ d \in known /\ fingerprints[d].unique => fingerprints[d].at <= registered[d]
          /\ fingerprints[d] # Fingerprint!NoResult /\ ~fingerprints[d].unique
                => fingerprints[d].similarity = 7
    /\ given.device \in SUBSET Visitors

LEMMA FingerprintNames ==
    /\ \A S : Fingerprint!Cardinality(S) = Cardinality(S)
    /\ \A S : Fingerprint!Max(S) = CHOOSE x \in S : \A y \in S : x >= y
    /\ \A S : Fingerprint!Min(S) = CHOOSE x \in S : \A y \in S : x <= y
  BY DEF Fingerprint!Cardinality, Cardinality, Fingerprint!Max, Fingerprint!Min

\* Five of the seven parts of a comparison tell devices apart.
LEMMA MatchesIs ==
    ASSUME NEW d, NEW e
    PROVE  /\ Fingerprint!Matches(d, e) \in Nat /\ Fingerprint!Matches(d, e) <= 7
           /\ Fingerprint!Matches(d, d) = 7
  <1> DEFINE Parts == {"platform", "screen", "cores", "canvas", "webgl"}
  <1>1. IsFiniteSet(Parts) /\ Cardinality(Parts) = 5
    <2>1. IsFiniteSet({"platform"}) /\ Cardinality({"platform"}) = 1
      BY FS_Singleton
    <2>2. /\ IsFiniteSet({"platform"} \cup {"screen"})
          /\ Cardinality({"platform"} \cup {"screen"}) = 2
      BY <2>1, FS_AddElement
    <2>3. /\ IsFiniteSet({"platform"} \cup {"screen"} \cup {"cores"})
          /\ Cardinality({"platform"} \cup {"screen"} \cup {"cores"}) = 3
      BY <2>2, FS_AddElement
    <2>4. /\ IsFiniteSet({"platform"} \cup {"screen"} \cup {"cores"} \cup {"canvas"})
          /\ Cardinality({"platform"} \cup {"screen"} \cup {"cores"} \cup {"canvas"}) = 4
      BY <2>3, FS_AddElement
    <2>5. /\ IsFiniteSet({"platform"} \cup {"screen"} \cup {"cores"} \cup {"canvas"} \cup {"webgl"})
          /\ Cardinality({"platform"} \cup {"screen"} \cup {"cores"} \cup {"canvas"} \cup {"webgl"}) = 5
      BY <2>4, FS_AddElement
    <2>6. Parts = {"platform"} \cup {"screen"} \cup {"cores"} \cup {"canvas"} \cup {"webgl"}
      OBVIOUS
    <2> QED
      BY <2>5, <2>6
  <1>2. ASSUME NEW b PROVE LET S == {t \in Parts : d[t] = b[t]}
                           IN  Cardinality(S) \in Nat /\ Cardinality(S) <= 5
    <2>1. {t \in Parts : d[t] = b[t]} \in SUBSET Parts
      OBVIOUS
    <2> HIDE DEF Parts
    <2> QED
      BY <1>1, <2>1, FS_Subset, FS_CardinalityType
  <1>3. {t \in Parts : d[t] = d[t]} = Parts
    OBVIOUS
  <1>4. \A b : Fingerprint!Matches(d, b) = Cardinality({t \in Parts : d[t] = b[t]}) + 2
    BY FingerprintNames DEF Fingerprint!Matches
  <1>5. Fingerprint!Matches(d, d) = Cardinality(Parts) + 2
    BY <1>3, <1>4
  <1> DEFINE n == Cardinality({t \in Parts : d[t] = e[t]})
  <1>6. n \in Nat /\ n <= 5 /\ Fingerprint!Matches(d, e) = n + 2
    BY <1>2, <1>4
  <1> HIDE DEF Parts, n
  <1> QED
    BY <1>1, <1>5, <1>6

\* A known device is as similar as can be to a known one.
LEMMA SimilarityIs ==
    ASSUME NEW d
    PROVE  /\ Fingerprint!Similarity(d) \in Nat
           /\ d \in known => Fingerprint!Similarity(d) = 7
  <1> DEFINE S == {Fingerprint!Matches(d, k) : k \in known}
  <1>1. \A x \in S : x \in 0 .. 7
    BY MatchesIs
  <1>2. CASE known = {}
    BY <1>2 DEF Fingerprint!Similarity
  <1>3. CASE known # {}
    <2>1. S # {} /\ Fingerprint!Similarity(d) = CHOOSE x \in S : \A y \in S : x >= y
      BY <1>3, FingerprintNames DEF Fingerprint!Similarity
    <2>2. \E x \in S : \A y \in S : x >= y
      <3> DEFINE T == {7 - x : x \in S}
      <3>1. T \in SUBSET Nat /\ T # {}
        BY <1>1, <2>1
      <3>2. PICK m \in T : \A y \in T : m <= y
        BY <3>1, LeastExists
      <3>3. PICK x \in S : m = 7 - x
        BY <3>2
      <3>4. \A y \in S : 7 - y \in T
        OBVIOUS
      <3> HIDE DEF T, S
      <3>5. \A y \in S : 7 - x <= 7 - y
        BY <3>2, <3>3, <3>4
      <3> QED
        BY <1>1, <3>5
    <2> HIDE DEF S
    <2>3. Fingerprint!Similarity(d) \in S /\ \A y \in S : Fingerprint!Similarity(d) >= y
      BY <2>1, <2>2
    <2>4. ASSUME d \in known PROVE 7 \in S
      BY <2>4, MatchesIs DEF S
    <2> QED
      BY <1>1, <2>3, <2>4
  <1> QED
    BY <1>2, <1>3

LEMMA InitFingerprint == Fingerprint!Init => FingerprintInv
  <1> SUFFICES ASSUME Fingerprint!Init PROVE FingerprintInv
    OBVIOUS
  <1>1. /\ Fingerprint!NoResult \in Results /\ Fingerprint!NoResult.at = 0
        /\ ~Fingerprint!NoResult.unique /\ Fingerprint!NotGiven.device = {}
    BY DEF Fingerprint!NoResult, Results, Fingerprint!NotGiven
  <1>2. /\ analysisNow = 1 /\ known = {} /\ given = Fingerprint!NotGiven
        /\ fingerprints = [d \in Visitors |-> Fingerprint!NoResult]
        /\ registered = [d \in Visitors |-> 0]
    BY DEF Fingerprint!Init
  <1>3. \A d \in Visitors : fingerprints[d] = Fingerprint!NoResult /\ registered[d] = 0
    BY <1>2
  <1>4. FingerprintTypes
    BY <1>1, <1>2 DEF FingerprintTypes
  <1> QED
    BY <1>1, <1>2, <1>3, <1>4 DEF FingerprintInv

\* What a step returns, and of which device.
Recognised ==
    \A d \in known :
       /\ given' # given /\ given'.device = {d} /\ given'.result.unique =>
             analysisNow - registered[d] < CacheTTL
       /\ given' # given /\ given'.device = {d} /\ ~given'.result.unique =>
             given'.result.similarity = 7

LEMMA NextFingerprint ==
    ASSUME FingerprintInv, Fingerprint!Next
    PROVE  FingerprintInv' /\ Recognised
  <1>0. /\ analysisNow \in Nat /\ known \in SUBSET Visitors
        /\ fingerprints \in [Visitors -> Results] /\ registered \in [Visitors -> Nat]
        /\ \A d \in Visitors : /\ fingerprints[d] \in Results /\ fingerprints[d].at \in Nat
                               /\ registered[d] \in Nat
    BY DEF FingerprintInv, FingerprintTypes, Results
  <1>1. ASSUME NEW d \in Visitors, Fingerprint!AnalyzeFingerprint(d)
        PROVE  FingerprintInv' /\ Recognised
    <2> DEFINE fresh == [unique |-> d \notin known, similarity |-> Fingerprint!Similarity(d),
                         at |-> analysisNow]
               r == IF Fingerprint!Fresh(d) THEN fingerprints[d] ELSE fresh
    <2>1. /\ fingerprints' = [fingerprints EXCEPT ![d] = r]
          /\ given' = [device |-> {d}, result |-> fingerprints'[d]]
          /\ UNCHANGED <<analysisNow, known, registered>>
      BY <1>0, <1>1 DEF Fingerprint!AnalyzeFingerprint
    <2>2. /\ fresh \in Results /\ fresh.at = analysisNow
          /\ fresh.unique <=> d \notin known
          /\ d \in known => fresh.similarity = 7
      BY <1>0, SimilarityIs DEF Results
    <2> HIDE DEF fresh
    <2>3. /\ fingerprints' \in [Visitors -> Results]
          /\ \A b \in Visitors : b # d => fingerprints'[b] = fingerprints[b]
          /\ fingerprints'[d] = r
      BY <1>0, <2>1, <2>2
    <2>4. /\ r.at <= analysisNow
          /\ d \in known /\ r.unique => r.at <= registered[d]
          /\ r # Fingerprint!NoResult /\ ~r.unique => r.similarity = 7
      BY <1>0, <2>2 DEF FingerprintInv
    <2>5. analysisNow - r.at < CacheTTL /\ r # Fingerprint!NoResult /\ r.at \in Nat
      <3>1. CASE Fingerprint!Fresh(d)
        BY <1>0, <3>1 DEF Fingerprint!Fresh
      <3>2. CASE ~Fingerprint!Fresh(d)
        <4>1. r = fresh /\ CacheTTL > 0 /\ CacheTTL \in Nat
          BY <3>2, AnalyzersAssumption
        <4>2. Fingerprint!NoResult.unique = FALSE /\ Fingerprint!NoResult.similarity = 0
          BY DEF Fingerprint!NoResult
        <4> QED
          BY <1>0, <2>2, <4>1, <4>2
      <3> QED
        BY <3>1, <3>2
    <2> HIDE DEF r
    <2>6. given'.device = {d} /\ given'.result = r
      BY <2>1, <2>3
    <2>7. Recognised
      <3> SUFFICES ASSUME NEW b \in known, given'.device = {b}
                   PROVE  /\ given'.result.unique => analysisNow - registered[b] < CacheTTL
                          /\ ~given'.result.unique => given'.result.similarity = 7
        BY DEF Recognised
      <3>1. b = d
        BY <2>6
      <3>2. CacheTTL \in Nat
        BY AnalyzersAssumption
      <3> QED
        BY <1>0, <2>4, <2>5, <2>6, <3>1, <3>2
    <2> QED
      BY <1>0, <2>1, <2>3, <2>4, <2>6, <2>7 DEF FingerprintInv, FingerprintTypes
  <1>2. ASSUME NEW d \in Visitors, Fingerprint!RegisterFingerprint(d)
        PROVE  FingerprintInv' /\ Recognised
    <2>1. /\ known' = known \cup {d} /\ registered' = [registered EXCEPT ![d] = analysisNow]
          /\ UNCHANGED <<analysisNow, fingerprints, given>>
      BY <1>2 DEF Fingerprint!RegisterFingerprint
    <2>2. Recognised
      BY <2>1 DEF Recognised
    <2>3. /\ registered' \in [Visitors -> Nat] /\ registered'[d] = analysisNow
          /\ \A b \in Visitors : b # d => registered'[b] = registered[b]
      BY <1>0, <2>1
    <2> QED
      BY <1>0, <2>1, <2>2, <2>3 DEF FingerprintInv, FingerprintTypes
  <1>3. CASE Fingerprint!Cleanup
    <2>1. /\ \A d \in Visitors : fingerprints'[d] = fingerprints[d]
                                 \/ fingerprints'[d] = Fingerprint!NoResult
          /\ fingerprints' \in [Visitors -> Results]
          /\ UNCHANGED <<analysisNow, known, given, registered>>
      <3>1. Fingerprint!NoResult \in Results
        BY DEF Fingerprint!NoResult, Results
      <3> QED
        BY <1>0, <1>3, <3>1 DEF Fingerprint!Cleanup
    <2>2. Recognised
      BY <2>1 DEF Recognised
    <2>3. Fingerprint!NoResult.at = 0 /\ Fingerprint!NoResult.unique = FALSE
      BY DEF Fingerprint!NoResult
    <2> QED
      BY <1>0, <2>1, <2>2, <2>3 DEF FingerprintInv, FingerprintTypes
  <1>4. CASE Fingerprint!Tick
    <2>1. analysisNow' = analysisNow + 1 /\ UNCHANGED <<known, fingerprints, given, registered>>
      BY <1>4 DEF Fingerprint!Tick
    <2>2. Recognised
      BY <2>1 DEF Recognised
    <2> QED
      BY <1>0, <2>1, <2>2 DEF FingerprintInv, FingerprintTypes
  <1> QED
    BY <1>1, <1>2, <1>3, <1>4 DEF Fingerprint!Next

\* For any times and bounds, and whatever the analyzers are asked in whatever order, what
\* they keep does not outlive what it was made of.
THEOREM AnalysesAlwaysFresh == AnalyzersSpec => AnalysesFresh
  <1> DEFINE Inv == /\ analyzer = "behavior" => BehaviorInv
                    /\ analyzer = "bot" => BotInv
                    /\ analyzer = "fingerprint" => FingerprintInv
             Active == \A a \in Behavior!Analyzers :
                (tracked[a] # Behavior!NoSession /\ tracked'[a] = Behavior!NoSession) =>
                   /\ analysisNow - tracked[a].start > MaxAge
                   /\ analysisNow - tracked[a].end > MaxAge
             Fitted == /\ fitMetrics # Bot!None => fitMetrics' # Bot!None
                       /\ fitMetrics' # fitMetrics =>
                             fitMetrics' = training \/ training < built
             Disposed == model # Bot!None /\ model' = Bot!None => features' = Bot!None
  <1>1. AnalyzersInit => Inv
    BY InitBehavior, InitBot, InitFingerprint DEF AnalyzersInit
  <1>2. Inv /\ [AnalyzersNext]_analyzersVars => Inv' /\ Active /\ Fitted /\ Disposed /\ Recognised
    <2> SUFFICES ASSUME Inv, [AnalyzersNext]_analyzersVars
                 PROVE  Inv' /\ Active /\ Fitted /\ Disposed /\ Recognised
      OBVIOUS
    <2>0. UNCHANGED analyzer
      BY DEF AnalyzersNext, analyzersVars
    <2>1. \/ analyzer = "behavior" /\ Behavior!Next
          \/ UNCHANGED <<tracked, analysisNow, changes, analyses, ended, detecting>>
          \/ analyzer # "behavior" /\ UNCHANGED tracked
      BY DEF AnalyzersNext, analyzersVars, behaviorVars
    <2>2. (analyzer = "behavior" => BehaviorInv') /\ Active
      <3>1. CASE analyzer = "behavior" /\ Behavior!Next
        BY <3>1, NextBehavior
      <3>2. CASE UNCHANGED <<tracked, analysisNow, changes, analyses, ended, detecting>>
        BY <3>2 DEF BehaviorInv, BehaviorTypes, Behavior!ResultsFresh
      <3>3. CASE analyzer # "behavior" /\ UNCHANGED tracked
        BY <3>3
      <3> QED
        BY <2>1, <3>1, <3>2, <3>3
    <2>3. \/ analyzer = "bot" /\ Bot!Next
          \/ UNCHANGED <<model, built, training, features, fitMetrics>>
      BY DEF AnalyzersNext, analyzersVars, modelVars
    <2>4. (analyzer = "bot" => BotInv') /\ Fitted /\ Disposed
      <3>1. CASE analyzer = "bot" /\ Bot!Next
        BY <3>1, NextBot
      <3>2. CASE UNCHANGED <<model, built, training, features, fitMetrics>>
        BY <3>2 DEF BotInv
      <3> QED
        BY <2>3, <3>1, <3>2
    <2>5. \/ analyzer = "fingerprint" /\ Fingerprint!Next
          \/ UNCHANGED <<analysisNow, known, fingerprints, given, registered>>
          \/ analyzer # "fingerprint" /\ UNCHANGED given
      BY DEF AnalyzersNext, analyzersVars, fingerprintVars
    <2>6. (analyzer = "fingerprint" => FingerprintInv') /\ Recognised
      <3>1. CASE analyzer = "fingerprint" /\ Fingerprint!Next
        BY <3>1, NextFingerprint
      <3>2. CASE UNCHANGED <<analysisNow, known, fingerprints, given, registered>>
        BY <3>2 DEF FingerprintInv, FingerprintTypes, Recognised
      <3>3. CASE analyzer # "fingerprint" /\ UNCHANGED given
        BY <3>3 DEF Recognised
      <3> QED
        BY <2>5, <3>1, <3>2, <3>3
    <2> QED
      BY <2>0, <2>2, <2>4, <2>6
  <1>3. Inv => (analyzer = "behavior" => Behavior!ResultsFresh)
    BY DEF BehaviorInv
  <1>4. AnalyzersSpec => []Inv
    BY <1>1, <1>2, PTL DEF AnalyzersSpec
  <1>5. AnalyzersSpec => [](analyzer = "behavior" => Behavior!ResultsFresh)
    BY <1>3, <1>4, PTL
  <1>6. AnalyzersSpec => Behavior!ActiveSessionsKept
    BY <1>2, <1>4, PTL DEF AnalyzersSpec, Behavior!ActiveSessionsKept
  <1>7. AnalyzersSpec => Bot!MetricsKept
    BY <1>2, <1>4, PTL DEF AnalyzersSpec, Bot!MetricsKept
  <1>8. AnalyzersSpec => Bot!DisposedIsForgotten
    BY <1>2, <1>4, PTL DEF AnalyzersSpec, Bot!DisposedIsForgotten
  <1>9. AnalyzersSpec => Fingerprint!RegisteredIsRecognised
    BY <1>2, <1>4, PTL DEF AnalyzersSpec, Fingerprint!RegisteredIsRecognised, Recognised
  <1>10. AnalyzersSpec => [](analyzer = "bot" => Bot!VerdictFollowsModel)
    BY VerdictsFollow, PTL
  <1> QED
    BY <1>5, <1>6, <1>7, <1>8, <1>9, <1>10, PTL DEF AnalysesFresh

-----------------------------------------------------------------------------
(* AnomalyDetector.  The bounds of a threshold hold its last value.            *)

Thresholds == [count : Nat, baseline : Int, current : Int, upper : Int, lower : Int]

Within(t) == t.lower <= 2 * t.current /\ 2 * t.current <= t.upper

DetectorInv ==
    /\ thresholds \in [SessionMetrics -> Thresholds]
    /\ \A m \in SessionMetrics : thresholds[m].count > 0 => Within(thresholds[m])
    /\ flagged = {}
    /\ sample \in [1 .. 5 -> Nat]
    /\ series \in Seq(Nat)

LEMMA FirstIs ==
    ASSUME NEW v \in Nat
    PROVE  /\ Detector!First(v) \in Thresholds /\ Detector!First(v).count > 0
           /\ Within(Detector!First(v))
  BY DEF Detector!First, Thresholds, Within

\* The new baseline is no further from the value than the old one, and the bounds are twice
\* that distance from it.
LEMMA UpdatedIs ==
    ASSUME NEW t \in Thresholds, NEW v \in Nat, NEW b \in Detector!Towards(t.baseline, v)
    PROVE  /\ Detector!Updated(t, v, b) \in Thresholds /\ Detector!Updated(t, v, b).count > 0
           /\ Within(Detector!Updated(t, v, b))
  <1> DEFINE o == t.baseline
             d == Detector!Abs(v - o)
             u == Detector!Updated(t, v, b)
  <1>1. o \in Int /\ t.count \in Nat
    BY DEF Thresholds
  <1>2. b \in Int /\ ((o <= b /\ b <= v) \/ (v <= b /\ b <= o))
    <2>1. Detector!Abs(o) \in Int /\ Detector!Abs(v) \in Int
      BY <1>1 DEF Detector!Abs
    <2> QED
      BY <2>1 DEF Detector!Towards
  <1>3. d \in Int /\ v - o <= d /\ o - v <= d /\ 0 <= d
    BY <1>1 DEF Detector!Abs
  <1>4. u = [count |-> t.count + 1, baseline |-> b, current |-> v,
             upper |-> 2 * (b + 2 * d), lower |-> 2 * (b - 2 * d)]
    BY DEF Detector!Updated
  <1> HIDE DEF o, d, u
  <1>5. v <= b + 2 * d /\ b - 2 * d <= v
    BY <1>1, <1>2, <1>3
  <1> QED
    BY <1>1, <1>2, <1>3, <1>4, <1>5 DEF Thresholds, Within, u

LEMMA InitDetector == Detector!Init => DetectorInv
  <1> SUFFICES ASSUME Detector!Init PROVE DetectorInv
    OBVIOUS
  <1>1. Detector!NoThreshold \in Thresholds /\ Detector!NoThreshold.count = 0
    BY DEF Detector!NoThreshold, Thresholds
  <1>2. /\ thresholds = [m \in SessionMetrics |-> Detector!NoThreshold]
        /\ sample = <<0, 0, 0, 0, 0>> /\ series = << >> /\ flagged = {}
    BY DEF Detector!Init
  <1>3. sample \in [1 .. 5 -> Nat] /\ series \in Seq(Nat)
    BY <1>2
  <1> QED
    BY <1>1, <1>2, <1>3 DEF DetectorInv

LEMMA NextDetector ==
    ASSUME DetectorInv, Detector!Next
    PROVE  DetectorInv'
  <1>0. /\ thresholds \in [SessionMetrics -> Thresholds]
        /\ \A m \in SessionMetrics : thresholds[m] \in Thresholds
    BY DEF DetectorInv
  <1>1. ASSUME NEW session \in Sessions, Detector!DetectAnomalies(session)
        PROVE  DetectorInv'
    <2> DEFINE values == session.metrics
               New(m, x) == IF thresholds[m].count = 0 THEN Detector!First(values[m])
                            ELSE Detector!Updated(thresholds[m], values[m], x)
    <2>1. values \in [1 .. 5 -> Nat] /\ session.series \in Seq(Nat)
      BY AnalyzersAssumption
    <2>2. /\ flagged' = {m \in SessionMetrics : Detector!Exceeds(thresholds'[m])}
          /\ sample' = values /\ series' = session.series
      BY <1>1 DEF Detector!DetectAnomalies
    <2>3. PICK b : /\ \A m \in SessionMetrics :
                         b[m] \in Detector!Towards(thresholds[m].baseline, values[m])
                   /\ thresholds' = [m \in SessionMetrics |-> New(m, b[m])]
      BY <1>1 DEF Detector!DetectAnomalies
    <2>4. ASSUME NEW m \in SessionMetrics
          PROVE  /\ New(m, b[m]) \in Thresholds /\ New(m, b[m]).count > 0
                 /\ Within(New(m, b[m]))
      <3>1. values[m] \in Nat
        BY <2>1, AnalyzersAssumption
      <3>2. b[m] \in Detector!Towards(thresholds[m].baseline, values[m])
        BY <2>3
      <3> HIDE DEF values
      <3>3. CASE thresholds[m].count = 0
        BY <3>1, <3>3, FirstIs
      <3>4. CASE thresholds[m].count # 0
        BY <1>0, <3>1, <3>2, <3>4, UpdatedIs
      <3> QED
        BY <3>3, <3>4
    <2> HIDE DEF New, values
    <2>5. /\ thresholds' \in [SessionMetrics -> Thresholds]
          /\ \A m \in SessionMetrics : Within(thresholds'[m]) /\ thresholds'[m] \in Thresholds
      BY <2>3, <2>4
    <2>6. \A m \in SessionMetrics : ~ Detector!Exceeds(thresholds'[m])
      BY <2>5 DEF Detector!Exceeds, Within, Thresholds
    <2> QED
      BY <2>1, <2>2, <2>5, <2>6 DEF DetectorInv
  <1>2. CASE Detector!ResetAdaptiveThresholds
    <2>1. Detector!NoThreshold \in Thresholds /\ Detector!NoThreshold.count = 0
      BY DEF Detector!NoThreshold, Thresholds
    <2>2. /\ thresholds' = [m \in SessionMetrics |-> Detector!NoThreshold]
          /\ UNCHANGED <<sample, series, flagged>>
      BY <1>2 DEF Detector!ResetAdaptiveThresholds
    <2> QED
      BY <2>1, <2>2 DEF DetectorInv
  <1> QED
    BY <1>1, <1>2 DEF Detector!Next

LEMMA DetectorHolds == DetectorInv => Detector!ThresholdsNeverExceeded
  BY DEF DetectorInv, Detector!ThresholdsNeverExceeded, Within

-----------------------------------------------------------------------------
(* The statistics of five values.                                            *)

\* A total is a sum.
LEMMA TotalIs == ASSUME NEW s PROVE Detector!Total(s) = Sum(s, DOMAIN s)
  BY DEF Detector!Total, Detector!FoldSeq, Detector!FoldFunction, Detector!FoldFunctionOnSet,
         Detector!MapThenFoldSet, Sum

\* A sum of five.
LEMMA SumOfFive ==
    ASSUME NEW f, Whole(f, 1 .. 5)
    PROVE  Sum(f, 1 .. 5) = f[1] + f[2] + f[3] + f[4] + f[5]
  <1>1. \A i \in 1 .. 5 : f[i] \in Int
    BY DEF Whole
  <1>2. \A m \in 1 .. 5 : Sum(f, 1 .. m) = Sum(f, 1 .. (m - 1)) + f[m]
    <2> SUFFICES ASSUME NEW m \in 1 .. 5
                 PROVE  Sum(f, 1 .. m) = Sum(f, 1 .. (m - 1)) + f[m]
      OBVIOUS
    <2>1. 5 \in Nat /\ m \in 0 .. 5 /\ m > 0
      OBVIOUS
    <2> QED
      BY <2>1, SumUpTo
  <1>3. Sum(f, 1 .. 0) = 0
    <2>1. 5 \in Nat /\ 0 \in 0 .. 5
      OBVIOUS
    <2> QED
      BY <2>1, SumUpTo
  <1>4. /\ Sum(f, 1 .. 1) = Sum(f, 1 .. 0) + f[1] /\ Sum(f, 1 .. 2) = Sum(f, 1 .. 1) + f[2]
        /\ Sum(f, 1 .. 3) = Sum(f, 1 .. 2) + f[3] /\ Sum(f, 1 .. 4) = Sum(f, 1 .. 3) + f[4]
        /\ Sum(f, 1 .. 5) = Sum(f, 1 .. 4) + f[5]
    BY <1>2
  <1> QED
    BY <1>1, <1>3, <1>4

\* Five differences that add up to nothing: four fifths of their squares are no less than one.
LEMMA FiveSquares ==
    ASSUME NEW a \in Int, NEW b \in Int, NEW c \in Int, NEW d \in Int, NEW e \in Int,
           a + b + c + d + e = 0
    PROVE  5 * (a * a) <= 4 * (a * a + b * b + c * c + d * d + e * e)
  <1>1. a = 0 - (b + c + d + e)
    OBVIOUS
  <1>2. a * a = (b + c + d + e) * (b + c + d + e)
    <2> DEFINE g == b + c + d + e
    <2>1. g \in Int /\ a = 0 - g
      BY <1>1
    <2> HIDE DEF g
    <2>2. a * a = g * g
      BY <2>1
    <2> QED
      BY <2>2 DEF g
  <1>3. (b + c + d + e) * (b + c + d + e)
           + ((b - c) * (b - c) + (b - d) * (b - d) + (b - e) * (b - e)
              + (c - d) * (c - d) + (c - e) * (c - e) + (d - e) * (d - e))
           = 4 * (b * b + c * c + d * d + e * e)
    OBVIOUS
  <1>4. \A x \in Int : x * x >= 0 /\ x * x \in Int
    OBVIOUS
  <1> DEFINE p == a * a
             q == b * b + c * c + d * d + e * e
             r == (b - c) * (b - c) + (b - d) * (b - d) + (b - e) * (b - e)
                  + (c - d) * (c - d) + (c - e) * (c - e) + (d - e) * (d - e)
  <1>5. p \in Int /\ q \in Int /\ p + r = 4 * q
    BY <1>2, <1>3
  <1>6. r >= 0 /\ r \in Int
    <2>1. /\ b - c \in Int /\ b - d \in Int /\ b - e \in Int
          /\ c - d \in Int /\ c - e \in Int /\ d - e \in Int
      OBVIOUS
    <2>2. \A u, v, w, x, y, z \in Int :
             u >= 0 /\ v >= 0 /\ w >= 0 /\ x >= 0 /\ y >= 0 /\ z >= 0
                => u + v + w + x + y + z >= 0 /\ u + v + w + x + y + z \in Int
      OBVIOUS
    <2> QED
      BY <1>4, <2>1, <2>2
  <1>7. a * a + b * b + c * c + d * d + e * e = p + q
    OBVIOUS
  <1> HIDE DEF p, q, r
  <1>8. 5 * p <= 4 * (p + q)
    BY <1>5, <1>6
  <1> QED
    BY <1>7, <1>8 DEF p

LEMMA ZScores == ASSUME DetectorInv PROVE Detector!ZScoresNeverHigh
  <1> DEFINE T == Detector!Total(sample)
             d == [i \in 1 .. 5 |-> 5 * sample[i] - T]
             sq == [i \in 1 .. 5 |-> (5 * sample[i] - T) * (5 * sample[i] - T)]
  <1>1. /\ DOMAIN sample = 1 .. 5 /\ Detector!Len(sample) = 5
        /\ \A i \in 1 .. 5 : sample[i] \in Int
    <2>1. sample \in [1 .. 5 -> Nat] /\ 5 \in Nat
      BY DEF DetectorInv
    <2>2. sample \in Seq(Nat)
      BY <2>1, SeqDef
    <2> QED
      BY <2>1, <2>2
  <1>2. T = sample[1] + sample[2] + sample[3] + sample[4] + sample[5] /\ T \in Int
    BY <1>1, TotalIs, SumOfFive DEF Whole
  <1> HIDE DEF T
  <1>3. \A i \in 1 .. 5 : d[i] \in Int /\ sq[i] = d[i] * d[i] /\ sq[i] \in Int
    BY <1>1, <1>2
  <1>4. d[1] + d[2] + d[3] + d[4] + d[5] = 0
    BY <1>1, <1>2
  <1>5. Detector!Variance(sample) = Sum(sq, 1 .. 5)
    BY <1>1, TotalIs DEF Detector!Variance, T
  <1>6. Sum(sq, 1 .. 5) = sq[1] + sq[2] + sq[3] + sq[4] + sq[5]
    BY <1>3, SumOfFive DEF Whole
  <1>7. ASSUME NEW i \in 1 .. 5
        PROVE  5 * (d[i] * d[i]) <= 4 * Detector!Variance(sample)
    <2>1. /\ sq[1] = d[1] * d[1] /\ sq[2] = d[2] * d[2] /\ sq[3] = d[3] * d[3]
          /\ sq[4] = d[4] * d[4] /\ sq[5] = d[5] * d[5]
      BY <1>3
    <2>2. /\ d[1] \in Int /\ d[2] \in Int /\ d[3] \in Int /\ d[4] \in Int /\ d[5] \in Int
      BY <1>3
    <2> HIDE DEF d, sq
    <2> DEFINE a1 == d[1]
               a2 == d[2]
               a3 == d[3]
               a4 == d[4]
               a5 == d[5]
               v == Detector!Variance(sample)
               q1 == a1 * a1
               q2 == a2 * a2
               q3 == a3 * a3
               q4 == a4 * a4
               q5 == a5 * a5
    <2>3. v = q1 + q2 + q3 + q4 + q5
      BY <1>5, <1>6, <2>1
    <2>4. a1 \in Int /\ a2 \in Int /\ a3 \in Int /\ a4 \in Int /\ a5 \in Int
      BY <2>2
    <2>5. a1 + a2 + a3 + a4 + a5 = 0
      BY <1>4
    <2> HIDE DEF v
    <2>6. 5 * (d[1] * d[1]) <= 4 * v
      <3> HIDE DEF a1, a2, a3, a4, a5
      <3>1. 5 * q1 <= 4 * (q1 + q2 + q3 + q4 + q5)
        BY <2>4, <2>5, FiveSquares
      <3> QED
        BY <2>3, <3>1 DEF a1
    <2>7. 5 * (d[2] * d[2]) <= 4 * v
      <3> HIDE DEF a1, a2, a3, a4, a5
      <3>1. a2 + a1 + a3 + a4 + a5 = 0
        BY <2>4, <2>5
      <3>2. 5 * q2 <= 4 * (q2 + q1 + q3 + q4 + q5)
        BY <2>4, <3>1, FiveSquares
      <3>3. q2 + q1 + q3 + q4 + q5 = v
        BY <2>3, <2>4
      <3> QED
        BY <3>2, <3>3 DEF a2
    <2>8. 5 * (d[3] * d[3]) <= 4 * v
      <3> HIDE DEF a1, a2, a3, a4, a5
      <3>1. a3 + a1 + a2 + a4 + a5 = 0
        BY <2>4, <2>5
      <3>2. 5 * q3 <= 4 * (q3 + q1 + q2 + q4 + q5)
        BY <2>4, <3>1, FiveSquares
      <3>3. q3 + q1 + q2 + q4 + q5 = v
        BY <2>3, <2>4
      <3> QED
        BY <3>2, <3>3 DEF a3
    <2>9. 5 * (d[4] * d[4]) <= 4 * v
      <3> HIDE DEF a1, a2, a3, a4, a5
      <3>1. a4 + a1 + a2 + a3 + a5 = 0
        BY <2>4, <2>5
      <3>2. 5 * q4 <= 4 * (q4 + q1 + q2 + q3 + q5)
        BY <2>4, <3>1, FiveSquares
      <3>3. q4 + q1 + q2 + q3 + q5 = v
        BY <2>3, <2>4
      <3> QED
        BY <3>2, <3>3 DEF a4
    <2>10. 5 * (d[5] * d[5]) <= 4 * v
      <3> HIDE DEF a1, a2, a3, a4, a5
      <3>1. a5 + a1 + a2 + a3 + a4 = 0
        BY <2>4, <2>5
      <3>2. 5 * q5 <= 4 * (q5 + q1 + q2 + q3 + q4)
        BY <2>4, <3>1, FiveSquares
      <3>3. q5 + q1 + q2 + q3 + q4 = v
        BY <2>3, <2>4
      <3> QED
        BY <3>2, <3>3 DEF a5
    <2>11. i = 1 \/ i = 2 \/ i = 3 \/ i = 4 \/ i = 5
      OBVIOUS
    <2> QED
      BY <2>6, <2>7, <2>8, <2>9, <2>10, <2>11 DEF v
  <1>8. \A i \in 1 .. 5 : ~ Detector!HighZScore(sample, i)
    <2> SUFFICES ASSUME NEW i \in 1 .. 5 PROVE ~ Detector!HighZScore(sample, i)
      OBVIOUS
    <2> DEFINE v == Detector!Variance(sample)
               x == d[i]
               y == x * x
    <2>1. /\ Detector!HighZScore(sample, i) => (5 * sample[i] - T) * (5 * sample[i] - T) * 5 > 4 * v
      BY <1>1 DEF Detector!HighZScore, Detector!Mean, T
    <2>2. x = 5 * sample[i] - T /\ x \in Int
      BY <1>3
    <2>3. v \in Int
      BY <1>3, <1>5, <1>6
    <2>4. 5 * y <= 4 * v /\ y \in Int
      BY <1>7, <2>2
    <2>5. Detector!HighZScore(sample, i) => y * 5 > 4 * v
      BY <2>1, <2>2
    <2> HIDE DEF y, v
    <2>6. y * 5 = 5 * y
      BY <2>4
    <2> QED
      BY <2>3, <2>4, <2>5, <2>6
  <1> QED
    BY <1>8 DEF Detector!ZScoresNeverHigh


-----------------------------------------------------------------------------
(* The quartiles of five values of which four agree.                         *)

LEMMA DetectorNames == \A S : Detector!Cardinality(S) = Cardinality(S)
  BY DEF Detector!Cardinality, Cardinality

\* The indices of five values without one of them.
LEMMA FourOthers ==
    ASSUME NEW i \in 1 .. 5
    PROVE  /\ Cardinality({}) = 0 /\ Cardinality({i}) = 1
           /\ Cardinality((1 .. 5) \ {i}) = 4 /\ Cardinality(1 .. 5) = 5
  <1>1. 5 \in Nat
    OBVIOUS
  <1>2. IsFiniteSet(1 .. 5) /\ Cardinality(1 .. 5) = 5
    BY <1>1, UpTo
  <1>3. Cardinality((1 .. 5) \ {i}) = Cardinality(1 .. 5) - 1
    BY <1>2, FS_RemoveElement
  <1> QED
    BY <1>2, <1>3, FS_EmptySet, FS_Singleton

\* Whichever side the fifth value is on, neither quartile is it.
LEMMA SortedIs ==
    ASSUME NEW s \in [1 .. 5 -> Nat], NEW i \in 1 .. 5, NEW w \in Nat, s[i] # w,
           \A j \in (1 .. 5) \ {i} : s[j] = w, NEW k \in 1 .. 3
    PROVE  Detector!Sorted(s, k) = w
  <1> DEFINE Below(v) == {j \in DOMAIN s : s[j] < v}
             UpTo5(v) == {j \in DOMAIN s : s[j] <= v}
             Good(v) == Cardinality(Below(v)) <= k /\ Cardinality(UpTo5(v)) > k
             V == {s[j] : j \in DOMAIN s}
  <1>1. Detector!Sorted(s, k) = CHOOSE v \in V : Good(v)
    BY DetectorNames DEF Detector!Sorted
  <1>2. DOMAIN s = 1 .. 5 /\ s[i] \in Nat
    OBVIOUS
  <1>3. V = {w, s[i]}
    <2>1. \E j \in 1 .. 5 : j # i
      <3>1. 1 \in 1 .. 5 /\ 2 \in 1 .. 5 /\ 1 # 2
        OBVIOUS
      <3> QED
        BY <3>1
    <2> QED
      BY <1>2, <2>1
  <1>4. CASE s[i] < w
    <2>1. Below(w) = {i} /\ UpTo5(w) = 1 .. 5 /\ UpTo5(s[i]) = {i}
      BY <1>2, <1>4
    <2> HIDE DEF Below, UpTo5
    <2>2. Good(w) /\ ~Good(s[i])
      BY <2>1, FourOthers
    <2> HIDE DEF Good, V
    <2> QED
      BY <1>1, <1>3, <2>2
  <1>5. CASE w < s[i]
    <2>1. Below(w) = {} /\ UpTo5(w) = (1 .. 5) \ {i} /\ Below(s[i]) = (1 .. 5) \ {i}
      BY <1>2, <1>5
    <2> HIDE DEF Below, UpTo5
    <2>2. Good(w) /\ ~Good(s[i])
      BY <2>1, FourOthers
    <2> HIDE DEF Good, V
    <2> QED
      BY <1>1, <1>3, <2>2
  <1> QED
    BY <1>2, <1>4, <1>5

LEMMA Outliers == ASSUME DetectorInv PROVE Detector!OddOneOut
  <1>1. sample \in [1 .. 5 -> Nat] /\ Detector!Len(sample) = 5
    <2>1. sample \in [1 .. 5 -> Nat] /\ 5 \in Nat
      BY DEF DetectorInv
    <2>2. sample \in Seq(Nat)
      BY <2>1, SeqDef
    <2> QED
      BY <2>1, <2>2
  <1> SUFFICES ASSUME NEW i \in 1 .. 5,
                      \A j, k \in (1 .. 5) \ {i} : sample[j] = sample[k],
                      \A j \in (1 .. 5) \ {i} : sample[j] # sample[i]
               PROVE  {j \in 1 .. 5 : Detector!Outlier(sample, j)} = {i}
    BY DEF Detector!OddOneOut
  <1>2. PICK o \in (1 .. 5) \ {i} : TRUE
    <2>1. 1 \in 1 .. 5 /\ 2 \in 1 .. 5 /\ 1 # 2
      OBVIOUS
    <2> QED
      BY <2>1
  <1> DEFINE w == sample[o]
  <1>3. w \in Nat /\ sample[i] # w /\ \A j \in (1 .. 5) \ {i} : sample[j] = w
    BY <1>1, <1>2
  <1> HIDE DEF w
  <1>4. \A k \in 1 .. 3 : Detector!Sorted(sample, k) = w
    BY <1>1, <1>3, SortedIs
  <1>5. (1 * 5) \div 4 = 1 /\ (3 * 5) \div 4 = 3 /\ 1 \in 1 .. 3 /\ 3 \in 1 .. 3
    OBVIOUS
  <1>6. Detector!Quartile(sample, 1) = w /\ Detector!Quartile(sample, 3) = w
    BY <1>1, <1>4, <1>5 DEF Detector!Quartile
  <1>7. \A j \in 1 .. 5 : Detector!Outlier(sample, j) <=> 2 * sample[j] < 2 * w - 3 * (w - w)
                                                         \/ 2 * sample[j] > 2 * w + 3 * (w - w)
    BY <1>6 DEF Detector!Outlier
  <1>8. \A j \in 1 .. 5 : Detector!Outlier(sample, j) <=> sample[j] # w
    BY <1>1, <1>3, <1>7
  <1> QED
    BY <1>3, <1>8


-----------------------------------------------------------------------------
(* The forecast.  Points whose differences are equal lie on a line, and the    *)
(* slope is the line's: the distances from the middle add up to nothing.      *)

\* The differences between neighbours are equal.
Even(s, n) == \A i \in 2 .. (n - 1) : s[i + 1] - s[i] = s[i] - s[i - 1]

LEMMA EvenDifferences ==
    ASSUME NEW n \in Nat, n >= 3, NEW s, Whole(s, 1 .. n), Even(s, n), NEW i \in 1 .. (n - 1)
    PROVE  s[i + 1] - s[i] = s[2] - s[1]
  <1> DEFINE d == s[2] - s[1]
             w == [m \in 0 .. (n - 2) |-> s[m + 2] - s[m + 1] - d]
             k == i - 1
  <1>1. \A m \in 1 .. n : s[m] \in Int
    BY DEF Whole
  <1>2. ASSUME NEW m \in 0 .. (n - 2) PROVE w[m] = s[m + 2] - s[m + 1] - d /\ w[m] \in Int
    <2>1. m + 2 \in 1 .. n /\ m + 1 \in 1 .. n /\ 1 \in 1 .. n /\ 2 \in 1 .. n
      OBVIOUS
    <2> QED
      BY <1>1, <2>1
  <1>3. k \in Nat /\ k \in 0 .. (n - 2) /\ 0 \in 0 .. (n - 2)
    OBVIOUS
  <1>4. w[0] = 0
    <2>1. w[0] = s[0 + 2] - s[0 + 1] - d /\ d \in Int
      BY <1>1, <1>2, <1>3
    <2> QED
      BY <2>1
  <1>5. ASSUME NEW m \in 1 .. k PROVE w[m] = w[m - 1]
    <2>1. m \in 0 .. (n - 2) /\ m - 1 \in 0 .. (n - 2) /\ m + 1 \in 2 .. (n - 1)
          /\ m \in 1 .. n /\ m + 1 \in 1 .. n /\ m + 2 \in 1 .. n
      OBVIOUS
    <2>2. (m + 1) + 1 = m + 2 /\ (m + 1) - 1 = m /\ (m - 1) + 2 = m + 1 /\ (m - 1) + 1 = m
      OBVIOUS
    <2>3. s[m + 2] - s[m + 1] = s[m + 1] - s[m]
      BY <2>1, <2>2 DEF Even
    <2>4. w[m] = s[m + 2] - s[m + 1] - d /\ w[m - 1] = s[m + 1] - s[m] - d
      BY <1>2, <2>1, <2>2
    <2> QED
      BY <2>3, <2>4
  <1>6. Whole(w, 0 .. k)
    <2>1. \A m \in 0 .. k : m \in 0 .. (n - 2)
      BY <1>3
    <2> QED
      BY <1>2, <2>1 DEF Whole
  <1>7. w[k] = 0
    <2> HIDE DEF w, k
    <2> QED
      BY <1>3, <1>4, <1>5, <1>6, Telescope
  <1>8. w[k] = s[i + 1] - s[i] - d
    <2>1. k + 2 = i + 1 /\ k + 1 = i
      OBVIOUS
    <2> QED
      BY <1>2, <1>3, <2>1
  <1>9. s[i + 1] \in Int /\ s[i] \in Int /\ d \in Int
    BY <1>1
  <1> QED
    BY <1>7, <1>8, <1>9

LEMMA OnALine ==
    ASSUME NEW n \in Nat, n >= 3, NEW s, Whole(s, 1 .. n), Even(s, n), NEW i \in 1 .. n
    PROVE  s[i] = s[1] + (i - 1) * (s[2] - s[1])
  <1> DEFINE d == s[2] - s[1]
             w == [m \in 0 .. (n - 1) |-> s[m + 1] - s[1] - m * d]
             k == i - 1
  <1>1. (\A m \in 1 .. n : s[m] \in Int) /\ d \in Int
    BY DEF Whole
  <1>2. \A m \in 1 .. (n - 1) : s[m + 1] - s[m] = d
    BY EvenDifferences
  <1> HIDE DEF d
  <1>3. ASSUME NEW m \in 0 .. (n - 1) PROVE w[m] = s[m + 1] - s[1] - m * d /\ w[m] \in Int
    BY <1>1
  <1>4. k \in Nat /\ k \in 0 .. (n - 1) /\ 0 \in 0 .. (n - 1)
    OBVIOUS
  <1>5. w[0] = 0
    BY <1>1, <1>3, <1>4
  <1>6. ASSUME NEW m \in 1 .. k PROVE w[m] = w[m - 1]
    <2>1. m \in 0 .. (n - 1) /\ m - 1 \in 0 .. (n - 1) /\ (m - 1) + 1 = m
          /\ m \in 1 .. (n - 1)
      OBVIOUS
    <2>2. w[m] = s[m + 1] - s[1] - m * d /\ w[m - 1] = s[m] - s[1] - (m - 1) * d
      BY <1>3, <2>1
    <2>3. s[m + 1] - s[m] = d
      BY <1>2, <2>1
    <2>4. s[m + 1] \in Int /\ s[m] \in Int /\ s[1] \in Int
      BY <1>1
    <2> DEFINE p == m * d
               q == (m - 1) * d
    <2>5. q = p - d /\ p \in Int
      BY <1>1
    <2>6. w[m] = s[m + 1] - s[1] - p /\ w[m - 1] = s[m] - s[1] - q
      BY <2>2
    <2> DEFINE u == s[m + 1]
               v == s[m]
               t == s[1]
    <2>7. u \in Int /\ v \in Int /\ t \in Int /\ u - v = d
      BY <2>3, <2>4
    <2>8. w[m] = u - t - p /\ w[m - 1] = v - t - q
      BY <2>6
    <2> HIDE DEF p, q, u, v, t
    <2>9. u - t - p = v - t - q
      BY <1>1, <2>5, <2>7
    <2> QED
      BY <2>8, <2>9
  <1>7. Whole(w, 0 .. k)
    <2>1. \A m \in 0 .. k : m \in 0 .. (n - 1)
      BY <1>4
    <2> QED
      BY <1>3, <2>1 DEF Whole
  <1>8. w[k] = 0
    <2> HIDE DEF w, k
    <2> QED
      BY <1>4, <1>5, <1>6, <1>7, Telescope
  <1>9. w[k] = s[i] - s[1] - (i - 1) * d
    BY <1>3, <1>4
  <1>10. s[i] \in Int /\ s[1] \in Int /\ (i - 1) * d \in Int
    BY <1>1
  <1> QED
    BY <1>8, <1>9, <1>10 DEF d

\* A point of the line, at twice its distance from the middle.
LEMMA LineAlgebra ==
    ASSUME NEW a \in Int, NEW d \in Int, NEW n \in Int, NEW m \in Int
    PROVE  LET r == 2 * m - n - 1
           IN  2 * (r * (a + (m - 1) * d)) = d * (r * r) + (2 * a + (n - 1) * d) * r
  <1> DEFINE r == 2 * m - n - 1
  <1>1. 2 * (a + (m - 1) * d) = d * r + (2 * a + (n - 1) * d)
    OBVIOUS
  <1> DEFINE x == a + (m - 1) * d
             c == 2 * a + (n - 1) * d
  <1>2. x \in Int /\ c \in Int /\ r \in Int
    OBVIOUS
  <1> HIDE DEF x, c, r
  <1>3. 2 * x = d * r + c
    BY <1>1 DEF x, c
  <1>4. 2 * (r * x) = r * (2 * x)
    BY <1>2
  <1>5. r * (d * r + c) = d * (r * r) + c * r
    BY <1>2
  <1>6. 2 * (r * x) = d * (r * r) + c * r
    BY <1>3, <1>4, <1>5
  <1> QED
    BY <1>6 DEF x, c, r


\* Twice the distances of n points from their middle, and what they weigh.
Middle(n) == [i \in 1 .. n |-> 2 * i - n - 1]
Squares(n) == [i \in 1 .. n |-> (2 * i - n - 1) * (2 * i - n - 1)]
Weighed(s, n) == [i \in 1 .. n |-> (2 * i - n - 1) * s[i]]

\* The points of a line weigh what the squares of the distances do, times its slope.
LEMMA LineWeighs ==
    ASSUME NEW n \in Nat, n >= 3, NEW s, Whole(s, 1 .. n), Even(s, n)
    PROVE  /\ 2 * Sum(Weighed(s, n), 1 .. n) = (s[2] - s[1]) * Sum(Squares(n), 1 .. n)
           /\ Sum(Squares(n), 1 .. n) \in Int
  <1> DEFINE d == s[2] - s[1]
             a == s[1]
             c == 2 * a + (n - 1) * d
             x == Weighed(s, n)
             y == Squares(n)
             X(m) == Sum(x, 1 .. m)
             Y(m) == Sum(y, 1 .. m)
             W(m) == 2 * X(m) - d * Y(m) - c * (m * (m - n))
             w == [m \in 0 .. n |-> W(m)]
  <1>1. \A i \in 1 .. n : s[i] \in Int /\ s[i] = a + (i - 1) * d
    BY OnALine DEF Whole
  <1>2. a \in Int /\ d \in Int
    <2>1. 1 \in 1 .. n /\ 2 \in 1 .. n
      OBVIOUS
    <2> QED
      BY <1>1, <2>1
  <1>3. \A i \in 1 .. n : /\ x[i] = (2 * i - n - 1) * s[i]
                          /\ y[i] = (2 * i - n - 1) * (2 * i - n - 1)
    BY DEF Weighed, Squares
  <1>4. Whole(x, 1 .. n) /\ Whole(y, 1 .. n)
    BY <1>1, <1>3 DEF Whole
  <1>5. c \in Int
    BY <1>2
  <1> HIDE DEF a, d, x, y, c
  <1>6. ASSUME NEW m \in 0 .. n
        PROVE  /\ X(m) \in Int /\ Y(m) \in Int /\ (m = 0 => X(m) = 0 /\ Y(m) = 0)
               /\ m > 0 => X(m) = X(m - 1) + x[m] /\ Y(m) = Y(m - 1) + y[m]
    BY <1>4, SumUpTo
  <1> HIDE DEF X, Y
  <1>7. ASSUME NEW m \in 0 .. n PROVE W(m) \in Int /\ (m = 0 => W(m) = 0)
    <2>1. d * Y(m) \in Int /\ c * (m * (m - n)) \in Int
      BY <1>2, <1>5, <1>6
    <2>2. m = 0 => d * Y(m) = 0 /\ c * (m * (m - n)) = 0 /\ X(m) = 0
      BY <1>2, <1>5, <1>6
    <2>3. W(m) = 2 * X(m) - d * Y(m) - c * (m * (m - n))
      OBVIOUS
    <2> HIDE DEF W
    <2> DEFINE p == X(m)
               q == d * Y(m)
               r == c * (m * (m - n))
    <2>4. p \in Int /\ q \in Int /\ r \in Int /\ (m = 0 => p = 0 /\ q = 0 /\ r = 0)
      BY <1>6, <2>1, <2>2
    <2>5. W(m) = 2 * p - q - r
      BY <2>3
    <2> HIDE DEF p, q, r
    <2> QED
      BY <2>4, <2>5
  <1>8. ASSUME NEW m \in 1 .. n PROVE W(m) = W(m - 1)
    <2> DEFINE r == 2 * m - n - 1
               e == a + (m - 1) * d
               p == X(m - 1)
               q == Y(m - 1)
               u == r * e
               v == r * r
               f == m * (m - n)
               g == (m - 1) * (m - 1 - n)
    <2>1. m \in 0 .. n /\ m - 1 \in 0 .. n /\ m > 0
      OBVIOUS
    <2>2. r \in Int /\ e \in Int /\ p \in Int /\ q \in Int /\ f \in Int /\ g \in Int
      BY <1>2, <1>6, <2>1
    <2>3. u \in Int /\ v \in Int
      BY <2>2
    <2>4. x[m] = u /\ y[m] = v
      BY <1>1, <1>3
    <2>5. X(m) = p + u /\ Y(m) = q + v
      BY <1>6, <2>1, <2>4
    <2>6. f = g + r
      OBVIOUS
    <2>7. 2 * u = d * v + c * r
      BY <1>2, LineAlgebra DEF c
    <2>8. W(m) = 2 * X(m) - d * Y(m) - c * f /\ W(m - 1) = 2 * p - d * q - c * g
      OBVIOUS
    <2> HIDE DEF W, r, e, p, q, u, v, f, g
    <2>9. d * (q + v) = d * q + d * v /\ c * (g + r) = c * g + c * r
      BY <1>2, <1>5, <2>2, <2>3
    <2> DEFINE k1 == d * q
               k2 == d * v
               k3 == c * g
               k4 == c * r
    <2>10. k1 \in Int /\ k2 \in Int /\ k3 \in Int /\ k4 \in Int
      BY <1>2, <1>5, <2>2, <2>3
    <2>11. W(m) = 2 * (p + u) - (k1 + k2) - (k3 + k4) /\ W(m - 1) = 2 * p - k1 - k3
      BY <2>5, <2>6, <2>8, <2>9
    <2>12. 2 * u = k2 + k4
      BY <2>7
    <2> HIDE DEF k1, k2, k3, k4
    <2> QED
      BY <2>2, <2>3, <2>10, <2>11, <2>12
  <1> HIDE DEF W
  <1>9. Whole(w, 0 .. n) /\ w[0] = 0 /\ w[n] = W(n)
    BY <1>7 DEF Whole
  <1>10. \A m \in 1 .. n : w[m] = w[m - 1]
    <2> SUFFICES ASSUME NEW m \in 1 .. n PROVE w[m] = w[m - 1]
      OBVIOUS
    <2>1. m \in 0 .. n /\ m - 1 \in 0 .. n
      OBVIOUS
    <2> QED
      BY <1>8, <2>1
  <1>11. W(n) = 0
    <2> HIDE DEF w
    <2> QED
      BY <1>9, <1>10, Telescope
  <1>12. n \in 0 .. n /\ n * (n - n) = 0
    OBVIOUS
  <1>13. X(n) \in Int /\ Y(n) \in Int /\ d * Y(n) \in Int /\ c * 0 = 0
    BY <1>2, <1>5, <1>6, <1>12
  <1>14. W(n) = 2 * X(n) - d * Y(n) - c * 0
    BY <1>12 DEF W
  <1>15. 2 * X(n) = d * Y(n)
    BY <1>11, <1>13, <1>14
  <1> QED
    BY <1>13, <1>15 DEF X, Y, x, y, d

LEMMA Forecasts == ASSUME DetectorInv PROVE Detector!ForecastContinues
  <1> DEFINE n == Len(series)
             d == series[2] - series[1]
             U == Detector!TrendUnder(series)
  <1>1. series \in Seq(Nat) /\ n \in Nat /\ DOMAIN series = 1 .. n /\ Detector!Len(series) = n
    BY DEF DetectorInv
  <1> SUFFICES ASSUME n >= 3,
                      \A i \in 2 .. (n - 1) : series[i + 1] - series[i] = series[i] - series[i - 1],
                      NEW k \in 1 .. 5
               PROVE  Detector!Forecast(series, k) = (series[n] + k * d) * U
    BY <1>1 DEF Detector!ForecastContinues
  <1>2. Whole(series, 1 .. n) /\ Even(series, n)
    BY <1>1 DEF Whole, Even
  <1>3. U = Sum(Squares(n), 1 .. n)
    BY <1>1, TotalIs DEF Detector!TrendUnder, Squares
  <1>4. Detector!TrendOver(series) = 2 * Sum(Weighed(series, n), 1 .. n)
    BY <1>1, TotalIs DEF Detector!TrendOver, Weighed
  <1>5. Detector!TrendOver(series) = d * U /\ U \in Int
    BY <1>1, <1>2, <1>3, <1>4, LineWeighs
  <1>6. Detector!Forecast(series, k) = series[n] * U + (d * U) * k
    BY <1>1, <1>5 DEF Detector!Forecast
  <1>7. series[n] \in Int /\ d \in Int
    BY <1>1
  <1> HIDE DEF d, U
  <1>8. \A x, y, z, t \in Int : x * y + (z * y) * t = (x + t * z) * y
    OBVIOUS
  <1>9. k \in Int
    OBVIOUS
  <1> DEFINE l == series[n]
  <1>10. l * U + (d * U) * k = (l + k * d) * U
    <2> HIDE DEF l
    <2>1. l \in Int
      BY <1>7 DEF l
    <2> QED
      BY <1>5, <1>7, <1>8, <1>9, <2>1
  <1> QED
    BY <1>6, <1>10


-----------------------------------------------------------------------------
(* The risk of a device, and what it does not send.                          *)

LEMMA AtMostHundred ==
    ASSUME NEW x \in Nat
    PROVE  Fingerprint!Min({100, x}) = IF x <= 100 THEN x ELSE 100
  <1>1. Fingerprint!Min({100, x}) = CHOOSE v \in {100, x} : \A k \in {100, x} : v <= k
    BY FingerprintNames
  <1> QED
    BY <1>1

LEMMA SendingHelps ==
    ASSUME NEW d \in Fingerprint!Devices, NEW e \in Fingerprint!Devices,
           Fingerprint!Sends(e, d)
    PROVE  /\ Fingerprint!AnomalyRisk(d) >= Fingerprint!AnomalyRisk(e)
           /\ Fingerprint!AnomalyRisk(d) \in Nat /\ Fingerprint!AnomalyRisk(e) \in Nat
           /\ Fingerprint!Confidence(d) <= Fingerprint!Confidence(e)
           /\ Fingerprint!Confidence(d) \in Nat /\ Fingerprint!Confidence(e) \in Nat
           /\ (d.canvas => e.canvas) /\ (d.webgl => e.webgl) /\ (d.audio => e.audio)
  <1>1. /\ (d.canvas => e.canvas) /\ (d.webgl => e.webgl) /\ (d.audio => e.audio)
        /\ (d.fonts => e.fonts)
    <2>1. \A t \in {"canvas", "webgl", "audio", "fonts"} : d[t] => e[t]
      BY DEF Fingerprint!Sends
    <2> QED
      BY <2>1
  <1>2. e.screen = d.screen /\ e.offset = d.offset /\ e.plugins = d.plugins
    <2>1. \A t \in {"screen", "offset", "plugins"} : e[t] = d[t]
      BY DEF Fingerprint!Sends
    <2> QED
      BY <2>1
  <1>3. /\ e.agent = d.agent \/ (d.agent = "unknown" /\ e.agent = "Firefox")
        /\ e.platform = d.platform \/ d.platform = "unknown"
        /\ e.cores = d.cores \/ d.cores = 0
    BY DEF Fingerprint!Sends
  <1>5. /\ d.agent # "unknown" => e.agent # "unknown"
        /\ d.platform # "unknown" => e.platform # "unknown"
        /\ d.cores > 0 => e.cores > 0
        /\ Fingerprint!IsKnownBotPattern(d) <=> Fingerprint!IsKnownBotPattern(e)
        /\ Fingerprint!HasInconsistentData(d) <=> Fingerprint!HasInconsistentData(e)
    <2>1. Fingerprint!HasInconsistentData(d) <=> Fingerprint!HasInconsistentData(e)
      BY <1>2 DEF Fingerprint!HasInconsistentData
    <2>2. Fingerprint!IsKnownBotPattern(d) <=> Fingerprint!IsKnownBotPattern(e)
      BY <1>2, <1>3 DEF Fingerprint!IsKnownBotPattern
    <2> QED
      BY <1>3, <2>1, <2>2
  <1>6. /\ Fingerprint!AnomalyRisk(d) >= Fingerprint!AnomalyRisk(e)
        /\ Fingerprint!AnomalyRisk(d) \in Nat /\ Fingerprint!AnomalyRisk(e) \in Nat
    <2> DEFINE b1 == d.agent = "unknown"
               b2 == e.agent = "unknown"
               k1 == Fingerprint!IsKnownBotPattern(d)
               k2 == Fingerprint!IsKnownBotPattern(e)
               h1 == Fingerprint!HasInconsistentData(d)
               h2 == Fingerprint!HasInconsistentData(e)
    <2>1. /\ Fingerprint!AnomalyRisk(d)
               = (IF b1 THEN 30 ELSE 0) + (IF d.canvas THEN 0 ELSE 20)
                 + (IF d.webgl THEN 0 ELSE 20) + (IF k1 THEN 40 ELSE 0) + (IF h1 THEN 30 ELSE 0)
          /\ Fingerprint!AnomalyRisk(e)
               = (IF b2 THEN 30 ELSE 0) + (IF e.canvas THEN 0 ELSE 20)
                 + (IF e.webgl THEN 0 ELSE 20) + (IF k2 THEN 40 ELSE 0) + (IF h2 THEN 30 ELSE 0)
      BY DEF Fingerprint!AnomalyRisk
    <2> DEFINE p1 == d.canvas
               p2 == e.canvas
               q1 == d.webgl
               q2 == e.webgl
    <2>2. (b2 => b1) /\ (k1 <=> k2) /\ (h1 <=> h2) /\ (p1 => p2) /\ (q1 => q2)
      BY <1>1, <1>5
    <2>3. /\ Fingerprint!AnomalyRisk(d)
               = (IF b1 THEN 30 ELSE 0) + (IF p1 THEN 0 ELSE 20)
                 + (IF q1 THEN 0 ELSE 20) + (IF k1 THEN 40 ELSE 0) + (IF h1 THEN 30 ELSE 0)
          /\ Fingerprint!AnomalyRisk(e)
               = (IF b2 THEN 30 ELSE 0) + (IF p2 THEN 0 ELSE 20)
                 + (IF q2 THEN 0 ELSE 20) + (IF k2 THEN 40 ELSE 0) + (IF h2 THEN 30 ELSE 0)
      BY <2>1
    <2> HIDE DEF b1, b2, k1, k2, h1, h2, p1, p2, q1, q2
    <2> QED
      BY <2>2, <2>3
  <1>7. /\ Fingerprint!Confidence(d) <= Fingerprint!Confidence(e)
        /\ Fingerprint!Confidence(d) \in Nat /\ Fingerprint!Confidence(e) \in Nat
    <2> DEFINE C(b1, b2, b3, b4, b5, b6, b7) ==
          (IF b1 THEN 20 ELSE 0) + (IF b2 THEN 10 ELSE 0) + (IF b3 THEN 20 ELSE 0)
          + (IF b4 THEN 20 ELSE 0) + (IF b5 THEN 10 ELSE 0) + (IF b6 THEN 10 ELSE 0)
          + (IF b7 THEN 10 ELSE 0)
               p1 == d.agent # "unknown"
               q1 == e.agent # "unknown"
               p2 == d.platform # "unknown"
               q2 == e.platform # "unknown"
               p3 == d.canvas
               q3 == e.canvas
               p4 == d.webgl
               q4 == e.webgl
               p5 == d.audio
               q5 == e.audio
               p6 == d.fonts
               q6 == e.fonts
               p7 == d.cores > 0
               q7 == e.cores > 0
    <2>1. /\ Fingerprint!Confidence(d) = C(p1, p2, p3, p4, p5, p6, p7)
          /\ Fingerprint!Confidence(e) = C(q1, q2, q3, q4, q5, q6, q7)
      BY DEF Fingerprint!Confidence
    <2>2. /\ (p1 => q1) /\ (p2 => q2) /\ (p3 => q3) /\ (p4 => q4) /\ (p5 => q5)
          /\ (p6 => q6) /\ (p7 => q7)
      BY <1>1, <1>5
    <2> HIDE DEF p1, p2, p3, p4, p5, p6, p7, q1, q2, q3, q4, q5, q6, q7
    <2> QED
      BY <2>1, <2>2
  <1> QED
    BY <1>1, <1>6, <1>7

LEMMA Withholding == ASSUME FingerprintInv PROVE Fingerprint!WithholdingIsNoBetter
  <1> SUFFICES ASSUME NEW d \in given.device, NEW e \in Fingerprint!Devices,
                      Fingerprint!Sends(e, d)
               PROVE  Fingerprint!RiskScore(d) >= Fingerprint!RiskScore(e)
    BY DEF Fingerprint!WithholdingIsNoBetter
  <1>1. d \in Fingerprint!Devices
    BY AnalyzersAssumption DEF FingerprintInv
  <1> DEFINE X(a) == Fingerprint!AnomalyRisk(a) + (IF Fingerprint!Confidence(a) < 50 THEN 20 ELSE 0)
                     + (IF a.canvas THEN 0 ELSE 10) + (IF a.webgl THEN 0 ELSE 10)
                     + (IF a.audio THEN 0 ELSE 5)
  <1>2. X(d) \in Nat /\ X(e) \in Nat /\ X(d) >= X(e)
    BY <1>1, SendingHelps
  <1>3. /\ Fingerprint!RiskScore(d) = Fingerprint!Min({100, X(d)})
        /\ Fingerprint!RiskScore(e) = Fingerprint!Min({100, X(e)})
    BY DEF Fingerprint!RiskScore
  <1> HIDE DEF X
  <1>4. /\ Fingerprint!RiskScore(d) = (IF X(d) <= 100 THEN X(d) ELSE 100)
        /\ Fingerprint!RiskScore(e) = (IF X(e) <= 100 THEN X(e) ELSE 100)
    BY <1>2, <1>3, AtMostHundred
  <1> QED
    BY <1>2, <1>4

-----------------------------------------------------------------------------
(* MouseTrail.  The angles are those of the timed movements, in their order.   *)

Movements == [at : Nat, dx : {-1, 0, 1}, dy : {-1, 0, 1}]

\* The pointer moves on in time.
MouseInv ==
    /\ trail \in Seq(Movements) /\ Len(trail) >= 1
    /\ \A i \in 2 .. Len(trail) : trail[i - 1].at <= trail[i].at

LEMMA InitMouse == Mouse!Init => MouseInv
  <1> SUFFICES ASSUME NEW t \in FirstTimes, trail = <<[at |-> t, dx |-> 0, dy |-> 0]>>
               PROVE  MouseInv
    BY DEF Mouse!Init
  <1> DEFINE m == [at |-> t, dx |-> 0, dy |-> 0]
  <1>1. t \in Nat
    BY AnalyzersAssumption
  <1>2. m \in Movements
    BY <1>1 DEF Movements
  <1> HIDE DEF m
  <1>3. trail = <<m>>
    BY DEF m
  <1> QED
    BY <1>2, <1>3 DEF MouseInv

LEMMA NextMouse == ASSUME MouseInv, Mouse!Next PROVE MouseInv'
  <1>1. PICK gap \in MoveGaps, dx \in Mouse!Steps, dy \in Mouse!Steps :
           trail' = Append(trail, [at |-> Mouse!Last(trail).at + gap, dx |-> dx, dy |-> dy])
    BY DEF Mouse!Next, Mouse!Movement
  <1> DEFINE m == [at |-> Mouse!Last(trail).at + gap, dx |-> dx, dy |-> dy]
             n == Len(trail)
  <1>2. Mouse!Last(trail) \in Movements /\ Mouse!Last(trail) = trail[n]
    BY DEF MouseInv, Mouse!Last
  <1>3. gap \in Nat
    BY AnalyzersAssumption
  <1>4. m \in Movements /\ m.at >= trail[n].at
    BY <1>2, <1>3 DEF Movements, Mouse!Steps
  <1> HIDE DEF m
  <1>5. trail' = Append(trail, m) /\ trail \in Seq(Movements)
    BY <1>1 DEF m, MouseInv
  <1>6. trail' \in Seq(Movements) /\ Len(trail') = n + 1 /\ n \in Nat /\ n >= 1
    BY <1>4, <1>5 DEF MouseInv
  <1>7. trail'[n + 1] = m /\ \A i \in 1 .. n : trail'[i] = trail[i]
    BY <1>5
  <1>8. ASSUME NEW i \in 2 .. (n + 1) PROVE trail'[i - 1].at <= trail'[i].at
    <2>1. CASE i = n + 1
      <3>1. i - 1 = n /\ n \in 1 .. n
        BY <1>6, <2>1
      <3> QED
        BY <1>4, <1>7, <2>1, <3>1
    <2>2. CASE i # n + 1
      <3>1. i \in 2 .. n /\ i \in 1 .. n /\ i - 1 \in 1 .. n
        BY <1>6, <2>2
      <3> QED
        BY <1>7, <3>1 DEF MouseInv
    <2> QED
      BY <2>1, <2>2
  <1>9. \A i \in 2 .. Len(trail') : trail'[i - 1].at <= trail'[i].at
    BY <1>6, <1>8
  <1>10. Len(trail') >= 1
    BY <1>6
  <1> QED
    BY <1>6, <1>9, <1>10 DEF MouseInv

LEMMA MouseNames ==
    /\ \A S : Mouse!Cardinality(S) = Cardinality(S)
    /\ \A I, n : Mouse!Nth(I, n) = Nth(I, n)
  BY DEF Mouse!Cardinality, Cardinality, Mouse!Nth, Mouse!Rank, Nth, Rank

LEMMA AnglesAre ==
    ASSUME MouseInv
    PROVE  /\ Mouse!Len(Mouse!Angles) \in Nat
           /\ \A i \in 1 .. Mouse!Len(Mouse!Angles) : Mouse!Angles[i] \in Int
  <1> DEFINE T == Mouse!Timed
             c == Cardinality(T)
             A == [n \in 1 .. c |-> Mouse!Angle(trail[Nth(T, n)])]
  <1>1. trail \in Seq(Movements) /\ Len(trail) \in Nat /\ DOMAIN trail = 1 .. Len(trail)
    BY DEF MouseInv
  <1>2. T \in SUBSET (1 .. Len(trail))
    BY <1>1 DEF Mouse!Timed
  <1>3. c \in Nat
    <2>1. IsFiniteSet(1 .. Len(trail))
      BY <1>1, UpTo
    <2> QED
      BY <1>2, <2>1, FS_Subset, FS_CardinalityType
  <1>4. Mouse!InOrder = [n \in 1 .. c |-> Nth(T, n)]
    BY MouseNames DEF Mouse!InOrder
  <1>5. Mouse!Angles = A
    <2>1. DOMAIN Mouse!InOrder = 1 .. c /\ \A n \in 1 .. c : Mouse!InOrder[n] = Nth(T, n)
      BY <1>4
    <2> HIDE DEF T, c
    <2> QED
      BY <2>1 DEF Mouse!Angles
  <1>6. ASSUME NEW n \in 1 .. c PROVE A[n] \in Int
    <2>1. Nth(T, n) \in T
      BY <1>1, <1>2, NthType
    <2> DEFINE m == trail[Nth(T, n)]
               k == Nth(T, n)
    <2>2. m \in Movements
      <3>1. k \in 1 .. Len(trail)
        BY <1>2, <2>1
      <3> HIDE DEF k
      <3>2. trail[k] \in Movements
        BY <1>1, <3>1
      <3> QED
        BY <3>2 DEF k
    <2>3. m.dx \in {-1, 0, 1} /\ m.dy \in {-1, 0, 1}
      BY <2>2 DEF Movements
    <2>4. A[n] = Mouse!Angle(m)
      OBVIOUS
    <2> HIDE DEF m, A
    <2>5. Mouse!Angle(m) \in Int
      BY <2>3 DEF Mouse!Angle
    <2> QED
      BY <2>4, <2>5
  <1>7. A \in [1 .. c -> Int]
    BY <1>6
  <1> HIDE DEF A, c, T
  <1>8. A \in Seq(Int)
    BY <1>3, <1>7, SeqDef
  <1>9. Mouse!Len(A) = c
    BY <1>3, <1>7, <1>8
  <1> QED
    BY <1>3, <1>5, <1>7, <1>9

LEMMA Turns == ASSUME MouseInv PROVE Mouse!TurnsNotMissed
  <1> DEFINE A == Mouse!Angles
             n == Mouse!Len(A)
             Far(i) == Mouse!Away(A[i], A[i - 1])
             Turn(i) == IF Far(i) > 4 THEN 8 - Far(i) ELSE Far(i)
             Seen == {i \in 3 .. n : Far(i) > 1}
             Missable == {i \in 3 .. n : Turn(i) > 1}
  <1>1. n \in Nat /\ \A i \in 1 .. n : A[i] \in Int
    BY AnglesAre
  <1>2. \A i \in 3 .. n : Far(i) \in Int
    <2> SUFFICES ASSUME NEW i \in 3 .. n PROVE Far(i) \in Int
      OBVIOUS
    <2>1. A[i] \in Int /\ A[i - 1] \in Int
      BY <1>1
    <2> QED
      BY <2>1 DEF Mouse!Away
  <1> HIDE DEF A, n, Far
  <1>3. Missable \in SUBSET Seen
    BY <1>2
  <1>4. IsFiniteSet(Seen) /\ Cardinality(Seen) \in Nat
    <2>1. IsFiniteSet(1 .. n) /\ Seen \in SUBSET (1 .. n)
      BY <1>1, UpTo
    <2> QED
      BY <2>1, FS_Subset, FS_CardinalityType
  <1>5. Cardinality(Missable) <= Cardinality(Seen) /\ Cardinality(Missable) \in Nat
    <2> HIDE DEF Missable, Seen
    <2> QED
      BY <1>3, <1>4, FS_Subset, FS_CardinalityType
  <1>6. Cardinality(Seen) >= Cardinality(Missable)
    BY <1>4, <1>5
  <1>7. Mouse!DirectionChanges = Cardinality(Seen)
    BY MouseNames DEF Mouse!DirectionChanges, Seen, Far, A, n
  <1>8. Mouse!TurnsNotMissed <=> Mouse!DirectionChanges >= Cardinality(Missable)
    BY MouseNames DEF Mouse!TurnsNotMissed, Missable, Far, A, n
  <1> QED
    BY <1>6, <1>7, <1>8

\* Operators of MouseTrail's instance by the names of SeriesProofs.
LEMMA MouseSums ==
    /\ \A f, S : Mouse!SumFunctionOnSet(f, S) = Sum(f, S)
    /\ \A S : Mouse!Max(S) = Latest(S)
  BY DEF Mouse!SumFunctionOnSet, Mouse!FoldFunctionOnSet, Mouse!MapThenFoldSet, Sum,
         Mouse!Max, Latest

\* The timed movements, in their order.
Ordered(K) ==
    /\ K \in Nat /\ Mouse!InOrder = [n \in 1 .. K |-> Mouse!InOrder[n]]
    /\ \A n \in 1 .. K : /\ Mouse!InOrder[n] \in 2 .. Len(trail) /\ Mouse!InOrder[n] \in Mouse!Timed
                         /\ n > 1 => Mouse!InOrder[n - 1] < Mouse!InOrder[n]
    /\ \A j \in Mouse!Timed : \E n \in 1 .. K : Mouse!InOrder[n] = j
    /\ \A n, k \in 1 .. K : n < k => Mouse!InOrder[n] < Mouse!InOrder[k]

LEMMA InOrderIs ==
    ASSUME MouseInv
    PROVE  Ordered(Cardinality(Mouse!Timed))
  <1> DEFINE T == Mouse!Timed
             K == Cardinality(T)
             n0 == Len(trail)
  <1>1. n0 \in Nat /\ T \in SUBSET (1 .. n0) /\ T \in SUBSET (2 .. n0)
    BY DEF MouseInv, Mouse!Timed
  <1>2. Mouse!InOrder = [n \in 1 .. K |-> Nth(T, n)]
    BY MouseNames DEF Mouse!InOrder
  <1> HIDE DEF T
  <1>3. K \in Nat
    <2>1. IsFiniteSet(1 .. n0)
      BY <1>1, UpTo
    <2> QED
      BY <1>1, <2>1, FS_Subset, FS_CardinalityType
  <1> HIDE DEF K, n0
  <1>4. \A n \in 1 .. K : Mouse!InOrder[n] = Nth(T, n)
    BY <1>2
  <1>5. \A n \in 1 .. K : Nth(T, n) \in T
    BY <1>1, NthType DEF K
  <1>6. \A n, k \in 1 .. K : n < k => Nth(T, n) < Nth(T, k)
    BY <1>1, NthGrows DEF K
  <1>7. \A j \in T : \E n \in 1 .. K : Nth(T, n) = j
    BY <1>1, NthOnto DEF K
  <1>8. ASSUME NEW n \in 1 .. K, n > 1 PROVE Nth(T, n - 1) < Nth(T, n)
    <2>1. n - 1 \in 1 .. K /\ n - 1 < n
      BY <1>3, <1>8
    <2> QED
      BY <1>6, <2>1
  <1>9. \A n \in 1 .. K : n > 1 => n - 1 \in 1 .. K
    BY <1>3
  <1>10. Ordered(K)
    BY <1>1, <1>2, <1>3, <1>4, <1>5, <1>6, <1>7, <1>8, <1>9 DEF Ordered, T, n0
  <1> QED
    BY <1>10 DEF K, T

\* No time passes in movements that are not timed.
LEMMA SameTime ==
    ASSUME MouseInv, NEW a \in 1 .. Len(trail), NEW b \in a .. Len(trail),
           \A j \in (a + 1) .. b : j \notin Mouse!Timed
    PROVE  trail[b].at = trail[a].at
  <1> DEFINE n == b - a
             P == {x \in 0 .. n : trail[a + x].at = trail[a].at}
  <1>1. n \in Nat /\ a + n = b /\ a \in Nat /\ a + 0 = a /\ Len(trail) \in Nat
    BY DEF MouseInv
  <1>2. 0 \in P
    <2>1. 0 \in 0 .. n
      BY <1>1
    <2> QED
      BY <1>1, <2>1
  <1>3. ASSUME NEW x \in 1 .. n, x - 1 \in P PROVE x \in P
    <2>1. /\ a + x \in (a + 1) .. b /\ a + x \in 2 .. Len(trail) /\ (a + x) - 1 = a + (x - 1)
          /\ x \in 0 .. n
      BY <1>1
    <2>2. a + x \notin Mouse!Timed
      BY <2>1
    <2>3. trail[a + x].at = trail[(a + x) - 1].at
      BY <2>1, <2>2 DEF Mouse!Timed
    <2> QED
      BY <1>3, <2>1, <2>3
  <1>4. n \in 0 .. n
    BY <1>1
  <1> HIDE DEF P, n
  <1>5. Inductive(P, n)
    BY <1>2, <1>3 DEF Inductive
  <1>6. n \in P
    BY <1>1, <1>4, <1>5, Upward
  <1> QED
    BY <1>1, <1>6 DEF P

\* All times follow the first.
LEMMA TimesPositive ==
    ASSUME MouseInv, trail[1].at > 0, NEW i \in 1 .. Len(trail)
    PROVE  trail[i].at > 0 /\ trail[i].at \in Nat
  <1> DEFINE n == Len(trail)
             P == {x \in 0 .. n : x >= 1 => trail[x].at > 0}
  <1>1. n \in Nat /\ n >= 1 /\ \A x \in 1 .. n : trail[x].at \in Nat
    <2>1. \A x \in 1 .. n : trail[x] \in Movements
      BY ElementOfSeq DEF MouseInv
    <2> QED
      BY <2>1 DEF MouseInv, Movements
  <1>2. 0 \in P
    BY <1>1
  <1>3. ASSUME NEW x \in 1 .. n, x - 1 \in P PROVE x \in P
    <2>1. x \in 0 .. n
      BY <1>1
    <2>2. CASE x = 1
      BY <2>1, <2>2
    <2>3. CASE x # 1
      <3>1. x \in 2 .. n /\ x - 1 \in 1 .. n /\ x - 1 >= 1
        BY <1>1, <2>3
      <3>2. trail[x - 1].at > 0 /\ trail[x - 1].at <= trail[x].at
        BY <1>3, <3>1 DEF MouseInv
      <3>3. trail[x - 1].at \in Nat /\ trail[x].at \in Nat
        BY <1>1, <3>1
      <3> QED
        BY <2>1, <3>2, <3>3
    <2> QED
      BY <2>2, <2>3
  <1> HIDE DEF P, n
  <1>4. Inductive(P, n)
    BY <1>2, <1>3 DEF Inductive
  <1>5. i \in 0 .. n /\ i >= 1 /\ i \in 1 .. n
    BY <1>1 DEF n
  <1>6. i \in P
    BY <1>1, <1>4, <1>5, Upward
  <1> QED
    BY <1>1, <1>5, <1>6 DEF P

\* The pauses that are counted, and how long the last one goes on.
Pausing == [count : Int, duration : Int, since : Int]
Fresh == [count |-> 0, duration |-> 0, since |-> 0]

\* What the loop has counted after each of the first K timed movements.
PausedSoFar(v, K) ==
    /\ v[0] = Fresh
    /\ \A m \in 1 .. K : v[m] = Mouse!PauseStep(v[m - 1], Mouse!InOrder[m])
    /\ \A m \in 0 .. K : v[m] \in Pausing
    /\ Mouse!FoldLeft(Mouse!PauseStep, Fresh, Mouse!InOrder) = v[K]

LEMMA PauseStepIs ==
    ASSUME NEW acc \in Pausing, NEW i, trail[i - 1].at \in Int
    PROVE  Mouse!PauseStep(acc, i) \in Pausing
  <1>1. /\ acc.count \in Int /\ acc.duration \in Int /\ acc.since \in Int
        /\ acc = [count |-> acc.count, duration |-> acc.duration, since |-> acc.since]
    BY DEF Pausing
  <1> DEFINE u == trail[i - 1].at
  <1>2. CASE Mouse!Still(i)
    <2>1. Mouse!PauseStep(acc, i) = [acc EXCEPT !.since = IF acc.since = 0 THEN u ELSE acc.since]
      BY <1>2 DEF Mouse!PauseStep
    <2> QED
      BY <1>1, <2>1 DEF Pausing
  <1>3. CASE ~Mouse!Still(i) /\ acc.since = 0
    BY <1>3 DEF Mouse!PauseStep
  <1>4. CASE ~Mouse!Still(i) /\ acc.since # 0
    <2>1. Mouse!PauseStep(acc, i)
            = [count |-> acc.count + 1, duration |-> acc.duration + u - acc.since, since |-> 0]
      BY <1>4 DEF Mouse!PauseStep
    <2> HIDE DEF u
    <2>2. u \in Int
      BY DEF u
    <2> QED
      BY <1>1, <2>1, <2>2 DEF Pausing
  <1> QED
    BY <1>2, <1>3, <1>4

LEMMA PausesGoOn ==
    ASSUME MouseInv, NEW K, Ordered(K)
    PROVE  \E v : PausedSoFar(v, K)
  <1> DEFINE s == Mouse!InOrder
             b == Fresh
             F == [v \in Pausing \X (1 .. K) |-> Mouse!PauseStep(v[1], s[v[2]])]
             Def(g) == g = [t \in SUBSET (1 .. K) |-> IF t = {} THEN b
                                                     ELSE Mouse!PauseStep(g[t \ {Latest(t)}], s[Latest(t)])]
             G == CHOOSE g : Def(g)
             h == [m \in 0 .. K |-> G[1 .. m]]
  <1>1. K \in Nat /\ DOMAIN s = 1 .. K
    BY DEF Ordered
  <1>2. b \in Pausing
    BY DEF Fresh, Pausing
  <1>3. ASSUME NEW acc \in Pausing, NEW k \in 1 .. K PROVE Mouse!PauseStep(acc, s[k]) \in Pausing
    <2>1. s[k] \in 2 .. Len(trail) /\ Len(trail) \in Nat
      <3>1. s[k] \in 2 .. Len(trail)
        BY DEF Ordered
      <3>2. Len(trail) \in Nat
        BY DEF MouseInv
      <3> QED
        BY <3>1, <3>2
    <2> DEFINE j == s[k] - 1
    <2>2. j \in 1 .. Len(trail)
      BY <2>1
    <2> HIDE DEF j
    <2>3. trail[j] \in Movements
      BY <2>2, ElementOfSeq DEF MouseInv
    <2>4. trail[j].at \in Int
      BY <2>3 DEF Movements
    <2> QED
      BY <2>4, PauseStepIs DEF j
  <1> HIDE DEF b, s
  <1>4. F \in [Pausing \X (1 .. K) -> Pausing]
    BY <1>3
  <1>5. \A t \in SUBSET (1 .. K) : t # {} => Latest(t) \in t
    BY <1>1, LatestIs
  <1>6. \E g : Def(g)
    <2>1. PICK g : Unfolded(g, F, b, SUBSET (1 .. K)) /\ g \in [SUBSET (1 .. K) -> Pausing]
      <3> HIDE DEF F
      <3> QED
        BY <1>1, <1>2, <1>4, FoldExists
    <2>2. ASSUME NEW t \in SUBSET (1 .. K), t # {}
          PROVE  F[<<g[t \ {Latest(t)}], Latest(t)>>] = Mouse!PauseStep(g[t \ {Latest(t)}], s[Latest(t)])
      <3>1. t \ {Latest(t)} \in SUBSET (1 .. K) /\ Latest(t) \in 1 .. K
        BY <1>5, <2>2
      <3>2. g[t \ {Latest(t)}] \in Pausing
        BY <2>1, <3>1
      <3> QED
        BY <3>1, <3>2
    <2>3. g = [t \in SUBSET (1 .. K) |-> IF t = {} THEN b ELSE F[<<g[t \ {Latest(t)}], Latest(t)>>]]
      BY <2>1 DEF Unfolded
    <2> HIDE DEF F
    <2>4. Def(g)
      BY <2>2, <2>3
    <2> QED
      BY <2>4
  <1>7. Def(G)
    BY <1>6
  <1>8. Mouse!FoldLeft(Mouse!PauseStep, Fresh, Mouse!InOrder) = G[1 .. K]
    BY <1>1 DEF Mouse!FoldLeft, Mouse!MapThenFoldSet, Latest, Mouse!Max, b, s
  <1> HIDE DEF G
  <1>9. G[{}] = b
    BY <1>7
  <1>10. ASSUME NEW m \in 1 .. K PROVE h[m] = Mouse!PauseStep(h[m - 1], s[m])
    <2>1. /\ 1 .. m \in SUBSET (1 .. K) /\ 1 .. m # {} /\ Latest(1 .. m) = m
          /\ (1 .. m) \ {Latest(1 .. m)} = 1 .. (m - 1)
      BY <1>1, LatestOf
    <2>2. m \in 0 .. K /\ m - 1 \in 0 .. K
      BY <1>1
    <2>3. G[1 .. m] = Mouse!PauseStep(G[1 .. (m - 1)], s[m])
      BY <1>7, <2>1
    <2> QED
      BY <2>2, <2>3
  <1>11. h[0] = b /\ h[K] = G[1 .. K]
    <2>1. 0 \in 0 .. K /\ K \in 0 .. K /\ 1 .. 0 = {}
      BY <1>1
    <2> QED
      BY <1>9, <2>1
  <1> HIDE DEF h
  <1>12. \A m \in 0 .. K : h[m] \in Pausing
    <2> DEFINE P == {m \in 0 .. K : h[m] \in Pausing}
    <2>1. 0 \in P
      BY <1>1, <1>2, <1>11
    <2>2. ASSUME NEW m \in 1 .. K, m - 1 \in P PROVE m \in P
      <3>1. h[m - 1] \in Pausing /\ m \in 0 .. K
        BY <1>1, <2>2
      <3> QED
        BY <1>3, <1>10, <3>1
    <2> HIDE DEF P
    <2>3. Inductive(P, K)
      BY <2>1, <2>2 DEF Inductive
    <2>4. \A m \in 0 .. K : m \in P
      BY <1>1, <2>3, Upward
    <2> QED
      BY <2>4 DEF P
  <1> QED
    BY <1>8, <1>10, <1>11, <1>12 DEF PausedSoFar, b, s

\* The still movements among the first m timed ones, and those that begin a pause.
StillTo(m) == {n \in 1 .. m : Mouse!Still(Mouse!InOrder[n])}
StartsTo(m) == {n \in StillTo(m) : n - 1 \notin StillTo(m)}

\* A pause is open after a still movement, and what is counted is what has begun, and what
\* it has lasted the time of the still movements.
Counted(a, m, t) ==
    /\ a.since # 0 <=> m \in StillTo(m)
    /\ a.count + (IF a.since # 0 THEN 1 ELSE 0) = Cardinality(StartsTo(m))
    /\ a.duration + (IF a.since # 0 THEN t - a.since ELSE 0) = Sum(Mouse!Times, StillTo(m))

LEMMA StillToIs ==
    ASSUME NEW m \in Nat \ {0}
    PROVE  LET S == Mouse!Still(Mouse!InOrder[m]) IN
           /\ StillTo(m) = IF S THEN StillTo(m - 1) \cup {m} ELSE StillTo(m - 1)
           /\ StartsTo(m) = IF S /\ m - 1 \notin StillTo(m - 1) THEN StartsTo(m - 1) \cup {m}
                            ELSE StartsTo(m - 1)
           /\ m \in StillTo(m) <=> S
           /\ m \notin StillTo(m - 1) /\ m \notin StartsTo(m - 1)
           /\ IsFiniteSet(StillTo(m - 1)) /\ IsFiniteSet(StartsTo(m - 1))
           /\ StillTo(m - 1) \in SUBSET (1 .. (m - 1))
  <1> DEFINE S == Mouse!Still(Mouse!InOrder[m])
  <1>1. /\ m - 1 \in Nat /\ m \in Nat /\ 1 .. m = 1 .. (m - 1) \cup {m} /\ m \notin 1 .. (m - 1)
        /\ m \in 1 .. m /\ m - 1 # m /\ \A n \in 1 .. (m - 1) : n - 1 # m
    OBVIOUS
  <1>2. StillTo(m) = IF S THEN StillTo(m - 1) \cup {m} ELSE StillTo(m - 1)
    BY <1>1 DEF StillTo
  <1>3. StillTo(m - 1) \in SUBSET (1 .. (m - 1)) /\ StartsTo(m - 1) \in SUBSET StillTo(m - 1)
    BY DEF StillTo, StartsTo
  <1>4. m \in StillTo(m) <=> S
    BY <1>1 DEF StillTo
  <1>5. IsFiniteSet(StillTo(m - 1)) /\ IsFiniteSet(StartsTo(m - 1))
    <2>1. IsFiniteSet(1 .. (m - 1))
      BY <1>1, UpTo
    <2> QED
      BY <1>3, <2>1, FS_Subset
  <1> HIDE DEF S
  <1>6. \A n \in StillTo(m - 1) : n - 1 \in StillTo(m) <=> n - 1 \in StillTo(m - 1)
    BY <1>1, <1>2, <1>3
  <1>7. m - 1 \in StillTo(m) <=> m - 1 \in StillTo(m - 1)
    BY <1>1, <1>2
  <1>8. StartsTo(m) = IF S /\ m - 1 \notin StillTo(m - 1) THEN StartsTo(m - 1) \cup {m}
                      ELSE StartsTo(m - 1)
    BY <1>2, <1>6, <1>7 DEF StartsTo
  <1> QED
    BY <1>1, <1>2, <1>3, <1>4, <1>5, <1>8 DEF S

\* A movement keeps what is counted right, by whether it is still and whether a pause is open.
LEMMA CountedNext ==
    ASSUME NEW m \in Nat \ {0}, NEW a \in Pausing, NEW t \in Int, NEW u \in Int, NEW i,
           NEW x \in Int, i = Mouse!InOrder[m], u = trail[i - 1].at, x = trail[i].at,
           u # 0, Mouse!Times[m] = x - u,
           a.since # 0 => t = u,
           Whole(Mouse!Times, 1 .. m), Counted(a, m - 1, t)
    PROVE  Counted(Mouse!PauseStep(a, i), m, x)
  <1> DEFINE S == Mouse!Still(i)
             X == StillTo(m - 1)
             Y == StillTo(m)
             A == StartsTo(m - 1)
             B == StartsTo(m)
             q == Mouse!PauseStep(a, i)
             f == Mouse!Times
             c == a.count
             d == a.duration
             z == a.since
  <1>1. c \in Int /\ d \in Int /\ z \in Int /\ a = [count |-> c, duration |-> d, since |-> z]
    BY DEF Pausing
  <1>2. /\ Y = (IF S THEN X \cup {m} ELSE X)
        /\ B = (IF S /\ m - 1 \notin X THEN A \cup {m} ELSE A)
        /\ m \in Y <=> S
        /\ m \notin X /\ m \notin A /\ IsFiniteSet(X) /\ IsFiniteSet(A)
        /\ X \in SUBSET (1 .. (m - 1))
    BY StillToIs
  <1>3. Cardinality(A) \in Nat /\ Cardinality(A \cup {m}) = Cardinality(A) + 1
    BY <1>2, FS_AddElement, FS_CardinalityType
  <1>4. Sum(f, X) \in Int /\ Sum(f, X \cup {m}) = (x - u) + Sum(f, X)
    <2>1. Whole(f, X) /\ Whole(f, X \cup {m})
      <3>1. X \in SUBSET (1 .. m) /\ X \cup {m} \in SUBSET (1 .. m)
        BY <1>2
      <3> HIDE DEF X, f
      <3> QED
        BY <3>1 DEF Whole, f
    <2>2. IsFiniteSet(X \cup {m}) /\ (X \cup {m}) \ {m} = X /\ m \in X \cup {m}
      BY <1>2, FS_AddElement
    <2> HIDE DEF X, f
    <2>3. Sum(f, X \cup {m}) = f[m] + Sum(f, (X \cup {m}) \ {m})
      BY <2>1, <2>2, SumFacts
    <2>4. Sum(f, X) \in Int
      BY <1>2, <2>1, SumFacts
    <2> QED
      BY <2>2, <2>3, <2>4 DEF f
  <1>5. /\ z # 0 <=> m - 1 \in X
        /\ c + (IF z # 0 THEN 1 ELSE 0) = Cardinality(A)
        /\ d + (IF z # 0 THEN t - z ELSE 0) = Sum(f, X)
    BY DEF Counted
  <1>6. q = IF S THEN [a EXCEPT !.since = IF z = 0 THEN u ELSE z]
            ELSE IF z = 0 THEN a ELSE [count |-> c + 1, duration |-> d + u - z, since |-> 0]
    BY DEF Mouse!PauseStep
  <1> HIDE DEF S, X, Y, A, B, q, f, c, d, z
  <1>7. CASE S /\ z = 0
    <2>1. q = [count |-> c, duration |-> d, since |-> u]
      BY <1>1, <1>6, <1>7
    <2>2. /\ q.since # 0 /\ q.count + 1 = Cardinality(B) /\ m \in Y
          /\ q.duration + (x - q.since) = Sum(f, Y)
      BY <1>1, <1>2, <1>3, <1>4, <1>5, <1>7, <2>1
    <2> QED
      BY <2>2 DEF Counted, B, Y, q, f
  <1>8. CASE S /\ z # 0
    <2>1. q = [count |-> c, duration |-> d, since |-> z]
      BY <1>1, <1>6, <1>8
    <2>2. t = u
      BY <1>8 DEF z
    <2>3. /\ q.since # 0 /\ q.count + 1 = Cardinality(B) /\ m \in Y
          /\ q.duration + (x - q.since) = Sum(f, Y)
      <3> DEFINE w == Sum(f, X)
      <3>1. d + (u - z) = w /\ w \in Int /\ Sum(f, Y) = (x - u) + w
        BY <1>2, <1>4, <1>5, <1>8, <2>2
      <3> HIDE DEF w
      <3>2. d \in Int /\ z \in Int /\ x \in Int /\ u \in Int /\ w \in Int /\ d + (u - z) = w
        BY <1>1, <3>1
      <3>3. d + (x - z) = (x - u) + w
        BY ONLY <3>2
      <3> QED
        BY <1>1, <1>2, <1>3, <1>5, <1>8, <2>1, <3>1, <3>3
    <2> QED
      BY <2>3 DEF Counted, B, Y, q, f
  <1>9. CASE ~S /\ z = 0
    <2>1. q = a /\ z = q.since /\ q.count = c /\ q.duration = d
      BY <1>6, <1>9 DEF z, c, d
    <2>2. /\ ~(q.since # 0) /\ q.count + 0 = Cardinality(B) /\ m \notin Y
          /\ q.duration + 0 = Sum(f, Y)
      BY <1>1, <1>2, <1>3, <1>4, <1>5, <1>9, <2>1
    <2> QED
      BY <2>2 DEF Counted, B, Y, q, f
  <1>10. CASE ~S /\ z # 0
    <2>1. q = [count |-> c + 1, duration |-> d + u - z, since |-> 0]
      BY <1>6, <1>10
    <2>2. t = u
      BY <1>10 DEF z
    <2>3. /\ ~(q.since # 0) /\ q.count + 0 = Cardinality(B) /\ m \notin Y
          /\ q.duration + 0 = Sum(f, Y)
      BY <1>1, <1>2, <1>3, <1>4, <1>5, <1>10, <2>1, <2>2
    <2> QED
      BY <2>3 DEF Counted, B, Y, q, f
  <1> QED
    BY <1>7, <1>8, <1>9, <1>10

\* Between two timed movements, and after the last, no time passes.
LEMMA NoTimeBetween ==
    ASSUME MouseInv, NEW K, Ordered(K)
    PROVE  /\ \A m \in 1 .. K : m > 1 =>
                 trail[Mouse!InOrder[m] - 1].at = trail[Mouse!InOrder[m - 1]].at
           /\ K > 0 => trail[Len(trail)].at = trail[Mouse!InOrder[K]].at
  <1> DEFINE o == Mouse!InOrder
             L == Len(trail)
  <1>1. /\ K \in Nat /\ L \in Nat
        /\ \A n \in 1 .. K : o[n] \in 2 .. L
        /\ \A n \in 1 .. K : n > 1 => o[n - 1] < o[n]
        /\ \A j \in Mouse!Timed : \E n \in 1 .. K : o[n] = j
        /\ \A n, k \in 1 .. K : n < k => o[n] < o[k]
    <2>1. L \in Nat
      BY ONLY MouseInv DEF MouseInv
    <2>2. /\ K \in Nat
          /\ \A n \in 1 .. K : o[n] \in 2 .. L
          /\ \A n \in 1 .. K : n > 1 => o[n - 1] < o[n]
      BY ONLY Ordered(K) DEF Ordered
    <2>3. \A j \in Mouse!Timed : \E n \in 1 .. K : o[n] = j
      BY ONLY Ordered(K) DEF Ordered
    <2>4. \A n, k \in 1 .. K : n < k => o[n] < o[k]
      BY ONLY Ordered(K) DEF Ordered
    <2> QED
      BY ONLY <2>1, <2>2, <2>3, <2>4
  <1> HIDE DEF o
  <1>2. ASSUME NEW m \in 1 .. K, m > 1
        PROVE  trail[o[m] - 1].at = trail[o[m - 1]].at
    <2> DEFINE a == o[m - 1]
               b == o[m] - 1
    <2>1. m - 1 \in 1 .. K /\ m - 1 < m
      BY <1>1, <1>2
    <2>2. a \in 1 .. L /\ b \in a .. L /\ o[m] \in Int
      BY <1>1, <1>2, <2>1
    <2>3. ASSUME NEW j \in (a + 1) .. b, j \in Mouse!Timed PROVE FALSE
      <3>1. PICK n \in 1 .. K : o[n] = j
        BY <1>1, <2>3
      <3>2. o[n] > a /\ o[n] < o[m] /\ o[n] \in Int /\ a \in Int
        BY <2>2, <3>1
      <3>3. ~(n < m - 1) /\ n # m - 1 /\ ~(m < n) /\ n # m
        <4>1. ~(n < m - 1)
          BY <1>1, <2>1, <3>2
        <4>2. ~(m < n)
          BY <1>1, <2>2, <3>2
        <4> QED
          BY <2>2, <3>2, <4>1, <4>2
      <3> QED
        BY <1>1, <3>3
    <2> HIDE DEF a, b
    <2>4. trail[b].at = trail[a].at
      BY <2>2, <2>3, SameTime DEF L
    <2> QED
      BY <2>4 DEF a, b
  <1>3. ASSUME K > 0 PROVE trail[L].at = trail[o[K]].at
    <2> DEFINE a == o[K]
    <2>1. K \in 1 .. K
      BY <1>1, <1>3
    <2>2. a \in 1 .. L /\ L \in a .. L
      BY <1>1, <2>1
    <2>3. ASSUME NEW j \in (a + 1) .. L, j \in Mouse!Timed PROVE FALSE
      <3>1. PICK n \in 1 .. K : o[n] = j
        BY <1>1, <2>3
      <3>2. o[n] > a /\ o[n] \in Int /\ a \in Int
        BY <2>2, <3>1
      <3>3. ~(n < K) /\ n # K
        BY <1>1, <2>1, <3>2
      <3> QED
        BY <1>1, <3>3
    <2> HIDE DEF a
    <2>4. trail[L].at = trail[a].at
      BY <2>2, <2>3, SameTime DEF L
    <2> QED
      BY <2>4 DEF a
  <1> QED
    BY <1>2, <1>3 DEF o, L

\* At the end an open pause is counted as it is when it is closed.
LEMMA PausesCounted == ASSUME MouseInv PROVE Mouse!PausesRight
  <1> DEFINE K == Cardinality(Mouse!Timed)
             o == Mouse!InOrder
             L == Len(trail)
             f == Mouse!Times
  <1> SUFFICES ASSUME trail[1].at > 0
               PROVE  /\ Mouse!Pauses.count = Cardinality(StartsTo(K))
                      /\ Mouse!Pauses.duration = Sum(f, StillTo(K))
    <2>1. DOMAIN o = 1 .. K
      BY InOrderIs DEF Ordered
    <2>2. Mouse!Stills = StillTo(K)
      BY <2>1 DEF Mouse!Stills, StillTo
    <2>3. Mouse!PauseStarts = StartsTo(K)
      BY <2>2 DEF Mouse!PauseStarts, StartsTo
    <2> QED
      BY <2>2, <2>3, MouseNames, MouseSums DEF Mouse!PausesRight
  <1>1. Ordered(K) /\ K \in Nat /\ L \in Nat /\ L >= 1 /\ DOMAIN o = 1 .. K
    BY InOrderIs DEF Ordered, MouseInv
  <1>2. \A m \in 1 .. K : o[m] \in 2 .. L
    BY <1>1 DEF Ordered
  <1>3. PICK v : PausedSoFar(v, K)
    BY <1>1, PausesGoOn
  <1>4. /\ \A m \in 1 .. K : m > 1 => trail[o[m] - 1].at = trail[o[m - 1]].at
        /\ K > 0 => trail[L].at = trail[o[K]].at
    BY <1>1, NoTimeBetween
  <1>5. ASSUME NEW j \in 1 .. L PROVE trail[j].at > 0 /\ trail[j].at \in Int
    BY TimesPositive
  <1>6. ASSUME NEW m \in 1 .. K PROVE f[m] = trail[o[m]].at - trail[o[m] - 1].at
    BY <1>1 DEF Mouse!Times
  <1>7. ASSUME NEW m \in 1 .. K PROVE o[m] \in 1 .. L /\ o[m] - 1 \in 1 .. L
    BY <1>1, <1>2
  <1> HIDE DEF K, o, L, f
  <1>8. Whole(f, 1 .. K)
    <2> SUFFICES ASSUME NEW m \in 1 .. K PROVE f[m] \in Int
      BY DEF Whole
    <2> DEFINE x == trail[o[m]].at
               u == trail[o[m] - 1].at
    <2>1. x \in Int /\ u \in Int
      BY <1>5, <1>7
    <2>2. f[m] = x - u
      BY <1>6
    <2> HIDE DEF x, u
    <2> QED
      BY <2>1, <2>2
  <1> DEFINE At(m) == IF m = 0 THEN 0 ELSE trail[o[m]].at
             P == {m \in 0 .. K : Counted(v[m], m, At(m))}
  <1>9. 0 \in P
    <2>1. StillTo(0) = {} /\ StartsTo(0) = {}
      BY DEF StillTo, StartsTo
    <2>2. v[0].count = 0 /\ v[0].duration = 0 /\ v[0].since = 0
      BY <1>3 DEF PausedSoFar, Fresh
    <2>3. Cardinality({}) = 0 /\ IsFiniteSet({})
      BY FS_EmptySet
    <2>4. Sum(f, {}) = 0
      <3>1. Whole(f, {})
        BY DEF Whole
      <3> QED
        BY <2>3, <3>1, SumFacts
    <2>5. Counted(v[0], 0, 0)
      BY <2>1, <2>2, <2>3, <2>4 DEF Counted, f
    <2>6. 0 \in 0 .. K
      BY <1>1
    <2> QED
      BY <2>5, <2>6
  <1>10. ASSUME NEW m \in 1 .. K, m - 1 \in P PROVE m \in P
    <2> DEFINE a == v[m - 1]
               i == o[m]
               x == trail[o[m]].at
               u == trail[o[m] - 1].at
               t == At(m - 1)
    <2>1. m \in Nat \ {0} /\ m \in 0 .. K /\ m - 1 \in 0 .. K /\ m \in 1 .. K
      BY <1>1
    <2>2. a \in Pausing /\ v[m] = Mouse!PauseStep(a, i) /\ Counted(a, m - 1, t)
      BY <1>3, <1>10, <2>1 DEF PausedSoFar, o
    <2>3. x \in Int /\ u \in Int /\ u # 0 /\ f[m] = x - u
      <3>1. u > 0
        BY <1>5, <1>7
      <3>2. x \in Int /\ u \in Int
        BY <1>5, <1>7
      <3> HIDE DEF u, x
      <3> QED
        BY <1>6, <3>1, <3>2 DEF u, x
    <2>4. t \in Int
      <3>1. CASE m - 1 = 0
        BY <3>1
      <3>2. CASE m - 1 # 0
        <4>1. m - 1 \in 1 .. K
          BY <2>1, <3>2
        <4> QED
          BY <1>5, <1>7, <3>2, <4>1
      <3> QED
        BY <3>1, <3>2
    <2>5. a.since # 0 => t = u
      <3> SUFFICES ASSUME a.since # 0 PROVE t = u
        OBVIOUS
      <3>1. m - 1 \in StillTo(m - 1)
        BY <2>2 DEF Counted
      <3>2. m - 1 \in 1 .. (m - 1)
        BY <3>1 DEF StillTo
      <3>3. m > 1 /\ m - 1 # 0
        BY <2>1, <3>2
      <3> QED
        BY <1>4, <3>3
    <2>6. Whole(f, 1 .. m)
      <3>1. 1 .. m \in SUBSET (1 .. K)
        BY <1>1
      <3> QED
        BY <1>8, <3>1 DEF Whole
    <2>7. i = Mouse!InOrder[m] /\ u = trail[i - 1].at /\ x = trail[i].at
      BY DEF o
    <2> HIDE DEF a, i, x, u, t
    <2>8. Counted(Mouse!PauseStep(a, i), m, x)
      BY <2>1, <2>2, <2>3, <2>4, <2>5, <2>6, <2>7, CountedNext DEF f
    <2>9. At(m) = x
      BY <2>1 DEF x
    <2> QED
      BY <2>1, <2>2, <2>8, <2>9
  <1>11. K \in P
    <2> HIDE DEF P
    <2>1. Inductive(P, K)
      BY <1>9, <1>10 DEF Inductive
    <2>2. K \in 0 .. K
      BY <1>1
    <2> QED
      BY <1>1, <2>1, <2>2, Upward
  <1>12. Counted(v[K], K, At(K)) /\ v[K] \in Pausing
    BY <1>3, <1>11 DEF PausedSoFar
  <1> DEFINE a == v[K]
  <1>13. Mouse!Pauses = IF a.since = 0 \/ L < 2 THEN [count |-> a.count, duration |-> a.duration]
                        ELSE [count |-> a.count + 1, duration |-> a.duration + trail[L].at - a.since]
    BY <1>3 DEF PausedSoFar, Mouse!Pauses, Fresh, Mouse!Last, L
  <1>14. a.since # 0 => K > 0 /\ L >= 2 /\ At(K) = trail[L].at
    <2> SUFFICES ASSUME a.since # 0 PROVE K > 0 /\ L >= 2 /\ At(K) = trail[L].at
      OBVIOUS
    <2>1. K \in StillTo(K)
      BY <1>12 DEF Counted
    <2>2. K \in 1 .. K
      BY <2>1 DEF StillTo
    <2>3. K > 0 /\ K # 0
      BY <1>1, <2>2
    <2>4. L >= 2
      BY <1>1, <1>2, <2>2
    <2> QED
      BY <1>4, <2>3, <2>4
  <1> DEFINE w == trail[L].at
  <1>15. w \in Int
    <2>1. L \in 1 .. L
      BY <1>1
    <2> QED
      BY <1>5, <2>1
  <1>16. a.count \in Int /\ a.duration \in Int /\ a.since \in Int
    BY <1>12 DEF Pausing
  <1>17. CASE a.since = 0
    <2>1. /\ a.count + 0 = Cardinality(StartsTo(K)) /\ a.duration + 0 = Sum(f, StillTo(K))
      BY <1>12, <1>17 DEF Counted, f
    <2> QED
      BY <1>13, <1>16, <1>17, <2>1
  <1>18. CASE a.since # 0
    <2>1. /\ a.count + 1 = Cardinality(StartsTo(K))
          /\ a.duration + (w - a.since) = Sum(f, StillTo(K))
      BY <1>12, <1>14, <1>18 DEF Counted, f
    <2>2. Mouse!Pauses = [count |-> a.count + 1, duration |-> a.duration + w - a.since]
      BY <1>1, <1>13, <1>14, <1>18
    <2> HIDE DEF w, a
    <2> QED
      BY <1>15, <1>16, <2>1, <2>2
  <1> QED
    BY <1>17, <1>18

-----------------------------------------------------------------------------
(* KeystrokeScores.  The hold times are made in a fold over the keystrokes,    *)
(* from the first to the last.                                               *)

KeyEvents == [at : Nat, duration : Nat \cup {-1}, code : Codes]

KeysInv == events \in Seq(KeyEvents)

LEMMA InitKeys == Keys!Init => KeysInv
  BY DEF Keys!Init, KeysInv

LEMMA NextKeys == ASSUME KeysInv, Keys!Next PROVE KeysInv'
  <1>1. PICK gap \in Gaps :
           \E e \in Keys!Events({gap + IF events = << >> THEN 0 ELSE Keys!Last(events).at}) :
              events' = Append(events, e)
    BY DEF Keys!Next, Keys!Keystroke
  <1> DEFINE t == gap + IF events = << >> THEN 0 ELSE Keys!Last(events).at
  <1>2. t \in Nat
    <2>1. gap \in Nat
      BY AnalyzersAssumption
    <2>2. CASE events = << >>
      BY <2>1, <2>2
    <2>3. CASE events # << >>
      <3>1. Len(events) \in 1 .. Len(events)
        BY <2>3, EmptySeq DEF KeysInv
      <3>2. events[Len(events)] \in KeyEvents
        BY <3>1, ElementOfSeq DEF KeysInv
      <3>3. Keys!Last(events) = events[Len(events)]
        BY DEF Keys!Last
      <3>4. Keys!Last(events).at \in Nat
        BY <3>2, <3>3 DEF KeyEvents
      <3> QED
        BY <2>1, <2>3, <3>4
    <2> QED
      BY <2>2, <2>3
  <1> HIDE DEF t
  <1>3. PICK e \in Keys!Events({t}) : events' = Append(events, e)
    BY <1>1 DEF t
  <1>4. e \in KeyEvents
    BY <1>2, AnalyzersAssumption DEF Keys!Events, KeyEvents, Keys!NoDuration
  <1> QED
    BY <1>3, <1>4 DEF KeysInv

\* What a keystroke makes of the hold times and of the keys that are down.
Holding == [held : Seq(Int), pressed : [Codes -> Int]]
NothingHeld == [held |-> << >>, pressed |-> [c \in Codes |-> Keys!NoDuration]]

LEMMA HoldStepIs ==
    ASSUME NEW acc \in Holding, NEW e \in KeyEvents
    PROVE  Keys!HoldStep(acc, e) \in Holding
  <1>1. /\ acc.held \in Seq(Int) /\ acc.pressed \in [Codes -> Int]
        /\ e.at \in Int /\ e.duration \in Int /\ e.code \in Codes /\ acc.pressed[e.code] \in Int
        /\ acc = [held |-> acc.held, pressed |-> acc.pressed] /\ Keys!NoDuration \in Int
    BY DEF Holding, KeyEvents, Keys!NoDuration
  <1>2. CASE e.duration # Keys!NoDuration
    <2>1. Keys!HoldStep(acc, e) = [acc EXCEPT !.held = Append(@, e.duration)]
      BY <1>2 DEF Keys!HoldStep
    <2>2. Append(acc.held, e.duration) \in Seq(Int)
      BY <1>1
    <2> QED
      BY <1>1, <2>1, <2>2 DEF Holding
  <1>3. CASE e.duration = Keys!NoDuration /\ acc.pressed[e.code] = Keys!NoDuration
    <2>1. Keys!HoldStep(acc, e) = [acc EXCEPT !.pressed[e.code] = e.at]
      BY <1>3 DEF Keys!HoldStep
    <2>2. [acc.pressed EXCEPT ![e.code] = e.at] \in [Codes -> Int]
      BY <1>1
    <2> QED
      BY <1>1, <2>1, <2>2 DEF Holding
  <1>4. CASE e.duration = Keys!NoDuration /\ acc.pressed[e.code] # Keys!NoDuration
    <2> DEFINE h == Append(acc.held, e.at - acc.pressed[e.code])
               p == [acc.pressed EXCEPT ![e.code] = Keys!NoDuration]
    <2>1. Keys!HoldStep(acc, e) = [held |-> h, pressed |-> p]
      BY <1>4 DEF Keys!HoldStep
    <2>2. h \in Seq(Int) /\ p \in [Codes -> Int]
      BY <1>1
    <2> QED
      BY <2>1, <2>2 DEF Holding
  <1> QED
    BY <1>2, <1>3, <1>4

LEMMA KeyOrders ==
    /\ \A S : Keys!Cardinality(S) = Cardinality(S)
    /\ \A I, n : Keys!Nth(I, n) = Nth(I, n)
    /\ \A S : Keys!Max(S) = Latest(S)
  BY DEF Keys!Cardinality, Cardinality, Keys!Nth, Keys!Rank, Nth, Rank, Keys!Max, Latest

\* The hold times and the keys that are down after every keystroke.
HeldSoFar(s, h) ==
    /\ h[0] = NothingHeld
    /\ \A m \in 1 .. Len(s) : h[m] = Keys!HoldStep(h[m - 1], s[m])
    /\ \A m \in 0 .. Len(s) : h[m] \in Holding
    /\ Keys!HoldTimes(s) = h[Len(s)].held

LEMMA Holds ==
    ASSUME NEW s \in Seq(KeyEvents)
    PROVE  \E h : HeldSoFar(s, h)
  <1> DEFINE n == Len(s)
             b == NothingHeld
             F == [v \in Holding \X (1 .. n) |-> Keys!HoldStep(v[1], s[v[2]])]
             Def(g) == g = [t \in SUBSET (1 .. n) |-> IF t = {} THEN b
                                                     ELSE Keys!HoldStep(g[t \ {Latest(t)}], s[Latest(t)])]
             G == CHOOSE g : Def(g)
             h == [m \in 0 .. n |-> G[1 .. m]]
  <1>1. n \in Nat /\ DOMAIN s = 1 .. n /\ \A k \in 1 .. n : s[k] \in KeyEvents
    OBVIOUS
  <1>2. b \in Holding
    BY DEF NothingHeld, Holding, Keys!NoDuration
  <1> HIDE DEF n, b
  <1>3. F \in [Holding \X (1 .. n) -> Holding]
    BY <1>1, HoldStepIs
  <1>4. \A t \in SUBSET (1 .. n) : t # {} => Latest(t) \in t
    BY <1>1, LatestIs
  <1>5. \E g : Def(g)
    <2>1. PICK g : Unfolded(g, F, b, SUBSET (1 .. n)) /\ g \in [SUBSET (1 .. n) -> Holding]
      <3> HIDE DEF F
      <3> QED
        BY <1>1, <1>2, <1>3, FoldExists
    <2>2. ASSUME NEW t \in SUBSET (1 .. n), t # {}
          PROVE  F[<<g[t \ {Latest(t)}], Latest(t)>>] = Keys!HoldStep(g[t \ {Latest(t)}], s[Latest(t)])
      <3>1. t \ {Latest(t)} \in SUBSET (1 .. n) /\ Latest(t) \in 1 .. n
        BY <1>4, <2>2
      <3>2. g[t \ {Latest(t)}] \in Holding
        BY <2>1, <3>1
      <3> QED
        BY <3>1, <3>2
    <2>3. g = [t \in SUBSET (1 .. n) |-> IF t = {} THEN b ELSE F[<<g[t \ {Latest(t)}], Latest(t)>>]]
      BY <2>1 DEF Unfolded
    <2> HIDE DEF F
    <2>4. Def(g)
      BY <2>2, <2>3
    <2> QED
      BY <2>4
  <1>6. Def(G)
    BY <1>5
  <1>7. Keys!HoldTimes(s) = G[1 .. n].held
    BY <1>1 DEF Keys!HoldTimes, Keys!FoldLeft, Keys!MapThenFoldSet, Latest, Keys!Max, NothingHeld, b
  <1> HIDE DEF G
  <1>8. G[{}] = b
    BY <1>6
  <1>9. ASSUME NEW m \in 1 .. n PROVE h[m] = Keys!HoldStep(h[m - 1], s[m])
    <2>1. /\ 1 .. m \in SUBSET (1 .. n) /\ 1 .. m # {} /\ Latest(1 .. m) = m
          /\ (1 .. m) \ {Latest(1 .. m)} = 1 .. (m - 1)
      BY <1>1, LatestOf
    <2>2. m \in 0 .. n /\ m - 1 \in 0 .. n
      BY <1>1
    <2>3. G[1 .. m] = Keys!HoldStep(G[1 .. (m - 1)], s[m])
      BY <1>6, <2>1
    <2> QED
      BY <2>2, <2>3
  <1>10. h[0] = b /\ h[n] = G[1 .. n]
    <2>1. 0 \in 0 .. n /\ n \in 0 .. n /\ 1 .. 0 = {}
      BY <1>1
    <2> QED
      BY <1>8, <2>1
  <1> HIDE DEF h
  <1>11. \A m \in 0 .. n : h[m] \in Holding
    <2> DEFINE P == {m \in 0 .. n : h[m] \in Holding}
    <2>1. 0 \in P
      BY <1>1, <1>2, <1>10
    <2>2. ASSUME NEW m \in 1 .. n, m - 1 \in P PROVE m \in P
      <3>1. h[m - 1] \in Holding /\ m \in 0 .. n
        BY <1>1, <2>2
      <3> QED
        BY <1>1, <1>9, <3>1, HoldStepIs
    <2> HIDE DEF P
    <2>3. Inductive(P, n)
      BY <2>1, <2>2 DEF Inductive
    <2>4. \A m \in 0 .. n : m \in P
      BY <1>1, <2>3, Upward
    <2> QED
      BY <2>4 DEF P
  <1> QED
    BY <1>7, <1>9, <1>10, <1>11 DEF HeldSoFar, n, b

\* Hold times are whole numbers.
LEMMA HoldTimesType ==
    ASSUME NEW s \in Seq(KeyEvents)
    PROVE  Keys!HoldTimes(s) \in Seq(Int)
  <1>1. PICK h : HeldSoFar(s, h)
    BY Holds
  <1>2. h[Len(s)] \in Holding
    <2>1. Len(s) \in 0 .. Len(s)
      OBVIOUS
    <2> QED
      BY <1>1, <2>1 DEF HeldSoFar
  <1> QED
    BY <1>1, <1>2 DEF HeldSoFar, Holding

\* The releases among the first m events, the times their keys were held, and what a key
\* leaves pressed: after an odd number of its events the time of the last one.
Released(s, m) == {i \in 1 .. m : Cardinality(Keys!OfKey(s, i)) % 2 = 1}
\* The hold time of a release, the events of a key up to one, and whether they leave it down.
HoldOf(s, i) == s[i].at - s[Latest(Keys!OfKey(s, i))].at
Before(s, c, m) == {j \in 1 .. m : s[j].code = c}
LeftPressed(s, c, m) ==
    IF Cardinality(Before(s, c, m)) % 2 = 1 THEN s[Latest(Before(s, c, m))].at ELSE Keys!NoDuration

\* The hold times are those of the releases so far, and a key is down since its last event
\* after an odd number of them.
Paired(s, h, m) ==
    /\ h.held = [n \in 1 .. Cardinality(Released(s, m)) |-> HoldOf(s, Nth(Released(s, m), n))]
    /\ \A c \in Codes : h.pressed[c] = LeftPressed(s, c, m)

\* One keystroke is one more event of its key, and of no other.
LEMMA BeforeIs ==
    ASSUME NEW s, NEW m \in Nat \ {0}
    PROVE  /\ \A c : c # s[m].code => Before(s, c, m) = Before(s, c, m - 1)
           /\ Before(s, s[m].code, m) = Before(s, s[m].code, m - 1) \cup {m}
           /\ Cardinality(Before(s, s[m].code, m)) = Cardinality(Before(s, s[m].code, m - 1)) + 1
           /\ Cardinality(Before(s, s[m].code, m - 1)) \in Nat
           /\ Latest(Before(s, s[m].code, m)) = m
           /\ Keys!OfKey(s, m) = Before(s, s[m].code, m - 1)
  <1> DEFINE B == Before(s, s[m].code, m - 1)
             C == Before(s, s[m].code, m)
  <1>1. m \in Nat /\ m - 1 \in Nat /\ 1 .. m = 1 .. (m - 1) \cup {m} /\ m \notin 1 .. (m - 1)
    OBVIOUS
  <1>2. C = B \cup {m} /\ B \in SUBSET (1 .. (m - 1)) /\ m \notin B
    BY <1>1 DEF Before
  <1>3. \A c : c # s[m].code => Before(s, c, m) = Before(s, c, m - 1)
    BY <1>1 DEF Before
  <1>4. IsFiniteSet(B)
    <2>1. IsFiniteSet(1 .. (m - 1))
      BY <1>1, UpTo
    <2> QED
      BY <1>2, <2>1, FS_Subset
  <1>5. Keys!OfKey(s, m) = B
    BY DEF Keys!OfKey, Before
  <1> HIDE DEF B, C
  <1>6. Cardinality(C) = Cardinality(B) + 1 /\ Cardinality(B) \in Nat
    BY <1>2, <1>4, FS_AddElement, FS_CardinalityType
  <1>7. Latest(C) = m
    <2>1. \A y \in C : m >= y /\ y \in Int
      BY <1>1, <1>2
    <2>2. m \in C
      BY <1>2
    <2>3. \A x \in C : (\A y \in C : x >= y) => x = m
      <3> SUFFICES ASSUME NEW x \in C, \A y \in C : x >= y PROVE x = m
        OBVIOUS
      <3>1. x >= m /\ m >= x /\ x \in Int
        BY <2>1, <2>2
      <3> QED
        BY <1>1, <3>1
    <2> QED
      BY <2>1, <2>2, <2>3 DEF Latest
  <1> QED
    BY <1>2, <1>3, <1>5, <1>6, <1>7 DEF B, C

\* A press makes its key's number of events odd, a release even; the other keys keep theirs.
LEMMA PairedNext ==
    ASSUME NEW s \in Seq(KeyEvents), NEW m \in 1 .. Len(s), NEW h \in Holding,
           s[m].duration = Keys!NoDuration, Paired(s, h, m - 1)
    PROVE  Paired(s, Keys!HoldStep(h, s[m]), m)
  <1> DEFINE c == s[m].code
             B == Before(s, c, m - 1)
             p == h.pressed
             q == Keys!HoldStep(h, s[m])
  <1>1. m \in Nat \ {0} /\ m - 1 \in Nat /\ m \in 1 .. Len(s)
    OBVIOUS
  <1>2. s[m] \in KeyEvents
    BY <1>1, ElementOfSeq
  <1>3. /\ c \in Codes /\ s[m].at \in Nat /\ p \in [Codes -> Int]
        /\ h = [held |-> h.held, pressed |-> p] /\ h.held \in Seq(Int)
    BY <1>2 DEF KeyEvents, Holding
  <1>4. /\ \A d : d # c => Before(s, d, m) = Before(s, d, m - 1)
        /\ Cardinality(Before(s, c, m)) = Cardinality(B) + 1 /\ Cardinality(B) \in Nat
        /\ Latest(Before(s, c, m)) = m /\ Keys!OfKey(s, m) = B
    BY <1>1, BeforeIs
  <1>5. p[c] = LeftPressed(s, c, m - 1) /\ \A d \in Codes : p[d] = LeftPressed(s, d, m - 1)
    BY <1>3 DEF Paired
  <1>6. q = IF p[c] = Keys!NoDuration THEN [h EXCEPT !.pressed[c] = s[m].at]
            ELSE [held |-> Append(h.held, s[m].at - p[c]), pressed |-> [p EXCEPT ![c] = Keys!NoDuration]]
    BY DEF Keys!HoldStep
  <1>7. \A d \in Codes : d # c => LeftPressed(s, d, m) = LeftPressed(s, d, m - 1)
    BY <1>4 DEF LeftPressed
  <1> HIDE DEF c, B, p, q
  <1> DEFINE k == Cardinality(B)
  <1>8. k \in Nat /\ (k % 2 = 1 => (k + 1) % 2 # 1) /\ (k % 2 # 1 => (k + 1) % 2 = 1)
    BY <1>4
  <1>9. CASE k % 2 # 1
    <2>1. p[c] = Keys!NoDuration
      BY <1>5, <1>9 DEF LeftPressed, B
    <2>2. q = [held |-> h.held, pressed |-> [p EXCEPT ![c] = s[m].at]]
      BY <1>3, <1>6, <2>1 DEF p
    <2>3. LeftPressed(s, c, m) = s[m].at
      BY <1>4, <1>8, <1>9 DEF LeftPressed
    <2>4. Released(s, m) = Released(s, m - 1)
      <3>1. 1 .. m = 1 .. (m - 1) \cup {m} /\ Cardinality(Keys!OfKey(s, m)) % 2 # 1
        BY <1>1, <1>4, <1>9
      <3> QED
        BY <3>1 DEF Released
    <2>5. q.held = h.held /\ \A d \in Codes : q.pressed[d] = LeftPressed(s, d, m)
      BY <1>3, <1>5, <1>7, <2>2, <2>3
    <2>6. Paired(s, q, m)
      BY <2>4, <2>5 DEF Paired
    <2> QED
      BY <2>6 DEF q
  <1>10. CASE k % 2 = 1
    <2> DEFINE R == Released(s, m - 1)
               S == Released(s, m)
               y == s[m].at - p[c]
               z == Cardinality(R)
    <2>1. p[c] = s[Latest(B)].at /\ p[c] # Keys!NoDuration
      <3>1. p[c] = s[Latest(B)].at
        BY <1>5, <1>10 DEF LeftPressed, B
      <3>2. B # {} /\ B \in SUBSET (1 .. (m - 1))
        <4>1. B # {}
          <5>1. Cardinality({}) = 0
            BY FS_EmptySet
          <5>2. 0 % 2 = 0
            OBVIOUS
          <5>3. k # 0
            BY <1>8, <1>10, <5>2
          <5> QED
            BY <5>1, <5>3
        <4> QED
          BY <4>1 DEF B, Before
      <3>3. Latest(B) \in 1 .. Len(s)
        <4>1. Latest(B) \in B
          BY <1>1, <3>2, LatestIs
        <4>2. Len(s) \in Nat /\ m <= Len(s)
          BY <1>1
        <4>3. \A x \in 1 .. (m - 1) : x \in 1 .. Len(s)
          BY <1>1, <4>2
        <4> QED
          BY <3>2, <4>1, <4>3
      <3>4. s[Latest(B)] \in KeyEvents
        BY <3>3, ElementOfSeq
      <3>5. s[Latest(B)].at # -1
        BY <3>4 DEF KeyEvents
      <3> QED
        BY <3>1, <3>5 DEF Keys!NoDuration
    <2>2. q = [held |-> Append(h.held, y), pressed |-> [p EXCEPT ![c] = Keys!NoDuration]]
      BY <1>6, <2>1
    <2>3. LeftPressed(s, c, m) = Keys!NoDuration
      BY <1>4, <1>8, <1>10 DEF LeftPressed
    <2>4. S = R \cup {m} /\ R \in SUBSET (1 .. (m - 1))
      <3>1. 1 .. m = 1 .. (m - 1) \cup {m} /\ Cardinality(Keys!OfKey(s, m)) % 2 = 1
        BY <1>1, <1>4, <1>10
      <3> QED
        BY <3>1 DEF Released
    <2>5. y = HoldOf(s, m) /\ y \in Int
      BY <1>3, <1>4, <2>1 DEF HoldOf
    <2> HIDE DEF R, S, y
    <2>6. /\ z \in Nat /\ Cardinality(S) = z + 1 /\ Nth(S, z + 1) = m
          /\ \A n \in 1 .. z : Nth(S, n) = Nth(R, n)
      BY <1>1, <2>4, NthAdded
    <2>7. h.held = [n \in 1 .. z |-> HoldOf(s, Nth(R, n))]
      BY DEF Paired, R
    <2> HIDE DEF z
    <2>8. Append(h.held, y) = [n \in 1 .. (z + 1) |-> HoldOf(s, Nth(S, n))]
      <3> DEFINE a == Append(h.held, y)
                 x == h.held
      <3>0. x \in Seq(Int) /\ DOMAIN x = 1 .. z
        BY <1>3, <2>7
      <3>1. Len(x) = z
        BY <2>6, <3>0
      <3>2. x = [n \in 1 .. z |-> HoldOf(s, Nth(R, n))]
        BY <2>7
      <3> HIDE DEF x
      <3>3. a = [n \in 1 .. (z + 1) |-> IF n = z + 1 THEN y ELSE x[n]]
        BY <2>5, <2>6, <3>0, <3>1 DEF x
      <3>4. ASSUME NEW n \in 1 .. (z + 1)
            PROVE  (IF n = z + 1 THEN y ELSE x[n]) = HoldOf(s, Nth(S, n))
        <4>1. CASE n = z + 1
          BY <2>5, <2>6, <4>1
        <4>2. CASE n # z + 1
          <5>1. n \in 1 .. z
            BY <2>6, <4>2
          <5> QED
            BY <2>6, <3>2, <4>2, <5>1
        <4> QED
          BY <4>1, <4>2
      <3> QED
        BY <3>3, <3>4
    <2>9. /\ q.held = [n \in 1 .. Cardinality(S) |-> HoldOf(s, Nth(S, n))]
          /\ \A d \in Codes : q.pressed[d] = LeftPressed(s, d, m)
      BY <1>3, <1>5, <1>7, <2>2, <2>3, <2>6, <2>8
    <2>10. Paired(s, q, m)
      BY <2>9 DEF Paired, S
    <2> QED
      BY <2>10 DEF q
  <1> QED
    BY <1>9, <1>10

\* The same for all events.
LEMMA HoldsPair == ASSUME KeysInv PROVE Keys!HoldsPaired
  <1> DEFINE s == events
             N == Len(s)
  <1>1. s \in Seq(KeyEvents) /\ N \in Nat /\ DOMAIN s = 1 .. N
    BY DEF KeysInv
  <1> SUFFICES ASSUME \A i \in 1 .. N : s[i].duration = Keys!NoDuration
               PROVE  Keys!HoldTimes(s) =
                         [n \in 1 .. Cardinality(Released(s, N)) |-> HoldOf(s, Nth(Released(s, N), n))]
    BY <1>1, KeyOrders DEF Keys!HoldsPaired, Released, HoldOf, Keys!Releases
  <1> HIDE DEF s
  <1>2. PICK h : HeldSoFar(s, h)
    BY <1>1, Holds
  <1> DEFINE P == {m \in 0 .. N : Paired(s, h[m], m)}
  <1>3. 0 \in P
    <2>1. 0 \in 0 .. N /\ 1 .. 0 = {}
      BY <1>1
    <2>2. h[0] = NothingHeld
      BY <1>2 DEF HeldSoFar
    <2>3. Released(s, 0) = {} /\ \A c : Before(s, c, 0) = {}
      BY <2>1 DEF Released, Before
    <2>4. Cardinality({}) = 0
      BY FS_EmptySet
    <2>5. \A c \in Codes : LeftPressed(s, c, 0) = Keys!NoDuration
      <3> SUFFICES ASSUME NEW c \in Codes PROVE LeftPressed(s, c, 0) = Keys!NoDuration
        OBVIOUS
      <3> DEFINE k == Cardinality(Before(s, c, 0))
      <3>1. k = 0
        BY <2>3, <2>4
      <3> HIDE DEF k
      <3>2. k % 2 # 1
        BY <3>1
      <3> QED
        BY <3>2 DEF LeftPressed, k
    <2>6. << >> = [n \in 1 .. Cardinality(Released(s, 0)) |-> HoldOf(s, Nth(Released(s, 0), n))]
      <3> DEFINE V(n) == HoldOf(s, Nth(Released(s, 0), n))
                 f == [n \in 1 .. 0 |-> V(n)]
      <3>1. f \in [1 .. 0 -> Int]
        BY <2>1
      <3>2. f = [n \in 1 .. Cardinality(Released(s, 0)) |-> V(n)]
        BY <2>3, <2>4
      <3> HIDE DEF f
      <3>3. f \in Seq(Int) /\ Len(f) = 0
        BY <3>1, SeqDef
      <3> QED
        BY <3>2, <3>3, EmptySeq
    <2>7. h[0].held = << >> /\ \A c \in Codes : h[0].pressed[c] = Keys!NoDuration
      BY <2>2 DEF NothingHeld
    <2>8. Paired(s, h[0], 0)
      BY <2>5, <2>6, <2>7 DEF Paired
    <2> QED
      BY <2>1, <2>8
  <1>4. ASSUME NEW m \in 1 .. N, m - 1 \in P PROVE m \in P
    <2>1. m \in 0 .. N /\ m - 1 \in 0 .. N /\ Paired(s, h[m - 1], m - 1)
      BY <1>1, <1>4
    <2>2. h[m - 1] \in Holding /\ h[m] = Keys!HoldStep(h[m - 1], s[m])
      BY <1>2, <2>1 DEF HeldSoFar
    <2>3. Paired(s, h[m], m)
      BY <1>1, <2>1, <2>2, PairedNext
    <2> QED
      BY <2>1, <2>3
  <1> HIDE DEF P
  <1>5. N \in P
    <2>1. Inductive(P, N)
      BY <1>3, <1>4 DEF Inductive
    <2>2. N \in 0 .. N
      BY <1>1
    <2> HIDE DEF N
    <2> QED
      BY <1>1, <2>1, <2>2, Upward
  <1> QED
    BY <1>2, <1>5 DEF HeldSoFar, Paired, P

\* Times between keystrokes, of which the negative ones are left out.
LEMMA KeyNames ==
    /\ \A S : Keys!Cardinality(S) = Cardinality(S)
    /\ \A s, I : Keys!Picked(s, I) = Picked(s, I)
  BY DEF Keys!Cardinality, Cardinality, Keys!Picked, Picked, Keys!Nth, Keys!Rank, Nth, Rank

LEMMA BetweenKeys ==
    ASSUME NEW s \in Seq(KeyEvents), Len(s) >= 2
    PROVE  /\ Keys!FlightTimes(s) \in Seq(Int)
           /\ [i \in 1 .. (Len(s) - 1) |-> s[i + 1].at - s[i].at] \in Seq(Int)
           /\ Len([i \in 1 .. (Len(s) - 1) |-> s[i + 1].at - s[i].at]) = Len(s) - 1
  <1> DEFINE n == Len(s) - 1
             between == [i \in 1 .. n |-> s[i + 1].at - Keys!ReleasedAt(s[i])]
             rhythm == [i \in 1 .. n |-> s[i + 1].at - s[i].at]
  <1>1. n \in Nat /\ n >= 1
    OBVIOUS
  <1>2. ASSUME NEW i \in 1 .. n
        PROVE  s[i + 1].at \in Int /\ s[i].at \in Int /\ Keys!ReleasedAt(s[i]) \in Int
    <2>1. i \in 1 .. Len(s) /\ i + 1 \in 1 .. Len(s)
      OBVIOUS
    <2>2. s[i] \in KeyEvents /\ s[i + 1] \in KeyEvents
      BY <2>1, ElementOfSeq
    <2> QED
      BY <2>2 DEF KeyEvents, Keys!ReleasedAt
  <1>3. between \in [1 .. n -> Int] /\ rhythm \in [1 .. n -> Int]
    <2>1. ASSUME NEW i \in 1 .. n
          PROVE  s[i + 1].at - Keys!ReleasedAt(s[i]) \in Int /\ s[i + 1].at - s[i].at \in Int
      <3> DEFINE a == s[i + 1].at
                 b == s[i].at
                 r == Keys!ReleasedAt(s[i])
      <3>1. a \in Int /\ b \in Int /\ r \in Int
        BY <1>2
      <3> HIDE DEF a, b, r
      <3>2. a - r \in Int /\ a - b \in Int
        BY <3>1
      <3> QED
        BY <3>2 DEF a, b, r
    <2> QED
      BY <2>1
  <1>4. Keys!FlightTimes(s) = Picked(between, {i \in DOMAIN between : between[i] >= 0})
    BY KeyNames DEF Keys!FlightTimes
  <1> HIDE DEF n, between, rhythm
  <1>5. between \in Seq(Int) /\ rhythm \in Seq(Int)
    BY <1>1, <1>3, SeqDef
  <1>6. Picked(between, {i \in DOMAIN between : between[i] >= 0}) \in Seq(Int)
    BY <1>5, PickedFacts
  <1>7. Len(rhythm) = n
    BY <1>1, <1>3, <1>5
  <1> QED
    BY <1>4, <1>5, <1>6, <1>7 DEF n, rhythm

\* Variances are not negative.
LEMMA KeySumIs == ASSUME NEW s PROVE Keys!Sum(s) = Sum(s, DOMAIN s)
  BY DEF Keys!Sum, Keys!FoldSeq, Keys!FoldFunction, Keys!FoldFunctionOnSet,
         Keys!MapThenFoldSet, Sum

LEMMA VarianceIs ==
    ASSUME NEW s \in Seq(Int)
    PROVE  Keys!VarianceOver(s) = Spread(s, s, Len(s), Len(s)) /\ Keys!VarianceOver(s) \in Nat
  <1> DEFINE n == Len(s)
  <1>1. n \in Nat /\ DOMAIN s = 1 .. n /\ \A i \in 1 .. n : s[i] \in Int
    OBVIOUS
  <1>2. Products(s, s, n) = [i \in DOMAIN s |-> s[i] * s[i]]
    BY <1>1 DEF Products
  <1>3. DOMAIN Products(s, s, n) = 1 .. n
    BY DEF Products
  <1>4. Keys!VarianceOver(s) = n * Sum(Products(s, s, n), 1 .. n) - Sum(s, 1 .. n) * Sum(s, 1 .. n)
    BY <1>1, <1>2, <1>3, KeySumIs DEF Keys!VarianceOver
  <1>5. Keys!VarianceOver(s) = Spread(s, s, n, n)
    BY <1>4 DEF Spread
  <1>6. Whole(s, 1 .. n)
    BY <1>1 DEF Whole
  <1> HIDE DEF n
  <1>7. NoneBelow(s, s, 1, 0, n)
    <2> SUFFICES ASSUME NEW k \in 1 .. n, NEW i \in 1 .. (k - 1)
                 PROVE  Apart(s, s, 1, 0, i, k) >= 0
      BY DEF NoneBelow
    <2> DEFINE d == s[k] - s[i]
    <2>1. i \in 1 .. n
      BY <1>1
    <2>2. d \in Int
      BY <1>1, <2>1
    <2>3. Apart(s, s, 1, 0, i, k) = 1 * (d * d) - 0 * (d * d)
      BY DEF Apart
    <2> HIDE DEF d
    <2>4. d * d >= 0 /\ d * d \in Int
      BY <2>2
    <2> QED
      BY <2>3, <2>4
  <1>8. /\ Spread(s, s, n, n) \in Int
        /\ NoneBelow(s, s, 1, 0, n) => 1 * Spread(s, s, n, n) >= 0 * Spread(s, s, n, n)
    BY <1>1, <1>6, Covariance
  <1>9. Spread(s, s, n, n) >= 0
    BY <1>7, <1>8
  <1> QED
    BY <1>5, <1>8, <1>9 DEF n

\* A quotient is at most the factor by which the one is the other.
LEMMA Quotient ==
    ASSUME NEW a \in Nat, NEW b \in Nat, b > 0, NEW k \in Nat, a <= k * b
    PROVE  a \div b \in Nat /\ a \div b <= k
  <1> DEFINE q == a \div b
             r == a % b
  <1>1. q \in Int /\ r \in Int /\ 0 <= r /\ r < b /\ a = b * q + r
    OBVIOUS
  <1> HIDE DEF q, r
  <1>2. q >= 0
    <2> SUFFICES ASSUME q <= -1 PROVE FALSE
      BY <1>1
    <2>1. b * q <= b * (-1)
      BY <1>1
    <2> QED
      BY <1>1, <2>1
  <1>3. q <= k
    <2> SUFFICES ASSUME q >= k + 1 PROVE FALSE
      BY <1>1
    <2>1. b * q >= b * (k + 1)
      BY <1>1
    <2>2. b * (k + 1) = k * b + b
      OBVIOUS
    <2> QED
      BY <1>1, <2>1, <2>2
  <1> QED
    BY <1>1, <1>2, <1>3 DEF q


LEMMA MetricsAre ==
    ASSUME KeysInv
    PROVE  LET m == Keys!Metrics(events)
           IN  /\ m.held \in Seq(Int) /\ m.flown \in Seq(Int) /\ m.rhythm \in Seq(Int)
               /\ Len(events) >= 2 =>
                     m.rhythm = [i \in 1 .. (Len(events) - 1) |-> events[i + 1].at - events[i].at]
  <1> DEFINE some == Len(events) >= 2
             held == IF some THEN Keys!HoldTimes(events) ELSE << >>
             flown == IF some THEN Keys!FlightTimes(events) ELSE << >>
             rhythm == IF some THEN [i \in 1 .. (Len(events) - 1) |->
                                        events[i + 1].at - events[i].at] ELSE << >>
             m == Keys!Metrics(events)
  <1>1. events \in Seq(KeyEvents) /\ << >> \in Seq(Int)
    BY DEF KeysInv
  <1>2. m.held = held /\ m.flown = flown /\ m.rhythm = rhythm
    BY DEF Keys!Metrics
  <1> HIDE DEF m
  <1>3. held \in Seq(Int)
    BY <1>1, HoldTimesType
  <1>4. flown \in Seq(Int) /\ rhythm \in Seq(Int)
    BY <1>1, BetweenKeys
  <1> QED
    BY <1>2, <1>3, <1>4 DEF m

\* Shares and consistency are percentages.
LEMMA ConsistencyIs ==
    ASSUME NEW m, m.rhythm \in Seq(Int)
    PROVE  Keys!Consistency(m) \in 0 .. 100
  <1> DEFINE s == m.rhythm
             n == Len(s)
             V == Keys!VarianceOver(s)
             p == n * n
  <1>1. s \in Seq(Int) /\ n \in Nat /\ V \in Nat
    BY VarianceIs
  <1>2. Keys!Consistency(m) = IF s = << >> THEN 0 ELSE (100 * n * n) \div (n * n + V)
    BY DEF Keys!Consistency
  <1>3. CASE s = << >>
    BY <1>2, <1>3
  <1>4. CASE s # << >>
    <2>1. n > 0
      BY <1>1, <1>4, EmptySeq
    <2> HIDE DEF s, n, V
    <2>2. p \in Nat /\ p > 0 /\ 100 * n * n = 100 * p
      BY <1>1, <2>1
    <2>3. Keys!Consistency(m) = (100 * p) \div (p + V)
      BY <1>2, <1>4, <2>2
    <2> HIDE DEF p
    <2>4. 100 * p \in Nat /\ p + V \in Nat /\ p + V > 0 /\ 100 * p <= 100 * (p + V)
      BY <1>1, <2>2
    <2> DEFINE q == (100 * p) \div (p + V)
    <2>5. q \in Nat /\ q <= 100
      BY <2>4, Quotient
    <2>6. Keys!Consistency(m) = q
      BY <2>3
    <2> HIDE DEF q
    <2> QED
      BY <2>5, <2>6
  <1> QED
    BY <1>3, <1>4

LEMMA ShareIs ==
    ASSUME NEW s \in Seq(Int), NEW b \in Nat, b > 0
    PROVE  Keys!Share(s, b) \in 0 .. 100
  <1> DEFINE n == Len(s)
             V == Keys!VarianceOver(s)
             c == b * n * n
  <1>1. n \in Nat /\ V \in Nat /\ c \in Int
    BY VarianceIs
  <1>2. Keys!Share(s, b) = IF s = << >> \/ V < c
                           THEN IF s = << >> THEN 0 ELSE (100 * V) \div c
                           ELSE 100
    BY DEF Keys!Share, Keys!VarianceBelow
  <1> HIDE DEF n, V, c
  <1>3. CASE s # << >> /\ V < c
    <2>1. 100 * V \in Nat /\ c \in Nat /\ c > 0 /\ 100 * V <= 100 * c
      BY <1>1, <1>3
    <2> DEFINE q == (100 * V) \div c
    <2>2. q \in Nat /\ q <= 100
      BY <2>1, Quotient
    <2>3. Keys!Share(s, b) = q
      BY <1>2, <1>3
    <2> HIDE DEF q
    <2> QED
      BY <2>2, <2>3
  <1> QED
    BY <1>2, <1>3

-----------------------------------------------------------------------------
(* The score of the anomalies.                                               *)

\* The anomalies there are, with their confidences: two are below 80.
Confidences == {60, 70, 80, 85, 90}
Found(S) == IsFiniteSet(S) /\ \A a \in S : a.confidence \in Confidences
Doubtful(slow, precise, S) ==
    /\ slow.confidence = 60 /\ precise.confidence = 70
    /\ \A a \in S : a = slow \/ a = precise \/ a.confidence >= 80

LEMMA AnomaliesAre ==
    ASSUME NEW m
    PROVE  /\ Found(Keys!AnomaliesOf(m))
           /\ \E slow, precise : Doubtful(slow, precise, Keys!AnomaliesOf(m))
           /\ Keys!Consistency(m) > 95 =>
                 \E a \in Keys!AnomaliesOf(m) : a.type = "no_variation" /\ a.confidence = 90
  <1> DEFINE a1 == [type |-> "perfect_timing", confidence |-> 85,
                    found |-> Keys!VarianceBelow(m.held, 10) /\ Keys!Sum(m.held) > 0]
             a2 == [type |-> "no_variation", confidence |-> 90, found |-> Keys!Consistency(m) > 95]
             a3 == [type |-> "too_fast", confidence |-> 80, found |-> m.speed > 800]
             a4 == [type |-> "too_slow", confidence |-> 60,
                    found |-> m.speed < 20 /\ Keys!Mean(m.flown) > 1000]
             a5 == [type |-> "repeated_pattern", confidence |-> 85,
                    found |-> Keys!VarianceBelow(m.flown, 5) /\ Keys!Sum(m.flown) > 0]
             a6 == [type |-> "inhuman_precision", confidence |-> 70,
                    found |-> Keys!VarianceBelow(m.held, 5) /\ Keys!Mean(m.held) > 50]
  <1>1. Keys!AnomaliesOf(m) = {a \in {a1, a2, a3, a4, a5, a6} : a.found}
    BY DEF Keys!AnomaliesOf
  <1>2. /\ a1.confidence = 85 /\ a2.confidence = 90 /\ a3.confidence = 80
        /\ a4.confidence = 60 /\ a5.confidence = 85 /\ a6.confidence = 70
    OBVIOUS
  <1> HIDE DEF a1, a2, a3, a4, a5, a6
  <1>3. IsFiniteSet({a1, a2, a3, a4, a5, a6})
    <2>1. IsFiniteSet({a1})
      BY FS_Singleton
    <2>2. IsFiniteSet({a1} \cup {a2})
      BY <2>1, FS_AddElement
    <2>3. IsFiniteSet({a1} \cup {a2} \cup {a3})
      BY <2>2, FS_AddElement
    <2>4. IsFiniteSet({a1} \cup {a2} \cup {a3} \cup {a4})
      BY <2>3, FS_AddElement
    <2>5. IsFiniteSet({a1} \cup {a2} \cup {a3} \cup {a4} \cup {a5})
      BY <2>4, FS_AddElement
    <2>6. IsFiniteSet({a1} \cup {a2} \cup {a3} \cup {a4} \cup {a5} \cup {a6})
      BY <2>5, FS_AddElement
    <2>7. {a1, a2, a3, a4, a5, a6}
             = {a1} \cup {a2} \cup {a3} \cup {a4} \cup {a5} \cup {a6}
      OBVIOUS
    <2> QED
      BY <2>6, <2>7
  <1>4. IsFiniteSet(Keys!AnomaliesOf(m))
    <2>1. Keys!AnomaliesOf(m) \in SUBSET {a1, a2, a3, a4, a5, a6}
      BY <1>1
    <2> HIDE DEF Confidences
    <2> QED
      BY <1>3, <2>1, FS_Subset
  <1>5. \A a \in Keys!AnomaliesOf(m) : a.confidence \in Confidences
    BY <1>1, <1>2 DEF Confidences
  <1>6. Doubtful(a4, a6, Keys!AnomaliesOf(m))
    BY <1>1, <1>2 DEF Doubtful
  <1>7. Keys!Consistency(m) > 95 => a2 \in Keys!AnomaliesOf(m) /\ a2.type = "no_variation"
    <2>1. a2.found = (Keys!Consistency(m) > 95) /\ a2.type = "no_variation"
      BY DEF a2
    <2> QED
      BY <1>1, <2>1
  <1> QED
    BY <1>2, <1>4, <1>5, <1>6, <1>7 DEF Found

\* What the fold over the anomalies adds up.
Confidence(S) == [a \in S |-> a.confidence]
Folding(g, S) ==
    g = [s \in SUBSET S |-> IF s = {} THEN 0 ELSE Chosen(s).confidence + g[s \ {Chosen(s)}]]

LEMMA FoldIs ==
    ASSUME NEW S
    PROVE  Keys!FoldSet(LAMBDA a, sum : a.confidence + sum, 0, S) = (CHOOSE g : Folding(g, S))[S]
  BY DEF Keys!FoldSet, Keys!MapThenFoldSet, Folding, Chosen


\* The fold is a sum of the confidences.
LEMMA FoldIsSum ==
    ASSUME NEW S, Found(S)
    PROVE  /\ Keys!FoldSet(LAMBDA a, sum : a.confidence + sum, 0, S) = Sum(Confidence(S), S)
           /\ Whole(Confidence(S), S)
  <1> DEFINE f == Confidence(S)
             up == CHOOSE g : Folding(g, S)
             all == CHOOSE g : Added(g, f, SUBSET S)
  <1>1. IsFiniteSet(S) /\ \A a \in S : f[a] = a.confidence /\ f[a] \in Int
    BY DEF Found, Confidence, Confidences
  <1> HIDE DEF f
  <1>2. \A s \in SUBSET S : s # {} => Chosen(s) \in S
    BY DEF Chosen
  <1>3. \A g : Folding(g, S) <=> Added(g, f, SUBSET S)
    <2> SUFFICES ASSUME NEW g PROVE Folding(g, S) <=> Added(g, f, SUBSET S)
      OBVIOUS
    <2>1. \A s \in SUBSET S :
             (IF s = {} THEN 0 ELSE Chosen(s).confidence + g[s \ {Chosen(s)}])
                = (IF s = {} THEN 0 ELSE f[Chosen(s)] + g[s \ {Chosen(s)}])
      BY <1>1, <1>2
    <2> QED
      BY <2>1 DEF Folding, Added
  <1>4. Added(up, f, SUBSET S) /\ Added(all, f, SUBSET S)
    BY <1>1, <1>3, AddedExists
  <1>5. Sum(f, S) = all[S]
    BY DEF Sum, Added, Chosen
  <1>6. Whole(f, S)
    BY <1>1 DEF Whole
  <1> HIDE DEF up, all
  <1>7. Part(S, S)
    BY DEF Part
  <1>8. all[S] = up[S]
    BY <1>1, <1>4, <1>6, <1>7, AddedAgree
  <1> QED
    BY <1>5, <1>6, <1>8, FoldIs DEF up, f

\* What is at least c each adds up to c times as many, and so does what is at most d.
LEMMA SumBetween ==
    ASSUME NEW S, IsFiniteSet(S), NEW f, NEW c \in Int, NEW d \in Int,
           \A x \in S : f[x] \in Int /\ c <= f[x] /\ f[x] <= d
    PROVE  c * Cardinality(S) <= Sum(f, S) /\ Sum(f, S) <= d * Cardinality(S)
  <1> DEFINE Right(s) == c * Cardinality(s) <= Sum(f, s) /\ Sum(f, s) <= d * Cardinality(s)
             Bad == {m \in Nat : \E s \in Small(S, m) : ~Right(s)}
  <1>1. ASSUME NEW s \in SUBSET S
        PROVE  /\ IsFiniteSet(s) /\ Cardinality(s) \in Nat /\ Sum(f, s) \in Int
               /\ s = {} => Sum(f, s) = 0
               /\ \A x \in s : Sum(f, s) = f[x] + Sum(f, s \ {x})
    <2>1. IsFiniteSet(s) /\ Cardinality(s) \in Nat
      BY FS_Subset, FS_CardinalityType
    <2>2. Whole(f, s)
      BY DEF Whole
    <2> QED
      BY <2>1, <2>2, SumFacts
  <1>2. Right({})
    <2>1. Cardinality({}) = 0 /\ Sum(f, {}) = 0
      BY <1>1, FS_EmptySet
    <2> QED
      BY <2>1
  <1>3. ASSUME NEW m \in Nat, \A s \in Small(S, m) : Right(s), NEW s \in Small(S, m + 1)
        PROVE  Right(s)
    <2>1. s \in SUBSET S
      BY DEF Small
    <2>2. CASE s # {}
      <3>1. PICK x \in s : TRUE
        BY <2>2
      <3> DEFINE r == s \ {x}
                 k == Cardinality(r)
                 t == Sum(f, r)
      <3>2. r \in Small(S, m) /\ r \in SUBSET S
        BY <2>1, <3>1, SmallWithout
      <3>3. Cardinality(s) = k + 1
        <4>1. Cardinality(r) = Cardinality(s) - 1
          BY <1>1, <2>1, <3>1, FS_RemoveElement
        <4> QED
          BY <1>1, <2>1, <4>1
      <3>4. Sum(f, s) = f[x] + t /\ x \in S
        BY <1>1, <2>1, <3>1
      <3>5. k \in Nat /\ t \in Int /\ c * k <= t /\ t <= d * k
        <4>1. Right(r)
          BY <1>3, <3>2
        <4> QED
          BY <1>1, <3>2, <4>1
      <3>6. f[x] \in Int /\ c <= f[x] /\ f[x] <= d
        BY <3>4
      <3>7. c * (k + 1) = c * k + c /\ d * (k + 1) = d * k + d
        BY <3>5
      <3> HIDE DEF r, k, t
      <3> DEFINE u == c * k
                 v == d * k
                 w == f[x]
      <3>8. u \in Int /\ v \in Int
        BY <3>5
      <3>9. u <= t /\ t <= v /\ w \in Int /\ c <= w /\ w <= d /\ t \in Int
        BY <3>5, <3>6
      <3> HIDE DEF u, v, w
      <3>10. u + c <= w + t /\ w + t <= v + d
        BY <3>8, <3>9
      <3> QED
        BY <3>3, <3>4, <3>7, <3>10 DEF u, v, w
    <2> QED
      BY <1>2, <2>2
  <1>4. \A s \in Small(S, 0) : Right(s)
    <2> HIDE DEF Right
    <2> QED
      BY <1>2, SmallEmpty
  <1> HIDE DEF Right
  <1>5. \A m \in Nat : m \notin Bad
    <2> SUFFICES ASSUME Bad # {} PROVE FALSE
      OBVIOUS
    <2>1. PICK m \in Bad : \A y \in Bad : m <= y
      BY LeastExists
    <2>2. m \in Nat /\ m # 0
      BY <1>4, <2>1
    <2>3. m - 1 \in Nat /\ m - 1 \notin Bad /\ (m - 1) + 1 = m
      BY <2>1, <2>2
    <2> QED
      BY <1>3, <2>1, <2>3
  <1>6. Cardinality(S) \in Nat /\ S \in Small(S, Cardinality(S))
    BY <1>1 DEF Small
  <1> QED
    BY <1>5, <1>6 DEF Right

\* The score is a mean of confidences.
LEMMA AnomalyScoreIs ==
    ASSUME NEW S, Found(S)
    PROVE  Keys!AnomalyScore(S) \in 0 .. 90
  <1> DEFINE c == Cardinality(S)
             t == Sum(Confidence(S), S)
  <1>1. IsFiniteSet(S) /\ \A a \in S : /\ Confidence(S)[a] \in Int
                                       /\ 0 <= Confidence(S)[a] /\ Confidence(S)[a] <= 90
    BY DEF Found, Confidence, Confidences
  <1>2. c \in Nat /\ t \in Int
    BY <1>1, FoldIsSum, SumFacts, FS_CardinalityType
  <1>3. 0 * c <= t /\ t <= 90 * c
    BY <1>1, SumBetween
  <1>4. Keys!AnomalyScore(S) = IF S = {} THEN 0 ELSE t \div c
    BY KeyNames, FoldIsSum DEF Keys!AnomalyScore
  <1>5. S # {} => c > 0
    BY <1>1, <1>2, FS_EmptySet
  <1> HIDE DEF c, t
  <1>6. CASE S # {}
    <2> DEFINE q == t \div c
    <2>1. t \in Nat
      BY <1>2, <1>3
    <2>2. q \in Nat /\ q <= 90
      BY <1>2, <1>3, <1>5, <1>6, <2>1, Quotient
    <2>3. Keys!AnomalyScore(S) = q
      BY <1>4, <1>6
    <2> HIDE DEF q
    <2> QED
      BY <2>2, <2>3
  <1> QED
    BY <1>4, <1>6


\* With the anomaly of no variation among them, the mean is at least 73.
LEMMA AnomalyScoreAtLeast ==
    ASSUME NEW S, Found(S), NEW slow, NEW precise, Doubtful(slow, precise, S),
           NEW steady \in S, steady.confidence = 90
    PROVE  Keys!AnomalyScore(S) \in 73 .. 90
  <1> DEFINE f == Confidence(S)
             S1 == S \ {steady}
             S2 == S1 \ {slow}
             S3 == S2 \ {precise}
             C(s) == Cardinality(s)
             T(s) == Sum(f, s)
  <1>1. IsFiniteSet(S) /\ Whole(f, S)
    BY FoldIsSum DEF Found
  <1>2. \A a \in S : f[a] = a.confidence /\ f[a] \in Int
    BY DEF Found, Confidence, Confidences
  <1> HIDE DEF f
  <1>3. ASSUME NEW s \in SUBSET S
        PROVE  /\ C(s) \in Nat /\ T(s) \in Int /\ IsFiniteSet(s)
               /\ \A x \in s : T(s) = f[x] + T(s \ {x}) /\ C(s) = C(s \ {x}) + 1
               /\ \A x : x \notin s => s \ {x} = s
    <2>1. IsFiniteSet(s) /\ C(s) \in Nat /\ Whole(f, s)
      BY <1>1, FS_Subset, FS_CardinalityType DEF Whole
    <2>2. ASSUME NEW x \in s PROVE T(s) = f[x] + T(s \ {x}) /\ C(s) = C(s \ {x}) + 1
      <3>1. C(s \ {x}) = C(s) - 1
        BY <2>1, FS_RemoveElement
      <3> QED
        BY <2>1, <3>1, SumFacts
    <2> QED
      BY <2>1, <2>2, SumFacts
  <1>4. S1 \in SUBSET S /\ S2 \in SUBSET S /\ S3 \in SUBSET S /\ S \in SUBSET S
    OBVIOUS
  <1>5. T(S) = 90 + T(S1) /\ C(S) = C(S1) + 1
    BY <1>2, <1>3, <1>4
  <1>6. \/ T(S1) = 60 + T(S2) /\ C(S1) = C(S2) + 1
        \/ T(S1) = T(S2) /\ C(S1) = C(S2)
    <2>1. CASE slow \in S1
      BY <1>2, <1>3, <1>4, <2>1 DEF Doubtful
    <2>2. CASE slow \notin S1
      <3>1. S2 = S1
        BY <2>2
      <3> QED
        BY <3>1
    <2> QED
      BY <2>1, <2>2
  <1>7. \/ T(S2) = 70 + T(S3) /\ C(S2) = C(S3) + 1
        \/ T(S2) = T(S3) /\ C(S2) = C(S3)
    <2>1. CASE precise \in S2
      BY <1>2, <1>3, <1>4, <2>1 DEF Doubtful
    <2>2. CASE precise \notin S2
      <3>1. S3 = S2
        BY <2>2
      <3> QED
        BY <3>1
    <2> QED
      BY <2>1, <2>2
  <1>8. 73 * C(S3) <= T(S3)
    <2>1. \A x \in S3 : f[x] \in Int /\ 73 <= f[x] /\ f[x] <= 90
      <3>1. \A x \in S3 : x \in S /\ x # slow /\ x # precise
        OBVIOUS
      <3>2. \A x \in S3 : x.confidence \in Confidences /\ x.confidence >= 80
        BY <3>1 DEF Found, Doubtful
      <3> QED
        BY <1>2, <3>1, <3>2 DEF Confidences
    <2>2. IsFiniteSet(S3)
      BY <1>3, <1>4
    <2>3. 73 \in Int /\ 90 \in Int
      OBVIOUS
    <2> HIDE DEF S3
    <2>4. 73 * Cardinality(S3) <= Sum(f, S3)
      BY <2>1, <2>2, <2>3, SumBetween
    <2> QED
      BY <2>4
  <1>9. /\ C(S) \in Nat /\ C(S1) \in Nat /\ C(S2) \in Nat /\ C(S3) \in Nat
        /\ T(S) \in Int /\ T(S1) \in Int /\ T(S2) \in Int /\ T(S3) \in Int
    BY <1>3, <1>4
  <1> HIDE DEF C, T, S1, S2, S3
  <1>10. 73 * C(S) <= T(S) /\ C(S) > 0
    BY <1>5, <1>6, <1>7, <1>8, <1>9
  <1>11. Keys!AnomalyScore(S) = T(S) \div C(S)
    BY KeyNames, FoldIsSum DEF Keys!AnomalyScore, C, T, f
  <1> DEFINE c == C(S)
             t == T(S)
             q == t \div c
  <1>12. c \in Nat /\ t \in Int /\ 73 * c <= t /\ c > 0 /\ Keys!AnomalyScore(S) = q
    BY <1>9, <1>10, <1>11
  <1>13. Keys!AnomalyScore(S) \in 0 .. 90
    BY AnomalyScoreIs
  <1> HIDE DEF c, t
  <1>14. q >= 73
    <2> DEFINE r == t % c
    <2>1. q \in Int /\ r \in Int /\ 0 <= r /\ r < c /\ t = c * q + r
      BY <1>12
    <2> HIDE DEF q, r
    <2> SUFFICES ASSUME q <= 72 PROVE FALSE
      BY <2>1
    <2>2. c * q <= c * 72
      BY <1>12, <2>1
    <2> DEFINE p == c * q
    <2>3. p \in Int /\ p <= 72 * c /\ t = p + r
      BY <1>12, <2>1, <2>2
    <2> HIDE DEF p
    <2> QED
      BY <1>12, <2>1, <2>3
  <1> HIDE DEF q
  <1> QED
    BY <1>12, <1>13, <1>14

-----------------------------------------------------------------------------
(* The verdict.                                                              *)

\* The score is less than half a weight of the features and a third of the anomalies.
LEMMA BotScoreIs ==
    ASSUME KeysInv
    PROVE  LET m == Keys!Metrics(events)
               a == Keys!AnomalyScore(Keys!AnomaliesOf(m))
           IN  /\ a \in 0 .. 90
               /\ Keys!BotScore(events) \in Int /\ Keys!BotScore(events) <= 5800
               /\ Keys!Consistency(m) = 100 /\ a >= 73 => Keys!BotScore(events) > 3000
  <1> DEFINE m == Keys!Metrics(events)
             a == Keys!AnomalyScore(Keys!AnomaliesOf(m))
             c == Keys!Consistency(m)
             r == Keys!RhythmScore(m)
             s == Keys!SpeedNaturalness(m)
             n == Keys!ResponseNaturalness(events)
             v == Keys!Variability(m)
  <1>1. a \in 0 .. 90
    BY AnomaliesAre, AnomalyScoreIs
  <1>2. m.held \in Seq(Int) /\ m.flown \in Seq(Int) /\ m.rhythm \in Seq(Int)
    BY MetricsAre
  <1>3. c \in 0 .. 100
    BY <1>2, ConsistencyIs
  <1>4. Keys!Share(m.held, 1000) \in 0 .. 100 /\ Keys!Share(m.flown, 10000) \in 0 .. 100
    <2>1. 1000 \in Nat /\ 1000 > 0 /\ 10000 \in Nat /\ 10000 > 0
      OBVIOUS
    <2> DEFINE h == m.held
               f == m.flown
    <2>2. h \in Seq(Int) /\ f \in Seq(Int)
      BY <1>2
    <2> HIDE DEF m, h, f
    <2>3. \A b \in Nat : b > 0 => Keys!Share(h, b) \in 0 .. 100
      BY <2>2, ShareIs
    <2>4. \A b \in Nat : b > 0 => Keys!Share(f, b) \in 0 .. 100
      BY <2>2, ShareIs
    <2> QED
      BY <2>1, <2>3, <2>4 DEF h, f
  <1>5. v \in 0 .. 100
    BY <1>4 DEF Keys!Variability
  <1>6. s \in {20, 40, 60, 80}
    BY DEF Keys!SpeedNaturalness
  <1>7. n \in {30, 50, 60, 80}
    <2> DEFINE e == events[1].at
    <2>1. n = IF Keys!Len(events) < 2 THEN 50
              ELSE CASE e \in 501..4999 -> 80
                     [] e \in 201..500 \cup 5000..9999 -> 60
                     [] OTHER -> 30
      BY DEF Keys!ResponseNaturalness
    <2> HIDE DEF e, n
    <2> QED
      BY <2>1
  <1>8. r \in 0 .. 100 /\ (c = 100 => r <= 20)
    <2> DEFINE b == IF m.speed > 100 /\ m.speed < 400 THEN 20 ELSE 0
    <2>1. r = Keys!Least(100, 100 - c + b)
      BY DEF Keys!RhythmScore
    <2>2. b \in {0, 20}
      OBVIOUS
    <2> HIDE DEF b, c, r
    <2> QED
      BY <1>3, <2>1, <2>2 DEF Keys!Least
  <1>9. Keys!BotScore(events)
           = (7 * (15 * (100 - r) + 10 * (100 - s) + 10 * (100 - n) + 5 * (100 - v))
              + 30 * 10 * a) \div 10
    BY DEF Keys!BotScore
  <1> HIDE DEF m, a, c, r, s, n, v
  <1> DEFINE x == 7 * (15 * (100 - r) + 10 * (100 - s) + 10 * (100 - n) + 5 * (100 - v))
                  + 30 * 10 * a
  <1>10. /\ x \in Int /\ x <= 7 * 3500 + 300 * 90
         /\ c = 100 /\ a >= 73 => x >= 7 * 1600 + 300 * 73
    <2>1. r \in Int /\ s \in Int /\ n \in Int /\ v \in Int /\ a \in Int
      BY <1>1, <1>5, <1>6, <1>7, <1>8
    <2>2. /\ 0 <= r /\ 20 <= s /\ s <= 80 /\ 30 <= n /\ n <= 80 /\ 0 <= v /\ v <= 100
          /\ 0 <= a /\ a <= 90 /\ (c = 100 => r <= 20)
      BY <1>1, <1>5, <1>6, <1>7, <1>8
    <2> QED
      BY <2>1, <2>2
  <1>11. Keys!BotScore(events) = x \div 10
    BY <1>9
  <1> HIDE DEF x
  <1>12. /\ Keys!BotScore(events) \in Int /\ Keys!BotScore(events) <= 5800
         /\ c = 100 /\ a >= 73 => Keys!BotScore(events) > 3000
    BY <1>10, <1>11
  <1> QED
    BY <1>1, <1>12 DEF m, a, c

LEMMA KeysAlone == ASSUME KeysInv PROVE Keys!NeverBotByKeys
  <1>1. Keys!BotScore(events) <= 5800 /\ Keys!BotScore(events) \in Int
    BY BotScoreIs
  <1>2. ~(Keys!BotScore(events) >= 7000)
    BY <1>1
  <1>3. Keys!Verdict(events) # "bot"
    BY <1>2 DEF Keys!Verdict
  <1> QED
    BY <1>1, <1>3 DEF Keys!NeverBotByKeys


\* Keys at one pace have no variance, and the consistency of a machine.
LEMMA OnePace ==
    ASSUME NEW s \in Seq(Int), s # << >>, \A i, j \in 1 .. Len(s) : s[i] = s[j],
           NEW m, m.rhythm = s
    PROVE  Keys!Consistency(m) = 100
  <1> DEFINE n == Len(s)
             V == Keys!VarianceOver(s)
             p == n * n
  <1>1. n \in Nat /\ n > 0 /\ V \in Nat
    BY VarianceIs, EmptySeq
  <1>2. V <= 0
    <2>1. V = Spread(s, s, n, n) /\ Whole(s, 1 .. n) /\ \A i \in 1 .. n : s[i] \in Int
      BY VarianceIs DEF Whole
    <2>2. NoneAbove(s, s, 1, 0, n)
      <3> SUFFICES ASSUME NEW k \in 1 .. n, NEW i \in 1 .. (k - 1)
                   PROVE  Apart(s, s, 1, 0, i, k) <= 0
        BY DEF NoneAbove
      <3> DEFINE d == s[k] - s[i]
      <3>1. i \in 1 .. n
        BY <1>1
      <3>2. d = 0
        BY <2>1, <3>1
      <3>3. Apart(s, s, 1, 0, i, k) = 1 * (d * d) - 0 * (d * d)
        BY DEF Apart
      <3> HIDE DEF d
      <3> QED
        BY <3>2, <3>3
    <2>3. 1 * Spread(s, s, n, n) <= 0 * Spread(s, s, n, n) /\ Spread(s, s, n, n) \in Int
      <3> HIDE DEF n
      <3> QED
        BY <1>1, <2>1, <2>2, Covariance
    <2> HIDE DEF V
    <2> QED
      BY <2>1, <2>3
  <1>3. Keys!Consistency(m) = IF s = << >> THEN 0 ELSE (100 * n * n) \div (n * n + V)
    BY DEF Keys!Consistency
  <1> HIDE DEF n, V
  <1>4. p \in Nat /\ p > 0 /\ 100 * n * n = 100 * p /\ V = 0
    BY <1>1, <1>2
  <1>5. Keys!Consistency(m) = (100 * p) \div p
    BY <1>3, <1>4
  <1> HIDE DEF p
  <1> DEFINE q == (100 * p) \div p
             r == (100 * p) % p
  <1>6. q \in Int /\ r \in Int /\ 0 <= r /\ r < p /\ 100 * p = p * q + r
    BY <1>4
  <1>7. Keys!Consistency(m) = q
    BY <1>5
  <1> HIDE DEF q, r
  <1>8. p * (100 - q) = r
    BY <1>4, <1>6
  <1>9. ~(100 - q >= 1)
    <2> SUFFICES ASSUME 100 - q >= 1 PROVE FALSE
      OBVIOUS
    <2>1. p * (100 - q) >= p
      BY <1>4, <1>6
    <2> QED
      BY <1>4, <1>6, <1>8, <2>1
  <1>10. ~(100 - q <= -1)
    <2> SUFFICES ASSUME 100 - q <= -1 PROVE FALSE
      OBVIOUS
    <2>1. p * (100 - q) <= p * (-1)
      BY <1>4, <1>6
    <2> QED
      BY <1>4, <1>6, <1>8, <2>1
  <1> QED
    BY <1>6, <1>7, <1>9, <1>10

LEMMA Regular == ASSUME KeysInv PROVE Keys!RegularReported
  <1> DEFINE n == Len(events) - 1
             s == [i \in 1 .. n |-> events[i + 1].at - events[i].at]
             pace == {events[i + 1].at - events[i].at : i \in 1 .. n}
             m == Keys!Metrics(events)
             A == Keys!AnomaliesOf(m)
             a == Keys!AnomalyScore(A)
  <1> SUFFICES ASSUME Len(events) >= 2, Keys!Cardinality(pace) = 1
               PROVE  /\ \E b \in A : b.type = "no_variation"
                      /\ Keys!Verdict(events) = "suspicious"
    BY DEF Keys!RegularReported
  <1>1. n \in Nat /\ n >= 1 /\ events \in Seq(KeyEvents)
    BY DEF KeysInv
  <1>2. s \in Seq(Int) /\ Len(s) = n /\ m.rhythm = s
    BY <1>1, BetweenKeys, MetricsAre
  <1>3. \A i, j \in 1 .. n : s[i] = s[j]
    <2>1. pace = {s[i] : i \in 1 .. n}
      OBVIOUS
    <2>2. IsFiniteSet({s[i] : i \in 1 .. n})
      <3>1. IsFiniteSet(1 .. n)
        BY <1>1, UpTo
      <3> DEFINE T == {s[i] : i \in 1 .. n}
      <3>2. s \in Surjection(1 .. n, T)
        BY DEF Surjection
      <3> HIDE DEF T
      <3> QED
        BY <3>1, <3>2, FS_Surjection DEF T
    <2>3. IsFiniteSet(pace) /\ Cardinality(pace) = 1
      BY <2>1, <2>2, KeyNames
    <2> HIDE DEF pace
    <2>4. PICK x : pace = {x}
      BY <2>3, FS_Singleton
    <2> QED
      BY <2>1, <2>4
  <1>4. Keys!Consistency(m) = 100
    <2> HIDE DEF s, m, n
    <2>1. s # << >>
      BY <1>1, <1>2, EmptySeq
    <2>2. \A i, j \in 1 .. Len(s) : s[i] = s[j]
      BY <1>2, <1>3
    <2> QED
      BY <1>2, <2>1, <2>2, OnePace
  <1> HIDE DEF n, s, m, pace, A
  <1>5. /\ Found(A) /\ \E slow, precise : Doubtful(slow, precise, A)
        /\ \E b \in A : b.type = "no_variation" /\ b.confidence = 90
    <2>1. Keys!Consistency(m) > 95
      BY <1>4
    <2> QED
      BY <2>1, AnomaliesAre DEF A
  <1>6. a \in 73 .. 90
    BY <1>5, AnomalyScoreAtLeast
  <1>7. Keys!BotScore(events) \in Int /\ Keys!BotScore(events) <= 5800 /\ Keys!BotScore(events) > 3000
    BY <1>4, <1>6, BotScoreIs DEF m, A
  <1>8. Keys!Verdict(events) = "suspicious"
    <2>1. ~(Keys!BotScore(events) >= 7000) /\ ~(Keys!BotScore(events) <= 3000)
      BY <1>7
    <2>2. Keys!AnomalyScore(Keys!AnomaliesOf(Keys!Metrics(events))) >= 50
      BY <1>6 DEF A, m
    <2> QED
      BY <2>1, <2>2 DEF Keys!Verdict
  <1> QED
    BY <1>5, <1>8

-----------------------------------------------------------------------------
(* Generators.  Every turn of the first pass leaves an operator behind, so that *)
(* it ends, with a product or quotient left only behind a sum or difference.    *)

Operators == {"+", "-", "*", "/"}
Fractions == Nat \X (Nat \ {0})
Pairs == Int \X Int

\* Expressions over a set of numbers.
Expressions(F) ==
    {e \in [nums : Seq(F), ops : Seq(Operators)] : Len(e.nums) = Len(e.ops) + 1}

LEMMA GeneratorNames ==
    /\ \A S : Generator!Cardinality(S) = Cardinality(S)
    /\ \A I, n : Generator!Nth(I, n) = Nth(I, n)
  BY DEF Generator!Cardinality, Cardinality, Generator!Nth, Generator!Rank, Nth, Rank

LEMMA CalculateIs ==
    /\ \A l, r \in Fractions : \A op \in {"*", "/"} : Generator!Calculate(l, op, r) \in Fractions
    /\ \A l, r \in Pairs : \A op \in Operators : Generator!Calculate(l, op, r) \in Pairs
    /\ \A l \in Int \X (Nat \ {0}), r \in Fractions : \A op \in {"+", "-"} :
          Generator!Calculate(l, op, r) \in Int \X (Nat \ {0})
  <1>1. ASSUME NEW l \in Fractions, NEW r \in Fractions, NEW op \in {"*", "/"}
        PROVE  Generator!Calculate(l, op, r) \in Fractions
    <2>1. /\ l[1] \in Nat /\ r[1] \in Nat /\ l[2] \in Nat /\ l[2] > 0 /\ r[2] \in Nat /\ r[2] > 0
      BY DEF Fractions
    <2>2. \A x, y \in Nat : x * y \in Nat
      OBVIOUS
    <2>3. \A x, y \in Nat : x > 0 /\ y > 0 => x * y > 0
      OBVIOUS
    <2>4. CASE op = "*"
      <3>1. l[1] * r[1] \in Nat /\ l[2] * r[2] \in Nat /\ l[2] * r[2] > 0
        BY <2>1, <2>2, <2>3
      <3> QED
        BY <2>4, <3>1 DEF Generator!Calculate, Fractions
    <2>5. CASE op = "/" /\ r[1] = 0
      BY <2>5 DEF Generator!Calculate
    <2>6. CASE op = "/" /\ r[1] # 0
      <3>1. r[1] > 0
        BY <2>1, <2>6
      <3>2. l[1] * r[2] \in Nat /\ l[2] * r[1] \in Nat /\ l[2] * r[1] > 0
        BY <2>1, <2>2, <2>3, <3>1
      <3> QED
        BY <2>6, <3>2 DEF Generator!Calculate, Fractions
    <2> QED
      BY <2>4, <2>5, <2>6
  <1>2. ASSUME NEW l \in Pairs, NEW r \in Pairs, NEW op \in Operators
        PROVE  Generator!Calculate(l, op, r) \in Pairs
    <2>1. l[1] \in Int /\ l[2] \in Int /\ r[1] \in Int /\ r[2] \in Int
      BY DEF Pairs
    <2>2. \A x, y \in Int : x * y \in Int /\ x + y \in Int /\ x - y \in Int
      OBVIOUS
    <2>3. /\ l[1] * r[2] \in Int /\ r[1] * l[2] \in Int /\ l[2] * r[2] \in Int
          /\ l[1] * r[1] \in Int /\ l[2] * r[1] \in Int
          /\ l[1] * r[2] + r[1] * l[2] \in Int /\ l[1] * r[2] - r[1] * l[2] \in Int
      BY <2>1, <2>2
    <2>4. CASE op = "+"
      BY <2>3, <2>4 DEF Generator!Calculate, Pairs
    <2>5. CASE op = "-"
      BY <2>3, <2>5 DEF Generator!Calculate, Pairs
    <2>6. CASE op = "*"
      BY <2>3, <2>6 DEF Generator!Calculate, Pairs
    <2>7. CASE op = "/"
      BY <2>3, <2>7 DEF Generator!Calculate, Pairs
    <2> QED
      BY <2>4, <2>5, <2>6, <2>7 DEF Operators
  <1>3. ASSUME NEW l \in Int \X (Nat \ {0}), NEW r \in Fractions, NEW op \in {"+", "-"}
        PROVE  Generator!Calculate(l, op, r) \in Int \X (Nat \ {0})
    <2>1. l[1] \in Int /\ l[2] \in Nat /\ l[2] > 0 /\ r[1] \in Int /\ r[2] \in Nat /\ r[2] > 0
      BY DEF Fractions
    <2>2. \A x, y \in Int : x * y \in Int /\ x + y \in Int /\ x - y \in Int
      OBVIOUS
    <2>3. \A x, y \in Nat : x > 0 /\ y > 0 => x * y \in Nat /\ x * y > 0
      OBVIOUS
    <2>4. /\ l[1] * r[2] + r[1] * l[2] \in Int /\ l[1] * r[2] - r[1] * l[2] \in Int
          /\ l[2] * r[2] \in Nat /\ l[2] * r[2] # 0
      BY <2>1, <2>2, <2>3
    <2>5. CASE op = "+"
      BY <2>4, <2>5 DEF Generator!Calculate
    <2>6. CASE op = "-"
      BY <2>4, <2>6 DEF Generator!Calculate
    <2> QED
      BY <2>5, <2>6
  <1> QED
    BY <1>1, <1>2, <1>3

\* A splice leaves an expression with an operator less, and those before its place.
LEMMA SplicedIs ==
    ASSUME NEW e \in Expressions(Fractions), NEW k \in 1 .. Len(e.ops), Generator!Binds(e.ops[k])
    PROVE  /\ Generator!Spliced(e, k) \in Expressions(Fractions)
           /\ Len(Generator!Spliced(e, k).ops) = Len(e.ops) - 1
           /\ \A i \in 1 .. (k - 1) : Generator!Spliced(e, k).ops[i] = e.ops[i]
  <1> DEFINE n == Len(e.ops)
             x == e.nums
             o == e.ops
             c == Generator!Calculate(x[k], o[k], x[k + 1])
             nums == [i \in 1 .. (Len(x) - 1) |-> CASE i < k -> x[i] [] i = k -> c [] i > k -> x[i + 1]]
             ops == [i \in 1 .. (n - 1) |-> IF i < k THEN o[i] ELSE o[i + 1]]
  <1>1. /\ x \in Seq(Fractions) /\ o \in Seq(Operators) /\ Len(x) = n + 1 /\ n \in Nat
        /\ k \in 1 .. n /\ n >= 1
    BY DEF Expressions
  <1>2. Generator!Spliced(e, k) = [nums |-> nums, ops |-> ops]
    BY DEF Generator!Spliced
  <1>3. c \in Fractions
    <2>1. x[k] \in Fractions /\ x[k + 1] \in Fractions
      BY <1>1, ElementOfSeq
    <2>2. o[k] \in {"*", "/"}
      BY DEF Generator!Binds
    <2> QED
      BY <2>1, <2>2, CalculateIs
  <1> HIDE DEF x, o, c, n
  <1>4. nums \in Seq(Fractions) /\ Len(nums) = n
    <2>1. \A i \in 1 .. n : (CASE i < k -> x[i] [] i = k -> c [] i > k -> x[i + 1]) \in Fractions
      <3> SUFFICES ASSUME NEW i \in 1 .. n
                   PROVE  (CASE i < k -> x[i] [] i = k -> c [] i > k -> x[i + 1]) \in Fractions
        OBVIOUS
      <3>1. x[i] \in Fractions /\ x[i + 1] \in Fractions
        BY <1>1, ElementOfSeq
      <3>2. i < k \/ i = k \/ i > k
        BY <1>1
      <3> QED
        BY <1>1, <1>3, <3>1, <3>2
    <2>2. Len(x) - 1 = n
      BY <1>1
    <2>3. nums \in [1 .. n -> Fractions]
      BY <2>1, <2>2
    <2> HIDE DEF nums
    <2> QED
      BY <1>1, <2>3, SeqDef
  <1>5. ops \in Seq(Operators) /\ Len(ops) = n - 1
    <2>1. ASSUME NEW i \in 1 .. (n - 1) PROVE o[i] \in Operators /\ o[i + 1] \in Operators
      <3>1. i \in 1 .. Len(o) /\ i + 1 \in 1 .. Len(o)
        BY <1>1 DEF n, o
      <3> QED
        BY <1>1, <3>1, ElementOfSeq
    <2>2. ops \in [1 .. (n - 1) -> Operators]
      BY <2>1
    <2>3. n - 1 \in Nat
      BY <1>1
    <2> HIDE DEF ops
    <2> QED
      BY <2>2, <2>3, SeqDef
  <1>6. \A i \in 1 .. (k - 1) : ops[i] = o[i]
    BY <1>1
  <1> HIDE DEF nums, ops
  <1>7. Len(ops) + 1 = Len(nums)
    BY <1>1, <1>4, <1>5
  <1> QED
    BY <1>2, <1>4, <1>5, <1>6, <1>7 DEF Expressions, n, o

\* What is left of an expression of n operators when r more turns are enough.
PassInv(p, n, r) ==
    /\ p \in [left : Expressions(Fractions), at : Nat, over : BOOLEAN]
    /\ p.at \in 1 .. (Len(p.left.ops) + 1)
    /\ \A i \in 1 .. (p.at - 1) : ~Generator!Binds(p.left.ops[i])
    /\ Len(p.left.ops) <= n
    /\ p.over => p.at > 1 /\ Len(p.left.ops) < n
    /\ ~p.over => Len(p.left.ops) - p.at + 1 <= r

\* A turn moves on or splices; each leaves one turn less to come.
LEMMA PassStepIs ==
    ASSUME NEW n \in Nat, NEW r \in Nat, NEW p, PassInv(p, n, r)
    PROVE  PassInv(Generator!PassStep(p), n, IF r > 0 THEN r - 1 ELSE 0)
  <1> DEFINE e == p.left
             k == p.at
             L == Len(e.ops)
             d == p.over
             q == Generator!PassStep(p)
  <1>1. /\ e \in Expressions(Fractions) /\ k \in 1 .. (L + 1) /\ L \in Nat /\ L <= n
        /\ d \in BOOLEAN /\ (d => k > 1 /\ L < n) /\ (~d => L - k + 1 <= r)
        /\ p = [left |-> e, at |-> k, over |-> d]
        /\ \A i \in 1 .. (k - 1) : ~Generator!Binds(e.ops[i])
    BY DEF PassInv, Expressions
  <1>2. q = IF d \/ k > L THEN p
            ELSE IF Generator!Binds(e.ops[k])
            THEN [left |-> Generator!Spliced(e, k), at |-> k, over |-> k > 1]
            ELSE [p EXCEPT !.at = k + 1]
    BY DEF Generator!PassStep
  <1>3. CASE d \/ k > L
    <2>1. q = p
      BY <1>2, <1>3
    <2>2. ~d => L - k + 1 <= IF r > 0 THEN r - 1 ELSE 0
      <3> HIDE DEF d, k, L
      <3> QED
        BY <1>1, <1>3
    <2> QED
      BY <2>1, <2>2 DEF PassInv
  <1>4. CASE ~d /\ k <= L /\ Generator!Binds(e.ops[k])
    <2> DEFINE s == Generator!Spliced(e, k)
    <2>1. q = [left |-> s, at |-> k, over |-> k > 1]
      BY <1>2, <1>4, <1>1
    <2>2. k \in 1 .. Len(e.ops)
      BY <1>1, <1>4
    <2>3. s \in Expressions(Fractions) /\ Len(s.ops) = L - 1 /\ \A i \in 1 .. (k - 1) : s.ops[i] = e.ops[i]
      BY <1>1, <1>4, <2>2, SplicedIs
    <2> HIDE DEF s, e, k, L, d, q
    <2>4. \A i \in 1 .. (k - 1) : ~Generator!Binds(s.ops[i])
      BY <1>1, <2>3
    <2>5. q.left = s /\ q.at = k /\ q.over = (k > 1) /\ q \in [left : Expressions(Fractions), at : Nat, over : BOOLEAN]
      BY <1>1, <2>1, <2>3
    <2>6. k \in 1 .. (Len(s.ops) + 1) /\ Len(s.ops) < n /\ Len(s.ops) - k + 1 <= IF r > 0 THEN r - 1 ELSE 0
      BY <1>1, <1>4, <2>3
    <2>7. PassInv(q, n, IF r > 0 THEN r - 1 ELSE 0)
      BY <1>1, <2>3, <2>4, <2>5, <2>6 DEF PassInv
    <2> QED
      BY <2>7 DEF q
  <1>5. CASE ~d /\ k <= L /\ ~Generator!Binds(e.ops[k])
    <2> HIDE DEF e, k, d, L, q
    <2>1. q = [left |-> e, at |-> k + 1, over |-> FALSE]
      <3>1. d = FALSE /\ ~(k > L)
        BY <1>1, <1>5
      <3>2. q = [p EXCEPT !.at = k + 1]
        BY <1>2, <1>5, <3>1
      <3>3. p = [left |-> e, at |-> k, over |-> FALSE]
        BY <1>1, <3>1
      <3> QED
        BY <3>2, <3>3
    <2>0. L = Len(e.ops)
      BY DEF L, e
    <2>2. \A i \in 1 .. (k + 1 - 1) : ~Generator!Binds(e.ops[i])
      BY <1>1, <1>5
    <2>3. k + 1 \in 1 .. (L + 1) /\ L - (k + 1) + 1 <= IF r > 0 THEN r - 1 ELSE 0
      BY <1>1, <1>5
    <2>4. q.left = e /\ q.at = k + 1 /\ q.over = FALSE /\ q \in [left : Expressions(Fractions), at : Nat, over : BOOLEAN]
      BY <1>1, <2>1
    <2>5. PassInv(q, n, IF r > 0 THEN r - 1 ELSE 0)
      BY <1>1, <2>0, <2>2, <2>3, <2>4 DEF PassInv
    <2> QED
      BY <2>5 DEF q
  <1> QED
    <2> HIDE DEF d, k, L
    <2>1. d \/ k > L \/ (~d /\ k <= L)
      BY <1>1
    <2> QED
      BY <1>3, <1>4, <1>5, <2>1

\* The turns, one after the other.
Turned(e, h) ==
    /\ h[0] = [left |-> e, at |-> 1, over |-> FALSE]
    /\ \A m \in 1 .. Len(e.ops) : h[m] = Generator!PassStep(h[m - 1])
    /\ Generator!FirstPass(e) = h[Len(e.ops)].left

PassStates == [left : Expressions(Fractions), at : Nat \ {0}, over : BOOLEAN]

LEMMA PassKeepsStates ==
    ASSUME NEW p \in PassStates
    PROVE  Generator!PassStep(p) \in PassStates
  <1> DEFINE e == p.left
             k == p.at
             d == p.over
             L == Len(e.ops)
  <1>1. e \in Expressions(Fractions) /\ k \in Nat /\ k # 0 /\ d \in BOOLEAN /\ L \in Nat
    BY DEF PassStates, Expressions
  <1>2. Generator!PassStep(p) = IF d \/ k > L THEN p
            ELSE IF Generator!Binds(e.ops[k])
            THEN [left |-> Generator!Spliced(e, k), at |-> k, over |-> k > 1]
            ELSE [p EXCEPT !.at = k + 1]
    BY DEF Generator!PassStep
  <1>3. CASE d \/ k > L
    BY <1>2, <1>3
  <1>4. CASE ~(d \/ k > L) /\ Generator!Binds(e.ops[k])
    <2>1. k \in 1 .. Len(e.ops)
      BY <1>1, <1>4
    <2>2. Generator!Spliced(e, k) \in Expressions(Fractions)
      BY <1>1, <1>4, <2>1, SplicedIs
    <2> QED
      BY <1>1, <1>2, <1>4, <2>2 DEF PassStates
  <1>5. CASE ~(d \/ k > L) /\ ~Generator!Binds(e.ops[k])
    <2>1. Generator!PassStep(p) = [p EXCEPT !.at = k + 1]
      BY <1>2, <1>5
    <2>2. k + 1 \in Nat \ {0}
      BY <1>1
    <2> HIDE DEF k
    <2> QED
      BY <2>1, <2>2 DEF PassStates
  <1> QED
    BY <1>3, <1>4, <1>5

\* The first pass is the fold of its turns.
LEMMA Passes ==
    ASSUME NEW e \in Expressions(Fractions)
    PROVE  \E h : Turned(e, h)
  <1> DEFINE n == Len(e.ops)
             b == [left |-> e, at |-> 1, over |-> FALSE]
             F == [v \in PassStates \X (1 .. n) |-> Generator!PassStep(v[1])]
             Def(g) == g = [t \in SUBSET (1 .. n) |-> IF t = {} THEN b
                                                     ELSE Generator!PassStep(g[t \ {Latest(t)}])]
             G == CHOOSE g : Def(g)
             h == [m \in 0 .. n |-> G[1 .. m]]
  <1>1. n \in Nat /\ DOMAIN e.ops = 1 .. n
    BY DEF Expressions
  <1>2. b \in PassStates
    BY DEF PassStates
  <1>3. F \in [PassStates \X (1 .. n) -> PassStates]
    BY PassKeepsStates
  <1>4. \E g : Def(g)
    <2>1. PICK g : Unfolded(g, F, b, SUBSET (1 .. n)) /\ g \in [SUBSET (1 .. n) -> PassStates]
      <3> HIDE DEF F, b, n
      <3> QED
        BY <1>1, <1>2, <1>3, FoldExists
    <2>2. \A t \in SUBSET (1 .. n) : t # {} => Latest(t) \in t
      BY <1>1, LatestIs
    <2>3. \A t \in SUBSET (1 .. n) : t # {} =>
             F[<<g[t \ {Latest(t)}], Latest(t)>>] = Generator!PassStep(g[t \ {Latest(t)}])
      <3> HIDE DEF b, n
      <3> SUFFICES ASSUME NEW t \in SUBSET (1 .. n), t # {}
                   PROVE F[<<g[t \ {Latest(t)}], Latest(t)>>] = Generator!PassStep(g[t \ {Latest(t)}])
        OBVIOUS
      <3>1. t \ {Latest(t)} \in SUBSET (1 .. n) /\ Latest(t) \in 1 .. n
        BY <2>2
      <3>2. g[t \ {Latest(t)}] \in PassStates
        BY <2>1, <3>1
      <3> QED
        BY <3>1, <3>2
    <2>4. g = [t \in SUBSET (1 .. n) |-> IF t = {} THEN b ELSE F[<<g[t \ {Latest(t)}], Latest(t)>>]]
      BY <2>1 DEF Unfolded
    <2> HIDE DEF F, b, n
    <2>5. Def(g)
      BY <2>3, <2>4
    <2> QED
      BY <2>5
  <1>5. Def(G)
    BY <1>4
  <1>6. Generator!FirstPass(e) = G[1 .. n].left
    BY <1>1 DEF Generator!FirstPass, Generator!FoldLeft, Generator!MapThenFoldSet, Latest, Generator!Max
  <1> HIDE DEF G
  <1>7. G[{}] = b
    BY <1>5
  <1>8. ASSUME NEW m \in 1 .. n PROVE h[m] = Generator!PassStep(h[m - 1])
    <2>1. /\ 1 .. m \in SUBSET (1 .. n) /\ 1 .. m # {}
          /\ (1 .. m) \ {Latest(1 .. m)} = 1 .. (m - 1)
      BY <1>1, LatestOf
    <2>2. m \in 0 .. n /\ m - 1 \in 0 .. n
      BY <1>1
    <2> HIDE DEF n, b
    <2>3. G[1 .. m] = Generator!PassStep(G[1 .. (m - 1)])
      BY <1>5, <2>1
    <2> QED
      BY <2>2, <2>3
  <1>9. h[0] = b /\ h[n] = G[1 .. n]
    <2>1. 0 \in 0 .. n /\ n \in 0 .. n /\ 1 .. 0 = {}
      BY <1>1
    <2> HIDE DEF n, b
    <2> QED
      BY <1>7, <2>1
  <1> HIDE DEF h
  <1> QED
    BY <1>6, <1>8, <1>9 DEF Turned

\* After the pass a product or quotient is behind a sum or difference, and one operator
\* at least has gone.
LEMMA FirstPassIs ==
    ASSUME NEW e \in Expressions(Fractions), Len(e.ops) <= 3
    PROVE  LET l == Generator!FirstPass(e) IN
           /\ l \in Expressions(Fractions) /\ Len(l.ops) <= Len(e.ops)
           /\ \/ \A i \in 1 .. Len(l.ops) : ~Generator!Binds(l.ops[i])
              \/ Len(l.ops) >= 1 /\ Len(l.ops) < Len(e.ops) /\ ~Generator!Binds(l.ops[1])
  <1> DEFINE n == Len(e.ops)
             l == Generator!FirstPass(e)
  <1>1. n \in 0 .. 3
    <2>1. e.ops \in Seq(Operators)
      BY DEF Expressions
    <2>2. n \in Nat /\ n <= 3
      BY <2>1
    <2> HIDE DEF n
    <2> QED
      BY <2>2
  <1>2. PICK h : Turned(e, h)
    BY Passes
  <1>3. PassInv(h[0], n, n)
    <2>1. /\ h[0] = [left |-> e, at |-> 1, over |-> FALSE]
          /\ h[0].left = e /\ h[0].at = 1 /\ h[0].over = FALSE
      BY <1>2 DEF Turned
    <2> QED
      BY <1>1, <2>1 DEF PassInv
  <1>4. \A m \in 1 .. n, r \in Nat : PassInv(h[m - 1], n, r) => PassInv(h[m], n, IF r > 0 THEN r - 1 ELSE 0)
    BY <1>1, <1>2, PassStepIs DEF Turned
  <1>5. PassInv(h[n], n, 0) /\ l = h[n].left
    <2>1. l = h[n].left
      BY <1>2 DEF Turned
    <2> HIDE DEF n, l
    <2>2. CASE n = 0
      BY <1>3, <2>1, <2>2
    <2>3. CASE n = 1
      <3>1. PassInv(h[1], n, 0)
        BY <1>3, <1>4, <2>3
      <3> QED
        BY <2>1, <2>3, <3>1
    <2>4. CASE n = 2
      <3>1. PassInv(h[1], n, 1)
        BY <1>3, <1>4, <2>4
      <3>2. PassInv(h[2], n, 0)
        BY <1>4, <2>4, <3>1
      <3> QED
        BY <2>1, <2>4, <3>2
    <2>5. CASE n = 3
      <3>1. PassInv(h[1], n, 2)
        BY <1>3, <1>4, <2>5
      <3>2. PassInv(h[2], n, 1)
        BY <1>4, <2>5, <3>1
      <3>3. PassInv(h[3], n, 0)
        BY <1>4, <2>5, <3>2
      <3> QED
        BY <2>1, <2>5, <3>3
    <2> QED
      BY <1>1, <2>2, <2>3, <2>4, <2>5
  <1> DEFINE k == h[n].at
             d == h[n].over
  <1> HIDE DEF n, l
  <1>6. /\ l \in Expressions(Fractions) /\ k \in 1 .. (Len(l.ops) + 1) /\ d \in BOOLEAN
        /\ \A i \in 1 .. (k - 1) : ~Generator!Binds(l.ops[i])
        /\ d => k > 1 /\ Len(l.ops) < n
        /\ ~d => Len(l.ops) - k + 1 <= 0
        /\ Len(l.ops) \in Nat /\ Len(l.ops) <= n
    BY <1>5 DEF PassInv, Expressions
  <1> HIDE DEF k, d
  <1>7. CASE d
    <2>1. k > 1 /\ 1 \in 1 .. (k - 1) /\ Len(l.ops) >= 1
      BY <1>6, <1>7
    <2>2. Len(l.ops) < n /\ ~Generator!Binds(l.ops[1])
      BY <1>6, <1>7, <2>1
    <2> QED
      BY <1>6, <2>1, <2>2 DEF l, n
  <1>8. CASE ~d
    <2>1. k - 1 = Len(l.ops)
      BY <1>6, <1>8
    <2> QED
      BY <1>6, <2>1 DEF l, n
  <1> QED
    BY <1>7, <1>8

\* Of an expression without products and quotients the pass leaves all.
LEMMA FirstPassOfSums ==
    ASSUME NEW e \in Expressions(Fractions), Len(e.ops) <= 3,
           \A i \in 1 .. Len(e.ops) : ~Generator!Binds(e.ops[i])
    PROVE  Generator!FirstPass(e) = e
  <1> DEFINE n == Len(e.ops)
             At(m) == [left |-> e, at |-> m + 1, over |-> FALSE]
  <1>1. n \in 0 .. 3
    <2>1. e.ops \in Seq(Operators)
      BY DEF Expressions
    <2>2. n \in Nat /\ n <= 3
      BY <2>1
    <2> HIDE DEF n
    <2> QED
      BY <2>2
  <1>2. PICK h : Turned(e, h)
    BY Passes
  <1>3. h[0] = At(0)
    BY <1>2 DEF Turned
  <1>4. \A m \in 1 .. n : h[m - 1] = At(m - 1) => h[m] = At(m)
    <2> SUFFICES ASSUME NEW m \in 1 .. n, h[m - 1] = At(m - 1) PROVE h[m] = At(m)
      OBVIOUS
    <2>1. h[m] = Generator!PassStep(At(m - 1))
      BY <1>2 DEF Turned
    <2>2. m - 1 + 1 = m /\ ~(m > n) /\ m \in Int
      BY <1>1
    <2>3. ~Generator!Binds(e.ops[m])
      OBVIOUS
    <2>4. At(m - 1) = [left |-> e, at |-> m, over |-> FALSE]
      BY <2>2
    <2> QED
      BY <2>1, <2>2, <2>3, <2>4 DEF Generator!PassStep
  <1>5. Generator!FirstPass(e) = h[n].left
    BY <1>2 DEF Turned
  <1>6. h[n] = At(n)
    <2> HIDE DEF n, At
    <2>1. n = 0 \/ n = 1 \/ n = 2 \/ n = 3
      BY <1>1
    <2>2. n >= 1 => h[1] = At(1)
      BY <1>1, <1>3, <1>4
    <2>3. n >= 2 => h[2] = At(2)
      BY <1>1, <1>4, <2>2
    <2>4. n >= 3 => h[3] = At(3)
      BY <1>1, <1>4, <2>3
    <2> QED
      BY <1>3, <2>1, <2>2, <2>3, <2>4
  <1> QED
    BY <1>5, <1>6

LEMMA MovedOn ==
    ASSUME NEW p, NEW e, NEW q, p = [left |-> e, at |-> 1, over |-> FALSE],
           q = [p EXCEPT !.at = 1 + 1]
    PROVE  q = [left |-> e, at |-> 2, over |-> FALSE]
  <1> DEFINE two == 1 + 1
  <1>1. two = 2
    OBVIOUS
  <1>2. q = [p EXCEPT !.at = two]
    OBVIOUS
  <1> HIDE DEF two
  <1>3. q = [left |-> e, at |-> two, over |-> FALSE]
    BY <1>2
  <1> QED
    BY <1>1, <1>3

\* One product or quotient behind a sum or difference is evaluated.
LEMMA FirstPassOfTwo ==
    ASSUME NEW e \in Expressions(Fractions), Len(e.ops) = 2,
           ~Generator!Binds(e.ops[1]), Generator!Binds(e.ops[2])
    PROVE  Generator!FirstPass(e) = Generator!Spliced(e, 2)
  <1>1. PICK h : Turned(e, h)
    BY Passes
  <1>2. /\ h[0] = [left |-> e, at |-> 1, over |-> FALSE]
        /\ h[1] = Generator!PassStep(h[0]) /\ h[2] = Generator!PassStep(h[1])
        /\ Generator!FirstPass(e) = h[2].left
    <2>1. 1 \in 1 .. Len(e.ops) /\ 2 \in 1 .. Len(e.ops) /\ 1 - 1 = 0 /\ 2 - 1 = 1
      OBVIOUS
    <2> QED
      BY <1>1, <2>1 DEF Turned
  <1>3. h[1] = [left |-> e, at |-> 2, over |-> FALSE]
    <2> DEFINE p == h[0]
    <2>1. p.left = e /\ p.at = 1 /\ p.over = FALSE
      BY <1>2
    <2>0. p = [left |-> e, at |-> 1, over |-> FALSE]
      BY <1>2
    <2> HIDE DEF p
    <2>3. h[1] = [p EXCEPT !.at = 1 + 1]
      BY <1>2, <2>1 DEF Generator!PassStep, p
    <2> DEFINE q == h[1]
    <2>4. q = [p EXCEPT !.at = 1 + 1]
      BY <2>3
    <2> HIDE DEF q
    <2>5. q = [left |-> e, at |-> 2, over |-> FALSE]
      BY <2>0, <2>4, MovedOn
    <2> QED
      BY <2>5 DEF q
  <1>4. h[2] = [left |-> Generator!Spliced(e, 2), at |-> 2, over |-> TRUE]
    <2> DEFINE p == h[1]
    <2>1. p.left = e /\ p.at = 2 /\ p.over = FALSE
      BY <1>3
    <2> HIDE DEF p
    <2>2. Generator!PassStep(p) = [left |-> Generator!Spliced(e, 2), at |-> 2, over |-> 2 > 1]
      BY <2>1 DEF Generator!PassStep
    <2>3. (2 > 1) = TRUE
      OBVIOUS
    <2> QED
      BY <1>2, <2>2, <2>3 DEF p
  <1> QED
    BY <1>2, <1>4

\* From left to right: every operator is applied to what the ones before it made.
Reduced(e, v) ==
    /\ v[0] = e.nums[1]
    /\ \A m \in 1 .. Len(e.ops) : v[m] = Generator!Calculate(v[m - 1], e.ops[m], e.nums[m + 1])
    /\ Generator!SecondPass(e) = v[Len(e.ops)]

\* The second pass is the fold of its operators.
LEMMA Reduces ==
    ASSUME NEW e \in Expressions(Pairs)
    PROVE  \E v : Reduced(e, v)
  <1> DEFINE n == Len(e.ops)
             b == e.nums[1]
             Apply(x, k) == Generator!Calculate(x, e.ops[k], e.nums[k + 1])
             F == [v \in Pairs \X (1 .. n) |-> Apply(v[1], v[2])]
             Def(g) == g = [t \in SUBSET (1 .. n) |-> IF t = {} THEN b
                                                     ELSE Apply(g[t \ {Latest(t)}], Latest(t))]
             G == CHOOSE g : Def(g)
             v == [m \in 0 .. n |-> G[1 .. m]]
  <1>1. /\ n \in Nat /\ e.ops \in Seq(Operators) /\ e.nums \in Seq(Pairs)
        /\ Len(e.nums) = n + 1
    BY DEF Expressions
  <1>2. b \in Pairs
    <2>1. 1 \in 1 .. Len(e.nums)
      BY <1>1
    <2> QED
      BY <1>1, <2>1, ElementOfSeq
  <1>3. ASSUME NEW x \in Pairs, NEW k \in 1 .. n PROVE Apply(x, k) \in Pairs
    <2>1. k \in 1 .. Len(e.ops) /\ k + 1 \in 1 .. Len(e.nums)
      BY <1>1
    <2>2. e.ops[k] \in Operators /\ e.nums[k + 1] \in Pairs
      BY <1>1, <2>1, ElementOfSeq
    <2> QED
      BY <2>2, CalculateIs
  <1>4. F \in [Pairs \X (1 .. n) -> Pairs]
    <2> HIDE DEF n, Apply
    <2> QED
      BY <1>3
  <1>5. \E g : Def(g)
    <2>1. PICK g : Unfolded(g, F, b, SUBSET (1 .. n)) /\ g \in [SUBSET (1 .. n) -> Pairs]
      <3> HIDE DEF F, b, n
      <3> QED
        BY <1>1, <1>2, <1>4, FoldExists
    <2>2. \A t \in SUBSET (1 .. n) : t # {} => Latest(t) \in t
      BY <1>1, LatestIs
    <2>3. \A t \in SUBSET (1 .. n) : t # {} =>
             F[<<g[t \ {Latest(t)}], Latest(t)>>] = Apply(g[t \ {Latest(t)}], Latest(t))
      <3> HIDE DEF b, n, Apply
      <3> SUFFICES ASSUME NEW t \in SUBSET (1 .. n), t # {}
                   PROVE F[<<g[t \ {Latest(t)}], Latest(t)>>] = Apply(g[t \ {Latest(t)}], Latest(t))
        OBVIOUS
      <3>1. t \ {Latest(t)} \in SUBSET (1 .. n) /\ Latest(t) \in 1 .. n
        BY <2>2
      <3>2. g[t \ {Latest(t)}] \in Pairs
        BY <2>1, <3>1
      <3> QED
        BY <3>1, <3>2
    <2>4. g = [t \in SUBSET (1 .. n) |-> IF t = {} THEN b ELSE F[<<g[t \ {Latest(t)}], Latest(t)>>]]
      BY <2>1 DEF Unfolded
    <2> HIDE DEF F, b, n, Apply
    <2>5. Def(g)
      BY <2>3, <2>4
    <2> QED
      BY <2>5
  <1>6. Def(G)
    BY <1>5
  <1>7. Generator!SecondPass(e) = G[1 .. n]
    <2>1. DOMAIN [k \in 1 .. n |-> k] = 1 .. n /\ \A t \in SUBSET (1 .. n) : t # {} => Latest(t) \in 1 .. n
      BY <1>1, LatestIs
    <2> DEFINE s == [k \in 1 .. n |-> k]
               Raw(g) == g = [t \in SUBSET (1 .. n) |-> IF t = {} THEN b
                                                       ELSE Apply(g[t \ {Latest(t)}], s[Latest(t)])]
    <2>2. \A t \in SUBSET (1 .. n) : t # {} => s[Latest(t)] = Latest(t)
      BY <2>1
    <2>3. Generator!SecondPass(e) = (CHOOSE g : Raw(g))[1 .. n]
      BY <2>1 DEF Generator!SecondPass, Generator!FoldLeft, Generator!MapThenFoldSet, Latest, Generator!Max
    <2>4. \A g : Raw(g) <=> Def(g)
      <3> HIDE DEF s, b, n, Apply
      <3> QED
        BY <2>2
    <2> HIDE DEF Raw, Def
    <2> QED
      BY <2>3, <2>4
  <1> HIDE DEF G
  <1>8. G[{}] = b
    BY <1>6
  <1>9. ASSUME NEW m \in 1 .. n PROVE v[m] = Apply(v[m - 1], m)
    <2>1. /\ 1 .. m \in SUBSET (1 .. n) /\ 1 .. m # {} /\ Latest(1 .. m) = m
          /\ (1 .. m) \ {Latest(1 .. m)} = 1 .. (m - 1)
      BY <1>1, LatestOf
    <2>2. m \in 0 .. n /\ m - 1 \in 0 .. n
      BY <1>1
    <2> HIDE DEF n, b, Apply
    <2>3. G[1 .. m] = Apply(G[1 .. (m - 1)], m)
      BY <1>6, <2>1
    <2> QED
      BY <2>2, <2>3
  <1>10. v[0] = b /\ v[n] = G[1 .. n]
    <2>1. 0 \in 0 .. n /\ n \in 0 .. n /\ 1 .. 0 = {}
      BY <1>1
    <2> HIDE DEF n, b
    <2> QED
      BY <1>8, <2>1
  <1> HIDE DEF v
  <1> QED
    BY <1>7, <1>9, <1>10 DEF Reduced

\* The n-th of all is n.
LEMMA NthOfAll ==
    ASSUME NEW m \in Nat, NEW k \in 1 .. m
    PROVE  Nth(1 .. m, k) = k
  <1>1. \A i \in 1 .. m : Rank(1 .. m, i) = i
    <2> SUFFICES ASSUME NEW i \in 1 .. m PROVE Rank(1 .. m, i) = i
      OBVIOUS
    <2>1. {j \in 1 .. m : j <= i} = 1 .. i
      OBVIOUS
    <2>2. i \in Nat
      OBVIOUS
    <2>3. Cardinality(1 .. i) = i
      BY <2>2, UpTo
    <2> QED
      BY <2>1, <2>3 DEF Rank
  <1> QED
    BY <1>1 DEF Nth

\* The part of an expression from a number to another.
Stretch(e, a, z) ==
    [nums |-> [i \in 1 .. (z - a + 1) |-> e.nums[a + i - 1]],
     ops |-> [i \in 1 .. (z - a) |-> e.ops[a + i - 1]]]

LEMMA ExpressionOf ==
    ASSUME NEW F, NEW n \in Nat, NEW x \in [1 .. (n + 1) -> F], NEW o \in [1 .. n -> Operators]
    PROVE  /\ [nums |-> x, ops |-> o] \in Expressions(F)
           /\ Len(x) = n + 1 /\ Len(o) = n
  <1>1. n + 1 \in Nat
    OBVIOUS
  <1>2. x \in Seq(F) /\ Len(x) = n + 1
    BY <1>1, SeqDef
  <1>3. o \in Seq(Operators) /\ Len(o) = n
    BY SeqDef
  <1> QED
    BY <1>2, <1>3 DEF Expressions

LEMMA StretchIs ==
    ASSUME NEW e \in Expressions(Pairs), NEW a \in 1 .. Len(e.nums), NEW z \in a .. Len(e.nums)
    PROVE  Stretch(e, a, z) \in Expressions(Pairs) /\ Len(Stretch(e, a, z).ops) = z - a
  <1> DEFINE n == Len(e.ops)
             d == z - a
             x == [i \in 1 .. (d + 1) |-> e.nums[a + i - 1]]
             o == [i \in 1 .. d |-> e.ops[a + i - 1]]
  <1>1. /\ n \in Nat /\ Len(e.nums) = n + 1 /\ e.nums \in Seq(Pairs) /\ e.ops \in Seq(Operators)
        /\ d \in Nat /\ a \in 1 .. (n + 1) /\ z \in a .. (n + 1)
    BY DEF Expressions
  <1>2. x \in [1 .. (d + 1) -> Pairs]
    <2>1. ASSUME NEW i \in 1 .. (d + 1) PROVE e.nums[a + i - 1] \in Pairs
      <3>1. a + i - 1 \in 1 .. Len(e.nums)
        BY <1>1
      <3> QED
        BY <1>1, <3>1, ElementOfSeq
    <2> QED
      BY <2>1
  <1>3. o \in [1 .. d -> Operators]
    <2>1. ASSUME NEW i \in 1 .. d PROVE e.ops[a + i - 1] \in Operators
      <3>1. a + i - 1 \in 1 .. Len(e.ops)
        BY <1>1
      <3> QED
        BY <1>1, <3>1, ElementOfSeq
    <2> QED
      BY <2>1
  <1> HIDE DEF x, o, d
  <1>4. [nums |-> x, ops |-> o] \in Expressions(Pairs) /\ Len(o) = d
    BY <1>1, <1>2, <1>3, ExpressionOf
  <1>5. Stretch(e, a, z) = [nums |-> x, ops |-> o]
    BY DEF Stretch, x, o, d
  <1>6. Stretch(e, a, z).ops = o
    BY <1>5
  <1> QED
    BY <1>4, <1>5, <1>6 DEF d

LEMMA FractionsArePairs == Expressions(Fractions) \subseteq Expressions(Pairs)
  <1>1. Fractions \subseteq Pairs
    BY DEF Fractions, Pairs
  <1>2. \A s \in Seq(Fractions) : s \in Seq(Pairs)
    BY <1>1
  <1> QED
    BY <1>2 DEF Expressions

\* What is evaluated of a number, and of two.
LEMMA SecondPassOfOne ==
    ASSUME NEW e \in Expressions(Pairs), Len(e.ops) = 0
    PROVE  Generator!SecondPass(e) = e.nums[1]
  <1>1. PICK v : Reduced(e, v)
    BY Reduces
  <1> QED
    BY <1>1 DEF Reduced

LEMMA SecondPassOfTwo ==
    ASSUME NEW e \in Expressions(Pairs), Len(e.ops) = 1
    PROVE  Generator!SecondPass(e) = Generator!Calculate(e.nums[1], e.ops[1], e.nums[2])
  <1>1. PICK v : Reduced(e, v)
    BY Reduces
  <1>2. 1 \in 1 .. Len(e.ops) /\ 1 - 1 = 0 /\ 1 + 1 = 2
    OBVIOUS
  <1> QED
    BY <1>1, <1>2 DEF Reduced

\* Sums and differences of fractions are numbers over positive ones.
Quotients == Int \X (Nat \ {0})

\* Without products and quotients the second pass leaves such a number.
LEMMA SumsAreQuotients ==
    ASSUME NEW e \in Expressions(Fractions), Len(e.ops) <= 3,
           \A i \in 1 .. Len(e.ops) : ~Generator!Binds(e.ops[i])
    PROVE  Generator!SecondPass(e) \in Quotients
  <1> DEFINE n == Len(e.ops)
  <1>1. /\ e.ops \in Seq(Operators) /\ e.nums \in Seq(Fractions) /\ Len(e.nums) = n + 1
    BY DEF Expressions
  <1>2. n \in Nat /\ n <= 3
    BY <1>1
  <1>3. PICK v : Reduced(e, v)
    BY Reduces, FractionsArePairs
  <1>4. v[0] \in Quotients
    <2>1. 1 \in 1 .. Len(e.nums)
      BY <1>1, <1>2
    <2>2. e.nums[1] \in Fractions
      BY <1>1, <2>1, ElementOfSeq
    <2> QED
      BY <1>3, <2>2 DEF Reduced, Fractions, Quotients
  <1>5. ASSUME NEW m \in 1 .. n, v[m - 1] \in Quotients PROVE v[m] \in Quotients
    <2>1. m \in 1 .. Len(e.ops) /\ m + 1 \in 1 .. Len(e.nums)
      BY <1>1, <1>2
    <2>2. e.ops[m] \in Operators /\ e.nums[m + 1] \in Fractions
      BY <1>1, <2>1, ElementOfSeq
    <2>3. e.ops[m] \in {"+", "-"}
      BY <2>2 DEF Operators, Generator!Binds
    <2>4. v[m] = Generator!Calculate(v[m - 1], e.ops[m], e.nums[m + 1])
      BY <1>3 DEF Reduced
    <2> QED
      BY <1>5, <2>2, <2>3, <2>4, CalculateIs DEF Quotients
  <1>6. Generator!SecondPass(e) = v[n]
    BY <1>3 DEF Reduced
  <1> HIDE DEF n
  <1>7. n >= 1 => v[1] \in Quotients
    <2>1. n >= 1 => 1 \in 1 .. n /\ 1 - 1 = 0
      BY <1>2
    <2> QED
      BY <1>4, <1>5, <2>1
  <1>8. n >= 2 => v[2] \in Quotients
    <2>1. n >= 2 => 2 \in 1 .. n /\ 2 - 1 = 1 /\ n >= 1
      BY <1>2
    <2> QED
      BY <1>5, <1>7, <2>1
  <1>9. n >= 3 => v[3] \in Quotients
    <2>1. n >= 3 => 3 \in 1 .. n /\ 3 - 1 = 2 /\ n >= 2
      BY <1>2
    <2> QED
      BY <1>5, <1>8, <2>1
  <1>10. n = 0 \/ n = 1 \/ n = 2 \/ n = 3
    BY <1>2
  <1> QED
    BY <1>4, <1>6, <1>7, <1>8, <1>9, <1>10

LEMMA QuotientIsNat ==
    ASSUME NEW a \in Nat, NEW b \in Nat, b > 0
    PROVE  a \div b \in Nat
  <1> DEFINE q == a \div b
             r == a % b
  <1>1. q \in Int /\ r \in Int /\ 0 <= r /\ r < b /\ a = b * q + r
    OBVIOUS
  <1> HIDE DEF q, r
  <1>2. q >= 0
    <2> SUFFICES ASSUME q <= -1 PROVE FALSE
      BY <1>1
    <2>1. b * q <= b * (-1)
      BY <1>1
    <2> QED
      BY <1>1, <2>1
  <1> QED
    BY <1>1, <1>2 DEF q

LEMMA PrintedIs ==
    ASSUME NEW x \in Fractions
    PROVE  Generator!Printed(x) \in Fractions
  <1> DEFINE n == x[1]
             d == x[2]
  <1>1. n \in Nat /\ d \in Nat /\ d > 0
    BY DEF Fractions
  <1> HIDE DEF n, d
  <1>2. n \div d \in Nat
    BY <1>1, QuotientIsNat
  <1>3. (200 * n + d) \div (2 * d) \in Nat
    <2>1. 200 * n + d \in Nat /\ 2 * d \in Nat /\ 2 * d > 0
      BY <1>1
    <2> QED
      BY <2>1, QuotientIsNat
  <1> QED
    BY <1>2, <1>3 DEF Generator!Printed, Fractions, n, d

LEMMA OperationsAre ==
    ASSUME NEW d \in Generator!Difficulties, NEW ops \in Generator!Operations(d)
    PROVE  /\ Generator!Complexity[d] \in 2 .. 4
           /\ ops \in [1 .. (Generator!Complexity[d] - 1) -> Operators]
           /\ d = "easy" => \A i \in DOMAIN ops : ~Generator!Binds(ops[i])
  <1>1. d \in {"easy", "medium", "hard"}
    BY DEF Generator!Difficulties
  <1>2. CASE d = "easy"
    <2>1. Generator!Complexity[d] = 2 /\ 2 - 1 = 1
      BY <1>2 DEF Generator!Complexity
    <2>2. ops \in [1 .. 1 -> {"+", "-"}]
      BY <1>2, <2>1 DEF Generator!Operations
    <2> QED
      BY <2>1, <2>2 DEF Operators, Generator!Binds
  <1>3. CASE d = "medium"
    <2>1. Generator!Complexity[d] = 3 /\ 3 - 1 = 2
      BY <1>3 DEF Generator!Complexity
    <2>2. PICK k \in 1 .. 2, o \in [1 .. 2 -> {"+", "-"}] : ops = [o EXCEPT ![k] = "*"]
      BY <1>3, <2>1 DEF Generator!Operations
    <2> QED
      BY <1>3, <2>1, <2>2 DEF Operators
  <1>4. CASE d = "hard"
    <2>1. Generator!Complexity[d] = 4 /\ 4 - 1 = 3
      BY <1>4 DEF Generator!Complexity
    <2>2. PICK k \in 1 .. 3, o \in [1 .. 3 -> {"+", "-", "*"}] : ops = [o EXCEPT ![k] = "/"]
      BY <1>4, <2>1 DEF Generator!Operations
    <2> QED
      BY <1>4, <2>1, <2>2 DEF Operators
  <1> QED
    BY <1>1, <1>2, <1>3, <1>4

\* What a math problem shows: sums and differences, and at most one product or quotient,
\* the last of two operators.
Shown(e) ==
    /\ e \in Expressions(Fractions) /\ Len(e.ops) <= 3
    /\ \/ \A i \in 1 .. Len(e.ops) : ~Generator!Binds(e.ops[i])
       \/ Len(e.ops) = 2 /\ ~Generator!Binds(e.ops[1]) /\ Generator!Binds(e.ops[2])

\* Printing the numbers to two decimals keeps the operators, and no number is negative.
LEMMA PrintedShown ==
    ASSUME NEW l, Shown(l)
    PROVE  Shown([l EXCEPT !.nums = [i \in DOMAIN l.nums |-> Generator!Printed(l.nums[i])]])
  <1> DEFINE x == [i \in DOMAIN l.nums |-> Generator!Printed(l.nums[i])]
             e == [l EXCEPT !.nums = x]
             n == Len(l.ops)
  <1>1. /\ l \in [nums : Seq(Fractions), ops : Seq(Operators)] /\ Len(l.nums) = n + 1 /\ n \in Nat
        /\ l.nums \in Seq(Fractions) /\ l.ops \in Seq(Operators)
    BY DEF Shown, Expressions
  <1>2. DOMAIN l.nums = 1 .. (n + 1)
    BY <1>1
  <1>3. x \in [1 .. (n + 1) -> Fractions]
    <2>1. \A i \in 1 .. Len(l.nums) : l.nums[i] \in Fractions
      BY <1>1, ElementOfSeq
    <2> QED
      BY <1>1, <1>2, <2>1, PrintedIs
  <1> HIDE DEF x
  <1>4. x \in Seq(Fractions) /\ Len(x) = n + 1
    <2>1. n + 1 \in Nat
      BY <1>1
    <2> HIDE DEF n
    <2> QED
      BY <1>3, <2>1, SeqDef
  <1>5. e = [nums |-> x, ops |-> l.ops]
    BY <1>1
  <1> HIDE DEF e
  <1>6. e.ops = l.ops /\ e \in Expressions(Fractions)
    BY <1>1, <1>4, <1>5 DEF Expressions
  <1>7. Shown(e)
    BY <1>6 DEF Shown
  <1> QED
    BY <1>7 DEF e, x

\* Whatever is drawn at a difficulty, what is shown has that form.
LEMMA ExpressionIsShown ==
    ASSUME Numbers \subseteq Nat \ {0}, NEW d \in Generator!Difficulties,
           NEW ops \in Generator!Operations(d),
           NEW drawn \in [1 .. Generator!Complexity[d] -> Numbers]
    PROVE  Shown(Generator!Expression(d, [i \in DOMAIN drawn |-> <<drawn[i], 1>>], ops))
  <1> DEFINE n == Generator!Complexity[d] - 1
             x == [i \in DOMAIN drawn |-> <<drawn[i], 1>>]
             e == [nums |-> x, ops |-> ops]
             l == IF d = "easy" THEN e ELSE Generator!FirstPass(e)
  <1>1. n \in 1 .. 3 /\ n + 1 = Generator!Complexity[d] /\ ops \in [1 .. n -> Operators]
    BY OperationsAre
  <1>2. x \in [1 .. (n + 1) -> Fractions]
    <2>1. DOMAIN drawn = 1 .. (n + 1)
      BY <1>1
    <2>2. ASSUME NEW i \in DOMAIN drawn PROVE <<drawn[i], 1>> \in Fractions
      <3>1. drawn[i] \in Nat
        BY <2>1, <1>1
      <3> QED
        BY <3>1 DEF Fractions
    <2> QED
      BY <2>1, <2>2
  <1> HIDE DEF n, x
  <1>3. e \in Expressions(Fractions) /\ Len(ops) = n
    BY <1>1, <1>2, ExpressionOf
  <1>4. e.ops = ops /\ Len(e.ops) <= 3
    BY <1>1, <1>3
  <1> HIDE DEF e
  <1>5. Shown(l)
    <2>1. CASE d = "easy"
      <3>1. \A i \in 1 .. Len(ops) : ~Generator!Binds(ops[i])
        BY <1>1, <1>3, <2>1, OperationsAre
      <3> QED
        BY <1>3, <1>4, <2>1, <3>1 DEF Shown
    <2>2. CASE d # "easy"
      <3>1. l = Generator!FirstPass(e)
        BY <2>2
      <3> HIDE DEF l
      <3>2. /\ l \in Expressions(Fractions) /\ Len(l.ops) <= Len(e.ops)
            /\ \/ \A i \in 1 .. Len(l.ops) : ~Generator!Binds(l.ops[i])
               \/ Len(l.ops) >= 1 /\ Len(l.ops) < Len(e.ops) /\ ~Generator!Binds(l.ops[1])
        BY <1>3, <1>4, <3>1, FirstPassIs
      <3> DEFINE m == Len(l.ops)
                 B(i) == Generator!Binds(l.ops[i])
      <3>3. m \in Nat /\ m <= 3
        <4>1. l.ops \in Seq(Operators) /\ Len(l.nums) = Len(l.ops) + 1
          BY <3>2 DEF Expressions
        <4>2. m \in Nat
          BY <4>1
        <4> QED
          BY <1>1, <1>3, <1>4, <3>2, <4>2
      <3>4. (\A i \in 1 .. m : ~B(i)) \/ (m >= 1 /\ m < 3 /\ ~B(1))
        <4> DEFINE k == Len(e.ops)
        <4>1. k \in 1 .. 3
          BY <1>1, <1>3, <1>4
        <4>2. (\A i \in 1 .. m : ~B(i)) \/ (m >= 1 /\ m < k /\ ~B(1))
          BY <3>2
        <4> HIDE DEF m, B, k
        <4> QED
          BY <3>3, <4>1, <4>2
      <3> HIDE DEF m, B
      <3>5. (\A i \in 1 .. m : ~B(i)) \/ (m = 2 /\ ~B(1) /\ B(2))
        <4> SUFFICES ASSUME m >= 1, m < 3, ~B(1), ~(m = 2 /\ B(2)), NEW i \in 1 .. m
                     PROVE  ~B(i)
          BY <3>4
        <4>1. i = 1 \/ (i = 2 /\ m = 2)
          BY <3>3
        <4> QED
          BY <4>1
      <3> QED
        BY <3>2, <3>3, <3>5 DEF Shown, m, B
    <2> QED
      BY <2>1, <2>2
  <1>6. Generator!Expression(d, x, ops)
          = [l EXCEPT !.nums = [i \in DOMAIN l.nums |-> Generator!Printed(l.nums[i])]]
    BY DEF Generator!Expression, e
  <1> HIDE DEF l
  <1>7. Shown(Generator!Expression(d, x, ops))
    BY <1>5, <1>6, PrintedShown
  <1> QED
    BY <1>7 DEF x

-----------------------------------------------------------------------------
(* The value of what is shown by the precedence of its operators.               *)

\* The first and the last number of each term, and the sum of the terms' values.
StartsOf(e) == {1} \cup {k + 1 : k \in {k \in DOMAIN e.ops : ~Generator!Binds(e.ops[k])}}
TermEnds(e, a) == {b \in a .. Len(e.nums) : b = Len(e.nums) \/ ~Generator!Binds(e.ops[b])}
TermOf(e, a) == Generator!SecondPass(Stretch(e, a, Generator!Min(TermEnds(e, a))))
Terms(e) ==
    [nums |-> [n \in 1 .. Cardinality(StartsOf(e)) |-> TermOf(e, Nth(StartsOf(e), n))],
     ops |-> [n \in 1 .. (Cardinality(StartsOf(e)) - 1) |-> e.ops[Nth(StartsOf(e), n + 1) - 1]]]

LEMMA PrecedenceIs ==
    ASSUME NEW e
    PROVE  Generator!Precedence(e) = Generator!SecondPass(Terms(e))
  BY GeneratorNames DEF Generator!Precedence, Terms, TermOf, TermEnds, StartsOf, Stretch

LEMMA MinIs ==
    ASSUME NEW S \in SUBSET Int, NEW a \in S, \A b \in S : a <= b
    PROVE  Generator!Min(S) = a
  <1>1. \A x \in S : (\A y \in S : x <= y) => x = a
    <2> SUFFICES ASSUME NEW x \in S, \A y \in S : x <= y PROVE x = a
      OBVIOUS
    <2>1. x <= a /\ a <= x /\ x \in Int /\ a \in Int
      OBVIOUS
    <2> QED
      BY <2>1
  <1> QED
    BY <1>1 DEF Generator!Min

\* When all numbers but the first follow a sum or difference every number is a term.
LEMMA TermsAre ==
    ASSUME NEW e \in Expressions(Fractions), NEW m \in Nat, m <= Len(e.ops),
           StartsOf(e) = 1 .. (m + 1)
    PROVE  Terms(e) = [nums |-> [n \in 1 .. (m + 1) |-> TermOf(e, n)],
                       ops |-> [n \in 1 .. m |-> e.ops[n]]]
  <1> DEFINE S == 1 .. (m + 1)
  <1>1. m + 1 \in Nat /\ (m + 1) - 1 = m
    OBVIOUS
  <1>2. Cardinality(S) = m + 1
    BY <1>1, UpTo
  <1>3. \A n \in 1 .. (m + 1) : Nth(S, n) = n
    BY <1>1, NthOfAll
  <1>4. \A n \in 1 .. m : Nth(S, n + 1) - 1 = n
    <2> SUFFICES ASSUME NEW n \in 1 .. m PROVE Nth(S, n + 1) - 1 = n
      OBVIOUS
    <2>1. n + 1 \in 1 .. (m + 1) /\ (n + 1) - 1 = n
      OBVIOUS
    <2> QED
      BY <1>3, <2>1
  <1> HIDE DEF S
  <1>5. Terms(e) = [nums |-> [n \in 1 .. Cardinality(S) |-> TermOf(e, Nth(S, n))],
                    ops |-> [n \in 1 .. (Cardinality(S) - 1) |-> e.ops[Nth(S, n + 1) - 1]]]
    BY DEF Terms, S
  <1> QED
    BY <1>1, <1>2, <1>3, <1>4, <1>5

LEMMA TermOfOne ==
    ASSUME NEW e \in Expressions(Fractions), NEW a \in 1 .. Len(e.nums),
           a = Len(e.nums) \/ ~Generator!Binds(e.ops[a])
    PROVE  TermOf(e, a) = e.nums[a]
  <1>1. e \in Expressions(Pairs) /\ Len(e.nums) \in Nat
    BY FractionsArePairs DEF Expressions
  <1>2. Generator!Min(TermEnds(e, a)) = a
    <2>1. /\ TermEnds(e, a) \in SUBSET Int /\ a \in TermEnds(e, a)
          /\ \A b \in TermEnds(e, a) : a <= b
      BY <1>1 DEF TermEnds
    <2> QED
      BY <2>1, MinIs
  <1>3. a \in a .. Len(e.nums) /\ a - a = 0 /\ a - a + 1 = 1 /\ a + 1 - 1 = a
    BY <1>1
  <1>4. Stretch(e, a, a) \in Expressions(Pairs) /\ Len(Stretch(e, a, a).ops) = 0
    BY <1>1, <1>3, StretchIs
  <1>5. Stretch(e, a, a).nums[1] = e.nums[a]
    <2>1. 1 \in 1 .. (a - a + 1)
      BY <1>3
    <2>2. Stretch(e, a, a).nums[1] = e.nums[a + 1 - 1]
      BY <2>1 DEF Stretch
    <2> QED
      BY <1>3, <2>2
  <1> QED
    BY <1>2, <1>4, <1>5, SecondPassOfOne DEF TermOf

\* The answer that is stored is what the terms of the expression add up to.
LEMMA AnswerOfSums ==
    ASSUME NEW e \in Expressions(Fractions), Len(e.ops) <= 3,
           \A i \in 1 .. Len(e.ops) : ~Generator!Binds(e.ops[i])
    PROVE  Generator!Precedence(e) = Generator!GetAnswerForExpression(e)
  <1> DEFINE n == Len(e.ops)
  <1>1. /\ n \in Nat /\ Len(e.nums) = n + 1 /\ DOMAIN e.ops = 1 .. n
        /\ e = [nums |-> e.nums, ops |-> e.ops]
        /\ e.nums = [i \in 1 .. (n + 1) |-> e.nums[i]] /\ e.ops = [i \in 1 .. n |-> e.ops[i]]
    BY DEF Expressions
  <1>2. StartsOf(e) = 1 .. (n + 1)
    <2>1. \A k \in 1 .. (n + 1) : k # 1 => k - 1 \in 1 .. n /\ k = (k - 1) + 1
      BY <1>1
    <2>2. \A k \in 1 .. n : k + 1 \in 1 .. (n + 1)
      BY <1>1
    <2>3. 1 \in 1 .. (n + 1)
      BY <1>1
    <2>4. {k \in DOMAIN e.ops : ~Generator!Binds(e.ops[k])} = 1 .. n
      BY <1>1
    <2> HIDE DEF n
    <2>5. {1} \cup {k + 1 : k \in 1 .. n} = 1 .. (n + 1)
      BY <2>1, <2>2, <2>3
    <2> QED
      BY <2>4, <2>5 DEF StartsOf
  <1>3. \A a \in 1 .. (n + 1) : TermOf(e, a) = e.nums[a]
    <2> SUFFICES ASSUME NEW a \in 1 .. (n + 1) PROVE TermOf(e, a) = e.nums[a]
      OBVIOUS
    <2>1. a \in 1 .. Len(e.nums) /\ (a = Len(e.nums) \/ a \in 1 .. Len(e.ops))
      BY <1>1
    <2> QED
      BY <2>1, TermOfOne
  <1>4. Terms(e) = [nums |-> [i \in 1 .. (n + 1) |-> TermOf(e, i)], ops |-> [i \in 1 .. n |-> e.ops[i]]]
    BY <1>1, <1>2, TermsAre
  <1>5. Terms(e) = e
    <2> HIDE DEF n
    <2>1. [i \in 1 .. (n + 1) |-> TermOf(e, i)] = [i \in 1 .. (n + 1) |-> e.nums[i]]
      BY <1>3
    <2> QED
      BY <1>1, <1>4, <2>1
  <1>6. Generator!FirstPass(e) = e
    BY FirstPassOfSums
  <1> QED
    BY <1>5, <1>6, PrecedenceIs DEF Generator!GetAnswerForExpression

\* With a product or quotient last the first pass makes of it the one term of two numbers.
LEMMA AnswerOfTwo ==
    ASSUME NEW e \in Expressions(Fractions), Len(e.ops) = 2,
           ~Generator!Binds(e.ops[1]), Generator!Binds(e.ops[2])
    PROVE  Generator!Precedence(e) = Generator!GetAnswerForExpression(e)
  <1> DEFINE c == Generator!Calculate(e.nums[2], e.ops[2], e.nums[3])
  <1>1. /\ Len(e.nums) = 3 /\ DOMAIN e.ops = 1 .. 2 /\ e \in Expressions(Pairs)
    <2>1. e.ops \in Seq(Operators) /\ Len(e.nums) = Len(e.ops) + 1
      BY DEF Expressions
    <2>2. DOMAIN e.ops = 1 .. 2
      BY <2>1
    <2> QED
      BY <2>1, <2>2, FractionsArePairs
  <1>2. StartsOf(e) = 1 .. (1 + 1)
    <2>1. {k \in 1 .. 2 : ~Generator!Binds(e.ops[k])} = {1}
      OBVIOUS
    <2>2. {1} \cup {k + 1 : k \in {1}} = 1 .. (1 + 1)
      OBVIOUS
    <2> QED
      BY <1>1, <2>1, <2>2 DEF StartsOf
  <1>3. TermOf(e, 1) = e.nums[1]
    <2>1. 1 \in 1 .. Len(e.nums)
      BY <1>1
    <2> QED
      BY <2>1, TermOfOne
  <1>4. TermOf(e, 2) = c
    <2>1. TermEnds(e, 2) = {3}
      <3>1. \A b \in 2 .. 3 : b = 2 \/ b = 3
        OBVIOUS
      <3>2. 3 \in 2 .. 3
        OBVIOUS
      <3> QED
        BY <1>1, <3>1, <3>2 DEF TermEnds
    <2>2. Generator!Min(TermEnds(e, 2)) = 3
      BY <2>1, MinIs
    <2> DEFINE s == Stretch(e, 2, 3)
    <2>3. s \in Expressions(Pairs) /\ Len(s.ops) = 1
      <3>1. 2 \in 1 .. Len(e.nums) /\ 3 \in 2 .. Len(e.nums) /\ 3 - 2 = 1
        BY <1>1
      <3> QED
        BY <1>1, <3>1, StretchIs
    <2>4. s.nums[1] = e.nums[2] /\ s.ops[1] = e.ops[2] /\ s.nums[2] = e.nums[3]
      <3>1. 1 \in 1 .. (3 - 2) /\ 1 \in 1 .. (3 - 2 + 1) /\ 2 \in 1 .. (3 - 2 + 1)
        OBVIOUS
      <3>2. 2 + 1 - 1 = 2 /\ 2 + 2 - 1 = 3
        OBVIOUS
      <3> QED
        BY <3>1, <3>2 DEF Stretch
    <2> HIDE DEF s
    <2>5. Generator!SecondPass(s) = c
      BY <2>3, <2>4, SecondPassOfTwo
    <2> QED
      BY <2>2, <2>5 DEF TermOf, s
  <1> HIDE DEF c
  <1>5. Terms(e) = [nums |-> [n \in 1 .. 2 |-> TermOf(e, n)], ops |-> [n \in 1 .. 1 |-> e.ops[n]]]
    <2>1. 1 \in Nat /\ 1 <= Len(e.ops) /\ 1 + 1 = 2
      OBVIOUS
    <2> QED
      BY <1>2, <2>1, TermsAre
  <1>6. Generator!Spliced(e, 2)
          = [nums |-> [n \in 1 .. 2 |-> TermOf(e, n)], ops |-> [n \in 1 .. 1 |-> e.ops[n]]]
    <2>1. Len(e.nums) - 1 = 2 /\ Len(e.ops) - 1 = 1 /\ 2 + 1 = 3
      BY <1>1
    <2> DEFINE T(i) == CASE i < 2 -> e.nums[i] [] i = 2 -> c [] i > 2 -> e.nums[i + 1]
               U(i) == IF i < 2 THEN e.ops[i] ELSE e.ops[i + 1]
    <2>2. Generator!Spliced(e, 2) = [nums |-> [i \in 1 .. 2 |-> T(i)], ops |-> [i \in 1 .. 1 |-> U(i)]]
      <3>1. c = Generator!Calculate(e.nums[2], e.ops[2], e.nums[2 + 1])
        BY <2>1 DEF c
      <3> DEFINE V(i) == CASE i < 2 -> e.nums[i]
                           [] i = 2 -> Generator!Calculate(e.nums[2], e.ops[2], e.nums[2 + 1])
                           [] i > 2 -> e.nums[i + 1]
                 x == Len(e.nums) - 1
                 y == Len(e.ops) - 1
      <3>2. Generator!Spliced(e, 2) = [nums |-> [i \in 1 .. x |-> V(i)], ops |-> [i \in 1 .. y |-> U(i)]]
        BY DEF Generator!Spliced
      <3>3. \A i \in 1 .. 2 : V(i) = T(i)
        BY <3>1
      <3>4. x = 2 /\ y = 1
        BY <2>1
      <3> HIDE DEF T, U, V, x, y
      <3> QED
        BY <3>2, <3>3, <3>4
    <2>3. \A i \in 1 .. 2 : T(i) = TermOf(e, i)
      <3>1. T(1) = e.nums[1] /\ T(2) = c
        OBVIOUS
      <3>2. \A i \in 1 .. 2 : i = 1 \/ i = 2
        OBVIOUS
      <3> HIDE DEF T
      <3> QED
        BY <1>3, <1>4, <3>1, <3>2
    <2>4. \A i \in 1 .. 1 : U(i) = e.ops[i]
      OBVIOUS
    <2> HIDE DEF T, U
    <2> QED
      BY <2>2, <2>3, <2>4
  <1>7. Generator!FirstPass(e) = Terms(e)
    BY <1>5, <1>6, FirstPassOfTwo
  <1> QED
    BY <1>7, PrecedenceIs DEF Generator!GetAnswerForExpression

\* The answer to what is shown is its value, a number over a positive one.
LEMMA AnswerOfShown ==
    ASSUME NEW e, Shown(e)
    PROVE  /\ Generator!Precedence(e) = Generator!GetAnswerForExpression(e)
           /\ Generator!GetAnswerForExpression(e) \in Quotients
  <1>1. CASE \A i \in 1 .. Len(e.ops) : ~Generator!Binds(e.ops[i])
    <2>1. e \in Expressions(Fractions) /\ Len(e.ops) <= 3
      BY DEF Shown
    <2>2. Generator!FirstPass(e) = e /\ Generator!SecondPass(e) \in Quotients
      BY <1>1, <2>1, FirstPassOfSums, SumsAreQuotients
    <2>3. Generator!Precedence(e) = Generator!GetAnswerForExpression(e)
      BY <1>1, <2>1, AnswerOfSums
    <2> QED
      BY <2>2, <2>3 DEF Generator!GetAnswerForExpression
  <1>2. CASE Len(e.ops) = 2 /\ ~Generator!Binds(e.ops[1]) /\ Generator!Binds(e.ops[2])
    <2>1. e \in Expressions(Fractions)
      BY DEF Shown
    <2> DEFINE s == Generator!Spliced(e, 2)
    <2>2. s \in Expressions(Fractions) /\ Len(s.ops) = 1 /\ s.ops[1] = e.ops[1]
      <3>1. 2 \in 1 .. Len(e.ops) /\ 1 \in 1 .. (2 - 1) /\ 2 - 1 = 1
        BY <1>2
      <3> QED
        BY <1>2, <2>1, <3>1, SplicedIs
    <2>3. Generator!FirstPass(e) = s
      BY <1>2, <2>1, FirstPassOfTwo
    <2> HIDE DEF s
    <2>4. Generator!SecondPass(s) \in Quotients
      <3>1. \A i \in 1 .. Len(s.ops) : ~Generator!Binds(s.ops[i])
        BY <1>2, <2>2
      <3>2. Len(s.ops) <= 3
        BY <2>2
      <3> QED
        BY <2>2, <3>1, <3>2, SumsAreQuotients
    <2>5. Generator!Precedence(e) = Generator!GetAnswerForExpression(e)
      BY <1>2, <2>1, AnswerOfTwo
    <2> QED
      BY <2>3, <2>4, <2>5 DEF Generator!GetAnswerForExpression
  <1> QED
    BY <1>1, <1>2 DEF Shown

-----------------------------------------------------------------------------
(* What a generator returns.                                                  *)

\* Less than a hundredth apart: what is left when the hundredths are cut off.
LEMMA CutOff ==
    ASSUME NEW n \in Int, NEW d \in Nat \ {0}
    PROVE  Generator!MathAccepted(<<n, d>>, <<(100 * n) \div d, 100>>)
  <1> DEFINE a == 100 * n
             q == a \div d
             r == a % d
             x == n * 100 - q * d
             y == d * 100
  <1>1. a \in Int /\ q \in Int /\ r \in Int /\ 0 <= r /\ r < d /\ a = d * q + r
    OBVIOUS
  <1>2. Generator!Calculate(<<n, d>>, "-", <<q, 100>>) = <<x, y>>
    BY DEF Generator!Calculate
  <1> HIDE DEF q, r
  <1>3. x = r /\ y \in Nat
    BY <1>1
  <1>4. 100 * r < y
    BY <1>1
  <1>5. Generator!Abs(x) = r /\ Generator!Abs(y) = y
    <2> HIDE DEF x, y
    <2> QED
      BY <1>1, <1>3 DEF Generator!Abs
  <1> HIDE DEF x, y
  <1>6. Generator!MathAccepted(<<n, d>>, <<q, 100>>)
    BY <1>2, <1>4, <1>5 DEF Generator!MathAccepted
  <1> QED
    BY <1>6 DEF q

LEMMA RoundedOff ==
    ASSUME NEW n \in Int, NEW d \in Nat \ {0}
    PROVE  Generator!MathAccepted(<<n, d>>, <<(200 * n + d) \div (2 * d), 100>>)
  <1> DEFINE a == 200 * n + d
             b == 2 * d
             q == a \div b
             r == a % b
             x == n * 100 - q * d
             y == d * 100
  <1>1. a \in Int /\ b \in Nat /\ b > 0
    OBVIOUS
  <1>2. q \in Int /\ r \in Int /\ 0 <= r /\ r < b /\ a = b * q + r
    <2> HIDE DEF a, b
    <2> QED
      BY <1>1
  <1>3. Generator!Calculate(<<n, d>>, "-", <<q, 100>>) = <<x, y>>
    BY DEF Generator!Calculate
  <1> HIDE DEF q, r
  <1>4. x \in Int /\ 2 * x = r - d
    <2> DEFINE z == d * q
    <2>1. z \in Int /\ b * q = 2 * z /\ q * d = z
      BY <1>2
    <2>2. 200 * n + d = 2 * z + r /\ x = n * 100 - z
      BY <1>2, <2>1
    <2> HIDE DEF z, x
    <2> QED
      BY <1>2, <2>1, <2>2
  <1>5. Generator!Abs(y) = y /\ y \in Nat
    BY DEF Generator!Abs
  <1>6. 100 * Generator!Abs(x) < y
    <2>1. y = 100 * d /\ r < 2 * d /\ 0 <= r
      BY <1>2
    <2> HIDE DEF x, y, b
    <2>2. CASE x < 0
      BY <1>2, <1>4, <2>1, <2>2 DEF Generator!Abs
    <2>3. CASE ~(x < 0)
      BY <1>2, <1>4, <2>1, <2>3 DEF Generator!Abs
    <2> QED
      BY <2>2, <2>3
  <1> HIDE DEF x, y
  <1>7. Generator!MathAccepted(<<n, d>>, <<q, 100>>)
    BY <1>3, <1>5, <1>6 DEF Generator!MathAccepted
  <1> QED
    BY <1>7 DEF q

\* The properties of a challenge: of math problems, of their answers and of the puzzles.
GeneratorRight ==
    Generator!StoredAnswerRight /\ Generator!TwoDecimalsSuffice /\ Generator!KeyAnswersShown

LEMMA MathRight ==
    ASSUME Numbers \subseteq Nat \ {0}, NEW d \in Generator!Difficulties, Generator!GenerateMath(d)
    PROVE  GeneratorRight'
  <1>1. PICK drawn \in [1 .. Generator!Complexity[d] -> Numbers], ops \in Generator!Operations(d) :
           LET e == Generator!Expression(d, [i \in DOMAIN drawn |-> <<drawn[i], 1>>], ops)
           IN  challenge' = [kind |-> "math", shown |-> e, answer |-> Generator!GetAnswerForExpression(e)]
    BY DEF Generator!GenerateMath
  <1> DEFINE e == Generator!Expression(d, [i \in DOMAIN drawn |-> <<drawn[i], 1>>], ops)
             a == Generator!GetAnswerForExpression(e)
  <1>2. Shown(e)
    BY ExpressionIsShown
  <1> HIDE DEF e
  <1>3. Generator!Precedence(e) = a /\ a \in Quotients
    BY <1>2, AnswerOfShown
  <1>4. challenge' = [kind |-> "math", shown |-> e, answer |-> a]
    BY <1>1 DEF e
  <1> HIDE DEF a
  <1>5. challenge'.kind = "math" /\ challenge'.shown = e /\ challenge'.answer = a
    BY <1>4
  <1>6. Generator!StoredAnswerRight'
    BY <1>3, <1>5 DEF Generator!StoredAnswerRight, Generator!SameValue
  <1>7. Generator!TwoDecimalsSuffice'
    <2>1. a = <<a[1], a[2]>> /\ a[1] \in Int /\ a[2] \in Nat \ {0}
      BY <1>3 DEF Quotients
    <2>2. /\ Generator!MathAccepted(a, <<(100 * a[1]) \div a[2], 100>>)
          /\ Generator!MathAccepted(a, <<(200 * a[1] + a[2]) \div (2 * a[2]), 100>>)
      BY <2>1, CutOff, RoundedOff
    <2> QED
      BY <1>5, <2>2 DEF Generator!TwoDecimalsSuffice
  <1>8. Generator!KeyAnswersShown'
    BY <1>5 DEF Generator!KeyAnswersShown
  <1> QED
    BY <1>6, <1>7, <1>8 DEF GeneratorRight

\* The key is that of an option that shows the right answer.
LEMMA KeyFinds ==
    ASSUME NEW options, NEW right, right \in {options[i] : i \in 1 .. 4}
    PROVE  options[Generator!Key(options, right)] = right
  <1> DEFINE T == {i \in 1 .. 4 : options[i] = right}
  <1>1. T \in SUBSET Nat /\ T # {}
    OBVIOUS
  <1>2. PICK m \in T : \A y \in T : m <= y
    BY <1>1, LeastExists
  <1>3. m \in 1 .. 4 /\ options[m] = right /\ \A j \in 1 .. (m - 1) : options[j] # right
    BY <1>2
  <1> QED
    BY <1>3 DEF Generator!Key

\* Of the puzzles, what is asked is right when the option that is right is one of them.
LEMMA AskIs ==
    ASSUME NEW kind, NEW shown, NEW options, NEW right,
           right \in {options[i] : i \in 1 .. 4}, Generator!Ask(kind, shown, options, right)
    PROVE  challenge'.kind = kind /\ challenge'.shown = shown /\ Generator!Answer' = right
  <1> DEFINE k == Generator!Key(options, right)
  <1>1. options[k] = right
    BY KeyFinds
  <1>2. challenge' = [kind |-> kind, shown |-> shown, options |-> options, key |-> k]
    BY DEF Generator!Ask
  <1> HIDE DEF k
  <1> QED
    BY <1>1, <1>2 DEF Generator!Answer

LEMMA OtherRight ==
    ASSUME challenge'.kind \notin {"math", "objects", "pattern", "progression", "imagePattern"}
    PROVE  GeneratorRight'
  BY DEF GeneratorRight, Generator!StoredAnswerRight, Generator!TwoDecimalsSuffice,
         Generator!KeyAnswersShown

LEMMA SlicedIs ==
    ASSUME NEW T, NEW s \in Seq(T), Len(s) = 4, NEW n \in 3 .. 6
    PROVE  /\ n = 3 => Len(Generator!Sliced(s, n)) = 3
           /\ n # 3 => Generator!Sliced(s, n) = s
  <1>1. CASE n = 3
    <2>1. Generator!Min({n, Len(s)}) = 3
      <3>1. {n, Len(s)} = {3, 4}
        BY <1>1
      <3>2. {3, 4} \in SUBSET Int /\ 3 \in {3, 4} /\ \A b \in {3, 4} : 3 <= b
        OBVIOUS
      <3> QED
        BY <3>1, <3>2, MinIs
    <2> QED
      BY <1>1, <2>1 DEF Generator!Sliced
  <1>2. CASE n # 3
    <2>1. Generator!Min({n, Len(s)}) = 4
      <3>1. {n, Len(s)} \in SUBSET Int /\ 4 \in {n, Len(s)} /\ \A b \in {n, Len(s)} : 4 <= b
        BY <1>2
      <3> QED
        BY <3>1, MinIs
    <2>2. SubSeq(s, 1, 4) = s
      OBVIOUS
    <2> QED
      BY <1>2, <2>1, <2>2 DEF Generator!Sliced
  <1> QED
    BY <1>1, <1>2

\* The answers of the patterns are what continues them.
LEMMA PatternsContinue ==
    /\ Generator!Continues(<<1, 2, 1, 2>>, 1)
    /\ Generator!Continues(<<1, 2, 3, 4>>, 1)
  <1>0. \A p \in 1 .. 3 : p = 1 \/ p = 2 \/ p = 3
    OBVIOUS
  <1>1. Generator!Continues(<<1, 2, 1, 2>>, 1)
    <2> DEFINE s == <<1, 2, 1, 2>>
               P == Generator!Periods(s)
    <2>1. Len(s) = 4 /\ s[1] = 1 /\ s[2] = 2 /\ s[3] = 1 /\ s[4] = 2
      OBVIOUS
    <2> HIDE DEF s
    <2>2. P = {p \in 1 .. 3 : \A i \in (p + 1) .. 4 : s[i] = s[i - p]}
      BY <2>1 DEF Generator!Periods
    <2>3. 1 \notin P
      <3>1. 2 \in (1 + 1) .. 4 /\ 2 - 1 = 1 /\ s[2] # s[1]
        BY <2>1
      <3> QED
        BY <2>2, <3>1
    <2>4. 3 \notin P
      <3>1. 4 \in (3 + 1) .. 4 /\ 4 - 3 = 1 /\ s[4] # s[1]
        BY <2>1
      <3> QED
        BY <2>2, <3>1
    <2>5. 2 \in P
      <3> SUFFICES ASSUME NEW i \in (2 + 1) .. 4 PROVE s[i] = s[i - 2]
        BY <2>2
      <3>1. (i = 3 /\ i - 2 = 1) \/ (i = 4 /\ i - 2 = 2)
        OBVIOUS
      <3> QED
        BY <2>1, <3>1
    <2>6. P = {2}
      BY <1>0, <2>2, <2>3, <2>4, <2>5
    <2>7. Generator!Min(P) = 2
      BY <2>6, MinIs
    <2>8. 4 + 1 - 2 = 3
      OBVIOUS
    <2> HIDE DEF P
    <2>9. s[Len(s) + 1 - Generator!Min(P)] = 1
      BY <2>1, <2>7, <2>8
    <2> QED
      BY <2>9 DEF Generator!Continues, P, s
  <1>2. Generator!Continues(<<1, 2, 3, 4>>, 1)
    <2> DEFINE s == <<1, 2, 3, 4>>
               P == Generator!Periods(s)
    <2>1. Len(s) = 4 /\ s[1] = 1 /\ s[2] = 2 /\ s[3] = 3 /\ s[4] = 4
      OBVIOUS
    <2> HIDE DEF s
    <2>2. P = {p \in 1 .. 3 : \A i \in (p + 1) .. 4 : s[i] = s[i - p]}
      BY <2>1 DEF Generator!Periods
    <2>3. \A p \in 1 .. 3 : 4 \in (p + 1) .. 4 /\ s[4] # s[4 - p]
      <3> SUFFICES ASSUME NEW p \in 1 .. 3 PROVE 4 \in (p + 1) .. 4 /\ s[4] # s[4 - p]
        OBVIOUS
      <3>1. 4 - p = 3 \/ 4 - p = 2 \/ 4 - p = 1
        BY <1>0
      <3> QED
        BY <2>1, <3>1
    <2>4. P = {}
      BY <2>2, <2>3
    <2> QED
      BY <2>4 DEF Generator!Continues, P, s
  <1> QED
    BY <1>1, <1>2

LEMMA LogicPatternRight ==
    ASSUME NEW d \in Generator!Difficulties, Generator!LogicPattern(d)
    PROVE  GeneratorRight'
  <1>1. PICK p \in {Generator!Alternating, Generator!Rotating, Generator!Progressing} :
           \E o \in Generator!Options(p.answer, Alternatives) :
             Generator!Ask(IF p = Generator!Progressing THEN "progression" ELSE "pattern",
                           Generator!Sliced(p.sequence, Generator!PatternLength[d]), o, p.answer)
    BY DEF Generator!LogicPattern
  <1>2. PICK o \in Generator!Options(p.answer, Alternatives) :
             Generator!Ask(IF p = Generator!Progressing THEN "progression" ELSE "pattern",
                           Generator!Sliced(p.sequence, Generator!PatternLength[d]), o, p.answer)
    BY <1>1
  <1>3. p.answer \in {o[i] : i \in 1 .. 4}
    BY DEF Generator!Options
  <1>4. Generator!PatternLength[d] \in 4 .. 6
    BY DEF Generator!Difficulties, Generator!PatternLength
  <1>5. p.sequence \in Seq(Nat) /\ Len(p.sequence) = 4
    <2>1. p.sequence = <<1, 2, 1, 2>> \/ p.sequence = <<1, 2, 3, 4>>
      BY DEF Generator!Alternating, Generator!Rotating, Generator!Progressing
    <2>2. <<1, 2, 1, 2>> \in Seq(Nat) /\ Len(<<1, 2, 1, 2>>) = 4
      OBVIOUS
    <2>3. <<1, 2, 3, 4>> \in Seq(Nat) /\ Len(<<1, 2, 3, 4>>) = 4
      OBVIOUS
    <2> QED
      BY <2>1, <2>2, <2>3
  <1>6. Generator!Sliced(p.sequence, Generator!PatternLength[d]) = p.sequence
    <2>1. Generator!PatternLength[d] \in 3 .. 6 /\ Generator!PatternLength[d] # 3
      BY <1>4
    <2> QED
      BY <1>5, <2>1, SlicedIs
  <1>7. /\ challenge'.kind = IF p = Generator!Progressing THEN "progression" ELSE "pattern"
        /\ challenge'.shown = p.sequence /\ Generator!Answer' = p.answer
    BY <1>2, <1>3, <1>6, AskIs
  <1>8. CASE p = Generator!Progressing
    <2>1. challenge'.shown = <<1, 2, 3, 4>> /\ Generator!Answer' = 5 /\ challenge'.kind = "progression"
      BY <1>7, <1>8 DEF Generator!Progressing
    <2>2. Generator!Last(challenge'.shown) = 4
      BY <2>1 DEF Generator!Last
    <2> QED
      BY <2>1, <2>2 DEF GeneratorRight, Generator!StoredAnswerRight,
         Generator!TwoDecimalsSuffice, Generator!KeyAnswersShown
  <1>9. CASE p # Generator!Progressing
    <2>1. challenge'.kind = "pattern" /\ Generator!Answer' = 1
      BY <1>7, <1>9 DEF Generator!Alternating, Generator!Rotating
    <2>2. Generator!Continues(challenge'.shown, 1)
      BY <1>7, <1>9, PatternsContinue DEF Generator!Alternating, Generator!Rotating
    <2>3. Generator!KeyAnswersShown'
      BY <2>1, <2>2 DEF Generator!KeyAnswersShown
    <2> QED
      BY <2>1, <2>3 DEF GeneratorRight, Generator!StoredAnswerRight, Generator!TwoDecimalsSuffice
  <1> QED
    BY <1>8, <1>9

LEMMA ImagePatternRight ==
    ASSUME NEW d \in Generator!Difficulties, Generator!ImagePattern(d)
    PROVE  GeneratorRight'
  <1>1. PICK p \in {Generator!Alternating, Generator!Rotating} :
           \E o \in Generator!OptionsOrRepeats(p.answer, Alternatives \ {p.answer}) :
             Generator!Ask("imagePattern", Generator!Sliced(p.sequence, Generator!GridSize[d]), o, p.answer)
    BY DEF Generator!ImagePattern
  <1>2. PICK o \in Generator!OptionsOrRepeats(p.answer, Alternatives \ {p.answer}) :
             Generator!Ask("imagePattern", Generator!Sliced(p.sequence, Generator!GridSize[d]), o, p.answer)
    BY <1>1
  <1>3. p.answer \in {o[i] : i \in 1 .. 4}
    BY DEF Generator!OptionsOrRepeats
  <1>4. Generator!GridSize[d] \in 3 .. 6
    BY DEF Generator!Difficulties, Generator!GridSize
  <1>5. p.sequence \in Seq(Nat) /\ Len(p.sequence) = 4
    <2>1. p.sequence = <<1, 2, 1, 2>> \/ p.sequence = <<1, 2, 3, 4>>
      BY DEF Generator!Alternating, Generator!Rotating
    <2>2. <<1, 2, 1, 2>> \in Seq(Nat) /\ Len(<<1, 2, 1, 2>>) = 4
      OBVIOUS
    <2>3. <<1, 2, 3, 4>> \in Seq(Nat) /\ Len(<<1, 2, 3, 4>>) = 4
      OBVIOUS
    <2> QED
      BY <2>1, <2>2, <2>3
  <1>6. /\ challenge'.kind = "imagePattern" /\ Generator!Answer' = p.answer
        /\ challenge'.shown = Generator!Sliced(p.sequence, Generator!GridSize[d])
    BY <1>2, <1>3, AskIs
  <1>7. Generator!KeyAnswersShown'
    <2>1. CASE Generator!GridSize[d] = 3
      <3>1. Len(challenge'.shown) = 3
        BY <1>4, <1>5, <1>6, <2>1, SlicedIs
      <3> QED
        BY <1>6, <3>1 DEF Generator!KeyAnswersShown
    <2>2. CASE Generator!GridSize[d] # 3
      <3>1. challenge'.shown = p.sequence
        BY <1>4, <1>5, <1>6, <2>2, SlicedIs
      <3>2. p.answer = 1
        BY DEF Generator!Alternating, Generator!Rotating
      <3>3. Generator!Continues(challenge'.shown, 1)
        BY <3>1, PatternsContinue DEF Generator!Alternating, Generator!Rotating
      <3> QED
        BY <1>6, <3>2, <3>3 DEF Generator!KeyAnswersShown
    <2> QED
      BY <2>1, <2>2
  <1> QED
    BY <1>6, <1>7 DEF GeneratorRight, Generator!StoredAnswerRight, Generator!TwoDecimalsSuffice

LEMMA ImageObjectsRight ==
    ASSUME Generator!ImageObjects
    PROVE  GeneratorRight'
  <1>1. PICK grid, target, others :
           \E o \in Generator!OptionsOrRepeats(Generator!Count(grid, target), others) :
             Generator!Ask("objects", [grid |-> grid, target |-> target], o, Generator!Count(grid, target))
    BY DEF Generator!ImageObjects
  <1> DEFINE right == Generator!Count(grid, target)
  <1>2. PICK o \in Generator!OptionsOrRepeats(right, others) :
             Generator!Ask("objects", [grid |-> grid, target |-> target], o, right)
    BY <1>1
  <1>3. right \in {o[i] : i \in 1 .. 4}
    BY DEF Generator!OptionsOrRepeats
  <1> HIDE DEF right
  <1>4. /\ challenge'.kind = "objects" /\ Generator!Answer' = right
        /\ challenge'.shown = [grid |-> grid, target |-> target]
    BY <1>2, <1>3, AskIs
  <1>5. Generator!KeyAnswersShown'
    BY <1>4 DEF Generator!KeyAnswersShown, right
  <1> QED
    BY <1>4, <1>5 DEF GeneratorRight, Generator!StoredAnswerRight, Generator!TwoDecimalsSuffice

LEMMA InitGenerator ==
    ASSUME Generator!Init
    PROVE  GeneratorRight
  BY DEF Generator!Init, Generator!NoChallenge, GeneratorRight, Generator!StoredAnswerRight,
         Generator!TwoDecimalsSuffice, Generator!KeyAnswersShown

\* One case for each generator.
LEMMA NextGenerator ==
    ASSUME Numbers \subseteq Nat \ {0}, Generator!Next
    PROVE  GeneratorRight'
  <1>1. ASSUME NEW d \in Generator!Difficulties, Generator!GenerateMath(d) PROVE GeneratorRight'
    BY <1>1, MathRight
  <1>2. ASSUME NEW d \in Generator!Difficulties, Generator!GenerateText(d) PROVE GeneratorRight'
    <2>1. challenge'.kind = "text"
      BY <1>2 DEF Generator!GenerateText
    <2> QED
      BY <2>1, OtherRight
  <1>3. ASSUME NEW d \in Generator!Difficulties, Generator!LogicPattern(d) PROVE GeneratorRight'
    BY <1>3, LogicPatternRight
  <1>4. ASSUME NEW d \in Generator!Difficulties, Generator!LogicSequence(d) PROVE GeneratorRight'
    <2>1. PICK shown, o, right : Generator!Ask("sequence", shown, o, right)
      BY <1>4 DEF Generator!LogicSequence
    <2>2. challenge'.kind = "sequence"
      BY <2>1 DEF Generator!Ask
    <2> QED
      BY <2>2, OtherRight
  <1>5. ASSUME NEW d \in Generator!Difficulties, Generator!ImagePattern(d) PROVE GeneratorRight'
    BY <1>5, ImagePatternRight
  <1>6. ASSUME NEW d \in Generator!Difficulties, Generator!ImageColors(d) PROVE GeneratorRight'
    <2>1. PICK shown, o, right : Generator!Ask("colors", shown, o, right)
      BY <1>6 DEF Generator!ImageColors
    <2>2. challenge'.kind = "colors"
      BY <2>1 DEF Generator!Ask
    <2> QED
      BY <2>2, OtherRight
  <1>7. CASE Generator!LogicFixed
    <2>1. challenge'.kind = "fixed"
      BY <1>7 DEF Generator!LogicFixed, Generator!Ask
    <2> QED
      BY <2>1, OtherRight
  <1>8. CASE Generator!ImageObjects
    BY <1>8, ImageObjectsRight
  <1>9. CASE Generator!ImageArrangement
    <2>1. challenge'.kind = "arrangement"
      BY <1>9 DEF Generator!ImageArrangement, Generator!Ask
    <2> QED
      BY <2>1, OtherRight
  <1> QED
    BY <1>1, <1>2, <1>3, <1>4, <1>5, <1>6, <1>7, <1>8, <1>9 DEF Generator!Next

-----------------------------------------------------------------------------
(* The analyzers together.                                                   *)

\* What the challenges and the figures of the analyzers that have figures rest on.
FiguresInv ==
    /\ analyzer = "generator" => GeneratorRight
    /\ analyzer = "detector" => DetectorInv
    /\ analyzer = "keys" => KeysInv
    /\ analyzer = "mouse" => MouseInv
    /\ analyzer = "fingerprint" => FingerprintInv

LEMMA FiguresInvInit == AnalyzersInit => FiguresInv
  BY InitGenerator, InitDetector, InitKeys, InitMouse, InitFingerprint
  DEF AnalyzersInit, FiguresInv

LEMMA FiguresInvNext == FiguresInv /\ [AnalyzersNext]_analyzersVars => FiguresInv'
  <1> SUFFICES ASSUME FiguresInv, [AnalyzersNext]_analyzersVars PROVE FiguresInv'
    OBVIOUS
  <1>1. UNCHANGED analyzer
    BY DEF AnalyzersNext, analyzersVars
  <1>2. analyzer = "detector" => DetectorInv'
    <2>1. \/ analyzer = "detector" /\ Detector!Next
          \/ analyzer # "detector"
          \/ UNCHANGED <<thresholds, sample, series, flagged>>
      BY DEF AnalyzersNext, analyzersVars, detectorVars
    <2>2. CASE analyzer = "detector" /\ Detector!Next
      BY <2>2, NextDetector DEF FiguresInv
    <2>3. CASE UNCHANGED <<thresholds, sample, series, flagged>>
      BY <2>3 DEF FiguresInv, DetectorInv
    <2> QED
      BY <2>1, <2>2, <2>3
  <1>3. analyzer = "keys" => KeysInv'
    <2>1. \/ analyzer = "keys" /\ Keys!Next
          \/ UNCHANGED events
      BY DEF AnalyzersNext, analyzersVars
    <2>2. CASE analyzer = "keys" /\ Keys!Next
      BY <2>2, NextKeys DEF FiguresInv
    <2>3. CASE UNCHANGED events
      BY <2>3 DEF FiguresInv, KeysInv
    <2> QED
      BY <2>1, <2>2, <2>3
  <1>4. analyzer = "mouse" => MouseInv'
    <2>1. \/ analyzer = "mouse" /\ Mouse!Next
          \/ UNCHANGED trail
      BY DEF AnalyzersNext, analyzersVars
    <2>2. CASE analyzer = "mouse" /\ Mouse!Next
      BY <2>2, NextMouse DEF FiguresInv
    <2>3. CASE UNCHANGED trail
      BY <2>3 DEF FiguresInv, MouseInv
    <2> QED
      BY <2>1, <2>2, <2>3
  <1>5. analyzer = "fingerprint" => FingerprintInv'
    <2>1. \/ analyzer = "fingerprint" /\ Fingerprint!Next
          \/ analyzer # "fingerprint"
          \/ UNCHANGED <<analysisNow, known, fingerprints, given, registered>>
      BY DEF AnalyzersNext, analyzersVars, fingerprintVars
    <2>2. CASE analyzer = "fingerprint" /\ Fingerprint!Next
      BY <2>2, NextFingerprint DEF FiguresInv
    <2>3. CASE UNCHANGED <<analysisNow, known, fingerprints, given, registered>>
      BY <2>3 DEF FiguresInv, FingerprintInv, FingerprintTypes
    <2> QED
      BY <2>1, <2>2, <2>3
  <1>6. analyzer = "generator" => GeneratorRight'
    <2>1. \/ analyzer = "generator" /\ Generator!Next
          \/ analyzer # "generator"
          \/ UNCHANGED challenge
      BY DEF AnalyzersNext, analyzersVars
    <2>2. CASE analyzer = "generator" /\ Generator!Next
      BY <2>2, NextGenerator, AnalyzersAssumption
    <2>3. CASE UNCHANGED challenge
      BY <2>3 DEF FiguresInv, GeneratorRight, Generator!StoredAnswerRight,
                  Generator!TwoDecimalsSuffice, Generator!KeyAnswersShown, Generator!Answer
    <2> QED
      BY <2>1, <2>2, <2>3
  <1> QED
    BY <1>1, <1>2, <1>3, <1>4, <1>5, <1>6 DEF FiguresInv

\* Over trails, keystrokes, sessions and devices of any number, the figures of the analyses
\* are right.
THEOREM FiguresAlwaysRight == AnalyzersSpec => []FiguresRight
  <1>1. FiguresInv => FiguresRight
    BY DetectorHolds, ZScores, Outliers, Forecasts, KeysAlone, Regular, Turns, Withholding
    DEF FiguresInv, FiguresRight
  <1> QED
    BY <1>1, FiguresInvInit, FiguresInvNext, PTL DEF AnalyzersSpec

\* The figures are right and what is kept is fresh, for every value of the constants.
THEOREM AnalysesAlwaysRight == AnalyzersSpec => AnalysesRight
  BY FiguresAlwaysRight, AnalysesAlwaysFresh, PTL DEF AnalysesRight

\* The answer stored for any expression over numbers that are not zero is its value, cut
\* or rounded to two decimals, and the options marked right are those that continue the
\* pattern or match the category; the hold times of any keystrokes pair each release with
\* the latest press of its key that waits; the pauses of any trail are the runs of
\* movements that stay in place.
THEOREM ComputedAlwaysRight == AnalyzersSpec => []ComputedRight
  <1>1. FiguresInv => ComputedRight
    BY HoldsPair, PausesCounted DEF FiguresInv, GeneratorRight, ComputedRight
  <1> QED
    BY <1>1, FiguresInvInit, FiguresInvNext, PTL DEF AnalyzersSpec

=============================================================================
