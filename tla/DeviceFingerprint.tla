--------------------------- MODULE DeviceFingerprint ---------------------------
(***************************************************************************)
(* security/device-fingerprint-analyzer.ts: the risk of a device and the cache *)
(* of results about devices, next to the fingerprints registered as known.     *)
(* A device is what its data say after normalisation; scores are in percent.   *)
(***************************************************************************)
EXTENDS Naturals, FiniteSets, FiniteSetsExt

CONSTANTS
    Visitors,       \* devices that are analyzed, a subset of Devices
    CacheTTL,       \* ticks a cached result is served
    MaxTime         \* bound: the clock

VARIABLES
    now,
    known,          \* knownFingerprints
    cache,          \* fingerprintCache: device -> result, or NoResult
    given,          \* the last result analyzeFingerprint returned and its device, or NotGiven
    registered      \* history: device -> when it was last registered

fingerprintVars == <<now, known, cache, given, registered>>

-----------------------------------------------------------------------------
(* Devices.                                                                  *)

\* The data of a visitor: what is not sent has a default, and a canvas, a WebGL vendor, audio
\* and fonts that are not sent stay empty.  Offsets are in hours.
Devices ==
    [agent : {"unknown", "HeadlessChrome", "Firefox"}, platform : {"unknown", "Linux"},
     screen : {"1x1", "90x90", "1920x1080"}, offset : {0, 12, 14}, plugins : BOOLEAN, cores : {0, 4},
     canvas : BOOLEAN, webgl : BOOLEAN, audio : BOOLEAN, fonts : BOOLEAN]

IsKnownBotPattern(d) == d.agent = "HeadlessChrome" \/ ~d.plugins \/ d.screen = "1x1"

\* An offset above twelve hours, which countries in the far east have, or a screen below a
\* hundred pixels.
HasInconsistentData(d) == d.offset > 12 \/ d.screen \in {"1x1", "90x90"}

\* detectAnomalies: the severities, as calculateRiskScore counts them.
AnomalyRisk(d) ==
    (IF d.agent = "unknown" THEN 30 ELSE 0) + (IF d.canvas THEN 0 ELSE 20)
    + (IF d.webgl THEN 0 ELSE 20) + (IF IsKnownBotPattern(d) THEN 40 ELSE 0)
    + (IF HasInconsistentData(d) THEN 30 ELSE 0)

\* calculateConfidence: the weights of what is there.
Confidence(d) ==
    (IF d.agent # "unknown" THEN 20 ELSE 0) + (IF d.platform # "unknown" THEN 10 ELSE 0)
    + (IF d.canvas THEN 20 ELSE 0) + (IF d.webgl THEN 20 ELSE 0) + (IF d.audio THEN 10 ELSE 0)
    + (IF d.fonts THEN 10 ELSE 0) + (IF d.cores > 0 THEN 10 ELSE 0)

RiskScore(d) ==
    Min({100, AnomalyRisk(d) + (IF Confidence(d) < 50 THEN 20 ELSE 0) + (IF d.canvas THEN 0 ELSE 10)
                + (IF d.webgl THEN 0 ELSE 10) + (IF d.audio THEN 0 ELSE 5)})

\* compareFingerprints, in sevenths: the browser's platform, language and screen, the cores
\* and platform of the hardware, canvas and WebGL.  The language and the platform of the
\* hardware are those of every visitor here.
Matches(d, e) ==
    Cardinality({t \in {"platform", "screen", "cores", "canvas", "webgl"} : d[t] = e[t]}) + 2

\* 1 when no fingerprint is known at all.
Similarity(d) == IF known = {} THEN 7 ELSE Max({Matches(d, k) : k \in known})

-----------------------------------------------------------------------------
(* The analyzer.                                                             *)

NoResult == [unique |-> FALSE, similarity |-> 0, at |-> 0]
NotGiven == [device |-> {}, result |-> NoResult]

Init ==
    /\ now = 1
    /\ known = {}
    /\ cache = [d \in Visitors |-> NoResult]
    /\ given = NotGiven
    /\ registered = [d \in Visitors |-> 0]

Fresh(d) == cache[d] # NoResult /\ now - cache[d].at < CacheTTL

AnalyzeFingerprint(d) ==
    /\ cache' = [cache EXCEPT ![d] =
          IF Fresh(d) THEN @ ELSE [unique |-> d \notin known, similarity |-> Similarity(d), at |-> now]]
    /\ given' = [device |-> {d}, result |-> cache'[d]]
    /\ UNCHANGED <<now, known, registered>>

\* registerFingerprint leaves the cached results as they are.
RegisterFingerprint(d) ==
    /\ known' = known \cup {d}
    /\ registered' = [registered EXCEPT ![d] = now]
    /\ UNCHANGED <<now, cache, given>>

\* cleanup with the age of an hour, the default time to live.
Cleanup ==
    /\ cache' = [d \in Visitors |-> IF now - cache[d].at > CacheTTL THEN NoResult ELSE cache[d]]
    /\ UNCHANGED <<now, known, given, registered>>

Tick ==
    /\ now < MaxTime
    /\ now' = now + 1
    /\ UNCHANGED <<known, cache, given, registered>>

Next ==
    \/ \E d \in Visitors : AnalyzeFingerprint(d) \/ RegisterFingerprint(d)
    \/ Cleanup
    \/ Tick

Spec == Init /\ [][Next]_fingerprintVars

-----------------------------------------------------------------------------
(* Properties.                                                               *)

\* A device that was registered a time to live ago, or before the result was computed, is
\* never called unique, and is then as similar as can be to a known one.
RegisteredIsRecognised ==
    [][\A d \in known :
          /\ given' # given /\ given'.device = {d} /\ given'.result.unique =>
                now - registered[d] < CacheTTL
          /\ given' # given /\ given'.device = {d} /\ ~given'.result.unique =>
                given'.result.similarity = 7]_fingerprintVars

\* What a device sends: the same as d, or something where d has nothing.
Sends(e, d) ==
    /\ \A t \in {"canvas", "webgl", "audio", "fonts"} : d[t] => e[t]
    /\ e.agent = d.agent \/ (d.agent = "unknown" /\ e.agent = "Firefox")
    /\ e.platform = d.platform \/ d.platform = "unknown"
    /\ e.cores = d.cores \/ d.cores = 0
    /\ \A t \in {"screen", "offset", "plugins"} : e[t] = d[t]

\* A device never looks less of a risk for sending less: each part of its data lowers the
\* score by the anomaly it spares, by its own addend and through the confidence.
WithholdingIsNoBetter ==
    \A d \in given.device : \A e \in Devices : Sends(e, d) => RiskScore(d) >= RiskScore(e)

=============================================================================
