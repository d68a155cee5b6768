----------------------------- MODULE MCAnalyzers -----------------------------
(***************************************************************************)
(* The generators of challenges, and the analyzers of a visitor's behaviour and  *)
(* device: the anomalies of a session, the trail of the mouse and the rhythm of   *)
(* the keys, the cached results, the model and the fingerprints.  They share no    *)
(* state, so a behaviour exercises one of them (analyzer) while the others rest.   *)
(***************************************************************************)
EXTENDS Integers, Sequences, FiniteSets

CONSTANTS
    Numbers, Alternatives, Cells, Charset,
    SessionMetrics, Sessions, MinSamples, MaxSamples,
    CacheTTL, MaxAge, MaxChanges, MaxTime,
    MaxModels, MaxUpdates,
    Gaps, Durations, Codes, MaxKeyEvents,
    FirstTimes, MoveGaps, MaxMovements,
    Visitors

VARIABLES
    analyzer, challenge,
    thresholds, sample, series, flagged,
    changes, tracked, analyses, ended, detecting,
    version, features, predicted, model, built, training, fitted, fitMetrics,
    events, trail,
    known, fingerprints, given, registered,
    analysisNow

detectorVars == <<thresholds, sample, series, flagged>>
behaviorVars == <<changes, tracked, analyses, ended, detecting>>
modelVars == <<version, features, predicted, model, built, training, fitted, fitMetrics>>
fingerprintVars == <<known, fingerprints, given, registered>>
analyzersVars == <<analyzer, challenge, detectorVars, behaviorVars, modelVars, events,
                   trail, fingerprintVars, analysisNow>>

Generator == INSTANCE Generators
Detector == INSTANCE AnomalyDetector WITH Metrics <- SessionMetrics
Behavior ==
    INSTANCE BehaviorAnalysis WITH sessions <- tracked, cache <- analyses, now <- analysisNow
Bot == INSTANCE BotModel WITH metrics <- fitMetrics
Keys == INSTANCE KeystrokeScores WITH MaxEvents <- MaxKeyEvents
Mouse == INSTANCE MouseTrail WITH Starts <- FirstTimes, Gaps <- MoveGaps
Fingerprint == INSTANCE DeviceFingerprint WITH cache <- fingerprints, now <- analysisNow

\* Operands that are not zero, five metrics of a category, times that pass, a cache that
\* serves what it holds, and finitely many keys.
ASSUME AnalyzersAssumption ==
    /\ Numbers \subseteq Nat \ {0}
    /\ SessionMetrics \subseteq 1 .. 5
    /\ Sessions \subseteq [metrics : [1 .. 5 -> Nat], series : Seq(Nat)]
    /\ CacheTTL \in Nat \ {0} /\ MaxAge \in Nat
    /\ FirstTimes \subseteq Nat /\ MoveGaps \subseteq Nat
    /\ Gaps \subseteq Nat /\ Durations \subseteq Nat /\ IsFiniteSet(Codes)
    /\ Visitors \subseteq Fingerprint!Devices

\* The parts that do not run in a behaviour keep one initial state.
AnalyzersInit ==
    /\ analyzer \in {"generator", "detector", "behavior", "bot", "keys", "mouse", "fingerprint"}
    /\ Generator!Init
    /\ Detector!Init /\ Behavior!Init /\ Bot!Init /\ Keys!Init /\ Mouse!Init
    /\ Fingerprint!Init
    /\ analyzer # "mouse" => trail[1].at = CHOOSE t \in FirstTimes : TRUE

AnalyzersNext ==
    /\ UNCHANGED analyzer
    /\ \/ /\ analyzer = "generator" /\ Generator!Next
          /\ UNCHANGED <<detectorVars, behaviorVars, modelVars, events, trail>>
          /\ UNCHANGED <<fingerprintVars, analysisNow>>
       \/ /\ analyzer = "detector" /\ Detector!Next
          /\ UNCHANGED <<challenge, behaviorVars, modelVars, events, trail>>
          /\ UNCHANGED <<fingerprintVars, analysisNow>>
       \/ /\ analyzer = "behavior" /\ Behavior!Next
          /\ UNCHANGED <<challenge, detectorVars, modelVars, events, trail, fingerprintVars>>
       \/ /\ analyzer = "bot" /\ Bot!Next
          /\ UNCHANGED <<challenge, detectorVars, behaviorVars, events, trail>>
          /\ UNCHANGED <<fingerprintVars, analysisNow>>
       \/ /\ analyzer = "keys" /\ Keys!Next
          /\ UNCHANGED <<challenge, detectorVars, behaviorVars, modelVars, trail>>
          /\ UNCHANGED <<fingerprintVars, analysisNow>>
       \/ /\ analyzer = "mouse" /\ Mouse!Next
          /\ UNCHANGED <<challenge, detectorVars, behaviorVars, modelVars, events>>
          /\ UNCHANGED <<fingerprintVars, analysisNow>>
       \/ /\ analyzer = "fingerprint" /\ Fingerprint!Next
          /\ UNCHANGED <<challenge, detectorVars, behaviorVars, modelVars, events, trail>>

AnalyzersSpec == AnalyzersInit /\ [][AnalyzersNext]_analyzersVars

-----------------------------------------------------------------------------
(* The properties, as in MCVisitors.                                        *)

\* What an analysis keeps does not outlive what it was made of: results are no older than
\* the cache allows, sessions in use stay, a fit that ends in place leaves its metrics, a
\* disposed model leaves no features, its combined verdict is the model's when it is sure,
\* and a registered device is recognised once its cached result has gone.
AnalysesFresh ==
    /\ [](analyzer = "behavior" => Behavior!ResultsFresh)
    /\ Behavior!ActiveSessionsKept
    /\ Bot!MetricsKept
    /\ Bot!DisposedIsForgotten
    /\ [](analyzer = "bot" => Bot!VerdictFollowsModel)
    /\ Fingerprint!RegisteredIsRecognised

\* The numbers behind a verdict: a learned threshold is never exceeded and five values
\* have no high z-score, but one among equal ones is an outlier, and a line is forecast;
\* keystrokes alone never make a bot, but a steady pace is reported as suspicious; no turn
\* of the pointer is missed; withholding a part of a fingerprint never lowers its risk.
FiguresRight ==
    /\ analyzer = "detector" =>
          /\ Detector!ThresholdsNeverExceeded
          /\ Detector!ZScoresNeverHigh
          /\ Detector!OddOneOut
          /\ Detector!ForecastContinues
    /\ analyzer = "keys" => Keys!NeverBotByKeys /\ Keys!RegularReported
    /\ analyzer = "mouse" => Mouse!TurnsNotMissed
    /\ analyzer = "fingerprint" => Fingerprint!WithholdingIsNoBetter

\* The answer that is stored is right for what is shown: the value of the expression, to
\* two decimals and compared as such, and the options of a grid that match its pattern.
\* The presses and releases of a key pair up, and the pauses of the pointer are counted.
ComputedRight ==
    /\ analyzer = "generator" =>
          /\ Generator!StoredAnswerRight
          /\ Generator!TwoDecimalsSuffice
          /\ Generator!KeyAnswersShown
    /\ analyzer = "keys" => Keys!HoldsPaired
    /\ analyzer = "mouse" => Mouse!PausesRight

\* The numbers of an analysis are right, and what is kept of it is no older than its input.
AnalysesRight == []FiguresRight /\ AnalysesFresh

=============================================================================
