------------------------------- MODULE BotModel -------------------------------
(***************************************************************************)
(* security/bot-detection-ml.ts: the life of the model and of the features     *)
(* extracted for a session, and the verdict that joins the model with the two  *)
(* analyzers.  What the network computes is not modelled.                     *)
(***************************************************************************)
EXTENDS Naturals

CONSTANTS
    MaxModels,      \* bound: models built
    MaxUpdates      \* bound: updates of the session

VARIABLES
    version,        \* updates of the session
    features,       \* featureCache: version the features were extracted from, or none
    predicted,      \* last prediction: version it was made from, version at the time
    model,          \* the model in place, or none
    built,          \* models built so far
    training,       \* the model being fitted, or none
    fitted,         \* history: models whose fit has ended
    metrics         \* model the metrics are of, or none

modelVars == <<version, features, predicted, model, built, training, fitted, metrics>>

None == 0

Init ==
    /\ version = 1
    /\ features = None
    /\ predicted = <<None, None>>
    /\ model = None
    /\ built = 0
    /\ training = None
    /\ fitted = {}
    /\ metrics = None

\* initialize builds or loads a model; the one in place is replaced, not disposed of.
Initialize ==
    /\ built < MaxModels
    /\ built' = built + 1
    /\ model' = built + 1
    /\ UNCHANGED <<version, features, predicted, training, fitted, metrics>>

Dispose ==
    /\ model' = None
    /\ features' = None
    /\ UNCHANGED <<version, predicted, built, training, fitted, metrics>>

ClearCache ==
    /\ features' = None
    /\ UNCHANGED <<version, predicted, model, built, training, fitted, metrics>>

\* The session object is updated by its analyzer: the features extracted for its id stay.
SessionUpdated ==
    /\ version < MaxUpdates
    /\ version' = version + 1
    /\ UNCHANGED <<features, predicted, model, built, training, fitted, metrics>>

\* predict throws without a model; extractFeatures returns what it once extracted.
Predict ==
    /\ model # None
    /\ features' = IF features # None THEN features ELSE version
    /\ predicted' = <<features', version>>
    /\ UNCHANGED <<version, model, built, training, fitted, metrics>>

Train ==
    /\ model # None /\ training = None
    /\ training' = model
    /\ UNCHANGED <<version, features, predicted, model, built, fitted, metrics>>

\* A mistake: what the predictions amount to is stored although there are none.
FitEndsAnyway ==
    /\ training # None
    /\ training' = None
    /\ fitted' = fitted \cup {training}
    /\ metrics' = model
    /\ UNCHANGED <<version, features, predicted, model, built>>

\* The fit ends: this.model, which may be another by now, predicts the training data.  When
\* it was disposed of, train rejects and the metrics are the old ones.
FitEnds ==
    /\ training # None
    /\ training' = None
    /\ fitted' = fitted \cup {training}
    /\ metrics' = IF model = None THEN metrics ELSE model
    /\ UNCHANGED <<version, features, predicted, model, built>>

Next ==
    \/ Initialize
    \/ Dispose
    \/ ClearCache
    \/ SessionUpdated
    \/ Predict
    \/ Train
    \/ FitEnds

Spec == Init /\ [][Next]_modelVars

-----------------------------------------------------------------------------
(* The verdict of bot-detection-ml, from the probability the model gives and the *)
(* scores of the analyzers, all in tenths; the combined score is in hundredths.  *)

CombinedScore(p, mouse, keystroke) == 5 * p + 3 * mouse + 2 * keystroke
Confidence(p) == 2 * (IF p >= 5 THEN p - 5 ELSE 5 - p)

MLVerdict(score, confidence) ==
    IF score >= 70 /\ confidence >= 6 THEN "bot"
    ELSE IF score <= 30 /\ confidence >= 6 THEN "human"
    ELSE IF score >= 50 \/ confidence < 4 THEN "suspicious"
    ELSE "uncertain"

-----------------------------------------------------------------------------
(* Properties.                                                               *)

\* Metrics once there are never lost to a model disposed of while it is fitted, and unless
\* another model took the place of the fitted one they are of a fitted model.
MetricsKept ==
    [][/\ metrics # None => metrics' # None
       /\ metrics' # metrics => metrics' = training \/ training < built]_modelVars

\* A disposed model leaves no features behind: what the next model predicts from was
\* extracted for it.
DisposedIsForgotten == [][model # None /\ model' = None => features' = None]_modelVars

\* Documented, and not kept (README, "What the code does not keep").
\* A prediction is made from the session as it is.
PredictionsCurrent == predicted[1] = predicted[2]

\* The rules alone convince nobody: the verdict is bot only when the model says bot with
\* four to one, and human only when it says human with four to one.
VerdictFollowsModel ==
    predicted # <<None, None>> => \A p, mouse, keystroke \in 0..10 :
        LET verdict == MLVerdict(CombinedScore(p, mouse, keystroke), Confidence(p))
        IN  /\ verdict = "bot" => p >= 8
            /\ verdict = "human" => p <= 2

=============================================================================
