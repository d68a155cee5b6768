--------------------------- MODULE AnomalyDetector ---------------------------
(***************************************************************************)
(* security/anomaly-detector.ts: the anomalies of one behavioural session and *)
(* the adaptive thresholds that are learned from one session to the next.     *)
(* Means and variances are compared as fractions, multiplied out.             *)
(***************************************************************************)
EXTENDS Integers, FiniteSets, SequencesExt

CONSTANTS
    Metrics,        \* metrics that have an adaptive threshold
    Sessions,       \* sessions: [metrics |-> five values, series |-> points of a time series]
    MinSamples,     \* minSamplesForAdaptive
    MaxSamples      \* bound: sessions analysed

VARIABLES
    thresholds,     \* adaptiveThresholds: metric -> record, or NoThreshold
    sample,         \* the five metrics of one category in the last session
    series,         \* the time series of the last session
    flagged         \* metrics the last session had a threshold anomaly for

detectorVars == <<thresholds, sample, series, flagged>>

NoThreshold == [count |-> 0, baseline |-> 0, current |-> 0, upper |-> 0, lower |-> 0]

Init ==
    /\ thresholds = [m \in Metrics |-> NoThreshold]
    /\ sample = <<0, 0, 0, 0, 0>>
    /\ series = << >>
    /\ flagged = {}

Abs(x) == IF x < 0 THEN -x ELSE x
Total(s) == FoldSeq(LAMBDA x, y : x + y, 0, s)

-----------------------------------------------------------------------------
(* Adaptive thresholds.                                                      *)

\* What the learning rate, a fraction of one, can make of a baseline: a value on the way
\* from it to the new value.
Towards(b, v) == {x \in (-Abs(b) - Abs(v))..(Abs(b) + Abs(v)) : (b <= x /\ x <= v) \/ (v <= x /\ x <= b)}

\* Bounds are kept doubled: the first ones are half and one and a half of the value.
First(v) == [count |-> 1, baseline |-> v, current |-> v, upper |-> 3 * v, lower |-> v]

\* updateThreshold: the bounds are twice the distance from the old baseline to the value
\* on either side of the new baseline.
Updated(t, v, b) ==
    LET distance == Abs(v - t.baseline)
    IN  [count |-> t.count + 1, baseline |-> b, current |-> v,
         upper |-> 2 * (b + 2 * distance), lower |-> 2 * (b - 2 * distance)]

\* detectThresholdAnomalies.
Exceeds(t) == t.count >= MinSamples /\ (2 * t.current > t.upper \/ 2 * t.current < t.lower)

-----------------------------------------------------------------------------
(* Statistics over the metrics of a category.                                *)

Mean(s) == Total(s)                                     \* times Len(s)
Variance(s) == LET n == Len(s) IN                       \* times n * n * n
    Total([i \in 1..n |-> (n * s[i] - Total(s)) * (n * s[i] - Total(s))])

\* A value more than two standard deviations away from the mean.
HighZScore(s, i) ==
    LET n == Len(s) IN
        /\ Variance(s) > 0
        /\ (n * s[i] - Mean(s)) * (n * s[i] - Mean(s)) * n > 4 * Variance(s)

\* The sorted values at an index from 0: no more values than that come before it.
Sorted(s, k) ==
    CHOOSE v \in {s[i] : i \in DOMAIN s} :
        /\ Cardinality({i \in DOMAIN s : s[i] < v}) <= k
        /\ Cardinality({i \in DOMAIN s : s[i] <= v}) > k

\* Quartiles are the values at a quarter and three quarters of the sorted ones, rounded down.
Quartile(s, q) == Sorted(s, (q * Len(s)) \div 4)

\* Outliers are further than one and a half interquartile ranges from the quartiles.
Outlier(s, i) ==
    LET iqr == Quartile(s, 3) - Quartile(s, 1)
    IN  2 * s[i] < 2 * Quartile(s, 1) - 3 * iqr \/ 2 * s[i] > 2 * Quartile(s, 3) + 3 * iqr

-----------------------------------------------------------------------------
(* Time series.                                                              *)

\* The slope of the regression line is TrendOver(s) / TrendUnder(s).
TrendOver(s) == LET n == Len(s) IN
    2 * Total([i \in 1..n |-> (2 * i - n - 1) * s[i]])
TrendUnder(s) == LET n == Len(s) IN
    Total([i \in 1..n |-> (2 * i - n - 1) * (2 * i - n - 1)])

\* generateForecast: the last value and k times the trend, times TrendUnder(s).
Forecast(s, k) == s[Len(s)] * TrendUnder(s) + TrendOver(s) * k

-----------------------------------------------------------------------------
(* Actions.                                                                  *)

\* detectAnomalies: every metric's threshold is updated before it is looked at.
DetectAnomalies(session) == LET values == session.metrics IN
    /\ \E b \in [Metrics -> UNION {Towards(thresholds[m].baseline, values[m]) : m \in Metrics}] :
          /\ \A m \in Metrics : b[m] \in Towards(thresholds[m].baseline, values[m])
          /\ thresholds' = [m \in Metrics |->
                IF thresholds[m].count = 0 THEN First(values[m])
                ELSE Updated(thresholds[m], values[m], b[m])]
    /\ flagged' = {m \in Metrics : Exceeds(thresholds'[m])}
    /\ sample' = values
    /\ series' = session.series

ResetAdaptiveThresholds ==
    /\ thresholds' = [m \in Metrics |-> NoThreshold]
    /\ UNCHANGED <<sample, series, flagged>>

Next ==
    \/ \E session \in Sessions :
          /\ \A m \in Metrics : thresholds[m].count < MaxSamples
          /\ DetectAnomalies(session)
    \/ ResetAdaptiveThresholds

Spec == Init /\ [][Next]_detectorVars

-----------------------------------------------------------------------------
(* Properties.                                                               *)

\* No value is ever outside the bounds learned from it: updateThreshold moves the bounds
\* out to twice the distance of the value before detectThresholdAnomalies compares them,
\* so the anomalies "exceeds upper / below lower adaptive threshold" are never reported.
ThresholdsNeverExceeded ==
    /\ flagged = {}
    /\ \A m \in Metrics : thresholds[m].count > 0 =>
          thresholds[m].lower <= 2 * thresholds[m].current /\ 2 * thresholds[m].current <= thresholds[m].upper

\* Five values never lie more than two standard deviations from their mean: with the
\* threshold of 2.0 the anomaly "High z-scores" is never reported.
ZScoresNeverHigh == \A i \in 1..5 : ~HighZScore(sample, i)

\* Among five metrics of which four agree the fifth is an outlier, and the only one: the
\* quartiles see what the z-scores cannot.
OddOneOut ==
    \A i \in 1..5 :
        /\ \A j, k \in (1..5) \ {i} : sample[j] = sample[k]
        /\ \A j \in (1..5) \ {i} : sample[j] # sample[i]
        => {j \in 1..5 : Outlier(sample, j)} = {i}

\* The forecast of points on a line continues the line.
ForecastContinues ==
    Len(series) >= 3 /\ (\A i \in 2..(Len(series) - 1) :
                            series[i + 1] - series[i] = series[i] - series[i - 1]) =>
        \A k \in 1..5 :
            Forecast(series, k)
                = (series[Len(series)] + k * (series[2] - series[1])) * TrendUnder(series)

=============================================================================
