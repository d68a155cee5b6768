---------------------------- MODULE KeystrokeScores ----------------------------
(***************************************************************************)
(* security/keystroke-dynamics-analyzer.ts: what the analyzer makes of the    *)
(* keystrokes of a session.  Times are milliseconds; scores are in hundredths   *)
(* of hundredths (10000 is 1), and the parts of a mean are multiplied out.     *)
(***************************************************************************)
EXTENDS Integers, SequencesExt, Subsequences

CONSTANTS
    Gaps,           \* times from one event to the next
    Durations,      \* hold times an event may carry
    Codes,          \* key codes
    MaxEvents       \* bound: keystrokes of the session

VARIABLE events     \* keystrokePattern.events: [at, duration, code]

keystrokeVars == <<events>>

\* An event without a duration is a press or a release.
NoDuration == -1
Events(at) == [at : at, duration : Durations \cup {NoDuration}, code : Codes]

Init == events = << >>

\* updateSession with one more keystroke.
Keystroke ==
    /\ Len(events) < MaxEvents
    /\ \E gap \in Gaps : \E e \in Events({gap + IF events = << >> THEN 0 ELSE Last(events).at}) :
          events' = Append(events, e)

Next == Keystroke
Spec == Init /\ [][Next]_keystrokeVars

-----------------------------------------------------------------------------
(* analyzeKeystrokeEvents.                                                   *)

Sum(s) == FoldSeq(LAMBDA x, y : x + y, 0, s)

\* The variance times Len(s) * Len(s).
VarianceOver(s) == Len(s) * Sum([i \in DOMAIN s |-> s[i] * s[i]]) - Sum(s) * Sum(s)

\* The variance is below a bound; of nothing it is 0.
VarianceBelow(s, bound) == s = << >> \/ VarianceOver(s) < bound * Len(s) * Len(s)

\* One event of the first loop: it carries its hold time, or presses a key that was up, or
\* releases it.
HoldStep(acc, e) ==
    IF e.duration # NoDuration THEN [acc EXCEPT !.held = Append(@, e.duration)]
    ELSE IF acc.pressed[e.code] = NoDuration THEN [acc EXCEPT !.pressed[e.code] = e.at]
    ELSE [held |-> Append(acc.held, e.at - acc.pressed[e.code]),
          pressed |-> [acc.pressed EXCEPT ![e.code] = NoDuration]]

HoldTimes(s) ==
    FoldLeft(LAMBDA acc, e : HoldStep(acc, e),
             [held |-> << >>, pressed |-> [c \in Codes |-> NoDuration]], s).held

\* A key without a duration is taken to be up after 80 milliseconds; negative flight times,
\* of keys pressed before the last one was up, are left out.
ReleasedAt(e) == e.at + (IF e.duration # NoDuration THEN e.duration ELSE 80)
FlightTimes(s) ==
    LET between == [i \in 1..(Len(s) - 1) |-> s[i + 1].at - ReleasedAt(s[i])]
    IN  Picked(between, {i \in DOMAIN between : between[i] >= 0})

\* analyzeKeystrokeEvents, which has nothing to say of fewer than two events.  The speed is
\* per minute, rounded down; rhythmConsistency is 1 / (1 + variance), 1 when it is 0.
Metrics(s) ==
    LET some == Len(s) >= 2
        time == s[Len(s)].at - s[1].at
    IN  [held |-> IF some THEN HoldTimes(s) ELSE << >>,
         flown |-> IF some THEN FlightTimes(s) ELSE << >>,
         rhythm |-> IF some THEN [i \in 1..(Len(s) - 1) |-> s[i + 1].at - s[i].at] ELSE << >>,
         speed |-> IF some THEN (IF time > 0 THEN (Len(s) * 60000) \div time ELSE 0) ELSE 0]

-----------------------------------------------------------------------------
(* Anomalies.                                                                *)

Mean(s) == IF s = << >> THEN 0 ELSE Sum(s) \div Len(s)

\* rhythmConsistency in hundredths: 0 in the metrics of fewer than two events.
Consistency(m) ==
    IF m.rhythm = << >> THEN 0
    ELSE LET n == Len(m.rhythm) IN (100 * n * n) \div (n * n + VarianceOver(m.rhythm))

\* The confidences, in hundredths, of the anomalies detectAnomalies finds.
AnomaliesOf(m) ==
    {a \in {[type |-> "perfect_timing", confidence |-> 85, found |-> VarianceBelow(m.held, 10) /\ Sum(m.held) > 0],
            [type |-> "no_variation", confidence |-> 90, found |-> Consistency(m) > 95],
            [type |-> "too_fast", confidence |-> 80, found |-> m.speed > 800],
            [type |-> "too_slow", confidence |-> 60, found |-> m.speed < 20 /\ Mean(m.flown) > 1000],
            [type |-> "repeated_pattern", confidence |-> 85,
             found |-> VarianceBelow(m.flown, 5) /\ Sum(m.flown) > 0],
            [type |-> "inhuman_precision", confidence |-> 70,
             found |-> VarianceBelow(m.held, 5) /\ Mean(m.held) > 50]} : a.found}

\* The mean of the confidences, in hundredths.
AnomalyScore(found) ==
    IF found = {} THEN 0
    ELSE FoldSet(LAMBDA a, sum : a.confidence + sum, 0, found) \div Cardinality(found)

-----------------------------------------------------------------------------
(* Scores, in hundredths.                                                    *)

Least(x, y) == IF x < y THEN x ELSE y

RhythmScore(m) ==
    Least(100, 100 - Consistency(m) + (IF m.speed > 100 /\ m.speed < 400 THEN 20 ELSE 0))

SpeedNaturalness(m) ==
    CASE m.speed \in 60..400 -> 80
      [] m.speed \in 40..59 \cup 401..600 -> 60
      [] m.speed \in 20..39 \cup 601..800 -> 40
      [] OTHER -> 20

\* Of the time from the start of the session to the first key.
ResponseNaturalness(s) ==
    IF Len(s) < 2 THEN 50
    ELSE CASE s[1].at \in 501..4999 -> 80
           [] s[1].at \in 201..500 \cup 5000..9999 -> 60
           [] OTHER -> 30

\* Least(1, variance / bound), in hundredths.
Share(s, bound) ==
    IF VarianceBelow(s, bound) THEN IF s = << >> THEN 0 ELSE (100 * VarianceOver(s)) \div (bound * Len(s) * Len(s))
    ELSE 100

Variability(m) == (Share(m.held, 1000) + Share(m.flown, 10000)) \div 2

\* calculateBotScore with the default weights: the weights of mouse and scroll go unused.
BotScore(s) ==
    LET m == Metrics(s)
        features == 15 * (100 - RhythmScore(m)) + 10 * (100 - SpeedNaturalness(m))
                    + 10 * (100 - ResponseNaturalness(s)) + 5 * (100 - Variability(m))
    IN  (7 * features + 30 * 10 * AnomalyScore(AnomaliesOf(m))) \div 10

\* determineVerdict with the default thresholds.
Verdict(s) ==
    IF BotScore(s) >= 7000 THEN "bot"
    ELSE IF BotScore(s) <= 3000 THEN "human"
    ELSE IF AnomalyScore(AnomaliesOf(Metrics(s))) >= 50 THEN "suspicious"
    ELSE "uncertain"

-----------------------------------------------------------------------------
(* Properties.                                                               *)

\* The default weights of the features a keystroke analysis has add up to 0.4: whatever the
\* keys say, the score stays below 0.58 and the verdict is never bot.
NeverBotByKeys == BotScore(events) <= 5800 /\ Verdict(events) # "bot"

\* The events of a key before one of it, and the releases, every second event of a key.
OfKey(s, i) == {j \in 1..(i - 1) : s[j].code = s[i].code}
Releases(s) == {i \in DOMAIN s : Cardinality(OfKey(s, i)) % 2 = 1}

\* Without durations every release, and nothing else, makes a hold time: the time since the
\* press of its key, whatever other keys were pressed or released in between.
HoldsPaired ==
    (\A i \in DOMAIN events : events[i].duration = NoDuration) =>
        HoldTimes(events) =
            [n \in 1..Cardinality(Releases(events)) |->
                LET i == Nth(Releases(events), n)
                IN  events[i].at - events[Max(OfKey(events, i))].at]

\* Keys that come at one pace are reported as such, and the session is judged suspicious
\* however natural its other features are.
RegularReported ==
    LET pace == {events[i + 1].at - events[i].at : i \in 1..(Len(events) - 1)}
    IN  Len(events) >= 2 /\ Cardinality(pace) = 1 =>
            /\ \E a \in AnomaliesOf(Metrics(events)) : a.type = "no_variation"
            /\ Verdict(events) = "suspicious"

=============================================================================
