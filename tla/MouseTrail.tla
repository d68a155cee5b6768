------------------------------ MODULE MouseTrail ------------------------------
(***************************************************************************)
(* security/mouse-movement-analyzer.ts: the pauses and the turns              *)
(* analyzeMouseMovements counts on the trail of a session.  The pointer moves   *)
(* by steps in the eight directions of a grid, or rests.                      *)
(***************************************************************************)
EXTENDS Integers, SequencesExt, Subsequences

CONSTANTS
    Starts,         \* times of the first movement
    Gaps,           \* times from one movement to the next
    MaxMovements    \* bound: movements of the trail

VARIABLE trail      \* mouseTrail.movements: [at, dx, dy], the step from the one before

trailVars == <<trail>>

\* The length of a step, in pixels along an axis.
Step == 10
Steps == {-1, 0, 1}

Init == \E t \in Starts : trail = <<[at |-> t, dx |-> 0, dy |-> 0]>>

\* updateSession with one more movement.
Movement ==
    /\ Len(trail) < MaxMovements
    /\ \E gap \in Gaps, dx, dy \in Steps :
          trail' = Append(trail, [at |-> Last(trail).at + gap, dx |-> dx, dy |-> dy])

Next == Movement
Spec == Init /\ [][Next]_trailVars

-----------------------------------------------------------------------------
(* analyzeMouseMovements.                                                    *)

\* Movements without time in between are passed over: the rest, by their index.
Timed == {i \in 2..Len(trail) : trail[i].at # trail[i - 1].at}
InOrder == [n \in 1..Cardinality(Timed) |-> Nth(Timed, n)]

\* The velocity is below 0.01 pixels a millisecond.
Still(i) ==
    LET m == trail[i] IN
        10000 * Step * Step * (m.dx * m.dx + m.dy * m.dy)
            < (m.at - trail[i - 1].at) * (m.at - trail[i - 1].at)

\* One movement of the loop; lastPauseTime is 0 when no pause is open.
PauseStep(acc, i) ==
    IF Still(i) THEN [acc EXCEPT !.since = IF @ = 0 THEN trail[i - 1].at ELSE @]
    ELSE IF acc.since = 0 THEN acc
    ELSE [count |-> acc.count + 1, duration |-> acc.duration + trail[i - 1].at - acc.since, since |-> 0]

\* pauseCount and totalPauseDuration, with the pause still open at the end.
Pauses ==
    LET acc == FoldLeft(PauseStep, [count |-> 0, duration |-> 0, since |-> 0], InOrder)
    IN  IF acc.since = 0 \/ Len(trail) < 2 THEN [count |-> acc.count, duration |-> acc.duration]
        ELSE [count |-> acc.count + 1, duration |-> acc.duration + Last(trail).at - acc.since]

\* Math.atan2, in eighths of a turn: above -4 and up to 4.
Angle(m) ==
    CASE m.dx = 1 -> m.dy
      [] m.dx = 0 -> 2 * m.dy
      [] m.dx = -1 /\ m.dy # 0 -> 3 * m.dy
      [] OTHER -> 4
Angles == [n \in DOMAIN InOrder |-> Angle(trail[InOrder[n]])]

Away(a, b) == IF a < b THEN b - a ELSE a - b

\* The angles are compared from the third on, and as numbers: from 4 to -3 is a turn of seven.
DirectionChanges ==
    Cardinality({i \in 3..Len(Angles) : Away(Angles[i], Angles[i - 1]) > 1})

-----------------------------------------------------------------------------
(* Properties.                                                               *)

\* The timed movements that are still, by their place, and those of them that begin a pause.
Stills == {n \in DOMAIN InOrder : Still(InOrder[n])}
PauseStarts == {n \in Stills : n - 1 \notin Stills}

\* How long a timed movement took.
Times == [n \in DOMAIN InOrder |-> trail[InOrder[n]].at - trail[InOrder[n] - 1].at]

\* The pauses are the maximal runs of still movements, and together they last as long as
\* these movements, on every trail that does not start at time 0 (which stands for no
\* pause).
PausesRight ==
    trail[1].at > 0 =>
        /\ Pauses.count = Cardinality(PauseStarts)
        /\ Pauses.duration = SumFunctionOnSet(Times, Stills)

\* No turn by more than an eighth is missed after the second timed movement, the smaller of
\* the two angles between directions counted; turns over the back may be counted too many.
TurnsNotMissed ==
    LET turn(i) == IF Away(Angles[i], Angles[i - 1]) > 4 THEN 8 - Away(Angles[i], Angles[i - 1])
                   ELSE Away(Angles[i], Angles[i - 1])
    IN  DirectionChanges >= Cardinality({i \in 3..Len(Angles) : turn(i) > 1})

=============================================================================
