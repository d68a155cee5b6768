------------------------- MODULE PerformanceProfiler -------------------------
(***************************************************************************)
(* services/performance-profiler.ts, PerformanceProfilerService: the samples  *)
(* it keeps, the percentiles and growth rates computed from them, and the    *)
(* timers that updateConfig restarts.  Object pools are in ObjectPool.        *)
(***************************************************************************)
EXTENDS Integers, FiniteSets, Sequences, SequencesExt, FiniteSetsExt, Functions

CONSTANTS
    Durations,      \* durations of a profiled operation
    Heaps,          \* values of heapUsed
    Percents,       \* the percentiles computed
    Retention,      \* memorySnapshotRetention
    MinSnapshots,   \* snapshots needed to look for a leak (10)
    LeakWindow,     \* the snapshots looked at are the last of that number (100)
    LeakThreshold,  \* memoryLeakThreshold, in bytes for a thousand snapshots
    MaxSamples      \* samples of an operation (bound)

VARIABLES
    durations,      \* cpuProfiles of one operation; never trimmed
    percentiles,    \* cpuProfileResults of it: percent -> duration
    snapshots,      \* memorySnapshots, by heapUsed
    reporting,      \* reportInterval is positive
    reportTimer,    \* reportIntervalTimer is set
    snapshotTimer,  \* memorySnapshotTimer is set
    destroyed       \* history: destroy has been called

profilerVars ==
    <<durations, percentiles, snapshots, reporting, reportTimer, snapshotTimer, destroyed>>

Init ==
    /\ durations = <<>> /\ snapshots = <<>>
    /\ percentiles = [p \in Percents |-> 0]
    /\ reporting \in BOOLEAN
    /\ reportTimer = reporting
    /\ snapshotTimer = TRUE
    /\ destroyed = FALSE

-----------------------------------------------------------------------------
(* Percentiles.                                                              *)

\* percentile: the element at index ceil(p / 100 * n) - 1, from 0.
Percentile(sorted, p) ==
    LET index == (p * Len(sorted) + 99) \div 100
    IN  sorted[IF index < 1 THEN 1 ELSE index]

\* What sort makes of an array: the same elements, each in its place.
Reorderings(s) ==
    {[i \in DOMAIN s |-> s[place[i]]] :
        place \in {f \in [DOMAIN s -> DOMAIN s] : IsInjective(f)}}

\* profileSync and profileAsync end with recordCpuProfile.
RecordCpuProfile(d) ==
    /\ Len(durations) < MaxSamples
    /\ durations' = Append(durations, d)
    /\ \E sorted \in Reorderings(durations') :
          /\ \A i, j \in DOMAIN sorted : i < j => sorted[i] <= sorted[j]
          /\ percentiles' = [p \in Percents |-> Percentile(sorted, p)]
    /\ UNCHANGED <<snapshots, reporting, reportTimer, snapshotTimer, destroyed>>

-----------------------------------------------------------------------------
(* Memory.                                                                   *)

\* takeMemorySnapshot, called by the timer and by callers.
TakeMemorySnapshot(heap) ==
    LET grown == Append(snapshots, heap)
    IN  /\ snapshots' = IF Len(grown) > Retention THEN Tail(grown) ELSE grown
        /\ UNCHANGED <<durations, percentiles, reporting, reportTimer, snapshotTimer, destroyed>>

Total(f) == SumFunction(f)

\* A mistake: the snapshots are numbered from one in one of the sums.
SlopeShifted(values) ==
    LET n == Len(values)
        xs == [i \in 1 .. n |-> i - 1]
        xy == [i \in 1 .. n |-> i * values[i]]
        xx == [i \in 1 .. n |-> xs[i] * xs[i]]
    IN  <<n * Total(xy) - Total(xs) * Total(values), n * Total(xx) - Total(xs) * Total(xs)>>

\* calculateGrowthRate: the slope of the least squares line, as a fraction.
Slope(values) ==
    LET n == Len(values)
        xs == [i \in 1 .. n |-> i - 1]
        xy == [i \in 1 .. n |-> xs[i] * values[i]]
        xx == [i \in 1 .. n |-> xs[i] * xs[i]]
    IN  <<n * Total(xy) - Total(xs) * Total(values), n * Total(xx) - Total(xs) * Total(xs)>>

Recent ==
    IF Len(snapshots) <= LeakWindow THEN snapshots
    ELSE SubSeq(snapshots, Len(snapshots) - LeakWindow + 1, Len(snapshots))

\* detectMemoryLeaks, for heapUsed.
LeakSuspected ==
    /\ Len(snapshots) >= MinSnapshots
    /\ LET slope == Slope(Recent) IN 1000 * slope[1] > LeakThreshold * slope[2]

-----------------------------------------------------------------------------
(* Timers.                                                                   *)

\* A mistake: the timer is started whether it ran before or not.
UpdateConfigStarts(on) ==
    /\ reporting' = on
    /\ reportTimer' = on
    /\ UNCHANGED <<durations, percentiles, snapshots, snapshotTimer, destroyed>>

\* updateConfig with a reportInterval, positive or not, restarts a timer that runs.
UpdateConfig(on) ==
    /\ reporting' = on
    /\ reportTimer' = (reportTimer /\ on)
    /\ UNCHANGED <<durations, percentiles, snapshots, snapshotTimer, destroyed>>

\* reset.
Cleared ==
    /\ durations' = <<>> /\ snapshots' = <<>>
    /\ percentiles' = [p \in Percents |-> 0]

Reset == Cleared /\ UNCHANGED <<reporting, reportTimer, snapshotTimer, destroyed>>

DestroyProfiler ==
    /\ Cleared
    /\ reportTimer' = FALSE /\ snapshotTimer' = FALSE
    /\ destroyed' = TRUE
    /\ UNCHANGED reporting

Next ==
    \/ \E d \in Durations : RecordCpuProfile(d)
    \/ \E heap \in Heaps : TakeMemorySnapshot(heap)
    \/ \E on \in BOOLEAN : UpdateConfig(on)
    \/ Reset
    \/ DestroyProfiler

Spec == Init /\ [][Next]_profilerVars

-----------------------------------------------------------------------------
(* Properties.                                                               *)

Within(v) == Cardinality({i \in DOMAIN durations : durations[i] <= v})

\* The p-th percentile is the least sample that p percent of the samples do not exceed.
PercentilesRight ==
    durations # <<>> => \A p \in Percents :
        percentiles[p] = Min({v \in ToSet(durations) : 100 * Within(v) >= p * Len(durations)})

Steps == {Recent[i + 1] - Recent[i] : i \in 1 .. Len(Recent) - 1}

\* A heap that grows at no recent snapshot by more than the threshold is not a leak, and
\* one that grows by more at each of them is.
LeaksRight ==
    Len(snapshots) >= MinSnapshots =>
        /\ (\A step \in Steps : 1000 * step <= LeakThreshold) => ~LeakSuspected
        /\ (\A step \in Steps : 1000 * step > LeakThreshold) => LeakSuspected

\* No timer runs after destroy, whatever updateConfig asks for: a profiler that was
\* thrown away does not keep the process alive.
DestroyedIsQuiet == destroyed => ~reportTimer /\ ~snapshotTimer

\* Documented, and not kept (README, "What the code does not keep").
\* Reports are made while reportInterval is positive.
ReportsWhenAsked == reporting /\ ~destroyed => reportTimer

=============================================================================
