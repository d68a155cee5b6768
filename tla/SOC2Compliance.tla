---------------------------- MODULE SOC2Compliance ----------------------------
(***************************************************************************)
(* security/soc2-compliance.ts: controls, metrics, availability samples,      *)
(* incidents, and the reports computed from them.                            *)
(***************************************************************************)
EXTENDS Naturals, Sequences, FiniteSets, SequencesExt, Subsequences

CONSTANTS
    Controls,       \* the controls of the enabled criteria
    Severities,     \* severities of incidents
    Progress,       \* statuses an incident is set to: "investigating", "resolved", ...
    MetricNames, Values,
    SampleWindow,   \* thirty days
    MaxSamples,     \* bounds: samples, metrics and incidents ever recorded
    MaxMetrics,
    MaxIncidents,
    MaxSocTime      \* bound: the clock stops there

VARIABLES
    control,        \* status of each control
    metrics,        \* the Map, in insertion order
    samples,        \* availabilityData
    sampled,        \* history: all samples ever recorded
    incidents,
    socNow

socVars == <<control, metrics, samples, sampled, incidents, socNow>>

Statuses == {"implemented", "partial", "not_implemented", "not_applicable"}

\* initializeDefaultControls: the controls start out implemented.
Init ==
    /\ control = [c \in Controls |-> "implemented"]
    /\ metrics = <<>> /\ samples = <<>> /\ sampled = <<>> /\ incidents = <<>>
    /\ socNow = 1

-----------------------------------------------------------------------------

UpdateControlStatus(c, status) ==
    /\ control' = [control EXCEPT ![c] = status]
    /\ UNCHANGED <<metrics, samples, sampled, incidents, socNow>>

RecordMetric(name, value) ==
    /\ Len(metrics) < MaxMetrics
    /\ metrics' = Append(metrics, [name |-> name, value |-> value, at |-> socNow])
    /\ UNCHANGED <<control, samples, sampled, incidents, socNow>>

\* The samples from the first that is no older than the window.
Recent(all) ==
    LET first == Min({k \in DOMAIN all : socNow - all[k].at <= SampleWindow})
    IN  SubSeq(all, first, Len(all))

\* recordAvailability: old samples are shifted off the front.
RecordAvailability(up) ==
    LET sample == [at |-> socNow, up |-> up]
    IN
    /\ Len(sampled) < MaxSamples
    /\ samples' = Recent(Append(samples, sample))
    /\ sampled' = Append(sampled, sample)
    /\ UNCHANGED <<control, metrics, incidents, socNow>>

ReportIncident(severity) ==
    /\ Len(incidents) < MaxIncidents
    /\ incidents' = Append(incidents,
          [severity |-> severity, status |-> "detected"])
    /\ UNCHANGED <<control, metrics, samples, sampled, socNow>>

\* updateIncidentStatus: any status follows any other.
UpdateIncidentStatus(i, status) ==
    /\ incidents' = [incidents EXCEPT ![i].status = status]
    /\ UNCHANGED <<control, metrics, samples, sampled, socNow>>

SocTick ==
    /\ socNow < MaxSocTime
    /\ socNow' = socNow + 1
    /\ UNCHANGED <<control, metrics, samples, sampled, incidents>>

Next ==
    \/ \E c \in Controls, status \in Statuses : UpdateControlStatus(c, status)
    \/ \E name \in MetricNames, value \in Values : RecordMetric(name, value)
    \/ \E up \in BOOLEAN : RecordAvailability(up)
    \/ \E severity \in Severities : ReportIncident(severity)
    \/ \E i \in DOMAIN incidents, status \in Progress : UpdateIncidentStatus(i, status)
    \/ SocTick

Spec == Init /\ [][Next]_socVars

-----------------------------------------------------------------------------
(* Reports.                                                                  *)

\* getLatestMetrics: a later metric replaces an earlier one, one of the same instant
\* does not.
LatestMetric(name) ==
    LET ofName == Picked(metrics, {k \in DOMAIN metrics : metrics[k].name = name})
    IN  ofName[Min({n \in DOMAIN ofName : ofName[n].at = Last(ofName).at})]

\* getOpenIncidents.
OpenIncidents == {i \in DOMAIN incidents : incidents[i].status \notin {"resolved", "closed"}}

Count(status) == Cardinality({c \in Controls : control[c] = status})

\* complianceRate in percent: partial controls count half, the inapplicable not at all.
ComplianceRate ==
    LET applicable == Cardinality(Controls) - Count("not_applicable")
    IN  IF applicable = 0 THEN 100
        ELSE ((2 * Count("implemented") + Count("partial")) * 50) \div applicable

OverallStatus ==
    CASE ComplianceRate < 80 -> "non_compliant"
      [] ComplianceRate \in 80..94 -> "partially_compliant"
      [] OTHER -> "compliant"

\* The findings of generateComplianceReport.
Findings ==
    {[control |-> c, status |-> IF control[c] = "partial" THEN "in_progress" ELSE "open"] :
            c \in {d \in Controls : control[d] \in {"not_implemented", "partial"}}}
    \cup {[incident |-> i, status |-> IF i \in OpenIncidents THEN "open" ELSE "resolved"] :
            i \in {j \in DOMAIN incidents : incidents[j].severity \in {"high", "critical"}}}

\* uptimePercentage of a period: each available sample counts for a minute.
UptimePercentage(start, end) ==
    IF end = start THEN 100
    ELSE (Cardinality({k \in DOMAIN samples : samples[k].up /\ samples[k].at \in start..end}) * 100)
         \div (end - start)

-----------------------------------------------------------------------------
(* Properties.                                                               *)

\* A sample leaves only when it is older than the window: the samples kept are the last
\* ones recorded, those within the window of the last recording and no older ones, also
\* when several come at one instant.
SamplesComplete ==
    LET gone == Len(sampled) - Len(samples)
        InWindow(k) == Last(sampled).at - sampled[k].at <= SampleWindow
    IN  /\ gone >= 0 /\ samples = SubSeq(sampled, gone + 1, Len(sampled))
        /\ \A k \in DOMAIN sampled : InWindow(k) <=> k > gone

\* The metric reported as the latest of a name is no older than any of that name.
LatestNoOlder ==
    \A k \in DOMAIN metrics : LatestMetric(metrics[k].name).at >= metrics[k].at

\* The status of a report follows from its findings: without a control among them it is
\* compliant, and when no applicable control is implemented it is not.
StatusFollowsFindings ==
    LET controls == {c \in Controls : \E f \in Findings : "control" \in DOMAIN f /\ f.control = c}
    IN  /\ controls = {} => OverallStatus = "compliant"
        /\ controls # {} /\ Count("implemented") = 0 => OverallStatus = "non_compliant"

\* Documented, and not kept (README, "What the code does not keep").
\* "percentage": with at most one sample a minute the uptime of a period is at most 100.
UptimeIsPercentage ==
    (\A k \in 1..Len(samples) - 1 : samples[k].at < samples[k + 1].at) =>
        \A start, end \in 1..MaxSocTime : start < end => UptimePercentage(start, end) <= 100

=============================================================================
