------------------------------ MODULE MCRecords ------------------------------
(***************************************************************************)
(* The services that keep a record of what goes on, AuditLogger, SOC2Compliance *)
(* and ThreatIntelligence, and of whom it concerns, GDPRCompliance.  They share  *)
(* no state, so a behaviour exercises one of them (keeper) while the others rest.  *)
(***************************************************************************)
EXTENDS Naturals, FiniteSets, Sequences

CONSTANTS
    Types, AuditLevels, Details, Hour, RetentionDays, MaxEvents, MaxAuditTime,
    Controls, Severities, Progress, MetricNames, Values,
    SampleWindow, MaxUptimes, MaxMetrics, MaxIncidents, MaxSocTime,
    Ips, Signatures, Patterns, MaxIndicators,
    Subjects, Purposes, DataTypes, Rights, ConsentStatuses, Verifying, Anonymizing,
    ConsentLife, RetentionLife, MaxConsents, MaxRecords, MaxRequests, MaxGdprTime

\* The times and limits of the configurations.
ASSUME RecordsAssumption ==
    /\ Hour \in Nat /\ RetentionDays \in Nat /\ SampleWindow \in Nat
    /\ ConsentLife \in Nat /\ RetentionLife \in Nat
    /\ IsFiniteSet(Controls) /\ Verifying \in BOOLEAN

VARIABLES
    keeper,
    encrypting, auditEvents, lastHash, sequenceNumber, alerts, purged, auditNow,
    control, metrics, samples, sampled, incidents, socNow,
    indicators, reputation, level, stale,
    consents, records, subjectRequests, erasing, gdprNow

auditVars == <<encrypting, auditEvents, lastHash, sequenceNumber, alerts, purged, auditNow>>
socVars == <<control, metrics, samples, sampled, incidents, socNow>>
threatVars == <<indicators, reputation, level, stale>>
gdprVars == <<consents, records, subjectRequests, erasing, gdprNow>>
recordVars == <<keeper, auditVars, socVars, threatVars, gdprVars>>

\* Two events of a kind in an hour raise its alert.
AlertLimits == [alert \in {"critical", "failed_auth", "suspicious"} |-> 2]

Audit == INSTANCE AuditLogger WITH Limits <- AlertLimits
Soc == INSTANCE SOC2Compliance WITH MaxSamples <- MaxUptimes
Threat == INSTANCE ThreatIntelligence
Gdpr == INSTANCE GDPRCompliance

\* The parts that do not run in a behaviour keep one initial state.
RecordsInit ==
    /\ keeper \in {"audit", "soc", "threat", "gdpr"}
    /\ Audit!Init /\ Soc!Init /\ Threat!Init /\ Gdpr!Init
    /\ keeper # "audit" => ~encrypting
    /\ keeper # "threat" => \A i \in DOMAIN level : level[i] = 0

RecordsNext ==
    /\ UNCHANGED keeper
    /\ \/ keeper = "audit" /\ Audit!Next /\ UNCHANGED <<socVars, threatVars, gdprVars>>
       \/ keeper = "soc" /\ Soc!Next /\ UNCHANGED <<auditVars, threatVars, gdprVars>>
       \/ keeper = "threat" /\ Threat!Next /\ UNCHANGED <<auditVars, socVars, gdprVars>>
       \/ keeper = "gdpr" /\ Gdpr!Next /\ UNCHANGED <<auditVars, socVars, threatVars>>

\* The event loop resumes an erasure that awaits the audit log.
RecordsSpec ==
    /\ RecordsInit /\ [][RecordsNext]_recordVars
    /\ \A r \in 1..MaxRequests :
          WF_recordVars(/\ keeper = "gdpr" /\ Gdpr!Continue(r)
                        /\ UNCHANGED <<keeper, auditVars, socVars, threatVars>>)

-----------------------------------------------------------------------------
(* The properties, as in MCTokens.                                          *)

\* The records say what happened: only retention and encryption break the hash chain, in
\* which events can neither be exchanged nor, but for the newest, removed or given another
\* type or other details unnoticed; the event that reaches a threshold raises the alert;
\* no sample within the window is lost, the latest metric is no older than the others and
\* the status of a report follows from its findings; a cached reputation is explained by
\* the indicators, and more evidence never lowers a verdict.
RecordsSound ==
    /\ [](keeper = "audit" => Audit!ChainBrokenOnlyByPurge /\ Audit!TamperingShows)
    /\ Audit!AlertsTimely
    /\ [](keeper = "soc" => Soc!SamplesComplete /\ Soc!LatestNoOlder /\ Soc!StatusFollowsFindings)
    /\ [](keeper = "threat" => Threat!ReputationExplained /\ Threat!VerdictMonotone)

\* What an erasure found is never raw again, except in the first record of its type of a
\* subject whose rectification was granted, and what it deleted stays deleted; a completed
\* one leaves no earlier consent in force; and a consent that ended never returns.
ErasureSound ==
    /\ [](keeper = "gdpr" => Gdpr!ErasedIsGone /\ Gdpr!ErasureEndsConsent)
    /\ Gdpr!ConsentNeverReturns

\* An erasure that has begun completes.
ErasureCompletes == Gdpr!ErasureCompletes

=============================================================================
