----------------------------- MODULE AuditLogger -----------------------------
(***************************************************************************)
(* security/audit-logger.ts: events in a Map, each with the hash of the one   *)
(* before it, alerts over the last hour, retention, and verifyIntegrity.      *)
(* logEvent has no real await: an event is logged in one step.               *)
(***************************************************************************)
EXTENDS Naturals, Sequences, FiniteSets, SequencesExt, Subsequences

CONSTANTS
    Types,          \* event types with their outcome: "failed_authentication", ...
    AuditLevels,    \* severities of events: "critical", "warning", ...
    Limits,         \* alertThresholds: alert -> number of events per hour
    Details,        \* details of an event
    Hour,           \* one hour
    RetentionDays,  \* retentionPolicy.retentionDays, in the clock's units
    MaxEvents,      \* bound: events ever logged
    MaxAuditTime    \* bound: the clock stops there

VARIABLES
    encrypting,     \* enableEncryption with an encryptionKey
    auditEvents,    \* the Map, in insertion order
    lastHash,
    sequenceNumber,
    alerts,         \* the thresholds the last event found exceeded
    purged,         \* history: whether retention has deleted an event
    auditNow

auditVars == <<encrypting, auditEvents, lastHash, sequenceNumber, alerts, purged, auditNow>>

Undefined == <<>>

Init ==
    /\ encrypting \in BOOLEAN
    /\ auditEvents = <<>>
    /\ lastHash = Undefined /\ sequenceNumber = 0
    /\ alerts = {} /\ purged = FALSE
    /\ auditNow = 1

-----------------------------------------------------------------------------

\* calculateHash: a digest of what it covers, which is neither the severity nor the
\* metadata.  An ideal digest tells apart any two events that differ there.
CalculateHash(event) ==
    <<"sha256", event.number, event.details, event.type, event.at, event.previous>>

\* encryptDetails.
Encrypted(details) == <<"encrypted">> \o details

\* The events that checkAlertThresholds counts for an alert.
Counted(alert, event) ==
    \/ alert = "critical" /\ event.severity = "critical"
    \/ alert = "failed_auth" /\ event.type = "failed_authentication"
    \/ alert = "suspicious" /\ event.type = "security_event" /\ event.severity = "warning"

\* checkAlertThresholds: the alerts with too many events in the last hour.
Exceeded(events) ==
    {alert \in DOMAIN Limits :
        Cardinality({i \in DOMAIN events :
            Counted(alert, events[i]) /\ auditNow - events[i].at <= Hour}) >= Limits[alert]}

\* A mistake: the hash is taken before the link is set.
LogUnlinked(type, severity, details) ==
    LET draft == [number |-> sequenceNumber, at |-> auditNow, type |-> type,
                  severity |-> severity, details |-> <<details>>,
                  previous |-> Undefined, hash |-> Undefined]
        hash == CalculateHash(draft)
        event == [draft EXCEPT !.hash = hash, !.previous = lastHash,
                               !.details = IF encrypting THEN Encrypted(@) ELSE @]
    IN  /\ sequenceNumber < MaxEvents
        /\ auditEvents' = Append(auditEvents, event)
        /\ lastHash' = hash
        /\ sequenceNumber' = sequenceNumber + 1
        /\ alerts' = Exceeded(auditEvents')
        /\ UNCHANGED <<encrypting, purged, auditNow>>

\* logEvent: the hash is taken of the details in the clear, the encrypted ones are kept.
LogEvent(type, severity, details) ==
    LET draft == [number |-> sequenceNumber, at |-> auditNow, type |-> type,
                  severity |-> severity, details |-> <<details>>,
                  previous |-> lastHash, hash |-> Undefined]
        hash == CalculateHash(draft)
        event == [draft EXCEPT !.hash = hash,
                               !.details = IF encrypting THEN Encrypted(@) ELSE @]
    IN  /\ sequenceNumber < MaxEvents
        /\ auditEvents' = Append(auditEvents, event)
        /\ lastHash' = hash
        /\ sequenceNumber' = sequenceNumber + 1
        /\ alerts' = Exceeded(auditEvents')
        /\ UNCHANGED <<encrypting, purged, auditNow>>

\* applyRetentionPolicy.
ApplyRetentionPolicy ==
    LET kept == Picked(auditEvents,
                       {i \in DOMAIN auditEvents : auditNow - auditEvents[i].at <= RetentionDays})
    IN  /\ kept # auditEvents
        /\ auditEvents' = kept
        /\ purged' = TRUE
        /\ UNCHANGED <<encrypting, lastHash, sequenceNumber, alerts, auditNow>>

AuditTick ==
    /\ auditNow < MaxAuditTime
    /\ auditNow' = auditNow + 1
    /\ UNCHANGED <<encrypting, auditEvents, lastHash, sequenceNumber, alerts, purged>>

Next ==
    \/ \E type \in Types, severity \in AuditLevels, details \in Details :
          LogEvent(type, severity, details)
    \/ ApplyRetentionPolicy
    \/ AuditTick

Spec == Init /\ [][Next]_auditVars

-----------------------------------------------------------------------------
(* verifyIntegrity walks the events by number and compares links and hashes.  *)

\* The hash that the chain should carry into the i-th event of a sequence.
LinkBefore(events, i) == IF i = 1 THEN Undefined ELSE events[i - 1].hash

Verifies(events) ==
    \A i \in DOMAIN events :
        /\ events[i].previous = LinkBefore(events, i)
        /\ events[i].hash = CalculateHash(events[i])

-----------------------------------------------------------------------------
(* Properties.                                                               *)

\* Documented, and not kept (README, "What the code does not keep").
\* "Verify audit log integrity": events that nobody touches verify.  They do
\* not after retention has deleted the first of them, nor with encrypted details.
ChainVerifies == Verifies(auditEvents)

\* Retention and encryption are all that breaks the chain: without them it verifies, and
\* whatever retention leaves is linked from its second event on.
ChainBrokenOnlyByPurge ==
    /\ ~encrypting /\ ~purged => Verifies(auditEvents)
    /\ \A i \in 2..Len(auditEvents) : auditEvents[i].previous = auditEvents[i - 1].hash
    /\ auditEvents # <<>> => Last(auditEvents).hash = lastHash

\* An event with another type or other details, and one whose hash has been made to fit.
Forged(event, type, details) == [event EXCEPT !.type = type, !.details = <<details>>]
Rehashed(event) == [event EXCEPT !.hash = CalculateHash(event)]

\* Two events with their places, that is their numbers, exchanged.
Exchanged(events, i, j) ==
    [events EXCEPT ![i] = [events[j] EXCEPT !.number = events[i].number],
                   ![j] = [events[i] EXCEPT !.number = events[j].number]]

\* In a chain that verifies, exchanging two events is found out; and so is, of an event
\* before the newest, its removal and a change of its type or details, even if its hash
\* and the link to it are made to fit.  (The hash has no key: who rewrites every later
\* event as well is not found out.)
TamperingShows ==
    Verifies(auditEvents) =>
        /\ \A i, j \in DOMAIN auditEvents : i # j => ~Verifies(Exchanged(auditEvents, i, j))
        /\ \A i \in 1..Len(auditEvents) - 1 :
              /\ ~Verifies(RemoveAt(auditEvents, i))
              /\ \A type \in Types, details \in Details :
                    LET forged == Forged(auditEvents[i], type, details)
                        rehashed == Rehashed(forged)
                    IN  forged # auditEvents[i] =>
                            /\ ~Verifies([auditEvents EXCEPT ![i] = forged])
                            /\ ~Verifies([auditEvents EXCEPT ![i] = rehashed])
                            /\ ~Verifies([auditEvents EXCEPT ![i] = rehashed,
                                                             ![i + 1].previous = rehashed.hash])

\* Documented, and not kept (README, "What the code does not keep").
\* "hash for tamper-proof integrity" (:717): an event with another severity, by which
\* alerts and reports count it, is found out.
SeverityCovered ==
    \A i \in DOMAIN auditEvents, severity \in AuditLevels :
        severity # auditEvents[i].severity =>
            ~Verifies([auditEvents EXCEPT ![i].severity = severity])

\* An event that reaches a threshold raises the alert: the threshold is met within an
\* hour of the last event and no later.
AlertsTimely ==
    [][\A alert \in DOMAIN Limits :
          sequenceNumber' > sequenceNumber =>
              LET recent == {i \in DOMAIN auditEvents : /\ Counted(alert, auditEvents[i])
                                                        /\ auditNow - auditEvents[i].at <= Hour}
                  mine == IF Counted(alert, Last(auditEvents')) THEN 1 ELSE 0
              IN  alert \in alerts' <=> Cardinality(recent) + mine >= Limits[alert]]_auditVars

=============================================================================
