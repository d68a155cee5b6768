---------------------------- MODULE GDPRCompliance ----------------------------
(***************************************************************************)
(* security/gdpr-compliance.ts: consents, personal data and the requests of   *)
(* data subjects.  Every operation changes the Maps and then awaits the audit *)
(* log; an erasure awaits once per consent it withdraws, and other operations *)
(* run in between.                                                           *)
(***************************************************************************)
EXTENDS Naturals, Sequences, FiniteSetsExt

CONSTANTS
    Subjects,       \* data subjects
    Purposes,       \* purposes of processing
    DataTypes,      \* types of personal data
    Rights,         \* rights that are invoked
    ConsentStatuses, \* statuses that are recorded
    Verifying,      \* dataSubjectVerificationRequired
    Anonymizing,    \* enableAnonymization
    ConsentLife,    \* consentExpirationDays
    RetentionLife,  \* dataRetentionDays
    MaxConsents,    \* bounds: consents, records and requests ever made
    MaxRecords,
    MaxRequests,
    MaxGdprTime     \* bound: the clock stops there

VARIABLES
    consents,       \* consentRecords, in insertion order
    records,        \* personalDataRecords by number: "raw", "anonymized", "corrected", which
                    \* is anonymized with raw data merged in, or "deleted"
    subjectRequests,\* dataSubjectRequests
    erasing,        \* request -> whether its erasure awaits the audit log, and the consents
                    \* it has still to look at
    gdprNow

gdprVars == <<consents, records, subjectRequests, erasing, gdprNow>>

NotErasing == [awaits |-> FALSE, left |-> {}]

Init ==
    /\ consents = <<>> /\ records = <<>> /\ subjectRequests = <<>> /\ erasing = <<>>
    /\ gdprNow = 1

-----------------------------------------------------------------------------
(* Consents.                                                                 *)

RecordConsent(s, p, status) ==
    /\ Len(consents) < MaxConsents
    /\ consents' = Append(consents, [subject |-> s, purpose |-> p, status |-> status,
                                     expires |-> gdprNow + ConsentLife])
    /\ UNCHANGED <<records, subjectRequests, erasing, gdprNow>>

Withdrawn(i) == [consents EXCEPT ![i].status = "withdrawn"]

WithdrawConsent(i) ==
    /\ consents' = Withdrawn(i)
    /\ UNCHANGED <<records, subjectRequests, erasing, gdprNow>>

HasValidConsent(s, p) ==
    \E i \in DOMAIN consents :
        /\ consents[i].subject = s /\ consents[i].purpose = p
        /\ consents[i].status = "granted" /\ consents[i].expires > gdprNow

-----------------------------------------------------------------------------
(* Personal data.                                                            *)

\* storePersonalData, on consent or on another legal basis.
StorePersonalData(s, type, p, basis) ==
    /\ Len(records) < MaxRecords
    /\ basis = "consent" => HasValidConsent(s, p)
    /\ records' = Append(records, [subject |-> s, type |-> type, kept |-> "raw",
                                   expires |-> gdprNow + RetentionLife])
    /\ UNCHANGED <<consents, subjectRequests, erasing, gdprNow>>

\* applyRetentionPolicy.
ApplyRetentionPolicy ==
    /\ records' = [i \in DOMAIN records |->
          IF records[i].expires < gdprNow THEN [records[i] EXCEPT !.kept = "deleted"]
          ELSE records[i]]
    /\ consents' = [i \in DOMAIN consents |->
          IF consents[i].status = "granted" /\ consents[i].expires < gdprNow
          THEN [consents[i] EXCEPT !.status = "denied"] ELSE consents[i]]
    /\ UNCHANGED <<subjectRequests, erasing, gdprNow>>

-----------------------------------------------------------------------------
(* Requests of data subjects.                                                *)

SubmitDataSubjectRequest(s, right) ==
    /\ Len(subjectRequests) < MaxRequests
    /\ subjectRequests' = Append(subjectRequests,
          [subject |-> s, right |-> right, status |-> "pending", verified |-> ~Verifying,
           began |-> [records |-> 0, consents |-> 0], all |-> FALSE])
    /\ erasing' = Append(erasing, NotErasing)
    /\ UNCHANGED <<consents, records, gdprNow>>

\* verifyDataSubject, of a completed request too: it is "processing" again.
VerifyDataSubject(r) ==
    /\ subjectRequests' = [subjectRequests EXCEPT ![r].verified = TRUE, ![r].status = "processing"]
    /\ UNCHANGED <<consents, records, erasing, gdprNow>>

\* processDataAccessRequest and processDataPortabilityRequest.
ProcessWithoutErasing(r) ==
    /\ subjectRequests[r].right \notin {"erasure", "rectification"} /\ subjectRequests[r].verified
    /\ subjectRequests' = [subjectRequests EXCEPT ![r].status = "completed"]
    /\ UNCHANGED <<consents, records, erasing, gdprNow>>

\* The records of a subject that have a type.
RecordsOf(s, type) ==
    {i \in DOMAIN records :
        records[i].subject = s /\ records[i].type = type /\ records[i].kept # "deleted"}

\* processDataRectificationRequest: the corrected data is merged into the first record of
\* the type, an anonymized one too, which goes on being marked as anonymized.
ProcessDataRectificationRequest(r, type) ==
    LET found == RecordsOf(subjectRequests[r].subject, type)
    IN  /\ subjectRequests[r].right = "rectification" /\ subjectRequests[r].verified
        /\ found # {}
        /\ records' = [records EXCEPT ![Min(found)].kept =
                          IF @ = "anonymized" THEN "corrected" ELSE @]
        /\ subjectRequests' = [subjectRequests EXCEPT ![r].status = "completed"]
        /\ UNCHANGED <<consents, erasing, gdprNow>>

\* The request is completed, or its next consent is withdrawn and the audit log awaited.
Complete(r, requests) ==
    /\ subjectRequests' = [requests EXCEPT ![r].status = "completed"]
    /\ erasing' = [erasing EXCEPT ![r] = NotErasing]
    /\ UNCHANGED consents

WithdrawAndAwait(r, next, left, requests) ==
    /\ consents' = Withdrawn(next)
    /\ erasing' = [erasing EXCEPT ![r] = [awaits |-> TRUE, left |-> left]]
    /\ subjectRequests' = requests

\* A mistake: the loop ends at the first consent that is not granted.
WithdrawWhileGranted(r, left, requests) ==
    IF left = {} \/ consents[Min(left)].status # "granted" THEN Complete(r, requests)
    ELSE WithdrawAndAwait(r, Min(left), left \ {Min(left)}, requests)

\* A mistake: every turn withdraws what it meets and starts over.
WithdrawForEver(r, left, requests) ==
    IF left # {} THEN WithdrawAndAwait(r, Min(left), left, requests)
    ELSE /\ subjectRequests' = requests
         /\ erasing' = [erasing EXCEPT ![r] = [awaits |-> TRUE, left |-> left]]
         /\ UNCHANGED consents

\* The loop of an erasure, in the order of the Map: it withdraws the next consent that is
\* granted and awaits the audit log, or it completes the request.
WithdrawNext(r, left, requests) ==
    LET granted == {i \in left : consents[i].status = "granted"}
    IN  IF granted = {} THEN Complete(r, requests)
        ELSE WithdrawAndAwait(r, Min(granted), {i \in left : i > Min(granted)}, requests)

\* The records after those of a subject, of some types or of all, have been anonymized
\* or deleted.
Erased(s, types) ==
    [i \in DOMAIN records |->
        IF /\ records[i].subject = s /\ records[i].kept # "deleted"
           /\ types = {} \/ records[i].type \in types
        THEN [records[i] EXCEPT !.kept = IF Anonymizing THEN "anonymized" ELSE "deleted"]
        ELSE records[i]]

\* The consents of a subject.
ConsentsOf(s) == {i \in DOMAIN consents : consents[i].subject = s}

\* processDataErasureRequest up to its first await; a completed request may be processed
\* again (bound: not while it is).  began and all are history: how many consents and
\* records there were, and that all types were meant.
ProcessDataErasureRequest(r, types) ==
    LET s == subjectRequests[r].subject
    IN  /\ subjectRequests[r].right = "erasure" /\ subjectRequests[r].verified
        /\ ~erasing[r].awaits
        /\ records' = Erased(s, types)
        /\ WithdrawNext(r, ConsentsOf(s), [subjectRequests EXCEPT
              ![r].all = (types = {}),
              ![r].began = [records |-> Len(records), consents |-> Len(consents)]])
        /\ UNCHANGED gdprNow

\* The audit log has answered: the loop goes on.
ContinueErasure(r) ==
    /\ erasing[r].awaits
    /\ WithdrawNext(r, erasing[r].left, subjectRequests)
    /\ UNCHANGED <<records, gdprNow>>

GdprTick ==
    /\ gdprNow < MaxGdprTime
    /\ gdprNow' = gdprNow + 1
    /\ UNCHANGED <<consents, records, subjectRequests, erasing>>

Next ==
    \/ \E s \in Subjects :
          \/ \E p \in Purposes, status \in ConsentStatuses : RecordConsent(s, p, status)
          \/ \E type \in DataTypes, p \in Purposes, basis \in {"consent", "contract"} :
                StorePersonalData(s, type, p, basis)
          \/ \E right \in Rights : SubmitDataSubjectRequest(s, right)
    \/ \E i \in DOMAIN consents : WithdrawConsent(i)
    \/ \E r \in DOMAIN subjectRequests :
          \/ VerifyDataSubject(r)
          \/ ProcessWithoutErasing(r)
          \/ \E type \in DataTypes : ProcessDataRectificationRequest(r, type)
          \/ \E types \in SUBSET DataTypes : ProcessDataErasureRequest(r, types)
          \/ ContinueErasure(r)
    \/ ApplyRetentionPolicy
    \/ GdprTick

Continue(r) == r \in DOMAIN subjectRequests /\ ContinueErasure(r)

\* The audit log is in memory: what awaits it is resumed.
Spec ==
    /\ Init /\ [][Next]_gdprVars
    /\ \A r \in 1..MaxRequests : WF_gdprVars(Continue(r))

-----------------------------------------------------------------------------
(* Properties.                                                               *)

\* An erasure that has begun.
Begun(r) == subjectRequests[r].right = "erasure" /\ subjectRequests[r].began.consents > 0

\* A rectification was granted to the subject of a record, of which it is the first of
\* its type.
Rectifiable(i) ==
    /\ \E r \in DOMAIN subjectRequests :
          /\ subjectRequests[r].right = "rectification" /\ subjectRequests[r].verified
          /\ subjectRequests[r].subject = records[i].subject
    /\ \A j \in 1..i - 1 :
          records[j].subject = records[i].subject /\ records[j].type = records[i].type =>
              records[j].kept = "deleted"

\* What was there when an erasure of all data began is never raw again, and what it
\* deleted never returns.  Only a rectification puts raw data back, and into no record
\* but the first of its type; what is stored while the erasure awaits the audit log, even
\* on a consent that it withdraws next, is not erased.
ErasedIsGone ==
    \A r \in DOMAIN subjectRequests : subjectRequests[r].all =>
        \A i \in 1..subjectRequests[r].began.records :
            records[i].subject = subjectRequests[r].subject =>
                /\ records[i].kept \in IF Anonymizing
                                       THEN {"anonymized", "corrected", "deleted"}
                                       ELSE {"deleted"}
                /\ records[i].kept = "corrected" => Rectifiable(i)

\* Documented, and not kept (README, "What the code does not keep").
\* "Anonymize the data instead of deletion" (:494): what an erasure of all data found has
\* no raw data in it afterwards.
ErasureLasts ==
    \A r \in DOMAIN subjectRequests : subjectRequests[r].all =>
        \A i \in 1..subjectRequests[r].began.records :
            records[i].subject = subjectRequests[r].subject =>
                records[i].kept \in {"anonymized", "deleted"}

\* When an erasure has completed no consent that was recorded before it began is in
\* force, whatever was recorded, withdrawn or expired between its awaits, and another
\* erasure of the same subject included.
ErasureEndsConsent ==
    \A r \in DOMAIN subjectRequests :
        Begun(r) /\ subjectRequests[r].status = "completed" /\ ~erasing[r].awaits =>
            \A i \in 1..subjectRequests[r].began.consents :
                consents[i].subject = subjectRequests[r].subject => consents[i].status # "granted"

\* A consent that is no longer in force never comes back: neither retention nor a
\* withdrawal grants it, and one that was withdrawn stays withdrawn.
ConsentNeverReturns ==
    [][\A i \in DOMAIN consents :
          /\ consents[i].status # "granted" => consents'[i].status # "granted"
          /\ consents[i].status = "withdrawn" => consents'[i].status = "withdrawn"]_gdprVars

\* Every erasure that has begun completes.
ErasureCompletes ==
    \A r \in 1..MaxRequests :
        (r \in DOMAIN erasing /\ erasing[r].awaits) ~> (r \in DOMAIN erasing /\ ~erasing[r].awaits)

=============================================================================
