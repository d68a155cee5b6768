------------------------ MODULE CaptchaServiceProofs ------------------------
(***************************************************************************)
(* Proofs about CaptchaService for every set of calls and sessions and every *)
(* bound.  The invariant is TypeOK with four parts: Shape ties a call's      *)
(* control point to its result, AttemptsAccounted and ValidatedByRightAnswer *)
(* are the checked properties (inductive next to Shape), and OverlapInv      *)
(* strengthens SuccessesOverlap from finished calls to admitted ones.        *)
(***************************************************************************)
EXTENDS CaptchaService, FiniteSetTheorems, SequenceTheorems, TLAPS

Shape ==
    \A c \in Calls :
        /\ result[c] = "none" <=> pc[c] \in {"idle", "generating", "announcing"}
        /\ result[c] = "pending" <=> pc[c] = "deciding"
        /\ Admitted(c) => /\ target[c] \in SessionIds
                          /\ sessions[target[c]].status # "none"
        /\ result[c] = "valid" => answer[c] = "right"

OverlapInv ==
    \A c, d \in Calls :
        (c # d /\ Admitted(c) /\ Admitted(d) /\ target[c] = target[d])
            => \/ Overlapped(c, d)
               \/ result[c] \in {"incorrect", "error"}
               \/ result[d] \in {"incorrect", "error"}

IndInv ==
    /\ TypeOK
    /\ Shape
    /\ AttemptsAccounted
    /\ ValidatedByRightAnswer
    /\ OverlapInv

-----------------------------------------------------------------------------
\* The capped array stays a sequence of events.
LEMMA CappedType ==
    ASSUME NEW log \in Seq(Event), NEW e \in Event
    PROVE  Capped(Append(log, e)) \in Seq(Event)
<1>1. Append(log, e) \in Seq(Event) /\ Append(log, e) # <<>>
  BY AppendProperties
<1>2. Tail(Append(log, e)) \in Seq(Event)
  BY <1>1, HeadTailProperties
<1>3. QED
  BY <1>1, <1>2 DEF Capped

\* The call sets of a session are finite, so their cardinalities are numbers.
LEMMA AdmittedFinite ==
    \A s \in SessionIds : /\ IsFiniteSet(AdmittedOn(s))
                          /\ Cardinality(AdmittedOn(s)) \in Nat
BY FS_Subset, FS_CardinalityType, ServiceAssumption DEF AdmittedOn

\* TypeOK holds initially.
LEMMA InitType == Init => TypeOK
BY ServiceAssumption DEF Init, TypeOK, Session, Status, NoSession, Answers

\* The invariant holds initially.
LEMMA InitInv == Init => IndInv
<1> SUFFICES ASSUME Init PROVE IndInv
  OBVIOUS
<1>1. TypeOK
  BY InitType
<1>2. \A c \in Calls : ~Admitted(c)
  BY DEF Init, Admitted, Verdicts
<1>3. Shape
  BY <1>2 DEF Init, Shape
<1>4. \A s \in SessionIds : AdmittedOn(s) = {}
  BY <1>2 DEF AdmittedOn
<1>5. AttemptsAccounted
  <2>1. \A s \in SessionIds : Cardinality(AdmittedOn(s)) = 0
    BY <1>4, FS_EmptySet
  <2> QED
    BY <2>1, ServiceAssumption DEF AttemptsAccounted, Init, NoSession
<1>6. ValidatedByRightAnswer
  BY <1>4 DEF ValidatedByRightAnswer, Init, NoSession
<1>7. OverlapInv
  BY <1>2 DEF OverlapInv
<1> QED
  BY <1>1, <1>3, <1>5, <1>6, <1>7 DEF IndInv

-----------------------------------------------------------------------------
\* Every step of the service keeps the types; the deciding steps need Shape to
\* know that their target is a session.
LEMMA TypeStep == IndInv /\ [Next]_vars => TypeOK'
<1> SUFFICES ASSUME IndInv, [Next]_vars PROVE TypeOK'
  OBVIOUS
<1> USE ServiceAssumption DEF IndInv, TypeOK
<1>1. ASSUME NEW c \in Calls, NEW n \in 1 .. MaxLayers, GenerateStart(c, n)
      PROVE TypeOK'
  BY <1>1 DEF GenerateStart
<1>2. ASSUME NEW c \in Calls, GenerateFail(c) PROVE TypeOK'
  BY <1>2 DEF GenerateFail, GenerateResults
<1>3. ASSUME NEW c \in Calls, NEW s \in SessionIds, CreateSession(c, s)
      PROVE TypeOK'
  <2>1. [type |-> "captcha_generated", sid |-> s] \in Event
    BY DEF Event
  <2>2. securityEvents' \in Seq(Event) /\ statsEvents' \in Seq(Event)
    BY <1>3, <2>1, CappedType DEF CreateSession, LogSecurityEvent
  <2>3. sessions' \in [SessionIds -> Session]
    BY <1>3 DEF CreateSession, Session, Status
  <2> QED
    BY <1>3, <2>2, <2>3 DEF CreateSession
<1>4. ASSUME NEW c \in Calls, LayerDone(c) PROVE TypeOK'
  BY <1>4 DEF LayerDone, GenerateResults
<1>5. ASSUME NEW c \in Calls, NEW s \in SessionIds, NEW a \in Answers,
             ValidateStart(c, s, a)
      PROVE TypeOK'
  <2>1. CASE RejectNotFound(c, s, a)
    BY <2>1 DEF RejectNotFound, Ask, Reject, Rejections
  <2>2. CASE RejectInactive(c, s, a)
    BY <2>2 DEF RejectInactive, Ask, Reject, Rejections
  <2>3. CASE RejectExpired(c, s, a)
    BY <2>3 DEF RejectExpired, Ask, Reject, Rejections, Session, Status
  <2>4. CASE RejectExhausted(c, s, a)
    BY <2>4 DEF RejectExhausted, Ask, Reject, Rejections, Session, Status
  <2>5. CASE Admit(c, s, a)
    <3>1. sessions[s].attempts + 1 \in 0 .. MaxAttempts
      BY <2>5 DEF Admit, Session
    <3>2. [sessions[s] EXCEPT !.attempts = sessions[s].attempts + 1] \in Session
      BY <3>1 DEF Session
    <3>3. sessions' \in [SessionIds -> Session]
      BY <2>5, <3>2 DEF Admit
    <3>4. DecidingOn(s) \in SUBSET Calls
      BY DEF DecidingOn
    <3> QED
      BY <2>5, <3>3, <3>4 DEF Admit, Ask
  <2> QED
    BY <1>5, <2>1, <2>2, <2>3, <2>4, <2>5 DEF ValidateStart
<1>6. ASSUME NEW c \in Calls, DecideRight(c) PROVE TypeOK'
  <2>1. target[c] \in SessionIds
    BY <1>6 DEF DecideRight, Shape, Admitted
  <2>2. [type |-> "captcha_validated", sid |-> target[c]] \in Event
    BY <2>1 DEF Event
  <2>3. securityEvents' \in Seq(Event) /\ statsEvents' \in Seq(Event)
    BY <1>6, <2>2, CappedType DEF DecideRight, LogSecurityEvent
  <2>4. sessions' \in [SessionIds -> Session]
    BY <1>6, <2>1 DEF DecideRight, Session, Status
  <2> QED
    BY <1>6, <2>3, <2>4 DEF DecideRight, Verdicts
<1>7. ASSUME NEW c \in Calls, DecideWrong(c) PROVE TypeOK'
  <2>1. target[c] \in SessionIds
    BY <1>7 DEF DecideWrong, Shape, Admitted
  <2>2. [type |-> "validation_failed", sid |-> target[c]] \in Event
    BY <2>1 DEF Event
  <2>3. securityEvents' \in Seq(Event) /\ statsEvents' \in Seq(Event)
    BY <1>7, <2>2, CappedType DEF DecideWrong, LogSecurityEvent
  <2> QED
    BY <1>7, <2>3 DEF DecideWrong, Verdicts
<1>8. ASSUME NEW c \in Calls, DecideMalformed(c) PROVE TypeOK'
  BY <1>8 DEF DecideMalformed, Verdicts
<1>9. ASSUME NEW c \in Calls, Answer(c) PROVE TypeOK'
  BY <1>9 DEF Answer
<1>10. CASE ClearSessions
  BY <1>10 DEF ClearSessions, callVars
<1>11. CASE Tick
  BY <1>11 DEF Tick, callVars
<1>12. CASE UNCHANGED vars
  BY <1>12 DEF vars, callVars
<1> QED
  BY <1>1, <1>2, <1>3, <1>4, <1>5, <1>6, <1>7, <1>8, <1>9, <1>10, <1>11, <1>12
  DEF Next, Continue

-----------------------------------------------------------------------------
\* A step that changes no call's target, result or answer and no session's
\* attempts, status apart, keeps the call sets of every session.
LEMMA SameAdmitted ==
    ASSUME UNCHANGED <<target, result>>
    PROVE  \A s \in SessionIds : AdmittedOn(s)' = AdmittedOn(s)
BY DEF AdmittedOn, Admitted

\* A finished or suspended call that decides stays in its session's call set.
LEMMA DecideAdmitted ==
    ASSUME IndInv, NEW c \in Calls, NEW r \in Verdicts,
           pc[c] = "deciding", UNCHANGED target,
           result' = [result EXCEPT ![c] = r]
    PROVE  \A s \in SessionIds : AdmittedOn(s)' = AdmittedOn(s)
<1>1. result[c] = "pending"
  BY DEF IndInv, Shape
<1>2. \A d \in Calls : Admitted(d)' <=> Admitted(d)
  BY <1>1 DEF Admitted, IndInv, TypeOK
<1> QED
  BY <1>2 DEF AdmittedOn

\* A call that returns without having been admitted leaves the call sets alone.
LEMMA RejectAdmitted ==
    ASSUME IndInv, NEW c \in Calls, NEW s \in SessionIds,
           NEW r \in Rejections \cup GenerateResults,
           pc[c] \in {"idle", "generating", "announcing"},
           target' = target \/ target' = [target EXCEPT ![c] = s],
           result' = [result EXCEPT ![c] = r]
    PROVE  \A t \in SessionIds : AdmittedOn(t)' = AdmittedOn(t)
<1>1. ~Admitted(c) /\ ~Admitted(c)'
  BY DEF IndInv, Shape, TypeOK, Admitted, Rejections, GenerateResults, Verdicts
<1>2. \A d \in Calls : d # c => result'[d] = result[d] /\ target'[d] = target[d]
  BY DEF IndInv, TypeOK
<1> QED
  BY <1>1, <1>2 DEF AdmittedOn, Admitted

\* The call that is admitted joins exactly its own session's call set.
LEMMA AdmitJoins ==
    ASSUME IndInv, NEW c \in Calls, NEW s \in SessionIds, NEW a \in Answers,
           Admit(c, s, a)
    PROVE  /\ c \notin AdmittedOn(s)
           /\ AdmittedOn(s)' = AdmittedOn(s) \cup {c}
           /\ \A t \in SessionIds : t # s => AdmittedOn(t)' = AdmittedOn(t)
<1>1. ~Admitted(c)
  BY DEF IndInv, Shape, TypeOK, Admitted, Verdicts, Admit, Ask
<1>2. Admitted(c)' /\ target'[c] = s
  BY DEF IndInv, TypeOK, Admit, Ask, Admitted
<1>3. \A d \in Calls : d # c => result'[d] = result[d] /\ target'[d] = target[d]
  BY DEF IndInv, TypeOK, Admit, Ask
<1> QED
  BY <1>1, <1>2, <1>3 DEF AdmittedOn, Admitted

-----------------------------------------------------------------------------
\* Every step keeps the tie between control points and results.
LEMMA ShapeStep == IndInv /\ [Next]_vars => Shape'
<1> SUFFICES ASSUME IndInv, [Next]_vars PROVE Shape'
  OBVIOUS
<1> USE DEF IndInv, TypeOK, Shape, Admitted, Verdicts
<1>1. ASSUME NEW c \in Calls, NEW n \in 1 .. MaxLayers, GenerateStart(c, n)
      PROVE Shape'
  BY <1>1 DEF GenerateStart
<1>2. ASSUME NEW c \in Calls, GenerateFail(c) PROVE Shape'
  BY <1>2 DEF GenerateFail
<1>3. ASSUME NEW c \in Calls, NEW s \in SessionIds, CreateSession(c, s)
      PROVE Shape'
  BY <1>3 DEF CreateSession
<1>4. ASSUME NEW c \in Calls, LayerDone(c) PROVE Shape'
  BY <1>4 DEF LayerDone
<1>5. ASSUME NEW c \in Calls, NEW s \in SessionIds, NEW a \in Answers,
             ValidateStart(c, s, a)
      PROVE Shape'
  <2>1. CASE RejectNotFound(c, s, a)
    BY <2>1 DEF RejectNotFound, Ask, Reject
  <2>2. CASE RejectInactive(c, s, a)
    BY <2>2 DEF RejectInactive, Ask, Reject
  <2>3. CASE RejectExpired(c, s, a)
    BY <2>3 DEF RejectExpired, Ask, Reject, Session
  <2>4. CASE RejectExhausted(c, s, a)
    BY <2>4 DEF RejectExhausted, Ask, Reject, Session
  <2>5. CASE Admit(c, s, a)
    <3>1. \A t \in SessionIds : sessions'[t].status = sessions[t].status
      BY <2>5 DEF Admit, Session
    <3> QED
      BY <2>5, <3>1 DEF Admit, Ask
  <2> QED
    BY <1>5, <2>1, <2>2, <2>3, <2>4, <2>5 DEF ValidateStart
<1>6. ASSUME NEW c \in Calls, DecideRight(c) PROVE Shape'
  <2>1. \A t \in SessionIds :
           sessions[t].status # "none" => sessions'[t].status # "none"
    BY <1>6 DEF DecideRight, Session
  <2> QED
    BY <1>6, <2>1 DEF DecideRight
<1>7. ASSUME NEW c \in Calls, DecideWrong(c) PROVE Shape'
  BY <1>7 DEF DecideWrong
<1>8. ASSUME NEW c \in Calls, DecideMalformed(c) PROVE Shape'
  BY <1>8 DEF DecideMalformed
<1>9. ASSUME NEW c \in Calls, Answer(c) PROVE Shape'
  BY <1>9 DEF Answer
<1>10. CASE ClearSessions
  BY <1>10 DEF ClearSessions, callVars
<1>11. CASE Tick
  BY <1>11 DEF Tick, callVars
<1>12. CASE UNCHANGED vars
  BY <1>12 DEF vars, callVars
<1> QED
  BY <1>1, <1>2, <1>3, <1>4, <1>5, <1>6, <1>7, <1>8, <1>9, <1>10, <1>11, <1>12
  DEF Next, Continue

\* What each step does to a session's attempts and to its call set: either both
\* stay, or one call is admitted, or a fresh session starts with neither.
LEMMA AttemptsFrame ==
    IndInv /\ [Next]_vars =>
        \/ \A s \in SessionIds : /\ AdmittedOn(s)' = AdmittedOn(s)
                                 /\ sessions'[s].attempts = sessions[s].attempts
        \/ \E c \in Calls, s \in SessionIds, a \in Answers : Admit(c, s, a)
        \/ \E c \in Calls, s \in SessionIds : CreateSession(c, s)
<1> SUFFICES ASSUME IndInv, [Next]_vars,
                    \A c \in Calls, s \in SessionIds, a \in Answers : ~Admit(c, s, a),
                    \A c \in Calls, s \in SessionIds : ~CreateSession(c, s)
             PROVE  \A s \in SessionIds :
                        /\ AdmittedOn(s)' = AdmittedOn(s)
                        /\ sessions'[s].attempts = sessions[s].attempts
  OBVIOUS
<1> DEFINE Goal == \A s \in SessionIds :
                       /\ AdmittedOn(s)' = AdmittedOn(s)
                       /\ sessions'[s].attempts = sessions[s].attempts
<1>0. \A c \in Calls : /\ result[c] = "none" <=> pc[c] \in {"idle", "generating", "announcing"}
                       /\ target[c] = target[c]
  BY DEF IndInv, Shape
<1>1. ASSUME NEW c \in Calls, NEW n \in 1 .. MaxLayers, GenerateStart(c, n)
      PROVE Goal
  BY <1>1, SameAdmitted DEF GenerateStart
<1>2. ASSUME NEW c \in Calls, GenerateFail(c) PROVE Goal
  <2>1. SessionIds = {} \/ \E s \in SessionIds : TRUE
    OBVIOUS
  <2> QED
    BY <1>2, <2>1, RejectAdmitted DEF GenerateFail, GenerateResults
<1>4. ASSUME NEW c \in Calls, LayerDone(c) PROVE Goal
  <2>1. CASE UNCHANGED result
    BY <1>4, <2>1, SameAdmitted DEF LayerDone
  <2>2. CASE result' = [result EXCEPT ![c] = "captchas"]
    BY <1>4, <2>2, RejectAdmitted DEF LayerDone, GenerateResults
  <2> QED
    BY <1>4, <2>1, <2>2 DEF LayerDone
<1>5. ASSUME NEW c \in Calls, NEW s \in SessionIds, NEW a \in Answers,
             ValidateStart(c, s, a)
      PROVE Goal
  <2>1. ASSUME NEW r \in Rejections, Ask(c, s, a), Reject(c, r)
        PROVE \A t \in SessionIds : AdmittedOn(t)' = AdmittedOn(t)
    BY <2>1, RejectAdmitted DEF Ask, Reject
  <2>2. \A t \in SessionIds : AdmittedOn(t)' = AdmittedOn(t)
    BY <1>5, <2>1 DEF ValidateStart, Rejections, RejectNotFound, RejectInactive,
       RejectExpired, RejectExhausted
  <2>3. CASE RejectNotFound(c, s, a) \/ RejectInactive(c, s, a)
    BY <2>3, <2>2 DEF RejectNotFound, RejectInactive
  <2>4. CASE RejectExpired(c, s, a)
    BY <2>4, <2>2 DEF RejectExpired, IndInv, TypeOK, Session
  <2>5. CASE RejectExhausted(c, s, a)
    BY <2>5, <2>2 DEF RejectExhausted, IndInv, TypeOK, Session
  <2> QED
    BY <1>5, <2>3, <2>4, <2>5 DEF ValidateStart
<1>6. ASSUME NEW c \in Calls, DecideRight(c) PROVE Goal
  <2>1. \A t \in SessionIds : sessions'[t].attempts = sessions[t].attempts
    BY <1>6 DEF DecideRight, IndInv, TypeOK, Session
  <2> QED
    BY <1>6, <2>1, DecideAdmitted DEF DecideRight, Verdicts
<1>7. ASSUME NEW c \in Calls, DecideWrong(c) PROVE Goal
  BY <1>7, DecideAdmitted DEF DecideWrong, Verdicts
<1>8. ASSUME NEW c \in Calls, DecideMalformed(c) PROVE Goal
  BY <1>8, DecideAdmitted DEF DecideMalformed, Verdicts
<1>9. ASSUME NEW c \in Calls, Answer(c) PROVE Goal
  BY <1>9, SameAdmitted DEF Answer
<1>10. CASE ClearSessions
  BY <1>10, SameAdmitted DEF ClearSessions, callVars
<1>11. CASE Tick
  BY <1>11, SameAdmitted DEF Tick, callVars
<1>12. CASE UNCHANGED vars
  BY <1>12, SameAdmitted DEF vars, callVars
<1> QED
  BY <1>1, <1>2, <1>4, <1>5, <1>6, <1>7, <1>8, <1>9, <1>10, <1>11, <1>12
  DEF Next, Continue

\* Counting stays exact and bounded.
LEMMA AttemptsStep == IndInv /\ [Next]_vars => AttemptsAccounted'
<1> SUFFICES ASSUME IndInv, [Next]_vars PROVE AttemptsAccounted'
  OBVIOUS
<1> USE ServiceAssumption
<1>1. CASE \A s \in SessionIds : /\ AdmittedOn(s)' = AdmittedOn(s)
                                 /\ sessions'[s].attempts = sessions[s].attempts
  BY <1>1 DEF IndInv, AttemptsAccounted
<1>2. ASSUME NEW c \in Calls, NEW s \in SessionIds, NEW a \in Answers, Admit(c, s, a)
      PROVE AttemptsAccounted'
  <2>1. Cardinality(AdmittedOn(s)') = Cardinality(AdmittedOn(s)) + 1
    BY <1>2, AdmitJoins, AdmittedFinite, FS_AddElement
  <2>2. sessions[s].attempts = Cardinality(AdmittedOn(s)) /\ sessions[s].attempts < MaxAttempts
    BY <1>2 DEF Admit, IndInv, AttemptsAccounted
  <2>3. /\ sessions'[s].attempts = sessions[s].attempts + 1
        /\ \A t \in SessionIds : t # s => sessions'[t] = sessions[t]
    BY <1>2 DEF Admit, IndInv, TypeOK, Session
  <2>4. \A t \in SessionIds : t # s => AdmittedOn(t)' = AdmittedOn(t)
    BY <1>2, AdmitJoins
  <2>5. Cardinality(AdmittedOn(s)) \in Nat
    BY AdmittedFinite
  <2>6. Cardinality(AdmittedOn(s)') <= MaxAttempts
    BY <2>1, <2>2, <2>5
  <2> QED
    BY <2>1, <2>2, <2>3, <2>4, <2>6 DEF IndInv, AttemptsAccounted
<1>3. ASSUME NEW c \in Calls, NEW s \in SessionIds, CreateSession(c, s)
      PROVE AttemptsAccounted'
  <2>1. \A t \in SessionIds : AdmittedOn(t)' = AdmittedOn(t)
    BY <1>3, SameAdmitted DEF CreateSession
  <2>2. AdmittedOn(s) = {}
    BY <1>3 DEF CreateSession, IndInv, Shape, AdmittedOn
  <2>3. Cardinality(AdmittedOn(s)) = 0
    BY <2>2, FS_EmptySet
  <2>4. /\ sessions'[s].attempts = 0
        /\ \A t \in SessionIds : t # s => sessions'[t] = sessions[t]
    BY <1>3 DEF CreateSession, IndInv, TypeOK
  <2> QED
    BY <2>1, <2>3, <2>4 DEF IndInv, AttemptsAccounted
<1> QED
  BY <1>1, <1>2, <1>3, AttemptsFrame

-----------------------------------------------------------------------------
\* 'validated' stays exactly the trace of a right answer.
LEMMA ValidatedStep == IndInv /\ [Next]_vars => ValidatedByRightAnswer'
<1> SUFFICES ASSUME IndInv, [Next]_vars PROVE ValidatedByRightAnswer'
  OBVIOUS
<1> DEFINE Witness(s, c) == c \in AdmittedOn(s) /\ answer[c] = "right" /\ result[c] = "valid"
<1>0. \A s \in SessionIds : sessions[s].status = "validated" <=> \E c \in Calls : Witness(s, c)
  BY DEF IndInv, ValidatedByRightAnswer, AdmittedOn
<1> DEFINE Goal == \A s \in SessionIds :
                       (sessions[s].status = "validated")' <=> \E c \in Calls : Witness(s, c)'
<1>a. SUFFICES Goal
  BY DEF ValidatedByRightAnswer, AdmittedOn
\* Nothing about validation moves: no status becomes or stops being 'validated',
\* and no call becomes or stops being a success.
<1>b. ASSUME \A s \in SessionIds :
                 sessions'[s].status = "validated" <=> sessions[s].status = "validated",
             \A s \in SessionIds, c \in Calls : Witness(s, c)' <=> Witness(s, c)
      PROVE  Goal
  BY <1>0, <1>b
<1> USE DEF IndInv, TypeOK, AdmittedOn, Admitted, Verdicts
<1>1. ASSUME NEW c \in Calls, NEW n \in 1 .. MaxLayers, GenerateStart(c, n)
      PROVE  Goal
  BY <1>1, <1>b DEF GenerateStart
<1>2. ASSUME NEW c \in Calls, GenerateFail(c)
      PROVE  Goal
  BY <1>2, <1>b DEF GenerateFail, Shape
<1>3. ASSUME NEW c \in Calls, NEW s \in SessionIds, CreateSession(c, s)
      PROVE  Goal
  BY <1>3, <1>b DEF CreateSession
<1>4. ASSUME NEW c \in Calls, LayerDone(c)
      PROVE  Goal
  BY <1>4, <1>b DEF LayerDone, Shape
<1>5. ASSUME NEW c \in Calls, NEW s \in SessionIds, NEW a \in Answers, ValidateStart(c, s, a)
      PROVE  Goal
  <2>0. result[c] = "none" /\ result'[c] # "valid"
    BY <1>5 DEF ValidateStart, RejectNotFound, RejectInactive, RejectExpired,
       RejectExhausted, Admit, Ask, Reject, Shape
  <2>1. \A d \in Calls : d # c => /\ result'[d] = result[d]
                                  /\ target'[d] = target[d]
                                  /\ answer'[d] = answer[d]
    BY <1>5 DEF ValidateStart, RejectNotFound, RejectInactive, RejectExpired,
       RejectExhausted, Admit, Ask, Reject
  <2>2. \A t \in SessionIds, d \in Calls : Witness(t, d)' <=> Witness(t, d)
    BY <2>0, <2>1
  <2>3. CASE RejectNotFound(c, s, a) \/ RejectInactive(c, s, a)
    BY <2>3, <2>2, <1>b DEF RejectNotFound, RejectInactive
  <2>4. CASE RejectExpired(c, s, a)
    <3>1. \A t \in SessionIds :
             sessions'[t].status = "validated" <=> sessions[t].status = "validated"
      BY <2>4 DEF RejectExpired, Session
    <3> QED
      BY <2>2, <3>1, <1>b
  <2>5. CASE RejectExhausted(c, s, a)
    <3>1. \A t \in SessionIds :
             sessions'[t].status = "validated" <=> sessions[t].status = "validated"
      BY <2>5 DEF RejectExhausted, Session
    <3> QED
      BY <2>2, <3>1, <1>b
  <2>6. CASE Admit(c, s, a)
    <3>1. \A t \in SessionIds :
             sessions'[t].status = "validated" <=> sessions[t].status = "validated"
      BY <2>6 DEF Admit, Session
    <3> QED
      BY <2>2, <3>1, <1>b
  <2> QED
    BY <1>5, <2>3, <2>4, <2>5, <2>6 DEF ValidateStart
<1>6. ASSUME NEW c \in Calls, DecideRight(c)
      PROVE  Goal
  <2>1. PICK s \in SessionIds : s = target[c]
    BY <1>6 DEF DecideRight, Shape
  <2>2. Witness(s, c)'
    BY <1>6, <2>1 DEF DecideRight
  <2>3. /\ sessions'[s].status = "validated"
        /\ \A t \in SessionIds : t # s => sessions'[t] = sessions[t]
    BY <1>6, <2>1 DEF DecideRight, Session
  <2>4. \A t \in SessionIds, d \in Calls :
           t # s => (Witness(t, d)' <=> Witness(t, d))
    BY <1>6, <2>1 DEF DecideRight
  <2> HIDE DEF Witness
  <2>5. ASSUME NEW t \in SessionIds
        PROVE  (sessions[t].status = "validated")' <=> \E d \in Calls : Witness(t, d)'
    BY <1>0, <2>2, <2>3, <2>4
  <2> QED
    BY <2>5
<1>7. ASSUME NEW c \in Calls, DecideWrong(c)
      PROVE  Goal
  BY <1>7, <1>b DEF DecideWrong, Shape
<1>8. ASSUME NEW c \in Calls, DecideMalformed(c)
      PROVE  Goal
  BY <1>8, <1>b DEF DecideMalformed, Shape
<1>9. ASSUME NEW c \in Calls, Answer(c)
      PROVE  Goal
  BY <1>9, <1>b DEF Answer
<1>10. CASE ClearSessions
  BY <1>10, <1>b DEF ClearSessions, callVars
<1>11. CASE Tick
  BY <1>11, <1>b DEF Tick, callVars
<1>12. CASE UNCHANGED vars
  BY <1>12, <1>b DEF vars, callVars
<1> QED
  BY <1>1, <1>2, <1>3, <1>4, <1>5, <1>6, <1>7, <1>8, <1>9, <1>10, <1>11, <1>12
  DEF Next, Continue

\* A call admitted after a success found the session still active, which it was
\* not: so of two admitted calls on one session, either they overlapped or one of
\* them was told it was wrong.
LEMMA OverlapStep == IndInv /\ [Next]_vars => OverlapInv'
<1> SUFFICES ASSUME IndInv, [Next]_vars PROVE OverlapInv'
  OBVIOUS
<1> DEFINE Refused(c) == result[c] \in {"incorrect", "error"}
\* Steps under which admitted calls were admitted before, refusals are kept and
\* overlaps are kept.
<1>a. ASSUME \A c \in Calls : /\ Admitted(c)' => Admitted(c) /\ target'[c] = target[c]
                              /\ Admitted(c) /\ Refused(c) => Refused(c)',
             UNCHANGED peers
      PROVE  OverlapInv'
  BY <1>a DEF OverlapInv, Overlapped, IndInv
<1> USE DEF IndInv, TypeOK, Shape, Admitted, Verdicts
<1>1. ASSUME NEW c \in Calls, NEW n \in 1 .. MaxLayers, GenerateStart(c, n)
      PROVE OverlapInv'
  BY <1>1, <1>a DEF GenerateStart
<1>2. ASSUME NEW c \in Calls, GenerateFail(c) PROVE OverlapInv'
  BY <1>2, <1>a DEF GenerateFail
<1>3. ASSUME NEW c \in Calls, NEW s \in SessionIds, CreateSession(c, s)
      PROVE OverlapInv'
  BY <1>3, <1>a DEF CreateSession
<1>4. ASSUME NEW c \in Calls, LayerDone(c) PROVE OverlapInv'
  BY <1>4, <1>a DEF LayerDone
<1>5. ASSUME NEW c \in Calls, NEW s \in SessionIds, NEW a \in Answers,
             ValidateStart(c, s, a), ~Admit(c, s, a)
      PROVE OverlapInv'
  BY <1>5, <1>a DEF ValidateStart, RejectNotFound, RejectInactive, RejectExpired,
     RejectExhausted, Ask, Reject, Rejections
<1>6. ASSUME NEW c \in Calls, NEW s \in SessionIds, NEW a \in Answers, Admit(c, s, a)
      PROVE OverlapInv'
  <2>1. \A d \in Calls : d # c => /\ Admitted(d)' <=> Admitted(d)
                                  /\ result'[d] = result[d]
                                  /\ target'[d] = target[d]
                                  /\ peers'[d] = peers[d]
    BY <1>6 DEF Admit, Ask
  <2>2. target'[c] = s /\ peers'[c] = DecidingOn(s) /\ sessions[s].status = "active"
    BY <1>6 DEF Admit, Ask
  \* An admitted call on s has been refused, or is suspended now.
  <2>3. ASSUME NEW d \in Calls, d # c, Admitted(d), target[d] = s
        PROVE  Refused(d) \/ d \in peers'[c]
    <3>1. CASE result[d] = "valid"
      BY <2>2, <2>3, <3>1 DEF ValidatedByRightAnswer, AdmittedOn
    <3>2. CASE result[d] = "pending"
      BY <2>2, <2>3, <3>2 DEF DecidingOn
    <3> QED
      BY <2>3, <3>1, <3>2
  <2>4. ASSUME NEW d \in Calls, NEW e \in Calls, d # e, Admitted(d)', Admitted(e)',
               target'[d] = target'[e]
        PROVE  Overlapped(d, e)' \/ Refused(d)' \/ Refused(e)'
    <3>1. CASE d # c /\ e # c
      BY <2>1, <2>4, <3>1 DEF OverlapInv, Overlapped
    <3>2. CASE d = c
      BY <2>1, <2>2, <2>3, <2>4, <3>2 DEF Overlapped
    <3>3. CASE e = c
      BY <2>1, <2>2, <2>3, <2>4, <3>3 DEF Overlapped
    <3> QED
      BY <3>1, <3>2, <3>3
  <2> QED
    BY <2>4 DEF OverlapInv
<1>7. ASSUME NEW c \in Calls, DecideRight(c) \/ DecideWrong(c) \/ DecideMalformed(c)
      PROVE OverlapInv'
  BY <1>7, <1>a DEF DecideRight, DecideWrong, DecideMalformed
<1>8. ASSUME NEW c \in Calls, Answer(c) PROVE OverlapInv'
  BY <1>8, <1>a DEF Answer
<1>9. CASE ClearSessions \/ Tick \/ UNCHANGED vars
  BY <1>9, <1>a DEF ClearSessions, Tick, vars, callVars
<1> QED
  BY <1>1, <1>2, <1>3, <1>4, <1>5, <1>6, <1>7, <1>8, <1>9
  DEF Next, Continue, ValidateStart

\* How one step may change one session: Lifecycle says it of every session and step.
Moves(old, new, s) ==
    old.status # "none" =>
        /\ new.attempts >= old.attempts
        /\ new.expiresAt = old.expiresAt
        /\ \/ new.status = old.status
           \/ old.status = "active" /\ new.status \in {"validated", "expired", "failed"}
           \/ /\ old.status \in {"expired", "failed"}
              /\ new.status = "validated"
              /\ DecidingOn(s) # {}

\* Every step moves every session along an edge, or leaves it where it is.
LEMMA MovesStep ==
    ASSUME IndInv, [Next]_vars, NEW t \in SessionIds
    PROVE  Moves(sessions[t], sessions'[t], t)
<1> USE DEF IndInv, TypeOK, Session
<1>0. UNCHANGED sessions => Moves(sessions[t], sessions'[t], t)
  BY DEF Moves
<1>1. ASSUME NEW c \in Calls, NEW n \in 1 .. MaxLayers, GenerateStart(c, n)
      PROVE Moves(sessions[t], sessions'[t], t)
  BY <1>0, <1>1 DEF GenerateStart
<1>2. ASSUME NEW c \in Calls, GenerateFail(c) \/ LayerDone(c)
      PROVE Moves(sessions[t], sessions'[t], t)
  BY <1>0, <1>2 DEF GenerateFail, LayerDone
<1>3. ASSUME NEW c \in Calls, NEW s \in SessionIds, CreateSession(c, s)
      PROVE Moves(sessions[t], sessions'[t], t)
  BY <1>3 DEF CreateSession, Moves
<1>4. ASSUME NEW c \in Calls, NEW s \in SessionIds, NEW a \in Answers, ValidateStart(c, s, a)
      PROVE Moves(sessions[t], sessions'[t], t)
  <2>1. CASE RejectNotFound(c, s, a) \/ RejectInactive(c, s, a)
    BY <1>0, <2>1 DEF RejectNotFound, RejectInactive
  <2>2. CASE RejectExpired(c, s, a)
    BY <2>2 DEF RejectExpired, Moves
  <2>3. CASE RejectExhausted(c, s, a)
    BY <2>3 DEF RejectExhausted, Moves
  <2>4. CASE Admit(c, s, a)
    BY <2>4 DEF Admit, Moves
  <2> QED
    BY <1>4, <2>1, <2>2, <2>3, <2>4 DEF ValidateStart
\* The verdict of a call that was past the checks: its session was opened and is
\* not waiting for a call, this one decides on it.
<1>5. ASSUME NEW c \in Calls, DecideRight(c)
      PROVE Moves(sessions[t], sessions'[t], t)
  <2>1. c \in DecidingOn(target[c])
    BY <1>5 DEF DecideRight, DecidingOn
  <2>2. sessions'[t] = IF t = target[c] THEN [sessions[t] EXCEPT !.status = "validated"]
                                        ELSE sessions[t]
    BY <1>5 DEF DecideRight
  <2>3. sessions[t].status \in {"none", "active", "validated", "expired", "failed"}
    BY DEF Status
  <2> QED
    BY <2>1, <2>2, <2>3 DEF Moves
<1>6. ASSUME NEW c \in Calls, DecideWrong(c) \/ DecideMalformed(c) \/ Answer(c)
      PROVE Moves(sessions[t], sessions'[t], t)
  BY <1>0, <1>6 DEF DecideWrong, DecideMalformed, Answer
<1>7. CASE ClearSessions \/ Tick \/ UNCHANGED vars
  BY <1>0, <1>7 DEF ClearSessions, Tick, vars
<1> QED
  BY <1>1, <1>2, <1>3, <1>4, <1>5, <1>6, <1>7 DEF Next, Continue

-----------------------------------------------------------------------------
\* What a generation has stored so far, at every point of its loop; its sessions exist
\* and are its own.
GenerationInv ==
    \A c \in Calls :
        /\ pc[c] = "idle" => made[c] = {}
        /\ pc[c] = "generating" => Cardinality(made[c]) < layers[c]
        /\ pc[c] = "announcing" => Cardinality(made[c]) <= layers[c]
        /\ result[c] = "generateError" => Cardinality(made[c]) < layers[c]
        /\ result[c] = "captchas" => Cardinality(made[c]) = layers[c]
        /\ \A s \in made[c] : sessions[s].status # "none"
        /\ \A d \in Calls : c # d => made[c] \cap made[d] = {}

\* The sets of sessions a call made are finite, and a new one is counted once.
LEMMA MadeFinite ==
    ASSUME TypeOK, NEW c \in Calls
    PROVE  /\ Cardinality(made[c]) \in Nat
           /\ \A s \in SessionIds :
                 s \notin made[c] => Cardinality(made[c] \cup {s}) = Cardinality(made[c]) + 1
<1>1. IsFiniteSet(made[c])
  BY ServiceAssumption, FS_Subset DEF TypeOK
<1> QED
  BY <1>1, FS_CardinalityType, FS_AddElement

\* No step unmakes a session.
LEMMA SessionsStay ==
    ASSUME IndInv, [Next]_vars, NEW s \in SessionIds, sessions[s].status # "none"
    PROVE  sessions'[s].status # "none"
BY MovesStep DEF Moves

\* Every step keeps the books of the generations.
LEMMA GenerationStep ==
    ASSUME IndInv, GenerationInv, [Next]_vars
    PROVE  GenerationInv'
<1> USE DEF GenerationInv, IndInv, TypeOK
<1>0. ASSUME UNCHANGED <<made, layers>>,
             \A c \in Calls :
                 /\ pc'[c] \in {"idle", "generating", "announcing"} => pc'[c] = pc[c]
                 /\ result'[c] \in {"captchas", "generateError"} => result'[c] = result[c]
      PROVE  GenerationInv'
  BY <1>0, SessionsStay
<1>1. ASSUME NEW c \in Calls, NEW n \in 1 .. MaxLayers, GenerateStart(c, n)
      PROVE GenerationInv'
  <2>1. made[c] = {} /\ Cardinality(made[c]) = 0
    BY <1>1, FS_EmptySet DEF GenerateStart
  <2>2. result[c] = "none"
    BY <1>1 DEF GenerateStart, Shape
  <2>3. pc'[c] = "generating" /\ layers'[c] = n /\ 0 < n
    BY <1>1, ServiceAssumption DEF GenerateStart
  <2>4. UNCHANGED <<made, result, sessions>>
    BY <1>1 DEF GenerateStart
  <2>5. \A d \in Calls : d # c => pc'[d] = pc[d] /\ layers'[d] = layers[d]
    BY <1>1 DEF GenerateStart
  <2> QED
    BY <2>1, <2>2, <2>3, <2>4, <2>5
<1>2. ASSUME NEW c \in Calls, GenerateFail(c) PROVE GenerationInv'
  BY <1>2, SessionsStay DEF GenerateFail
<1>3. ASSUME NEW c \in Calls, NEW s \in SessionIds, CreateSession(c, s)
      PROVE GenerationInv'
  <2>1. \A d \in Calls : s \notin made[d]
    BY <1>3 DEF CreateSession
  <2>2. /\ made'[c] = made[c] \cup {s}
        /\ \A d \in Calls : d # c => made'[d] = made[d] /\ pc'[d] = pc[d]
        /\ pc'[c] = "announcing" /\ UNCHANGED <<layers, result>>
    BY <1>3 DEF CreateSession
  <2>3. Cardinality(made'[c]) <= layers[c]
    <3>1. Cardinality(made[c]) < layers[c] /\ layers[c] \in Nat
      BY <1>3, ServiceAssumption DEF CreateSession
    <3>2. Cardinality(made[c]) \in Nat
          /\ Cardinality(made[c] \cup {s}) = Cardinality(made[c]) + 1
      BY <2>1, MadeFinite
    <3>3. Cardinality(made'[c]) = Cardinality(made[c] \cup {s})
      BY <2>2
    <3> QED
      BY <3>1, <3>2, <3>3
  <2>4. result[c] = "none"
    BY <1>3 DEF CreateSession, Shape
  <2>5. sessions'[s].status = "active"
    BY <1>3 DEF CreateSession
  <2>6. \A d \in Calls : \A t \in made'[d] : sessions'[t].status # "none"
    <3>1. ASSUME NEW d \in Calls, NEW t \in made'[d], t # s
          PROVE  sessions'[t].status # "none"
      <4>1. t \in made[d]
        BY <2>2, <3>1
      <4> QED
        BY <3>1, <4>1, SessionsStay
    <3> QED
      BY <2>5, <3>1
  <2>7. ASSUME NEW d \in Calls, NEW e \in Calls, d # e
        PROVE  made'[d] \cap made'[e] = {}
    <3>1. made[d] \cap made[e] = {}
      BY <2>7
    <3>2. d # c => made'[d] = made[d]
      BY <2>2
    <3>3. e # c => made'[e] = made[e]
      BY <2>2
    <3> QED
      BY <2>1, <2>2, <2>7, <3>1, <3>2, <3>3
  <2> QED
    BY <2>2, <2>3, <2>4, <2>6, <2>7
<1>4. ASSUME NEW c \in Calls, LayerDone(c) PROVE GenerationInv'
  <2>1. result[c] = "none"
    BY <1>4 DEF LayerDone, Shape
  <2> QED
    BY <1>4, <2>1, MadeFinite, SessionsStay DEF LayerDone
<1>5. ASSUME NEW c \in Calls, NEW s \in SessionIds, NEW a \in Answers, ValidateStart(c, s, a)
      PROVE GenerationInv'
  BY <1>0, <1>5 DEF ValidateStart, RejectNotFound, RejectInactive, RejectExpired,
     RejectExhausted, Admit, Ask, Reject
<1>6. ASSUME NEW c \in Calls, DecideRight(c) \/ DecideWrong(c) \/ DecideMalformed(c) \/ Answer(c)
      PROVE GenerationInv'
  BY <1>0, <1>6 DEF DecideRight, DecideWrong, DecideMalformed, Answer
<1>7. CASE ClearSessions \/ Tick \/ UNCHANGED vars
  BY <1>0, <1>7 DEF ClearSessions, Tick, vars, callVars
<1> QED
  BY <1>1, <1>2, <1>3, <1>4, <1>5, <1>6, <1>7 DEF Next, Continue

-----------------------------------------------------------------------------
\* The invariant holds in every reachable state.
THEOREM Invariance == Spec => []IndInv
<1>1. IndInv /\ [Next]_vars => IndInv'
  BY TypeStep, ShapeStep, AttemptsStep, ValidatedStep, OverlapStep DEF IndInv
<1> QED
  BY <1>1, InitInv, PTL DEF Spec

\* Type correctness of the session store and of every call.
THEOREM TypeCorrect == Spec => []TypeOK
BY Invariance, PTL DEF IndInv

\* For any number of overlapping calls, a session's attempt counter is exactly
\* the number of calls that got past its checks, at most maxAttempts of them.
THEOREM AttemptsBounded == Spec => []AttemptsAccounted
BY Invariance, PTL DEF IndInv

\* For any number of calls, a session is 'validated' exactly when one of them was
\* admitted with a right answer and has been told so.
THEOREM ValidatedJustified == Spec => []ValidatedByRightAnswer
BY Invariance, PTL DEF IndInv

\* Two successes on one challenge come only from overlapping calls.
THEOREM ReplayNeedsOverlap == Spec => []SuccessesOverlap
<1>1. OverlapInv => SuccessesOverlap
  BY DEF OverlapInv, SuccessesOverlap, Admitted, Verdicts
<1> QED
  BY <1>1, Invariance, PTL DEF IndInv

\* However calls overlap and whatever they were told, a session only moves along the
\* edges the code has: what ended is reopened by nothing, an attempt is never given
\* back, and only a call already past the checks validates a session that ended.
THEOREM SessionLifecycle == Spec => Lifecycle
<1>1. IndInv /\ [Next]_vars => [\A s \in SessionIds :
        LET old == sessions[s]
            new == sessions[s]'
        IN  old.status # "none" =>
              /\ new.attempts >= old.attempts
              /\ new.expiresAt = old.expiresAt
              /\ \/ new.status = old.status
                 \/ old.status = "active" /\ new.status \in {"validated", "expired", "failed"}
                 \/ /\ old.status \in {"expired", "failed"}
                    /\ new.status = "validated"
                    /\ DecidingOn(s) # {}]_vars
  BY MovesStep DEF Moves
<1> QED
  BY <1>1, Invariance, PTL DEF Spec, Lifecycle

\* However generations interleave and fail, one that succeeds has stored as many sessions
\* as it was asked for, one that fails fewer, and no session has two owners.
THEOREM GenerationsAccounted == Spec => []GenerationAccounted
<1>1. Init => GenerationInv
  BY DEF Init, GenerationInv
<1>2. IndInv /\ GenerationInv /\ [Next]_vars => GenerationInv'
  BY GenerationStep
<1>3. GenerationInv => GenerationAccounted
  BY DEF GenerationInv, GenerationAccounted
<1> QED
  BY <1>1, <1>2, <1>3, Invariance, PTL DEF Spec

-----------------------------------------------------------------------------
(* The security log of CaptchaService, for any number of calls, sessions and *)
(* events.  RecentInv compares the capped array with the full one element by *)
(* element; LogInv counts the events of a session against what its calls     *)
(* were told, next to IndInv, which says that a session without a generation *)
(* has no admitted call.                                                     *)

-----------------------------------------------------------------------------
(* The capped array.                                                         *)

RecentInv ==
    /\ Len(securityEvents) = IF Len(statsEvents) > MaxEvents THEN MaxEvents ELSE Len(statsEvents)
    /\ \A i \in 1 .. Len(securityEvents) :
          securityEvents[i] = statsEvents[Len(statsEvents) - Len(securityEvents) + i]

\* An event that is logged goes to the end of both arrays, and from a full capped one the
\* first leaves.
LEMMA RecentStep ==
    ASSUME TypeOK, RecentInv,
           NEW type, NEW s, [type |-> type, sid |-> s] \in Event, LogSecurityEvent(type, s)
    PROVE  RecentInv'
<1> DEFINE e == [type |-> type, sid |-> s]
           m == Len(securityEvents)
           n == Len(statsEvents)
           longer == Append(securityEvents, e)
<1>1. /\ statsEvents' = Append(statsEvents, e)
      /\ securityEvents' = IF Len(longer) > MaxEvents THEN Tail(longer) ELSE longer
  BY DEF LogSecurityEvent, Capped
<1>2. e \in Event /\ securityEvents \in Seq(Event) /\ statsEvents \in Seq(Event)
  BY DEF TypeOK
<1> HIDE DEF e
<1>3. m \in Nat /\ n \in Nat /\ MaxEvents \in Nat \ {0}
  BY <1>2, LenProperties, ServiceAssumption
<1>4. /\ Len(statsEvents') = n + 1
      /\ \A i \in 1 .. n : statsEvents'[i] = statsEvents[i]
      /\ statsEvents'[n + 1] = e
  BY <1>1, <1>2, AppendProperties
<1>5. /\ longer \in Seq(Event) /\ longer # <<>>
      /\ Len(longer) = m + 1
      /\ \A i \in 1 .. m : longer[i] = securityEvents[i]
      /\ longer[m + 1] = e
  BY <1>2, AppendProperties
<1>6. /\ m = IF n > MaxEvents THEN MaxEvents ELSE n
      /\ \A i \in 1 .. m : securityEvents[i] = statsEvents[n - m + i]
  BY DEF RecentInv
<1> HIDE DEF longer
<1>7. ASSUME NEW i \in 1 .. m + 1
      PROVE  longer[i] = statsEvents'[n - m + i]
  <2>1. CASE i = m + 1
    BY <1>3, <1>4, <1>5, <2>1
  <2>2. CASE i \in 1 .. m
    <3>1. n - m + i \in 1 .. n
      BY <1>3, <1>6, <2>2
    <3> QED
      BY <1>4, <1>5, <1>6, <2>2, <3>1
  <2> QED
    BY <1>3, <2>1, <2>2
<1>8. CASE m + 1 > MaxEvents
  <2>1. securityEvents' = Tail(longer)
    BY <1>1, <1>5, <1>8
  <2>2. Len(securityEvents') = m /\ \A i \in 1 .. m : securityEvents'[i] = longer[i + 1]
    BY <1>3, <1>5, <2>1, HeadTailProperties
  <2>3. m = MaxEvents /\ n + 1 > MaxEvents
    BY <1>3, <1>6, <1>8
  <2>4. ASSUME NEW i \in 1 .. m
        PROVE  securityEvents'[i] = statsEvents'[(n + 1) - m + i]
    <3>1. i + 1 \in 1 .. m + 1 /\ n - m + (i + 1) = (n + 1) - m + i
      BY <1>3
    <3> QED
      BY <1>7, <2>2, <3>1
  <2> QED
    BY <1>4, <2>2, <2>3, <2>4 DEF RecentInv
<1>9. CASE ~(m + 1 > MaxEvents)
  <2>1. securityEvents' = longer
    BY <1>1, <1>5, <1>9
  <2>2. m = n /\ ~(n + 1 > MaxEvents)
    BY <1>3, <1>6, <1>9
  <2>3. ASSUME NEW i \in 1 .. m + 1
        PROVE  longer[i] = statsEvents'[(n + 1) - (m + 1) + i]
    <3>1. n - m + i = (n + 1) - (m + 1) + i
      BY <1>3
    <3> QED
      BY <1>7, <3>1
  <2> QED
    BY <1>4, <1>5, <2>1, <2>2, <2>3 DEF RecentInv
<1> QED
  BY <1>8, <1>9

\* What the elements say of the array, its definition says too.
LEMMA RecentIsSuffix ==
    ASSUME TypeOK, RecentInv
    PROVE  CappedLogIsRecent
<1> DEFINE m == Len(securityEvents)
           n == Len(statsEvents)
           last == SubSeq(statsEvents, n - m + 1, n)
<1>1. securityEvents \in Seq(Event) /\ statsEvents \in Seq(Event)
  BY DEF TypeOK
<1>2. m \in Nat /\ n \in Nat /\ MaxEvents \in Nat \ {0}
  BY <1>1, LenProperties, ServiceAssumption
<1>3. m = IF n > MaxEvents THEN MaxEvents ELSE n
  BY DEF RecentInv
<1>4. \A i \in n - m + 1 .. n : statsEvents[i] \in Event
  BY <1>1, <1>2, <1>3, ElementOfSeq
<1>5. /\ last \in Seq(Event)
      /\ Len(last) = m
      /\ \A i \in 1 .. m : last[i] = statsEvents[n - m + i]
  <2> DEFINE k == n - m + 1
  <2>1. k \in Int /\ n \in Int /\ n - k + 1 = m /\ (k > n => m = 0)
    BY <1>2
  <2>2. /\ last \in Seq(Event)
        /\ Len(last) = IF k <= n THEN n - k + 1 ELSE 0
        /\ \A i \in 1 .. n - k + 1 : last[i] = statsEvents[k + i - 1]
    BY <1>4, <2>1, SubSeqProperties
  <2>3. \A i \in 1 .. m : k + i - 1 = n - m + i
    BY <1>2
  <2> QED
    BY <1>2, <2>1, <2>2, <2>3
<1>6. securityEvents = last
  BY <1>1, <1>5, SeqEqual DEF RecentInv
<1>7. m <= MaxEvents /\ n >= m /\ (n > m => m = MaxEvents)
  BY <1>2, <1>3
<1> QED
  BY <1>6, <1>7 DEF CappedLogIsRecent

-----------------------------------------------------------------------------
(* The events of a session.                                                  *)

\* The calls on a session that were told a verdict.
ToldOn(s, v) == {c \in AdmittedOn(s) : result[c] = v}

\* The places of a session's events are places of the log, finitely many.
LEMMA EventsFinite ==
    ASSUME TypeOK, NEW s, NEW types
    PROVE  /\ EventsOf(s, types) \subseteq 1 .. Len(statsEvents)
           /\ Len(statsEvents) \in Nat
           /\ IsFiniteSet(EventsOf(s, types))
           /\ Cardinality(EventsOf(s, types)) \in Nat
<1>1. Len(statsEvents) \in Nat
  BY LenProperties DEF TypeOK
<1>2. EventsOf(s, types) \subseteq 1 .. Len(statsEvents)
  BY DEF EventsOf
<1>3. IsFiniteSet(EventsOf(s, types))
  <2>1. IsFiniteSet(1 .. Len(statsEvents))
    BY <1>1, FS_Interval
  <2> QED
    BY <1>2, <2>1, FS_Subset
<1> QED
  BY <1>1, <1>2, <1>3, FS_CardinalityType

\* An event that is logged joins those of its session and type, at the end.
LEMMA EventsAppended ==
    ASSUME TypeOK, NEW e \in Event, statsEvents' = Append(statsEvents, e), NEW s, NEW types
    PROVE  LET joins == e.sid = s /\ e.type \in types
           IN  /\ EventsOf(s, types)' = IF joins THEN EventsOf(s, types) \cup {Len(statsEvents) + 1}
                                                 ELSE EventsOf(s, types)
               /\ Cardinality(EventsOf(s, types)')
                     = Cardinality(EventsOf(s, types)) + (IF joins THEN 1 ELSE 0)
<1> DEFINE n == Len(statsEvents)
           joins == e.sid = s /\ e.type \in types
<1>1. /\ n \in Nat /\ IsFiniteSet(EventsOf(s, types)) /\ Cardinality(EventsOf(s, types)) \in Nat
      /\ EventsOf(s, types) \subseteq 1 .. n
  BY EventsFinite
<1>2. /\ Len(statsEvents') = n + 1
      /\ \A i \in 1 .. n : statsEvents'[i] = statsEvents[i]
      /\ statsEvents'[n + 1] = e
  BY AppendProperties DEF TypeOK
<1>3. EventsOf(s, types)' = {i \in 1 .. n + 1 :
                                statsEvents'[i].sid = s /\ statsEvents'[i].type \in types}
  BY <1>2 DEF EventsOf
<1>4. 1 .. n + 1 = (1 .. n) \cup {n + 1}
  BY <1>1
<1>5. EventsOf(s, types)' = IF joins THEN EventsOf(s, types) \cup {n + 1} ELSE EventsOf(s, types)
  BY <1>2, <1>3, <1>4 DEF EventsOf
<1>6. n + 1 \notin EventsOf(s, types)
  BY <1>1
<1>7. Cardinality(EventsOf(s, types) \cup {n + 1}) = Cardinality(EventsOf(s, types)) + 1
  BY <1>1, <1>6, FS_AddElement
<1>8. CASE joins
  BY <1>5, <1>7, <1>8
<1>9. CASE ~joins
  BY <1>1, <1>5, <1>9
<1> QED
  BY <1>8, <1>9

\* A call that is decided joins those that were told its verdict, and no others.
LEMMA ToldNow ==
    ASSUME IndInv, NEW c \in Calls, NEW v \in {"valid", "incorrect"}, pc[c] = "deciding",
           UNCHANGED target, result' = [result EXCEPT ![c] = v],
           NEW s \in SessionIds, NEW w \in {"valid", "incorrect"}
    PROVE  LET joins == s = target[c] /\ w = v
           IN  /\ ToldOn(s, w)' = IF joins THEN ToldOn(s, w) \cup {c} ELSE ToldOn(s, w)
               /\ Cardinality(ToldOn(s, w)') = Cardinality(ToldOn(s, w)) + (IF joins THEN 1 ELSE 0)
<1> DEFINE joins == s = target[c] /\ w = v
<1>1. result[c] = "pending" /\ (c \in AdmittedOn(s) <=> s = target[c])
  BY DEF IndInv, Shape, AdmittedOn, Admitted
<1>2. AdmittedOn(s)' = AdmittedOn(s)
  BY DecideAdmitted DEF Verdicts
<1>3. /\ result'[c] = v
      /\ \A d \in Calls : d # c => result'[d] = result[d]
  BY DEF IndInv, TypeOK
<1>4. ToldOn(s, w)' = IF joins THEN ToldOn(s, w) \cup {c} ELSE ToldOn(s, w)
  BY <1>1, <1>2, <1>3 DEF ToldOn, AdmittedOn
<1>5. c \notin ToldOn(s, w)
  BY <1>1 DEF ToldOn
<1>6. IsFiniteSet(ToldOn(s, w)) /\ Cardinality(ToldOn(s, w)) \in Nat
  BY AdmittedFinite, FS_Subset, FS_CardinalityType DEF ToldOn
<1>7. Cardinality(ToldOn(s, w) \cup {c}) = Cardinality(ToldOn(s, w)) + 1
  BY <1>5, <1>6, FS_AddElement
<1>8. CASE joins
  BY <1>4, <1>7, <1>8
<1>9. CASE ~joins
  BY <1>4, <1>6, <1>9
<1> QED
  BY <1>8, <1>9

\* Any other step tells no verdict that is logged.
LEMMA ToldKept ==
    ASSUME IndInv, [Next]_vars, \A c \in Calls : ~DecideRight(c) /\ ~DecideWrong(c),
           NEW s \in SessionIds, NEW v \in {"valid", "incorrect"}
    PROVE  ToldOn(s, v)' = ToldOn(s, v)
<1>0. ASSUME \A c \in Calls : \/ result'[c] = result[c] /\ target'[c] = target[c]
                              \/ result[c] \notin {"valid", "incorrect"} /\ result'[c] \notin {"valid", "incorrect"}
      PROVE  ToldOn(s, v)' = ToldOn(s, v)
  BY <1>0 DEF ToldOn, AdmittedOn, Admitted, Verdicts
<1> USE DEF IndInv, TypeOK, Shape
<1>1. ASSUME NEW c \in Calls, NEW n \in 1 .. MaxLayers, GenerateStart(c, n)
      PROVE ToldOn(s, v)' = ToldOn(s, v)
  BY <1>0, <1>1 DEF GenerateStart
<1>2. ASSUME NEW c \in Calls, GenerateFail(c) \/ LayerDone(c)
      PROVE ToldOn(s, v)' = ToldOn(s, v)
  BY <1>0, <1>2 DEF GenerateFail, LayerDone
<1>3. ASSUME NEW c \in Calls, NEW t \in SessionIds, CreateSession(c, t)
      PROVE ToldOn(s, v)' = ToldOn(s, v)
  BY <1>0, <1>3 DEF CreateSession
<1>4. ASSUME NEW c \in Calls, NEW t \in SessionIds, NEW a \in Answers, ValidateStart(c, t, a)
      PROVE ToldOn(s, v)' = ToldOn(s, v)
  BY <1>0, <1>4 DEF ValidateStart, RejectNotFound, RejectInactive, RejectExpired,
     RejectExhausted, Admit, Ask, Reject
<1>5. ASSUME NEW c \in Calls, DecideMalformed(c) \/ Answer(c)
      PROVE ToldOn(s, v)' = ToldOn(s, v)
  BY <1>0, <1>5 DEF DecideMalformed, Answer
<1>6. CASE ClearSessions \/ Tick \/ UNCHANGED vars
  BY <1>0, <1>6 DEF ClearSessions, Tick, vars, callVars
<1> QED
  BY <1>1, <1>2, <1>3, <1>4, <1>5, <1>6 DEF Next, Continue

-----------------------------------------------------------------------------
(* Every step keeps the log complete.                                        *)

Generated == {"captcha_generated"}
Decided == {"captcha_validated", "validation_failed"}

\* AuditComplete for one session.
Complete(s) ==
    /\ Cardinality(EventsOf(s, Generated)) = IF sessions[s].status = "none" THEN 0 ELSE 1
    /\ \A i \in EventsOf(s, Generated), j \in EventsOf(s, Decided) : i < j
    /\ Cardinality(EventsOf(s, {"captcha_validated"})) = Cardinality(ToldOn(s, "valid"))
    /\ Cardinality(EventsOf(s, {"validation_failed"})) = Cardinality(ToldOn(s, "incorrect"))

LEMMA CompleteIsAudit == AuditComplete <=> \A s \in SessionIds : Complete(s)
BY DEF AuditComplete, Complete, ToldOn, Generated, Decided

\* A step that logs nothing and tells nothing.
LEMMA QuietStep ==
    ASSUME AuditComplete, UNCHANGED statsEvents,
           \A s \in SessionIds : /\ ToldOn(s, "valid")' = ToldOn(s, "valid")
                                 /\ ToldOn(s, "incorrect")' = ToldOn(s, "incorrect")
                                 /\ sessions'[s].status = "none" <=> sessions[s].status = "none"
    PROVE  AuditComplete'
<1>1. \A s, types : EventsOf(s, types)' = EventsOf(s, types)
  BY DEF EventsOf
<1>2. \A s \in SessionIds : Complete(s)
  BY CompleteIsAudit
<1>3. \A s \in SessionIds : Complete(s)'
  BY <1>1, <1>2 DEF Complete
<1> QED
  BY <1>3 DEF AuditComplete, Complete, ToldOn, Generated, Decided

\* A new session has one event, its generation: nothing was decided on it before.
LEMMA CreateComplete ==
    ASSUME IndInv, AuditComplete, NEW c \in Calls, NEW s \in SessionIds, CreateSession(c, s)
    PROVE  AuditComplete'
<1> DEFINE e == [type |-> "captcha_generated", sid |-> s]
           n == Len(statsEvents)
<1>1. /\ e \in Event /\ e.type = "captcha_generated" /\ e.sid = s
      /\ statsEvents' = Append(statsEvents, e)
  BY DEF CreateSession, LogSecurityEvent, Event
<1>2. TypeOK
  BY DEF IndInv
<1> HIDE DEF e
<1>3. \A t \in SessionIds, v \in {"valid", "incorrect"} : ToldOn(t, v)' = ToldOn(t, v)
  BY SameAdmitted DEF ToldOn, CreateSession
<1>4. /\ sessions[s].status = "none" /\ sessions'[s].status = "active"
      /\ \A t \in SessionIds : t # s => sessions'[t] = sessions[t]
  BY DEF CreateSession, IndInv, TypeOK
<1>5. ASSUME NEW t \in SessionIds
      PROVE  Complete(t)'
  <2>1. Complete(t)
    BY CompleteIsAudit
  <2>2. /\ EventsOf(t, Decided)' = EventsOf(t, Decided)
        /\ Cardinality(EventsOf(t, {"captcha_validated"})') = Cardinality(EventsOf(t, {"captcha_validated"})) + 0
        /\ Cardinality(EventsOf(t, {"validation_failed"})') = Cardinality(EventsOf(t, {"validation_failed"})) + 0
    BY <1>1, <1>2, EventsAppended DEF Decided
  <2>3. /\ Cardinality(EventsOf(t, {"captcha_validated"})) \in Nat
        /\ Cardinality(EventsOf(t, {"validation_failed"})) \in Nat
    BY <1>2, EventsFinite
  <2>4. CASE t # s
    <3>1. /\ EventsOf(t, Generated)' = EventsOf(t, Generated)
          /\ sessions'[t].status = sessions[t].status
      BY <1>1, <1>2, <1>4, <2>4, EventsAppended
    <3> QED
      BY <1>3, <2>1, <2>2, <2>3, <3>1 DEF Complete
  <2>5. CASE t = s
    <3>1. Cardinality(EventsOf(t, Generated)') = Cardinality(EventsOf(t, Generated)) + 1
      BY <1>1, <1>2, <2>5, EventsAppended DEF Generated
    <3>2. Cardinality(EventsOf(t, Generated)) = 0
      BY <1>4, <2>1, <2>5 DEF Complete
    <3>3. ToldOn(t, "valid") = {} /\ ToldOn(t, "incorrect") = {}
      BY <1>4, <2>5 DEF ToldOn, AdmittedOn, IndInv, Shape
    <3>4. EventsOf(t, {"captcha_validated"}) = {} /\ EventsOf(t, {"validation_failed"}) = {}
      BY <1>2, <2>1, <3>3, EventsFinite, FS_EmptySet DEF Complete
    <3>5. EventsOf(t, Decided) = {}
      BY <3>4 DEF EventsOf, Decided
    <3> QED
      BY <1>3, <1>4, <2>1, <2>2, <2>3, <2>5, <3>1, <3>2, <3>5 DEF Complete
  <2> QED
    BY <2>4, <2>5
<1> QED
  BY <1>5 DEF AuditComplete, Complete, ToldOn, Generated, Decided

\* A verdict is told and logged in one step, after everything that was logged before.
LEMMA DecideComplete ==
    ASSUME IndInv, AuditComplete, NEW c \in Calls,
           NEW v \in {"valid", "incorrect"}, NEW type, pc[c] = "deciding",
           type = IF v = "valid" THEN "captcha_validated" ELSE "validation_failed",
           LogSecurityEvent(type, target[c]), UNCHANGED target,
           result' = [result EXCEPT ![c] = v],
           \A s \in SessionIds : sessions'[s].status = "none" <=> sessions[s].status = "none"
    PROVE  AuditComplete'
<1> DEFINE e == [type |-> type, sid |-> target[c]]
           n == Len(statsEvents)
<1>1. target[c] \in SessionIds
  BY DEF IndInv, Shape, Admitted
<1>2. TypeOK
  BY DEF IndInv
<1>3. /\ e \in Event /\ e.type = type /\ e.sid = target[c]
      /\ statsEvents' = Append(statsEvents, e)
  BY <1>1 DEF LogSecurityEvent, Event
<1> HIDE DEF e
<1>4. ASSUME NEW t \in SessionIds
      PROVE  Complete(t)'
  <2>1. Complete(t)
    BY CompleteIsAudit
  <2>2. EventsOf(t, Generated)' = EventsOf(t, Generated)
    BY <1>2, <1>3, EventsAppended DEF Generated
  <2>3. /\ EventsOf(t, Decided)' \subseteq EventsOf(t, Decided) \cup {n + 1}
        /\ EventsOf(t, Generated) \subseteq 1 .. n /\ n \in Nat
    BY <1>2, <1>3, EventsAppended, EventsFinite
  <2>4. \A i \in EventsOf(t, Generated)', j \in EventsOf(t, Decided)' : i < j
    BY <2>1, <2>2, <2>3 DEF Complete
  <2>5. /\ Cardinality(EventsOf(t, {"captcha_validated"})')
              = Cardinality(EventsOf(t, {"captcha_validated"}))
                  + (IF target[c] = t /\ type = "captcha_validated" THEN 1 ELSE 0)
        /\ Cardinality(EventsOf(t, {"validation_failed"})')
              = Cardinality(EventsOf(t, {"validation_failed"}))
                  + (IF target[c] = t /\ type = "validation_failed" THEN 1 ELSE 0)
    <3>1. \A x : type \in {x} <=> type = x
      OBVIOUS
    <3> QED
      BY <1>2, <1>3, <3>1, EventsAppended
  <2>6. /\ Cardinality(ToldOn(t, "valid")') = Cardinality(ToldOn(t, "valid"))
                                                 + (IF t = target[c] /\ "valid" = v THEN 1 ELSE 0)
        /\ Cardinality(ToldOn(t, "incorrect")') = Cardinality(ToldOn(t, "incorrect"))
                                                 + (IF t = target[c] /\ "incorrect" = v THEN 1 ELSE 0)
    BY ToldNow
  <2>7. /\ type = "captcha_validated" <=> "valid" = v
        /\ type = "validation_failed" <=> "incorrect" = v
    OBVIOUS
  <2> QED
    BY <2>1, <2>2, <2>4, <2>5, <2>6, <2>7 DEF Complete
<1> QED
  BY <1>4 DEF AuditComplete, Complete, ToldOn, Generated, Decided

LEMMA AuditStep ==
    ASSUME IndInv, AuditComplete, [Next]_vars
    PROVE  AuditComplete'
<1>1. ASSUME NEW c \in Calls, NEW s \in SessionIds, CreateSession(c, s)
      PROVE  AuditComplete'
  BY <1>1, CreateComplete
<1>2. ASSUME NEW c \in Calls, DecideRight(c)
      PROVE  AuditComplete'
  <2>1. \A t \in SessionIds : sessions'[t].status = "none" <=> sessions[t].status = "none"
    <3>1. target[c] \in SessionIds /\ sessions[target[c]].status # "none"
      BY <1>2 DEF DecideRight, IndInv, Shape, Admitted
    <3> QED
      BY <1>2, <3>1 DEF DecideRight, IndInv, TypeOK, Session
  <2> QED
    BY <1>2, <2>1, DecideComplete DEF DecideRight
<1>3. ASSUME NEW c \in Calls, DecideWrong(c)
      PROVE  AuditComplete'
  BY <1>3, DecideComplete DEF DecideWrong
<1>4. CASE /\ \A c \in Calls : ~DecideRight(c) /\ ~DecideWrong(c)
           /\ \A c \in Calls, s \in SessionIds : ~CreateSession(c, s)
  <2>1. \A s \in SessionIds : /\ ToldOn(s, "valid")' = ToldOn(s, "valid")
                              /\ ToldOn(s, "incorrect")' = ToldOn(s, "incorrect")
    BY <1>4, ToldKept
  <2>2. UNCHANGED statsEvents
    BY <1>4 DEF Next, Continue, ValidateStart, GenerateStart, GenerateFail, LayerDone,
       RejectNotFound, RejectInactive, RejectExpired, RejectExhausted, Admit, Reject,
       DecideMalformed, Answer, ClearSessions, Tick, vars
  <2>3. \A s \in SessionIds : sessions'[s].status = "none" <=> sessions[s].status = "none"
    <3>1. \A s \in SessionIds : sessions[s].status = "none" => sessions'[s].status = "none"
      <4> USE DEF IndInv, TypeOK, Session
      <4>0. CASE UNCHANGED sessions
        BY <4>0
      <4>1. ASSUME NEW c \in Calls, NEW s \in SessionIds, NEW a \in Answers, RejectExpired(c, s, a)
            PROVE  \A t \in SessionIds : sessions[t].status = "none" => sessions'[t].status = "none"
        BY <4>1 DEF RejectExpired
      <4>2. ASSUME NEW c \in Calls, NEW s \in SessionIds, NEW a \in Answers, RejectExhausted(c, s, a)
            PROVE  \A t \in SessionIds : sessions[t].status = "none" => sessions'[t].status = "none"
        BY <4>2 DEF RejectExhausted
      <4>3. ASSUME NEW c \in Calls, NEW s \in SessionIds, NEW a \in Answers, Admit(c, s, a)
            PROVE  \A t \in SessionIds : sessions[t].status = "none" => sessions'[t].status = "none"
        BY <4>3 DEF Admit
      <4>4. ASSUME NEW c \in Calls, NEW s \in SessionIds, NEW a \in Answers, ValidateStart(c, s, a)
            PROVE  \/ UNCHANGED sessions
                   \/ RejectExpired(c, s, a) \/ RejectExhausted(c, s, a) \/ Admit(c, s, a)
        BY <4>4 DEF ValidateStart, RejectNotFound, RejectInactive
      <4>5. \/ UNCHANGED sessions
            \/ \E c \in Calls, s \in SessionIds, a \in Answers : ValidateStart(c, s, a)
        BY <1>4 DEF Next, Continue, GenerateStart, GenerateFail, LayerDone,
           DecideMalformed, Answer, ClearSessions, Tick, vars
      <4> QED
        BY <4>0, <4>1, <4>2, <4>3, <4>4, <4>5
    <3> QED
      BY <3>1, SessionsStay
  <2> QED
    BY <2>1, <2>2, <2>3, QuietStep
<1> QED
  BY <1>1, <1>2, <1>3, <1>4

\* What leaves the full log alone leaves the capped one alone too; what logs, logs in both.
LEMMA RecentNext ==
    ASSUME IndInv, RecentInv, [Next]_vars
    PROVE  RecentInv'
<1>1. ASSUME NEW type \in {"captcha_generated", "captcha_validated", "validation_failed"},
             NEW s \in SessionIds, LogSecurityEvent(type, s)
      PROVE  RecentInv'
  <2>1. [type |-> type, sid |-> s] \in Event
    BY DEF Event
  <2> QED
    BY <1>1, <2>1, RecentStep DEF IndInv
<1>2. ASSUME NEW c \in Calls, NEW s \in SessionIds, CreateSession(c, s)
      PROVE  RecentInv'
  BY <1>1, <1>2 DEF CreateSession
<1>3. ASSUME NEW c \in Calls, DecideRight(c) \/ DecideWrong(c)
      PROVE  RecentInv'
  BY <1>1, <1>3 DEF DecideRight, DecideWrong, IndInv, Shape, Admitted
<1>4. CASE UNCHANGED <<securityEvents, statsEvents>>
  BY <1>4 DEF RecentInv
<1> QED
  BY <1>2, <1>3, <1>4 DEF Next, Continue, ValidateStart, GenerateStart, GenerateFail, LayerDone,
     RejectNotFound, RejectInactive, RejectExpired, RejectExhausted, Admit, Reject,
     DecideMalformed, Answer, ClearSessions, Tick, vars

LEMMA InitAudit == Init => AuditComplete /\ RecentInv
<1> SUFFICES ASSUME Init PROVE AuditComplete /\ RecentInv
  OBVIOUS
<1>1. statsEvents = <<>> /\ securityEvents = <<>> /\ Len(statsEvents) = 0
  BY DEF Init
<1>2. RecentInv
  BY <1>1, ServiceAssumption DEF RecentInv
<1>3. \A s, types : EventsOf(s, types) = {}
  BY <1>1 DEF EventsOf
<1>4. \A s, v : v # "none" => ToldOn(s, v) = {}
  BY DEF Init, ToldOn, AdmittedOn
<1>5. \A s \in SessionIds : sessions[s].status = "none"
  BY DEF Init, NoSession
<1>6. \A s \in SessionIds : Complete(s)
  BY <1>3, <1>4, <1>5, FS_EmptySet DEF Complete
<1> QED
  BY <1>2, <1>6, CompleteIsAudit

-----------------------------------------------------------------------------
\* However calls overlap, the security log has one generation for every session, before
\* everything decided on it, and one event for every verdict that was told; and the capped
\* array is its most recent part.
THEOREM AuditTrailKept == Spec => []AuditKept
<1>1. IndInv /\ AuditComplete /\ RecentInv /\ [Next]_vars => AuditComplete' /\ RecentInv'
  BY AuditStep, RecentNext
<1>2. IndInv /\ AuditComplete /\ RecentInv => AuditKept
  BY RecentIsSuffix DEF AuditKept, IndInv
<1> QED
  BY <1>1, <1>2, InitAudit, Invariance, PTL DEF Spec

-----------------------------------------------------------------------------
(* CaptchaService implements CaptchaContract: under the refinement mapping   *)
(* of CaptchaService, its initial state is an initial state of the contract  *)
(* and each of its steps is a contract step or leaves the contract's state   *)
(* alone.                                                                    *)

\* The contract's state, read off the service's.
Open == {s \in SessionIds : sessions[s].status = "active"}
Issued == {s \in SessionIds : sessions[s].status # "none"}
Solved == {s \in SessionIds : sessions[s].status = "validated"}
Granted == [s \in SessionIds |-> AdmittedOn(s)]
Pending == {c \in Calls : pc[c] = "deciding"}

\* No session exists and no call is admitted at the start.
LEMMA RefineInit == Init => Contract!ContractInit
<1> SUFFICES ASSUME Init PROVE Contract!ContractInit
  OBVIOUS
<1>1. \A s \in SessionIds : sessions[s].status = "none"
  BY DEF Init, NoSession
<1>2. \A s \in SessionIds : AdmittedOn(s) = {}
  BY DEF Init, AdmittedOn, Admitted, Verdicts
<1>3. \A c \in Calls : pc[c] = "idle"
  BY DEF Init
<1> QED
  BY <1>1, <1>2, <1>3 DEF Contract!ContractInit

\* The statuses, call sets and suspended calls determine the contract's state.
LEMMA RefineStutter ==
    ASSUME IndInv,
           \A s \in SessionIds : sessions'[s].status = sessions[s].status,
           \A s \in SessionIds : AdmittedOn(s)' = AdmittedOn(s),
           \A c \in Calls : pc'[c] = "deciding" <=> pc[c] = "deciding"
    PROVE  UNCHANGED Contract!contractVars
<1>1. Open' = Open /\ Issued' = Issued /\ Solved' = Solved
  BY DEF Open, Issued, Solved
<1>2. Granted' = Granted
  BY DEF Granted
<1>3. Pending' = Pending
  BY DEF Pending
<1> QED
  BY <1>1, <1>2, <1>3
  DEF Contract!contractVars, Open, Issued, Solved, Granted, Pending

\* Each step of the service is a step of the contract.
LEMMA RefineStep ==
    IndInv /\ IndInv' /\ [Next]_vars
        => [Contract!ContractNext]_(Contract!contractVars)
<1> SUFFICES ASSUME IndInv, IndInv', [Next]_vars
             PROVE  Contract!ContractNext \/ UNCHANGED Contract!contractVars
  OBVIOUS
<1> DEFINE Goal == Contract!ContractNext \/ UNCHANGED Contract!contractVars
<1> USE DEF IndInv, TypeOK
<1>1. ASSUME NEW c \in Calls, NEW n \in 1 .. MaxLayers, GenerateStart(c, n)
      PROVE Goal
  BY <1>1, RefineStutter, SameAdmitted DEF GenerateStart
<1>2. ASSUME NEW c \in Calls, GenerateFail(c) PROVE Goal
  <2>1. \A s \in SessionIds : AdmittedOn(s)' = AdmittedOn(s)
    BY <1>2, RejectAdmitted DEF GenerateFail, GenerateResults
  <2> QED
    BY <1>2, <2>1, RefineStutter DEF GenerateFail
<1>3. ASSUME NEW c \in Calls, NEW s \in SessionIds, CreateSession(c, s)
      PROVE Goal
  <2>1. \A t \in SessionIds : AdmittedOn(t)' = AdmittedOn(t)
    BY <1>3, SameAdmitted DEF CreateSession
  <2>2. /\ sessions[s].status = "none" /\ sessions'[s].status = "active"
        /\ \A t \in SessionIds : t # s => sessions'[t] = sessions[t]
    BY <1>3 DEF CreateSession
  <2>3. Issued' = Issued \cup {s} /\ s \notin Issued
    BY <2>2 DEF Issued
  <2>4. Open' = Open \cup {s} /\ Solved' = Solved
    BY <2>2 DEF Open, Solved
  <2>5. Granted' = Granted /\ Pending' = Pending
    BY <1>3, <2>1 DEF Granted, Pending, CreateSession
  <2>6. Contract!Issue(s)
    BY <2>3, <2>4, <2>5 DEF Contract!Issue, Open, Issued, Solved, Granted, Pending
  <2> QED
    BY <2>6 DEF Contract!ContractNext
<1>4. ASSUME NEW c \in Calls, LayerDone(c) PROVE Goal
  <2>1. \A s \in SessionIds : AdmittedOn(s)' = AdmittedOn(s)
    BY <1>4, RejectAdmitted, SameAdmitted DEF LayerDone, GenerateResults
  <2> QED
    BY <1>4, <2>1, RefineStutter DEF LayerDone
<1>5. ASSUME NEW c \in Calls, NEW s \in SessionIds, NEW a \in Answers,
             ValidateStart(c, s, a)
      PROVE Goal
  <2>1. ASSUME NEW r \in Rejections, Ask(c, s, a), Reject(c, r)
        PROVE  /\ \A t \in SessionIds : AdmittedOn(t)' = AdmittedOn(t)
               /\ \A d \in Calls : pc'[d] = "deciding" <=> pc[d] = "deciding"
    BY <2>1, RejectAdmitted DEF Ask, Reject
  <2>2. CASE RejectNotFound(c, s, a) \/ RejectInactive(c, s, a)
    BY <2>1, <2>2, RefineStutter DEF RejectNotFound, RejectInactive, Rejections
  <2>3. CASE RejectExpired(c, s, a) \/ RejectExhausted(c, s, a)
    <3>1. /\ sessions[s].status = "active"
          /\ sessions'[s].status \in {"expired", "failed"}
          /\ \A t \in SessionIds : t # s => sessions'[t] = sessions[t]
      BY <2>3 DEF RejectExpired, RejectExhausted, Session
    <3>2. s \in Open /\ Open' = Open \ {s}
      BY <3>1 DEF Open
    <3>3. Issued' = Issued /\ Solved' = Solved
      BY <3>1 DEF Issued, Solved
    <3>4. Granted' = Granted /\ Pending' = Pending
      BY <2>1, <2>3 DEF Granted, Pending, RejectExpired, RejectExhausted, Rejections
    <3>5. Contract!Close(s)
      BY <3>2, <3>3, <3>4 DEF Contract!Close, Open, Issued, Solved, Granted, Pending
    <3> QED
      BY <3>5 DEF Contract!ContractNext
  <2>4. CASE Admit(c, s, a)
    <3>1. /\ c \notin AdmittedOn(s)
          /\ AdmittedOn(s)' = AdmittedOn(s) \cup {c}
          /\ \A t \in SessionIds : t # s => AdmittedOn(t)' = AdmittedOn(t)
      BY <2>4, AdmitJoins
    <3>2. \A t \in SessionIds : sessions'[t].status = sessions[t].status
      BY <2>4 DEF Admit, Session
    <3>3. Open' = Open /\ Issued' = Issued /\ Solved' = Solved /\ s \in Open
      BY <2>4, <3>2 DEF Open, Issued, Solved, Admit
    <3>4. Granted' = [Granted EXCEPT ![s] = @ \cup {c}]
      BY <3>1 DEF Granted
    <3>5. Pending' = Pending \cup {c}
      BY <2>4 DEF Pending, Admit
    <3>6. Cardinality(Granted[s]) < MaxAttempts
      BY <2>4 DEF Granted, Admit, AttemptsAccounted
    <3>7. \A t \in SessionIds : c \notin Granted[t]
      BY <2>4 DEF Granted, AdmittedOn, Admitted, Admit, Ask, Shape, Verdicts
    <3>8. Granted' = [Granted EXCEPT ![s] = Granted[s] \cup {c}]
      BY <3>4
    \* The contract's own copy of Cardinality is the same function.
    <3>9. Contract!Cardinality(Granted[s]) = Cardinality(Granted[s])
      BY Zenon DEF Contract!Cardinality, Cardinality
    <3>10. Contract!Grant(s, c)
      BY <3>3, <3>5, <3>6, <3>7, <3>8, <3>9
      DEF Contract!Grant, Open, Issued, Solved, Granted, Pending
    <3> QED
      BY <3>10 DEF Contract!ContractNext
  <2> QED
    BY <1>5, <2>2, <2>3, <2>4 DEF ValidateStart
<1>6. ASSUME NEW c \in Calls, DecideRight(c) PROVE Goal
  <2>1. PICK s \in SessionIds : s = target[c]
    BY <1>6 DEF DecideRight, Shape, Admitted
  <2>2. \A t \in SessionIds : AdmittedOn(t)' = AdmittedOn(t)
    BY <1>6, DecideAdmitted DEF DecideRight, Verdicts
  <2>3. c \in AdmittedOn(s) /\ sessions[s].status # "none"
    BY <1>6, <2>1 DEF AdmittedOn, Admitted, DecideRight, Shape
  <2>4. /\ sessions'[s].status = "validated"
        /\ \A t \in SessionIds : t # s => sessions'[t] = sessions[t]
    BY <1>6, <2>1 DEF DecideRight, Session
  <2>5. Open' = Open \ {s} /\ Issued' = Issued /\ Solved' = Solved \cup {s}
    BY <2>3, <2>4 DEF Open, Issued, Solved
  <2>6. Granted' = Granted /\ Pending' = Pending \ {c} /\ c \in Pending
    BY <1>6, <2>2 DEF Granted, Pending, DecideRight
  <2>7. c \in Granted[s]
    BY <2>3 DEF Granted
  <2>8. Contract!GradeRight(s, c)
    BY <2>5, <2>6, <2>7
    DEF Contract!GradeRight, Open, Issued, Solved, Granted, Pending
  <2> QED
    BY <2>8 DEF Contract!ContractNext
<1>7. ASSUME NEW c \in Calls, DecideWrong(c) \/ DecideMalformed(c) PROVE Goal
  <2>1. \A t \in SessionIds : AdmittedOn(t)' = AdmittedOn(t)
    BY <1>7, DecideAdmitted DEF DecideWrong, DecideMalformed, Verdicts
  <2>2. Open' = Open /\ Issued' = Issued /\ Solved' = Solved
    BY <1>7 DEF Open, Issued, Solved, DecideWrong, DecideMalformed
  <2>3. Granted' = Granted /\ Pending' = Pending \ {c} /\ c \in Pending
    BY <1>7, <2>1 DEF Granted, Pending, DecideWrong, DecideMalformed
  <2>4. Contract!GradeWrong(c)
    BY <2>2, <2>3 DEF Contract!GradeWrong, Open, Issued, Solved, Granted, Pending
  <2> QED
    BY <2>4 DEF Contract!ContractNext
<1>8. ASSUME NEW c \in Calls, Answer(c) PROVE Goal
  BY <1>8, RefineStutter, SameAdmitted DEF Answer
<1>9. CASE ClearSessions \/ Tick \/ UNCHANGED vars
  BY <1>9, RefineStutter, SameAdmitted DEF ClearSessions, Tick, vars, callVars
<1> QED
  BY <1>1, <1>2, <1>3, <1>4, <1>5, <1>6, <1>7, <1>8, <1>9 DEF Next, Continue

\* The service implements the contract: for every number of calls and sessions,
\* guesses are bounded, granted only on open challenges, and a challenge is
\* solved only by a guess granted on it.
THEOREM Refinement == Spec => ImplementsContract
<1>1. Init /\ [][Next]_vars /\ []IndInv => Contract!ContractSpec
  BY RefineInit, RefineStep, PTL DEF Contract!ContractSpec
<1> QED
  BY <1>1, Invariance, PTL DEF Spec, ImplementsContract

=============================================================================
