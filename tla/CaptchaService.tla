--------------------------- MODULE CaptchaService ---------------------------
(***************************************************************************)
(* core/captcha-service.ts: the in-memory session store of the CAPTCHA       *)
(* engine.  Every call of generateCaptcha / generateMultiLayerCaptcha /      *)
(* validateResponse is a process; its code runs without interruption between *)
(* two awaits, and other calls run at the awaits.  The session Map is        *)
(* `stored`; the session objects, which an in-flight call keeps a reference  *)
(* to after clearSessions(), are `sessions`.                                 *)
(***************************************************************************)
EXTENDS Naturals, Sequences, FiniteSets

CONSTANTS
    SessionIds,      \* the UUIDs the generators may draw
    Calls,           \* the API calls of a behaviour
    MaxAttempts,     \* session.maxAttempts (3 in the code)
    SessionTimeout,  \* config.app.sessionTimeout
    MaxLayers,       \* longest list of layers a caller asks for (bound)
    MaxEvents,       \* capacity of CryptoService.securityEvents (1000)
    MaxTime          \* the clock stops here (bound)

ASSUME ServiceAssumption ==
    /\ IsFiniteSet(Calls)
    /\ IsFiniteSet(SessionIds)
    /\ MaxAttempts \in Nat \ {0}
    /\ SessionTimeout \in Nat
    /\ MaxLayers \in Nat \ {0}
    /\ MaxEvents \in Nat \ {0}
    /\ MaxTime \in Nat

NoId == "no id"

ASSUME NoIdAssumption == NoId \notin SessionIds

VARIABLES
    now,             \* Date.now()
    sessions,        \* the session objects, by id ("none": not created)
    stored,          \* the keys of the sessions Map
    securityEvents,  \* CryptoService.securityEvents, the capped array
    statsEvents,     \* CryptoService.stats.securityEvents, never trimmed
    pc,              \* where each call is suspended
    target,          \* sessionId argument of a validateResponse call
    answer,          \* what compareAnswers will say of its response argument
    layers,          \* number of layers a generate call asked for
    made,            \* sessions a generate call has stored so far
    result,          \* what the call has decided to return
    peers            \* history: calls suspended on the same session when this
                     \* call passed the checks

callVars == <<pc, target, answer, layers, made, result, peers>>
vars == <<now, sessions, stored, securityEvents, statsEvents, callVars>>

-----------------------------------------------------------------------------
Status == {"none", "active", "validated", "expired", "failed"}

\* compareAnswers accepts, rejects, or throws: response.toLowerCase() of a JSON
\* number is a TypeError, caught at the end of validateResponse.
Answers == {"right", "wrong", "malformed"}

Rejections == {"notFound", "inactive", "expired", "exhausted"}
Verdicts == {"valid", "incorrect", "error"}
GenerateResults == {"captchas", "generateError"}

Session == [status : Status, attempts : 0 .. MaxAttempts, expiresAt : Nat]

Event == [type : {"captcha_generated", "captcha_validated", "validation_failed"},
          sid : SessionIds]

NoSession == [status |-> "none", attempts |-> 0, expiresAt |-> 0]

\* Calls that passed every check of validateResponse and consumed an attempt.
Admitted(c) == result[c] \in {"pending"} \cup Verdicts
AdmittedOn(s) == {c \in Calls : target[c] = s /\ Admitted(c)}
DecidingOn(s) == {c \in Calls : target[c] = s /\ pc[c] = "deciding"}

-----------------------------------------------------------------------------
Init ==
    /\ now = 0
    /\ sessions = [s \in SessionIds |-> NoSession]
    /\ stored = {}
    /\ securityEvents = <<>>
    /\ statsEvents = <<>>
    /\ pc = [c \in Calls |-> "idle"]
    /\ target = [c \in Calls |-> NoId]
    /\ answer = [c \in Calls |-> "wrong"]
    /\ layers = [c \in Calls |-> 0]
    /\ made = [c \in Calls |-> {}]
    /\ result = [c \in Calls |-> "none"]
    /\ peers = [c \in Calls |-> {}]

\* logSecurityEvent: push to both arrays, then shift the capped one.
Capped(log) == IF Len(log) > MaxEvents THEN Tail(log) ELSE log

LogSecurityEvent(type, s) ==
    LET event == [type |-> type, sid |-> s] IN
    /\ securityEvents' = Capped(Append(securityEvents, event))
    /\ statsEvents' = Append(statsEvents, event)

-----------------------------------------------------------------------------
(* generateCaptcha (one layer) and generateMultiLayerCaptcha (several).      *)

GenerateStart(c, n) ==
    /\ pc[c] = "idle"
    /\ pc' = [pc EXCEPT ![c] = "generating"]
    /\ layers' = [layers EXCEPT ![c] = n]
    /\ UNCHANGED <<now, sessions, stored, securityEvents, statsEvents,
                   target, answer, made, result, peers>>

\* An unsupported type or difficulty: the layer throws before it stores its
\* session.  What earlier layers of the same call stored stays.
GenerateFail(c) ==
    /\ pc[c] = "generating"
    /\ pc' = [pc EXCEPT ![c] = "done"]
    /\ result' = [result EXCEPT ![c] = "generateError"]
    /\ UNCHANGED <<now, sessions, stored, securityEvents, statsEvents,
                   target, answer, layers, made, peers>>

\* The layer's answer is encrypted: store the session and log, up to the await.
CreateSession(c, s) ==
    /\ pc[c] = "generating"
    /\ sessions[s].status = "none"
    /\ sessions' = [sessions EXCEPT ![s] = [status |-> "active", attempts |-> 0,
                                            expiresAt |-> now + SessionTimeout]]
    /\ stored' = stored \cup {s}
    /\ LogSecurityEvent("captcha_generated", s)
    /\ made' = [made EXCEPT ![c] = @ \cup {s}]
    /\ pc' = [pc EXCEPT ![c] = "announcing"]
    /\ UNCHANGED <<now, target, answer, layers, result, peers>>

\* Mistake: the loop stops one layer early.
LayerDoneEarly(c) ==
    /\ pc[c] = "announcing"
    /\ IF Cardinality(made[c]) + 1 < layers[c]
       THEN /\ pc' = [pc EXCEPT ![c] = "generating"]
            /\ UNCHANGED result
       ELSE /\ pc' = [pc EXCEPT ![c] = "done"]
            /\ result' = [result EXCEPT ![c] = "captchas"]
    /\ UNCHANGED <<now, sessions, stored, securityEvents, statsEvents,
                   target, answer, layers, made, peers>>

\* The layer's response is pushed; the loop takes the next layer or returns.
LayerDone(c) ==
    /\ pc[c] = "announcing"
    /\ \/ /\ Cardinality(made[c]) < layers[c]
          /\ pc' = [pc EXCEPT ![c] = "generating"]
          /\ UNCHANGED result
       \/ /\ Cardinality(made[c]) >= layers[c]
          /\ pc' = [pc EXCEPT ![c] = "done"]
          /\ result' = [result EXCEPT ![c] = "captchas"]
    /\ UNCHANGED <<now, sessions, stored, securityEvents, statsEvents,
                   target, answer, layers, made, peers>>

-----------------------------------------------------------------------------
(* validateResponse, first part: the checks, up to `await decryptAnswer`.    *)

\* A client has an id once the generate call that made it returned; any other
\* string it may send names no session.
Known(s) ==
    \/ \E d \in Calls : result[d] = "captchas" /\ s \in made[d]
    \/ sessions[s].status = "none"

Ask(c, s, a) ==
    /\ pc[c] = "idle"
    /\ Known(s)
    /\ target' = [target EXCEPT ![c] = s]
    /\ answer' = [answer EXCEPT ![c] = a]

Reject(c, r) ==
    /\ pc' = [pc EXCEPT ![c] = "done"]
    /\ result' = [result EXCEPT ![c] = r]
    /\ UNCHANGED <<now, stored, securityEvents, statsEvents, layers, made, peers>>

RejectNotFound(c, s, a) ==
    /\ Ask(c, s, a)
    /\ s \notin stored
    /\ Reject(c, "notFound")
    /\ UNCHANGED sessions

RejectInactive(c, s, a) ==
    /\ Ask(c, s, a)
    /\ s \in stored
    /\ sessions[s].status # "active"
    /\ Reject(c, "inactive")
    /\ UNCHANGED sessions

\* Mistake: the deadline is looked at before the status.
RejectExpiredFirst(c, s, a) ==
    /\ Ask(c, s, a)
    /\ s \in stored
    /\ now > sessions[s].expiresAt
    /\ sessions' = [sessions EXCEPT ![s].status = "expired"]
    /\ Reject(c, "expired")

RejectExpired(c, s, a) ==
    /\ Ask(c, s, a)
    /\ s \in stored
    /\ sessions[s].status = "active"
    /\ now > sessions[s].expiresAt
    /\ sessions' = [sessions EXCEPT ![s].status = "expired"]
    /\ Reject(c, "expired")

RejectExhausted(c, s, a) ==
    /\ Ask(c, s, a)
    /\ s \in stored
    /\ sessions[s].status = "active"
    /\ now <= sessions[s].expiresAt
    /\ sessions[s].attempts >= MaxAttempts
    /\ sessions' = [sessions EXCEPT ![s].status = "failed"]
    /\ Reject(c, "exhausted")

\* Mistakes: an off-by-one in the attempt check, an attempt counted only after
\* the comparison, no look at the status.
AdmitOneMore(c, s, a) ==
    /\ Ask(c, s, a)
    /\ s \in stored
    /\ sessions[s].status = "active"
    /\ now <= sessions[s].expiresAt
    /\ sessions[s].attempts <= MaxAttempts
    /\ sessions' = [sessions EXCEPT ![s].attempts = @ + 1]
    /\ pc' = [pc EXCEPT ![c] = "deciding"]
    /\ result' = [result EXCEPT ![c] = "pending"]
    /\ peers' = [peers EXCEPT ![c] = DecidingOn(s)]
    /\ UNCHANGED <<now, stored, securityEvents, statsEvents, layers, made>>

AdmitUncounted(c, s, a) ==
    /\ Ask(c, s, a)
    /\ s \in stored
    /\ sessions[s].status = "active"
    /\ now <= sessions[s].expiresAt
    /\ sessions[s].attempts < MaxAttempts
    /\ pc' = [pc EXCEPT ![c] = "deciding"]
    /\ result' = [result EXCEPT ![c] = "pending"]
    /\ peers' = [peers EXCEPT ![c] = DecidingOn(s)]
    /\ UNCHANGED <<now, sessions, stored, securityEvents, statsEvents, layers, made>>

AdmitInactive(c, s, a) ==
    /\ Ask(c, s, a)
    /\ s \in stored
    /\ now <= sessions[s].expiresAt
    /\ sessions[s].attempts < MaxAttempts
    /\ sessions' = [sessions EXCEPT ![s].attempts = @ + 1]
    /\ pc' = [pc EXCEPT ![c] = "deciding"]
    /\ result' = [result EXCEPT ![c] = "pending"]
    /\ peers' = [peers EXCEPT ![c] = DecidingOn(s)]
    /\ UNCHANGED <<now, stored, securityEvents, statsEvents, layers, made>>

\* session.attempts++ and suspend on the decryption.
Admit(c, s, a) ==
    /\ Ask(c, s, a)
    /\ s \in stored
    /\ sessions[s].status = "active"
    /\ now <= sessions[s].expiresAt
    /\ sessions[s].attempts < MaxAttempts
    /\ sessions' = [sessions EXCEPT ![s].attempts = @ + 1]
    /\ pc' = [pc EXCEPT ![c] = "deciding"]
    /\ result' = [result EXCEPT ![c] = "pending"]
    /\ peers' = [peers EXCEPT ![c] = DecidingOn(s)]
    /\ UNCHANGED <<now, stored, securityEvents, statsEvents, layers, made>>

(* validateResponse, second part: compare, write the status, log.  The       *)
(* session object is the one read before the await; its status is not read   *)
(* again.                                                                    *)

\* Mistake: the success is not logged.
DecideRightUnlogged(c) ==
    /\ pc[c] = "deciding"
    /\ answer[c] = "right"
    /\ sessions' = [sessions EXCEPT ![target[c]].status = "validated"]
    /\ pc' = [pc EXCEPT ![c] = "answering"]
    /\ result' = [result EXCEPT ![c] = "valid"]
    /\ UNCHANGED <<now, stored, securityEvents, statsEvents,
                   target, answer, layers, made, peers>>

DecideRight(c) ==
    /\ pc[c] = "deciding"
    /\ answer[c] = "right"
    /\ sessions' = [sessions EXCEPT ![target[c]].status = "validated"]
    /\ LogSecurityEvent("captcha_validated", target[c])
    /\ pc' = [pc EXCEPT ![c] = "answering"]
    /\ result' = [result EXCEPT ![c] = "valid"]
    /\ UNCHANGED <<now, stored, target, answer, layers, made, peers>>

\* Mistake: the last wrong answer fails the session, whatever its status is now.
DecideWrongFails(c) ==
    /\ pc[c] = "deciding"
    /\ answer[c] = "wrong"
    /\ sessions' = IF sessions[target[c]].attempts >= MaxAttempts
                   THEN [sessions EXCEPT ![target[c]].status = "failed"]
                   ELSE sessions
    /\ LogSecurityEvent("validation_failed", target[c])
    /\ pc' = [pc EXCEPT ![c] = "answering"]
    /\ result' = [result EXCEPT ![c] = "incorrect"]
    /\ UNCHANGED <<now, stored, target, answer, layers, made, peers>>

DecideWrong(c) ==
    /\ pc[c] = "deciding"
    /\ answer[c] = "wrong"
    /\ LogSecurityEvent("validation_failed", target[c])
    /\ pc' = [pc EXCEPT ![c] = "answering"]
    /\ result' = [result EXCEPT ![c] = "incorrect"]
    /\ UNCHANGED <<now, sessions, stored, target, answer, layers, made, peers>>

\* The comparison throws: the catch clause answers, and nothing is logged.
DecideMalformed(c) ==
    /\ pc[c] = "deciding"
    /\ answer[c] = "malformed"
    /\ pc' = [pc EXCEPT ![c] = "done"]
    /\ result' = [result EXCEPT ![c] = "error"]
    /\ UNCHANGED <<now, sessions, stored, securityEvents, statsEvents,
                   target, answer, layers, made, peers>>

\* After `await logSecurityEvent`: the promise of the call resolves.
Answer(c) ==
    /\ pc[c] = "answering"
    /\ pc' = [pc EXCEPT ![c] = "done"]
    /\ UNCHANGED <<now, sessions, stored, securityEvents, statsEvents,
                   target, answer, layers, made, result, peers>>

-----------------------------------------------------------------------------
ClearSessions ==
    /\ stored # {}
    /\ stored' = {}
    /\ UNCHANGED <<now, sessions, securityEvents, statsEvents, callVars>>

Tick ==
    /\ now < MaxTime
    /\ now' = now + 1
    /\ UNCHANGED <<sessions, stored, securityEvents, statsEvents, callVars>>

\* The continuations of a call: run by the event loop once the call started.
Continue(c) ==
    \/ GenerateFail(c)
    \/ \E s \in SessionIds : CreateSession(c, s)
    \/ LayerDone(c)
    \/ DecideRight(c)
    \/ DecideWrong(c)
    \/ DecideMalformed(c)
    \/ Answer(c)

ValidateStart(c, s, a) ==
    \/ RejectNotFound(c, s, a)
    \/ RejectInactive(c, s, a)
    \/ RejectExpired(c, s, a)
    \/ RejectExhausted(c, s, a)
    \/ Admit(c, s, a)

Next ==
    \/ \E c \in Calls, n \in 1 .. MaxLayers : GenerateStart(c, n)
    \/ \E c \in Calls, s \in SessionIds, a \in Answers : ValidateStart(c, s, a)
    \/ \E c \in Calls : Continue(c)
    \/ ClearSessions
    \/ Tick

Spec == Init /\ [][Next]_vars

-----------------------------------------------------------------------------
(* Properties.                                                               *)

\* Every variable keeps the shape the code gives it.
TypeOK ==
    /\ now \in Nat
    /\ sessions \in [SessionIds -> Session]
    /\ stored \in SUBSET SessionIds
    /\ securityEvents \in Seq(Event)
    /\ statsEvents \in Seq(Event)
    /\ pc \in [Calls -> {"idle", "generating", "announcing", "deciding",
                         "answering", "done"}]
    /\ target \in [Calls -> SessionIds \cup {NoId}]
    /\ answer \in [Calls -> Answers]
    /\ layers \in [Calls -> 0 .. MaxLayers]
    /\ made \in [Calls -> SUBSET SessionIds]
    /\ result \in [Calls -> {"none", "pending"} \cup Rejections \cup Verdicts
                                \cup GenerateResults]
    /\ peers \in [Calls -> SUBSET Calls]

\* However validateResponse calls overlap, a session's attempt counter is the
\* number of calls that got past its checks, and never more than maxAttempts
\* responses to one challenge are compared with its answer.
AttemptsAccounted ==
    \A s \in SessionIds :
        /\ sessions[s].attempts = Cardinality(AdmittedOn(s))
        /\ Cardinality(AdmittedOn(s)) <= MaxAttempts

\* A session's status is 'validated' exactly when some admitted call compared a
\* right response: no other write undoes it, none of the other answers causes it.
ValidatedByRightAnswer ==
    \A s \in SessionIds :
        sessions[s].status = "validated"
            <=> \E c \in AdmittedOn(s) : answer[c] = "right" /\ result[c] = "valid"

Overlapped(c, d) == c \in peers[d] \/ d \in peers[c]

\* One challenge answers valid:true to two calls only if they overlapped: one of
\* them was suspended between its checks and its verdict when the other passed
\* the checks.  A response sent again after the first verdict is refused.
SuccessesOverlap ==
    \A c, d \in Calls :
        (c # d /\ result[c] = "valid" /\ result[d] = "valid" /\ target[c] = target[d])
            => Overlapped(c, d)

\* A generation that fails never leaves as many sessions as it was asked for,
\* one that succeeds leaves exactly that many, and no session has two owners.
GenerationAccounted ==
    \A c \in Calls :
        /\ result[c] = "generateError" => Cardinality(made[c]) < layers[c]
        /\ result[c] = "captchas" => Cardinality(made[c]) = layers[c]
        /\ \A d \in Calls : c # d => made[c] \cap made[d] = {}

EventsOf(s, types) ==
    {i \in 1 .. Len(statsEvents) :
        statsEvents[i].sid = s /\ statsEvents[i].type \in types}

\* The security log agrees with the answers: a session has one generation
\* event, before its others, and one event per verdict other than the calls
\* whose comparison threw.
AuditComplete ==
    \A s \in SessionIds :
        /\ Cardinality(EventsOf(s, {"captcha_generated"}))
               = IF sessions[s].status = "none" THEN 0 ELSE 1
        /\ \A i \in EventsOf(s, {"captcha_generated"}),
              j \in EventsOf(s, {"captcha_validated", "validation_failed"}) : i < j
        /\ Cardinality(EventsOf(s, {"captcha_validated"}))
               = Cardinality({c \in AdmittedOn(s) : result[c] = "valid"})
        /\ Cardinality(EventsOf(s, {"validation_failed"}))
               = Cardinality({c \in AdmittedOn(s) : result[c] = "incorrect"})

\* The capped event array is always the most recent part of the full history.
CappedLogIsRecent ==
    /\ Len(securityEvents) <= MaxEvents
    /\ Len(statsEvents) >= Len(securityEvents)
    /\ Len(statsEvents) > Len(securityEvents) => Len(securityEvents) = MaxEvents
    /\ securityEvents = SubSeq(statsEvents,
                               Len(statsEvents) - Len(securityEvents) + 1,
                               Len(statsEvents))

\* The security log tells what happened: completely in the statistics, and with its most
\* recent part in the capped array.
AuditKept == AuditComplete /\ CappedLogIsRecent

\* A session changes status only along the edges the code has: an open session
\* may end in any of the three ways, a failed or expired one may still be
\* validated by a call already past the checks, a validated one is final; the
\* attempt counter never falls and the deadline never moves.
Lifecycle ==
    [][\A s \in SessionIds :
        LET old == sessions[s]
            new == sessions[s]'
        IN  old.status # "none" =>
              /\ new.attempts >= old.attempts
              /\ new.expiresAt = old.expiresAt
              /\ \/ new.status = old.status
                 \/ old.status = "active" /\ new.status \in {"validated", "expired", "failed"}
                 \/ /\ old.status \in {"expired", "failed"}
                    /\ new.status = "validated"
                    /\ DecidingOn(s) # {}]_vars

-----------------------------------------------------------------------------
(* The abstract contract, under the mapping a reader of the code would give. *)

Contract == INSTANCE CaptchaContract WITH
    Challenges <- SessionIds,
    Guesses <- Calls,
    open <- {s \in SessionIds : sessions[s].status = "active"},
    issued <- {s \in SessionIds : sessions[s].status # "none"},
    solved <- {s \in SessionIds : sessions[s].status = "validated"},
    granted <- [s \in SessionIds |-> AdmittedOn(s)],
    pending <- {c \in Calls : pc[c] = "deciding"}

\* The service implements the contract: bounded guesses, granted only on open
\* and unsolved challenges, and solved only by a granted guess.
ImplementsContract == Contract!ContractSpec

============================================================================
