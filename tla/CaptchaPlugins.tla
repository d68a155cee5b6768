---------------------------- MODULE CaptchaPlugins ----------------------------
(***************************************************************************)
(* The Express, Koa, Fastify and NestJS plugins: generate, validate and protect   *)
(* handlers in front of a CaptchaService.  Every plugin instance creates a service *)
(* of its own, so that a session exists for the instance that generated it only.    *)
(* validateResponse waits for settled promises only, and is one step here; the     *)
(* generation of a challenge and the handler behind protect are not.                *)
(***************************************************************************)
EXTENDS Naturals, FiniteSets

CONSTANTS
    Frameworks,      \* of "express", "koa", "fastify", "nest"
    Instances,       \* plugin instances of the process
    PluginSessions,
    PluginRequests,
    PluginAttempts   \* attempts CaptchaService grants a session

VARIABLES
    framework,
    sessions,   \* session -> [at: instance or "none", status, attempts]
    request,    \* request -> what it asks for
    at,         \* request -> how far it got
    told,       \* request -> the status it is answered with, 0 before
    served      \* protected requests whose handler ran

vars == <<framework, sessions, request, at, told, served>>

Nowhere == "nowhere"
NoSession == [at |-> Nowhere, status |-> "none", attempts |-> 0]
NoRequest == [op |-> "none"]

Init ==
    /\ framework \in Frameworks
    /\ sessions = [s \in PluginSessions |-> NoSession]
    /\ request = [r \in PluginRequests |-> NoRequest]
    /\ at = [r \in PluginRequests |-> "idle"]
    /\ told = [r \in PluginRequests |-> 0]
    /\ served = {}

-----------------------------------------------------------------------------
(* CaptchaService.validateResponse, as the plugins see it.                   *)

Verdict(i, s, right) ==
    LET x == sessions[s] IN
    CASE x.at # i -> "not_found"
      [] x.at = i /\ x.status = "overdue" -> "expired"
      [] x.at = i /\ x.status \in {"expired", "validated", "failed"} -> "inactive"
      [] x.at = i /\ x.status = "active" /\ x.attempts >= PluginAttempts -> "max_attempts"
      [] OTHER -> IF right THEN "valid" ELSE "incorrect"

\* MISTAKE: a right answer leaves the session open.
SessionAfterReusable(i, s, right) ==
    LET x == sessions[s]
        v == Verdict(i, s, right)
    IN CASE v = "expired" -> [x EXCEPT !.status = "expired"]
         [] v = "max_attempts" -> [x EXCEPT !.status = "failed"]
         [] v \in {"valid", "incorrect"} -> [x EXCEPT !.attempts = @ + 1]
         [] OTHER -> x

\* A session found past its time is closed as it is answered; so is one whose
\* attempts are used up.
SessionAfter(i, s, right) ==
    LET x == sessions[s]
        v == Verdict(i, s, right)
    IN CASE v = "expired" -> [x EXCEPT !.status = "expired"]
         [] v = "max_attempts" -> [x EXCEPT !.status = "failed"]
         [] v = "valid" -> [x EXCEPT !.status = "validated", !.attempts = @ + 1]
         [] v = "incorrect" -> [x EXCEPT !.attempts = @ + 1]
         [] OTHER -> x

\* The status validate answers a verdict with, found in the words of the message.
StatusOf(v) ==
    CASE v = "valid" -> 200
      [] v = "not_found" -> 404
      [] v = "expired" -> 410
      [] v = "max_attempts" -> 429
      [] OTHER -> 400

-----------------------------------------------------------------------------

\* The first answer goes out; the body a Koa context holds may still be replaced.
Answer(r, status) ==
    /\ told' = [told EXCEPT ![r] = IF @ = 0 \/ framework = "koa" THEN status ELSE @]
    /\ at' = [at EXCEPT ![r] = "done"]

\* A request arrives; protect takes the session, the answer and the type from the
\* headers or the body.
Ask(r, op, i, s) ==
    /\ at[r] = "idle"
    /\ request' = [request EXCEPT ![r] = [op |-> op, i |-> i, s |-> s]]
    /\ UNCHANGED framework

\* options.skip: the request is the application's.
Skipped(r) ==
    \E op \in {"generate", "validate", "protect"}, i \in Instances, s \in PluginSessions :
       /\ Ask(r, op, i, s)
       /\ at' = [at EXCEPT ![r] = "skipped"]
       /\ UNCHANGED <<sessions, told, served>>

\* What a request without its fields, or for a type that is not offered, is answered.  NestJS
\* throws and answers both as a failure of its own; its guard forbids.  Express reads the
\* fields of a body that may be missing, and so does Fastify except in protect.
InvalidStatuses(op) ==
    CASE framework = "nest" -> {IF op = "protect" THEN 403 ELSE 500}
      [] framework = "express" \/ (framework = "fastify" /\ op # "protect") -> {400, 500}
      [] OTHER -> {400}

Invalid(r) ==
    \E op \in {"generate", "validate", "protect"}, i \in Instances, s \in PluginSessions :
       /\ Ask(r, op, i, s)
       /\ \E status \in InvalidStatuses(op) : Answer(r, status)
       /\ UNCHANGED <<sessions, served>>

Generate(r) ==
    \E i \in Instances, s \in PluginSessions :
       /\ sessions[s] = NoSession
       /\ \A q \in PluginRequests : ~(at[q] = "generating" /\ request[q].s = s)
       /\ Ask(r, "generate", i, s)
       /\ at' = [at EXCEPT ![r] = "generating"]
       /\ UNCHANGED <<sessions, told, served>>

\* The response formatter may throw once the session exists.
Generated(r) ==
    /\ at[r] = "generating"
    /\ sessions' = [sessions EXCEPT ![request[r].s] =
                       [at |-> request[r].i, status |-> "active", attempts |-> 0]]
    /\ \E status \in {200, 500} : Answer(r, status)
    /\ UNCHANGED <<framework, request, served>>

GenerateFailed(r) ==
    /\ at[r] = "generating"
    /\ Answer(r, 500)
    /\ UNCHANGED <<framework, sessions, request, served>>

Validate(r) ==
    \E i \in Instances, s \in PluginSessions, right, formats \in BOOLEAN :
       /\ Ask(r, "validate", i, s)
       /\ sessions' = [sessions EXCEPT ![s] = SessionAfter(i, s, right)]
       /\ Answer(r, IF formats THEN StatusOf(Verdict(i, s, right)) ELSE 500)
       /\ UNCHANGED served

\* protect checks no type against those offered, NestJS excepted (Invalid).
Protect(r) ==
    \E i \in Instances, s \in PluginSessions, right \in BOOLEAN :
       /\ Ask(r, "protect", i, s)
       /\ sessions' = [sessions EXCEPT ![s] = SessionAfter(i, s, right)]
       /\ IF Verdict(i, s, right) = "valid"
          THEN at' = [at EXCEPT ![r] = "passed"] /\ UNCHANGED told
          ELSE Answer(r, 403)
       /\ UNCHANGED served

\* The handler behind protect.  Koa awaits it inside the try block: what it throws is
\* answered as a failed validation (500), elsewhere by the application (1).
Handler(r) ==
    /\ at[r] = "passed"
    /\ served' = served \cup {r}
    /\ \E throws \in BOOLEAN :
          Answer(r, IF ~throws THEN 200 ELSE IF framework = "koa" THEN 500 ELSE 1)
    /\ UNCHANGED <<framework, sessions, request>>

\* Time passes.
Expire(s) ==
    /\ sessions[s].status = "active"
    /\ sessions' = [sessions EXCEPT ![s].status = "overdue"]
    /\ UNCHANGED <<framework, request, at, told, served>>

Next ==
    \/ \E r \in PluginRequests :
          \/ Skipped(r) \/ Invalid(r) \/ Generate(r) \/ Generated(r) \/ GenerateFailed(r)
          \/ Validate(r) \/ Protect(r) \/ Handler(r)
    \/ \E s \in PluginSessions : Expire(s)

Spec == Init /\ [][Next]_vars

-----------------------------------------------------------------------------

\* A session lets at most one request through to its handler, and only after its
\* own instance accepted the answer: one solved challenge is not spent twice,
\* whether protect or validate took the answer.
SpentOnce ==
    /\ \A r \in served : sessions[request[r].s].status = "validated"
                         /\ sessions[request[r].s].at = request[r].i
    /\ \A r, q \in PluginRequests :
         /\ r # q /\ r \in served /\ request[q].op # "none" /\ request[q].s = request[r].s
         => q \notin served /\ ~(request[q].op = "validate" /\ told[q] = 200)

\* A request that is refused was not served.  Koa's 500 is excepted: it may stand for
\* an error of the handler itself.
RefusedNotServed ==
    \A r \in served : told[r] \notin {400, 403} /\ (told[r] = 500 => framework = "koa")

\* "SESSION_NOT_FOUND": an instance that denies a session did not generate it, at
\* least not before it answered; one it generated is never denied again.
DeniedIsForeign ==
    [][\A r \in PluginRequests :
         told[r] = 0 /\ told'[r] = 404 => sessions[request'[r].s].at # request'[r].i]_vars

=============================================================================
