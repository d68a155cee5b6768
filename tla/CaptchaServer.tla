---------------------------- MODULE CaptchaServer ----------------------------
(***************************************************************************)
(* server.ts: a primary process forks workers and replaces the ones that    *)
(* exit; each worker is an Express application with its own CaptchaService   *)
(* (a Map of sessions) and its own rate limiter.  A request passes the       *)
(* limiter, the body checks and a route; the routes wait for CaptchaService, *)
(* and other requests, the clock, crashes and signals come in between.       *)
(***************************************************************************)
EXTENDS Naturals, FiniteSets

CONSTANTS
    Workers,      \* the worker slots; one slot means no clustering
    Requests,     \* HTTP requests of a behaviour, all from one address
    Kinds,        \* which request is of which kinds (bound)
    SessionIds,   \* UUIDs generateCaptcha may draw
    Limit,        \* app.rateLimitRequests
    Window,       \* windowMs, in clock ticks
    MaxTicks,     \* the clock stops after so many ticks (bound)
    MaxExits      \* processes that exit in one slot (bound)

ASSUME ServerAssumption ==
    /\ IsFiniteSet(Workers) /\ Workers # {}
    /\ IsFiniteSet(Requests)
    /\ Kinds \subseteq Requests \X {"generate", "validate", "health", "bad", "stray"}
    /\ Limit \in Nat \ {0}
    /\ Window \in Nat \ {0}
    /\ MaxTicks \in Nat
    /\ MaxExits \in Nat
    /\ "none" \notin SessionIds \cup Workers

VARIABLES
    up,      \* the primary runs
    proc,    \* the process in each worker slot
    req,     \* the requests
    issued,  \* history: the process that issued each session
    now      \* Date.now()

vars == <<up, proc, req, issued, now>>

-----------------------------------------------------------------------------
Clustered == Cardinality(Workers) > 1

\* The kinds of requests: "bad" ones have a malformed or suspicious body, lack a field
\* or name an unsupported type; "health" stands for the endpoints that only read; a
\* "stray" one is outside of /api/.

\* "routing" waits for its body; "limited" was dropped by the limiter's handler;
\* "closed" has its answer, "broken" lost its process, and the client of an
\* "abandoned" request hung up.
InFlight == {"routing", "generating", "validating", "responding"}
Stages == InFlight \cup {"unsent", "limited", "closed", "broken", "abandoned"}

Verdicts == {"none", "found", "notFound"}

NoProcess == [slot |-> "none", birth |-> 0]

Unsent == [kind |-> "none", sid |-> "none", by |-> NoProcess, stage |-> "unsent",
           gone |-> FALSE, status |-> 0, verdict |-> "none", hitAt |-> 0]

\* A process that just started.  The limiter's store has no entry for the client.
Fresh(n) == [alive |-> TRUE, birth |-> n, exit |-> 0, sessions |-> {},
             hits |-> 0, resetTime |-> 0, requests |-> 0, limitHits |-> 0]

Init ==
    /\ up = TRUE
    /\ proc = [w \in Workers |-> Fresh(0)]
    /\ req = [r \in Requests |-> Unsent]
    /\ issued = [s \in SessionIds |-> NoProcess]
    /\ now = 1

Process(w) == [slot |-> w, birth |-> proc[w].birth]
Slot(r) == req[r].by.slot
Served(w) == {r \in Requests : req[r].by = Process(w)}
Issued(s) == issued[s] # NoProcess

-----------------------------------------------------------------------------
(* The middleware chain.                                                     *)

\* A client validates the sessions it was given.
Known(s) ==
    \E g \in Requests :
        req[g].kind = "generate" /\ req[g].sid = s /\ req[g].stage = "closed"

Received(w, kind, s, stage) ==
    [Unsent EXCEPT !.kind = kind, !.by = Process(w), !.stage = stage,
                   !.sid = IF kind = "validate" THEN s ELSE "none"]

\* The primary, or the kernel, hands the connection to some live worker.
Arrives(r, w, kind, s) ==
    /\ req[r].stage = "unsent"
    /\ proc[w].alive
    /\ kind = "validate" => Known(s)

\* The memory store of express-rate-limit: the window starts with the first hit
\* after the last one ended.
WindowOver(w) == now >= proc[w].resetTime
Hits(w) == IF WindowOver(w) THEN 1 ELSE proc[w].hits + 1

\* A mistake: windows start at multiples of their length, hit or not.
ResetTimeAligned(w) ==
    IF WindowOver(w) THEN ((now \div Window) + 1) * Window ELSE proc[w].resetTime

ResetTime(w) == IF WindowOver(w) THEN now + Window ELSE proc[w].resetTime

\* Only paths under /api/ meet the limiter.
Bypass(r, w, kind, s) ==
    /\ kind = "stray"
    /\ Arrives(r, w, kind, s)
    /\ req' = [req EXCEPT ![r] = Received(w, kind, s, "routing")]
    /\ UNCHANGED <<up, proc, issued, now>>

\* A mistake: the last request within the limit is recorded as a hit of the limit.
LimiterPassesCounting(r, w, kind, s) ==
    /\ kind # "stray"
    /\ Arrives(r, w, kind, s)
    /\ Hits(w) <= Limit
    /\ proc' = [proc EXCEPT ![w].hits = Hits(w), ![w].resetTime = ResetTime(w),
                            ![w].limitHits = IF Hits(w) = Limit THEN @ + 1 ELSE @]
    /\ req' = [req EXCEPT ![r] =
                  [Received(w, kind, s, "routing") EXCEPT !.hitAt = now]]
    /\ UNCHANGED <<up, issued, now>>

LimiterPasses(r, w, kind, s) ==
    /\ kind # "stray"
    /\ Arrives(r, w, kind, s)
    /\ Hits(w) <= Limit
    /\ proc' = [proc EXCEPT ![w].hits = Hits(w), ![w].resetTime = ResetTime(w)]
    /\ req' = [req EXCEPT ![r] =
                  [Received(w, kind, s, "routing") EXCEPT !.hitAt = now]]
    /\ UNCHANGED <<up, issued, now>>

\* The limiter's handler counts the hit, and neither answers nor calls next.
LimiterHandler(r, w, kind, s) ==
    /\ kind # "stray"
    /\ Arrives(r, w, kind, s)
    /\ Hits(w) > Limit
    /\ proc' = [proc EXCEPT ![w].hits = Hits(w), ![w].resetTime = ResetTime(w),
                            ![w].limitHits = @ + 1]
    /\ req' = [req EXCEPT ![r] = Received(w, kind, s, "limited")]
    /\ UNCHANGED <<up, issued, now>>

-----------------------------------------------------------------------------
(* The routes.                                                               *)

Responding(r, status) == [req[r] EXCEPT !.stage = "responding", !.status = status]

\* A mistake: an error handler that forgets next(error).
RouteForgets(r) ==
    /\ req[r].stage = "routing"
    /\ \/ req[r].kind = "health" /\ req' = [req EXCEPT ![r] = Responding(r, 200)]
       \/ req[r].kind = "stray" /\ req' = [req EXCEPT ![r] = Responding(r, 404)]
    /\ UNCHANGED <<up, proc, issued, now>>

\* The error handler, an endpoint that only reads, and the 404 handler.
RouteAnswers(r) ==
    /\ req[r].stage = "routing"
    /\ \/ req[r].kind = "bad" /\ req' = [req EXCEPT ![r] = Responding(r, 400)]
       \/ req[r].kind = "health" /\ req' = [req EXCEPT ![r] = Responding(r, 200)]
       \/ req[r].kind = "stray" /\ req' = [req EXCEPT ![r] = Responding(r, 404)]
    /\ UNCHANGED <<up, proc, issued, now>>

\* The captcha endpoints wait for CaptchaService.
RouteAwaits(r) ==
    /\ req[r].stage = "routing"
    /\ \/ req[r].kind = "generate" /\ req' = [req EXCEPT ![r].stage = "generating"]
       \/ req[r].kind = "validate" /\ req' = [req EXCEPT ![r].stage = "validating"]
    /\ UNCHANGED <<up, proc, issued, now>>

\* A mistake: a CaptchaService made for this request only, and its session lost.
GeneratedApart(r, s) ==
    /\ req[r].stage = "generating"
    /\ ~Issued(s)
    /\ issued' = [issued EXCEPT ![s] = req[r].by]
    /\ req' = [req EXCEPT ![r] = [Responding(r, 200) EXCEPT !.sid = s]]
    /\ UNCHANGED <<up, proc, now>>

\* generateCaptcha stored the session in the Map of this process.
Generated(r, s) ==
    /\ req[r].stage = "generating"
    /\ ~Issued(s)
    /\ proc' = [proc EXCEPT ![Slot(r)].sessions = @ \cup {s}]
    /\ issued' = [issued EXCEPT ![s] = req[r].by]
    /\ req' = [req EXCEPT ![r] = [Responding(r, 200) EXCEPT !.sid = s]]
    /\ UNCHANGED <<up, now>>

\* It threw: next(error).
GenerateFailed(r) ==
    /\ req[r].stage = "generating"
    /\ req' = [req EXCEPT ![r] = Responding(r, 500)]
    /\ UNCHANGED <<up, proc, issued, now>>

VerdictOf(r) == IF req[r].sid \in proc[Slot(r)].sessions THEN "found" ELSE "notFound"

\* validateResponse never throws: whatever it says is sent with status 200.
Validated(r) ==
    /\ req[r].stage = "validating"
    /\ req' = [req EXCEPT ![r] = [Responding(r, 200) EXCEPT !.verdict = VerdictOf(r)]]
    /\ UNCHANGED <<up, proc, issued, now>>

\* The response is out: the finish hook records the request.  The response of a
\* client that hung up never finishes.
Finish(r) ==
    /\ req[r].stage = "responding"
    /\ ~req[r].gone
    /\ proc' = [proc EXCEPT ![Slot(r)].requests = @ + 1]
    /\ req' = [req EXCEPT ![r].stage = "closed"]
    /\ UNCHANGED <<up, issued, now>>

Discard(r) ==
    /\ req[r].stage = "responding"
    /\ req[r].gone
    /\ req' = [req EXCEPT ![r].stage = "abandoned"]
    /\ UNCHANGED <<up, proc, issued, now>>

\* The client hangs up; the handlers do not notice.
HangUp(r) ==
    /\ req[r].stage \in InFlight
    /\ ~req[r].gone
    /\ req' = [req EXCEPT ![r].gone = TRUE]
    /\ UNCHANGED <<up, proc, issued, now>>

-----------------------------------------------------------------------------
(* Processes.                                                                *)

\* The requests in flight at the processes of these slots lose their connection.
Break(slots) ==
    [r \in Requests |->
        IF req[r].stage \in InFlight \cup {"limited"}
              /\ \E w \in slots : req[r].by = Process(w)
        THEN [req[r] EXCEPT !.stage = "broken"]
        ELSE req[r]]

\* process.exit(1) after an uncaught exception or an unhandled rejection, and
\* process.exit(0) when a worker gets SIGTERM or SIGINT.
WorkerExits(w, code) ==
    /\ proc[w].alive
    /\ proc[w].birth < MaxExits
    /\ proc' = [proc EXCEPT ![w].alive = FALSE, ![w].exit = code]
    /\ req' = Break({w})
    /\ UNCHANGED <<up, issued, now>>

\* A mistake: only a failed worker is replaced.
ReforkOnFailure(w) ==
    /\ up /\ Clustered
    /\ ~proc[w].alive
    /\ proc[w].exit # 0
    /\ proc' = [proc EXCEPT ![w] = Fresh(@.birth + 1)]
    /\ UNCHANGED <<up, req, issued, now>>

Refork(w) ==
    /\ up /\ Clustered
    /\ ~proc[w].alive
    /\ proc' = [proc EXCEPT ![w] = Fresh(@.birth + 1)]
    /\ UNCHANGED <<up, req, issued, now>>

\* SIGTERM or SIGINT at the primary: process.exit(0) at once.  Its workers lose
\* the channel to it and exit too.
Shutdown ==
    /\ up
    /\ up' = FALSE
    /\ proc' = [w \in Workers |-> [proc[w] EXCEPT !.alive = FALSE]]
    /\ req' = Break({w \in Workers : proc[w].alive})
    /\ UNCHANGED <<issued, now>>

Tick ==
    /\ now < MaxTicks
    /\ now' = now + 1
    /\ UNCHANGED <<up, proc, req, issued>>

Receive(r) ==
    \E w \in Workers, kind \in {k[2] : k \in {k \in Kinds : k[1] = r}}, s \in SessionIds :
        \/ Bypass(r, w, kind, s)
        \/ LimiterPasses(r, w, kind, s)
        \/ LimiterHandler(r, w, kind, s)

Serve(r) ==
    \/ RouteAnswers(r)
    \/ RouteAwaits(r)
    \/ \E s \in SessionIds : Generated(r, s)
    \/ GenerateFailed(r)
    \/ Validated(r)
    \/ Finish(r)
    \/ Discard(r)

Next ==
    \/ \E r \in Requests : Receive(r) \/ Serve(r) \/ HangUp(r)
    \/ \E w \in Workers :
          \/ \E code \in {0, 1} : WorkerExits(w, code)
          \/ Refork(w)
    \/ Shutdown
    \/ Tick

Spec == Init /\ [][Next]_vars

\* The event loop runs what is pending and the primary handles `exit` events.
FairSpec ==
    /\ Spec
    /\ \A r \in Requests : WF_vars(Serve(r))
    /\ \A w \in Workers : WF_vars(Refork(w))

-----------------------------------------------------------------------------
(* Properties.                                                               *)

\* Every variable keeps its shape.
TypeOK ==
    /\ up \in BOOLEAN
    /\ now \in Nat
    /\ \A w \in Workers :
          /\ proc[w].birth \in 0 .. MaxExits
          /\ proc[w].sessions \subseteq SessionIds
          /\ proc[w].resetTime <= now + Window
    /\ \A r \in Requests : req[r].stage \in Stages /\ req[r].verdict \in Verdicts

\* The limiter's windows follow each other, so that a stretch of windowMs can meet
\* two of them; but each starts with a hit of its own, and whatever the arrivals one
\* process lets less than twice its limit through in any such stretch.
BurstBounded ==
    \A w \in Workers : \A t \in 1 .. now :
        Cardinality({r \in Served(w) : req[r].hitAt \in t .. t + Window - 1}) < 2 * Limit

\* A process knows every session it issued for as long as it runs.
IssuerKnows ==
    \A r \in Requests :
        (req[r].verdict = "notFound") => issued[req[r].sid] # req[r].by

\* The metrics of a process account for every request it accepted: recorded by
\* the finish hook, recorded as a limit hit, still in flight, or hung up on.
RequestsAccounted ==
    \A w \in Workers :
        proc[w].alive =>
            proc[w].requests + proc[w].limitHits
              + Cardinality({r \in Served(w) : req[r].stage \in InFlight \cup {"abandoned"}})
            = Cardinality(Served(w))

\* A request that passed the limiter is answered, unless its process exits or its
\* client hangs up: every path through the routes ends in a response.
RequestsAnswered ==
    \A r \in Requests :
        (req[r].stage = "routing") ~> (req[r].stage \in {"closed", "broken", "abandoned"})

\* The primary replaces every worker that exits, whatever its exit code, until it
\* is shut down itself.
WorkersReplaced == \A w \in Workers : ~proc[w].alive ~> (proc[w].alive \/ ~up)

-----------------------------------------------------------------------------
(* What the documentation says.                                              *)

\* "When rate limit is exceeded, the API returns" 429.
LimitedAnswered ==
    \A r \in Requests : (req[r].stage = "limited") ~> (req[r].status = 429)

============================================================================
