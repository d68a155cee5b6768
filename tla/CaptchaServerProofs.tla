-------------------------- MODULE CaptchaServerProofs --------------------------
(***************************************************************************)
(* Proofs about CaptchaServer, for any number of workers, requests, sessions *)
(* and exits.  The inductive invariant follows the connection of every       *)
(* request: which process holds it, and that the process is the one running  *)
(* in its slot for as long as an answer can still come.                      *)
(***************************************************************************)
EXTENDS CaptchaServer, FiniteSetTheorems, TLAPS

ProcessId == [slot : Workers \cup {"none"}, birth : Nat]

ProcessState ==
    [alive : BOOLEAN, birth : Nat, exit : Nat, sessions : SUBSET SessionIds,
     hits : Nat, resetTime : Nat, requests : Nat, limitHits : Nat]

RequestState ==
    [kind : {"none", "generate", "validate", "health", "bad", "stray"},
     sid : SessionIds \cup {"none"}, by : ProcessId, stage : Stages, gone : BOOLEAN,
     status : Nat, verdict : Verdicts, hitAt : Nat]

Typed ==
    /\ up \in BOOLEAN
    /\ now \in Nat \ {0}
    /\ proc \in [Workers -> ProcessState]
    /\ req \in [Requests -> RequestState]
    /\ issued \in [SessionIds -> ProcessId]

\* A slot is forked again only after one of its MaxExits exits; no window ends more
\* than windowMs from now.
Bounded ==
    \A w \in Workers :
        /\ proc[w].birth <= MaxExits
        /\ (up /\ ~proc[w].alive) => proc[w].birth < MaxExits
        /\ proc[w].resetTime <= now + Window

\* Every request that arrived is held by a process of a slot; while it can still be
\* answered, and while its connection hangs at the limiter, that process runs.
Held(r) ==
    /\ req[r].stage = "unsent" <=> req[r].by = NoProcess
    /\ req[r].stage # "unsent" =>
          Slot(r) \in Workers /\ req[r].by.birth <= proc[Slot(r)].birth
    /\ req[r].stage \in InFlight \cup {"limited"} =>
          req[r].by = Process(Slot(r)) /\ proc[Slot(r)].alive
    /\ req[r].stage = "broken" => ~(req[r].by = Process(Slot(r)) /\ proc[Slot(r)].alive)

Connected == \A r \in Requests : Held(r)

\* A session is in the Map of the process that issued it; a request that names one
\* was given it before.
Issuing ==
    /\ \A s \in SessionIds : Issued(s) =>
          /\ issued[s].slot \in Workers
          /\ issued[s].birth <= proc[issued[s].slot].birth
          /\ \A w \in Workers : issued[s] = Process(w) => s \in proc[w].sessions
    /\ \A r \in Requests :
          /\ req[r].sid # "none" => Issued(req[r].sid)
          /\ (req[r].kind = "validate" /\ req[r].stage # "unsent") => req[r].sid # "none"
          /\ req[r].stage = "validating" => req[r].kind = "validate"
          /\ req[r].stage \in {"routing", "generating", "validating"} => req[r].verdict = "none"
          /\ req[r].verdict = "notFound" =>
                req[r].sid # "none" /\ issued[req[r].sid] # req[r].by

On(w, stage) == {r \in Requests : req[r].by = Process(w) /\ req[r].stage = stage}

\* The counters of a process are the numbers of its answered and limited requests.
Counted ==
    \A w \in Workers : proc[w].alive =>
        /\ proc[w].requests = Cardinality(On(w, "closed"))
        /\ proc[w].limitHits = Cardinality(On(w, "limited"))

IndInv == Typed /\ Bounded /\ Connected /\ Issuing /\ Counted

-----------------------------------------------------------------------------
LEMMA InitGood == Init => IndInv
<1> SUFFICES ASSUME Init PROVE IndInv
  OBVIOUS
<1> USE ServerAssumption DEF Init
<1>1. Fresh(0) \in ProcessState
  BY DEF Fresh, ProcessState
<1>2. NoProcess \in ProcessId
  BY DEF NoProcess, ProcessId
<1>3. Unsent \in RequestState
  BY <1>2 DEF Unsent, RequestState, Stages, Verdicts
<1>4. Typed
  BY <1>1, <1>2, <1>3 DEF Typed
<1>5. Bounded
  BY DEF Bounded, Fresh
<1>6. Connected
  BY DEF Connected, Held, Unsent, InFlight
<1>7. Issuing
  BY DEF Issuing, Issued, Unsent
<1>8. Counted
  <2> SUFFICES ASSUME NEW w \in Workers
               PROVE  On(w, "closed") = {} /\ On(w, "limited") = {}
    BY FS_EmptySet DEF Counted, Fresh
  <2> QED
    BY DEF On, Unsent
<1> QED
  BY <1>4, <1>5, <1>6, <1>7, <1>8 DEF IndInv

-----------------------------------------------------------------------------
\* The writes to a process keep its type.
LEMMA ProcessWrites ==
    ASSUME NEW p \in ProcessState, NEW m \in Nat, NEW n \in Nat, NEW code \in Nat
    PROVE  /\ [p EXCEPT !.hits = m, !.resetTime = n] \in ProcessState
           /\ [p EXCEPT !.alive = FALSE, !.exit = code] \in ProcessState
           /\ [p EXCEPT !.alive = FALSE] \in ProcessState
           /\ [p EXCEPT !.requests = @ + 1] \in ProcessState
<1>1. [p EXCEPT !.hits = m, !.resetTime = n] \in ProcessState
  BY DEF ProcessState
<1>2. [p EXCEPT !.exit = code] \in ProcessState
  BY DEF ProcessState
<1>3. \A q \in ProcessState : [q EXCEPT !.alive = FALSE] \in ProcessState
  BY DEF ProcessState
<1>4. [p EXCEPT !.alive = FALSE, !.exit = code] = [[p EXCEPT !.exit = code] EXCEPT !.alive = FALSE]
  BY DEF ProcessState
<1>5. [p EXCEPT !.requests = @ + 1] \in ProcessState
  BY DEF ProcessState
<1> QED
  BY <1>1, <1>2, <1>3, <1>4, <1>5

-----------------------------------------------------------------------------
\* Types.
LEMMA TypedStep ==
    ASSUME Typed, Connected, [Next]_vars
    PROVE  Typed'
<1> USE ServerAssumption DEF Typed
<1>1. \A w \in Workers : Process(w) \in ProcessId
  BY DEF Process, ProcessId, ProcessState
<1>2. ASSUME NEW r \in Requests, Receive(r)
      PROVE  Typed'
  <2>1. PICK w \in Workers, k \in Kinds, s \in SessionIds :
            \/ Bypass(r, w, k[2], s)
            \/ LimiterPasses(r, w, k[2], s)
            \/ LimiterHandler(r, w, k[2], s)
    BY <1>2 DEF Receive
  <2> DEFINE kind == k[2]
  <2>2. kind \in {"generate", "validate", "health", "bad", "stray"}
    BY <2>1
  <2> HIDE DEF kind
  <2>3. \A stage \in {"routing", "limited"} : Received(w, kind, s, stage) \in RequestState
    <3>1. NoProcess \in ProcessId
      BY DEF NoProcess, ProcessId
    <3> QED
      BY <1>1, <2>2, <3>1 DEF Received, Unsent, RequestState, Stages, Verdicts, InFlight
  <2>4. Hits(w) \in Nat /\ ResetTime(w) \in Nat
    BY DEF Hits, ResetTime, WindowOver, ProcessState
  <2>5. /\ UNCHANGED <<up, issued, now>>
        /\ proc' \in [Workers -> ProcessState]
        /\ req' \in [Requests -> RequestState]
    <3>1. CASE Bypass(r, w, kind, s)
      BY <2>3, <3>1 DEF Bypass
    <3>2. CASE LimiterPasses(r, w, kind, s)
      <4>1. [Received(w, kind, s, "routing") EXCEPT !.hitAt = now] \in RequestState
        BY <2>3 DEF RequestState
      <4>2. proc' \in [Workers -> ProcessState]
        <5> DEFINE p == [proc[w] EXCEPT !.hits = Hits(w), !.resetTime = ResetTime(w)]
        <5>1. p \in ProcessState
          BY <2>1, <2>4, ProcessWrites
        <5>2. proc' = [proc EXCEPT ![w] = p]
          BY <3>2 DEF LimiterPasses
        <5> HIDE DEF p
        <5> QED
          BY <5>1, <5>2
      <4> QED
        BY <3>2, <4>1, <4>2 DEF LimiterPasses
    <3>3. CASE LimiterHandler(r, w, kind, s)
      <4>2. proc' \in [Workers -> ProcessState]
        BY <2>4, <3>3 DEF LimiterHandler, ProcessState
      <4> QED
        BY <2>3, <3>3, <4>2 DEF LimiterHandler
    <3> QED
      BY <2>1, <3>1, <3>2, <3>3 DEF kind
  <2> QED
    BY <2>5
<1>3. ASSUME NEW r \in Requests, Serve(r) \/ HangUp(r)
      PROVE  Typed'
  <2>1. \A status \in Nat : Responding(r, status) \in RequestState
    BY DEF Responding, RequestState, Stages, InFlight
  <2>2. CASE RouteAnswers(r)
    BY <2>1, <2>2 DEF RouteAnswers
  <2>3. CASE RouteAwaits(r)
    BY <2>3 DEF RouteAwaits, RequestState, Stages, InFlight
  <2>4. ASSUME NEW s \in SessionIds, Generated(r, s) PROVE Typed'
    <3>1. [Responding(r, 200) EXCEPT !.sid = s] \in RequestState
      BY <2>1 DEF RequestState
    <3>2. proc' \in [Workers -> ProcessState]
      BY <2>4 DEF Generated, ProcessState
    <3>3. req[r].by \in ProcessId
      BY DEF RequestState
    <3> QED
      BY <2>4, <3>1, <3>2, <3>3 DEF Generated
  <2>5. CASE GenerateFailed(r)
    BY <2>1, <2>5 DEF GenerateFailed
  <2>6. CASE Validated(r)
    <3>1. VerdictOf(r) \in Verdicts
      BY DEF VerdictOf, Verdicts
    <3>2. [Responding(r, 200) EXCEPT !.verdict = VerdictOf(r)] \in RequestState
      BY <2>1, <3>1 DEF RequestState
    <3> QED
      BY <2>6, <3>2 DEF Validated
  <2>7. CASE Finish(r)
    <3>1. proc' \in [Workers -> ProcessState]
      <4> DEFINE p == [proc[Slot(r)] EXCEPT !.requests = @ + 1]
      <4>1. Slot(r) \in Workers
        BY <2>7 DEF Finish, Connected, Held
      <4>2. p \in ProcessState
        BY <4>1 DEF ProcessState
      <4>3. proc' = [proc EXCEPT ![Slot(r)] = p]
        BY <2>7, <4>1 DEF Finish
      <4> HIDE DEF p
      <4> QED
        BY <4>1, <4>2, <4>3
    <3>2. req' \in [Requests -> RequestState]
      BY <2>7 DEF Finish, RequestState, Stages, InFlight
    <3> QED
      BY <2>7, <3>1, <3>2 DEF Finish
  <2>8. CASE Discard(r)
    BY <2>8 DEF Discard, RequestState, Stages, InFlight
  <2>9. CASE HangUp(r)
    BY <2>9 DEF HangUp, RequestState
  <2> QED
    BY <1>3, <2>2, <2>3, <2>4, <2>5, <2>6, <2>7, <2>8, <2>9 DEF Serve
<1>4. \A slots : Break(slots) \in [Requests -> RequestState]
  BY DEF Break, RequestState, Stages
<1>5. ASSUME NEW w \in Workers, NEW code \in {0, 1}, WorkerExits(w, code)
      PROVE  Typed'
  <2> DEFINE p == [proc[w] EXCEPT !.alive = FALSE, !.exit = code]
  <2>1. p \in ProcessState
    BY ProcessWrites
  <2>2. proc' = [proc EXCEPT ![w] = p] /\ req' = Break({w}) /\ UNCHANGED <<up, issued, now>>
    BY <1>5 DEF WorkerExits
  <2> HIDE DEF p
  <2> QED
    BY <1>4, <2>1, <2>2
<1>6. ASSUME NEW w \in Workers, Refork(w)
      PROVE  Typed'
  <2>1. Fresh(proc[w].birth + 1) \in ProcessState
    BY DEF Fresh, ProcessState
  <2> QED
    BY <1>6, <2>1 DEF Refork
<1>7. CASE Shutdown
  BY <1>4, <1>7 DEF Shutdown, ProcessState
<1>8. CASE Tick \/ UNCHANGED vars
  BY <1>8 DEF Tick, vars
<1> QED
  BY <1>2, <1>3, <1>5, <1>6, <1>7, <1>8 DEF Next

-----------------------------------------------------------------------------
\* What the kinds of steps do to a request and to the processes.

\* One request changes; the others, and the identity of every process, stay.
OnlyRequest(r) ==
    /\ \A q \in Requests \ {r} : req'[q] = req[q]
    /\ \A w \in Workers :
          /\ proc'[w].alive = proc[w].alive /\ proc'[w].birth = proc[w].birth
          /\ proc[w].sessions \subseteq proc'[w].sessions
    /\ UNCHANGED <<up, now>>

\* A request arrives at w: the limiter lets it through, or counts it.
ArrivesAt(r, w) ==
    /\ OnlyRequest(r)
    /\ req[r].stage = "unsent" /\ proc[w].alive
    /\ req'[r].by = Process(w)
    /\ req'[r].stage \in {"routing", "limited"}
    /\ req'[r].verdict = "none"
    /\ \/ req'[r].kind = "validate" /\ req'[r].sid \in SessionIds /\ Known(req'[r].sid)
       \/ req'[r].kind # "validate" /\ req'[r].sid = "none"
    /\ \A v \in Workers :
          /\ proc'[v].requests = proc[v].requests
          /\ proc'[v].limitHits =
                IF v = w /\ req'[r].stage = "limited" THEN proc[v].limitHits + 1
                                                      ELSE proc[v].limitHits
          /\ proc'[v].resetTime <= now + Window \/ proc'[v].resetTime = proc[v].resetTime
    /\ UNCHANGED issued

LEMMA Arrival ==
    ASSUME Typed, NEW r \in Requests, Receive(r)
    PROVE  \E w \in Workers : ArrivesAt(r, w)
<1> USE ServerAssumption DEF Typed
<1>1. PICK w \in Workers, k \in Kinds, s \in SessionIds :
          \/ Bypass(r, w, k[2], s)
          \/ LimiterPasses(r, w, k[2], s)
          \/ LimiterHandler(r, w, k[2], s)
  BY DEF Receive
<1> DEFINE kind == k[2]
<1>2. Hits(w) \in Nat /\ ResetTime(w) \in Nat
      /\ (ResetTime(w) = proc[w].resetTime \/ ResetTime(w) = now + Window)
  BY <1>1 DEF Hits, ResetTime, WindowOver, ProcessState
<1>3. \A stage : LET rec == Received(w, kind, s, stage)
                 IN  /\ rec.by = Process(w) /\ rec.stage = stage /\ rec.verdict = "none"
                     /\ rec.kind = kind
                     /\ rec.sid = IF kind = "validate" THEN s ELSE "none"
                     /\ LET hit == [rec EXCEPT !.hitAt = now]
                        IN  /\ hit.by = Process(w) /\ hit.stage = stage
                            /\ hit.verdict = "none" /\ hit.kind = kind
                            /\ hit.sid = IF kind = "validate" THEN s ELSE "none"
  BY DEF Received, Unsent
<1>4. /\ Arrives(r, w, kind, s)
      /\ \E stage \in {"routing", "limited"} :
            LET rec == Received(w, kind, s, stage)
            IN  \/ req' = [req EXCEPT ![r] = rec]
                \/ req' = [req EXCEPT ![r] = [rec EXCEPT !.hitAt = now]]
      /\ UNCHANGED <<up, issued, now>>
  BY <1>1 DEF Bypass, LimiterPasses, LimiterHandler
<1>5. /\ req'[r].by = Process(w) /\ req'[r].stage \in {"routing", "limited"}
      /\ req'[r].verdict = "none" /\ req'[r].kind = kind
      /\ req'[r].sid = IF kind = "validate" THEN s ELSE "none"
      /\ \A q \in Requests \ {r} : req'[q] = req[q]
  <2>1. PICK rec : /\ req' = [req EXCEPT ![r] = rec]
                   /\ rec.by = Process(w) /\ rec.stage \in {"routing", "limited"}
                   /\ rec.verdict = "none" /\ rec.kind = kind
                   /\ rec.sid = IF kind = "validate" THEN s ELSE "none"
    <3>1. PICK stage \in {"routing", "limited"} :
              LET rec == Received(w, kind, s, stage)
              IN  \/ req' = [req EXCEPT ![r] = rec]
                  \/ req' = [req EXCEPT ![r] = [rec EXCEPT !.hitAt = now]]
      BY <1>4
    <3> DEFINE passed == Received(w, kind, s, stage)
               hit == [passed EXCEPT !.hitAt = now]
    <3>2. /\ passed.by = Process(w) /\ passed.stage = stage
          /\ passed.verdict = "none" /\ passed.kind = kind
          /\ passed.sid = IF kind = "validate" THEN s ELSE "none"
      BY <1>3
    <3>3. /\ hit.by = Process(w) /\ hit.stage = stage
          /\ hit.verdict = "none" /\ hit.kind = kind
          /\ hit.sid = IF kind = "validate" THEN s ELSE "none"
      BY <1>3
    <3>4. req' = [req EXCEPT ![r] = passed] \/ req' = [req EXCEPT ![r] = hit]
      BY <3>1
    <3> HIDE DEF kind, passed, hit
    <3> QED
      BY <3>1, <3>2, <3>3, <3>4
  <2> QED
    BY <2>1
<1>6. /\ req[r].stage = "unsent" /\ proc[w].alive /\ (kind = "validate" => Known(s))
  BY <1>4 DEF Arrives
<1>7. \A v \in Workers :
          /\ proc'[v].alive = proc[v].alive /\ proc'[v].birth = proc[v].birth
          /\ proc'[v].sessions = proc[v].sessions /\ proc'[v].requests = proc[v].requests
          /\ proc'[v].resetTime \in {proc[v].resetTime, now + Window}
          /\ proc'[v].limitHits = IF v = w /\ req'[r].stage = "limited"
                                  THEN proc[v].limitHits + 1 ELSE proc[v].limitHits
  <2>1. CASE Bypass(r, w, kind, s)
    <3>1. req'[r].stage = "routing" /\ proc' = proc
      BY <1>3, <2>1 DEF Bypass
    <3> QED
      BY <3>1
  <2>2. CASE LimiterPasses(r, w, kind, s)
    <3>1. req'[r].stage = "routing"
      BY <1>3, <2>2 DEF LimiterPasses
    <3>2. proc' = [proc EXCEPT ![w].hits = Hits(w), ![w].resetTime = ResetTime(w)]
      BY <2>2 DEF LimiterPasses
    <3> QED
      BY <1>1, <1>2, <3>1, <3>2 DEF ProcessState
  <2>3. CASE LimiterHandler(r, w, kind, s)
    <3>1. req'[r].stage = "limited"
      BY <1>3, <2>3 DEF LimiterHandler
    <3>2. proc' = [proc EXCEPT ![w].hits = Hits(w), ![w].resetTime = ResetTime(w),
                               ![w].limitHits = @ + 1]
      BY <2>3 DEF LimiterHandler
    <3> QED
      BY <1>1, <1>2, <3>1, <3>2 DEF ProcessState
  <2> QED
    BY <1>1, <2>1, <2>2, <2>3
<1>8. proc[w].resetTime \in Nat
  BY <1>1 DEF ProcessState
<1> HIDE DEF kind
<1>9. ArrivesAt(r, w)
  BY <1>1, <1>4, <1>5, <1>6, <1>7 DEF ArrivesAt, OnlyRequest
<1> QED
  BY <1>1, <1>9

\* A request in flight takes a step at its process, or its client hangs up.
Proceeds(r) ==
    /\ OnlyRequest(r)
    /\ req[r].stage \in InFlight
    /\ req'[r].by = req[r].by /\ req'[r].kind = req[r].kind
    /\ req'[r].hitAt = req[r].hitAt
    /\ req'[r].stage \in InFlight \cup {"closed", "abandoned"}
    /\ req'[r].stage = "validating" => req[r].stage = "validating" \/ req[r].kind = "validate"
    /\ \A w \in Workers :
          /\ proc'[w].limitHits = proc[w].limitHits
          /\ proc'[w].resetTime = proc[w].resetTime /\ proc'[w].hits = proc[w].hits
          /\ proc'[w].requests =
                IF w = Slot(r) /\ req'[r].stage = "closed" THEN proc[w].requests + 1
                                                           ELSE proc[w].requests

LEMMA Proceeding ==
    ASSUME Typed, Connected, NEW r \in Requests, Serve(r) \/ HangUp(r)
    PROVE  Proceeds(r)
<1> USE DEF Typed
<1>1. req[r].stage \in InFlight
  BY DEF Serve, RouteAnswers, RouteAwaits, Generated, GenerateFailed, Validated, Finish,
     Discard, HangUp, InFlight
<1>2. Slot(r) \in Workers /\ req[r] \in RequestState
  BY <1>1 DEF Connected, Held, InFlight
<1>3. CASE RouteAnswers(r) \/ RouteAwaits(r) \/ GenerateFailed(r) \/ Discard(r) \/ HangUp(r)
  <2>1. /\ UNCHANGED <<up, proc, now>>
        /\ \A q \in Requests \ {r} : req'[q] = req[q]
    BY <1>3 DEF RouteAnswers, RouteAwaits, GenerateFailed, Discard, HangUp
  <2>2. /\ req'[r].by = req[r].by /\ req'[r].kind = req[r].kind
        /\ req'[r].hitAt = req[r].hitAt
        /\ req'[r].stage \in InFlight \cup {"abandoned"}
        /\ req'[r].stage = "validating" =>
              req[r].stage = "validating" \/ req[r].kind = "validate"
    <3> USE DEF RequestState, InFlight
    <3>1. CASE RouteAnswers(r)
      <4>1. PICK status \in {200, 400, 404} : req' = [req EXCEPT ![r] = Responding(r, status)]
        BY <3>1 DEF RouteAnswers
      <4> QED
        BY <1>2, <4>1 DEF Responding
    <3>2. CASE RouteAwaits(r)
      BY <1>2, <3>2 DEF RouteAwaits
    <3>3. CASE GenerateFailed(r)
      BY <1>2, <3>3 DEF GenerateFailed, Responding
    <3>4. CASE Discard(r)
      BY <1>2, <3>4 DEF Discard
    <3>5. CASE HangUp(r)
      <4>1. req'[r] = [req[r] EXCEPT !.gone = TRUE]
        BY <3>5 DEF HangUp
      <4>2. /\ req'[r].by = req[r].by /\ req'[r].kind = req[r].kind
            /\ req'[r].hitAt = req[r].hitAt
            /\ req'[r].stage = req[r].stage
        BY <1>2, <4>1
      <4> QED
        BY <1>1, <4>2
    <3> QED
      BY <1>3, <3>1, <3>2, <3>3, <3>4, <3>5
  <2> QED
    BY <1>1, <2>1, <2>2 DEF Proceeds, OnlyRequest, InFlight
<1>4. CASE Validated(r)
  BY <1>1, <1>2, <1>4 DEF Validated, Responding, RequestState, InFlight, Proceeds, OnlyRequest
<1>5. ASSUME NEW s \in SessionIds, Generated(r, s) PROVE Proceeds(r)
  <2>1. req' = [req EXCEPT ![r] = [Responding(r, 200) EXCEPT !.sid = s]]
    BY <1>5 DEF Generated
  <2>2. /\ req'[r].by = req[r].by /\ req'[r].kind = req[r].kind
        /\ req'[r].hitAt = req[r].hitAt
        /\ req'[r].stage = "responding"
        /\ \A q \in Requests \ {r} : req'[q] = req[q]
    BY <1>2, <2>1 DEF Responding, RequestState
  <2>3. /\ proc' = [proc EXCEPT ![Slot(r)].sessions = @ \cup {s}]
        /\ UNCHANGED <<up, now>>
    BY <1>5 DEF Generated
  <2>4. \A w \in Workers :
            /\ proc'[w].alive = proc[w].alive /\ proc'[w].birth = proc[w].birth
            /\ proc[w].sessions \subseteq proc'[w].sessions
            /\ proc'[w].limitHits = proc[w].limitHits
            /\ proc'[w].resetTime = proc[w].resetTime /\ proc'[w].hits = proc[w].hits
            /\ proc'[w].requests = proc[w].requests
    BY <1>2, <2>3 DEF ProcessState
  <2> QED
    BY <1>1, <2>2, <2>3, <2>4 DEF Proceeds, OnlyRequest, InFlight
<1>6. CASE Finish(r)
  <2>1. /\ req' = [req EXCEPT ![r].stage = "closed"]
        /\ proc' = [proc EXCEPT ![Slot(r)].requests = @ + 1]
        /\ UNCHANGED <<up, now>>
    BY <1>6 DEF Finish
  <2>2. /\ req'[r].by = req[r].by /\ req'[r].kind = req[r].kind
        /\ req'[r].hitAt = req[r].hitAt
        /\ req'[r].stage = "closed"
        /\ \A q \in Requests \ {r} : req'[q] = req[q]
    BY <1>2, <2>1 DEF RequestState
  <2>3. \A w \in Workers :
            /\ proc'[w].alive = proc[w].alive /\ proc'[w].birth = proc[w].birth
            /\ proc[w].sessions = proc'[w].sessions
            /\ proc'[w].limitHits = proc[w].limitHits
            /\ proc'[w].resetTime = proc[w].resetTime /\ proc'[w].hits = proc[w].hits
            /\ proc'[w].requests = IF w = Slot(r) THEN proc[w].requests + 1
                                                  ELSE proc[w].requests
    BY <1>2, <2>1 DEF ProcessState
  <2> QED
    BY <1>1, <2>1, <2>2, <2>3 DEF Proceeds, OnlyRequest, InFlight
<1> QED
  BY <1>3, <1>4, <1>5, <1>6 DEF Serve

\* Processes end, and their connections with them.
Ends(slots) ==
    /\ req' = Break(slots)
    /\ \A w \in Workers :
          /\ proc'[w].alive <=> (proc[w].alive /\ w \notin slots)
          /\ proc'[w].birth = proc[w].birth /\ proc'[w].sessions = proc[w].sessions
          /\ proc'[w].resetTime = proc[w].resetTime /\ proc'[w].hits = proc[w].hits
          /\ proc'[w].requests = proc[w].requests
          /\ proc'[w].limitHits = proc[w].limitHits
    /\ UNCHANGED <<issued, now>>

LEMMA Ending ==
    ASSUME Typed
    PROVE  /\ \A w \in Workers, code \in {0, 1} : WorkerExits(w, code) => Ends({w})
           /\ Shutdown => Ends({w \in Workers : proc[w].alive})
<1> USE DEF Typed
<1>1. ASSUME NEW w \in Workers, NEW code \in {0, 1}, WorkerExits(w, code)
      PROVE  Ends({w})
  <2>1. /\ proc[w].alive /\ req' = Break({w}) /\ UNCHANGED <<issued, now>>
        /\ proc' = [proc EXCEPT ![w].alive = FALSE, ![w].exit = code]
    BY <1>1 DEF WorkerExits
  <2>2. \A v \in Workers \ {w} : proc'[v] = proc[v]
    BY <2>1
  <2>3. /\ ~proc'[w].alive
        /\ proc'[w].birth = proc[w].birth /\ proc'[w].sessions = proc[w].sessions
        /\ proc'[w].resetTime = proc[w].resetTime /\ proc'[w].hits = proc[w].hits
        /\ proc'[w].requests = proc[w].requests
        /\ proc'[w].limitHits = proc[w].limitHits
    BY <2>1 DEF ProcessState
  <2> QED
    BY <2>1, <2>2, <2>3 DEF Ends
<1>2. ASSUME Shutdown
      PROVE  Ends({w \in Workers : proc[w].alive})
  BY <1>2 DEF Shutdown, Ends, ProcessState
<1> QED
  BY <1>1, <1>2

\* A new process in the slot of one that ended.
Restarts(w) ==
    /\ up /\ ~proc[w].alive
    /\ proc'[w] = Fresh(proc[w].birth + 1)
    /\ \A v \in Workers \ {w} : proc'[v] = proc[v]
    /\ UNCHANGED <<up, req, issued, now>>

LEMMA Restarting ==
    ASSUME Typed, NEW w \in Workers, Refork(w)
    PROVE  Restarts(w)
BY DEF Typed, Refork, Restarts

Quiet == UNCHANGED <<up, proc, req, issued>> /\ now' >= now /\ now' \in Nat

\* There are no other steps.
LEMMA Steps ==
    ASSUME Typed, Connected, [Next]_vars
    PROVE  \/ \E r \in Requests, w \in Workers : ArrivesAt(r, w)
           \/ \E r \in Requests : (Serve(r) \/ HangUp(r)) /\ Proceeds(r)
           \/ \E slots \in SUBSET Workers : Ends(slots)
           \/ \E w \in Workers : Restarts(w)
           \/ Quiet
<1>1. ASSUME NEW r \in Requests, Receive(r)
      PROVE  \E w \in Workers : ArrivesAt(r, w)
  BY <1>1, Arrival
<1>2. ASSUME NEW r \in Requests, Serve(r) \/ HangUp(r)
      PROVE  Proceeds(r)
  BY <1>2, Proceeding
<1>3. ASSUME NEW w \in Workers, NEW code \in {0, 1}, WorkerExits(w, code)
      PROVE  Ends({w}) /\ {w} \in SUBSET Workers
  BY <1>3, Ending
<1>4. ASSUME Shutdown
      PROVE  \E slots \in SUBSET Workers : Ends(slots)
  BY <1>4, Ending
<1>5. ASSUME Tick \/ UNCHANGED vars
      PROVE  Quiet
  BY <1>5 DEF Tick, vars, Quiet, Typed
<1> QED
  BY <1>1, <1>2, <1>3, <1>4, <1>5, Restarting DEF Next

-----------------------------------------------------------------------------
\* The births and the windows.
LEMMA BoundedStep ==
    ASSUME Typed, Connected, Bounded, [Next]_vars
    PROVE  Bounded'
<1> USE ServerAssumption DEF Bounded
<1>1. \A w \in Workers : proc[w].birth \in Nat /\ proc[w].resetTime \in Nat
  BY DEF Typed, ProcessState
<1>2. now \in Nat
  BY DEF Typed
<1>3. ASSUME NEW r \in Requests, NEW w \in Workers, ArrivesAt(r, w) PROVE Bounded'
  BY <1>3 DEF ArrivesAt, OnlyRequest
<1>4. ASSUME NEW r \in Requests, Proceeds(r) PROVE Bounded'
  BY <1>4 DEF Proceeds, OnlyRequest
<1>5. ASSUME NEW w \in Workers, NEW code \in {0, 1}, WorkerExits(w, code) PROVE Bounded'
  <2>1. /\ Ends({w}) /\ up' = up /\ proc[w].birth < MaxExits
    BY <1>5, Ending DEF WorkerExits
  <2> QED
    BY <2>1 DEF Ends
<1>6. CASE Shutdown
  <2>1. up' = FALSE /\ Ends({w \in Workers : proc[w].alive})
    BY <1>6, Ending DEF Shutdown
  <2> QED
    BY <2>1 DEF Ends
<1>7. ASSUME NEW w \in Workers, Restarts(w) PROVE Bounded'
  <2>1. proc'[w].birth = proc[w].birth + 1 /\ proc'[w].alive /\ proc'[w].resetTime = 0
    BY <1>7 DEF Restarts, Fresh
  <2>2. proc[w].birth + 1 <= MaxExits /\ 0 <= now + Window
    BY <1>1, <1>2, <1>7 DEF Restarts
  <2> QED
    BY <1>7, <2>1, <2>2 DEF Restarts
<1>8. CASE Tick \/ UNCHANGED vars
  BY <1>1, <1>2, <1>8 DEF Tick, vars
<1> QED
  BY <1>3, <1>4, <1>5, <1>6, <1>7, <1>8, Arrival, Proceeding, Restarting DEF Next

\* The process of a slot, by its identity.
LEMMA Identity ==
    ASSUME Typed, NEW v \in Workers, NEW w \in Workers
    PROVE  /\ Process(w).slot = w /\ Process(w).birth = proc[w].birth
           /\ Process(v) = Process(w) => v = w
           /\ Process(w) # NoProcess
BY ServerAssumption DEF Process, NoProcess

\* A request keeps its connection while its process stays as it is.
LEMMA HeldKept ==
    ASSUME NEW r \in Requests, Held(r),
           req'[r].by = req[r].by,
           req'[r].stage = "unsent" <=> req[r].stage = "unsent",
           req'[r].stage \in InFlight \cup {"limited"} =>
               req[r].stage \in InFlight \cup {"limited"},
           req'[r].stage = "broken" => req[r].stage = "broken",
           Slot(r) \in Workers =>
               /\ proc'[Slot(r)].alive <=> proc[Slot(r)].alive
               /\ proc'[Slot(r)].birth = proc[Slot(r)].birth
    PROVE  Held(r)'
<1> USE DEF Held, Slot
<1>1. CASE req[r].stage = "unsent"
  BY <1>1 DEF InFlight
<1>2. CASE req[r].stage # "unsent"
  <2>1. Process(Slot(r))' = Process(Slot(r))
    BY <1>2 DEF Process
  <2> QED
    BY <1>2, <2>1
<1> QED
  BY <1>1, <1>2

LEMMA ConnectedStep ==
    ASSUME Typed, Connected, [Next]_vars
    PROVE  Connected'
<1> USE DEF Connected, Held, Slot
<1>1. ASSUME NEW r \in Requests, NEW w \in Workers, ArrivesAt(r, w) PROVE Connected'
  <2>1. \A q \in Requests \ {r} : Held(q)'
    <3>1. \A q \in Requests \ {r} : req'[q] = req[q]
      BY <1>1 DEF ArrivesAt, OnlyRequest
    <3>2. \A v \in Workers : proc'[v].alive = proc[v].alive /\ proc'[v].birth = proc[v].birth
      BY <1>1 DEF ArrivesAt, OnlyRequest
    <3> HIDE DEF Held
    <3> QED
      BY <3>1, <3>2, HeldKept
  <2>2. Held(r)'
    <3>1. /\ req'[r].by = Process(w) /\ req'[r].stage \in {"routing", "limited"}
          /\ proc'[w].alive /\ proc'[w].birth = proc[w].birth
      BY <1>1 DEF ArrivesAt, OnlyRequest
    <3>2. Slot(r)' = w /\ Process(w)' = Process(w) /\ req'[r].by # NoProcess
      BY <3>1, Identity DEF Process
    <3>3. req'[r].by.birth <= proc'[w].birth
      BY <3>1, Identity DEF Typed, ProcessState
    <3> QED
      BY <3>1, <3>2, <3>3 DEF InFlight
  <2> QED
    BY <2>1, <2>2
<1>2. ASSUME NEW r \in Requests, Proceeds(r) PROVE Connected'
  <2>1. \A q \in Requests \ {r} : Held(q)'
    <3>1. \A q \in Requests \ {r} : req'[q] = req[q]
      BY <1>2 DEF Proceeds, OnlyRequest
    <3>2. \A v \in Workers : proc'[v].alive = proc[v].alive /\ proc'[v].birth = proc[v].birth
      BY <1>2 DEF Proceeds, OnlyRequest
    <3> HIDE DEF Held
    <3> QED
      BY <3>1, <3>2, HeldKept
  <2>2. Held(r)'
    <3>1. /\ req'[r].by = req[r].by /\ req[r].stage \in InFlight
          /\ req'[r].stage \in InFlight \cup {"closed", "abandoned"}
      BY <1>2 DEF Proceeds
    <3>2. \A v \in Workers : proc'[v].alive = proc[v].alive /\ proc'[v].birth = proc[v].birth
      BY <1>2 DEF Proceeds, OnlyRequest
    <3>3. /\ req[r].stage # "unsent" /\ req'[r].stage # "unsent" /\ req'[r].stage # "broken"
      BY <3>1 DEF InFlight
    <3> HIDE DEF Held
    <3> QED
      BY <3>1, <3>2, <3>3, HeldKept
  <2> QED
    BY <2>1, <2>2
<1>3. ASSUME NEW slots \in SUBSET Workers, Ends(slots) PROVE Connected'
  <2> SUFFICES ASSUME NEW r \in Requests PROVE Held(r)'
    OBVIOUS
  <2>1. \A w \in Workers : Process(w)' = Process(w)
    BY <1>3 DEF Ends, Process
  <2>2. CASE /\ req[r].stage \in InFlight \cup {"limited"}
             /\ \E w \in slots : req[r].by = Process(w)
    <3>1. req'[r] = [req[r] EXCEPT !.stage = "broken"]
      BY <1>3, <2>2 DEF Ends, Break
    <3>2. req'[r].stage = "broken" /\ req'[r].by = req[r].by
      BY <3>1 DEF Typed, RequestState
    <3>3. Slot(r) \in slots /\ Slot(r) \in Workers
      BY <2>2, Identity
    <3>4. ~proc'[Slot(r)].alive
      BY <1>3, <3>3 DEF Ends
    <3>5. req[r].by # NoProcess /\ req[r].by.birth <= proc[Slot(r)].birth
      BY <2>2 DEF InFlight
    <3>6. proc'[Slot(r)].birth = proc[Slot(r)].birth
      BY <1>3, <3>3 DEF Ends
    <3> QED
      BY <3>2, <3>3, <3>4, <3>5, <3>6 DEF InFlight
  <2>3. CASE ~ /\ req[r].stage \in InFlight \cup {"limited"}
               /\ \E w \in slots : req[r].by = Process(w)
    <3>1. req'[r] = req[r]
      BY <1>3, <2>3 DEF Ends, Break
    <3>2. req[r].stage \in InFlight \cup {"limited"} => Slot(r) \notin slots
      BY <2>3
    <3>3. req[r].stage # "unsent" => Slot(r) \in Workers
      OBVIOUS
    <3>4. \A w \in Workers : /\ proc'[w].alive <=> (proc[w].alive /\ w \notin slots)
                             /\ proc'[w].birth = proc[w].birth
      BY <1>3 DEF Ends
    <3> QED
      BY <2>1, <3>1, <3>2, <3>3, <3>4 DEF InFlight
  <2> QED
    BY <2>2, <2>3
<1>4. ASSUME NEW w \in Workers, Restarts(w) PROVE Connected'
  <2> SUFFICES ASSUME NEW r \in Requests PROVE Held(r)'
    OBVIOUS
  <2>1. req' = req
    BY <1>4 DEF Restarts
  <2>2. CASE req[r].stage # "unsent" /\ Slot(r) = w
    <3>1. proc'[w].birth = proc[w].birth + 1 /\ proc[w].birth \in Nat /\ ~proc[w].alive
      BY <1>4 DEF Restarts, Fresh, Typed, ProcessState
    <3>2. req[r].by.birth \in Nat /\ req[r].by.birth <= proc[w].birth
      BY <2>2 DEF Typed, RequestState, ProcessId
    <3>3. req[r].by.birth # proc'[w].birth
      BY <3>1, <3>2
    <3>4. req[r].by # Process(w)'
      BY <3>3 DEF Process
    <3>5. req[r].stage \notin InFlight \cup {"limited"}
      BY <2>2, <3>1
    <3> QED
      BY <2>1, <2>2, <3>1, <3>2, <3>4, <3>5
  <2>3. CASE req[r].stage = "unsent" \/ Slot(r) # w
    <3>1. Slot(r) \in Workers => proc'[Slot(r)] = proc[Slot(r)]
      BY <1>4, <2>3, ServerAssumption DEF Restarts, NoProcess
    <3> HIDE DEF Held
    <3> QED
      BY <2>1, <3>1, HeldKept
  <2> QED
    BY <2>2, <2>3
<1>5. CASE Quiet
  BY <1>5 DEF Quiet, Process
<1> QED
  BY <1>1, <1>2, <1>3, <1>4, <1>5, Steps

-----------------------------------------------------------------------------
\* The sessions and who issued them, in two parts: the Maps and the requests.
Stored ==
    \A s \in SessionIds : Issued(s) =>
        /\ issued[s].slot \in Workers
        /\ issued[s].birth <= proc[issued[s].slot].birth
        /\ \A w \in Workers : issued[s] = Process(w) => s \in proc[w].sessions

Asks(r) ==
    /\ req[r].sid # "none" => Issued(req[r].sid)
    /\ (req[r].kind = "validate" /\ req[r].stage # "unsent") => req[r].sid # "none"
    /\ req[r].stage = "validating" => req[r].kind = "validate"
    /\ req[r].stage \in {"routing", "generating", "validating"} => req[r].verdict = "none"
    /\ req[r].verdict = "notFound" =>
          req[r].sid # "none" /\ issued[req[r].sid] # req[r].by

LEMMA IssuingParts == Issuing <=> Stored /\ \A r \in Requests : Asks(r)
BY DEF Issuing, Stored, Asks

\* Nothing is issued and no process starts: the Maps keep what they hold.
LEMMA StoredKept ==
    ASSUME Stored, UNCHANGED issued,
           \A w \in Workers : /\ proc'[w].birth = proc[w].birth
                              /\ proc[w].sessions \subseteq proc'[w].sessions
    PROVE  Stored'
BY DEF Stored, Issued, Process

\* A request that asks as before, or that only lost its connection.
LEMMA AsksKept ==
    ASSUME NEW r \in Requests, Asks(r), UNCHANGED issued,
           req'[r].sid = req[r].sid, req'[r].kind = req[r].kind, req'[r].by = req[r].by,
           req'[r].verdict = req[r].verdict,
           req'[r].stage # "unsent" => req[r].stage # "unsent",
           req'[r].stage = "validating" => req[r].stage = "validating",
           req'[r].stage \in {"routing", "generating", "validating"} =>
               req[r].stage \in {"routing", "generating", "validating"}
    PROVE  Asks(r)'
BY DEF Asks, Issued

\* A route answers or waits, the response is out, the client hangs up.
LEMMA RouteIssues ==
    ASSUME Typed, Connected, Issuing, NEW r \in Requests,
           \/ RouteAnswers(r) \/ RouteAwaits(r) \/ GenerateFailed(r) \/ Finish(r)
           \/ Discard(r) \/ HangUp(r),
           Proceeds(r)
    PROVE  Issuing'
<1> USE DEF Typed
<1>1. Stored /\ \A q \in Requests : Asks(q)
  BY IssuingParts
<1>2. UNCHANGED issued
  BY DEF RouteAnswers, RouteAwaits, GenerateFailed, Finish, Discard, HangUp
<1>3. Stored'
  BY <1>1, <1>2, StoredKept DEF Proceeds, OnlyRequest
<1>4. \A q \in Requests \ {r} : Asks(q)'
  BY <1>1, <1>2, AsksKept DEF Proceeds, OnlyRequest
<1>5. req[r] \in RequestState
  OBVIOUS
<1>6. Asks(r)'
  <2>1. CASE RouteAwaits(r)
    <3>1. /\ req[r].stage = "routing" /\ req'[r].sid = req[r].sid
          /\ req'[r].kind = req[r].kind /\ req'[r].by = req[r].by
          /\ req'[r].verdict = req[r].verdict
          /\ \/ req'[r].stage = "generating"
             \/ req'[r].stage = "validating" /\ req[r].kind = "validate"
      BY <1>5, <2>1 DEF RouteAwaits, RequestState
    <3> QED
      BY <1>1, <1>2, <3>1 DEF Asks, Issued
  <2>2. CASE \/ RouteAnswers(r) \/ GenerateFailed(r) \/ Finish(r) \/ Discard(r)
    <3>1. \E rec : /\ req' = [req EXCEPT ![r] = rec]
                   /\ rec.sid = req[r].sid /\ rec.kind = req[r].kind /\ rec.by = req[r].by
                   /\ rec.verdict = req[r].verdict
                   /\ rec.stage \in {"responding", "closed", "abandoned"}
      <4>1. \A status : /\ Responding(r, status).sid = req[r].sid
                        /\ Responding(r, status).kind = req[r].kind
                        /\ Responding(r, status).by = req[r].by
                        /\ Responding(r, status).verdict = req[r].verdict
                        /\ Responding(r, status).stage = "responding"
        BY <1>5 DEF Responding, RequestState
      <4>2. CASE RouteAnswers(r) \/ GenerateFailed(r)
        <5>1. PICK status \in {200, 400, 404, 500} :
                  req' = [req EXCEPT ![r] = Responding(r, status)]
          BY <4>2 DEF RouteAnswers, GenerateFailed
        <5> DEFINE rec == Responding(r, status)
        <5>2. /\ req' = [req EXCEPT ![r] = rec] /\ rec.stage = "responding"
              /\ rec.sid = req[r].sid /\ rec.kind = req[r].kind /\ rec.by = req[r].by
              /\ rec.verdict = req[r].verdict
          BY <4>1, <5>1
        <5> HIDE DEF rec
        <5> QED
          BY <5>2
      <4>4. CASE Finish(r) \/ Discard(r)
        <5>1. PICK stage \in {"closed", "abandoned"} : req' = [req EXCEPT ![r].stage = stage]
          BY <4>4 DEF Finish, Discard
        <5> DEFINE rec == [req[r] EXCEPT !.stage = stage]
        <5>2. req' = [req EXCEPT ![r] = rec]
          BY <5>1
        <5>3. /\ rec.sid = req[r].sid /\ rec.kind = req[r].kind /\ rec.by = req[r].by
              /\ rec.verdict = req[r].verdict /\ rec.stage = stage
          BY <1>5 DEF RequestState
        <5> HIDE DEF rec
        <5> QED
          BY <5>1, <5>2, <5>3
      <4> QED
        BY <2>2, <4>2, <4>4
    <3>2. /\ req'[r].sid = req[r].sid /\ req'[r].kind = req[r].kind
          /\ req'[r].by = req[r].by /\ req'[r].verdict = req[r].verdict
          /\ req'[r].stage \in {"responding", "closed", "abandoned"}
      BY <3>1
    <3>3. req[r].stage # "unsent"
      BY DEF Proceeds, InFlight
    <3> QED
      BY <1>1, <1>2, <3>2, <3>3, AsksKept
  <2>3. CASE HangUp(r)
    <3>1. req'[r] = [req[r] EXCEPT !.gone = TRUE]
      BY <2>3 DEF HangUp
    <3>2. /\ req'[r].sid = req[r].sid /\ req'[r].kind = req[r].kind
          /\ req'[r].by = req[r].by /\ req'[r].verdict = req[r].verdict
          /\ req'[r].stage = req[r].stage
      BY <1>5, <3>1
    <3> QED
      BY <1>1, <1>2, <3>2, AsksKept
  <2> QED
    BY <2>1, <2>2, <2>3
<1> QED
  BY <1>3, <1>4, <1>6, IssuingParts DEF Issuing, Stored, Asks

\* generateCaptcha stores its session in the Map of the process that answers.
LEMMA GeneratedIssues ==
    ASSUME Typed, Connected, Issuing, NEW r \in Requests, NEW s \in SessionIds,
           Generated(r, s), Proceeds(r)
    PROVE  Issuing'
<1> USE DEF Typed
<1>1. Stored /\ \A q \in Requests : Asks(q)
  BY IssuingParts
<1>2. /\ req[r].stage = "generating" /\ ~Issued(s)
      /\ issued' = [issued EXCEPT ![s] = req[r].by]
      /\ proc' = [proc EXCEPT ![Slot(r)].sessions = @ \cup {s}]
      /\ req' = [req EXCEPT ![r] = [Responding(r, 200) EXCEPT !.sid = s]]
  BY DEF Generated
<1>3. Slot(r) \in Workers /\ req[r].by = Process(Slot(r)) /\ req[r].by # NoProcess
  BY <1>2 DEF Connected, Held, InFlight
<1>4. /\ s \in proc'[Slot(r)].sessions
      /\ \A w \in Workers : /\ proc'[w].birth = proc[w].birth
                            /\ proc[w].sessions \subseteq proc'[w].sessions
  <2>1. s \in proc'[Slot(r)].sessions
    BY <1>2, <1>3 DEF ProcessState
  <2> QED
    BY <2>1 DEF Proceeds, OnlyRequest
<1>5. /\ issued'[s] = req[r].by /\ \A t \in SessionIds \ {s} : issued'[t] = issued[t]
      /\ \A t \in SessionIds : Issued(t) => t # s /\ Issued(t)'
      /\ Issued(s)'
  BY <1>2, <1>3 DEF Issued
<1>6. \A w \in Workers : Process(w)' = Process(w)
  BY <1>4 DEF Process
<1>7. Stored'
  <2> SUFFICES ASSUME NEW t \in SessionIds, Issued(t)'
               PROVE  /\ issued'[t].slot \in Workers
                      /\ issued'[t].birth <= proc'[issued'[t].slot].birth
                      /\ \A w \in Workers : issued'[t] = Process(w)' => t \in proc'[w].sessions
    BY DEF Stored
  <2>1. CASE t = s
    <3>1. /\ issued'[t].slot = Slot(r) /\ issued'[t].birth = proc[Slot(r)].birth
          /\ proc[Slot(r)].birth \in Nat
      BY <1>3, <1>5, <2>1, Identity DEF Slot, ProcessState
    <3>2. \A w \in Workers : issued'[t] = Process(w)' => w = Slot(r)
      <4> SUFFICES ASSUME NEW w \in Workers, issued'[t] = Process(w)' PROVE w = Slot(r)
        OBVIOUS
      <4>1. Process(w) = Process(Slot(r))
        BY <1>3, <1>5, <1>6, <2>1
      <4> QED
        BY <1>3, <4>1, Identity
    <3> QED
      BY <1>3, <1>4, <2>1, <3>1, <3>2
  <2>2. CASE t # s
    <3>1. issued'[t] = issued[t] /\ Issued(t)
      BY <1>5, <2>2 DEF Issued
    <3> QED
      BY <1>1, <1>4, <1>6, <3>1 DEF Stored
  <2> QED
    BY <2>1, <2>2
<1>8. \A q \in Requests \ {r} : Asks(q)'
  <2> SUFFICES ASSUME NEW q \in Requests, q # r PROVE Asks(q)'
    OBVIOUS
  <2>1. req'[q] = req[q]
    BY DEF Proceeds, OnlyRequest
  <2>2. req[q].sid \in SessionIds \cup {"none"}
    BY DEF RequestState
  <2>3. req[q].sid # "none" =>
            issued[req[q].sid] # NoProcess /\ issued'[req[q].sid] = issued[req[q].sid]
    <3>1. ASSUME req[q].sid # "none"
          PROVE  req[q].sid \in SessionIds /\ req[q].sid # s /\ issued[req[q].sid] # NoProcess
      BY <1>1, <1>2, <2>2, <3>1 DEF Asks, Issued
    <3> QED
      BY <1>5, <3>1
  <2> QED
    BY <1>1, <2>1, <2>3 DEF Asks, Issued
<1>9. Asks(r)'
  <2>1. /\ req'[r].sid = s /\ req'[r].stage = "responding"
        /\ req'[r].verdict = req[r].verdict
    <3>1. req[r] \in RequestState
      OBVIOUS
    <3> QED
      BY <1>2, <3>1 DEF Responding, RequestState
  <2>2. req[r].verdict = "none"
    BY <1>1, <1>2 DEF Asks
  <2>3. s # "none"
    BY ServerAssumption
  <2> QED
    BY <1>5, <2>1, <2>2, <2>3 DEF Asks
<1> QED
  BY <1>7, <1>8, <1>9, IssuingParts DEF Issuing, Stored, Asks

\* "notFound" is only said of a session the process did not issue.
LEMMA ValidatedIssues ==
    ASSUME Typed, Connected, Issuing, NEW r \in Requests, Validated(r), Proceeds(r)
    PROVE  Issuing'
<1> USE DEF Typed
<1>1. Stored /\ \A q \in Requests : Asks(q)
  BY IssuingParts
<1>2. /\ req[r].stage = "validating" /\ UNCHANGED <<issued, proc>>
      /\ req' = [req EXCEPT ![r] = [Responding(r, 200) EXCEPT !.verdict = VerdictOf(r)]]
  BY DEF Validated
<1>3. Slot(r) \in Workers /\ req[r].by = Process(Slot(r))
  BY <1>2 DEF Connected, Held, InFlight
<1>4. Stored'
  BY <1>1, <1>2, StoredKept
<1>5. \A q \in Requests \ {r} : Asks(q)'
  BY <1>1, <1>2, AsksKept DEF Proceeds, OnlyRequest
<1>6. Asks(r)'
  <2>1. /\ req'[r].sid = req[r].sid /\ req'[r].kind = req[r].kind
        /\ req'[r].by = req[r].by /\ req'[r].stage = "responding"
        /\ req'[r].verdict = VerdictOf(r)
    <3>1. req[r] \in RequestState
      OBVIOUS
    <3> QED
      BY <1>2, <3>1 DEF Responding, RequestState
  <2>2. req[r].sid # "none" /\ Issued(req[r].sid) /\ req[r].sid \in SessionIds
    BY <1>1, <1>2 DEF Asks, RequestState
  <2>3. VerdictOf(r) = "notFound" => issued[req[r].sid] # req[r].by
    BY <1>1, <1>3, <2>2 DEF VerdictOf, Stored
  <2> QED
    BY <1>2, <2>1, <2>2, <2>3 DEF Asks, Issued
<1> QED
  BY <1>4, <1>5, <1>6, IssuingParts DEF Issuing, Stored, Asks

LEMMA IssuingStep ==
    ASSUME Typed, Connected, Issuing, [Next]_vars
    PROVE  Issuing'
<1> USE DEF Typed
<1>0. Stored /\ \A q \in Requests : Asks(q)
  BY IssuingParts
<1>1. ASSUME NEW r \in Requests, NEW w \in Workers, ArrivesAt(r, w) PROVE Issuing'
  <2>1. UNCHANGED issued /\ Stored'
    BY <1>0, <1>1, StoredKept DEF ArrivesAt, OnlyRequest
  <2>2. \A q \in Requests \ {r} : Asks(q)'
    BY <1>0, <1>1, <2>1, AsksKept DEF ArrivesAt, OnlyRequest
  <2>3. Asks(r)'
    <3>1. /\ req'[r].stage \in {"routing", "limited"} /\ req'[r].verdict = "none"
          /\ \/ req'[r].kind = "validate" /\ req'[r].sid \in SessionIds /\ Known(req'[r].sid)
             \/ req'[r].kind # "validate" /\ req'[r].sid = "none"
      BY <1>1 DEF ArrivesAt
    <3>2. req'[r].sid # "none" => Issued(req'[r].sid)
      BY <1>0, <3>1 DEF Known, Asks
    <3>3. \A s \in SessionIds : s # "none"
      BY ServerAssumption
    <3> QED
      BY <2>1, <3>1, <3>2, <3>3 DEF Asks, Issued
  <2> QED
    BY <2>1, <2>2, <2>3, IssuingParts DEF Issuing, Stored, Asks
<1>2. ASSUME NEW r \in Requests, Serve(r) \/ HangUp(r), Proceeds(r) PROVE Issuing'
  BY <1>2, RouteIssues, GeneratedIssues, ValidatedIssues DEF Serve
<1>3. ASSUME NEW slots \in SUBSET Workers, Ends(slots) PROVE Issuing'
  <2>1. UNCHANGED issued /\ Stored'
    BY <1>0, <1>3, StoredKept DEF Ends
  <2>2. \A q \in Requests : Asks(q)'
    <3> SUFFICES ASSUME NEW q \in Requests PROVE Asks(q)'
      OBVIOUS
    <3>1. req'[q] = req[q] \/ (req'[q] = [req[q] EXCEPT !.stage = "broken"]
                               /\ req[q].stage \in InFlight \cup {"limited"})
      BY <1>3 DEF Ends, Break
    <3>2. CASE req'[q] = req[q]
      BY <1>0, <2>1, <3>2, AsksKept
    <3>3. CASE /\ req'[q] = [req[q] EXCEPT !.stage = "broken"]
               /\ req[q].stage \in InFlight \cup {"limited"}
      <4>1. /\ req'[q].sid = req[q].sid /\ req'[q].kind = req[q].kind
            /\ req'[q].by = req[q].by /\ req'[q].verdict = req[q].verdict
            /\ req'[q].stage = "broken" /\ req[q].stage # "unsent"
        BY <3>3 DEF RequestState, InFlight
      <4> QED
        BY <1>0, <2>1, <4>1, AsksKept
    <3> QED
      BY <3>1, <3>2, <3>3
  <2> QED
    BY <2>1, <2>2, IssuingParts DEF Issuing, Stored, Asks
<1>4. ASSUME NEW w \in Workers, Restarts(w) PROVE Issuing'
  <2>1. UNCHANGED <<issued, req>> /\ \A v \in Workers \ {w} : proc'[v] = proc[v]
    BY <1>4 DEF Restarts
  <2>2. proc'[w].birth = proc[w].birth + 1 /\ proc[w].birth \in Nat
    BY <1>4 DEF Restarts, Fresh, ProcessState
  <2>3. Stored'
    <3> SUFFICES ASSUME NEW s \in SessionIds, Issued(s)'
                 PROVE  /\ issued[s].slot \in Workers
                        /\ issued[s].birth <= proc'[issued[s].slot].birth
                        /\ \A v \in Workers : issued[s] = Process(v)' => s \in proc'[v].sessions
      BY <2>1 DEF Stored
    <3>1. /\ issued[s].slot \in Workers /\ issued[s].birth \in Nat
          /\ issued[s].birth <= proc[issued[s].slot].birth
          /\ \A v \in Workers : issued[s] = Process(v) => s \in proc[v].sessions
      BY <1>0, <2>1 DEF Stored, Issued, ProcessId
    <3>2. issued[s] # Process(w)'
      <4>1. Process(w)'.slot = w /\ Process(w)'.birth = proc[w].birth + 1
        BY <2>2 DEF Process
      <4> QED
        BY <2>2, <3>1, <4>1
    <3>3. \A v \in Workers \ {w} : Process(v)' = Process(v)
      BY <2>1 DEF Process
    <3>4. issued[s].birth <= proc'[issued[s].slot].birth
      BY <2>1, <2>2, <3>1
    <3> QED
      BY <2>1, <3>1, <3>2, <3>3, <3>4
  <2>4. \A q \in Requests : Asks(q)'
    BY <1>0, <2>1, AsksKept
  <2> QED
    BY <2>3, <2>4, IssuingParts DEF Issuing, Stored, Asks
<1>5. CASE Quiet
  <2>1. Stored'
    BY <1>0, <1>5, StoredKept DEF Quiet
  <2>2. \A q \in Requests : Asks(q)'
    BY <1>0, <1>5, AsksKept DEF Quiet
  <2> QED
    BY <2>1, <2>2, IssuingParts DEF Issuing, Stored, Asks
<1> QED
  BY <1>1, <1>2, <1>3, <1>4, <1>5, Steps

-----------------------------------------------------------------------------
\* The counters.
LEMMA OnFinite ==
    ASSUME NEW w, NEW stage
    PROVE  /\ IsFiniteSet(On(w, stage))
           /\ Cardinality(On(w, stage)) \in Nat
           /\ \A r \in Requests : r \notin On(w, stage) =>
                 Cardinality(On(w, stage) \cup {r}) = Cardinality(On(w, stage)) + 1
<1>1. On(w, stage) \in SUBSET Requests
  BY DEF On
<1>2. IsFiniteSet(On(w, stage))
  BY <1>1, FS_Subset, ServerAssumption
<1> QED
  BY <1>2, FS_CardinalityType, FS_AddElement

\* A request that is in neither set before or after does not count.
LEMMA CountKept ==
    ASSUME NEW w \in Workers, NEW stage, UNCHANGED proc[w].birth,
           \A r \in Requests :
               (req[r].by = Process(w) /\ req[r].stage = stage)
                   <=> (req'[r].by = Process(w) /\ req'[r].stage = stage)
    PROVE  On(w, stage)' = On(w, stage)
BY DEF On, Process

\* No request was held by a process that starts now.
LEMMA NoneHeld ==
    ASSUME Typed, Connected, NEW w \in Workers, Restarts(w)
    PROVE  \A q \in Requests : req'[q].by # Process(w)'
<1>1. /\ req' = req /\ proc'[w].birth = proc[w].birth + 1 /\ proc[w].birth \in Nat
  BY DEF Restarts, Fresh, Typed, ProcessState
<1>2. ASSUME NEW q \in Requests, req'[q].by = Process(w)' PROVE FALSE
  <2>1. Slot(q) = w /\ req[q].by.birth = proc[w].birth + 1
    BY <1>1, <1>2 DEF Process, Slot
  <2>2. req[q].by # NoProcess
    BY <2>1, ServerAssumption DEF Slot, NoProcess
  <2>3. req[q].by.birth <= proc[w].birth
    BY <2>1, <2>2 DEF Connected, Held
  <2> QED
    BY <1>1, <2>1, <2>3
<1> QED
  BY <1>2

LEMMA CountedStep ==
    ASSUME Typed, Connected, Counted, [Next]_vars
    PROVE  Counted'
<1>1. ASSUME NEW r \in Requests, NEW w \in Workers, ArrivesAt(r, w) PROVE Counted'
  <2>1. /\ \A q \in Requests \ {r} : req'[q] = req[q]
        /\ \A v \in Workers : proc'[v].alive = proc[v].alive /\ proc'[v].birth = proc[v].birth
    BY <1>1 DEF ArrivesAt, OnlyRequest
  <2>2. /\ req[r].stage = "unsent" /\ req'[r].by = Process(w)
        /\ req'[r].stage \in {"routing", "limited"}
        /\ \A v \in Workers :
              /\ proc'[v].requests = proc[v].requests
              /\ proc'[v].limitHits = IF v = w /\ req'[r].stage = "limited"
                                      THEN proc[v].limitHits + 1 ELSE proc[v].limitHits
    BY <1>1 DEF ArrivesAt
  <2> SUFFICES ASSUME NEW v \in Workers, proc'[v].alive
               PROVE  /\ proc'[v].requests = Cardinality(On(v, "closed")')
                      /\ proc'[v].limitHits = Cardinality(On(v, "limited")')
    BY DEF Counted
  <2>3. On(v, "closed")' = On(v, "closed")
    BY <2>1, <2>2, CountKept
  <2>4. CASE v = w /\ req'[r].stage = "limited"
    <3>1. r \notin On(v, "limited") /\ On(v, "limited")' = On(v, "limited") \cup {r}
      BY <2>1, <2>2, <2>4 DEF On, Process
    <3> QED
      BY <2>1, <2>2, <2>3, <2>4, <3>1, OnFinite DEF Counted
  <2>5. CASE ~(v = w /\ req'[r].stage = "limited")
    <3>1. On(v, "limited")' = On(v, "limited")
      <4>1. ~(req'[r].by = Process(v) /\ req'[r].stage = "limited")
        BY <2>2, <2>5, Identity
      <4> QED
        BY <2>1, <2>2, <4>1, CountKept
    <3> QED
      BY <2>1, <2>2, <2>3, <2>5, <3>1 DEF Counted
  <2> QED
    BY <2>4, <2>5
<1>2. ASSUME NEW r \in Requests, Proceeds(r) PROVE Counted'
  <2>1. /\ \A q \in Requests \ {r} : req'[q] = req[q]
        /\ \A v \in Workers : proc'[v].alive = proc[v].alive /\ proc'[v].birth = proc[v].birth
    BY <1>2 DEF Proceeds, OnlyRequest
  <2>2. /\ req[r].stage \in InFlight /\ req'[r].by = req[r].by
        /\ req'[r].stage \in InFlight \cup {"closed", "abandoned"}
        /\ \A v \in Workers :
              /\ proc'[v].limitHits = proc[v].limitHits
              /\ proc'[v].requests = IF v = Slot(r) /\ req'[r].stage = "closed"
                                     THEN proc[v].requests + 1 ELSE proc[v].requests
    BY <1>2 DEF Proceeds
  <2>3. Slot(r) \in Workers /\ req[r].by = Process(Slot(r))
    BY <2>2 DEF Connected, Held, InFlight
  <2> SUFFICES ASSUME NEW v \in Workers, proc'[v].alive
               PROVE  /\ proc'[v].requests = Cardinality(On(v, "closed")')
                      /\ proc'[v].limitHits = Cardinality(On(v, "limited")')
    BY DEF Counted
  <2>4. On(v, "limited")' = On(v, "limited")
    BY <2>1, <2>2, CountKept DEF InFlight
  <2>5. CASE v = Slot(r) /\ req'[r].stage = "closed"
    <3>1. r \notin On(v, "closed") /\ On(v, "closed")' = On(v, "closed") \cup {r}
      BY <2>1, <2>2, <2>3, <2>5 DEF On, Process, InFlight
    <3> QED
      BY <2>1, <2>2, <2>4, <2>5, <3>1, OnFinite DEF Counted
  <2>6. CASE ~(v = Slot(r) /\ req'[r].stage = "closed")
    <3>1. On(v, "closed")' = On(v, "closed")
      <4>1. ~(req'[r].by = Process(v) /\ req'[r].stage = "closed")
        BY <2>2, <2>3, <2>6, Identity
      <4>2. req[r].stage # "closed"
        BY <2>2 DEF InFlight
      <4> QED
        BY <2>1, <4>1, <4>2, CountKept
    <3> QED
      BY <2>1, <2>2, <2>4, <2>6, <3>1 DEF Counted
  <2> QED
    BY <2>5, <2>6
<1>3. ASSUME NEW slots \in SUBSET Workers, Ends(slots) PROVE Counted'
  <2> SUFFICES ASSUME NEW v \in Workers, proc'[v].alive
               PROVE  /\ proc'[v].requests = Cardinality(On(v, "closed")')
                      /\ proc'[v].limitHits = Cardinality(On(v, "limited")')
    BY DEF Counted
  <2>1. /\ proc[v].alive /\ v \notin slots /\ proc'[v].birth = proc[v].birth
        /\ proc'[v].requests = proc[v].requests /\ proc'[v].limitHits = proc[v].limitHits
    BY <1>3 DEF Ends
  <2>2. ASSUME NEW q \in Requests
        PROVE  \/ req'[q] = req[q]
               \/ /\ req'[q].stage = "broken" /\ req[q].by # Process(v)
                  /\ req'[q].by = req[q].by
    <3>1. CASE /\ req[q].stage \in InFlight \cup {"limited"}
               /\ \E w \in slots : req[q].by = Process(w)
      <4>1. req'[q] = [req[q] EXCEPT !.stage = "broken"]
        BY <1>3, <3>1 DEF Ends, Break
      <4>2. req'[q].stage = "broken" /\ req'[q].by = req[q].by
        BY <4>1 DEF Typed, RequestState
      <4>3. req[q].by # Process(v)
        BY <2>1, <3>1, Identity
      <4> QED
        BY <4>2, <4>3
    <3>2. CASE ~ /\ req[q].stage \in InFlight \cup {"limited"}
                 /\ \E w \in slots : req[q].by = Process(w)
      BY <1>3, <3>2 DEF Ends, Break
    <3> QED
      BY <3>1, <3>2
  <2>3. On(v, "closed")' = On(v, "closed") /\ On(v, "limited")' = On(v, "limited")
    BY <2>1, <2>2, CountKept
  <2> QED
    BY <2>1, <2>3 DEF Counted
<1>4. ASSUME NEW w \in Workers, Restarts(w) PROVE Counted'
  <2> SUFFICES ASSUME NEW v \in Workers, proc'[v].alive
               PROVE  /\ proc'[v].requests = Cardinality(On(v, "closed")')
                      /\ proc'[v].limitHits = Cardinality(On(v, "limited")')
    BY DEF Counted
  <2>1. CASE v # w
    <3>1. proc'[v] = proc[v] /\ req' = req
      BY <1>4, <2>1 DEF Restarts
    <3>2. On(v, "closed")' = On(v, "closed") /\ On(v, "limited")' = On(v, "limited")
      BY <3>1, CountKept
    <3> QED
      BY <3>1, <3>2 DEF Counted
  <2>2. CASE v = w
    <3>1. /\ proc'[w].requests = 0 /\ proc'[w].limitHits = 0 /\ req' = req
          /\ proc'[w].birth = proc[w].birth + 1 /\ proc[w].birth \in Nat
      BY <1>4 DEF Restarts, Fresh, Typed, ProcessState
    <3>2. \A q \in Requests : req'[q].by # Process(w)'
      BY <1>4, NoneHeld
    <3>3. On(v, "closed")' = {} /\ On(v, "limited")' = {}
      BY <2>2, <3>2 DEF On
    <3> QED
      BY <2>2, <3>1, <3>3, FS_EmptySet
  <2> QED
    BY <2>1, <2>2
<1>5. CASE Quiet
  <2>1. \A w \in Workers : /\ On(w, "closed")' = On(w, "closed")
                           /\ On(w, "limited")' = On(w, "limited")
    BY <1>5 DEF Quiet, On, Process
  <2> QED
    BY <1>5, <2>1 DEF Quiet, Counted
<1> QED
  BY <1>1, <1>2, <1>3, <1>4, <1>5, Steps

-----------------------------------------------------------------------------
\* The inductive invariant holds of every reachable state.
THEOREM ServerInvariance == Spec => []IndInv
<1>1. IndInv /\ [Next]_vars => IndInv'
  BY TypedStep, BoundedStep, ConnectedStep, IssuingStep, CountedStep DEF IndInv
<1> QED
  BY <1>1, InitGood, PTL DEF Spec

\* A request is told "not found" only by a process that did not issue its session:
\* behind a cluster without sticky routing, or after a restart.
THEOREM IssuerAlwaysKnows == Spec => []IssuerKnows
<1>1. IndInv => IssuerKnows
  BY DEF IndInv, Issuing, IssuerKnows
<1> QED
  BY <1>1, ServerInvariance, PTL

\* The metrics of a process account for every request it accepted, however exits,
\* hang-ups and forks interleave with the requests.
THEOREM AccountsKept == Spec => []RequestsAccounted
<1>1. IndInv => RequestsAccounted
  <2> SUFFICES ASSUME IndInv, NEW w \in Workers, proc[w].alive
               PROVE  proc[w].requests + proc[w].limitHits
                        + Cardinality({r \in Served(w) :
                                          req[r].stage \in InFlight \cup {"abandoned"}})
                      = Cardinality(Served(w))
    BY DEF RequestsAccounted
  <2> DEFINE closed == On(w, "closed")
             limited == On(w, "limited")
             busy == {r \in Served(w) : req[r].stage \in InFlight \cup {"abandoned"}}
             done == closed \cup limited
  <2>1. ASSUME NEW r \in Served(w)
        PROVE  req[r].stage \in InFlight \cup {"abandoned", "closed", "limited"}
    <3>1. r \in Requests /\ req[r].by = Process(w) /\ Slot(r) = w /\ req[r].stage \in Stages
      BY Identity DEF Served, Slot, IndInv, Typed, RequestState
    <3>2. req[r].stage # "unsent" /\ req[r].stage # "broken"
      BY <3>1, Identity DEF IndInv, Connected, Held
    <3> QED
      BY <3>1, <3>2 DEF Stages
  <2>2. Served(w) = done \cup busy
    BY <2>1 DEF Served, On
  <2>3. closed \cap limited = {} /\ done \cap busy = {}
    BY DEF On, InFlight
  <2>4. IsFiniteSet(closed) /\ IsFiniteSet(limited) /\ IsFiniteSet(busy)
    <3>1. busy \in SUBSET Requests
      BY DEF Served
    <3> QED
      BY <3>1, OnFinite, FS_Subset, ServerAssumption
  <2>5. /\ proc[w].requests = Cardinality(closed)
        /\ proc[w].limitHits = Cardinality(limited)
    BY DEF IndInv, Counted
  <2> HIDE DEF closed, limited, busy
  <2>6. /\ IsFiniteSet(done)
        /\ Cardinality(done) = Cardinality(closed) + Cardinality(limited)
    <3>1. /\ IsFiniteSet(done)
          /\ Cardinality(done) = Cardinality(closed) + Cardinality(limited)
                                   - Cardinality(closed \cap limited)
      BY <2>4, FS_Union
    <3>2. Cardinality(closed \cap limited) = 0
      BY <2>3, FS_EmptySet
    <3>3. Cardinality(closed) \in Nat /\ Cardinality(limited) \in Nat
      BY <2>4, FS_CardinalityType
    <3> QED
      BY <3>1, <3>2, <3>3
  <2> HIDE DEF done
  <2>7. Cardinality(Served(w)) = Cardinality(done) + Cardinality(busy)
    <3>1. Cardinality(done \cup busy) = Cardinality(done) + Cardinality(busy)
                                          - Cardinality(done \cap busy)
      BY <2>4, <2>6, FS_Union
    <3>2. Cardinality(done \cap busy) = 0
      BY <2>3, FS_EmptySet
    <3>3. Cardinality(done) \in Nat /\ Cardinality(busy) \in Nat
      BY <2>4, <2>6, FS_CardinalityType
    <3> QED
      BY <2>2, <3>1, <3>2, <3>3
  <2> QED
    BY <2>5, <2>6, <2>7 DEF busy
<1> QED
  BY <1>1, ServerInvariance, PTL

-----------------------------------------------------------------------------
\* The windows of the limiter.  win tells, for each request that a limiter let
\* through, when the window began in which it was counted.
HitsOn(w) == {r \in Requests : req[r].by = Process(w) /\ req[r].hitAt > 0}

InWindow(w, win, a) == {r \in HitsOn(w) : win[r] = a}

\* A hit lies in its window, which began with a hit of its own and let at most Limit
\* through; windows do not overlap, and none ends after the current one.
HitInWindow(w, win, r) ==
    /\ win[r] <= req[r].hitAt /\ req[r].hitAt < win[r] + Window /\ req[r].hitAt <= now
    /\ win[r] + Window <= proc[w].resetTime
    /\ Cardinality(InWindow(w, win, win[r])) <= Limit
    /\ \E q \in InWindow(w, win, win[r]) : req[q].hitAt = win[r]
    /\ \A q \in HitsOn(w) : win[r] < win[q] => win[r] + Window <= win[q]

\* The current window: the store counts at least the hits it let through.
CurrentWindow(w, win, a) ==
    /\ Cardinality(InWindow(w, win, a)) <= proc[w].hits
    /\ \E q \in InWindow(w, win, a) : req[q].hitAt = a

WindowsOf(w, win) ==
    /\ \A r \in HitsOn(w) : HitInWindow(w, win, r)
    /\ proc[w].resetTime # 0 =>
          \E a \in Nat : proc[w].resetTime = a + Window /\ CurrentWindow(w, win, a)

Windows == \E win \in [Requests -> Nat] : \A w \in Workers : WindowsOf(w, win)

\* Two choices of windows that agree on the hits of a process, before and after a step
\* that leaves those hits and the end of the window as they are.
LEMMA WindowsKept ==
    ASSUME NEW w \in Workers, NEW win \in [Requests -> Nat], NEW new \in [Requests -> Nat],
           Typed, Typed', WindowsOf(w, win), HitsOn(w)' = HitsOn(w),
           \A r \in HitsOn(w) : req'[r].hitAt = req[r].hitAt /\ new[r] = win[r],
           proc'[w].resetTime = proc[w].resetTime, proc'[w].hits >= proc[w].hits,
           now' >= now
    PROVE  WindowsOf(w, new)'
<1>1. \A a : InWindow(w, new, a)' = InWindow(w, win, a)
  BY DEF InWindow
<1>2. \A a : InWindow(w, win, a) \subseteq HitsOn(w) /\ HitsOn(w) \subseteq Requests
  BY DEF InWindow, HitsOn
<1>3. /\ \A r \in Requests : req[r].hitAt \in Nat /\ req'[r].hitAt \in Nat
      /\ now \in Nat /\ now' \in Nat
      /\ proc[w].hits \in Nat /\ proc'[w].hits \in Nat
  BY DEF Typed, RequestState, ProcessState
<1>4. ASSUME NEW r \in HitsOn(w)
      PROVE  HitInWindow(w, new, r)'
  <2>1. HitInWindow(w, win, r)
    BY DEF WindowsOf
  <2>2. Cardinality(InWindow(w, new, new[r])') <= Limit
    BY <1>1, <2>1 DEF HitInWindow
  <2>3. \E q \in InWindow(w, new, new[r])' : req'[q].hitAt = new[r]
    BY <1>1, <1>2, <2>1 DEF HitInWindow
  <2>4. \A q \in HitsOn(w)' : new[r] < new[q] => new[r] + Window <= new[q]
    BY <2>1 DEF HitInWindow
  <2> QED
    BY <1>2, <1>3, <2>1, <2>2, <2>3, <2>4 DEF HitInWindow
<1>5. ASSUME proc'[w].resetTime # 0
      PROVE  \E a \in Nat : proc'[w].resetTime = a + Window /\ CurrentWindow(w, new, a)'
  <2>1. PICK a \in Nat : proc[w].resetTime = a + Window /\ CurrentWindow(w, win, a)
    BY <1>5 DEF WindowsOf
  <2>2. IsFiniteSet(InWindow(w, win, a))
    BY <1>2, FS_Subset, ServerAssumption
  <2>3. Cardinality(InWindow(w, win, a)) \in Nat
    BY <2>2, FS_CardinalityType
  <2>4. CurrentWindow(w, new, a)'
    BY <1>1, <1>2, <1>3, <2>1, <2>3 DEF CurrentWindow
  <2> QED
    BY <2>1, <2>4
<1> QED
  BY <1>4, <1>5 DEF WindowsOf

\* The limiter lets a request through: it begins a window, or is one more in it.
LEMMA PassKeeps ==
    ASSUME Typed, Typed', Windows, NEW r \in Requests, NEW w \in Workers,
           Limit >= Hits(w), proc'[w].hits = Hits(w), proc'[w].resetTime = ResetTime(w),
           proc'[w].birth = proc[w].birth,
           \A v \in Workers \ {w} : proc'[v] = proc[v],
           \A q \in Requests \ {r} : req'[q] = req[q],
           req[r].by = NoProcess, req'[r].by = Process(w), req'[r].hitAt = now,
           now' = now, now > 0
    PROVE  Windows'
<1> USE ServerAssumption
<1>1. PICK win \in [Requests -> Nat] : \A v \in Workers : WindowsOf(v, win)
  BY DEF Windows
<1>2. /\ now \in Nat /\ proc[w].resetTime \in Nat /\ proc[w].hits \in Nat
      /\ \A q \in Requests : req[q].hitAt \in Nat
  BY DEF Typed, ProcessState, RequestState
<1> DEFINE hits == HitsOn(w)
<1>3. \A v \in Workers : /\ Process(v)' = Process(v) /\ r \notin HitsOn(v)
                         /\ HitsOn(v) \subseteq Requests /\ IsFiniteSet(HitsOn(v))
  <2>1. \A v \in Workers : Process(v)' = Process(v) /\ r \notin HitsOn(v)
    BY Identity DEF Process, HitsOn
  <2>2. \A v \in Workers : HitsOn(v) \in SUBSET Requests
    BY DEF HitsOn
  <2> QED
    BY <2>1, <2>2, FS_Subset
<1>4. HitsOn(w)' = hits \cup {r}
  BY <1>2, <1>3 DEF HitsOn
\* The window the request is counted in.
<1>5. PICK a \in Nat :
      /\ a <= now /\ now < a + Window
      /\ proc'[w].resetTime = a + Window
      /\ \A q \in hits : win[q] + Window <= a \/ win[q] = a
      /\ WindowOver(w) => a = now /\ \A q \in hits : win[q] # a
      /\ ~WindowOver(w) => CurrentWindow(w, win, a)
  <2>1. \A q \in hits : win[q] + Window <= proc[w].resetTime /\ win[q] \in Nat
    BY <1>1, <1>3 DEF WindowsOf, HitInWindow
  <2>2. CASE WindowOver(w)
    <3>1. proc[w].resetTime <= now /\ proc'[w].resetTime = now + Window
      BY <2>2, <1>2 DEF WindowOver, ResetTime
    <3>2. \A q \in hits : win[q] + Window <= now
      BY <1>2, <2>1, <3>1
    <3> QED
      BY <1>2, <2>1, <2>2, <3>1, <3>2
  <2>3. CASE ~WindowOver(w)
    <3>1. now < proc[w].resetTime /\ proc'[w].resetTime = proc[w].resetTime
      BY <2>3, <1>2 DEF WindowOver, ResetTime
    <3>2. PICK b \in Nat : proc[w].resetTime = b + Window /\ CurrentWindow(w, win, b)
      BY <1>1, <1>2, <3>1 DEF WindowsOf
    <3>4. PICK q \in InWindow(w, win, b) : req[q].hitAt = b
      BY <3>2 DEF CurrentWindow
    <3>5. q \in hits /\ b <= now
      BY <1>1, <3>4 DEF InWindow, WindowsOf, HitInWindow
    <3>6. \A x \in hits : win[x] + Window <= b \/ win[x] = b
      <4> SUFFICES ASSUME NEW x \in hits PROVE win[x] + Window <= b \/ win[x] = b
        OBVIOUS
      <4>1. win[q] = b /\ win[x] + Window <= b + Window /\ win[x] \in Nat
        BY <2>1, <3>2, <3>4 DEF InWindow
      <4>2. win[x] < win[q] => win[x] + Window <= win[q]
        BY <1>1, <3>5 DEF WindowsOf, HitInWindow
      <4> QED
        BY <4>1, <4>2
    <3> QED
      BY <2>3, <3>1, <3>2, <3>5, <3>6
  <2> QED
    BY <2>2, <2>3
<1>6. PICK new \in [Requests -> Nat] :
          new[r] = a /\ \A q \in Requests \ {r} : new[q] = win[q]
  <2> [win EXCEPT ![r] = a] \in [Requests -> Nat]
    OBVIOUS
  <2> QED
    OBVIOUS
<1>7. ASSUME NEW b, b # a PROVE InWindow(w, new, b)' = InWindow(w, win, b)
  BY <1>3, <1>4, <1>6, <1>7 DEF InWindow
<1>8. InWindow(w, new, a)' = InWindow(w, win, a) \cup {r}
  BY <1>3, <1>4, <1>6 DEF InWindow
\* As many as the store counts.
<1>9. /\ Cardinality(InWindow(w, new, a)') <= Hits(w)
      /\ Cardinality(InWindow(w, new, a)') <= Limit
  <2>1. IsFiniteSet(InWindow(w, win, a)) /\ r \notin InWindow(w, win, a)
    <3>1. InWindow(w, win, a) \in SUBSET hits
      BY DEF InWindow
    <3> QED
      BY <1>3, <3>1, FS_Subset
  <2>2. /\ Cardinality(InWindow(w, new, a)') = Cardinality(InWindow(w, win, a)) + 1
        /\ Cardinality(InWindow(w, win, a)) \in Nat
    BY <1>8, <2>1, FS_AddElement, FS_CardinalityType
  <2>3. CASE WindowOver(w)
    <3>1. InWindow(w, win, a) = {} /\ Hits(w) = 1
      BY <1>5, <2>3 DEF InWindow, Hits
    <3>2. Cardinality(InWindow(w, win, a)) = 0
      BY <3>1, FS_EmptySet
    <3> QED
      BY <2>2, <3>1, <3>2
  <2>4. CASE ~WindowOver(w)
    <3>1. Cardinality(InWindow(w, win, a)) <= proc[w].hits /\ Hits(w) = proc[w].hits + 1
      BY <1>5, <2>4 DEF CurrentWindow, Hits
    <3> QED
      BY <1>2, <2>2, <3>1
  <2> QED
    BY <2>3, <2>4
<1>10. \E q \in InWindow(w, new, a)' : req'[q].hitAt = a
  <2>1. CASE WindowOver(w)
    BY <1>5, <1>8, <2>1
  <2>2. CASE ~WindowOver(w)
    <3>1. PICK q \in InWindow(w, win, a) : req[q].hitAt = a
      BY <1>5, <2>2 DEF CurrentWindow
    <3>2. q \in Requests /\ q # r
      BY <1>3, <3>1 DEF InWindow
    <3> QED
      BY <1>8, <3>1, <3>2
  <2> QED
    BY <2>1, <2>2
<1>11. \A q \in HitsOn(w)' : HitInWindow(w, new, q)'
  <2>1. \A q \in hits : /\ q \in Requests /\ q # r /\ new[q] = win[q] /\ req'[q] = req[q]
                        /\ win[q] \in Nat /\ HitInWindow(w, win, q)
    BY <1>1, <1>3, <1>6 DEF WindowsOf
  <2>2. ASSUME NEW q \in hits \cup {r}, NEW x \in hits \cup {r}, new[q] < new[x]
        PROVE  new[q] + Window <= new[x]
    <3>1. CASE q \in hits /\ x \in hits
      BY <2>1, <2>2, <3>1 DEF HitInWindow
    <3>2. CASE q \in hits /\ x = r
      BY <1>5, <1>6, <2>1, <2>2, <3>2
    <3>3. CASE q = r /\ x \in hits
      BY <1>5, <1>6, <2>1, <2>2, <3>3
    <3>4. CASE q = r /\ x = r
      BY <1>5, <1>6, <2>2, <3>4
    <3> QED
      BY <3>1, <3>2, <3>3, <3>4
  <2>3. ASSUME NEW q \in hits
        PROVE  HitInWindow(w, new, q)'
    <3>1. CASE new[q] = a
      <4>1. new[q] <= req'[q].hitAt /\ req'[q].hitAt < new[q] + Window /\ req'[q].hitAt <= now'
        BY <2>1 DEF HitInWindow
      <4>2. new[q] + Window <= proc'[w].resetTime
        BY <1>5, <3>1
      <4>3. Cardinality(InWindow(w, new, new[q])') <= Limit
        <5>1. InWindow(w, new, new[q])' = InWindow(w, new, a)'
          BY <3>1
        <5> QED
          BY <1>9, <5>1
      <4> QED
        BY <1>4, <1>10, <2>2, <3>1, <4>1, <4>2, <4>3 DEF HitInWindow
    <3>2. CASE new[q] # a
      <4>1. new[q] <= req'[q].hitAt /\ req'[q].hitAt < new[q] + Window /\ req'[q].hitAt <= now'
        BY <2>1 DEF HitInWindow
      <4>2. new[q] + Window <= proc'[w].resetTime
        BY <1>5, <2>1, <3>2
      <4>3. InWindow(w, new, new[q])' = InWindow(w, win, win[q])
        BY <1>7, <2>1, <3>2
      <4>4. Cardinality(InWindow(w, new, new[q])') <= Limit
        BY <2>1, <4>3 DEF HitInWindow
      <4>5. \E x \in InWindow(w, new, new[q])' : req'[x].hitAt = new[q]
        <5>1. PICK x \in InWindow(w, win, win[q]) : req[x].hitAt = win[q]
          BY <2>1 DEF HitInWindow
        <5>2. x \in hits
          BY <5>1 DEF InWindow
        <5> QED
          BY <2>1, <4>3, <5>1, <5>2
      <4> QED
        BY <1>4, <2>2, <4>1, <4>2, <4>4, <4>5 DEF HitInWindow
    <3> QED
      BY <3>1, <3>2
  <2>4. HitInWindow(w, new, r)'
    <3>1. new[r] <= req'[r].hitAt /\ req'[r].hitAt < new[r] + Window /\ req'[r].hitAt <= now'
      BY <1>2, <1>5, <1>6
    <3>2. new[r] + Window <= proc'[w].resetTime
      BY <1>5, <1>6
    <3>3. Cardinality(InWindow(w, new, new[r])') <= Limit
      <4>1. InWindow(w, new, new[r])' = InWindow(w, new, a)'
        BY <1>6
      <4> QED
        BY <1>9, <4>1
    <3> QED
      BY <1>4, <1>6, <1>10, <2>2, <3>1, <3>2, <3>3 DEF HitInWindow
  <2> QED
    BY <1>4, <2>3, <2>4
<1>12. WindowsOf(w, new)'
  <2>1. CurrentWindow(w, new, a)'
    BY <1>9, <1>10 DEF CurrentWindow
  <2> QED
    BY <1>5, <1>11, <2>1 DEF WindowsOf
<1>13. ASSUME NEW v \in Workers, v # w PROVE WindowsOf(v, new)'
  <2>1. HitsOn(v)' = HitsOn(v)
    <3>1. req'[r].by # Process(v)
      BY <1>13, Identity
    <3> QED
      BY <1>3, <3>1 DEF HitsOn
  <2>2. \A q \in HitsOn(v) : req'[q].hitAt = req[q].hitAt /\ new[q] = win[q]
    BY <1>3, <1>6
  <2>3. proc'[v] = proc[v] /\ proc[v].hits \in Nat
    BY <1>13 DEF Typed, ProcessState
  <2> QED
    BY <1>1, <1>2, <1>6, <2>1, <2>2, <2>3, WindowsKept
<1> QED
  BY <1>6, <1>12, <1>13 DEF Windows

\* The hits of a process are those of the requests it holds: no other step adds one.
LEMMA HitsSame ==
    ASSUME NEW w \in Workers, proc'[w].birth = proc[w].birth,
           \A r \in Requests :
               \/ req'[r].by = req[r].by /\ req'[r].hitAt = req[r].hitAt
               \/ req[r].by # Process(w) /\ req'[r].hitAt = 0
    PROVE  /\ HitsOn(w)' = HitsOn(w)
           /\ \A r \in HitsOn(w) : req'[r].hitAt = req[r].hitAt
BY DEF HitsOn, Process

LEMMA QuietWindows ==
    ASSUME Typed, Typed', Windows, now' >= now,
           \A w \in Workers :
               \/ /\ proc'[w].birth = proc[w].birth /\ proc'[w].resetTime = proc[w].resetTime
                  /\ proc'[w].hits >= proc[w].hits
                  /\ \A r \in Requests :
                        \/ req'[r].by = req[r].by /\ req'[r].hitAt = req[r].hitAt
                        \/ req[r].by # Process(w) /\ req'[r].hitAt = 0
               \/ HitsOn(w)' = {} /\ proc'[w].resetTime = 0
    PROVE  Windows'
<1>1. PICK win \in [Requests -> Nat] : \A w \in Workers : WindowsOf(w, win)
  BY DEF Windows
<1>2. ASSUME NEW w \in Workers PROVE WindowsOf(w, win)'
  <2>1. CASE HitsOn(w)' = {} /\ proc'[w].resetTime = 0
    BY <2>1 DEF WindowsOf
  <2>2. CASE ~(HitsOn(w)' = {} /\ proc'[w].resetTime = 0)
    <3>1. /\ HitsOn(w)' = HitsOn(w)
          /\ \A r \in HitsOn(w) : req'[r].hitAt = req[r].hitAt
      BY <2>2, HitsSame
    <3> QED
      BY <1>1, <2>2, <3>1, WindowsKept
  <2> QED
    BY <2>1, <2>2
<1> QED
  BY <1>2 DEF Windows

LEMMA WindowsStep ==
    ASSUME Typed, Typed', Connected, Windows, [Next]_vars
    PROVE  Windows'
<1> USE ServerAssumption
<1>0. /\ now \in Nat \ {0}
      /\ \A w \in Workers : proc[w].hits \in Nat /\ proc[w].resetTime \in Nat
      /\ \A r \in Requests : req[r].hitAt \in Nat /\ req[r] \in RequestState
      /\ req \in [Requests -> RequestState]
  BY DEF Typed, ProcessState, RequestState
<1>1. ASSUME NEW r \in Requests, NEW w \in Workers, NEW kind, NEW s,
             \/ Bypass(r, w, kind, s) \/ LimiterPasses(r, w, kind, s)
             \/ LimiterHandler(r, w, kind, s)
      PROVE  Windows'
  <2>1. req[r].by = NoProcess /\ now' = now
    BY <1>1 DEF Bypass, LimiterPasses, LimiterHandler, Arrives, Connected, Held
  <2>2. \A stage : /\ Received(w, kind, s, stage).by = Process(w)
                   /\ Received(w, kind, s, stage).hitAt = 0
                   /\ [Received(w, kind, s, stage) EXCEPT !.hitAt = now].by = Process(w)
                   /\ [Received(w, kind, s, stage) EXCEPT !.hitAt = now].hitAt = now
    BY DEF Received, Unsent
  <2>3. CASE LimiterPasses(r, w, kind, s)
    <3>1. /\ Limit >= Hits(w)
          /\ proc' = [proc EXCEPT ![w].hits = Hits(w), ![w].resetTime = ResetTime(w)]
          /\ req' = [req EXCEPT ![r] =
                        [Received(w, kind, s, "routing") EXCEPT !.hitAt = now]]
      BY <2>3 DEF LimiterPasses, Hits
    <3>2. /\ req'[r].by = Process(w) /\ req'[r].hitAt = now
          /\ \A q \in Requests \ {r} : req'[q] = req[q]
      <4> DEFINE rec == [Received(w, kind, s, "routing") EXCEPT !.hitAt = now]
      <4>1. rec.by = Process(w) /\ rec.hitAt = now
        BY <2>2
      <4>2. req' = [req EXCEPT ![r] = rec]
        BY <3>1
      <4> HIDE DEF rec
      <4> QED
        BY <1>0, <4>1, <4>2
    <3>3. /\ proc'[w].hits = Hits(w) /\ proc'[w].resetTime = ResetTime(w)
          /\ proc'[w].birth = proc[w].birth
          /\ \A v \in Workers \ {w} : proc'[v] = proc[v]
      BY <3>1 DEF Typed, ProcessState
    <3>4. Limit >= Hits(w) /\ now > 0
      BY <1>0, <3>1
    <3> QED
      BY <2>1, <3>2, <3>3, <3>4, PassKeeps
  <2>4. CASE Bypass(r, w, kind, s) \/ LimiterHandler(r, w, kind, s)
    <3>1. req'[r].hitAt = 0 /\ \A q \in Requests \ {r} : req'[q] = req[q]
      <4> DEFINE rec(stage) == Received(w, kind, s, stage)
      <4>1. rec("routing").hitAt = 0 /\ rec("limited").hitAt = 0
        BY <2>2
      <4>2. \/ req' = [req EXCEPT ![r] = rec("routing")]
            \/ req' = [req EXCEPT ![r] = rec("limited")]
        BY <2>4 DEF Bypass, LimiterHandler
      <4> HIDE DEF rec
      <4> QED
        BY <1>0, <4>1, <4>2
    <3>2. \A v \in Workers : req[r].by # Process(v)
      BY <2>1, Identity
    <3>3. \A v \in Workers :
              /\ proc'[v].birth = proc[v].birth /\ proc'[v].resetTime = proc[v].resetTime
              /\ proc'[v].hits >= proc[v].hits
      <4>1. CASE Bypass(r, w, kind, s)
        BY <1>0, <4>1 DEF Bypass
      <4>2. CASE LimiterHandler(r, w, kind, s)
        <5>1. Hits(w) = proc[w].hits + 1 /\ ResetTime(w) = proc[w].resetTime
          BY <1>0, <4>2 DEF LimiterHandler, Hits, ResetTime
        <5>2. proc' = [proc EXCEPT ![w].hits = Hits(w), ![w].resetTime = ResetTime(w),
                                   ![w].limitHits = @ + 1]
          BY <4>2 DEF LimiterHandler
        <5>3. /\ proc'[w].hits = proc[w].hits + 1 /\ proc'[w].resetTime = proc[w].resetTime
              /\ proc'[w].birth = proc[w].birth
              /\ \A v \in Workers \ {w} : proc'[v] = proc[v]
          BY <5>1, <5>2 DEF Typed, ProcessState
        <5> QED
          BY <1>0, <5>3
      <4> QED
        BY <2>4, <4>1, <4>2
    <3> QED
      BY <1>0, <2>1, <3>1, <3>2, <3>3, QuietWindows
  <2> QED
    BY <1>1, <2>3, <2>4
<1>2. ASSUME NEW r \in Requests, Serve(r) \/ HangUp(r) PROVE Windows'
  <2>1. Proceeds(r)
    BY <1>2, Proceeding
  <2> QED
    BY <1>0, <2>1, QuietWindows DEF Proceeds, OnlyRequest
<1>3. ASSUME NEW slots \in SUBSET Workers, Ends(slots) PROVE Windows'
  <2>1. \A r \in Requests : req'[r].by = req[r].by /\ req'[r].hitAt = req[r].hitAt
    BY <1>0, <1>3 DEF Ends, Break, RequestState
  <2> QED
    BY <1>0, <1>3, <2>1, QuietWindows DEF Ends
<1>4. ASSUME NEW w \in Workers, Restarts(w) PROVE Windows'
  <2>1. HitsOn(w)' = {}
    BY <1>4, NoneHeld DEF HitsOn, Restarts
  <2>2. proc'[w].resetTime = 0 /\ req' = req /\ now' = now
        /\ \A v \in Workers \ {w} : proc'[v] = proc[v]
    BY <1>4 DEF Restarts, Fresh
  <2> QED
    BY <1>0, <2>1, <2>2, QuietWindows
<1>5. CASE Tick \/ UNCHANGED vars
  BY <1>0, <1>5, QuietWindows DEF Tick, vars
<1>6. ASSUME NEW r \in Requests, Receive(r) PROVE Windows'
  BY <1>1, <1>6 DEF Receive
<1> QED
  BY <1>2, <1>3, <1>4, <1>5, <1>6, Ending, Restarting DEF Next

LEMMA InitWindows == Init => Windows
<1> SUFFICES ASSUME Init PROVE Windows
  OBVIOUS
<1>1. \A w \in Workers : HitsOn(w) = {} /\ proc[w].resetTime = 0
  BY DEF Init, HitsOn, Unsent, Fresh
<1>2. [r \in Requests |-> 0] \in [Requests -> Nat]
  OBVIOUS
<1>3. \A w \in Workers : WindowsOf(w, [r \in Requests |-> 0])
  BY <1>1 DEF WindowsOf
<1> QED
  BY <1>2, <1>3 DEF Windows

\* Any stretch of windowMs meets at most two windows, and not the hit that began the
\* first of two: one process lets less than twice its limit through in it, whatever the
\* arrivals, hang-ups, exits and forks.
THEOREM BurstsAlwaysBounded == Spec => []BurstBounded
<1>1. Typed /\ Windows => BurstBounded
  <2> SUFFICES ASSUME Typed, Windows, NEW w \in Workers, NEW t \in 1 .. now
               PROVE  Cardinality({r \in Served(w) : req[r].hitAt \in t .. t + Window - 1})
                          < 2 * Limit
    BY DEF BurstBounded
  <2> USE ServerAssumption
  <2> DEFINE S == {r \in Served(w) : req[r].hitAt \in t .. t + Window - 1}
             hits == HitsOn(w)
  <2>1. PICK win \in [Requests -> Nat] : WindowsOf(w, win)
    BY DEF Windows
  <2>2. /\ S \subseteq hits /\ hits \subseteq Requests /\ t \in Nat /\ now \in Nat
        /\ \A r \in S : t <= req[r].hitAt /\ req[r].hitAt <= t + Window - 1
        /\ \A r \in hits : win[r] \in Nat /\ req[r].hitAt \in Nat
    BY DEF Served, HitsOn, Typed, RequestState
  <2>3. \A a : /\ IsFiniteSet(InWindow(w, win, a))
               /\ Cardinality(InWindow(w, win, a)) \in Nat
    <3>1. \A a : InWindow(w, win, a) \in SUBSET Requests
      BY <2>2 DEF InWindow
    <3> QED
      BY <3>1, FS_Subset, FS_CardinalityType
  <2>4. \A r \in hits : HitInWindow(w, win, r)
    BY <2>1 DEF WindowsOf
  <2> HIDE DEF S
  <2>5. CASE S = {}
    <3>1. Cardinality(S) = 0
      BY <2>5, FS_EmptySet
    <3> QED
      BY <3>1 DEF S
  <2>6. CASE \E r \in S : \A q \in S : win[q] = win[r]
    <3>1. PICK r \in S : \A q \in S : win[q] = win[r]
      BY <2>6
    <3>2. S \in SUBSET InWindow(w, win, win[r])
      BY <2>2, <3>1 DEF InWindow
    <3>3. IsFiniteSet(S) /\ Cardinality(S) <= Cardinality(InWindow(w, win, win[r]))
      BY <2>3, <3>2, FS_Subset
    <3>4. Cardinality(InWindow(w, win, win[r])) <= Limit
      BY <2>2, <2>4 DEF HitInWindow
    <3>5. Cardinality(S) \in Nat /\ Cardinality(InWindow(w, win, win[r])) \in Nat
      BY <2>3, <3>3, FS_CardinalityType
    <3>6. Cardinality(S) < 2 * Limit
      BY <3>3, <3>4, <3>5
    <3> QED
      BY <3>6 DEF S
  <2>7. CASE \E r, q \in S : win[r] < win[q]
    <3>1. PICK r \in S, q \in S : win[r] < win[q]
      BY <2>7
    <3> DEFINE A == InWindow(w, win, win[r])
               B == InWindow(w, win, win[q])
    <3>2. /\ HitInWindow(w, win, r) /\ HitInWindow(w, win, q) /\ r \in hits /\ q \in hits
      BY <2>2, <2>4
    \* The first hit of the older window came before the stretch.
    <3>3. PICK f \in A : req[f].hitAt = win[r]
      BY <3>2 DEF HitInWindow
    <3>4. f \notin S
      <4>1. win[r] + Window <= win[q] /\ win[q] <= req[q].hitAt
        BY <3>1, <3>2 DEF HitInWindow
      <4>2. win[r] < t
        BY <2>2, <3>2, <4>1
      <4> QED
        BY <2>2, <3>2, <3>3, <4>2
    <3>5. ASSUME NEW x \in S, win[x] # win[r], win[x] # win[q] PROVE FALSE
      <4>1. /\ x \in hits /\ HitInWindow(w, win, x)
            /\ win[x] \in Nat /\ win[r] \in Nat /\ win[q] \in Nat
        BY <2>2, <2>4, <3>2
      <4>2. /\ win[r] <= t + Window - 1 /\ win[q] <= t + Window - 1 /\ win[x] <= t + Window - 1
            /\ t < win[r] + Window /\ t < win[q] + Window /\ t < win[x] + Window
        BY <2>2, <3>2, <4>1 DEF HitInWindow
      <4>3. /\ win[r] + Window <= win[q]
            /\ win[x] < win[r] => win[x] + Window <= win[r]
            /\ win[x] > win[q] => win[q] + Window <= win[x]
            /\ win[x] > win[r] => win[r] + Window <= win[x]
            /\ win[x] < win[q] => win[x] + Window <= win[q]
        BY <3>1, <3>2, <4>1 DEF HitInWindow
      <4> QED
        BY <2>2, <3>5, <4>1, <4>2, <4>3
    <3>6. S \in SUBSET ((A \ {f}) \cup B)
      BY <2>2, <3>4, <3>5 DEF InWindow
    <3>7. /\ IsFiniteSet(A) /\ IsFiniteSet(B) /\ Cardinality(A) \in Nat /\ Cardinality(B) \in Nat
          /\ Cardinality(A) <= Limit /\ Cardinality(B) <= Limit
      BY <2>3, <3>2 DEF HitInWindow
    <3> HIDE DEF A, B
    <3>8. IsFiniteSet(A \ {f}) /\ Cardinality(A \ {f}) = Cardinality(A) - 1
      BY <3>3, <3>7, FS_RemoveElement
    <3>9. /\ IsFiniteSet((A \ {f}) \cup B)
          /\ Cardinality((A \ {f}) \cup B) <= Cardinality(A) - 1 + Cardinality(B)
      <4>1. /\ IsFiniteSet((A \ {f}) \cup B)
            /\ Cardinality((A \ {f}) \cup B) = Cardinality(A \ {f}) + Cardinality(B)
                                                - Cardinality((A \ {f}) \cap B)
        BY <3>7, <3>8, FS_Union
      <4>2. Cardinality((A \ {f}) \cap B) \in Nat
        <5>1. (A \ {f}) \cap B \in SUBSET B
          OBVIOUS
        <5> QED
          BY <3>7, <5>1, FS_Subset, FS_CardinalityType
      <4> QED
        BY <3>7, <3>8, <4>1, <4>2
    <3>10. /\ IsFiniteSet(S) /\ Cardinality(S) <= Cardinality((A \ {f}) \cup B)
           /\ Cardinality(S) \in Nat /\ Cardinality((A \ {f}) \cup B) \in Nat
      BY <3>6, <3>9, FS_Subset, FS_CardinalityType
    <3>11. Cardinality(S) < 2 * Limit
      BY <3>7, <3>9, <3>10
    <3> QED
      BY <3>11 DEF S
  <2> QED
    BY <2>2, <2>5, <2>6, <2>7
<1>2. IndInv /\ IndInv' /\ Windows /\ [Next]_vars => Windows'
  BY WindowsStep DEF IndInv
<1>3. IndInv => Typed
  BY DEF IndInv
<1> QED
  BY <1>1, <1>2, <1>3, InitWindows, ServerInvariance, PTL DEF Spec

=============================================================================
