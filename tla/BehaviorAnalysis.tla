--------------------------- MODULE BehaviorAnalysis ---------------------------
(***************************************************************************)
(* security/mouse-movement-analyzer.ts, keystroke-dynamics-analyzer.ts and    *)
(* detectBot of bot-detection-ml.ts: behavioural sessions and the cached        *)
(* results about them, for one session id.  Each analyzer keeps its own session *)
(* object under the id; results are cached under the id alone.  What a session  *)
(* says is abstracted to the count of the changes that made it.               *)
(***************************************************************************)
EXTENDS Naturals, FiniteSets

CONSTANTS
    CacheTTL,       \* ticks a cached result is served
    MaxAge,         \* ticks after which cleanup drops a session
    MaxChanges,     \* bound: sessions created and updated
    MaxTime         \* bound: the clock

VARIABLES
    now,
    changes,        \* sessions created and updated so far
    sessions,       \* analyzer -> session, or NoSession
    cache,          \* analysisCache: analyzer -> result, or NoResult
    ended,          \* result of the last endSession, and of which analyzer, or NoResult
    detecting       \* the session detectBot waits for a prediction of, or NoSession

behaviorVars == <<now, changes, sessions, cache, ended, detecting>>

Analyzers == {"mouse", "keystroke"}
NoSession == [born |-> 0, start |-> 0, end |-> 0, version |-> 0]
NoResult == [version |-> 0, at |-> 0]
NotEnded == [of |-> "", version |-> 0, age |-> 0]

Init ==
    /\ now = 1
    /\ changes = 0
    /\ sessions = [a \in Analyzers |-> NoSession]
    /\ cache = [a \in Analyzers |-> NoResult]
    /\ ended = NotEnded
    /\ detecting = NoSession

-----------------------------------------------------------------------------
(* Results.                                                                  *)

Fresh(r) == r # NoResult /\ now - r.at < CacheTTL

\* performBotDetection: the cached result of the id, whatever session it was computed from,
\* or one computed now.
Analysis(a, session) ==
    IF Fresh(cache[a]) THEN cache[a] ELSE [version |-> session.version, at |-> now]

-----------------------------------------------------------------------------
(* Sessions.                                                                 *)

\* createSession overwrites a session of the same id; what is cached under it stays.
CreateSession(a) ==
    /\ changes < MaxChanges
    /\ changes' = changes + 1
    /\ sessions' = [sessions EXCEPT ![a] =
          [born |-> changes + 1, start |-> now, end |-> 0, version |-> changes + 1]]
    /\ UNCHANGED <<now, cache, ended, detecting>>

\* updateSession: the keystroke analyzer notes the time in endTime, the mouse analyzer only
\* in the trail, where cleanup does not look.
UpdateSession(a) ==
    /\ sessions[a] # NoSession
    /\ changes < MaxChanges
    /\ changes' = changes + 1
    /\ sessions' = [sessions EXCEPT ![a].version = changes + 1,
                                    ![a].end = IF a = "keystroke" THEN now ELSE @]
    /\ detecting' = IF detecting.born = sessions[a].born THEN sessions'[a] ELSE detecting
    /\ UNCHANGED <<now, cache, ended>>

EndSession(a) ==
    /\ sessions[a] # NoSession
    /\ sessions' = [sessions EXCEPT ![a].end = now]
    /\ cache' = [cache EXCEPT ![a] = Analysis(a, sessions[a])]
    /\ ended' = [of |-> a, version |-> cache'[a].version, age |-> now - cache'[a].at]
    /\ UNCHANGED <<now, changes, detecting>>

\* endTime || startTime.
Expired(session) ==
    session # NoSession /\ now - (IF session.end # 0 THEN session.end ELSE session.start) > MaxAge

Cleanup(a) ==
    /\ sessions' = [sessions EXCEPT ![a] = IF Expired(@) THEN NoSession ELSE @]
    /\ cache' = [cache EXCEPT ![a] = IF @ # NoResult /\ now - @.at > CacheTTL THEN NoResult ELSE @]
    /\ UNCHANGED <<now, changes, ended, detecting>>

-----------------------------------------------------------------------------
(* Detection by all.                                                         *)

\* detectBot up to the await in predict.
DetectBot(a) ==
    /\ sessions[a] # NoSession /\ detecting = NoSession
    /\ detecting' = sessions[a]
    /\ UNCHANGED <<now, changes, sessions, cache, ended>>

\* The prediction arrives: both analyzers judge the session as it is now, or as they did,
\* and either may fill its cache with a session of the other.
DetectReturns ==
    /\ detecting # NoSession
    /\ cache' = [a \in Analyzers |-> Analysis(a, detecting)]
    /\ detecting' = NoSession
    /\ UNCHANGED <<now, changes, sessions, ended>>

Tick ==
    /\ now < MaxTime
    /\ now' = now + 1
    /\ UNCHANGED <<changes, sessions, cache, ended, detecting>>

Next ==
    \/ \E a \in Analyzers : CreateSession(a) \/ UpdateSession(a) \/ EndSession(a) \/ Cleanup(a) \/ DetectBot(a)
    \/ DetectReturns
    \/ Tick

Spec == Init /\ [][Next]_behaviorVars

-----------------------------------------------------------------------------
(* Properties.                                                               *)

\* What endSession returns was computed less than the time to live ago, however often the
\* id was reused and whichever analyzer's session filled the cache.
ResultsFresh == ended.age < CacheTTL

\* Documented, and not kept (README, "What the code does not keep").
\* A result of endSession is of the session as it was then.
ResultsCurrent ==
    [][ended' # ended => ended'.version = sessions[ended'.of].version]_behaviorVars

\* cleanup never drops a keystroke session that was updated or ended within the age, nor a
\* mouse session younger than it.  (A mouse session in use goes when it is old enough.)
ActiveSessionsKept ==
    [][\A a \in Analyzers : (sessions[a] # NoSession /\ sessions'[a] = NoSession) =>
          /\ now - sessions[a].start > MaxAge
          /\ now - sessions[a].end > MaxAge]_behaviorVars

=============================================================================
