---------------------------- MODULE CaptchaWidget ----------------------------
(***************************************************************************)
(* The browser widgets: the React provider and widget, the Vue and Angular   *)
(* ones, the Svelte store and the vanilla SDK.  They keep the same record of   *)
(* a challenge and differ in what the module tells apart by kind: when the      *)
(* screen follows the state, which buttons are disabled while a call is out,    *)
(* who starts and who clears the auto-refresh timer, and what unmounting does.  *)
(*                                                                         *)
(* The frameworks' widgets hold a CaptchaService of their own: generateCaptcha  *)
(* waits for the image library, validateResponse only for promises already      *)
(* settled, so that no other event comes in between.  The vanilla widget's      *)
(* client may call the server, and every call of it takes time.                  *)
(***************************************************************************)
EXTENDS Naturals

CONSTANTS
    WidgetKinds,   \* of "react", "vue", "angular", "svelte", "vanilla"
    MaxAttempts,   \* options.maxAttempts
    Life,          \* seconds a session is announced to last
    MaxSessions,   \* bound: sessions generated
    MaxCalls       \* bound: calls out at a time

VARIABLES
    kind,      \* which widget this is
    mounted,
    state,     \* the widget's CaptchaState; session 0 is null
    ui,        \* the part of it that is on the screen
    timer,     \* the auto-refresh interval is set
    calls,     \* calls to the service that have not returned, each in a place of its own
    issued,    \* sessions the service has generated for this widget
    passed     \* sessions the service found a right answer for

vars == <<kind, mounted, state, ui, timer, calls, issued, passed>>

NoState == [loading |-> FALSE, session |-> 0, validated |-> FALSE, attempts |-> 0, expiresIn |-> 0]
NoCall == [op |-> "none", session |-> 0, shown |-> 0, updates |-> TRUE]
Face(s) == [loading |-> s.loading, session |-> s.session, validated |-> s.validated]

NoCalls == [i \in 1..MaxCalls |-> NoCall]

\* A widget mounts with an empty state; the vanilla one writes "Loading..." on the screen, and
\* with autoGenerate asks for a challenge at once.
Init ==
    /\ kind \in WidgetKinds
    /\ mounted = TRUE /\ timer = FALSE /\ issued = 0 /\ passed = {}
    /\ ui = [Face(NoState) EXCEPT !.loading = (kind = "vanilla")]
    /\ \/ state = NoState /\ calls = NoCalls
       \/ /\ kind = "vanilla"
          /\ state = [NoState EXCEPT !.loading = TRUE]
          /\ calls = [NoCalls EXCEPT ![1] = [NoCall EXCEPT !.op = "generate"]]

Reactive == kind \in {"react", "vue", "svelte"}

\* The screen after a step that calls the widget's own update (updated) or not.
Rendered(s, updated) == IF Reactive \/ updated THEN Face(s) ELSE ui

\* React's timer is an effect of the state; the others start theirs by hand.
TimerIn(s, byHand) ==
    CASE kind = "react" -> mounted /\ s.session # 0 /\ ~s.validated
      [] kind = "vanilla" -> FALSE
      [] OTHER -> byHand

Out == {i \in 1..MaxCalls : calls[i].op # "none"}

\* A validation by a local service returns before any other event.
Settled == kind = "vanilla" \/ \A i \in Out : calls[i].op # "validate"

\* React ignores what is set after unmounting.
Listening == kind # "react" \/ mounted

Idle == kind \in {"svelte", "vanilla"} \/ ~ui.loading

-----------------------------------------------------------------------------

Call(new) ==
    \E i \in 1..MaxCalls : calls[i] = NoCall /\ calls' = [calls EXCEPT ![i] = new]

\* generate: updates tells whether the widget updates its screen afterwards.
Asked(s, updates) ==
    /\ Call([op |-> "generate", session |-> 0, shown |-> 0, updates |-> updates])
    /\ state' = [s EXCEPT !.loading = TRUE]
    /\ UNCHANGED <<kind, mounted, issued, passed>>

\* The widget generates its first challenge by itself, the vanilla one also when the
\* application calls generate.
Generate ==
    /\ mounted /\ Settled /\ state.session = 0 /\ Out = {}
    /\ Asked(state, TRUE)
    /\ ui' = Rendered(state', FALSE)
    /\ UNCHANGED timer

\* reset, then generate: the refresh button, and choosing another type.  Only the
\* vanilla reset updates the screen by itself; an Angular type change copies the
\* state as it is once generate has begun, and not when it ends.
Refresh ==
    /\ mounted /\ Settled /\ Idle
    /\ Asked(NoState, TRUE)
    /\ ui' = IF kind = "vanilla" THEN Face(NoState) ELSE Rendered(state', FALSE)
    /\ timer' = FALSE

TypeChange ==
    /\ mounted /\ Settled /\ Idle
    /\ Asked(NoState, kind # "angular")
    /\ ui' = IF kind = "vanilla" THEN Face(NoState) ELSE Rendered(state', TRUE)
    /\ timer' = FALSE

\* Only the frameworks' widgets disable their button.
CanVerify == mounted /\ Settled /\ (kind \in {"svelte", "vanilla"} \/ (~ui.loading /\ ~ui.validated))

Open == state.session # 0 /\ state.attempts < MaxAttempts

Verify ==
    /\ CanVerify /\ Open
    /\ Call([op |-> "validate", session |-> state.session, shown |-> ui.session, updates |-> TRUE])
    /\ state' = [state EXCEPT !.loading = TRUE]
    /\ ui' = Rendered(state', FALSE)
    /\ UNCHANGED <<kind, mounted, timer, issued, passed>>

\* validate throws; the Angular component copies the state all the same.
VerifyRefused ==
    /\ CanVerify /\ ~Open
    /\ ui' = Rendered(state, kind = "angular")
    /\ UNCHANGED <<kind, mounted, state, timer, calls, issued, passed>>

-----------------------------------------------------------------------------
(* Calls return.                                                            *)

\* The state, the screen and the timer when a call has set the state to s.
Set(s, updates, byHand) ==
    /\ state' = IF Listening THEN s ELSE state
    /\ ui' = IF Listening THEN Rendered(s, updates) ELSE ui
    /\ timer' = (Listening /\ TimerIn(s, byHand))

\* MISTAKE: the new challenge inherits the verdict on the old one.
FreshVerdictKept(s) == [NoState EXCEPT !.session = s, !.expiresIn = Life, !.validated = state.validated]

Fresh(s) == [NoState EXCEPT !.session = s, !.expiresIn = Life]

GenerateReturns(i) ==
    /\ calls[i].op = "generate" /\ Settled /\ issued < MaxSessions
    /\ issued' = issued + 1
    /\ Set(Fresh(issued + 1), calls[i].updates, TRUE)
    /\ UNCHANGED passed

GenerateFails(i) ==
    /\ calls[i].op = "generate" /\ Settled
    /\ Set([state EXCEPT !.loading = FALSE], calls[i].updates, timer)
    /\ UNCHANGED <<issued, passed>>

ValidateReturns(i) ==
    /\ calls[i].op = "validate"
    /\ \E valid \in BOOLEAN :
         /\ Set([state EXCEPT !.loading = FALSE, !.validated = valid, !.attempts = @ + 1],
                calls[i].updates, timer)
         /\ passed' = IF valid THEN passed \cup {calls[i].session} ELSE passed
    /\ UNCHANGED issued

ValidateFails(i) ==
    /\ calls[i].op = "validate"
    /\ Set([state EXCEPT !.loading = FALSE, !.attempts = @ + 1], calls[i].updates, timer)
    /\ UNCHANGED <<issued, passed>>

\* MISTAKE: a call that fails leaves the widget loading.
ReturnsLoading(i) ==
    /\ calls' = [calls EXCEPT ![i] = NoCall]
    /\ UNCHANGED <<kind, mounted>>
    /\ \/ GenerateReturns(i) \/ ValidateReturns(i) \/ ValidateFails(i)
       \/ calls[i].op = "generate" /\ Settled /\ UNCHANGED <<state, ui, timer, issued, passed>>

Returns(i) ==
    /\ calls' = [calls EXCEPT ![i] = NoCall]
    /\ UNCHANGED <<kind, mounted>>
    /\ \/ GenerateReturns(i) \/ GenerateFails(i)
       \/ ValidateReturns(i) \/ ValidateFails(i)

-----------------------------------------------------------------------------

\* Each second: the announced time runs down, and once it has, every second asks
\* for another challenge until one arrives.
Tick ==
    /\ timer /\ Settled
    /\ \/ /\ state.expiresIn > 0
          /\ state' = [state EXCEPT !.expiresIn = @ - 1]
          /\ UNCHANGED <<kind, mounted, calls, issued, passed>>
       \/ state.expiresIn = 0 /\ Asked(state, FALSE)
    /\ ui' = Rendered(state', FALSE)
    /\ UNCHANGED timer

\* The Svelte action resets its store; an Angular component leaves everything to a
\* service that outlives it.
Unmount ==
    /\ mounted /\ Settled
    /\ mounted' = FALSE
    /\ timer' = (timer /\ kind = "angular")
    /\ state' = IF kind = "svelte" THEN NoState ELSE state
    /\ ui' = Rendered(state', FALSE)
    /\ UNCHANGED <<kind, calls, issued, passed>>

Next ==
    \/ Generate \/ Refresh \/ TypeChange \/ Verify \/ VerifyRefused
    \/ \E i \in 1..MaxCalls : Returns(i)
    \/ Tick \/ Unmount

Spec == Init /\ [][Next]_vars

-----------------------------------------------------------------------------

\* A widget with a service of its own shows as verified only a session whose answer
\* that service accepted, whatever refreshes overlap; the verdict on a challenge
\* that was replaced is not carried over.
Verified == kind # "vanilla" /\ state.validated => state.session \in passed

\* Documented, and not kept (README, "What the code does not keep").
\* "isValidated: Whether CAPTCHA has been validated" (vanilla-js-sdk.ts:110), of the
\* session the widget holds; the verdict on an earlier one may arrive late.
VerdictIsForSession == state.validated => state.session \in passed

\* The counter on the screen never passes the limit, except where two answers of
\* the vanilla widget are out together.
AttemptsBounded ==
    state.attempts <= MaxAttempts + IF kind = "vanilla" THEN MaxCalls - 1 ELSE 0

\* An answer is sent for the session whose challenge the user saw.  The Angular
\* component is excepted: its service refreshes the session behind its back.
AnswerForShown ==
    \A i \in 1..MaxCalls :
       calls[i].op = "validate" /\ kind # "angular" => calls[i].session = calls[i].shown

\* A countdown counts a session down, in React one that is on the screen and open.
CountdownHasSession ==
    timer => /\ state.session # 0
             /\ kind = "react" => mounted /\ ~state.validated

\* Documented, and not kept (README, "What the code does not keep").
\* "isLoading: Whether CAPTCHA is loading" (angular-captcha.component.ts:106): what the
\* screen says is loading has a call out.  An Angular screen may miss the end of a call,
\* and a vanilla widget without autoGenerate shows "Loading..." before it is asked.
LoadingIsLive == mounted /\ ui.loading => Out # {}

\* A screen that shows a challenge loading shows something else some time, provided
\* that calls return: in the vanilla widget once one is out.
LoadingEnds ==
    (/\ mounted /\ ui.loading
     /\ kind # "angular" /\ (kind = "vanilla" => Out # {})) ~> ~(mounted /\ ui.loading)

=============================================================================
