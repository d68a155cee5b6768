----------------------------- MODULE MCVisitors -----------------------------
(***************************************************************************)
(* What stands between a visitor and a CaptchaService: the widgets, the        *)
(* framework plugins and the GraphQL API, each with a service of its own.  They *)
(* share no state, so a behaviour exercises one of them (front).                *)
(***************************************************************************)
EXTENDS Integers, Sequences

CONSTANTS
    WidgetKinds, MaxAttempts, Life, MaxSessions, MaxCalls,
    Frameworks, Instances, PluginSessions, PluginRequests, PluginAttempts,
    Captchas, Subscribers, Credentials, RequestLimit, MaxOperations

\* The limits of a widget, which may have a call out, the time it is told a session lasts,
\* and names that are not taken.
ASSUME VisitorsAssumption ==
    /\ WidgetKinds \subseteq {"react", "vue", "angular", "svelte", "vanilla"}
    /\ MaxAttempts \in Nat /\ Life \in Nat /\ MaxCalls \in Nat \ {0}
    /\ PluginAttempts \in Nat /\ "nowhere" \notin Instances

VARIABLES
    front,
    kind, mounted, state, ui, timer, calls, generated, passed,
    framework, sessions, request, at, told, served,
    requireAuth, scoped, hits, captcha, asked, executed, operations, answers, listening, received,
    unserved

widgetVars == <<kind, mounted, state, ui, timer, calls, generated, passed>>
pluginVars == <<framework, sessions, request, at, told, served>>
graphqlVars == <<requireAuth, scoped, hits, captcha, asked, executed, operations, answers,
                 listening, received, unserved>>
visitorsVars == <<front, widgetVars, pluginVars, graphqlVars>>

Widget == INSTANCE CaptchaWidget WITH issued <- generated
Plugin == INSTANCE CaptchaPlugins
GraphQL == INSTANCE GraphQLApi

\* The parts that do not run in a behaviour keep one initial state.
VisitorsInit ==
    /\ front \in {"widget", "plugin", "graphql"}
    /\ Widget!Init /\ Plugin!Init /\ GraphQL!Init
    /\ front # "widget" => kind = (CHOOSE k \in WidgetKinds : TRUE) /\ state = Widget!NoState
    /\ front # "plugin" => framework = CHOOSE f \in Frameworks : TRUE
    /\ front # "graphql" => ~requireAuth /\ ~scoped

VisitorsNext ==
    /\ UNCHANGED front
    /\ \/ front = "widget" /\ Widget!Next /\ UNCHANGED <<pluginVars, graphqlVars>>
       \/ front = "plugin" /\ Plugin!Next /\ UNCHANGED <<widgetVars, graphqlVars>>
       \/ front = "graphql" /\ GraphQL!Next /\ UNCHANGED <<widgetVars, pluginVars>>

\* The calls of a widget return: a local service answers, and the client's fetch
\* aborts after its timeout.
VisitorsSpec ==
    /\ VisitorsInit /\ [][VisitorsNext]_visitorsVars
    /\ WF_visitorsVars(/\ front = "widget" /\ \E i \in 1..MaxCalls : Widget!Returns(i)
                       /\ UNCHANGED <<front, pluginVars, graphqlVars>>)

-----------------------------------------------------------------------------
(* The properties: conjunctions of the named ones that are stated and explained  *)
(* in the components' modules.  A component at rest keeps its initial state, so   *)
(* each is evaluated where its component runs.                                   *)

\* A widget shows as verified what was verified and nothing else, sends an answer for
\* the session the visitor saw, counts attempts to their limit and no further, and
\* counts down only where there is a session.
WidgetSound ==
    front = "widget" =>
        /\ Widget!Verified
        /\ Widget!AnswerForShown
        /\ Widget!AttemptsBounded
        /\ Widget!CountdownHasSession

\* What a widget shows as loading ends.
LoadingEnds == Widget!LoadingEnds

\* What stands before a handler holds: a session admits one request, a refused request
\* is not served, only a plugin instance that lacks a session denies it, a required
\* scope is enforced, and a listener receives what the API answered to the mutation of its
\* topic, in order.
GatesHold ==
    /\ [](front = "plugin" => Plugin!SpentOnce /\ Plugin!RefusedNotServed)
    /\ Plugin!DeniedIsForeign
    /\ [](front = "graphql" => GraphQL!ScopeEnforced /\ GraphQL!StreamFollowsAnswers)

=============================================================================
