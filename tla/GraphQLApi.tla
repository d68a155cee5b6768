----------------------------- MODULE GraphQLApi -----------------------------
(***************************************************************************)
(* The GraphQL endpoint: who may run an operation (graphql/middleware.ts), the   *)
(* two mutations on the module's own CaptchaService, and the events they publish  *)
(* on the exported pubsub (graphql/schema.ts).  Every request builds a JWTService  *)
(* and an APIKeyService of its own: neither knows what the application's services  *)
(* hold.  The requests come from one address, in one process.                   *)
(***************************************************************************)
EXTENDS Integers, Sequences

CONSTANTS
    Captchas,       \* sessions the service may generate
    Subscribers,    \* listeners of the application on the exported pubsub
    Credentials,    \* of "none", "jwt", "scoped_jwt", "revoked_jwt", "api_key"
    RequestLimit,   \* max: requests per window of the limiter
    MaxOperations   \* bound: operations asked for

\* CAPTCHA_GENERATED and CAPTCHA_VALIDATED; nothing is published on the other two.
Topics == {"generated", "validated"}

VARIABLES
    requireAuth, scoped,   \* options: authentication required, a scope required
    hits,        \* requests that the limiter has counted in this window
    captcha,     \* session -> its status in the service
    asked,       \* operations under way: generations waiting for the service
    executed,    \* credentials under which operations were run
    operations,  \* operations asked for so far
    answers,     \* topic -> successful answers to its mutation, in order
    listening,   \* subscriber -> its topic, and the answers there were when it subscribed
    received,    \* subscriber -> events it received, in order
    unserved     \* history: whether a subscription of the schema got no stream

vars == <<requireAuth, scoped, hits, captcha, asked, executed, operations, answers, listening,
          received, unserved>>

NotListening == [topic |-> "none", since |-> 0]

Init ==
    /\ requireAuth \in BOOLEAN /\ scoped \in BOOLEAN /\ hits = 0
    /\ captcha = [c \in Captchas |-> "none"]
    /\ asked = {} /\ executed = {} /\ operations = 0 /\ unserved = FALSE
    /\ answers = [t \in Topics |-> <<>>]
    /\ listening = [b \in Subscribers |-> NotListening]
    /\ received = [b \in Subscribers |-> <<>>]

-----------------------------------------------------------------------------

\* authenticateRequest: a JWT is good when its signature and times are; a blacklist
\* that was just created holds nothing, and neither does a store of API keys.
Authenticated(cred) == cred \in {"jwt", "scoped_jwt", "revoked_jwt"}

HasScope(cred) == cred = "scoped_jwt"

\* The context of a request: the scope is looked at where there is a user.
Admitted(cred) ==
    /\ requireAuth => Authenticated(cred)
    /\ scoped /\ Authenticated(cred) => HasScope(cred)

\* A request meets graphqlRateLimiter before its credential is looked at: what is refused
\* counts as well.
Requested ==
    /\ operations < MaxOperations /\ operations' = operations + 1
    /\ hits' = hits + 1
    /\ UNCHANGED <<requireAuth, scoped>>

Operation(cred) ==
    /\ Requested /\ hits < RequestLimit
    /\ Admitted(cred)
    /\ executed' = executed \cup {cred}

\* The limiter answers 429; the window that began with the first request ends.
Limited ==
    /\ Requested /\ hits >= RequestLimit
    /\ UNCHANGED <<captcha, asked, executed, answers, listening, received, unserved>>

WindowEnds ==
    /\ hits > 0 /\ hits' = 0
    /\ UNCHANGED <<requireAuth, scoped, captcha, asked, executed, operations, answers, listening,
                   received, unserved>>

\* The context throws.
Refuse ==
    \E cred \in Credentials :
       /\ Requested /\ hits < RequestLimit
       /\ ~Admitted(cred)
       /\ UNCHANGED <<captcha, asked, executed, answers, listening, received, unserved>>

\* publish hands an event to the listeners of its topic before the mutation answers.
Publish(topic, event) ==
    received' = [b \in Subscribers |->
                    IF listening[b].topic = topic THEN Append(received[b], event) ELSE received[b]]

Answered(topic, event) ==
    /\ Publish(topic, event)
    /\ answers' = [answers EXCEPT ![topic] = Append(@, event)]
    /\ UNCHANGED <<listening, unserved>>

GenerateCaptcha ==
    \E cred \in Credentials, c \in Captchas :
       /\ Operation(cred)
       /\ captcha[c] = "none" /\ c \notin asked
       /\ asked' = asked \cup {c}
       /\ UNCHANGED <<captcha, answers, listening, received, unserved>>

GenerateReturns(c) ==
    /\ c \in asked
    /\ asked' = asked \ {c}
    /\ captcha' = [captcha EXCEPT ![c] = "active"]
    /\ Answered("generated", [captcha |-> c, valid |-> TRUE])
    /\ UNCHANGED <<requireAuth, scoped, hits, executed, operations>>

\* The resolver catches what the service throws, answers success: false and
\* publishes nothing.
GenerateFails(c) ==
    /\ c \in asked
    /\ asked' = asked \ {c}
    /\ UNCHANGED <<requireAuth, scoped, hits, captcha, executed, operations, answers, listening,
                   received, unserved>>

\* The answer of a validation that is not valid is a success of the operation, and
\* an event, too.
ValidateCaptcha ==
    \E cred \in Credentials, c \in Captchas, right \in BOOLEAN :
       LET valid == right /\ captcha[c] = "active"
       IN /\ Operation(cred)
          /\ captcha' = [captcha EXCEPT ![c] = IF valid THEN "validated" ELSE @]
          /\ Answered("validated", [captcha |-> c, valid |-> valid])
          /\ UNCHANGED asked

\* A subscription of the schema: asyncIterator, which the pubsub does not have, is called.
SubscribeField ==
    \E cred \in Credentials :
       /\ Operation(cred)
       /\ unserved' = TRUE
       /\ UNCHANGED <<captcha, asked, answers, listening, received>>

\* The application listens to a topic of the exported pubsub, and stops; it starts anew.
Subscribe(b, topic) ==
    /\ listening[b] = NotListening
    /\ listening' = [listening EXCEPT ![b] = [topic |-> topic, since |-> Len(answers[topic])]]
    /\ received' = [received EXCEPT ![b] = <<>>]
    /\ UNCHANGED <<requireAuth, scoped, hits, captcha, asked, executed, operations, answers, unserved>>

Unsubscribe(b) ==
    /\ listening[b] # NotListening
    /\ listening' = [listening EXCEPT ![b] = NotListening]
    /\ UNCHANGED <<requireAuth, scoped, hits, captcha, asked, executed, operations, answers,
                   received, unserved>>

Next ==
    \/ Limited \/ WindowEnds \/ Refuse
    \/ GenerateCaptcha \/ ValidateCaptcha \/ SubscribeField
    \/ \E c \in Captchas : GenerateReturns(c) \/ GenerateFails(c)
    \/ \E b \in Subscribers : Unsubscribe(b) \/ \E topic \in Topics : Subscribe(b, topic)

Spec == Init /\ [][Next]_vars

-----------------------------------------------------------------------------

\* While it listens to a topic a subscriber has received what the mutation of that topic
\* answered since it subscribed, in the same order, and nothing else: an answer that only
\* says that a response is wrong is an event, a generation that failed is none.
StreamFollowsAnswers ==
    \A b \in Subscribers :
       LET topic == listening[b].topic
       IN  topic # "none" =>
              received[b] = SubSeq(answers[topic], listening[b].since + 1, Len(answers[topic]))

\* With a scope required, nothing runs under a credential that was read and lacks
\* it; with authentication required too, only scoped credentials run operations.
ScopeEnforced ==
    scoped => /\ {cred \in executed : Authenticated(cred)} \subseteq {"scoped_jwt"}
              /\ requireAuth => executed \subseteq {"scoped_jwt"}

\* Documented, and not kept (README, "What the code does not keep").
\* "Subscribe to CAPTCHA generation events" (graphql/schema.ts:399): a subscription of the
\* schema gets a stream.
SubscriptionsServed == ~unserved

\* Documented, and not kept (README, "What the code does not keep").
\* "JWT/API Key authentication" (graphql/middleware.ts:6): a request with a valid API
\* key is let in where authentication alone is required.
KeyAdmitted == requireAuth /\ ~scoped => Admitted("api_key")

=============================================================================
