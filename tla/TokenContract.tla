---------------------------- MODULE TokenContract ----------------------------
(***************************************************************************)
(* What an issuer of tokens promises: a token is accepted from its issue     *)
(* until it is revoked, rotated, expired or cleaned up, and never again.     *)
(* Both token services (security/jwt.ts, security/oauth2.ts) implement it.   *)
(***************************************************************************)
CONSTANT Token
VARIABLE state

\* A token is unissued, accepted or refused.
Init == state = [t \in Token |-> "unissued"]

\* One call may issue some tokens and end others, as a rotation does.  A token may
\* be issued and ended without being accepted.
Step(born, ended) ==
    state' = [t \in Token |-> IF t \in ended THEN "refused"
                              ELSE IF t \in born THEN "accepted" ELSE state[t]]

Next ==
    \E born \in SUBSET {t \in Token : state[t] = "unissued"},
       ended \in SUBSET {t \in Token : state[t] # "refused"} : Step(born, ended)

Spec == Init /\ [][Next]_state

=============================================================================
