---------------------------- MODULE MCCaptchaServer ----------------------------
(***************************************************************************)
(* Small deployments for model checking CaptchaServer.  Sessions that cross      *)
(* crashes and bursts at the limiter are looked at apart (load): a behaviour has  *)
(* one of the two loads, under one Limit and one Window.                       *)
(***************************************************************************)
EXTENDS CaptchaServer

CONSTANTS r1, r2, r3, w1

VARIABLE load

\* One request to generate, one to validate, and one that needs no session.
MixedKinds == {<<r1, "generate">>, <<r2, "validate">>} \cup {r3} \X {"bad", "health", "stray"}

\* Every request reads only.
OnlyReads == Requests \X {"health"}

AllKinds == MixedKinds \cup OnlyReads

\* Sessions are looked at for two ticks, and only the client of the generation hangs up.
\* In a burst every request reads only, at one worker that stays up.
InLoad ==
    \/ /\ load = "sessions"
       /\ now' <= 2
       /\ \A r \in Requests : req'[r] # req[r] =>
             /\ <<r, req'[r].kind>> \in MixedKinds
             /\ req'[r].gone => r = r1
    \/ /\ load = "burst"
       /\ up' /\ \A w \in Workers : proc'[w].alive
       /\ \A r \in Requests : req'[r] # req[r] =>
             <<r, req'[r].kind>> \in OnlyReads /\ Slot(r)' = w1 /\ ~req'[r].gone

LoadInit == load \in {"sessions", "burst"} /\ Init

LoadNext ==
    /\ UNCHANGED load
    /\ Next /\ InLoad

loadVars == <<load, vars>>

\* FairSpec, under one of the loads.
LoadSpec ==
    /\ LoadInit /\ [][LoadNext]_loadVars
    /\ \A r \in Requests : WF_loadVars(Serve(r) /\ UNCHANGED load)
    /\ \A w \in Workers : WF_loadVars(Refork(w) /\ UNCHANGED load)
=============================================================================
