-------------------------- MODULE CaptchaContract --------------------------
(***************************************************************************)
(* What a CAPTCHA service promises about one challenge, with no calls,      *)
(* awaits, clocks or maps: a challenge is issued once, it grants a bounded   *)
(* number of guesses while it is open and unsolved, and it becomes solved    *)
(* only through a guess that was granted.  Closing a challenge stops new     *)
(* guesses; it does not recall the ones already granted.                     *)
(***************************************************************************)
EXTENDS Naturals, FiniteSets

CONSTANTS Challenges, Guesses, MaxAttempts

VARIABLES
    open,      \* challenges that still grant guesses, solved or not
    issued,    \* challenges that exist
    solved,    \* challenges that were answered correctly
    granted,   \* granted[s]: every guess ever granted on s
    pending    \* guesses granted and not graded yet

contractVars == <<open, issued, solved, granted, pending>>

ContractInit ==
    /\ open = {}
    /\ issued = {}
    /\ solved = {}
    /\ granted = [s \in Challenges |-> {}]
    /\ pending = {}

Issue(s) ==
    /\ s \notin issued
    /\ issued' = issued \cup {s}
    /\ open' = open \cup {s}
    /\ UNCHANGED <<solved, granted, pending>>

\* Solving also closes: a solved challenge grants nothing more.
Grant(s, g) ==
    /\ s \in open
    /\ \A t \in Challenges : g \notin granted[t]
    /\ Cardinality(granted[s]) < MaxAttempts
    /\ granted' = [granted EXCEPT ![s] = @ \cup {g}]
    /\ pending' = pending \cup {g}
    /\ UNCHANGED <<open, issued, solved>>

GradeRight(s, g) ==
    /\ g \in pending \cap granted[s]
    /\ pending' = pending \ {g}
    /\ solved' = solved \cup {s}
    /\ open' = open \ {s}
    /\ UNCHANGED <<issued, granted>>

GradeWrong(g) ==
    /\ g \in pending
    /\ pending' = pending \ {g}
    /\ UNCHANGED <<open, issued, solved, granted>>

\* Expiry or exhaustion of one challenge.
Close(s) ==
    /\ s \in open
    /\ open' = open \ {s}
    /\ UNCHANGED <<issued, solved, granted, pending>>

ContractNext ==
    \/ \E s \in Challenges : Issue(s) \/ Close(s)
    \/ \E s \in Challenges, g \in Guesses : Grant(s, g) \/ GradeRight(s, g)
    \/ \E g \in Guesses : GradeWrong(g)

ContractSpec == ContractInit /\ [][ContractNext]_contractVars

============================================================================
