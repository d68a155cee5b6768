------------------------------ MODULE MCServices ------------------------------
(***************************************************************************)
(* The services beside the CAPTCHA core in one run: the issuers of             *)
(* credentials and the data services.  They share no state, so a behaviour        *)
(* exercises one of them and the others keep their initial state.               *)
(***************************************************************************)
EXTENDS MCTokens, MCDataServices

VARIABLE group

servicesVars == <<group, tokensVars, dataVars>>

ServicesInit ==
    /\ group \in {"tokens", "data"}
    /\ TokensInit /\ DataInit
    /\ group # "tokens" => issuer = "jwt"
    /\ group # "data" => part = "pool"

ServicesNext ==
    /\ UNCHANGED group
    /\ \/ group = "tokens" /\ TokensNext /\ UNCHANGED dataVars
       \/ group = "data" /\ DataNext /\ UNCHANGED tokensVars

\* TokensSpec and DataSpec, one of them at a time.
ServicesSpec == ServicesInit /\ [][ServicesNext]_servicesVars

===============================================================================
