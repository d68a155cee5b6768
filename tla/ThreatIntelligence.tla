-------------------------- MODULE ThreatIntelligence --------------------------
(***************************************************************************)
(* security/threat-intelligence.ts: indicators, the cache of IP reputations   *)
(* computed from them, and the verdict on a request.                          *)
(***************************************************************************)
EXTENDS Naturals, FiniteSets, FiniteSetsExt

CONSTANTS
    Ips,            \* addresses
    Signatures,     \* bot signatures
    Patterns,       \* attack patterns
    MaxIndicators   \* bound: indicators ever added

VARIABLES
    indicators,     \* threatIndicators of type ip
    reputation,     \* ipReputationCache: ip -> level, or none
    level,          \* threat level of the signatures and patterns; 0: not active
    stale           \* history: ips with indicators added since they were cached

threatVars == <<indicators, reputation, level, stale>>

\* The levels from low to critical are 1..4; a reputation below 50 is high or critical.
Levels == 1..4
NoReputation == 0
Bad == 3..4

Init ==
    /\ indicators = {}
    /\ reputation = [ip \in Ips |-> NoReputation]
    /\ level \in [Signatures \cup Patterns -> {0, 1, 4}]
    /\ stale = {}

-----------------------------------------------------------------------------

WorstOf(levels) == IF levels = {} THEN 0 ELSE Max(levels)

\* The reputation the indicators of an address amount to.
Computed(ip) == WorstOf({i.level : i \in {j \in indicators : j.ip = ip}})

AddThreatIndicator(ip, lvl) ==
    /\ Cardinality(indicators) < MaxIndicators
    /\ indicators' = indicators \cup {[ip |-> ip, level |-> lvl]}
    /\ stale' = IF reputation[ip] # NoReputation THEN stale \cup {ip} ELSE stale
    /\ UNCHANGED <<reputation, level>>

\* checkIPReputation: what is cached is returned for good; the time to live of the
\* configuration is not looked at.
CheckIPReputation(ip) ==
    /\ reputation[ip] = NoReputation
    /\ reputation' = [reputation EXCEPT ![ip] = Computed(ip)]
    /\ UNCHANGED <<indicators, level, stale>>

ClearCaches ==
    /\ reputation' = [ip \in Ips |-> NoReputation]
    /\ stale' = {}
    /\ UNCHANGED <<indicators, level>>

Next ==
    \/ \E ip \in Ips, lvl \in Levels : AddThreatIndicator(ip, lvl)
    \/ \E ip \in Ips : CheckIPReputation(ip)
    \/ ClearCaches

Spec == Init /\ [][Next]_threatVars

-----------------------------------------------------------------------------
(* checkThreat, for a request whose text the items in hits match.            *)

Active(items) == {i \in items : level[i] > 0}

\* The patterns decide on the level when one matched, else the signatures; the reputation
\* of the address has no part in it.
VerdictLevel(hits) ==
    LET patterns == Active(hits \cap Patterns)
        signatures == Active(hits \cap Signatures)
    IN  IF patterns # {} THEN WorstOf({level[p] : p \in patterns})
        ELSE IF signatures # {} THEN WorstOf({level[s] : s \in signatures}) ELSE 1

\* Categories come from a bad reputation, matching signatures and matching patterns.
Categorised(ip, hits) == reputation[ip] \in Bad \/ Active(hits) # {}

IsThreat(ip, hits) == VerdictLevel(hits) # 1 \/ Categorised(ip, hits)

-----------------------------------------------------------------------------
(* Properties.                                                               *)

\* A cached reputation is what the indicators amount to, until one is added for the
\* address: then it may be better than they say, never worse.
ReputationExplained ==
    \A ip \in Ips : reputation[ip] # NoReputation =>
        /\ reputation[ip] <= WorstOf({i.level : i \in {j \in indicators : j.ip = ip}})
        /\ ip \notin stale =>
              \A i \in indicators : i.ip = ip => i.level <= reputation[ip]

\* More matches of one kind never lower the level, and anything that matches makes the
\* request a threat.  (A pattern of low severity does hide a critical signature.)
VerdictMonotone ==
    \A few, many \in SUBSET (Signatures \cup Patterns) :
        /\ few \subseteq many /\ (Active(few \cap Patterns) # {} \/ Active(many \cap Patterns) = {}) =>
              VerdictLevel(few) <= VerdictLevel(many)
        /\ \A ip \in Ips : Active(many) # {} => IsThreat(ip, many)

=============================================================================
