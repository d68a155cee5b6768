----------------------------- MODULE MCAnalyses -----------------------------
(***************************************************************************)
(* What a visitor meets (MCVisitors), what he is asked and what is made of him     *)
(* (MCAnalyzers) and what is kept of him (MCRecords).  They share no state, so a    *)
(* behaviour exercises one of them (part).                                    *)
(***************************************************************************)
EXTENDS MCVisitors, MCRecords, MCAnalyzers

VARIABLE part

\* The parts that do not run in a behaviour keep one initial state.
AnalysesInit ==
    /\ part \in {"visitor", "record", "analyzer"}
    /\ VisitorsInit /\ RecordsInit /\ AnalyzersInit
    /\ part # "visitor" => front = "plugin" /\ framework = CHOOSE f \in Frameworks : TRUE
    /\ part # "record" => keeper = "soc"
    /\ part # "analyzer" => analyzer = "bot"

\* Bound: three consents and personal data in all, and four metrics, samples and incidents.
FewKept ==
    /\ Len(consents) + Len(records) <= 3
    /\ Len(metrics) + Len(sampled) + Len(incidents) <= 4

\* Requests to a plugin, which are all alike, are made in the order of their numbers.
InOrder ==
    \A r \in PluginRequests : at[r] # "idle" => \A q \in 1..r - 1 : at[q] # "idle"

AnalysesNext ==
    /\ UNCHANGED part
    /\ \/ part = "visitor" /\ VisitorsNext /\ InOrder' /\ UNCHANGED <<recordVars, analyzersVars>>
       \/ part = "record" /\ RecordsNext /\ FewKept' /\ UNCHANGED <<visitorsVars, analyzersVars>>
       \/ part = "analyzer" /\ AnalyzersNext /\ UNCHANGED <<visitorsVars, recordVars>>

\* The fairness is that of VisitorsSpec and RecordsSpec.
allVars == <<part, visitorsVars, recordVars, analyzersVars>>
AnalysesSpec ==
    /\ AnalysesInit /\ [][AnalysesNext]_allVars
    /\ WF_allVars(/\ front = "widget" /\ \E i \in 1..MaxCalls : Widget!Returns(i)
                  /\ UNCHANGED <<part, front, pluginVars, graphqlVars, recordVars,
                                 analyzersVars>>)
    /\ \A r \in 1..MaxRequests :
          WF_allVars(/\ keeper = "gdpr" /\ Gdpr!Continue(r)
                     /\ UNCHANGED <<part, visitorsVars, keeper, auditVars, socVars, threatVars,
                                    analyzersVars>>)

-----------------------------------------------------------------------------
(* Values of the constants.                                                  *)

\* Five sorted values of one category, and short time series.
SeenSessions ==
    {[metrics |-> v, series |-> << >>] :
        v \in {f \in [1..5 -> {0, 1, 3}] : \A i \in 1..4 : f[i] <= f[i + 1]}}
    \cup {[metrics |-> <<1, 1, 1, 1, 1>>, series |-> s] : s \in [1..3 -> 0..3] \cup [1..4 -> 0..2]}

\* A browser, and one that hides what it draws, plays and runs on.
SeenDevices ==
    LET ordinary == [agent |-> "Firefox", platform |-> "Linux", screen |-> "1920x1080", offset |-> 0,
                     plugins |-> TRUE, cores |-> 4, canvas |-> TRUE, webgl |-> TRUE,
                     audio |-> TRUE, fonts |-> TRUE]
    IN  {ordinary, [ordinary EXCEPT !.canvas = FALSE, !.webgl = FALSE, !.audio = FALSE,
                                    !.fonts = FALSE, !.cores = 0]}

=============================================================================
