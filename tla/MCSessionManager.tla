--------------------------- MODULE MCSessionManager ---------------------------
(* Small deployments for model checking SessionManager.                       *)
EXTENDS SessionManager, TLC

\* The calls of a behaviour are interchangeable.
CallSymmetry == Permutations(Calls)
============================================================================
