---------------------------- MODULE MCFeatureServer ----------------------------
(***************************************************************************)
(* Small catalogs for FeatureServer.  obs, hyb and rep stand for the three *)
(* kinds of entry build_feature_catalog creates: a server-observed feature *)
(* with one listener, a hybrid one-to-many feature with two, and an        *)
(* agent-reported feature with none.                                       *)
(***************************************************************************)
EXTENDS FeatureServer, TLC
CONSTANTS obs, hyb, rep

MCCatalog == SelectSeq(<<obs, hyb, rep>>, LAMBDA f : f \in Features)
MCMode == [f \in Features |->
    IF f = obs THEN "ServerObserved" ELSE IF f = hyb THEN "Hybrid" ELSE "AgentReported"]
MCListeners == [f \in Features |-> IF f = obs THEN 1 ELSE IF f = hyb THEN 2 ELSE 0]

\* requests and descriptor numbers are interchangeable; for invariants only
Interchangeable == Permutations(Agents) \cup Permutations(Fds)
=============================================================================
