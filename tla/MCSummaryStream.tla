---------------------------- MODULE MCSummaryStream ----------------------------
(***************************************************************************)
(* The small catalogs of MCFeatureServer under the summary stream.         *)
(***************************************************************************)
EXTENDS SummaryStream
CONSTANTS obs, hyb, rep

MCCatalog == SelectSeq(<<obs, hyb, rep>>, LAMBDA f : f \in Features)
MCMode == [f \in Features |->
    IF f = obs THEN "ServerObserved" ELSE IF f = hyb THEN "Hybrid" ELSE "AgentReported"]
MCListeners == [f \in Features |-> IF f = obs THEN 1 ELSE IF f = hyb THEN 2 ELSE 0]
=============================================================================
