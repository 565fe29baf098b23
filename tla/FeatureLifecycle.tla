---------------------------- MODULE FeatureLifecycle ----------------------------
(***************************************************************************)
(* What a session promises to the client under test, with no threads, no   *)
(* locks and no sockets: features run one at a time, each ends in exactly  *)
(* one verdict, and a pass is earned by the evidence its completion mode   *)
(* asks for.  FeatureServer implements this for a client that runs its     *)
(* requests serially.                                                      *)
(***************************************************************************)
CONSTANTS Features, Mode

Terminal == {"Passed", "Failed", "Unsupported", "TimedOut"}

VARIABLES
    verdict,    \* to_string(FeatureState) of each feature
    evidence    \* who has seen the scenario complete: "network", "agent"

vars == <<verdict, evidence>>

Init ==
    /\ verdict = [f \in Features |-> "Pending"]
    /\ evidence = [f \in Features |-> {}]

\* The evidence each CompletionMode asks for
Sufficient(f, e) ==
    /\ Mode[f] # "AgentReported" => "network" \in e
    /\ Mode[f] # "ServerObserved" => "agent" \in e

Start(f) ==
    /\ verdict[f] = "Pending"
    /\ \A g \in Features : verdict[g] # "Active"
    /\ verdict' = [verdict EXCEPT ![f] = "Active"]
    /\ UNCHANGED evidence

Witness(f, who) ==
    /\ verdict[f] = "Active"
    /\ who = "agent" => Mode[f] # "ServerObserved"
    /\ evidence' = [evidence EXCEPT ![f] = @ \cup {who}]
    /\ verdict' = IF Sufficient(f, evidence[f] \cup {who})
                  THEN [verdict EXCEPT ![f] = "Passed"] ELSE verdict

GiveUp(f) ==
    /\ verdict[f] = "Active"
    /\ \E v \in {"Failed", "TimedOut"} : verdict' = [verdict EXCEPT ![f] = v]
    /\ UNCHANGED evidence

Decline(f) ==
    /\ verdict[f] \in {"Pending", "Active"}
    /\ verdict' = [verdict EXCEPT ![f] = "Unsupported"]
    /\ UNCHANGED evidence

Next == \E f \in Features :
    \/ Start(f) \/ GiveUp(f) \/ Decline(f)
    \/ \E who \in {"network", "agent"} : Witness(f, who)

Spec == Init /\ [][Next]_vars
=============================================================================
