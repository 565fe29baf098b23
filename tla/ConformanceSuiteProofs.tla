------------------------- MODULE ConformanceSuiteProofs -------------------------
(***************************************************************************)
(* The runner, for every suite of scenarios of the form core.json has, any *)
(* requirements, and helpers, stack and clock that may do anything.  The   *)
(* first part: it leaves no helper behind, and an exit code of 0 means that*)
(* all required features were tried.  The second: what a result is worth.  *)
(* A pass means that nothing the scenario watches for went wrong, and a    *)
(* failure or an exception that something did, however the helpers, the    *)
(* stack, the reader thread and the timeouts interleave.                   *)
(***************************************************************************)
EXTENDS ConformanceSuite, InductionFacts

-----------------------------------------------------------------------------
(* Sequences of events; what the events are does not matter here. *)

IsSeq(s) == \E S : s \in Seq(S)

LEMMA SingleIsSeq == \A x : IsSeq(<<x>>) /\ IsSeq(<<>>)
<1>1. \A x : <<x>> \in Seq({x}) /\ <<>> \in Seq({x})
    OBVIOUS
<1> QED BY <1>1 DEF IsSeq

LEMMA ConcatIsSeq ==
    ASSUME NEW s, NEW t, IsSeq(s), IsSeq(t)
    PROVE  IsSeq(s \o t) /\ Len(s) \in Nat /\ Len(s \o t) \in Nat /\ Len(s) <= Len(s \o t)
<1>1. PICK S : s \in Seq(S)
    BY DEF IsSeq
<1>2. PICK T : t \in Seq(T)
    BY DEF IsSeq
<1>3. s \in Seq(S \cup T) /\ t \in Seq(S \cup T)
    BY <1>1, <1>2
<1>4. s \o t \in Seq(S \cup T) /\ Len(s \o t) = Len(s) + Len(t)
      /\ Len(s) \in Nat /\ Len(t) \in Nat
    BY <1>3
<1>5. IsSeq(s \o t)
    BY <1>4 DEF IsSeq
<1> QED BY <1>4, <1>5

LEMMA LenOfSeq ==
    ASSUME NEW s, IsSeq(s)
    PROVE  Len(s) \in Nat
BY DEF IsSeq

LEMMA AppendIsSeq ==
    ASSUME NEW s, NEW x, IsSeq(s)
    PROVE  /\ IsSeq(Append(s, x)) /\ Len(Append(s, x)) = Len(s) + 1
           /\ \A j \in 1..Len(s) : Append(s, x)[j] = s[j]
           /\ Append(s, x)[Len(s) + 1] = x
           /\ ToSet(Append(s, x)) = ToSet(s) \cup {x}
<1>1. PICK S : s \in Seq(S)
    BY DEF IsSeq
<1>2. s \in Seq(S \cup {x}) /\ Append(s, x) \in Seq(S \cup {x})
    BY <1>1
<1>3. /\ Len(Append(s, x)) = Len(s) + 1 /\ Append(s, x)[Len(s) + 1] = x
      /\ \A j \in 1..Len(s) : Append(s, x)[j] = s[j]
    BY <1>2
<1>4. ToSet(Append(s, x)) = ToSet(s) \cup {x}
    <2>1. DOMAIN s = 1..Len(s) /\ DOMAIN Append(s, x) = 1..(Len(s) + 1) /\ Len(s) \in Nat
        BY <1>2, <1>3
    <2>2. 1..(Len(s) + 1) = (1..Len(s)) \cup {Len(s) + 1}
        BY <2>1
    <2> QED BY <1>3, <2>1, <2>2 DEF ToSet
<1>5. IsSeq(Append(s, x))
    BY <1>2 DEF IsSeq
<1> QED BY <1>3, <1>4, <1>5

\* The standard output of a helper only grows.
OutputOK ==
    /\ DOMAIN out = {"server", "client"}
    /\ IsSeq(out["server"]) /\ IsSeq(out["client"])

OutputGrows ==
    /\ OutputOK'
    /\ Len(out["server"]) \in Nat /\ Len(out'["server"]) \in Nat
    /\ Len(out["server"]) <= Len(out'["server"])

LEMMA EmitGrows ==
    ASSUME OutputOK, NEW role \in {"server", "client"}, NEW events, IsSeq(events),
           Emit(role, events)
    PROVE  OutputGrows
<1>1. /\ DOMAIN out' = {"server", "client"}
      /\ out'[role] = out[role] \o events
      /\ \A r \in {"server", "client"} : r # role => out'[r] = out[r]
    BY DEF Emit, OutputOK
<1>2. IsSeq(out["server"]) /\ IsSeq(out["client"])
    BY DEF OutputOK
<1>3. /\ IsSeq(out[role] \o events) /\ Len(out[role]) \in Nat
      /\ Len(out[role] \o events) \in Nat /\ Len(out[role]) <= Len(out[role] \o events)
    BY <1>2, ConcatIsSeq
<1>4. Len(out["server"]) \in Nat
    BY <1>2, LenOfSeq
<1>5. IsSeq(out'["server"]) /\ IsSeq(out'["client"])
    BY <1>1, <1>2, <1>3
<1>6. Len(out'["server"]) \in Nat /\ Len(out["server"]) <= Len(out'["server"])
    <2>1. CASE role = "server"
        BY <1>1, <1>3, <2>1
    <2>2. CASE role = "client"
        BY <1>1, <1>4, <2>2
    <2> QED BY <2>1, <2>2
<1> QED BY <1>1, <1>4, <1>5, <1>6 DEF OutputGrows, OutputOK

LEMMA SilenceGrows ==
    ASSUME OutputOK, UNCHANGED out
    PROVE  OutputGrows
<1>1. Len(out["server"]) \in Nat
    BY LenOfSeq DEF OutputOK
<1> QED BY <1>1 DEF OutputGrows, OutputOK

-----------------------------------------------------------------------------
(* What a step of the helpers or of the stack does to the processes *)

Alive == server \in {"setup", "reading"} \/ client \in {"connecting", "sending"}

ServerStates == {"none", "setup", "reading", "exited"}
ClientStates == {"none", "connecting", "sending", "exited"}

ProcessesOK == server \in ServerStates /\ client \in ClientStates /\ fault \subseteq Faults

\* A process that is not running stays as it is.
HelpersKeep ==
    /\ ProcessesOK'
    /\ server \in {"none", "exited"} => server' = server
    /\ client \in {"none", "exited"} => client' = client

LEMMA ServerSteps ==
    ASSUME ProcessesOK, OutputOK, NEW s,
           \/ ServerReady \/ ServerError(s) \/ ServerCrash
           \/ ServerNotify(s) \/ ServerRecv(s) \/ ServerComplete(s) \/ StackLoses
    PROVE  HelpersKeep /\ OutputGrows
<1> USE DEF ProcessesOK, HelpersKeep, ServerStates, ClientStates, Faults
<1>1. CASE ServerReady
    <2>1. PICK addrs : Emit("server", <<Event("ready", addrs)>>)
        BY <1>1 DEF ServerReady
    <2>2. OutputGrows
        BY <2>1, EmitGrows, SingleIsSeq
    <2> QED BY <1>1, <2>2 DEF ServerReady
<1>2. CASE ServerError(s)
    <2>1. PICK why : ServerExit(<<Event("error", why)>>)
        BY <1>2 DEF ServerError
    <2>2. OutputGrows
        BY <2>1, EmitGrows, SingleIsSeq DEF ServerExit
    <2> QED BY <1>2, <2>1, <2>2 DEF ServerError, ServerExit
<1>3. CASE ServerCrash
    <2>1. OutputGrows
        BY <1>3, EmitGrows, SingleIsSeq DEF ServerCrash, ServerExit
    <2> QED BY <1>3, <2>1 DEF ServerCrash, ServerExit
<1>4. CASE ServerNotify(s)
    <2>1. OutputGrows
        BY <1>4, EmitGrows, SingleIsSeq DEF ServerNotify
    <2> QED BY <1>4, <2>1 DEF ServerNotify
<1>5. CASE ServerRecv(s)
    <2>1. PICK m, addrs : Emit("server", RecvEvents(s, m, addrs))
        BY <1>5 DEF ServerRecv
    <2>2. IsSeq(RecvEvents(s, m, addrs))
        BY SingleIsSeq, ConcatIsSeq DEF RecvEvents
    <2>3. OutputGrows
        BY <2>1, <2>2, EmitGrows
    <2>4. fault' \subseteq Faults
        BY <1>5 DEF ServerRecv
    <2> QED BY <1>5, <2>3, <2>4 DEF ServerRecv
<1>6. CASE ServerComplete(s)
    <2>1. OutputGrows
        BY <1>6, EmitGrows, SingleIsSeq DEF ServerComplete, ServerExit
    <2> QED BY <1>6, <2>1 DEF ServerComplete, ServerExit
<1>7. CASE StackLoses
    BY <1>7, SilenceGrows DEF StackLoses
<1> QED BY <1>1, <1>2, <1>3, <1>4, <1>5, <1>6, <1>7

LEMMA ClientSteps ==
    ASSUME ProcessesOK, OutputOK, NEW s,
           \/ ClientConnect(s) \/ ClientOptionFails \/ ClientCrash
           \/ ClientSend(s) \/ ClientComplete(s)
    PROVE  HelpersKeep /\ OutputGrows
<1> USE DEF ProcessesOK, HelpersKeep, ServerStates, ClientStates, Faults
<1>1. ASSUME NEW events, IsSeq(events), ClientExit(events)
      PROVE  OutputGrows /\ client' = "exited" /\ UNCHANGED server
    BY <1>1, EmitGrows DEF ClientExit
<1>2. ASSUME NEW stage \in {"connect", "send"}, ClientStageFails(s, stage),
             client \notin {"none", "exited"}
      PROVE  HelpersKeep /\ OutputGrows
    <2>1. PICK events : IsSeq(events) /\ ClientExit(events)
        BY <1>2, SingleIsSeq DEF ClientStageFails
    <2>2. fault' \subseteq Faults
        BY <1>2 DEF ClientStageFails
    <2> QED BY <1>1, <1>2, <2>1, <2>2
<1>3. CASE ClientConnect(s)
    <2>1. client = "connecting"
        BY <1>3 DEF ClientConnect
    <2>2. CASE ClientConnected(s)
        <3>1. PICK events : IsSeq(events) /\ Emit("client", events)
            BY <2>2, SingleIsSeq DEF ClientConnected
        <3>2. OutputGrows
            BY <3>1, EmitGrows
        <3>3. fault' \subseteq Faults
            BY <2>2 DEF ClientConnected
        <3> QED BY <2>1, <2>2, <3>2, <3>3 DEF ClientConnected
    <2>3. CASE ClientUnrefused(s)
        <3>1. IsSeq(<<Event("error", "other")>>)
            BY SingleIsSeq
        <3> QED BY <1>1, <2>1, <2>3, <3>1 DEF ClientUnrefused
    <2> QED BY <1>2, <1>3, <2>1, <2>2, <2>3 DEF ClientConnect
<1>4. CASE ClientOptionFails
    <2>1. PICK events : IsSeq(events) /\ ClientExit(events)
        BY <1>4, SingleIsSeq DEF ClientOptionFails
    <2> QED BY <1>1, <1>4, <2>1 DEF ClientOptionFails
<1>5. CASE ClientCrash
    BY <1>1, <1>5, SingleIsSeq DEF ClientCrash
<1>6. CASE ClientSend(s)
    <2>1. CASE ClientStageFails(s, "send")
        BY <1>2, <1>6, <2>1 DEF ClientSend
    <2>2. CASE ~ClientStageFails(s, "send")
        <3>1. PICK events : IsSeq(events) /\ Emit("client", events)
            BY <1>6, <2>2, SingleIsSeq DEF ClientSend
        <3>2. UNCHANGED <<server, client>> /\ fault' \subseteq fault \cup {"accepted"}
            BY <1>6, <2>2 DEF ClientSend
        <3> QED BY <3>1, <3>2, EmitGrows
    <2> QED BY <2>1, <2>2
<1>7. CASE ClientComplete(s)
    <2>1. PICK events : IsSeq(events) /\ ClientExit(events)
        BY <1>7, SingleIsSeq DEF ClientComplete
    <2> QED BY <1>1, <1>7, <2>1 DEF ClientComplete
<1> QED BY <1>3, <1>4, <1>5, <1>6, <1>7

LEMMA PairSteps ==
    ASSUME ProcessesOK, OutputOK, NEW s, PairStep(s)
    PROVE  HelpersKeep /\ OutputGrows
BY ServerSteps, ClientSteps DEF PairStep

-----------------------------------------------------------------------------
(* The invariant of the runner *)

\* Which helpers may be running where the runner is
Placed ==
    /\ NoHelperLeft
    /\ pc \notin {"ready", "client"} => client \in {"none", "exited"}
    /\ pc = "ready" => client = "none" /\ scenario.server
    /\ pc = "client" /\ ~scenario.server => server \in {"none", "exited"}

\* A whole run has one result for each scenario it is through with, in order.
Covering ==
    whole =>
        /\ selection = Suite
        /\ pc # "returned" =>
              /\ Len(results) <= Len(Suite)
              /\ \A j \in 1..Len(results) : /\ results[j].scenario = Suite[j].id
                                            /\ results[j].features = Suite[j].required_features
        /\ pc \notin {"next", "returned", "raised"} => Len(results) < Len(Suite)

SuiteInv ==
    /\ TypeOK /\ OutputOK /\ IsSeq(results)
    /\ Placed /\ Covering /\ GreenMeansCovered

LEMMA InitSuite == RunInit => SuiteInv
<1> SUFFICES ASSUME RunInit PROVE SuiteInv
    OBVIOUS
<1>1. /\ server = "none" /\ client = "none" /\ fault = {} /\ pc = "next"
      /\ out = [role \in {"server", "client"} |-> <<>>] /\ results = <<>>
      /\ (whole => selection = Suite)
    BY DEF RunInit, PairInit
<1>2. read = 0 /\ taken = 0 /\ collected = 0
    BY DEF RunInit
<1>3. /\ out["server"] = <<>> /\ out["client"] = <<>> /\ DOMAIN out = {"server", "client"}
    BY <1>1
<1>4. OutputOK /\ IsSeq(results)
    BY <1>1, <1>3, SingleIsSeq DEF OutputOK
<1>5. TypeOK
    <2>1. ToSet(results) = {}
        BY <1>1 DEF ToSet
    <2>2. read \in 0..Len(out["server"]) /\ taken \in 0..read /\ collected \in 0..read
        BY <1>2, <1>3
    <2> QED BY <1>1, <2>1, <2>2 DEF TypeOK, Places
<1>6. Placed
    BY <1>1 DEF Placed, NoHelperLeft
<1>7. Covering /\ GreenMeansCovered
    <2>1. Len(Suite) \in Nat
        BY SuiteAssumption
    <2>2. Len(results) = 0
        BY <1>1
    <2> QED BY <1>1, <2>1, <2>2 DEF Covering, GreenMeansCovered
<1> QED BY <1>4, <1>5, <1>6, <1>7 DEF SuiteInv

-----------------------------------------------------------------------------
(* The steps *)

\* What every step of helpers and stack keeps
LEMMA HelpersStepKeeps ==
    ASSUME SuiteInv, HelpersStep
    PROVE  SuiteInv'
<1>1. /\ Alive /\ PairStep(scenario)
      /\ UNCHANGED <<selection, whole, required, results, pc, read, taken, collected>>
    BY DEF HelpersStep, Alive, runner
<1>2. ProcessesOK /\ OutputOK
    BY DEF SuiteInv, TypeOK, ProcessesOK, ServerStates, ClientStates
<1>3. HelpersKeep /\ OutputGrows
    BY <1>1, <1>2, PairSteps
<1>4. TypeOK'
    <2>1. read' \in 0..Len(out'["server"])
        BY <1>1, <1>3 DEF SuiteInv, TypeOK, OutputGrows
    <2>2. ProcessesOK'
        BY <1>3 DEF HelpersKeep
    <2> QED BY <1>1, <2>1, <2>2 DEF SuiteInv, TypeOK, ProcessesOK, ServerStates, ClientStates
<1>5. Placed'
    <2>1. scenario' = scenario
        BY <1>1 DEF scenario
    <2> QED BY <1>1, <1>3, <2>1 DEF SuiteInv, Placed, NoHelperLeft, HelpersKeep
<1>6. (IsSeq(results))' /\ Covering' /\ GreenMeansCovered'
    BY <1>1 DEF SuiteInv, Covering, GreenMeansCovered, exit_code
<1>7. OutputOK'
    BY <1>3 DEF OutputGrows
<1> QED BY <1>4, <1>5, <1>6, <1>7 DEF SuiteInv

LEMMA ReadLineKeeps ==
    ASSUME SuiteInv, ReadLine
    PROVE  SuiteInv'
<1>1. /\ read < Len(out["server"]) /\ read' = read + 1
      /\ UNCHANGED <<server, client, out, fault, selection, whole, required, results, pc,
                     taken, collected>>
    BY DEF ReadLine, pair, Settings
<1>2. TypeOK'
    <2>1. Len(out["server"]) \in Nat
        BY LenOfSeq DEF SuiteInv, OutputOK
    <2>2. /\ read \in 0..Len(out["server"]) /\ taken \in 0..read /\ collected \in 0..read
        BY DEF SuiteInv, TypeOK
    <2>3. /\ read' \in 0..Len(out'["server"]) /\ taken' \in 0..read' /\ collected' \in 0..read'
        BY <1>1, <2>1, <2>2
    <2> QED BY <1>1, <2>3 DEF SuiteInv, TypeOK
<1>3. Placed'
    BY <1>1 DEF SuiteInv, Placed, NoHelperLeft, scenario
<1>4. OutputOK' /\ (IsSeq(results))' /\ Covering' /\ GreenMeansCovered'
    BY <1>1 DEF SuiteInv, OutputOK, Covering, GreenMeansCovered, exit_code
<1> QED BY <1>2, <1>3, <1>4 DEF SuiteInv

LEMMA SpawnKeeps ==
    ASSUME SuiteInv, Spawn
    PROVE  SuiteInv'
<1>1. /\ pc = "next" /\ Len(results) < Len(selection)
      /\ \/ scenario.server /\ server' = "setup" /\ client' = "none" /\ pc' = "ready"
         \/ ~scenario.server /\ server' = "none" /\ client' = "connecting" /\ pc' = "client"
      /\ out' = [role \in {"server", "client"} |-> <<>>] /\ fault' = {}
      /\ UNCHANGED <<selection, whole, required, results>>
    BY DEF Spawn, Goto, Settings
<1>2. read' = 0 /\ taken' = 0 /\ collected' = 0
    BY DEF Spawn
<1>3. out'["server"] = <<>> /\ out'["client"] = <<>> /\ DOMAIN out' = {"server", "client"}
    BY <1>1
<1>4. OutputOK' /\ (IsSeq(results))'
    BY <1>1, <1>3, SingleIsSeq DEF OutputOK, SuiteInv
<1>5. TypeOK'
    <2>1. read' \in 0..Len(out'["server"]) /\ taken' \in 0..read' /\ collected' \in 0..read'
        BY <1>2, <1>3
    <2> QED BY <1>1, <2>1 DEF SuiteInv, TypeOK, Places
<1>6. Placed'
    <2>1. scenario' = scenario
        BY <1>1 DEF scenario
    <2> QED BY <1>1, <2>1 DEF Placed, NoHelperLeft
<1>7. Covering' /\ GreenMeansCovered'
    BY <1>1 DEF SuiteInv, Covering, GreenMeansCovered
<1> QED BY <1>4, <1>5, <1>6, <1>7 DEF SuiteInv

\* TakeEvent, the ends of waits, Collect and Terminate
LEMMA WaitKeeps ==
    ASSUME SuiteInv,
           \/ TakeEvent \/ ReadyTimeout \/ ClientEnds \/ ClientTimeout
           \/ ServerEnds \/ ServerTimeout \/ Collect \/ Terminate
    PROVE  SuiteInv'
<1> USE DEF Goto, Settings, pair
<1>1. UNCHANGED <<out, selection, whole, required, results, read>>
    BY DEF TakeEvent, ReadyTimeout, ClientEnds, ClientTimeout, ServerEnds, ServerTimeout,
           Collect, Terminate
<1>2. /\ pc \notin {"next", "returned", "raised"} /\ pc' \in Places \ {"next", "returned"}
    BY DEF TakeEvent, ReadyTimeout, ClientEnds, ClientTimeout, ServerEnds, ServerTimeout,
           Collect, Terminate, SuiteInv, TypeOK, Places
<1>3. /\ server' \in {server, "exited"}
      /\ \/ client' \in {client, "exited"}
         \/ pc = "ready" /\ pc' = "client" /\ client' = "connecting"
    BY DEF TakeEvent, ReadyTimeout, ClientEnds, ClientTimeout, ServerEnds, ServerTimeout,
           Collect, Terminate
<1>4. fault' \in {fault, fault \cup {"late"}}
    BY DEF TakeEvent, ReadyTimeout, ClientEnds, ClientTimeout, ServerEnds, ServerTimeout,
           Collect, Terminate, TimedOut
<1>5. taken' \in 0..read /\ collected' \in 0..read
    <2>1. Len(out["server"]) \in Nat
        BY LenOfSeq DEF SuiteInv, OutputOK
    <2>2. /\ read \in 0..Len(out["server"]) /\ taken \in 0..read /\ collected \in 0..read
        BY DEF SuiteInv, TypeOK
    <2>3. \/ taken < read /\ taken' = taken + 1
          \/ taken' = taken
        BY DEF TakeEvent, ReadyTimeout, ClientEnds, ClientTimeout, ServerEnds, ServerTimeout,
               Collect, Terminate
    <2>4. collected' \in {collected, read}
        BY DEF TakeEvent, ReadyTimeout, ClientEnds, ClientTimeout, ServerEnds, ServerTimeout,
               Collect, Terminate
    <2> QED BY <2>1, <2>2, <2>3, <2>4
<1>6. TypeOK'
    BY <1>1, <1>2, <1>3, <1>4, <1>5 DEF SuiteInv, TypeOK, Faults
<1>7. OutputOK' /\ (IsSeq(results))'
    BY <1>1 DEF SuiteInv, OutputOK
<1>8. Covering' /\ GreenMeansCovered'
    BY <1>1, <1>2 DEF SuiteInv, Covering, GreenMeansCovered, Places
<1>9. Placed'
    <2>1. scenario' = scenario
        BY <1>1 DEF scenario
    <2>2. Placed
        BY DEF SuiteInv
    <2> QED BY <2>1, <2>2 DEF Placed, NoHelperLeft, TakeEvent, ReadyTimeout, ClientEnds,
                ClientTimeout, ServerEnds, ServerTimeout, Collect, Terminate
<1> QED BY <1>6, <1>7, <1>8, <1>9 DEF SuiteInv

LEMMA StatusValues ==
    ASSUME NEW s, NEW served, NEW called
    PROVE  Status(s, served, called) \in {"pass", "fail", "unsupported"}
BY DEF Status

LEMMA EvaluateKeeps ==
    ASSUME SuiteInv, evaluate_scenario
    PROVE  SuiteInv'
<1>1. PICK status \in {"pass", "fail", "unsupported"} :
         results' = Append(results, [scenario |-> scenario.id,
                                     features |-> scenario.required_features,
                                     status |-> status])
    BY StatusValues DEF evaluate_scenario
<1>2. /\ pc = "evaluate" /\ pc' = "next"
      /\ UNCHANGED <<server, client, out, fault, selection, whole, required, read, taken,
                     collected>>
    BY DEF evaluate_scenario, Goto, pair, Settings
<1> DEFINE r == [scenario |-> scenario.id, features |-> scenario.required_features,
                 status |-> status]
<1>3. /\ IsSeq(results) /\ Len(results) \in Nat /\ IsSeq(results')
      /\ Len(results') = Len(results) + 1
      /\ \A j \in 1..Len(results) : results'[j] = results[j]
      /\ results'[Len(results) + 1] = r
      /\ ToSet(results') = ToSet(results) \cup {r}
    BY <1>1, AppendIsSeq, LenOfSeq DEF SuiteInv
<1>4. TypeOK'
    BY <1>2, <1>3 DEF SuiteInv, TypeOK, Places
<1>5. OutputOK' /\ GreenMeansCovered' /\ Placed'
    BY <1>2 DEF SuiteInv, OutputOK, GreenMeansCovered, Placed, NoHelperLeft
<1>6. Covering'
    <2> SUFFICES ASSUME whole
                 PROVE  /\ selection' = Suite /\ Len(results') <= Len(Suite)
                        /\ \A j \in 1..Len(results') :
                              /\ results'[j].scenario = Suite[j].id
                              /\ results'[j].features = Suite[j].required_features
        BY <1>2 DEF Covering
    <2>1. /\ selection = Suite /\ Len(results) < Len(Suite)
          /\ \A j \in 1..Len(results) : /\ results[j].scenario = Suite[j].id
                                        /\ results[j].features = Suite[j].required_features
        BY <1>2 DEF SuiteInv, Covering
    <2>2. Len(Suite) \in Nat
        BY SuiteAssumption
    <2>3. Len(results') <= Len(Suite)
        BY <1>3, <2>1, <2>2
    <2>4. r.scenario = Suite[Len(results) + 1].id
          /\ r.features = Suite[Len(results) + 1].required_features
        BY <2>1 DEF scenario
    <2>5. \A j \in 1..Len(results') : j = Len(results) + 1 \/ j \in 1..Len(results)
        BY <1>3
    <2> QED BY <1>2, <1>3, <2>1, <2>3, <2>4, <2>5
<1> QED BY <1>3, <1>4, <1>5, <1>6 DEF SuiteInv

\* An exit code of 0: no result is a failure, the one about coverage neither.
LEMMA ReportKeeps ==
    ASSUME SuiteInv, Report
    PROVE  SuiteInv'
<1> DEFINE r == [scenario |-> "coverage", features |-> {}, status |-> "fail"]
<1>1. /\ pc = "next" /\ pc' = "returned" /\ Len(results) = Len(selection)
      /\ UNCHANGED <<server, client, out, fault, selection, whole, required, read, taken,
                     collected>>
    BY DEF Report, Goto, pair, Settings
<1>2. \/ results' = results /\ ~(whole /\ missing_required_features # {})
      \/ results' = Append(results, r)
    BY DEF Report
<1>3. IsSeq(results') /\ (results' = results \/ ToSet(results') = ToSet(results) \cup {r})
    <2>1. IsSeq(results)
        BY DEF SuiteInv
    <2>2. IsSeq(Append(results, r)) /\ ToSet(Append(results, r)) = ToSet(results) \cup {r}
        <3> HIDE DEF r
        <3> QED BY <2>1, AppendIsSeq
    <2> QED BY <1>2, <2>1, <2>2
<1>4. TypeOK'
    BY <1>1, <1>3 DEF SuiteInv, TypeOK, Places
<1>5. OutputOK' /\ Placed' /\ Covering'
    BY <1>1 DEF SuiteInv, OutputOK, Placed, NoHelperLeft, Covering
<1>6. GreenMeansCovered'
    <2> SUFFICES ASSUME whole, exit_code' = 0, NEW f \in required
                 PROVE  \E s \in Scenarios :
                            /\ f \in s.required_features
                            /\ \E x \in ToSet(results') : x.scenario = s.id /\ x.status # "fail"
        BY <1>1 DEF GreenMeansCovered
    <2>1. \A x \in ToSet(results') : x.status # "fail"
        BY DEF exit_code
    <2>2. results' = results /\ missing_required_features = {}
        <3>1. results' # Append(results, r)
            <4> SUFFICES ASSUME results' = Append(results, r) PROVE FALSE
                OBVIOUS
            <4>1. r \in ToSet(results')
                <5>1. IsSeq(results)
                    BY DEF SuiteInv
                <5> HIDE DEF r
                <5> QED BY <5>1, AppendIsSeq
            <4>2. r.status = "fail"
                OBVIOUS
            <4> QED BY <2>1, <4>1, <4>2
        <3> QED BY <1>2, <3>1
    <2>3. PICK x \in ToSet(results) : f \in x.features
        BY <2>2 DEF missing_required_features
    <2>4. PICK j \in 1..Len(results) : x = results[j]
        <3>1. DOMAIN results = 1..Len(results)
            BY DEF SuiteInv, IsSeq
        <3> QED BY <2>3, <3>1 DEF ToSet
    <2>5. /\ x.scenario = Suite[j].id /\ x.features = Suite[j].required_features
          /\ j \in 1..Len(Suite)
        BY <1>1, <2>4 DEF SuiteInv, Covering
    <2>6. Suite[j] \in Scenarios
        BY <2>5, SuiteAssumption DEF Scenarios
    <2> QED BY <2>1, <2>2, <2>3, <2>5, <2>6
<1> QED BY <1>3, <1>4, <1>5, <1>6 DEF SuiteInv

-----------------------------------------------------------------------------
(* The theorems *)

LEMMA StepSuite == SuiteInv /\ [RunNext]_vars => SuiteInv'
<1> SUFFICES ASSUME SuiteInv, [RunNext]_vars PROVE SuiteInv'
    OBVIOUS
<1>1. CASE Spawn
    BY <1>1, SpawnKeeps
<1>2. CASE \/ TakeEvent \/ ReadyTimeout \/ ClientEnds \/ ClientTimeout
           \/ ServerEnds \/ ServerTimeout \/ Collect \/ Terminate
    BY <1>2, WaitKeeps
<1>3. CASE evaluate_scenario
    BY <1>3, EvaluateKeeps
<1>4. CASE Report
    BY <1>4, ReportKeeps
<1>5. CASE ReadLine
    BY <1>5, ReadLineKeeps
<1>6. CASE HelpersStep
    BY <1>6, HelpersStepKeeps
<1>7. CASE UNCHANGED vars
    <2>1. UNCHANGED <<server, client, out, fault, selection, whole, required, results, pc, read,
                      taken, collected>>
        BY <1>7 DEF vars, pair, runner
    <2> QED BY <2>1 DEF SuiteInv, TypeOK, OutputOK, Placed, NoHelperLeft, Covering,
                        GreenMeansCovered, exit_code, scenario
<1> QED BY <1>1, <1>2, <1>3, <1>4, <1>5, <1>6, <1>7 DEF RunNext, RunnerStep

LEMMA SuiteInvariant == RunSpec => []SuiteInv
BY InitSuite, StepSuite, PTL DEF RunSpec

(* The states of the two processes and of the runner are what they are     *)
(* declared to be, and no reader is ahead of the output: ProcessHandle.    *)
THEOREM SuiteTypeCorrect == RunSpec => []TypeOK
BY SuiteInvariant, PTL DEF SuiteInv

(* Between scenarios, after the last one and after an exception no helper  *)
(* process of the runner is running: the finally clause of execute.        *)
THEOREM NoHelperOutlivesItsScenario == RunSpec => []NoHelperLeft
BY SuiteInvariant, PTL DEF SuiteInv, Placed

(* run_suite returns 0 for a whole run only if each required feature has a *)
(* scenario among the results that did not fail.                           *)
THEOREM GreenRunsCover == RunSpec => []GreenMeansCovered
BY SuiteInvariant, PTL DEF SuiteInv

-----------------------------------------------------------------------------
(* What matching_events returns *)

Has(events, e) == \E x \in ToSet(events) : x.event = e

\* f[k] is what Kept has of the first k elements of s.
Keeps(f, s, at, n) ==
    f = [k \in 0..n |-> IF k = 0 THEN <<>>
                        ELSE IF k \in at THEN Append(f[k - 1], s[k]) ELSE f[k - 1]]

(* The recursive function of Kept exists. *)
LEMMA KeepsExists ==
    ASSUME NEW s, NEW at, NEW n \in Nat
    PROVE  \E f : Keeps(f, s, at, n)
<1> DEFINE S == {k \in Nat : \E f : Keeps(f, s, at, k)}
<1>1. 0 \in S
  <2> DEFINE f == [k \in 0..0 |-> <<>>]
  <2>1. Keeps(f, s, at, 0)
    BY DEF Keeps
  <2> QED BY <2>1
<1>2. ASSUME NEW k \in Nat, k \in S
      PROVE  k + 1 \in S
  <2>1. PICK f : Keeps(f, s, at, k)
    BY <1>2
  <2> DEFINE From(g, j) == IF j = 0 THEN <<>>
                           ELSE IF j \in at THEN Append(g[j - 1], s[j]) ELSE g[j - 1]
             Then(g) == [j \in 0..k + 1 |-> From(g, j)]
             h == Then(f)
  <2>2. \A j \in 0..k : h[j] = f[j]
    <3> TAKE j \in 0..k
    <3>1. f[j] = From(f, j)
      BY <2>1 DEF Keeps
    <3> QED BY <3>1
  <2>3. \A j \in 0..k + 1 : From(h, j) = From(f, j)
    <3>1. \A j \in 0..k + 1 : j # 0 => j - 1 \in 0..k
      OBVIOUS
    <3> HIDE DEF h
    <3> QED BY <2>2, <3>1
  <2>4. h = Then(h)
    <3> HIDE DEF From
    <3>1. h = [j \in 0..k + 1 |-> From(f, j)]
      OBVIOUS
    <3> HIDE DEF h
    <3> QED BY <2>3, <3>1
  <2>5. Keeps(h, s, at, k + 1)
    BY <2>4 DEF Keeps
  <2> HIDE DEF h
  <2> QED BY <2>5
<1> HIDE DEF S
<1>3. Nat \subseteq S
  BY <1>1, <1>2, SetInduction
<1> QED BY <1>3 DEF S

(* Kept is the last value of that function. *)
LEMMA KeptIsLast ==
    ASSUME NEW s, NEW at, Len(s) \in Nat
    PROVE  \E f : Keeps(f, s, at, Len(s)) /\ Kept(s, at) = f[Len(s)]
<1> DEFINE f == CHOOSE f : Keeps(f, s, at, Len(s))
<1>1. Keeps(f, s, at, Len(s))
  BY KeepsExists
<1>2. Kept(s, at) = f[Len(s)]
  BY DEF Kept, Keeps
<1> QED BY <1>1, <1>2

(* The function, value by value. *)
LEMMA KeepsStep ==
    ASSUME NEW f, NEW s, NEW at, NEW n \in Nat, Keeps(f, s, at, n)
    PROVE  /\ f[0] = <<>>
           /\ \A k \in 0..n - 1 :
                 f[k + 1] = IF k + 1 \in at THEN Append(f[k], s[k + 1]) ELSE f[k]
<1> DEFINE From(g, j) == IF j = 0 THEN <<>>
                         ELSE IF j \in at THEN Append(g[j - 1], s[j]) ELSE g[j - 1]
<1>1. \A j \in 0..n : f[j] = From(f, j)
  BY DEF Keeps
<1>2. f[0] = <<>>
  <2>1. 0 \in 0..n
    OBVIOUS
  <2>2. f[0] = From(f, 0)
    BY <1>1, <2>1
  <2> QED BY <2>2
<1>3. \A k \in 0..n - 1 : k + 1 \in 0..n /\ (k + 1) - 1 = k /\ k + 1 # 0
  OBVIOUS
<1>4. \A k \in 0..n - 1 : f[k + 1] = From(f, k + 1)
  BY <1>1, <1>3
<1> QED BY <1>2, <1>3, <1>4

(* What is kept is a sequence of elements of s at places in "at". *)
LEMMA KeptMembers ==
    ASSUME NEW S, NEW s \in Seq(S), NEW at
    PROVE  /\ Kept(s, at) \in Seq({s[k] : k \in at \cap 1..Len(s)})
           /\ Kept(s, at) = <<>> <=> at \cap 1..Len(s) = {}
<1> DEFINE n == Len(s)
           K == {s[k] : k \in at \cap 1..n}
<1>1. n \in Nat
  OBVIOUS
<1>2. PICK f : Keeps(f, s, at, n) /\ Kept(s, at) = f[n]
  BY <1>1, KeptIsLast
<1>3. /\ f[0] = <<>>
      /\ \A k \in 0..n - 1 : f[k + 1] = IF k + 1 \in at THEN Append(f[k], s[k + 1]) ELSE f[k]
  BY <1>1, <1>2, KeepsStep
<1> DEFINE T == {k \in Nat : k \in 0..n => f[k] \in Seq(K)
                                           /\ (f[k] = <<>> <=> at \cap 1..k = {})}
<1> HIDE DEF n
<1>4. 0 \in T
  <2> HIDE DEF K
  <2>1. <<>> \in Seq(K) /\ 1..0 = {}
    OBVIOUS
  <2> QED BY <1>3, <2>1
<1>5. ASSUME NEW k \in Nat, k \in T
      PROVE  k + 1 \in T
  <2> SUFFICES ASSUME k + 1 \in 0..n
               PROVE  f[k + 1] \in Seq(K) /\ (f[k + 1] = <<>> <=> at \cap 1..k + 1 = {})
    OBVIOUS
  <2>1. k \in 0..n /\ k \in 0..n - 1 /\ k + 1 \in 1..n
    BY <1>1
  <2>2. f[k] \in Seq(K) /\ (f[k] = <<>> <=> at \cap 1..k = {})
    BY <1>5, <2>1
  <2>3. 1..k + 1 = (1..k) \cup {k + 1}
    OBVIOUS
  <2>4. CASE k + 1 \in at
    <3>1. s[k + 1] \in K /\ f[k + 1] = Append(f[k], s[k + 1])
      BY <1>3, <2>1, <2>4
    <3> HIDE DEF K
    <3> DEFINE q == f[k]
               x == s[k + 1]
    <3>2. q \in Seq(K) /\ x \in K
      BY <2>2, <3>1
    <3> HIDE DEF q, x
    <3>3. Append(q, x) \in Seq(K) /\ Append(q, x) # <<>>
      BY <3>2
    <3>4. f[k + 1] \in Seq(K) /\ f[k + 1] # <<>>
      BY <3>1, <3>3 DEF q, x
    <3> QED BY <2>3, <2>4, <3>4
  <2>5. CASE k + 1 \notin at
    <3>1. f[k + 1] = f[k]
      BY <1>3, <2>1, <2>5
    <3> HIDE DEF K
    <3> QED BY <2>2, <2>3, <2>5, <3>1
  <2> QED BY <2>4, <2>5
<1> HIDE DEF T, K
<1>6. n \in T
  BY <1>1, <1>4, <1>5, SetInduction
<1> QED BY <1>1, <1>2, <1>6 DEF T, K, n

\* Append, like \o (Cat), by a name that a proof need not look behind
Add(s, x) == Append(s, x)

(* Appending after a concatenation. *)
LEMMA ConcatAppend ==
    ASSUME NEW S, NEW s, NEW t, NEW x, s \in Seq(S), t \in Seq(S), x \in S
    PROVE  Add(Cat(s, t), x) = Cat(s, Add(t, x))
BY DEF Cat, Add

\* st is s followed by t, and ab the places a of s and b of t.
Joined(st, s, t, m, n, ab, a, b) ==
    /\ m = Len(s) /\ n = Len(t)
    /\ \A k \in 1..m : st[k] = s[k] /\ (k \in ab <=> k \in a)
    /\ \A k \in 1..n : st[m + k] = t[k] /\ (m + k \in ab <=> k \in b)

(* Kept of a sequence and then of another is Kept of the two together. *)
LEMMA KeepsConcat ==
    ASSUME NEW S, NEW s \in Seq(S), NEW t \in Seq(S), NEW st,
           NEW m \in Nat, NEW n \in Nat, NEW a, NEW b, NEW ab,
           Joined(st, s, t, m, n, ab, a, b),
           NEW f, Keeps(f, s, a, m), NEW g, Keeps(g, t, b, n), NEW h, Keeps(h, st, ab, m + n)
    PROVE  h[m + n] = Cat(f[m], g[n])
<1>1. /\ f[0] = <<>>
      /\ \A k \in 0..m - 1 : f[k + 1] = IF k + 1 \in a THEN Append(f[k], s[k + 1]) ELSE f[k]
  BY KeepsStep
<1>2. /\ g[0] = <<>>
      /\ \A k \in 0..n - 1 : g[k + 1] = IF k + 1 \in b THEN Append(g[k], t[k + 1]) ELSE g[k]
  BY KeepsStep
<1>3. /\ h[0] = <<>>
      /\ \A k \in 0..m + n - 1 :
            h[k + 1] = IF k + 1 \in ab THEN Append(h[k], st[k + 1]) ELSE h[k]
  <2>1. m + n \in Nat
    OBVIOUS
  <2> QED BY <2>1, KeepsStep
<1> DEFINE InFront(k) == f[k] \in Seq(S) /\ h[k] = f[k]
           Behind(k) == g[k] \in Seq(S) /\ h[m + k] = f[m] \o g[k]
           T == {k \in Nat : k \in 0..m => InFront(k)}
           U == {k \in Nat : k \in 0..n => Behind(k)}
<1>4. \A k \in 1..m : s[k] \in S
  BY DEF Joined
<1>5. \A k \in 1..n : t[k] \in S
  BY DEF Joined
<1>6. InFront(m)
  <2>1. InFront(0)
    <3>1. <<>> \in Seq(S)
      OBVIOUS
    <3> QED BY <1>1, <1>3, <3>1
  <2>2. ASSUME NEW k \in Nat, InFront(k), k + 1 \in 0..m
        PROVE  InFront(k + 1)
    <3>1. k \in 0..m - 1 /\ k \in 0..m + n - 1 /\ k + 1 \in 1..m
      BY <2>2
    <3>2. st[k + 1] = s[k + 1] /\ s[k + 1] \in S /\ (k + 1 \in ab <=> k + 1 \in a)
      BY <1>4, <3>1 DEF Joined
    <3>3. f[k + 1] = IF k + 1 \in a THEN Append(f[k], s[k + 1]) ELSE f[k]
      BY <1>1, <3>1
    <3>4. h[k + 1] = IF k + 1 \in ab THEN Append(h[k], st[k + 1]) ELSE h[k]
      BY <1>3, <3>1
    <3>5. Append(f[k], s[k + 1]) \in Seq(S)
      BY <2>2, <3>2
    <3> QED BY <2>2, <3>2, <3>3, <3>4, <3>5
  <2> HIDE DEF InFront
  <2>3. \A k \in Nat : k \in T => k + 1 \in T
    BY <2>2
  <2>4. 0 \in T
    BY <2>1
  <2> HIDE DEF T
  <2>5. m \in T
    BY <2>3, <2>4, SetInduction
  <2> QED BY <2>5 DEF T
<1>7. Behind(n)
  <2>1. Behind(0)
    <3>1. <<>> \in Seq(S) /\ f[m] \o <<>> = f[m] /\ m + 0 = m
      BY <1>6
    <3> QED BY <1>2, <1>6, <3>1
  <2>2. ASSUME NEW k \in Nat, Behind(k), k + 1 \in 0..n
        PROVE  Behind(k + 1)
    <3>1. /\ k \in 0..n - 1 /\ m + k \in 0..m + n - 1 /\ k + 1 \in 1..n
          /\ (m + k) + 1 = m + (k + 1)
      BY <2>2
    <3>2. /\ st[m + (k + 1)] = t[k + 1] /\ t[k + 1] \in S
          /\ (m + (k + 1) \in ab <=> k + 1 \in b)
      BY <1>5, <3>1 DEF Joined
    <3>3. g[k + 1] = IF k + 1 \in b THEN Append(g[k], t[k + 1]) ELSE g[k]
      BY <1>2, <3>1
    <3>4. h[m + (k + 1)] = IF m + (k + 1) \in ab THEN Append(h[m + k], st[m + (k + 1)])
                           ELSE h[m + k]
      BY <1>3, <3>1
    <3>5. f[m] \in Seq(S) /\ g[k] \in Seq(S) /\ h[m + k] = f[m] \o g[k]
      BY <1>6, <2>2
    <3>6. Append(g[k], t[k + 1]) \in Seq(S)
      BY <3>2, <3>5
    <3>7. Append(f[m] \o g[k], t[k + 1]) = f[m] \o Append(g[k], t[k + 1])
      <4>1. Add(Cat(f[m], g[k]), t[k + 1]) = Cat(f[m], Add(g[k], t[k + 1]))
        BY <3>2, <3>5, ConcatAppend
      <4> QED BY <4>1 DEF Cat, Add
    <3> QED BY <3>2, <3>3, <3>4, <3>5, <3>6, <3>7
  <2> HIDE DEF Behind
  <2>3. \A k \in Nat : k \in U => k + 1 \in U
    BY <2>2
  <2>4. 0 \in U
    BY <2>1
  <2> HIDE DEF U
  <2>5. n \in U
    BY <2>3, <2>4, SetInduction
  <2> QED BY <2>5 DEF U
<1> QED BY <1>7 DEF Cat

(* The matching events of two outputs, one after the other. *)
LEMMA MatchingConcat ==
    ASSUME NEW S, NEW s \in Seq(S), NEW t \in Seq(S), NEW e
    PROVE  matching_events(Cat(s, t), e)
           = Cat(matching_events(s, e), matching_events(t, e))
<1> DEFINE At(r) == {k \in DOMAIN r : r[k].event = e}
           m == Len(s)
           n == Len(t)
           st == s \o t
<1>1. m \in Nat /\ n \in Nat /\ st \in Seq(S) /\ Len(st) = m + n
  OBVIOUS
<1>2. /\ \A k \in 1..m : st[k] = s[k]
      /\ \A k \in 1..n : st[m + k] = t[k]
      /\ DOMAIN s = 1..m /\ DOMAIN t = 1..n /\ DOMAIN st = 1..m + n
  BY <1>1
<1>3. /\ \A k \in 1..m : k \in At(st) <=> k \in At(s)
      /\ \A k \in 1..n : m + k \in At(st) <=> k \in At(t)
  BY <1>1, <1>2
<1>4. PICK f : Keeps(f, s, At(s), m) /\ Kept(s, At(s)) = f[m]
  BY <1>1, KeptIsLast
<1>5. PICK g : Keeps(g, t, At(t), n) /\ Kept(t, At(t)) = g[n]
  BY <1>1, KeptIsLast
<1>6. PICK h : Keeps(h, st, At(st), m + n) /\ Kept(st, At(st)) = h[m + n]
  <2> HIDE DEF At, st, m, n
  <2> QED BY <1>1, KeptIsLast
<1>7. h[m + n] = Cat(f[m], g[n])
  <2>1. Joined(st, s, t, m, n, At(st), At(s), At(t))
    BY <1>2, <1>3 DEF Joined
  <2> HIDE DEF At, st, m, n
  <2>2. m \in Nat /\ n \in Nat /\ s \in Seq(S) /\ t \in Seq(S)
    BY <1>1
  <2>3. Keeps(f, s, At(s), m) /\ Keeps(g, t, At(t), n) /\ Keeps(h, st, At(st), m + n)
    BY <1>4, <1>5, <1>6
  <2> QED BY <2>1, <2>2, <2>3, KeepsConcat
<1> QED BY <1>4, <1>5, <1>6, <1>7 DEF matching_events, Cat

(* The matching events are events of the output, and all have the name. *)
LEMMA MatchingMembers ==
    ASSUME NEW S, NEW s \in Seq(S), NEW e
    PROVE  /\ matching_events(s, e) \in Seq(S) /\ Len(matching_events(s, e)) \in Nat
           /\ matching_events(s, e) = <<>> <=> ~Has(s, e)
           /\ \A j \in 1..Len(matching_events(s, e)) :
                 \E k \in DOMAIN s : matching_events(s, e)[j] = s[k] /\ s[k].event = e
<1> DEFINE at == {k \in DOMAIN s : s[k].event = e}
           K == {s[k] : k \in at \cap 1..Len(s)}
           q == Kept(s, at)
<1>1. q \in Seq(K) /\ (q = <<>> <=> at \cap 1..Len(s) = {})
  BY KeptMembers
<1>2. DOMAIN s = 1..Len(s)
  OBVIOUS
<1>3. q = matching_events(s, e)
  BY DEF matching_events
<1>4. at \cap 1..Len(s) = {} <=> ~Has(s, e)
  BY <1>2 DEF Has, ToSet
<1>5. K \subseteq S /\ \A x \in K : \E k \in DOMAIN s : x = s[k] /\ s[k].event = e
  BY <1>2
<1> HIDE DEF at, K, q
<1>6. q \in Seq(S) /\ Len(q) \in Nat /\ \A j \in 1..Len(q) : q[j] \in K
  BY <1>1, <1>5
<1> QED BY <1>1, <1>3, <1>4, <1>5, <1>6

(* One event. *)
LEMMA MatchingOne ==
    ASSUME NEW x, NEW e
    PROVE  matching_events(<<x>>, e) = IF x.event = e THEN <<x>> ELSE <<>>
<1> DEFINE s == <<x>>
           at == {k \in DOMAIN s : s[k].event = e}
<1>1. s \in Seq({x}) /\ Len(s) = 1 /\ s[1] = x /\ DOMAIN s = 1..1
  OBVIOUS
<1>2. 1 \in at <=> x.event = e
  BY <1>1
<1>3. matching_events(s, e) = Kept(s, at)
  BY DEF matching_events
<1> HIDE DEF s, at
<1>4. PICK f : Keeps(f, s, at, 1) /\ Kept(s, at) = f[1]
  <2>1. Len(s) \in Nat
    BY <1>1
  <2> QED BY <1>1, <2>1, KeptIsLast
<1>5. f[0] = <<>> /\ f[0 + 1] = IF 0 + 1 \in at THEN Append(f[0], s[0 + 1]) ELSE f[0]
  BY <1>4, KeepsStep
<1>6. Append(<<>>, x) = <<x>>
  OBVIOUS
<1> QED BY <1>1, <1>2, <1>3, <1>4, <1>5, <1>6 DEF s

(* No event. *)
LEMMA MatchingNone ==
    ASSUME NEW e
    PROVE  matching_events(<<>>, e) = <<>>
<1>1. <<>> \in Seq({}) /\ ~Has(<<>>, e)
  <2>1. <<>> \in Seq({})
    OBVIOUS
  <2>2. ToSet(<<>>) = {}
    BY DEF ToSet
  <2> QED BY <2>1, <2>2 DEF Has
<1>2. PICK S, s : S = {} /\ s = <<>>
  OBVIOUS
<1>3. s \in Seq(S)
  BY <1>1, <1>2
<1>4. matching_events(s, e) = <<>> <=> ~Has(s, e)
  BY <1>3, MatchingMembers
<1> QED BY <1>1, <1>2, <1>4

-----------------------------------------------------------------------------
(* The state the arguments are about *)

Received == Args(matching_events(out["server"], "recv"))

Noted == flight # <<>> /\ Head(flight) = Notification

\* the data the server's socket still holds; a notification comes first
InFlight == IF Noted THEN Tail(flight) ELSE flight

\* The client's output: a failure is its last word, and names what it failed at.
ClientSide(s) ==
    /\ client \in {"none", "connecting"} =>
          out["client"] = <<>> /\ fault \cap {"peer_addrs", "notify"} = {}
    /\ client = "sending" =>
          /\ ~Has(out["client"], "error") /\ ~Has(out["client"], "expected_failure")
          /\ s.expect_failure # {"connect"}
    /\ sent_count <= Len(s.messages)
    /\ \A x \in ToSet(out["client"]) : x.event = "expected_failure" => x.arg \in s.expect_failure
    /\ "send" \in s.expect_failure /\ sent_count > 0 => "accepted" \in fault
    /\ client = "exited" /\ fault = {} =>
          IF s.expect_failure = {} THEN sent_count = Len(s.messages)
          ELSE Has(out["client"], "expected_failure")

\* Every address list of the client shows whether addresses were missing.
PeersListed(s) ==
    /\ \A x \in ToSet(out["client"]) :
          x.event = "peer_addrs" => (x.arg = "all" <=> "peer_addrs" \notin fault)
    /\ fault = {} /\ s.emit_peer_addrs /\ (client = "sending" \/ sent_count > 0) =>
          Has(out["client"], "peer_addrs")

\* The server's output: "ready" comes first, and without a fault it reads on.
ServerSide(s) ==
    /\ ~s.server => server = "none"
    /\ server \in {"none", "setup"} => out["server"] = <<>> /\ "local_addrs" \notin fault
    /\ \A x \in ToSet(out["server"]) :
          x.event = "ready" => (x.arg = "all" <=> "local_addrs" \notin fault)
    /\ server = "reading" => Has(out["server"], "ready")
    /\ server = "exited" /\ fault = {} =>
          Has(out["server"], "ready") /\ recv_count = s.read_messages
    /\ s.server => recv_count <= s.read_messages

\* What each kind of fault leaves in the outputs
Traces(s) ==
    /\ fault \cap {"connect", "send"} # {} => Has(out["client"], "error")
    /\ "setup" \in fault =>
          Has(out["client"], "error") \/ (server = "exited" /\ ~Has(out["server"], "ready"))
    /\ "recv" \in fault => server = "exited" /\ recv_count < s.read_messages
    /\ "accepted" \in fault =>
          \/ Has(out["client"], "error")
          \/ /\ "send" \in s.expect_failure /\ client \in {"sending", "exited"}
             /\ sent_count = Len(s.messages) /\ ~Has(out["client"], "expected_failure")
    /\ Has(out["server"], "error") \/ Has(out["client"], "error") => fault # {}

\* What is sent is received, in flight or lost; a notification is before it.
Counted(s) ==
    /\ flight \in Seq(ToSet(s.messages) \cup {Notification})
    /\ \A k \in 2..Len(flight) : flight[k] # Notification
    /\ client \in {"none", "connecting"} \/ ~s.server => flight = <<>>
    /\ s.server => IF "lost" \in fault THEN recv_count + Len(InFlight) < sent_count
                   ELSE recv_count + Len(InFlight) = sent_count

\* As long as the payloads read are those sent, in their order, the rest is to come.
InOrder(s) == \A j \in 1..recv_count : Received[j].payload = s.messages[j].payload

Ordered(s) ==
    /\ s.server /\ "lost" \notin fault /\ InOrder(s) =>
          /\ fault \cap PayloadFaults = {}
          /\ \A j \in 1..Len(InFlight) : InFlight[j] = s.messages[recv_count + j]
    /\ "meta" \in fault => \E j \in 1..recv_count : Received[j].meta = Wrong
    /\ fault = {} => \A j \in 1..recv_count : Received[j] = s.messages[j]

\* The notification of the association is to come, read, lost, or not asked for.
NoteOK(s) ==
    /\ Noted => "notify" \notin fault /\ ~Has(out["server"], "notify") /\ recv_count = 0
    /\ "notify" \in fault => ~Has(out["server"], "notify")
    /\ client \in {"none", "connecting"} => ~Has(out["server"], "notify")
    /\ /\ s.server /\ s.subscribe /\ "notify" \notin fault
       /\ client = "sending" \/ sent_count > 0
       => Noted \/ Has(out["server"], "notify")

PairOK(s) ==
    /\ ClientSide(s) /\ PeersListed(s) /\ ServerSide(s) /\ Traces(s)
    /\ Counted(s) /\ Ordered(s) /\ NoteOK(s)

\* Where the runner is, and what it has of the server's output
RunnerOK(s) ==
    /\ pc \in {"ready", "wait", "join", "terminate", "unwind"} => s.server
    /\ pc \notin {"ready", "client"} => client = "exited" \/ fault # {}
    /\ s.server /\ pc \in {"client", "wait", "join", "terminate", "evaluate"} =>
          Has(out["server"], "ready")
    /\ s.server /\ pc \in {"join", "terminate", "evaluate"} => server = "exited"
    /\ pc = "ready" => \A k \in 1..taken : out["server"][k].event # "ready"
    /\ pc = "unwind" => fault # {}
    /\ s.server /\ pc \in {"terminate", "evaluate"} /\ fault = {} =>
          collected = Len(out["server"])

Running == pc \notin {"next", "returned", "raised"}

Selected ==
    /\ selection \in Seq(Scenarios)
    /\ pc \notin {"returned"} => Len(results) <= Len(selection)
    /\ Running => Len(results) < Len(selection)

VerdictInv == Selected /\ (Running => PairOK(scenario) /\ RunnerOK(scenario))

-----------------------------------------------------------------------------
(* What is written to an output *)

Other(role) == IF role = "server" THEN "client" ELSE "server"

(* Emit adds its events to one output and leaves the other alone. *)
LEMMA Emits ==
    ASSUME OutputOK, NEW role \in {"server", "client"}, NEW events, IsSeq(events),
           Emit(role, events)
    PROVE  /\ out'[Other(role)] = out[Other(role)]
           /\ ToSet(out'[role]) = ToSet(out[role]) \cup ToSet(events)
           /\ \A e : /\ Has(out'[role], e) <=> Has(out[role], e) \/ Has(events, e)
                     /\ matching_events(out'[role], e)
                          = Cat(matching_events(out[role], e), matching_events(events, e))
<1> DEFINE s == out[role]
<1>1. out'[role] = s \o events /\ out'[Other(role)] = out[Other(role)]
  BY DEF Emit, OutputOK, Other
<1>2. IsSeq(s)
  BY DEF OutputOK
<1>3. PICK S : s \in Seq(S) /\ events \in Seq(S)
  <2>1. PICK S1 : s \in Seq(S1)
    BY <1>2 DEF IsSeq
  <2>2. PICK S2 : events \in Seq(S2)
    BY DEF IsSeq
  <2>3. s \in Seq(S1 \cup S2) /\ events \in Seq(S1 \cup S2)
    BY <2>1, <2>2
  <2> QED BY <2>3
<1> HIDE DEF s
<1>4. ToSet(s \o events) = ToSet(s) \cup ToSet(events)
  <2> DEFINE m == Len(s)
             n == Len(events)
             t == s \o events
  <2>1. /\ m \in Nat /\ n \in Nat /\ DOMAIN s = 1..m /\ DOMAIN events = 1..n
        /\ DOMAIN t = 1..m + n
        /\ \A k \in 1..m : t[k] = s[k]
        /\ \A k \in m + 1..m + n : t[k] = events[k - m] /\ k - m \in 1..n
        /\ \A k \in 1..n : t[m + k] = events[k] /\ m + k \in 1..m + n
    BY <1>3
  <2> HIDE DEF m, n, t
  <2>2. ToSet(t) \subseteq ToSet(s) \cup ToSet(events)
    <3> SUFFICES ASSUME NEW k \in 1..m + n
                 PROVE  t[k] \in ToSet(s) \cup ToSet(events)
      BY <2>1 DEF ToSet
    <3>1. CASE k <= m
      BY <2>1, <3>1 DEF ToSet
    <3>2. CASE k > m
      BY <2>1, <3>2 DEF ToSet
    <3> QED BY <2>1, <3>1, <3>2
  <2>3. ToSet(s) \subseteq ToSet(t)
    <3>1. \A k \in 1..m : k \in 1..m + n
      BY <2>1
    <3> QED BY <2>1, <3>1 DEF ToSet
  <2>4. ToSet(events) \subseteq ToSet(t)
    BY <2>1 DEF ToSet
  <2> QED BY <2>2, <2>3, <2>4 DEF t
<1>5. \A e : matching_events(Cat(s, events), e)
               = Cat(matching_events(s, e), matching_events(events, e))
  BY <1>3, MatchingConcat
<1>6. \A e : Has(s \o events, e) <=> Has(s, e) \/ Has(events, e)
  BY <1>4 DEF Has
<1>7. Cat(s, events) = out'[role]
  BY <1>1 DEF Cat
<1> QED BY <1>1, <1>4, <1>5, <1>6, <1>7 DEF s

(* Sets and names of the events of a short output. *)
LEMMA FewEvents ==
    /\ ToSet(<<>>) = {} /\ \A e : ~Has(<<>>, e)
    /\ \A x : ToSet(<<x>>) = {x} /\ \A e : Has(<<x>>, e) <=> x.event = e
BY DEF ToSet, Has

(* Emitting nothing. *)
LEMMA EmitNothing ==
    ASSUME OutputOK, NEW role \in {"server", "client"}, Emit(role, <<>>)
    PROVE  out'["server"] = out["server"] /\ out'["client"] = out["client"]
<1>1. out[role] \o <<>> = out[role]
  BY DEF OutputOK, IsSeq
<1> QED BY <1>1 DEF Emit, OutputOK

(* Emitting one event adds it to the events of its name. *)
LEMMA EmitOne ==
    ASSUME OutputOK, NEW role \in {"server", "client"}, NEW x, Emit(role, <<x>>)
    PROVE  /\ out'[Other(role)] = out[Other(role)]
           /\ ToSet(out'[role]) = ToSet(out[role]) \cup {x}
           /\ \A e : Has(out'[role], e) <=> Has(out[role], e) \/ x.event = e
           /\ \A e : x.event # e =>
                 matching_events(out'[role], e) = matching_events(out[role], e)
           /\ \A e : x.event = e =>
                 matching_events(out'[role], e) = Cat(matching_events(out[role], e), <<x>>)
<1>1. IsSeq(<<x>>)
  BY SingleIsSeq
<1>2. /\ out'[Other(role)] = out[Other(role)]
      /\ ToSet(out'[role]) = ToSet(out[role]) \cup ToSet(<<x>>)
      /\ \A e : /\ Has(out'[role], e) <=> Has(out[role], e) \/ Has(<<x>>, e)
                /\ matching_events(out'[role], e)
                     = Cat(matching_events(out[role], e), matching_events(<<x>>, e))
  BY <1>1, Emits
<1>3. \A e : matching_events(<<x>>, e) = IF x.event = e THEN <<x>> ELSE <<>>
  BY MatchingOne
<1>4. \A e : Cat(matching_events(out[role], e), <<>>) = matching_events(out[role], e)
  <2> TAKE e
  <2>1. PICK S : out[role] \in Seq(S)
    BY DEF OutputOK, IsSeq
  <2>2. matching_events(out[role], e) \in Seq(S)
    BY <2>1, MatchingMembers
  <2> QED BY <2>2 DEF Cat
<1> QED BY <1>2, <1>3, <1>4, FewEvents

(* The counts of the two outputs are numbers, 0 where nothing is written. *)
LEMMA Counts ==
    ASSUME OutputOK
    PROVE  /\ recv_count \in Nat /\ sent_count \in Nat
           /\ out["server"] = <<>> => recv_count = 0
           /\ out["client"] = <<>> => sent_count = 0
<1>1. PICK S : out["server"] \in Seq(S)
  BY DEF OutputOK, IsSeq
<1>2. PICK T : out["client"] \in Seq(T)
  BY DEF OutputOK, IsSeq
<1>3. recv_count \in Nat
  BY <1>1, MatchingMembers DEF recv_count
<1>4. sent_count \in Nat
  BY <1>2, MatchingMembers DEF sent_count
<1>5. Len(matching_events(<<>>, "recv")) = 0 /\ Len(matching_events(<<>>, "sent")) = 0
  BY MatchingNone
<1> QED BY <1>3, <1>4, <1>5 DEF recv_count, sent_count

-----------------------------------------------------------------------------
(* The steps of the client *)

(* Of a scenario's form: how many messages it has, and what it expects. *)
LEMMA Formed ==
    ASSUME NEW s, WellFormed(s)
    PROVE  /\ Len(s.messages) \in Nat \ {0}
           /\ s.expect_failure \subseteq {"connect", "send"}
           /\ s.server => s.expect_failure = {} /\ s.read_messages = Len(s.messages)
           /\ ~s.server => s.expect_failure # {} /\ Len(s.messages) = 1
BY DEF WellFormed

\* what a step of the client leaves alone
ServerStill == UNCHANGED server /\ out'["server"] = out["server"]

(* A step of the client that adds no fault of the server's makes no *)
(* difference to what is said of the server's output.               *)
LEMMA ServerSideKept ==
    ASSUME NEW s, ServerSide(s), ServerStill, fault \subseteq fault',
           "local_addrs" \in fault' => "local_addrs" \in fault
    PROVE  ServerSide(s)'
<1>1. recv_count' = recv_count
  BY DEF ServerStill, recv_count
<1>2. \A e : Has(out'["server"], e) <=> Has(out["server"], e)
  BY DEF ServerStill
<1>3. ToSet(out'["server"]) = ToSet(out["server"])
  BY DEF ServerStill
<1>4. /\ out'["server"] = out["server"] /\ server' = server
      /\ "local_addrs" \in fault' <=> "local_addrs" \in fault
      /\ fault' = {} => fault = {}
  BY DEF ServerStill
<1> QED BY <1>1, <1>2, <1>3, <1>4 DEF ServerSide

(* What is in flight, and how far the server is, when only the client ends. *)
LEMMA FlowKept ==
    ASSUME NEW s, OutputOK, ServerStill, UNCHANGED flight,
           Counted(s), Ordered(s), NoteOK(s), client = "connecting" => client' # "sending",
           client' \notin {"none", "connecting"} \/ client' = client,
           client' = "sending" => client = "sending",
           sent_count' = sent_count, fault \subseteq fault',
           fault' \cap {"lost", "order", "payload", "tail", "meta", "notify"} \subseteq fault,
           client \in {"connecting", "sending"}
    PROVE  Counted(s)' /\ Ordered(s)' /\ NoteOK(s)'
<1>1. recv_count' = recv_count /\ Received' = Received
  BY DEF ServerStill, recv_count, Received
<1>2. InFlight' = InFlight /\ Noted' = Noted
  BY DEF InFlight, Noted
<1>3. Has(out'["server"], "notify") <=> Has(out["server"], "notify")
  BY DEF ServerStill
<1>4. \A f \in {"lost", "order", "payload", "tail", "meta", "notify"} : f \in fault' <=> f \in fault
  OBVIOUS
<1>5. Counted(s)'
  <2>1. "lost" \in fault' <=> "lost" \in fault
    BY <1>4
  <2>2. client' \in {"none", "connecting"} \/ ~s.server => flight' = <<>>
    BY DEF Counted
  <2> QED BY <1>1, <1>2, <2>1, <2>2 DEF Counted
<1>6. Ordered(s)'
  <2>1. InOrder(s)' <=> InOrder(s)
    BY <1>1 DEF InOrder
  <2>2. fault' \cap PayloadFaults = fault \cap PayloadFaults
    BY <1>4 DEF PayloadFaults
  <2>3. fault' = {} => fault = {}
    OBVIOUS
  <2>4. /\ "meta" \in fault' <=> "meta" \in fault
        /\ "lost" \in fault' <=> "lost" \in fault
    BY <1>4
  <2> QED BY <1>1, <1>2, <2>1, <2>2, <2>3, <2>4 DEF Ordered
<1>7. NoteOK(s)'
  <2>1. "notify" \in fault' <=> "notify" \in fault
    BY <1>4
  <2> QED BY <1>1, <1>2, <1>3, <2>1 DEF NoteOK
<1> QED BY <1>5, <1>6, <1>7

\* the last event of a client that exits, if it has one
LastWords(events) ==
    events = <<>> \/ \E x : events = <<x>> /\ x.event \in {"error", "expected_failure", "complete"}

(* What an exit of the client does to its output. *)
LEMMA ExitWords ==
    ASSUME OutputOK, NEW events, LastWords(events), ClientExit(events)
    PROVE  /\ ServerStill /\ client' = "exited" /\ sent_count' = sent_count
           /\ ToSet(out'["client"]) = ToSet(out["client"]) \cup ToSet(events)
           /\ \A e : Has(out'["client"], e) <=> Has(out["client"], e) \/ Has(events, e)
<1>1. Emit("client", events) /\ client' = "exited" /\ UNCHANGED server
  BY DEF ClientExit
<1>2. CASE events = <<>>
  <2>1. out'["server"] = out["server"] /\ out'["client"] = out["client"]
    BY <1>1, <1>2, EmitNothing
  <2> QED BY <1>1, <1>2, <2>1, FewEvents DEF ServerStill, sent_count
<1>3. ASSUME NEW x, events = <<x>>, x.event \in {"error", "expected_failure", "complete"}
      PROVE  /\ ServerStill /\ client' = "exited" /\ sent_count' = sent_count
             /\ ToSet(out'["client"]) = ToSet(out["client"]) \cup ToSet(events)
             /\ \A e : Has(out'["client"], e) <=> Has(out["client"], e) \/ Has(events, e)
  <2>1. /\ out'["server"] = out["server"]
        /\ ToSet(out'["client"]) = ToSet(out["client"]) \cup {x}
        /\ \A e : Has(out'["client"], e) <=> Has(out["client"], e) \/ x.event = e
        /\ x.event # "sent" =>
              matching_events(out'["client"], "sent") = matching_events(out["client"], "sent")
    BY <1>1, <1>3, EmitOne DEF Other
  <2> QED BY <1>1, <1>3, <2>1, FewEvents DEF ServerStill, sent_count
<1> QED BY <1>2, <1>3 DEF LastWords

\* the faults a step of the client may add when it exits
ExitFaults == {"connect", "send", "accepted", "setup", "crash"}

(* An exit of the client keeps what does not depend on its reason. *)
LEMMA ExitKeeps ==
    ASSUME NEW s, OutputOK, PairOK(s), client \in {"connecting", "sending"},
           NEW events, LastWords(events), ClientExit(events), UNCHANGED flight,
           fault \subseteq fault', fault' \subseteq fault \cup ExitFaults
    PROVE  Counted(s)' /\ Ordered(s)' /\ NoteOK(s)' /\ ServerSide(s)' /\ PeersListed(s)'
<1>1. /\ ServerStill /\ client' = "exited" /\ sent_count' = sent_count
      /\ ToSet(out'["client"]) = ToSet(out["client"]) \cup ToSet(events)
      /\ \A e : Has(out'["client"], e) <=> Has(out["client"], e) \/ Has(events, e)
  BY ExitWords
<1>2. \A f \in {"lost", "order", "payload", "tail", "meta", "notify", "local_addrs", "peer_addrs"} :
          f \in fault' <=> f \in fault
  BY DEF ExitFaults
<1>3. Counted(s)' /\ Ordered(s)' /\ NoteOK(s)'
  <2>1. fault' \cap {"lost", "order", "payload", "tail", "meta", "notify"} \subseteq fault
    BY <1>2
  <2> QED BY <1>1, <2>1, FlowKept DEF PairOK
<1>4. ServerSide(s)'
  BY <1>1, <1>2, ServerSideKept DEF PairOK
<1>5. PeersListed(s)'
  <2>1. \A x \in ToSet(events) : x.event # "peer_addrs"
    BY FewEvents DEF LastWords
  <2>2. PeersListed(s)
    BY DEF PairOK
  <2>3. fault' = {} => fault = {}
    OBVIOUS
  <2>4. client' = "sending" \/ sent_count' > 0 => sent_count > 0
    BY <1>1
  <2> QED BY <1>1, <1>2, <2>1, <2>2, <2>3, <2>4 DEF PeersListed
<1> QED BY <1>3, <1>4, <1>5

(* An exit with an error: some fault has been noted. *)
LEMMA ErrorExit ==
    ASSUME NEW s, WellFormed(s), OutputOK, PairOK(s), client \in {"connecting", "sending"},
           NEW why, ClientExit(<<Event("error", why)>>), UNCHANGED flight,
           fault \subseteq fault', fault' \subseteq fault \cup ExitFaults, fault' # {}
    PROVE  PairOK(s)'
<1> DEFINE x == Event("error", why)
<1>1. LastWords(<<x>>) /\ x.event = "error"
  BY DEF LastWords, Event
<1> HIDE DEF x
<1>2. ClientExit(<<x>>)
  BY DEF x
<1>3. Counted(s)' /\ Ordered(s)' /\ NoteOK(s)' /\ ServerSide(s)' /\ PeersListed(s)'
  BY <1>1, <1>2, ExitKeeps
<1>4. /\ ServerStill /\ client' = "exited" /\ sent_count' = sent_count
      /\ ToSet(out'["client"]) = ToSet(out["client"]) \cup {x}
      /\ Has(out'["client"], "error")
  BY <1>1, <1>2, ExitWords, FewEvents
<1>5. ClientSide(s)'
  <2>1. ClientSide(s)
    BY DEF PairOK
  <2> QED BY <1>1, <1>4, <2>1 DEF ClientSide
<1>6. Traces(s)'
  <2>1. recv_count' = recv_count
    BY <1>4 DEF ServerStill, recv_count
  <2>2. "recv" \in fault' => "recv" \in fault
    BY DEF ExitFaults
  <2>3. server' = server
    BY <1>4 DEF ServerStill
  <2>4. Traces(s)
    BY DEF PairOK
  <2> QED BY <1>4, <2>1, <2>2, <2>3, <2>4 DEF Traces
<1> QED BY <1>3, <1>5, <1>6 DEF PairOK

(* What an exit without an error does to the rest. *)
LEMMA QuietExit ==
    ASSUME NEW s, WellFormed(s), OutputOK, PairOK(s), client \in {"connecting", "sending"},
           NEW events, LastWords(events), ~Has(events, "error"),
           ClientExit(events), UNCHANGED flight,
           fault \subseteq fault', fault' \subseteq fault \cup {"crash"},
           \A x \in ToSet(events) : x.event = "expected_failure" => x.arg \in s.expect_failure,
           fault' = {} => IF s.expect_failure = {} THEN sent_count = Len(s.messages)
                          ELSE Has(events, "expected_failure"),
           Has(events, "expected_failure") =>
               client = "connecting" \/ sent_count < Len(s.messages)
    PROVE  PairOK(s)'
<1>1. Counted(s)' /\ Ordered(s)' /\ NoteOK(s)' /\ ServerSide(s)' /\ PeersListed(s)'
  <2>1. fault' \subseteq fault \cup ExitFaults
    BY DEF ExitFaults
  <2> QED BY <2>1, ExitKeeps
<1>2. /\ ServerStill /\ client' = "exited" /\ sent_count' = sent_count
      /\ ToSet(out'["client"]) = ToSet(out["client"]) \cup ToSet(events)
      /\ \A e : Has(out'["client"], e) <=> Has(out["client"], e) \/ Has(events, e)
  BY ExitWords
<1>3. \A f \in ExitFaults : f # "crash" => (f \in fault' <=> f \in fault)
  BY DEF ExitFaults
<1>4. ClientSide(s)'
  <2>1. ClientSide(s)
    BY DEF PairOK
  <2> QED BY <1>2, <1>3, <2>1 DEF ClientSide, ExitFaults
<1>5. Traces(s)'
  <2>1. recv_count' = recv_count /\ server' = server /\ out'["server"] = out["server"]
    BY <1>2 DEF ServerStill, recv_count
  <2>2. "recv" \in fault' => "recv" \in fault
    OBVIOUS
  <2>3. Traces(s)
    BY DEF PairOK
  <2>4. fault \cap {"connect", "send"} # {} <=> fault' \cap {"connect", "send"} # {}
    OBVIOUS
  <2>5. fault # {} => fault' # {}
    OBVIOUS
  <2>6. \A e : Has(out'["server"], e) <=> Has(out["server"], e)
    BY <2>1
  <2>7. "setup" \in fault' <=> "setup" \in fault
    OBVIOUS
  <2>8. "accepted" \in fault' =>
          \/ Has(out'["client"], "error")
          \/ /\ "send" \in s.expect_failure /\ client' \in {"sending", "exited"}
             /\ sent_count' = Len(s.messages) /\ ~Has(out'["client"], "expected_failure")
    BY <1>2, <1>3, <2>3, Formed DEF Traces, ExitFaults
  <2>9. Has(out'["server"], "error") \/ Has(out'["client"], "error") => fault' # {}
    BY <1>2, <2>3, <2>5, <2>6 DEF Traces
  <2> QED BY <1>2, <2>1, <2>2, <2>3, <2>4, <2>6, <2>7, <2>8, <2>9 DEF Traces
<1> QED BY <1>1, <1>4, <1>5 DEF PairOK

(* connect or send fails. *)
LEMMA StageFails ==
    ASSUME NEW s, WellFormed(s), OutputOK, PairOK(s), NEW stage \in {"connect", "send"},
           \/ stage = "connect" /\ client = "connecting"
           \/ stage = "send" /\ client = "sending" /\ sent_count < Len(s.messages),
           ClientStageFails(s, stage)
    PROVE  PairOK(s)'
<1>1. UNCHANGED flight /\ client \in {"connecting", "sending"}
  BY DEF ClientStageFails
<1>2. CASE stage \in s.expect_failure
  <2> DEFINE x == Event("expected_failure", stage)
  <2>1. ClientExit(<<x>>) /\ UNCHANGED fault
    BY <1>2 DEF ClientStageFails
  <2>2. x.event = "expected_failure" /\ x.arg = stage
    BY DEF Event
  <2> HIDE DEF x
  <2>3. LastWords(<<x>>) /\ ~Has(<<x>>, "error") /\ Has(<<x>>, "expected_failure")
        /\ ToSet(<<x>>) = {x}
    BY <2>2, FewEvents DEF LastWords
  <2> QED BY <1>1, <1>2, <2>1, <2>2, <2>3, QuietExit
<1>3. CASE stage \notin s.expect_failure
  <2>1. PICK why : ClientExit(<<Event("error", why)>>) /\ fault' = fault \cup {stage}
    BY <1>3 DEF ClientStageFails
  <2> QED BY <1>1, <2>1, ErrorExit DEF ExitFaults
<1> QED BY <1>2, <1>3

(* A client that is killed, or to which a socket or an option is refused. *)
LEMMA ClientBreaks ==
    ASSUME NEW s, WellFormed(s), OutputOK, PairOK(s), ClientOptionFails \/ ClientCrash
    PROVE  PairOK(s)'
<1>1. CASE ClientOptionFails
  <2>1. PICK why : ClientExit(<<Event("error", why)>>)
    BY <1>1 DEF ClientOptionFails
  <2> QED BY <1>1, <2>1, ErrorExit DEF ClientOptionFails, ExitFaults
<1>2. CASE ClientCrash
  <2>1. LastWords(<<>>) /\ ToSet(<<>>) = {} /\ \A e : ~Has(<<>>, e)
    BY FewEvents DEF LastWords
  <2>2. /\ client \in {"connecting", "sending"} /\ ClientExit(<<>>)
        /\ fault' = fault \cup {"crash"} /\ UNCHANGED flight
    BY <1>2 DEF ClientCrash
  <2> QED BY <2>1, <2>2, QuietExit
<1> QED BY <1>1, <1>2

(* A client that has sent everything. *)
LEMMA ClientIsDone ==
    ASSUME NEW s, WellFormed(s), OutputOK, PairOK(s), ClientComplete(s)
    PROVE  PairOK(s)'
<1>1. client = "sending" /\ sent_count = Len(s.messages) /\ UNCHANGED <<flight, fault>>
  BY DEF ClientComplete
<1>2. CASE "send" \in s.expect_failure
  <2>1. ClientExit(<<Event("error", "other")>>)
    BY <1>2 DEF ClientComplete
  <2>2. fault # {}
    <3>1. Len(s.messages) \in Nat \ {0}
      BY Formed
    <3>2. sent_count > 0
      BY <1>1, <3>1
    <3> QED BY <1>2, <3>2 DEF PairOK, ClientSide
  <2> QED BY <1>1, <2>1, <2>2, ErrorExit
<1>3. CASE "send" \notin s.expect_failure
  <2> DEFINE x == Event("complete", sent_count)
  <2>1. ClientExit(<<x>>)
    BY <1>3 DEF ClientComplete
  <2>2. x.event = "complete"
    BY DEF Event
  <2> HIDE DEF x
  <2>3. LastWords(<<x>>) /\ ~Has(<<x>>, "error") /\ ~Has(<<x>>, "expected_failure")
        /\ ToSet(<<x>>) = {x}
    BY <2>2, FewEvents DEF LastWords
  <2>4. s.expect_failure = {}
    <3>1. s.expect_failure # {"connect"}
      BY <1>1 DEF PairOK, ClientSide
    <3> QED BY <1>3, <3>1, Formed
  <2> QED BY <1>1, <2>1, <2>2, <2>3, <2>4, QuietExit
<1> QED BY <1>2, <1>3

(* The client connects: the notification is the first of the server's queue. *)
LEMMA Connects ==
    ASSUME NEW s, WellFormed(s), OutputOK, PairOK(s), client = "connecting",
           s.expect_failure # {"connect"}, ClientConnected(s)
    PROVE  PairOK(s)'
<1>1. /\ client' = "sending" /\ UNCHANGED server
      /\ flight' = IF s.server THEN flight \o Notified(s) ELSE flight
  BY DEF ClientConnected
<1>2. PICK listed \in IF s.emit_peer_addrs THEN {"all", "some", "none"} ELSE {"none"} :
        /\ Emit("client", IF listed = "none" THEN <<>> ELSE <<Event("peer_addrs", listed)>>)
        /\ fault' = IF s.emit_peer_addrs /\ listed # "all" THEN fault \cup {"peer_addrs"}
                    ELSE fault
  BY DEF ClientConnected
<1>3. /\ out["client"] = <<>> /\ fault \cap {"peer_addrs", "notify"} = {}
      /\ flight = <<>> /\ ~Has(out["server"], "notify")
  BY DEF PairOK, ClientSide, Counted, NoteOK
<1>4. sent_count = 0 /\ recv_count \in Nat /\ Len(s.messages) \in Nat \ {0}
  BY <1>3, Counts, Formed
<1>5. /\ ServerStill /\ sent_count' = 0
      /\ \A x \in ToSet(out'["client"]) : x.event = "peer_addrs" /\ x.arg = listed
      /\ Has(out'["client"], "peer_addrs") <=> listed # "none"
      /\ \A e : e # "peer_addrs" => ~Has(out'["client"], e)
  <2>1. CASE listed = "none"
    <3>1. out'["server"] = out["server"] /\ out'["client"] = <<>>
      BY <1>2, <1>3, <2>1, EmitNothing
    <3> QED BY <1>1, <1>3, <1>4, <2>1, <3>1, FewEvents DEF ServerStill, sent_count
  <2>2. CASE listed # "none"
    <3> DEFINE x == Event("peer_addrs", listed)
    <3>1. Emit("client", <<x>>) /\ x.event = "peer_addrs" /\ x.arg = listed
      BY <1>2, <2>2 DEF Event
    <3> HIDE DEF x
    <3>2. /\ out'["server"] = out["server"]
          /\ ToSet(out'["client"]) = ToSet(out["client"]) \cup {x}
          /\ \A e : Has(out'["client"], e) <=> Has(out["client"], e) \/ x.event = e
          /\ matching_events(out'["client"], "sent") = matching_events(out["client"], "sent")
      BY <3>1, EmitOne DEF Other
    <3> QED BY <1>1, <1>3, <1>4, <2>2, <3>1, <3>2, FewEvents DEF ServerStill, sent_count
  <2> QED BY <2>1, <2>2
<1>6. \A f : f # "peer_addrs" => (f \in fault' <=> f \in fault)
  BY <1>2
<1>7. fault \subseteq fault' /\ (fault' = {} => fault = {})
  BY <1>2
<1>8. ClientSide(s)'
  BY <1>1, <1>4, <1>5 DEF ClientSide
<1>9. PeersListed(s)'
  <2>1. listed # "none" => (listed = "all" <=> "peer_addrs" \notin fault')
    BY <1>2, <1>3
  <2>2. fault' = {} /\ s.emit_peer_addrs => listed = "all"
    BY <1>2
  <2>3. \A x \in ToSet(out'["client"]) : x.event = "peer_addrs" => listed # "none"
    BY <1>5 DEF Has
  <2> QED BY <1>5, <2>1, <2>2, <2>3 DEF PeersListed
<1>10. ServerSide(s)'
  BY <1>5, <1>6, <1>7, ServerSideKept DEF PairOK
<1>11. Traces(s)'
  <2>1. Traces(s) /\ ~Has(out["client"], "error")
    BY <1>3, FewEvents DEF PairOK
  <2>2. recv_count' = recv_count /\ out'["server"] = out["server"] /\ server' = server
    BY <1>5 DEF ServerStill, recv_count
  <2>3. fault \cap {"connect", "send"} = {} /\ "accepted" \notin fault
    BY <2>1 DEF Traces
  <2>4. fault' \cap {"connect", "send"} = {} /\ "accepted" \notin fault'
    BY <1>6, <2>3
  <2>5. /\ "setup" \in fault' => "setup" \in fault
        /\ "recv" \in fault' => "recv" \in fault
    BY <1>6
  <2>6. Has(out'["server"], "error") => fault' # {}
    BY <1>7, <2>1, <2>2 DEF Traces
  <2> QED BY <1>5, <2>1, <2>2, <2>4, <2>5, <2>6 DEF Traces
<1>12. recv_count' = recv_count /\ Received' = Received
  BY <1>5 DEF ServerStill, recv_count, Received
<1>13. InFlight = <<>> /\ ~Noted /\ Len(InFlight) = 0
  BY <1>3 DEF InFlight, Noted
<1>14. /\ InFlight' = <<>> /\ Len(InFlight') = 0
       /\ flight' \in Seq(ToSet(s.messages) \cup {Notification})
       /\ Len(flight') \in {0, 1} /\ (~s.server => flight' = <<>>)
       /\ Noted' <=> s.server /\ s.subscribe
  <2>1. <<>> \o <<>> = <<>> /\ <<>> \o <<Notification>> = <<Notification>>
        /\ Head(<<Notification>>) = Notification /\ Tail(<<Notification>>) = <<>>
        /\ <<Notification>> # <<>>
    OBVIOUS
  <2>2. flight' = IF s.server /\ s.subscribe THEN <<Notification>> ELSE <<>>
    BY <1>1, <1>3, <2>1 DEF Notified
  <2>3. flight' \in Seq(ToSet(s.messages) \cup {Notification}) /\ Len(flight') \in {0, 1}
    <3> DEFINE N == ToSet(s.messages) \cup {Notification}
    <3>1. Notification \in N
      OBVIOUS
    <3> HIDE DEF N
    <3>2. /\ <<Notification>> \in Seq(N) /\ Len(<<Notification>>) = 1
          /\ <<>> \in Seq(N) /\ Len(<<>>) = 0
      BY <3>1
    <3> QED BY <2>2, <3>2 DEF N
  <2>4. (Noted' <=> s.server /\ s.subscribe) /\ InFlight' = <<>>
    BY <2>1, <2>2 DEF InFlight, Noted
  <2>5. Len(<<>>) = 0
    OBVIOUS
  <2> QED BY <2>2, <2>3, <2>4, <2>5
<1>15. Counted(s)'
  <2>1. s.server => recv_count = 0 /\ "lost" \notin fault
    BY <1>4, <1>13 DEF PairOK, Counted
  <2>2. s.server => "lost" \notin fault'
    BY <1>6, <2>1
  <2> QED BY <1>1, <1>5, <1>12, <1>14, <2>1, <2>2 DEF Counted
<1>16. Ordered(s)'
  <2>1. InOrder(s)' <=> InOrder(s)
    BY <1>12 DEF InOrder
  <2>2. fault' \cap PayloadFaults = fault \cap PayloadFaults
    BY <1>6 DEF PayloadFaults
  <2>3. "meta" \in fault' <=> "meta" \in fault
    BY <1>6
  <2>4. "lost" \in fault' <=> "lost" \in fault
    BY <1>6
  <2>5. Ordered(s)
    BY DEF PairOK
  <2> QED BY <1>7, <1>12, <1>14, <2>1, <2>2, <2>3, <2>4, <2>5 DEF Ordered
<1>17. NoteOK(s)'
  <2>1. "notify" \notin fault'
    BY <1>3, <1>6
  <2>2. ~Has(out'["server"], "notify")
    BY <1>3, <1>5 DEF ServerStill
  <2>3. s.server => recv_count = 0
    BY <1>4, <1>13 DEF PairOK, Counted
  <2> QED BY <1>12, <1>14, <2>1, <2>2, <2>3 DEF NoteOK
<1> QED BY <1>8, <1>9, <1>10, <1>11, <1>15, <1>16, <1>17 DEF PairOK

(* Appending to the queue appends to the data in it. *)
LEMMA SentInFlight ==
    ASSUME NEW M, flight \in Seq(M \cup {Notification}), NEW m \in M, m # Notification,
           flight' = Append(flight, m)
    PROVE  /\ flight' \in Seq(M \cup {Notification}) /\ Len(flight') = Len(flight) + 1
           /\ \A k \in 1..Len(flight) : flight'[k] = flight[k]
           /\ flight'[Len(flight) + 1] = m
           /\ Noted' <=> Noted
           /\ Len(InFlight) \in Nat /\ Len(InFlight') = Len(InFlight) + 1
           /\ \A k \in 1..Len(InFlight) : InFlight'[k] = InFlight[k]
           /\ InFlight'[Len(InFlight) + 1] = m
<1> DEFINE N == M \cup {Notification}
<1>1. flight' \in Seq(N) /\ Len(flight') = Len(flight) + 1 /\ Len(flight) \in Nat
  OBVIOUS
<1>2. (\A k \in 1..Len(flight) : flight'[k] = flight[k]) /\ flight'[Len(flight) + 1] = m
  OBVIOUS
<1>3. flight' # <<>> /\ Head(flight') = flight'[1]
  BY <1>1
<1>4. CASE flight = <<>>
  <2>1. flight' = <<m>> /\ Len(<<>>) = 0 /\ Len(<<m>>) = 1 /\ <<m>>[1] = m /\ Head(<<m>>) = m
    BY <1>4
  <2>2. ~Noted /\ ~Noted'
    BY <1>4, <2>1 DEF Noted
  <2> QED BY <1>1, <1>2, <1>4, <2>1, <2>2 DEF InFlight
<1>5. CASE flight # <<>>
  <2>1. Len(flight) >= 1 /\ Head(flight) = flight[1] /\ Head(flight') = Head(flight)
    BY <1>1, <1>2, <1>3, <1>5
  <2>2. Noted' <=> Noted
    BY <1>3, <1>5, <2>1 DEF Noted
  <2>3. CASE Noted
    <3>1. InFlight = Tail(flight) /\ InFlight' = Tail(flight')
      BY <2>2, <2>3 DEF InFlight
    <3>2. /\ Len(Tail(flight)) = Len(flight) - 1 /\ Len(Tail(flight')) = Len(flight') - 1
          /\ \A k \in 1..Len(Tail(flight)) : Tail(flight)[k] = flight[k + 1]
          /\ \A k \in 1..Len(Tail(flight')) : Tail(flight')[k] = flight'[k + 1]
      BY <1>1, <1>3, <1>5
    <3> HIDE DEF N
    <3>3. Len(InFlight) \in Nat /\ Len(InFlight') = Len(InFlight) + 1
      BY <1>1, <2>1, <3>1, <3>2
    <3>4. \A k \in 1..Len(InFlight) : InFlight'[k] = InFlight[k]
      <4>1. \A k \in 1..Len(InFlight) : k \in 1..Len(InFlight') /\ k + 1 \in 1..Len(flight)
        BY <1>1, <2>1, <3>1, <3>2, <3>3
      <4> QED BY <1>2, <3>1, <3>2, <4>1
    <3>5. InFlight'[Len(InFlight) + 1] = m
      <4>1. /\ Len(InFlight) + 1 \in 1..Len(InFlight')
            /\ (Len(InFlight) + 1) + 1 = Len(flight) + 1
        BY <1>1, <2>1, <3>1, <3>2, <3>3
      <4>2. InFlight'[Len(InFlight) + 1] = flight'[(Len(InFlight) + 1) + 1]
        BY <3>1, <3>2, <4>1
      <4> QED BY <1>2, <4>1, <4>2
    <3> QED BY <1>1, <1>2, <2>2, <3>3, <3>4, <3>5
  <2>4. CASE ~Noted
    <3>1. InFlight = flight /\ InFlight' = flight'
      BY <2>2, <2>4 DEF InFlight
    <3> QED BY <1>1, <1>2, <2>2, <3>1
  <2> QED BY <2>3, <2>4
<1> QED BY <1>4, <1>5

(* The client sends the next message. *)
LEMMA Sends ==
    ASSUME NEW s, WellFormed(s), OutputOK, PairOK(s), client = "sending",
           sent_count < Len(s.messages), UNCHANGED <<server, client>>,
           NEW m, m = s.messages[sent_count + 1], Emit("client", <<Event("sent", m)>>),
           flight' = IF s.server THEN Append(flight, m) ELSE flight,
           fault' = IF "send" \in s.expect_failure THEN fault \cup {"accepted"} ELSE fault
    PROVE  PairOK(s)'
<1> DEFINE x == Event("sent", m)
<1>1. x.event = "sent" /\ Emit("client", <<x>>)
  BY DEF Event
<1> HIDE DEF x
<1>2. /\ ServerStill
      /\ ToSet(out'["client"]) = ToSet(out["client"]) \cup {x}
      /\ \A e : Has(out'["client"], e) <=> Has(out["client"], e) \/ x.event = e
      /\ matching_events(out'["client"], "sent")
           = Cat(matching_events(out["client"], "sent"), <<x>>)
  BY <1>1, EmitOne DEF Other, ServerStill
<1>3. Len(s.messages) \in Nat \ {0} /\ sent_count \in Nat /\ recv_count \in Nat
  BY Formed, Counts
<1>4. sent_count' = sent_count + 1
  <2>1. PICK T : out["client"] \in Seq(T)
    BY DEF OutputOK, IsSeq
  <2>2. matching_events(out["client"], "sent") \in Seq(T)
    BY <2>1, MatchingMembers
  <2> DEFINE q == matching_events(out["client"], "sent")
  <2>3. q \in Seq(T \cup {x}) /\ <<x>> \in Seq(T \cup {x}) /\ Len(<<x>>) = 1
    BY <2>2
  <2> HIDE DEF q
  <2>4. Len(q \o <<x>>) = Len(q) + 1
    BY <2>3
  <2> QED BY <1>2, <2>4 DEF q, Cat, sent_count
<1>5. \A f : f # "accepted" => (f \in fault' <=> f \in fault)
  OBVIOUS
<1>6. fault \subseteq fault' /\ (fault' = {} => fault = {})
  OBVIOUS
<1>7. recv_count' = recv_count /\ Received' = Received /\ out'["server"] = out["server"]
  BY <1>2 DEF ServerStill, recv_count, Received
<1>8. ~Has(out["client"], "error") /\ ~Has(out["client"], "expected_failure")
  BY DEF PairOK, ClientSide
<1>9. ~Has(out'["client"], "error") /\ ~Has(out'["client"], "expected_failure")
  BY <1>1, <1>2, <1>8
<1>10. ClientSide(s)'
  <2>1. \A y \in ToSet(out'["client"]) : y.event # "expected_failure"
    BY <1>9 DEF Has
  <2>2. "send" \in s.expect_failure => "accepted" \in fault'
    OBVIOUS
  <2>3. s.expect_failure # {"connect"}
    BY DEF PairOK, ClientSide
  <2>4. sent_count' <= Len(s.messages)
    BY <1>3, <1>4
  <2> QED BY <1>9, <2>1, <2>2, <2>3, <2>4 DEF ClientSide
<1>11. PeersListed(s)'
  <2>1. PeersListed(s)
    BY DEF PairOK
  <2> QED BY <1>1, <1>2, <1>5, <1>6, <2>1 DEF PeersListed
<1>12. ServerSide(s)'
  BY <1>2, <1>5, <1>6, ServerSideKept DEF PairOK
<1>13. Traces(s)'
  <2>1. Traces(s)
    BY DEF PairOK
  <2>2. fault \cap {"connect", "send"} = {}
    BY <1>8, <2>1 DEF Traces
  <2>3. fault' \cap {"connect", "send"} = {}
    BY <1>5, <2>2
  <2>4. "accepted" \in fault' => "send" \in s.expect_failure /\ sent_count' = Len(s.messages)
    <3>1. CASE "send" \in s.expect_failure
      <4>1. Len(s.messages) = 1
        BY <3>1, Formed
      <4> QED BY <1>3, <1>4, <3>1, <4>1
    <3>2. CASE "send" \notin s.expect_failure
      BY <1>8, <2>1, <3>2 DEF Traces
    <3> QED BY <3>1, <3>2
  <2>5. /\ "setup" \in fault' => "setup" \in fault
        /\ "recv" \in fault' => "recv" \in fault
    BY <1>5
  <2>6. Has(out'["server"], "error") => fault' # {}
    BY <1>6, <1>7, <2>1 DEF Traces
  <2> QED BY <1>7, <1>8, <1>9, <2>1, <2>3, <2>4, <2>5, <2>6 DEF Traces
<1>14. m \in ToSet(s.messages) /\ m # Notification
  <2>1. s.messages \in Seq(ToSet(s.messages)) /\ sent_count + 1 \in 1..Len(s.messages)
    BY <1>3 DEF WellFormed
  <2>2. m \in ToSet(s.messages)
    BY <2>1
  <2> QED BY <2>2 DEF WellFormed
<1>15. flight \in Seq(ToSet(s.messages) \cup {Notification})
  BY DEF PairOK, Counted
<1> DEFINE Grown == /\ flight' \in Seq(ToSet(s.messages) \cup {Notification})
                    /\ Len(flight') = Len(flight) + 1
                    /\ \A k \in 1..Len(flight) : flight'[k] = flight[k]
                    /\ flight'[Len(flight) + 1] = m
                    /\ Noted' <=> Noted
                    /\ Len(InFlight) \in Nat /\ Len(InFlight') = Len(InFlight) + 1
                    /\ \A k \in 1..Len(InFlight) : InFlight'[k] = InFlight[k]
                    /\ InFlight'[Len(InFlight) + 1] = m
<1>16. s.server => Grown
  <2>1. ASSUME s.server PROVE Grown
    <3> DEFINE M == ToSet(s.messages)
    <3>1. flight \in Seq(M \cup {Notification}) /\ m \in M /\ m # Notification
          /\ flight' = Append(flight, m)
      BY <1>14, <1>15, <2>1
    <3> HIDE DEF M
    <3>2. /\ flight' \in Seq(M \cup {Notification}) /\ Len(flight') = Len(flight) + 1
          /\ \A k \in 1..Len(flight) : flight'[k] = flight[k]
          /\ flight'[Len(flight) + 1] = m
          /\ Noted' <=> Noted
          /\ Len(InFlight) \in Nat /\ Len(InFlight') = Len(InFlight) + 1
          /\ \A k \in 1..Len(InFlight) : InFlight'[k] = InFlight[k]
          /\ InFlight'[Len(InFlight) + 1] = m
      BY <3>1, SentInFlight
    <3> QED BY <3>2 DEF M
  <2> QED BY <2>1
<1>17. Counted(s)'
  <2>1. Counted(s)
    BY DEF PairOK
  <2>2. CASE ~s.server
    BY <1>15, <2>1, <2>2 DEF Counted
  <2>3. CASE s.server
    <3>1. Grown
      BY <1>16, <2>3
    <3>2. Len(flight) \in Nat
      BY <1>15
    <3>3. \A k \in 2..Len(flight') : flight'[k] # Notification
      <4> TAKE k \in 2..Len(flight')
      <4>1. k \in 2..Len(flight) \/ k = Len(flight) + 1
        BY <3>1, <3>2
      <4>2. k \in 2..Len(flight) => k \in 1..Len(flight)
        BY <3>2
      <4> QED BY <1>14, <2>1, <3>1, <4>1, <4>2 DEF Counted
    <3>4. "lost" \in fault' <=> "lost" \in fault
      BY <1>5
    <3>5. IF "lost" \in fault THEN recv_count + Len(InFlight') < sent_count'
                              ELSE recv_count + Len(InFlight') = sent_count'
      <4>1. Len(InFlight) \in Nat /\ Len(InFlight') = Len(InFlight) + 1
        BY <3>1
      <4>2. IF "lost" \in fault THEN recv_count + Len(InFlight) < sent_count
                                ELSE recv_count + Len(InFlight) = sent_count
        BY <2>1, <2>3 DEF Counted
      <4>3. PICK a, b, c, d : /\ a = recv_count /\ b = sent_count /\ c = Len(InFlight)
                              /\ d = Len(InFlight')
        OBVIOUS
      <4>4. a \in Nat /\ b \in Nat /\ c \in Nat /\ d = c + 1 /\ sent_count' = b + 1
        BY <1>3, <1>4, <4>1, <4>3
      <4>5. CASE "lost" \in fault
        <5>1. a + c < b
          BY <4>2, <4>3, <4>5
        <5>2. a + d < b + 1
          BY <4>4, <5>1
        <5> QED BY <4>3, <4>4, <4>5, <5>2
      <4>6. CASE "lost" \notin fault
        <5>1. a + c = b
          BY <4>2, <4>3, <4>6
        <5>2. a + d = b + 1
          BY <4>4, <5>1
        <5> QED BY <4>3, <4>4, <4>6, <5>2
      <4> QED BY <4>5, <4>6
    <3> QED BY <1>7, <2>3, <3>1, <3>3, <3>4, <3>5 DEF Counted
  <2> QED BY <2>2, <2>3
<1>18. Ordered(s)'
  <2>1. Ordered(s)
    BY DEF PairOK
  <2>2. InOrder(s)' <=> InOrder(s)
    BY <1>7 DEF InOrder
  <2>3. fault' \cap PayloadFaults = fault \cap PayloadFaults
    BY <1>5 DEF PayloadFaults
  <2>4. s.server /\ "lost" \notin fault /\ InOrder(s) =>
          \A j \in 1..Len(InFlight') : InFlight'[j] = s.messages[recv_count + j]
    <3> SUFFICES ASSUME s.server, "lost" \notin fault, InOrder(s), NEW j \in 1..Len(InFlight')
                 PROVE  InFlight'[j] = s.messages[recv_count + j]
      OBVIOUS
    <3>1. Grown
      BY <1>16
    <3>2. recv_count + Len(InFlight) = sent_count
      BY DEF PairOK, Counted
    <3>3. j \in 1..Len(InFlight) \/ j = Len(InFlight) + 1
      BY <3>1
    <3>4. recv_count + (Len(InFlight) + 1) = sent_count + 1
      BY <1>3, <3>1, <3>2
    <3> QED BY <2>1, <3>1, <3>3, <3>4 DEF Ordered
  <2>5. /\ "meta" \in fault' <=> "meta" \in fault
        /\ "lost" \in fault' <=> "lost" \in fault
    BY <1>5
  <2> QED BY <1>6, <1>7, <2>1, <2>2, <2>3, <2>4, <2>5 DEF Ordered
<1>19. NoteOK(s)'
  <2>1. "notify" \in fault' <=> "notify" \in fault
    BY <1>5
  <2>2. Noted' <=> Noted
    BY <1>16 DEF Noted
  <2>3. NoteOK(s)
    BY DEF PairOK
  <2> QED BY <1>7, <2>1, <2>2, <2>3 DEF NoteOK
<1> QED BY <1>10, <1>11, <1>12, <1>13, <1>17, <1>18, <1>19 DEF PairOK

(* Every step of the client. *)
LEMMA ClientKeepsPair ==
    ASSUME NEW s, WellFormed(s), OutputOK, PairOK(s),
           \/ ClientConnect(s) \/ ClientOptionFails \/ ClientCrash
           \/ ClientSend(s) \/ ClientComplete(s)
    PROVE  PairOK(s)'
<1>1. CASE ClientConnect(s)
  <2>1. client = "connecting"
    BY <1>1 DEF ClientConnect
  <2>2. CASE ClientStageFails(s, "connect")
    BY <2>1, <2>2, StageFails
  <2>3. CASE s.expect_failure # {"connect"} /\ ClientConnected(s)
    BY <2>1, <2>3, Connects
  <2>4. CASE ClientUnrefused(s)
    BY <2>1, <2>4, ErrorExit DEF ClientUnrefused, ExitFaults
  <2> QED BY <1>1, <2>2, <2>3, <2>4 DEF ClientConnect
<1>2. CASE ClientOptionFails \/ ClientCrash
  BY <1>2, ClientBreaks
<1>3. CASE ClientSend(s)
  <2>1. client = "sending" /\ sent_count < Len(s.messages)
    BY <1>3 DEF ClientSend
  <2>2. CASE ClientStageFails(s, "send")
    BY <2>1, <2>2, StageFails
  <2>3. CASE ~ClientStageFails(s, "send")
    BY <1>3, <2>1, <2>3, Sends DEF ClientSend
  <2> QED BY <2>2, <2>3
<1>4. CASE ClientComplete(s)
  BY <1>4, ClientIsDone
<1> QED BY <1>1, <1>2, <1>3, <1>4

-----------------------------------------------------------------------------
(* The steps of the server and of the stack *)

\* what a step of the server, or of the stack, leaves alone
ClientStill == UNCHANGED client /\ out'["client"] = out["client"]

(* Such a step makes no difference to what is said of the client's output. *)
LEMMA ClientSideKept ==
    ASSUME NEW s, ClientSide(s), PeersListed(s), ClientStill, fault \subseteq fault',
           "peer_addrs" \in fault' => "peer_addrs" \in fault,
           client \in {"none", "connecting"} /\ "notify" \in fault' => "notify" \in fault
    PROVE  ClientSide(s)' /\ PeersListed(s)' /\ sent_count' = sent_count
<1>1. sent_count' = sent_count /\ client' = client
  BY DEF ClientStill, sent_count
<1>2. \A e : Has(out'["client"], e) <=> Has(out["client"], e)
  BY DEF ClientStill
<1>3. out'["client"] = out["client"] /\ ToSet(out'["client"]) = ToSet(out["client"])
  BY DEF ClientStill
<1>4. fault' = {} => fault = {}
  OBVIOUS
<1>5. "accepted" \in fault => "accepted" \in fault'
  OBVIOUS
<1>6. ClientSide(s)'
  BY <1>1, <1>2, <1>3, <1>4, <1>5 DEF ClientSide
<1>7. PeersListed(s)'
  <2>1. "peer_addrs" \in fault' <=> "peer_addrs" \in fault
    OBVIOUS
  <2> QED BY <1>1, <1>2, <1>3, <1>4, <2>1 DEF PeersListed
<1> QED BY <1>1, <1>6, <1>7

\* the faults a step of the server may add when it is ready or exits
ServerFaults == {"setup", "recv", "crash", "local_addrs"}

(* A step of the server that reads nothing. *)
LEMMA NothingRead ==
    ASSUME NEW s, PairOK(s), ClientStill, UNCHANGED flight,
           matching_events(out'["server"], "recv") = matching_events(out["server"], "recv"),
           Has(out'["server"], "notify") <=> Has(out["server"], "notify"),
           fault \subseteq fault', fault' \subseteq fault \cup ServerFaults
    PROVE  /\ Counted(s)' /\ Ordered(s)' /\ NoteOK(s)' /\ ClientSide(s)' /\ PeersListed(s)'
           /\ recv_count' = recv_count /\ sent_count' = sent_count
<1>1. recv_count' = recv_count /\ Received' = Received
  BY DEF recv_count, Received
<1>2. InFlight' = InFlight /\ Noted' = Noted
  BY DEF InFlight, Noted
<1>3. \A f : f \notin ServerFaults => (f \in fault' <=> f \in fault)
  OBVIOUS
<1>4. /\ "lost" \in fault' <=> "lost" \in fault
      /\ "meta" \in fault' <=> "meta" \in fault
      /\ "notify" \in fault' <=> "notify" \in fault
      /\ "peer_addrs" \in fault' <=> "peer_addrs" \in fault
      /\ fault' \cap PayloadFaults = fault \cap PayloadFaults
      /\ fault' = {} => fault = {}
  BY <1>3 DEF ServerFaults, PayloadFaults
<1>5. ClientSide(s)' /\ PeersListed(s)' /\ sent_count' = sent_count
  BY <1>4, ClientSideKept DEF PairOK
<1>6. client' = client
  BY DEF ClientStill
<1>7. Counted(s)'
  BY <1>1, <1>2, <1>4, <1>5, <1>6 DEF PairOK, Counted
<1>8. Ordered(s)'
  <2>1. InOrder(s)' <=> InOrder(s)
    BY <1>1 DEF InOrder
  <2> QED BY <1>1, <1>2, <1>4, <2>1 DEF PairOK, Ordered
<1>9. NoteOK(s)'
  BY <1>1, <1>2, <1>4, <1>5, <1>6 DEF PairOK, NoteOK
<1> QED BY <1>1, <1>5, <1>7, <1>8, <1>9

(* The server is ready. *)
LEMMA ReadyKeepsPair ==
    ASSUME NEW s, OutputOK, PairOK(s), ServerReady
    PROVE  PairOK(s)'
<1>1. PICK addrs \in {"all", "some"} :
        /\ Emit("server", <<Event("ready", addrs)>>)
        /\ fault' = IF addrs = "all" THEN fault ELSE fault \cup {"local_addrs"}
  BY DEF ServerReady
<1>2. server = "setup" /\ server' = "reading" /\ UNCHANGED <<client, flight>>
  BY DEF ServerReady
<1>3. out["server"] = <<>> /\ "local_addrs" \notin fault
  BY <1>2 DEF PairOK, ServerSide
<1> DEFINE x == Event("ready", addrs)
<1>4. x.event = "ready" /\ x.arg = addrs /\ Emit("server", <<x>>)
  BY <1>1 DEF Event
<1> HIDE DEF x
<1>5. /\ out'["client"] = out["client"]
      /\ ToSet(out'["server"]) = {x}
      /\ \A e : Has(out'["server"], e) <=> x.event = e
      /\ matching_events(out'["server"], "recv") = matching_events(out["server"], "recv")
  BY <1>3, <1>4, EmitOne, FewEvents DEF Other
<1>6. fault \subseteq fault' /\ fault' \subseteq fault \cup ServerFaults
  BY <1>1 DEF ServerFaults
<1>7. ~Has(out["server"], "notify")
  BY <1>3, FewEvents
<1>8. /\ Counted(s)' /\ Ordered(s)' /\ NoteOK(s)' /\ ClientSide(s)' /\ PeersListed(s)'
      /\ recv_count' = recv_count /\ sent_count' = sent_count
  BY <1>2, <1>4, <1>5, <1>6, <1>7, NothingRead DEF ClientStill
<1>9. ServerSide(s)'
  <2>1. x.arg = "all" <=> "local_addrs" \notin fault'
    BY <1>1, <1>3, <1>4
  <2> QED BY <1>2, <1>4, <1>5, <1>8, <2>1 DEF PairOK, ServerSide
<1>10. Traces(s)'
  <2>1. \A f : f # "local_addrs" => (f \in fault' <=> f \in fault)
    BY <1>1
  <2>2. fault' \cap {"connect", "send"} = fault \cap {"connect", "send"}
    BY <2>1
  <2>3. fault' = {} => fault = {}
    BY <1>6
  <2>4. Traces(s)
    BY DEF PairOK
  <2>5. /\ "setup" \in fault' <=> "setup" \in fault
        /\ "recv" \in fault' <=> "recv" \in fault
        /\ "accepted" \in fault' <=> "accepted" \in fault
    BY <2>1
  <2>6. ~Has(out'["server"], "error")
    BY <1>4, <1>5
  <2> QED BY <1>2, <1>5, <1>8, <2>2, <2>3, <2>4, <2>5, <2>6 DEF Traces
<1> QED BY <1>8, <1>9, <1>10 DEF PairOK

(* The server exits, having said why, having read all, or without a word. *)
LEMMA ServerExitKeepsPair ==
    ASSUME NEW s, OutputOK, PairOK(s), server \in {"setup", "reading"},
           NEW events, events = <<>> \/ \E x : events = <<x>> /\ x.event \in {"error", "complete"},
           ServerExit(events), fault \subseteq fault',
           fault' \subseteq fault \cup {"setup", "recv", "crash"},
           fault' = {} => /\ server = "reading" /\ recv_count = s.read_messages
                          /\ ~Has(events, "error"),
           "setup" \in fault' => "setup" \in fault \/ server = "setup",
           "recv" \in fault' => recv_count < s.read_messages
    PROVE  PairOK(s)'
<1>1. Emit("server", events) /\ server' = "exited" /\ UNCHANGED <<client, flight>>
  BY DEF ServerExit
<1>2. /\ out'["client"] = out["client"]
      /\ \A x \in ToSet(out'["server"]) : x.event = "ready" => x \in ToSet(out["server"])
      /\ \A e : Has(out'["server"], e) <=> Has(out["server"], e) \/ Has(events, e)
      /\ \A e : Has(events, e) => e \in {"error", "complete"}
      /\ matching_events(out'["server"], "recv") = matching_events(out["server"], "recv")
  <2>1. CASE events = <<>>
    <3>1. out'["server"] = out["server"] /\ out'["client"] = out["client"]
      BY <1>1, <2>1, EmitNothing
    <3> QED BY <2>1, <3>1, FewEvents
  <2>2. ASSUME NEW x, events = <<x>>, x.event \in {"error", "complete"}
        PROVE  /\ out'["client"] = out["client"]
               /\ \A y \in ToSet(out'["server"]) : y.event = "ready" => y \in ToSet(out["server"])
               /\ \A e : Has(out'["server"], e) <=> Has(out["server"], e) \/ Has(events, e)
               /\ \A e : Has(events, e) => e \in {"error", "complete"}
               /\ matching_events(out'["server"], "recv") = matching_events(out["server"], "recv")
    <3>1. /\ out'["client"] = out["client"]
          /\ ToSet(out'["server"]) = ToSet(out["server"]) \cup {x}
          /\ \A e : Has(out'["server"], e) <=> Has(out["server"], e) \/ x.event = e
          /\ \A e : x.event # e =>
                matching_events(out'["server"], e) = matching_events(out["server"], e)
      BY <1>1, <2>2, EmitOne DEF Other
    <3> QED BY <2>2, <3>1, FewEvents
  <2> QED BY <2>1, <2>2
<1>3. /\ Counted(s)' /\ Ordered(s)' /\ NoteOK(s)' /\ ClientSide(s)' /\ PeersListed(s)'
      /\ recv_count' = recv_count /\ sent_count' = sent_count
  <2>1. fault' \subseteq fault \cup ServerFaults
    BY DEF ServerFaults
  <2>2. Has(out'["server"], "notify") <=> Has(out["server"], "notify")
    BY <1>2
  <2> QED BY <1>1, <1>2, <2>1, <2>2, NothingRead DEF ClientStill
<1>4. ServerSide(s)'
  <2>1. ServerSide(s)
    BY DEF PairOK
  <2>2. "local_addrs" \in fault' <=> "local_addrs" \in fault
    OBVIOUS
  <2> QED BY <1>1, <1>2, <1>3, <2>1, <2>2 DEF ServerSide
<1>5. Traces(s)'
  <2>1. Traces(s) /\ ServerSide(s)
    BY DEF PairOK
  <2>2. fault' \cap {"connect", "send"} = fault \cap {"connect", "send"}
    OBVIOUS
  <2>3. "accepted" \in fault' <=> "accepted" \in fault
    OBVIOUS
  <2>4. "setup" \in fault' =>
            Has(out'["client"], "error") \/ (server' = "exited" /\ ~Has(out'["server"], "ready"))
    <3>1. server = "setup" => ~Has(out["server"], "ready")
      BY <2>1, FewEvents DEF ServerSide
    <3> QED BY <1>1, <1>2, <2>1, <3>1 DEF Traces
  <2>5. Has(out'["server"], "error") \/ Has(out'["client"], "error") => fault' # {}
    BY <1>2, <2>1 DEF Traces
  <2>6. client' = client
    BY <1>1
  <2> QED BY <1>1, <1>2, <1>3, <2>1, <2>2, <2>3, <2>4, <2>5, <2>6 DEF Traces
<1> QED BY <1>3, <1>4, <1>5 DEF PairOK

(* The ways in which a server ends. *)
LEMMA ServerEndKeepsPair ==
    ASSUME NEW s, WellFormed(s), OutputOK, PairOK(s),
           ServerError(s) \/ ServerCrash \/ ServerComplete(s)
    PROVE  PairOK(s)'
<1>1. "recv" \in fault => server = "exited"
  BY DEF PairOK, Traces
<1>2. CASE ServerError(s)
  <2>1. PICK why : ServerExit(<<Event("error", why)>>)
    BY <1>2 DEF ServerError
  <2> DEFINE x == Event("error", why)
  <2>2. ServerExit(<<x>>) /\ x.event = "error"
    BY <2>1 DEF Event
  <2> HIDE DEF x
  <2>3. /\ server \in {"setup", "reading"}
        /\ server = "reading" => recv_count < s.read_messages
        /\ fault' = fault \cup {IF server = "setup" THEN "setup" ELSE "recv"}
    BY <1>2 DEF ServerError
  <2>4. \E y : <<x>> = <<y>> /\ y.event \in {"error", "complete"}
    BY <2>2
  <2> QED BY <1>1, <2>2, <2>3, <2>4, ServerExitKeepsPair
<1>3. CASE ServerCrash
  <2>1. /\ server \in {"setup", "reading"} /\ ServerExit(<<>>)
        /\ fault' = fault \cup {"crash"}
    BY <1>3 DEF ServerCrash
  <2> QED BY <1>1, <2>1, ServerExitKeepsPair
<1>4. CASE ServerComplete(s)
  <2> DEFINE x == Event("complete", recv_count)
  <2>1. ServerExit(<<x>>) /\ x.event = "complete"
    BY <1>4 DEF ServerComplete, Event
  <2> HIDE DEF x
  <2>2. server = "reading" /\ recv_count = s.read_messages /\ UNCHANGED fault
    BY <1>4 DEF ServerComplete
  <2>3. (\E y : <<x>> = <<y>> /\ y.event \in {"error", "complete"}) /\ ~Has(<<x>>, "error")
    BY <2>1, FewEvents
  <2> QED BY <1>1, <2>1, <2>2, <2>3, ServerExitKeepsPair
<1> QED BY <1>2, <1>3, <1>4

(* The head of the queue goes: what is left is data. *)
LEMMA HeadGone ==
    ASSUME NEW M, flight \in Seq(M \cup {Notification}), flight # <<>>,
           \A k \in 2..Len(flight) : flight[k] # Notification, flight' = Tail(flight)
    PROVE  /\ flight' \in Seq(M \cup {Notification}) /\ Len(flight') \in Nat
           /\ Len(flight') = Len(flight) - 1
           /\ \A k \in 2..Len(flight') : flight'[k] # Notification
           /\ ~Noted' /\ InFlight' = flight' /\ InFlight = IF Noted THEN flight' ELSE flight
<1>1. /\ flight' \in Seq(M \cup {Notification}) /\ Len(flight') \in Nat
      /\ Len(flight') = Len(flight) - 1
      /\ \A k \in 1..Len(flight') : flight'[k] = flight[k + 1]
  OBVIOUS
<1>2. Len(flight) \in Nat
  OBVIOUS
<1>3. \A k \in 1..Len(flight') : flight'[k] # Notification
  <2>1. \A k \in 1..Len(flight') : k + 1 \in 2..Len(flight)
    BY <1>1, <1>2
  <2> QED BY <1>1, <2>1
<1>4. flight' # <<>> => Head(flight') = flight'[1] /\ 1 \in 1..Len(flight')
  BY <1>1
<1>5. ~Noted'
  BY <1>3, <1>4 DEF Noted
<1>6. \A k \in 2..Len(flight') : k \in 1..Len(flight')
  BY <1>1
<1> QED BY <1>1, <1>3, <1>5, <1>6 DEF InFlight

(* The server reads the notification. *)
LEMMA NotifyKeepsPair ==
    ASSUME NEW s, WellFormed(s), OutputOK, PairOK(s), ServerNotify(s)
    PROVE  PairOK(s)'
<1> DEFINE x == Event("notify", "association")
<1>1. /\ server = "reading" /\ Noted /\ flight # <<>> /\ flight' = Tail(flight)
      /\ Emit("server", <<x>>) /\ UNCHANGED <<server, client, fault>>
  BY DEF ServerNotify, Noted
<1>2. x.event = "notify"
  BY DEF Event
<1> HIDE DEF x
<1>3. /\ out'["client"] = out["client"]
      /\ ToSet(out'["server"]) = ToSet(out["server"]) \cup {x}
      /\ \A e : Has(out'["server"], e) <=> Has(out["server"], e) \/ x.event = e
      /\ matching_events(out'["server"], "recv") = matching_events(out["server"], "recv")
  BY <1>1, <1>2, EmitOne DEF Other
<1>4. recv_count' = recv_count /\ Received' = Received
  BY <1>3 DEF recv_count, Received
<1>5. ClientSide(s)' /\ PeersListed(s)' /\ sent_count' = sent_count
  BY <1>1, <1>3, ClientSideKept DEF PairOK, ClientStill
<1>6. ServerSide(s)'
  BY <1>1, <1>2, <1>3, <1>4 DEF PairOK, ServerSide
<1>7. Traces(s)'
  BY <1>1, <1>2, <1>3, <1>4, <1>5 DEF PairOK, Traces
<1>8. /\ flight' \in Seq(ToSet(s.messages) \cup {Notification})
      /\ \A k \in 2..Len(flight') : flight'[k] # Notification
      /\ ~Noted' /\ InFlight' = flight' /\ InFlight = flight'
  <2> DEFINE M == ToSet(s.messages)
  <2>1. flight \in Seq(M \cup {Notification}) /\ \A k \in 2..Len(flight) : flight[k] # Notification
    BY DEF PairOK, Counted
  <2> HIDE DEF M
  <2>2. /\ flight' \in Seq(M \cup {Notification})
        /\ \A k \in 2..Len(flight') : flight'[k] # Notification
        /\ ~Noted' /\ InFlight' = flight' /\ InFlight = IF Noted THEN flight' ELSE flight
    BY <1>1, <2>1, HeadGone
  <2> QED BY <1>1, <2>2 DEF M
<1>9. client \notin {"none", "connecting"} /\ s.server
  BY <1>1 DEF PairOK, Counted
<1>10. Counted(s)'
  BY <1>1, <1>4, <1>5, <1>8, <1>9 DEF PairOK, Counted
<1>11. Ordered(s)'
  <2>1. InOrder(s)' <=> InOrder(s)
    BY <1>4 DEF InOrder
  <2> QED BY <1>1, <1>4, <1>8, <2>1 DEF PairOK, Ordered
<1>12. NoteOK(s)'
  BY <1>1, <1>2, <1>3, <1>8, <1>9 DEF PairOK, NoteOK
<1> QED BY <1>5, <1>6, <1>7, <1>10, <1>11, <1>12 DEF PairOK

(* The stack loses the head of the queue. *)
LEMMA LossKeepsPair ==
    ASSUME NEW s, WellFormed(s), OutputOK, PairOK(s), StackLoses
    PROVE  PairOK(s)'
<1>1. /\ flight # <<>> /\ flight' = Tail(flight) /\ UNCHANGED <<server, client, out>>
      /\ fault' = fault \cup {IF Noted THEN "notify" ELSE "lost"}
  BY DEF StackLoses, Noted
<1>2. client \notin {"none", "connecting"} /\ s.server
  BY <1>1 DEF PairOK, Counted
<1>3. recv_count' = recv_count /\ Received' = Received /\ recv_count \in Nat
  BY <1>1, Counts DEF recv_count, Received
<1>4. /\ ClientStill /\ ServerStill /\ fault \subseteq fault' /\ fault' # {}
      /\ \A f : f \notin {"notify", "lost"} => (f \in fault' <=> f \in fault)
  BY <1>1 DEF ClientStill, ServerStill
<1>5. ClientSide(s)' /\ PeersListed(s)' /\ sent_count' = sent_count
  BY <1>2, <1>4, ClientSideKept DEF PairOK
<1>6. ServerSide(s)'
  BY <1>4, ServerSideKept DEF PairOK
<1>7. Traces(s)'
  <2>1. Traces(s)
    BY DEF PairOK
  <2>2. /\ fault' \cap {"connect", "send"} = fault \cap {"connect", "send"}
        /\ "setup" \in fault' <=> "setup" \in fault
        /\ "recv" \in fault' <=> "recv" \in fault
        /\ "accepted" \in fault' <=> "accepted" \in fault
    BY <1>4
  <2>3. \A e : (Has(out["client"], e))' <=> Has(out["client"], e)
    BY <1>1
  <2>4. \A e : (Has(out["server"], e))' <=> Has(out["server"], e)
    BY <1>1
  <2> QED BY <1>1, <1>3, <1>4, <1>5, <2>1, <2>2, <2>3, <2>4 DEF Traces
<1>8. /\ flight' \in Seq(ToSet(s.messages) \cup {Notification})
      /\ \A k \in 2..Len(flight') : flight'[k] # Notification
      /\ Len(flight') \in Nat /\ Len(flight') = Len(flight) - 1
      /\ ~Noted' /\ InFlight' = flight' /\ InFlight = IF Noted THEN flight' ELSE flight
  <2> DEFINE M == ToSet(s.messages)
  <2>1. flight \in Seq(M \cup {Notification}) /\ \A k \in 2..Len(flight) : flight[k] # Notification
    BY DEF PairOK, Counted
  <2> HIDE DEF M
  <2>2. /\ flight' \in Seq(M \cup {Notification})
        /\ \A k \in 2..Len(flight') : flight'[k] # Notification
        /\ Len(flight') \in Nat /\ Len(flight') = Len(flight) - 1
        /\ ~Noted' /\ InFlight' = flight' /\ InFlight = IF Noted THEN flight' ELSE flight
    BY <1>1, <2>1, HeadGone
  <2> QED BY <2>2 DEF M
<1>9. Len(flight) \in Nat /\ sent_count \in Nat
  BY Counts DEF PairOK, Counted
<1>10. Counted(s)'
  <2>1. IF "lost" \in fault THEN recv_count + Len(InFlight) < sent_count
                           ELSE recv_count + Len(InFlight) = sent_count
    BY <1>2 DEF PairOK, Counted
  <2>2. IF "lost" \in fault' THEN recv_count + Len(InFlight') < sent_count
                            ELSE recv_count + Len(InFlight') = sent_count
    <3>1. CASE Noted
      <4>1. InFlight' = InFlight /\ ("lost" \in fault' <=> "lost" \in fault)
        BY <1>1, <1>8, <3>1
      <4> QED BY <2>1, <4>1
    <3>2. CASE ~Noted
      <4>1. Len(InFlight') = Len(flight) - 1 /\ Len(InFlight) = Len(flight) /\ "lost" \in fault'
        BY <1>1, <1>8, <3>2
      <4> QED BY <1>3, <1>9, <2>1, <4>1
    <3> QED BY <3>1, <3>2
  <2> QED BY <1>1, <1>2, <1>3, <1>5, <1>8, <2>2 DEF Counted
<1>11. Ordered(s)'
  <2>1. InOrder(s)' <=> InOrder(s)
    BY <1>3 DEF InOrder
  <2>2. fault' \cap PayloadFaults = fault \cap PayloadFaults
    BY <1>4 DEF PayloadFaults
  <2>3. /\ "meta" \in fault' => "meta" \in fault
        /\ "lost" \notin fault' => Noted /\ "lost" \notin fault
    BY <1>1
  <2> QED BY <1>3, <1>4, <1>8, <2>1, <2>2, <2>3 DEF PairOK, Ordered
<1>12. NoteOK(s)'
  <2>1. (Has(out["server"], "notify"))' <=> Has(out["server"], "notify")
    BY <1>1
  <2>2. "notify" \in fault' <=> Noted \/ "notify" \in fault
    BY <1>1
  <2> QED BY <1>1, <1>2, <1>3, <1>5, <1>8, <2>1, <2>2 DEF PairOK, NoteOK
<1> QED BY <1>5, <1>6, <1>7, <1>10, <1>11, <1>12 DEF PairOK

(* What RemoveAt leaves. *)
LEMMA Removed ==
    ASSUME NEW S, NEW s \in Seq(S), NEW k \in 1..Len(s)
    PROVE  /\ RemoveAt(s, k) \in Seq(S) /\ Len(RemoveAt(s, k)) = Len(s) - 1
           /\ k = 1 => \A j \in 1..Len(s) - 1 : RemoveAt(s, k)[j] = s[j + 1]
<1> DEFINE n == Len(s)
           front == SubSeq(s, 1, k - 1)
           back == SubSeq(s, k + 1, n)
<1>1. n \in Nat /\ k \in 1..n
  OBVIOUS
<1>2. /\ front \in Seq(S) /\ Len(front) = k - 1
      /\ back \in Seq(S) /\ Len(back) = n - k
      /\ \A j \in 1..n - k : back[j] = s[k + j]
  OBVIOUS
<1>3. RemoveAt(s, k) = front \o back
  BY DEF RemoveAt
<1> HIDE DEF front, back, n
<1>4. front \o back \in Seq(S) /\ Len(front \o back) = n - 1
  <2>1. front \in Seq(S) /\ back \in Seq(S) /\ Len(front) + Len(back) = n - 1
    BY <1>1, <1>2
  <2>2. front \o back \in Seq(S) /\ Len(front \o back) = Len(front) + Len(back)
    BY <2>1
  <2> QED BY <2>1, <2>2
<1>5. ASSUME k = 1
      PROVE  \A j \in 1..n - 1 : (front \o back)[j] = s[j + 1]
  <2>1. Len(front) = 0 /\ Len(back) = n - 1
    BY <1>1, <1>2, <1>5
  <2>2. \A j \in 1..n - 1 : (front \o back)[j] = back[j]
    BY <1>1, <1>2, <2>1
  <2>3. \A j \in 1..n - 1 : back[j] = s[j + 1]
    BY <1>1, <1>2, <1>5
  <2> QED BY <2>2, <2>3
<1> QED BY <1>3, <1>4, <1>5 DEF n

(* What is written of a message. *)
LEMMA RecvWritten ==
    ASSUME NEW s, NEW m, NEW addrs
    PROVE  /\ IsSeq(RecvEvents(s, m, addrs))
           /\ \A e : Has(RecvEvents(s, m, addrs), e) => e \in {"recv", "peer_addrs"}
           /\ matching_events(RecvEvents(s, m, addrs), "recv") = <<Event("recv", m)>>
<1> DEFINE r == Event("recv", m)
           p == Event("peer_addrs", addrs)
           rest == IF PeerAddrsDue(s) /\ addrs # "none" THEN <<p>> ELSE <<>>
<1>1. RecvEvents(s, m, addrs) = Cat(<<r>>, rest)
  BY DEF RecvEvents, Cat
<1>2. r.event = "recv" /\ p.event = "peer_addrs" /\ r.event # p.event
  BY DEF Event
<1>3. rest = <<p>> \/ rest = <<>>
  OBVIOUS
<1> HIDE DEF r, p, rest
<1>4. <<r>> \in Seq({r, p}) /\ rest \in Seq({r, p})
  <2> DEFINE S == {r, p}
  <2>1. r \in S /\ p \in S
    OBVIOUS
  <2> HIDE DEF S
  <2>2. <<r>> \in Seq(S) /\ <<p>> \in Seq(S) /\ <<>> \in Seq(S)
    BY <2>1
  <2> QED BY <1>3, <2>2 DEF S
<1>5. matching_events(Cat(<<r>>, rest), "recv")
        = Cat(matching_events(<<r>>, "recv"), matching_events(rest, "recv"))
  <2> DEFINE S == {r, p}
             one == <<r>>
  <2>1. one \in Seq(S) /\ rest \in Seq(S)
    BY <1>4
  <2> HIDE DEF S, one
  <2>2. matching_events(Cat(one, rest), "recv")
          = Cat(matching_events(one, "recv"), matching_events(rest, "recv"))
    BY <2>1, MatchingConcat
  <2> QED BY <2>2 DEF one
<1>6. matching_events(<<r>>, "recv") = <<r>>
  BY <1>2, MatchingOne
<1>7. matching_events(rest, "recv") = <<>>
  <2>1. CASE rest = <<p>>
    BY <1>2, <2>1, MatchingOne
  <2>2. CASE rest = <<>>
    BY <2>2, MatchingNone
  <2> QED BY <1>3, <2>1, <2>2
<1>8. Cat(<<r>>, <<>>) = <<r>>
  BY DEF Cat
<1>9. Cat(<<r>>, rest) \in Seq({r, p})
  BY <1>4 DEF Cat
<1>10. ToSet(Cat(<<r>>, rest)) \subseteq {r, p}
  <2> DEFINE t == Cat(<<r>>, rest)
  <2>1. t \in Seq({r, p})
    BY <1>9
  <2> HIDE DEF t
  <2>2. ToSet(t) \subseteq {r, p}
    BY <2>1 DEF ToSet
  <2> QED BY <2>2 DEF t
<1>11. \A e : Has(Cat(<<r>>, rest), e) => e \in {"recv", "peer_addrs"}
  BY <1>2, <1>10 DEF Has
<1> QED BY <1>1, <1>5, <1>6, <1>7, <1>8, <1>9, <1>11 DEF IsSeq, r

(* What the server has received, after one more message. *)
LEMMA OneMore ==
    ASSUME OutputOK, NEW m, matching_events(out'["server"], "recv")
               = Cat(matching_events(out["server"], "recv"), <<Event("recv", m)>>)
    PROVE  /\ recv_count \in Nat /\ recv_count' = recv_count + 1
           /\ \A j \in 1..recv_count : Received'[j] = Received[j]
           /\ Received'[recv_count + 1] = m
<1> DEFINE q == matching_events(out["server"], "recv")
           r == Event("recv", m)
           t == matching_events(out'["server"], "recv")
<1>1. r.arg = m
  BY DEF Event
<1>2. PICK T : q \in Seq(T)
  <2>1. PICK T : out["server"] \in Seq(T)
    BY DEF OutputOK, IsSeq
  <2> QED BY <2>1, MatchingMembers
<1>3. t = q \o <<r>>
  BY DEF Cat
<1>4. /\ recv_count = Len(q) /\ recv_count' = Len(t)
      /\ Received = [k \in DOMAIN q |-> q[k].arg] /\ Received' = [k \in DOMAIN t |-> t[k].arg]
  BY DEF recv_count, Received, Args
<1> HIDE DEF q, r, t
<1>5. q \in Seq(T \cup {r}) /\ <<r>> \in Seq(T \cup {r}) /\ Len(<<r>>) = 1 /\ <<r>>[1] = r
  BY <1>2
<1>6. /\ Len(q) \in Nat /\ Len(t) = Len(q) + 1 /\ DOMAIN q = 1..Len(q) /\ DOMAIN t = 1..Len(q) + 1
      /\ \A j \in 1..Len(q) : t[j] = q[j]
      /\ t[Len(q) + 1] = r
  BY <1>3, <1>5
<1> QED BY <1>1, <1>4, <1>6

(* A message is read: if the payloads read are still those that were sent, *)
(* in their order, it is the first of the queue, because all payloads of a *)
(* scenario differ, and as far as the helper can tell its payload is intact.*)
LEMMA RecvKeepsPair ==
    ASSUME NEW s, WellFormed(s), OutputOK, PairOK(s), ServerRecv(s)
    PROVE  PairOK(s)'
<1>1. PICK k \in 1..Len(flight), change \in {"none", "payload", "meta", "tail"},
           addrs \in {"all", "some", "none"} :
        /\ Notification \notin {flight[j] : j \in 1..k}
        /\ Emit("server", RecvEvents(s, Reported(flight[k], change), addrs))
        /\ flight' = RemoveAt(flight, k)
        /\ fault' = fault \cup (IF k = 1 THEN {} ELSE {"order"})
                          \cup (IF change = "none" THEN {} ELSE {change})
  BY DEF ServerRecv
<1>2. server = "reading" /\ recv_count < s.read_messages /\ UNCHANGED <<server, client>>
  BY DEF ServerRecv
<1> DEFINE M == ToSet(s.messages)
           m == Reported(flight[k], change)
<1>3. flight \in Seq(M \cup {Notification}) /\ \A j \in 2..Len(flight) : flight[j] # Notification
  BY DEF PairOK, Counted
<1>4. Len(flight) \in Nat /\ flight # <<>> /\ Head(flight) = flight[1] /\ 1 \in 1..k
  BY <1>3
<1>5. \A j \in 1..Len(flight) : flight[j] \in M
  <2> TAKE j \in 1..Len(flight)
  <2>1. j = 1 \/ j \in 2..Len(flight)
    BY <1>4
  <2> QED BY <1>1, <1>3, <1>4, <2>1
<1>6. ~Noted /\ InFlight = flight
  BY <1>1, <1>4 DEF Noted, InFlight
<1>7. flight \in Seq(M)
  BY <1>3, <1>5
<1>8. \A x \in M : x # Notification /\ DOMAIN x = {"payload", "meta"}
                   /\ x.payload # Wrong /\ x.meta # Wrong
  BY DEF WellFormed
<1>9. /\ flight' \in Seq(M) /\ Len(flight') = Len(flight) - 1
      /\ k = 1 => \A j \in 1..Len(flight) - 1 : flight'[j] = flight[j + 1]
  <2> HIDE DEF M
  <2> QED BY <1>1, <1>7, Removed
<1>10. /\ flight' \in Seq(M \cup {Notification})
       /\ \A j \in 1..Len(flight') : flight'[j] # Notification
  <2>1. M \subseteq M \cup {Notification}
    OBVIOUS
  <2> HIDE DEF M
  <2> QED BY <1>8, <1>9, <2>1
<1>11. ~Noted' /\ InFlight' = flight'
  <2>1. flight' # <<>> => Head(flight') = flight'[1] /\ 1 \in 1..Len(flight')
    BY <1>9
  <2> QED BY <1>10, <2>1 DEF Noted, InFlight
<1>12. client \notin {"none", "connecting"} /\ s.server
  BY <1>4 DEF PairOK, Counted
<1>13. m.payload = IF change \in PayloadFaults THEN Wrong ELSE flight[k].payload
  <2>1. DOMAIN flight[k] = {"payload", "meta"}
    BY <1>5, <1>8
  <2>2. CASE change = "none"
    BY <2>2 DEF Reported, PayloadFaults
  <2>3. CASE change = "payload"
    BY <2>1, <2>3 DEF Reported, PayloadFaults
  <2>4. CASE change = "meta"
    BY <2>1, <2>4 DEF Reported, PayloadFaults
  <2>5. CASE change = "tail"
    BY <2>1, <2>5 DEF Reported, PayloadFaults
  <2> QED BY <2>2, <2>3, <2>4, <2>5
<1>14. change = "meta" => m.meta = Wrong
  <2>1. DOMAIN flight[k] = {"payload", "meta"}
    BY <1>5, <1>8
  <2> QED BY <2>1 DEF Reported
<1> DEFINE events == RecvEvents(s, m, addrs)
<1>15. Emit("server", events)
  BY <1>1
<1>16. change = "none" => m = flight[k]
  BY DEF Reported
<1> HIDE DEF m
<1>17. /\ IsSeq(events)
       /\ \A e : Has(events, e) => e \in {"recv", "peer_addrs"}
       /\ matching_events(events, "recv") = <<Event("recv", m)>>
  BY RecvWritten
<1> HIDE DEF events
<1>18. /\ out'["client"] = out["client"]
       /\ ToSet(out'["server"]) = ToSet(out["server"]) \cup ToSet(events)
       /\ \A e : Has(out'["server"], e) <=> Has(out["server"], e) \/ Has(events, e)
       /\ matching_events(out'["server"], "recv")
            = Cat(matching_events(out["server"], "recv"), <<Event("recv", m)>>)
  BY <1>15, <1>17, Emits DEF Other
<1>19. /\ recv_count \in Nat /\ recv_count' = recv_count + 1
       /\ \A j \in 1..recv_count : Received'[j] = Received[j]
       /\ Received'[recv_count + 1] = m
  BY <1>18, OneMore
<1>20. /\ fault \subseteq fault'
       /\ \A f : f \notin {"order", "payload", "tail", "meta"} => (f \in fault' <=> f \in fault)
  BY <1>1
<1>21. ClientStill /\ ClientSide(s)' /\ PeersListed(s)' /\ sent_count' = sent_count
  BY <1>2, <1>18, <1>20, ClientSideKept DEF PairOK, ClientStill
<1>22. \A x \in ToSet(events) : x.event \in {"recv", "peer_addrs"}
  BY <1>17 DEF Has
<1>23. Len(s.messages) \in Nat \ {0} /\ s.read_messages = Len(s.messages)
  BY <1>12, Formed
<1>24. ServerSide(s)'
  <2>1. ServerSide(s)
    BY DEF PairOK
  <2>2. recv_count' <= s.read_messages
    BY <1>2, <1>19, <1>23
  <2>3. "local_addrs" \in fault' <=> "local_addrs" \in fault
    BY <1>20
  <2> QED BY <1>2, <1>12, <1>18, <1>22, <2>1, <2>2, <2>3 DEF ServerSide
<1>25. Traces(s)'
  <2>1. Traces(s)
    BY DEF PairOK
  <2>2. fault' \cap {"connect", "send"} = fault \cap {"connect", "send"}
    BY <1>20
  <2>3. /\ "setup" \in fault' <=> "setup" \in fault
        /\ "accepted" \in fault' <=> "accepted" \in fault
        /\ "recv" \in fault' <=> "recv" \in fault
    BY <1>20
  <2>4. "recv" \notin fault'
    BY <1>2, <2>1, <2>3 DEF Traces
  <2>5. fault' = {} => fault = {}
    BY <1>20
  <2>6. ~Has(events, "error") /\ ~Has(events, "ready")
    BY <1>17
  <2> QED BY <1>2, <1>18, <1>21, <2>1, <2>2, <2>3, <2>4, <2>5, <2>6 DEF Traces
<1>26. IF "lost" \in fault THEN recv_count + Len(flight) < sent_count
                           ELSE recv_count + Len(flight) = sent_count
  BY <1>6, <1>12 DEF PairOK, Counted
<1>27. sent_count \in Nat /\ sent_count <= Len(s.messages)
  BY Counts DEF PairOK, ClientSide
<1>28. Counted(s)'
  <2>1. "lost" \in fault' <=> "lost" \in fault
    BY <1>20
  <2>2. IF "lost" \in fault THEN recv_count' + Len(flight') < sent_count
                            ELSE recv_count' + Len(flight') = sent_count
    BY <1>4, <1>9, <1>19, <1>26, <1>27, SMTT(30)
  <2>3. \A j \in 2..Len(flight') : flight'[j] # Notification
    <3>1. Len(flight') \in Nat
      BY <1>9
    <3>2. \A j \in 2..Len(flight') : j \in 1..Len(flight')
      BY <3>1
    <3> QED BY <1>10, <3>2
  <2> QED BY <1>2, <1>10, <1>11, <1>12, <1>21, <2>1, <2>2, <2>3 DEF Counted
<1>29. Ordered(s)'
  <2>1. Ordered(s)
    BY DEF PairOK
  <2>2. ASSUME "lost" \notin fault', InOrder(s)'
        PROVE  /\ k = 1 /\ change \notin PayloadFaults /\ fault \cap PayloadFaults = {}
               /\ \A j \in 1..Len(flight) : flight[j] = s.messages[recv_count + j]
    <3>1. "lost" \notin fault
      BY <1>20, <2>2
    <3>2. \A j \in 1..recv_count + 1 : Received'[j].payload = s.messages[j].payload
      BY <1>19, <2>2 DEF InOrder
    <3>3. InOrder(s)
      <4>1. \A j \in 1..recv_count : j \in 1..recv_count + 1
        BY <1>19
      <4> QED BY <1>19, <3>2, <4>1 DEF InOrder
    <3>4. /\ fault \cap PayloadFaults = {}
          /\ \A j \in 1..Len(flight) : flight[j] = s.messages[recv_count + j]
      BY <1>6, <1>12, <2>1, <3>1, <3>3 DEF Ordered
    <3>5. recv_count + 1 \in 1..recv_count + 1
      BY <1>19
    <3>6. m.payload = s.messages[recv_count + 1].payload
      BY <1>19, <3>2, <3>5
    <3>7. /\ recv_count + 1 \in 1..Len(s.messages) /\ recv_count + k \in 1..Len(s.messages)
          /\ DOMAIN s.messages = 1..Len(s.messages)
      <4>1. recv_count + Len(flight) <= Len(s.messages)
        BY <1>26, <1>27, <3>1
      <4>2. DOMAIN s.messages = 1..Len(s.messages)
        BY DEF WellFormed
      <4> QED BY <1>4, <1>19, <1>23, <4>1, <4>2
    <3>8. s.messages[recv_count + 1].payload # Wrong
      <4>1. s.messages[recv_count + 1] \in M
        BY <3>7 DEF ToSet
      <4> QED BY <1>8, <4>1
    <3>9. change \notin PayloadFaults
      BY <1>13, <3>6, <3>8
    <3>10. s.messages[recv_count + k].payload = s.messages[recv_count + 1].payload
      BY <1>13, <3>4, <3>6, <3>9
    <3>11. recv_count + k = recv_count + 1
      BY <3>7, <3>10 DEF WellFormed
    <3>12. k = 1
      BY <1>19, <3>11
    <3> QED BY <3>4, <3>9, <3>12
  <2>3. "lost" \notin fault' /\ InOrder(s)' =>
          /\ fault' \cap PayloadFaults = {}
          /\ \A j \in 1..Len(flight') : flight'[j] = s.messages[recv_count' + j]
    <3> SUFFICES ASSUME "lost" \notin fault', InOrder(s)'
                 PROVE  /\ fault' \cap PayloadFaults = {}
                        /\ \A j \in 1..Len(flight') : flight'[j] = s.messages[recv_count' + j]
      OBVIOUS
    <3>1. fault' \cap PayloadFaults = {}
      BY <1>1, <2>2
    <3>2. \A j \in 1..Len(flight') : flight'[j] = s.messages[recv_count' + j]
      <4> TAKE j \in 1..Len(flight')
      <4>1. /\ j \in 1..Len(flight) - 1 /\ j + 1 \in 1..Len(flight)
            /\ recv_count + (j + 1) = recv_count' + j
        BY <1>4, <1>9, <1>19
      <4>2. flight'[j] = flight[j + 1]
        BY <1>9, <2>2, <4>1
      <4>3. flight[j + 1] = s.messages[recv_count + (j + 1)]
        BY <2>2, <4>1
      <4> QED BY <4>1, <4>2, <4>3
    <3> QED BY <3>1, <3>2
  <2>4. "meta" \in fault' => \E j \in 1..recv_count' : Received'[j].meta = Wrong
    <3>1. \A j \in 1..recv_count : j \in 1..recv_count'
      BY <1>19
    <3>2. recv_count + 1 \in 1..recv_count'
      BY <1>19
    <3>3. CASE "meta" \in fault
      BY <1>19, <2>1, <3>1, <3>3 DEF Ordered
    <3>4. CASE change = "meta"
      BY <1>14, <1>19, <3>2, <3>4
    <3> QED BY <1>1, <3>3, <3>4
  <2>5. fault' = {} => \A j \in 1..recv_count' : Received'[j] = s.messages[j]
    <3> SUFFICES ASSUME fault' = {}, NEW j \in 1..recv_count'
                 PROVE  Received'[j] = s.messages[j]
      OBVIOUS
    <3>1. fault = {} /\ k = 1 /\ change = "none"
      BY <1>1
    <3>2. \A i \in 1..recv_count : Received[i] = s.messages[i]
      BY <2>1, <3>1 DEF Ordered
    <3>3. InOrder(s)
      BY <3>2 DEF InOrder
    <3>4. \A i \in 1..Len(flight) : flight[i] = s.messages[recv_count + i]
      BY <1>6, <1>12, <2>1, <3>1, <3>3 DEF Ordered
    <3>5. m = s.messages[recv_count + 1]
      BY <1>4, <1>16, <3>1, <3>4
    <3>6. j \in 1..recv_count \/ j = recv_count + 1
      BY <1>19
    <3> QED BY <1>19, <3>2, <3>5, <3>6
  <2> QED BY <1>11, <2>3, <2>4, <2>5 DEF Ordered
<1>30. NoteOK(s)'
  <2>1. Has(out'["server"], "notify") <=> Has(out["server"], "notify")
    BY <1>17, <1>18
  <2>2. "notify" \in fault' <=> "notify" \in fault
    BY <1>20
  <2>3. client' = client
    BY <1>2
  <2> QED BY <1>6, <1>11, <1>12, <1>21, <2>1, <2>2, <2>3 DEF PairOK, NoteOK
<1> QED BY <1>21, <1>24, <1>25, <1>28, <1>29, <1>30 DEF PairOK

(* Whatever the helpers and the stack do. *)
LEMMA PairKept ==
    ASSUME NEW s, WellFormed(s), OutputOK, PairOK(s), PairStep(s)
    PROVE  PairOK(s)'
<1>1. CASE ServerReady
  BY <1>1, ReadyKeepsPair
<1>2. CASE ServerError(s) \/ ServerCrash \/ ServerComplete(s)
  BY <1>2, ServerEndKeepsPair
<1>3. CASE ServerNotify(s)
  BY <1>3, NotifyKeepsPair
<1>4. CASE ServerRecv(s)
  BY <1>4, RecvKeepsPair
<1>5. CASE StackLoses
  BY <1>5, LossKeepsPair
<1>6. CASE \/ ClientConnect(s) \/ ClientOptionFails \/ ClientCrash
           \/ ClientSend(s) \/ ClientComplete(s)
  BY <1>6, ClientKeepsPair
<1> QED BY <1>1, <1>2, <1>3, <1>4, <1>5, <1>6 DEF PairStep

-----------------------------------------------------------------------------
(* The steps of the runner *)

\* what the pair has been left with when nothing or little was done to it
PairStill == UNCHANGED <<out, flight>>

(* A wait of the runner that is over: the client may be started or killed, *)
(* the server may be terminated.                                           *)
LEMMA WaitKeepsPair ==
    ASSUME NEW s, PairOK(s), PairStill,
           fault \subseteq fault', fault' \subseteq fault \cup {"late"},
           \/ client' = client
           \/ client = "none" /\ client' = "connecting"
           \/ client' = "exited" /\ fault' # {},
           \/ server' = server
           \/ server' = "exited" /\ s.server /\ fault' # {}
    PROVE  PairOK(s)'
<1>1. /\ recv_count' = recv_count /\ sent_count' = sent_count /\ Received' = Received
      /\ InFlight' = InFlight /\ Noted' = Noted
      /\ out'["server"] = out["server"] /\ out'["client"] = out["client"] /\ flight' = flight
  BY DEF PairStill, recv_count, sent_count, Received, InFlight, Noted
<1>2. \A f : f # "late" => (f \in fault' <=> f \in fault)
  OBVIOUS
<1>3. /\ fault' \cap {"connect", "send"} = fault \cap {"connect", "send"}
      /\ fault' \cap PayloadFaults = fault \cap PayloadFaults
      /\ fault' \cap {"peer_addrs", "notify"} = fault \cap {"peer_addrs", "notify"}
      /\ fault' = {} => fault = {}
  BY <1>2 DEF PayloadFaults
<1>4. /\ "accepted" \in fault' <=> "accepted" \in fault
      /\ "peer_addrs" \in fault' <=> "peer_addrs" \in fault
      /\ "local_addrs" \in fault' <=> "local_addrs" \in fault
      /\ "setup" \in fault' <=> "setup" \in fault
      /\ "recv" \in fault' <=> "recv" \in fault
      /\ "lost" \in fault' <=> "lost" \in fault
      /\ "meta" \in fault' <=> "meta" \in fault
      /\ "notify" \in fault' <=> "notify" \in fault
  BY <1>2
<1>5. \A e : (Has(out["server"], e))' <=> Has(out["server"], e)
  BY <1>1
<1>6. \A e : (Has(out["client"], e))' <=> Has(out["client"], e)
  BY <1>1
<1>7. ClientSide(s)'
  BY <1>1, <1>3, <1>4, <1>6 DEF PairOK, ClientSide
<1>8. PeersListed(s)'
  BY <1>1, <1>3, <1>4, <1>6 DEF PairOK, PeersListed
<1>9. ServerSide(s)'
  BY <1>1, <1>3, <1>4, <1>5 DEF PairOK, ServerSide
<1>10. Traces(s)'
  BY <1>1, <1>3, <1>4, <1>5, <1>6 DEF PairOK, Traces
<1>11. Counted(s)'
  BY <1>1, <1>4 DEF PairOK, Counted
<1>12. Ordered(s)'
  <2>1. InOrder(s)' <=> InOrder(s)
    BY <1>1 DEF InOrder
  <2> QED BY <1>1, <1>3, <1>4, <2>1 DEF PairOK, Ordered
<1>13. NoteOK(s)'
  BY <1>1, <1>4, <1>5 DEF PairOK, NoteOK
<1> QED BY <1>7, <1>8, <1>9, <1>10, <1>11, <1>12, <1>13 DEF PairOK

(* A scenario begins with nothing written, sent or amiss. *)
LEMMA SpawnMakesPair ==
    ASSUME NEW s, WellFormed(s), OutputOK', out' = [role \in {"server", "client"} |-> <<>>],
           flight' = <<>>, fault' = {},
           IF s.server THEN server' = "setup" /\ client' = "none"
                       ELSE server' = "none" /\ client' = "connecting"
    PROVE  PairOK(s)'
<1>1. out'["server"] = <<>> /\ out'["client"] = <<>>
  OBVIOUS
<1>2. recv_count' = 0 /\ sent_count' = 0
  <2>1. Len(matching_events(<<>>, "recv")) = 0 /\ Len(matching_events(<<>>, "sent")) = 0
    BY MatchingNone
  <2> QED BY <1>1, <2>1 DEF recv_count, sent_count
<1>3. ~Noted' /\ InFlight' = <<>> /\ Len(<<>>) = 0
  BY DEF Noted, InFlight
<1>4. /\ \A e : ~Has(out'["server"], e) /\ ~Has(out'["client"], e)
      /\ ToSet(out'["server"]) = {} /\ ToSet(out'["client"]) = {}
  BY <1>1, FewEvents
<1>5. Len(s.messages) \in Nat \ {0} /\ (s.server => s.read_messages = Len(s.messages))
  BY Formed
<1>6. ClientSide(s)' /\ PeersListed(s)'
  BY <1>1, <1>2, <1>4, <1>5 DEF ClientSide, PeersListed
<1>7. ServerSide(s)' /\ Traces(s)'
  BY <1>1, <1>2, <1>4, <1>5 DEF ServerSide, Traces
<1>8. Counted(s)' /\ NoteOK(s)'
  <2>1. <<>> \in Seq(ToSet(s.messages) \cup {Notification})
    OBVIOUS
  <2> QED BY <1>2, <1>3, <1>4, <2>1 DEF Counted, NoteOK
<1>9. Ordered(s)'
  BY <1>2, <1>3 DEF Ordered
<1> QED BY <1>6, <1>7, <1>8, <1>9 DEF PairOK

(* A step of the helpers or of the stack adds to the outputs and the faults. *)
LEMMA PairStepAdds ==
    ASSUME OutputOK, NEW s, PairStep(s)
    PROVE  /\ fault \subseteq fault'
           /\ \A k \in 1..Len(out["server"]) : out'["server"][k] = out["server"][k]
           /\ Has(out["server"], "ready") => Has(out'["server"], "ready")
<1>1. \/ UNCHANGED out
      \/ \E role \in {"server", "client"} : \E events : IsSeq(events) /\ Emit(role, events)
  <2>1. CASE ServerReady \/ ServerError(s) \/ ServerCrash \/ ServerNotify(s) \/ ServerComplete(s)
    BY <2>1, SingleIsSeq DEF ServerReady, ServerError, ServerCrash, ServerNotify, ServerComplete,
                             ServerExit
  <2>2. CASE ServerRecv(s)
    <3>1. PICK m, addrs : Emit("server", RecvEvents(s, m, addrs))
      BY <2>2 DEF ServerRecv
    <3> QED BY <3>1, RecvWritten
  <2>3. CASE StackLoses
    BY <2>3 DEF StackLoses
  <2>4. CASE ClientOptionFails \/ ClientCrash \/ ClientSend(s) \/ ClientComplete(s)
    BY <2>4, SingleIsSeq DEF ClientOptionFails, ClientCrash, ClientSend, ClientComplete,
                             ClientStageFails, ClientExit
  <2>5. CASE ClientConnect(s)
    BY <2>5, SingleIsSeq DEF ClientConnect, ClientConnected, ClientUnrefused,
                             ClientStageFails, ClientExit
  <2> QED BY <2>1, <2>2, <2>3, <2>4, <2>5 DEF PairStep
<1>2. fault \subseteq fault'
  BY DEF PairStep, ServerReady, ServerError, ServerCrash, ServerNotify, ServerRecv,
         ServerComplete, StackLoses, ClientConnect, ClientConnected, ClientUnrefused,
         ClientStageFails, ClientOptionFails, ClientCrash, ClientSend, ClientComplete
<1>3. CASE UNCHANGED out
  BY <1>2, <1>3
<1>4. ASSUME NEW role \in {"server", "client"}, NEW events, IsSeq(events), Emit(role, events)
      PROVE  /\ \A k \in 1..Len(out["server"]) : out'["server"][k] = out["server"][k]
             /\ Has(out["server"], "ready") => Has(out'["server"], "ready")
  <2>1. /\ out'[Other(role)] = out[Other(role)]
        /\ Has(out'[role], "ready") <=> Has(out[role], "ready") \/ Has(events, "ready")
    BY <1>4, Emits
  <2>2. CASE role = "client"
    BY <2>1, <2>2 DEF Other
  <2>3. CASE role = "server"
    <3> DEFINE q == out["server"]
    <3>1. out'["server"] = q \o events /\ IsSeq(q)
      BY <1>4, <2>3 DEF Emit, OutputOK
    <3>2. PICK S : q \in Seq(S)
      BY <3>1 DEF IsSeq
    <3>3. PICK T : events \in Seq(T)
      BY <1>4 DEF IsSeq
    <3> HIDE DEF q
    <3>4. q \in Seq(S \cup T) /\ events \in Seq(S \cup T)
      BY <3>2, <3>3
    <3>5. \A k \in 1..Len(q) : (q \o events)[k] = q[k]
      BY <3>4
    <3> QED BY <2>1, <2>3, <3>1, <3>5 DEF q
  <2> QED BY <2>2, <2>3
<1> QED BY <1>1, <1>2, <1>3, <1>4

-----------------------------------------------------------------------------
(* What evaluate_scenario makes of the outputs *)

(* Neither output has an event of the name, or the two together have one. *)
LEMMA BothOutputs ==
    ASSUME NEW T, NEW served \in Seq(T), NEW called \in Seq(T), NEW e
    PROVE  /\ matching_events(served \o called, e) = <<>> <=> ~Has(served, e) /\ ~Has(called, e)
           /\ served = <<>> => matching_events(served \o called, e) = matching_events(called, e)
<1> DEFINE q1 == matching_events(served, e)
           q2 == matching_events(called, e)
           q == matching_events(Cat(served, called), e)
<1>1. q = q1 \o q2
  BY MatchingConcat DEF Cat
<1>2. /\ q1 \in Seq(T) /\ (q1 = <<>> <=> ~Has(served, e))
      /\ q2 \in Seq(T) /\ (q2 = <<>> <=> ~Has(called, e))
  BY MatchingMembers
<1>3. q = matching_events(served \o called, e)
  BY DEF Cat
<1> HIDE DEF q1, q2, q
<1>4. q = <<>> <=> q1 = <<>> /\ q2 = <<>>
  BY <1>1, <1>2
<1>5. served = <<>> => q = q2
  <2>1. served = <<>> => q1 = <<>>
    BY <1>2, FewEvents
  <2> QED BY <1>1, <1>2, <2>1
<1> QED BY <1>2, <1>3, <1>4, <1>5 DEF q2

(* The first of the matching events is an event of the output. *)
LEMMA FirstMatch ==
    ASSUME NEW T, NEW s \in Seq(T), NEW e, matching_events(s, e) # <<>>
    PROVE  matching_events(s, e)[1] \in ToSet(s) /\ matching_events(s, e)[1].event = e
<1> DEFINE q == matching_events(s, e)
<1>1. q \in Seq(T) /\ \A j \in 1..Len(q) : \E k \in DOMAIN s : q[j] = s[k] /\ s[k].event = e
  BY MatchingMembers
<1> HIDE DEF q
<1>2. 1 \in 1..Len(q)
  BY <1>1 DEF q
<1>3. PICK k \in DOMAIN s : q[1] = s[k] /\ s[k].event = e
  BY <1>1, <1>2
<1> QED BY <1>3 DEF q, ToSet

\* served is what of the server's output the runner has collected.
Prefix(served, rest) == out["server"] = Cat(served, rest)

(* The events collected are events of the output, and those of a name that *)
(* are as many as there are in the output are all of them.                 *)
LEMMA CollectedEvents ==
    ASSUME NEW T, NEW served \in Seq(T), NEW rest \in Seq(T), Prefix(served, rest), NEW e
    PROVE  /\ Has(served, e) => Has(out["server"], e)
           /\ ToSet(served) \subseteq ToSet(out["server"])
           /\ Len(matching_events(served, e)) \in Nat
           /\ Len(matching_events(served, e)) <= Len(matching_events(out["server"], e))
           /\ Len(matching_events(served, e)) = Len(matching_events(out["server"], e)) =>
                 matching_events(served, e) = matching_events(out["server"], e)
<1> DEFINE q1 == matching_events(served, e)
           q2 == matching_events(rest, e)
           q == matching_events(out["server"], e)
<1>1. q = q1 \o q2
  <2>1. matching_events(Cat(served, rest), e) = Cat(q1, q2)
    BY MatchingConcat
  <2> QED BY <2>1 DEF Prefix, Cat
<1>2. q1 \in Seq(T) /\ q2 \in Seq(T)
  BY MatchingMembers
<1>3. ToSet(served) \subseteq ToSet(out["server"])
  <2> DEFINE t == served \o rest
  <2>1. t = out["server"]
    BY DEF Prefix, Cat
  <2>2. /\ \A k \in DOMAIN served : k \in DOMAIN t /\ t[k] = served[k]
    OBVIOUS
  <2> HIDE DEF t
  <2> QED BY <2>1, <2>2 DEF ToSet
<1>4. Has(served, e) => Has(out["server"], e)
  BY <1>3 DEF Has
<1> HIDE DEF q1, q2, q
<1>5. Len(q1) \in Nat /\ Len(q2) \in Nat /\ Len(q) = Len(q1) + Len(q2)
  BY <1>1, <1>2
<1>6. Len(q1) = Len(q) => q = q1
  <2> SUFFICES ASSUME Len(q1) = Len(q) PROVE q = q1
    OBVIOUS
  <2>1. q2 = <<>>
    BY <1>2, <1>5
  <2> QED BY <1>1, <1>2, <2>1
<1> QED BY <1>3, <1>4, <1>5, <1>6 DEF q1, q

\* the state in which a scenario without a server, or with one, is evaluated
Evaluable(s, served, called) ==
    /\ WellFormed(s) /\ OutputOK /\ PairOK(s) /\ RunnerOK(s) /\ pc = "evaluate"
    /\ called = out["client"]
    /\ \E T, rest : /\ served \in Seq(T) /\ rest \in Seq(T) /\ called \in Seq(T)
                    /\ Prefix(served, rest)
                    /\ collected = Len(out["server"]) => served = out["server"]

(* Without a server the client's output decides. *)
LEMMA ClientVerdict ==
    ASSUME NEW s, NEW served, NEW called, Evaluable(s, served, called), ~s.server
    PROVE  /\ Status(s, served, called) = "pass" => fault \cap Watched(s) = {}
           /\ fault = {} => Status(s, served, called) = "pass"
<1>1. PICK T, rest : /\ served \in Seq(T) /\ rest \in Seq(T) /\ called \in Seq(T)
                     /\ Prefix(served, rest)
  BY DEF Evaluable
<1>2. /\ WellFormed(s) /\ OutputOK /\ PairOK(s) /\ RunnerOK(s) /\ pc = "evaluate"
      /\ called = out["client"]
  BY DEF Evaluable
<1>3. s.expect_failure # {} /\ s.assertions = {}
  BY <1>2, Formed DEF WellFormed
<1>4. server = "none" /\ out["server"] = <<>>
  BY <1>2 DEF PairOK, ServerSide
<1>5. served = <<>>
  <2>1. served \o rest = <<>>
    BY <1>1, <1>4 DEF Prefix, Cat
  <2> QED BY <1>1, <2>1
<1> DEFINE errors == matching_events(served \o called, "error")
           failures == matching_events(served \o called, "expected_failure")
<1>6. /\ errors = <<>> <=> ~Has(called, "error")
      /\ failures = <<>> <=> ~Has(called, "expected_failure")
      /\ failures = matching_events(called, "expected_failure")
  <2>1. ~Has(served, "error") /\ ~Has(served, "expected_failure")
    BY <1>5, FewEvents
  <2>2. served \in Seq(T) /\ called \in Seq(T)
    BY <1>1
  <2>3. errors = <<>> <=> ~Has(served, "error") /\ ~Has(called, "error")
    BY <2>2, BothOutputs
  <2>4. /\ failures = <<>> <=> ~Has(served, "expected_failure") /\ ~Has(called, "expected_failure")
        /\ failures = matching_events(called, "expected_failure")
    <3>1. /\ failures = <<>> <=> /\ ~Has(served, "expected_failure")
                                 /\ ~Has(called, "expected_failure")
          /\ served = <<>> => failures = matching_events(called, "expected_failure")
      BY <2>2, BothOutputs
    <3> HIDE DEF failures
    <3> QED BY <1>5, <3>1
  <2> HIDE DEF errors, failures
  <2> QED BY <2>1, <2>3, <2>4
<1>7. Status(s, served, called) = "pass" <=>
          errors = <<>> /\ failures # <<>> /\ failures[1].arg \in s.expect_failure
  BY <1>3 DEF Status
<1> HIDE DEF errors, failures
<1>8. ASSUME Status(s, served, called) = "pass"
      PROVE  fault \cap Watched(s) = {}
  <2>1. ~Has(out["client"], "error") /\ Has(out["client"], "expected_failure")
    BY <1>2, <1>6, <1>7, <1>8
  <2>2. fault \cap {"connect", "send"} = {} /\ "setup" \notin fault /\ "recv" \notin fault
        /\ "accepted" \notin fault
    BY <1>2, <1>4, <2>1 DEF PairOK, Traces
  <2> QED BY <1>3, <2>2 DEF Watched
<1>9. ASSUME fault = {}
      PROVE  Status(s, served, called) = "pass"
  <2>1. client = "exited"
    BY <1>2, <1>9 DEF RunnerOK
  <2>2. Has(called, "expected_failure") /\ ~Has(called, "error")
    BY <1>2, <1>3, <1>9, <2>1 DEF PairOK, ClientSide, Traces
  <2>3. failures[1] \in ToSet(called) /\ failures[1].event = "expected_failure"
    BY <1>1, <1>6, <2>2, FirstMatch
  <2>4. failures[1].arg \in s.expect_failure
    BY <1>2, <2>3 DEF PairOK, ClientSide
  <2> QED BY <1>6, <1>7, <2>2, <2>4
<1> QED BY <1>8, <1>9

(* A scenario with a server that passes: what it asserts, it has seen. *)
LEMMA ServerPass ==
    ASSUME NEW s, NEW served, NEW called, Evaluable(s, served, called), s.server,
           Status(s, served, called) = "pass"
    PROVE  fault \cap Watched(s) = {}
<1>1. PICK T, rest : /\ served \in Seq(T) /\ rest \in Seq(T) /\ called \in Seq(T)
                     /\ Prefix(served, rest)
  BY DEF Evaluable
<1>2. /\ WellFormed(s) /\ OutputOK /\ PairOK(s) /\ RunnerOK(s) /\ pc = "evaluate"
      /\ called = out["client"]
  BY DEF Evaluable
<1>3. /\ s.expect_failure = {} /\ s.read_messages = Len(s.messages)
      /\ Len(s.messages) \in Nat \ {0}
  BY <1>2, Formed
<1>4. matching_events(served \o called, "error") = <<>> /\ AssertionsHold(s, served, called)
  BY <1>3 DEF Status
<1>5. ~Has(out["client"], "error")
  BY <1>1, <1>2, <1>4, BothOutputs
<1> DEFINE received == Args(matching_events(served, "recv"))
           got == matching_events(served, "recv")
<1>6. /\ Len(received) = Len(s.messages)
      /\ "payload" \in s.assertions => Field(received, "payload") = Field(s.messages, "payload")
      /\ "meta" \in s.assertions => Field(received, "meta") = Field(s.messages, "meta")
      /\ "notify" \in s.assertions => matching_events(served, "notify") # <<>>
      /\ "local_addrs" \in s.assertions => ListsAll(served, "ready")
      /\ "peer_addrs" \in s.assertions => ListsAll(called, "peer_addrs")
  BY <1>2, <1>4 DEF AssertionsHold, WellFormed
<1>7. Len(received) = Len(got) /\ Len(got) \in Nat /\ DOMAIN received = 1..Len(got)
  <2>1. got \in Seq(T)
    BY <1>1, MatchingMembers
  <2> HIDE DEF got
  <2>2. DOMAIN got = 1..Len(got) /\ Len(got) \in Nat
    BY <2>1
  <2>3. Args(got) = [k \in 1..Len(got) |-> got[k].arg]
    BY <2>2 DEF Args
  <2> QED BY <2>2, <2>3 DEF got
<1>8. recv_count = Len(s.messages) /\ received = Received
  <2>1. /\ Len(got) <= recv_count
        /\ Len(got) = recv_count => got = matching_events(out["server"], "recv")
    BY <1>1, CollectedEvents DEF recv_count
  <2>2. recv_count <= Len(s.messages)
    BY <1>2, <1>3 DEF PairOK, ServerSide
  <2>3. recv_count \in Nat
    <3>1. Len(matching_events(out["server"], "recv")) \in Nat
      <4>1. out["server"] \in Seq(T)
        <5>1. served \o rest \in Seq(T)
          BY <1>1
        <5> QED BY <1>1, <5>1 DEF Prefix, Cat
      <4> QED BY <4>1, MatchingMembers
    <3> QED BY <3>1 DEF recv_count
  <2>4. recv_count = Len(got) /\ recv_count = Len(s.messages)
    BY <1>3, <1>6, <1>7, <2>1, <2>2, <2>3
  <2> QED BY <2>1, <2>4 DEF Received
<1> HIDE DEF received, got
<1>9. DOMAIN received = 1..recv_count /\ DOMAIN s.messages = 1..recv_count
  <2>1. Len(got) = recv_count
    BY <1>6, <1>7, <1>8
  <2>2. DOMAIN received = 1..recv_count
    BY <1>7, <2>1
  <2>3. s.messages \in Seq(ToSet(s.messages))
    BY <1>2 DEF WellFormed
  <2>4. DOMAIN s.messages = 1..Len(s.messages)
    BY <2>3
  <2> QED BY <1>8, <2>2, <2>4
<1>10. fault \cap {"connect", "send"} = {}
  BY <1>2, <1>5 DEF PairOK, Traces
<1>11. "setup" \notin fault
  BY <1>2, <1>5 DEF PairOK, Traces, RunnerOK
<1>12. "recv" \notin fault
  <2>1. ~(recv_count < s.read_messages)
    BY <1>3, <1>8
  <2> QED BY <1>2, <2>1 DEF PairOK, Traces
<1>13. "accepted" \notin fault
  BY <1>2, <1>3, <1>5 DEF PairOK, Traces
<1>14. "lost" \notin fault
  <2>1. "lost" \in fault => recv_count + Len(InFlight) < sent_count
    BY <1>2 DEF PairOK, Counted
  <2>2. Len(InFlight) \in Nat
    <3>1. flight \in Seq(ToSet(s.messages) \cup {Notification})
      BY <1>2 DEF PairOK, Counted
    <3> DEFINE N == ToSet(s.messages) \cup {Notification}
    <3>2. flight \in Seq(N)
      BY <3>1
    <3> HIDE DEF N
    <3>3. flight # <<>> => Tail(flight) \in Seq(N)
      BY <3>2
    <3> QED BY <3>2, <3>3 DEF InFlight, Noted
  <2>3. sent_count <= Len(s.messages)
    <3>1. ClientSide(s)
      BY <1>2 DEF PairOK
    <3> QED BY <3>1 DEF ClientSide
  <2>4. sent_count \in Nat
    BY <1>2, Counts
  <2> QED BY <1>3, <1>8, <2>1, <2>2, <2>3, <2>4
<1>15. "payload" \in s.assertions => fault \cap PayloadFaults = {}
  <2> SUFFICES ASSUME "payload" \in s.assertions
               PROVE  fault \cap PayloadFaults = {}
    OBVIOUS
  <2>1. Field(received, "payload") = Field(s.messages, "payload")
    BY <1>6
  <2>2. \A j \in 1..recv_count : received[j].payload = s.messages[j].payload
    <3> TAKE j \in 1..recv_count
    <3>1. Field(received, "payload")[j] = received[j].payload
      BY <1>9 DEF Field
    <3>2. Field(s.messages, "payload")[j] = s.messages[j].payload
      BY <1>9 DEF Field
    <3> QED BY <2>1, <3>1, <3>2
  <2>3. InOrder(s)
    BY <1>8, <2>2 DEF InOrder
  <2> QED BY <1>2, <1>14, <2>3 DEF PairOK, Ordered
<1>16. "meta" \in s.assertions => "meta" \notin fault
  <2> SUFFICES ASSUME "meta" \in s.assertions, "meta" \in fault
               PROVE  FALSE
    OBVIOUS
  <2>1. PICK j \in 1..recv_count : received[j].meta = Wrong
    BY <1>2, <1>8 DEF PairOK, Ordered
  <2>2. Field(received, "meta")[j] = received[j].meta
    BY <1>9 DEF Field
  <2>3. Field(s.messages, "meta")[j] = s.messages[j].meta
    BY <1>9 DEF Field
  <2>4. s.messages[j] \in ToSet(s.messages)
    BY <1>9 DEF ToSet
  <2>5. s.messages[j].meta # Wrong
    BY <1>2, <2>4 DEF WellFormed
  <2> QED BY <1>6, <2>1, <2>2, <2>3, <2>5
<1>17. "notify" \in s.assertions => "notify" \notin fault
  <2> SUFFICES ASSUME "notify" \in s.assertions PROVE "notify" \notin fault
    OBVIOUS
  <2>1. Has(served, "notify")
    BY <1>1, <1>6, MatchingMembers
  <2>2. Has(out["server"], "notify")
    BY <1>1, <2>1, CollectedEvents
  <2> QED BY <1>2, <2>2 DEF PairOK, NoteOK
<1>18. "local_addrs" \in s.assertions => "local_addrs" \notin fault
  <2> SUFFICES ASSUME "local_addrs" \in s.assertions PROVE "local_addrs" \notin fault
    OBVIOUS
  <2> DEFINE x == matching_events(served, "ready")[1]
  <2>1. matching_events(served, "ready") # <<>> /\ x.arg = "all"
    BY <1>6 DEF ListsAll
  <2>2. x \in ToSet(served) /\ x.event = "ready"
    BY <1>1, <2>1, FirstMatch
  <2>3. x \in ToSet(out["server"])
    BY <1>1, <2>2, CollectedEvents
  <2> HIDE DEF x
  <2> QED BY <1>2, <2>1, <2>2, <2>3 DEF PairOK, ServerSide
<1>19. "peer_addrs" \in s.assertions => "peer_addrs" \notin fault
  <2> SUFFICES ASSUME "peer_addrs" \in s.assertions PROVE "peer_addrs" \notin fault
    OBVIOUS
  <2> DEFINE x == matching_events(called, "peer_addrs")[1]
  <2>1. matching_events(called, "peer_addrs") # <<>> /\ x.arg = "all"
    BY <1>6 DEF ListsAll
  <2>2. x \in ToSet(called) /\ x.event = "peer_addrs"
    BY <1>1, <2>1, FirstMatch
  <2> HIDE DEF x
  <2> QED BY <1>2, <2>1, <2>2 DEF PairOK, PeersListed
<1>20. s.assertions \subseteq {"lost", "payload", "meta", "notify", "local_addrs", "peer_addrs"}
  BY <1>2 DEF WellFormed
<1> QED BY <1>10, <1>11, <1>12, <1>13, <1>14, <1>15, <1>16, <1>17, <1>18, <1>19, <1>20
    DEF Watched, PayloadFaults

(* A scenario with a server in which nothing went wrong passes. *)
LEMMA ServerBlame ==
    ASSUME NEW s, NEW served, NEW called, Evaluable(s, served, called), s.server, fault = {}
    PROVE  Status(s, served, called) = "pass"
<1>1. PICK T, rest : /\ served \in Seq(T) /\ rest \in Seq(T) /\ called \in Seq(T)
                     /\ Prefix(served, rest)
                     /\ collected = Len(out["server"]) => served = out["server"]
  BY DEF Evaluable
<1>2. /\ WellFormed(s) /\ OutputOK /\ PairOK(s) /\ RunnerOK(s) /\ pc = "evaluate"
      /\ called = out["client"]
  BY DEF Evaluable
<1>3. /\ s.expect_failure = {} /\ s.read_messages = Len(s.messages)
      /\ Len(s.messages) \in Nat \ {0}
  BY <1>2, Formed
<1>4. served = out["server"]
  BY <1>1, <1>2 DEF RunnerOK
<1>5. client = "exited" /\ server = "exited"
  BY <1>2 DEF RunnerOK
<1>6. /\ sent_count = Len(s.messages) /\ recv_count = Len(s.messages)
      /\ Has(out["server"], "ready")
  BY <1>2, <1>3, <1>5 DEF PairOK, ClientSide, ServerSide
<1>7. ~Has(out["server"], "error") /\ ~Has(out["client"], "error")
  BY <1>2 DEF PairOK, Traces
<1>8. matching_events(served \o called, "error") = <<>>
  BY <1>1, <1>2, <1>4, <1>7, BothOutputs
<1> DEFINE received == Args(matching_events(served, "recv"))
           got == matching_events(served, "recv")
<1>9. Len(received) = recv_count /\ DOMAIN received = 1..recv_count
  <2>1. got \in Seq(T) /\ Len(got) = recv_count
    BY <1>1, <1>4, MatchingMembers DEF recv_count
  <2> HIDE DEF got
  <2>2. DOMAIN got = 1..recv_count
    BY <2>1
  <2>3. Args(got) = [k \in 1..recv_count |-> got[k].arg]
    BY <2>2 DEF Args
  <2>4. recv_count \in Nat
    BY <1>3, <1>6
  <2>5. Len(Args(got)) = recv_count
    BY <2>3, <2>4
  <2> QED BY <2>3, <2>5 DEF got
<1>10. received = Received
  BY <1>4 DEF Received
<1> HIDE DEF received, got
<1>11. DOMAIN s.messages = 1..recv_count
  <2>1. s.messages \in Seq(ToSet(s.messages))
    BY <1>2 DEF WellFormed
  <2>2. DOMAIN s.messages = 1..Len(s.messages)
    BY <2>1
  <2> QED BY <1>6, <2>2
<1>12. \A j \in 1..recv_count : received[j] = s.messages[j]
  BY <1>2, <1>10 DEF PairOK, Ordered
<1>13. \A f : Field(received, f) = Field(s.messages, f)
  BY <1>9, <1>11, <1>12 DEF Field
<1>14. "notify" \in s.assertions => matching_events(served, "notify") # <<>>
  <2> SUFFICES ASSUME "notify" \in s.assertions PROVE matching_events(served, "notify") # <<>>
    OBVIOUS
  <2>1. s.subscribe
    BY <1>2 DEF WellFormed
  <2>2. sent_count > 0 /\ recv_count # 0
    BY <1>3, <1>6
  <2>3. NoteOK(s)
    BY <1>2 DEF PairOK
  <2>4. ~Noted
    BY <2>2, <2>3 DEF NoteOK
  <2>5. Has(out["server"], "notify")
    BY <2>1, <2>2, <2>3, <2>4 DEF NoteOK
  <2> QED BY <1>1, <1>4, <2>5, MatchingMembers
<1>15. ListsAll(served, "ready")
  <2> DEFINE x == matching_events(served, "ready")[1]
  <2>1. matching_events(served, "ready") # <<>>
    BY <1>1, <1>4, <1>6, MatchingMembers
  <2>2. x \in ToSet(out["server"]) /\ x.event = "ready"
    BY <1>1, <1>4, <2>1, FirstMatch
  <2> HIDE DEF x
  <2>3. x.arg = "all"
    BY <1>2, <2>2 DEF PairOK, ServerSide
  <2> QED BY <2>1, <2>3 DEF ListsAll, x
<1>16. "peer_addrs" \in s.assertions => ListsAll(called, "peer_addrs")
  <2> SUFFICES ASSUME "peer_addrs" \in s.assertions PROVE ListsAll(called, "peer_addrs")
    OBVIOUS
  <2>1. s.emit_peer_addrs
    BY <1>2 DEF WellFormed
  <2>2. sent_count > 0
    BY <1>3, <1>6
  <2>3. Has(out["client"], "peer_addrs")
    BY <1>2, <2>1, <2>2 DEF PairOK, PeersListed
  <2> DEFINE x == matching_events(called, "peer_addrs")[1]
  <2>4. matching_events(called, "peer_addrs") # <<>>
    BY <1>1, <1>2, <2>3, MatchingMembers
  <2>5. x \in ToSet(out["client"]) /\ x.event = "peer_addrs"
    BY <1>1, <1>2, <2>4, FirstMatch
  <2> HIDE DEF x
  <2>6. x.arg = "all"
    BY <1>2, <2>5 DEF PairOK, PeersListed
  <2> QED BY <2>4, <2>6 DEF ListsAll, x
<1>17. AssertionsHold(s, served, called)
  BY <1>6, <1>9, <1>13, <1>14, <1>15, <1>16 DEF AssertionsHold, received
<1> QED BY <1>3, <1>8, <1>17 DEF Status

-----------------------------------------------------------------------------
(* The invariant *)

(* A scenario that is still to be run, or runs, is one of the suite's. *)
LEMMA ScenarioFormed ==
    ASSUME Selected, IsSeq(results), Len(results) < Len(selection)
    PROVE  WellFormed(scenario)
<1>1. Len(results) \in Nat /\ selection \in Seq(Scenarios)
  BY LenOfSeq DEF Selected
<1>2. Len(results) + 1 \in 1..Len(selection)
  BY <1>1
<1>3. scenario \in Scenarios
  BY <1>1, <1>2 DEF scenario
<1> QED BY <1>3, ScenariosAssumption DEF Scenarios

(* Nothing runs at first. *)
LEMMA InitVerdict == RunInit => VerdictInv
<1> SUFFICES ASSUME RunInit PROVE VerdictInv
  OBVIOUS
<1>1. pc = "next" /\ results = <<>>
  BY DEF RunInit
<1>2. ASSUME NEW at PROVE Kept(Suite, at) \in Seq(Scenarios)
  <2> DEFINE K == {Suite[k] : k \in at \cap 1..Len(Suite)}
  <2>1. Suite \in Seq(Scenarios) /\ DOMAIN Suite = 1..Len(Suite)
    BY SuiteAssumption DEF Scenarios
  <2>2. Kept(Suite, at) \in Seq(K)
    BY <2>1, KeptMembers
  <2>3. K \subseteq Scenarios
    BY <2>1 DEF Scenarios, ToSet
  <2> HIDE DEF K
  <2> QED BY <2>2, <2>3
<1>3. selection \in Seq(Scenarios)
  <2>1. Suite \in Seq(Scenarios)
    BY SuiteAssumption DEF Scenarios
  <2>2. CASE whole = TRUE /\ selection = Suite
    BY <2>1, <2>2
  <2>3. CASE \E wanted \in SUBSET Scenarios :
                selection = Kept(Suite, {k \in DOMAIN Suite : Suite[k] \in wanted})
    BY <1>2, <2>3
  <2> QED BY <2>2, <2>3 DEF RunInit
<1>4. Len(results) <= Len(selection)
  <2>1. Len(selection) \in Nat
    BY <1>3
  <2>2. Len(<<>>) = 0
    OBVIOUS
  <2> QED BY <1>1, <2>1, <2>2
<1> QED BY <1>1, <1>3, <1>4 DEF VerdictInv, Selected, Running

(* The selection and the results stay as they are while a scenario runs. *)
LEMMA SelectedKept ==
    ASSUME Selected, UNCHANGED <<selection, results>>,
           Running' => Running \/ Len(results) < Len(selection),
           pc = "returned" => pc' = "returned"
    PROVE  Selected' /\ scenario' = scenario
BY DEF Selected, scenario

(* A scenario is begun. *)
LEMMA SpawnVerdict ==
    ASSUME VerdictInv, SuiteInv, SuiteInv', Spawn
    PROVE  VerdictInv'
<1>1. PICK s : s = scenario
  OBVIOUS
<1>2. /\ pc = "next" /\ Len(results) < Len(selection) /\ UNCHANGED <<selection, results>>
      /\ pc' \in {"ready", "client"} /\ taken' = 0 /\ fault' = {} /\ flight' = <<>>
      /\ out' = [role \in {"server", "client"} |-> <<>>]
      /\ IF s.server THEN server' = "setup" /\ client' = "none" /\ pc' = "ready"
                     ELSE server' = "none" /\ client' = "connecting" /\ pc' = "client"
  BY <1>1 DEF Spawn, Goto, Settings
<1>3. WellFormed(s)
  BY <1>1, <1>2, ScenarioFormed DEF VerdictInv, SuiteInv
<1>4. OutputOK'
  BY DEF SuiteInv
<1>5. PairOK(s)'
  BY <1>2, <1>3, <1>4, SpawnMakesPair
<1>6. RunnerOK(s)'
  BY <1>2 DEF RunnerOK
<1>7. Selected' /\ scenario' = s
  BY <1>1, <1>2, SelectedKept DEF VerdictInv
<1> QED BY <1>5, <1>6, <1>7 DEF VerdictInv

(* The helpers and the stack take a step. *)
LEMMA HelpersVerdict ==
    ASSUME VerdictInv, SuiteInv, SuiteInv', HelpersStep
    PROVE  VerdictInv'
<1>1. PICK s : s = scenario
  OBVIOUS
<1>2. Alive /\ PairStep(s) /\ UNCHANGED <<selection, results, pc, read, taken, collected>>
  BY <1>1 DEF HelpersStep, Alive, runner
<1>3. Running /\ pc # "evaluate"
  BY <1>2 DEF SuiteInv, Placed, NoHelperLeft, Alive, Running
<1>4. WellFormed(s)
  BY <1>1, <1>3, ScenarioFormed DEF VerdictInv, SuiteInv, Selected
<1>5. OutputOK /\ PairOK(s) /\ RunnerOK(s)
  BY <1>1, <1>3 DEF VerdictInv, SuiteInv
<1>6. PairOK(s)'
  BY <1>2, <1>4, <1>5, PairKept
<1>7. /\ fault \subseteq fault'
      /\ \A k \in 1..Len(out["server"]) : out'["server"][k] = out["server"][k]
      /\ Has(out["server"], "ready") => Has(out'["server"], "ready")
  BY <1>2, <1>5, PairStepAdds
<1>8. /\ server \in {"none", "exited"} => server' = server
      /\ client \in {"none", "exited"} => client' = client
  <2>1. ProcessesOK
    BY DEF SuiteInv, TypeOK, ProcessesOK, ServerStates, ClientStates
  <2> QED BY <1>2, <1>5, <2>1, PairSteps DEF HelpersKeep
<1>9. \A k \in 1..taken : k \in 1..Len(out["server"])
  <2>1. taken \in 0..read /\ read \in 0..Len(out["server"])
    BY DEF SuiteInv, TypeOK
  <2>2. Len(out["server"]) \in Nat
    BY LenOfSeq DEF SuiteInv, OutputOK
  <2> QED BY <2>1, <2>2
<1>10. s.server /\ pc \in {"join", "terminate"} => FALSE
  <2>1. s.server /\ pc \in {"join", "terminate"} => server = "exited"
    BY <1>5 DEF RunnerOK
  <2>2. pc \in {"join", "terminate"} => client \in {"none", "exited"}
    BY DEF SuiteInv, Placed
  <2> QED BY <1>2, <2>1, <2>2 DEF Alive
<1>11. RunnerOK(s)'
  BY <1>2, <1>3, <1>5, <1>7, <1>8, <1>9, <1>10 DEF RunnerOK
<1>12. Selected' /\ scenario' = s
  BY <1>1, <1>2, SelectedKept DEF VerdictInv, Running
<1> QED BY <1>6, <1>11, <1>12 DEF VerdictInv

(* A wait of the runner ends, or it collects, or terminates the server. *)
LEMMA WaitVerdict ==
    ASSUME VerdictInv, SuiteInv, SuiteInv',
           \/ TakeEvent \/ ReadyTimeout \/ ClientEnds \/ ClientTimeout
           \/ ServerEnds \/ ServerTimeout \/ Collect \/ Terminate
    PROVE  VerdictInv' /\ (pc' = "raised" => fault' # {})
<1>1. PICK s : s = scenario
  OBVIOUS
<1>2. /\ UNCHANGED <<out, flight, selection, results>>
      /\ pc \in {"ready", "client", "wait", "join", "terminate", "unwind"}
  BY DEF TakeEvent, ReadyTimeout, ClientEnds, ClientTimeout, ServerEnds, ServerTimeout, Collect,
         Terminate, Settings, pair
<1>3. Running /\ PairOK(s) /\ RunnerOK(s) /\ OutputOK
  BY <1>1, <1>2 DEF VerdictInv, SuiteInv, Running
<1>4. WellFormed(s)
  BY <1>1, <1>3, ScenarioFormed DEF VerdictInv, SuiteInv, Selected
<1>5. Selected' /\ scenario' = s
  BY <1>1, <1>2, <1>3, SelectedKept DEF VerdictInv, Running
<1>6. /\ Len(out["server"]) \in Nat /\ read \in 0..Len(out["server"]) /\ taken \in 0..read
      /\ DOMAIN out["server"] = 1..Len(out["server"])
  <2>1. PICK S : out["server"] \in Seq(S)
    BY DEF SuiteInv, OutputOK, IsSeq
  <2> QED BY <2>1 DEF SuiteInv, TypeOK
<1> SUFFICES PairOK(s)' /\ RunnerOK(s)' /\ (pc' = "raised" => fault' # {})
  BY <1>5 DEF VerdictInv
<1>7. CASE TakeEvent
  <2>1. /\ pc = "ready" /\ taken < read /\ taken' = taken + 1 /\ UNCHANGED <<server, fault>>
        /\ IF out["server"][taken'].event = "ready"
           THEN client' = "connecting" /\ pc' = "client"
           ELSE UNCHANGED <<client, pc>>
    BY <1>7 DEF TakeEvent, Goto
  <2>2. client = "none" /\ s.server
    BY <1>1, <2>1 DEF SuiteInv, Placed
  <2>3. PairOK(s)'
    BY <1>2, <1>3, <2>1, <2>2, WaitKeepsPair DEF PairStill
  <2>4. taken + 1 \in DOMAIN out["server"]
    BY <1>6, <2>1
  <2>5. out["server"][taken + 1].event = "ready" => Has(out["server"], "ready")
    BY <2>4 DEF Has, ToSet
  <2>6. \A k \in 1..taken + 1 : k \in 1..taken \/ k = taken + 1
    BY <1>6
  <2>7. RunnerOK(s)'
    BY <1>2, <1>3, <2>1, <2>2, <2>5, <2>6 DEF RunnerOK
  <2> QED BY <2>1, <2>3, <2>7
<1>8. CASE ReadyTimeout
  <2>1. /\ pc = "ready" /\ taken = read /\ pc' = "unwind" /\ UNCHANGED <<server, client>>
        /\ fault' = IF server = "exited" /\ read = Len(out["server"]) THEN fault
                    ELSE fault \cup {"late"}
    BY <1>8 DEF ReadyTimeout, Goto, TimedOut
  <2>2. fault' # {}
    <3>1. CASE server = "exited" /\ read = Len(out["server"])
      <4>1. \A k \in DOMAIN out["server"] : out["server"][k].event # "ready"
        BY <1>3, <1>6, <2>1, <3>1 DEF RunnerOK
      <4>2. ~Has(out["server"], "ready")
        BY <4>1 DEF Has, ToSet
      <4> QED BY <1>3, <2>1, <3>1, <4>2 DEF PairOK, ServerSide
    <3> QED BY <2>1, <3>1
  <2>3. PairOK(s)'
    BY <1>2, <1>3, <2>1, WaitKeepsPair DEF PairStill
  <2>4. RunnerOK(s)'
    BY <1>3, <2>1, <2>2 DEF RunnerOK
  <2> QED BY <2>1, <2>3, <2>4
<1>9. CASE ClientEnds
  <2>1. /\ pc = "client" /\ client = "exited" /\ UNCHANGED <<server, client, fault>>
        /\ pc' = IF s.server THEN "wait" ELSE "evaluate"
    BY <1>1, <1>9 DEF ClientEnds, Goto, pair
  <2>2. PairOK(s)'
    BY <1>2, <1>3, <2>1, WaitKeepsPair DEF PairStill
  <2>3. RunnerOK(s)'
    BY <1>2, <1>3, <2>1 DEF RunnerOK
  <2> QED BY <2>1, <2>2, <2>3
<1>10. CASE ClientTimeout
  <2>1. /\ pc = "client" /\ client' = "exited" /\ UNCHANGED server
        /\ pc' = IF s.server THEN "unwind" ELSE "raised"
        /\ fault' = fault \cup {"late"}
    BY <1>1, <1>10 DEF ClientTimeout, Goto, TimedOut
  <2>2. PairOK(s)'
    BY <1>2, <1>3, <2>1, WaitKeepsPair DEF PairStill
  <2>3. RunnerOK(s)'
    BY <1>2, <1>3, <2>1 DEF RunnerOK
  <2> QED BY <2>1, <2>2, <2>3
<1>11. CASE ServerEnds
  <2>1. /\ pc = "wait" /\ server = "exited" /\ UNCHANGED <<server, client, fault>>
        /\ pc' = "join"
    BY <1>11 DEF ServerEnds, Goto, pair
  <2>2. PairOK(s)'
    BY <1>2, <1>3, <2>1, WaitKeepsPair DEF PairStill
  <2>3. RunnerOK(s)'
    BY <1>2, <1>3, <2>1 DEF RunnerOK
  <2> QED BY <2>1, <2>2, <2>3
<1>12. CASE ServerTimeout
  <2>1. /\ pc = "wait" /\ pc' = "unwind" /\ UNCHANGED <<server, client>>
        /\ fault' = IF flight = <<>> /\ recv_count < s.read_messages THEN fault
                    ELSE fault \cup {"late"}
    BY <1>1, <1>12 DEF ServerTimeout, Goto, TimedOut
  <2>2. s.server
    BY <1>3, <2>1 DEF RunnerOK
  <2>3. fault' # {}
    <3> SUFFICES ASSUME flight = <<>>, recv_count < s.read_messages, fault = {}
                 PROVE  FALSE
      BY <2>1
    <3>1. client = "exited"
      BY <1>3, <2>1 DEF RunnerOK
    <3>2. s.expect_failure = {} /\ s.read_messages = Len(s.messages)
      BY <1>4, <2>2, Formed
    <3>3. sent_count = Len(s.messages)
      BY <1>3, <3>1, <3>2 DEF PairOK, ClientSide
    <3>4. InFlight = <<>> /\ Len(<<>>) = 0
      BY DEF InFlight, Noted
    <3>5. recv_count + Len(InFlight) = sent_count
      BY <1>3, <2>2 DEF PairOK, Counted
    <3>6. recv_count \in Nat /\ sent_count \in Nat
      BY <1>3, Counts
    <3> QED BY <3>2, <3>3, <3>4, <3>5, <3>6
  <2>4. PairOK(s)'
    BY <1>2, <1>3, <2>1, WaitKeepsPair DEF PairStill
  <2>5. RunnerOK(s)'
    BY <1>3, <2>1, <2>2, <2>3 DEF RunnerOK
  <2> QED BY <2>1, <2>4, <2>5
<1>13. CASE Collect
  <2>1. /\ pc = "join" /\ pc' = "terminate" /\ UNCHANGED <<server, client>> /\ collected' = read
        /\ fault' = IF read = Len(out["server"]) THEN fault ELSE fault \cup {"late"}
    BY <1>13 DEF Collect, Goto, TimedOut
  <2>2. PairOK(s)'
    BY <1>2, <1>3, <2>1, WaitKeepsPair DEF PairStill
  <2>3. fault' = {} => fault = {} /\ collected' = Len(out["server"])
    BY <2>1
  <2>4. fault # {} => fault' # {}
    BY <2>1
  <2>5. RunnerOK(s)'
    BY <1>2, <1>3, <2>1, <2>3, <2>4 DEF RunnerOK
  <2> QED BY <2>1, <2>2, <2>5
<1>14. CASE Terminate
  <2>1. /\ \/ pc = "terminate" /\ pc' = "evaluate"
           \/ pc = "unwind" /\ pc' = "raised"
        /\ server' = "exited" /\ UNCHANGED <<client, fault, collected>>
    BY <1>14 DEF Terminate, Goto
  <2>2. server' = server \/ (s.server /\ fault' # {})
    BY <1>3, <2>1 DEF RunnerOK
  <2>3. PairOK(s)'
    BY <1>2, <1>3, <2>1, <2>2, WaitKeepsPair DEF PairStill
  <2>4. RunnerOK(s)'
    BY <1>2, <1>3, <2>1 DEF RunnerOK
  <2>5. pc' = "raised" => fault' # {}
    BY <1>3, <2>1 DEF RunnerOK
  <2> QED BY <2>3, <2>4, <2>5
<1> QED BY <1>7, <1>8, <1>9, <1>10, <1>11, <1>12, <1>13, <1>14

(* A result is added: for a scenario, or for the features without one. *)
LEMMA ResultVerdict ==
    ASSUME VerdictInv, SuiteInv, evaluate_scenario \/ Report
    PROVE  VerdictInv' /\ pc' # "raised"
<1>1. CASE evaluate_scenario
  <2>1. PICK r : results' = Append(results, r)
    BY <1>1 DEF evaluate_scenario
  <2>2. pc = "evaluate" /\ pc' = "next" /\ UNCHANGED selection
    BY <1>1 DEF evaluate_scenario, Goto, Settings
  <2>3. Len(results) \in Nat /\ Len(results') = Len(results) + 1
    BY <2>1, AppendIsSeq, LenOfSeq DEF SuiteInv
  <2>4. Len(results) < Len(selection) /\ selection \in Seq(Scenarios)
    BY <2>2 DEF VerdictInv, Selected, Running
  <2>5. Len(results') <= Len(selection)
    <3>1. Len(selection) \in Nat
      BY <2>4
    <3> QED BY <2>3, <2>4, <3>1
  <2> QED BY <2>2, <2>4, <2>5 DEF VerdictInv, Selected, Running
<1>2. CASE Report
  BY <1>2 DEF Report, Goto, Settings, VerdictInv, Selected, Running
<1> QED BY <1>1, <1>2

(* Every step keeps the invariant, and raises only for a reason. *)
LEMMA StepVerdict ==
    ASSUME VerdictInv, SuiteInv, SuiteInv', [RunNext]_vars
    PROVE  VerdictInv' /\ (pc # "raised" /\ pc' = "raised" => fault' # {})
<1>1. CASE Spawn
  BY <1>1, SpawnVerdict DEF Spawn, Goto
<1>2. CASE \/ TakeEvent \/ ReadyTimeout \/ ClientEnds \/ ClientTimeout
           \/ ServerEnds \/ ServerTimeout \/ Collect \/ Terminate
  BY <1>2, WaitVerdict
<1>3. CASE evaluate_scenario \/ Report
  BY <1>3, ResultVerdict
<1>4. CASE HelpersStep
  BY <1>4, HelpersVerdict DEF HelpersStep, runner
<1>5. ASSUME UNCHANGED <<pair, selection, results, pc, taken, collected>>
      PROVE  VerdictInv' /\ (pc # "raised" /\ pc' = "raised" => fault' # {})
  <2>1. PICK s : s = scenario
    OBVIOUS
  <2>2. UNCHANGED <<server, client, out, flight, fault>>
    BY <1>5 DEF pair
  <2>3. Selected' /\ scenario' = s
    BY <1>5, <2>1, SelectedKept DEF VerdictInv, Running
  <2>4. Running => PairOK(s)'
    BY <2>1, <2>2, WaitKeepsPair DEF VerdictInv, PairStill
  <2>5. Running => RunnerOK(s)'
    BY <1>5, <2>1, <2>2 DEF VerdictInv, RunnerOK
  <2> QED BY <1>5, <2>3, <2>4, <2>5 DEF VerdictInv, Running
<1>6. CASE ReadLine
  BY <1>5, <1>6 DEF ReadLine, Settings
<1>7. CASE UNCHANGED vars
  BY <1>5, <1>7 DEF vars, runner
<1> QED BY <1>1, <1>2, <1>3, <1>4, <1>6, <1>7 DEF RunNext, RunnerStep

(* A sequence in two parts. *)
LEMMA TwoParts ==
    ASSUME NEW T, NEW q \in Seq(T), NEW n \in 0..Len(q)
    PROVE  /\ SubSeq(q, 1, n) \in Seq(T) /\ SubSeq(q, n + 1, Len(q)) \in Seq(T)
           /\ SubSeq(q, 1, n) \o SubSeq(q, n + 1, Len(q)) = q
           /\ n = Len(q) => SubSeq(q, 1, n) = q
<1> DEFINE served == SubSeq(q, 1, n)
           rest == SubSeq(q, n + 1, Len(q))
<1>1. Len(q) \in Nat /\ n \in Nat /\ n <= Len(q)
  OBVIOUS
<1>2. served \in Seq(T) /\ Len(served) = n /\ \A k \in 1..n : served[k] = q[k]
  BY <1>1
<1>3. /\ rest \in Seq(T) /\ Len(rest) = Len(q) - n
      /\ \A k \in 1..Len(q) - n : rest[k] = q[n + k]
  BY <1>1
<1>4. n = Len(q) => served = q
  <2>1. SubSeq(q, 1, Len(q)) = q
    OBVIOUS
  <2> QED BY <2>1
<1> HIDE DEF served, rest
<1>5. served \o rest \in Seq(T) /\ Len(served \o rest) = Len(q)
  <2>1. served \in Seq(T) /\ rest \in Seq(T) /\ Len(served) + Len(rest) = Len(q)
    BY <1>1, <1>2, <1>3
  <2>2. served \o rest \in Seq(T) /\ Len(served \o rest) = Len(served) + Len(rest)
    BY <2>1
  <2> QED BY <2>1, <2>2
<1>6. \A k \in 1..Len(q) : (served \o rest)[k] = q[k]
  <2> TAKE k \in 1..Len(q)
  <2>1. CASE k <= n
    <3>1. k \in 1..Len(served)
      BY <1>1, <1>2, <2>1
    <3>2. (served \o rest)[k] = served[k]
      BY <1>2, <1>3, <3>1
    <3> QED BY <1>2, <3>1, <3>2
  <2>2. CASE k > n
    <3>1. k - n \in 1..Len(rest) /\ n + (k - n) = k /\ Len(served) + (k - n) = k
      BY <1>1, <1>2, <1>3, <2>2
    <3>2. (served \o rest)[Len(served) + (k - n)] = rest[k - n]
      BY <1>2, <1>3, <3>1
    <3>3. rest[k - n] = q[n + (k - n)]
      BY <1>3, <3>1
    <3> QED BY <3>1, <3>2, <3>3
  <2>3. k <= n \/ k > n
    BY <1>1
  <2> QED BY <2>1, <2>2, <2>3
<1>7. served \o rest = q
  <2>1. \A u, v \in Seq(T) :
            Len(u) = Len(v) /\ (\A k \in 1..Len(v) : u[k] = v[k]) => u = v
    OBVIOUS
  <2> QED BY <1>5, <1>6, <2>1
<1> QED BY <1>2, <1>3, <1>4, <1>7 DEF served, rest

(* The evaluation of a scenario finds the outputs as they should be. *)
LEMMA EvaluationFindsPair ==
    ASSUME VerdictInv, SuiteInv, pc = "evaluate"
    PROVE  Evaluable(scenario, SubSeq(out["server"], 1, collected), out["client"])
<1>1. Running /\ PairOK(scenario) /\ RunnerOK(scenario) /\ OutputOK
  BY DEF VerdictInv, SuiteInv, Running
<1>2. WellFormed(scenario)
  BY <1>1, ScenarioFormed DEF VerdictInv, SuiteInv, Selected
<1>3. PICK S : out["server"] \in Seq(S)
  BY <1>1 DEF OutputOK, IsSeq
<1>4. PICK U : out["client"] \in Seq(U)
  BY <1>1 DEF OutputOK, IsSeq
<1>5. collected \in 0..Len(out["server"])
  <2>1. Len(out["server"]) \in Nat
    BY <1>3
  <2>2. read \in 0..Len(out["server"]) /\ collected \in 0..read
    BY DEF SuiteInv, TypeOK
  <2> QED BY <2>1, <2>2
<1>6. PICK T : out["server"] \in Seq(T) /\ out["client"] \in Seq(T)
  <2>1. out["server"] \in Seq(S \cup U) /\ out["client"] \in Seq(S \cup U)
    BY <1>3, <1>4
  <2> QED BY <2>1
<1>7. PICK q : q = out["server"]
  OBVIOUS
<1>8. PICK n : n = collected
  OBVIOUS
<1>9. q \in Seq(T) /\ n \in 0..Len(q)
  BY <1>5, <1>6, <1>7, <1>8
<1>10. /\ SubSeq(q, 1, n) \in Seq(T) /\ SubSeq(q, n + 1, Len(q)) \in Seq(T)
       /\ SubSeq(q, 1, n) \o SubSeq(q, n + 1, Len(q)) = q
       /\ n = Len(q) => SubSeq(q, 1, n) = q
  BY <1>9, TwoParts
<1>11. PICK served, rest : /\ served = SubSeq(q, 1, n) /\ rest = SubSeq(q, n + 1, Len(q))
  OBVIOUS
<1>12. /\ served \in Seq(T) /\ rest \in Seq(T) /\ served \o rest = q
       /\ collected = Len(out["server"]) => served = out["server"]
  BY <1>7, <1>8, <1>10, <1>11
<1>13. Prefix(served, rest)
  BY <1>7, <1>12 DEF Prefix, Cat
<1>14. Evaluable(scenario, served, out["client"])
  BY <1>1, <1>2, <1>6, <1>12, <1>13 DEF Evaluable
<1> QED BY <1>7, <1>8, <1>11, <1>14

(* What the two theorems say of a result. *)
LEMMA VerdictIsSound ==
    ASSUME VerdictInv, SuiteInv, evaluate_scenario
    PROVE  /\ Last(results').status = "pass" => fault \cap Watched(scenario) = {}
           /\ Last(results').status # "pass" => fault' # {}
<1> DEFINE served == SubSeq(out["server"], 1, collected)
           called == out["client"]
           status == Status(scenario, served, called)
           r == [scenario |-> scenario.id, features |-> scenario.required_features,
                 status |-> status]
<1>1. pc = "evaluate" /\ UNCHANGED fault /\ results' = Append(results, r)
  BY DEF evaluate_scenario, pair
<1>2. Evaluable(scenario, served, called)
  BY <1>1, EvaluationFindsPair
<1> HIDE DEF served, called
<1>3. Last(results') = r /\ r.status = status
  <2> HIDE DEF r
  <2>1. IsSeq(results) /\ Len(Append(results, r)) = Len(results) + 1
        /\ Append(results, r)[Len(results) + 1] = r
    BY AppendIsSeq DEF SuiteInv
  <2>2. Last(results') = r
    BY <1>1, <2>1 DEF Last
  <2> QED BY <2>2 DEF r
<1>4. status = "pass" => fault \cap Watched(scenario) = {}
  BY <1>2, ClientVerdict, ServerPass
<1>5. fault = {} => status = "pass"
  BY <1>2, ClientVerdict, ServerBlame
<1> QED BY <1>1, <1>3, <1>4, <1>5

-----------------------------------------------------------------------------
(* The runner's results can be relied upon: VerdictInv with SuiteInv is    *)
(* inductive, and evaluate_scenario in such a state says what happened.    *)
LEMMA VerdictAlways == RunSpec => [](SuiteInv /\ VerdictInv)
<1>1. RunInit => SuiteInv /\ VerdictInv
  BY InitSuite, InitVerdict
<1>2. SuiteInv /\ VerdictInv /\ [RunNext]_vars => (SuiteInv /\ VerdictInv)'
  BY StepSuite, StepVerdict
<1> QED BY <1>1, <1>2, PTL DEF RunSpec

(* A scenario that evaluate_scenario passes had no fault it watches for:    *)
(* no failed or unexpectedly accepted call, and nothing its assertions are  *)
(* about, for every suite, and helpers, stack and clock that do anything.   *)
(* What helper.c cannot report, the bytes after a NUL, is not among them.   *)
THEOREM SuitePassesAreEarned == RunSpec => PassIsEarned
<1>1. /\ SuiteInv /\ VerdictInv /\ [RunNext]_vars
      => [evaluate_scenario =>
             (Last(results').status = "pass" => fault \cap Watched(scenario) = {})]_vars
  BY VerdictIsSound
<1> QED BY <1>1, VerdictAlways, PTL DEF RunSpec, PassIsEarned

(* A scenario that is failed or called unsupported, and a suite that ends   *)
(* with an exception of execute, have a fault of a helper, of the stack or  *)
(* of the clock behind them, never the runner's own order of steps.         *)
THEOREM SuiteBlameIsJustified == RunSpec => BlameIsJustified
<1>1. /\ SuiteInv /\ VerdictInv /\ [RunNext]_vars
      => [(\/ evaluate_scenario /\ Last(results').status # "pass"
           \/ pc # "raised" /\ pc' = "raised") => fault' # {}]_vars
  <2> SUFFICES ASSUME SuiteInv, VerdictInv, [RunNext]_vars,
                      \/ evaluate_scenario /\ Last(results').status # "pass"
                      \/ pc # "raised" /\ pc' = "raised"
               PROVE  fault' # {}
    OBVIOUS
  <2>1. SuiteInv'
    BY StepSuite
  <2> QED BY <2>1, StepVerdict, VerdictIsSound
<1> QED BY <1>1, VerdictAlways, PTL DEF RunSpec, BlameIsJustified
=============================================================================
