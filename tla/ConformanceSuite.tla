---------------------------- MODULE ConformanceSuite ----------------------------
(***************************************************************************)
(* The Python runner: run_suite takes the scenarios one after another,     *)
(* execute runs the helpers of a scenario as processes, a thread reads the *)
(* server's output, evaluate_scenario makes a result of the events.  Every *)
(* wait has a timeout, and a timeout is an exception nobody catches.       *)
(***************************************************************************)
EXTENDS HelperPair, FiniteSets

CONSTANTS
    Suite,           \* the scenarios of core.json, in order
    Requirements,    \* what its required_features may be
    Unsupported,     \* the errors whose text has one of UNSUPPORTED_MARKERS
    MaxNamed         \* bound: how many scenarios the command line names

ASSUME SuiteAssumption == Suite \in Seq(ToSet(Suite))

\* A scenario as core.json writes them: messages that can be told apart; with a
\* server, it reads them all, counts them, and fails for nothing it expects.
WellFormed(s) ==
    /\ s.messages \in Seq(ToSet(s.messages)) /\ s.messages # <<>>
    /\ \A m \in ToSet(s.messages) :
        /\ m # Notification /\ DOMAIN m = {"payload", "meta"}
        /\ m.payload # Wrong /\ m.meta # Wrong
    /\ \A j, k \in DOMAIN s.messages :
        s.messages[j].payload = s.messages[k].payload => j = k
    /\ s.assertions \subseteq {"lost", "payload", "meta", "notify", "local_addrs", "peer_addrs"}
    /\ s.server =>
        /\ s.expect_failure = {} /\ s.read_messages = Len(s.messages)
        /\ "lost" \in s.assertions
        /\ "notify" \in s.assertions => s.subscribe
        /\ "peer_addrs" \in s.assertions => s.emit_peer_addrs
    /\ ~s.server =>
        /\ s.expect_failure \in (SUBSET {"connect", "send"}) \ {{}}
        /\ s.assertions = {} /\ Len(s.messages) = 1

ASSUME ScenariosAssumption == \A s \in ToSet(Suite) : WellFormed(s)
ASSUME UnsupportedAssumption == Unsupported \subseteq Errors
ASSUME MaxNamedAssumption == MaxNamed \in Nat

VARIABLES
    selection,       \* the scenarios to run
    whole,           \* no scenario was named on the command line
    required,        \* required_features
    results,         \* the results so far
    pc,              \* where the runner is
    read,            \* lines of the server's output its reader thread has read
    taken,           \* events wait_for_event has taken from the queue
    collected        \* lines in the server's CompletedCommand

runner == <<selection, whole, required, results, pc, read, taken, collected>>
vars == <<pair, runner>>

Places == {"next", "ready", "client", "wait", "join", "terminate", "unwind",
           "evaluate", "coverage", "returned", "raised"}

Scenarios == ToSet(Suite)
scenario == selection[Len(results) + 1]

RunInit ==
    /\ PairInit
    /\ \/ whole = TRUE /\ selection = Suite
       \/ whole = FALSE /\ \E wanted \in SUBSET Scenarios :
              /\ Cardinality(wanted) <= MaxNamed
              /\ selection = Kept(Suite, {k \in DOMAIN Suite : Suite[k] \in wanted})
    /\ required \in Requirements
    /\ results = <<>>
    /\ pc = "next"
    /\ read = 0 /\ taken = 0 /\ collected = 0

Goto(place) == pc' = place

Settings == <<selection, whole, required>>

\* A timeout is nobody's fault but the clock's, unless there was nothing to wait for.
TimedOut(stuck) == fault' = IF stuck THEN fault ELSE fault \cup {"late"}

-----------------------------------------------------------------------------
\* Mutant: one reader serves all the scenarios, its line count is kept.
SpawnKeepingReader ==
    /\ pc = "next" /\ Len(results) < Len(selection)
    /\ IF scenario.server THEN server' = "setup" /\ client' = "none" /\ Goto("ready")
                          ELSE server' = "none" /\ client' = "connecting" /\ Goto("client")
    /\ out' = [role \in {"server", "client"} |-> <<>>]
    /\ flight' = <<>>
    /\ fault' = {}
    /\ UNCHANGED <<Settings, results, read, taken, collected>>

\* execute: the server is spawned, or the client if there is no server.
Spawn ==
    /\ pc = "next" /\ Len(results) < Len(selection)
    /\ IF scenario.server THEN server' = "setup" /\ client' = "none" /\ Goto("ready")
                          ELSE server' = "none" /\ client' = "connecting" /\ Goto("client")
    /\ out' = [role \in {"server", "client"} |-> <<>>]
    /\ flight' = <<>>
    /\ fault' = {}
    /\ read' = 0 /\ taken' = 0 /\ collected' = 0
    /\ UNCHANGED <<Settings, results>>

\* The thread _read_stdout; every line is an event and goes to the queue.
ReadLine ==
    /\ read < Len(out["server"])
    /\ read' = read + 1
    /\ UNCHANGED <<pair, Settings, results, pc, taken, collected>>

\* wait_for_event("ready") takes the next event; the ready one starts the client.
TakeEvent ==
    /\ pc = "ready" /\ taken < read
    /\ taken' = taken + 1
    /\ IF out["server"][taken'].event = "ready"
       THEN client' = "connecting" /\ Goto("client")
       ELSE UNCHANGED <<client, pc>>
    /\ UNCHANGED <<server, out, flight, fault, Settings, results, read, collected>>

\* ... or ten seconds pass with the queue empty.
ReadyTimeout ==
    /\ pc = "ready" /\ taken = read
    /\ Goto("unwind")
    /\ TimedOut(server = "exited" /\ read = Len(out["server"]))
    /\ UNCHANGED <<server, client, out, flight, Settings, results, read, taken, collected>>

\* executor.run returns when the client has ended.
ClientEnds ==
    /\ pc = "client" /\ client = "exited"
    /\ Goto(IF scenario.server THEN "wait" ELSE "evaluate")
    /\ UNCHANGED <<pair, Settings, results, read, taken, collected>>

\* Mutant: executor.run is called without a timeout.
RunUntimed == FALSE

\* ... or kills it after its timeout and raises.
ClientTimeout ==
    /\ pc = "client" /\ client # "exited"
    /\ client' = "exited"
    /\ Goto(IF scenario.server THEN "unwind" ELSE "raised")
    /\ TimedOut(FALSE)
    /\ UNCHANGED <<server, out, flight, Settings, results, read, taken, collected>>

\* server.wait: the process has ended ...
ServerEnds ==
    /\ pc = "wait" /\ server = "exited"
    /\ Goto("join")
    /\ UNCHANGED <<pair, Settings, results, read, taken, collected>>

\* ... or it raises after its timeout.
ServerTimeout ==
    /\ pc = "wait" /\ server # "exited"
    /\ Goto("unwind")
    /\ TimedOut(flight = <<>> /\ recv_count < scenario.read_messages)
    /\ UNCHANGED <<server, client, out, flight, Settings, results, read, taken, collected>>

\* Mutant: the output is taken as it is when the process has ended.
CollectUnjoined ==
    /\ pc = "join"
    /\ collected' = read
    /\ Goto("terminate")
    /\ UNCHANGED <<pair, Settings, results, read, taken>>

\* The reader is joined for a second; what it has read by then is the output.
Collect ==
    /\ pc = "join"
    /\ collected' = read
    /\ Goto("terminate")
    /\ TimedOut(read = Len(out["server"]))
    /\ UNCHANGED <<server, client, out, flight, Settings, results, read, taken>>

\* Mutant: terminate is called only when nothing was raised.
TerminateUnlessRaised ==
    /\ \/ pc = "terminate" /\ Goto("evaluate") /\ server' = "exited"
       \/ pc = "unwind" /\ Goto("raised") /\ UNCHANGED server
    /\ UNCHANGED <<client, out, flight, fault, Settings, results, read, taken, collected>>

\* finally: server.terminate(), with SIGKILL if need be.
Terminate ==
    /\ \/ pc = "terminate" /\ Goto("evaluate")
       \/ pc = "unwind" /\ Goto("raised")
    /\ server' = "exited"
    /\ UNCHANGED <<client, out, flight, fault, Settings, results, read, taken, collected>>

-----------------------------------------------------------------------------
Args(events) == [k \in DOMAIN events |-> events[k].arg]
Field(messages, part) == [k \in DOMAIN messages |-> messages[k][part]]

\* The event named first has all the addresses the scenario counts on.
ListsAll(events, e) == matching_events(events, e) # <<>> /\ matching_events(events, e)[1].arg = "all"

\* Mutant: the payloads are not compared.
AssertionsButPayload(s, served, called) ==
    LET received == Args(matching_events(served, "recv")) IN
    /\ "lost" \in s.assertions => Len(received) = Len(s.messages)
    /\ "meta" \in s.assertions => Field(received, "meta") = Field(s.messages, "meta")
    /\ "notify" \in s.assertions => matching_events(served, "notify") # <<>>
    /\ "local_addrs" \in s.assertions => ListsAll(served, "ready")
    /\ "peer_addrs" \in s.assertions => ListsAll(called, "peer_addrs")

\* What a scenario asserts is named for the fault it is to find; a count, a
\* list of payloads or of streams and PPIDs is that of the client's messages.
AssertionsHold(s, served, called) ==
    LET received == Args(matching_events(served, "recv")) IN
    /\ "lost" \in s.assertions => Len(received) = Len(s.messages)
    /\ "payload" \in s.assertions => Field(received, "payload") = Field(s.messages, "payload")
    /\ "meta" \in s.assertions => Field(received, "meta") = Field(s.messages, "meta")
    /\ "notify" \in s.assertions => matching_events(served, "notify") # <<>>
    /\ "local_addrs" \in s.assertions => ListsAll(served, "ready")
    /\ "peer_addrs" \in s.assertions => ListsAll(called, "peer_addrs")

\* The first error decides, then the expected failure, then the assertions.
Status(s, served, called) ==
    LET errors == matching_events(served \o called, "error")
        failures == matching_events(served \o called, "expected_failure")
    IN  CASE errors # <<>> -> IF errors[1].arg \in Unsupported THEN "unsupported" ELSE "fail"
          [] errors = <<>> /\ s.expect_failure # {} ->
                 IF failures # <<>> /\ failures[1].arg \in s.expect_failure THEN "pass" ELSE "fail"
          [] OTHER -> IF AssertionsHold(s, served, called) THEN "pass" ELSE "fail"

evaluate_scenario ==
    /\ pc = "evaluate"
    /\ results' = Append(results, [scenario |-> scenario.id, features |-> scenario.required_features,
                                   status |-> Status(scenario, SubSeq(out["server"], 1, collected),
                                                     out["client"])])
    /\ Goto("next")
    /\ UNCHANGED <<pair, Settings, read, taken, collected>>

missing_required_features == required \ UNION {r.features : r \in ToSet(results)}

\* A whole run gets one more, failed, result if some feature has no scenario.
Report ==
    /\ pc = "next" /\ Len(results) = Len(selection)
    /\ results' = IF whole /\ missing_required_features # {}
                  THEN Append(results, [scenario |-> "coverage", features |-> {}, status |-> "fail"])
                  ELSE results
    /\ Goto("returned")
    /\ UNCHANGED <<pair, Settings, read, taken, collected>>

\* Mutant: only the last result decides.
LastDecides == IF results # <<>> /\ Last(results).status = "fail" THEN 1 ELSE 0

\* What run_suite returns.
exit_code == IF \E r \in ToSet(results) : r.status = "fail" THEN 1 ELSE 0

-----------------------------------------------------------------------------
RunnerStep ==
    \/ Spawn \/ TakeEvent \/ ReadyTimeout \/ ClientEnds \/ ClientTimeout
    \/ ServerEnds \/ ServerTimeout \/ Collect \/ Terminate
    \/ evaluate_scenario \/ Report

HelpersStep ==
    /\ server \in {"setup", "reading"} \/ client \in {"connecting", "sending"}
    /\ PairStep(scenario)
    /\ UNCHANGED runner

RunNext == RunnerStep \/ ReadLine \/ HelpersStep

\* Nothing is assumed of the helpers or of the stack.
RunSpec == RunInit /\ [][RunNext]_vars /\ WF_vars(RunnerStep)

-----------------------------------------------------------------------------
Faults == {"setup", "connect", "send", "recv", "accepted", "crash", "late", "order",
           "lost", "notify", "payload", "tail", "meta", "local_addrs", "peer_addrs"}

\* The values the variables take; a reader, a queue and a result never run ahead.
TypeOK ==
    /\ server \in {"none", "setup", "reading", "exited"}
    /\ client \in {"none", "connecting", "sending", "exited"}
    /\ fault \subseteq Faults
    /\ pc \in Places
    /\ read \in 0..Len(out["server"]) /\ taken \in 0..read /\ collected \in 0..read
    /\ \A r \in ToSet(results) : r.status \in {"pass", "fail", "unsupported"}

\* What is wrong with a list of payloads, as far as the helper can tell.
PayloadFaults == {"payload", "order"} \cup (IF Helper = "c" THEN {} ELSE {"tail"})

\* The faults a scenario is there to find: a call that fails or succeeds
\* against expectation, and whatever else its assertions are about.
Watched(s) ==
    {"setup", "connect", "send", "recv", "accepted"} \cup s.assertions
        \cup IF "payload" \in s.assertions THEN PayloadFaults ELSE {}

(* A stack that did anything wrong the scenario watches for does not pass,  *)
(* whatever the timing of processes, reader thread and timeouts.  Payloads  *)
(* are watched as the helper reports them: by helper.c up to a NUL, so that *)
(* padding a stack leaves behind a payload does pass.                       *)
PassIsEarned ==
    [][evaluate_scenario =>
           (Last(results').status = "pass" => fault \cap Watched(scenario) = {})]_vars

(* Conversely, a scenario is failed, called unsupported or abandoned with   *)
(* an exception only if something did go wrong: the runner's own order of   *)
(* spawning, waiting, joining and terminating never is the cause.           *)
BlameIsJustified ==
    [][(\/ evaluate_scenario /\ Last(results').status # "pass"
        \/ pc # "raised" /\ pc' = "raised") => fault' # {}]_vars

(* No helper outlives its scenario, not even when an exception ends the     *)
(* suite: a local server left behind would keep its address.  Of a remote   *)
(* helper this says that the ssh client that stands for it is gone.         *)
NoHelperLeft ==
    pc \in {"next", "evaluate", "returned", "raised"} =>
        server \in {"none", "exited"} /\ client \in {"none", "exited"}

(* An exit code of 0 of a whole run means that each required feature was    *)
(* tried by a scenario, and that it passed or is not supported.             *)
GreenMeansCovered ==
    pc = "returned" /\ whole /\ exit_code = 0 =>
        \A f \in required : \E s \in Scenarios :
            /\ f \in s.required_features
            /\ \E r \in ToSet(results) : r.scenario = s.id /\ r.status # "fail"

(* The suite comes to an end, be it by an exception, even with helpers that *)
(* hang: every wait of execute has a timeout.                               *)
SuiteEnds == <>(pc \in {"returned", "raised"})
=============================================================================
