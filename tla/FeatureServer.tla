----------------------------- MODULE FeatureServer -----------------------------
(***************************************************************************)
(* One session of the feature server (server/freebsd_ref/main.cpp), at the *)
(* granularity of its lock sections.                                       *)
(*                                                                         *)
(* Three kinds of detached threads touch a session:                        *)
(*   - a thread per request of the client under test, here an Agent: POST  *)
(*     start, complete, unsupported and GET of a feature;                  *)
(*   - a thread per GET of the summary or its stream, a Poller, which      *)
(*     changes the session only through maybe_timeout;                     *)
(*   - an SCTP worker per activation of a feature that has listeners.      *)
(* Everything a thread does between two lock operations is one action; a   *)
(* thread that settles a feature goes on to take, close and clear in three *)
(* further steps, as close_active_fds and clear_active_feature do.         *)
(*                                                                         *)
(* What travels on the SCTP sockets is abstracted to the verdict a worker  *)
(* reaches; texts, evidence and time stamps are left out.                  *)
(***************************************************************************)
EXTENDS Naturals, Sequences, FiniteSets

CONSTANTS
    Features,    \* ids of feature_catalog_
    Catalog,     \* the same ids in catalog order, the order SummaryJson scans
    Mode,        \* completion_mode of each feature
    Listeners,   \* listening sockets a start opens; 0 for ScenarioKind::AgentOnly
    Agents,      \* HTTP threads of the client; one for a client that runs serially
    Pollers,     \* HTTP threads serving GET summary and the summary stream
    Fds,         \* descriptor numbers available to SCTP listeners
    SlowStart,   \* may a deadline pass while StartFeature is still running?
    None         \* the empty string of active_feature_id, an empty contract_json

Modes == {"ServerObserved", "AgentReported", "Hybrid"}

(* A worker is named after the activation that spawned it: a POST thread   *)
(* activates a feature at most once, since no feature returns to Pending.  *)
Workers == Features \X Agents
Threads == Agents \cup Pollers \cup Workers

ASSUME CatalogAssumption ==
    /\ Catalog \in Seq(Features)
    /\ \A f \in Features : \E i \in DOMAIN Catalog : Catalog[i] = f
ASSUME ModeAssumption == Mode \in [Features -> Modes]
ASSUME ListenersAssumption == Listeners \in [Features -> Nat]
ASSUME ThreadAssumption ==
    /\ Agents \cap Pollers = {}
    /\ Workers \cap (Agents \cup Pollers) = {}
ASSUME SlowStartAssumption == SlowStart \in BOOLEAN
ASSUME NoneAssumption == None \notin Features

Terminal == {"Passed", "Failed", "Unsupported", "TimedOut"}
States == {"Pending", "Active"} \cup Terminal
Ops == {"start", "complete", "unsupported", "get"}

VARIABLES
    (* FeatureExecution, guarded by its mutex *)
    state, network_complete, agent_complete, active_fds, contract_json,
    expired,             \* Clock::now() >= deadline_at
    (* Session, guarded by its mutex *)
    active_feature_id,
    (* the process's descriptor table, restricted to SCTP listeners *)
    open,
    (* each thread's position and locals *)
    pc, op,
    target,              \* the execution the thread works on
    fds,                 \* local descriptors: fds / socket_info, or those taken
    finished,            \* the local `finished' of the settling functions
    return_to,           \* where the thread goes on after settling
    cursor               \* last catalog position SummaryJson has visited

execution == <<state, network_complete, agent_complete, expired>>
sockets == <<active_fds, open, fds>>
session == <<active_feature_id, contract_json>>
request == <<op, target, cursor>>
settling == <<finished, return_to>>
vars == <<execution, sockets, session, request, settling, pc>>

Pcs == {"idle", "reply", "route", "entry", "scan", "scan_read",
        "check_active", "check_pending", "open", "abort", "activate",
        "set_fds", "publish", "spawn", "contract", "complete", "unsupported",
        "take", "close", "clear", "unborn", "working", "done"}

Init ==
    /\ state = [f \in Features |-> "Pending"]
    /\ network_complete = [f \in Features |-> FALSE]
    /\ agent_complete = [f \in Features |-> FALSE]
    /\ active_fds = [f \in Features |-> {}]
    /\ contract_json = [f \in Features |-> None]
    /\ expired = [f \in Features |-> FALSE]
    /\ active_feature_id = None
    /\ open = {}
    /\ pc = [t \in Threads |-> IF t \in Workers THEN "unborn" ELSE "idle"]
    /\ op = [t \in Threads |-> "get"]
    /\ target = [t \in Threads |-> IF t \in Workers THEN t[1] ELSE None]
    /\ fds = [t \in Threads |-> {}]
    /\ finished = [t \in Threads |-> FALSE]
    /\ return_to = [t \in Threads |-> "reply"]
    /\ cursor = [t \in Threads |-> 0]

Goto(t, next) == pc' = [pc EXCEPT ![t] = next]

-----------------------------------------------------------------------------
(* Settling a feature.  Every function that ends a feature changes the     *)
(* state in one critical section, then calls close_active_fds (one section *)
(* to take the descriptors, then close() on each) and, if `finished',      *)
(* clear_active_feature.                                                   *)

\* Mutant: `finished' is never set, so nobody clears active_feature_id.
SettleWithoutClearing(t, fin, next) ==
    /\ Goto(t, "take")
    /\ return_to' = [return_to EXCEPT ![t] = next]
    /\ UNCHANGED finished

Settle(t, fin, next) ==
    /\ Goto(t, "take")
    /\ finished' = [finished EXCEPT ![t] = fin]
    /\ return_to' = [return_to EXCEPT ![t] = next]

\* Mutant: the list is copied where it should be moved.
CopyActiveFds(t) ==
    /\ pc[t] = "take"
    /\ fds' = [fds EXCEPT ![t] = active_fds[target[t]]]
    /\ Goto(t, "close")
    /\ UNCHANGED <<execution, session, request, settling, active_fds, open>>

TakeActiveFds(t) ==
    /\ pc[t] = "take"
    /\ fds' = [fds EXCEPT ![t] = active_fds[target[t]]]
    /\ active_fds' = [active_fds EXCEPT ![target[t]] = {}]
    /\ Goto(t, "close")
    /\ UNCHANGED <<execution, session, request, settling, open>>

\* close(fd) in the loops of close_active_fds and of StartFeature's error path
CloseFd(t) ==
    /\ pc[t] \in {"close", "abort"}
    /\ \E fd \in fds[t] :
        /\ open' = open \ {fd}
        /\ fds' = [fds EXCEPT ![t] = @ \ {fd}]
    /\ UNCHANGED <<execution, session, request, settling, active_fds, pc>>

\* The settling function returns to its caller; its locals die.
Return(t) ==
    /\ Goto(t, return_to[t])
    /\ finished' = [finished EXCEPT ![t] = FALSE]
    /\ return_to' = [return_to EXCEPT ![t] = "reply"]

\* the end of those loops
Closed(t) ==
    /\ fds[t] = {}
    /\ \/ pc[t] = "close" /\ finished[t] /\ Goto(t, "clear") /\ UNCHANGED settling
       \/ pc[t] = "close" /\ ~finished[t] /\ Return(t)
       \/ pc[t] = "abort" /\ Goto(t, "reply") /\ UNCHANGED settling
    /\ UNCHANGED <<execution, session, request, sockets>>

ClearActiveFeature(t) ==
    /\ pc[t] = "clear"
    /\ active_feature_id' =
           IF active_feature_id = target[t] THEN None ELSE active_feature_id
    /\ Return(t)
    /\ UNCHANGED <<execution, sockets, request, contract_json>>

\* maybe_timeout(session, execution), then `next'
MaybeTimeout(t, f, next) ==
    \/ /\ state[f] = "Active" /\ expired[f]
       /\ state' = [state EXCEPT ![f] = "TimedOut"]
       /\ Settle(t, TRUE, next)
    \/ /\ ~(state[f] = "Active" /\ expired[f])
       /\ Goto(t, next)
       /\ UNCHANGED <<state, settling>>

-----------------------------------------------------------------------------
(* HTTP requests *)

\* A thread picks up a request that names a feature of this session.
Receive(t, o, f) ==
    /\ pc[t] = "idle"
    /\ op' = [op EXCEPT ![t] = o]
    /\ target' = [target EXCEPT ![t] = f]
    /\ Goto(t, "route")
    /\ UNCHANGED <<execution, sockets, session, settling, cursor>>

\* HandleRequest calls maybe_timeout before it dispatches.
Route(t) ==
    /\ pc[t] = "route"
    /\ MaybeTimeout(t, target[t], IF op[t] = "get" THEN "reply" ELSE "entry")
    /\ UNCHANGED <<network_complete, agent_complete, expired, sockets, session, request>>

\* Each POST handler calls it again, then runs its own first check.
FirstCheck(o) ==
    CASE o = "start" -> "check_active"
      [] o = "complete" -> "complete"
      [] o = "unsupported" -> "unsupported"
      [] OTHER -> "reply"

Enter(t) ==
    /\ pc[t] = "entry"
    /\ MaybeTimeout(t, target[t], FirstCheck(op[t]))
    /\ UNCHANGED <<network_complete, agent_complete, expired, sockets, session, request>>

\* The answer is written and the thread ends; the next request is a new one.
Reply(t) ==
    /\ pc[t] = "reply"
    /\ op' = [op EXCEPT ![t] = "get"]
    /\ target' = [target EXCEPT ![t] = None]
    /\ Goto(t, "idle")
    /\ UNCHANGED <<execution, sockets, session, settling, cursor>>

\* GET summary, or one turn of the summary stream's loop
BeginSummary(t) ==
    /\ pc[t] = "idle"
    /\ Goto(t, "scan")
    /\ UNCHANGED <<execution, sockets, session, request, settling>>

\* Mutant: a summary only reads.
ScanWithoutTimeout(t) ==
    /\ pc[t] = "scan" /\ cursor[t] < Len(Catalog)
    /\ cursor' = [cursor EXCEPT ![t] = @ + 1]
    /\ target' = [target EXCEPT ![t] = Catalog[cursor[t] + 1]]
    /\ Goto(t, "scan_read")
    /\ UNCHANGED <<execution, sockets, session, settling, op>>

ScanTimeout(t) ==
    /\ pc[t] = "scan" /\ cursor[t] < Len(Catalog)
    /\ cursor' = [cursor EXCEPT ![t] = @ + 1]
    /\ target' = [target EXCEPT ![t] = Catalog[cursor[t] + 1]]
    /\ MaybeTimeout(t, Catalog[cursor[t] + 1], "scan_read")
    /\ UNCHANGED <<network_complete, agent_complete, expired, sockets, session, op>>

\* Mutant: a settled feature makes the scan skip the next one.
ScanReadSkips(t) ==
    /\ pc[t] = "scan_read"
    /\ Goto(t, "scan")
    /\ cursor' = [cursor EXCEPT ![t] = IF state[target[t]] \in Terminal THEN @ + 1 ELSE @]
    /\ UNCHANGED <<execution, sockets, session, op, target, settling>>

\* A second section reads the execution; nothing holds it to the first.
ScanRead(t) ==
    /\ pc[t] = "scan_read"
    /\ Goto(t, "scan")
    /\ UNCHANGED <<execution, sockets, session, request, settling>>

EndSummary(t) ==
    /\ pc[t] = "scan" /\ cursor[t] = Len(Catalog)
    /\ Goto(t, "idle")
    /\ cursor' = [cursor EXCEPT ![t] = 0]
    /\ target' = [target EXCEPT ![t] = None]
    /\ UNCHANGED <<execution, sockets, session, settling, op>>

-----------------------------------------------------------------------------
(* StartFeature *)

\* Mutant: the id is not looked at.
CheckNothing(t) ==
    /\ pc[t] = "check_active"
    /\ Goto(t, "check_pending")
    /\ UNCHANGED <<execution, sockets, session, request, settling>>

CheckActive(t) ==
    /\ pc[t] = "check_active"
    /\ Goto(t, IF active_feature_id = None THEN "check_pending" ELSE "reply")
    /\ UNCHANGED <<execution, sockets, session, request, settling>>

\* Mutant: a feature that has not passed may be started again.
CheckNotPassed(t) ==
    /\ pc[t] = "check_pending"
    /\ Goto(t, IF state[target[t]] \in {"Active", "Passed"} THEN "reply"
               ELSE IF Listeners[target[t]] = 0 THEN "activate" ELSE "open")
    /\ UNCHANGED <<execution, sockets, session, request, settling>>

CheckPending(t) ==
    /\ pc[t] = "check_pending"
    /\ Goto(t, IF state[target[t]] # "Pending" THEN "reply"
               ELSE IF Listeners[target[t]] = 0 THEN "activate" ELSE "open")
    /\ UNCHANGED <<execution, sockets, session, request, settling>>

\* create_listening_socket succeeds; the loop opens one socket per target.
OpenSocket(t) ==
    /\ pc[t] = "open"
    /\ \E fd \in Fds \ open :
        /\ open' = open \cup {fd}
        /\ fds' = [fds EXCEPT ![t] = @ \cup {fd}]
        /\ Goto(t, IF Cardinality(fds[t]) + 1 >= Listeners[target[t]]
                   THEN "activate" ELSE "open")
    /\ UNCHANGED <<execution, session, request, settling, active_fds>>

\* Mutant: the error is answered at once.
OpenFailsLeaking(t) ==
    /\ pc[t] = "open"
    /\ Goto(t, "reply")
    /\ UNCHANGED <<execution, sockets, session, request, settling>>

\* It fails: the sockets opened so far are closed and the answer is 409.
OpenFails(t) ==
    /\ pc[t] = "open"
    /\ Goto(t, "abort")
    /\ UNCHANGED <<execution, sockets, session, request, settling>>

\* activate_execution sets the state and the deadline, and nothing else.
ActivateExecution(t) ==
    /\ pc[t] = "activate"
    /\ state' = [state EXCEPT ![target[t]] = "Active"]
    /\ expired' = [expired EXCEPT ![target[t]] = FALSE]
    /\ Goto(t, IF Listeners[target[t]] = 0 THEN "publish" ELSE "set_fds")
    /\ UNCHANGED <<network_complete, agent_complete, sockets, session, request, settling>>

SetActiveFds(t) ==
    /\ pc[t] = "set_fds"
    /\ active_fds' = [active_fds EXCEPT ![target[t]] = fds[t]]
    /\ Goto(t, "publish")
    /\ UNCHANGED <<execution, session, request, settling, open, fds>>

PublishActiveFeature(t) ==
    /\ pc[t] = "publish"
    /\ active_feature_id' = target[t]
    /\ Goto(t, IF Listeners[target[t]] = 0 THEN "contract" ELSE "spawn")
    /\ UNCHANGED <<execution, sockets, request, settling, contract_json>>

SpawnWorker(t) ==
    /\ pc[t] = "spawn"
    /\ pc' = [pc EXCEPT ![t] = "contract", ![<<target[t], t>>] = "working"]
    /\ UNCHANGED <<execution, sockets, session, request, settling>>

\* Mutant: of several targets the contract names one.
StoreOneTarget(t) ==
    /\ pc[t] = "contract"
    /\ contract_json' = [contract_json EXCEPT ![target[t]] =
                             {fd \in fds[t] : fd = CHOOSE x \in fds[t] : TRUE}]
    /\ fds' = [fds EXCEPT ![t] = {}]
    /\ Goto(t, "reply")
    /\ UNCHANGED <<execution, request, settling, active_fds, open, active_feature_id>>

\* The contract names the sockets this start opened; then the answer is 200.
StoreContract(t) ==
    /\ pc[t] = "contract"
    /\ contract_json' = [contract_json EXCEPT ![target[t]] = fds[t]]
    /\ fds' = [fds EXCEPT ![t] = {}]
    /\ Goto(t, "reply")
    /\ UNCHANGED <<execution, request, settling, active_fds, open, active_feature_id>>

-----------------------------------------------------------------------------
(* CompleteFeature and UnsupportedFeature.  valid: the body parses and, for *)
(* a one-to-many feature, carries two distinct association ids.             *)

Reject(t) == /\ Goto(t, "reply")
             /\ UNCHANGED <<state, agent_complete, settling>>

\* Mutants: the report decides alone; it never decides a Hybrid feature.
AgentDecides(f) == TRUE
AgentNeverDecides(f) == Mode[f] = "AgentReported"

AgentEvidenceSuffices(f) == Mode[f] = "AgentReported" \/ network_complete[f]

CompleteFeature(t, valid) ==
    LET f == target[t]
        accepts == valid /\ state[f] = "Active" /\ Mode[f] # "ServerObserved"
    IN  /\ pc[t] = "complete"
        /\ \/ ~accepts /\ Reject(t)
           \/ /\ accepts
              /\ agent_complete' = [agent_complete EXCEPT ![f] = TRUE]
              /\ \/ /\ AgentEvidenceSuffices(f)
                    /\ state' = [state EXCEPT ![f] = "Passed"]
                    /\ Settle(t, TRUE, "reply")
                 \/ /\ ~AgentEvidenceSuffices(f)
                    /\ Goto(t, "reply")
                    /\ UNCHANGED <<state, settling>>
        /\ UNCHANGED <<network_complete, expired, sockets, session, request>>

\* Mutant: only the first of the two checks
NotPassed(f) == state[f] # "Passed"

MayBeUnsupported(f) == state[f] \in {"Pending", "Active"}

UnsupportedFeature(t, valid) ==
    LET f == target[t]
        accepts == valid /\ MayBeUnsupported(f)
    IN  /\ pc[t] = "unsupported"
        /\ \/ ~accepts /\ Reject(t)
           \/ /\ accepts
              /\ state' = [state EXCEPT ![f] = "Unsupported"]
              /\ Settle(t, TRUE, "reply")
              /\ UNCHANGED agent_complete
        /\ UNCHANGED <<network_complete, expired, sockets, session, request>>

-----------------------------------------------------------------------------
(* SCTP workers: the loop ends in mark_failed or in mark_network_complete, *)
(* both of which do nothing unless the feature is still Active.            *)

MarkFailed(w) ==
    LET f == target[w] IN
    /\ pc[w] = "working"
    /\ \/ /\ state[f] = "Active"
          /\ state' = [state EXCEPT ![f] = "Failed"]
          /\ Settle(w, TRUE, "done")
       \/ /\ state[f] # "Active"
          /\ Goto(w, "done")
          /\ UNCHANGED <<state, settling>>
    /\ UNCHANGED <<network_complete, agent_complete, expired, sockets, session, request>>

\* Mutant: the server's observation decides alone.
NetworkDecides(f) == TRUE

NetworkEvidenceSuffices(f) == Mode[f] = "ServerObserved" \/ agent_complete[f]

MarkNetworkComplete(w) ==
    LET f == target[w]
        passes == NetworkEvidenceSuffices(f)
    IN  /\ pc[w] = "working"
        /\ \/ /\ state[f] = "Active"
              /\ network_complete' = [network_complete EXCEPT ![f] = TRUE]
              /\ state' = IF passes THEN [state EXCEPT ![f] = "Passed"] ELSE state
              /\ Settle(w, passes, "done")
           \/ /\ state[f] # "Active"
              /\ Goto(w, "done")
              /\ UNCHANGED <<state, network_complete, settling>>
        /\ UNCHANGED <<agent_complete, expired, sockets, session, request>>

-----------------------------------------------------------------------------
\* StartFeature's window between activate_execution and its answer
Starting(t) == pc[t] \in {"set_fds", "publish", "spawn", "contract"}

\* The deadline passes.  Timeouts are 20 s or more: unless SlowStart, a start
\* has answered by then.
Expire(f) ==
    /\ state[f] = "Active" /\ ~expired[f]
    /\ SlowStart \/ \A t \in Agents : ~(Starting(t) /\ target[t] = f)
    /\ expired' = [expired EXCEPT ![f] = TRUE]
    /\ UNCHANGED <<state, network_complete, agent_complete, sockets, session,
                   request, settling, pc>>

SettleStep(t) ==
    \/ TakeActiveFds(t) \/ CloseFd(t) \/ Closed(t) \/ ClearActiveFeature(t)

StartStep(t) ==
    \/ CheckActive(t) \/ CheckPending(t) \/ OpenSocket(t) \/ OpenFails(t)
    \/ ActivateExecution(t) \/ SetActiveFds(t) \/ PublishActiveFeature(t)
    \/ SpawnWorker(t) \/ StoreContract(t)

ReportStep(t) ==
    \E valid \in BOOLEAN : CompleteFeature(t, valid) \/ UnsupportedFeature(t, valid)

RequestStep(a) ==
    Route(a) \/ Enter(a) \/ StartStep(a) \/ ReportStep(a) \/ Reply(a)

ScanStep(p) == BeginSummary(p) \/ ScanTimeout(p) \/ ScanRead(p) \/ EndSummary(p)

WorkerStep(w) == MarkFailed(w) \/ MarkNetworkComplete(w)

Next ==
    \/ \E a \in Agents, o \in Ops, f \in Features : Receive(a, o, f)
    \/ \E a \in Agents : RequestStep(a)
    \/ \E p \in Pollers : ScanStep(p)
    \/ \E w \in Workers : WorkerStep(w)
    \/ \E t \in Threads : SettleStep(t)
    \/ \E f \in Features : Expire(f)

Spec == Init /\ [][Next]_vars

(* Threads that have a step to take run; time passes; the summary stream   *)
(* keeps scanning.  Nothing makes a client send a request or SCTP traffic. *)
Fairness ==
    /\ \A a \in Agents : WF_vars(RequestStep(a))
    /\ \A p \in Pollers : WF_vars(ScanStep(p))
    /\ \A t \in Threads : WF_vars(SettleStep(t))
    /\ \A f \in Features : WF_vars(Expire(f))

FairSpec == Spec /\ Fairness

-----------------------------------------------------------------------------
(* Correctness *)

TypeOK ==
    /\ state \in [Features -> States]
    /\ network_complete \in [Features -> BOOLEAN]
    /\ agent_complete \in [Features -> BOOLEAN]
    /\ expired \in [Features -> BOOLEAN]
    /\ active_fds \in [Features -> SUBSET Fds]
    /\ contract_json \in [Features -> (SUBSET Fds) \cup {None}]
    /\ active_feature_id \in Features \cup {None}
    /\ open \in SUBSET Fds
    /\ pc \in [Threads -> Pcs]
    /\ op \in [Threads -> Ops]
    /\ target \in [Threads -> Features \cup {None}]
    /\ fds \in [Threads -> SUBSET Fds]
    /\ finished \in [Threads -> BOOLEAN]
    /\ return_to \in [Threads -> Pcs]
    /\ cursor \in [Threads -> 0..Len(Catalog)]

\* the descriptors a thread is the only one to close
Owned(t) ==
    IF pc[t] \in {"open", "abort", "activate", "set_fds", "close"} THEN fds[t] ELSE {}

(* Nobody closes a descriptor twice or one that is not his: each listener  *)
(* belongs to one closing thread or to one execution, never to two, and is *)
(* open.  take_active_fds empties the list under the lock, so a worker, a  *)
(* POST and a poller that all settle a feature cannot close the same       *)
(* number, which another feature may meanwhile have been given.            *)
DescriptorOwnership ==
    /\ \A t \in Threads : Owned(t) \subseteq open
    /\ \A f \in Features : active_fds[f] \subseteq open
    /\ \A t, u \in Threads : t # u => Owned(t) \cap Owned(u) = {}
    /\ \A f, g \in Features : f # g => active_fds[f] \cap active_fds[g] = {}
    /\ \A t \in Threads, f \in Features : Owned(t) \cap active_fds[f] = {}

(* "The server allows one active feature at a time per session"            *)
(* (docs/agent-http-api.md): StartFeature's check of active_feature_id.    *)
AtMostOneActive ==
    \A f, g \in Features : state[f] = "Active" /\ state[g] = "Active" => f = g

(* A thread is still to clear active_feature_id of f. *)
Clearing(f) ==
    \E t \in Threads : target[t] = f /\ finished[t] /\ pc[t] \in {"take", "close", "clear"}

(* The session is never wedged: StartFeature refuses with "another feature *)
(* is already active in this session" only while the named feature really  *)
(* is active, or the thread that ended it is about to clear the id.        *)
RefusalIsJustified ==
    active_feature_id # None =>
        state[active_feature_id] = "Active" \/ Clearing(active_feature_id)

(* "Active SCTP sockets are closed immediately when a feature becomes      *)
(* failed, unsupported, or timed_out": a settled feature keeps sockets only*)
(* while the settling thread is on its way to take them.                   *)
SettledSocketsClosed ==
    \A f \in Features :
        state[f] \in Terminal /\ active_fds[f] # {} =>
            \E t \in Threads : target[t] = f /\ pc[t] = "take"

(* Every open listener is one that somebody will close: the error path of  *)
(* the multi-target start, or whoever settles the feature.                 *)
NoLeak ==
    open = (UNION {Owned(t) : t \in Threads}) \cup (UNION {active_fds[f] : f \in Features})

(* A pass and the evidence the completion mode asks for imply each other:  *)
(* no pass is unearned, and when the worker and POST complete race for a   *)
(* Hybrid feature the second of them never misses the first.               *)
PassedIsEarned ==
    \A f \in Features : state[f] = "Passed" =>
        /\ Mode[f] # "AgentReported" => network_complete[f]
        /\ Mode[f] # "ServerObserved" => agent_complete[f]

EvidenceDecides ==
    \A f \in Features :
        /\ Mode[f] # "AgentReported" => network_complete[f]
        /\ Mode[f] # "ServerObserved" => agent_complete[f]
        => state[f] = "Passed"

(* The contract the client was given names the sockets the server listens  *)
(* on for as long as the feature waits for traffic.                        *)
ContractNamesListeners ==
    \A f \in Features :
        /\ state[f] = "Active" /\ ~network_complete[f]
        /\ \A t \in Agents : ~(Starting(t) /\ target[t] = f)
        => contract_json[f] = active_fds[f]

(* A verdict is final: "feature already passed and cannot be marked        *)
(* unsupported", "feature is already in a terminal state".                 *)
VerdictIsFinal ==
    [][\A f \in Features : state[f] \in Terminal => state'[f] = state[f]]_vars

(* activate_execution resets no flag, so a start relies on finding the     *)
(* execution as the constructor left it, and on nobody else running.       *)
ActivationIsFresh ==
    [][\A f \in Features : state[f] # "Active" /\ state'[f] = "Active" =>
        /\ ~network_complete[f] /\ ~agent_complete[f] /\ active_fds[f] = {}
        /\ \A t \in Agents : pc[<<f, t>>] = "unborn"
        /\ active_feature_id = None]_vars

(* With the summary polled, a feature does not stay active: the lazily     *)
(* applied deadline is noticed by a scan.                                  *)
FeatureSettles == \A f \in Features : state[f] = "Active" ~> state[f] # "Active"

(* and the session becomes free for the next start.                        *)
SlotIsFreed == active_feature_id # None ~> active_feature_id = None

(* The session implements the lifecycle promised to the client. *)
Lifecycle == INSTANCE FeatureLifecycle WITH
    verdict <- state,
    evidence <- [f \in Features |->
        {who \in {"network", "agent"} : IF who = "network" THEN network_complete[f]
                                                          ELSE agent_complete[f]}]

LifecycleSpec == Lifecycle!Spec
=============================================================================
