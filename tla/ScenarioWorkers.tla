---------------------------- MODULE ScenarioWorkers ----------------------------
(***************************************************************************)
(* The SCTP worker threads of the feature server, message by message and   *)
(* against the clock: run_receive_worker, run_pr_receive_worker,           *)
(* run_receive_multi_target_worker and run_send_after_trigger_worker.      *)
(*                                                                         *)
(* One feature is active and its worker runs; the client sends traffic to  *)
(* the listeners and may report completion; a poller may apply the         *)
(* deadline.  FeatureServer abstracts a worker to the verdict it reaches;  *)
(* this module says which traffic leads to which verdict.  Time is counted *)
(* in ticks; the deadline and SO_RCVTIMEO are both timeout_seconds long.   *)
(* A verdict, the closing of the listeners and the clearing of the session *)
(* are one step here, FeatureServer has their interleavings.               *)
(***************************************************************************)
EXTENDS FeatureCatalog

CONSTANTS
    Definitions,     \* the features to consider
    Strays,          \* messages a client may send that no feature asks for
    CutAtNul,        \* for payloads with a NUL in them: what precedes the first
    Timeout,         \* timeout_seconds, in ticks
    MaxArrivals      \* bound on the messages and notifications that arrive

\* What the workers take for granted: something to receive or a trigger; for
\* PR-SCTP a first message to skip and another one to end with; a listener for
\* each message of a one-to-many feature.
ASSUME DefinitionsAssumption ==
    \A d \in Definitions :
        LET expected == d.client_send_messages IN
        CASE d.scenario_kind = "ReceiveMessages" -> expected # <<>>
          [] d.scenario_kind = "ReceivePRMessages" ->
                /\ Len(expected) >= 2
                /\ Materialize(expected[1]) # Materialize(expected[Len(expected)])
          [] d.scenario_kind = "ReceiveMessagesMultiTarget" ->
                expected # <<>> /\ d.expected_associations = Len(expected)
          [] d.scenario_kind = "SendAfterTrigger" -> d.trigger_payload # ""
          [] OTHER -> d.completion_mode = "AgentReported"
ASSUME DefinitionTypes ==
    \A d \in Definitions :
        /\ d.client_send_messages \in Seq(MessageSpec)
        /\ d.server_send_messages \in Seq(MessageSpec)
        /\ d.scenario_kind \in {"AgentOnly", "ReceiveMessages", "ReceivePRMessages",
                               "ReceiveMessagesMultiTarget", "SendAfterTrigger"}
ASSUME CutAssumption == \A p \in DOMAIN CutAtNul : CutAtNul[p] \notin DOMAIN CutAtNul
ASSUME BoundsAssumption == MaxArrivals \in Nat /\ Timeout \in Nat \ {0}

\* Each of the at most MaxArrivals + 1 calls of sctp_recvv returns by then.
Horizon == Timeout * (MaxArrivals + 1)

\* what sctp_recvv returns with MSG_NOTIFICATION set
Notification == Msg("notification", 0, 0)

Terminal == {"Passed", "Failed", "Unsupported", "TimedOut"}

VARIABLES
    definition,          \* of the active feature
    now,                 \* ticks since activate_execution
    state, network_complete, agent_complete,
    reason,              \* class of the failure message, "" if none
    listening,           \* the listeners are open
    queue,               \* per listener, what has arrived and is not yet read
    arrived,             \* number of arrivals so far
    read,                \* history: per listener, the data messages read
    pc,                  \* the worker: "recv", "send" or "done"
    socket,              \* the listener it reads from
    waiting_since,       \* when it called sctp_recvv
    saw_skipped, saw_final,
    replied              \* server messages sent

execution == <<state, network_complete, agent_complete, reason, listening>>
network == <<queue, arrived>>
worker == <<pc, socket, waiting_since, saw_skipped, saw_final, replied, read>>
vars == <<definition, now, execution, network, worker>>

kind == definition.scenario_kind
mode == definition.completion_mode
Expected == definition.client_send_messages
Replies == Len(definition.server_send_messages)
Trigger == Msg(definition.trigger_payload, 0, 0)

Skipped == Materialize(Expected[1])
Final == Materialize(Expected[Len(Expected)])

\* the listeners StartFeature has opened
Targets ==
    CASE kind = "AgentOnly" -> {}
      [] kind = "ReceiveMessagesMultiTarget" -> 1..definition.expected_associations
      [] OTHER -> {1}

Asked == {Expected[i] : i \in DOMAIN Expected}
         \cup (IF kind = "SendAfterTrigger" THEN {Trigger} ELSE {})
Traffic == Asked \cup Strays

Init ==
    /\ definition \in Definitions
    /\ now = 0
    /\ state = "Active" /\ reason = ""
    /\ network_complete = FALSE /\ agent_complete = FALSE
    /\ listening = (Targets # {})
    /\ queue = [i \in Targets |-> <<>>]
    /\ arrived = 0
    /\ read = [i \in Targets |-> <<>>]
    /\ pc = (IF Targets = {} THEN "done" ELSE "recv")
    /\ socket = 1 /\ waiting_since = 0
    /\ saw_skipped = FALSE /\ saw_final = FALSE
    /\ replied = 0

-----------------------------------------------------------------------------
(* mark_failed, mark_network_complete and maybe_timeout *)

MarkFailed(why) ==
    \/ /\ state = "Active"
       /\ state' = "Failed" /\ reason' = why /\ listening' = FALSE
       /\ UNCHANGED <<network_complete, agent_complete>>
    \/ state # "Active" /\ UNCHANGED execution

MarkNetworkComplete ==
    \/ /\ state = "Active"
       /\ network_complete' = TRUE /\ listening' = FALSE
       /\ state' = IF mode = "ServerObserved" \/ agent_complete THEN "Passed" ELSE state
       /\ UNCHANGED <<agent_complete, reason>>
    \/ state # "Active" /\ UNCHANGED execution

Overdue == state = "Active" /\ now >= Timeout

Poll ==
    /\ Overdue
    /\ state' = "TimedOut" /\ listening' = FALSE
    /\ UNCHANGED <<definition, now, network_complete, agent_complete, reason, network, worker>>

\* POST complete on a feature that is still active and not overdue
Report ==
    /\ state = "Active" /\ ~Overdue /\ mode # "ServerObserved"
    /\ agent_complete' = TRUE
    /\ \/ /\ mode = "AgentReported" \/ network_complete
          /\ state' = "Passed" /\ listening' = FALSE
       \/ /\ mode # "AgentReported" /\ ~network_complete
          /\ UNCHANGED <<state, listening>>
    /\ UNCHANGED <<definition, now, network_complete, reason, network, worker>>

\* POST unsupported, likewise
Decline ==
    /\ state = "Active" /\ ~Overdue
    /\ state' = "Unsupported" /\ listening' = FALSE
    /\ UNCHANGED <<definition, now, network_complete, agent_complete, reason, network, worker>>

-----------------------------------------------------------------------------
(* The client's traffic and the clock *)

Arrive(i, m) ==
    /\ listening /\ arrived < MaxArrivals
    /\ arrived' = arrived + 1
    /\ queue' = [queue EXCEPT ![i] = Append(@, m)]
    /\ UNCHANGED <<definition, now, execution, worker>>

\* A call of sctp_recvv returns at its timeout at the latest.
Tick ==
    /\ now < Horizon
    /\ ~(pc = "recv" /\ now >= waiting_since + Timeout)
    /\ now' = now + 1
    /\ UNCHANGED <<definition, execution, network, worker>>

-----------------------------------------------------------------------------
(* The worker's loop.  Each turn calls sctp_recvv anew, with a new timeout. *)

Incoming == Head(queue[socket])

\* sctp_recvv returns what arrived first on the socket.
Receive ==
    /\ pc = "recv" /\ listening
    /\ queue[socket] # <<>>
    /\ queue' = [queue EXCEPT ![socket] = Tail(@)]
    /\ waiting_since' = now
    /\ UNCHANGED <<definition, now, arrived>>

ReceiveData ==
    /\ Receive
    /\ Incoming # Notification
    /\ read' = [read EXCEPT ![socket] = Append(@, Incoming)]

SkipNotification ==
    /\ Receive
    /\ Incoming = Notification
    /\ UNCHANGED <<execution, pc, socket, saw_skipped, saw_final, replied, read>>

\* Mutant: the PPID is not compared.
MismatchButPpid(m, e) ==
    IF Materialize(m) # Materialize(e) THEN "payload"
    ELSE IF m.stream # e.stream THEN "stream" ELSE ""

\* The three checks, in the code's order; "" if the message is as expected
Mismatch(m, e) ==
    IF Materialize(m) # Materialize(e) THEN "payload"
    ELSE IF m.stream # e.stream THEN "stream"
    ELSE IF m.ppid # e.ppid THEN "ppid" ELSE ""

\* run_receive_worker: Expected in order on the one listener.  has_addrs: the
\* association has the expected number of peer addresses, asked once.
ReceiveExpected(has_addrs) ==
    LET wrong == Mismatch(Incoming, Expected[Len(read[1]) + 1])
        failure == IF wrong # "" THEN wrong
                   ELSE IF /\ read[1] = <<>> /\ definition.expected_peer_addr_count > 0
                           /\ ~has_addrs THEN "addresses" ELSE ""
    IN  /\ kind = "ReceiveMessages"
        /\ ReceiveData
        /\ \/ failure # "" /\ MarkFailed(failure) /\ pc' = "done"
           \/ /\ failure = "" /\ Len(read'[1]) = Len(Expected)
              /\ MarkNetworkComplete /\ pc' = "done"
           \/ /\ failure = "" /\ Len(read'[1]) < Len(Expected)
              /\ UNCHANGED <<execution, pc>>
        /\ UNCHANGED <<socket, saw_skipped, saw_final, replied>>

\* run_receive_multi_target_worker: Expected[i] on listener i, one after another
ReceiveOnTarget ==
    LET wrong == Mismatch(Incoming, Expected[socket]) IN
    /\ kind = "ReceiveMessagesMultiTarget"
    /\ ReceiveData
    /\ \/ wrong # "" /\ MarkFailed(wrong) /\ pc' = "done" /\ UNCHANGED socket
       \/ /\ wrong = "" /\ socket = Len(Expected)
          /\ MarkNetworkComplete /\ pc' = "done" /\ UNCHANGED socket
       \/ /\ wrong = "" /\ socket < Len(Expected)
          /\ socket' = socket + 1 /\ UNCHANGED <<execution, pc>>
    /\ UNCHANGED <<saw_skipped, saw_final, replied>>

\* run_pr_receive_worker: only payloads count, and only silence ends the loop.
ReceivePartiallyReliable ==
    LET got == Materialize(Incoming)
        known == got \in {Skipped, Final} IN
    /\ kind = "ReceivePRMessages"
    /\ ReceiveData
    /\ saw_skipped' = (saw_skipped \/ got = Skipped)
    /\ saw_final' = (saw_final \/ got = Final)
    /\ \/ known /\ UNCHANGED <<execution, pc>>
       \/ ~known /\ MarkFailed("payload") /\ pc' = "done"
    /\ UNCHANGED <<socket, replied>>

\* What a std::string is compared with when it is compared with the buffer,
\* which ends in a NUL: the payload up to the first one.
CString(m) == LET p == Materialize(m) IN IF p \in DOMAIN CutAtNul THEN CutAtNul[p] ELSE p

\* run_send_after_trigger_worker: one trigger, then the server's messages.  What
\* follows a NUL in the trigger is not looked at.
ReceiveTrigger ==
    /\ kind = "SendAfterTrigger"
    /\ ReceiveData
    /\ \/ CString(Incoming) # Materialize(Trigger) /\ MarkFailed("payload") /\ pc' = "done"
       \/ CString(Incoming) = Materialize(Trigger) /\ pc' = "send" /\ UNCHANGED execution
    /\ UNCHANGED <<socket, saw_skipped, saw_final, replied>>

\* Mutant: an off-by-one in the loop over server_send_messages
OneTooMany == replied <= Replies

Unsent == replied < Replies

SendReply ==
    /\ pc = "send"
    /\ \/ /\ Unsent /\ listening
          /\ replied' = replied + 1
          /\ UNCHANGED <<execution, pc>>
       \/ /\ Unsent                         \* sctp_sendv fails
          /\ MarkFailed("error") /\ pc' = "done"
          /\ UNCHANGED replied
       \/ /\ ~Unsent
          /\ MarkNetworkComplete /\ pc' = "done"
          /\ UNCHANGED replied
    /\ UNCHANGED <<definition, now, network, socket, waiting_since, saw_skipped, saw_final, read>>

\* Mutants: the dropped message is asked for; the two flags are mixed up.
PrEndsInverted == IF ~saw_final THEN MarkFailed("timeout")
                  ELSE IF saw_skipped THEN MarkNetworkComplete ELSE MarkFailed("delivered")
PrEndsSwapped == IF ~saw_skipped THEN MarkFailed("timeout")
                 ELSE IF saw_final THEN MarkFailed("delivered") ELSE MarkNetworkComplete

PrEnds == IF ~saw_final THEN MarkFailed("timeout")
          ELSE IF saw_skipped THEN MarkFailed("delivered") ELSE MarkNetworkComplete

\* Mutant: EAGAIN is a reason to try again.
RetryForever ==
    /\ pc = "recv" /\ now >= waiting_since + Timeout
    /\ waiting_since' = now
    /\ UNCHANGED <<definition, now, execution, network, pc, socket, saw_skipped, saw_final,
                   replied, read>>

\* EAGAIN: nothing came for as long as SO_RCVTIMEO
ReceiveTimesOut ==
    /\ pc = "recv" /\ now >= waiting_since + Timeout
    /\ listening => queue[socket] = <<>>
    /\ IF kind = "ReceivePRMessages" THEN PrEnds ELSE MarkFailed("timeout")
    /\ pc' = "done"
    /\ UNCHANGED <<definition, now, network, socket, waiting_since, saw_skipped, saw_final,
                   replied, read>>

\* Any other error, among them EBADF once the listener has been closed
ReceiveFails ==
    /\ pc = "recv"
    /\ MarkFailed("error")
    /\ pc' = "done"
    /\ UNCHANGED <<definition, now, network, socket, waiting_since, saw_skipped, saw_final,
                   replied, read>>

-----------------------------------------------------------------------------
ReceiveStep ==
    \/ SkipNotification
    \/ \E has_addrs \in BOOLEAN : ReceiveExpected(has_addrs)
    \/ ReceiveOnTarget \/ ReceivePartiallyReliable \/ ReceiveTrigger

Next ==
    \/ ReceiveStep \/ SendReply \/ ReceiveTimesOut \/ ReceiveFails
    \/ Poll \/ Report \/ Decline \/ Tick
    \/ \E i \in Targets, m \in Traffic \cup {Notification} : Arrive(i, m)

Spec == Init /\ [][Next]_vars

\* Time passes and the worker runs; no error need ever occur, no client act.
FairSpec == Spec /\ WF_vars(Tick) /\ WF_vars(ReceiveStep) /\ WF_vars(SendReply)
                 /\ WF_vars(ReceiveTimesOut)

-----------------------------------------------------------------------------
(* Correctness *)

TypeOK ==
    /\ now \in 0..Horizon /\ waiting_since \in 0..now
    /\ definition \in Definitions
    /\ state \in Terminal \cup {"Active"}
    /\ network_complete \in BOOLEAN /\ agent_complete \in BOOLEAN /\ listening \in BOOLEAN
    /\ saw_skipped \in BOOLEAN /\ saw_final \in BOOLEAN
    /\ arrived \in 0..MaxArrivals
    /\ reason \in {"", "payload", "stream", "ppid", "addresses", "delivered", "timeout", "error"}
    /\ queue \in [Targets -> Seq(Traffic \cup {Notification})]
    /\ read \in [Targets -> Seq(Traffic)]
    /\ pc \in {"recv", "send", "done"} /\ socket \in Targets \cup {1}
    /\ replied \in 0..Replies

\* what a contract tells a client and sctp_recvv tells the server of a message
Seen(m) == <<Materialize(m), m.stream, m.ppid>>

\* The messages read are the first of those expected.
Begins(messages, expected) ==
    /\ Len(messages) <= Len(expected)
    /\ \A j \in DOMAIN messages : Seen(messages[j]) = Seen(expected[j])

(* What the contract asks of the client, as a predicate on the data that   *)
(* the worker has read: all of it, and nothing else.  Of a trigger only the*)
(* text before a NUL counts; PR-SCTP and trigger have no stream and PPID.  *)
Observed ==
    \/ /\ kind = "ReceiveMessages"
       /\ Len(read[1]) = Len(Expected) /\ Begins(read[1], Expected)
    \/ /\ kind = "ReceiveMessagesMultiTarget"
       /\ \A i \in Targets : Len(read[i]) = 1 /\ Begins(read[i], <<Expected[i]>>)
    \/ /\ kind = "ReceivePRMessages" /\ read[1] # <<>>
       /\ \A j \in DOMAIN read[1] : Materialize(read[1][j]) = Final
    \/ /\ kind = "SendAfterTrigger" /\ replied = Replies
       /\ Len(read[1]) = 1 /\ CString(read[1][1]) = Materialize(Trigger)

\* what has been read is a beginning of that
Acceptable ==
    \/ kind = "ReceiveMessages" /\ Begins(read[1], Expected)
    \/ kind = "ReceiveMessagesMultiTarget" /\ \A i \in Targets : Begins(read[i], <<Expected[i]>>)
    \/ /\ kind = "ReceivePRMessages"
       /\ \A j \in DOMAIN read[1] : Materialize(read[1][j]) = Final
    \/ /\ kind = "SendAfterTrigger"
       /\ \A j \in DOMAIN read[1] : CString(read[1][j]) = Materialize(Trigger)

(* The server observes only what happened: network_complete is set only    *)
(* when the data read is the data asked for, whatever notifications and    *)
(* stray messages came between and on whichever listener.                  *)
ObservationIsReal == network_complete => Observed

(* A client whose traffic is right so far is failed only for silence, for a*)
(* socket error or for missing peer addresses, never for what it sent.     *)
RightTrafficIsNotFailed ==
    state = "Failed" /\ Acceptable => reason \in {"timeout", "error", "addresses"}

\* All that came to listener i has been read, and it is not all there is to come.
Unheard(i) ==
    /\ queue[i] = <<>>
    /\ kind = "ReceiveMessages" => Len(read[i]) < Len(Expected)
    /\ kind = "ReceivePRMessages" => \A j \in DOMAIN read[i] : Materialize(read[i][j]) # Final
    /\ kind \in {"ReceiveMessagesMultiTarget", "SendAfterTrigger"} => read[i] = <<>>

(* and for silence only if there was silence: something the feature waits  *)
(* for has not come to its listener, neither read nor left in the queue,   *)
(* although the worker looks at its listeners one after another, gives each*)
(* call a new timeout and takes notifications and data from one queue.     *)
TimeoutMeansSilence ==
    reason = "timeout" => now >= waiting_since + Timeout /\ \E i \in Targets : Unheard(i)

(* Every worker thread ends: no wait is unbounded, so a verdict does not   *)
(* leave a thread behind for ever.                                         *)
WorkerEnds == <>(pc = "done")

(* A hybrid PR-SCTP client that did all the contract asks (the final       *)
(* message was read in time, the dropped one never came, completion was    *)
(* reported) is not timed out.                                             *)
RightPrClientIsNotTimedOut ==
    /\ kind = "ReceivePRMessages" /\ agent_complete
    /\ saw_final /\ Acceptable /\ waiting_since < Timeout
    => state # "TimedOut"
=============================================================================
