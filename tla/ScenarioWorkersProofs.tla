------------------------- MODULE ScenarioWorkersProofs -------------------------
(***************************************************************************)
(* The verdicts of the four SCTP workers, proved for every set of features *)
(* whose definitions are what the workers take for granted, any stray      *)
(* traffic, any timeout and any number of arrivals.                        *)
(***************************************************************************)
EXTENDS ScenarioWorkers, TLAPS

-----------------------------------------------------------------------------
(* Lemmas about the definitions and the operators on messages *)

LEMMA HorizonNat == Horizon \in Nat /\ Timeout \in Nat \ {0} /\ MaxArrivals \in Nat
BY BoundsAssumption DEF Horizon

\* What a definition gives its worker.
LEMMA DefinitionFacts ==
    ASSUME definition \in Definitions
    PROVE  /\ Expected \in Seq(MessageSpec) /\ Replies \in Nat
           /\ kind \in {"AgentOnly", "ReceiveMessages", "ReceivePRMessages",
                        "ReceiveMessagesMultiTarget", "SendAfterTrigger"}
           /\ kind = "ReceiveMessages" => Len(Expected) > 0
           /\ kind = "ReceivePRMessages" => Skipped # Final
           /\ kind = "ReceiveMessagesMultiTarget" => Len(Expected) > 0
<1>1. /\ Expected \in Seq(MessageSpec)
      /\ definition.server_send_messages \in Seq(MessageSpec)
      /\ kind \in {"AgentOnly", "ReceiveMessages", "ReceivePRMessages",
                   "ReceiveMessagesMultiTarget", "SendAfterTrigger"}
    BY DefinitionTypes DEF Expected, kind
<1>2. Replies \in Nat
    BY <1>1 DEF Replies
<1>3. kind \in {"ReceiveMessages", "ReceiveMessagesMultiTarget"} => Expected # <<>>
    BY DefinitionsAssumption DEF kind, Expected
<1>4. kind = "ReceivePRMessages" => Skipped # Final
    BY DefinitionsAssumption DEF kind, Expected, Skipped, Final
<1>5. Expected # <<>> => Len(Expected) > 0
    BY <1>1
<1> QED BY <1>1, <1>2, <1>3, <1>4, <1>5

\* The listeners are numbered from 1; there are as many as messages expected.
LEMMA TargetFacts ==
    ASSUME definition \in Definitions
    PROVE  /\ kind = "AgentOnly" => Targets = {}
           /\ kind \in {"ReceiveMessages", "ReceivePRMessages", "SendAfterTrigger"}
                => Targets = {1}
           /\ kind = "ReceiveMessagesMultiTarget" => Targets = 1..Len(Expected)
<1>1. kind = "ReceiveMessagesMultiTarget" => definition.expected_associations = Len(Expected)
    BY DefinitionsAssumption DEF kind, Expected
<1> QED BY <1>1 DEF Targets

\* The three checks of a worker find nothing wrong exactly when the server sees
\* the message it expects.
LEMMA MismatchIsUnseen ==
    ASSUME NEW m, NEW e
    PROVE  /\ Mismatch(m, e) = "" <=> Seen(m) = Seen(e)
           /\ Mismatch(m, e) \in {"", "payload", "stream", "ppid"}
BY DEF Mismatch, Seen

\* One more message that is as expected, and one that is not
LEMMA BeginsAppend ==
    ASSUME NEW S, NEW read_so_far \in Seq(S), NEW m \in S,
           NEW T, NEW expected \in Seq(T),
           Len(read_so_far) < Len(expected), Begins(read_so_far, expected)
    PROVE  Begins(Append(read_so_far, m), expected)
             <=> Seen(m) = Seen(expected[Len(read_so_far) + 1])
<1> DEFINE longer == Append(read_so_far, m)
<1>1. /\ Len(longer) = Len(read_so_far) + 1
      /\ DOMAIN longer = 1..(Len(read_so_far) + 1)
      /\ longer[Len(read_so_far) + 1] = m
      /\ \A j \in 1..Len(read_so_far) : longer[j] = read_so_far[j]
    OBVIOUS
<1>2. DOMAIN read_so_far = 1..Len(read_so_far) /\ Len(read_so_far) \in Nat
      /\ Len(expected) \in Nat
    OBVIOUS
<1> QED BY <1>1, <1>2 DEF Begins
-----------------------------------------------------------------------------
(* The invariant the proofs are built on *)

\* A worker waits on open listeners or on none that matter any more: the
\* listeners close with the verdict or with the end of the network part.
ListenersFollow ==
    /\ state = "Active" /\ pc # "done" => listening
    /\ network_complete => pc = "done"
    /\ state = "Failed" => pc = "done" /\ ~listening
    /\ reason # "" => state = "Failed"

\* A worker is where its kind of loop can be.
KindOfLoop ==
    /\ pc = "send" => kind = "SendAfterTrigger"
    /\ pc = "recv" => kind # "AgentOnly"

\* run_receive_worker: a proper beginning of what is expected has been read.
ReceiveLoop ==
    kind = "ReceiveMessages" /\ pc = "recv" =>
        Len(read[1]) < Len(Expected) /\ Begins(read[1], Expected)

\* run_receive_multi_target_worker: the listeners before this one are done, the
\* others have not been looked at.
TargetLoop ==
    kind = "ReceiveMessagesMultiTarget" /\ pc = "recv" =>
        \A i \in Targets :
            IF i < socket THEN Len(read[i]) = 1 /\ Begins(read[i], <<Expected[i]>>)
            ELSE read[i] = <<>>

\* run_pr_receive_worker: every message was one of two, and each flag says
\* whether its message was among them.
PrLoop ==
    kind = "ReceivePRMessages" /\ pc = "recv" =>
        /\ \A j \in DOMAIN read[1] : Materialize(read[1][j]) \in {Skipped, Final}
        /\ saw_skipped <=> \E j \in DOMAIN read[1] : Materialize(read[1][j]) = Skipped
        /\ saw_final <=> \E j \in DOMAIN read[1] : Materialize(read[1][j]) = Final

\* run_send_after_trigger_worker: no message, then the trigger and no other
TriggerLoop ==
    kind = "SendAfterTrigger" =>
        /\ pc = "recv" => read[1] = <<>>
        /\ pc = "send" => Len(read[1]) = 1 /\ CString(read[1][1]) = Materialize(Trigger)

LoopInv ==
    /\ TypeOK
    /\ ListenersFollow /\ KindOfLoop
    /\ ReceiveLoop /\ TargetLoop /\ PrLoop /\ TriggerLoop
    /\ ObservationIsReal /\ RightTrafficIsNotFailed /\ TimeoutMeansSilence
-----------------------------------------------------------------------------
(* Steps that leave the loop of the worker where it is *)

LEMMA Numbers ==
    ASSUME TypeOK
    PROVE  /\ now \in Nat /\ now <= Horizon /\ Horizon \in Nat
           /\ waiting_since \in Nat /\ waiting_since <= now /\ Timeout \in Nat \ {0}
           /\ arrived \in Nat /\ arrived <= MaxArrivals /\ MaxArrivals \in Nat
           /\ replied \in 0..Replies
<1>1. /\ now \in 0..Horizon /\ waiting_since \in 0..now /\ arrived \in 0..MaxArrivals
      /\ replied \in 0..Replies
    BY DEF TypeOK
<1> QED BY <1>1, HorizonNat

\* The definition never changes, and nothing that is derived from it.
LEMMA SameDefinition ==
    ASSUME UNCHANGED definition
    PROVE  /\ kind' = kind /\ mode' = mode /\ Expected' = Expected /\ Targets' = Targets
           /\ Replies' = Replies /\ Skipped' = Skipped /\ Final' = Final
           /\ Trigger' = Trigger /\ Traffic' = Traffic
BY DEF kind, mode, Expected, Targets, Replies, Skipped, Final, Trigger, Traffic, Asked

\* A silence lasts as long as nothing is read and nothing comes.
LEMMA SilenceStays ==
    ASSUME TimeoutMeansSilence, UNCHANGED <<definition, queue, read, reason, waiting_since>>,
           now >= waiting_since + Timeout => now' >= waiting_since + Timeout
    PROVE  TimeoutMeansSilence'
<1>1. UNCHANGED <<kind, Expected, Targets, Final>>
    BY SameDefinition
<1>2. ASSUME NEW i, Unheard(i)
      PROVE  Unheard(i)'
    BY <1>1, <1>2 DEF Unheard
<1> QED BY <1>1, <1>2 DEF TimeoutMeansSilence

LEMMA LoopStays ==
    ASSUME LoopInv, UNCHANGED <<definition, pc, socket, saw_skipped, saw_final, replied, read>>
    PROVE  /\ (KindOfLoop /\ ReceiveLoop /\ TargetLoop /\ PrLoop /\ TriggerLoop)'
           /\ Observed' = Observed /\ Acceptable' = Acceptable
<1>1. UNCHANGED <<kind, Expected, Targets, Replies, Skipped, Final, Trigger>>
    BY SameDefinition
<1>2. KindOfLoop' /\ ReceiveLoop' /\ TriggerLoop'
    BY <1>1 DEF LoopInv, KindOfLoop, ReceiveLoop, TriggerLoop
<1>3. TargetLoop'
    BY <1>1 DEF LoopInv, TargetLoop
<1>4. PrLoop'
    BY <1>1 DEF LoopInv, PrLoop
<1>5. Observed' = Observed /\ Acceptable' = Acceptable
    BY <1>1 DEF Observed, Acceptable
<1> QED BY <1>2, <1>3, <1>4, <1>5

\* Poll, Report and Decline: a verdict from outside, or none yet
LEMMA HandlerKeeps ==
    ASSUME LoopInv, Poll \/ Report \/ Decline
    PROVE  LoopInv'
<1>1. /\ UNCHANGED <<definition, pc, socket, saw_skipped, saw_final, replied, read>>
      /\ UNCHANGED <<now, waiting_since, queue, arrived, reason, network_complete>>
    BY DEF Poll, Report, Decline, network, worker
<1>2. /\ \/ UNCHANGED <<state, listening>>
         \/ /\ state = "Active" /\ state' \in {"TimedOut", "Passed", "Unsupported"}
            /\ listening' = FALSE
      /\ agent_complete' \in {agent_complete, TRUE}
    BY DEF Poll, Report, Decline, Overdue
<1>3. /\ UNCHANGED <<kind, Expected, Targets, Traffic, Replies>>
      /\ (KindOfLoop /\ ReceiveLoop /\ TargetLoop /\ PrLoop /\ TriggerLoop)'
      /\ Observed' = Observed /\ Acceptable' = Acceptable
    BY <1>1, SameDefinition, LoopStays
<1>4. TypeOK'
    <2>1. TypeOK
        BY DEF LoopInv
    <2>2. /\ state' \in Terminal \cup {"Active"}
          /\ listening' \in BOOLEAN /\ agent_complete' \in BOOLEAN
        BY <1>2, <2>1 DEF TypeOK, Terminal
    <2> QED BY <1>1, <1>3, <2>1, <2>2 DEF TypeOK
<1>5. ListenersFollow'
    <2>1. ListenersFollow
        BY DEF LoopInv
    <2>2. CASE UNCHANGED <<state, listening>>
        BY <1>1, <2>1, <2>2 DEF ListenersFollow
    <2>3. CASE state = "Active" /\ state' \in {"TimedOut", "Passed", "Unsupported"}
        BY <1>1, <2>1, <2>3 DEF ListenersFollow
    <2> QED BY <1>2, <2>2, <2>3
<1>6. ObservationIsReal' /\ RightTrafficIsNotFailed'
    BY <1>1, <1>2, <1>3 DEF LoopInv, ObservationIsReal, RightTrafficIsNotFailed
<1>7. TimeoutMeansSilence'
    BY <1>1, SilenceStays DEF LoopInv
<1> QED BY <1>3, <1>4, <1>5, <1>6, <1>7 DEF LoopInv

LEMMA TickKeeps ==
    ASSUME LoopInv, Tick
    PROVE  LoopInv'
<1>1. /\ UNCHANGED <<definition, pc, socket, saw_skipped, saw_final, replied, read>>
      /\ UNCHANGED <<waiting_since, queue, arrived, listening, state, reason>>
      /\ UNCHANGED <<network_complete, agent_complete>>
    BY DEF Tick, execution, network, worker
<1>2. /\ UNCHANGED <<kind, Expected, Targets, Traffic, Replies>>
      /\ (KindOfLoop /\ ReceiveLoop /\ TargetLoop /\ PrLoop /\ TriggerLoop)'
      /\ Observed' = Observed /\ Acceptable' = Acceptable
    BY <1>1, SameDefinition, LoopStays
<1>3. now' \in 0..Horizon /\ now' > now /\ waiting_since \in 0..now'
    <2>1. TypeOK
        BY DEF LoopInv
    <2> QED BY <2>1, Numbers DEF Tick
<1>4. TypeOK'
    BY <1>1, <1>2, <1>3, ZenonT(30) DEF LoopInv, TypeOK
<1>5. ListenersFollow' /\ ObservationIsReal' /\ RightTrafficIsNotFailed'
    BY <1>1, <1>2 DEF LoopInv, ListenersFollow, ObservationIsReal, RightTrafficIsNotFailed
<1>6. TimeoutMeansSilence'
    <2>1. TypeOK /\ TimeoutMeansSilence
        BY DEF LoopInv
    <2>2. now >= waiting_since + Timeout => now' >= waiting_since + Timeout
        BY <1>3, <2>1, Numbers
    <2> QED BY <1>1, <2>1, <2>2, SilenceStays
<1> QED BY <1>2, <1>4, <1>5, <1>6 DEF LoopInv

LEMMA ArriveKeeps ==
    ASSUME LoopInv, NEW i \in Targets, NEW m \in Traffic \cup {Notification}, Arrive(i, m)
    PROVE  LoopInv'
<1>1. /\ UNCHANGED <<definition, pc, socket, saw_skipped, saw_final, replied, read>>
      /\ UNCHANGED <<now, waiting_since, listening, state, reason>>
      /\ UNCHANGED <<network_complete, agent_complete>>
      /\ listening
    BY DEF Arrive, execution, worker
<1>2. /\ UNCHANGED <<kind, Expected, Targets, Traffic, Replies>>
      /\ (KindOfLoop /\ ReceiveLoop /\ TargetLoop /\ PrLoop /\ TriggerLoop)'
      /\ Observed' = Observed /\ Acceptable' = Acceptable
    BY <1>1, SameDefinition, LoopStays
<1>3. arrived' \in 0..MaxArrivals
    <2>1. TypeOK
        BY DEF LoopInv
    <2> QED BY <2>1, Numbers DEF Arrive
<1>4. queue' \in [Targets -> Seq(Traffic \cup {Notification})]
    <2>1. queue \in [Targets -> Seq(Traffic \cup {Notification})]
        BY DEF LoopInv, TypeOK
    <2> QED BY <2>1 DEF Arrive
<1>5. TypeOK'
    BY <1>1, <1>2, <1>3, <1>4 DEF LoopInv, TypeOK
<1>6. ListenersFollow' /\ ObservationIsReal' /\ RightTrafficIsNotFailed'
    BY <1>1, <1>2 DEF LoopInv, ListenersFollow, ObservationIsReal, RightTrafficIsNotFailed
<1>7. TimeoutMeansSilence'
    <2>1. reason # "timeout"
        BY <1>1 DEF LoopInv, ListenersFollow
    <2> QED BY <1>1, <2>1 DEF TimeoutMeansSilence
<1> QED BY <1>2, <1>5, <1>6, <1>7 DEF LoopInv

-----------------------------------------------------------------------------
(* The three ways a turn of the loop leaves the session *)

Reasons == {"", "payload", "stream", "ppid", "addresses", "delivered", "timeout", "error"}

ExecutionOK ==
    /\ state \in Terminal \cup {"Active"} /\ reason \in Reasons
    /\ network_complete \in BOOLEAN /\ agent_complete \in BOOLEAN /\ listening \in BOOLEAN

\* A worker that is still running has given no verdict.
LEMMA NoVerdictYet ==
    ASSUME LoopInv, pc # "done"
    PROVE  ExecutionOK /\ network_complete = FALSE /\ reason = "" /\ state # "Failed"
<1>1. ExecutionOK
    BY DEF LoopInv, TypeOK, ExecutionOK, Reasons
<1>2. ListenersFollow
    BY DEF LoopInv
<1> QED BY <1>1, <1>2 DEF ListenersFollow, ExecutionOK

LEMMA FailedOutcome ==
    ASSUME LoopInv, pc # "done", NEW why \in Reasons \ {""}, MarkFailed(why), pc' = "done"
    PROVE  /\ ExecutionOK' /\ ListenersFollow' /\ ObservationIsReal'
           /\ reason' \in {"", why} /\ (state' = "Failed" => reason' = why /\ state = "Active")
           /\ (reason' # "" => state' = "Failed")
<1>1. ExecutionOK /\ network_complete = FALSE /\ reason = "" /\ state # "Failed"
    BY NoVerdictYet
<1>2. CASE state = "Active"
    <2>1. /\ state' = "Failed" /\ reason' = why /\ listening' = FALSE
          /\ UNCHANGED <<network_complete, agent_complete>>
        BY <1>2 DEF MarkFailed
    <2> QED BY <1>1, <1>2, <2>1
            DEF ExecutionOK, Reasons, Terminal, ListenersFollow, ObservationIsReal
<1>3. CASE state # "Active"
    <2>1. UNCHANGED <<state, network_complete, agent_complete, reason, listening>>
        BY <1>3 DEF MarkFailed, execution
    <2> QED BY <1>1, <1>3, <2>1 DEF ExecutionOK, Reasons, ListenersFollow, ObservationIsReal
<1> QED BY <1>2, <1>3

LEMMA CompleteOutcome ==
    ASSUME LoopInv, pc # "done", MarkNetworkComplete, pc' = "done"
    PROVE  /\ ExecutionOK' /\ ListenersFollow'
           /\ RightTrafficIsNotFailed' /\ TimeoutMeansSilence'
<1>1. ExecutionOK /\ network_complete = FALSE /\ reason = "" /\ state # "Failed"
    BY NoVerdictYet
<1>2. CASE state = "Active"
    <2>1. /\ state' \in {"Passed", "Active"} /\ listening' = FALSE /\ network_complete' = TRUE
          /\ UNCHANGED <<reason, agent_complete>>
        BY <1>2 DEF MarkNetworkComplete
    <2> QED BY <1>1, <2>1 DEF ExecutionOK, Terminal, ListenersFollow, RightTrafficIsNotFailed,
                              TimeoutMeansSilence
<1>3. CASE state # "Active"
    <2>1. UNCHANGED <<state, network_complete, agent_complete, reason, listening>>
        BY <1>3 DEF MarkNetworkComplete, execution
    <2> QED BY <1>1, <1>3, <2>1 DEF ExecutionOK, ListenersFollow, RightTrafficIsNotFailed,
                                    TimeoutMeansSilence
<1> QED BY <1>2, <1>3

LEMMA OpenOutcome ==
    ASSUME LoopInv, pc # "done", UNCHANGED execution, pc' # "done"
    PROVE  /\ ExecutionOK' /\ ListenersFollow'
           /\ ObservationIsReal' /\ RightTrafficIsNotFailed' /\ TimeoutMeansSilence'
<1>1. ExecutionOK /\ network_complete = FALSE /\ reason = "" /\ state # "Failed"
    BY NoVerdictYet
<1>2. UNCHANGED <<state, network_complete, agent_complete, reason, listening>>
    BY DEF execution
<1>3. ListenersFollow
    BY DEF LoopInv
<1> QED BY <1>1, <1>2, <1>3 DEF ExecutionOK, ListenersFollow, ObservationIsReal,
                                RightTrafficIsNotFailed, TimeoutMeansSilence

-----------------------------------------------------------------------------
(* sctp_recvv *)

LEMMA ReceiveFacts ==
    ASSUME LoopInv, Receive
    PROVE  /\ UNCHANGED <<definition, now, arrived>> /\ waiting_since' = now
           /\ pc = "recv" /\ kind # "AgentOnly" /\ definition \in Definitions
           /\ socket \in Targets /\ 1 \in Targets
           /\ Incoming \in Traffic \cup {Notification}
           /\ read \in [Targets -> Seq(Traffic)]
           /\ queue' \in [Targets -> Seq(Traffic \cup {Notification})]
<1>1. /\ UNCHANGED <<definition, now, arrived>> /\ waiting_since' = now
      /\ pc = "recv" /\ queue[socket] # <<>>
      /\ queue' = [queue EXCEPT ![socket] = Tail(@)]
    BY DEF Receive
<1>2. /\ definition \in Definitions /\ socket \in Targets \cup {1}
      /\ queue \in [Targets -> Seq(Traffic \cup {Notification})]
      /\ read \in [Targets -> Seq(Traffic)]
    BY DEF LoopInv, TypeOK
<1>3. kind # "AgentOnly"
    BY <1>1 DEF LoopInv, KindOfLoop
<1>4. 1 \in Targets
    <2>1. kind = "ReceiveMessagesMultiTarget" => Len(Expected) \in Nat /\ Len(Expected) > 0
        BY <1>2, DefinitionFacts
    <2> QED BY <1>2, <1>3, <2>1, TargetFacts, DefinitionFacts
<1>5. socket \in Targets
    BY <1>2, <1>4
<1>6. queue[socket] \in Seq(Traffic \cup {Notification})
    BY <1>2, <1>5
<1>7. Incoming \in Traffic \cup {Notification}
      /\ Tail(queue[socket]) \in Seq(Traffic \cup {Notification})
    BY <1>1, <1>6 DEF Incoming
<1> QED BY <1>1, <1>2, <1>3, <1>4, <1>5, <1>7

LEMMA DataFacts ==
    ASSUME LoopInv, ReceiveData
    PROVE  /\ Incoming \in Traffic
           /\ read[socket] \in Seq(Traffic)
           /\ read' = [read EXCEPT ![socket] = Append(@, Incoming)]
           /\ read'[socket] = Append(read[socket], Incoming)
           /\ read' \in [Targets -> Seq(Traffic)]
<1>1. Receive /\ Incoming # Notification
      /\ read' = [read EXCEPT ![socket] = Append(@, Incoming)]
    BY DEF ReceiveData
<1>2. /\ read \in [Targets -> Seq(Traffic)] /\ socket \in Targets
      /\ Incoming \in Traffic
    BY <1>1, ReceiveFacts
<1>3. read[socket] \in Seq(Traffic)
    BY <1>2
<1>4. Append(read[socket], Incoming) \in Seq(Traffic)
    BY <1>2, <1>3
<1> QED BY <1>1, <1>2, <1>3, <1>4

\* What a turn must show for the types to hold after it
LEMMA TurnTypes ==
    ASSUME LoopInv, Receive, ExecutionOK', pc' \in {"recv", "send", "done"},
           socket' \in Targets, saw_skipped' \in BOOLEAN, saw_final' \in BOOLEAN,
           UNCHANGED replied, read' \in [Targets -> Seq(Traffic)]
    PROVE  TypeOK'
<1>1. /\ UNCHANGED <<definition, now, arrived>> /\ waiting_since' = now
      /\ queue' \in [Targets -> Seq(Traffic \cup {Notification})]
    BY ReceiveFacts
<1>2. UNCHANGED <<Targets, Traffic, Replies>>
    BY <1>1, SameDefinition
<1>3. TypeOK
    BY DEF LoopInv
<1>4. now \in 0..now /\ now \in 0..Horizon
    BY <1>3, Numbers
<1> QED BY <1>1, <1>2, <1>3, <1>4 DEF TypeOK, ExecutionOK, Reasons

LEMMA SkipKeeps ==
    ASSUME LoopInv, SkipNotification
    PROVE  LoopInv'
<1>1. /\ Receive /\ UNCHANGED <<execution, pc, socket, saw_skipped, saw_final, replied, read>>
    BY DEF SkipNotification
<1>2. /\ pc = "recv" /\ UNCHANGED definition /\ socket \in Targets
      /\ read \in [Targets -> Seq(Traffic)]
    BY <1>1, ReceiveFacts
<1>3. /\ ExecutionOK' /\ ListenersFollow'
      /\ ObservationIsReal' /\ RightTrafficIsNotFailed' /\ TimeoutMeansSilence'
    BY <1>1, <1>2, OpenOutcome
<1>4. (KindOfLoop /\ ReceiveLoop /\ TargetLoop /\ PrLoop /\ TriggerLoop)'
    BY <1>1, <1>2, LoopStays
<1>5. TypeOK'
    <2>1. saw_skipped \in BOOLEAN /\ saw_final \in BOOLEAN
        BY DEF LoopInv, TypeOK
    <2> QED BY <1>1, <1>2, <1>3, <2>1, TurnTypes
<1> QED BY <1>3, <1>4, <1>5 DEF LoopInv

-----------------------------------------------------------------------------
(* One turn of each loop *)

LEMMA ExpectedKeeps ==
    ASSUME LoopInv, NEW has_addrs \in BOOLEAN, ReceiveExpected(has_addrs)
    PROVE  LoopInv'
<1> DEFINE next == Expected[Len(read[1]) + 1]
           wrong == Mismatch(Incoming, next)
           unaddressed == /\ read[1] = <<>> /\ definition.expected_peer_addr_count > 0
                          /\ ~has_addrs
           failure == IF wrong # "" THEN wrong ELSE IF unaddressed THEN "addresses" ELSE ""
<1>1. /\ kind = "ReceiveMessages" /\ ReceiveData
      /\ \/ failure # "" /\ MarkFailed(failure) /\ pc' = "done"
         \/ /\ failure = "" /\ Len(read'[1]) = Len(Expected)
            /\ MarkNetworkComplete /\ pc' = "done"
         \/ /\ failure = "" /\ Len(read'[1]) < Len(Expected)
            /\ UNCHANGED <<execution, pc>>
      /\ UNCHANGED <<socket, saw_skipped, saw_final, replied>>
    BY DEF ReceiveExpected
<1>2. /\ Receive /\ pc = "recv" /\ UNCHANGED definition /\ definition \in Definitions
      /\ socket \in Targets
    BY <1>1, ReceiveFacts DEF ReceiveData
<1>3. Targets = {1} /\ socket = 1 /\ Expected \in Seq(MessageSpec)
    BY <1>1, <1>2, TargetFacts, DefinitionFacts
<1>4. /\ read[1] \in Seq(Traffic) /\ Incoming \in Traffic
      /\ read'[1] = Append(read[1], Incoming) /\ read' \in [Targets -> Seq(Traffic)]
    BY <1>1, <1>3, DataFacts
<1>5. Len(read[1]) < Len(Expected) /\ Begins(read[1], Expected)
    BY <1>1, <1>2 DEF LoopInv, ReceiveLoop
<1>6. UNCHANGED <<kind, Expected, Targets>>
    BY <1>2, SameDefinition
<1>7. /\ wrong \in {"", "payload", "stream", "ppid"}
      /\ wrong = "" <=> Begins(read'[1], Expected)
    <2>1. Begins(Append(read[1], Incoming), Expected) <=> Seen(Incoming) = Seen(next)
        <3> HIDE DEF next
        <3>1. next = Expected[Len(read[1]) + 1]
            BY DEF next
        <3> QED BY <1>3, <1>4, <1>5, <3>1, BeginsAppend
    <2> HIDE DEF next
    <2> QED BY <1>4, <2>1, MismatchIsUnseen
<1> HIDE DEF wrong, unaddressed
<1>8. failure \in Reasons
    BY <1>7 DEF Reasons
<1>9. /\ ExecutionOK' /\ ListenersFollow' /\ pc' \in {"recv", "done"}
      /\ ObservationIsReal' /\ RightTrafficIsNotFailed' /\ TimeoutMeansSilence'
    <2>1. CASE failure # "" /\ MarkFailed(failure) /\ pc' = "done"
        <3>0. failure \in Reasons \ {""} /\ pc # "done"
            BY <1>2, <1>8, <2>1
        <3>1. /\ ExecutionOK' /\ ListenersFollow' /\ ObservationIsReal'
              /\ state' = "Failed" => reason' = failure
              /\ reason' \in {"", failure} /\ (reason' # "" => state' = "Failed")
            <4> HIDE DEF failure
            <4> QED BY <2>1, <3>0, FailedOutcome
        <3>2. failure # "timeout" /\ (failure # "addresses" => ~Begins(read'[1], Expected))
            BY <1>7, <2>1
        <3>3. Acceptable' => Begins(read'[1], Expected)
            BY <1>1, <1>6 DEF Acceptable
        <3> QED BY <2>1, <3>1, <3>2, <3>3 DEF RightTrafficIsNotFailed, TimeoutMeansSilence
    <2>2. CASE /\ failure = "" /\ Len(read'[1]) = Len(Expected)
               /\ MarkNetworkComplete /\ pc' = "done"
        <3>1. Observed'
            BY <1>1, <1>6, <1>7, <2>2 DEF Observed
        <3> QED BY <1>2, <2>2, <3>1, CompleteOutcome DEF ObservationIsReal
    <2>3. CASE failure = "" /\ UNCHANGED <<execution, pc>>
        BY <1>2, <2>3, OpenOutcome
    <2> QED BY <1>1, <2>1, <2>2, <2>3
<1>10. ReceiveLoop'
    <2>1. pc' = "recv" => failure = "" /\ Len(read'[1]) < Len(Expected)
        BY <1>1
    <2> QED BY <1>6, <1>7, <2>1 DEF ReceiveLoop
<1>11. (KindOfLoop /\ TargetLoop /\ PrLoop /\ TriggerLoop)'
    BY <1>1, <1>6, <1>9 DEF KindOfLoop, TargetLoop, PrLoop, TriggerLoop
<1>12. TypeOK'
    <2>1. saw_skipped \in BOOLEAN /\ saw_final \in BOOLEAN
        BY DEF LoopInv, TypeOK
    <2> QED BY <1>1, <1>2, <1>4, <1>9, <2>1, TurnTypes
<1> QED BY <1>9, <1>10, <1>11, <1>12 DEF LoopInv

LEMMA TargetKeeps ==
    ASSUME LoopInv, ReceiveOnTarget
    PROVE  LoopInv'
<1> DEFINE wrong == Mismatch(Incoming, Expected[socket])
<1>1. /\ kind = "ReceiveMessagesMultiTarget" /\ ReceiveData
      /\ \/ wrong # "" /\ MarkFailed(wrong) /\ pc' = "done" /\ UNCHANGED socket
         \/ /\ wrong = "" /\ socket = Len(Expected)
            /\ MarkNetworkComplete /\ pc' = "done" /\ UNCHANGED socket
         \/ /\ wrong = "" /\ socket < Len(Expected)
            /\ socket' = socket + 1 /\ UNCHANGED <<execution, pc>>
      /\ UNCHANGED <<saw_skipped, saw_final, replied>>
    BY DEF ReceiveOnTarget
<1>2. /\ Receive /\ pc = "recv" /\ UNCHANGED definition /\ definition \in Definitions
      /\ socket \in Targets /\ read \in [Targets -> Seq(Traffic)]
    BY <1>1, ReceiveFacts DEF ReceiveData
<1>3. /\ Targets = 1..Len(Expected) /\ Len(Expected) \in Nat
      /\ socket \in Nat /\ 1 <= socket /\ socket <= Len(Expected)
    <2>1. Targets = 1..Len(Expected) /\ Expected \in Seq(MessageSpec)
        BY <1>1, <1>2, TargetFacts, DefinitionFacts
    <2>2. Len(Expected) \in Nat
        BY <2>1
    <2> QED BY <1>2, <2>1, <2>2
<1>3a. \A i \in Targets : i \in Nat /\ i <= Len(Expected)
    BY <1>3
<1>3b. ~(socket < socket)
    BY <1>3
<1>4. /\ read[socket] \in Seq(Traffic) /\ Incoming \in Traffic
      /\ read' = [read EXCEPT ![socket] = Append(@, Incoming)]
      /\ read'[socket] = Append(read[socket], Incoming) /\ read' \in [Targets -> Seq(Traffic)]
    BY <1>1, DataFacts
<1>5. \A i \in Targets :
        IF i < socket THEN Len(read[i]) = 1 /\ Begins(read[i], <<Expected[i]>>)
        ELSE read[i] = <<>>
    BY <1>1, <1>2 DEF LoopInv, TargetLoop
<1>6. UNCHANGED <<kind, Expected, Targets>>
    BY <1>2, SameDefinition
<1>7. /\ wrong \in {"", "payload", "stream", "ppid"}
      /\ wrong = "" <=> Begins(read'[socket], <<Expected[socket]>>)
      /\ Len(read'[socket]) = 1
    <2>0. read[socket] = <<>>
        BY <1>2, <1>5, <1>3b
    <2>1. read'[socket] = <<Incoming>>
        BY <1>4, <2>0
    <2>2. Begins(<<Incoming>>, <<Expected[socket]>>) <=> Seen(Incoming) = Seen(Expected[socket])
        BY DEF Begins
    <2> QED BY <2>1, <2>2, MismatchIsUnseen
<1> HIDE DEF wrong
<1>8. \A i \in Targets : i # socket => read'[i] = read[i]
    BY <1>2, <1>4
<1>9. /\ ExecutionOK' /\ ListenersFollow' /\ pc' \in {"recv", "done"}
      /\ ObservationIsReal' /\ RightTrafficIsNotFailed' /\ TimeoutMeansSilence'
    <2>1. CASE wrong # "" /\ MarkFailed(wrong) /\ pc' = "done"
        <3>1. wrong \in Reasons \ {""} /\ wrong # "timeout"
            BY <1>7, <2>1 DEF Reasons
        <3>2. /\ ExecutionOK' /\ ListenersFollow' /\ ObservationIsReal' /\ reason' # "timeout"
            BY <1>2, <2>1, <3>1, FailedOutcome
        <3>3. ~Acceptable'
            BY <1>1, <1>2, <1>6, <1>7, <2>1 DEF Acceptable
        <3> QED BY <2>1, <3>2, <3>3 DEF RightTrafficIsNotFailed, TimeoutMeansSilence
    <2>2. CASE wrong = "" /\ socket = Len(Expected) /\ MarkNetworkComplete /\ pc' = "done"
        <3>1. \A i \in Targets : Len(read'[i]) = 1 /\ Begins(read'[i], <<Expected[i]>>)
            <4> TAKE i \in Targets
            <4>0. socket = Len(Expected)
                BY <2>2
            <4>1. i # socket => i < socket
                BY <1>3, <1>3a, <4>0
            <4> QED BY <1>5, <1>7, <1>8, <2>2, <4>1
        <3>2. Observed'
            BY <1>1, <1>6, <3>1 DEF Observed
        <3> QED BY <1>2, <2>2, <3>2, CompleteOutcome DEF ObservationIsReal
    <2>3. CASE UNCHANGED <<execution, pc>>
        BY <1>2, <2>3, OpenOutcome
    <2> QED BY <1>1, <2>1, <2>2, <2>3
<1>10. TargetLoop' /\ socket' \in Targets
    <2>1. CASE pc' = "done" /\ socket' = socket
        BY <1>2, <2>1 DEF TargetLoop
    <2>2. CASE wrong = "" /\ socket < Len(Expected) /\ socket' = socket + 1
        <3>0. socket < Len(Expected) /\ socket' = socket + 1
            BY <2>2
        <3>1. socket' \in Targets
            BY <1>3, <3>0
        <3>2. \A i \in Targets :
                IF i < socket' THEN Len(read'[i]) = 1 /\ Begins(read'[i], <<Expected[i]>>)
                ELSE read'[i] = <<>>
            <4> TAKE i \in Targets
            <4>1. CASE i = socket
                <5>1. i < socket'
                    BY <1>3, <3>0, <4>1
                <5> QED BY <1>7, <2>2, <4>1, <5>1
            <4>2. CASE i # socket
                <5>1. i < socket' <=> i < socket
                    BY <1>3, <1>3a, <3>0, <4>2
                <5> QED BY <1>5, <1>8, <4>2, <5>1
            <4> QED BY <4>1, <4>2
        <3> QED BY <1>6, <3>1, <3>2 DEF TargetLoop
    <2> QED BY <1>1, <2>1, <2>2
<1>11. (KindOfLoop /\ ReceiveLoop /\ PrLoop /\ TriggerLoop)'
    BY <1>1, <1>6, <1>9 DEF KindOfLoop, ReceiveLoop, PrLoop, TriggerLoop
<1>12. TypeOK'
    <2>1. saw_skipped \in BOOLEAN /\ saw_final \in BOOLEAN
        BY DEF LoopInv, TypeOK
    <2> QED BY <1>1, <1>2, <1>4, <1>9, <1>10, <2>1, TurnTypes
<1> QED BY <1>9, <1>10, <1>11, <1>12 DEF LoopInv

LEMMA PrKeeps ==
    ASSUME LoopInv, ReceivePartiallyReliable
    PROVE  LoopInv'
<1> DEFINE got == Materialize(Incoming)
           known == got \in {Skipped, Final}
<1>1. /\ kind = "ReceivePRMessages" /\ ReceiveData
      /\ saw_skipped' = (saw_skipped \/ got = Skipped)
      /\ saw_final' = (saw_final \/ got = Final)
      /\ \/ known /\ UNCHANGED <<execution, pc>>
         \/ ~known /\ MarkFailed("payload") /\ pc' = "done"
      /\ UNCHANGED <<socket, replied>>
    BY DEF ReceivePartiallyReliable
<1>2. /\ Receive /\ pc = "recv" /\ UNCHANGED definition /\ definition \in Definitions
      /\ socket \in Targets
    BY <1>1, ReceiveFacts DEF ReceiveData
<1>3. Targets = {1} /\ socket = 1
    BY <1>1, <1>2, TargetFacts
<1>4. /\ read[1] \in Seq(Traffic) /\ Incoming \in Traffic
      /\ read'[1] = Append(read[1], Incoming) /\ read' \in [Targets -> Seq(Traffic)]
    BY <1>1, <1>3, DataFacts
<1>5. UNCHANGED <<kind, Expected, Targets, Skipped, Final>>
    BY <1>2, SameDefinition
<1>6. /\ \A j \in DOMAIN read[1] : j \in DOMAIN read'[1] /\ read'[1][j] = read[1][j]
      /\ \E j \in DOMAIN read'[1] : read'[1][j] = Incoming
      /\ \A j \in DOMAIN read'[1] :
            \/ read'[1][j] = Incoming
            \/ j \in DOMAIN read[1] /\ read'[1][j] = read[1][j]
    <2>1. /\ DOMAIN read'[1] = 1..(Len(read[1]) + 1) /\ DOMAIN read[1] = 1..Len(read[1])
          /\ read'[1][Len(read[1]) + 1] = Incoming /\ Len(read[1]) \in Nat
        BY <1>4
    <2>2. PICK last \in DOMAIN read'[1] :
             /\ read'[1][last] = Incoming
             /\ \A j \in DOMAIN read'[1] : j = last \/ j \in DOMAIN read[1]
        BY <2>1
    <2>3. \A j \in DOMAIN read[1] : j \in DOMAIN read'[1] /\ read'[1][j] = read[1][j]
        BY <1>4
    <2>4. ASSUME NEW j \in DOMAIN read'[1], j # last
          PROVE  j \in DOMAIN read[1] /\ read'[1][j] = read[1][j]
        BY <2>2, <2>3, <2>4
    <2>5. \E j \in DOMAIN read'[1] : read'[1][j] = Incoming
        BY <2>2
    <2> QED BY <2>2, <2>3, <2>4, <2>5
<1>7. /\ \A j \in DOMAIN read[1] : Materialize(read[1][j]) \in {Skipped, Final}
      /\ saw_skipped <=> \E j \in DOMAIN read[1] : Materialize(read[1][j]) = Skipped
      /\ saw_final <=> \E j \in DOMAIN read[1] : Materialize(read[1][j]) = Final
    BY <1>1, <1>2 DEF LoopInv, PrLoop
<1>8. /\ ExecutionOK' /\ ListenersFollow' /\ pc' \in {"recv", "done"}
      /\ ObservationIsReal' /\ RightTrafficIsNotFailed' /\ TimeoutMeansSilence'
    <2>1. CASE ~known /\ MarkFailed("payload") /\ pc' = "done"
        <3>1. ExecutionOK' /\ ListenersFollow' /\ ObservationIsReal' /\ reason' # "timeout"
            <4>1. "payload" \in Reasons \ {""}
                BY DEF Reasons
            <4> QED BY <1>2, <2>1, <4>1, FailedOutcome
        <3>2. \E j \in DOMAIN read'[1] : Materialize(read'[1][j]) # Final
            BY <1>6, <2>1
        <3>3. ~Acceptable'
            BY <1>1, <1>5, <3>2 DEF Acceptable
        <3> QED BY <2>1, <3>1, <3>3 DEF RightTrafficIsNotFailed, TimeoutMeansSilence
    <2>2. CASE UNCHANGED <<execution, pc>>
        BY <1>2, <2>2, OpenOutcome
    <2> QED BY <1>1, <2>1, <2>2
<1>9. PrLoop'
    <2>1. known => \A j \in DOMAIN read'[1] : Materialize(read'[1][j]) \in {Skipped, Final}
        BY <1>6, <1>7
    <2>2. saw_skipped' <=> \E j \in DOMAIN read'[1] : Materialize(read'[1][j]) = Skipped
        BY <1>1, <1>6, <1>7
    <2>3. saw_final' <=> \E j \in DOMAIN read'[1] : Materialize(read'[1][j]) = Final
        BY <1>1, <1>6, <1>7
    <2>4. pc' = "recv" => known
        BY <1>1
    <2> QED BY <1>5, <2>1, <2>2, <2>3, <2>4 DEF PrLoop
<1>10. (KindOfLoop /\ ReceiveLoop /\ TargetLoop /\ TriggerLoop)'
    BY <1>1, <1>5, <1>8 DEF KindOfLoop, ReceiveLoop, TargetLoop, TriggerLoop
<1>11. TypeOK'
    <2>1. saw_skipped' \in BOOLEAN /\ saw_final' \in BOOLEAN
        BY <1>1 DEF LoopInv, TypeOK
    <2> QED BY <1>1, <1>2, <1>4, <1>8, <2>1, TurnTypes
<1> QED BY <1>8, <1>9, <1>10, <1>11 DEF LoopInv

LEMMA TriggerKeeps ==
    ASSUME LoopInv, ReceiveTrigger
    PROVE  LoopInv'
<1>1. /\ kind = "SendAfterTrigger" /\ ReceiveData
      /\ \/ CString(Incoming) # Materialize(Trigger) /\ MarkFailed("payload") /\ pc' = "done"
         \/ CString(Incoming) = Materialize(Trigger) /\ pc' = "send" /\ UNCHANGED execution
      /\ UNCHANGED <<socket, saw_skipped, saw_final, replied>>
    BY DEF ReceiveTrigger
<1>2. /\ Receive /\ pc = "recv" /\ UNCHANGED definition /\ definition \in Definitions
      /\ socket \in Targets
    BY <1>1, ReceiveFacts DEF ReceiveData
<1>3. Targets = {1} /\ socket = 1
    BY <1>1, <1>2, TargetFacts
<1>4. /\ read'[1] = Append(read[1], Incoming) /\ read' \in [Targets -> Seq(Traffic)]
    BY <1>1, <1>3, DataFacts
<1>5. read[1] = <<>>
    BY <1>1, <1>2 DEF LoopInv, TriggerLoop
<1>6. read'[1] = <<Incoming>>
    BY <1>4, <1>5
<1>7. UNCHANGED <<kind, Trigger>>
    BY <1>2, SameDefinition
<1>8. /\ ExecutionOK' /\ ListenersFollow' /\ pc' \in {"send", "done"}
      /\ ObservationIsReal' /\ RightTrafficIsNotFailed' /\ TimeoutMeansSilence'
    <2>1. CASE CString(Incoming) # Materialize(Trigger) /\ MarkFailed("payload") /\ pc' = "done"
        <3>1. ExecutionOK' /\ ListenersFollow' /\ ObservationIsReal' /\ reason' # "timeout"
            <4>1. "payload" \in Reasons \ {""}
                BY DEF Reasons
            <4> QED BY <1>2, <2>1, <4>1, FailedOutcome
        <3>2. ~Acceptable'
            BY <1>1, <1>6, <1>7, <2>1 DEF Acceptable
        <3> QED BY <2>1, <3>1, <3>2 DEF RightTrafficIsNotFailed, TimeoutMeansSilence
    <2>2. CASE pc' = "send" /\ UNCHANGED execution
        BY <1>2, <2>2, OpenOutcome
    <2> QED BY <1>1, <2>1, <2>2
<1>9. TriggerLoop'
    BY <1>1, <1>6, <1>7 DEF TriggerLoop
<1>10. (KindOfLoop /\ ReceiveLoop /\ TargetLoop /\ PrLoop)'
    BY <1>1, <1>7, <1>8 DEF KindOfLoop, ReceiveLoop, TargetLoop, PrLoop
<1>11. TypeOK'
    <2>1. saw_skipped \in BOOLEAN /\ saw_final \in BOOLEAN
        BY DEF LoopInv, TypeOK
    <2> QED BY <1>1, <1>2, <1>4, <1>8, <2>1, TurnTypes
<1> QED BY <1>8, <1>9, <1>10, <1>11 DEF LoopInv

-----------------------------------------------------------------------------
(* The ways a loop ends without a message *)

LEMMA EndTypes ==
    ASSUME LoopInv, ExecutionOK', pc' \in {"recv", "send", "done"}, replied' \in 0..Replies,
           UNCHANGED <<definition, now, network, socket, waiting_since, saw_skipped, saw_final,
                       read>>
    PROVE  TypeOK'
<1>1. UNCHANGED <<Targets, Traffic, Replies>>
    BY SameDefinition
<1>2. UNCHANGED <<queue, arrived>>
    BY DEF network
<1>3. TypeOK
    BY DEF LoopInv
<1> QED BY <1>1, <1>2, <1>3 DEF TypeOK, ExecutionOK, Reasons

LEMMA EndLoops ==
    ASSUME pc' = "done"
    PROVE  (KindOfLoop /\ ReceiveLoop /\ TargetLoop /\ PrLoop /\ TriggerLoop)'
BY DEF KindOfLoop, ReceiveLoop, TargetLoop, PrLoop, TriggerLoop

LEMMA SendKeeps ==
    ASSUME LoopInv, SendReply
    PROVE  LoopInv'
<1>1. /\ pc = "send"
      /\ UNCHANGED <<definition, now, network, socket, waiting_since, saw_skipped, saw_final,
                     read>>
    BY DEF SendReply
<1>2. /\ kind = "SendAfterTrigger" /\ replied \in 0..Replies
      /\ Len(read[1]) = 1 /\ CString(read[1][1]) = Materialize(Trigger)
    BY <1>1 DEF LoopInv, KindOfLoop, TriggerLoop, TypeOK
<1>3. Replies \in Nat
    <2>1. definition \in Definitions
        BY DEF LoopInv, TypeOK
    <2> QED BY <2>1, DefinitionFacts
<1>4. UNCHANGED <<kind, Trigger, Replies>>
    BY <1>1, SameDefinition
<1>5. CASE replied < Replies /\ replied' = replied + 1 /\ UNCHANGED <<execution, pc>>
    <2>1. replied' \in 0..Replies
        BY <1>2, <1>3, <1>5
    <2>2. /\ ExecutionOK' /\ ListenersFollow'
          /\ ObservationIsReal' /\ RightTrafficIsNotFailed' /\ TimeoutMeansSilence'
        BY <1>1, <1>5, OpenOutcome
    <2>3. (KindOfLoop /\ ReceiveLoop /\ TargetLoop /\ PrLoop /\ TriggerLoop)'
        BY <1>1, <1>2, <1>4, <1>5
            DEF KindOfLoop, ReceiveLoop, TargetLoop, PrLoop, TriggerLoop
    <2>4. pc' \in {"recv", "send", "done"}
        BY <1>1, <1>5
    <2> QED BY <1>1, <2>1, <2>2, <2>3, <2>4, EndTypes DEF LoopInv
<1>6. CASE MarkFailed("error") /\ pc' = "done" /\ UNCHANGED replied
    <2>1. /\ ExecutionOK' /\ ListenersFollow' /\ ObservationIsReal'
          /\ reason' # "timeout" /\ (state' = "Failed" => reason' = "error")
        <3>1. "error" \in Reasons \ {""}
            BY DEF Reasons
        <3> QED BY <1>1, <1>6, <3>1, FailedOutcome
    <2>2. RightTrafficIsNotFailed' /\ TimeoutMeansSilence'
        BY <2>1 DEF RightTrafficIsNotFailed, TimeoutMeansSilence
    <2> QED BY <1>1, <1>2, <1>6, <2>1, <2>2, EndTypes, EndLoops DEF LoopInv
<1>7. CASE ~(replied < Replies) /\ MarkNetworkComplete /\ pc' = "done" /\ UNCHANGED replied
    <2>1. /\ ExecutionOK' /\ ListenersFollow'
          /\ RightTrafficIsNotFailed' /\ TimeoutMeansSilence'
        BY <1>1, <1>7, CompleteOutcome
    <2>2. replied = Replies
        BY <1>2, <1>3, <1>7
    <2>3. Observed'
        BY <1>1, <1>2, <1>4, <1>7, <2>2 DEF Observed
    <2> QED BY <1>1, <1>2, <1>7, <2>1, <2>3, EndTypes, EndLoops DEF LoopInv, ObservationIsReal
<1> QED BY <1>5, <1>6, <1>7 DEF SendReply, Unsent

LEMMA FailsKeeps ==
    ASSUME LoopInv, ReceiveFails
    PROVE  LoopInv'
<1>1. /\ pc = "recv" /\ MarkFailed("error") /\ pc' = "done"
      /\ UNCHANGED <<definition, now, network, socket, waiting_since, saw_skipped, saw_final,
                     replied, read>>
    BY DEF ReceiveFails
<1>2. /\ ExecutionOK' /\ ListenersFollow' /\ ObservationIsReal'
      /\ reason' # "timeout" /\ (state' = "Failed" => reason' = "error")
    <2>1. "error" \in Reasons \ {""}
        BY DEF Reasons
    <2> QED BY <1>1, <2>1, FailedOutcome
<1>3. RightTrafficIsNotFailed' /\ TimeoutMeansSilence'
    BY <1>2 DEF RightTrafficIsNotFailed, TimeoutMeansSilence
<1>4. replied' \in 0..Replies
    BY <1>1 DEF LoopInv, TypeOK
<1> QED BY <1>1, <1>2, <1>3, <1>4, EndTypes, EndLoops DEF LoopInv

\* EAGAIN: silence is a failure for every worker but one, which has waited for it.
LEMMA TimesOutKeeps ==
    ASSUME LoopInv, ReceiveTimesOut
    PROVE  LoopInv'
<1>1. /\ pc = "recv" /\ now >= waiting_since + Timeout /\ pc' = "done"
      /\ listening => queue[socket] = <<>>
      /\ UNCHANGED <<definition, now, network, socket, waiting_since, saw_skipped, saw_final,
                     replied, read>>
    BY DEF ReceiveTimesOut
<1>2. UNCHANGED <<kind, Expected, Skipped, Final, queue>>
    BY <1>1, SameDefinition DEF network
<1>3. state = "Active" => queue[socket] = <<>>
    BY <1>1 DEF LoopInv, ListenersFollow
<1>4. (KindOfLoop /\ ReceiveLoop /\ TargetLoop /\ PrLoop /\ TriggerLoop)'
    BY <1>1, EndLoops
<1>5. ExecutionOK' => TypeOK'
    <2>1. replied' \in 0..Replies
        BY <1>1 DEF LoopInv, TypeOK
    <2> QED BY <1>1, <2>1, EndTypes
<1>5a. /\ socket \in Targets /\ UNCHANGED <<Targets, socket, read>>
       /\ kind = "ReceiveMessages" => Len(read[socket]) < Len(Expected)
       /\ (kind = "ReceivePRMessages" /\ ~saw_final) =>
             \A j \in DOMAIN read[socket] : Materialize(read[socket][j]) # Final
       /\ kind \in {"ReceiveMessagesMultiTarget", "SendAfterTrigger"} => read[socket] = <<>>
    <2>1. definition \in Definitions /\ socket \in Targets \cup {1} /\ kind # "AgentOnly"
        BY <1>1 DEF LoopInv, TypeOK, KindOfLoop
    <2>2. CASE kind = "ReceiveMessagesMultiTarget"
        <3>1. Targets = 1..Len(Expected) /\ Len(Expected) \in Nat /\ Len(Expected) > 0
            BY <2>1, <2>2, TargetFacts, DefinitionFacts
        <3>2. socket \in Targets /\ ~(socket < socket)
            BY <2>1, <3>1
        <3>3. read[socket] = <<>>
            BY <1>1, <2>2, <3>2 DEF LoopInv, TargetLoop
        <3> QED BY <1>1, <2>2, <3>2, <3>3, SameDefinition
    <2>3. CASE kind \in {"ReceiveMessages", "ReceivePRMessages", "SendAfterTrigger"}
        <3>1. Targets = {1} /\ socket = 1
            BY <2>1, <2>3, TargetFacts
        <3>2. /\ kind = "ReceiveMessages" => Len(read[1]) < Len(Expected)
              /\ kind = "SendAfterTrigger" => read[1] = <<>>
            BY <1>1 DEF LoopInv, ReceiveLoop, TriggerLoop
        <3>3. kind = "ReceivePRMessages" /\ ~saw_final =>
                 \A j \in DOMAIN read[1] : Materialize(read[1][j]) # Final
            BY <1>1 DEF LoopInv, PrLoop
        <3> QED BY <1>1, <2>3, <3>1, <3>2, <3>3, SameDefinition
    <2> QED BY <2>1, <2>2, <2>3, DefinitionFacts
<1>6. ASSUME MarkFailed("timeout"), kind = "ReceivePRMessages" => ~saw_final
      PROVE  LoopInv'
    <2>1. "timeout" \in Reasons \ {""}
        BY DEF Reasons
    <2>2. /\ ExecutionOK' /\ ListenersFollow' /\ ObservationIsReal'
          /\ (reason' # "" => state' = "Failed")
          /\ (state' = "Failed" => reason' = "timeout" /\ state = "Active")
        BY <1>1, <1>6, <2>1, FailedOutcome
    <2>3. RightTrafficIsNotFailed'
        BY <2>2 DEF RightTrafficIsNotFailed
    <2>4. ASSUME state = "Active"
          PROVE  Unheard(socket)' /\ socket \in Targets'
        <3>1. queue[socket] = <<>>
            BY <1>3, <2>4
        <3>2. Unheard(socket)
            BY <1>5a, <1>6, <3>1 DEF Unheard
        <3>3. Unheard(socket)'
            BY <1>2, <1>5a, <3>2 DEF Unheard
        <3> QED BY <1>5a, <3>3
    <2>5. TimeoutMeansSilence'
        BY <1>1, <2>2, <2>4 DEF TimeoutMeansSilence
    <2> QED BY <1>4, <1>5, <2>2, <2>3, <2>5 DEF LoopInv
<1>7. ASSUME kind = "ReceivePRMessages", PrEnds
      PROVE  LoopInv'
    <2>1. /\ \A j \in DOMAIN read[1] : Materialize(read[1][j]) \in {Skipped, Final}
          /\ saw_skipped <=> \E j \in DOMAIN read[1] : Materialize(read[1][j]) = Skipped
          /\ saw_final <=> \E j \in DOMAIN read[1] : Materialize(read[1][j]) = Final
        BY <1>1, <1>7 DEF LoopInv, PrLoop
    <2>2. CASE ~saw_final
        BY <1>6, <1>7, <2>2 DEF PrEnds
    <2>3. CASE saw_final /\ saw_skipped
        <3>1. MarkFailed("delivered")
            BY <1>7, <2>3 DEF PrEnds
        <3>2. "delivered" \in Reasons \ {""}
            BY DEF Reasons
        <3>3. ExecutionOK' /\ ListenersFollow' /\ ObservationIsReal' /\ reason' # "timeout"
            BY <1>1, <3>1, <3>2, FailedOutcome
        <3>4. Skipped # Final
            <4>1. definition \in Definitions
                BY DEF LoopInv, TypeOK
            <4> QED BY <1>7, <4>1, DefinitionFacts
        <3>5. ~Acceptable'
            BY <1>1, <1>2, <1>7, <2>1, <2>3, <3>4 DEF Acceptable
        <3>6. RightTrafficIsNotFailed' /\ TimeoutMeansSilence'
            BY <3>3, <3>5 DEF RightTrafficIsNotFailed, TimeoutMeansSilence
        <3> QED BY <1>4, <1>5, <3>3, <3>6 DEF LoopInv
    <2>4. CASE saw_final /\ ~saw_skipped
        <3>1. MarkNetworkComplete
            BY <1>7, <2>4 DEF PrEnds
        <3>2. /\ ExecutionOK' /\ ListenersFollow'
              /\ RightTrafficIsNotFailed' /\ TimeoutMeansSilence'
            BY <1>1, <3>1, CompleteOutcome
        <3>3. read[1] # <<>> /\ \A j \in DOMAIN read[1] : Materialize(read[1][j]) = Final
            BY <2>1, <2>4
        <3>4. Observed'
            BY <1>1, <1>2, <1>7, <3>3 DEF Observed
        <3> QED BY <1>4, <1>5, <3>2, <3>4 DEF LoopInv, ObservationIsReal
    <2> QED BY <2>2, <2>3, <2>4
<1> QED BY <1>6, <1>7 DEF ReceiveTimesOut

-----------------------------------------------------------------------------
(* The theorems *)

LEMMA InitLoop == Init => LoopInv
<1> SUFFICES ASSUME Init PROVE LoopInv
    OBVIOUS
<1>0. now = 0 /\ waiting_since = 0 /\ arrived = 0 /\ replied = 0
    BY DEF Init
<1>1. /\ definition \in Definitions /\ socket = 1
      /\ queue = [i \in Targets |-> <<>>] /\ read = [i \in Targets |-> <<>>]
    BY DEF Init
<1>1a. /\ state = "Active" /\ reason = "" /\ network_complete = FALSE /\ agent_complete = FALSE
      /\ listening \in BOOLEAN /\ (Targets # {} => listening)
      /\ pc \in {"done", "recv"} /\ (pc = "recv" => Targets # {})
      /\ saw_skipped = FALSE /\ saw_final = FALSE
    BY DEF Init
<1>2. /\ kind = "AgentOnly" => Targets = {}
      /\ kind \in {"ReceiveMessages", "ReceivePRMessages", "SendAfterTrigger"} => Targets = {1}
      /\ kind = "ReceiveMessagesMultiTarget" => Targets = 1..Len(Expected)
      /\ Expected \in Seq(MessageSpec) /\ Replies \in Nat
      /\ kind = "ReceiveMessages" => Len(Expected) > 0
    BY <1>1, TargetFacts, DefinitionFacts
<1>3. TypeOK
    <2>1. now \in 0..Horizon /\ waiting_since \in 0..now /\ arrived \in 0..MaxArrivals
        BY <1>0, HorizonNat
    <2>2. replied \in 0..Replies
        BY <1>0, <1>2
    <2>3. /\ queue \in [Targets -> Seq(Traffic \cup {Notification})]
          /\ read \in [Targets -> Seq(Traffic)]
        BY <1>1
    <2> QED BY <1>1, <1>1a, <2>1, <2>2, <2>3 DEF TypeOK, Terminal
<1>4. ListenersFollow /\ ObservationIsReal /\ RightTrafficIsNotFailed /\ TimeoutMeansSilence
    BY <1>1a DEF ListenersFollow, ObservationIsReal, RightTrafficIsNotFailed, TimeoutMeansSilence
<1>5. KindOfLoop
    BY <1>2, <1>1a DEF KindOfLoop
<1>6. ReceiveLoop
    <2>1. kind = "ReceiveMessages" => read[1] = <<>>
        BY <1>1, <1>2
    <2> QED BY <1>2, <2>1 DEF ReceiveLoop, Begins
<1>7. TargetLoop
    <2>1. ASSUME NEW i \in 1..Len(Expected) PROVE ~(i < 1)
        BY <1>2, <2>1
    <2> QED BY <1>1, <1>2, <2>1 DEF TargetLoop
<1>8. PrLoop /\ TriggerLoop
    <2>1. kind \in {"ReceivePRMessages", "SendAfterTrigger"} => read[1] = <<>>
        BY <1>1, <1>2
    <2>2. kind = "ReceivePRMessages" => DOMAIN read[1] = {}
        BY <2>1
    <2>3. PrLoop
        BY <1>1a, <2>2 DEF PrLoop
    <2> QED BY <1>1a, <2>1, <2>3 DEF TriggerLoop
<1> QED BY <1>3, <1>4, <1>5, <1>6, <1>7, <1>8 DEF LoopInv

LEMMA StepLoop == LoopInv /\ [Next]_vars => LoopInv'
<1> SUFFICES ASSUME LoopInv, [Next]_vars PROVE LoopInv'
    OBVIOUS
<1>1. CASE SkipNotification
    BY <1>1, SkipKeeps
<1>2. CASE \E has_addrs \in BOOLEAN : ReceiveExpected(has_addrs)
    BY <1>2, ExpectedKeeps
<1>3. CASE ReceiveOnTarget
    BY <1>3, TargetKeeps
<1>4. CASE ReceivePartiallyReliable
    BY <1>4, PrKeeps
<1>5. CASE ReceiveTrigger
    BY <1>5, TriggerKeeps
<1>6. CASE SendReply
    BY <1>6, SendKeeps
<1>7. CASE ReceiveTimesOut
    BY <1>7, TimesOutKeeps
<1>8. CASE ReceiveFails
    BY <1>8, FailsKeeps
<1>9. CASE Poll \/ Report \/ Decline
    BY <1>9, HandlerKeeps
<1>10. CASE Tick
    BY <1>10, TickKeeps
<1>11. CASE \E i \in Targets, m \in Traffic \cup {Notification} : Arrive(i, m)
    BY <1>11, ArriveKeeps
<1>12. CASE UNCHANGED vars
    <2>1. /\ UNCHANGED <<definition, now, execution, network, worker>>
        BY <1>12 DEF vars
    <2>2. /\ UNCHANGED <<definition, pc, socket, saw_skipped, saw_final, replied, read>>
          /\ UNCHANGED <<now, waiting_since, queue, arrived, listening, state, reason>>
          /\ UNCHANGED <<network_complete, agent_complete>>
        BY <2>1 DEF execution, network, worker
    <2>3. /\ UNCHANGED <<kind, Targets, Traffic, Replies>>
          /\ (KindOfLoop /\ ReceiveLoop /\ TargetLoop /\ PrLoop /\ TriggerLoop)'
          /\ Observed' = Observed /\ Acceptable' = Acceptable
        BY <2>2, SameDefinition, LoopStays
    <2>4. TypeOK' /\ ListenersFollow'
        BY <2>2, <2>3 DEF LoopInv, TypeOK, ListenersFollow
    <2>5. ObservationIsReal' /\ RightTrafficIsNotFailed'
        BY <2>2, <2>3 DEF LoopInv, ObservationIsReal, RightTrafficIsNotFailed
    <2>6. TimeoutMeansSilence'
        BY <2>2, SilenceStays DEF LoopInv
    <2> QED BY <2>3, <2>4, <2>5, <2>6 DEF LoopInv
<1> QED BY <1>1, <1>2, <1>3, <1>4, <1>5, <1>6, <1>7, <1>8, <1>9, <1>10, <1>11, <1>12
        DEF Next, ReceiveStep

LEMMA LoopInvariant == Spec => []LoopInv
BY InitLoop, StepLoop, PTL DEF Spec

(* The state of worker, network and session is what it is declared to be,  *)
(* replies and arrivals within their bounds: run_*_worker.                 *)
THEOREM WorkersTypeCorrect == Spec => []TypeOK
BY LoopInvariant, PTL DEF LoopInv

(* mark_network_complete is called only for the traffic the contract asks  *)
(* for, whatever strays and notifications come between, on any listener; a *)
(* trigger is that traffic up to its first NUL.                            *)
THEOREM OnlyRealTrafficCompletes == Spec => []ObservationIsReal
BY LoopInvariant, PTL DEF LoopInv

(* mark_failed blames a client whose traffic is right so far for nothing it*)
(* sent: only silence, a socket error or missing peer addresses fail it.   *)
THEOREM RightClientsAreNotBlamed == Spec => []RightTrafficIsNotFailed
BY LoopInvariant, PTL DEF LoopInv

(* A worker reports a timeout only after SO_RCVTIMEO passed since its last *)
(* message, and only if something it waits for has not come to its         *)
(* listener: no message that came is missed, in whatever order listeners   *)
(* are read.                                                               *)
THEOREM TimeoutsAreSilences == Spec => []TimeoutMeansSilence
BY LoopInvariant, PTL DEF LoopInv
=============================================================================
