---------------------------- MODULE ContractClient ----------------------------
(***************************************************************************)
(* A client that knows a feature only by its contract and does what it     *)
(* says, to the letter, against the worker of ScenarioWorkers: the test of *)
(* the catalog as a whole, feature by feature.                             *)
(*                                                                         *)
(* The client is not part of the repository; docs/agent-http-api.md calls  *)
(* the fields of the contract "authoritative per-feature instructions".    *)
(* What differs from client to client is chosen at the start: the APIs and *)
(* the number of outgoing streams it has, and whether an operator has made *)
(* the manual setup.  Everybody is prompt: the clock moves only when       *)
(* client, network and worker have nothing left to do but wait.            *)
(***************************************************************************)
EXTENDS ScenarioWorkers

CONSTANT ClientStreams     \* numbers of outgoing streams to consider
ASSUME ClientStreamsAssumption == ClientStreams \subseteq Nat

VARIABLES
    apis,          \* the client has every socket option and event there is
    prepared,      \* the manual setup has been made
    streams,       \* outgoing streams the client asks for
    contract,
    client,        \* what the client does next
    sent,          \* messages it has sent
    wire,          \* what it has sent and the network still carries, oldest first
    received,      \* the server's messages it has received
    dropped,       \* history: the network has dropped a lossy message
    work_failed    \* history: its local work found no association

environment == <<apis, prepared, streams, contract>>
client_vars == <<client, sent, wire, received, dropped, work_failed>>
all_vars == <<vars, environment, client_vars>>

\* sinit_num_ostreams and sinit_max_instreams of apply_server_initmsg
ServerStreams == 32
kBufferSize == 262144

\* What the catalog gives a client: messages only of the scenario's kind, which
\* the transport keeps apart from notifications and in their order, on streams
\* and with keys there are, and impairments only where they are looked for.
ASSUME CatalogAssumption ==
    \A d \in Definitions :
        LET asked == d.client_send_messages
            is(k) == d.scenario_kind = k
        IN
        /\ IF is("AgentOnly") THEN d.completion_mode = "AgentReported"
                              ELSE d.completion_mode \in {Server, Hybrid}
        /\ d.local_work_after => d.completion_mode = Hybrid
        /\ d.trigger_payload # "" <=> is("SendAfterTrigger")
        /\ is("AgentOnly") \/ is("SendAfterTrigger") => asked = <<>>
        /\ d.server_send_messages # <<>> => is("SendAfterTrigger")
        /\ d.bind_address_count \in Nat \ {0} /\ d.expected_peer_addr_count = 0
        /\ d.expected_associations > 0 <=> is("ReceiveMessagesMultiTarget")
        /\ d.trigger_payload # Notification.payload
        /\ Materialize(Msg(d.trigger_payload, 0, 0)) \notin DOMAIN CutAtNul
        /\ \A i \in DOMAIN asked :
            /\ asked[i] # Notification
            /\ asked[i].stream < ServerStreams /\ asked[i].size_bytes <= kBufferSize
            /\ asked[i].auth_key_id \in d.auth \cup {0}
            /\ is("ReceiveMessages") => asked[i].stream = asked[1].stream
            /\ asked[i].pr_policy # "" => is("ReceivePRMessages") /\ i = 1
        /\ is("ReceivePRMessages") => Len(asked) = 2
        /\ \A i \in DOMAIN d.server_send_messages :
            d.server_send_messages[i].stream < ServerStreams

-----------------------------------------------------------------------------
\* The addresses StartFeature hands to build_contract, as listener and address
ConnectAddresses(d) ==
    CASE d.scenario_kind = "AgentOnly" -> <<>>
      [] d.scenario_kind = "ReceiveMessagesMultiTarget" ->
            [i \in 1..d.expected_associations |-> <<i, 1>>]
      [] OTHER -> [i \in 1..d.bind_address_count |-> <<1, i>>]

\* Mutant: size_bytes is forgotten.
JsonMessagesUnsized(messages) ==
    [i \in DOMAIN messages |-> [messages[i] EXCEPT !.size_bytes = 0]]

\* json_messages: zero and empty fields are not written, and read as absent.
JsonMessages(messages) == messages

\* build_contract.  scenario_kind is not in it.
BuildContract(d, addresses) ==
    [feature_id |-> d.id, completion_mode |-> d.completion_mode,
     connect_addresses |-> addresses,
     client_socket_options |-> d.client_socket_options,
     client_subscriptions |-> d.client_subscriptions,
     client_send_messages |-> JsonMessages(d.client_send_messages),
     server_send_messages |-> JsonMessages(d.server_send_messages),
     trigger_payload |-> d.trigger_payload,
     negative_connect_target |-> d.negative_connect_target,
     manual_setup_required |-> d.manual_setup_required,
     local_work_after |-> d.local_work_after,       \* in instructions_text
     auth |-> d.auth, one_to_many |-> d.expected_associations]

ToSend == IF contract.trigger_payload # ""
          THEN <<Msg(contract.trigger_payload, 0, 0)>> ELSE contract.client_send_messages

\* Message i goes to address i on a one-to-many socket, else to the association.
Destination(i) ==
    contract.connect_addresses[IF contract.one_to_many > 0 THEN i ELSE 1][1]

Outgoing == IF streams < ServerStreams THEN streams ELSE ServerStreams

\* It has the APIs, the streams, and with the setup the keys its messages need.
Able ==
    /\ apis \/ contract.client_socket_options \cup contract.client_subscriptions = {}
    /\ contract.auth # {} => prepared
    /\ \A i \in DOMAIN ToSend :
        /\ ToSend[i].stream < Outgoing
        /\ ToSend[i].auth_key_id \in contract.auth \cup {0}
        /\ contract.connect_addresses # <<>>

ClientInit ==
    /\ Init
    /\ apis \in BOOLEAN /\ prepared \in BOOLEAN /\ streams \in ClientStreams
    /\ contract = BuildContract(definition, ConnectAddresses(definition))
    /\ client = "setup" /\ sent = 0 /\ wire = <<>> /\ received = 0
    /\ dropped = FALSE /\ work_failed = FALSE

-----------------------------------------------------------------------------
(* The client, step by step *)

Then(next) == client' = next

\* docs/agent-http-api.md: unsupported is for features that ask for a report.
SetUp ==
    /\ client = "setup"
    /\ Then(IF Able THEN "send"
            ELSE IF contract.completion_mode = Server THEN "done" ELSE "decline")
    /\ UNCHANGED <<vars, sent, wire, received, dropped, work_failed>>

Send ==
    /\ client = "send" /\ sent < Len(ToSend)
    /\ sent' = sent + 1
    /\ wire' = Append(wire, <<Destination(sent'), ToSend[sent']>>)
    /\ UNCHANGED <<vars, client, received, dropped, work_failed>>

AllSent ==
    /\ client = "send" /\ sent = Len(ToSend)
    /\ Then(IF contract.local_work_after THEN "local_work" ELSE "receive")
    /\ UNCHANGED <<vars, sent, wire, received, dropped, work_failed>>

\* The association is gone once the server has closed its socket.
LocalWork ==
    /\ client = "local_work"
    /\ work_failed' = ~listening
    /\ Then(IF listening THEN "receive" ELSE "decline")
    /\ UNCHANGED <<vars, sent, wire, received, dropped>>

\* What the server has sent before it closes its socket is still delivered.
ReceiveReply ==
    /\ client = "receive" /\ received < replied
    /\ received' = received + 1
    /\ UNCHANGED <<vars, client, sent, wire, dropped, work_failed>>

AllReceived ==
    /\ client = "receive" /\ received = Len(contract.server_send_messages)
    /\ Then(IF contract.completion_mode = Server THEN "done" ELSE "report")
    /\ UNCHANGED <<vars, sent, wire, received, dropped, work_failed>>

\* POST complete and unsupported; a feature that is no longer active says 409.
ReportOrDecline ==
    /\ client \in {"report", "decline"}
    /\ Then("done")
    /\ \/ client = "report" /\ Report
       \/ client = "decline" /\ Decline
       \/ state # "Active" /\ UNCHANGED vars
    /\ UNCHANGED <<sent, wire, received, dropped, work_failed>>

ClientStep == (SetUp \/ Send \/ AllSent \/ LocalWork \/ ReceiveReply \/ AllReceived
               \/ ReportOrDecline) /\ UNCHANGED environment

-----------------------------------------------------------------------------
(* The network keeps the order within a stream of an association only *)

Deliverable(k) ==
    \A j \in 1..k - 1 : wire[j][1] # wire[k][1] \/ wire[j][2].stream # wire[k][2].stream

Without(k) == SubSeq(wire, 1, k - 1) \o SubSeq(wire, k + 1, Len(wire))

\* sctp_recvv returns what fits its buffer.
Fitting(m) == IF m.size_bytes <= kBufferSize THEN m
              ELSE [m EXCEPT !.size_bytes = kBufferSize]

Deliver ==
    \E k \in DOMAIN wire :
        /\ Deliverable(k)
        /\ wire' = Without(k)
        /\ \/ Arrive(wire[k][1], Fitting(wire[k][2]))
           \/ ~listening /\ UNCHANGED vars
        /\ UNCHANGED <<environment, client, sent, received, dropped, work_failed>>

\* the impairment the manual setup asks for; it may fail to hit the message
Drop ==
    \E k \in DOMAIN wire :
        /\ prepared /\ wire[k][2].pr_policy # ""
        /\ wire' = Without(k) /\ dropped' = TRUE
        /\ UNCHANGED <<vars, environment, client, sent, received, work_failed>>

-----------------------------------------------------------------------------
(* The worker.  sctp_sendv fails on a stream the association does not have *)
(* and sctp_recvv only on a closed listener.                               *)

HasStream == definition.server_send_messages[replied + 1].stream < ServerStreams

WorkerStep ==
    /\ \/ ReceiveStep
       \/ SendReply /\ (Unsent => (replied' > replied <=> HasStream))
       \/ ReceiveTimesOut
       \/ ReceiveFails /\ ~listening
    /\ UNCHANGED <<environment, client_vars>>

Waiting ==
    /\ wire = <<>>
    /\ \/ client = "done"
       \/ client = "receive" /\ received = replied
                             /\ received < Len(contract.server_send_messages)
    /\ \/ pc = "done"
       \/ pc = "recv" /\ listening /\ queue[socket] = <<>>

ClientNext ==
    \/ ClientStep \/ Deliver \/ Drop \/ WorkerStep
    \/ Poll /\ UNCHANGED <<environment, client_vars>>
    \/ Tick /\ Waiting /\ UNCHANGED <<environment, client_vars>>

ClientSpec == ClientInit /\ [][ClientNext]_all_vars

\* Client, network and worker go on.  Nobody need ever poll.
ClientFairSpec ==
    /\ ClientSpec
    /\ WF_all_vars(ClientStep) /\ WF_all_vars(Deliver) /\ WF_all_vars(WorkerStep)
    /\ WF_all_vars(Tick /\ Waiting /\ UNCHANGED <<environment, client_vars>>)

-----------------------------------------------------------------------------
(* Correctness *)

\* A PR-SCTP verdict comes at the deadline, together with the poll's.
Deserved ==
    IF ~Able THEN IF mode = Server THEN {"Failed", "TimedOut"} ELSE {"Unsupported"}
    ELSE IF kind = "ReceivePRMessages"
         THEN {"TimedOut", IF dropped THEN "Passed" ELSE "Failed"}
    ELSE IF work_failed THEN {"Unsupported"}
    ELSE {"Passed"}

(* Whoever does what a contract says passes, and nobody else does; a client*)
(* that lacks nothing can do what each contract of build_feature_catalog   *)
(* says; and none is ever failed for what it sent.                         *)
VerdictIsDeserved ==
    /\ state # "Active" => state \in Deserved
    /\ apis /\ prepared /\ streams >= ServerStreams => Able
    /\ reason \in {"", "timeout", "delivered"}

(* Every feature of the catalog ends, and its client with it, even if no-  *)
(* body polls: the worker's own timeout sees to what the client cannot do. *)
EveryFeatureEnds == <>(state # "Active" /\ client = "done")

(* docs/agent-http-api.md: the sockets are closed when a feature becomes   *)
(* failed, unsupported or timed_out.  So the association is there for the  *)
(* local work of a feature that waits for the client's report.             *)
LocalWorkFindsAssociation ==
    client = "local_work" /\ state = "Active" => listening
=============================================================================
