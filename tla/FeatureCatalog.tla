---------------------------- MODULE FeatureCatalog ----------------------------
(***************************************************************************)
(* The features of the server as data: MessageSpec, FeatureDefinition, the *)
(* three make_*_feature functions, build_feature_catalog, and the contract *)
(* build_contract derives from a definition for the client.                *)
(*                                                                         *)
(* Kept of a definition is what a worker, a handler or a client that obeys *)
(* the contract acts on.  Titles, prompts, RFC links and the values of     *)
(* tuning objects (socket_tuning, scheduler, interleaving and              *)
(* address_reconfig) are left out: the contract carries them, and nothing  *)
(* in the server reads them again.  timeout_seconds is left to the modules *)
(* with a clock: deadline and SO_RCVTIMEO of a feature are always the same.*)
(***************************************************************************)
EXTENDS Naturals, Sequences

MessageSpec ==
    [payload : STRING, stream : Nat, ppid : Nat, size_bytes : Nat, unordered : BOOLEAN,
     pr_policy : STRING, auth_key_id : Nat]

\* a MessageSpec with its defaults; size_bytes 0: the payload as it stands
Sized(payload, stream, ppid, size) ==
    [payload |-> payload, stream |-> stream, ppid |-> ppid, size_bytes |-> size,
     unordered |-> FALSE, pr_policy |-> "", auth_key_id |-> 0]
Msg(payload, stream, ppid) == Sized(payload, stream, ppid, 0)
Lossy(m, policy) == [m EXCEPT !.pr_policy = policy]

\* materialize_payload: repeated up to size_bytes.  No payload of the catalog
\* is longer than the size it is given.
Materialize(m) == <<m.payload, m.size_bytes>>

\* FeatureDefinition with its defaults
Definition(id, mode, kind) ==
    [id |-> id, completion_mode |-> mode, scenario_kind |-> kind,
     bind_address_count |-> 1, expected_peer_addr_count |-> 0,
     client_socket_options |-> {}, client_subscriptions |-> {},
     client_send_messages |-> <<>>, server_send_messages |-> <<>>,
     trigger_payload |-> "", negative_connect_target |-> "",
     auth |-> {},                    \* the key ids of the AuthContract, if any
     expected_associations |-> 0,    \* of the OneToManyContract, 0 if none
     manual_setup_required |-> FALSE,
     local_work_after |-> FALSE]     \* see AfterwardsLocally

MakeAgentFeature(id, options, target) ==
    [Definition(id, "AgentReported", "AgentOnly") EXCEPT
        !.client_socket_options = options, !.negative_connect_target = target]

MakeReceiveFeature(id, mode, messages, options) ==
    [Definition(id, mode, "ReceiveMessages") EXCEPT
        !.client_send_messages = messages, !.client_socket_options = options]

MakeSendFeature(id, mode, trigger, messages, subscriptions) ==
    [Definition(id, mode, "SendAfterTrigger") EXCEPT
        !.trigger_payload = trigger, !.server_send_messages = messages,
        !.client_subscriptions = subscriptions]

\* what build_feature_catalog sets on a definition after it has made it
Manual(d) == [d EXCEPT !.manual_setup_required = TRUE]
OnAddresses(d, n) == [d EXCEPT !.bind_address_count = n]
PartiallyReliable(d) == Manual([d EXCEPT !.scenario_kind = "ReceivePRMessages"])
Authenticated(d, keys) == Manual([d EXCEPT !.auth = keys])
OneToMany(d, n) == [d EXCEPT !.scenario_kind = "ReceiveMessagesMultiTarget",
                             !.expected_associations = n]

\* instructions_text: once it has sent its message, the client is to work on
\* the association (list or query something, reset streams, set a scheduler).
AfterwardsLocally(d) == [d EXCEPT !.local_work_after = TRUE]

Server == "ServerObserved"
Hybrid == "Hybrid"

-----------------------------------------------------------------------------
(* build_feature_catalog, in its order *)

BasicFeatures == <<
    MakeAgentFeature("socket_create", {}, ""),
    MakeReceiveFeature("bind_listen_connect", Server, <<Msg("bind-listen-connect", 0, 1)>>, {}),
    MakeReceiveFeature("single_message_boundary", Server, <<Msg("single-boundary", 1, 11)>>, {}),
    MakeReceiveFeature("multi_message_boundary", Server,
        <<Msg("alpha", 1, 100), Msg("beta", 1, 101)>>, {}),
    MakeReceiveFeature("stream_id", Server, <<Msg("stream-check", 7, 21)>>, {}),
    MakeReceiveFeature("ppid", Server, <<Msg("ppid-check", 2, 424242)>>, {}),
    MakeReceiveFeature("nodelay", Hybrid, <<Msg("nodelay-check", 3, 31)>>, {"SCTP_NODELAY"}),
    MakeReceiveFeature("initmsg", Hybrid, <<Msg("initmsg-check", 4, 41)>>, {"SCTP_INITMSG"}),
    MakeReceiveFeature("rto_assoc_parameters", Hybrid, <<Msg("rtoinfo-check", 4, 42)>>,
        {"SCTP_RTOINFO"}),
    MakeReceiveFeature("delayed_sack_tuning", Hybrid, <<Msg("delayed-sack-check", 4, 43)>>,
        {"SCTP_DELAYED_SACK"}),
    MakeReceiveFeature("max_burst_tuning", Hybrid, <<Msg("max-burst-check", 4, 44)>>,
        {"SCTP_MAX_BURST"}) >>

EventFeatures == <<
    MakeSendFeature("notifications", Hybrid, "notifications-ready",
        <<Msg("server-notify", 5, 51)>>, {"association", "shutdown", "dataio"}),
    MakeSendFeature("event_subscription_matrix", Hybrid, "event-matrix-ready",
        <<Msg("server-event-matrix", 5, 52)>>, {"association", "shutdown", "dataio"}),
    MakeSendFeature("association_shutdown_notifications", Hybrid, "shutdown-notify-ready",
        <<Msg("server-shutdown-notify", 5, 53)>>, {"association", "shutdown"}),
    Manual(OnAddresses(
        MakeSendFeature("peer_addr_change_notifications", Hybrid, "peer-addr-change-ready",
            <<Msg("server-peer-addr-change", 14, 1401)>>, {"association", "address", "dataio"}), 2)),
    Manual(MakeSendFeature("partial_delivery_event", Hybrid, "partial-delivery-ready",
        <<Sized("partial-delivery", 25, 2501, 1048576)>>, {"partial_delivery", "dataio"})),
    OnAddresses(MakeReceiveFeature("multi_bind", Hybrid, <<Msg("multi-bind-check", 6, 61)>>, {}), 2),
    AfterwardsLocally(
        MakeReceiveFeature("local_addr_enum", Hybrid, <<Msg("local-addr-enum", 0, 71)>>, {})),
    AfterwardsLocally(
        MakeReceiveFeature("peer_addr_enum", Hybrid, <<Msg("peer-addr-enum", 0, 72)>>, {})),
    MakeAgentFeature("negative_connect_error", {}, "0.0.0.0:1"),
    MakeReceiveFeature("default_sndinfo_recvrcvinfo", Hybrid, <<Msg("default-sndinfo", 9, 901)>>,
        {"SCTP_DEFAULT_SNDINFO"}) >>

DeliveryFeatures == <<
    MakeReceiveFeature("large_message_reassembly", Server,
        <<Sized("large-reassembly", 24, 2401, 131072)>>, {}),
    MakeReceiveFeature("maxseg_fragmentation", Hybrid,
        <<Sized("maxseg-fragmentation", 24, 2402, 65536)>>, {"SCTP_MAXSEG"}),
    MakeReceiveFeature("unordered_delivery", Hybrid, <<Msg("unordered-check", 12, 1201)>>, {}),
    MakeSendFeature("recvnxtinfo", Hybrid, "recvnxtinfo-ready",
        <<Msg("nxt-first", 10, 1001), Msg("nxt-second", 11, 1002)>>, {}),
    MakeAgentFeature("autoclose", {"SCTP_AUTOCLOSE"}, "") >>

AssociationFeatures == <<
    MakeReceiveFeature("bindx_add_remove", Hybrid, <<Msg("bindx-check", 13, 1301)>>, {}),
    MakeReceiveFeature("primary_addr_management", Hybrid,
        <<Msg("primary-addr-check", 14, 1401)>>, {}),
    MakeReceiveFeature("peer_primary_addr_request", Hybrid,
        <<Msg("peer-primary-check", 14, 1402)>>, {}),
    MakeReceiveFeature("peeloff_assoc", Hybrid, <<Msg("peeloff-check", 15, 1501)>>, {}),
    AfterwardsLocally(
        MakeReceiveFeature("assoc_id_listing", Hybrid, <<Msg("assoc-id-list", 15, 1502)>>, {})),
    AfterwardsLocally(
        MakeReceiveFeature("assoc_status_opt_info", Hybrid, <<Msg("assoc-status", 0, 81)>>, {})),
    OneToMany(MakeReceiveFeature("one_to_many_multi_assoc", Hybrid,
        <<Msg("otm-one", 1, 101), Msg("otm-two", 2, 102)>>, {}), 2),
    AfterwardsLocally(MakeSendFeature("stream_reconfig_reset", Hybrid, "stream-reset-ready",
        <<Msg("stream-reset-ack", 16, 1601)>>, {})),
    AfterwardsLocally(MakeSendFeature("stream_reconfig_add_streams", Hybrid, "stream-add-ready",
        <<Msg("stream-add-ack", 16, 1602)>>, {})) >>

ReliabilityFeatures == <<
    PartiallyReliable(MakeReceiveFeature("pr_sctp_ttl", Hybrid,
        <<Lossy(Sized("pr-ttl-drop", 17, 1701, 32768), "ttl"), Msg("pr-ttl-delivered", 17, 1702)>>,
        {"SCTP_DEFAULT_PRINFO"})),
    PartiallyReliable(MakeReceiveFeature("pr_sctp_rtx", Hybrid,
        <<Lossy(Sized("pr-rtx-drop", 17, 1703, 32768), "rtx"), Msg("pr-rtx-delivered", 17, 1704)>>,
        {"SCTP_DEFAULT_PRINFO"})),
    Authenticated(MakeReceiveFeature("auth_required_chunks", Hybrid,
        <<Msg("auth-required-check", 22, 2201)>>, {"SCTP_AUTH_CHUNK", "SCTP_AUTH_KEY"}), {7, 8}),
    Authenticated(MakeReceiveFeature("auth_key_rotation", Hybrid,
        <<[Msg("auth-key-rotation", 22, 2202) EXCEPT !.auth_key_id = 8]>>,
        {"SCTP_AUTH_KEY", "SCTP_AUTH_ACTIVE_KEY"}), {7, 8}) >>

ExtensionFeatures == <<
    Manual(OnAddresses(MakeReceiveFeature("asconf_add_remove", Hybrid,
        <<Msg("asconf-check", 23, 2301)>>, {"SCTP_BINDX", "SCTP_SET_PEER_PRIMARY_ADDR"}), 2)),
    MakeSendFeature("idata_interleaving", Hybrid, "idata-interleave-ready",
        <<Sized("idata-large", 18, 1801, 65536), Msg("idata-small-a", 19, 1802),
          Msg("idata-small-b", 19, 1803)>>, {}),
    AfterwardsLocally(MakeSendFeature("stream_scheduler_policy", Hybrid, "scheduler-policy-ready",
        <<Msg("scheduler-policy-ack", 20, 2001)>>, {})),
    AfterwardsLocally(MakeSendFeature("stream_scheduler_value", Hybrid, "scheduler-value-ready",
        <<Msg("scheduler-value-ack", 21, 2101)>>, {})) >>

FeatureDefinitions ==
    BasicFeatures \o EventFeatures \o DeliveryFeatures \o AssociationFeatures
    \o ReliabilityFeatures \o ExtensionFeatures
=============================================================================
