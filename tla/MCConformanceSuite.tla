--------------------------- MODULE MCConformanceSuite ---------------------------
(***************************************************************************)
(* The scenarios of scenarios/core.json for ConformanceSuite.              *)
(***************************************************************************)
EXTENDS ConformanceSuite

Message(payload) == [payload |-> payload, meta |-> "as sent"]

Scenario(id, features, messages, assertions) ==
    [id |-> id, required_features |-> features, messages |-> messages,
     assertions |-> assertions, server |-> TRUE, subscribe |-> TRUE,
     read_messages |-> Len(messages), emit_peer_addrs |-> FALSE, expect_failure |-> {}]

loopback_basic ==
    Scenario("loopback_basic", {"notifications"}, <<Message("loopback-basic")>>,
             {"lost", "payload", "meta", "notify"})

loopback_two_messages ==
    Scenario("loopback_two_messages", {"multi_message_boundary"},
             <<Message("alpha"), Message("beta")>>, {"lost", "payload"})

multihome_bind_connect ==
    [Scenario("multihome_bind_connect", {"multi_bind"}, <<Message("multi-home")>>,
              {"lost", "payload", "local_addrs", "peer_addrs"})
     EXCEPT !.emit_peer_addrs = TRUE]

unreachable_connect ==
    [Scenario("unreachable_connect", {"negative_connect_error"}, <<Message("should-not-send")>>, {})
     EXCEPT !.server = FALSE, !.subscribe = FALSE, !.expect_failure = {"connect", "send"}]

MCSuite == <<loopback_basic, loopback_two_messages, multihome_bind_connect, unreachable_connect>>

Covered == UNION {s.required_features : s \in ToSet(MCSuite)}
MCRequirements == {Covered, Covered \cup {"uncovered"}}
=============================================================================
