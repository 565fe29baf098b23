--------------------------- MODULE MCScenarioWorkers ---------------------------
(***************************************************************************)
(* One small definition for each kind of worker and each completion mode a *)
(* worker can meet, with two expected messages or replies, and wrong       *)
(* messages: the payload, the stream or the PPID is not the expected one,  *)
(* or the payload goes on after a NUL.                                     *)
(***************************************************************************)
EXTENDS ScenarioWorkers

TwoMessages == <<Msg("first", 1, 1), Msg("last", 2, 2)>>

MCDefinitions == UNION {
    { [MakeReceiveFeature("receive", m, TwoMessages, {}) EXCEPT
          !.expected_peer_addr_count = 2],
      PartiallyReliable(MakeReceiveFeature("pr", m, TwoMessages, {})),
      OneToMany(MakeReceiveFeature("targets", m, TwoMessages, {}), 2),
      MakeSendFeature("send", m, "first", TwoMessages, {}) } : m \in {Server, Hybrid} }

Longer == Msg("first NUL more", 1, 1)
MCStrays == {Msg("first", 2, 1), Msg("last", 2, 1), Msg("other", 1, 1), Longer}
MCCutAtNul == [p \in {Materialize(Longer)} |-> Materialize(Msg("first", 0, 0))]

PrDefinitions == {d \in MCDefinitions : d.id = "pr" /\ d.completion_mode = Hybrid}
=============================================================================
