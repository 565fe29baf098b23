-------------------------- MODULE ContractClientProofs --------------------------
(***************************************************************************)
(* Every definition of the catalog is one a client that does what its      *)
(* contract asks can pass: whatever the worker, the stack and the client   *)
(* do first, a feature ends with the verdict the client has deserved.      *)
(***************************************************************************)
EXTENDS ContractClient, ScenarioWorkersProofs

-----------------------------------------------------------------------------
(* The invariant: what the client has been told and where it is; where its *)
(* messages are; and what worker and clock may have done by then           *)

\* The environment never changes, and the contract is the definition's.
ContractInv ==
    /\ contract = BuildContract(definition, ConnectAddresses(definition))
    /\ apis \in BOOLEAN /\ prepared \in BOOLEAN /\ streams \in Nat

\* Only a client that can do what is asked sends, works or reports.
ClientInv ==
    /\ client \in {"setup", "send", "local_work", "receive", "report", "decline", "done"}
    /\ sent \in 0..Len(ToSend)
    /\ client = "setup" => sent = 0
    /\ client \in {"send", "local_work", "receive", "report"} => Able
    /\ ~Able => sent = 0
    /\ client \in {"local_work", "receive", "report"} => sent = Len(ToSend)
    /\ client = "local_work" => mode = Hybrid
    /\ client = "decline" => mode # Server /\ (~Able \/ work_failed)
    /\ work_failed \in BOOLEAN /\ dropped \in BOOLEAN
    /\ work_failed => /\ Able /\ mode = Hybrid /\ kind # "ReceivePRMessages"
                      /\ client \in {"decline", "done"}

\* A feature that waits for a report does not end before its client has ended.
ReportInv ==
    /\ agent_complete => client = "done" /\ Able /\ ~work_failed
    /\ client # "done" /\ mode # Server => state = "Active"
    /\ client = "done" /\ state = "Active" =>
           IF Able THEN sent = Len(ToSend) /\ ~work_failed /\ (mode = Server \/ agent_complete)
           ELSE mode = Server
    /\ agent_complete /\ mode = "AgentReported" => state # "Active"

\* What the worker has ended with is in the session.
WorkerInv ==
    /\ listening => state = "Active"
    /\ state = "Active" /\ pc = "done" => network_complete \/ kind = "AgentOnly"
    /\ state = "Active" /\ network_complete => mode # Server /\ ~agent_complete

\* The clock moves only for a client that cannot go on, and for PR-SCTP.
TimeInv ==
    now > 0 /\ state = "Active" =>
        /\ client = "done" /\ wire = <<>>
        /\ IF Able THEN kind = "ReceivePRMessages" /\ sent = Len(ToSend) ELSE mode = Server

\* Message i is where it belongs: on its way, or with the listener it is for.
OnWire(k, i) == wire[k] = <<Destination(i), ToSend[i]>>

PlacesInv ==
    /\ wire \in Seq(Targets \X Traffic)
    /\ \A k \in DOMAIN wire : \E i \in 1..sent : OnWire(k, i)
    /\ \A l \in Targets : \A j \in DOMAIN queue[l] :
           \E i \in 1..sent : l = Destination(i) /\ queue[l][j] = ToSend[i]
    /\ \A l \in Targets : \A j \in DOMAIN read[l] :
           \E i \in 1..sent : l = Destination(i) /\ read[l][j] = ToSend[i]

Waits == state = "Active" /\ pc = "recv"
InWire(i) == \E k \in DOMAIN wire : OnWire(k, i)
InQueue(i) == \E j \in DOMAIN queue[Destination(i)] : queue[Destination(i)][j] = ToSend[i]
IsRead(i) == \E j \in DOMAIN read[Destination(i)] : read[Destination(i)][j] = ToSend[i]

\* No message is lost, but for the one the impairment is for.
CoverInv ==
    Waits => \A i \in 1..sent :
        InWire(i) \/ InQueue(i) \/ IsRead(i)
        \/ (dropped /\ kind = "ReceivePRMessages" /\ i = 1)

\* The messages of one stream stay in their order.
OrderInv ==
    kind = "ReceiveMessages" /\ Waits =>
        /\ Len(read[1]) + Len(queue[1]) + Len(wire) = sent
        /\ \A j \in DOMAIN queue[1] : queue[1][j] = ToSend[Len(read[1]) + j]
        /\ \A j \in DOMAIN wire : OnWire(j, Len(read[1]) + Len(queue[1]) + j)

\* The lossy message of PR-SCTP is in one place, or it is dropped.
LossyInv ==
    kind = "ReceivePRMessages" =>
        /\ pc # "recv" \/ state # "Active" => wire = <<>> /\ client = "done"
        /\ dropped => sent > 0 /\ ~InWire(1) /\ ~InQueue(1) /\ ~saw_skipped
        /\ InWire(1) => ~InQueue(1) /\ ~saw_skipped
        /\ \A j, k \in DOMAIN wire : OnWire(j, 1) /\ OnWire(k, 1) => j = k

DeservedInv ==
    /\ state # "Active" => state \in Deserved
    /\ reason \in {"", "timeout", "delivered"}

CatalogInv ==
    /\ LoopInv
    /\ ContractInv /\ ClientInv /\ ReportInv /\ WorkerInv /\ TimeInv
    /\ PlacesInv /\ CoverInv /\ OrderInv /\ LossyInv /\ DeservedInv
-----------------------------------------------------------------------------
(* What a contract says of its definition *)

MessageFacts(i) ==
    /\ Destination(i) \in Targets /\ ToSend[i] \in Traffic
    /\ ToSend[i] # Notification /\ Fitting(ToSend[i]) = ToSend[i]
    /\ IF kind = "ReceiveMessagesMultiTarget" THEN Destination(i) = i ELSE Destination(i) = 1
    /\ kind = "ReceiveMessages" => ToSend[i].stream = ToSend[1].stream
    /\ ToSend[i].pr_policy # "" => kind = "ReceivePRMessages" /\ i = 1

KindFacts ==
    /\ IF kind = "SendAfterTrigger" THEN ToSend = <<Trigger>> ELSE ToSend = Expected
    /\ Len(ToSend) \in Nat /\ DOMAIN ToSend = 1..Len(ToSend)
    /\ kind = "AgentOnly" => Len(ToSend) = 0 /\ mode = "AgentReported"
    /\ kind # "AgentOnly" => mode \in {Server, Hybrid}
    /\ Replies > 0 => kind = "SendAfterTrigger"
    /\ contract.completion_mode = mode
    /\ contract.local_work_after => mode = Hybrid
    /\ Len(contract.server_send_messages) = Replies
    /\ kind = "ReceivePRMessages" =>
           /\ Len(ToSend) = 2 /\ Skipped # Final
           /\ Materialize(ToSend[1]) = Skipped /\ Materialize(ToSend[2]) = Final

\* What a contract says agrees with the definition it was built from.
LEMMA ContractKind ==
    ASSUME definition \in Definitions, ContractInv
    PROVE  KindFacts
<1>1. /\ contract.completion_mode = mode
      /\ contract.local_work_after = definition.local_work_after
      /\ contract.server_send_messages = definition.server_send_messages
      /\ contract.client_send_messages = Expected
      /\ contract.trigger_payload = definition.trigger_payload
  BY DEF ContractInv, BuildContract, JsonMessages, mode, Expected
<1>2. definition.trigger_payload # "" <=> kind = "SendAfterTrigger"
  BY CatalogAssumption DEF kind
<1>3. IF kind = "SendAfterTrigger" THEN ToSend = <<Trigger>> ELSE ToSend = Expected
  BY <1>1, <1>2 DEF ToSend, Trigger
<1>4. Expected \in Seq(MessageSpec) /\ Replies \in Nat
  BY DefinitionFacts
<1>5. Len(ToSend) \in Nat /\ DOMAIN ToSend = 1..Len(ToSend)
  BY <1>3, <1>4
<1>6. kind = "AgentOnly" => Len(ToSend) = 0 /\ mode = "AgentReported"
  <2>1. kind = "AgentOnly" => Expected = <<>> /\ mode = "AgentReported"
    BY CatalogAssumption DEF kind, Expected, mode
  <2> QED BY <1>3, <2>1
<1>7. kind # "AgentOnly" => mode \in {Server, Hybrid}
  BY CatalogAssumption DEF kind, mode
<1>8. Replies > 0 => kind = "SendAfterTrigger"
  <2>1. definition.server_send_messages # <<>> => kind = "SendAfterTrigger"
    BY CatalogAssumption DEF kind
  <2> QED BY <2>1 DEF Replies
<1>9. contract.local_work_after => mode = Hybrid
  BY <1>1, CatalogAssumption DEF mode
<1>10. Len(contract.server_send_messages) = Replies
  BY <1>1 DEF Replies
<1>11. ASSUME kind = "ReceivePRMessages"
       PROVE  /\ Len(ToSend) = 2 /\ Skipped # Final
              /\ Materialize(ToSend[1]) = Skipped /\ Materialize(ToSend[2]) = Final
  <2>1. ToSend = Expected
    BY <1>3, <1>11
  <2>2. Len(Expected) = 2
    BY <1>11, CatalogAssumption DEF kind, Expected
  <2>3. Skipped # Final
    BY <1>11, DefinitionFacts
  <2>4. Materialize(Expected[1]) = Skipped /\ Materialize(Expected[2]) = Final
    BY <2>2 DEF Skipped, Final
  <2> QED BY <2>1, <2>2, <2>3, <2>4
<1> QED BY <1>1, <1>3, <1>5, <1>6, <1>7, <1>8, <1>9, <1>10, <1>11 DEF KindFacts

\* The one backend that reads a number of this size
LEMMA BufferNat == kBufferSize \in Nat
BY SMT DEF kBufferSize

\* Every message is one the worker expects, on its way to the listener for it.
LEMMA ContractMessages ==
    ASSUME definition \in Definitions, ContractInv, NEW i \in 1..Len(ToSend)
    PROVE  MessageFacts(i)
<1>1. KindFacts /\ kind # "AgentOnly"
  <2>1. KindFacts
    BY ContractKind
  <2>2. kind = "AgentOnly" => Len(ToSend) = 0
    BY <2>1 DEF KindFacts
  <2> QED BY <2>1, <2>2
<1>2. /\ contract.one_to_many = definition.expected_associations
      /\ contract.connect_addresses = ConnectAddresses(definition)
  BY DEF ContractInv, BuildContract
<1>3. IF kind = "ReceiveMessagesMultiTarget" THEN Destination(i) = i ELSE Destination(i) = 1
  <2>1. definition.expected_associations > 0 <=> kind = "ReceiveMessagesMultiTarget"
    BY CatalogAssumption DEF kind
  <2>2. CASE kind = "ReceiveMessagesMultiTarget"
    <3>1. ToSend = Expected /\ definition.expected_associations = Len(Expected)
      BY <1>1, <2>2, DefinitionsAssumption DEF KindFacts, kind, Expected
    <3>2. ConnectAddresses(definition) = [j \in 1..Len(Expected) |-> <<j, 1>>]
      BY <2>2, <3>1 DEF ConnectAddresses, kind
    <3>3. contract.connect_addresses[i] = <<i, 1>>
      BY <1>2, <3>1, <3>2
    <3>4. Destination(i) = contract.connect_addresses[i][1]
      BY <1>2, <2>1, <2>2 DEF Destination
    <3> QED BY <2>2, <3>3, <3>4
  <2>3. CASE kind # "ReceiveMessagesMultiTarget"
    <3>1. definition.bind_address_count \in Nat \ {0}
      BY CatalogAssumption
    <3>2. ConnectAddresses(definition) = [j \in 1..definition.bind_address_count |-> <<1, j>>]
      BY <1>1, <2>3 DEF ConnectAddresses, kind
    <3>3. contract.connect_addresses[1] = <<1, 1>>
      BY <1>2, <3>1, <3>2
    <3>4. Destination(i) = contract.connect_addresses[1][1]
      BY <1>2, <2>1, <2>3 DEF Destination
    <3> QED BY <2>3, <3>3, <3>4
  <2> QED BY <2>2, <2>3
<1>4. Destination(i) \in Targets
  <2>1. CASE kind = "ReceiveMessagesMultiTarget"
    BY <1>1, <1>3, <2>1, TargetFacts DEF KindFacts
  <2>2. CASE kind # "ReceiveMessagesMultiTarget"
    BY <1>1, <1>3, <2>2, TargetFacts, DefinitionFacts
  <2> QED BY <2>1, <2>2
<1>5. CASE kind = "SendAfterTrigger"
  <2>1. ToSend = <<Trigger>> /\ i = 1
    BY <1>1, <1>5 DEF KindFacts
  <2>2. ToSend[i] = Trigger
    BY <2>1
  <2>3. Trigger \in Traffic
    BY <1>5 DEF Traffic, Asked
  <2>4. Trigger.payload = definition.trigger_payload /\ Trigger.size_bytes = 0
        /\ Trigger.pr_policy = ""
    BY DEF Trigger, Msg, Sized
  <2>5. Trigger # Notification
    <3>1. definition.trigger_payload # Notification.payload
      BY CatalogAssumption
    <3> QED BY <2>4, <3>1
  <2>6. Fitting(Trigger) = Trigger
    <3>0. 0 <= kBufferSize
      BY BufferNat
    <3>1. Trigger.size_bytes <= kBufferSize
      BY <2>4, <3>0, Zenon
    <3> QED BY <3>1, Zenon DEF Fitting
  <2>7. kind # "ReceiveMessages"
    BY <1>5
  <2> QED BY <1>3, <1>4, <2>2, <2>3, <2>4, <2>5, <2>6, <2>7 DEF MessageFacts
<1>6. CASE kind # "SendAfterTrigger"
  <2>1. ToSend = Expected /\ i \in DOMAIN Expected
    BY <1>1, <1>6 DEF KindFacts
  <2>2. ToSend[i] = Expected[i]
    BY <2>1
  <2>3. Expected[i] \in Traffic
    BY <2>1 DEF Traffic, Asked
  <2>4. /\ Expected[i] # Notification /\ Expected[i].size_bytes <= kBufferSize
        /\ kind = "ReceiveMessages" => Expected[i].stream = Expected[1].stream
        /\ Expected[i].pr_policy # "" => kind = "ReceivePRMessages" /\ i = 1
    BY <2>1, CatalogAssumption DEF kind, Expected
  <2>5. Fitting(Expected[i]) = Expected[i]
    BY <2>4 DEF Fitting
  <2>6. kind = "ReceiveMessages" => ToSend[i].stream = ToSend[1].stream
    BY <2>1, <2>4
  <2> QED BY <1>3, <1>4, <2>2, <2>3, <2>4, <2>5, <2>6 DEF MessageFacts
<1> QED BY <1>5, <1>6

\* A client that lacks nothing can do what the contract says.
LEMMA NothingLacks ==
    ASSUME definition \in Definitions, ContractInv,
           apis, prepared, streams >= ServerStreams
    PROVE  Able
<1>1. contract.auth = definition.auth /\ contract.connect_addresses = ConnectAddresses(definition)
  BY DEF ContractInv, BuildContract
<1>2. Outgoing = ServerStreams
  BY DEF ContractInv, Outgoing, ServerStreams
<1>3. ASSUME NEW i \in DOMAIN ToSend
      PROVE  /\ ToSend[i].stream < Outgoing
             /\ ToSend[i].auth_key_id \in contract.auth \cup {0}
             /\ contract.connect_addresses # <<>>
  <2>1. KindFacts /\ i \in 1..Len(ToSend)
    BY ContractKind DEF KindFacts
  <2>2. MessageFacts(i)
    BY <2>1, ContractMessages
  <2>3. CASE kind = "SendAfterTrigger"
    <3>1. ToSend = <<Trigger>> /\ i = 1
      BY <2>1, <2>3 DEF KindFacts
    <3>2. ToSend[i].stream = 0 /\ ToSend[i].auth_key_id = 0
      BY <3>1 DEF Trigger, Msg, Sized
    <3>3. definition.bind_address_count \in Nat \ {0}
      BY CatalogAssumption
    <3>4. contract.connect_addresses = [j \in 1..definition.bind_address_count |-> <<1, j>>]
      BY <1>1, <2>3 DEF ConnectAddresses, kind
    <3>5. 1 \in DOMAIN contract.connect_addresses
      BY <3>3, <3>4
    <3> QED BY <1>2, <3>2, <3>5 DEF ServerStreams
  <2>4. CASE kind # "SendAfterTrigger"
    <3>1. ToSend = Expected
      BY <2>1, <2>4 DEF KindFacts
    <3>2. Expected[i].stream < ServerStreams /\ Expected[i].auth_key_id \in definition.auth \cup {0}
      BY <3>1, CatalogAssumption DEF Expected
    <3>3. \E j : j \in DOMAIN contract.connect_addresses
      <4>1. CASE kind = "ReceiveMessagesMultiTarget"
        <5>1. definition.expected_associations = Len(Expected)
          BY <4>1, DefinitionsAssumption DEF kind, Expected
        <5>2. contract.connect_addresses = [j \in 1..Len(Expected) |-> <<j, 1>>]
          BY <1>1, <4>1, <5>1 DEF ConnectAddresses, kind
        <5> QED BY <2>1, <3>1, <5>2
      <4>2. CASE kind # "ReceiveMessagesMultiTarget"
        <5>0. kind = "AgentOnly" => Len(ToSend) = 0
          BY <2>1 DEF KindFacts
        <5>1. kind # "AgentOnly" /\ definition.bind_address_count \in Nat \ {0}
          <6>1. definition.bind_address_count \in Nat \ {0}
            BY CatalogAssumption
          <6>2. Len(ToSend) # 0
            BY <2>1
          <6> QED BY <5>0, <6>1, <6>2
        <5>2. contract.connect_addresses = [j \in 1..definition.bind_address_count |-> <<1, j>>]
          BY <1>1, <4>2, <5>1 DEF ConnectAddresses, kind
        <5>3. 1 \in DOMAIN contract.connect_addresses
          BY <5>1, <5>2
        <5> QED BY <5>3
      <4> QED BY <4>1, <4>2
    <3> QED BY <1>1, <1>2, <3>1, <3>2, <3>3
  <2> QED BY <2>3, <2>4
<1> QED BY <1>1, <1>3 DEF Able

\* The environment stays, and everything that is derived from it.
LEMMA SameContract ==
    ASSUME UNCHANGED <<definition, environment>>
    PROVE  /\ ToSend' = ToSend /\ Able' = Able /\ (ContractInv' <=> ContractInv)
           /\ contract' = contract /\ kind' = kind /\ mode' = mode /\ Targets' = Targets
           /\ Traffic' = Traffic /\ Expected' = Expected /\ Replies' = Replies
           /\ Skipped' = Skipped /\ Final' = Final /\ Trigger' = Trigger
           /\ \A i : Destination(i)' = Destination(i)
<1>1. UNCHANGED <<definition, apis, prepared, streams, contract>>
  BY DEF environment
<1>2. ToSend' = ToSend /\ \A i : Destination(i)' = Destination(i)
  BY <1>1 DEF ToSend, Destination
<1>3. Able' = Able
  BY <1>1, <1>2 DEF Able, Outgoing
<1>4. ContractInv' <=> ContractInv
  BY <1>1 DEF ContractInv
<1> QED BY <1>1, <1>2, <1>3, <1>4, SameDefinition

-----------------------------------------------------------------------------
(* Where the messages are *)

\* s without its element k
Removing(s, k) == SubSeq(s, 1, k - 1) \o SubSeq(s, k + 1, Len(s))

\* A sequence without its k-th element: the others, in their order.
LEMMA RemovingOne ==
    ASSUME NEW S, NEW s \in Seq(S), NEW k \in 1..Len(s)
    PROVE  /\ Removing(s, k) \in Seq(S) /\ Len(Removing(s, k)) = Len(s) - 1
           /\ DOMAIN Removing(s, k) = 1..(Len(s) - 1)
           /\ \A j \in 1..(Len(s) - 1) : Removing(s, k)[j] = s[IF j < k THEN j ELSE j + 1]
<1>1. Len(s) \in Nat /\ k \in Nat /\ 1 <= k /\ k <= Len(s)
  OBVIOUS
<1>2. PICK before : before = SubSeq(s, 1, k - 1)
  OBVIOUS
<1>3. PICK after : after = SubSeq(s, k + 1, Len(s))
  OBVIOUS
<1>4. /\ before \in Seq(S) /\ Len(before) = k - 1
      /\ \A j \in 1..(k - 1) : before[j] = s[j]
  BY <1>1, <1>2
<1>5. /\ after \in Seq(S) /\ Len(after) = Len(s) - k
      /\ \A j \in 1..(Len(s) - k) : after[j] = s[j + k]
  BY <1>1, <1>3
<1>6. Removing(s, k) = before \o after
  BY <1>2, <1>3 DEF Removing
<1>7. PICK rest : rest = before \o after
  OBVIOUS
<1>8. rest \in Seq(S) /\ Len(rest) = Len(s) - 1 /\ DOMAIN rest = 1..(Len(s) - 1)
  BY <1>1, <1>4, <1>5, <1>7
<1>9. ASSUME NEW j \in 1..(Len(s) - 1)
      PROVE  rest[j] = s[IF j < k THEN j ELSE j + 1]
  <2>1. CASE j < k
    <3>1. j \in 1..(k - 1)
      BY <1>1, <2>1
    <3>2. rest[j] = before[j]
      BY <1>1, <1>4, <1>5, <1>7, <3>1
    <3> QED BY <1>4, <2>1, <3>1, <3>2
  <2>2. CASE ~(j < k)
    <3>1. PICK p : p = j - (k - 1)
      OBVIOUS
    <3>2. p \in 1..(Len(s) - k) /\ p + k = j + 1
      BY <1>1, <2>2, <3>1
    <3>3. rest[j] = after[p]
      BY <1>1, <1>4, <1>5, <1>7, <2>2, <3>1
    <3> QED BY <1>5, <2>2, <3>2, <3>3
  <2> QED BY <2>1, <2>2
<1> QED BY <1>6, <1>7, <1>8, <1>9

\* The elements that are left, and where they have been
LEMMA RemovingRest ==
    ASSUME NEW S, NEW s \in Seq(S), NEW k \in DOMAIN s
    PROVE  /\ Removing(s, k) \in Seq(S)
           /\ \A j \in DOMAIN Removing(s, k) :
                 \E n \in DOMAIN s : n # k /\ Removing(s, k)[j] = s[n]
           /\ \A n \in DOMAIN s : n # k =>
                 \E j \in DOMAIN Removing(s, k) : Removing(s, k)[j] = s[n]
           /\ \A i, j \in DOMAIN Removing(s, k) : i # j =>
                 \E m, n \in DOMAIN s :
                     m # n /\ Removing(s, k)[i] = s[m] /\ Removing(s, k)[j] = s[n]
<1>1. k \in 1..Len(s) /\ DOMAIN s = 1..Len(s) /\ Len(s) \in Nat /\ k \in Nat
  OBVIOUS
<1>2. PICK rest : rest = Removing(s, k)
  OBVIOUS
<1>3. /\ rest \in Seq(S) /\ DOMAIN rest = 1..(Len(s) - 1)
      /\ \A j \in 1..(Len(s) - 1) : rest[j] = s[IF j < k THEN j ELSE j + 1]
  BY <1>1, <1>2, RemovingOne
<1>4. \A j \in DOMAIN rest : \E n \in DOMAIN s : n # k /\ rest[j] = s[n]
  BY <1>1, <1>3
<1>5. ASSUME NEW n \in DOMAIN s, n # k
      PROVE  \E j \in DOMAIN rest : rest[j] = s[n]
  <2>1. CASE n < k
    BY <1>1, <1>3, <1>5, <2>1
  <2>2. CASE n > k
    <3>1. n - 1 \in 1..(Len(s) - 1) /\ ~(n - 1 < k) /\ (n - 1) + 1 = n
      BY <1>1, <2>2
    <3> QED BY <1>3, <3>1
  <2> QED BY <1>1, <1>5, <2>1, <2>2
<1>6. ASSUME NEW i \in DOMAIN rest, NEW j \in DOMAIN rest, i # j
      PROVE  \E m, n \in DOMAIN s : m # n /\ rest[i] = s[m] /\ rest[j] = s[n]
  <2>1. PICK m : m = IF i < k THEN i ELSE i + 1
    OBVIOUS
  <2>2. PICK n : n = IF j < k THEN j ELSE j + 1
    OBVIOUS
  <2>3. m \in DOMAIN s /\ n \in DOMAIN s /\ m # n
    BY <1>1, <1>3, <1>6, <2>1, <2>2
  <2>4. rest[i] = s[m] /\ rest[j] = s[n]
    BY <1>3, <2>1, <2>2
  <2> QED BY <2>3, <2>4
<1> QED BY <1>2, <1>3, <1>4, <1>5, <1>6

\* What is where does not change while the network rests.
LEMMA SamePlaces ==
    ASSUME UNCHANGED <<definition, environment, wire, queue, read>>, NEW i
    PROVE  /\ InWire(i)' = InWire(i) /\ InQueue(i)' = InQueue(i) /\ IsRead(i)' = IsRead(i)
           /\ \A k : OnWire(k, i)' = OnWire(k, i)
<1>1. ToSend' = ToSend /\ Destination(i)' = Destination(i)
  BY SameContract
<1> QED BY <1>1 DEF InWire, InQueue, IsRead, OnWire

\* A step that moves no message
LEMMA PlacesStay ==
    ASSUME CatalogInv,
           UNCHANGED <<definition, environment, wire, queue, read, sent, dropped, saw_skipped>>,
           Waits' => Waits,
           kind = "ReceivePRMessages" /\ (pc' # "recv" \/ state' # "Active") =>
               wire = <<>> /\ client' = "done"
    PROVE  (PlacesInv /\ CoverInv /\ OrderInv /\ LossyInv)'
<1>1. /\ ToSend' = ToSend /\ kind' = kind /\ Targets' = Targets /\ Traffic' = Traffic
      /\ \A i : Destination(i)' = Destination(i)
  BY SameContract
<1>2. \A i : InWire(i)' = InWire(i) /\ InQueue(i)' = InQueue(i) /\ IsRead(i)' = IsRead(i)
  BY SamePlaces
<1>3. \A k, i : OnWire(k, i)' = OnWire(k, i)
  BY SamePlaces
<1>4. PlacesInv'
  BY <1>1, <1>3 DEF CatalogInv, PlacesInv
<1>5. CoverInv'
  BY <1>1, <1>2 DEF CatalogInv, CoverInv
<1>6. OrderInv'
  BY <1>1, <1>3 DEF CatalogInv, OrderInv
<1>7. LossyInv'
  BY <1>1, <1>2, <1>3 DEF CatalogInv, LossyInv
<1> QED BY <1>4, <1>5, <1>6, <1>7

-----------------------------------------------------------------------------
(* The client's steps *)

\* A step that leaves vars alone leaves each variable of it alone.
LEMMA VarsStay ==
    ASSUME UNCHANGED vars
    PROVE  /\ UNCHANGED <<definition, now, state, network_complete, agent_complete, reason>>
           /\ UNCHANGED <<listening, queue, arrived, pc, socket, waiting_since, saw_skipped>>
           /\ UNCHANGED <<saw_final, replied, read>>
BY DEF vars, execution, network, worker

\* The invariant holds of a definition of the catalog and of its contract.
LEMMA CatalogFacts ==
    ASSUME CatalogInv
    PROVE  definition \in Definitions /\ KindFacts /\ ContractInv
<1>1. definition \in Definitions
  BY DEF CatalogInv, LoopInv, TypeOK
<1> QED BY <1>1, ContractKind DEF CatalogInv

\* A client that still has something to do does something that moves no message.
LEMMA ClientOnly ==
    ASSUME CatalogInv, client # "done", UNCHANGED <<vars, environment, sent, wire, dropped>>,
           ClientInv', ReportInv', state # "Active" => UNCHANGED work_failed
    PROVE  CatalogInv'
<1>1. /\ UNCHANGED <<definition, now, state, network_complete, agent_complete, reason>>
      /\ UNCHANGED <<listening, queue, pc, saw_skipped, read, environment, sent, wire, dropped>>
  BY VarsStay
<1>2. LoopInv' /\ ContractInv'
  BY <1>1, StepLoop, SameContract DEF CatalogInv
<1>3. mode' = mode /\ kind' = kind /\ Able' = Able
  BY <1>1, SameContract
<1>4. WorkerInv'
  BY <1>1, <1>3 DEF CatalogInv, WorkerInv
<1>5. ~(now > 0 /\ state = "Active")
  BY DEF CatalogInv, TimeInv
<1>6. TimeInv'
  BY <1>1, <1>5 DEF TimeInv
<1>7. DeservedInv'
  <2>1. CASE state # "Active"
    <3>1. Deserved' = Deserved
      BY <1>1, <1>3, <2>1 DEF Deserved
    <3> QED BY <1>1, <2>1, <3>1 DEF CatalogInv, DeservedInv
  <2>2. CASE state = "Active"
    BY <1>1, <2>2 DEF CatalogInv, DeservedInv
  <2> QED BY <2>1, <2>2
<1>8. (PlacesInv /\ CoverInv /\ OrderInv /\ LossyInv)'
  <2>1. Waits' => Waits
    BY <1>1 DEF Waits
  <2>2. ~(kind = "ReceivePRMessages" /\ (pc' # "recv" \/ state' # "Active"))
    BY <1>1 DEF CatalogInv, LossyInv
  <2> QED BY <1>1, <2>1, <2>2, PlacesStay
<1> QED BY <1>2, <1>4, <1>6, <1>7, <1>8 DEF CatalogInv

\* What stands before a step of a client that is not done
LEMMA BusyClient ==
    ASSUME CatalogInv, client # "done"
    PROVE  /\ ~agent_complete /\ (mode # Server => state = "Active")
           /\ sent \in 0..Len(ToSend) /\ Len(ToSend) \in Nat
           /\ work_failed \in BOOLEAN /\ dropped \in BOOLEAN
           /\ client # "decline" => work_failed = FALSE
           /\ ~Able => sent = 0
<1>1. Len(ToSend) \in Nat
  BY CatalogFacts DEF KindFacts
<1>2. ReportInv /\ ClientInv
  BY DEF CatalogInv
<1>3. agent_complete => client = "done"
  BY <1>2 DEF ReportInv
<1>4. mode # Server => state = "Active"
  BY <1>2 DEF ReportInv
<1> QED BY <1>1, <1>2, <1>3, <1>4 DEF ClientInv

\* The client begins, or finds that it lacks something.
LEMMA SetUpKeeps ==
    ASSUME CatalogInv, SetUp, UNCHANGED environment
    PROVE  CatalogInv'
<1>1. /\ client = "setup" /\ UNCHANGED <<vars, sent, wire, dropped, work_failed>>
      /\ client' = IF Able THEN "send"
                   ELSE IF contract.completion_mode = Server THEN "done" ELSE "decline"
  BY DEF SetUp, Then
<1>2. contract.completion_mode = mode
  BY CatalogFacts DEF KindFacts
<1>3. UNCHANGED <<state, agent_complete>> /\ UNCHANGED definition
  BY <1>1, VarsStay
<1>4. ToSend' = ToSend /\ Able' = Able /\ mode' = mode /\ kind' = kind
  BY <1>3, SameContract
<1>5. sent = 0
  BY <1>1 DEF CatalogInv, ClientInv
<1>6. /\ ~agent_complete /\ (mode # Server => state = "Active") /\ Len(ToSend) \in Nat
      /\ work_failed = FALSE /\ dropped \in BOOLEAN
  BY <1>1, BusyClient
<1>7. ClientInv'
  <2>1. sent' = 0 /\ sent' \in 0..Len(ToSend')
    BY <1>1, <1>4, <1>5, <1>6
  <2>2. client' \in {"send", "decline", "done"}
    BY <1>1
  <2>3. client' = "send" => Able
    BY <1>1
  <2>4. client' = "decline" => mode # Server /\ ~Able
    BY <1>1, <1>2
  <2>5. work_failed' = FALSE /\ dropped' \in BOOLEAN
    BY <1>1, <1>6
  <2> QED BY <1>4, <2>1, <2>2, <2>3, <2>4, <2>5 DEF ClientInv
<1>8. ReportInv'
  BY <1>1, <1>2, <1>3, <1>4, <1>6 DEF ReportInv
<1> QED BY <1>1, <1>7, <1>8, ClientOnly

\* The client has sent all, and works or waits.
LEMMA AllSentKeeps ==
    ASSUME CatalogInv, AllSent, UNCHANGED environment
    PROVE  CatalogInv'
<1>1. /\ client = "send" /\ sent = Len(ToSend)
      /\ UNCHANGED <<vars, sent, wire, dropped, work_failed>>
      /\ client' = IF contract.local_work_after THEN "local_work" ELSE "receive"
  BY DEF AllSent, Then
<1>2. contract.local_work_after => mode = Hybrid
  BY CatalogFacts DEF KindFacts
<1>3. UNCHANGED <<state, agent_complete>> /\ UNCHANGED definition
  BY <1>1, VarsStay
<1>4. ToSend' = ToSend /\ Able' = Able /\ mode' = mode /\ kind' = kind
  BY <1>3, SameContract
<1>5. Able
  BY <1>1 DEF CatalogInv, ClientInv
<1>6. /\ ~agent_complete /\ (mode # Server => state = "Active") /\ Len(ToSend) \in Nat
      /\ work_failed = FALSE /\ dropped \in BOOLEAN /\ sent \in 0..Len(ToSend)
  BY <1>1, BusyClient
<1>7. ClientInv'
  BY <1>1, <1>2, <1>4, <1>5, <1>6 DEF ClientInv
<1>8. ReportInv'
  BY <1>1, <1>2, <1>3, <1>4, <1>6 DEF ReportInv
<1> QED BY <1>1, <1>7, <1>8, ClientOnly

\* Work that finds no association is not the work of a PR-SCTP client: its
\* worker listens until the clock has moved.
LEMMA LocalWorkKeeps ==
    ASSUME CatalogInv, LocalWork, UNCHANGED environment
    PROVE  CatalogInv'
<1>1. /\ client = "local_work" /\ UNCHANGED <<vars, sent, wire, dropped>>
      /\ work_failed' = ~listening
      /\ client' = IF listening THEN "receive" ELSE "decline"
  BY DEF LocalWork, Then
<1>2. UNCHANGED <<state, agent_complete>> /\ UNCHANGED definition
  BY <1>1, VarsStay
<1>3. ToSend' = ToSend /\ Able' = Able /\ mode' = mode /\ kind' = kind
  BY <1>2, SameContract
<1>4. Able /\ mode = Hybrid /\ sent = Len(ToSend)
  BY <1>1 DEF CatalogInv, ClientInv
<1>5. /\ ~agent_complete /\ (mode # Server => state = "Active") /\ Len(ToSend) \in Nat
      /\ work_failed = FALSE /\ dropped \in BOOLEAN /\ sent \in 0..Len(ToSend)
  BY <1>1, BusyClient
<1>6. mode # Server
  BY <1>4 DEF Hybrid, Server
<1>7. listening \in BOOLEAN
  BY DEF CatalogInv, LoopInv, TypeOK
<1>8. kind = "ReceivePRMessages" => listening
  <2>1. kind = "ReceivePRMessages" => pc = "recv" /\ state = "Active"
    BY <1>1 DEF CatalogInv, LossyInv
  <2>2. state = "Active" /\ pc # "done" => listening
    BY DEF CatalogInv, LoopInv, ListenersFollow
  <2> QED BY <2>1, <2>2
<1>9. ClientInv'
  BY <1>1, <1>3, <1>4, <1>5, <1>6, <1>7, <1>8 DEF ClientInv
<1>10. ReportInv'
  BY <1>1, <1>2, <1>3, <1>5 DEF ReportInv
<1> QED BY <1>1, <1>5, <1>6, <1>9, <1>10, ClientOnly

\* A message of the server reaches the client.
LEMMA ReplyArrives ==
    ASSUME CatalogInv, ReceiveReply, UNCHANGED environment
    PROVE  CatalogInv'
<1>1. client = "receive" /\ UNCHANGED <<vars, client, sent, wire, dropped, work_failed>>
  BY DEF ReceiveReply
<1>2. UNCHANGED <<state, agent_complete>> /\ UNCHANGED definition
  BY <1>1, VarsStay
<1>3. ToSend' = ToSend /\ Able' = Able /\ mode' = mode /\ kind' = kind
  BY <1>2, SameContract
<1>4. ClientInv' /\ ReportInv'
  BY <1>1, <1>2, <1>3 DEF CatalogInv, ClientInv, ReportInv
<1> QED BY <1>1, <1>4, ClientOnly

\* The client has all of the server's messages.
LEMMA AllReceivedKeeps ==
    ASSUME CatalogInv, AllReceived, UNCHANGED environment
    PROVE  CatalogInv'
<1>1. /\ client = "receive" /\ UNCHANGED <<vars, sent, wire, dropped, work_failed>>
      /\ client' = IF contract.completion_mode = Server THEN "done" ELSE "report"
  BY DEF AllReceived, Then
<1>2. contract.completion_mode = mode
  BY CatalogFacts DEF KindFacts
<1>3. UNCHANGED <<state, agent_complete>> /\ UNCHANGED definition
  BY <1>1, VarsStay
<1>4. ToSend' = ToSend /\ Able' = Able /\ mode' = mode /\ kind' = kind
  BY <1>3, SameContract
<1>5. Able /\ sent = Len(ToSend)
  BY <1>1 DEF CatalogInv, ClientInv
<1>6. /\ ~agent_complete /\ (mode # Server => state = "Active") /\ Len(ToSend) \in Nat
      /\ work_failed = FALSE /\ dropped \in BOOLEAN /\ sent \in 0..Len(ToSend)
  BY <1>1, BusyClient
<1>7. ClientInv'
  BY <1>1, <1>4, <1>5, <1>6 DEF ClientInv
<1>8. ReportInv'
  BY <1>1, <1>2, <1>3, <1>4, <1>5, <1>6 DEF ReportInv
<1> QED BY <1>1, <1>7, <1>8, ClientOnly

\* What POST complete or unsupported leaves alone
LEMMA AnswersNothing ==
    ASSUME CatalogInv, Report \/ Decline, client # "done", client' = "done",
           UNCHANGED <<environment, sent, wire, dropped, work_failed>>,
           kind = "ReceivePRMessages" /\ state' # "Active" => sent = 0
    PROVE  /\ LoopInv' /\ ContractInv' /\ TimeInv'
           /\ (PlacesInv /\ CoverInv /\ OrderInv /\ LossyInv)'
<1>1. /\ UNCHANGED <<definition, now, queue, pc, read, saw_skipped>> /\ state = "Active"
  BY DEF Report, Decline, network, worker
<1>2. LoopInv' /\ ContractInv'
  <2>1. [Next]_vars
    BY DEF Next
  <2> QED BY <1>1, <2>1, StepLoop, SameContract DEF CatalogInv
<1>3. TimeInv'
  <2>1. ~(now > 0 /\ state = "Active")
    BY DEF CatalogInv, TimeInv
  <2> QED BY <1>1, <2>1 DEF TimeInv
<1>4. Waits' => Waits
  BY <1>1 DEF Waits
<1>5. kind = "ReceivePRMessages" => pc = "recv"
  BY <1>1 DEF CatalogInv, LossyInv
<1>6. sent = 0 => wire = <<>>
  <2> SUFFICES ASSUME sent = 0 PROVE wire = <<>>
    OBVIOUS
  <2>1. wire \in Seq(Targets \X Traffic) /\ \A k \in DOMAIN wire : \E i \in 1..sent : OnWire(k, i)
    BY DEF CatalogInv, PlacesInv
  <2>2. 1..sent = {}
    OBVIOUS
  <2>3. DOMAIN wire = {}
    BY <2>1, <2>2
  <2> QED BY <2>1, <2>3
<1> QED BY <1>1, <1>2, <1>3, <1>4, <1>5, <1>6, PlacesStay

\* POST complete, on a feature that is still active.
LEMMA ReportKeeps ==
    ASSUME CatalogInv, client = "report", client' = "done", Report,
           UNCHANGED <<environment, sent, wire, received, dropped, work_failed>>
    PROVE  CatalogInv'
<1>1. /\ state = "Active" /\ mode # Server /\ agent_complete' = TRUE
      /\ UNCHANGED <<definition, now, network_complete, reason, pc>>
      /\ \/ /\ mode = "AgentReported" \/ network_complete
            /\ state' = "Passed" /\ listening' = FALSE
         \/ /\ mode # "AgentReported" /\ ~network_complete
            /\ UNCHANGED <<state, listening>>
  BY DEF Report, worker, Server
<1>2. ToSend' = ToSend /\ Able' = Able /\ mode' = mode /\ kind' = kind
  BY <1>1, SameContract
<1>3. Able /\ sent = Len(ToSend)
  BY DEF CatalogInv, ClientInv
<1>4. /\ Len(ToSend) \in Nat /\ sent \in 0..Len(ToSend)
      /\ work_failed = FALSE /\ dropped \in BOOLEAN
  BY BusyClient
<1>5. kind = "ReceivePRMessages" => state' = "Active"
  <2>1. kind = "ReceivePRMessages" => mode # "AgentReported"
    <3>1. KindFacts
      BY CatalogFacts
    <3> QED BY <3>1 DEF KindFacts, Server, Hybrid
  <2>2. kind = "ReceivePRMessages" => pc = "recv"
    BY DEF CatalogInv, LossyInv
  <2>3. network_complete => pc = "done"
    BY DEF CatalogInv, LoopInv, ListenersFollow
  <2> QED BY <1>1, <2>1, <2>2, <2>3
<1>6. /\ LoopInv' /\ ContractInv' /\ TimeInv'
      /\ (PlacesInv /\ CoverInv /\ OrderInv /\ LossyInv)'
  BY <1>5, AnswersNothing
<1>7. ClientInv'
  BY <1>2, <1>3, <1>4 DEF ClientInv
<1>8. ReportInv'
  BY <1>1, <1>2, <1>3, <1>4 DEF ReportInv
<1>9. WorkerInv'
  BY <1>1, <1>2 DEF CatalogInv, WorkerInv
<1>10. DeservedInv'
  <2>1. state' # "Active" => state' = "Passed" /\ kind # "ReceivePRMessages"
    BY <1>1, <1>5
  <2>2. state' # "Active" => state' \in Deserved'
    BY <1>2, <1>3, <1>4, <2>1 DEF Deserved
  <2> QED BY <1>1, <2>2 DEF CatalogInv, DeservedInv
<1> QED BY <1>6, <1>7, <1>8, <1>9, <1>10 DEF CatalogInv

\* POST unsupported, on a feature that is still active.
LEMMA DeclineKeeps ==
    ASSUME CatalogInv, client = "decline", client' = "done", Decline,
           UNCHANGED <<environment, sent, wire, received, dropped, work_failed>>
    PROVE  CatalogInv'
<1>1. /\ state = "Active" /\ state' = "Unsupported" /\ listening' = FALSE
      /\ UNCHANGED <<definition, now, network_complete, agent_complete, reason, pc>>
  BY DEF Decline, worker
<1>2. ToSend' = ToSend /\ Able' = Able /\ mode' = mode /\ kind' = kind
  BY <1>1, SameContract
<1>3. mode # Server /\ (~Able \/ work_failed)
      /\ (work_failed => Able /\ mode = Hybrid /\ kind # "ReceivePRMessages")
  BY DEF CatalogInv, ClientInv
<1>4. /\ ~agent_complete /\ Len(ToSend) \in Nat /\ sent \in 0..Len(ToSend)
      /\ work_failed \in BOOLEAN /\ dropped \in BOOLEAN /\ (~Able => sent = 0)
  BY BusyClient
<1>5. /\ LoopInv' /\ ContractInv' /\ TimeInv'
      /\ (PlacesInv /\ CoverInv /\ OrderInv /\ LossyInv)'
  BY <1>3, <1>4, AnswersNothing
<1>6. ClientInv'
  BY <1>2, <1>3, <1>4 DEF ClientInv
<1>7. ReportInv' /\ WorkerInv'
  BY <1>1, <1>2, <1>4 DEF ReportInv, WorkerInv
<1>8. DeservedInv'
  <2>1. "Unsupported" \in Deserved'
    BY <1>2, <1>3 DEF Deserved
  <2> QED BY <1>1, <2>1 DEF CatalogInv, DeservedInv
<1> QED BY <1>5, <1>6, <1>7, <1>8 DEF CatalogInv

\* Either, or the 409 of a feature that is settled.
LEMMA AnswerKeeps ==
    ASSUME CatalogInv, ReportOrDecline, UNCHANGED environment
    PROVE  CatalogInv'
<1>1. /\ client \in {"report", "decline"} /\ client' = "done"
      /\ UNCHANGED <<sent, wire, received, dropped, work_failed>>
      /\ \/ client = "report" /\ Report
         \/ client = "decline" /\ Decline
         \/ state # "Active" /\ UNCHANGED vars
  BY DEF ReportOrDecline, Then
<1>2. CASE client = "report" /\ Report
  BY <1>1, <1>2, ReportKeeps
<1>3. CASE client = "decline" /\ Decline
  BY <1>1, <1>3, DeclineKeeps
<1>4. CASE state # "Active" /\ UNCHANGED vars
  <2>1. UNCHANGED <<definition, state, agent_complete>>
    BY <1>4, VarsStay
  <2>2. ToSend' = ToSend /\ Able' = Able /\ mode' = mode /\ kind' = kind
    BY <2>1, SameContract
  <2>3. ClientInv'
    BY <1>1, <2>2 DEF CatalogInv, ClientInv
  <2>4. ReportInv'
    BY <1>1, <1>4, <2>1, <2>2, BusyClient DEF ReportInv
  <2> QED BY <1>1, <1>4, <2>3, <2>4, ClientOnly
<1> QED BY <1>1, <1>2, <1>3, <1>4

\* One more message is on its way, behind the others.
LEMMA SendKeepsCatalog ==
    ASSUME CatalogInv, Send, UNCHANGED environment
    PROVE  CatalogInv'
<1>1. PICK n : n = sent + 1
  OBVIOUS
<1>2. /\ client = "send" /\ sent < Len(ToSend) /\ sent' = n
      /\ wire' = Append(wire, <<Destination(n), ToSend[n]>>)
      /\ UNCHANGED <<vars, client, dropped, work_failed>>
  <2>1. /\ client = "send" /\ sent < Len(ToSend) /\ sent' = sent + 1
        /\ wire' = Append(wire, <<Destination(sent'), ToSend[sent']>>)
        /\ UNCHANGED <<vars, client, dropped, work_failed>>
    BY DEF Send
  <2> QED BY <1>1, <2>1
<1>3. /\ UNCHANGED <<definition, now, state, network_complete, agent_complete, reason>>
      /\ UNCHANGED <<listening, queue, pc, saw_skipped, read>>
  BY <1>2, VarsStay
<1>4. /\ ToSend' = ToSend /\ Able' = Able /\ mode' = mode /\ kind' = kind /\ Targets' = Targets
      /\ Traffic' = Traffic /\ \A i : Destination(i)' = Destination(i)
  BY <1>3, SameContract
<1>5. /\ sent \in Nat /\ n \in 1..Len(ToSend) /\ Len(ToSend) \in Nat
      /\ \A i \in 1..n : i \in 1..sent \/ i = n
      /\ \A i \in 1..sent : i \in 1..n
  BY <1>1, <1>2, BusyClient
<1>6. MessageFacts(n) /\ KindFacts /\ Able
  <2>1. Able
    BY <1>2 DEF CatalogInv, ClientInv
  <2> QED BY <1>5, <2>1, CatalogFacts, ContractMessages
<1>7. wire \in Seq(Targets \X Traffic)
  BY DEF CatalogInv, PlacesInv
<1>8. PICK last : last = Len(wire) + 1
  OBVIOUS
<1>9. /\ last \in DOMAIN wire' /\ wire'[last] = <<Destination(n), ToSend[n]>>
      /\ \A k \in DOMAIN wire : k \in DOMAIN wire' /\ wire'[k] = wire[k]
      /\ \A k \in DOMAIN wire' : k \in DOMAIN wire \/ k = last
      /\ Len(wire') = last
  BY <1>2, <1>7, <1>8
<1>10. /\ \A k \in DOMAIN wire : \A i : OnWire(k, i)' <=> OnWire(k, i)
       /\ OnWire(last, n)'
       /\ \A i : InWire(i) => InWire(i)'
       /\ \A i : InQueue(i)' = InQueue(i) /\ IsRead(i)' = IsRead(i)
  <2>1. \A k \in DOMAIN wire : \A i : OnWire(k, i)' <=> OnWire(k, i)
    BY <1>4, <1>9 DEF OnWire
  <2>2. OnWire(last, n)'
    BY <1>4, <1>9 DEF OnWire
  <2>3. \A i : InWire(i) => InWire(i)'
    BY <1>9, <2>1 DEF InWire
  <2>4. \A i : InQueue(i)' = InQueue(i) /\ IsRead(i)' = IsRead(i)
    BY <1>3, <1>4 DEF InQueue, IsRead
  <2> QED BY <2>1, <2>2, <2>3, <2>4
<1>11. LoopInv' /\ ContractInv'
  BY <1>2, <1>3, StepLoop, SameContract DEF CatalogInv
<1>12. ClientInv'
  <2>1. sent' \in 0..Len(ToSend')
    BY <1>2, <1>4, <1>5
  <2>2. /\ client' = "send" /\ work_failed' = FALSE /\ dropped' \in BOOLEAN
    BY <1>2, BusyClient
  <2> QED BY <1>4, <1>6, <2>1, <2>2 DEF ClientInv
<1>13. ReportInv' /\ WorkerInv'
  BY <1>2, <1>3, <1>4 DEF CatalogInv, ReportInv, WorkerInv
<1>14. TimeInv'
  <2>1. ~(now > 0 /\ state = "Active")
    BY <1>2 DEF CatalogInv, TimeInv
  <2> QED BY <1>3, <2>1 DEF TimeInv
<1>15. DeservedInv'
  BY <1>2, <1>3, <1>4 DEF CatalogInv, DeservedInv, Deserved
<1>16. PlacesInv'
  <2>1. wire' \in Seq(Targets' \X Traffic')
    <3>1. <<Destination(n), ToSend[n]>> \in Targets \X Traffic
      BY <1>6 DEF MessageFacts
    <3> QED BY <1>2, <1>4, <1>7, <3>1
  <2>2. ASSUME NEW k \in DOMAIN wire' PROVE \E i \in 1..n : OnWire(k, i)'
    <3>1. CASE k = last
      BY <1>5, <1>10, <3>1
    <3>2. CASE k \in DOMAIN wire
      <4>1. PICK i \in 1..sent : OnWire(k, i)
        BY <3>2 DEF CatalogInv, PlacesInv
      <4> QED BY <1>5, <1>10, <3>2, <4>1
    <3> QED BY <1>9, <3>1, <3>2
  <2>3. \A l \in Targets : \A j \in DOMAIN queue[l] :
           \E i \in 1..n : l = Destination(i) /\ queue[l][j] = ToSend[i]
    BY <1>5 DEF CatalogInv, PlacesInv
  <2>4. \A l \in Targets : \A j \in DOMAIN read[l] :
           \E i \in 1..n : l = Destination(i) /\ read[l][j] = ToSend[i]
    BY <1>5 DEF CatalogInv, PlacesInv
  <2> QED BY <1>2, <1>3, <1>4, <2>1, <2>2, <2>3, <2>4 DEF PlacesInv
<1>17. CoverInv'
  <2>1. Waits' => Waits
    BY <1>3 DEF Waits
  <2>2. InWire(n)'
    BY <1>9, <1>10 DEF InWire
  <2> QED BY <1>2, <1>4, <1>5, <1>10, <2>1, <2>2 DEF CatalogInv, CoverInv
<1>18. OrderInv'
  <2> SUFFICES ASSUME kind = "ReceiveMessages", Waits
               PROVE  /\ Len(read[1]) + Len(queue[1]) + Len(wire') = n
                      /\ \A j \in DOMAIN queue[1] : queue[1][j] = ToSend[Len(read[1]) + j]
                      /\ \A j \in DOMAIN wire' :
                            OnWire(j, Len(read[1]) + Len(queue[1]) + j)'
    <3>1. Waits' => Waits
      BY <1>3 DEF Waits
    <3> QED BY <1>2, <1>3, <1>4, <3>1 DEF OrderInv
  <2>1. /\ Len(read[1]) + Len(queue[1]) + Len(wire) = sent
        /\ \A j \in DOMAIN queue[1] : queue[1][j] = ToSend[Len(read[1]) + j]
        /\ \A j \in DOMAIN wire : OnWire(j, Len(read[1]) + Len(queue[1]) + j)
    BY DEF CatalogInv, OrderInv
  <2>2. Len(wire) \in Nat /\ Len(read[1]) \in Nat /\ Len(queue[1]) \in Nat
    <3>1. definition \in Definitions /\ queue \in [Targets -> Seq(Traffic \cup {Notification})]
          /\ read \in [Targets -> Seq(Traffic)]
      BY DEF CatalogInv, LoopInv, TypeOK
    <3>2. 1 \in Targets
      BY <3>1, TargetFacts
    <3>3. queue[1] \in Seq(Traffic \cup {Notification}) /\ read[1] \in Seq(Traffic)
      BY <3>1, <3>2
    <3> QED BY <1>7, <3>3
  <2>3. PICK before : before = Len(read[1]) + Len(queue[1])
    OBVIOUS
  <2>4. before \in Nat /\ before + Len(wire) = sent
    <3>1. before \in Nat
      <4>1. \A p, q \in Nat : p + q \in Nat
        OBVIOUS
      <4> QED BY <2>2, <2>3, <4>1, Zenon
    <3>2. before + Len(wire) = sent
      BY <2>1, <2>3, Zenon
    <3> QED BY <3>1, <3>2
  <2>5. before + last = n
    BY <1>1, <1>8, <2>2, <2>4
  <2>6. \A j \in DOMAIN wire' : OnWire(j, before + j)'
    <3>1. OnWire(last, before + last)'
      BY <1>10, <2>5
    <3>2. \A j \in DOMAIN wire : OnWire(j, before + j)'
      BY <1>10, <2>1, <2>3
    <3> QED BY <1>9, <3>1, <3>2
  <2>7. before + Len(wire') = n
    BY <1>9, <2>5
  <2> QED BY <1>3, <2>1, <2>3, <2>6, <2>7, Zenon
<1>19. LossyInv'
  <2> SUFFICES ASSUME kind = "ReceivePRMessages" PROVE LossyInv'
    BY <1>4 DEF LossyInv
  <2>1. /\ pc = "recv" /\ state = "Active"
        /\ dropped => sent > 0 /\ ~InWire(1) /\ ~InQueue(1) /\ ~saw_skipped
        /\ InWire(1) => ~InQueue(1) /\ ~saw_skipped
        /\ \A j, k \in DOMAIN wire : OnWire(j, 1) /\ OnWire(k, 1) => j = k
    BY <1>2 DEF CatalogInv, LossyInv
  <2>2. Len(ToSend) = 2 /\ ToSend[2] # ToSend[1]
    BY <1>6 DEF KindFacts
  <2>3. n = 1 \/ n = 2
    BY <1>5, <2>2
  <2>4. CASE n = 1
    <3>1. sent = 0 /\ 1..sent = {}
      BY <1>1, <1>5, <2>4
    <3>2. DOMAIN wire = {}
      BY <3>1 DEF CatalogInv, PlacesInv
    <3>3. Destination(1) \in Targets
      BY <1>6, <2>4 DEF MessageFacts
    <3>4. ~InQueue(1)
      BY <3>1, <3>3 DEF CatalogInv, PlacesInv, InQueue
    <3>5. ~saw_skipped
      <4>1. Destination(1) = 1
        BY <1>6, <2>4 DEF MessageFacts
      <4>2. DOMAIN read[1] = {}
        BY <3>1, <3>3, <4>1 DEF CatalogInv, PlacesInv
      <4> QED BY <2>1, <4>2 DEF CatalogInv, LoopInv, PrLoop
    <3>6. ~dropped
      BY <2>1, <3>1
    <3>7. \A j, k \in DOMAIN wire' : j = k
      BY <1>9, <3>2
    <3> QED BY <1>2, <1>3, <1>10, <2>1, <3>4, <3>5, <3>6, <3>7 DEF LossyInv
  <2>5. CASE n = 2
    <3>1. ~OnWire(last, 1)'
      BY <1>4, <1>9, <2>2, <2>5 DEF OnWire
    <3>2. InWire(1)' => InWire(1)
      BY <1>9, <1>10, <3>1 DEF InWire
    <3>3. \A j, k \in DOMAIN wire' : OnWire(j, 1)' /\ OnWire(k, 1)' => j = k
      BY <1>9, <1>10, <2>1, <3>1
    <3>4. n > 0
      BY <2>5
    <3> QED BY <1>2, <1>3, <1>10, <2>1, <3>2, <3>3, <3>4 DEF LossyInv
  <2> QED BY <2>3, <2>4, <2>5
<1> QED BY <1>11, <1>12, <1>13, <1>14, <1>15, <1>16, <1>17, <1>18, <1>19 DEF CatalogInv

-----------------------------------------------------------------------------
(* The network's steps *)

\* A message on its way is one of those sent, and taking it off leaves the others.
LEMMA TakenOff ==
    ASSUME CatalogInv, NEW k \in DOMAIN wire, wire' = Without(k),
           UNCHANGED <<definition, environment>>
    PROVE  /\ \E i \in 1..sent : i \in 1..Len(ToSend) /\ OnWire(k, i) /\ MessageFacts(i)
           /\ wire' \in Seq(Targets \X Traffic)
           /\ \A j \in DOMAIN wire' : \E n \in DOMAIN wire :
                 n # k /\ \A i : OnWire(j, i)' <=> OnWire(n, i)
           /\ \A n \in DOMAIN wire : n # k => \E j \in DOMAIN wire' :
                 \A i : OnWire(j, i)' <=> OnWire(n, i)
           /\ \A i, j \in DOMAIN wire' : i # j => \E m, n \in DOMAIN wire :
                 /\ m # n
                 /\ \A h : (OnWire(i, h)' <=> OnWire(m, h)) /\ (OnWire(j, h)' <=> OnWire(n, h))
<1>1. wire \in Seq(Targets \X Traffic) /\ \A n \in DOMAIN wire : \E i \in 1..sent : OnWire(n, i)
  BY DEF CatalogInv, PlacesInv
<1>2. wire' = Removing(wire, k)
  BY DEF Without, Removing
<1>3. ToSend' = ToSend /\ \A i : Destination(i)' = Destination(i)
  BY SameContract
<1>4. \A n \in DOMAIN wire, j \in DOMAIN wire' :
          wire'[j] = wire[n] => \A i : OnWire(j, i)' <=> OnWire(n, i)
  BY <1>3 DEF OnWire
<1>5. \E i \in 1..sent : i \in 1..Len(ToSend) /\ OnWire(k, i) /\ MessageFacts(i)
  <2>1. PICK i \in 1..sent : OnWire(k, i)
    BY <1>1
  <2>2. sent \in 0..Len(ToSend) /\ Len(ToSend) \in Nat
    BY CatalogFacts DEF CatalogInv, ClientInv, KindFacts
  <2>3. i \in 1..Len(ToSend)
    BY <2>2
  <2> QED BY <2>1, <2>3, CatalogFacts, ContractMessages
<1>6. PICK rest : rest = Removing(wire, k)
  OBVIOUS
<1>7. /\ rest \in Seq(Targets \X Traffic)
      /\ \A j \in DOMAIN rest : \E n \in DOMAIN wire : n # k /\ rest[j] = wire[n]
      /\ \A n \in DOMAIN wire : n # k => \E j \in DOMAIN rest : rest[j] = wire[n]
      /\ \A i, j \in DOMAIN rest : i # j =>
            \E m, n \in DOMAIN wire : m # n /\ rest[i] = wire[m] /\ rest[j] = wire[n]
  BY <1>1, <1>6, RemovingRest
<1>8. wire' = rest
  BY <1>2, <1>6
<1>9. \A j \in DOMAIN wire' : \E n \in DOMAIN wire :
          n # k /\ \A i : OnWire(j, i)' <=> OnWire(n, i)
  BY <1>4, <1>7, <1>8
<1>10. \A n \in DOMAIN wire : n # k => \E j \in DOMAIN wire' :
          \A i : OnWire(j, i)' <=> OnWire(n, i)
  BY <1>4, <1>7, <1>8
<1>11. \A i, j \in DOMAIN wire' : i # j => \E m, n \in DOMAIN wire :
          /\ m # n
          /\ \A h : (OnWire(i, h)' <=> OnWire(m, h)) /\ (OnWire(j, h)' <=> OnWire(n, h))
  <2> SUFFICES ASSUME NEW i \in DOMAIN wire', NEW j \in DOMAIN wire', i # j
               PROVE  \E m, n \in DOMAIN wire :
                         /\ m # n
                         /\ \A h : /\ OnWire(i, h)' <=> OnWire(m, h)
                                   /\ OnWire(j, h)' <=> OnWire(n, h)
    OBVIOUS
  <2>1. PICK m, n \in DOMAIN wire : m # n /\ rest[i] = wire[m] /\ rest[j] = wire[n]
    BY <1>7, <1>8
  <2>2. wire'[i] = wire[m] /\ wire'[j] = wire[n]
    BY <1>8, <2>1
  <2> QED BY <1>4, <2>1, <2>2
<1> QED BY <1>5, <1>7, <1>8, <1>9, <1>10, <1>11

\* What a step of the network leaves alone
LEMMA NetworkOnly ==
    ASSUME CatalogInv, [Next]_vars, wire # <<>>,
           UNCHANGED <<definition, now, state, network_complete, agent_complete, reason>>,
           UNCHANGED <<listening, pc, environment, client, sent, work_failed>>,
           dropped' \in BOOLEAN, state # "Active" => UNCHANGED dropped
    PROVE  LoopInv' /\ (ContractInv /\ ClientInv /\ ReportInv /\ WorkerInv /\ TimeInv)'
           /\ DeservedInv'
<1>1. ToSend' = ToSend /\ Able' = Able /\ mode' = mode /\ kind' = kind
  BY SameContract
<1>2. LoopInv' /\ ContractInv'
  BY StepLoop, SameContract DEF CatalogInv
<1>3. ClientInv' /\ ReportInv' /\ WorkerInv'
  BY <1>1 DEF CatalogInv, ClientInv, ReportInv, WorkerInv
<1>4. TimeInv'
  <2>1. ~(now > 0 /\ state = "Active")
    BY DEF CatalogInv, TimeInv
  <2> QED BY <2>1 DEF TimeInv
<1>5. DeservedInv'
  <2>1. CASE state = "Active"
    BY <2>1 DEF CatalogInv, DeservedInv
  <2>2. CASE state # "Active"
    <3>1. Deserved' = Deserved
      BY <1>1, <2>2 DEF Deserved
    <3> QED BY <2>2, <3>1 DEF CatalogInv, DeservedInv
  <2> QED BY <2>1, <2>2
<1> QED BY <1>2, <1>3, <1>4, <1>5

\* The network drops the lossy message of PR-SCTP.
LEMMA DropKeeps ==
    ASSUME CatalogInv, Drop
    PROVE  CatalogInv'
<1>1. PICK k \in DOMAIN wire :
         /\ wire[k][2].pr_policy # "" /\ wire' = Without(k) /\ dropped' = TRUE
         /\ UNCHANGED <<vars, environment, client, sent, received, work_failed>>
  BY DEF Drop
<1>2. /\ UNCHANGED <<definition, now, state, network_complete, agent_complete, reason>>
      /\ UNCHANGED <<listening, queue, pc, saw_skipped, read>>
  BY <1>1, VarsStay
<1>3. /\ ToSend' = ToSend /\ kind' = kind /\ Targets' = Targets /\ Traffic' = Traffic
      /\ \A i : Destination(i)' = Destination(i)
  BY <1>1, <1>2, SameContract
<1>4. PICK lost \in 1..sent : lost \in 1..Len(ToSend) /\ OnWire(k, lost) /\ MessageFacts(lost)
  BY <1>1, <1>2, TakenOff
<1>5. kind = "ReceivePRMessages" /\ lost = 1
  <2>1. wire[k][2] = ToSend[lost]
    BY <1>4 DEF OnWire
  <2> QED BY <1>1, <1>4, <2>1 DEF MessageFacts
<1>6. wire # <<>> /\ sent' = sent
  <2>1. \A n \in DOMAIN wire : wire # <<>>
    OBVIOUS
  <2> QED BY <1>1, <2>1
<1>7. /\ pc = "recv" /\ state = "Active"
      /\ \A j, n \in DOMAIN wire : OnWire(j, 1) /\ OnWire(n, 1) => j = n
      /\ InWire(1) => ~InQueue(1) /\ ~saw_skipped
  BY <1>5, <1>6 DEF CatalogInv, LossyInv
<1>8. LoopInv' /\ (ContractInv /\ ClientInv /\ ReportInv /\ WorkerInv /\ TimeInv)'
      /\ DeservedInv'
  BY <1>1, <1>2, <1>6, <1>7, NetworkOnly
<1>9. /\ wire' \in Seq(Targets \X Traffic)
      /\ \A j \in DOMAIN wire' : \E n \in DOMAIN wire :
            n # k /\ \A i : OnWire(j, i)' <=> OnWire(n, i)
      /\ \A n \in DOMAIN wire : n # k => \E j \in DOMAIN wire' :
            \A i : OnWire(j, i)' <=> OnWire(n, i)
  BY <1>1, <1>2, TakenOff
<1>10. \A i : InQueue(i)' = InQueue(i) /\ IsRead(i)' = IsRead(i)
  BY <1>2, <1>3 DEF InQueue, IsRead
<1>11. PlacesInv'
  <2>1. \A j \in DOMAIN wire' : \E i \in 1..sent : OnWire(j, i)'
    BY <1>9 DEF CatalogInv, PlacesInv
  <2>2. /\ \A l \in Targets : \A j \in DOMAIN queue[l] :
              \E i \in 1..sent : l = Destination(i) /\ queue[l][j] = ToSend[i]
        /\ \A l \in Targets : \A j \in DOMAIN read[l] :
              \E i \in 1..sent : l = Destination(i) /\ read[l][j] = ToSend[i]
    BY DEF CatalogInv, PlacesInv
  <2>3. /\ wire' \in Seq(Targets \X Traffic)
        /\ \A j \in DOMAIN wire' : \E i \in 1..sent' : OnWire(j, i)'
    BY <1>6, <1>9, <2>1
  <2>4. /\ \A l \in Targets : \A j \in DOMAIN queue'[l] :
              \E i \in 1..sent' : l = Destination(i)' /\ queue'[l][j] = ToSend'[i]
        /\ \A l \in Targets : \A j \in DOMAIN read'[l] :
              \E i \in 1..sent' : l = Destination(i)' /\ read'[l][j] = ToSend'[i]
    BY <1>2, <1>3, <1>6, <2>2
  <2> QED BY <1>3, <2>3, <2>4 DEF PlacesInv
<1>12. CoverInv'
  <2> SUFFICES ASSUME NEW i \in 1..sent
               PROVE  InWire(i)' \/ InQueue(i) \/ IsRead(i) \/ i = 1
    BY <1>1, <1>3, <1>5, <1>10 DEF CoverInv
  <2>1. InWire(i) \/ InQueue(i) \/ IsRead(i) \/ i = 1
    BY <1>7 DEF CatalogInv, CoverInv, Waits
  <2>2. ASSUME InWire(i), i # 1
        PROVE  InWire(i)'
    <3>1. PICK n \in DOMAIN wire : OnWire(n, i)
      BY <2>2 DEF InWire
    <3>2. n # k
      <4>1. KindFacts
        BY CatalogFacts
      <4>2. Len(ToSend) = 2 /\ ToSend[2] # ToSend[1]
        BY <1>5, <4>1 DEF KindFacts
      <4>3. sent \in 0..Len(ToSend)
        BY DEF CatalogInv, ClientInv
      <4>4. i = 2
        BY <2>2, <4>2, <4>3
      <4> QED BY <1>4, <1>5, <3>1, <4>2, <4>4 DEF OnWire
    <3> QED BY <1>9, <3>1, <3>2 DEF InWire
  <2> QED BY <2>1, <2>2
<1>13. OrderInv'
  BY <1>3, <1>5 DEF OrderInv
<1>14. LossyInv'
  <2>1. InWire(1)
    BY <1>4, <1>5 DEF InWire
  <2>2. ~InWire(1)'
    BY <1>4, <1>5, <1>7, <1>9 DEF InWire
  <2>3. \A j, n \in DOMAIN wire' : OnWire(j, 1)' /\ OnWire(n, 1)' => j = n
    BY <2>2 DEF InWire
  <2>4. sent > 0
    <3>1. sent \in 0..Len(ToSend) /\ Len(ToSend) \in Nat
      BY CatalogFacts DEF CatalogInv, ClientInv, KindFacts
    <3> QED BY <1>4, <3>1
  <2> QED BY <1>1, <1>2, <1>7, <1>10, <2>1, <2>2, <2>3, <2>4 DEF LossyInv
<1> QED BY <1>8, <1>11, <1>12, <1>13, <1>14 DEF CatalogInv

\* A message that comes to a closed socket is gone; no worker waits for it.
LEMMA LateDelivery ==
    ASSUME CatalogInv, NEW k \in DOMAIN wire, wire' = Without(k), ~listening,
           UNCHANGED <<vars, environment, client, sent, received, dropped, work_failed>>
    PROVE  CatalogInv'
<1>1. /\ UNCHANGED <<definition, now, state, network_complete, agent_complete, reason>>
      /\ UNCHANGED <<listening, queue, pc, saw_skipped, read>>
  BY VarsStay
<1>2. /\ ToSend' = ToSend /\ kind' = kind /\ Targets' = Targets /\ Traffic' = Traffic
      /\ \A i : Destination(i)' = Destination(i)
  BY <1>1, SameContract
<1>3. wire # <<>>
  OBVIOUS
<1>4. dropped \in BOOLEAN
  BY DEF CatalogInv, ClientInv
<1>5. LoopInv' /\ (ContractInv /\ ClientInv /\ ReportInv /\ WorkerInv /\ TimeInv)'
      /\ DeservedInv'
  BY <1>1, <1>3, <1>4, NetworkOnly
<1>6. /\ wire' \in Seq(Targets \X Traffic)
      /\ \A j \in DOMAIN wire' : \E n \in DOMAIN wire :
            n # k /\ \A i : OnWire(j, i)' <=> OnWire(n, i)
  BY <1>1, TakenOff
<1>7. PlacesInv'
  <2>1. \A j \in DOMAIN wire' : \E i \in 1..sent : OnWire(j, i)'
    BY <1>6 DEF CatalogInv, PlacesInv
  <2> QED BY <1>1, <1>2, <1>6, <2>1 DEF CatalogInv, PlacesInv
<1>8. ~Waits
  <2>1. state = "Active" /\ pc # "done" => listening
    BY DEF CatalogInv, LoopInv, ListenersFollow
  <2> QED BY <2>1 DEF Waits
<1>9. ~Waits'
  BY <1>1, <1>8 DEF Waits
<1>10. kind # "ReceivePRMessages"
  BY <1>3, <1>8 DEF CatalogInv, LossyInv, Waits
<1>11. CoverInv' /\ OrderInv' /\ LossyInv'
  BY <1>2, <1>9, <1>10 DEF CoverInv, OrderInv, LossyInv
<1> QED BY <1>5, <1>7, <1>11 DEF CatalogInv

\* A message that comes to its listener is at the end of its queue.
LEMMA TimelyDelivery ==
    ASSUME CatalogInv, NEW k \in DOMAIN wire, Deliverable(k), wire' = Without(k),
           Arrive(wire[k][1], Fitting(wire[k][2])),
           UNCHANGED <<environment, client, sent, received, dropped, work_failed>>
    PROVE  CatalogInv'
<1>1. UNCHANGED definition
  BY DEF Arrive
<1>2. /\ ToSend' = ToSend /\ kind' = kind /\ Targets' = Targets /\ Traffic' = Traffic
      /\ \A i : Destination(i)' = Destination(i)
  BY <1>1, SameContract
<1>3. PICK come \in 1..sent : come \in 1..Len(ToSend) /\ OnWire(k, come) /\ MessageFacts(come)
  BY <1>1, TakenOff
<1>4. PICK to : to = Destination(come)
  OBVIOUS
<1>5. PICK m : m = ToSend[come]
  OBVIOUS
<1>6. to \in Targets /\ m \in Traffic /\ wire[k] = <<to, m>> /\ Fitting(m) = m
  BY <1>3, <1>4, <1>5 DEF OnWire, MessageFacts
<1>7. wire[k][1] = to /\ wire[k][2] = m
  BY <1>6
<1>8. Arrive(to, m)
  BY <1>6, <1>7
<1>9. /\ UNCHANGED <<now, state, network_complete, agent_complete, reason, listening>>
      /\ UNCHANGED <<pc, saw_skipped, read>> /\ listening
      /\ queue' = [queue EXCEPT ![to] = Append(@, m)]
  BY <1>8 DEF Arrive, execution, worker
<1>10. wire # <<>> /\ dropped \in BOOLEAN
  BY DEF CatalogInv, ClientInv
<1>11. LoopInv' /\ (ContractInv /\ ClientInv /\ ReportInv /\ WorkerInv /\ TimeInv)'
      /\ DeservedInv'
  <2>1. [Next]_vars
    BY <1>6, <1>8 DEF Next
  <2> QED BY <1>1, <1>9, <1>10, <2>1, NetworkOnly
<1>12. /\ wire' \in Seq(Targets \X Traffic)
       /\ \A j \in DOMAIN wire' : \E n \in DOMAIN wire :
             n # k /\ \A i : OnWire(j, i)' <=> OnWire(n, i)
       /\ \A n \in DOMAIN wire : n # k => \E j \in DOMAIN wire' :
             \A i : OnWire(j, i)' <=> OnWire(n, i)
       /\ \A i, j \in DOMAIN wire' : i # j => \E b, n \in DOMAIN wire :
             /\ b # n
             /\ \A h : (OnWire(i, h)' <=> OnWire(b, h)) /\ (OnWire(j, h)' <=> OnWire(n, h))
  BY <1>1, TakenOff
<1>13. /\ queue \in [Targets -> Seq(Traffic \cup {Notification})]
       /\ read \in [Targets -> Seq(Traffic)] /\ definition \in Definitions
  BY DEF CatalogInv, LoopInv, TypeOK
<1>14. queue[to] \in Seq(Traffic \cup {Notification})
  BY <1>6, <1>13
<1>15. PICK last : last = Len(queue[to]) + 1
  OBVIOUS
<1>16. /\ \A l \in Targets : l # to => queue'[l] = queue[l]
       /\ last \in DOMAIN queue'[to] /\ queue'[to][last] = m /\ Len(queue'[to]) = last
       /\ \A j \in DOMAIN queue[to] : j \in DOMAIN queue'[to] /\ queue'[to][j] = queue[to][j]
       /\ \A j \in DOMAIN queue'[to] : j = last \/ j \in DOMAIN queue[to]
  <2>1. queue'[to] = Append(queue[to], m)
    BY <1>6, <1>9, <1>13
  <2>2. \A l \in Targets : l # to => queue'[l] = queue[l]
    BY <1>9, <1>13
  <2>3. PICK q : q = queue[to]
    OBVIOUS
  <2>4. q \in Seq(Traffic \cup {Notification})
    BY <1>14, <2>3
  <2>5. PICK longer : longer = Append(q, m)
    OBVIOUS
  <2>6. /\ last \in DOMAIN longer /\ longer[last] = m /\ Len(longer) = last
        /\ \A j \in DOMAIN q : j \in DOMAIN longer /\ longer[j] = q[j]
        /\ \A j \in DOMAIN longer : j = last \/ j \in DOMAIN q
    BY <1>15, <2>3, <2>4, <2>5
  <2>7. queue'[to] = longer
    BY <2>1, <2>3, <2>5
  <2> QED BY <2>2, <2>3, <2>6, <2>7
<1>17. \A l \in Targets : \A j \in DOMAIN queue'[l] :
           \/ j \in DOMAIN queue[l] /\ queue'[l][j] = queue[l][j]
           \/ l = to /\ queue'[l][j] = m
  BY <1>16
<1>18. /\ \A i : IsRead(i)' = IsRead(i)
       /\ \A i \in 1..Len(ToSend) : InQueue(i) => InQueue(i)'
       /\ InQueue(come)'
  <2>1. \A i : IsRead(i)' = IsRead(i)
    BY <1>2, <1>9 DEF IsRead
  <2>2. \A i \in 1..Len(ToSend) : Destination(i) \in Targets
    BY CatalogFacts, ContractMessages DEF MessageFacts
  <2>3. \A l \in Targets : \A j \in DOMAIN queue[l] :
            j \in DOMAIN queue'[l] /\ queue'[l][j] = queue[l][j]
    BY <1>16
  <2>4. \A i \in 1..Len(ToSend) : InQueue(i) => InQueue(i)'
    BY <1>2, <2>2, <2>3 DEF InQueue
  <2>5. InQueue(come)'
    BY <1>2, <1>4, <1>5, <1>16 DEF InQueue
  <2> QED BY <2>1, <2>4, <2>5
<1>19. PlacesInv'
  <2>1. \A j \in DOMAIN wire' : \E i \in 1..sent : OnWire(j, i)'
    BY <1>12 DEF CatalogInv, PlacesInv
  <2>2. \A l \in Targets : \A j \in DOMAIN queue'[l] :
            \E i \in 1..sent : l = Destination(i) /\ queue'[l][j] = ToSend[i]
    BY <1>3, <1>4, <1>5, <1>17 DEF CatalogInv, PlacesInv
  <2>3. \A l \in Targets : \A j \in DOMAIN read[l] :
            \E i \in 1..sent : l = Destination(i) /\ read[l][j] = ToSend[i]
    BY DEF CatalogInv, PlacesInv
  <2> QED BY <1>2, <1>9, <1>12, <2>1, <2>2, <2>3 DEF PlacesInv
<1>20. CoverInv'
  <2> SUFFICES ASSUME Waits, NEW i \in 1..sent
               PROVE  InWire(i)' \/ InQueue(i)' \/ IsRead(i)
                      \/ (dropped /\ kind = "ReceivePRMessages" /\ i = 1)
    <3>1. Waits' => Waits
      BY <1>9 DEF Waits
    <3> QED BY <1>2, <1>18, <3>1 DEF CoverInv
  <2>1. sent \in 0..Len(ToSend) /\ Len(ToSend) \in Nat
    BY CatalogFacts DEF CatalogInv, ClientInv, KindFacts
  <2>2. i \in 1..Len(ToSend)
    BY <2>1
  <2>3. ASSUME InWire(i) PROVE InWire(i)' \/ InQueue(i)'
    <3>1. PICK n \in DOMAIN wire : OnWire(n, i)
      BY <2>3 DEF InWire
    <3>2. CASE n # k
      BY <1>12, <3>1, <3>2 DEF InWire
    <3>3. CASE n = k
      <4>1. Destination(i) = to /\ ToSend[i] = m
        BY <1>6, <3>1, <3>3 DEF OnWire
      <4> QED BY <1>2, <1>16, <4>1 DEF InQueue
    <3> QED BY <3>2, <3>3
  <2> QED BY <1>18, <2>2, <2>3 DEF CatalogInv, CoverInv
<1>21. LossyInv'
  <2> SUFFICES ASSUME kind = "ReceivePRMessages" PROVE LossyInv'
    BY <1>2 DEF LossyInv
  <2>1. /\ pc = "recv" /\ state = "Active"
        /\ dropped => sent > 0 /\ ~InWire(1) /\ ~InQueue(1) /\ ~saw_skipped
        /\ InWire(1) => ~InQueue(1) /\ ~saw_skipped
        /\ \A j, n \in DOMAIN wire : OnWire(j, 1) /\ OnWire(n, 1) => j = n
    BY <1>10 DEF CatalogInv, LossyInv
  <2>2. InWire(1)' => InWire(1)
    BY <1>12 DEF InWire
  <2>3. \A j, n \in DOMAIN wire' : OnWire(j, 1)' /\ OnWire(n, 1)' => j = n
    <3> SUFFICES ASSUME NEW j \in DOMAIN wire', NEW n \in DOMAIN wire',
                        OnWire(j, 1)', OnWire(n, 1)', j # n
                 PROVE  FALSE
      OBVIOUS
    <3>1. PICK b, c \in DOMAIN wire :
             /\ b # c
             /\ \A h : (OnWire(j, h)' <=> OnWire(b, h)) /\ (OnWire(n, h)' <=> OnWire(c, h))
      BY <1>12
    <3> QED BY <2>1, <3>1
  <2>4. Destination(1) = 1 /\ to = 1
    <3>1. MessageFacts(1)
      <4>1. 1 \in 1..Len(ToSend)
        <5>1. KindFacts
          BY CatalogFacts
        <5>2. Len(ToSend) = 2
          BY <5>1 DEF KindFacts
        <5> QED BY <5>2
      <4> QED BY <4>1, CatalogFacts, ContractMessages
    <3> QED BY <1>3, <1>4, <3>1 DEF MessageFacts
  <2>5. InQueue(1)' => InQueue(1) \/ m = ToSend[1]
    BY <1>2, <1>6, <1>17, <2>4 DEF InQueue
  <2>6. m = ToSend[1] => OnWire(k, 1) /\ InWire(1) /\ ~InWire(1)'
    <3> SUFFICES ASSUME m = ToSend[1] PROVE OnWire(k, 1) /\ InWire(1) /\ ~InWire(1)'
      OBVIOUS
    <3>1. OnWire(k, 1)
      BY <1>6, <2>4 DEF OnWire
    <3>2. ~InWire(1)'
      BY <1>12, <2>1, <3>1 DEF InWire
    <3> QED BY <3>1, <3>2 DEF InWire
  <2>7. dropped => ~InQueue(1)' /\ ~InWire(1)'
    BY <2>1, <2>2, <2>5, <2>6
  <2>8. InWire(1)' => ~InQueue(1)'
    BY <2>1, <2>2, <2>5, <2>6
  <2> QED BY <1>9, <2>1, <2>2, <2>3, <2>7, <2>8 DEF LossyInv
<1>22. OrderInv'
  <2> SUFFICES ASSUME kind = "ReceiveMessages", Waits PROVE OrderInv'
    <3>1. Waits' => Waits
      BY <1>9 DEF Waits
    <3> QED BY <1>2, <3>1 DEF OrderInv
  <2>1. /\ Len(read[1]) + Len(queue[1]) + Len(wire) = sent
        /\ \A j \in DOMAIN queue[1] : queue[1][j] = ToSend[Len(read[1]) + j]
        /\ \A j \in DOMAIN wire : OnWire(j, Len(read[1]) + Len(queue[1]) + j)
    BY DEF CatalogInv, OrderInv
  <2>2. Targets = {1} /\ to = 1
    BY <1>6, <1>13, TargetFacts
  <2>3. wire \in Seq(Targets \X Traffic)
    BY DEF CatalogInv, PlacesInv
  <2>4. k = 1
    <3> SUFFICES ASSUME k # 1 PROVE FALSE
      OBVIOUS
    <3>1. 1 \in DOMAIN wire /\ 1 \in 1..k - 1 /\ DOMAIN wire = 1..Len(wire)
      BY <2>3
    <3>2. wire[1][1] # wire[k][1] \/ wire[1][2].stream # wire[k][2].stream
      BY <3>1 DEF Deliverable
    <3>3. PICK first \in 1..sent : OnWire(1, first)
      BY <3>1 DEF CatalogInv, PlacesInv
    <3>4. sent \in 0..Len(ToSend) /\ Len(ToSend) \in Nat
      BY CatalogFacts DEF CatalogInv, ClientInv, KindFacts
    <3>5. first \in 1..Len(ToSend)
      BY <3>4
    <3>6. MessageFacts(first)
      BY <3>5, CatalogFacts, ContractMessages
    <3>7. Destination(first) = 1 /\ ToSend[first].stream = ToSend[1].stream
      BY <3>6 DEF MessageFacts
    <3>8. m.stream = ToSend[1].stream
      BY <1>3, <1>5 DEF MessageFacts
    <3>9. wire[1][1] = 1 /\ wire[1][2].stream = ToSend[1].stream
      BY <3>3, <3>7 DEF OnWire
    <3> QED BY <1>7, <2>2, <3>2, <3>8, <3>9
  <2>5. PICK r : r = Len(read[1])
    OBVIOUS
  <2>6. PICK q : q = Len(queue[1])
    OBVIOUS
  <2>7. r \in Nat /\ q \in Nat /\ Len(wire) \in Nat /\ Len(wire) > 0
        /\ last = q + 1 /\ Len(queue'[1]) = q + 1
    <3>1. read[1] \in Seq(Traffic)
      BY <1>13, <2>2
    <3>2. r \in Nat
      BY <2>5, <3>1
    <3>3. q \in Nat /\ last = q + 1 /\ Len(queue'[1]) = q + 1
      BY <1>14, <1>15, <1>16, <2>2, <2>6
    <3>4. Len(wire) \in Nat /\ Len(wire) > 0
      BY <2>3
    <3> QED BY <3>2, <3>3, <3>4
  <2>8. /\ Len(wire') = Len(wire) - 1 /\ DOMAIN wire' = 1..(Len(wire) - 1)
        /\ \A j \in 1..(Len(wire) - 1) : wire'[j] = wire[j + 1]
    <3>1. PICK rest : rest = Removing(wire, 1)
      OBVIOUS
    <3>2. 1 \in 1..Len(wire)
      BY <2>7
    <3>3. /\ Len(rest) = Len(wire) - 1 /\ DOMAIN rest = 1..(Len(wire) - 1)
          /\ \A j \in 1..(Len(wire) - 1) : rest[j] = wire[IF j < 1 THEN j ELSE j + 1]
      BY <2>3, <3>1, <3>2, RemovingOne
    <3>4. \A j \in 1..(Len(wire) - 1) : rest[j] = wire[j + 1]
      BY <2>7, <3>3
    <3>5. wire' = rest
      BY <2>4, <3>1 DEF Without, Removing
    <3> QED BY <3>3, <3>4, <3>5
  <2>9. /\ r + q + Len(wire) = sent
        /\ \A j \in DOMAIN queue[1] : queue[1][j] = ToSend[r + j]
        /\ \A j \in DOMAIN wire : OnWire(j, r + q + j)
    BY <2>1, <2>5, <2>6, Zenon
  <2>10. r + (q + 1) + Len(wire') = sent
    BY <2>7, <2>8, <2>9
  <2>11. \A j \in DOMAIN queue'[1] : queue'[1][j] = ToSend[r + j]
    <3>1. m = ToSend[r + last]
      <4>1. OnWire(1, r + q + 1)
        BY <2>4, <2>9
      <4>2. r + q + 1 = r + last
        BY <2>7
      <4> QED BY <1>6, <2>4, <4>1, <4>2 DEF OnWire
    <3> QED BY <1>16, <2>2, <2>9, <3>1
  <2>12. \A j \in DOMAIN wire' : OnWire(j, r + (q + 1) + j)'
    <3> SUFFICES ASSUME NEW j \in DOMAIN wire'
                 PROVE  OnWire(j, r + (q + 1) + j)'
      OBVIOUS
    <3>1. PICK next : next = j + 1
      OBVIOUS
    <3>2. j \in 1..(Len(wire) - 1) /\ next \in 1..Len(wire)
      BY <2>7, <2>8, <3>1
    <3>3. OnWire(next, r + q + next) /\ wire'[j] = wire[next]
      <4>1. next \in DOMAIN wire
        BY <2>3, <3>2
      <4> QED BY <2>8, <2>9, <3>1, <3>2, <4>1
    <3>4. r + q + next = r + (q + 1) + j
      BY <2>7, <3>1, <3>2
    <3> QED BY <1>2, <3>3, <3>4 DEF OnWire
  <2>13. Len(read'[1]) = r /\ Len(queue'[1]) = q + 1
    BY <1>9, <2>5, <2>7
  <2>14. /\ Len(read'[1]) + Len(queue'[1]) + Len(wire') = sent'
         /\ \A j \in DOMAIN queue'[1] : queue'[1][j] = ToSend'[Len(read'[1]) + j]
    BY <1>2, <2>10, <2>11, <2>13, Zenon
  <2>15. \A j \in DOMAIN wire' : OnWire(j, Len(read[1]) + Len(queue[1]) + j)'
    BY <2>12, <2>13, Zenon
  <2> QED BY <2>14, <2>15 DEF OrderInv
<1> QED BY <1>11, <1>19, <1>20, <1>21, <1>22 DEF CatalogInv

\* The network delivers a message, in time or too late.
LEMMA DeliverKeeps ==
    ASSUME CatalogInv, Deliver
    PROVE  CatalogInv'
<1>1. PICK k \in DOMAIN wire :
         /\ Deliverable(k) /\ wire' = Without(k)
         /\ \/ Arrive(wire[k][1], Fitting(wire[k][2]))
            \/ ~listening /\ UNCHANGED vars
         /\ UNCHANGED <<environment, client, sent, received, dropped, work_failed>>
  BY DEF Deliver
<1>2. CASE Arrive(wire[k][1], Fitting(wire[k][2]))
  BY <1>1, <1>2, TimelyDelivery
<1>3. CASE ~listening /\ UNCHANGED vars
  BY <1>1, <1>3, LateDelivery
<1> QED BY <1>1, <1>2, <1>3

-----------------------------------------------------------------------------
(* What a step of the worker means for the session *)

\* The worker's steps tell the client nothing.
LEMMA ClientRests ==
    ASSUME UNCHANGED <<definition, environment, client_vars>>
    PROVE  /\ UNCHANGED <<client, sent, wire, dropped, work_failed>>
           /\ UNCHANGED <<ToSend, Able, kind, mode, contract>>
           /\ Targets' = Targets /\ Traffic' = Traffic /\ (ContractInv' <=> ContractInv)
           /\ \A i : Destination(i)' = Destination(i)
<1>1. UNCHANGED <<client, sent, wire, dropped, work_failed>>
  BY DEF client_vars
<1> QED BY <1>1, SameContract

SessionInv ==
    ContractInv /\ ClientInv /\ ReportInv /\ WorkerInv /\ TimeInv /\ DeservedInv

\* No verdict, or none that counts any more
LEMMA NothingDecided ==
    ASSUME CatalogInv, UNCHANGED <<definition, now, environment, client_vars, execution>>,
           pc' # "done" \/ state # "Active" \/ UNCHANGED pc
    PROVE  SessionInv'
<1>1. /\ UNCHANGED <<client, sent, wire, dropped, work_failed>>
      /\ UNCHANGED <<ToSend, Able, kind, mode>> /\ (ContractInv' <=> ContractInv)
  BY ClientRests
<1>2. UNCHANGED <<state, network_complete, agent_complete, reason, listening>>
  BY DEF execution
<1>3. Deserved' = Deserved
  BY <1>1 DEF Deserved
<1>4. ClientInv' /\ ReportInv'
  BY <1>1, <1>2 DEF CatalogInv, ClientInv, ReportInv
<1>5. WorkerInv' /\ TimeInv' /\ DeservedInv'
  BY <1>1, <1>2, <1>3 DEF CatalogInv, WorkerInv, TimeInv, DeservedInv
<1> QED BY <1>1, <1>4, <1>5 DEF CatalogInv, SessionInv

\* The network part of an active feature is done: it passes, or waits for a
\* report that has not come.
LEMMA NetworkPartDone ==
    ASSUME CatalogInv, UNCHANGED <<definition, now, environment, client_vars>>,
           state = "Active", MarkNetworkComplete, Able,
           kind = "ReceivePRMessages" => dropped, kind # "AgentOnly"
    PROVE  SessionInv'
<1>1. /\ UNCHANGED <<client, sent, wire, dropped, work_failed>>
      /\ UNCHANGED <<ToSend, Able, kind, mode>> /\ (ContractInv' <=> ContractInv)
  BY ClientRests
<1>2. /\ network_complete' = TRUE /\ listening' = FALSE
      /\ state' = IF mode = Server \/ agent_complete THEN "Passed" ELSE "Active"
      /\ UNCHANGED <<agent_complete, reason>>
  BY DEF MarkNetworkComplete, Server
<1>3. mode # "AgentReported"
  <2>1. KindFacts
    BY CatalogFacts
  <2> QED BY <2>1 DEF KindFacts, Server, Hybrid
<1>4. ClientInv'
  BY <1>1 DEF CatalogInv, ClientInv
<1>5. ReportInv'
  <2>1. ReportInv
    BY DEF CatalogInv
  <2>2. agent_complete' => client' = "done" /\ Able' /\ ~work_failed'
    BY <1>1, <1>2, <2>1 DEF ReportInv
  <2>3. client' # "done" /\ mode' # Server => state' = "Active"
    BY <1>1, <1>2, <2>2
  <2>4. client' = "done" /\ state' = "Active" =>
           IF Able' THEN sent' = Len(ToSend') /\ ~work_failed'
                         /\ (mode' = Server \/ agent_complete')
           ELSE mode' = Server
    BY <1>1, <1>2, <2>1 DEF ReportInv
  <2> QED BY <1>1, <1>3, <2>2, <2>3, <2>4 DEF ReportInv
<1>6. WorkerInv' /\ TimeInv'
  BY <1>1, <1>2 DEF CatalogInv, WorkerInv, TimeInv
<1>7. DeservedInv'
  <2>1. state' # "Active" => state' = "Passed" /\ (mode = Server \/ agent_complete)
    BY <1>2
  <2>2. mode = Server \/ agent_complete => ~work_failed
    BY DEF CatalogInv, ReportInv, ClientInv, Server, Hybrid
  <2>3. state' # "Active" => state' \in Deserved'
    BY <1>1, <2>1, <2>2 DEF Deserved
  <2> QED BY <1>2, <2>3 DEF CatalogInv, DeservedInv
<1> QED BY <1>1, <1>4, <1>5, <1>6, <1>7 DEF CatalogInv, SessionInv

\* A feature fails that fails its client rightly, and after its client is done.
LEMMA RightlyFailed ==
    ASSUME CatalogInv, UNCHANGED <<definition, now, environment, client_vars>>,
           state = "Active", NEW why \in {"timeout", "delivered"}, MarkFailed(why),
           client = "done", "Failed" \in Deserved
    PROVE  SessionInv'
<1>1. /\ UNCHANGED <<client, sent, wire, dropped, work_failed>>
      /\ UNCHANGED <<ToSend, Able, kind, mode>> /\ (ContractInv' <=> ContractInv)
  BY ClientRests
<1>2. /\ state' = "Failed" /\ reason' = why /\ listening' = FALSE
      /\ UNCHANGED <<network_complete, agent_complete>>
  BY DEF MarkFailed
<1>3. Deserved' = Deserved
  BY <1>1 DEF Deserved
<1>4. ClientInv' /\ ReportInv'
  BY <1>1, <1>2 DEF CatalogInv, ClientInv, ReportInv
<1>5. WorkerInv' /\ TimeInv' /\ DeservedInv'
  BY <1>2, <1>3 DEF WorkerInv, TimeInv, DeservedInv
<1> QED BY <1>1, <1>4, <1>5 DEF CatalogInv, SessionInv

-----------------------------------------------------------------------------
(* The worker reads *)

\* What a worker reads has been sent to it; it is then read and not waiting.
LEMMA ReadOff ==
    ASSUME CatalogInv, ReceiveData, UNCHANGED <<environment, client_vars>>
    PROVE  /\ \E i \in 1..sent : /\ i \in 1..Len(ToSend) /\ MessageFacts(i)
                                 /\ socket = Destination(i) /\ Incoming = ToSend[i]
           /\ Able /\ state = "Active" /\ pc = "recv" /\ UNCHANGED <<definition, now>>
           /\ PlacesInv' /\ CoverInv' /\ OrderInv'
           /\ InWire(1)' = InWire(1)
           /\ kind = "ReceivePRMessages" => (InQueue(1)' => InQueue(1))
           /\ \A k, i : OnWire(k, i)' = OnWire(k, i)
<1>1. /\ Receive /\ Incoming # Notification /\ pc = "recv" /\ listening
      /\ queue[socket] # <<>> /\ queue' = [queue EXCEPT ![socket] = Tail(@)]
  BY DEF ReceiveData, Receive
<1>2. /\ UNCHANGED <<definition, now>> /\ socket \in Targets /\ definition \in Definitions
      /\ read \in [Targets -> Seq(Traffic)] /\ LoopInv
  BY <1>1, ReceiveFacts DEF CatalogInv
<1>3. /\ read[socket] \in Seq(Traffic) /\ Incoming \in Traffic
      /\ read' = [read EXCEPT ![socket] = Append(@, Incoming)]
      /\ read' \in [Targets -> Seq(Traffic)]
  BY <1>2, DataFacts
<1>4. queue \in [Targets -> Seq(Traffic \cup {Notification})]
  BY <1>2 DEF LoopInv, TypeOK
<1>5. /\ UNCHANGED <<client, sent, wire, dropped, work_failed>>
      /\ UNCHANGED <<ToSend, Able, kind, mode>>
      /\ Targets' = Targets /\ Traffic' = Traffic /\ \A i : Destination(i)' = Destination(i)
  BY <1>2, ClientRests
<1>6. state = "Active" /\ Waits
  BY <1>1 DEF CatalogInv, WorkerInv, Waits
<1>7. PICK q : q = queue[socket]
  OBVIOUS
<1>8. PICK rest : rest = Tail(q)
  OBVIOUS
<1>9. /\ q \in Seq(Traffic \cup {Notification}) /\ q # <<>> /\ Incoming = q[1]
      /\ 1 \in DOMAIN q /\ Len(rest) = Len(q) - 1 /\ Len(q) \in Nat
      /\ DOMAIN rest = 1..(Len(q) - 1) /\ DOMAIN q = 1..Len(q)
      /\ \A j \in 1..(Len(q) - 1) : rest[j] = q[j + 1]
  BY <1>1, <1>2, <1>4, <1>7, <1>8 DEF Incoming
<1>10. queue'[socket] = rest /\ \A l \in Targets : l # socket => queue'[l] = queue[l]
  BY <1>1, <1>2, <1>4, <1>7, <1>8
<1>11. \A j \in DOMAIN rest : \E n \in DOMAIN q : rest[j] = q[n]
  <2> SUFFICES ASSUME NEW j \in DOMAIN rest PROVE \E n \in DOMAIN q : rest[j] = q[n]
    OBVIOUS
  <2>1. PICK n : n = j + 1
    OBVIOUS
  <2>2. n \in DOMAIN q /\ rest[j] = q[n]
    BY <1>9, <2>1
  <2> QED BY <2>2
<1>12. \A n \in DOMAIN q : q[n] = Incoming \/ \E j \in DOMAIN rest : rest[j] = q[n]
  <2> SUFFICES ASSUME NEW n \in DOMAIN q, n # 1
               PROVE  \E j \in DOMAIN rest : rest[j] = q[n]
    BY <1>9
  <2>1. PICK j : j = n - 1
    OBVIOUS
  <2>2. j \in DOMAIN rest /\ j + 1 = n
    BY <1>9, <2>1
  <2> QED BY <1>9, <2>2
<1>13. PICK r : r = read[socket]
  OBVIOUS
<1>14. PICK longer : longer = Append(r, Incoming)
  OBVIOUS
<1>15. /\ r \in Seq(Traffic) /\ Len(r) \in Nat /\ Len(longer) = Len(r) + 1
       /\ \A j \in DOMAIN r : j \in DOMAIN longer /\ longer[j] = r[j]
       /\ \E j \in DOMAIN longer : longer[j] = Incoming
       /\ \A j \in DOMAIN longer : j \in DOMAIN r \/ longer[j] = Incoming
  <2>1. r \in Seq(Traffic) /\ Len(r) \in Nat
    BY <1>3, <1>13
  <2>2. PICK last : last = Len(r) + 1
    OBVIOUS
  <2>3. /\ last \in DOMAIN longer /\ longer[last] = Incoming /\ Len(longer) = last
        /\ \A j \in DOMAIN longer : j \in DOMAIN r \/ j = last
        /\ \A j \in DOMAIN r : j \in DOMAIN longer /\ longer[j] = r[j]
    BY <1>3, <1>14, <2>1, <2>2
  <2> QED BY <2>1, <2>2, <2>3
<1>16. read'[socket] = longer /\ \A l \in Targets : l # socket => read'[l] = read[l]
  BY <1>2, <1>3, <1>13, <1>14
<1>17. PICK come \in 1..sent : socket = Destination(come) /\ Incoming = ToSend[come]
  BY <1>2, <1>7, <1>9 DEF CatalogInv, PlacesInv
<1>18. sent \in 0..Len(ToSend) /\ Len(ToSend) \in Nat /\ (~Able => sent = 0)
  BY CatalogFacts DEF CatalogInv, ClientInv, KindFacts
<1>19. come \in 1..Len(ToSend) /\ Able
  BY <1>17, <1>18
<1>20. MessageFacts(come)
  BY <1>19, CatalogFacts, ContractMessages
<1>21. \A k, i : OnWire(k, i)' = OnWire(k, i)
  BY <1>5 DEF OnWire
<1>22. \A i : InWire(i)' = InWire(i)
  BY <1>5, <1>21 DEF InWire
<1>23. \A l \in Targets : \A j \in DOMAIN queue'[l] : \E n \in DOMAIN queue[l] :
          queue'[l][j] = queue[l][n]
  BY <1>7, <1>10, <1>11
<1>24. \A i \in 1..Len(ToSend) : Destination(i) \in Targets
  BY CatalogFacts, ContractMessages DEF MessageFacts
<1>25. \A i \in 1..Len(ToSend) : InQueue(i)' => InQueue(i)
  BY <1>5, <1>23, <1>24 DEF InQueue
<1>26. PlacesInv'
  <2>1. \A k \in DOMAIN wire : \E i \in 1..sent : OnWire(k, i)
    BY DEF CatalogInv, PlacesInv
  <2>2. \A l \in Targets : \A j \in DOMAIN queue'[l] :
            \E i \in 1..sent : l = Destination(i) /\ queue'[l][j] = ToSend[i]
    BY <1>23 DEF CatalogInv, PlacesInv
  <2>3. \A l \in Targets : \A j \in DOMAIN read'[l] :
            \E i \in 1..sent : l = Destination(i) /\ read'[l][j] = ToSend[i]
    <3> SUFFICES ASSUME NEW l \in Targets, NEW j \in DOMAIN read'[l]
                 PROVE  \E i \in 1..sent : l = Destination(i) /\ read'[l][j] = ToSend[i]
      OBVIOUS
    <3>1. CASE l # socket
      BY <1>16, <3>1 DEF CatalogInv, PlacesInv
    <3>2. CASE l = socket
      <4>1. CASE j \in DOMAIN r
        <5>1. read'[l][j] = read[l][j] /\ j \in DOMAIN read[l]
          BY <1>13, <1>15, <1>16, <3>2, <4>1
        <5> QED BY <5>1 DEF CatalogInv, PlacesInv
      <4>2. CASE longer[j] = Incoming
        BY <1>16, <1>17, <3>2, <4>2
      <4> QED BY <1>15, <1>16, <3>2, <4>1, <4>2
    <3> QED BY <3>1, <3>2
  <2>4. wire' \in Seq(Targets' \X Traffic')
    BY <1>5 DEF CatalogInv, PlacesInv
  <2>5. \A k \in DOMAIN wire' : \E i \in 1..sent' : OnWire(k, i)'
    BY <1>5, <1>21, <2>1
  <2> QED BY <1>5, <2>2, <2>3, <2>4, <2>5 DEF PlacesInv
<1>27. CoverInv'
  <2> SUFFICES ASSUME NEW i \in 1..sent
               PROVE  InWire(i) \/ InQueue(i)' \/ IsRead(i)'
                      \/ (dropped /\ kind = "ReceivePRMessages" /\ i = 1)
    BY <1>5, <1>22 DEF CoverInv
  <2>1. i \in 1..Len(ToSend)
    BY <1>18
  <2>2. Destination(i) \in Targets
    BY <1>24, <2>1
  <2>3. ASSUME IsRead(i) PROVE IsRead(i)'
    BY <1>5, <1>13, <1>15, <1>16, <2>2, <2>3 DEF IsRead
  <2>4. ASSUME InQueue(i) PROVE InQueue(i)' \/ IsRead(i)'
    <3>1. CASE Destination(i) # socket
      BY <1>5, <1>10, <2>2, <2>4, <3>1 DEF InQueue
    <3>2. CASE Destination(i) = socket
      <4>1. PICK n \in DOMAIN q : q[n] = ToSend[i]
        BY <1>7, <2>4, <3>2 DEF InQueue
      <4>2. CASE q[n] = Incoming
        BY <1>5, <1>15, <1>16, <3>2, <4>1, <4>2 DEF IsRead
      <4>3. CASE \E j \in DOMAIN rest : rest[j] = q[n]
        BY <1>5, <1>10, <3>2, <4>1, <4>3 DEF InQueue
      <4> QED BY <1>12, <4>2, <4>3
    <3> QED BY <3>1, <3>2
  <2>5. InWire(i) \/ InQueue(i) \/ IsRead(i)
        \/ (dropped /\ kind = "ReceivePRMessages" /\ i = 1)
    BY <1>6 DEF CatalogInv, CoverInv
  <2> QED BY <2>3, <2>4, <2>5
<1>28. OrderInv'
  <2> SUFFICES ASSUME kind = "ReceiveMessages" PROVE OrderInv'
    BY <1>5 DEF OrderInv
  <2>1. socket = 1
    BY <1>2, TargetFacts
  <2>2. /\ Len(r) + Len(q) + Len(wire) = sent
        /\ \A j \in DOMAIN q : q[j] = ToSend[Len(r) + j]
        /\ \A j \in DOMAIN wire : OnWire(j, Len(r) + Len(q) + j)
    BY <1>6, <1>7, <1>13, <2>1, Zenon DEF CatalogInv, OrderInv
  <2>3. PICK a : a = Len(r)
    OBVIOUS
  <2>4. PICK b : b = Len(q)
    OBVIOUS
  <2>5. /\ a \in Nat /\ b \in Nat /\ Len(longer) = a + 1 /\ Len(rest) = b - 1
        /\ (a + 1) + (b - 1) = a + b /\ DOMAIN rest = 1..(b - 1) /\ DOMAIN q = 1..b
    BY <1>9, <1>15, <2>3, <2>4
  <2>6. \A j \in DOMAIN rest : rest[j] = ToSend[(a + 1) + j]
    <3> SUFFICES ASSUME NEW j \in DOMAIN rest PROVE rest[j] = ToSend[(a + 1) + j]
      OBVIOUS
    <3>1. PICK n : n = j + 1
      OBVIOUS
    <3>2. n \in DOMAIN q /\ a + n = (a + 1) + j
      BY <2>5, <3>1
    <3>3. rest[j] = q[n]
      BY <1>9, <3>1
    <3> QED BY <2>2, <2>3, <3>2, <3>3
  <2>7. Len(longer) + Len(rest) = a + b
    BY <2>5
  <2>8. /\ Len(longer) + Len(rest) + Len(wire') = sent'
        /\ \A j \in DOMAIN rest : rest[j] = ToSend'[Len(longer) + j]
    BY <1>5, <2>2, <2>3, <2>4, <2>5, <2>6, <2>7, Zenon
  <2>9. \A j \in DOMAIN wire' : OnWire(j, a + b + j)'
    BY <1>5, <1>21, <2>2, <2>3, <2>4, Zenon
  <2>10. Len(read'[1]) + Len(queue'[1]) = a + b
    BY <1>10, <1>16, <2>1, <2>7, Zenon
  <2>11. \A j \in DOMAIN wire' : OnWire(j, Len(read[1]) + Len(queue[1]) + j)'
    BY <2>9, <2>10, Zenon
  <2>12. /\ Len(read'[1]) + Len(queue'[1]) + Len(wire') = sent'
         /\ \A j \in DOMAIN queue'[1] : queue'[1][j] = ToSend'[Len(read'[1]) + j]
    BY <1>10, <1>16, <2>1, <2>8, Zenon
  <2> QED BY <2>11, <2>12 DEF OrderInv
<1>29. kind = "ReceivePRMessages" => (InQueue(1)' => InQueue(1))
  <2>1. KindFacts
    BY CatalogFacts
  <2>2. kind = "ReceivePRMessages" => 1 \in 1..Len(ToSend)
    BY <2>1 DEF KindFacts
  <2> QED BY <1>25, <2>2
<1> QED BY <1>1, <1>2, <1>6, <1>17, <1>19, <1>20, <1>21, <1>22, <1>26, <1>27, <1>28, <1>29

\* run_receive_worker reads the next message.
LEMMA ExpectedIsRead ==
    ASSUME CatalogInv, NEW has_addrs \in BOOLEAN, ReceiveExpected(has_addrs),
           UNCHANGED <<environment, client_vars>>
    PROVE  SessionInv' /\ (PlacesInv /\ CoverInv /\ OrderInv /\ LossyInv)'
<1> DEFINE next == Expected[Len(read[1]) + 1]
           wrong == Mismatch(Incoming, next)
           unaddressed == /\ read[1] = <<>> /\ definition.expected_peer_addr_count > 0
                          /\ ~has_addrs
           failure == IF wrong # "" THEN wrong ELSE IF unaddressed THEN "addresses" ELSE ""
<1>1. /\ kind = "ReceiveMessages" /\ ReceiveData
      /\ \/ failure # "" /\ MarkFailed(failure) /\ pc' = "done"
         \/ failure = "" /\ MarkNetworkComplete /\ pc' = "done"
         \/ failure = "" /\ UNCHANGED <<execution, pc>>
  BY DEF ReceiveExpected
<1>2. /\ Able /\ state = "Active" /\ pc = "recv" /\ UNCHANGED <<definition, now>>
      /\ PlacesInv' /\ CoverInv' /\ OrderInv'
  BY <1>1, ReadOff
<1>3. definition \in Definitions /\ KindFacts
  BY CatalogFacts
<1>4. Incoming = next
  <2>1. Receive /\ queue[socket] # <<>>
    BY <1>1 DEF ReceiveData, Receive
  <2>2. socket \in Targets /\ Targets = {1}
    BY <1>1, <1>3, <2>1, ReceiveFacts, TargetFacts DEF CatalogInv
  <2>3. queue[1] \in Seq(Traffic \cup {Notification}) /\ socket = 1
    BY <2>2 DEF CatalogInv, LoopInv, TypeOK
  <2>4. 1 \in DOMAIN queue[1] /\ Incoming = queue[1][1]
    BY <2>1, <2>3 DEF Incoming
  <2>5. queue[1][1] = ToSend[Len(read[1]) + 1]
    BY <1>1, <1>2, <2>4 DEF CatalogInv, OrderInv, Waits
  <2> QED BY <1>1, <1>3, <2>4, <2>5 DEF KindFacts
<1>5. failure = ""
  <2>1. wrong = ""
    <3> HIDE DEF next
    <3> QED BY <1>4, MismatchIsUnseen
  <2>2. ~unaddressed
    <3>1. definition.expected_peer_addr_count = 0
      BY <1>3, CatalogAssumption
    <3> QED BY <3>1
  <2> QED BY <2>1, <2>2
<1> HIDE DEF failure
<1>6. SessionInv'
  <2>1. CASE MarkNetworkComplete
    BY <1>1, <1>2, <2>1, NetworkPartDone
  <2>2. CASE UNCHANGED <<execution, pc>>
    BY <1>2, <2>2, NothingDecided
  <2> QED BY <1>1, <1>5, <2>1, <2>2
<1>7. LossyInv'
  <2>1. kind' # "ReceivePRMessages"
    BY <1>1, <1>2, SameDefinition
  <2> QED BY <2>1 DEF LossyInv
<1> QED BY <1>2, <1>6, <1>7

\* run_receive_multi_target_worker reads the message of a listener.
LEMMA TargetIsRead ==
    ASSUME CatalogInv, ReceiveOnTarget, UNCHANGED <<environment, client_vars>>
    PROVE  SessionInv' /\ (PlacesInv /\ CoverInv /\ OrderInv /\ LossyInv)'
<1> DEFINE wrong == Mismatch(Incoming, Expected[socket])
<1>1. /\ kind = "ReceiveMessagesMultiTarget" /\ ReceiveData
      /\ \/ wrong # "" /\ MarkFailed(wrong) /\ pc' = "done"
         \/ wrong = "" /\ MarkNetworkComplete /\ pc' = "done"
         \/ wrong = "" /\ UNCHANGED <<execution, pc>>
  BY DEF ReceiveOnTarget
<1>2. /\ Able /\ state = "Active" /\ pc = "recv" /\ UNCHANGED <<definition, now>>
      /\ PlacesInv' /\ CoverInv' /\ OrderInv'
  BY <1>1, ReadOff
<1>3. wrong = ""
  <2>1. PICK i \in 1..sent : MessageFacts(i) /\ socket = Destination(i) /\ Incoming = ToSend[i]
    BY <1>1, ReadOff
  <2>2. socket = i
    BY <1>1, <2>1 DEF MessageFacts
  <2>3. ToSend = Expected
    BY <1>1, CatalogFacts DEF KindFacts
  <2>4. Incoming = Expected[socket]
    BY <2>1, <2>2, <2>3
  <2> QED BY <2>4, MismatchIsUnseen
<1> HIDE DEF wrong
<1>4. SessionInv'
  <2>1. CASE MarkNetworkComplete
    BY <1>1, <1>2, <2>1, NetworkPartDone
  <2>2. CASE UNCHANGED <<execution, pc>>
    BY <1>2, <2>2, NothingDecided
  <2> QED BY <1>1, <1>3, <2>1, <2>2
<1>5. LossyInv'
  <2>1. kind' # "ReceivePRMessages"
    BY <1>1, <1>2, SameDefinition
  <2> QED BY <2>1 DEF LossyInv
<1> QED BY <1>2, <1>4, <1>5

\* run_pr_receive_worker reads one of the two messages.
LEMMA PrIsRead ==
    ASSUME CatalogInv, ReceivePartiallyReliable, UNCHANGED <<environment, client_vars>>
    PROVE  SessionInv' /\ (PlacesInv /\ CoverInv /\ OrderInv /\ LossyInv)'
<1> DEFINE got == Materialize(Incoming)
           known == got \in {Skipped, Final}
<1>1. /\ kind = "ReceivePRMessages" /\ ReceiveData
      /\ saw_skipped' = (saw_skipped \/ got = Skipped)
      /\ \/ known /\ UNCHANGED <<execution, pc>>
         \/ ~known /\ MarkFailed("payload") /\ pc' = "done"
  BY DEF ReceivePartiallyReliable
<1>2. /\ Able /\ state = "Active" /\ pc = "recv" /\ UNCHANGED <<definition, now>>
      /\ PlacesInv' /\ CoverInv' /\ OrderInv'
      /\ InWire(1)' = InWire(1) /\ (InQueue(1)' => InQueue(1))
      /\ \A k, i : OnWire(k, i)' = OnWire(k, i)
  BY <1>1, ReadOff
<1>3. PICK i \in 1..sent : /\ i \in 1..Len(ToSend) /\ MessageFacts(i)
                           /\ socket = Destination(i) /\ Incoming = ToSend[i]
  BY <1>1, ReadOff
<1>4. /\ Len(ToSend) = 2 /\ Skipped # Final
      /\ Materialize(ToSend[1]) = Skipped /\ Materialize(ToSend[2]) = Final
  <2>1. KindFacts
    BY CatalogFacts
  <2> QED BY <1>1, <2>1 DEF KindFacts
<1>5. i = 1 \/ i = 2
  BY <1>3, <1>4
<1>6. known
  BY <1>3, <1>4, <1>5
<1>7. got = Skipped => InQueue(1)
  <2> SUFFICES ASSUME got = Skipped PROVE InQueue(1)
    OBVIOUS
  <2>1. Incoming = ToSend[1] /\ socket = Destination(1)
    BY <1>3, <1>4, <1>5
  <2>2. queue[socket] # <<>> /\ socket \in Targets
    <3>1. Receive /\ LoopInv
      BY <1>1 DEF ReceiveData, CatalogInv
    <3> QED BY <3>1, ReceiveFacts DEF Receive
  <2>3. queue[socket] \in Seq(Traffic \cup {Notification})
    BY <2>2 DEF CatalogInv, LoopInv, TypeOK
  <2>4. 1 \in DOMAIN queue[socket] /\ Incoming = queue[socket][1]
    BY <2>2, <2>3 DEF Incoming
  <2> QED BY <2>1, <2>4 DEF InQueue
<1> HIDE DEF known
<1>8. SessionInv'
  BY <1>1, <1>2, <1>6, NothingDecided
<1>9. LossyInv'
  <2>1. /\ dropped => sent > 0 /\ ~InWire(1) /\ ~InQueue(1) /\ ~saw_skipped
        /\ InWire(1) => ~InQueue(1) /\ ~saw_skipped
        /\ \A j, k \in DOMAIN wire : OnWire(j, 1) /\ OnWire(k, 1) => j = k
    BY <1>1 DEF CatalogInv, LossyInv
  <2>2. UNCHANGED <<client, sent, wire, dropped>>
    BY <1>2, ClientRests
  <2>3. UNCHANGED <<state, pc>>
    BY <1>1, <1>6 DEF execution
  <2>4. saw_skipped' => saw_skipped \/ InQueue(1)
    BY <1>1, <1>7
  <2>5. dropped => ~InWire(1)' /\ ~InQueue(1)' /\ ~saw_skipped'
    BY <1>2, <2>1, <2>4
  <2>6. InWire(1)' => ~InQueue(1)' /\ ~saw_skipped'
    BY <1>2, <2>1, <2>4
  <2> QED BY <1>2, <2>1, <2>2, <2>3, <2>5, <2>6 DEF LossyInv
<1> QED BY <1>2, <1>8, <1>9

\* run_send_after_trigger_worker reads the trigger.
LEMMA TriggerIsRead ==
    ASSUME CatalogInv, ReceiveTrigger, UNCHANGED <<environment, client_vars>>
    PROVE  SessionInv' /\ (PlacesInv /\ CoverInv /\ OrderInv /\ LossyInv)'
<1>1. /\ kind = "SendAfterTrigger" /\ ReceiveData
      /\ \/ CString(Incoming) # Materialize(Trigger) /\ MarkFailed("payload") /\ pc' = "done"
         \/ CString(Incoming) = Materialize(Trigger) /\ pc' = "send" /\ UNCHANGED execution
  BY DEF ReceiveTrigger
<1>2. /\ Able /\ state = "Active" /\ pc = "recv" /\ UNCHANGED <<definition, now>>
      /\ PlacesInv' /\ CoverInv' /\ OrderInv'
  BY <1>1, ReadOff
<1>3. Incoming = Trigger
  <2>1. PICK i \in 1..sent : i \in 1..Len(ToSend) /\ Incoming = ToSend[i]
    BY <1>1, ReadOff
  <2>2. ToSend = <<Trigger>>
    BY <1>1, CatalogFacts DEF KindFacts
  <2> QED BY <2>1, <2>2
<1>4. pc' = "send" /\ UNCHANGED execution
  <2>1. definition \in Definitions
    BY DEF CatalogInv, LoopInv, TypeOK
  <2>2. Materialize(Trigger) \notin DOMAIN CutAtNul
    BY <2>1, CatalogAssumption DEF Trigger
  <2>3. CString(Trigger) = Materialize(Trigger)
    BY <2>2 DEF CString
  <2> QED BY <1>1, <1>3, <2>3
<1>5. SessionInv'
  BY <1>2, <1>4, NothingDecided
<1>6. LossyInv'
  <2>1. kind' # "ReceivePRMessages"
    BY <1>1, <1>2, SameDefinition
  <2> QED BY <2>1 DEF LossyInv
<1> QED BY <1>2, <1>5, <1>6

\* No client of a contract sends a notification.
LEMMA ReceiveKeepsCatalog ==
    ASSUME CatalogInv, ReceiveStep, UNCHANGED <<environment, client_vars>>
    PROVE  CatalogInv'
<1>1. LoopInv'
  <2>1. [Next]_vars
    BY DEF Next
  <2> QED BY <2>1, StepLoop DEF CatalogInv
<1>2. ~SkipNotification
  <2> SUFFICES ASSUME SkipNotification PROVE FALSE
    OBVIOUS
  <2>1. Receive /\ Incoming = Notification /\ queue[socket] # <<>>
    BY DEF SkipNotification, Receive
  <2>2. socket \in Targets
    BY <2>1, ReceiveFacts DEF CatalogInv
  <2>3. queue[socket] \in Seq(Traffic \cup {Notification})
    BY <2>2 DEF CatalogInv, LoopInv, TypeOK
  <2>4. 1 \in DOMAIN queue[socket] /\ Incoming = queue[socket][1]
    BY <2>1, <2>3 DEF Incoming
  <2>5. PICK i \in 1..sent : Incoming = ToSend[i]
    BY <2>2, <2>4 DEF CatalogInv, PlacesInv
  <2>6. sent \in 0..Len(ToSend) /\ Len(ToSend) \in Nat
    BY CatalogFacts DEF CatalogInv, ClientInv, KindFacts
  <2>7. i \in 1..Len(ToSend)
    BY <2>6
  <2>8. MessageFacts(i)
    BY <2>7, CatalogFacts, ContractMessages
  <2> QED BY <2>1, <2>5, <2>8 DEF MessageFacts
<1>3. SessionInv' /\ (PlacesInv /\ CoverInv /\ OrderInv /\ LossyInv)'
  <2>1. CASE \E has_addrs \in BOOLEAN : ReceiveExpected(has_addrs)
    BY <2>1, ExpectedIsRead
  <2>2. CASE ReceiveOnTarget
    BY <2>2, TargetIsRead
  <2>3. CASE ReceivePartiallyReliable
    BY <2>3, PrIsRead
  <2>4. CASE ReceiveTrigger
    BY <2>4, TriggerIsRead
  <2> QED BY <1>2, <2>1, <2>2, <2>3, <2>4 DEF ReceiveStep
<1> QED BY <1>1, <1>3 DEF CatalogInv, SessionInv

-----------------------------------------------------------------------------
(* The worker sends, and ends *)

\* A step of the worker that moves no message
LEMMA WorkerOnly ==
    ASSUME CatalogInv, [Next]_vars, SessionInv',
           UNCHANGED <<definition, environment, client_vars, queue, read, saw_skipped>>,
           Waits' => Waits,
           kind = "ReceivePRMessages" /\ (pc' # "recv" \/ state' # "Active") =>
               wire = <<>> /\ client = "done"
    PROVE  CatalogInv'
<1>1. UNCHANGED <<client, sent, wire, dropped>>
  BY ClientRests
<1>2. (PlacesInv /\ CoverInv /\ OrderInv /\ LossyInv)'
  BY <1>1, PlacesStay
<1>3. LoopInv'
  BY StepLoop DEF CatalogInv
<1> QED BY <1>2, <1>3 DEF CatalogInv, SessionInv

\* The association has a stream for every message of the server.
LEMMA ReplyKeeps ==
    ASSUME CatalogInv, SendReply, Unsent => (replied' > replied <=> HasStream),
           UNCHANGED <<environment, client_vars>>
    PROVE  CatalogInv'
<1>1. /\ pc = "send" /\ UNCHANGED <<definition, now, queue, saw_skipped, read>>
  BY DEF SendReply, network
<1>2. /\ kind = "SendAfterTrigger" /\ Len(read[1]) = 1
      /\ replied \in 0..Replies
  BY <1>1 DEF CatalogInv, LoopInv, KindOfLoop, TriggerLoop, TypeOK
<1>3. definition \in Definitions /\ Replies \in Nat
  BY CatalogFacts, DefinitionFacts
<1>4. Unsent => HasStream
  <2> SUFFICES ASSUME replied < Replies PROVE HasStream
    BY DEF Unsent
  <2>1. definition.server_send_messages \in Seq(MessageSpec)
    BY <1>3, DefinitionTypes
  <2>2. replied + 1 \in DOMAIN definition.server_send_messages
    BY <1>2, <2>1 DEF Replies
  <2> QED BY <1>3, <2>2, CatalogAssumption DEF HasStream
<1>5. Able
  <2>1. 1 \in Targets
    BY <1>2, <1>3, TargetFacts
  <2>2. read[1] \in Seq(Traffic)
    BY <2>1 DEF CatalogInv, LoopInv, TypeOK
  <2>3. 1 \in DOMAIN read[1]
    BY <1>2, <2>2
  <2>4. \E i : i \in 1..sent
    BY <2>1, <2>3 DEF CatalogInv, PlacesInv
  <2>5. sent # 0
    BY <2>4
  <2> QED BY <2>5 DEF CatalogInv, ClientInv
<1>6. SessionInv'
  <2>1. CASE Unsent /\ replied' = replied + 1 /\ UNCHANGED <<execution, pc>>
    BY <1>1, <2>1, NothingDecided
  <2>2. CASE Unsent /\ UNCHANGED replied
    <3>1. replied' > replied
      BY <1>4, <2>2
    <3>2. ~(replied > replied)
      BY <1>2
    <3> QED BY <2>2, <3>1, <3>2
  <2>3. CASE MarkNetworkComplete
    <3>1. CASE state = "Active"
      BY <1>1, <1>2, <1>5, <2>3, <3>1, NetworkPartDone
    <3>2. CASE state # "Active"
      <4>1. UNCHANGED execution
        BY <2>3, <3>2 DEF MarkNetworkComplete
      <4> QED BY <1>1, <3>2, <4>1, NothingDecided
    <3> QED BY <3>1, <3>2
  <2> QED BY <2>1, <2>2, <2>3 DEF SendReply
<1>7. ~Waits'
  BY <1>1 DEF SendReply, Waits
<1>8. [Next]_vars
  BY DEF Next
<1> QED BY <1>1, <1>2, <1>6, <1>7, <1>8, WorkerOnly

\* What is left of a worker whose feature has ended
LEMMA LateEnd ==
    ASSUME CatalogInv, [Next]_vars, pc = "recv", state # "Active", UNCHANGED execution,
           UNCHANGED <<definition, now, queue, read, saw_skipped, environment, client_vars>>
    PROVE  CatalogInv'
<1>1. SessionInv'
  BY NothingDecided
<1>2. ~Waits'
  BY DEF Waits, execution
<1>3. kind = "ReceivePRMessages" => wire = <<>> /\ client = "done"
  BY DEF CatalogInv, LossyInv
<1> QED BY <1>1, <1>2, <1>3, WorkerOnly

\* sctp_recvv fails on a closed listener: the feature is settled or observed.
LEMMA FailureIsLate ==
    ASSUME CatalogInv, ReceiveFails, ~listening, UNCHANGED <<environment, client_vars>>
    PROVE  CatalogInv'
<1>1. /\ pc = "recv" /\ MarkFailed("error")
      /\ UNCHANGED <<definition, now, queue, read, saw_skipped>>
  BY DEF ReceiveFails, network
<1>2. state # "Active"
  BY <1>1 DEF CatalogInv, LoopInv, ListenersFollow
<1>3. UNCHANGED execution
  BY <1>1, <1>2 DEF MarkFailed
<1>4. [Next]_vars
  BY DEF Next
<1> QED BY <1>1, <1>2, <1>3, <1>4, LateEnd

\* Silence: for a client that could send nothing, and after PR-SCTP's messages,
\* of which the final one has been read, and the other unless it was dropped.
LEMMA SilenceKeeps ==
    ASSUME CatalogInv, ReceiveTimesOut, UNCHANGED <<environment, client_vars>>
    PROVE  CatalogInv'
<1>1. /\ pc = "recv" /\ now >= waiting_since + Timeout /\ pc' = "done"
      /\ listening => queue[socket] = <<>>
      /\ IF kind = "ReceivePRMessages" THEN PrEnds ELSE MarkFailed("timeout")
      /\ UNCHANGED <<definition, now, queue, read, saw_skipped>>
  BY DEF ReceiveTimesOut, network
<1>2. [Next]_vars
  BY DEF Next
<1>3. CASE state # "Active"
  <2>1. UNCHANGED execution
    BY <1>1, <1>3 DEF PrEnds, MarkFailed, MarkNetworkComplete
  <2> QED BY <1>1, <1>2, <1>3, <2>1, LateEnd
<1>4. CASE state = "Active"
  <2>1. now > 0
    <3>1. TypeOK
      BY DEF CatalogInv, LoopInv
    <3> QED BY <1>1, <3>1, Numbers
  <2>2. /\ client = "done" /\ wire = <<>>
        /\ IF Able THEN kind = "ReceivePRMessages" /\ sent = Len(ToSend) ELSE mode = Server
    BY <1>4, <2>1 DEF CatalogInv, TimeInv
  <2>3. queue[socket] = <<>>
    BY <1>1, <1>4 DEF CatalogInv, LoopInv, ListenersFollow
  <2>4. kind = "ReceivePRMessages" =>
           /\ saw_skipped <=> \E j \in DOMAIN read[1] : Materialize(read[1][j]) = Skipped
           /\ saw_final <=> \E j \in DOMAIN read[1] : Materialize(read[1][j]) = Final
    BY <1>1 DEF CatalogInv, LoopInv, PrLoop
  <2>5. kind = "ReceivePRMessages" => Targets = {1}
    BY CatalogFacts, TargetFacts
  <2>6. ~Waits'
    BY <1>1 DEF Waits
  <2>7. CASE ~Able
    <3>1. MarkFailed("timeout")
      <4>1. CASE kind # "ReceivePRMessages"
        BY <1>1, <4>1
      <4>2. CASE kind = "ReceivePRMessages"
        <5>1. sent = 0 /\ 1..sent = {}
          <6>1. sent = 0
            BY <2>7 DEF CatalogInv, ClientInv
          <6> QED BY <6>1
        <5>2. DOMAIN read[1] = {}
          BY <2>5, <4>2, <5>1 DEF CatalogInv, PlacesInv
        <5>3. ~saw_final
          BY <2>4, <4>2, <5>2
        <5> QED BY <1>1, <4>2, <5>3 DEF PrEnds
      <4> QED BY <4>1, <4>2
    <3>2. "Failed" \in Deserved
      BY <2>2, <2>7 DEF Deserved
    <3>3. SessionInv'
      BY <1>1, <1>4, <2>2, <3>1, <3>2, RightlyFailed
    <3> QED BY <1>1, <1>2, <2>2, <2>6, <3>3, WorkerOnly
  <2>8. CASE Able
    <3>1. kind = "ReceivePRMessages" /\ PrEnds /\ sent = 2
      <4>1. KindFacts
        BY CatalogFacts
      <4> QED BY <1>1, <2>2, <2>8, <4>1 DEF KindFacts
    <3>2. KindFacts /\ Len(ToSend) = 2 /\ socket = 1
      <4>1. KindFacts /\ socket \in Targets \cup {1}
        BY CatalogFacts DEF CatalogInv, LoopInv, TypeOK
      <4> QED BY <2>5, <3>1, <4>1 DEF KindFacts
    <3>3. Materialize(ToSend[1]) = Skipped /\ Materialize(ToSend[2]) = Final
      BY <3>1, <3>2 DEF KindFacts
    <3>4. ASSUME NEW i \in 1..2, i = 1 => ~dropped
          PROVE  \E j \in DOMAIN read[1] : read[1][j] = ToSend[i]
      <4>1. MessageFacts(i)
        BY <3>2, CatalogFacts, ContractMessages
      <4>2. Destination(i) = 1
        BY <3>1, <4>1 DEF MessageFacts
      <4>3. InWire(i) \/ InQueue(i) \/ IsRead(i)
        BY <1>1, <1>4, <3>1, <3>4 DEF CatalogInv, CoverInv, Waits
      <4>4. ~InWire(i)
        BY <2>2 DEF InWire
      <4>5. ~InQueue(i)
        BY <2>3, <3>2, <4>2 DEF InQueue
      <4> QED BY <4>2, <4>3, <4>4, <4>5 DEF IsRead
    <3>5. saw_final
      <4>1. 2 \in 1..2 /\ 2 # 1
        OBVIOUS
      <4>2. PICK j \in DOMAIN read[1] : read[1][j] = ToSend[2]
        BY <3>4, <4>1
      <4> QED BY <2>4, <3>1, <3>3, <4>2
    <3>6. CASE dropped
      <4>1. ~saw_skipped
        BY <3>1, <3>6 DEF CatalogInv, LossyInv
      <4>2. MarkNetworkComplete
        BY <3>1, <3>5, <4>1 DEF PrEnds
      <4>3. SessionInv'
        BY <1>1, <1>4, <2>8, <3>1, <3>6, <4>2, NetworkPartDone
      <4> QED BY <1>1, <1>2, <2>2, <2>6, <4>3, WorkerOnly
    <3>7. CASE ~dropped
      <4>1. saw_skipped
        <5>1. 1 \in 1..2
          OBVIOUS
        <5>2. PICK j \in DOMAIN read[1] : read[1][j] = ToSend[1]
          BY <3>4, <3>7, <5>1
        <5> QED BY <2>4, <3>1, <3>3, <5>2
      <4>2. MarkFailed("delivered")
        BY <3>1, <3>5, <4>1 DEF PrEnds
      <4>3. "Failed" \in Deserved
        BY <2>8, <3>1, <3>7 DEF Deserved
      <4>4. SessionInv'
        BY <1>1, <1>4, <2>2, <4>2, <4>3, RightlyFailed
      <4> QED BY <1>1, <1>2, <2>2, <2>6, <4>4, WorkerOnly
    <3> QED BY <3>6, <3>7
  <2> QED BY <2>7, <2>8
<1> QED BY <1>3, <1>4

-----------------------------------------------------------------------------
(* The deadline and the clock *)

\* A poll times the feature out: its client could not go on, or it is PR-SCTP.
LEMMA DeadlineKeeps ==
    ASSUME CatalogInv, Poll, UNCHANGED <<environment, client_vars>>
    PROVE  CatalogInv'
<1>1. /\ state = "Active" /\ now >= Timeout /\ state' = "TimedOut" /\ listening' = FALSE
      /\ UNCHANGED <<definition, now, network_complete, agent_complete, reason, queue, read>>
      /\ UNCHANGED <<pc, saw_skipped>>
  BY DEF Poll, Overdue, network, worker
<1>2. [Next]_vars
  BY DEF Next
<1>3. now > 0
  <2>1. TypeOK
    BY DEF CatalogInv, LoopInv
  <2> QED BY <1>1, <2>1, Numbers
<1>4. /\ client = "done" /\ wire = <<>>
      /\ IF Able THEN kind = "ReceivePRMessages" /\ sent = Len(ToSend) ELSE mode = Server
  BY <1>1, <1>3 DEF CatalogInv, TimeInv
<1>5. /\ UNCHANGED <<client, sent, wire, dropped, work_failed>>
      /\ UNCHANGED <<ToSend, Able, kind, mode>> /\ (ContractInv' <=> ContractInv)
  BY <1>1, ClientRests
<1>6. ClientInv' /\ ReportInv'
  BY <1>1, <1>4, <1>5 DEF CatalogInv, ClientInv, ReportInv
<1>7. WorkerInv' /\ TimeInv'
  BY <1>1 DEF WorkerInv, TimeInv
<1>8. DeservedInv'
  <2>1. "TimedOut" \in Deserved
    BY <1>4 DEF Deserved
  <2>2. Deserved' = Deserved
    BY <1>5 DEF Deserved
  <2> QED BY <1>1, <2>1, <2>2 DEF CatalogInv, DeservedInv
<1>9. SessionInv'
  BY <1>5, <1>6, <1>7, <1>8 DEF CatalogInv, SessionInv
<1>10. ~Waits'
  BY <1>1 DEF Waits
<1> QED BY <1>1, <1>2, <1>4, <1>9, <1>10, WorkerOnly

\* While the feature is active, everybody waits only for a client that could do
\* nothing or for the silence that ends PR-SCTP: no worker waits for a message
\* and no client for a reply that does not come.
LEMMA WaitingInVain ==
    ASSUME CatalogInv, Waiting, state = "Active"
    PROVE  /\ client = "done" /\ wire = <<>>
           /\ IF Able THEN kind = "ReceivePRMessages" /\ sent = Len(ToSend) ELSE mode = Server
<1>1. /\ wire = <<>>
      /\ \/ client = "done"
         \/ client = "receive" /\ received = replied
                               /\ received < Len(contract.server_send_messages)
      /\ pc = "done" \/ (pc = "recv" /\ queue[socket] = <<>>)
  BY DEF Waiting
<1>2. definition \in Definitions /\ KindFacts
  BY CatalogFacts
<1>3. /\ \A i : ~InWire(i)
      /\ \A i : Destination(i) = socket /\ queue[socket] = <<>> => ~InQueue(i)
  BY <1>1 DEF InWire, InQueue
<1>4. ASSUME Able, sent = Len(ToSend), kind # "ReceivePRMessages", pc = "recv"
      PROVE  FALSE
  <2>1. Waits /\ queue[socket] = <<>>
    BY <1>1, <1>4 DEF Waits
  <2>2. \A i \in 1..sent : MessageFacts(i)
    BY <1>2, <1>4, CatalogFacts, ContractMessages
  <2>3. \A i \in 1..sent : Destination(i) = socket => IsRead(i)
    BY <1>3, <1>4, <2>1 DEF CatalogInv, CoverInv
  <2>4. CASE kind = "ReceiveMessages"
    <3>1. Targets = {1} /\ socket \in Targets \cup {1} /\ ToSend = Expected
      BY <1>2, <2>4, TargetFacts DEF CatalogInv, LoopInv, TypeOK, KindFacts
    <3>2. Len(read[1]) + Len(queue[1]) + Len(wire) = sent
      BY <2>1, <2>4 DEF CatalogInv, OrderInv
    <3>3. Len(queue[1]) = 0 /\ Len(wire) = 0
      BY <1>1, <2>1, <3>1
    <3>4. Len(read[1]) < Len(Expected)
      BY <1>4, <2>4 DEF CatalogInv, LoopInv, ReceiveLoop
    <3>5. read[1] \in Seq(Traffic)
      BY <3>1 DEF CatalogInv, LoopInv, TypeOK
    <3>6. PICK r : r = Len(read[1])
      OBVIOUS
    <3>7. r \in Nat
      BY <3>5, <3>6
    <3>8. r + 0 + 0 = sent /\ r < sent
      BY <1>4, <3>1, <3>2, <3>3, <3>4, <3>6, Zenon
    <3> QED BY <3>7, <3>8
  <2>5. CASE kind = "ReceiveMessagesMultiTarget"
    <3>1. Targets = 1..Len(Expected) /\ ToSend = Expected /\ Len(Expected) > 0
          /\ Len(Expected) \in Nat
      BY <1>2, <2>5, TargetFacts, DefinitionFacts DEF KindFacts
    <3>2. socket \in Targets
      <4>1. socket \in Targets \cup {1}
        BY DEF CatalogInv, LoopInv, TypeOK
      <4>2. 1 \in Targets
        BY <3>1
      <4> QED BY <4>1, <4>2
    <3>3. socket \in 1..sent
      BY <1>4, <3>1, <3>2
    <3>4. Destination(socket) = socket
      BY <2>2, <2>5, <3>3 DEF MessageFacts
    <3>5. read[socket] = <<>>
      <4>1. ~(socket < socket)
        BY <3>1, <3>2
      <4> QED BY <1>4, <2>5, <3>2, <4>1 DEF CatalogInv, LoopInv, TargetLoop
    <3> QED BY <2>3, <3>3, <3>4, <3>5 DEF IsRead
  <2>6. CASE kind = "SendAfterTrigger"
    <3>1. Targets = {1} /\ socket \in Targets \cup {1} /\ ToSend = <<Trigger>>
      BY <1>2, <2>6, TargetFacts DEF CatalogInv, LoopInv, TypeOK, KindFacts
    <3>2. socket = 1 /\ 1 \in 1..sent
      BY <1>4, <3>1
    <3>3. Destination(1) = 1
      BY <2>2, <2>6, <3>2 DEF MessageFacts
    <3>4. read[1] = <<>>
      BY <1>4, <2>6 DEF CatalogInv, LoopInv, TriggerLoop
    <3> QED BY <2>3, <3>2, <3>3, <3>4 DEF IsRead
  <2>7. kind # "AgentOnly"
    BY <1>4 DEF CatalogInv, LoopInv, KindOfLoop
  <2> QED BY <1>2, <1>4, <2>4, <2>5, <2>6, <2>7, DefinitionFacts
<1>5. CASE client = "receive"
  <2>1. received = replied /\ received < Replies
    BY <1>1, <1>2, <1>5 DEF KindFacts
  <2>2. Replies \in Nat /\ replied \in 0..Replies
    BY <1>2, DefinitionFacts DEF CatalogInv, LoopInv, TypeOK
  <2>3. kind = "SendAfterTrigger"
    BY <1>2, <2>1, <2>2 DEF KindFacts
  <2>4. Able /\ sent = Len(ToSend)
    BY <1>5 DEF CatalogInv, ClientInv
  <2>5. pc = "done"
    BY <1>1, <1>4, <2>3, <2>4
  <2>6. network_complete
    BY <2>3, <2>5 DEF CatalogInv, WorkerInv
  <2>7. replied = Replies
    BY <2>3, <2>6 DEF CatalogInv, LoopInv, ObservationIsReal, Observed
  <2> QED BY <2>1, <2>2, <2>7
<1>6. CASE client = "done"
  <2>1. IF Able THEN sent = Len(ToSend) /\ (mode = Server \/ agent_complete)
        ELSE mode = Server
    BY <1>6 DEF CatalogInv, ReportInv
  <2>2. ASSUME Able, kind # "ReceivePRMessages" PROVE FALSE
    <3>1. pc = "done"
      BY <1>1, <1>4, <2>1, <2>2
    <3>2. network_complete \/ kind = "AgentOnly"
      BY <3>1 DEF CatalogInv, WorkerInv
    <3>3. ~network_complete
      BY <2>1, <2>2 DEF CatalogInv, WorkerInv
    <3>4. mode = "AgentReported" /\ mode # Server
      BY <1>2, <3>2, <3>3 DEF KindFacts, Server
    <3> QED BY <2>1, <2>2, <3>4 DEF CatalogInv, ReportInv
  <2> QED BY <1>1, <1>6, <2>1, <2>2
<1> QED BY <1>1, <1>5, <1>6

\* The clock moves when all wait.
LEMMA ClockKeeps ==
    ASSUME CatalogInv, Tick, Waiting, UNCHANGED <<environment, client_vars>>
    PROVE  CatalogInv'
<1>1. /\ UNCHANGED <<definition, execution, queue, read, pc, saw_skipped>>
      /\ UNCHANGED <<state, network_complete, agent_complete, reason, listening>>
  BY DEF Tick, execution, network, worker
<1>2. [Next]_vars
  BY DEF Next
<1>3. /\ UNCHANGED <<client, sent, wire, dropped, work_failed>>
      /\ UNCHANGED <<ToSend, Able, kind, mode>> /\ (ContractInv' <=> ContractInv)
  BY <1>1, ClientRests
<1>4. ClientInv' /\ ReportInv' /\ WorkerInv'
  BY <1>1, <1>3 DEF CatalogInv, ClientInv, ReportInv, WorkerInv
<1>5. TimeInv'
  BY <1>1, <1>3, WaitingInVain DEF TimeInv
<1>6. DeservedInv'
  BY <1>1, <1>3 DEF CatalogInv, DeservedInv, Deserved
<1>7. SessionInv'
  BY <1>3, <1>4, <1>5, <1>6 DEF CatalogInv, SessionInv
<1>8. Waits' => Waits
  BY <1>1 DEF Waits
<1>9. kind = "ReceivePRMessages" /\ (pc # "recv" \/ state # "Active") =>
          wire = <<>> /\ client = "done"
  BY DEF CatalogInv, LossyInv
<1> QED BY <1>1, <1>2, <1>7, <1>8, <1>9, WorkerOnly

-----------------------------------------------------------------------------
(* The theorems *)

\* It holds at the start.
LEMMA InitCatalog == ClientInit => CatalogInv
<1> SUFFICES ASSUME ClientInit PROVE CatalogInv
  OBVIOUS
<1>1. LoopInv
  BY InitLoop DEF ClientInit
<1>2. /\ contract = BuildContract(definition, ConnectAddresses(definition))
      /\ apis \in BOOLEAN /\ prepared \in BOOLEAN /\ streams \in Nat
      /\ client = "setup" /\ sent = 0 /\ wire = <<>>
      /\ dropped = FALSE /\ work_failed = FALSE
  BY ClientStreamsAssumption DEF ClientInit
<1>3. /\ definition \in Definitions /\ now = 0 /\ state = "Active" /\ reason = ""
      /\ network_complete = FALSE /\ agent_complete = FALSE
      /\ queue = [i \in Targets |-> <<>>] /\ read = [i \in Targets |-> <<>>]
      /\ pc = (IF Targets = {} THEN "done" ELSE "recv") /\ saw_skipped = FALSE
  BY DEF ClientInit, Init
<1>4. ContractInv
  BY <1>2 DEF ContractInv
<1>5. Len(ToSend) \in Nat /\ kind \in {"AgentOnly", "ReceiveMessages", "ReceivePRMessages",
                                       "ReceiveMessagesMultiTarget", "SendAfterTrigger"}
  BY <1>3, <1>4, ContractKind, DefinitionFacts DEF KindFacts
<1>6. ClientInv
  <2>1. sent \in 0..Len(ToSend)
    BY <1>2, <1>5
  <2> QED BY <1>2, <2>1 DEF ClientInv
<1>7. ReportInv
  BY <1>2, <1>3 DEF ReportInv
<1>8. WorkerInv
  <2>1. ASSUME kind = "ReceiveMessagesMultiTarget" PROVE 1 \in Targets
    <3>1. Expected \in Seq(MessageSpec) /\ Len(Expected) > 0 /\ Targets = 1..Len(Expected)
      BY <1>3, <2>1, DefinitionFacts, TargetFacts
    <3>2. Len(Expected) \in Nat
      BY <3>1
    <3> QED BY <3>1, <3>2
  <2>2. kind # "AgentOnly" => 1 \in Targets
    BY <1>3, <1>5, <2>1, TargetFacts
  <2>3. pc = "done" => kind = "AgentOnly"
    BY <1>3, <2>2
  <2>4. ~network_complete /\ state = "Active"
    BY <1>3
  <2> QED BY <2>3, <2>4 DEF WorkerInv
<1>9. TimeInv
  <2>1. now = 0
    BY <1>3
  <2>2. ~(now > 0)
    BY <2>1
  <2> QED BY <2>2 DEF TimeInv
<1>10. PlacesInv
  <2>1. DOMAIN wire = {} /\ wire \in Seq(Targets \X Traffic)
    BY <1>2
  <2>2. \A l \in Targets : DOMAIN queue[l] = {} /\ DOMAIN read[l] = {}
    <3>1. \A l \in Targets : queue[l] = <<>> /\ read[l] = <<>>
      BY <1>3
    <3>2. DOMAIN <<>> = {}
      OBVIOUS
    <3> QED BY <3>1, <3>2, Zenon
  <2> QED BY <2>1, <2>2 DEF PlacesInv
<1>11. CoverInv
  <2>1. 1..sent = {}
    BY <1>2
  <2> QED BY <2>1 DEF CoverInv
<1>12. OrderInv
  <2> SUFFICES ASSUME kind = "ReceiveMessages" PROVE OrderInv
    BY DEF OrderInv
  <2>1. 1 \in Targets
    BY <1>3, TargetFacts
  <2>2. read[1] = <<>> /\ queue[1] = <<>>
    BY <1>3, <2>1
  <2> QED BY <1>2, <2>2 DEF OrderInv
<1>13. LossyInv
  <2> SUFFICES ASSUME kind = "ReceivePRMessages" PROVE LossyInv
    BY DEF LossyInv
  <2>1. pc = "recv"
    BY <1>3, TargetFacts
  <2>2. DOMAIN wire = {}
    BY <1>2
  <2>3. ~InWire(1)
    BY <2>2 DEF InWire
  <2> QED BY <1>2, <1>3, <2>1, <2>2, <2>3 DEF LossyInv
<1>14. DeservedInv
  BY <1>3 DEF DeservedInv
<1> QED BY <1>1, <1>4, <1>6, <1>7, <1>8, <1>9, <1>10, <1>11, <1>12, <1>13, <1>14 DEF CatalogInv

\* Every step of client, network, worker, poll and clock keeps it.
LEMMA StepCatalog == CatalogInv /\ [ClientNext]_all_vars => CatalogInv'
<1> SUFFICES ASSUME CatalogInv, [ClientNext]_all_vars PROVE CatalogInv'
  OBVIOUS
<1>1. CASE ClientStep
  <2>1. UNCHANGED environment
    BY <1>1 DEF ClientStep
  <2>2. CASE SetUp
    BY <2>1, <2>2, SetUpKeeps
  <2>3. CASE Send
    BY <2>1, <2>3, SendKeepsCatalog
  <2>4. CASE AllSent
    BY <2>1, <2>4, AllSentKeeps
  <2>5. CASE LocalWork
    BY <2>1, <2>5, LocalWorkKeeps
  <2>6. CASE ReceiveReply
    BY <2>1, <2>6, ReplyArrives
  <2>7. CASE AllReceived
    BY <2>1, <2>7, AllReceivedKeeps
  <2>8. CASE ReportOrDecline
    BY <2>1, <2>8, AnswerKeeps
  <2> QED BY <1>1, <2>2, <2>3, <2>4, <2>5, <2>6, <2>7, <2>8 DEF ClientStep
<1>2. CASE Deliver
  BY <1>2, DeliverKeeps
<1>3. CASE Drop
  BY <1>3, DropKeeps
<1>4. CASE WorkerStep
  <2>1. UNCHANGED <<environment, client_vars>>
    BY <1>4 DEF WorkerStep
  <2>2. CASE ReceiveStep
    BY <2>1, <2>2, ReceiveKeepsCatalog
  <2>3. CASE SendReply /\ (Unsent => (replied' > replied <=> HasStream))
    BY <2>1, <2>3, ReplyKeeps
  <2>4. CASE ReceiveTimesOut
    BY <2>1, <2>4, SilenceKeeps
  <2>5. CASE ReceiveFails /\ ~listening
    BY <2>1, <2>5, FailureIsLate
  <2> QED BY <1>4, <2>2, <2>3, <2>4, <2>5 DEF WorkerStep
<1>5. CASE Poll /\ UNCHANGED <<environment, client_vars>>
  BY <1>5, DeadlineKeeps
<1>6. CASE Tick /\ Waiting /\ UNCHANGED <<environment, client_vars>>
  BY <1>6, ClockKeeps
<1>7. CASE UNCHANGED all_vars
  <2>1. UNCHANGED <<vars, environment, client_vars>>
    BY <1>7 DEF all_vars
  <2>2. UNCHANGED <<definition, now, queue, read, saw_skipped, execution, pc, state>>
    BY <2>1 DEF vars, execution, network, worker
  <2>3. [Next]_vars
    BY <2>1
  <2>4. SessionInv'
    BY <2>1, <2>2, NothingDecided
  <2>5. Waits' => Waits
    BY <2>2 DEF Waits
  <2>6. kind = "ReceivePRMessages" /\ (pc # "recv" \/ state # "Active") =>
            wire = <<>> /\ client = "done"
    BY DEF CatalogInv, LossyInv
  <2> QED BY <2>1, <2>2, <2>3, <2>4, <2>5, <2>6, WorkerOnly
<1> QED BY <1>1, <1>2, <1>3, <1>4, <1>5, <1>6, <1>7 DEF ClientNext

\* So it always holds.
LEMMA CatalogInvariant == ClientSpec => []CatalogInv
BY InitCatalog, StepCatalog, PTL DEF ClientSpec

(* Whoever does what a contract says passes, and nobody else does; a client*)
(* that lacks nothing can do what the contract says; none is failed for    *)
(* what it sent: build_contract, against run_*_worker, for any catalog.    *)
THEOREM ContractsAreEnough == ClientSpec => []VerdictIsDeserved
<1>1. CatalogInv => VerdictIsDeserved
  <2> SUFFICES ASSUME CatalogInv PROVE VerdictIsDeserved
    OBVIOUS
  <2>1. apis /\ prepared /\ streams >= ServerStreams => Able
    BY CatalogFacts, NothingLacks
  <2> QED BY <2>1 DEF CatalogInv, DeservedInv, VerdictIsDeserved
<1> QED BY <1>1, CatalogInvariant, PTL

-----------------------------------------------------------------------------
(* The obedient client and its network are traffic a worker may meet *)

(* What a client does is no step of worker, session or clock, or a report. *)
LEMMA ClientIsTraffic ==
    ASSUME ClientStep
    PROVE  [Next]_vars
BY DEF ClientStep, SetUp, Send, AllSent, LocalWork, ReceiveReply, AllReceived,
       ReportOrDecline, Next

(* What the network delivers is a message asked for, whole, to its listener. *)
LEMMA DeliveryIsTraffic ==
    ASSUME CatalogInv, Deliver
    PROVE  [Next]_vars
<1>1. PICK k \in DOMAIN wire :
          /\ wire' = Without(k)
          /\ \/ Arrive(wire[k][1], Fitting(wire[k][2]))
             \/ ~listening /\ UNCHANGED vars
          /\ UNCHANGED environment
  BY DEF Deliver
<1>2. CASE UNCHANGED vars
  BY <1>2
<1>3. CASE Arrive(wire[k][1], Fitting(wire[k][2]))
  <2>1. UNCHANGED definition
    BY <1>3 DEF Arrive
  <2>2. PICK i \in 1..sent : OnWire(k, i) /\ MessageFacts(i)
    BY <1>1, <2>1, TakenOff
  <2>3. PICK to, m : to = Destination(i) /\ m = ToSend[i]
    OBVIOUS
  <2>4. to \in Targets /\ m \in Traffic /\ wire[k] = <<to, m>> /\ Fitting(m) = m
    BY <2>2, <2>3 DEF OnWire, MessageFacts
  <2>5. wire[k][1] = to /\ wire[k][2] = m
    BY <2>4
  <2>6. Arrive(to, m)
    BY <1>3, <2>4, <2>5
  <2> QED BY <2>4, <2>6 DEF Next
<1> QED BY <1>1, <1>2, <1>3

(* A client that keeps to its contract, and the network between them, are  *)
(* a case of the traffic ScenarioWorkers allows: all that holds of         *)
(* run_*_worker there holds of it here, for every definition and client.   *)
THEOREM ClientsAreTraffic == ClientSpec => Spec
<1>1. ClientInit => Init
  BY DEF ClientInit
<1>2. CatalogInv /\ [ClientNext]_all_vars => [Next]_vars
  <2> SUFFICES ASSUME CatalogInv, [ClientNext]_all_vars PROVE [Next]_vars
    OBVIOUS
  <2>1. CASE ClientStep
    BY <2>1, ClientIsTraffic
  <2>2. CASE Deliver
    BY <2>2, DeliveryIsTraffic
  <2>3. CASE Drop
    BY <2>3 DEF Drop
  <2>4. CASE WorkerStep
    BY <2>4 DEF WorkerStep, Next
  <2>5. CASE Poll \/ Tick
    BY <2>5 DEF Next
  <2>6. CASE UNCHANGED all_vars
    BY <2>6 DEF all_vars
  <2> QED BY <2>1, <2>2, <2>3, <2>4, <2>5, <2>6 DEF ClientNext
<1> QED BY <1>1, <1>2, CatalogInvariant, PTL DEF ClientSpec, Spec

(* So an observation is real, no right client is blamed for what it sent,  *)
(* and a timeout is a silence, with a client and a network as well.        *)
THEOREM WorkersAreRightToClients ==
    ClientSpec => [](ObservationIsReal /\ RightTrafficIsNotFailed /\ TimeoutMeansSilence)
BY ClientsAreTraffic, OnlyRealTrafficCompletes, RightClientsAreNotBlamed,
   TimeoutsAreSilences, PTL
=============================================================================
