------------------------------- MODULE HelperPair -------------------------------
(***************************************************************************)
(* The two helper processes of one scenario: a server that binds, says     *)
(* "ready" and reads, a client that connects and sends; and the SCTP stack *)
(* under test between them.  helper.c and the Go main.go have the same     *)
(* control but where Helper is named.  A helper writes its events to       *)
(* standard output in this order.                                          *)
(* The stack may do wrong: fault collects what has gone wrong so far.      *)
(***************************************************************************)
EXTENDS Naturals, Sequences, SequencesExt

CONSTANTS
    Helper,          \* the helper the profile runs: "c" or "go"
    Errors,          \* what the message of an error event may say
    Notification,    \* an SCTP notification in the server's receive queue
    Wrong            \* a payload, or stream and PPID, that nobody sent

ASSUME HelperAssumption == Helper \in {"c", "go"}

VARIABLES
    server,          \* the server process: "none", "setup", "reading", "exited"
    client,          \* the client process: "none", "connecting", "sending", "exited"
    out,             \* the events each has written to its standard output
    flight,          \* what the server's socket has yet to hand out
    fault            \* what has gone wrong in this scenario

pair == <<server, client, out, flight, fault>>

Event(e, arg) == [event |-> e, arg |-> arg]

Emit(role, events) == out' = [out EXCEPT ![role] = @ \o events]

\* what s has at the places in "at", in its order
Kept(s, at) ==
    LET kept[k \in 0..Len(s)] ==
            IF k = 0 THEN <<>>
            ELSE IF k \in at THEN Append(kept[k - 1], s[k]) ELSE kept[k - 1]
    IN  kept[Len(s)]

matching_events(events, e) == Kept(events, {k \in DOMAIN events : events[k].event = e})

recv_count == Len(matching_events(out["server"], "recv"))
sent_count == Len(matching_events(out["client"], "sent"))

-----------------------------------------------------------------------------
\* What surrounds the scenario: nothing is running.
PairInit ==
    /\ server = "none"
    /\ client = "none"
    /\ out = [role \in {"server", "client"} |-> <<>>]
    /\ flight = <<>>
    /\ fault = {}

ServerExit(events) ==
    /\ server' = "exited"
    /\ Emit("server", events)
    /\ UNCHANGED <<client, flight>>

\* socket, options, bind, bindx, listen; all the bound addresses are listed.
ServerReady ==
    /\ server = "setup"
    /\ server' = "reading"
    /\ \E addrs \in {"all", "some"} :
           /\ Emit("server", <<Event("ready", addrs)>>)
           /\ fault' = IF addrs = "all" THEN fault ELSE fault \cup {"local_addrs"}
    /\ UNCHANGED <<client, flight>>

\* Any of these calls, or sctp_recvv, fails: main says why and returns 1.
ServerError(s) ==
    /\ server \in {"setup", "reading"}
    /\ server = "reading" => recv_count < s.read_messages
    /\ \E why \in Errors : ServerExit(<<Event("error", why)>>)
    /\ fault' = fault \cup {IF server = "setup" THEN "setup" ELSE "recv"}

\* A signal, or a lost ssh connection: the process is gone without a word.
ServerCrash ==
    /\ server \in {"setup", "reading"}
    /\ ServerExit(<<>>)
    /\ fault' = fault \cup {"crash"}

\* A notification is written down and does not count.
ServerNotify(s) ==
    /\ server = "reading"
    /\ recv_count < s.read_messages
    /\ flight # <<>> /\ Head(flight) = Notification
    /\ flight' = Tail(flight)
    /\ Emit("server", <<Event("notify", "association")>>)
    /\ UNCHANGED <<server, client, fault>>

\* Mutant: buf[n] is not set, what an earlier message left in the buffer shows.
ReportedUnterminated(m, change) ==
    IF change = "meta" THEN [m EXCEPT !.meta = Wrong]
    ELSE IF recv_count = 0 /\ change # "payload" THEN m
    ELSE [m EXCEPT !.payload = Wrong]

\* What the helper writes of message m.  The stack changes nothing; the payload;
\* its stream or PPID; or it hands over more bytes than were sent, from a NUL on.
\* These the C helper, which writes its buffer as a C string, does not see.  (A
\* payload whose line json.loads refuses is taken for one that is Wrong.)
Reported(m, change) ==
    CASE change = "none" -> m
      [] change = "payload" -> [m EXCEPT !.payload = Wrong]
      [] change = "meta" -> [m EXCEPT !.meta = Wrong]
      [] change = "tail" -> IF Helper = "c" THEN m ELSE [m EXCEPT !.payload = Wrong]

\* The peer's addresses are asked for after the first message; in Go, after each
\* message until they are had.
PeerAddrsDue(s) ==
    /\ s.emit_peer_addrs
    /\ IF Helper = "c" THEN recv_count = 0
       ELSE matching_events(out["server"], "peer_addrs") = <<>>

\* How many addresses they are is up to the client.
RecvEvents(s, m, addrs) ==
    <<Event("recv", m)>> \o
    IF PeerAddrsDue(s) /\ addrs # "none" THEN <<Event("peer_addrs", addrs)>> ELSE <<>>

\* The stack hands over message k of those waiting, with or without a change.
ServerRecv(s) ==
    /\ server = "reading"
    /\ recv_count < s.read_messages
    /\ \E k \in 1..Len(flight), change \in {"none", "payload", "meta", "tail"},
          addrs \in {"all", "some", "none"} :
           /\ Notification \notin {flight[j] : j \in 1..k}
           /\ Emit("server", RecvEvents(s, Reported(flight[k], change), addrs))
           /\ flight' = RemoveAt(flight, k)
           /\ fault' = fault \cup (IF k = 1 THEN {} ELSE {"order"})
                             \cup (IF change = "none" THEN {} ELSE {change})
    /\ UNCHANGED <<server, client>>

\* The stack loses something it should have delivered.
StackLoses ==
    /\ flight # <<>>
    /\ flight' = Tail(flight)
    /\ fault' = fault \cup {IF Head(flight) = Notification THEN "notify" ELSE "lost"}
    /\ UNCHANGED <<server, client, out>>

ServerComplete(s) ==
    /\ server = "reading"
    /\ recv_count = s.read_messages
    /\ ServerExit(<<Event("complete", recv_count)>>)
    /\ UNCHANGED fault

-----------------------------------------------------------------------------
ClientExit(events) ==
    /\ client' = "exited"
    /\ Emit("client", events)
    /\ UNCHANGED server

\* connect or send fails: an expected failure, or an error.
ClientStageFails(s, stage) ==
    /\ UNCHANGED flight
    /\ \/ /\ stage \in s.expect_failure
          /\ ClientExit(<<Event("expected_failure", stage)>>)
          /\ UNCHANGED fault
       \/ /\ stage \notin s.expect_failure
          /\ \E why \in Errors : ClientExit(<<Event("error", why)>>)
          /\ fault' = fault \cup {stage}

Notified(s) == IF s.subscribe THEN <<Notification>> ELSE <<>>

\* The association is up; the peer's addresses are listed if asked for.
ClientConnected(s) ==
    /\ s.server => server = "reading"
    /\ client' = "sending"
    /\ flight' = IF s.server THEN flight \o Notified(s) ELSE flight
    /\ \E listed \in IF s.emit_peer_addrs THEN {"all", "some", "none"} ELSE {"none"} :
           /\ Emit("client", IF listed = "none" THEN <<>> ELSE <<Event("peer_addrs", listed)>>)
           /\ fault' = IF s.emit_peer_addrs /\ listed # "all" THEN fault \cup {"peer_addrs"}
                       ELSE fault
    /\ UNCHANGED server

\* "connect succeeded unexpectedly"
ClientUnrefused(s) ==
    /\ s.expect_failure = {"connect"}
    /\ ClientExit(<<Event("error", "other")>>)
    /\ fault' = fault \cup {"accepted"}
    /\ UNCHANGED flight

ClientConnect(s) ==
    /\ client = "connecting"
    /\ \/ ClientStageFails(s, "connect")
       \/ s.expect_failure # {"connect"} /\ ClientConnected(s)
       \/ ClientUnrefused(s)

\* A socket or an option cannot be had: in C before the connect, in Go after it.
ClientOptionFails ==
    /\ client \in {"connecting", "sending"}
    /\ sent_count = 0
    /\ \E why \in Errors : ClientExit(<<Event("error", why)>>)
    /\ fault' = fault \cup {"setup"}
    /\ UNCHANGED flight

\* As ServerCrash.
ClientCrash ==
    /\ client \in {"connecting", "sending"}
    /\ ClientExit(<<>>)
    /\ fault' = fault \cup {"crash"}
    /\ UNCHANGED flight

ClientSend(s) ==
    /\ client = "sending"
    /\ sent_count < Len(s.messages)
    /\ \/ ClientStageFails(s, "send")
       \/ LET m == s.messages[sent_count + 1] IN
          /\ Emit("client", <<Event("sent", m)>>)
          /\ flight' = IF s.server THEN Append(flight, m) ELSE flight
          /\ fault' = IF "send" \in s.expect_failure THEN fault \cup {"accepted"} ELSE fault
          /\ UNCHANGED <<server, client>>

\* All is sent: "send succeeded unexpectedly", or complete.  The notification of
\* the shutdown is left out: it comes after the messages the server counts.
ClientComplete(s) ==
    /\ client = "sending"
    /\ sent_count = Len(s.messages)
    /\ ClientExit(<<IF "send" \in s.expect_failure THEN Event("error", "other")
                    ELSE Event("complete", sent_count)>>)
    /\ UNCHANGED <<flight, fault>>

-----------------------------------------------------------------------------
PairStep(s) ==
    \/ ServerReady \/ ServerError(s) \/ ServerCrash
    \/ ServerNotify(s) \/ ServerRecv(s) \/ ServerComplete(s)
    \/ StackLoses
    \/ ClientConnect(s) \/ ClientOptionFails \/ ClientCrash
    \/ ClientSend(s) \/ ClientComplete(s)
=============================================================================
