# A TLA+ development of sctp-conformance

sctp-conformance is a test bed for SCTP implementations. Its core is the
*feature server* (`server/freebsd_ref/main.cpp`): a client under test opens a
session over HTTP, starts one feature after another from a catalog, carries out
on SCTP what the returned contract asks for, reports what only it can see, and
the server reaches a verdict for each feature. Around it stand two helper
programs (`adapters/`), a Python runner that plays helper against helper
(`runner/`), and a smoke script.

This directory models in TLA+ the server's sessions, workers, catalog, summary
stream, HTTP connections, locks and JSON parser, and the runner with its helpers;
checks them with TLC; and proves the central results about sessions, workers,
contracts, summaries, requests, JSON strings, locks and the runner with TLAPS.
`PROJECT.json` holds the machine-readable side: components, runs, mutants, the
map from definitions to source lines, findings, hazards and theorems.

    tlc -workers 2 -config serial.cfg MCFeatureServer
    tlapm FeatureServerProofs.tla

`tlapm` is run the same way on `SummaryStreamProofs`, `ScenarioWorkersProofs`,
`ContractClientProofs`, `HttpServerProofs`, `JsonParserProofs`,
`ConformanceSuiteProofs` and `InductionFacts`.

## 1. The system

All line numbers are of `server/freebsd_ref/main.cpp` unless a file is named.

### Components

| component | state | operations |
|---|---|---|
| feature session (159-190, 1110-1206, 3745-3978) | per feature: `state`, `network_complete`, `agent_complete`, `active_fds`, `contract_json`, `deadline_at`, under the execution's mutex; per session: `active_feature_id`, under the session's mutex | `StartFeature`, `CompleteFeature`, `UnsupportedFeature`, `maybe_timeout`, `mark_failed`, `mark_network_complete`, `close_active_fds`, `clear_active_feature` |
| SCTP workers (1208-1483) | a detached thread per start; its descriptor(s), progress flags, `SO_RCVTIMEO` | four loops: in-order receive, PR-SCTP receive, receive on several targets, send after a trigger |
| summary and stream (2622-2776) | the counts being collected, the last summary sent | `SummaryJson`, `HandleSummaryStream` |
| listening sockets (1013-1108) | the process's descriptors | `create_listening_socket` |
| catalog and contracts (400-640, 1485-2275, 3861-3894) | constant | `build_feature_catalog`, `build_contract` |
| session registry (2535-2620) | `sessions_`, under `sessions_mutex_` | `CreateSession`, `FindSession`, `SessionJson` |
| HTTP connection (2277-2533) | one request per connection | `Run`, `HandleClient`, `ReadHttpRequest`, `HandleRequest` |
| JSON parser (650-894) | position in the input | `parse_json_*` |
| dashboards (2795-3743), RFC table (1576-1703), options (3992-4027) | none | text, data, start-up |
| C helper and Go helper (`adapters/`) | one association | server and client role, events on stdout |
| runner (`runner/src/sctp_conformance/`) | helper processes, event queue, results | `run_suite`, `execute`, `wait_for_event`, `evaluate_scenario`, reports |
| smoke script (`scripts/`) | none | a client of the feature server |

### How they interact

`Run` accepts connections and gives each a detached thread. A request on a
feature first calls `maybe_timeout`, and the POST handlers call it again. A
start opens listeners, activates the execution, hands it the descriptors,
publishes `active_feature_id` and spawns a worker: five critical sections with
nothing held between them. A worker reads its descriptors outside all locks and
ends in `mark_failed` or `mark_network_complete`. Whoever ends a feature (a
worker, a POST, or a poll that notices the deadline) changes the state in one
critical section, takes the descriptors in a second, closes them, and clears
`active_feature_id` in a third. The summary stream repeats `SummaryJson` every
250 ms and sends what has changed.

The runner is apart from the server: `run_suite` spawns a helper in server mode,
waits for its `ready` line, runs a second helper as its client, waits for both,
and evaluates the events the two have printed.

### What is hard

- *Interleaving*: any number of request threads, pollers and workers between
  any two critical sections; a feature can be settled by three kinds of thread
  at once, and while it is still being started.
- *Timeouts*: two clocks of equal length, the deadline (noticed only by polls)
  and `SO_RCVTIMEO` of each `sctp_recvv`, race each other and late traffic.
- *Torn reads*: a summary is no snapshot.
- *Partial failure*: the second of several listeners fails to open.
- *Ordering*: notifications between data, several sockets read in turn; in the
  runner, a process that has ended and a reader thread that has not.
- *Failing peers*: the stack between the helpers is what is being tested; the
  runner must survive and report whatever it does.

There is no persistence, so nothing to recover from a crash.

### What makes each part correct

- session: one feature active at a time; a verdict is final and earned; the
  session does not stay busy; sockets are closed, once, by their owner.
- workers: what is observed happened; right traffic is not failed; they end.
- stream: what a watcher concludes from the summaries is true; every verdict
  arrives.
- contracts: they name the sockets the server listens on, and a client that
  does what one says passes, for each feature of the catalog.
- HTTP: a handler gets what the client has sent, every connection ends, the
  mutexes are never waited for in a circle, the process outlives its clients.
- JSON: the parser agrees with a grammar, and strings come back as they came.
- helpers and runner: a pass is earned, a failure has a cause, no helper is left
  behind, the suite ends.

## 2. The modules

| module | models |
|---|---|
| `FeatureLifecycle` | abstract specification: what a session promises, with no threads, locks or sockets |
| `FeatureServer` | one session, thread by thread and lock section by lock section |
| `MCFeatureServer` | small catalogs for it |
| `FeatureServerProofs` | theorems about `FeatureServer`: any client; the refinement; what a serial client is owed: one active feature, evidence, sockets, contract, `active_feature_id` |
| `FeatureCatalog` | the 43 features as data |
| `ScenarioWorkers`, `MCScenarioWorkers` | the worker loops message by message, against a clock |
| `ScenarioWorkersProofs` | theorems about the loops: any definitions, any traffic |
| `ContractClient`, `MCContractClient` | `ScenarioWorkers` with a client that follows the contract, and the network between them |
| `ContractClientProofs` | each feature of any catalog ends as its client deserves |
| `SessionLocks` | the registry of sessions and the mutexes, as plans of lock operations |
| `HttpServer`, `MCHttpServer` | connections, requests and answers over `SessionLocks` |
| `HttpServerProofs` | the order in which every thread takes its mutexes; requests, however they are cut |
| `JsonParser`, `MCJsonParser` | the parser and `json_quote`, byte by byte, against a grammar |
| `JsonParserProofs` | strings come back and escapes are UTF-8, any body |
| `SummaryStream`, `MCSummaryStream` | `FeatureServer` with what the watchers of a stream have been sent |
| `SummaryStreamProofs` | theorems about summaries: any number of watchers |
| `HelperPair` | the two helpers of a scenario and the stack between them |
| `ConformanceSuite`, `MCConformanceSuite` | the runner over `HelperPair`; the scenarios of `core.json` |
| `ConformanceSuiteProofs` | theorems about the runner: types, processes, coverage; what a pass and what a failure is worth; any suite |
| `InductionFacts` | induction with a set, and what `FlattenSeq` computes: lemmas for `HttpServerProofs`, `JsonParserProofs` and `ConformanceSuiteProofs` |

### FeatureServer

State is the code's: `state`, `network_complete`, `agent_complete`,
`active_fds`, `contract_json`, `active_feature_id` carry the names of the
fields. `expired` stands for `Clock::now() >= deadline_at`; `open` is the
process's descriptor table as far as SCTP listeners go; `pc`, `op`, `target`,
`fds`, `finished`, `return_to` and `cursor` are each thread's position and
locals.

Threads are *Agents* (request threads of the client: `Agents = {a1}` is a
client that waits for each answer, two agents are two requests in flight),
*Pollers* (GET summary or the stream) and *Workers*, one per activation.
Each action is what a thread does between two lock operations:

| action | code |
|---|---|
| `Receive`, `Route`, `Enter`, `Reply` | a request, `HandleRequest`, the handler's own `maybe_timeout`, the answer |
| `CheckActive`, `CheckPending`, `OpenSocket`, `OpenFails`, `ActivateExecution`, `SetActiveFds`, `PublishActiveFeature`, `SpawnWorker`, `StoreContract` | `StartFeature`, in its order |
| `CompleteFeature`, `UnsupportedFeature` | the two handlers' critical section; `valid` is the outcome of parsing and of the association-id check |
| `MarkFailed`, `MarkNetworkComplete` | the end of a worker |
| `MaybeTimeout` | used by every caller |
| `TakeActiveFds`, `CloseFd`, `Closed`, `ClearActiveFeature` | `close_active_fds` and `clear_active_feature` |
| `BeginSummary`, `ScanTimeout`, `ScanRead`, `EndSummary` | `SummaryJson` |
| `Expire` | time |

Abstracted: what travels on the sockets (a worker may end either way at any
moment; `ScenarioWorkers` says when it does), texts, evidence, time stamps, the
text of the contract (kept: the listeners it names), and requests that name no
feature of the session. Other sessions share no state with this one except
descriptor numbers.

### FeatureCatalog

`build_feature_catalog` in its order, through the same `make_*_feature`
functions. A definition keeps what a worker, a handler or an obedient client acts
on: mode, kind, listeners and addresses, messages with stream, PPID, size and
policy, trigger, auth keys, and which options and events the client must have.
`local_work_after` is the one field read off a text: the instructions of some
features tell the client to work on the association after it has sent.
Prompts, links and the values of tuning objects are left out; the server copies
them into the contract and never reads them again.

### ScenarioWorkers

One active feature, any definition of `Definitions`, with its worker, the
client's traffic and reports (`Report`, `Decline`), a poller, and
a clock in ticks. `Receive` is one return of `sctp_recvv`; the kinds of worker
differ in what they do with data (`ReceiveExpected`, `ReceiveOnTarget`,
`ReceivePartiallyReliable`, `ReceiveTrigger`), and share notifications, the
timeout (`ReceiveTimesOut`) and errors (`ReceiveFails`). `ReceiveTrigger` compares
as the code does, a C string: of a message it sees what `CString` says, the
payload up to the first NUL (`CutAtNul` lists the payloads that have one, with what
stands before it); the other kinds compare whole payloads. Once the verdict closes
the listeners, the worker's call may fail, or return only at its timeout; both
are left open because the kernel may do either. A verdict with its closing and
clearing is one step here, since `FeatureServer` has the interleavings.

### ContractClient

What the client knows is `BuildContract(definition)`, and `json_messages` is part
of it. It sends what the contract lists, does the local work, waits for the
server's messages, and reports, or declines what it is not `Able` to do. What
varies between clients is chosen at the start: `apis` (it has every socket
option and event, or none), `prepared` (an operator has made the manual setup),
`streams` (outgoing streams it asks for). The network keeps order within a
stream of an association only, and may drop partially reliable messages once
impaired. Everybody is prompt here: the clock moves when all wait.
`CatalogAssumption` is what `build_feature_catalog` gives a client: for each kind
of scenario the mode it may have, what is sent by whom, streams the server has,
keys the contract names, sizes the server's buffer holds, one stream where order
counts, an impairment only where a worker looks for it, a trigger without a NUL. TLC evaluates it on the
43 features.

### SessionLocks

A thread's `plan` is the sequence of lock operations it has still to do, read off
the `lock_guard`s of each function and composed as the functions call each other
(`CreateSession` ends in `SessionJson`, a feature request in two `MaybeTimeout`,
its own sections and `FeatureJson`). A scope in which no other mutex is
taken is one step. `VisitSessions` unfolds the loop over `sessions_` when it is
reached. Data inside the sections belongs to `FeatureServer`; the registry is here.

### HttpServer

`step` is where a connection's thread is; `got` how many words of the request
have been read. A request is a sequence of words (request line, header lines,
CR, LF, body words) and a read may return any number of those not yet read, so
every way to cut a request into pieces is there. `HeaderEnd`, `BodyOffset`,
`RequestLine` and `ContentLength` are the code's searches. The peer stops
sending, closes or resets whenever it likes. `Write` has the three outcomes of
`write_all`: written, EAGAIN after the timeout, or SIGPIPE, and the last ends the
process, as does a failing `accept`. `Dispatch` chooses the plan by route.
`WellFormed` (`RequestsAssumption`) is a request as clients send it: one kind of
line end throughout, none within a line, a body of any words. Left out is a body
with an empty CRLF line under a header of LF lines: `ReadHttpRequest` looks for
the CRLF first, and cuts such a request in its body once it has read that far.

### JsonParser

`calls` is the stack of `parse_json_object_value` and `parse_json_array_value`
calls, `at` the index `i`; `ReadKey`, `ReadValue` and `EndTurn` are the parts of a
turn of either loop, `ReadBody` is `parse_json_root_object`. A string is read in
one step (`StringRest`). `Slip` garbles the body before it is read. `Denotes` is
the reference: the set of values a text denotes, found by taking it apart at
every place. It uses the parser's operators for one escape and for code points;
`EscapesAreUtf8` and `StringsComeBack` check those against RFC 3629 and `json_quote`,
and are proved for every body.

### SummaryStream

`FeatureServer`, whose pollers now keep the states they read (`tally`) and the
last summary they sent (`last_summary`). The heartbeat, and a watcher that goes
away, change neither; `HttpServer` has both.

### HelperPair

`helper.c` and `main.go` have the same control, so one module stands for both,
with `Helper` to say which of them the profile runs:
`ServerReady`, `ServerError`, `ServerNotify`, `ServerRecv`, `ServerComplete`;
`ClientConnect`, `ClientSend`, `ClientComplete`, each with its expected and
unexpected failures. `out` is what each has printed, with data reduced to what
the runner compares: a message is its payload and its `meta` (stream and PPID),
a list of addresses is "all" or "some". `Kept` is what a sequence has at given
places, in its order: `matching_events` keeps the events of one kind, and the
runner's selection the scenarios named on its command line. The stack (`flight`) may reorder, lose
or change anything. `fault` is a history variable: what went wrong in this
scenario, with the names the scenarios' assertions have. The two helpers differ in
three places. `Reported`: the Go helper reports a message whole
(`string(buf[:n])`), the C helper writes it as a C string, up to its first NUL, so
that bytes the stack has appended from a NUL on (the change "tail") show in the one
and not in the other. `PeerAddrsDue`: the C server asks for its peer's addresses
after the first message only, the Go server after each until it has them. And options
are set before the connect in C and after it in Go, which
`ClientOptionFails` allows for both. A line that `json.loads` refuses, as with a
control character in a payload, counts as a payload that is `Wrong`. Notifications of a shutdown are left out:
they follow the last message a server counts.

### ConformanceSuite

`pc` walks through `execute` and `evaluate_scenario`; `read` is how far the
thread `_read_stdout` is, `taken` how far `wait_for_event`, `collected` what
`ManagedProcess.wait` returned. Each wait has two actions, one for the event and
one for its timeout; a timeout leads to `unwind` (the `finally` clause) and then
`raised`, since nothing catches it. A timeout may come at any moment; it adds
"late" to `fault` unless there was nothing left to wait for. `Status` is the
decision of `evaluate_scenario`: errors first, then the expected failure, then
the assertions. `WellFormed` says what the scenarios of `core.json` have in
common and the results rest on: the messages of a scenario have distinct
payloads, a server reads as many as its client sends and counts them
(`expect_recv_count`), and a scenario without a server expects a failure.

### FeatureLifecycle

`Start`, `Witness`, `GiveUp`, `Decline`, and `Sufficient`, the evidence each
completion mode asks for. `FeatureServer` implements it under the mapping
`verdict <- state` and `evidence <- {who : their flag is set}`, for a client
that runs its requests serially. That a started feature does not stay active is
`FeatureSettles` of `FeatureServer`.

## 3. The runs

| run | expects | question |
|---|---|---|
| `serial` | pass | everything a session promises a serial client, the refinement, and what must happen |
| `concurrent` | pass | what still holds with two requests in flight and starts slower than the deadline |
| `stream` | pass | what a watcher may conclude |
| `workers` | pass | which traffic leads to which verdict |
| `catalog` | pass | can each contract be fulfilled, and is its verdict deserved |
| `server` | pass | requests in pieces, peers that vanish, mutexes |
| `json` | pass | does the parser read what the grammar says |
| `suite` | pass | what the results of the runner are worth |
| `two_active` | violation | two requests in flight |
| `pr_timed_out` | violation | a right PR-SCTP client, polled |
| `closed_while_active` | violation | a client that works on its association after its message |
| `watcher_leaves` | violation | a client that resets its connection |

What the passing runs show:

- `serial` (about 190 000 states): `AtMostOneActive`, `RefusalIsJustified`,
  `SettledSocketsClosed`, `NoLeak`, `EvidenceDecides`, `ContractNamesListeners`,
  `VerdictIsFinal`, `ActivationIsFresh`, `LifecycleSpec`; and under fairness
  `FeatureSettles`, `SlotIsFreed`.
- `concurrent` (about 1.2 million states up to symmetry): `DescriptorOwnership`
  and `PassedIsEarned`, the two promises that need no serial client.
- `stream` (about 600 000 states): `CompleteIsTrue` (a summary that says all is
  settled is the truth, though no snapshot), `SummariesGoForward`,
  `VerdictsAreStreamed`.
- `workers` (about 910 000 states): `ObservationIsReal` (one direction: what is
  observed has arrived), `RightTrafficIsNotFailed`, `TimeoutMeansSilence` (a full
  timeout has passed, and something the feature waits for has not come to its
  listener), `WorkerEnds`.
- `catalog` (about 7 000 states): `VerdictIsDeserved`, `EveryFeatureEnds`, for
  each feature and each kind of client. A client with ten outgoing streams, the
  usual default, cannot pass the features whose messages go on higher ones; the
  model counts that as not `Able`.
- `server` (about 380 000 states): `HandledAsSent`, `NoCircularWait`,
  `EveryConnectionEnds`.
- `json` (about 2.1 million states): `ReadsAsDenoted`, `StringsComeBack`,
  `EscapesAreUtf8`.
- `suite` (about 1.5 million states): `PassIsEarned` (no fault a scenario
  watches for gets past its assertions; payloads are watched as the helper
  reports them, here the C helper up to the first NUL), `BlameIsJustified` (a failure or an
  exception always has a cause outside the runner), `NoHelperLeft`,
  `GreenMeansCovered`, `SuiteEnds` (every wait of `execute` has a timeout; those of
  `bootstrap` and `build` have none, and are not modelled).

The model of the runner also shows a limit that no document denies and that is
therefore a hazard and no finding: an error a server reports before "ready", or
a client's failure that leaves the server waiting, never becomes a result. The
runner times out, and the exception ends the suite without a report.

The C helper sets a second limit, and `PassIsEarned` is stated up to it: a stack that
hands over "alpha" with zero bytes behind it passes, even in the scenario titled "Two
SCTP messages preserve boundaries" (`scenarios/core.json:60`), since the helper
reports a C string. `Watched` leaves the fault "tail" out for this helper; the Go
helper finds it.

What the violations show is written up under `findings`. `two_active`:
`StartFeature` checks, activates and publishes in separate critical sections,
which is safe only while the client has one request in flight. (With two,
`VerdictIsFinal`, `SettledSocketsClosed` and `RefusalIsJustified` fail for the
same reason; that they hold for a serial client is what `serial` shows and
section 4 proves.)
`pr_timed_out`: the PR-SCTP worker waits for `timeout_seconds` of silence after
the last message and so ends after the deadline, when any poll has already
timed the feature out. `closed_while_active`: the observation of a hybrid
feature closes the sockets although the feature is still active and its contract
tells the client to go on with the association. `watcher_leaves`: a write to a
connection its peer has reset raises SIGPIPE, which nothing handles.

Observed while modelling, and not findings because no document says otherwise: a
request with both kinds of line end may be cut differently depending on the
pieces it arrives in; the contract of `unordered_delivery` asks for an option and
the server does not check the flag; `expected_peer_addr_count` is 0 in every
definition, so the address check never runs (it does in `workers`, whose
definitions set it); a JSON surrogate pair is refused.

Each property of a passing run has a mutant: a definition marked *Mutant* next
to the one it replaces, a slip one could make in that code (a list copied and
not moved, a check left out, two flags mixed up), with which TLC finds the
property violated.

### Bounds

- Features: two per run. The properties relate at most two features (the active
  one and the one somebody tries to start), and a summary is torn by the second.
  `obs`, `hyb`, `rep` are the combinations of mode and listeners the catalog has.
- Agents: one is the serial client the documentation describes, two suffice for
  every violation. The proofs have any number where the result does not need a
  serial client.
- Pollers: one. A poller's only effect is `maybe_timeout`, which the agents'
  requests have too; `DescriptorOwnership` is proved for any number.
- Fds: as many as the starts in flight can open; with one fewer a start fails
  only as `OpenFails` lets it fail anyway.
- `concurrent` uses symmetry of agents and of descriptor numbers; it checks
  invariants only.
- Expected messages: two, so that there is a first, a last and an order. Traffic:
  the two, three wrong ones that differ in payload, stream or PPID, and one that
  reads as the first up to a NUL (`CutAtNul`; the catalog's payloads have none).
- `MaxArrivals` 3 (1 in `pr_timed_out`, 2 with `ContractClient`, whose clients
  send at most two messages): both messages and one thing that does
  not belong, at any place. `Timeout` 2 ticks: something can happen before,
  at and after the deadline. `Horizon` is where the clock stops, derived from
  these two: every call of `sctp_recvv` has returned by then.
- `catalog`: the whole catalog, not a sample of it; `ClientStreams` {10, 32}, the
  usual default and the server's own number.
- `server`: two connections and one worker, one execution per session and three
  possible sessions: a circle of waiting needs two threads and the three kinds of
  mutex, and the order in which executions are visited is the same for all.
  `MaxHeader` 10 words: one form of request is longer, all others fit. Requests: each route,
  and creation with both line ends, blank lines in the body, too much body, too
  little, two lengths, a bad request line.
- `json`: documents of up to two members with strings, arrays and objects nested
  one deep, with one slip (two up to `ShortLength` 9 bytes, none above
  `SlipLength` 14) out of every kind of byte the parser tells apart; slips add
  a level of nesting, and a turn of a loop does the same at every depth. All
  `\u` escapes of six digits that include each boundary of UTF-8.
- `Suite`: the four scenarios of `core.json` with their own messages and
  assertions; `MaxNamed` 1 scenario on the command line, or the whole suite
  (scenarios share nothing but the list of results). Two errors, one that counts
  as unsupported and one that does not; `required_features` with and without one
  that no scenario has. No scenario of `core.json` expects a failing connect and
  nothing else, so `ClientUnrefused` stands by without firing.
- `Helper` is "c": with "go" the change "tail" becomes one more way to change a
  payload that is seen. The theorems hold for both.
- `CHECK_DEADLOCK FALSE`: a client may stop sending requests, and the worker
  model ends with its clock, a suite with its report or exception.

### Fairness

A thread that has a step to take takes it (`RequestStep`, `SettleStep`: the
operating system runs the server's threads), time passes (`Expire`, `Tick`),
and the stream keeps scanning (`ScanStep`: its loop has no exit but a watcher
that goes away). Nothing is assumed of the client, and nothing of the workers
in `FeatureServer`, since the network may keep a worker waiting: that a feature
settles rests on the deadline and on somebody who polls. In `ScenarioWorkers`
and `ContractClient` the worker's own steps and its timeout are fair, an error never has to occur. In
`ConformanceSuite` only the runner is fair: its waits end by their timeouts.
`ContractClient` has a fair client and network besides, since it asks what
follows if the client does its part; and nobody need poll. In
`HttpServer` a thread goes on when it can, a read ends after its timeout, and a
mutex that stays free is taken (weak fairness); peers owe nothing.

`SlowStart = FALSE` says that a deadline (20 seconds or more) does not pass
between `activate_execution` and the answer of the same start. It is what the
serial results need besides the serial client; `concurrent` is checked without
it, and of the theorems only `NeverWedged` and `SocketsFollowVerdict` need it.

## 4. The proofs

Every theorem holds for all values of the constants that the modules' `ASSUME`s
admit; TLC evaluates those for the instances above.

| theorem | states | for |
|---|---|---|
| `TypeCorrect` | `Spec => []TypeOK` | any client |
| `OwnershipHolds` | `Spec => []DescriptorOwnership` | any client |
| `PassesAreEarned` | `Spec => []PassedIsEarned` | any client |
| `OneActive` | `Spec => []AtMostOneActive` | a serial client |
| `ImplementsLifecycle` | `Spec => LifecycleSpec` | a serial client |
| `VerdictsAreFinal` | `Spec => VerdictIsFinal` | a serial client |
| `EvidenceIsDecisive` | `Spec => []EvidenceDecides` | a serial client |
| `NothingLeaks` | `Spec => []NoLeak` | a serial client |
| `ContractsAreRight` | `Spec => []ContractNamesListeners` | a serial client |
| `ActivationsAreFresh` | `Spec => ActivationIsFresh` | a serial client |
| `NeverWedged` | `Spec => []RefusalIsJustified` | a serial client, prompt starts |
| `SocketsFollowVerdict` | `Spec => []SettledSocketsClosed` | a serial client, prompt starts |
| `CompleteSummariesAreTrue` | `StreamSpec => []CompleteIsTrue` | a serial client, any watchers |
| `WatchersSeeProgress` | `StreamSpec => SummariesGoForward` | a serial client, any watchers |
| `WorkersTypeCorrect` | `Spec => []TypeOK` | any definitions and traffic |
| `OnlyRealTrafficCompletes` | `Spec => []ObservationIsReal` | any definitions and traffic, NULs included |
| `RightClientsAreNotBlamed` | `Spec => []RightTrafficIsNotFailed` | any definitions and traffic |
| `TimeoutsAreSilences` | `Spec => []TimeoutMeansSilence` | any definitions and traffic |
| `ContractsAreEnough` | `ClientSpec => []VerdictIsDeserved` | any catalog, client and network |
| `ClientsAreTraffic` | `ClientSpec => Spec` of `ScenarioWorkers` | any catalog, client and network |
| `WorkersAreRightToClients` | `ClientSpec => []` the three promises of the workers | any catalog, client and network |
| `NoThreadsWaitInACircle` | `HttpSpec => []NoCircularWait` | any connections, sessions, executions |
| `HandlersGetWhatWasSent` | `HttpSpec => []HandledAsSent` | any connections, any well-formed requests |
| `StringsAreKept` | `JsonSpec => []StringsComeBack` | any body |
| `EscapesAreRead` | `JsonSpec => []EscapesAreUtf8` | any body |
| `SuiteTypeCorrect` | `RunSpec => []TypeOK` | any suite |
| `NoHelperOutlivesItsScenario` | `RunSpec => []NoHelperLeft` | any suite |
| `GreenRunsCover` | `RunSpec => []GreenMeansCovered` | any suite |
| `SuitePassesAreEarned` | `RunSpec => PassIsEarned` | any suite of well-formed scenarios, either helper |
| `SuiteBlameIsJustified` | `RunSpec => BlameIsJustified` | any suite of well-formed scenarios, either helper |

The first twelve, on the session, are in `FeatureServerProofs` and hold for every catalog, every assignment of modes and
listeners and any number of threads and descriptors. Those for a serial client
assume that there is at most one agent (`Serial`), `NeverWedged` and
`SocketsFollowVerdict` also that no deadline passes during a start (`Prompt`,
which is `~SlowStart`). Both are assumptions of those theorems and not of the
module.

*Any client.* `ThreadInv` is inductive: `TypeOK`; `LocalsOK` (a thread that is
not idle and not between two features of a scan has a target, one that is not
opening, handing over or closing listeners holds no descriptor, and a settling
function returns to a place that called one); `WorkersOK` (a worker's target is
its feature, and before a start spawns the worker that bears its name, none has
run). With it, `DescriptorOwnership` is inductive: that the descriptors taken by
one thread are not those of another needs that a thread about to take has a
target, that one at `check_pending` holds nothing, and that a start does not
overwrite a list it has already filled. `PassedIsEarned` needs only the types
and the steps that write `state` or a flag.

*A serial client.* `SerialInv` relates the agent's position to the session:
between `check_active` and `publish` the id is empty; up to the activation the
feature is still pending; an active feature is the one `active_feature_id` names
or the one the agent has just activated; and a thread that is about to clear the
id works on a settled feature. It is why the separate critical sections of
`StartFeature` do no harm to such a client, and it fails at once with two agents.

Three invariants extend it. `EvidenceInv`: a pending feature has no evidence,
and evidence that suffices has decided. `SocketInv` follows the descriptors of a
start: a pending execution lists none; a start that stores its list finds the
list empty; from then until the traffic is in, the thread's list and the
execution's are the same, because no thread takes the descriptors of a feature
that still waits; and whatever is open has an owner. That no two owners share a
descriptor comes from `OwnershipHolds`. `PromptInv`: from `activate_execution`
to the publication of the id the feature is active and its deadline ahead. It is
inductive because nothing can end a feature then: its worker is yet to be
spawned, the client has no second request, and polls find the deadline ahead.
Without `Prompt` a poll may end the feature before the start publishes its id,
and the id then stays.

*Summaries.* A turn of the stream is a turn of the scan in `FeatureServer`
(`StreamSpecIsSpec`), so the session's theorems carry over. A feature only goes
forward, pending, active, settled (`StateForward`, from the refinement). Hence
`StreamInv`: what a scan has written of a feature, and what it has sent, is
never further on than the feature, and what has been sent is never further on
than what the next scan writes. A full summary that shows only settled features
is therefore true although its entries were read at different times. It needs
`ScanOK`, that a scan is at a place of the catalog, and that the mark for an
entry not yet written is no state (`BlankAssumption`).

*Workers.* `LoopInv` says for each kind of loop what the messages read so far
are: a proper beginning of what is expected (`ReceiveLoop`); one right message
on each listener before the present one and none on the others (`TargetLoop`);
only the two PR-SCTP messages, each flag true exactly when its message is among
them (`PrLoop`); one message that reads as the trigger (`TriggerLoop`). `ListenersFollow` ties the
loop to the session: listeners close with a verdict or an observation, and
nothing arrives after. `Seen` is the part of a message the three checks compare,
so that they find a mismatch exactly when the message is not the one expected.
The definitions may be any that give a worker what it takes for granted
(`DefinitionsAssumption`); stray messages, timeout and number of arrivals are
arbitrary.

*Contracts.* `CatalogInv` joins the two sides of a feature, which know of each
other only by the contract and by messages. To `LoopInv` of the workers it adds:
the contract is the definition's (`ContractInv`); where the client is, which it
can only be if it is `Able` or declines (`ClientInv`); what its report does to
the session (`ReportInv`) and what a worker that has ended has left there
(`WorkerInv`). The messages are the hard part. Each is on the wire, in the queue of
its own listener or read (`PlacesInv`, `CoverInv`), so that a worker that still
waits has something to wait for. Where the order counts, all are on one stream, and
what is read, queued and on the wire is together the list of the contract
(`OrderInv`). The lossy message of PR-SCTP is in one of these places or has been
dropped (`LossyInv`), so the worker's two flags tell what the network did. `TimeInv`
then says that the clock never moves against a client that does its part: when
all wait (`WaitingInVain`), the client has declined, could do nothing, or the
feature is PR-SCTP, whose worker ends by silence. Each end of a worker is therefore
the one `Deserved` allows. Without `CoverInv` a timeout of an obedient client could not
be ruled out; without `OrderInv` a mismatch could not.

The steps of client and network map to `Arrive`, `Report`, `Decline` or a stutter of
`ScenarioWorkers` (`ClientsAreTraffic`); `PlacesInv` is what makes a delivery one of
its arrivals. So the theorems on workers hold here too.

*Requests.* A request is put together by `Request`, and taken apart by searches
over the words read so far. `WordsShape` says where in it each part lies
(`HeaderLinesShape` for the header lines, an induction over their number), and `RequestCut`
that `HeaderEnd` of the first `n` words is 0 until the whole header is
among them, and from then on always the same place: `CutCRLF` and `CutLF` rule out, for
either line end, that the search matches earlier, across two parts. The last
`Content-Length` in that header is the one the client declared (`DeclaredLength`),
and what follows it, up to that length, is its body (`BodyAsSent`). `SentInv`
is the rest: a thread that reads the body has read a whole header
(`HeaderRead`), and one that serves a request has been given what was sent
(`Given`).

*Strings.* `StringRest` is a recursive function that reads a string from each place
of a text to its closing quote. That it exists is an induction (`RestsExist`), after
which `StringRestIs` gives what it reads at a place by what it reads later: each
argument goes from the end of a text to its beginning. `EscapeReads` says that the
parser reads what `EscapeOf` writes for a byte, in each of the four forms it has, and
`QuotedShape` where in `json_quote`'s text each byte is written; with them
`WrittenReads` is the round trip, for bytes. `JsonInv` provides that all strings in the
calls and in the answer are bytes (`StringBytes`, `Utf8Bytes`), and that a call
underneath all others is the root's, hence an object's.

`EscapesAreRead` is about where the parser is. No character of a string reaches over a
colon (`UnitsEndAtColon`), so that a string that begins before `:"\u` ends before it
or with its quote (`StringsEndAtColon`). `EscapeInv` (`Underway`) then says: the parser
is before the escape, or at it and about to read a value, or has stored its code
point and is at the last byte, or is where what follows can only be refused, as
it is with the last bracket read and a call still open. `Utf8IsShortest` is the rest.

*Locks.* `Rank` orders the mutexes: registry, session, execution. A plan is
`Legal` for a thread that holds a set of them when each lock it still takes is
above all it holds then, and it ends with none. Every plan a route may answer with
is `Legal` (they are put together from those of the functions, `LegalConcat`,
and loops over executions and sessions by `FlattenSeq`, hence an induction), and a
step of a plan leaves the rest `Legal`. That is `LockInv`. In a circle every
thread would wait for a mutex above those it holds, and one of them waits for the
highest, whose holder can only wait for a higher one.

*Runner.* `SuiteInv`: output only grows, and what has been read, taken and
collected of it are prefixes (`OutputOK` with the types); which helpers can be
running is read off the place of the runner (`Placed`); a whole run has one
result for each scenario it is through with, in the order of the suite
(`Covering`).

*Verdicts of the runner.* A verdict relates `fault`, which the runner cannot see,
to two outputs, of one of which it may have only the beginning. `PairOK` says what
each fault leaves behind there (`Traces`), and that without faults the outputs
have all the scenario asks for (`ClientSide`, `ServerSide`, `PeersListed`,
`NoteOK`). `Counted` adds up messages: those sent are received or in flight, or
one is lost. `Ordered` is the step that needs an idea: as long as the payloads read are
those sent, in their order, nothing has been reordered and what is in flight
is the rest, in order. The payloads of a scenario being distinct, reordering
cannot pass the payload assertion; and a payload changed where the helper can see it
(`PayloadFaults`) is reported as none that was sent. The count a server has to reach
rules out loss. `RunnerOK` says what the runner has of the output where it is, which
is why a result is made from all of it, or a timeout has been too early and is
itself the fault. `VerdictInv` joins the two. TLC found both parts invariant on the
suite of `core.json` before they were proved.

*Refinement.* Initial states map to initial states; every step of
`FeatureServer` maps to a step of the lifecycle or leaves `verdict` and
`evidence` alone, by cases on the actions that write them.

Only model-checked:

- all liveness (`FeatureSettles`, `SlotIsFreed`, `WorkerEnds`, `EveryFeatureEnds`, `EveryConnectionEnds`, `VerdictsAreStreamed`,
  `SuiteEnds`): the prover has no rules for fairness.
- `ReadsAsDenoted`: the parser against the whole grammar, where a text is taken
  apart at every place. A proof would have to show for every body that the splits
  at commas and colons inside strings and brackets denote nothing, over the nested
  recursive function of `Denotes`; the recursion itself is no obstacle
  (`SetInduction` states induction with a set in place of a predicate, as for
  `StringRest`, `FlattenSeq` and `Kept`).

## 5. Plan

In this order:

1. `DataPlane`: descriptor numbers that are closed and given to the next
   feature's listener while an old worker still reads from the number; extends
   the link between `FeatureServer` and `ScenarioWorkers`.
2. The remote executor in `ConformanceSuite`: an ssh client and a helper behind
   it that may outlive it.
3. The error paths of `create_listening_socket`, each with the descriptors and
   address lists it must release.

## 6. Not modelled

The dashboards (HTML and script text, run by a browser), the RFC table and the
profile files (data nothing computes on), the runner's bootstrap, build and
report files (sequential I/O; `bootstrap` and `build` wait without a timeout,
`runner.py:147` and `225`), option
parsing (sequential, before any thread exists),
the smoke script (a client), memory exhaustion and thread creation failure.
All state is in memory and dies with the process. The SCTP
stack is external: it delivers whole messages the client sends, in order per
socket (per stream in `ContractClient`), or
reports an error or a timeout; that it might refuse to send 1 MiB at once, or
deliver a large message in parts (`MSG_EOR`), is listed under the hazards.
