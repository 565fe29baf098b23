-------------------------- MODULE SummaryStreamProofs --------------------------
(***************************************************************************)
(* What a watcher of the summary stream may conclude, proved for every     *)
(* catalog, any number of watchers and descriptors, and a client that runs *)
(* its requests serially.  The session under the stream is FeatureServer,  *)
(* whose theorems carry over: the stream only adds what it remembers.      *)
(***************************************************************************)
EXTENDS SummaryStream, FeatureServerProofs

-----------------------------------------------------------------------------
(* The session under the stream *)

(* A turn of the stream is a turn of the summary's scan.                   *)
LEMMA StreamIsSession ==
    ASSUME [StreamNext]_stream_vars
    PROVE  [Next]_vars
<1>1. ASSUME NEW p \in Pollers, StreamStep(p) PROVE ScanStep(p)
    BY <1>1 DEF StreamStep, ReadFeature, SendSummary, ScanStep
<1>2. CASE SessionStep
    BY <1>2 DEF SessionStep, Next
<1> QED BY <1>1, <1>2 DEF StreamNext, stream_vars, Next

LEMMA StreamSpecIsSpec == StreamSpec => Spec
<1>1. StreamInit => Init
    BY DEF StreamInit
<1>2. [StreamNext]_stream_vars => [Next]_vars
    BY StreamIsSession
<1> QED BY <1>1, <1>2, PTL DEF StreamSpec, Spec

-----------------------------------------------------------------------------
(* How far a feature has come *)

\* new is what old was, or comes after it, or there was nothing before.
Behind(old, new) == old = None \/ old = new \/ Phase(old) < Phase(new)

LEMMA PhaseValues ==
    /\ Phase(None) = 0 /\ Phase("Pending") = 0 /\ Phase("Active") = 1
    /\ \A s \in Terminal : Phase(s) = 2
<1>1. None # "Active" /\ None # "Pending" /\ \A s \in Terminal : None # s
    BY BlankAssumption DEF States, Terminal
<1> QED BY <1>1 DEF Phase, Terminal

LEMMA PhaseNat == \A s \in States \cup {None} : Phase(s) \in 0..2
BY PhaseValues DEF States

LEMMA BehindTransitive ==
    ASSUME NEW a \in States \cup {None}, NEW b \in States, NEW c \in States,
           Behind(a, b), Behind(b, c)
    PROVE  Behind(a, c)
<1>1. None \notin States
    BY BlankAssumption
<1> QED BY <1>1, PhaseNat DEF Behind

(* Verdicts follow activations and nothing follows a verdict.              *)
LEMMA StateForward ==
    ASSUME Serial, ThreadInv, SerialInv, [Next]_vars, NEW f \in Features
    PROVE  Behind(state[f], state'[f])
<1>1. [Lifecycle!Next]_(Lifecycle!vars) /\ state \in [Features -> States]
    BY LifecycleStep DEF ThreadInv, TypeOK
<1>2. \/ state'[f] = state[f]
      \/ state[f] = "Pending" /\ state'[f] \in {"Active", "Unsupported"}
      \/ state[f] = "Active" /\ state'[f] \in Terminal
    BY <1>1 DEF Lifecycle!Next, Lifecycle!vars, Lifecycle!Start, Lifecycle!Witness,
                Lifecycle!GiveUp, Lifecycle!Decline, Terminal
<1> QED BY <1>2, PhaseValues DEF Behind, Terminal

-----------------------------------------------------------------------------
(* The scan *)

(* A watcher's thread is in SummaryJson or between two calls of it.        *)
ScanOK ==
    \A p \in Pollers :
        /\ pc[p] \in {"idle", "scan", "scan_read", "take", "close", "clear"}
        /\ pc[p] \in {"take", "close", "clear"} => return_to[p] = "scan_read"
        /\ pc[p] = "idle" => cursor[p] = 0
        /\ pc[p] \notin {"idle", "scan"} => cursor[p] > 0 /\ target[p] = Catalog[cursor[p]]

\* No other thread moves a watcher's.
Elsewhere(p) ==
    /\ pc'[p] = pc[p] /\ return_to'[p] = return_to[p]
    /\ cursor'[p] = cursor[p] /\ target'[p] = target[p]

LEMMA OthersElsewhere ==
    ASSUME ThreadInv, NEW p \in Pollers,
           \/ \E a \in Agents, o \in Ops, f \in Features : Receive(a, o, f)
           \/ \E a \in Agents : RequestStep(a)
           \/ \E q \in Pollers : q # p /\ ScanStep(q)
           \/ \E w \in Workers : WorkerStep(w)
           \/ \E t \in Threads : t # p /\ SettleStep(t)
           \/ \E f \in Features : Expire(f)
    PROVE  Elsewhere(p)
<1>0. /\ p \in Threads /\ p \notin Agents /\ p \notin Workers
      /\ pc \in [Threads -> Pcs]
      /\ target \in [Threads -> Features \cup {None}]
      /\ return_to \in [Threads -> Pcs]
      /\ cursor \in [Threads -> 0..Len(Catalog)]
    BY ThreadAssumption DEF Threads, ThreadInv, TypeOK
<1> USE DEF Elsewhere, Goto, execution, sockets, session, request, settling
<1>1. ASSUME NEW a \in Agents, NEW o \in Ops, NEW f \in Features, Receive(a, o, f)
      PROVE  Elsewhere(p)
    BY <1>0, <1>1 DEF Receive
<1>2. ASSUME NEW t, t # p, NEW f, NEW next, MaybeTimeout(t, f, next)
      PROVE  pc'[p] = pc[p] /\ return_to'[p] = return_to[p]
    BY <1>0, <1>2 DEF MaybeTimeout, Settle
<1>3. ASSUME NEW a \in Agents, Route(a) \/ Enter(a) PROVE Elsewhere(p)
    <2>1. a # p /\ UNCHANGED request /\ \E next : MaybeTimeout(a, target[a], next)
        BY <1>0, <1>3 DEF Route, Enter
    <2> QED BY <2>1, <1>2
<1>4. ASSUME NEW a \in Agents, StartStep(a) PROVE Elsewhere(p)
    <2>1. CASE SpawnWorker(a)
        <3>1. UNCHANGED <<request, settling>>
            BY <2>1 DEF SpawnWorker
        <3>2. target[a] \in Features
            BY <2>1 DEF SpawnWorker, ThreadInv, LocalsOK, Threads
        <3>3. <<target[a], a>> \in Workers /\ a # p
            BY <1>0, <3>2 DEF Workers
        <3> QED BY <1>0, <2>1, <3>1, <3>3 DEF SpawnWorker
    <2>2. CASE OpenSocket(a)
        <3>1. UNCHANGED <<request, settling>> /\ \E q : pc' = [pc EXCEPT ![a] = q]
            BY <2>2 DEF OpenSocket
        <3> QED BY <1>0, <3>1
    <2>3. CASE ~SpawnWorker(a) /\ ~OpenSocket(a)
        BY <1>0, <1>4, <2>3 DEF StartStep, CheckActive, CheckPending, OpenFails,
               ActivateExecution, SetActiveFds, PublishActiveFeature, StoreContract
    <2> QED BY <2>1, <2>2, <2>3
<1>5. ASSUME NEW a \in Agents, ReportStep(a) \/ Reply(a) PROVE Elsewhere(p)
    <2>1. CASE Reply(a)
        BY <1>0, <2>1 DEF Reply
    <2>2. CASE ReportStep(a)
        BY <1>0, <2>2 DEF ReportStep, CompleteFeature, UnsupportedFeature, Reject, Settle
    <2> QED BY <1>5, <2>1, <2>2
<1>6. ASSUME NEW q \in Pollers, q # p, ScanStep(q) PROVE Elsewhere(p)
    <2>1. CASE ScanTimeout(q)
        <3>1. MaybeTimeout(q, Catalog[cursor[q] + 1], "scan_read")
            BY <2>1 DEF ScanTimeout
        <3>2. pc'[p] = pc[p] /\ return_to'[p] = return_to[p]
            BY <1>6, <3>1, <1>2
        <3> QED BY <1>0, <1>6, <2>1, <3>2 DEF ScanTimeout
    <2>2. CASE BeginSummary(q) \/ ScanRead(q) \/ EndSummary(q)
        BY <1>0, <1>6, <2>2 DEF BeginSummary, ScanRead, EndSummary
    <2> QED BY <1>6, <2>1, <2>2 DEF ScanStep
<1>7. ASSUME NEW w \in Workers, WorkerStep(w) PROVE Elsewhere(p)
    BY <1>0, <1>7 DEF WorkerStep, MarkFailed, MarkNetworkComplete, Settle
<1>8. ASSUME NEW t \in Threads, t # p, SettleStep(t) PROVE Elsewhere(p)
    BY <1>0, <1>8 DEF SettleStep, TakeActiveFds, CloseFd, Closed, ClearActiveFeature, Return
<1>9. ASSUME NEW f \in Features, Expire(f) PROVE Elsewhere(p)
    BY <1>9 DEF Expire
<1> QED BY <1>1, <1>3, <1>4, <1>5, <1>6, <1>7, <1>8, <1>9 DEF RequestStep

\* A watcher's own steps, as far as they say where it is.
LEMMA OwnStep ==
    ASSUME ThreadInv, ScanOK, NEW p \in Pollers, ScanStep(p) \/ SettleStep(p)
    PROVE  \/ /\ BeginSummary(p)
              /\ pc[p] = "idle" /\ pc'[p] = "scan" /\ cursor'[p] = cursor[p]
           \/ /\ pc[p] = "scan" /\ pc'[p] \in {"scan_read", "take"}
              /\ pc'[p] = "take" => return_to'[p] = "scan_read"
              /\ cursor[p] < Len(Catalog) /\ cursor'[p] = cursor[p] + 1
              /\ target'[p] = Catalog[cursor'[p]]
           \/ /\ ScanRead(p)
              /\ pc[p] = "scan_read" /\ pc'[p] = "scan" /\ cursor'[p] = cursor[p]
           \/ /\ EndSummary(p)
              /\ pc[p] = "scan" /\ pc'[p] = "idle"
              /\ cursor[p] = Len(Catalog) /\ cursor'[p] = 0
           \/ /\ pc[p] \in {"take", "close", "clear"}
              /\ pc'[p] \in {"take", "close", "clear", "scan_read"}
              /\ pc'[p] # "scan_read" => return_to'[p] = "scan_read"
              /\ cursor'[p] = cursor[p] /\ target'[p] = target[p]
<1>0. /\ p \in Threads
      /\ pc \in [Threads -> Pcs]
      /\ target \in [Threads -> Features \cup {None}]
      /\ return_to \in [Threads -> Pcs]
      /\ cursor \in [Threads -> 0..Len(Catalog)]
    BY DEF Threads, ThreadInv, TypeOK
<1> USE DEF Goto, execution, sockets, session, request, settling
<1>1. CASE BeginSummary(p)
    BY <1>0, <1>1 DEF BeginSummary
<1>2. CASE ScanTimeout(p)
    <2>1. /\ pc[p] = "scan" /\ cursor[p] < Len(Catalog)
          /\ cursor'[p] = cursor[p] + 1 /\ target'[p] = Catalog[cursor[p] + 1]
        BY <1>0, <1>2 DEF ScanTimeout
    <2>2. MaybeTimeout(p, Catalog[cursor[p] + 1], "scan_read")
        BY <1>2 DEF ScanTimeout
    <2>3. /\ pc'[p] \in {"scan_read", "take"}
          /\ pc'[p] = "take" => return_to'[p] = "scan_read"
        BY <1>0, <2>2 DEF MaybeTimeout, Settle
    <2> QED BY <2>1, <2>3
<1>3. CASE ScanRead(p)
    BY <1>0, <1>3 DEF ScanRead
<1>4. CASE EndSummary(p)
    BY <1>0, <1>4 DEF EndSummary
<1>5. CASE TakeActiveFds(p) \/ CloseFd(p)
    BY <1>0, <1>5 DEF TakeActiveFds, CloseFd, ScanOK
<1>6. CASE Closed(p) \/ ClearActiveFeature(p)
    BY <1>0, <1>6 DEF Closed, ClearActiveFeature, Return, ScanOK
<1> QED BY <1>1, <1>2, <1>3, <1>4, <1>5, <1>6 DEF ScanStep, SettleStep

LEMMA ScanStepOK == ThreadInv /\ ScanOK /\ [Next]_vars => ScanOK'
<1> SUFFICES ASSUME ThreadInv, ScanOK, [Next]_vars, NEW p \in Pollers
             PROVE  /\ pc'[p] \in {"idle", "scan", "scan_read", "take", "close", "clear"}
                    /\ pc'[p] \in {"take", "close", "clear"} => return_to'[p] = "scan_read"
                    /\ pc'[p] = "idle" => cursor'[p] = 0
                    /\ pc'[p] \notin {"idle", "scan"} =>
                           cursor'[p] > 0 /\ target'[p] = Catalog[cursor'[p]]
    BY DEF ScanOK
<1>0. p \in Threads /\ cursor[p] \in Nat
    BY CatalogAssumption DEF Threads, ThreadInv, TypeOK
<1>1. CASE ScanStep(p) \/ SettleStep(p)
    BY <1>0, <1>1, OwnStep DEF ScanOK
<1>2. CASE Elsewhere(p)
    BY <1>2 DEF Elsewhere, ScanOK
<1>3. CASE UNCHANGED vars
    BY <1>3 DEF vars, request, settling, ScanOK
<1> QED BY <1>1, <1>2, <1>3, OthersElsewhere DEF Next

-----------------------------------------------------------------------------
(* Summaries *)

\* the entries of the summary in the making that the scan has passed
Written(p) == {i \in 1..cursor[p] : pc[p] \in {"idle", "scan"} \/ i < cursor[p]}

(* An entry is in its place, and no further on than the feature it shows;  *)
(* what has been sent is no further on than what is being written.         *)
StreamInv ==
    /\ tally \in [Pollers -> [Features -> States \cup {None}]]
    /\ last_summary \in [Pollers -> [Features -> States \cup {None}]]
    /\ \A p \in Pollers : \A i \in Written(p) : tally[p][Catalog[i]] # None
    /\ \A p \in Pollers, f \in Features :
        /\ Behind(tally[p][f], state[f])
        /\ Behind(last_summary[p][f], state[f])
        /\ tally[p][f] # None => Behind(last_summary[p][f], tally[p][f])

\* The summary a watcher has finished shows every feature.
LEMMA FinishedIsFull ==
    ASSUME ThreadInv, StreamInv, NEW p \in Pollers, EndSummary(p), NEW f \in Features
    PROVE  tally[p][f] # None
<1>1. pc[p] = "scan" /\ cursor[p] = Len(Catalog)
    BY DEF EndSummary
<1>2. PICK i \in 1..Len(Catalog) : Catalog[i] = f
    BY CatalogAssumption
<1>3. i \in Written(p)
    BY <1>1, <1>2 DEF Written
<1> QED BY <1>2, <1>3 DEF StreamInv

(* The steps of the session let the features go forward.                   *)
LEMMA SessionStepKeeps ==
    ASSUME Serial, ThreadInv, SerialInv, ScanOK, StreamInv, [Next]_vars, UNCHANGED stream,
           \A p \in Pollers : Written(p)' \subseteq Written(p)
    PROVE  StreamInv'
<1>1. state \in [Features -> States] /\ state' \in [Features -> States]
    BY TypeStep DEF ThreadInv, TypeOK
<1>2. ASSUME NEW p \in Pollers, NEW f \in Features
      PROVE  /\ Behind(tally[p][f], state'[f])
             /\ Behind(last_summary[p][f], state'[f])
    <2>1. Behind(state[f], state'[f]) /\ state[f] \in States /\ state'[f] \in States
        BY <1>1, StateForward
    <2>2. /\ tally[p][f] \in States \cup {None} /\ Behind(tally[p][f], state[f])
          /\ last_summary[p][f] \in States \cup {None} /\ Behind(last_summary[p][f], state[f])
        BY DEF StreamInv
    <2> QED BY <2>1, <2>2, BehindTransitive
<1> QED BY <1>2 DEF StreamInv, stream

LEMMA StreamStepKeeps ==
    ASSUME Serial, ThreadInv, SerialInv, ScanOK, StreamInv, [StreamNext]_stream_vars
    PROVE  StreamInv'
<1>0. /\ [Next]_vars
      /\ \A p \in Pollers : p \in Threads /\ cursor[p] \in Nat
    BY StreamIsSession, CatalogAssumption DEF Threads, ThreadInv, TypeOK
<1>1. ASSUME NEW p \in Pollers, Elsewhere(p) PROVE Written(p)' = Written(p)
    BY <1>1 DEF Elsewhere, Written
<1>2. ASSUME NEW p \in Pollers, SettleStep(p) PROVE Written(p)' \subseteq Written(p)
    <2>1. /\ pc[p] \in {"take", "close", "clear"} /\ pc'[p] \notin {"idle", "scan"}
          /\ cursor'[p] = cursor[p]
        BY <1>2, OwnStep DEF SettleStep, TakeActiveFds, CloseFd, Closed, ClearActiveFeature, ScanOK
    <2> QED BY <2>1 DEF Written
<1>3. CASE SessionStep /\ UNCHANGED stream
    <2>1. ASSUME NEW p \in Pollers PROVE Written(p)' \subseteq Written(p)
        <3>1. Elsewhere(p) \/ SettleStep(p)
            BY <1>3, OthersElsewhere DEF SessionStep
        <3> QED BY <3>1, <1>1, <1>2
    <2> QED BY <1>0, <1>3, <2>1, SessionStepKeeps
<1>4. ASSUME NEW p \in Pollers, (BeginSummary(p) \/ ScanTimeout(p)) /\ UNCHANGED stream
      PROVE  StreamInv'
    <2>1. ASSUME NEW q \in Pollers PROVE Written(q)' \subseteq Written(q)
        <3>1. CASE q = p
            <4>1. \/ pc[p] = "idle" /\ cursor[p] = 0 /\ cursor'[p] = 0
                  \/ /\ pc[p] = "scan" /\ pc'[p] \notin {"idle", "scan"}
                     /\ cursor'[p] = cursor[p] + 1
                BY <1>4, OwnStep DEF ScanStep, BeginSummary, ScanTimeout, ScanOK
            <4> QED BY <1>0, <3>1, <4>1 DEF Written
        <3>2. CASE q # p
            BY <1>1, <1>4, <3>2, OthersElsewhere DEF ScanStep
        <3> QED BY <3>1, <3>2
    <2> QED BY <1>0, <1>4, <2>1, SessionStepKeeps
<1>5. ASSUME NEW p \in Pollers, ReadFeature(p) PROVE StreamInv'
    <2> DEFINE f == target[p]
    <2>1. /\ ScanRead(p) /\ state' = state
          /\ tally' = [tally EXCEPT ![p][f] = state[f]]
          /\ last_summary' = last_summary
        BY <1>5 DEF ReadFeature, ScanRead, execution
    <2>2. /\ pc[p] = "scan_read" /\ pc'[p] = "scan" /\ cursor'[p] = cursor[p]
          /\ f = Catalog[cursor[p]] /\ f \in Features /\ state[f] \in States
        <3>1. ScanStep(p)
            BY <2>1 DEF ScanStep
        <3>2. pc[p] = "scan_read" /\ pc'[p] = "scan" /\ cursor'[p] = cursor[p]
            BY <1>0, <2>1 DEF ScanRead, Goto, request, ThreadInv, TypeOK
        <3> QED BY <1>0, <3>2 DEF ScanOK, ThreadInv, LocalsOK, TypeOK
    <2>3. tally' \in [Pollers -> [Features -> States \cup {None}]]
        BY <2>1, <2>2 DEF StreamInv
    <2>4. /\ \A g \in Features : tally'[p][g] = IF g = f THEN state[f] ELSE tally[p][g]
          /\ \A q \in Pollers : q # p => tally'[q] = tally[q]
        BY <2>1, <2>2 DEF StreamInv
    <2>5. state[f] # None
        BY <2>2, BlankAssumption
    <2>6. ASSUME NEW q \in Pollers, NEW i \in Written(q)' PROVE tally'[q][Catalog[i]] # None
        <3>1. CASE q = p
            <4>1. i \in 1..cursor[p]
                BY <2>2, <3>1 DEF Written
            <4>2. cursor[p] \in 0..Len(Catalog)
                BY <1>0 DEF ThreadInv, TypeOK
            <4>3. Catalog[i] \in Features
                BY <4>1, <4>2, CatalogAssumption
            <4>4. i = cursor[p] \/ i \in Written(p)
                BY <1>0, <4>1, <4>2 DEF Written
            <4> QED BY <2>2, <2>4, <2>5, <3>1, <4>3, <4>4 DEF StreamInv
        <3>2. CASE q # p
            <4>1. Elsewhere(q)
                BY <2>1, <3>2, OthersElsewhere DEF ScanStep
            <4> QED BY <1>1, <2>4, <2>6, <3>2, <4>1 DEF StreamInv
        <3> QED BY <3>1, <3>2
    <2>7. ASSUME NEW q \in Pollers, NEW g \in Features
          PROVE  /\ Behind(tally'[q][g], state'[g])
                 /\ Behind(last_summary'[q][g], state'[g])
                 /\ tally'[q][g] # None => Behind(last_summary'[q][g], tally'[q][g])
        <3>1. CASE q = p /\ g = f
            BY <2>1, <2>2, <2>4, <3>1 DEF StreamInv, Behind
        <3>2. CASE ~(q = p /\ g = f)
            BY <2>1, <2>4, <3>2 DEF StreamInv
        <3> QED BY <3>1, <3>2
    <2> HIDE DEF f
    <2> QED BY <2>1, <2>3, <2>6, <2>7 DEF StreamInv
<1>6. ASSUME NEW p \in Pollers, SendSummary(p) PROVE StreamInv'
    <2>1. /\ EndSummary(p) /\ state' = state
          /\ tally' = [tally EXCEPT ![p] = Blank]
          /\ last_summary' = [last_summary EXCEPT ![p] = tally[p]]
        BY <1>6 DEF SendSummary, EndSummary, execution
    <2>2. cursor'[p] = 0
        BY <1>0, <2>1 DEF EndSummary, ThreadInv, TypeOK
    <2>3. /\ tally' \in [Pollers -> [Features -> States \cup {None}]]
          /\ last_summary' \in [Pollers -> [Features -> States \cup {None}]]
        BY <2>1 DEF StreamInv, Blank
    <2>4. ASSUME NEW q \in Pollers, NEW i \in Written(q)' PROVE tally'[q][Catalog[i]] # None
        <3>1. q # p
            BY <2>2, <2>4 DEF Written
        <3>2. Elsewhere(q)
            BY <2>1, <3>1, OthersElsewhere DEF ScanStep
        <3> QED BY <1>1, <2>1, <2>4, <3>1, <3>2 DEF StreamInv
    <2>5. ASSUME NEW q \in Pollers, NEW g \in Features
          PROVE  /\ Behind(tally'[q][g], state'[g])
                 /\ Behind(last_summary'[q][g], state'[g])
                 /\ tally'[q][g] # None => Behind(last_summary'[q][g], tally'[q][g])
        BY <2>1 DEF StreamInv, Blank, Behind
    <2> QED BY <2>3, <2>4, <2>5 DEF StreamInv
<1>7. CASE UNCHANGED stream_vars
    <2>1. \A p \in Pollers : Written(p)' = Written(p)
        BY <1>7 DEF stream_vars, vars, request, Written
    <2> QED BY <1>0, <1>7, <2>1, SessionStepKeeps DEF stream_vars
<1> QED BY <1>3, <1>4, <1>5, <1>6, <1>7 DEF StreamNext, StreamStep

-----------------------------------------------------------------------------
LEMMA StreamInitOK == StreamInit => ScanOK /\ StreamInv
<1> SUFFICES ASSUME StreamInit PROVE ScanOK /\ StreamInv
    OBVIOUS
<1>1. \A p \in Pollers : p \in Threads /\ p \notin Workers
    BY ThreadAssumption DEF Threads
<1>2. ScanOK
    BY <1>1 DEF StreamInit, Init, ScanOK
<1>3. \A p \in Pollers : Written(p) = {}
    BY <1>1 DEF StreamInit, Init, Written
<1> QED BY <1>2, <1>3 DEF StreamInit, StreamInv, Blank, Behind

LEMMA StreamInvariant ==
    ASSUME Serial
    PROVE  StreamSpec => [](ThreadInv /\ SerialInv /\ ScanOK /\ StreamInv)
<1>1. ThreadInv /\ SerialInv /\ ScanOK /\ StreamInv /\ [StreamNext]_stream_vars
          => ScanOK' /\ StreamInv'
    BY StreamStepKeeps, ScanStepOK, StreamIsSession
<1> QED BY <1>1, StreamInitOK, StreamSpecIsSpec, SerialSpec, PTL DEF StreamSpec

(* SummaryJson and the stream: a summary that shows every feature settled  *)
(* is the end of the session, although its entries were read one by one    *)
(* while other threads went on.                                            *)
THEOREM CompleteSummariesAreTrue == ASSUME Serial PROVE StreamSpec => []CompleteIsTrue
<1>1. ASSUME ThreadInv, StreamInv PROVE CompleteIsTrue
    <2> SUFFICES ASSUME NEW p \in Pollers,
                        \A f \in Features : last_summary[p][f] \in Terminal
                 PROVE  last_summary[p] = state
        BY DEF CompleteIsTrue
    <2>1. /\ state \in [Features -> States]
          /\ last_summary[p] \in [Features -> States \cup {None}]
        BY <1>1 DEF ThreadInv, TypeOK, StreamInv
    <2>2. ASSUME NEW f \in Features PROVE last_summary[p][f] = state[f]
        <3>1. Behind(last_summary[p][f], state[f]) /\ last_summary[p][f] \in Terminal
            BY <1>1 DEF StreamInv
        <3>2. last_summary[p][f] # None /\ Phase(last_summary[p][f]) = 2
            BY <3>1, PhaseValues, BlankAssumption DEF States
        <3>3. Phase(state[f]) \in 0..2
            BY <2>1, PhaseNat
        <3> QED BY <3>1, <3>2, <3>3 DEF Behind
    <2> QED BY <2>1, <2>2
<1> QED BY <1>1, StreamInvariant, PTL

(* HandleSummaryStream: from one summary sent to the next no feature goes  *)
(* back.                                                                   *)
THEOREM WatchersSeeProgress == ASSUME Serial PROVE StreamSpec => SummariesGoForward
<1>1. ASSUME ThreadInv, StreamInv, [StreamNext]_stream_vars,
             NEW p \in Pollers, NEW f \in Features
      PROVE  Behind(last_summary[p][f], last_summary'[p][f])
    <2>1. CASE UNCHANGED last_summary
        BY <2>1 DEF Behind
    <2>2. ASSUME NEW q \in Pollers, SendSummary(q)
          PROVE  Behind(last_summary[p][f], last_summary'[p][f])
        <3>1. EndSummary(q) /\ last_summary' = [last_summary EXCEPT ![q] = tally[q]]
            BY <2>2 DEF SendSummary
        <3>2. CASE q = p
            <4>1. tally[p][f] # None
                BY <1>1, <3>1, <3>2, FinishedIsFull
            <4> QED BY <1>1, <3>1, <3>2, <4>1 DEF StreamInv
        <3>3. CASE q # p
            BY <1>1, <3>1, <3>3 DEF StreamInv, Behind
        <3> QED BY <3>2, <3>3
    <2> QED BY <1>1, <2>1, <2>2 DEF StreamNext, StreamStep, ReadFeature, stream, stream_vars
<1>2. ThreadInv /\ StreamInv /\ [StreamNext]_stream_vars =>
          \A p \in Pollers, f \in Features : Behind(last_summary[p][f], last_summary'[p][f])
    BY <1>1
<1>3. (\A p \in Pollers, f \in Features : Behind(last_summary[p][f], last_summary'[p][f])) =>
          \A p \in Pollers, f \in Features :
              LET old == last_summary[p][f]
                  new == last_summary'[p][f]
              IN  old = new \/ Phase(old) < Phase(new) \/ old = None
    BY DEF Behind
<1> QED BY <1>2, <1>3, StreamInvariant, PTL DEF StreamSpec, SummariesGoForward
=============================================================================
