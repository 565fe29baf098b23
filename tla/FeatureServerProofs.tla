-------------------------- MODULE FeatureServerProofs --------------------------
(***************************************************************************)
(* Proofs about FeatureServer for every catalog and every number of client *)
(* threads, pollers and descriptors.  The first part assumes nothing of the*)
(* client; the second assumes that it runs its requests serially, as       *)
(* docs/instruct-coding-agent.md asks (Serial); the third, built on the    *)
(* second, is what becomes of evidence, of sockets, of the contract and of *)
(* active_feature_id.                                                      *)
(***************************************************************************)
EXTENDS FeatureServer, TLAPS

-----------------------------------------------------------------------------
(* The locals of a thread: while it works it has a target, it holds        *)
(* descriptors only in StartFeature or close_active_fds, and settling      *)
(* returns to a caller of the settling functions.                          *)

Holding == {"open", "abort", "activate", "set_fds", "publish", "spawn", "contract", "close"}
ReturnPoints == {"reply", "entry", "check_active", "complete", "unsupported",
                 "scan_read", "done"}

LocalsOK ==
    \A t \in Threads :
        /\ pc[t] \notin {"idle", "scan"} => target[t] \in Features
        /\ pc[t] \notin Holding => fds[t] = {}
        /\ return_to[t] \in ReturnPoints

(* A POST thread activates a feature at most once: before it spawns the    *)
(* worker that bears its name, no such worker has run.                     *)

BeforeSpawn == {"open", "activate", "set_fds", "publish", "spawn"}

WorkersOK ==
    /\ \A w \in Workers : target[w] = w[1]
    /\ \A f \in Features, a \in Agents : state[f] = "Pending" => pc[<<f, a>>] = "unborn"
    /\ \A a \in Agents :
        /\ pc[a] \in BeforeSpawn => pc[<<target[a], a>>] = "unborn"
        /\ Starting(a) => state[target[a]] # "Pending"

ThreadInv == TypeOK /\ LocalsOK /\ WorkersOK

-----------------------------------------------------------------------------
(* Types *)

(* The constructors initialise every field to a value of its type. *)
LEMMA TypeInit == Init => TypeOK
<1> SUFFICES ASSUME Init PROVE TypeOK
    OBVIOUS
<1>1. \A t \in Threads : t \in Workers => t[1] \in Features
    BY DEF Workers
<1> QED
    BY <1>1, CatalogAssumption DEF Init, TypeOK, States, Terminal, Pcs, Ops

(* maybe_timeout leaves a well-typed execution and thread behind. *)
LEMMA MaybeTimeoutType ==
    ASSUME TypeOK, NEW t \in Threads, NEW f \in Features, NEW next \in Pcs, MaybeTimeout(t, f, next)
    PROVE  /\ state' \in [Features -> States]
           /\ pc' \in [Threads -> Pcs]
           /\ finished' \in [Threads -> BOOLEAN]
           /\ return_to' \in [Threads -> Pcs]
<1>1. CASE state[f] = "Active" /\ expired[f]
    <2>1. state' = [state EXCEPT ![f] = "TimedOut"] /\ Settle(t, TRUE, next)
        BY <1>1 DEF MaybeTimeout
    <2>2. "TimedOut" \in States /\ "take" \in Pcs
        BY DEF States, Terminal, Pcs
    <2> QED BY <2>1, <2>2 DEF Settle, Goto, TypeOK
<1>2. CASE ~(state[f] = "Active" /\ expired[f])
    BY <1>2 DEF MaybeTimeout, Goto, settling, TypeOK
<1> QED BY <1>1, <1>2

(* The scan of SummaryJson never runs past the catalog. *)
LEMMA ScanInCatalog ==
    ASSUME TypeOK, NEW t \in Threads, ScanTimeout(t)
    PROVE  /\ cursor[t] + 1 \in 0..Len(Catalog)
           /\ Catalog[cursor[t] + 1] \in Features
<1>1. cursor[t] \in 0..Len(Catalog) /\ cursor[t] < Len(Catalog) /\ Len(Catalog) \in Nat
    BY CatalogAssumption DEF ScanTimeout, TypeOK
<1>2. cursor[t] + 1 \in 0..Len(Catalog) /\ cursor[t] + 1 \in 1..Len(Catalog)
    BY <1>1
<1> QED BY <1>2, CatalogAssumption

(* No step of any thread leaves the types. *)
LEMMA TypeStep == TypeOK /\ LocalsOK /\ [Next]_vars => TypeOK'
<1> SUFFICES ASSUME TypeOK, LocalsOK, [Next]_vars PROVE TypeOK'
    OBVIOUS
<1> USE DEF Goto, execution, sockets, session, request, settling
<1>1. ASSUME NEW t \in Agents, NEW o \in Ops, NEW f \in Features, Receive(t, o, f)
      PROVE  TypeOK'
    BY <1>1 DEF Receive, TypeOK, Pcs
<1>2. ASSUME NEW t \in Pollers, BeginSummary(t) PROVE TypeOK'
    BY <1>2 DEF BeginSummary, TypeOK, Pcs
<1>3. ASSUME NEW t \in Threads, Route(t) PROVE TypeOK'
    <2>1. (IF op[t] = "get" THEN "reply" ELSE "entry") \in Pcs
        BY DEF Pcs
    <2> QED BY <1>3, <2>1, MaybeTimeoutType DEF Route, TypeOK, LocalsOK
<1>4. ASSUME NEW t \in Threads, Enter(t) PROVE TypeOK'
    <2>1. FirstCheck(op[t]) \in Pcs
        BY DEF FirstCheck, Pcs
    <2> QED BY <1>4, <2>1, MaybeTimeoutType DEF Enter, TypeOK, LocalsOK
<1>5. ASSUME NEW t \in Threads, ScanTimeout(t) PROVE TypeOK'
    <2>2. cursor[t] + 1 \in 0..Len(Catalog)
        BY <1>5, ScanInCatalog
    <2>3. Catalog[cursor[t] + 1] \in Features
        BY <1>5, ScanInCatalog
    <2>4. "scan_read" \in Pcs
        BY DEF Pcs
    <2>5. cursor' \in [Threads -> 0..Len(Catalog)]
        BY <1>5, <2>2 DEF ScanTimeout, TypeOK
    <2>6. target' \in [Threads -> Features \cup {None}]
        BY <1>5, <2>3 DEF ScanTimeout, TypeOK
    <2> QED BY <1>5, <2>3, <2>4, <2>5, <2>6, MaybeTimeoutType DEF ScanTimeout, TypeOK
<1>6. ASSUME NEW t \in Threads, ScanRead(t) \/ EndSummary(t) \/ Reply(t) PROVE TypeOK'
    <2>1. 0 \in 0..Len(Catalog)
        BY CatalogAssumption
    <2>2. CASE ScanRead(t)
        BY <1>6, <2>2 DEF ScanRead, TypeOK, Pcs
    <2>3. CASE EndSummary(t)
        BY <1>6, <2>1, <2>3 DEF EndSummary, TypeOK, Pcs
    <2>4. CASE Reply(t)
        BY <1>6, <2>4 DEF Reply, TypeOK, Pcs, Ops
    <2> QED BY <1>6, <2>2, <2>3, <2>4
<1>7. ASSUME NEW t \in Threads,
             CheckActive(t) \/ CheckPending(t) \/ OpenFails(t) \/ SpawnWorker(t)
      PROVE  TypeOK'
    BY <1>7 DEF CheckActive, CheckPending, OpenFails, SpawnWorker, TypeOK, Pcs
<1>8. ASSUME NEW t \in Threads, OpenSocket(t) \/ CloseFd(t) PROVE TypeOK'
    <2>1. CASE OpenSocket(t)
        <3>1. PICK fd \in Fds \ open :
                 /\ open' = open \cup {fd}
                 /\ fds' = [fds EXCEPT ![t] = @ \cup {fd}]
            BY <2>1 DEF OpenSocket
        <3> QED BY <2>1, <3>1 DEF OpenSocket, TypeOK, Pcs
    <2>2. CASE CloseFd(t)
        BY <2>2 DEF CloseFd, TypeOK
    <2> QED BY <1>8, <2>1, <2>2
<1>9. ASSUME NEW t \in Threads, ActivateExecution(t) PROVE TypeOK'
    <2>1. "publish" \in Pcs /\ "set_fds" \in Pcs /\ "Active" \in States
        BY DEF Pcs, States
    <2> QED BY <1>9, <2>1 DEF ActivateExecution, TypeOK
<1>10. ASSUME NEW t \in Threads, SetActiveFds(t) \/ TakeActiveFds(t) PROVE TypeOK'
    <2>1. target[t] \in Features
        BY <1>10 DEF SetActiveFds, TakeActiveFds, LocalsOK
    <2> QED BY <1>10, <2>1 DEF SetActiveFds, TakeActiveFds, TypeOK, Pcs
<1>11. ASSUME NEW t \in Threads, PublishActiveFeature(t) \/ StoreContract(t) PROVE TypeOK'
    <2>1. "spawn" \in Pcs /\ "contract" \in Pcs /\ "reply" \in Pcs
        BY DEF Pcs
    <2>2. CASE PublishActiveFeature(t)
        <3>1. target[t] \in Features
            BY <2>2 DEF PublishActiveFeature, LocalsOK
        <3> QED BY <2>1, <2>2, <3>1 DEF PublishActiveFeature, TypeOK
    <2>3. CASE StoreContract(t)
        BY <2>1, <2>3 DEF StoreContract, TypeOK
    <2> QED BY <1>11, <2>2, <2>3
<1>12. ASSUME NEW t \in Threads, NEW valid \in BOOLEAN,
              CompleteFeature(t, valid) \/ UnsupportedFeature(t, valid)
       PROVE  TypeOK'
    <2>1. "reply" \in Pcs /\ "take" \in Pcs /\ "Passed" \in States /\ "Unsupported" \in States
        BY DEF Pcs, States, Terminal
    <2>2. CASE Reject(t)
        BY <1>12, <2>1, <2>2 DEF CompleteFeature, UnsupportedFeature, Reject, TypeOK
    <2>3. CASE CompleteFeature(t, valid) /\ ~Reject(t)
        <3>1. agent_complete' = [agent_complete EXCEPT ![target[t]] = TRUE]
            BY <2>3 DEF CompleteFeature
        <3>2. CASE state' = [state EXCEPT ![target[t]] = "Passed"] /\ Settle(t, TRUE, "reply")
            BY <2>1, <2>3, <3>1, <3>2 DEF CompleteFeature, Settle, TypeOK
        <3>3. CASE Goto(t, "reply") /\ UNCHANGED <<state, settling>>
            BY <2>1, <2>3, <3>1, <3>3 DEF CompleteFeature, TypeOK
        <3> QED BY <2>3, <3>2, <3>3 DEF CompleteFeature
    <2>4. CASE UnsupportedFeature(t, valid) /\ ~Reject(t)
        <3>1. /\ state' = [state EXCEPT ![target[t]] = "Unsupported"]
              /\ Settle(t, TRUE, "reply")
              /\ UNCHANGED <<agent_complete, network_complete, expired, sockets,
                             session, request>>
            BY <2>4 DEF UnsupportedFeature
        <3> QED BY <2>1, <3>1 DEF Settle, TypeOK
    <2> QED BY <1>12, <2>2, <2>3, <2>4
<1>13. ASSUME NEW t \in Threads, Closed(t) \/ ClearActiveFeature(t) PROVE TypeOK'
    <2>1. return_to[t] \in Pcs /\ "reply" \in Pcs /\ "clear" \in Pcs
        BY DEF TypeOK, Pcs
    <2>2. CASE Closed(t)
        <3>1. CASE Return(t)
            BY <2>1, <2>2, <3>1 DEF Closed, Return, TypeOK
        <3>2. CASE UNCHANGED settling /\ (Goto(t, "clear") \/ Goto(t, "reply"))
            BY <2>1, <2>2, <3>2 DEF Closed, TypeOK
        <3> QED BY <2>2, <3>1, <3>2 DEF Closed
    <2>3. CASE ClearActiveFeature(t)
        <3>1. active_feature_id' \in Features \cup {None}
            BY <2>3 DEF ClearActiveFeature, TypeOK
        <3> QED BY <2>1, <2>3, <3>1 DEF ClearActiveFeature, Return, TypeOK
    <2> QED BY <1>13, <2>2, <2>3
<1>14. ASSUME NEW w \in Workers, WorkerStep(w) PROVE TypeOK'
    <2>1. /\ w \in Threads
          /\ "done" \in Pcs /\ "take" \in Pcs
          /\ "Failed" \in States /\ "Passed" \in States
        BY DEF Threads, Pcs, States, Terminal
    <2>2. CASE MarkFailed(w)
        <3>1. CASE state[target[w]] = "Active"
            <4>1. /\ state' = [state EXCEPT ![target[w]] = "Failed"]
                  /\ pc' = [pc EXCEPT ![w] = "take"]
                  /\ finished' = [finished EXCEPT ![w] = TRUE]
                  /\ return_to' = [return_to EXCEPT ![w] = "done"]
                  /\ UNCHANGED <<network_complete, agent_complete, expired, sockets,
                                 session, request>>
                BY <2>2, <3>1 DEF MarkFailed, Settle
            <4> QED BY <2>1, <4>1 DEF TypeOK
        <3>2. CASE state[target[w]] # "Active"
            BY <2>1, <2>2, <3>2 DEF MarkFailed, TypeOK
        <3> QED BY <3>1, <3>2
    <2>3. CASE MarkNetworkComplete(w)
        <3>1. CASE state[target[w]] = "Active"
            <4>0. target[w] \in Features
                BY <2>1, <2>3 DEF MarkNetworkComplete, LocalsOK
            <4>1. agent_complete[target[w]] \in BOOLEAN
                BY <4>0 DEF TypeOK
            <4>2. NetworkEvidenceSuffices(target[w]) \in BOOLEAN
                BY <4>1, Zenon DEF NetworkEvidenceSuffices
            <4>3. state' \in [Features -> States]
                BY <2>1, <2>3, <3>1 DEF MarkNetworkComplete, TypeOK
            <4>4. /\ network_complete' = [network_complete EXCEPT ![target[w]] = TRUE]
                  /\ pc' = [pc EXCEPT ![w] = "take"]
                  /\ finished' = [finished EXCEPT
                                    ![w] = NetworkEvidenceSuffices(target[w])]
                  /\ return_to' = [return_to EXCEPT ![w] = "done"]
                  /\ UNCHANGED <<agent_complete, expired, sockets, session, request>>
                BY <2>3, <3>1 DEF MarkNetworkComplete, Settle
            <4> QED BY <2>1, <4>2, <4>3, <4>4 DEF TypeOK
        <3>2. CASE state[target[w]] # "Active"
            BY <2>1, <2>3, <3>2 DEF MarkNetworkComplete, TypeOK
        <3> QED BY <3>1, <3>2
    <2> QED BY <1>14, <2>2, <2>3 DEF WorkerStep
<1>15. ASSUME NEW f \in Features, Expire(f) PROVE TypeOK'
    BY <1>15 DEF Expire, TypeOK
<1>16. CASE UNCHANGED vars
    BY <1>16 DEF vars, TypeOK
<1> QED
    BY <1>1, <1>2, <1>3, <1>4, <1>5, <1>6, <1>7, <1>8, <1>9, <1>10, <1>11, <1>12,
       <1>13, <1>14, <1>15, <1>16
       DEF Next, RequestStep, StartStep, ReportStep, ScanStep, SettleStep, Threads

(* LocalsOK: Holding covers every position from the first socket to the    *)
(* last close, and no step moves a thread into it with old descriptors.    *)
LEMMA LocalsStep == TypeOK /\ LocalsOK /\ WorkersOK /\ [Next]_vars => LocalsOK'
<1> SUFFICES ASSUME TypeOK, LocalsOK, WorkersOK, [Next]_vars PROVE LocalsOK'
    OBVIOUS
<1> USE DEF Goto, execution, sockets, session, request, settling, LocalsOK, TypeOK,
            Holding, ReturnPoints
<1>1. ASSUME NEW t \in Agents, NEW o \in Ops, NEW f \in Features, Receive(t, o, f)
      PROVE  LocalsOK'
    BY <1>1 DEF Receive
<1>2. ASSUME NEW t \in Pollers, BeginSummary(t) PROVE LocalsOK'
    BY <1>2 DEF BeginSummary
<1>3. ASSUME NEW t \in Threads, Route(t) PROVE LocalsOK'
    <2> DEFINE next == IF op[t] = "get" THEN "reply" ELSE "entry"
    <2>1. next \in {"reply", "entry"}
        OBVIOUS
    <2>2. MaybeTimeout(t, target[t], next) /\ pc[t] = "route" /\ UNCHANGED <<fds, target>>
        BY <1>3 DEF Route
    <2> HIDE DEF next
    <2>3. \/ /\ pc' = [pc EXCEPT ![t] = next]
             /\ UNCHANGED return_to
          \/ /\ pc' = [pc EXCEPT ![t] = "take"]
             /\ return_to' = [return_to EXCEPT ![t] = next]
        BY <2>2 DEF MaybeTimeout, Settle
    <2> QED BY <2>1, <2>2, <2>3
<1>4. ASSUME NEW t \in Threads, Enter(t) PROVE LocalsOK'
    <2>1. FirstCheck(op[t]) \in {"check_active", "complete", "unsupported", "reply"}
        BY DEF FirstCheck
    <2>2. MaybeTimeout(t, target[t], FirstCheck(op[t])) /\ pc[t] = "entry"
          /\ UNCHANGED <<fds, target>>
        BY <1>4 DEF Enter
    <2>3. \/ /\ pc' = [pc EXCEPT ![t] = FirstCheck(op[t])]
             /\ UNCHANGED return_to
          \/ /\ pc' = [pc EXCEPT ![t] = "take"]
             /\ return_to' = [return_to EXCEPT ![t] = FirstCheck(op[t])]
        BY <2>2 DEF MaybeTimeout, Settle
    <2> QED BY <2>1, <2>2, <2>3
<1>5. ASSUME NEW t \in Pollers, ScanTimeout(t) PROVE LocalsOK'
    <2>1. t \in Threads
        BY DEF Threads
    <2>2. Catalog[cursor[t] + 1] \in Features
        <3> HIDE DEF TypeOK
        <3> QED BY <1>5, <2>1, ScanInCatalog
    <2> QED BY <1>5, <2>1, <2>2 DEF ScanTimeout, MaybeTimeout, Settle
<1>6. ASSUME NEW t \in Threads, ScanRead(t) \/ EndSummary(t) \/ Reply(t) PROVE LocalsOK'
    BY <1>6 DEF ScanRead, EndSummary, Reply
<1>7. ASSUME NEW t \in Threads, CheckActive(t) \/ CheckPending(t) \/ OpenFails(t)
      PROVE  LocalsOK'
    BY <1>7 DEF CheckActive, CheckPending, OpenFails
<1>8. ASSUME NEW t \in Threads, OpenSocket(t) \/ CloseFd(t) PROVE LocalsOK'
    BY <1>8 DEF OpenSocket, CloseFd
<1>9. ASSUME NEW t \in Threads, ActivateExecution(t) \/ SetActiveFds(t) \/ TakeActiveFds(t)
      PROVE  LocalsOK'
    BY <1>9 DEF ActivateExecution, SetActiveFds, TakeActiveFds
<1>10. ASSUME NEW t \in Agents, SpawnWorker(t) PROVE LocalsOK'
    <2>1. t \in Threads /\ target[t] \in Features
        BY <1>10 DEF SpawnWorker, Threads
    <2>2. <<target[t], t>> \in Workers /\ pc[<<target[t], t>>] = "unborn"
        BY <1>10, <2>1 DEF SpawnWorker, Workers, WorkersOK, BeforeSpawn
    <2>3. fds[<<target[t], t>>] = {} /\ target[<<target[t], t>>] \in Features
        BY <2>1, <2>2 DEF Threads
    <2> QED BY <1>10, <2>1, <2>2, <2>3 DEF SpawnWorker, Threads
<1>11. ASSUME NEW t \in Threads, PublishActiveFeature(t) \/ StoreContract(t) PROVE LocalsOK'
    BY <1>11 DEF PublishActiveFeature, StoreContract
<1>12. ASSUME NEW t \in Threads, NEW valid \in BOOLEAN,
              CompleteFeature(t, valid) \/ UnsupportedFeature(t, valid)
       PROVE  LocalsOK'
    <2>1. /\ UNCHANGED <<fds, target>>
          /\ \/ pc' = [pc EXCEPT ![t] = "reply"] /\ UNCHANGED return_to
             \/ /\ pc' = [pc EXCEPT ![t] = "take"]
                /\ return_to' = [return_to EXCEPT ![t] = "reply"]
        <3>1. CASE CompleteFeature(t, valid)
            BY <3>1 DEF CompleteFeature, Reject, Settle
        <3>2. CASE UnsupportedFeature(t, valid)
            BY <3>2 DEF UnsupportedFeature, Reject, Settle
        <3> QED BY <1>12, <3>1, <3>2
    <2>2. pc[t] \in {"complete", "unsupported"}
        BY <1>12 DEF CompleteFeature, UnsupportedFeature
    <2> QED BY <2>1, <2>2
<1>13. ASSUME NEW t \in Threads, Closed(t) \/ ClearActiveFeature(t) PROVE LocalsOK'
    BY <1>13 DEF Closed, ClearActiveFeature, Return
<1>14. ASSUME NEW w \in Workers, WorkerStep(w) PROVE LocalsOK'
    BY <1>14 DEF WorkerStep, MarkFailed, MarkNetworkComplete, Settle, Threads
<1>15. ASSUME NEW f \in Features, Expire(f) PROVE LocalsOK'
    BY <1>15 DEF Expire
<1>16. CASE UNCHANGED vars
    BY <1>16 DEF vars
<1> QED
    BY <1>1, <1>2, <1>3, <1>4, <1>5, <1>6, <1>7, <1>8, <1>9, <1>10, <1>11, <1>12,
       <1>13, <1>14, <1>15, <1>16
       DEF Next, RequestStep, StartStep, ReportStep, ScanStep, SettleStep, Threads

(* WorkersOK: only the thread that found the feature Pending spawns the    *)
(* worker, and no execution ever returns to Pending.                       *)
LEMMA WorkersStep ==
    TypeOK /\ LocalsOK /\ WorkersOK /\ [Next]_vars => WorkersOK'
<1> SUFFICES ASSUME TypeOK, LocalsOK, WorkersOK, [Next]_vars PROVE WorkersOK'
    OBVIOUS
<1> USE ThreadAssumption DEF Goto, execution, sockets, session, request, settling,
        WorkersOK, Workers, Threads, Starting, BeforeSpawn
<1>0. /\ state \in [Features -> States]
      /\ pc \in [Threads -> Pcs]
      /\ target \in [Threads -> Features \cup {None}]
      /\ \A t \in Threads : pc[t] \notin {"idle", "scan"} => target[t] \in Features
      /\ \A t \in Threads : return_to[t] \in ReturnPoints
    BY DEF TypeOK, LocalsOK
<1>1. ASSUME NEW t \in Agents, NEW o \in Ops, NEW f \in Features, Receive(t, o, f)
      PROVE  WorkersOK'
    BY <1>0, <1>1 DEF Receive
<1>2. ASSUME NEW t \in Agents \cup Pollers, Route(t) \/ Enter(t) PROVE WorkersOK'
    <2>1. target' = target /\ pc[t] \in {"route", "entry"}
        BY <1>2 DEF Route, Enter
    <2>2. PICK next \in {"reply", "entry", "check_active", "complete", "unsupported"} :
             MaybeTimeout(t, target[t], next)
        BY <1>2 DEF Route, Enter, FirstCheck
    <2>3. \E q \in {"take", next} : pc' = [pc EXCEPT ![t] = q]
        BY <2>2 DEF MaybeTimeout, Settle
    <2>4. state' = state \/ state' = [state EXCEPT ![target[t]] = "TimedOut"]
        BY <2>2 DEF MaybeTimeout
    <2> QED BY <1>0, <2>1, <2>3, <2>4
<1>3. ASSUME NEW t \in Pollers, ScanTimeout(t) PROVE WorkersOK'
    <2> DEFINE f == Catalog[cursor[t] + 1]
    <2>1. target' = [target EXCEPT ![t] = f] /\ pc[t] = "scan"
        BY <1>3 DEF ScanTimeout
    <2>2. MaybeTimeout(t, f, "scan_read")
        BY <1>3 DEF ScanTimeout
    <2>3. \E q \in {"take", "scan_read"} : pc' = [pc EXCEPT ![t] = q]
        BY <2>2 DEF MaybeTimeout, Settle
    <2>4. state' = state \/ state' = [state EXCEPT ![f] = "TimedOut"]
        BY <2>2 DEF MaybeTimeout
    <2> HIDE DEF f
    <2> QED BY <1>0, <2>1, <2>3, <2>4
<1>4. ASSUME NEW t \in Agents \cup Pollers,
             BeginSummary(t) \/ ScanRead(t) \/ EndSummary(t) \/ Reply(t)
      PROVE  WorkersOK'
    BY <1>0, <1>4 DEF BeginSummary, ScanRead, EndSummary, Reply
<1>5. ASSUME NEW t \in Agents, CheckActive(t) \/ CheckPending(t) PROVE WorkersOK'
    BY <1>0, <1>5 DEF CheckActive, CheckPending
<1>6. ASSUME NEW t \in Agents, OpenSocket(t) \/ OpenFails(t) PROVE WorkersOK'
    BY <1>0, <1>6 DEF OpenSocket, OpenFails
<1>7. ASSUME NEW t \in Agents,
             ActivateExecution(t) \/ SetActiveFds(t) \/ PublishActiveFeature(t)
      PROVE  WorkersOK'
    BY <1>0, <1>7 DEF ActivateExecution, SetActiveFds, PublishActiveFeature
<1>8. ASSUME NEW t \in Agents, SpawnWorker(t) PROVE WorkersOK'
    BY <1>0, <1>8 DEF SpawnWorker
<1>9. ASSUME NEW t \in Agents, StoreContract(t) PROVE WorkersOK'
    BY <1>0, <1>9 DEF StoreContract
<1>10. ASSUME NEW t \in Agents, NEW valid \in BOOLEAN,
              CompleteFeature(t, valid) \/ UnsupportedFeature(t, valid)
       PROVE  WorkersOK'
    <2>1. target' = target /\ pc[t] \in {"complete", "unsupported"}
        BY <1>10 DEF CompleteFeature, UnsupportedFeature
    <2>2. \E q \in {"take", "reply"} : pc' = [pc EXCEPT ![t] = q]
        BY <1>10 DEF CompleteFeature, UnsupportedFeature, Reject, Settle
    <2>3. \/ state' = state
          \/ \E s \in Terminal : state' = [state EXCEPT ![target[t]] = s]
        BY <1>10 DEF CompleteFeature, UnsupportedFeature, Reject, Settle, Terminal
    <2> QED BY <1>0, <2>1, <2>2, <2>3 DEF Terminal
<1>11. ASSUME NEW t \in Threads, TakeActiveFds(t) \/ CloseFd(t) PROVE WorkersOK'
    BY <1>0, <1>11 DEF TakeActiveFds, CloseFd
<1>12. ASSUME NEW t \in Threads, Closed(t) \/ ClearActiveFeature(t) PROVE WorkersOK'
    BY <1>0, <1>12 DEF Closed, ClearActiveFeature, Return, ReturnPoints
<1>13. ASSUME NEW w \in Workers, WorkerStep(w) PROVE WorkersOK'
    <2>1. target' = target /\ pc[w] = "working"
        BY <1>13 DEF WorkerStep, MarkFailed, MarkNetworkComplete
    <2>2. \E q \in {"take", "done"} : pc' = [pc EXCEPT ![w] = q]
        BY <1>13 DEF WorkerStep, MarkFailed, MarkNetworkComplete, Settle
    <2>3. \/ state' = state
          \/ \E s \in Terminal : state' = [state EXCEPT ![target[w]] = s]
        BY <1>13 DEF WorkerStep, MarkFailed, MarkNetworkComplete, Terminal
    <2> QED BY <1>0, <2>1, <2>2, <2>3 DEF Terminal
<1>14. ASSUME NEW f \in Features, Expire(f) PROVE WorkersOK'
    BY <1>14 DEF Expire
<1>15. CASE UNCHANGED vars
    BY <1>15 DEF vars
<1> QED
    BY <1>1, <1>2, <1>3, <1>4, <1>5, <1>6, <1>7, <1>8, <1>9, <1>10, <1>11, <1>12,
       <1>13, <1>14, <1>15
       DEF Next, RequestStep, StartStep, ReportStep, ScanStep, SettleStep

-----------------------------------------------------------------------------
(* Descriptor ownership *)

(* A step that leaves the sockets alone and makes no thread the owner of   *)
(* more than it owned preserves ownership.                                 *)
LEMMA QuietStep ==
    ASSUME DescriptorOwnership, UNCHANGED sockets,
           \A t \in Threads : Owned(t)' \subseteq Owned(t)
    PROVE  DescriptorOwnership'
BY DEF DescriptorOwnership, sockets

(* One thread moves, and to a position that owns what it already owned, or *)
(* with nothing in hand.                                                   *)
LEMMA MoveStep ==
    ASSUME TypeOK, LocalsOK, DescriptorOwnership, UNCHANGED sockets,
           NEW t \in Threads, NEW q, pc' = [pc EXCEPT ![t] = q],
           \/ q \notin {"open", "abort", "activate", "set_fds", "close"}
           \/ pc[t] \in {"open", "abort", "activate", "set_fds", "close"}
           \/ fds[t] = {}
    PROVE  DescriptorOwnership'
<1>1. \A u \in Threads : Owned(u)' \subseteq Owned(u)
    BY DEF Owned, TypeOK, sockets
<1> QED BY <1>1, QuietStep

(* Ownership is inductive with the facts about threads. *)
LEMMA OwnershipStep ==
    ThreadInv /\ DescriptorOwnership /\ [Next]_vars => DescriptorOwnership'
<1> SUFFICES ASSUME TypeOK, LocalsOK, WorkersOK, DescriptorOwnership, [Next]_vars
             PROVE  DescriptorOwnership'
    BY DEF ThreadInv
<1> USE DEF Goto
<1> DEFINE Quiet(t) == UNCHANGED sockets /\ \E q : pc' = [pc EXCEPT ![t] = q] /\
               \/ q \notin {"open", "abort", "activate", "set_fds", "close"}
               \/ pc[t] \in {"open", "abort", "activate", "set_fds", "close"}
               \/ fds[t] = {}
<1>0. ASSUME NEW t \in Threads, Quiet(t) PROVE DescriptorOwnership'
    BY <1>0, MoveStep
<1>1. ASSUME NEW t \in Agents, NEW o \in Ops, NEW f \in Features, Receive(t, o, f)
      PROVE  Quiet(t)
    <2>1. UNCHANGED sockets /\ \E q \in {"route"} : pc' = [pc EXCEPT ![t] = q]
        BY <1>1 DEF Receive
    <2> QED BY <2>1
<1>2. ASSUME NEW t \in Agents, Route(t) \/ Enter(t) PROVE Quiet(t)
    <2>1. PICK next \in {"reply", "entry", "check_active", "complete", "unsupported"} :
             MaybeTimeout(t, target[t], next)
        BY <1>2 DEF Route, Enter, FirstCheck
    <2>2. \E q \in {"take", next} : pc' = [pc EXCEPT ![t] = q]
        BY <2>1 DEF MaybeTimeout, Settle
    <2>3. UNCHANGED sockets
        BY <1>2 DEF Route, Enter
    <2> QED BY <2>2, <2>3
<1>4. ASSUME NEW t \in Pollers, ScanStep(t) PROVE Quiet(t)
    <2>1. CASE ScanTimeout(t)
        <3>1. MaybeTimeout(t, Catalog[cursor[t] + 1], "scan_read") /\ UNCHANGED sockets
            BY <2>1 DEF ScanTimeout
        <3> QED BY <2>1, <3>1 DEF ScanTimeout, MaybeTimeout, Settle
    <2>2. CASE BeginSummary(t) \/ ScanRead(t) \/ EndSummary(t)
        BY <2>2 DEF BeginSummary, ScanRead, EndSummary
    <2> QED BY <1>4, <2>1, <2>2 DEF ScanStep
<1>5. ASSUME NEW t \in Agents, Reply(t) \/ CheckActive(t) \/ OpenFails(t) PROVE Quiet(t)
    BY <1>5 DEF Reply, CheckActive, OpenFails
<1>6. ASSUME NEW t \in Agents, CheckPending(t) PROVE Quiet(t)
    <2>1. fds[t] = {}
        BY <1>6 DEF CheckPending, LocalsOK, Holding, Threads
    <2> QED BY <1>6, <2>1 DEF CheckPending
<1>7. ASSUME NEW t \in Agents, ActivateExecution(t) \/ PublishActiveFeature(t)
      PROVE  Quiet(t)
    BY <1>7 DEF ActivateExecution, PublishActiveFeature
<1>8. ASSUME NEW t \in Agents, NEW valid \in BOOLEAN,
             CompleteFeature(t, valid) \/ UnsupportedFeature(t, valid)
      PROVE  Quiet(t)
    <2>1. UNCHANGED sockets
        BY <1>8 DEF CompleteFeature, UnsupportedFeature
    <2>2. \E q \in {"take", "reply"} : pc' = [pc EXCEPT ![t] = q]
        BY <1>8 DEF CompleteFeature, UnsupportedFeature, Reject, Settle
    <2> QED BY <2>1, <2>2
<1>9. ASSUME NEW w \in Workers, WorkerStep(w) PROVE Quiet(w)
    BY <1>9 DEF WorkerStep, MarkFailed, MarkNetworkComplete, Settle
<1>10. ASSUME NEW t \in Threads, Closed(t) \/ ClearActiveFeature(t) PROVE Quiet(t)
    <2>1. return_to[t] \notin {"open", "abort", "activate", "set_fds", "close"}
        BY DEF LocalsOK, ReturnPoints
    <2> QED BY <1>10, <2>1 DEF Closed, ClearActiveFeature, Return
<1> HIDE DEF Quiet
<1>11. ASSUME NEW t \in Agents, SpawnWorker(t) PROVE DescriptorOwnership'
    <2>1. \A u \in Threads : Owned(u)' \subseteq Owned(u)
        BY <1>11 DEF SpawnWorker, Owned, TypeOK, sockets
    <2>2. UNCHANGED sockets
        BY <1>11 DEF SpawnWorker
    <2> QED BY <2>1, <2>2, QuietStep
<1>12. ASSUME NEW t \in Agents, OpenSocket(t) PROVE DescriptorOwnership'
    <2>1. PICK fd \in Fds \ open :
             /\ open' = open \cup {fd}
             /\ fds' = [fds EXCEPT ![t] = @ \cup {fd}]
        BY <1>12 DEF OpenSocket
    <2>2. t \in Threads /\ pc[t] = "open" /\ active_fds' = active_fds
        BY <1>12 DEF OpenSocket, Threads
    <2>3. \E q \in {"open", "activate"} : pc' = [pc EXCEPT ![t] = q]
        BY <1>12 DEF OpenSocket
    <2>4. \A u \in Threads : Owned(u)' = IF u = t THEN Owned(u) \cup {fd} ELSE Owned(u)
        BY <2>1, <2>2, <2>3 DEF Owned, TypeOK
    <2> QED BY <2>1, <2>2, <2>4 DEF DescriptorOwnership
<1>13. ASSUME NEW t \in Threads, CloseFd(t) PROVE DescriptorOwnership'
    <2>1. PICK fd \in fds[t] :
             /\ open' = open \ {fd}
             /\ fds' = [fds EXCEPT ![t] = @ \ {fd}]
        BY <1>13 DEF CloseFd
    <2>2. pc[t] \in {"close", "abort"} /\ pc' = pc /\ active_fds' = active_fds
        BY <1>13 DEF CloseFd
    <2>3. fd \in Owned(t)
        BY <2>1, <2>2 DEF Owned
    <2>4. \A u \in Threads : Owned(u)' = IF u = t THEN Owned(u) \ {fd} ELSE Owned(u)
        BY <2>1, <2>2 DEF Owned, TypeOK
    <2> QED BY <2>1, <2>2, <2>3, <2>4 DEF DescriptorOwnership
<1>14. ASSUME NEW t \in Agents, SetActiveFds(t) PROVE DescriptorOwnership'
    <2>1. /\ t \in Threads /\ pc[t] = "set_fds" /\ target[t] \in Features
          /\ open' = open /\ fds' = fds
          /\ active_fds' = [active_fds EXCEPT ![target[t]] = fds[t]]
          /\ pc' = [pc EXCEPT ![t] = "publish"]
        BY <1>14 DEF SetActiveFds, LocalsOK, Threads
    <2>2. Owned(t) = fds[t]
        BY <2>1 DEF Owned
    <2>3. \A u \in Threads : Owned(u)' = IF u = t THEN {} ELSE Owned(u)
        BY <2>1 DEF Owned, TypeOK
    <2>4. \A f \in Features :
             active_fds'[f] = IF f = target[t] THEN Owned(t) ELSE active_fds[f]
        BY <2>1, <2>2 DEF TypeOK
    <2> QED BY <2>1, <2>3, <2>4 DEF DescriptorOwnership
<1>15. ASSUME NEW t \in Agents, StoreContract(t) PROVE DescriptorOwnership'
    <2>1. /\ t \in Threads /\ open' = open /\ active_fds' = active_fds
          /\ \A u \in Threads : Owned(u)' \subseteq Owned(u)
        BY <1>15 DEF StoreContract, Owned, TypeOK, Threads
    <2> QED BY <2>1 DEF DescriptorOwnership
<1>16. ASSUME NEW t \in Threads, TakeActiveFds(t) PROVE DescriptorOwnership'
    <2>1. /\ pc[t] = "take" /\ target[t] \in Features /\ open' = open
          /\ fds' = [fds EXCEPT ![t] = active_fds[target[t]]]
          /\ active_fds' = [active_fds EXCEPT ![target[t]] = {}]
          /\ pc' = [pc EXCEPT ![t] = "close"]
        BY <1>16 DEF TakeActiveFds, LocalsOK
    <2>2. Owned(t) = {}
        BY <2>1 DEF Owned
    <2>3. \A u \in Threads :
             Owned(u)' = IF u = t THEN active_fds[target[t]] ELSE Owned(u)
        BY <2>1 DEF Owned, TypeOK
    <2>4. \A f \in Features :
             active_fds'[f] = IF f = target[t] THEN {} ELSE active_fds[f]
        BY <2>1 DEF TypeOK
    <2> QED BY <2>1, <2>3, <2>4 DEF DescriptorOwnership
<1>17. CASE UNCHANGED vars \/ \E f \in Features : Expire(f)
    <2>1. UNCHANGED sockets /\ pc' = pc
        BY <1>17 DEF vars, Expire
    <2>2. \A u \in Threads : Owned(u)' \subseteq Owned(u)
        BY <2>1 DEF Owned, sockets
    <2> QED BY <2>1, <2>2, QuietStep
<1> QED
    BY <1>0, <1>1, <1>2, <1>4, <1>5, <1>6, <1>7, <1>8, <1>9, <1>10, <1>11, <1>12,
       <1>13, <1>14, <1>15, <1>16, <1>17
       DEF Next, RequestStep, StartStep, ReportStep, SettleStep, Threads

-----------------------------------------------------------------------------
(* Theorems for any client *)

LEMMA ThreadInvInit == Init => ThreadInv /\ DescriptorOwnership
<1> SUFFICES ASSUME Init PROVE ThreadInv /\ DescriptorOwnership
    OBVIOUS
<1>1. \A t \in Threads : t \in Workers => t[1] \in Features
    BY DEF Workers
<1>2. TypeOK
    BY TypeInit
<1>3. LocalsOK
    BY <1>1 DEF Init, LocalsOK, ReturnPoints
<1>4. WorkersOK
    BY ThreadAssumption DEF Init, WorkersOK, Workers, Threads, BeforeSpawn, Starting
<1>5. DescriptorOwnership
    BY DEF Init, DescriptorOwnership, Owned
<1> QED BY <1>2, <1>3, <1>4, <1>5 DEF ThreadInv

LEMMA ThreadInvStep == ThreadInv /\ [Next]_vars => ThreadInv'
BY TypeStep, LocalsStep, WorkersStep DEF ThreadInv

(* Every field and local keeps its type, whatever the client does. *)
THEOREM TypeCorrect == Spec => []TypeOK
<1>1. ThreadInv => TypeOK
    BY DEF ThreadInv
<1> QED BY <1>1, ThreadInvInit, ThreadInvStep, PTL DEF Spec

(* No descriptor is closed twice or by a thread it does not belong to, for *)
(* any number of requests, polls and workers in flight.                    *)
THEOREM OwnershipHolds == Spec => []DescriptorOwnership
<1> QED BY ThreadInvInit, ThreadInvStep, OwnershipStep, PTL DEF Spec

-----------------------------------------------------------------------------
(* What a step does to the verdicts *)

TimesOut(f) ==
    /\ state[f] = "Active"
    /\ state' = [state EXCEPT ![f] = "TimedOut"]
    /\ UNCHANGED <<network_complete, agent_complete>>

(* Verdicts and evidence change in five places only. *)
LEMMA VerdictSteps ==
    ASSUME TypeOK, LocalsOK, [Next]_vars
    PROVE  \/ UNCHANGED <<state, network_complete, agent_complete>>
           \/ \E f \in Features : TimesOut(f)
           \/ \E a \in Agents : ActivateExecution(a)
           \/ \E a \in Agents, valid \in BOOLEAN :
                  CompleteFeature(a, valid) \/ UnsupportedFeature(a, valid)
           \/ \E w \in Workers : WorkerStep(w)
<1> DEFINE Quiet == UNCHANGED <<state, network_complete, agent_complete>>
<1> USE DEF execution
<1>1. ASSUME NEW t \in Agents, Route(t) \/ Enter(t)
      PROVE  Quiet \/ \E f \in Features : TimesOut(f)
    <2>1. UNCHANGED <<network_complete, agent_complete>> /\ target[t] \in Features
        BY <1>1 DEF Route, Enter, LocalsOK, Threads
    <2>2. PICK next : MaybeTimeout(t, target[t], next)
        BY <1>1 DEF Route, Enter
    <2>3. TimesOut(target[t]) \/ state' = state
        BY <2>1, <2>2 DEF MaybeTimeout, TimesOut
    <2> QED BY <2>1, <2>3
<1>2. ASSUME NEW t \in Pollers, ScanTimeout(t)
      PROVE  Quiet \/ \E f \in Features : TimesOut(f)
    <2>1. Catalog[cursor[t] + 1] \in Features
        BY <1>2, ScanInCatalog DEF Threads
    <2>2. UNCHANGED <<network_complete, agent_complete>>
          /\ MaybeTimeout(t, Catalog[cursor[t] + 1], "scan_read")
        BY <1>2 DEF ScanTimeout
    <2>3. TimesOut(Catalog[cursor[t] + 1]) \/ state' = state
        BY <2>2 DEF MaybeTimeout, TimesOut
    <2> QED BY <2>1, <2>2, <2>3
<1>3. ASSUME NEW t \in Threads,
             \/ BeginSummary(t) \/ ScanRead(t) \/ EndSummary(t) \/ Reply(t)
             \/ CheckActive(t) \/ CheckPending(t) \/ OpenSocket(t) \/ OpenFails(t)
             \/ SetActiveFds(t) \/ PublishActiveFeature(t) \/ SpawnWorker(t)
             \/ StoreContract(t) \/ SettleStep(t)
      PROVE  Quiet
    BY <1>3 DEF BeginSummary, ScanRead, EndSummary, Reply, CheckActive, CheckPending,
           OpenSocket, OpenFails, SetActiveFds, PublishActiveFeature, SpawnWorker,
           StoreContract, SettleStep, TakeActiveFds, CloseFd, Closed, ClearActiveFeature
<1>4. ASSUME NEW t \in Agents, NEW o \in Ops, NEW f \in Features, Receive(t, o, f)
      PROVE  Quiet
    BY <1>4 DEF Receive
<1>5. ASSUME UNCHANGED vars \/ \E f \in Features : Expire(f) PROVE Quiet
    BY <1>5 DEF vars, Expire
<1> HIDE DEF Quiet
<1>6. CASE \E a \in Agents : RequestStep(a)
    BY <1>6, <1>1, <1>3 DEF RequestStep, StartStep, ReportStep, Threads, Quiet
<1>7. CASE \E p \in Pollers : ScanStep(p)
    BY <1>7, <1>2, <1>3 DEF ScanStep, Threads, Quiet
<1> QED BY <1>3, <1>4, <1>5, <1>6, <1>7 DEF Next, Quiet

(* A pass is earned: the two functions that set Passed do so on the        *)
(* evidence of the completion mode, and evidence is never withdrawn.       *)
LEMMA PassedStep ==
    ThreadInv /\ PassedIsEarned /\ [Next]_vars => PassedIsEarned'
<1> SUFFICES ASSUME TypeOK, LocalsOK, PassedIsEarned, [Next]_vars PROVE PassedIsEarned'
    BY DEF ThreadInv
<1>0. /\ state \in [Features -> States]
      /\ network_complete \in [Features -> BOOLEAN]
      /\ agent_complete \in [Features -> BOOLEAN]
    BY DEF TypeOK
<1>1. CASE UNCHANGED <<state, network_complete, agent_complete>>
    BY <1>1 DEF PassedIsEarned
<1>2. CASE \E f \in Features : TimesOut(f)
    BY <1>0, <1>2 DEF PassedIsEarned, TimesOut
<1>3. CASE \E a \in Agents : ActivateExecution(a)
    BY <1>0, <1>3 DEF PassedIsEarned, ActivateExecution
<1>4. ASSUME NEW a \in Agents, NEW valid \in BOOLEAN, CompleteFeature(a, valid)
      PROVE  PassedIsEarned'
    BY <1>0, <1>4 DEF PassedIsEarned, CompleteFeature, AgentEvidenceSuffices, Reject, Settle
<1>5. ASSUME NEW a \in Agents, NEW valid \in BOOLEAN, UnsupportedFeature(a, valid)
      PROVE  PassedIsEarned'
    BY <1>0, <1>5 DEF PassedIsEarned, UnsupportedFeature, Reject
<1>6. ASSUME NEW w \in Workers, WorkerStep(w) PROVE PassedIsEarned'
    BY <1>0, <1>6 DEF PassedIsEarned, WorkerStep, MarkFailed, MarkNetworkComplete,
           NetworkEvidenceSuffices
<1> QED BY <1>1, <1>2, <1>3, <1>4, <1>5, <1>6, VerdictSteps

(* Whatever the client sends and however its requests interleave, a Passed *)
(* feature has the evidence its completion mode asks for.                  *)
THEOREM PassesAreEarned == Spec => []PassedIsEarned
<1>1. Init => PassedIsEarned
    BY DEF Init, PassedIsEarned
<1> QED BY <1>1, PassedStep, ThreadInvInit, ThreadInvStep, PTL DEF Spec

-----------------------------------------------------------------------------
(* A client that runs its requests serially *)

Serial == \A a, b \in Agents : a = b

\* A thread that has ended a feature and is on its way to clear the session
Concluding(t) ==
    \/ pc[t] = "clear"
    \/ pc[t] \in {"take", "close"} /\ finished[t]

(* The two checks of StartFeature are in separate critical sections and    *)
(* what they found is used later; for a serial client it is still true     *)
(* then.  An active feature is the published one, or about to be.          *)
SerialInv ==
    /\ \A a \in Agents :
        /\ pc[a] \in {"check_pending", "open", "activate", "set_fds", "publish"}
               => active_feature_id = None
        /\ pc[a] \in {"open", "activate"} => state[target[a]] = "Pending"
    /\ \A f \in Features : state[f] = "Active" =>
        \/ active_feature_id = f
        \/ \E a \in Agents : pc[a] \in {"set_fds", "publish"} /\ target[a] = f
    /\ \A t \in Threads : Concluding(t) => state[target[t]] \in Terminal

(* One step of maybe_timeout by a thread that is not starting a feature *)
LEMMA SerialTimeout ==
    ASSUME TypeOK, LocalsOK, SerialInv, NEW t \in Threads, NEW f \in Features,
           NEW next \in ReturnPoints \cup {"scan_read"}, MaybeTimeout(t, f, next),
           pc[t] \in {"route", "entry", "scan"},
           active_feature_id' = active_feature_id,
           target' = [target EXCEPT ![t] = f]
    PROVE  SerialInv'
<1>0. /\ state \in [Features -> States]
      /\ pc \in [Threads -> Pcs]
      /\ target \in [Threads -> Features \cup {None}]
      /\ finished \in [Threads -> BOOLEAN]
      /\ Agents \subseteq Threads
      /\ \A u \in Threads : Concluding(u) => target[u] \in Features
    BY DEF TypeOK, LocalsOK, Threads, Concluding
<1>1. CASE state[f] = "Active" /\ expired[f]
    <2>1. /\ state' = [state EXCEPT ![f] = "TimedOut"]
          /\ pc' = [pc EXCEPT ![t] = "take"]
          /\ finished' = [finished EXCEPT ![t] = TRUE]
        BY <1>1 DEF MaybeTimeout, Settle, Goto
    <2> QED BY <1>0, <1>1, <2>1 DEF SerialInv, Concluding, Terminal
<1>2. CASE ~(state[f] = "Active" /\ expired[f])
    <2>1. state' = state /\ pc' = [pc EXCEPT ![t] = next] /\ finished' = finished
        BY <1>2 DEF MaybeTimeout, Goto, settling
    <2> QED BY <1>0, <2>1 DEF SerialInv, Concluding, ReturnPoints
<1> QED BY <1>1, <1>2

LEMMA SerialStep ==
    ASSUME Serial, ThreadInv, SerialInv, [Next]_vars
    PROVE  SerialInv'
<1>0. /\ state \in [Features -> States]
      /\ pc \in [Threads -> Pcs]
      /\ target \in [Threads -> Features \cup {None}]
      /\ finished \in [Threads -> BOOLEAN]
      /\ Agents \subseteq Threads /\ Workers \subseteq Threads
      /\ Agents \cap Workers = {}
      /\ \A u \in Threads : pc[u] \notin {"idle", "scan"} => target[u] \in Features
      /\ \A u \in Threads : return_to[u] \in ReturnPoints
      /\ None \notin Features
      /\ TypeOK /\ LocalsOK
    BY ThreadAssumption, NoneAssumption DEF TypeOK, LocalsOK, Threads, ThreadInv
<1> USE DEF Goto, execution, sockets, session, request, settling, SerialInv, Concluding
<1>1. ASSUME NEW t \in Agents, NEW o \in Ops, NEW f \in Features, Receive(t, o, f)
      PROVE  SerialInv'
    BY <1>0, <1>1 DEF Receive
<1>2. ASSUME NEW t \in Agents, Route(t) \/ Enter(t) PROVE SerialInv'
    <2>1. /\ pc[t] \in {"route", "entry"} /\ target' = target
          /\ active_feature_id' = active_feature_id
        BY <1>2 DEF Route, Enter
    <2>2. PICK next \in ReturnPoints : MaybeTimeout(t, target[t], next)
        BY <1>2 DEF Route, Enter, FirstCheck, ReturnPoints
    <2>3. target' = [target EXCEPT ![t] = target[t]] /\ target[t] \in Features /\ t \in Threads
        BY <1>0, <2>1
    <2> HIDE DEF SerialInv
    <2> QED BY <1>0, <2>1, <2>2, <2>3, SerialTimeout
<1>3. ASSUME NEW t \in Pollers, ScanTimeout(t) PROVE SerialInv'
    <2> DEFINE f == Catalog[cursor[t] + 1]
    <2>1. f \in Features /\ t \in Threads
        BY <1>0, <1>3, ScanInCatalog DEF Threads
    <2>2. /\ pc[t] = "scan" /\ target' = [target EXCEPT ![t] = f]
          /\ active_feature_id' = active_feature_id
          /\ MaybeTimeout(t, f, "scan_read")
        BY <1>3 DEF ScanTimeout
    <2> HIDE DEF SerialInv, f
    <2> QED BY <1>0, <2>1, <2>2, SerialTimeout
<1>4. ASSUME NEW t \in Agents \cup Pollers,
             BeginSummary(t) \/ ScanRead(t) \/ EndSummary(t) \/ Reply(t)
      PROVE  SerialInv'
    BY <1>0, <1>4 DEF BeginSummary, ScanRead, EndSummary, Reply, Threads
<1>5. ASSUME NEW t \in Agents, CheckActive(t) \/ CheckPending(t) PROVE SerialInv'
    BY <1>0, <1>5 DEF CheckActive, CheckPending
<1>6. ASSUME NEW t \in Agents, OpenSocket(t) \/ OpenFails(t) PROVE SerialInv'
    BY <1>0, <1>6 DEF OpenSocket, OpenFails
<1>7. ASSUME NEW t \in Agents, ActivateExecution(t) PROVE SerialInv'
    <2>1. /\ state' = [state EXCEPT ![target[t]] = "Active"] /\ target[t] \in Features
          /\ target' = target /\ active_feature_id' = active_feature_id
          /\ finished' = finished /\ pc[t] = "activate"
          /\ \E q \in {"set_fds", "publish"} : pc' = [pc EXCEPT ![t] = q]
        BY <1>0, <1>7 DEF ActivateExecution
    <2>2. state[target[t]] = "Pending" /\ active_feature_id = None
        BY <2>1
    <2> QED BY <1>0, <2>1, <2>2 DEF Serial, Terminal
<1>8. ASSUME NEW t \in Agents, SetActiveFds(t) PROVE SerialInv'
    BY <1>0, <1>8 DEF SetActiveFds, Serial
<1>9. ASSUME NEW t \in Agents, PublishActiveFeature(t) PROVE SerialInv'
    BY <1>0, <1>9, Serial DEF PublishActiveFeature, Serial
<1>10. ASSUME NEW t \in Agents, SpawnWorker(t) PROVE SerialInv'
    <2>1. <<target[t], t>> \in Workers /\ t # <<target[t], t>>
        BY <1>0, <1>10 DEF SpawnWorker, Workers
    <2> QED BY <1>0, <1>10, <2>1 DEF SpawnWorker
<1>11. ASSUME NEW t \in Agents, StoreContract(t) PROVE SerialInv'
    BY <1>0, <1>11 DEF StoreContract
<1>12. ASSUME NEW t \in Agents, NEW valid \in BOOLEAN,
              CompleteFeature(t, valid) \/ UnsupportedFeature(t, valid)
       PROVE  SerialInv'
    <2>1. /\ target' = target /\ active_feature_id' = active_feature_id
          /\ pc[t] \in {"complete", "unsupported"}
          /\ target[t] \in Features
        BY <1>0, <1>12 DEF CompleteFeature, UnsupportedFeature
    <2>2. \/ /\ state' = state /\ finished' = finished
             /\ pc' = [pc EXCEPT ![t] = "reply"]
          \/ /\ \E v \in {"Passed", "Unsupported"} : state' = [state EXCEPT ![target[t]] = v]
             /\ pc' = [pc EXCEPT ![t] = "take"]
             /\ finished' = [finished EXCEPT ![t] = TRUE]
        BY <1>12 DEF CompleteFeature, UnsupportedFeature, Reject, Settle
    <2>3. t \in Threads /\ \A a \in Agents : a = t
        BY <1>0, Serial DEF Serial
    <2>4. CASE state' = state /\ finished' = finished /\ pc' = [pc EXCEPT ![t] = "reply"]
        BY <1>0, <2>1, <2>3, <2>4
    <2>5. CASE /\ \E v \in {"Passed", "Unsupported"} : state' = [state EXCEPT ![target[t]] = v]
               /\ pc' = [pc EXCEPT ![t] = "take"]
               /\ finished' = [finished EXCEPT ![t] = TRUE]
        BY <1>0, <2>1, <2>3, <2>5 DEF Terminal
    <2> QED BY <2>2, <2>4, <2>5
<1>13. ASSUME NEW t \in Threads, TakeActiveFds(t) \/ CloseFd(t) PROVE SerialInv'
    BY <1>0, <1>13 DEF TakeActiveFds, CloseFd
<1>14. ASSUME NEW t \in Threads, Closed(t) PROVE SerialInv'
    <2>1. UNCHANGED <<state, active_feature_id, target>>
        BY <1>14 DEF Closed
    <2>2. CASE pc[t] = "close" /\ finished[t]
        BY <1>0, <1>14, <2>1, <2>2 DEF Closed, Return
    <2>3. CASE pc[t] = "close" /\ ~finished[t]
        BY <1>0, <1>14, <2>1, <2>3 DEF Closed, Return, ReturnPoints
    <2>4. CASE pc[t] = "abort"
        BY <1>0, <1>14, <2>1, <2>4 DEF Closed
    <2> QED BY <1>14, <2>2, <2>3, <2>4 DEF Closed
<1>15. ASSUME NEW t \in Threads, ClearActiveFeature(t) PROVE SerialInv'
    <2>1. /\ UNCHANGED <<state, target>> /\ pc[t] = "clear" /\ target[t] \in Features
          /\ pc' = [pc EXCEPT ![t] = return_to[t]]
          /\ finished' = [finished EXCEPT ![t] = FALSE]
          /\ \A u \in Threads : Concluding(u)' => Concluding(u)
        BY <1>0, <1>15 DEF ClearActiveFeature, Return, ReturnPoints
    <2>2. CASE active_feature_id = target[t]
        <3>1. active_feature_id' = None
            BY <1>15, <2>2 DEF ClearActiveFeature
        <3>2. state[target[t]] # "Active"
            <4>1. Concluding(t)
                BY <2>1
            <4>2. state[target[t]] \in Terminal
                BY <4>1
            <4> QED BY <4>2 DEF Terminal
        <3> QED BY <1>0, <2>1, <2>2, <3>1, <3>2 DEF ReturnPoints
    <2>3. CASE active_feature_id # target[t]
        <3>1. active_feature_id' = active_feature_id
            BY <1>15, <2>3 DEF ClearActiveFeature
        <3> QED BY <1>0, <2>1, <3>1 DEF ReturnPoints
    <2> QED BY <2>2, <2>3
<1>16. ASSUME NEW w \in Workers, WorkerStep(w) PROVE SerialInv'
    <2>1. /\ target' = target /\ active_feature_id' = active_feature_id
          /\ pc[w] = "working" /\ target[w] \in Features
        BY <1>0, <1>16 DEF WorkerStep, MarkFailed, MarkNetworkComplete
    <2>2. \/ /\ state' = state /\ finished' = finished
             /\ pc' = [pc EXCEPT ![w] = "done"]
          \/ /\ state' = state /\ finished' = [finished EXCEPT ![w] = FALSE]
             /\ pc' = [pc EXCEPT ![w] = "take"]
          \/ /\ state[target[w]] = "Active"
             /\ \E v \in {"Passed", "Failed"} : state' = [state EXCEPT ![target[w]] = v]
             /\ pc' = [pc EXCEPT ![w] = "take"]
             /\ finished' = [finished EXCEPT ![w] = TRUE]
        BY <1>16 DEF WorkerStep, MarkFailed, MarkNetworkComplete, Settle
    <2> QED BY <1>0, <2>1, <2>2 DEF Terminal
<1>17. CASE UNCHANGED vars \/ \E f \in Features : Expire(f)
    BY <1>17 DEF vars, Expire
<1> QED
    BY <1>1, <1>2, <1>3, <1>4, <1>5, <1>6, <1>7, <1>8, <1>9, <1>10, <1>11, <1>12,
       <1>13, <1>14, <1>15, <1>16, <1>17
       DEF Next, RequestStep, StartStep, ReportStep, ScanStep, SettleStep

(* The parts of SerialInv make the published feature the only active one. *)
LEMMA SerialOneActive ==
    ASSUME Serial, TypeOK, LocalsOK, SerialInv
    PROVE  AtMostOneActive
<1> SUFFICES ASSUME NEW f \in Features, NEW g \in Features,
                    state[f] = "Active", state[g] = "Active"
             PROVE  f = g
    BY DEF AtMostOneActive
<1>1. ASSUME NEW a \in Agents, pc[a] \in {"set_fds", "publish"}
      PROVE  active_feature_id = None
    BY <1>1 DEF SerialInv
<1> QED BY <1>1, NoneAssumption DEF SerialInv, Serial

(* At most one feature of a session is active, for a serial client and any *)
(* number of pollers and workers, however slow StartFeature is.            *)
THEOREM OneActive == ASSUME Serial PROVE Spec => []AtMostOneActive
<1>1. Init => SerialInv
    BY ThreadAssumption DEF Init, SerialInv, Concluding, Threads
<1>2. ThreadInv /\ SerialInv /\ [Next]_vars => SerialInv'
    BY SerialStep
<1>3. ThreadInv /\ SerialInv => AtMostOneActive
    BY SerialOneActive DEF ThreadInv
<1> QED BY <1>1, <1>2, <1>3, ThreadInvInit, ThreadInvStep, PTL DEF Spec

LEMMA SerialSpec == ASSUME Serial PROVE Spec => [](ThreadInv /\ SerialInv)
<1>1. Init => SerialInv
    BY ThreadAssumption DEF Init, SerialInv, Concluding, Threads
<1>2. ThreadInv /\ SerialInv /\ [Next]_vars => SerialInv'
    BY SerialStep
<1> QED BY <1>1, <1>2, ThreadInvInit, ThreadInvStep, PTL DEF Spec

-----------------------------------------------------------------------------
(* Refinement of FeatureLifecycle *)

(* Each step of a thread is a step of the lifecycle, or one it does not    *)
(* show: the bookkeeping of descriptors, ids and threads.                  *)
LEMMA LifecycleStep ==
    ASSUME Serial, ThreadInv, SerialInv, [Next]_vars
    PROVE  [Lifecycle!Next]_(Lifecycle!vars)
<1> DEFINE evidence == [f \in Features |->
        {who \in {"network", "agent"} : IF who = "network" THEN network_complete[f]
                                                          ELSE agent_complete[f]}]
<1>0. /\ state \in [Features -> States]
      /\ network_complete \in [Features -> BOOLEAN]
      /\ agent_complete \in [Features -> BOOLEAN]
      /\ TypeOK /\ LocalsOK /\ AtMostOneActive
      /\ \A t \in Threads : pc[t] \notin {"idle", "scan"} => target[t] \in Features
    BY SerialOneActive DEF TypeOK, LocalsOK, ThreadInv
<1>1. CASE UNCHANGED <<state, network_complete, agent_complete>>
    BY <1>1 DEF Lifecycle!vars
<1>2. CASE \E f \in Features : TimesOut(f)
    <2>1. PICK f \in Features : TimesOut(f)
        BY <1>2
    <2>2. state[f] = "Active" /\ state' = [state EXCEPT ![f] = "TimedOut"]
        BY <2>1 DEF TimesOut
    <2>3. evidence' = evidence
        BY <2>1 DEF TimesOut
    <2>4. Lifecycle!GiveUp(f)
        BY <2>2, <2>3 DEF Lifecycle!GiveUp
    <2> QED BY <2>4 DEF Lifecycle!Next
<1>3. ASSUME NEW a \in Agents, ActivateExecution(a) PROVE Lifecycle!Next
    <2>1. /\ target[a] \in Features /\ state[target[a]] = "Pending"
          /\ active_feature_id = None /\ pc[a] = "activate"
          /\ state' = [state EXCEPT ![target[a]] = "Active"]
          /\ UNCHANGED <<network_complete, agent_complete>>
        BY <1>0, <1>3 DEF ActivateExecution, SerialInv, Threads
    <2>2. \A g \in Features : state[g] # "Active"
        BY <2>1, NoneAssumption DEF SerialInv, Serial
    <2> QED BY <2>1, <2>2 DEF Lifecycle!Next, Lifecycle!Start
<1>4. ASSUME NEW a \in Agents, NEW valid \in BOOLEAN, CompleteFeature(a, valid)
      PROVE  Lifecycle!Next \/ UNCHANGED <<state, network_complete, agent_complete>>
    <2> DEFINE f == target[a]
    <2>1. f \in Features
        BY <1>0, <1>4 DEF CompleteFeature, Threads
    <2>2. UNCHANGED network_complete
        BY <1>4 DEF CompleteFeature
    <2>3. CASE UNCHANGED <<state, agent_complete>>
        BY <2>2, <2>3
    <2>4. CASE /\ state[f] = "Active" /\ Mode[f] # "ServerObserved"
               /\ agent_complete' = [agent_complete EXCEPT ![f] = TRUE]
               /\ state' = IF AgentEvidenceSuffices(f)
                           THEN [state EXCEPT ![f] = "Passed"] ELSE state
        <3>1. \A g \in Features : evidence'[g] =
                  IF g = f THEN evidence[g] \cup {"agent"} ELSE evidence[g]
            BY <1>0, <2>1, <2>2, <2>4
        <3>2. evidence' = [evidence EXCEPT ![f] = @ \cup {"agent"}]
            BY <2>1, <3>1
        <3>3. Lifecycle!Sufficient(f, evidence[f] \cup {"agent"}) <=> AgentEvidenceSuffices(f)
            <4>1. "network" \in evidence[f] <=> network_complete[f]
                BY <2>1
            <4>2. Mode[f] \in Modes
                BY <2>1, ModeAssumption
            <4> HIDE DEF evidence, f
            <4> QED BY <2>4, <4>1, <4>2 DEF Lifecycle!Sufficient, AgentEvidenceSuffices, Modes
        <3>4. Lifecycle!Next
            <4>1. state' = IF Lifecycle!Sufficient(f, evidence[f] \cup {"agent"})
                          THEN [state EXCEPT ![f] = "Passed"] ELSE state
                BY <2>4, <3>3
            <4>2. state[f] = "Active" /\ Mode[f] # "ServerObserved"
                BY <2>4
            <4>3. f \in Features /\ "agent" \in {"network", "agent"}
                BY <2>1
            <4> HIDE DEF f
            <4> QED BY <3>2, <4>1, <4>2, <4>3 DEF Lifecycle!Next, Lifecycle!Witness, Lifecycle!Sufficient
        <3> QED BY <3>4
    <2> QED BY <1>4, <2>3, <2>4 DEF CompleteFeature, Reject
<1>5. ASSUME NEW a \in Agents, NEW valid \in BOOLEAN, UnsupportedFeature(a, valid)
      PROVE  Lifecycle!Next \/ UNCHANGED <<state, network_complete, agent_complete>>
    <2>1. target[a] \in Features
        BY <1>0, <1>5 DEF UnsupportedFeature, Threads
    <2>2. UNCHANGED <<network_complete, agent_complete>>
        BY <1>5 DEF UnsupportedFeature, Reject
    <2>3. \/ UNCHANGED state
          \/ /\ MayBeUnsupported(target[a])
             /\ state' = [state EXCEPT ![target[a]] = "Unsupported"]
        BY <1>5 DEF UnsupportedFeature, Reject
    <2> QED BY <2>1, <2>2, <2>3 DEF MayBeUnsupported, Lifecycle!Next, Lifecycle!Decline
<1>6. ASSUME NEW w \in Workers, MarkFailed(w)
      PROVE  Lifecycle!Next \/ UNCHANGED <<state, network_complete, agent_complete>>
    <2>1. target[w] \in Features
        BY <1>0, <1>6 DEF MarkFailed, Threads
    <2>2. /\ UNCHANGED <<network_complete, agent_complete>>
          /\ \/ UNCHANGED state
             \/ /\ state[target[w]] = "Active"
                /\ state' = [state EXCEPT ![target[w]] = "Failed"]
        BY <1>6 DEF MarkFailed
    <2> QED BY <2>1, <2>2 DEF Lifecycle!Next, Lifecycle!GiveUp
<1>7. ASSUME NEW w \in Workers, MarkNetworkComplete(w)
      PROVE  Lifecycle!Next \/ UNCHANGED <<state, network_complete, agent_complete>>
    <2> DEFINE f == target[w]
    <2>1. f \in Features
        BY <1>0, <1>7 DEF MarkNetworkComplete, Threads
    <2>2. UNCHANGED agent_complete
        BY <1>7 DEF MarkNetworkComplete
    <2>3. CASE UNCHANGED <<state, network_complete>>
        BY <2>2, <2>3
    <2>4. CASE /\ state[f] = "Active"
               /\ network_complete' = [network_complete EXCEPT ![f] = TRUE]
               /\ state' = IF NetworkEvidenceSuffices(f)
                           THEN [state EXCEPT ![f] = "Passed"] ELSE state
        <3>1. \A g \in Features : evidence'[g] =
                  IF g = f THEN evidence[g] \cup {"network"} ELSE evidence[g]
            BY <1>0, <2>1, <2>2, <2>4
        <3>2. evidence' = [evidence EXCEPT ![f] = @ \cup {"network"}]
            BY <2>1, <3>1
        <3>3. Lifecycle!Sufficient(f, evidence[f] \cup {"network"})
                  <=> NetworkEvidenceSuffices(f)
            <4>1. "agent" \in evidence[f] <=> agent_complete[f]
                BY <2>1
            <4>2. Mode[f] \in Modes
                BY <2>1, ModeAssumption
            <4> HIDE DEF evidence, f
            <4> QED BY <2>4, <4>1, <4>2 DEF Lifecycle!Sufficient, NetworkEvidenceSuffices, Modes
        <3>4. Lifecycle!Next
            <4>1. state' = IF Lifecycle!Sufficient(f, evidence[f] \cup {"network"})
                          THEN [state EXCEPT ![f] = "Passed"] ELSE state
                BY <2>4, <3>3
            <4>2. state[f] = "Active"
                BY <2>4
            <4>3. f \in Features /\ "network" \in {"network", "agent"}
                BY <2>1
            <4> HIDE DEF f
            <4> QED BY <3>2, <4>1, <4>2, <4>3 DEF Lifecycle!Next, Lifecycle!Witness, Lifecycle!Sufficient
        <3> QED BY <3>4
    <2> QED BY <1>7, <2>3, <2>4 DEF MarkNetworkComplete
<1> QED
    BY <1>0, <1>1, <1>2, <1>3, <1>4, <1>5, <1>6, <1>7, VerdictSteps
       DEF WorkerStep, Lifecycle!vars

(* A session used by a serial client implements the lifecycle: one feature *)
(* at a time, one verdict each, passes on sufficient evidence.             *)
THEOREM ImplementsLifecycle == ASSUME Serial PROVE Spec => LifecycleSpec
<1>1. Init => Lifecycle!Init
    BY DEF Init, Lifecycle!Init
<1>2. ThreadInv /\ SerialInv /\ [Next]_vars => [Lifecycle!Next]_(Lifecycle!vars)
    BY LifecycleStep
<1> QED BY <1>1, <1>2, SerialSpec, PTL DEF Spec, LifecycleSpec, Lifecycle!Spec

(* and its verdicts are final. *)
THEOREM VerdictsAreFinal == ASSUME Serial PROVE Spec => VerdictIsFinal
<1>1. ASSUME ThreadInv, SerialInv, [Lifecycle!Next]_(Lifecycle!vars), ~UNCHANGED vars
      PROVE  \A f \in Features : state[f] \in Terminal => state'[f] = state[f]
    <2>1. state \in [Features -> States]
        BY <1>1 DEF ThreadInv, TypeOK
    <2> QED BY <1>1, <2>1 DEF Lifecycle!Next, Lifecycle!vars, Lifecycle!Start, Lifecycle!Witness,
                   Lifecycle!GiveUp, Lifecycle!Decline, Terminal
<1>2. ThreadInv /\ SerialInv /\ [Next]_vars =>
          [\A f \in Features : state[f] \in Terminal => state'[f] = state[f]]_vars
    BY <1>1, LifecycleStep
<1> QED BY <1>2, SerialSpec, PTL DEF Spec, VerdictIsFinal

-----------------------------------------------------------------------------
(* Evidence *)

(* The two flags are set on an active feature only and decide it at once;  *)
(* so a feature that was never started has none.                           *)
EvidenceInv ==
    /\ \A f \in Features : state[f] = "Pending" => ~network_complete[f] /\ ~agent_complete[f]
    /\ EvidenceDecides

LEMMA EvidenceStep ==
    ASSUME Serial, ThreadInv, SerialInv, EvidenceInv, [Next]_vars
    PROVE  EvidenceInv'
<1>0. /\ state \in [Features -> States]
      /\ network_complete \in [Features -> BOOLEAN]
      /\ agent_complete \in [Features -> BOOLEAN]
      /\ \A f \in Features : Mode[f] \in Modes
      /\ \A t \in Threads : pc[t] \notin {"idle", "scan"} => target[t] \in Features
      /\ Agents \subseteq Threads /\ Workers \subseteq Threads
      /\ TypeOK /\ LocalsOK
    BY ModeAssumption DEF ThreadInv, TypeOK, LocalsOK, Threads
<1> USE DEF EvidenceInv, EvidenceDecides
<1>1. CASE UNCHANGED <<state, network_complete, agent_complete>>
    BY <1>1
<1>2. CASE \E f \in Features : TimesOut(f)
    BY <1>0, <1>2 DEF TimesOut
<1>3. ASSUME NEW a \in Agents, ActivateExecution(a) PROVE EvidenceInv'
    <2>1. /\ target[a] \in Features /\ state[target[a]] = "Pending"
          /\ state' = [state EXCEPT ![target[a]] = "Active"]
          /\ UNCHANGED <<network_complete, agent_complete>>
        BY <1>0, <1>3 DEF ActivateExecution, SerialInv
    <2> QED BY <1>0, <2>1 DEF Modes
<1>4. ASSUME NEW a \in Agents, NEW valid \in BOOLEAN, CompleteFeature(a, valid)
      PROVE  EvidenceInv'
    <2>1. target[a] \in Features /\ network_complete' = network_complete
        BY <1>0, <1>4 DEF CompleteFeature
    <2>2. \/ UNCHANGED <<state, agent_complete>>
          \/ /\ state[target[a]] = "Active" /\ Mode[target[a]] # "ServerObserved"
             /\ agent_complete' = [agent_complete EXCEPT ![target[a]] = TRUE]
             /\ state' = [state EXCEPT ![target[a]] = "Passed"]
          \/ /\ state[target[a]] = "Active"
             /\ Mode[target[a]] # "AgentReported" /\ ~network_complete[target[a]]
             /\ agent_complete' = [agent_complete EXCEPT ![target[a]] = TRUE]
             /\ state' = state
        BY <1>4 DEF CompleteFeature, Reject, AgentEvidenceSuffices
    <2> QED BY <1>0, <2>1, <2>2
<1>5. ASSUME NEW a \in Agents, NEW valid \in BOOLEAN, UnsupportedFeature(a, valid)
      PROVE  EvidenceInv'
    <2>1. /\ target[a] \in Features /\ UNCHANGED <<network_complete, agent_complete>>
          /\ \/ state' = state
             \/ /\ state[target[a]] \in {"Pending", "Active"}
                /\ state' = [state EXCEPT ![target[a]] = "Unsupported"]
        BY <1>0, <1>5 DEF UnsupportedFeature, Reject, MayBeUnsupported
    <2> QED BY <1>0, <2>1 DEF Modes
<1>6. ASSUME NEW w \in Workers, WorkerStep(w) PROVE EvidenceInv'
    <2>1. target[w] \in Features /\ agent_complete' = agent_complete
        BY <1>0, <1>6 DEF WorkerStep, MarkFailed, MarkNetworkComplete
    <2>2. \/ UNCHANGED <<state, network_complete>>
          \/ /\ state[target[w]] = "Active"
             /\ state' = [state EXCEPT ![target[w]] = "Failed"]
             /\ UNCHANGED network_complete
          \/ /\ state[target[w]] = "Active"
             /\ network_complete' = [network_complete EXCEPT ![target[w]] = TRUE]
             /\ \/ state' = [state EXCEPT ![target[w]] = "Passed"]
                \/ /\ state' = state
                   /\ Mode[target[w]] # "ServerObserved" /\ ~agent_complete[target[w]]
        BY <1>6 DEF WorkerStep, MarkFailed, MarkNetworkComplete, NetworkEvidenceSuffices
    <2> QED BY <1>0, <2>1, <2>2
<1> QED BY <1>0, <1>1, <1>2, <1>3, <1>4, <1>5, <1>6, VerdictSteps

LEMMA EvidenceInit == Init => EvidenceInv
BY ModeAssumption DEF Init, EvidenceInv, EvidenceDecides, Modes

(* A feature with all the evidence its mode asks for has passed: when a    *)
(* worker and POST complete race, the second of them sees the first.       *)
THEOREM EvidenceIsDecisive == ASSUME Serial PROVE Spec => []EvidenceDecides
<1>1. ThreadInv /\ SerialInv /\ EvidenceInv /\ [Next]_vars => EvidenceInv'
    BY EvidenceStep
<1>2. EvidenceInv => EvidenceDecides
    BY DEF EvidenceInv
<1> QED BY <1>1, <1>2, EvidenceInit, SerialSpec, PTL DEF Spec

-----------------------------------------------------------------------------
(* Activation *)

(* activate_execution finds the flags as the constructor left them, nobody *)
(* else at work on the feature, and the session free.  (That it finds no   *)
(* sockets is part of ActivationsAreFresh.)                                *)
LEMMA ActivationStep ==
    ASSUME Serial, ThreadInv, SerialInv, EvidenceInv, [Next]_vars, NEW f \in Features,
           state[f] # "Active", state'[f] = "Active"
    PROVE  /\ state[f] = "Pending"
           /\ ~network_complete[f] /\ ~agent_complete[f]
           /\ \A t \in Agents : pc[<<f, t>>] = "unborn"
           /\ active_feature_id = None
<1>0. /\ state \in [Features -> States]
      /\ \A t \in Threads : pc[t] \notin {"idle", "scan"} => target[t] \in Features
      /\ Agents \subseteq Threads
      /\ TypeOK /\ LocalsOK /\ WorkersOK
    BY DEF ThreadInv, TypeOK, LocalsOK, Threads
<1>1. CASE UNCHANGED <<state, network_complete, agent_complete>>
    BY <1>1
<1>2. CASE \E g \in Features : TimesOut(g)
    BY <1>0, <1>2 DEF TimesOut
<1>3. ASSUME NEW a \in Agents, ActivateExecution(a)
      PROVE  /\ state[f] = "Pending"
             /\ ~network_complete[f] /\ ~agent_complete[f]
             /\ \A t \in Agents : pc[<<f, t>>] = "unborn"
             /\ active_feature_id = None
    <2>1. /\ pc[a] = "activate" /\ target[a] \in Features
          /\ state' = [state EXCEPT ![target[a]] = "Active"]
          /\ state[target[a]] = "Pending" /\ active_feature_id = None
        BY <1>0, <1>3 DEF ActivateExecution, SerialInv
    <2>2. f = target[a]
        BY <1>0, <2>1
    <2> QED BY <1>0, <2>1, <2>2 DEF EvidenceInv, WorkersOK
<1>4. ASSUME NEW a \in Agents, NEW valid \in BOOLEAN,
             CompleteFeature(a, valid) \/ UnsupportedFeature(a, valid)
      PROVE  FALSE
    <2>1. \/ state' = state
          \/ \E v \in Terminal : state' = [state EXCEPT ![target[a]] = v]
        BY <1>4 DEF CompleteFeature, UnsupportedFeature, Reject, Terminal
    <2> QED BY <1>0, <2>1 DEF Terminal
<1>5. ASSUME NEW w \in Workers, WorkerStep(w) PROVE FALSE
    <2>1. \/ state' = state
          \/ \E v \in Terminal : state' = [state EXCEPT ![target[w]] = v]
        BY <1>5 DEF WorkerStep, MarkFailed, MarkNetworkComplete, Terminal
    <2> QED BY <1>0, <2>1 DEF Terminal
<1> QED BY <1>0, <1>1, <1>2, <1>3, <1>4, <1>5, VerdictSteps

-----------------------------------------------------------------------------
(* Sockets *)

\* The server waits for the traffic of f.
Awaiting(f) == state[f] = "Active" /\ ~network_complete[f]

(* Where the descriptors of a start are: with its thread, then in the list *)
(* of the execution, which the start finds empty and which nobody takes    *)
(* while the feature waits for its traffic.                                *)
SocketInv ==
    /\ \A f \in Features : state[f] = "Pending" => active_fds[f] = {}
    /\ \A a \in Agents :
        /\ pc[a] = "open" => Listeners[target[a]] # 0
        /\ pc[a] = "activate" /\ Listeners[target[a]] = 0 => fds[a] = {}
        /\ pc[a] = "set_fds" => active_fds[target[a]] = {}
        /\ pc[a] \in {"publish", "spawn", "contract"} /\ Awaiting(target[a])
               => fds[a] = active_fds[target[a]]
    /\ \A t \in Threads : pc[t] = "take" =>
        state[target[t]] # "Pending" /\ ~Awaiting(target[t])
    /\ \A fd \in open : \/ \E t \in Threads : fd \in Owned(t)
                        \/ \E f \in Features : fd \in active_fds[f]
    /\ ContractNamesListeners

Opening == {"open", "activate", "set_fds", "publish", "spawn", "contract"}

(* A thread moves that is not in the middle of a start, and no socket      *)
(* moves.                                                                  *)
LEMMA SocketsKeep ==
    ASSUME ThreadInv, SocketInv, UNCHANGED <<sockets, contract_json>>,
           NEW t \in Threads, NEW q, pc' = [pc EXCEPT ![t] = q],
           pc[t] \notin Opening \ {"open"}, q \notin Opening,
           NEW g \in Features \cup {None}, target' = [target EXCEPT ![t] = g],
           Owned(t)' = Owned(t),
           \A f \in Features : /\ state'[f] = "Pending" => state[f] = "Pending"
                               /\ Awaiting(f)' => Awaiting(f),
           q = "take" => g \in Features /\ state'[g] # "Pending" /\ ~Awaiting(g)'
    PROVE  SocketInv'
<1>0. /\ pc \in [Threads -> Pcs]
      /\ target \in [Threads -> Features \cup {None}]
      /\ Agents \subseteq Threads
      /\ \A u \in Threads : pc[u] \notin {"idle", "scan"} => target[u] \in Features
    BY DEF ThreadInv, TypeOK, LocalsOK, Threads
<1> USE DEF Awaiting
<1>1. open' = open /\ fds' = fds /\ active_fds' = active_fds /\ contract_json' = contract_json
    BY DEF sockets
<1>2. \A u \in Threads : Owned(u)' = Owned(u)
    BY <1>0, <1>1 DEF Owned
<1>3. \A a \in Agents, f \in Features :
         Starting(a) /\ target[a] = f => Starting(a)' /\ target'[a] = f
    BY <1>0 DEF Starting, Opening
<1>4. ContractNamesListeners'
    <2> SUFFICES ASSUME NEW f \in Features, Awaiting(f)',
                        \A a \in Agents : ~(Starting(a)' /\ target'[a] = f)
                 PROVE  contract_json'[f] = active_fds'[f]
        BY DEF ContractNamesListeners, Awaiting
    <2>1. Awaiting(f)
        OBVIOUS
    <2>2. \A a \in Agents : ~(Starting(a) /\ target[a] = f)
        BY <1>3
    <2> QED BY <1>1, <2>1, <2>2 DEF SocketInv, ContractNamesListeners, Awaiting
<1>5. \A fd \in open' : \/ \E u \in Threads : fd \in Owned(u)'
                        \/ \E f \in Features : fd \in active_fds'[f]
    BY <1>1, <1>2 DEF SocketInv
<1>6. ASSUME NEW a \in Agents
      PROVE  /\ pc'[a] = "open" => Listeners[target'[a]] # 0
             /\ pc'[a] = "activate" /\ Listeners[target'[a]] = 0 => fds'[a] = {}
             /\ pc'[a] = "set_fds" => active_fds'[target'[a]] = {}
             /\ pc'[a] \in {"publish", "spawn", "contract"} /\ Awaiting(target[a])'
                    => fds'[a] = active_fds'[target'[a]]
    <2>1. CASE a = t
        BY <1>0, <2>1 DEF Opening
    <2>2. CASE a # t
        <3>1. a \in Threads /\ pc'[a] = pc[a] /\ target'[a] = target[a]
            BY <1>0, <2>2
        <3>2. pc[a] \in Opening => (Awaiting(target[a])' => Awaiting(target[a]))
            BY <1>0, <3>1 DEF Opening
        <3> QED BY <1>1, <3>1, <3>2 DEF SocketInv, Opening
    <2> QED BY <2>1, <2>2
<1>7. ASSUME NEW u \in Threads, pc'[u] = "take"
      PROVE  state'[target'[u]] # "Pending" /\ ~Awaiting(target[u])'
    <2>1. CASE u = t
        BY <1>0, <1>7, <2>1
    <2>2. CASE u # t
        BY <1>0, <1>7, <2>2 DEF SocketInv
    <2> QED BY <2>1, <2>2
<1>8. \A f \in Features : state'[f] = "Pending" => active_fds'[f] = {}
    BY <1>1 DEF SocketInv
<1> QED BY <1>4, <1>5, <1>6, <1>7, <1>8 DEF SocketInv

(* maybe_timeout takes a feature that has been active, and only that.      *)
LEMMA SocketsTimeout ==
    ASSUME ThreadInv, SocketInv, UNCHANGED <<sockets, contract_json, network_complete>>,
           NEW t \in Threads, pc[t] \in {"route", "entry", "scan"},
           NEW f \in Features, target' = [target EXCEPT ![t] = f],
           NEW next \in ReturnPoints, MaybeTimeout(t, f, next)
    PROVE  SocketInv'
<1>0. /\ state \in [Features -> States] /\ pc \in [Threads -> Pcs]
      /\ network_complete' = network_complete /\ fds' = fds
      /\ f \in Features \cup {None}
    BY DEF ThreadInv, TypeOK, sockets
<1> USE DEF Goto, Awaiting, Opening, ReturnPoints, Owned
<1>1. CASE state[f] = "Active" /\ expired[f]
    <2>1. /\ state' = [state EXCEPT ![f] = "TimedOut"]
          /\ pc' = [pc EXCEPT ![t] = "take"]
        BY <1>1 DEF MaybeTimeout, Settle
    <2>2. /\ state'[f] # "Pending" /\ ~Awaiting(f)'
          /\ \A g \in Features : /\ state'[g] = "Pending" => state[g] = "Pending"
                                 /\ Awaiting(g)' => Awaiting(g)
        BY <1>0, <2>1
    <2>3. Owned(t)' = Owned(t) /\ pc[t] \notin Opening \ {"open"} /\ "take" \notin Opening
        BY <1>0, <2>1
    <2> HIDE DEF Awaiting, Opening, ReturnPoints, Owned
    <2> QED BY <1>0, <2>1, <2>2, <2>3, SocketsKeep
<1>2. CASE ~(state[f] = "Active" /\ expired[f])
    <2>1. state' = state /\ pc' = [pc EXCEPT ![t] = next]
        BY <1>2 DEF MaybeTimeout
    <2>2. \A g \in Features : /\ state'[g] = "Pending" => state[g] = "Pending"
                              /\ Awaiting(g)' => Awaiting(g)
        BY <1>0, <2>1
    <2>3. /\ Owned(t)' = Owned(t) /\ pc[t] \notin Opening \ {"open"}
          /\ next \notin Opening /\ next # "take"
        BY <1>0, <2>1
    <2> HIDE DEF Awaiting, Opening, ReturnPoints, Owned
    <2> QED BY <1>0, <2>1, <2>2, <2>3, SocketsKeep
<1> QED BY <1>1, <1>2

(* The steps of every thread but those of StartFeature and of the loops    *)
(* that close descriptors.                                                 *)
LEMMA SocketsQuietStep ==
    ASSUME ThreadInv, SocketInv,
           \/ \E a \in Agents, o \in Ops, f \in Features : Receive(a, o, f)
           \/ \E a \in Agents : Route(a) \/ Enter(a) \/ ReportStep(a) \/ Reply(a)
                                \/ CheckActive(a) \/ OpenFails(a)
           \/ \E p \in Pollers : ScanStep(p)
           \/ \E w \in Workers : WorkerStep(w)
           \/ \E t \in Threads : Closed(t) \/ ClearActiveFeature(t)
    PROVE  SocketInv'
<1>0. /\ state \in [Features -> States]
      /\ network_complete \in [Features -> BOOLEAN]
      /\ pc \in [Threads -> Pcs]
      /\ target \in [Threads -> Features \cup {None}]
      /\ Agents \subseteq Threads /\ Workers \subseteq Threads /\ Pollers \subseteq Threads
      /\ \A u \in Threads : pc[u] \notin {"idle", "scan"} => target[u] \in Features
      /\ \A u \in Threads : return_to[u] \in ReturnPoints
      /\ TypeOK
    BY DEF ThreadInv, TypeOK, LocalsOK, Threads
<1> USE DEF Goto, execution, sockets, session, request, settling, Awaiting, Opening, Owned
\* Nothing changes but the position of t, and what f the thread is at.
<1> DEFINE Calm(t, q, g) ==
        /\ UNCHANGED <<state, network_complete, sockets, contract_json>>
        /\ pc' = [pc EXCEPT ![t] = q] /\ q \notin Opening /\ q # "take"
        /\ pc[t] \notin Opening \ {"open"}
        /\ g \in Features \cup {None} /\ target' = [target EXCEPT ![t] = g]
        /\ Owned(t)' = Owned(t)
<1>1. ASSUME NEW t \in Threads, NEW q, NEW g, Calm(t, q, g) PROVE SocketInv'
    <2>1. \A f \in Features : /\ state'[f] = "Pending" => state[f] = "Pending"
                              /\ Awaiting(f)' => Awaiting(f)
        BY <1>1
    <2> HIDE DEF Awaiting, Opening, Owned, sockets
    <2> QED BY <1>1, <2>1, SocketsKeep
\* The verdict on its own feature makes t settle it.
<1> DEFINE Settles(t) ==
        /\ UNCHANGED <<sockets, contract_json, target>>
        /\ pc' = [pc EXCEPT ![t] = "take"]
        /\ pc[t] \notin Opening /\ target[t] \in Features
        /\ Owned(t)' = Owned(t)
        /\ state'[target[t]] # "Pending" /\ ~Awaiting(target[t])'
        /\ \A f \in Features : /\ state'[f] = "Pending" => state[f] = "Pending"
                               /\ Awaiting(f)' => Awaiting(f)
<1>2. ASSUME NEW t \in Threads, Settles(t) PROVE SocketInv'
    <2>1. target' = [target EXCEPT ![t] = target[t]] /\ target[t] \in Features \cup {None}
        BY <1>0, <1>2
    <2>2. /\ target[t] \in Features /\ state'[target[t]] # "Pending"
          /\ ~(state'[target[t]] = "Active" /\ ~network_complete'[target[t]])
        BY <1>0, <1>2
    <2> DEFINE g == target[t]
    <2>3. "take" \notin Opening /\ pc[t] \notin Opening \ {"open"}
        BY <1>2
    <2> HIDE DEF Opening, Owned, sockets, g
    <2>4. /\ g \in Features \cup {None} /\ target' = [target EXCEPT ![t] = g]
          /\ g \in Features /\ state'[g] # "Pending" /\ ~Awaiting(g)'
        BY <2>1, <2>2 DEF g
    <2> HIDE DEF Awaiting
    <2> QED BY <1>2, <2>3, <2>4, SocketsKeep
<1>3. ASSUME NEW a \in Agents, NEW o \in Ops, NEW f \in Features, Receive(a, o, f)
      PROVE  Calm(a, "route", f)
    BY <1>0, <1>3 DEF Receive
<1>4. ASSUME NEW a \in Agents, Reply(a) PROVE Calm(a, "idle", None)
    BY <1>0, <1>4 DEF Reply
<1>5. ASSUME NEW a \in Agents, OpenFails(a) PROVE Calm(a, "abort", target[a])
    BY <1>0, <1>5 DEF OpenFails
<1>6. ASSUME NEW a \in Agents, CheckActive(a)
      PROVE  \E q \in {"check_pending", "reply"} : Calm(a, q, target[a])
    BY <1>0, <1>6 DEF CheckActive
<1>7. ASSUME NEW p \in Pollers, BeginSummary(p) \/ ScanRead(p) \/ EndSummary(p)
      PROVE  \E q \in {"scan", "idle"}, g \in Features \cup {None} : Calm(p, q, g)
    <2>1. CASE BeginSummary(p) \/ ScanRead(p)
        <3>1. Calm(p, "scan", target[p])
            BY <1>0, <2>1 DEF BeginSummary, ScanRead
        <3> QED BY <1>0, <3>1
    <2>2. CASE EndSummary(p)
        <3>1. Calm(p, "idle", None)
            BY <1>0, <2>2 DEF EndSummary
        <3> QED BY <3>1
    <2> QED BY <1>7, <2>1, <2>2
<1>8. ASSUME NEW t \in Threads, Closed(t) \/ ClearActiveFeature(t)
      PROVE  \E q \in ReturnPoints \cup {"clear"} : Calm(t, q, target[t])
    <2>1. /\ pc[t] \in {"close", "abort", "clear"}
          /\ UNCHANGED <<state, network_complete, sockets, contract_json, target>>
        BY <1>8 DEF Closed, ClearActiveFeature
    <2>2. PICK q \in ReturnPoints \cup {"clear"} : pc' = [pc EXCEPT ![t] = q]
        BY <1>0, <1>8 DEF Closed, ClearActiveFeature, Return, ReturnPoints
    <2>3. q \notin Opening \cup {"abort", "close", "take"}
        BY <2>2 DEF ReturnPoints
    <2>4. pc[t] # "clear" => fds[t] = {}
        BY <1>8 DEF Closed, ClearActiveFeature
    <2>5. Owned(t) = {} /\ Owned(t)' = {}
        BY <1>0, <2>1, <2>2, <2>3, <2>4
    <2>6. target' = [target EXCEPT ![t] = target[t]] /\ target[t] \in Features \cup {None}
        BY <1>0, <2>1
    <2>7. Calm(t, q, target[t])
        BY <2>1, <2>2, <2>3, <2>5, <2>6
    <2> QED BY <2>2, <2>7
<1>9. ASSUME NEW a \in Agents, Route(a) \/ Enter(a) PROVE SocketInv'
    <2>1. /\ pc[a] \in {"route", "entry", "scan"} /\ a \in Threads
          /\ target[a] \in Features
          /\ target' = [target EXCEPT ![a] = target[a]]
          /\ UNCHANGED <<sockets, contract_json, network_complete>>
        BY <1>0, <1>9 DEF Route, Enter
    <2>2. PICK next \in ReturnPoints : MaybeTimeout(a, target[a], next)
        BY <1>9 DEF Route, Enter, FirstCheck, ReturnPoints
    <2> HIDE DEF sockets
    <2> QED BY <2>1, <2>2, SocketsTimeout
<1>10. ASSUME NEW p \in Pollers, ScanTimeout(p) PROVE SocketInv'
    <2> DEFINE f == Catalog[cursor[p] + 1]
    <2>1. f \in Features /\ p \in Threads
        BY <1>0, <1>10, ScanInCatalog
    <2>2. /\ pc[p] \in {"route", "entry", "scan"}
          /\ target' = [target EXCEPT ![p] = f]
          /\ MaybeTimeout(p, f, "scan_read") /\ "scan_read" \in ReturnPoints
          /\ UNCHANGED <<sockets, contract_json, network_complete>>
        BY <1>10 DEF ScanTimeout, ReturnPoints
    <2> HIDE DEF f, sockets
    <2> QED BY <2>1, <2>2, SocketsTimeout
<1>11. ASSUME NEW a \in Agents, NEW valid \in BOOLEAN,
              CompleteFeature(a, valid) \/ UnsupportedFeature(a, valid)
       PROVE  Calm(a, "reply", target[a]) \/ Settles(a)
    <2>1. /\ pc[a] \in {"complete", "unsupported"} /\ target[a] \in Features
          /\ UNCHANGED <<network_complete, sockets, contract_json, target>>
        BY <1>0, <1>11 DEF CompleteFeature, UnsupportedFeature
    <2>2. \/ state' = state /\ pc' = [pc EXCEPT ![a] = "reply"]
          \/ /\ \E v \in {"Passed", "Unsupported"} : state' = [state EXCEPT ![target[a]] = v]
             /\ pc' = [pc EXCEPT ![a] = "take"]
        BY <1>11 DEF CompleteFeature, UnsupportedFeature, Reject, Settle
    <2> QED BY <1>0, <2>1, <2>2
<1>12. ASSUME NEW w \in Workers, WorkerStep(w)
       PROVE  Calm(w, "done", target[w]) \/ Settles(w)
    <2>1. /\ pc[w] = "working" /\ target[w] \in Features
          /\ UNCHANGED <<sockets, contract_json, target>>
        BY <1>0, <1>12 DEF WorkerStep, MarkFailed, MarkNetworkComplete
    <2>2. \/ /\ UNCHANGED <<state, network_complete>> /\ pc' = [pc EXCEPT ![w] = "done"]
          \/ /\ pc' = [pc EXCEPT ![w] = "take"]
             /\ state[target[w]] = "Active"
             /\ \/ /\ state' = [state EXCEPT ![target[w]] = "Failed"]
                   /\ UNCHANGED network_complete
                \/ /\ state' = [state EXCEPT ![target[w]] = "Passed"]
                   /\ network_complete' = [network_complete EXCEPT ![target[w]] = TRUE]
                \/ /\ state' = state
                   /\ network_complete' = [network_complete EXCEPT ![target[w]] = TRUE]
        BY <1>12 DEF WorkerStep, MarkFailed, MarkNetworkComplete, Settle
    <2> QED BY <1>0, <2>1, <2>2
<1> HIDE DEF Calm, Settles
<1>13. ASSUME NEW a \in Agents,
              \/ \E o \in Ops, f \in Features : Receive(a, o, f)
              \/ Route(a) \/ Enter(a) \/ ReportStep(a) \/ Reply(a)
              \/ CheckActive(a) \/ OpenFails(a)
       PROVE  SocketInv'
    <2>1. a \in Threads
        BY <1>0
    <2>2. CASE ReportStep(a)
        <3>1. PICK valid \in BOOLEAN : CompleteFeature(a, valid) \/ UnsupportedFeature(a, valid)
            BY <2>2 DEF ReportStep
        <3> QED BY <2>1, <3>1, <1>1, <1>2, <1>11
    <2>3. CASE \E o \in Ops, f \in Features : Receive(a, o, f)
        BY <2>1, <2>3, <1>1, <1>3
    <2> QED BY <1>13, <2>1, <2>2, <2>3, <1>1, <1>4, <1>5, <1>6, <1>9
<1>14. ASSUME NEW p \in Pollers, ScanStep(p) PROVE SocketInv'
    <2>1. p \in Threads
        BY <1>0
    <2> QED BY <1>14, <2>1, <1>1, <1>7, <1>10 DEF ScanStep
<1>15. ASSUME NEW w \in Workers, WorkerStep(w) PROVE SocketInv'
    <2>1. w \in Threads
        BY <1>0
    <2> QED BY <1>15, <2>1, <1>1, <1>2, <1>12
<1>16. ASSUME NEW t \in Threads, Closed(t) \/ ClearActiveFeature(t) PROVE SocketInv'
    BY <1>16, <1>1, <1>8
<1> QED BY <1>13, <1>14, <1>15, <1>16

(* A descriptor goes from the thread that opens it to the execution and    *)
(* from there to the thread that closes it, and is never forgotten.        *)
LEMMA SocketsStep ==
    ASSUME Serial, ThreadInv, SerialInv, SocketInv, [Next]_vars
    PROVE  SocketInv'
<1>0. /\ state \in [Features -> States]
      /\ network_complete \in [Features -> BOOLEAN]
      /\ active_fds \in [Features -> SUBSET Fds]
      /\ contract_json \in [Features -> (SUBSET Fds) \cup {None}]
      /\ pc \in [Threads -> Pcs]
      /\ fds \in [Threads -> SUBSET Fds]
      /\ target \in [Threads -> Features \cup {None}]
      /\ Agents \subseteq Threads
      /\ \A u \in Threads : pc[u] \notin {"idle", "scan"} => target[u] \in Features
      /\ \A u \in Threads : pc[u] \notin Holding => fds[u] = {}
      /\ \A a, b \in Agents : a = b
    BY DEF ThreadInv, TypeOK, LocalsOK, Threads, Serial
<1> USE DEF Goto, execution, sockets, session, request, settling, Awaiting, SocketInv,
            ContractNamesListeners, Owned, Starting, Holding
<1>1. ASSUME NEW t \in Agents, CheckPending(t) PROVE SocketInv'
    <2>1. t \in Threads /\ fds[t] = {}
        BY <1>0, <1>1 DEF CheckPending
    <2> QED BY <1>0, <1>1, <2>1 DEF CheckPending
<1>2. ASSUME NEW t \in Agents, OpenSocket(t) PROVE SocketInv'
    <2>1. /\ t \in Threads /\ pc[t] = "open" /\ Listeners[target[t]] # 0
          /\ UNCHANGED <<state, network_complete, active_fds, contract_json, target>>
        BY <1>0, <1>2 DEF OpenSocket
    <2>2. PICK fd \in Fds \ open :
             /\ open' = open \cup {fd}
             /\ fds' = [fds EXCEPT ![t] = @ \cup {fd}]
        BY <1>2 DEF OpenSocket
    <2>3. PICK q \in {"activate", "open"} : pc' = [pc EXCEPT ![t] = q]
        BY <1>2 DEF OpenSocket
    <2> QED BY <1>0, <2>1, <2>2, <2>3
<1>3. ASSUME NEW t \in Agents, ActivateExecution(t) PROVE SocketInv'
    <2> DEFINE f == target[t]
    <2>1. /\ t \in Threads /\ pc[t] = "activate" /\ f \in Features
          /\ state[f] = "Pending" /\ active_fds[f] = {}
          /\ state' = [state EXCEPT ![f] = "Active"]
          /\ pc' = [pc EXCEPT ![t] = IF Listeners[f] = 0 THEN "publish" ELSE "set_fds"]
          /\ UNCHANGED <<network_complete, active_fds, open, fds, contract_json, target>>
        BY <1>0, <1>3 DEF ActivateExecution, SerialInv
    <2> QED BY <1>0, <2>1, ZenonT(30)
<1>4. ASSUME NEW t \in Agents, SetActiveFds(t) PROVE SocketInv'
    <2>1. t \in Threads /\ target[t] \in Features /\ state[target[t]] # "Pending"
        BY <1>0, <1>4 DEF SetActiveFds, ThreadInv, WorkersOK
    <2> QED BY <1>0, <1>4, <2>1 DEF SetActiveFds
<1>5. ASSUME NEW t \in Agents, PublishActiveFeature(t) PROVE SocketInv'
    BY <1>0, <1>5 DEF PublishActiveFeature
<1>6. ASSUME NEW t \in Agents, SpawnWorker(t) PROVE SocketInv'
    <2> DEFINE w == <<target[t], t>>
    <2>1. /\ t \in Threads /\ pc[t] = "spawn" /\ target[t] \in Features
          /\ UNCHANGED <<state, network_complete, active_fds, open, fds, contract_json, target>>
        BY <1>0, <1>6 DEF SpawnWorker
    <2>2. w \in Threads /\ w \notin Agents /\ pc[w] = "unborn"
        BY <1>6, <2>1, ThreadAssumption DEF Threads, Workers, ThreadInv, WorkersOK, BeforeSpawn
    <2>3. pc' = [pc EXCEPT ![t] = "contract", ![w] = "working"]
        BY <1>6 DEF SpawnWorker
    <2> HIDE DEF w
    <2> QED BY <1>0, <2>1, <2>2, <2>3
<1>7. ASSUME NEW t \in Agents, StoreContract(t) PROVE SocketInv'
    BY <1>0, <1>7 DEF StoreContract
<1>8. ASSUME NEW t \in Threads, TakeActiveFds(t) PROVE SocketInv'
    BY <1>0, <1>8 DEF TakeActiveFds
<1>9. ASSUME NEW t \in Threads, CloseFd(t) PROVE SocketInv'
    BY <1>0, <1>9 DEF CloseFd
<1>10. CASE UNCHANGED vars \/ \E f \in Features : Expire(f)
    BY <1>10 DEF vars, Expire
<1> HIDE DEF SocketInv
<1> QED BY <1>1, <1>2, <1>3, <1>4, <1>5, <1>6, <1>7, <1>8, <1>9, <1>10, SocketsQuietStep
        DEF Next, RequestStep, StartStep, SettleStep

LEMMA SocketsInit == Init => SocketInv
BY ThreadAssumption DEF Init, SocketInv, ContractNamesListeners, Threads, Awaiting

LEMMA SocketsSpec == ASSUME Serial PROVE Spec => [](ThreadInv /\ SerialInv /\ SocketInv)
<1>1. ThreadInv /\ SerialInv /\ SocketInv /\ [Next]_vars => SocketInv'
    BY SocketsStep
<1> QED BY <1>1, SocketsInit, SerialSpec, PTL DEF Spec

(* No listener is lost: whatever has been opened is in the hands of a      *)
(* thread that will close it, or in the list of an execution.              *)
THEOREM NothingLeaks == ASSUME Serial PROVE Spec => []NoLeak
<1>1. ASSUME SocketInv, DescriptorOwnership PROVE NoLeak
    <2> DEFINE held == UNION {Owned(t) : t \in Threads}
               listed == UNION {active_fds[f] : f \in Features}
    <2>1. \A fd : fd \in held <=> \E t \in Threads : fd \in Owned(t)
        OBVIOUS
    <2>2. \A fd : fd \in listed <=> \E f \in Features : fd \in active_fds[f]
        OBVIOUS
    <2>3. \A fd : fd \in open <=> \/ \E t \in Threads : fd \in Owned(t)
                                  \/ \E f \in Features : fd \in active_fds[f]
        BY <1>1 DEF SocketInv, DescriptorOwnership
    <2>4. NoLeak <=> open = held \cup listed
        BY DEF NoLeak
    <2> HIDE DEF held, listed
    <2> QED BY <2>1, <2>2, <2>3, <2>4
<1> QED BY <1>1, SocketsSpec, OwnershipHolds, PTL

(* The contract a client was given names the sockets the server listens on *)
(* as long as it waits for the client's traffic.                           *)
THEOREM ContractsAreRight == ASSUME Serial PROVE Spec => []ContractNamesListeners
<1>1. SocketInv => ContractNamesListeners
    BY DEF SocketInv
<1> QED BY <1>1, SocketsSpec, PTL

(* activate_execution, which resets nothing, never needs to.               *)
THEOREM ActivationsAreFresh == ASSUME Serial PROVE Spec => ActivationIsFresh
<1>1. ASSUME ThreadInv, SerialInv, EvidenceInv, SocketInv, [Next]_vars
      PROVE  \A f \in Features : state[f] # "Active" /\ state'[f] = "Active" =>
                /\ ~network_complete[f] /\ ~agent_complete[f] /\ active_fds[f] = {}
                /\ \A t \in Agents : pc[<<f, t>>] = "unborn"
                /\ active_feature_id = None
    BY <1>1, ActivationStep DEF SocketInv
<1>2. ThreadInv /\ SerialInv /\ EvidenceInv /\ [Next]_vars => EvidenceInv'
    BY EvidenceStep
<1> QED BY <1>1, <1>2, EvidenceInit, SocketsSpec, PTL DEF Spec, ActivationIsFresh

-----------------------------------------------------------------------------
(* A serial client whose starts are answered before their deadline         *)

Prompt == ~SlowStart

(* Nothing can end a feature between its activation and the publication of *)
(* its id: no worker runs, no other request, and the deadline is away.     *)
PromptInv ==
    /\ \A a \in Agents : pc[a] \in {"set_fds", "publish"} =>
        state[target[a]] = "Active" /\ ~expired[target[a]]
    /\ RefusalIsJustified
    /\ SettledSocketsClosed

\* A thread that has yet to take or clear what a verdict leaves behind
Settling(t) == pc[t] = "take" \/ (finished[t] /\ pc[t] \in {"close", "clear"})

(* A thread moves that settles nothing and publishes nothing; it may reach *)
(* a verdict on a feature that is not being started, and then settles it.  *)
LEMMA PromptKeep ==
    ASSUME ThreadInv, PromptInv, UNCHANGED <<active_feature_id, active_fds, expired>>,
           NEW t \in Threads, ~Settling(t),
           NEW q, pc' = [pc EXCEPT ![t] = q], q \notin {"set_fds", "publish"},
           NEW g \in Features \cup {None}, target' = [target EXCEPT ![t] = g],
           NEW fin, finished' = [finished EXCEPT ![t] = fin],
           \/ state' = state
           \/ /\ g \in Features /\ q = "take" /\ fin = TRUE
              /\ \E v \in Terminal : state' = [state EXCEPT ![g] = v]
              /\ \A a \in Agents : pc[a] \in {"set_fds", "publish"} => target[a] # g
    PROVE  PromptInv'
<1>0. /\ state \in [Features -> States]
      /\ pc \in [Threads -> Pcs]
      /\ target \in [Threads -> Features \cup {None}]
      /\ finished \in [Threads -> BOOLEAN]
      /\ active_feature_id \in Features \cup {None}
      /\ Agents \subseteq Threads
      /\ \A u \in Threads : pc[u] \notin {"idle", "scan"} => target[u] \in Features
      /\ None \notin Features
    BY NoneAssumption DEF ThreadInv, TypeOK, LocalsOK, Threads
<1>1. ASSUME NEW a \in Agents, pc'[a] \in {"set_fds", "publish"}
      PROVE  state'[target'[a]] = "Active" /\ ~expired'[target'[a]]
    <2>1. a # t /\ a \in Threads
        BY <1>0, <1>1
    <2>2. pc[a] = pc'[a] /\ target'[a] = target[a] /\ target[a] \in Features
        BY <1>0, <1>1, <2>1
    <2>3. state[target[a]] = "Active" /\ ~expired[target[a]]
        BY <1>1, <2>2 DEF PromptInv
    <2> QED BY <1>0, <1>1, <2>2, <2>3
<1>2. ASSUME NEW u \in Threads, Settling(u)
      PROVE  u # t /\ pc'[u] = pc[u] /\ target'[u] = target[u] /\ finished'[u] = finished[u]
    BY <1>0, <1>2
<1>3. RefusalIsJustified'
    <2> SUFFICES ASSUME active_feature_id # None,
                        state'[active_feature_id] # "Active"
                 PROVE  Clearing(active_feature_id)'
        BY DEF RefusalIsJustified, Clearing
    <2> DEFINE i == active_feature_id
    <2>1. state[i] = "Active" \/ Clearing(i)
        BY DEF PromptInv, RefusalIsJustified
    <2>2. CASE Clearing(i)
        BY <1>2, <2>2 DEF Clearing, Settling
    <2>3. CASE state[i] = "Active"
        <3>1. i = g /\ q = "take" /\ fin = TRUE /\ g \in Features
            BY <1>0, <2>3
        <3>2. target'[t] = i /\ finished'[t] /\ pc'[t] = "take"
            BY <1>0, <3>1
        <3> QED BY <3>2 DEF Clearing
    <2> QED BY <2>1, <2>2, <2>3
<1>4. SettledSocketsClosed'
    <2> SUFFICES ASSUME NEW f \in Features, state'[f] \in Terminal, active_fds[f] # {}
                 PROVE  \E u \in Threads : target'[u] = f /\ pc'[u] = "take"
        BY DEF SettledSocketsClosed
    <2>1. CASE state[f] \in Terminal
        BY <1>2, <2>1 DEF PromptInv, SettledSocketsClosed, Settling
    <2>2. CASE state[f] \notin Terminal
        <3>1. f = g /\ q = "take"
            BY <1>0, <2>2
        <3>2. target'[t] = f /\ pc'[t] = "take"
            BY <1>0, <3>1
        <3> QED BY <3>2
    <2> QED BY <2>1, <2>2
<1> QED BY <1>1, <1>3, <1>4 DEF PromptInv

(* maybe_timeout ends no feature that is being started: its deadline is    *)
(* still to come.                                                          *)
LEMMA PromptTimeout ==
    ASSUME ThreadInv, PromptInv, UNCHANGED <<active_feature_id, active_fds, expired>>,
           NEW t \in Threads, pc[t] \in {"route", "entry", "scan"},
           NEW f \in Features, target' = [target EXCEPT ![t] = f],
           NEW next \in ReturnPoints, MaybeTimeout(t, f, next)
    PROVE  PromptInv'
<1>0. /\ finished \in [Threads -> BOOLEAN]
      /\ f \in Features \cup {None} /\ ~Settling(t)
    BY DEF ThreadInv, TypeOK, Settling
<1> USE DEF Goto, ReturnPoints
<1>1. CASE state[f] = "Active" /\ expired[f]
    <2>1. /\ state' = [state EXCEPT ![f] = "TimedOut"]
          /\ pc' = [pc EXCEPT ![t] = "take"]
          /\ finished' = [finished EXCEPT ![t] = TRUE]
        BY <1>1 DEF MaybeTimeout, Settle
    <2>2. \A a \in Agents : pc[a] \in {"set_fds", "publish"} => target[a] # f
        BY <1>1 DEF PromptInv
    <2> QED BY <1>0, <2>1, <2>2, PromptKeep DEF Terminal
<1>2. CASE ~(state[f] = "Active" /\ expired[f])
    <2>1. /\ state' = state /\ pc' = [pc EXCEPT ![t] = next]
          /\ finished' = [finished EXCEPT ![t] = finished[t]]
        BY <1>0, <1>2 DEF MaybeTimeout, settling
    <2> QED BY <1>0, <2>1, PromptKeep
<1> QED BY <1>1, <1>2

(* The steps that move one thread and neither publish nor clear an id      *)
LEMMA PromptQuietStep ==
    ASSUME Serial, ThreadInv, PromptInv,
           \/ \E a \in Agents, o \in Ops, f \in Features : Receive(a, o, f)
           \/ \E a \in Agents : \/ Route(a) \/ Enter(a) \/ ReportStep(a) \/ Reply(a)
                                \/ CheckActive(a) \/ CheckPending(a) \/ OpenSocket(a)
                                \/ OpenFails(a) \/ StoreContract(a)
           \/ \E p \in Pollers : ScanStep(p)
           \/ \E w \in Workers : WorkerStep(w)
    PROVE  PromptInv'
<1>0. /\ pc \in [Threads -> Pcs]
      /\ target \in [Threads -> Features \cup {None}]
      /\ finished \in [Threads -> BOOLEAN]
      /\ Agents \subseteq Threads /\ Workers \subseteq Threads /\ Pollers \subseteq Threads
      /\ \A u \in Threads : pc[u] \notin {"idle", "scan"} => target[u] \in Features
      /\ \A a, b \in Agents : a = b
      /\ TypeOK
    BY DEF ThreadInv, TypeOK, LocalsOK, Threads, Serial
<1> USE DEF Goto, execution, sockets, session, request, settling
\* Nothing that the invariant reads changes but the position of t and its target.
<1> DEFINE Calm(t, q, g) ==
        /\ UNCHANGED <<active_feature_id, active_fds, expired, state, finished>>
        /\ pc' = [pc EXCEPT ![t] = q] /\ q \notin {"set_fds", "publish"}
        /\ ~Settling(t)
        /\ g \in Features \cup {None} /\ target' = [target EXCEPT ![t] = g]
<1>1. ASSUME NEW t \in Threads, NEW q, NEW g, Calm(t, q, g) PROVE PromptInv'
    <2>1. finished' = [finished EXCEPT ![t] = finished[t]]
        BY <1>0, <1>1
    <2> QED BY <1>1, <2>1, PromptKeep
<1>2. ASSUME NEW a \in Agents, NEW o \in Ops, NEW f \in Features, Receive(a, o, f)
      PROVE  Calm(a, "route", f)
    BY <1>0, <1>2 DEF Receive, Settling
<1>3. ASSUME NEW a \in Agents, Reply(a) PROVE Calm(a, "idle", None)
    BY <1>0, <1>3 DEF Reply, Settling
<1>4. ASSUME NEW a \in Agents,
             CheckActive(a) \/ CheckPending(a) \/ OpenSocket(a) \/ OpenFails(a) \/ StoreContract(a)
      PROVE  \E q \in {"check_pending", "reply", "open", "activate", "abort"} :
                 Calm(a, q, target[a])
    <2>1. /\ UNCHANGED <<active_feature_id, active_fds, expired, state, finished, target>>
          /\ pc[a] \in {"check_active", "check_pending", "open", "contract"}
        BY <1>4 DEF CheckActive, CheckPending, OpenSocket, OpenFails, StoreContract
    <2>2. PICK q \in {"check_pending", "reply", "open", "activate", "abort"} :
              pc' = [pc EXCEPT ![a] = q]
        BY <1>4 DEF CheckActive, CheckPending, OpenSocket, OpenFails, StoreContract
    <2>3. Calm(a, q, target[a])
        BY <1>0, <2>1, <2>2 DEF Settling
    <2> QED BY <2>2, <2>3
<1>5. ASSUME NEW p \in Pollers, BeginSummary(p) \/ ScanRead(p) \/ EndSummary(p)
      PROVE  \E q \in {"scan", "idle"}, g \in Features \cup {None} : Calm(p, q, g)
    <2>1. CASE BeginSummary(p) \/ ScanRead(p)
        <3>1. Calm(p, "scan", target[p])
            BY <1>0, <2>1 DEF BeginSummary, ScanRead, Settling
        <3> QED BY <1>0, <3>1
    <2>2. CASE EndSummary(p)
        <3>1. Calm(p, "idle", None)
            BY <1>0, <2>2 DEF EndSummary, Settling
        <3> QED BY <3>1
    <2> QED BY <1>5, <2>1, <2>2
<1>6. ASSUME NEW a \in Agents, Route(a) \/ Enter(a) PROVE PromptInv'
    <2>1. /\ pc[a] \in {"route", "entry", "scan"} /\ a \in Threads
          /\ target[a] \in Features
          /\ target' = [target EXCEPT ![a] = target[a]]
          /\ UNCHANGED <<active_feature_id, active_fds, expired>>
        BY <1>0, <1>6 DEF Route, Enter
    <2>2. PICK next \in ReturnPoints : MaybeTimeout(a, target[a], next)
        BY <1>6 DEF Route, Enter, FirstCheck, ReturnPoints
    <2> QED BY <2>1, <2>2, PromptTimeout
<1>7. ASSUME NEW p \in Pollers, ScanTimeout(p) PROVE PromptInv'
    <2> DEFINE f == Catalog[cursor[p] + 1]
    <2>1. f \in Features /\ p \in Threads
        BY <1>0, <1>7, ScanInCatalog
    <2>2. /\ pc[p] \in {"route", "entry", "scan"}
          /\ target' = [target EXCEPT ![p] = f]
          /\ MaybeTimeout(p, f, "scan_read") /\ "scan_read" \in ReturnPoints
          /\ UNCHANGED <<active_feature_id, active_fds, expired>>
        BY <1>7 DEF ScanTimeout, ReturnPoints
    <2> HIDE DEF f
    <2> QED BY <2>1, <2>2, PromptTimeout
\* A verdict on a feature nobody is starting, or none.
<1> DEFINE Ends(t) ==
        /\ UNCHANGED <<active_feature_id, active_fds, expired, target>>
        /\ ~Settling(t) /\ target[t] \in Features
        /\ \A a \in Agents : pc[a] \in {"set_fds", "publish"} => target[a] # target[t]
        /\ \/ \E q \in {"reply", "done", "take"}, fin \in BOOLEAN :
                /\ state' = state
                /\ pc' = [pc EXCEPT ![t] = q]
                /\ finished' = [finished EXCEPT ![t] = fin]
           \/ /\ \E v \in Terminal : state' = [state EXCEPT ![target[t]] = v]
              /\ pc' = [pc EXCEPT ![t] = "take"]
              /\ finished' = [finished EXCEPT ![t] = TRUE]
<1>8. ASSUME NEW t \in Threads, Ends(t) PROVE PromptInv'
    <2>1. target' = [target EXCEPT ![t] = target[t]] /\ target[t] \in Features \cup {None}
        BY <1>0, <1>8
    <2>2. CASE state' = state
        <3>1. PICK q, fin : /\ q \notin {"set_fds", "publish"}
                            /\ pc' = [pc EXCEPT ![t] = q]
                            /\ finished' = [finished EXCEPT ![t] = fin]
            BY <1>8
        <3> QED BY <1>8, <2>1, <2>2, <3>1, PromptKeep
    <2>3. CASE /\ \E v \in Terminal : state' = [state EXCEPT ![target[t]] = v]
               /\ pc' = [pc EXCEPT ![t] = "take"]
               /\ finished' = [finished EXCEPT ![t] = TRUE]
        BY <1>8, <2>1, <2>3, PromptKeep
    <2> QED BY <1>8, <2>2, <2>3
<1>9. ASSUME NEW a \in Agents, ReportStep(a) PROVE Ends(a)
    <2>1. PICK valid \in BOOLEAN : CompleteFeature(a, valid) \/ UnsupportedFeature(a, valid)
        BY <1>9 DEF ReportStep
    <2>2. /\ pc[a] \in {"complete", "unsupported"}
          /\ UNCHANGED <<active_feature_id, active_fds, expired, target>>
        BY <2>1 DEF CompleteFeature, UnsupportedFeature
    <2>3. \A b \in Agents : pc[b] \notin {"set_fds", "publish"}
        BY <1>0, <2>2
    <2>4. \/ /\ state' = state /\ pc' = [pc EXCEPT ![a] = "reply"] /\ finished' = finished
          \/ /\ \E v \in {"Passed", "Unsupported"} : state' = [state EXCEPT ![target[a]] = v]
             /\ pc' = [pc EXCEPT ![a] = "take"]
             /\ finished' = [finished EXCEPT ![a] = TRUE]
        BY <2>1 DEF CompleteFeature, UnsupportedFeature, Reject, Settle
    <2>5. /\ a \in Threads /\ finished[a] \in BOOLEAN
          /\ finished = [finished EXCEPT ![a] = finished[a]]
        BY <1>0
    <2>6. CASE state' = state /\ pc' = [pc EXCEPT ![a] = "reply"] /\ finished' = finished
        BY <1>0, <2>2, <2>3, <2>5, <2>6 DEF Settling
    <2>7. CASE /\ \E v \in {"Passed", "Unsupported"} : state' = [state EXCEPT ![target[a]] = v]
               /\ pc' = [pc EXCEPT ![a] = "take"]
               /\ finished' = [finished EXCEPT ![a] = TRUE]
        BY <1>0, <2>2, <2>3, <2>5, <2>7 DEF Settling, Terminal
    <2> QED BY <2>4, <2>6, <2>7
<1>10. ASSUME NEW w \in Workers, WorkerStep(w) PROVE Ends(w)
    <2>1. /\ pc[w] = "working" /\ w \in Threads /\ target[w] \in Features
          /\ UNCHANGED <<active_feature_id, active_fds, expired, target>>
        BY <1>0, <1>10 DEF WorkerStep, MarkFailed, MarkNetworkComplete
    <2>2. \A a \in Agents : pc[a] \in {"set_fds", "publish"} => target[a] # target[w]
        <3> SUFFICES ASSUME NEW a \in Agents, pc[a] \in {"set_fds", "publish"},
                            target[a] = target[w]
                     PROVE  FALSE
            OBVIOUS
        <3>1. w = <<w[1], w[2]>> /\ w[1] = target[w] /\ w[2] \in Agents
            BY DEF ThreadInv, WorkersOK, Workers
        <3>2. w = <<target[a], a>>
            BY <1>0, <3>1
        <3>3. pc[<<target[a], a>>] = "unborn"
            BY DEF ThreadInv, WorkersOK, BeforeSpawn
        <3> QED BY <2>1, <3>2, <3>3
    <2>3. finished[w] \in BOOLEAN /\ finished = [finished EXCEPT ![w] = finished[w]]
        BY <1>0, <2>1
    <2>4. \/ state' = state /\ pc' = [pc EXCEPT ![w] = "done"] /\ finished' = finished
          \/ /\ state' = state /\ pc' = [pc EXCEPT ![w] = "take"]
             /\ \E fin \in BOOLEAN : finished' = [finished EXCEPT ![w] = fin]
          \/ /\ \E v \in {"Passed", "Failed"} : state' = [state EXCEPT ![target[w]] = v]
             /\ pc' = [pc EXCEPT ![w] = "take"]
             /\ finished' = [finished EXCEPT ![w] = TRUE]
        <3>1. CASE MarkFailed(w)
            BY <3>1 DEF MarkFailed, Settle
        <3>2. CASE MarkNetworkComplete(w)
            <4>1. CASE NetworkEvidenceSuffices(target[w])
                BY <3>2, <4>1 DEF MarkNetworkComplete, Settle
            <4>2. CASE ~NetworkEvidenceSuffices(target[w])
                <5>1. /\ state' = state
                      /\ \/ pc' = [pc EXCEPT ![w] = "done"] /\ finished' = finished
                         \/ /\ pc' = [pc EXCEPT ![w] = "take"]
                            /\ finished' = [finished EXCEPT
                                               ![w] = NetworkEvidenceSuffices(target[w])]
                    BY <3>2, <4>2 DEF MarkNetworkComplete, Settle
                <5>2. NetworkEvidenceSuffices(target[w]) \in BOOLEAN
                    BY DEF NetworkEvidenceSuffices
                <5> QED BY <5>1, <5>2
            <4> QED BY <4>1, <4>2
        <3> QED BY <1>10, <3>1, <3>2 DEF WorkerStep
    <2>5. CASE state' = state
        <3>1. \E q \in {"reply", "done", "take"}, fin \in BOOLEAN :
                /\ state' = state
                /\ pc' = [pc EXCEPT ![w] = q]
                /\ finished' = [finished EXCEPT ![w] = fin]
            BY <1>0, <2>1, <2>3, <2>4, <2>5
        <3> QED BY <2>1, <2>2, <3>1 DEF Settling
    <2>6. CASE /\ \E v \in {"Passed", "Failed"} : state' = [state EXCEPT ![target[w]] = v]
               /\ pc' = [pc EXCEPT ![w] = "take"]
               /\ finished' = [finished EXCEPT ![w] = TRUE]
        BY <2>1, <2>2, <2>6 DEF Settling, Terminal
    <2> QED BY <2>4, <2>5, <2>6
<1> HIDE DEF Calm, Ends
<1>11. ASSUME NEW a \in Agents,
              \/ \E o \in Ops, f \in Features : Receive(a, o, f)
              \/ Route(a) \/ Enter(a) \/ ReportStep(a) \/ Reply(a)
              \/ CheckActive(a) \/ CheckPending(a) \/ OpenSocket(a)
              \/ OpenFails(a) \/ StoreContract(a)
       PROVE  PromptInv'
    <2>1. a \in Threads
        BY <1>0
    <2>2. CASE \E o \in Ops, f \in Features : Receive(a, o, f)
        BY <2>1, <2>2, <1>1, <1>2
    <2>3. CASE \/ CheckActive(a) \/ CheckPending(a) \/ OpenSocket(a)
               \/ OpenFails(a) \/ StoreContract(a)
        BY <2>1, <2>3, <1>1, <1>4
    <2> QED BY <1>11, <2>1, <2>2, <2>3, <1>1, <1>3, <1>6, <1>8, <1>9
<1>12. ASSUME NEW p \in Pollers, ScanStep(p) PROVE PromptInv'
    <2>1. p \in Threads
        BY <1>0
    <2> QED BY <1>12, <2>1, <1>1, <1>5, <1>7 DEF ScanStep
<1>13. ASSUME NEW w \in Workers, WorkerStep(w) PROVE PromptInv'
    BY <1>0, <1>8, <1>10, <1>13
<1> QED BY <1>11, <1>12, <1>13

(* Publication follows activation at once, and every verdict is followed   *)
(* by the steps that take the sockets and clear the id.                    *)
LEMMA PromptStep ==
    ASSUME Serial, Prompt, ThreadInv, SerialInv, PromptInv, [Next]_vars
    PROVE  PromptInv'
<1>0. /\ state \in [Features -> States]
      /\ expired \in [Features -> BOOLEAN]
      /\ active_fds \in [Features -> SUBSET Fds]
      /\ pc \in [Threads -> Pcs]
      /\ target \in [Threads -> Features \cup {None}]
      /\ finished \in [Threads -> BOOLEAN]
      /\ Agents \subseteq Threads
      /\ \A u \in Threads : pc[u] \notin {"idle", "scan"} => target[u] \in Features
      /\ \A u \in Threads : return_to[u] \in ReturnPoints
      /\ \A a, b \in Agents : a = b
    BY DEF ThreadInv, TypeOK, LocalsOK, Threads, Serial
<1> USE DEF Goto, execution, sockets, session, request, settling, PromptInv,
            RefusalIsJustified, SettledSocketsClosed, Clearing
<1>1. ASSUME NEW t \in Agents, ActivateExecution(t) PROVE PromptInv'
    <2>1. /\ t \in Threads /\ pc[t] = "activate" /\ target[t] \in Features
          /\ active_feature_id = None
          /\ state' = [state EXCEPT ![target[t]] = "Active"]
          /\ expired' = [expired EXCEPT ![target[t]] = FALSE]
          /\ pc' = [pc EXCEPT ![t] = IF Listeners[target[t]] = 0 THEN "publish" ELSE "set_fds"]
          /\ UNCHANGED <<active_feature_id, active_fds, target, finished>>
        BY <1>0, <1>1 DEF ActivateExecution, SerialInv
    <2>2. \A a \in Agents : state'[target'[a]] = "Active" /\ ~expired'[target'[a]]
        BY <1>0, <2>1
    <2>3. SettledSocketsClosed'
        BY <1>0, <2>1 DEF Terminal
    <2> QED BY <2>1, <2>2, <2>3
<1>2. ASSUME NEW t \in Agents, SetActiveFds(t) PROVE PromptInv'
    <2>1. /\ t \in Threads /\ pc[t] = "set_fds" /\ target[t] \in Features
          /\ state[target[t]] = "Active" /\ ~expired[target[t]]
          /\ active_fds' = [active_fds EXCEPT ![target[t]] = fds[t]]
          /\ pc' = [pc EXCEPT ![t] = "publish"]
          /\ UNCHANGED <<active_feature_id, state, expired, target, finished>>
        BY <1>0, <1>2 DEF SetActiveFds
    <2> QED BY <1>0, <2>1 DEF Terminal
<1>3. ASSUME NEW t \in Agents, PublishActiveFeature(t) PROVE PromptInv'
    <2>1. PICK q \in {"contract", "spawn"} : pc' = [pc EXCEPT ![t] = q]
        BY <1>3 DEF PublishActiveFeature
    <2>2. /\ t \in Threads /\ pc[t] = "publish" /\ target[t] \in Features
          /\ state[target[t]] = "Active" /\ active_feature_id' = target[t]
          /\ UNCHANGED <<active_fds, state, expired, target, finished>>
        BY <1>0, <1>3 DEF PublishActiveFeature
    <2> QED BY <1>0, <2>1, <2>2
<1>4. ASSUME NEW t \in Agents, SpawnWorker(t) PROVE PromptInv'
    <2> DEFINE w == <<target[t], t>>
    <2>1. /\ t \in Threads /\ pc[t] = "spawn" /\ target[t] \in Features
          /\ UNCHANGED <<active_feature_id, active_fds, state, expired, target, finished>>
        BY <1>0, <1>4 DEF SpawnWorker
    <2>2. w \in Threads /\ w \notin Agents /\ pc[w] = "unborn"
        BY <1>4, <2>1, ThreadAssumption DEF Threads, Workers, ThreadInv, WorkersOK, BeforeSpawn
    <2>3. pc' = [pc EXCEPT ![t] = "contract", ![w] = "working"]
        BY <1>4 DEF SpawnWorker
    <2> HIDE DEF w
    <2> QED BY <1>0, <2>1, <2>2, <2>3
<1>5. ASSUME NEW t \in Threads, TakeActiveFds(t) PROVE PromptInv'
    <2>1. /\ pc[t] = "take" /\ target[t] \in Features
          /\ active_fds' = [active_fds EXCEPT ![target[t]] = {}]
          /\ pc' = [pc EXCEPT ![t] = "close"]
          /\ UNCHANGED <<active_feature_id, state, expired, target, finished>>
        BY <1>0, <1>5 DEF TakeActiveFds
    <2> QED BY <1>0, <2>1
<1>6. ASSUME NEW t \in Threads, Closed(t), finished[t], pc[t] = "close" PROVE PromptInv'
    <2>1. /\ pc' = [pc EXCEPT ![t] = "clear"]
          /\ UNCHANGED <<active_feature_id, active_fds, state, expired, target, finished>>
        BY <1>6 DEF Closed
    <2> QED BY <1>0, <1>6, <2>1
<1>7. ASSUME NEW t \in Threads, Closed(t), ~(finished[t] /\ pc[t] = "close") PROVE PromptInv'
    <2>1. /\ pc[t] \in {"close", "abort"} /\ ~Settling(t)
          /\ UNCHANGED <<active_feature_id, active_fds, state, expired, target>>
        BY <1>7 DEF Closed, Settling
    <2>2. PICK q, fin : /\ q \notin {"set_fds", "publish"}
                        /\ pc' = [pc EXCEPT ![t] = q]
                        /\ finished' = [finished EXCEPT ![t] = fin]
        <3>1. finished = [finished EXCEPT ![t] = finished[t]]
            BY <1>0
        <3>2. return_to[t] \notin {"set_fds", "publish"}
            BY <1>0 DEF ReturnPoints
        <3>3. \/ pc' = [pc EXCEPT ![t] = "reply"] /\ finished' = finished
              \/ /\ pc' = [pc EXCEPT ![t] = return_to[t]]
                 /\ finished' = [finished EXCEPT ![t] = FALSE]
            BY <1>7 DEF Closed, Return
        <3> QED BY <3>1, <3>2, <3>3
    <2>3. target' = [target EXCEPT ![t] = target[t]] /\ target[t] \in Features \cup {None}
        BY <1>0, <2>1
    <2> HIDE DEF PromptInv
    <2> QED BY <2>1, <2>2, <2>3, PromptKeep
<1>8. ASSUME NEW t \in Threads, ClearActiveFeature(t) PROVE PromptInv'
    <2>1. /\ pc[t] = "clear"
          /\ active_feature_id' =
                 IF active_feature_id = target[t] THEN None ELSE active_feature_id
          /\ pc' = [pc EXCEPT ![t] = return_to[t]]
          /\ finished' = [finished EXCEPT ![t] = FALSE]
          /\ UNCHANGED <<active_fds, state, expired, target>>
        BY <1>8 DEF ClearActiveFeature, Return
    <2>2. return_to[t] \notin {"set_fds", "publish"}
        BY <1>0 DEF ReturnPoints
    <2> QED BY <1>0, <2>1, <2>2
<1>9. ASSUME NEW f \in Features, Expire(f) PROVE PromptInv'
    <2>1. /\ \A a \in Agents : ~(Starting(a) /\ target[a] = f)
          /\ expired' = [expired EXCEPT ![f] = TRUE]
          /\ UNCHANGED <<active_feature_id, active_fds, state, target, finished, pc>>
        BY <1>9 DEF Expire, Prompt
    <2> QED BY <1>0, <2>1 DEF Starting
<1>10. CASE UNCHANGED vars \/ \E t \in Threads : CloseFd(t)
    BY <1>10 DEF vars, CloseFd
<1> HIDE DEF PromptInv
<1> QED BY <1>1, <1>2, <1>3, <1>4, <1>5, <1>6, <1>7, <1>8, <1>9, <1>10, PromptQuietStep
        DEF Next, RequestStep, StartStep, SettleStep

LEMMA PromptSpec == ASSUME Serial, Prompt PROVE Spec => []PromptInv
<1>1. Init => PromptInv
    BY DEF Init, PromptInv, RefusalIsJustified, SettledSocketsClosed, Threads
<1>2. ThreadInv /\ SerialInv /\ PromptInv /\ [Next]_vars => PromptInv'
    BY PromptStep
<1> QED BY <1>1, <1>2, SerialSpec, PTL DEF Spec

(* StartFeature never refuses for a feature that is over and whose id no   *)
(* thread is about to clear: the session is never wedged.                  *)
THEOREM NeverWedged == ASSUME Serial, Prompt PROVE Spec => []RefusalIsJustified
<1>1. PromptInv => RefusalIsJustified
    BY DEF PromptInv
<1> QED BY <1>1, PromptSpec, PTL

(* A feature that has been settled keeps its sockets only until the thread *)
(* that settled it takes them.                                             *)
THEOREM SocketsFollowVerdict == ASSUME Serial, Prompt PROVE Spec => []SettledSocketsClosed
<1>1. PromptInv => SettledSocketsClosed
    BY DEF PromptInv
<1> QED BY <1>1, PromptSpec, PTL
=============================================================================
