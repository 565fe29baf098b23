----------------------------- MODULE SummaryStream -----------------------------
(***************************************************************************)
(* What the watchers of a session see: SummaryJson and HandleSummaryStream *)
(* on top of FeatureServer.  A summary is put together feature by feature, *)
(* each read in its own critical section, and the stream compares a new    *)
(* summary with the last one it sent every 250 ms.                         *)
(***************************************************************************)
EXTENDS FeatureServer

\* A summary yet to be written, the empty string, shows no feature in any state.
ASSUME BlankAssumption == None \notin States

VARIABLES
    tally,           \* the summary a poller is putting together
    last_summary     \* the last one it has sent

stream == <<tally, last_summary>>
stream_vars == <<vars, stream>>

Blank == [f \in Features |-> None]

StreamInit ==
    /\ Init
    /\ tally = [p \in Pollers |-> Blank]
    /\ last_summary = [p \in Pollers |-> Blank]

\* Mutant: an overdue feature is shown timed out without being settled.
ReadOverdue(p) ==
    LET f == target[p] IN
    /\ ScanRead(p)
    /\ tally' = [tally EXCEPT ![p][f] =
                     IF state[f] = "Active" /\ expired[f] THEN "TimedOut" ELSE state[f]]
    /\ UNCHANGED last_summary

\* SummaryJson reads the feature it has just called maybe_timeout for.
ReadFeature(p) ==
    /\ ScanRead(p)
    /\ tally' = [tally EXCEPT ![p][target[p]] = state[target[p]]]
    /\ UNCHANGED last_summary

\* Mutant: a summary with nothing active is not worth an event.
SendWhileActive(p) ==
    /\ EndSummary(p)
    /\ tally' = [tally EXCEPT ![p] = Blank]
    /\ last_summary' = IF \E f \in Features : tally[p][f] = "Active"
                       THEN [last_summary EXCEPT ![p] = tally[p]] ELSE last_summary

\* The summary is complete; it is sent if it differs from the last one.
SendSummary(p) ==
    /\ EndSummary(p)
    /\ last_summary' = [last_summary EXCEPT ![p] = tally[p]]
    /\ tally' = [tally EXCEPT ![p] = Blank]

StreamStep(p) ==
    \/ ReadFeature(p) \/ SendSummary(p)
    \/ (BeginSummary(p) \/ ScanTimeout(p)) /\ UNCHANGED stream

SessionStep ==
    \/ \E a \in Agents, o \in Ops, f \in Features : Receive(a, o, f)
    \/ \E a \in Agents : RequestStep(a)
    \/ \E w \in Workers : WorkerStep(w)
    \/ \E t \in Threads : SettleStep(t)
    \/ \E f \in Features : Expire(f)

StreamNext ==
    \/ \E p \in Pollers : StreamStep(p)
    \/ SessionStep /\ UNCHANGED stream

StreamSpec == StreamInit /\ [][StreamNext]_stream_vars

StreamFairSpec ==
    /\ StreamSpec
    /\ \A a \in Agents : WF_stream_vars(RequestStep(a) /\ UNCHANGED stream)
    /\ \A p \in Pollers : WF_stream_vars(StreamStep(p))
    /\ \A t \in Threads : WF_stream_vars(SettleStep(t) /\ UNCHANGED stream)
    /\ \A f \in Features : WF_stream_vars(Expire(f) /\ UNCHANGED stream)

-----------------------------------------------------------------------------
Phase(s) == CASE s \in {None, "Pending"} -> 0 [] s = "Active" -> 1 [] OTHER -> 2

(* A summary is not a snapshot, but the "complete" it reports can be       *)
(* believed: if a sent summary has every feature settled, the session has  *)
(* ended with exactly these verdicts.                                      *)
CompleteIsTrue ==
    \A p \in Pollers :
        (\A f \in Features : last_summary[p][f] \in Terminal) => last_summary[p] = state

(* Nor does a watcher see a feature go back: each summary sent shows every *)
(* feature where the one before had it, or further on.                     *)
SummariesGoForward ==
    [][\A p \in Pollers, f \in Features :
        LET old == last_summary[p][f]
            new == last_summary'[p][f]
        IN  old = new \/ Phase(old) < Phase(new) \/ old = None]_stream_vars

(* Every verdict reaches every watcher of the stream. *)
VerdictsAreStreamed ==
    \A p \in Pollers, f \in Features :
        state[f] \in Terminal ~> last_summary[p][f] = state[f]
=============================================================================
