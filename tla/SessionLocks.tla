----------------------------- MODULE SessionLocks -----------------------------
(***************************************************************************)
(* The mutexes of the feature server and the threads that take them:       *)
(* sessions_mutex_ of the registry, the mutex of each session, and that of *)
(* each of its executions.                                                 *)
(*                                                                         *)
(* What a thread still has to do with locks is its plan, a sequence of     *)
(* steps; each handler's plan is read off its lock_guards.  What happens   *)
(* inside a critical section is FeatureServer's business, except for the   *)
(* registry itself: which sessions there are.                              *)
(***************************************************************************)
EXTENDS Naturals, Sequences, FiniteSets, SequencesExt

CONSTANTS
    Threads,
    Sessions,        \* ids RandomId may return; no collision of 64 random bits
    Executions,      \* a session has executions 1..Executions, in catalog order
    Nobody           \* owner of a free mutex

ASSUME ExecutionsAssumption == Executions \in Nat
ASSUME NobodyAssumption == Nobody \notin Threads

SessionsMutex == <<"sessions">>
SessionMutex(s) == <<"session", s>>
ExecutionMutex(s, e) == <<"execution", s, e>>
Mutexes ==
    {SessionsMutex} \cup {SessionMutex(s) : s \in Sessions}
    \cup {ExecutionMutex(s, e) : s \in Sessions, e \in 1..Executions}

VARIABLES
    sessions,        \* ids in sessions_
    owner,           \* of each mutex
    plan             \* of each thread, what it still has to do

lock_vars == <<sessions, owner, plan>>

-----------------------------------------------------------------------------
(* Plans *)

Lock(m) == [op |-> "lock", on |-> m]
Unlock(m) == [op |-> "unlock", on |-> m]
Insert(s) == [op |-> "insert", on |-> s]
EachSession == [op |-> "each_session", on |-> SessionsMutex]

\* a lock_guard and what happens in its scope
Guarded(m, inner) == <<Lock(m)>> \o inner \o <<Unlock(m)>>

\* a scope in which nothing else is taken: it never waits, so it is one step
Section(m) == <<[op |-> "section", on |-> m]>>
ForEach(Body(_)) == FlattenSeq([e \in 1..Executions |-> Body(e)])

FindSession == Section(SessionsMutex)

\* close_active_fds, whose close() is outside the lock, and clear_active_feature
CloseAndClear(s, e) == Section(ExecutionMutex(s, e)) \o Section(SessionMutex(s))

\* Mutant: the session is cleared before the lock of the execution is released.
SettleInside(s, e) ==
    Guarded(ExecutionMutex(s, e), Section(SessionMutex(s))) \o Section(ExecutionMutex(s, e))

\* mark_failed, mark_network_complete, and maybe_timeout on an overdue feature
Settle(s, e) == Section(ExecutionMutex(s, e)) \o CloseAndClear(s, e)

MaybeTimeout(s, e, overdue) ==
    IF e \in overdue THEN Settle(s, e) ELSE Section(ExecutionMutex(s, e))

FeatureJson(s, e) == Section(ExecutionMutex(s, e))

SessionJson(s) ==
    LET Body(e) == FeatureJson(s, e) IN Guarded(SessionMutex(s), ForEach(Body))

SummaryJson(s, overdue) ==
    LET Body(e) == MaybeTimeout(s, e, overdue) \o FeatureJson(s, e) IN ForEach(Body)

CreateSession(s) == Guarded(SessionsMutex, <<Insert(s)>>) \o SessionJson(s)

SessionIndexHtml == Guarded(SessionsMutex, <<EachSession>>)

\* StartFeature after its two checks: activate_execution, set_active_fds, the
\* id, contract_json and the message; none of it for a refused start
StartFeature(s, e) ==
    LET ex == Section(ExecutionMutex(s, e))
        se == Section(SessionMutex(s))
    IN  se \o ex \o ex \o ex \o se \o ex \o ex

\* A request on a feature: HandleRequest's maybe_timeout, the handler's own
\* one, its critical sections, and the answer.
FeatureRequest(s, e, overdue) ==
    LET twice == MaybeTimeout(s, e, overdue) \o MaybeTimeout(s, e, {}) IN
    { twice \o FeatureJson(s, e),                              \* GET, a refusal
      twice \o StartFeature(s, e) \o FeatureJson(s, e),
      twice \o Settle(s, e) \o FeatureJson(s, e) }             \* complete, unsupported

-----------------------------------------------------------------------------
(* A thread takes the next step of its plan *)

Advance(t) == plan' = [plan EXCEPT ![t] = Tail(@)]
Next1(t) == Head(plan[t])

PassSection(t) ==
    /\ plan[t] # <<>> /\ Next1(t).op = "section"
    /\ owner[Next1(t).on] = Nobody
    /\ Advance(t)
    /\ UNCHANGED <<sessions, owner>>

Acquire(t) ==
    /\ plan[t] # <<>> /\ Next1(t).op = "lock"
    /\ owner[Next1(t).on] = Nobody
    /\ owner' = [owner EXCEPT ![Next1(t).on] = t]
    /\ Advance(t)
    /\ UNCHANGED sessions

Release(t) ==
    /\ plan[t] # <<>> /\ Next1(t).op = "unlock"
    /\ owner' = [owner EXCEPT ![Next1(t).on] = Nobody]
    /\ Advance(t)
    /\ UNCHANGED sessions

Register(t) ==
    /\ plan[t] # <<>> /\ Next1(t).op = "insert"
    /\ sessions' = sessions \cup {Next1(t).on}
    /\ Advance(t)
    /\ UNCHANGED owner

\* the loop over sessions_, under sessions_mutex_
VisitSessions(t) ==
    /\ plan[t] # <<>> /\ Next1(t).op = "each_session"
    /\ plan' = [plan EXCEPT ![t] =
                    FlattenSeq([i \in 1..Cardinality(sessions) |->
                                    Section(SessionMutex(SetToSeq(sessions)[i]))]) \o Tail(@)]
    /\ UNCHANGED <<sessions, owner>>

LockStep(t) == PassSection(t) \/ Acquire(t) \/ Release(t) \/ Register(t) \/ VisitSessions(t)

-----------------------------------------------------------------------------
(* Correctness *)

\* t waits for a mutex that u holds.
WaitsFor(t, u) ==
    plan[t] # <<>> /\ Next1(t).op \in {"lock", "section"} /\ owner[Next1(t).on] = u

(* SessionJson takes the executions' mutexes while it holds the session's, *)
(* and SessionIndexHtml the sessions' while it holds the registry's: no set*)
(* of threads may ever wait for each other in a circle.                    *)
NoCircularWait ==
    \A group \in (SUBSET Threads) \ {{}} :
        \E t \in group : \A u \in group : ~WaitsFor(t, u)
=============================================================================
