--------------------------- MODULE HttpServerProofs ---------------------------
(***************************************************************************)
(* The threads of the feature server never wait for each other in a        *)
(* circle: every handler takes its mutexes in the order registry, session, *)
(* execution, and gives back what it has taken.                            *)
(*                                                                         *)
(* And every handler is given what its client has sent: the words of a     *)
(* request determine where ReadHttpRequest cuts it, however many of them   *)
(* have been read when it looks.                                           *)
(***************************************************************************)
EXTENDS HttpServer, InductionFacts, FiniteSetTheorems

-----------------------------------------------------------------------------
(* The order of the mutexes, and plans that keep to it *)

\* registry 1, session 2, execution 3
Rank(m) == Len(m)

Below(K, m) == \A x \in K : Rank(x) < Rank(m)

Steps == [op : {"lock", "unlock", "section", "each_session"}, on : Mutexes]
         \cup [op : {"insert"}, on : Sessions]

\* step x is in order for a thread that holds K, and leaves it holding L
StepOK(x, K, L) ==
    /\ x \in Steps
    /\ \/ x.op = "lock" /\ Below(K, x.on) /\ L = K \cup {x.on}
       \/ x.op = "unlock" /\ x.on \in K /\ L = K \ {x.on}
       \/ x.op = "section" /\ Below(K, x.on) /\ L = K
       \/ x.op = "each_session" /\ (\A m \in K : Rank(m) < 2) /\ L = K
       \/ x.op = "insert" /\ L = K

\* what a thread holds before each step of p and at its end
Holding(p, h, H, K) ==
    /\ h \in [1..Len(p) + 1 -> SUBSET Mutexes]
    /\ h[1] = H /\ h[Len(p) + 1] = K
    /\ \A i \in 1..Len(p) : StepOK(p[i], h[i], h[i + 1])

Legal(p, H, K) == p \in Seq(Steps) /\ \E h : Holding(p, h, H, K)

(* A plan with nothing to do leaves its thread with what it holds. *)
LEMMA LegalEmpty ==
    ASSUME NEW H \in SUBSET Mutexes
    PROVE  Legal(<<>>, H, H)
<1> DEFINE h == [i \in 1..1 |-> H]
<1>1. Holding(<<>>, h, H, H)
  BY DEF Holding
<1> QED BY <1>1 DEF Legal

(* A thread at the end of its plan holds what the plan leaves it. *)
LEMMA LegalAtEnd ==
    ASSUME NEW H, NEW K, Legal(<<>>, H, K)
    PROVE  H = K
BY DEF Legal, Holding

(* One step in order is a plan in order. *)
LEMMA LegalStep ==
    ASSUME NEW H \in SUBSET Mutexes, NEW K \in SUBSET Mutexes, NEW x, StepOK(x, H, K)
    PROVE  Legal(<<x>>, H, K)
<1> DEFINE h == [i \in 1..2 |-> IF i = 1 THEN H ELSE K]
<1>1. x \in Steps
  BY DEF StepOK
<1>2. Len(<<x>>) = 1 /\ <<x>>[1] = x
  OBVIOUS
<1>3. h \in [1..2 -> SUBSET Mutexes] /\ h[1] = H /\ h[2] = K
  OBVIOUS
<1> HIDE DEF h
<1>4. Holding(<<x>>, h, H, K)
  BY <1>2, <1>3 DEF Holding
<1> QED BY <1>1, <1>4 DEF Legal

(* One handler's critical sections after another's: a plan goes on where *)
(* the one before it has ended.                                          *)
LEMMA LegalConcat ==
    ASSUME NEW p, NEW q, NEW H, NEW K, NEW L, Legal(p, H, K), Legal(q, K, L)
    PROVE  Legal(p \o q, H, L)
<1>1. PICK g : Holding(p, g, H, K)
  BY DEF Legal
<1>2. PICK h : Holding(q, h, K, L)
  BY DEF Legal
<1>3. p \in Seq(Steps) /\ q \in Seq(Steps)
  BY DEF Legal
<1> DEFINE m == Len(p)
           n == Len(q)
           f == [i \in 1..m + n + 1 |-> IF i <= m THEN g[i] ELSE h[i - m]]
<1>4. m \in Nat /\ n \in Nat
  BY <1>3
<1>5. p \o q \in Seq(Steps) /\ Len(p \o q) = m + n
  BY <1>3
<1>6. \A i \in 1..m : (p \o q)[i] = p[i]
  BY <1>3, <1>4
<1>7. \A i \in m + 1..m + n : (p \o q)[i] = q[i - m] /\ i - m \in 1..n
  BY <1>3, <1>4
<1>8. \A i \in 1..m + 1 : f[i] = g[i]
  <2>1. g[m + 1] = h[1]
    BY <1>1, <1>2 DEF Holding
  <2> QED BY <1>4, <2>1
<1>9. \A i \in m + 1..m + n + 1 : f[i] = h[i - m] /\ i - m \in 1..n + 1
  BY <1>4
<1>10. f \in [1..m + n + 1 -> SUBSET Mutexes]
  <2>1. g \in [1..m + 1 -> SUBSET Mutexes] /\ h \in [1..n + 1 -> SUBSET Mutexes]
    BY <1>1, <1>2 DEF Holding
  <2>2. \A i \in 1..m + n + 1 : f[i] \in SUBSET Mutexes
    <3> TAKE i \in 1..m + n + 1
    <3>1. CASE i <= m
      BY <3>1, <1>4, <1>8, <2>1
    <3>2. CASE i > m
      BY <3>2, <1>4, <1>9, <2>1
    <3> QED BY <3>1, <3>2, <1>4
  <2> QED BY <2>2
<1>11. f[1] = H /\ f[m + n + 1] = L
  BY <1>1, <1>2, <1>4, <1>8, <1>9 DEF Holding
<1> HIDE DEF f
<1>12. \A i \in 1..m + n : StepOK((p \o q)[i], f[i], f[i + 1])
  <2> TAKE i \in 1..m + n
  <2>1. CASE i <= m
    <3>1. f[i] = g[i] /\ f[i + 1] = g[i + 1] /\ (p \o q)[i] = p[i] /\ i \in 1..m
      BY <2>1, <1>4, <1>6, <1>8
    <3>2. StepOK(p[i], g[i], g[i + 1])
      BY <3>1, <1>1 DEF Holding
    <3> QED BY <3>1, <3>2
  <2>2. CASE i > m
    <3>1. f[i] = h[i - m] /\ f[i + 1] = h[(i - m) + 1]
      BY <2>2, <1>4, <1>9
    <3>2. (p \o q)[i] = q[i - m] /\ i - m \in 1..n
      BY <2>2, <1>4, <1>7
    <3>3. StepOK(q[i - m], h[i - m], h[(i - m) + 1])
      BY <3>2, <1>2 DEF Holding
    <3> QED BY <3>1, <3>2, <3>3
  <2> QED BY <2>1, <2>2, <1>4
<1>13. Holding(p \o q, f, H, L)
  BY <1>5, <1>10, <1>11, <1>12 DEF Holding
<1> QED BY <1>5, <1>13 DEF Legal

(* The step a thread takes next is in order, and so is what is left. *)
LEMMA LegalHead ==
    ASSUME NEW p, NEW H, NEW K, Legal(p, H, K), p # <<>>
    PROVE  \E L \in SUBSET Mutexes : StepOK(Head(p), H, L) /\ Legal(Tail(p), L, K)
<1>1. PICK h : Holding(p, h, H, K)
  BY DEF Legal
<1>2. p \in Seq(Steps)
  BY DEF Legal
<1> DEFINE n == Len(p) - 1
           g == [i \in 1..n + 1 |-> h[i + 1]]
<1>3. /\ n \in Nat /\ Len(p) = n + 1 /\ Head(p) = p[1]
      /\ Tail(p) \in Seq(Steps) /\ Len(Tail(p)) = n
      /\ \A i \in 1..n : Tail(p)[i] = p[i + 1]
  BY <1>2
<1> HIDE DEF n
<1>4. h \in [1..n + 2 -> SUBSET Mutexes] /\ h[1] = H /\ h[n + 2] = K
  BY <1>1, <1>3 DEF Holding
<1>5. \A i \in 1..n + 1 : StepOK(p[i], h[i], h[i + 1])
  BY <1>1, <1>3 DEF Holding
<1>6. g \in [1..n + 1 -> SUBSET Mutexes] /\ g[1] = h[2] /\ g[n + 1] = K
  BY <1>3, <1>4
<1>7. \A i \in 1..n : g[i] = h[i + 1] /\ g[i + 1] = h[(i + 1) + 1] /\ i + 1 \in 1..n + 1
  BY <1>3
<1> HIDE DEF g
<1>8. Holding(Tail(p), g, h[2], K)
  BY <1>3, <1>5, <1>6, <1>7 DEF Holding
<1>9. StepOK(Head(p), H, h[2]) /\ h[2] \in SUBSET Mutexes
  BY <1>3, <1>4, <1>5
<1> QED BY <1>3, <1>8, <1>9 DEF Legal

-----------------------------------------------------------------------------
(* Loops: FlattenSeq of plans that each leave their thread as it was *)

(* A loop whose every round is in order, and leaves its thread with what *)
(* it held, is in order: the loops over executions and over sessions.    *)
LEMMA LegalLoop ==
    ASSUME NEW n \in Nat, NEW ss, ss = [i \in 1..n |-> ss[i]], NEW H \in SUBSET Mutexes,
           \A i \in 1..n : Legal(ss[i], H, H)
    PROVE  Legal(FlattenSeq(ss), H, H)
<1>1. ss \in Seq(Seq(Steps)) /\ Len(ss) = n
  <2>1. \A i \in 1..n : ss[i] \in Seq(Steps)
    BY DEF Legal
  <2> QED BY <2>1
<1>2. CASE n = 0
  <2>1. FlattenSeq(ss) = <<>>
    BY <1>1, <1>2 DEF FlattenSeq
  <2> QED BY <2>1, LegalEmpty
<1>3. CASE n # 0
  <2>1. PICK f : Flattens(f, ss, n) /\ FlattenSeq(ss) = f[n]
    BY <1>1, <1>3, FlattenIsLast
  <2>2. \A i \in 1..n : f[i] = IF i = 1 THEN ss[i] ELSE f[i - 1] \o ss[i]
    BY <2>1 DEF Flattens
  <2> DEFINE S == {i \in Nat : i \in 1..n => Legal(f[i], H, H)}
  <2>3. 0 \in S
    OBVIOUS
  <2>4. ASSUME NEW i \in Nat, i \in S
        PROVE  i + 1 \in S
    <3> SUFFICES ASSUME i + 1 \in 1..n
                 PROVE  Legal(f[i + 1], H, H)
      OBVIOUS
    <3>1. CASE i = 0
      BY <2>2, <3>1
    <3>2. CASE i # 0
      <4>1. i \in 1..n /\ (i + 1) - 1 = i /\ i + 1 # 1
        BY <3>2
      <4>2. Legal(f[i], H, H) /\ Legal(ss[i + 1], H, H)
        BY <4>1, <2>4
      <4>3. f[i + 1] = f[i] \o ss[i + 1]
        BY <4>1, <2>2
      <4> QED BY <4>2, <4>3, LegalConcat
    <3> QED BY <3>1, <3>2
  <2> HIDE DEF S
  <2>5. n \in S
    BY <2>3, <2>4, SetInduction
  <2> QED BY <2>5, <2>1, <1>3 DEF S
<1> QED BY <1>2, <1>3

-----------------------------------------------------------------------------
(* The plans of the handlers: each ends with no mutex held *)

Orderly(p) == Legal(p, {}, {})

(* The three kinds of mutex and their ranks. *)
LEMMA Ranks ==
    /\ SessionsMutex \in Mutexes /\ Rank(SessionsMutex) = 1
    /\ \A s \in Sessions : SessionMutex(s) \in Mutexes /\ Rank(SessionMutex(s)) = 2
    /\ \A s \in Sessions, e \in 1..Executions :
          ExecutionMutex(s, e) \in Mutexes /\ Rank(ExecutionMutex(s, e)) = 3
BY DEF Mutexes, Rank, SessionsMutex, SessionMutex, ExecutionMutex

(* No other kind of mutex: every rank is 1, 2 or 3. *)
LEMMA RankBound ==
    ASSUME NEW m \in Mutexes
    PROVE  Rank(m) \in 1..3
BY DEF Mutexes, Rank, SessionsMutex, SessionMutex, ExecutionMutex

(* A critical section in which nothing else is taken. *)
LEMMA LegalSection ==
    ASSUME NEW m \in Mutexes, NEW H \in SUBSET Mutexes, Below(H, m)
    PROVE  Legal(Section(m), H, H)
<1> DEFINE x == [op |-> "section", on |-> m]
<1>1. StepOK(x, H, H)
  BY DEF StepOK, Steps
<1> HIDE DEF x
<1>2. Legal(<<x>>, H, H)
  BY <1>1, LegalStep
<1> QED BY <1>2 DEF Section, x

(* A lock_guard around code that keeps to the order under that mutex. *)
LEMMA OrderlyGuarded ==
    ASSUME NEW m \in Mutexes, NEW inner, Legal(inner, {m}, {m})
    PROVE  Orderly(Guarded(m, inner))
<1>1. Legal(<<Lock(m)>>, {}, {m})
  <2>1. StepOK(Lock(m), {}, {m})
    BY DEF StepOK, Steps, Lock, Below
  <2> QED BY <2>1, LegalStep
<1>2. Legal(<<Unlock(m)>>, {m}, {})
  <2>1. StepOK(Unlock(m), {m}, {})
    BY DEF StepOK, Steps, Unlock
  <2> QED BY <2>1, LegalStep
<1>3. Legal(<<Lock(m)>> \o inner, {}, {m})
  BY <1>1, LegalConcat
<1>4. Legal((<<Lock(m)>> \o inner) \o <<Unlock(m)>>, {}, {})
  BY <1>2, <1>3, LegalConcat
<1> QED BY <1>4 DEF Guarded, Orderly

(* One handler's sections after another's. *)
LEMMA OrderlyConcat ==
    ASSUME NEW p, NEW q, Orderly(p), Orderly(q)
    PROVE  Orderly(p \o q)
BY LegalConcat DEF Orderly

(* A section by a thread that holds nothing. *)
LEMMA OrderlySection ==
    ASSUME NEW m \in Mutexes
    PROVE  Orderly(Section(m))
BY LegalSection DEF Orderly, Below

(* mark_failed, mark_network_complete and maybe_timeout take the mutexes *)
(* of the execution and of the session one after the other.              *)
LEMMA OrderlySettle ==
    ASSUME NEW s \in Sessions, NEW e \in 1..Executions
    PROVE  /\ Orderly(Settle(s, e))
           /\ \A overdue : Orderly(MaybeTimeout(s, e, overdue))
<1>1. Orderly(Section(ExecutionMutex(s, e))) /\ Orderly(Section(SessionMutex(s)))
  BY Ranks, OrderlySection
<1>2. Orderly(CloseAndClear(s, e))
  BY <1>1, OrderlyConcat DEF CloseAndClear
<1>3. Orderly(Settle(s, e))
  BY <1>1, <1>2, OrderlyConcat DEF Settle
<1> QED BY <1>1, <1>3 DEF MaybeTimeout

(* SessionJson takes the mutex of every execution under the session's. *)
LEMMA OrderlySessionJson ==
    ASSUME NEW s \in Sessions
    PROVE  Orderly(SessionJson(s))
<1> DEFINE m == SessionMutex(s)
           ss == [e \in 1..Executions |-> Section(ExecutionMutex(s, e))]
<1>1. m \in Mutexes
  BY Ranks
<1>2. \A e \in 1..Executions : Legal(ss[e], {m}, {m})
  <2> TAKE e \in 1..Executions
  <2>1. Below({m}, ExecutionMutex(s, e)) /\ ExecutionMutex(s, e) \in Mutexes
    BY Ranks DEF Below
  <2>2. Legal(Section(ExecutionMutex(s, e)), {m}, {m})
    BY <1>1, <2>1, LegalSection
  <2> QED BY <2>2
<1>3. ss = [e \in 1..Executions |-> ss[e]]
  OBVIOUS
<1>4. SessionJson(s) = Guarded(m, FlattenSeq(ss))
  BY DEF SessionJson, ForEach, FeatureJson
<1> HIDE DEF m, ss
<1>5. Legal(FlattenSeq(ss), {m}, {m})
  BY <1>1, <1>2, <1>3, ExecutionsAssumption, LegalLoop
<1> QED BY <1>1, <1>4, <1>5, OrderlyGuarded

(* SummaryJson times each execution out and reads it, one by one. *)
LEMMA OrderlySummaryJson ==
    ASSUME NEW s \in Sessions, NEW overdue
    PROVE  Orderly(SummaryJson(s, overdue))
<1> DEFINE ss == [e \in 1..Executions |-> MaybeTimeout(s, e, overdue) \o FeatureJson(s, e)]
<1>1. \A e \in 1..Executions : Legal(ss[e], {}, {})
  <2> TAKE e \in 1..Executions
  <2>1. Orderly(Section(ExecutionMutex(s, e)))
    BY Ranks, OrderlySection
  <2>2. Orderly(MaybeTimeout(s, e, overdue) \o FeatureJson(s, e))
    BY <2>1, OrderlySettle, OrderlyConcat DEF FeatureJson
  <2> QED BY <2>2 DEF Orderly
<1>2. ss = [e \in 1..Executions |-> ss[e]]
  OBVIOUS
<1>3. SummaryJson(s, overdue) = FlattenSeq(ss)
  BY DEF SummaryJson, ForEach
<1> HIDE DEF ss
<1>4. Legal(FlattenSeq(ss), {}, {})
  BY <1>1, <1>2, ExecutionsAssumption, LegalLoop
<1> QED BY <1>3, <1>4 DEF Orderly

(* CreateSession inserts under the registry's mutex and answers without it. *)
LEMMA OrderlyCreateSession ==
    ASSUME NEW s \in Sessions
    PROVE  Orderly(CreateSession(s))
<1>1. StepOK(Insert(s), {SessionsMutex}, {SessionsMutex})
  BY DEF StepOK, Steps, Insert
<1>2. Orderly(Guarded(SessionsMutex, <<Insert(s)>>))
  BY <1>1, Ranks, LegalStep, OrderlyGuarded
<1> QED BY <1>2, OrderlySessionJson, OrderlyConcat DEF CreateSession

(* SessionIndexHtml visits the sessions under the registry's mutex. *)
LEMMA OrderlySessionIndex == Orderly(SessionIndexHtml)
<1>1. StepOK(EachSession, {SessionsMutex}, {SessionsMutex})
  BY Ranks DEF StepOK, Steps, EachSession
<1> QED BY <1>1, Ranks, LegalStep, OrderlyGuarded DEF SessionIndexHtml

(* A request on a feature, whatever it is: refused, a start or an end. *)
LEMMA OrderlyFeatureRequest ==
    ASSUME NEW s \in Sessions, NEW e \in 1..Executions, NEW overdue,
           NEW p \in FeatureRequest(s, e, overdue)
    PROVE  Orderly(p)
<1> DEFINE ex == Section(ExecutionMutex(s, e))
           se == Section(SessionMutex(s))
           twice == MaybeTimeout(s, e, overdue) \o MaybeTimeout(s, e, {})
<1>1. Orderly(ex) /\ Orderly(se)
  BY Ranks, OrderlySection
<1>2. Orderly(twice)
  BY OrderlySettle, OrderlyConcat
<1>3. FeatureJson(s, e) = ex
  BY DEF FeatureJson
<1>4. StartFeature(s, e) = se \o ex \o ex \o ex \o se \o ex \o ex
  BY DEF StartFeature
<1>5. p \in {twice \o ex, twice \o StartFeature(s, e) \o ex, twice \o Settle(s, e) \o ex}
  BY <1>3 DEF FeatureRequest
<1> HIDE DEF ex, se, twice
<1>6. Orderly(StartFeature(s, e))
  <2>1. Orderly(se \o ex \o ex \o ex)
    BY <1>1, OrderlyConcat
  <2> QED BY <1>1, <1>4, <2>1, OrderlyConcat
<1>7. Orderly(Settle(s, e))
  BY OrderlySettle
<1> QED BY <1>1, <1>2, <1>5, <1>6, <1>7, OrderlyConcat

(* FindSession looks an id up under the registry's mutex alone. *)
LEMMA OrderlyFindSession == Orderly(FindSession)
BY Ranks, OrderlySection DEF FindSession

(* What is done for a request on a session that exists. *)
LEMMA OrderlyAnswers ==
    ASSUME NEW s \in Sessions,
           NEW line \in {"session", "feature", "summary", "stream"},
           NEW p \in Answers(line, s)
    PROVE  Orderly(p)
<1>1. CASE line = "session"
  BY <1>1, OrderlySessionJson DEF Answers
<1>2. CASE line = "summary"
  <2>1. PICK overdue \in SUBSET {1} : p = SummaryJson(s, overdue)
    BY <1>2 DEF Answers
  <2> QED BY <2>1, OrderlySummaryJson
<1>3. CASE line = "feature"
  <2>1. PICK e \in 1..Executions, overdue \in SUBSET {1} : p \in FeatureRequest(s, e, overdue)
    BY <1>3 DEF Answers
  <2> QED BY <2>1, OrderlyFeatureRequest
<1>4. CASE line = "stream"
  <2>1. p = <<>>
    BY <1>4 DEF Answers
  <2> QED BY <2>1, LegalEmpty DEF Orderly
<1> QED BY <1>1, <1>2, <1>3, <1>4

-----------------------------------------------------------------------------
(* The invariant: what every thread still has to do is in order, given the *)
(* mutexes it holds                                                        *)

HeldBy(t) == {m \in Mutexes : owner[m] = t}

LocksOK ==
    /\ sessions \subseteq Sessions /\ IsFiniteSet(sessions)
    /\ owner \in [Mutexes -> Threads \cup {Nobody}]
    /\ plan = [t \in Threads |-> plan[t]]

PlansOK == \A t \in Threads : Legal(plan[t], HeldBy(t), {})

\* Only a connection that is being handled has something to do with locks.
ConnsOK ==
    /\ step = [c \in Conns |-> step[c]]
    /\ session \in [Conns -> Sessions]
    /\ \A c \in Conns : step[c] \notin {"handle", "scan"} => plan[c] = <<>>

LockInv == LocksOK /\ PlansOK /\ ConnsOK

(* SetToSeq of a finite set lists nothing else. *)
LEMMA SetToSeqMembers ==
    ASSUME NEW S, IsFiniteSet(S), NEW i \in 1..Cardinality(S)
    PROVE  Cardinality(S) \in Nat /\ SetToSeq(S)[i] \in S
<1>1. Cardinality(S) \in Nat
  BY FS_CardinalityType
<1>2. PICK f : f \in Bijection(1..Cardinality(S), S)
  BY FS_CardinalityType, FS_NatBijection, <1>1 DEF ExistsBijection
<1>3. f \in [1..Cardinality(S) -> S] /\ IsInjective(f)
  BY <1>2 DEF Bijection, Injection, Surjection, IsInjective
<1>4. SetToSeq(S) \in [1..Cardinality(S) -> S]
  BY <1>3 DEF SetToSeq
<1> QED BY <1>1, <1>4

(* Whoever holds nothing can be given any orderly plan, and a thread with *)
(* nothing left to do holds nothing.                                      *)
LEMMA IdleHoldsNothing ==
    ASSUME PlansOK, NEW t \in Threads, plan[t] = <<>>
    PROVE  HeldBy(t) = {}
BY LegalAtEnd DEF PlansOK

(* A step of a plan changes what its own thread holds as StepOK says.  *)
(* What is left of the plan is in order, and the loop over the sessions *)
(* brings sections that are in order where only the registry is held.  *)
LEMMA LockStepOwn ==
    ASSUME LocksOK, PlansOK, NEW t \in Threads, LockStep(t)
    PROVE  LocksOK' /\ Legal(plan'[t], HeldBy(t)', {})
<1> DEFINE x == Next1(t)
<1>1. PICK L \in SUBSET Mutexes : StepOK(x, HeldBy(t), L) /\ Legal(Tail(plan[t]), L, {})
  <2>1. plan[t] # <<>> /\ Legal(plan[t], HeldBy(t), {})
    BY DEF LockStep, PassSection, Acquire, Release, Register, VisitSessions, PlansOK
  <2> QED BY <2>1, LegalHead DEF Next1
<1>2. HeldBy(t) \subseteq Mutexes
  BY DEF HeldBy
<1>3. x \in Steps
  BY <1>1 DEF StepOK
<1>4. CASE PassSection(t)
  <2>1. plan'[t] = Tail(plan[t]) /\ UNCHANGED <<sessions, owner>> /\ x.op = "section"
    BY <1>4 DEF PassSection, Advance, LocksOK
  <2>2. L = HeldBy(t) /\ HeldBy(t)' = HeldBy(t)
    BY <1>1, <2>1 DEF StepOK, HeldBy
  <2>3. LocksOK'
    BY <1>4 DEF PassSection, Advance, LocksOK
  <2> QED BY <1>1, <2>1, <2>2, <2>3
<1>5. CASE Acquire(t)
  <2>1. /\ plan'[t] = Tail(plan[t]) /\ owner[x.on] = Nobody /\ x.op = "lock"
        /\ owner' = [owner EXCEPT ![x.on] = t]
    BY <1>5 DEF Acquire, Advance, LocksOK
  <2>2. x.on \in Mutexes
    BY <1>3, <2>1 DEF Steps
  <2>3. L = HeldBy(t) \cup {x.on}
    BY <1>1, <2>1 DEF StepOK
  <2>4. HeldBy(t)' = HeldBy(t) \cup {x.on}
    BY <2>1, <2>2 DEF HeldBy, LocksOK
  <2>5. LocksOK'
    BY <1>5, <2>2 DEF Acquire, Advance, LocksOK
  <2> QED BY <1>1, <2>1, <2>3, <2>4, <2>5
<1>6. CASE Release(t)
  <2>1. /\ plan'[t] = Tail(plan[t]) /\ x.op = "unlock"
        /\ owner' = [owner EXCEPT ![x.on] = Nobody]
    BY <1>6 DEF Release, Advance, LocksOK
  <2>2. x.on \in Mutexes
    BY <1>3, <2>1 DEF Steps
  <2>3. L = HeldBy(t) \ {x.on}
    BY <1>1, <2>1 DEF StepOK
  <2>4. HeldBy(t)' = HeldBy(t) \ {x.on}
    BY <2>1, <2>2, NobodyAssumption DEF HeldBy, LocksOK
  <2>5. LocksOK'
    BY <1>6, <2>2 DEF Release, Advance, LocksOK
  <2> QED BY <1>1, <2>1, <2>3, <2>4, <2>5
<1>7. CASE Register(t)
  <2>1. /\ plan'[t] = Tail(plan[t]) /\ x.op = "insert" /\ UNCHANGED owner
        /\ sessions' = sessions \cup {x.on}
    BY <1>7 DEF Register, Advance, LocksOK
  <2>2. x.on \in Sessions
    BY <1>3, <2>1 DEF Steps
  <2>3. L = HeldBy(t) /\ HeldBy(t)' = HeldBy(t)
    BY <1>1, <2>1 DEF StepOK, HeldBy
  <2>4. IsFiniteSet(sessions')
    BY <2>1, FS_AddElement DEF LocksOK
  <2>5. LocksOK'
    BY <1>7, <2>1, <2>2, <2>4 DEF Register, Advance, LocksOK
  <2> QED BY <1>1, <2>1, <2>3, <2>5
<1>8. CASE VisitSessions(t)
  <2> DEFINE n == Cardinality(sessions)
             ss == [i \in 1..n |-> Section(SessionMutex(SetToSeq(sessions)[i]))]
  <2>1. /\ plan'[t] = FlattenSeq(ss) \o Tail(plan[t]) /\ x.op = "each_session"
        /\ UNCHANGED <<sessions, owner>>
    BY <1>8 DEF VisitSessions, LocksOK
  <2>2. HeldBy(t)' = HeldBy(t) /\ L = HeldBy(t)
    BY <1>1, <2>1 DEF StepOK, HeldBy
  <2>3. \A m \in HeldBy(t) : Rank(m) < 2
    BY <1>1, <2>1 DEF StepOK
  <2>4. n \in Nat
    BY FS_CardinalityType DEF LocksOK
  <2>5. \A i \in 1..n : Legal(ss[i], HeldBy(t), HeldBy(t))
    <3> TAKE i \in 1..n
    <3> DEFINE m == SessionMutex(SetToSeq(sessions)[i])
    <3>1. SetToSeq(sessions)[i] \in Sessions
      BY SetToSeqMembers DEF LocksOK
    <3>2. m \in Mutexes /\ Rank(m) = 2
      BY <3>1, Ranks
    <3>3. Below(HeldBy(t), m)
      BY <2>3, <3>2 DEF Below
    <3>4. Legal(Section(m), HeldBy(t), HeldBy(t))
      BY <1>2, <3>2, <3>3, LegalSection
    <3> QED BY <3>4
  <2>6. ss = [i \in 1..n |-> ss[i]]
    OBVIOUS
  <2>7. LocksOK'
    BY <1>8 DEF VisitSessions, LocksOK
  <2> HIDE DEF n, ss
  <2>8. Legal(FlattenSeq(ss), HeldBy(t), HeldBy(t))
    BY <1>2, <2>4, <2>5, <2>6, LegalLoop
  <2>9. Legal(FlattenSeq(ss) \o Tail(plan[t]), HeldBy(t), {})
    BY <1>1, <2>2, <2>8, LegalConcat
  <2> QED BY <2>1, <2>2, <2>7, <2>9
<1> QED BY <1>4, <1>5, <1>6, <1>7, <1>8 DEF LockStep

(* A step of a plan leaves the other threads what they hold and have to do. *)
LEMMA LockStepOthers ==
    ASSUME LocksOK, PlansOK, NEW t \in Threads, LockStep(t), NEW u \in Threads, u # t
    PROVE  plan'[u] = plan[u] /\ HeldBy(u)' = HeldBy(u)
<1> DEFINE x == Next1(t)
<1>1. PICK L \in SUBSET Mutexes : StepOK(x, HeldBy(t), L)
  <2>1. plan[t] # <<>> /\ Legal(plan[t], HeldBy(t), {})
    BY DEF LockStep, PassSection, Acquire, Release, Register, VisitSessions, PlansOK
  <2> QED BY <2>1, LegalHead DEF Next1
<1>2. plan'[u] = plan[u]
  BY DEF LockStep, PassSection, Acquire, Release, Register, VisitSessions, Advance, LocksOK
<1>3. CASE Acquire(t)
  BY <1>2, <1>3, NobodyAssumption DEF Acquire, HeldBy, LocksOK
<1>4. CASE Release(t)
  <2>1. x.op = "unlock" /\ owner' = [owner EXCEPT ![x.on] = Nobody]
    BY <1>4 DEF Release
  <2>2. owner[x.on] = t
    BY <1>1, <2>1 DEF StepOK, HeldBy
  <2> QED BY <1>2, <2>1, <2>2, NobodyAssumption DEF HeldBy, LocksOK
<1>5. CASE PassSection(t) \/ Register(t) \/ VisitSessions(t)
  <2>1. UNCHANGED owner
    BY <1>5 DEF PassSection, Register, VisitSessions
  <2> QED BY <1>2, <2>1 DEF HeldBy
<1> QED BY <1>2, <1>3, <1>4, <1>5 DEF LockStep

(* A lock step of t keeps every plan in order. *)
LEMMA LockStepKeeps ==
    ASSUME LocksOK, PlansOK, NEW t \in Threads, LockStep(t)
    PROVE  LocksOK' /\ PlansOK'
<1>1. LocksOK' /\ Legal(plan'[t], HeldBy(t)', {})
  BY LockStepOwn
<1>2. \A u \in Threads : u # t => Legal(plan'[u], HeldBy(u)', {})
  <2> SUFFICES ASSUME NEW u \in Threads, u # t
               PROVE  Legal(plan'[u], HeldBy(u)', {})
    OBVIOUS
  <2>1. plan'[u] = plan[u] /\ HeldBy(u)' = HeldBy(u)
    BY LockStepOthers
  <2> QED BY <2>1 DEF PlansOK
<1> QED BY <1>1, <1>2 DEF PlansOK

-----------------------------------------------------------------------------
(* The steps of the connections *)

(* What a connection does while no request is handled has nothing to do *)
(* with locks.                                                          *)
LEMMA AwayFromLocks ==
    ASSUME LockInv, NEW c \in Conns, UNCHANGED <<sessions, owner, plan, session>>,
           \/ step' = step
           \/ step[c] \notin {"handle", "scan"} /\ \E next : Goto(c, next)
    PROVE  LockInv'
<1>1. LocksOK' /\ PlansOK'
  BY DEF LockInv, LocksOK, PlansOK, HeldBy
<1>2. ConnsOK'
  BY DEF LockInv, ConnsOK, Goto
<1> QED BY <1>1, <1>2 DEF LockInv

(* A connection with nothing left to do may be given any orderly plan. *)
LEMMA GivenPlan ==
    ASSUME LockInv, NEW c \in Conns, plan[c] = <<>>,
           NEW p, Orderly(p), plan' = [plan EXCEPT ![c] = p],
           UNCHANGED <<sessions, owner>>, session' \in [Conns -> Sessions],
           NEW next \in {"handle", "scan"}, Goto(c, next)
    PROVE  LockInv'
<1>1. c \in Threads
  BY ThreadsAssumption
<1>2. HeldBy(c) = {}
  BY <1>1, IdleHoldsNothing DEF LockInv
<1>3. LocksOK'
  BY DEF LockInv, LocksOK
<1>4. PlansOK'
  <2> SUFFICES ASSUME NEW t \in Threads
               PROVE  Legal(plan'[t], HeldBy(t)', {})
    BY DEF PlansOK
  <2>1. HeldBy(t)' = HeldBy(t)
    BY DEF HeldBy
  <2>2. CASE t = c
    <3>1. plan'[t] = p
      BY <2>2 DEF LockInv, LocksOK
    <3> QED BY <1>2, <2>1, <2>2, <3>1 DEF Orderly
  <2>3. CASE t # c
    <3>1. plan'[t] = plan[t]
      BY <2>3 DEF LockInv, LocksOK
    <3> QED BY <2>1, <3>1 DEF LockInv, PlansOK
  <2> QED BY <2>2, <2>3
<1>5. ConnsOK'
  BY <1>1 DEF LockInv, ConnsOK, LocksOK, Goto
<1> QED BY <1>3, <1>4, <1>5 DEF LockInv

(* HandleRequest gives the thread the plan of the route's handler. *)
LEMMA DispatchKeeps ==
    ASSUME LockInv, NEW c \in Conns, step[c] \notin {"handle", "scan"}, Dispatch(c),
           UNCHANGED <<sessions, owner>>
    PROVE  LockInv'
<1> DEFINE Gives(p) == plan' = [plan EXCEPT ![c] = p]
           For(s) == session' = [session EXCEPT ![c] = s]
<1>1. plan[c] = <<>> /\ session \in [Conns -> Sessions]
  BY DEF LockInv, ConnsOK
<1>2. Orderly(<<>>)
  BY LegalEmpty DEF Orderly
<1>3. c \in Sessions
  BY SessionsAssumption
<1>4. Goto(c, "handle")
  BY DEF Dispatch
<1>5. /\ session' = session \/ \E s \in Sessions : For(s)
      /\ \E p : Orderly(p) /\ Gives(p)
  <2>1. CASE For(c) /\ Gives(CreateSession(c))
    BY <2>1, <1>3, OrderlyCreateSession
  <2>2. CASE For(c) /\ Gives(<<>>)
    BY <2>2, <1>2, <1>3
  <2>3. CASE UNCHANGED session /\ Gives(SessionIndexHtml)
    BY <2>3, OrderlySessionIndex
  <2>4. CASE UNCHANGED session /\ Gives(<<>>)
    BY <2>4, <1>2
  <2>5. ASSUME NEW s \in Sessions, For(s), Gives(FindSession)
        PROVE  <1>5!1 /\ <1>5!2
    BY <2>5, OrderlyFindSession
  <2>6. ASSUME NEW s \in Sessions, For(s),
               NEW line \in {"session", "feature", "summary", "stream"},
               NEW p \in Answers(line, s), Gives(FindSession \o p)
        PROVE  <1>5!1 /\ <1>5!2
    <3>1. Orderly(FindSession \o p)
      BY OrderlyAnswers, OrderlyFindSession, OrderlyConcat
    <3> QED BY <2>6, <3>1
  <2> QED BY <2>1, <2>2, <2>3, <2>4, <2>5, <2>6, ZenonT(30) DEF Dispatch
<1>6. session' \in [Conns -> Sessions]
  BY <1>1, <1>5
<1>7. PICK p : Orderly(p) /\ Gives(p)
  BY <1>5
<1> QED BY <1>1, <1>4, <1>6, <1>7, GivenPlan

(* ReadHttpRequest refuses, reads on or hands over to HandleRequest. *)
LEMMA ReadKeeps ==
    ASSUME LockInv, NEW c \in Conns, Read(c)
    PROVE  LockInv'
<1>1. step[c] \in {"head", "body"} /\ UNCHANGED <<sessions, owner>>
  BY DEF Read, ReadEnds, ReadHeader, ReadBody, Arrives
<1>2. \/ \E code : Refuse(c, code)
      \/ UNCHANGED <<step, session, plan>>
      \/ \E n : HandleOrReadOn(c, n)
  BY DEF Read, ReadEnds, ReadHeader, ReadBody, ParseHeader
<1>3. CASE \E code : Refuse(c, code)
  <2>1. \E next : Goto(c, next)
    BY <1>3 DEF Refuse, Respond
  <2> QED BY <1>1, <1>3, <2>1, AwayFromLocks DEF Refuse
<1>4. CASE UNCHANGED <<step, session, plan>>
  BY <1>1, <1>4, AwayFromLocks
<1>5. CASE \E n : HandleOrReadOn(c, n)
  <2>1. CASE Dispatch(c)
    BY <1>1, <2>1, DispatchKeeps
  <2>2. CASE Goto(c, "body") /\ UNCHANGED <<session, plan>>
    BY <1>1, <2>2, AwayFromLocks
  <2> QED BY <1>5, <2>1, <2>2 DEF HandleOrReadOn
<1> QED BY <1>2, <1>3, <1>4, <1>5

(* A handler's thread follows its plan to the end and then goes on. *)
LEMMA HandleKeeps ==
    ASSUME LockInv, NEW c \in Conns, Handle(c)
    PROVE  LockInv'
<1>1. c \in Threads /\ step[c] \in {"handle", "scan"} /\ UNCHANGED session
  BY ThreadsAssumption DEF Handle
<1>2. CASE LockStep(c) /\ UNCHANGED step
  <2>1. LocksOK' /\ PlansOK'
    BY <1>1, <1>2, LockStepKeeps DEF LockInv
  <2>2. \A d \in Conns : d # c => plan'[d] = plan[d]
    BY <1>1, <1>2, LockStepOthers, ThreadsAssumption DEF LockInv
  <2>3. ConnsOK'
    BY <1>1, <1>2, <2>2 DEF LockInv, ConnsOK
  <2> QED BY <2>1, <2>3 DEF LockInv
<1>3. CASE plan[c] = <<>> /\ (\E next : Goto(c, next)) /\ UNCHANGED lock_vars
  <2>1. LocksOK' /\ PlansOK'
    BY <1>3 DEF LockInv, LocksOK, PlansOK, HeldBy, lock_vars
  <2>2. ConnsOK'
    BY <1>1, <1>3 DEF LockInv, ConnsOK, Goto, lock_vars
  <2> QED BY <2>1, <2>2 DEF LockInv
<1> QED BY <1>2, <1>3 DEF Handle

(* A stream's next summary is a plan for a thread that has none. *)
LEMMA NextSummaryKeeps ==
    ASSUME LockInv, NEW c \in Conns, NextSummary(c)
    PROVE  LockInv'
<1>1. session[c] \in Sessions /\ plan[c] = <<>> /\ session' \in [Conns -> Sessions]
  BY DEF NextSummary, LockInv, ConnsOK
<1>2. Orderly(SummaryJson(session[c], {}))
  BY <1>1, OrderlySummaryJson
<1>3. /\ plan' = [plan EXCEPT ![c] = SummaryJson(session[c], {})]
      /\ Goto(c, "scan") /\ UNCHANGED <<sessions, owner>>
  BY DEF NextSummary
<1> QED BY <1>1, <1>2, <1>3, GivenPlan

(* Accepting, writing and closing. *)
LEMMA RestKeeps ==
    ASSUME LockInv, NEW c \in Conns,
           \/ Close(c) \/ Reset(c) \/ Accept(c) \/ WriteHttpResponse(c)
           \/ BeginStream(c) \/ WriteEvent(c) \/ CloseConnection(c)
    PROVE  LockInv'
<1>1. UNCHANGED <<sessions, owner, plan, session>>
  BY DEF Close, Reset, Accept, WriteHttpResponse, BeginStream, WriteEvent, CloseConnection,
         lock_vars
<1>2. CASE Close(c) \/ Reset(c)
  BY <1>1, <1>2, AwayFromLocks DEF Close, Reset
<1>3. CASE Accept(c)
  <2>1. step' = step \/ \E next : Goto(c, next)
    BY <1>3 DEF Accept, Respond
  <2>2. step[c] = "queued"
    BY <1>3 DEF Accept
  <2> QED BY <1>1, <2>1, <2>2, AwayFromLocks
<1>4. CASE WriteHttpResponse(c) \/ BeginStream(c) \/ WriteEvent(c) \/ CloseConnection(c)
  <2>1. step' = step \/ \E next : Goto(c, next)
    BY <1>4 DEF WriteHttpResponse, BeginStream, WriteEvent, CloseConnection, Write
  <2>2. step[c] \in {"write", "stream", "event", "close"}
    BY <1>4 DEF WriteHttpResponse, BeginStream, WriteEvent, CloseConnection
  <2> QED BY <1>1, <2>1, <2>2, AwayFromLocks
<1> QED BY <1>2, <1>3, <1>4

(* The SCTP worker follows its plan. *)
LEMMA WorkerKeeps ==
    ASSUME LockInv, WorkerEnds
    PROVE  LockInv'
<1>1. Worker \in Threads /\ LockStep(Worker) /\ UNCHANGED <<step, session>>
  BY ThreadsAssumption DEF WorkerEnds, conn_vars
<1>2. LocksOK' /\ PlansOK'
  BY <1>1, LockStepKeeps DEF LockInv
<1>3. \A d \in Conns : plan'[d] = plan[d]
  BY <1>1, LockStepOthers, ThreadsAssumption DEF LockInv
<1>4. ConnsOK'
  BY <1>1, <1>3 DEF LockInv, ConnsOK
<1> QED BY <1>2, <1>4 DEF LockInv

(* At the start nothing is held, and only the worker has something to do. *)
LEMMA InitLocks == HttpInit => LockInv
<1> SUFFICES ASSUME HttpInit
             PROVE  LockInv
  OBVIOUS
<1>1. FirstSession \in Sessions
  BY SessionsAssumption
<1>2. PICK e \in 1..Executions :
          plan = [t \in Threads |-> IF t = Worker THEN Settle(FirstSession, e) ELSE <<>>]
  BY DEF HttpInit
<1>3. LocksOK
  <2>1. IsFiniteSet({FirstSession})
    BY FS_Singleton
  <2> QED BY <1>1, <1>2, <2>1 DEF HttpInit, LocksOK
<1>4. PlansOK
  <2> SUFFICES ASSUME NEW t \in Threads
               PROVE  Legal(plan[t], HeldBy(t), {})
    BY DEF PlansOK
  <2>1. HeldBy(t) = {}
    BY NobodyAssumption DEF HttpInit, HeldBy
  <2>2. Orderly(plan[t])
    <3>1. Orderly(Settle(FirstSession, e)) /\ Orderly(<<>>)
      BY <1>1, OrderlySettle, LegalEmpty DEF Orderly
    <3>2. plan[t] \in {Settle(FirstSession, e), <<>>}
      BY <1>2
    <3> QED BY <3>1, <3>2
  <2> QED BY <2>1, <2>2 DEF Orderly
<1>5. ConnsOK
  BY <1>1, <1>2, ThreadsAssumption DEF HttpInit, ConnsOK
<1> QED BY <1>3, <1>4, <1>5 DEF LockInv

(* Every step keeps the plans in order. *)
LEMMA NextLocks == LockInv /\ [HttpNext]_http_vars => LockInv'
<1> SUFFICES ASSUME LockInv, [HttpNext]_http_vars
             PROVE  LockInv'
  OBVIOUS
<1>1. ASSUME NEW c \in Conns, Close(c) \/ Reset(c) \/ Serve(c)
      PROVE  LockInv'
  BY <1>1, ReadKeeps, HandleKeeps, NextSummaryKeeps, RestKeeps DEF Serve, Answer
<1>2. CASE WorkerEnds
  BY <1>2, WorkerKeeps
<1>3. CASE UNCHANGED http_vars
  BY <1>3 DEF http_vars, conn_vars, lock_vars, LockInv, LocksOK, PlansOK, ConnsOK, HeldBy
<1> QED BY <1>1, <1>2, <1>3 DEF HttpNext

-----------------------------------------------------------------------------
(* The theorem *)

(* A thread waits only for a mutex above all it holds. *)
LEMMA WaitsUpwards ==
    ASSUME LocksOK, PlansOK, NEW t \in Threads, NEW u \in Threads, WaitsFor(t, u)
    PROVE  LET m == Next1(t).on IN
           m \in Mutexes /\ m \in HeldBy(u) /\ Below(HeldBy(t), m)
<1> DEFINE x == Next1(t)
<1>1. plan[t] # <<>> /\ x.op \in {"lock", "section"} /\ owner[x.on] = u
  BY DEF WaitsFor
<1>2. PICK L \in SUBSET Mutexes : StepOK(x, HeldBy(t), L)
  BY <1>1, LegalHead DEF PlansOK, Next1
<1>3. x.on \in Mutexes
  BY <1>1, <1>2 DEF StepOK, Steps
<1> QED BY <1>1, <1>2, <1>3 DEF StepOK, HeldBy

(* Of the threads of a group, one waits for a mutex no lower than what any *)
(* other waits for: whoever holds that one does not wait.                  *)
LEMMA NoCircle == LockInv => NoCircularWait
<1> SUFFICES ASSUME LockInv, NEW group \in SUBSET Threads, group # {},
                    \A t \in group : \E u \in group : WaitsFor(t, u)
             PROVE  FALSE
  BY DEF NoCircularWait
<1> DEFINE At(t) == Rank(Next1(t).on)
<1>1. LocksOK /\ PlansOK
  BY DEF LockInv
<1>2. \A t \in group : At(t) \in 1..3 /\ \E u \in group : At(t) < At(u)
  <2> TAKE t \in group
  <2>1. PICK u \in group : WaitsFor(t, u)
    OBVIOUS
  <2>2. PICK v \in group : WaitsFor(u, v)
    OBVIOUS
  <2>3. Next1(t).on \in HeldBy(u) /\ Next1(t).on \in Mutexes
    BY <1>1, <2>1, WaitsUpwards
  <2>4. Below(HeldBy(u), Next1(u).on)
    BY <1>1, <2>2, WaitsUpwards
  <2>5. At(t) < At(u)
    BY <2>3, <2>4 DEF Below
  <2> QED BY <2>3, <2>5, RankBound
<1>3. PICK t \in group : TRUE
  OBVIOUS
<1> HIDE DEF At
<1>4. PICK u \in group : At(t) < At(u)
  BY <1>2
<1>5. PICK v \in group : At(u) < At(v)
  BY <1>2
<1>6. PICK w \in group : At(v) < At(w)
  BY <1>2
<1>7. At(t) \in 1..3 /\ At(u) \in 1..3 /\ At(v) \in 1..3 /\ At(w) \in 1..3
  BY <1>2
<1> QED BY <1>4, <1>5, <1>6, <1>7

(* However many connections, sessions and executions there are: no set of  *)
(* threads of the server ever waits for each other in a circle, although   *)
(* SessionJson and SessionIndexHtml take mutexes while they hold another.  *)
THEOREM NoThreadsWaitInACircle == HttpSpec => []NoCircularWait
<1>1. HttpSpec => []LockInv
  BY InitLocks, NextLocks, PTL DEF HttpSpec
<1> QED BY <1>1, NoCircle, PTL

-----------------------------------------------------------------------------
(* The words of a request, put together part by part                       *)

LEMMA TwoPairs ==
    ASSUME NEW S, NEW p \in Seq(S), Len(p) = 2
    PROVE  Cat(p, p) = <<p[1], p[2], p[1], p[2]>>
<1>1. Cat(p, p) \in Seq(S) /\ Len(Cat(p, p)) = Len(p) + Len(p)
  BY CatParts
<1>2. \A i \in 1..Len(p) + Len(p) : Cat(p, p)[i] = IF i <= Len(p) THEN p[i] ELSE p[i - Len(p)]
  BY CatParts
<1>4. PICK c \in Seq(S) : c = Cat(p, p)
  BY <1>1
<1>5. c[1] = p[1] /\ c[2] = p[2] /\ c[3] = p[1] /\ c[4] = p[2] /\ Len(c) = 4
  BY <1>1, <1>2, <1>4
<1>6. c = <<c[1], c[2], c[3], c[4]>>
  BY <1>5
<1> QED BY <1>4, <1>5, <1>6

LEMMA EmptyLine == CRLF \o CRLF = <<CR, LF, CR, LF>>
<1>1. CRLF \in Seq({CR, LF}) /\ Len(CRLF) = 2 /\ CRLF[1] = CR /\ CRLF[2] = LF
  BY DEF CRLF
<1>2. Cat(CRLF, CRLF) = <<CR, LF, CR, LF>>
  BY <1>1, TwoPairs
<1> QED BY <1>2, Zenon DEF Cat

(* Where two words in a row, or four, occur. *)
LEMMA OccursTwo ==
    ASSUME NEW S, NEW s \in Seq(S), NEW a, NEW b, NEW i \in Nat \ {0}, NEW n \in Nat, n <= Len(s)
    PROVE  Occurs(<<a, b>>, s, i, n) <=> i + 1 <= n /\ s[i] = a /\ s[i + 1] = b
<1> DEFINE t == SubSeq(s, i, i + 1)
<1>1. Len(<<a, b>>) = 2 /\ i + 2 - 1 = i + 1
  OBVIOUS
<1>2. ASSUME i + 1 <= n
      PROVE  t = <<a, b>> <=> s[i] = a /\ s[i + 1] = b
  <2>1. t \in Seq(S) /\ Len(t) = 2 /\ t[1] = s[i] /\ t[2] = s[i + 1]
    <3>1. /\ t \in Seq(S) /\ Len(t) = 2
          /\ \A j \in 1..2 : t[j] = s[i + j - 1]
      BY <1>2, SubSeqProperties
    <3>2. i + 1 - 1 = i /\ i + 2 - 1 = i + 1
      OBVIOUS
    <3> HIDE DEF t
    <3> QED BY <3>1, <3>2
  <2> HIDE DEF t
  <2>2. t = <<t[1], t[2]>>
    BY <2>1
  <2> QED BY <2>1, <2>2
<1> QED BY <1>1, <1>2 DEF Occurs

LEMMA OccursFour ==
    ASSUME NEW S, NEW s \in Seq(S), NEW i \in Nat \ {0}, NEW n \in Nat, n <= Len(s)
    PROVE  Occurs(CRLF \o CRLF, s, i, n) <=>
               /\ i + 3 <= n
               /\ s[i] = CR /\ s[i + 1] = LF /\ s[i + 2] = CR /\ s[i + 3] = LF
<1> DEFINE t == SubSeq(s, i, i + 3)
<1>1. CRLF \o CRLF = <<CR, LF, CR, LF>>
  BY EmptyLine
<1>2. Len(<<CR, LF, CR, LF>>) = 4 /\ i + 4 - 1 = i + 3
  OBVIOUS
<1>3. ASSUME i + 3 <= n
      PROVE  t = <<CR, LF, CR, LF>> <=>
                 s[i] = CR /\ s[i + 1] = LF /\ s[i + 2] = CR /\ s[i + 3] = LF
  <2>1. /\ t \in Seq(S) /\ Len(t) = 4
        /\ t[1] = s[i] /\ t[2] = s[i + 1] /\ t[3] = s[i + 2] /\ t[4] = s[i + 3]
    <3>1. /\ t \in Seq(S) /\ Len(t) = 4
          /\ \A j \in 1..4 : t[j] = s[i + j - 1]
      BY <1>3, SubSeqProperties
    <3> QED BY <3>1
  <2> HIDE DEF t
  <2>2. t = <<t[1], t[2], t[3], t[4]>>
    BY <2>1
  <2> QED BY <2>1, <2>2, SMTT(30)
<1> QED BY <1>1, <1>2, <1>3 DEF Occurs

(* Find returns the first place, if there is one. *)
LEMMA FindFirst ==
    ASSUME NEW pattern, NEW s, NEW n \in Nat, NEW i \in 1..n, Occurs(pattern, s, i, n),
           \A j \in 1..n : j < i => ~Occurs(pattern, s, j, n)
    PROVE  Find(pattern, s, n) = i
<1> DEFINE hits == {j \in 1..n : Occurs(pattern, s, j, n)}
<1>1. i \in hits /\ \A j \in hits : i <= j
  OBVIOUS
<1>2. \A k \in hits : (\A j \in hits : k <= j) => k = i
  BY <1>1
<1> HIDE DEF hits
<1>3. (CHOOSE k \in hits : \A j \in hits : k <= j) = i
  BY <1>1, <1>2
<1> QED BY <1>1, <1>3 DEF Find, hits

(* It returns 0 when there is none. *)
LEMMA FindNone ==
    ASSUME NEW pattern, NEW s, NEW n
    PROVE  Find(pattern, s, n) = 0 <=> \A i \in 1..n : ~Occurs(pattern, s, i, n)
<1> DEFINE hits == {j \in 1..n : Occurs(pattern, s, j, n)}
<1>1. CASE hits = {}
  BY <1>1 DEF Find
<1>2. CASE hits # {}
  <2>1. hits \subseteq Nat /\ \A j \in hits : j # 0
    OBVIOUS
  <2>2. PICK i \in hits : \A j \in hits : i <= j
    <3> HIDE DEF hits
    <3> QED BY <1>2, <2>1, LeastNatural
  <2>3. Find(pattern, s, n) \in hits
    <3>1. Find(pattern, s, n) = CHOOSE k \in hits : \A j \in hits : k <= j
      BY <1>2 DEF Find
    <3> HIDE DEF hits
    <3> QED BY <2>2, <3>1
  <2> QED BY <1>2, <2>1, <2>3
<1> QED BY <1>1, <1>2

(* Lines of k words each, one after another: line i + 1 begins after k * i *)
(* words.                                                                  *)
Widths == {2, 3}

LEMMA Multiples ==
    ASSUME NEW k \in Widths, NEW m \in Nat
    PROVE  /\ k * m \in Nat /\ k * (m + 1) = k * m + k
           /\ \A i \in 0..m - 1, j \in 1..k : k * i + j \in 1..k * m
<1>1. CASE k = 2
  BY <1>1
<1>2. CASE k = 3
  BY <1>2
<1> QED BY <1>1, <1>2 DEF Widths

LEMMA FlattenLines ==
    ASSUME NEW k \in Widths, NEW S, NEW ss \in Seq(Seq(S)),
           \A i \in 1..Len(ss) : Len(ss[i]) = k
    PROVE  /\ FlattenSeq(ss) \in Seq(S) /\ Len(FlattenSeq(ss)) = k * Len(ss)
           /\ \A i \in 0..Len(ss) - 1, j \in 1..k :
                 FlattenSeq(ss)[k * i + j] = ss[i + 1][j]
<1> PICK n \in Nat : n = Len(ss)
  OBVIOUS
<1>1. \A i \in 1..n : ss[i] \in Seq(S) /\ Len(ss[i]) = k
  BY ElementOfSeq
<1>2. CASE n = 0
  <2>1. FlattenSeq(ss) = <<>>
    <3>1. ss = <<>>
      BY <1>2, EmptySeq
    <3> QED BY <3>1 DEF FlattenSeq
  <2>2. <<>> \in Seq(S) /\ Len(<<>>) = 0 /\ k * n = 0 /\ 0..n - 1 = {}
    BY <1>2 DEF Widths
  <2> QED BY <2>1, <2>2
<1>3. CASE n # 0
  <2>1. PICK f : Flattens(f, ss, n) /\ FlattenSeq(ss) = f[n]
    BY <1>1, <1>3, FlattenIsLast
  <2>2. \A i \in 1..n : f[i] = IF i = 1 THEN ss[i] ELSE Cat(f[i - 1], ss[i])
    BY <2>1 DEF Flattens, Cat
  <2>3. f[1] = ss[1] /\ \A i \in 1..n : i + 1 \in 1..n => f[i + 1] = Cat(f[i], ss[i + 1])
    <3>1. \A i \in 1..n : i + 1 # 1 /\ (i + 1) - 1 = i
      OBVIOUS
    <3> QED BY <1>3, <2>2, <3>1
  <2> DEFINE Good(m) == /\ f[m] \in Seq(S) /\ Len(f[m]) = k * m
                        /\ \A i \in 0..m - 1, j \in 1..k : f[m][k * i + j] = ss[i + 1][j]
             T == {m \in Nat : m \in 1..n => Good(m)}
  <2>4. Good(1)
    BY <1>3, <2>3
  <2>5. ASSUME NEW m \in 1..n, Good(m), m + 1 \in 1..n
        PROVE  Good(m + 1)
    <3>1. f[m + 1] = Cat(f[m], ss[m + 1])
      BY <2>3, <2>5
    <3>2. m \in Nat
      OBVIOUS
    <3>3. PICK past : past = k * m
      OBVIOUS
    <3>4. /\ past \in Nat /\ k * (m + 1) = past + k
          /\ \A i \in 0..m - 1, j \in 1..k : k * i + j \in 1..past
      BY <3>2, <3>3, Multiples
    <3>6. f[m] \in Seq(S) /\ Len(f[m]) = past /\ ss[m + 1] \in Seq(S) /\ Len(ss[m + 1]) = k
      BY <2>5, <3>3
    <3>7. /\ f[m + 1] \in Seq(S) /\ Len(f[m + 1]) = past + k
          /\ \A i \in 1..past + k :
                f[m + 1][i] = IF i <= past THEN f[m][i] ELSE ss[m + 1][i - past]
      <4>1. PICK p \in Seq(S) : p = f[m]
        BY <3>6
      <4>2. PICK q \in Seq(S) : q = ss[m + 1]
        BY <3>6
      <4>3. /\ Cat(p, q) \in Seq(S) /\ Len(Cat(p, q)) = Len(p) + Len(q)
            /\ \A i \in 1..Len(p) + Len(q) :
                  Cat(p, q)[i] = IF i <= Len(p) THEN p[i] ELSE q[i - Len(p)]
        BY CatParts
      <4>4. Len(p) = past /\ Len(q) = k /\ Cat(p, q) = f[m + 1]
        BY <3>1, <3>6, <4>1, <4>2
      <4> QED BY <4>1, <4>2, <4>3, <4>4
    <3>5. ASSUME NEW i \in 0..m, NEW j \in 1..k
          PROVE  f[m + 1][k * i + j] = ss[i + 1][j]
      <4>1. CASE i < m
        <5>1. k * i + j \in 1..past /\ i \in 0..m - 1
          BY <3>2, <3>4, <4>1
        <5>2. PICK at : at = k * i + j
          OBVIOUS
        <5>3. at \in 1..past + k /\ at <= past
          <6>1. at \in 1..past
            BY <5>1, <5>2
          <6> QED BY <3>4, <6>1
        <5>4. f[m + 1][at] = f[m][at]
          BY <3>7, <5>3
        <5> QED BY <2>5, <5>1, <5>2, <5>4
      <4>2. CASE i = m
        <5>1. past + j \in 1..past + k /\ ~(past + j <= past) /\ (past + j) - past = j
          BY <3>4
        <5>2. f[m + 1][past + j] = ss[m + 1][j]
          BY <3>7, <5>1
        <5> QED BY <3>3, <4>2, <5>2
      <4> QED BY <4>1, <4>2
    <3>8. (m + 1) - 1 = m
      OBVIOUS
    <3> QED BY <3>4, <3>5, <3>7, <3>8
  <2>6. 0 \in T
    OBVIOUS
  <2>7. ASSUME NEW m \in Nat, m \in T
        PROVE  m + 1 \in T
    <3> HIDE DEF Good
    <3> SUFFICES ASSUME m + 1 \in 1..n
                 PROVE  Good(m + 1)
      OBVIOUS
    <3>1. CASE m = 0
      BY <2>4, <3>1
    <3>2. CASE m # 0
      <4>1. m \in 1..n
        BY <3>2
      <4>2. Good(m)
        BY <2>7, <4>1
      <4> HIDE DEF Good
      <4> QED BY <2>5, <4>1, <4>2
    <3> QED BY <3>1, <3>2
  <2>8. Nat \subseteq T
    <3> HIDE DEF T
    <3> QED BY <2>6, <2>7, SetInduction
  <2>9. Good(n)
    <3>1. n \in 1..n
      BY <1>3
    <3> HIDE DEF Good
    <3> QED BY <2>8, <3>1
  <2> QED BY <2>1, <2>9
<1> QED BY <1>2, <1>3

(* The words of a request, part by part: its line and a line end, the header *)
(* lines, the empty line, the body.                                          *)
Five(a, b, c, d, e) == Cat(Cat(Cat(Cat(a, b), c), d), e)

Parts(w, S, a, b, c, d, e) ==
    /\ w \in Seq(S) /\ Len(w) = Len(a) + Len(b) + Len(c) + Len(d) + Len(e)
    /\ \A i \in 1..Len(a) : w[i] = a[i]
    /\ \A i \in 1..Len(b) : w[Len(a) + i] = b[i]
    /\ \A i \in 1..Len(c) : w[Len(a) + Len(b) + i] = c[i]
    /\ \A i \in 1..Len(d) : w[Len(a) + Len(b) + Len(c) + i] = d[i]
    /\ \A i \in 1..Len(e) : w[Len(a) + Len(b) + Len(c) + Len(d) + i] = e[i]

LEMMA FiveParts ==
    ASSUME NEW S, NEW a \in Seq(S), NEW b \in Seq(S), NEW c \in Seq(S), NEW d \in Seq(S),
           NEW e \in Seq(S)
    PROVE  Parts(Five(a, b, c, d, e), S, a, b, c, d, e)
<1> PICK w : w = Five(a, b, c, d, e)
  OBVIOUS
<1> SUFFICES Parts(w, S, a, b, c, d, e)
  OBVIOUS
<1>1. PICK p \in Seq(S) : p = Cat(a, b)
  BY CatParts
<1>2. PICK q \in Seq(S) : q = Cat(p, c)
  BY CatParts
<1>3. PICK r \in Seq(S) : r = Cat(q, d)
  BY CatParts
<1>4. w = Cat(r, e)
  BY <1>1, <1>2, <1>3 DEF Five
<1>5. PICK la, lb, lc, ld, le \in Nat :
          la = Len(a) /\ lb = Len(b) /\ lc = Len(c) /\ ld = Len(d) /\ le = Len(e)
  OBVIOUS
<1>6. /\ Len(p) = la + lb
      /\ \A i \in 1..la + lb :
            p[i] = IF i <= la THEN a[i] ELSE b[i - la]
  <2>1. /\ Cat(a, b) \in Seq(S) /\ Len(Cat(a, b)) = Len(a) + Len(b)
        /\ \A i \in 1..Len(a) + Len(b) :
              Cat(a, b)[i] = IF i <= Len(a) THEN a[i] ELSE b[i - Len(a)]
    BY CatParts
  <2>2. p = Cat(a, b) /\ Len(a) = la /\ Len(b) = lb
    BY <1>1, <1>5
  <2> QED BY <2>1, <2>2
<1>7. /\ Len(q) = la + lb + lc
      /\ \A i \in 1..la + lb + lc :
            q[i] = IF i <= la + lb THEN p[i] ELSE c[i - (la + lb)]
  <2>1. /\ Cat(p, c) \in Seq(S) /\ Len(Cat(p, c)) = Len(p) + Len(c)
        /\ \A i \in 1..Len(p) + Len(c) :
              Cat(p, c)[i] = IF i <= Len(p) THEN p[i] ELSE c[i - Len(p)]
    BY CatParts
  <2>2. q = Cat(p, c) /\ Len(p) = la + lb /\ Len(c) = lc
    BY <1>2, <1>5, <1>6
  <2> QED BY <2>1, <2>2
<1>8. /\ Len(r) = la + lb + lc + ld
      /\ \A i \in 1..la + lb + lc + ld :
            r[i] = IF i <= la + lb + lc THEN q[i] ELSE d[i - (la + lb + lc)]
  <2>1. /\ Cat(q, d) \in Seq(S) /\ Len(Cat(q, d)) = Len(q) + Len(d)
        /\ \A i \in 1..Len(q) + Len(d) :
              Cat(q, d)[i] = IF i <= Len(q) THEN q[i] ELSE d[i - Len(q)]
    BY CatParts
  <2>2. r = Cat(q, d) /\ Len(q) = la + lb + lc /\ Len(d) = ld
    BY <1>3, <1>5, <1>7
  <2> QED BY <2>1, <2>2
<1>9. /\ w \in Seq(S) /\ Len(w) = la + lb + lc + ld + le
      /\ \A i \in 1..la + lb + lc + ld + le :
            w[i] = IF i <= la + lb + lc + ld THEN r[i] ELSE e[i - (la + lb + lc + ld)]
  <2>1. /\ Cat(r, e) \in Seq(S) /\ Len(Cat(r, e)) = Len(r) + Len(e)
        /\ \A i \in 1..Len(r) + Len(e) :
              Cat(r, e)[i] = IF i <= Len(r) THEN r[i] ELSE e[i - Len(r)]
    BY CatParts
  <2>2. w = Cat(r, e) /\ Len(r) = la + lb + lc + ld /\ Len(e) = le
    BY <1>4, <1>5, <1>8
  <2> QED BY <2>1, <2>2
<1>10. \A i \in 1..la : w[i] = a[i]
  <2> TAKE i \in 1..la
  <2>1. PICK n \in Nat : n = i
    OBVIOUS
  <2>2. p[n] = a[n]
    <3>1. n \in 1..la + lb /\ n <= la
      BY <2>1
    <3> QED BY <1>6, <3>1
  <2>3. q[n] = p[n]
    <3>1. n \in 1..la + lb + lc /\ n <= la + lb
      BY <2>1
    <3> QED BY <1>7, <3>1
  <2>4. r[n] = q[n]
    <3>1. n \in 1..la + lb + lc + ld /\ n <= la + lb + lc
      BY <2>1
    <3> QED BY <1>8, <3>1
  <2>5. w[n] = r[n]
    <3>1. n \in 1..la + lb + lc + ld + le /\ n <= la + lb + lc + ld
      BY <2>1
    <3> QED BY <1>9, <3>1
  <2> QED BY <2>1, <2>2, <2>3, <2>4, <2>5
<1>11. \A i \in 1..lb : w[la + i] = b[i]
  <2> TAKE i \in 1..lb
  <2>1. PICK n \in Nat : n = la + i
    OBVIOUS
  <2>2. p[n] = b[i]
    <3>1. n \in 1..la + lb /\ ~(n <= la) /\ n - la = i
      BY <2>1
    <3> QED BY <1>6, <3>1
  <2>3. q[n] = p[n]
    <3>1. n \in 1..la + lb + lc /\ n <= la + lb
      BY <2>1
    <3> QED BY <1>7, <3>1
  <2>4. r[n] = q[n]
    <3>1. n \in 1..la + lb + lc + ld /\ n <= la + lb + lc
      BY <2>1
    <3> QED BY <1>8, <3>1
  <2>5. w[n] = r[n]
    <3>1. n \in 1..la + lb + lc + ld + le /\ n <= la + lb + lc + ld
      BY <2>1
    <3> QED BY <1>9, <3>1
  <2> QED BY <2>1, <2>2, <2>3, <2>4, <2>5
<1>12. \A i \in 1..lc : w[la + lb + i] = c[i]
  <2> TAKE i \in 1..lc
  <2>1. PICK n \in Nat : n = la + lb + i
    OBVIOUS
  <2>2. q[n] = c[i]
    <3>1. n \in 1..la + lb + lc /\ ~(n <= la + lb) /\ n - (la + lb) = i
      BY <2>1
    <3> QED BY <1>7, <3>1
  <2>3. r[n] = q[n]
    <3>1. n \in 1..la + lb + lc + ld /\ n <= la + lb + lc
      BY <2>1
    <3> QED BY <1>8, <3>1
  <2>4. w[n] = r[n]
    <3>1. n \in 1..la + lb + lc + ld + le /\ n <= la + lb + lc + ld
      BY <2>1
    <3> QED BY <1>9, <3>1
  <2> QED BY <2>1, <2>2, <2>3, <2>4
<1>13. \A i \in 1..ld : w[la + lb + lc + i] = d[i]
  <2> TAKE i \in 1..ld
  <2>1. PICK n \in Nat : n = la + lb + lc + i
    OBVIOUS
  <2>2. r[n] = d[i]
    <3>1. n \in 1..la + lb + lc + ld /\ ~(n <= la + lb + lc) /\ n - (la + lb + lc) = i
      BY <2>1
    <3> QED BY <1>8, <3>1
  <2>3. w[n] = r[n]
    <3>1. n \in 1..la + lb + lc + ld + le /\ n <= la + lb + lc + ld
      BY <2>1
    <3> QED BY <1>9, <3>1
  <2> QED BY <2>1, <2>2, <2>3
<1>14. \A i \in 1..le : w[la + lb + lc + ld + i] = e[i]
  <2> TAKE i \in 1..le
  <2>1. PICK n \in Nat : n = la + lb + lc + ld + i
    OBVIOUS
  <2>2. w[n] = e[i]
    <3>1. /\ n \in 1..la + lb + lc + ld + le /\ ~(n <= la + lb + lc + ld)
          /\ n - (la + lb + lc + ld) = i
      BY <2>1
    <3> QED BY <1>9, <3>1
  <2> QED BY <2>1, <2>2
<1> QED BY <1>5, <1>9, <1>10, <1>11, <1>12, <1>13, <1>14 DEF Parts


(* The words of a request whose lines have k words each: past words come    *)
(* before the line end of the empty line.                                   *)
Shape(w, line, eol, headers, payload, k, past) ==
    /\ Len(w) = past + (k - 1) + Len(payload)
    /\ past = k * Len(headers) + k
    /\ w[1] = line /\ \A j \in 1..Len(headers) : w[k * j + 1] = headers[j]
    /\ \A j \in 0..Len(headers), i \in 1..k - 1 : w[k * j + 1 + i] = eol[i]
    /\ \A i \in 1..k - 1 : w[past + i] = eol[i]
    /\ \A i \in 1..Len(payload) : w[past + (k - 1) + i] = payload[i]

HeaderLines(headers, eol) == FlattenSeq([i \in DOMAIN headers |-> Cat(<<headers[i]>>, eol)])

LEMMA HeaderLinesShape ==
    ASSUME NEW S, NEW headers \in Seq(S), NEW k \in Widths,
           NEW eol \in Seq(S), Len(eol) = k - 1
    PROVE  /\ HeaderLines(headers, eol) \in Seq(S)
           /\ Len(HeaderLines(headers, eol)) = k * Len(headers)
           /\ \A i \in 0..Len(headers) - 1 :
                 /\ HeaderLines(headers, eol)[k * i + 1] = headers[i + 1]
                 /\ \A j \in 1..k - 1 : HeaderLines(headers, eol)[k * i + 1 + j] = eol[j]
<1> DEFINE ss == [i \in DOMAIN headers |-> Cat(<<headers[i]>>, eol)]
<1>1. PICK n \in Nat : n = Len(headers)
  OBVIOUS
<1>0. k \in {2, 3}
  BY DEF Widths
<1>2. DOMAIN headers = 1..n /\ ss = [i \in 1..n |-> ss[i]]
  BY <1>1
<1>3. ASSUME NEW i \in 1..n
      PROVE  /\ ss[i] \in Seq(S) /\ Len(ss[i]) = k
             /\ ss[i][1] = headers[i] /\ \A j \in 1..k - 1 : ss[i][j + 1] = eol[j]
  <2>1. PICK a \in Seq(S) : a = <<headers[i]>>
    <3>1. i \in 1..Len(headers)
      BY <1>1
    <3>2. headers[i] \in S
      BY <3>1, ElementOfSeq
    <3>3. <<headers[i]>> \in Seq(S)
      BY <3>2
    <3> QED BY <3>3
  <2>2. /\ Cat(a, eol) \in Seq(S) /\ Len(Cat(a, eol)) = Len(a) + Len(eol)
        /\ \A m \in 1..Len(a) + Len(eol) :
              Cat(a, eol)[m] = IF m <= Len(a) THEN a[m] ELSE eol[m - Len(a)]
    BY CatParts
  <2>3. Len(a) = 1 /\ a[1] = headers[i] /\ ss[i] = Cat(a, eol)
    BY <1>2, <2>1
  <2>4. \A j \in 1..k - 1 : j + 1 \in 1..Len(a) + Len(eol) /\ ~(j + 1 <= 1) /\ (j + 1) - 1 = j
    BY <2>3
  <2> HIDE DEF ss
  <2> QED BY <1>0, <2>2, <2>3, <2>4
<1>4. /\ FlattenSeq(ss) \in Seq(S) /\ Len(FlattenSeq(ss)) = k * n
      /\ \A i \in 0..n - 1, j \in 1..k : FlattenSeq(ss)[k * i + j] = ss[i + 1][j]
  <2>1. \A i \in 1..n : ss[i] \in Seq(S) /\ Len(ss[i]) = k
    BY <1>3
  <2> HIDE DEF ss
  <2>2. PICK f : f = ss
    OBVIOUS
  <2>3. f \in Seq(Seq(S))
    <3>1. f = [i \in 1..n |-> f[i]] /\ \A i \in 1..n : f[i] \in Seq(S)
      BY <1>2, <2>1, <2>2
    <3>2. PICK T : T = Seq(S)
      OBVIOUS
    <3> QED BY <3>1, <3>2, SMTT(30)
  <2>4. Len(f) = n
    BY <1>2, <2>2
  <2>5. \A i \in 1..Len(f) : Len(f[i]) = k
    BY <2>1, <2>2, <2>4
  <2>6. /\ FlattenSeq(f) \in Seq(S) /\ Len(FlattenSeq(f)) = k * Len(f)
        /\ \A i \in 0..Len(f) - 1, j \in 1..k : FlattenSeq(f)[k * i + j] = f[i + 1][j]
    BY <2>3, <2>5, FlattenLines
  <2> QED BY <2>2, <2>4, <2>6
<1>5. HeaderLines(headers, eol) = FlattenSeq(ss)
  BY DEF HeaderLines
<1>6. ASSUME NEW i \in 0..n - 1
      PROVE  /\ FlattenSeq(ss)[k * i + 1] = headers[i + 1]
             /\ \A j \in 1..k - 1 : FlattenSeq(ss)[k * i + 1 + j] = eol[j]
  <2>1. i + 1 \in 1..n /\ 1 \in 1..k
    BY <1>0
  <2>2. FlattenSeq(ss)[k * i + 1] = headers[i + 1]
    <3>1. FlattenSeq(ss)[k * i + 1] = ss[i + 1][1]
      BY <1>4, <2>1
    <3> QED BY <1>3, <2>1, <3>1
  <2>3. ASSUME NEW j \in 1..k - 1
        PROVE  FlattenSeq(ss)[k * i + 1 + j] = eol[j]
    <3>1. j + 1 \in 1..k
      BY <1>0
    <3>2. FlattenSeq(ss)[k * i + (j + 1)] = ss[i + 1][j + 1]
      BY <1>4, <3>1
    <3>3. ss[i + 1][j + 1] = eol[j]
      BY <1>3, <2>1
    <3>4. k * i + (j + 1) = k * i + 1 + j
      BY <1>0
    <3> QED BY <3>2, <3>3, <3>4
  <2> QED BY <2>2, <2>3
<1> HIDE DEF ss
<1> QED BY <1>1, <1>4, <1>5, <1>6

LEMMA WordsShape ==
    ASSUME NEW S, NEW line \in S, NEW headers \in Seq(S), NEW payload \in Seq(S),
           NEW k \in Widths, NEW eol \in Seq(S), Len(eol) = k - 1,
           NEW w, w = Five(<<line>>, eol, HeaderLines(headers, eol), eol, payload)
    PROVE  w \in Seq(S) /\ \E past \in Nat : Shape(w, line, eol, headers, payload, k, past)
<1>0. k \in {2, 3}
  BY DEF Widths
<1>1. PICK a \in Seq(S) : a = <<line>>
  <2>1. <<line>> \in Seq(S)
    OBVIOUS
  <2> QED BY <2>1
<1>2. PICK n \in Nat : n = Len(headers)
  OBVIOUS
<1>3. PICK c \in Seq(S) : c = HeaderLines(headers, eol)
  BY HeaderLinesShape
<1>4. PICK lines \in Nat : lines = k * n
  BY <1>0
<1>5. /\ Len(c) = lines
      /\ \A i \in 0..n - 1 : /\ c[k * i + 1] = headers[i + 1]
                             /\ \A j \in 1..k - 1 : c[k * i + 1 + j] = eol[j]
  <2>1. /\ Len(HeaderLines(headers, eol)) = k * Len(headers)
        /\ \A i \in 0..Len(headers) - 1 :
              /\ HeaderLines(headers, eol)[k * i + 1] = headers[i + 1]
              /\ \A j \in 1..k - 1 : HeaderLines(headers, eol)[k * i + 1 + j] = eol[j]
    BY HeaderLinesShape
  <2> QED BY <1>2, <1>3, <1>4, <2>1
<1>6. w = Five(a, eol, c, eol, payload)
  BY <1>1, <1>3
<1>7. Len(a) = 1 /\ a[1] = line
  BY <1>1
<1>8. /\ w \in Seq(S) /\ Len(w) = 1 + (k - 1) + lines + (k - 1) + Len(payload)
      /\ \A i \in 1..1 : w[i] = a[i]
      /\ \A i \in 1..k - 1 : w[1 + i] = eol[i]
      /\ \A i \in 1..lines : w[1 + (k - 1) + i] = c[i]
      /\ \A i \in 1..k - 1 : w[1 + (k - 1) + lines + i] = eol[i]
      /\ \A i \in 1..Len(payload) : w[1 + (k - 1) + lines + (k - 1) + i] = payload[i]
  <2>0. Parts(Five(a, eol, c, eol, payload), S, a, eol, c, eol, payload)
    BY FiveParts
  <2>1. /\ w \in Seq(S)
        /\ Len(w) = Len(a) + Len(eol) + Len(c) + Len(eol) + Len(payload)
        /\ \A i \in 1..Len(a) : w[i] = a[i]
        /\ \A i \in 1..Len(eol) : w[Len(a) + i] = eol[i]
        /\ \A i \in 1..Len(c) : w[Len(a) + Len(eol) + i] = c[i]
        /\ \A i \in 1..Len(eol) : w[Len(a) + Len(eol) + Len(c) + i] = eol[i]
        /\ \A i \in 1..Len(payload) :
              w[Len(a) + Len(eol) + Len(c) + Len(eol) + i] = payload[i]
    BY <1>6, <2>0 DEF Parts
  <2> QED BY <1>5, <1>7, <2>1
<1>9. w[1] = line
  BY <1>7, <1>8
<1>10. ASSUME NEW j \in 1..n
       PROVE  w[k * j + 1] = headers[j] /\ \A i \in 1..k - 1 : w[k * j + 1 + i] = eol[i]
  <2>1. PICK m \in Nat : m = j - 1
    OBVIOUS
  <2>2. m \in 0..n - 1 /\ j = m + 1
    BY <2>1
  <2>3. PICK at \in Nat : at = k * m
    BY <1>0
  <2>4. k * j = at + k /\ \A i \in 1..k : at + i \in 1..lines
    <3>1. k * (m + 1) = k * m + k
      BY Multiples
    <3>2. \A i \in 1..k : k * m + i \in 1..k * n
      BY <2>2, Multiples
    <3> QED BY <1>4, <2>2, <2>3, <3>1, <3>2
  <2>5. c[at + 1] = headers[j] /\ \A i \in 1..k - 1 : c[at + 1 + i] = eol[i]
    BY <1>5, <2>2, <2>3
  <2>6. w[k * j + 1] = c[at + 1]
    <3>1. PICK p \in Nat : p = at + 1
      OBVIOUS
    <3>2. p \in 1..lines
      <4>1. 1 \in 1..k
        BY <1>0
      <4> QED BY <2>4, <3>1, <4>1
    <3>3. 1 + (k - 1) + p = k * j + 1
      BY <1>0, <2>4, <3>1
    <3> QED BY <1>8, <3>1, <3>2, <3>3
  <2>7. ASSUME NEW i \in 1..k - 1
        PROVE  w[k * j + 1 + i] = c[at + 1 + i]
    <3>1. PICK p \in Nat : p = at + 1 + i
      OBVIOUS
    <3>2. i + 1 \in 1..k /\ p = at + (i + 1)
      BY <1>0, <3>1
    <3>3. p \in 1..lines
      BY <2>4, <3>2
    <3>4. 1 + (k - 1) + p = k * j + 1 + i
      BY <1>0, <2>4, <3>1
    <3> QED BY <1>8, <3>1, <3>3, <3>4
  <2> QED BY <2>5, <2>6, <2>7
<1>11. \A j \in 0..n, i \in 1..k - 1 : w[k * j + 1 + i] = eol[i]
  <2> TAKE j \in 0..n, i \in 1..k - 1
  <2>1. CASE j = 0
    <3>1. k * j + 1 + i = 1 + i
      BY <1>0, <2>1
    <3> QED BY <1>8, <3>1
  <2>2. CASE j # 0
    <3>1. j \in 1..n
      BY <2>2
    <3> QED BY <1>10, <3>1
  <2> QED BY <2>1, <2>2
<1>12. PICK past \in Nat : past = lines + k
  BY <1>0
<1>13. /\ Len(w) = past + (k - 1) + Len(payload) /\ past = k * Len(headers) + k
       /\ \A i \in 1..k - 1 : w[past + i] = eol[i]
       /\ \A i \in 1..Len(payload) : w[past + (k - 1) + i] = payload[i]
  <2>1. 1 + (k - 1) + lines = past
    BY <1>0, <1>12
  <2> QED BY <1>2, <1>4, <1>8, <1>12, <2>1
<1>14. Shape(w, line, eol, headers, payload, k, past)
  BY <1>2, <1>9, <1>10, <1>11, <1>13 DEF Shape
<1> QED BY <1>8, <1>14


(* Where a request is cut: hdr words of header before HeaderEnd, the body  *)
(* from start on.  Header number j is at place at[j].                      *)
Cut(w, headers, payload, hdr, start, at) ==
    /\ hdr \in Nat /\ start \in Nat \ {0} /\ Len(w) = start - 1 + Len(payload)
    /\ \A i \in 1..Len(payload) : w[start - 1 + i] = payload[i]
    /\ \A n \in 1..Len(w) : HeaderEnd(w, n) # 0 <=> n >= start - 1
    /\ \A n \in 1..Len(w) :
          n >= start - 1 => HeaderEnd(w, n) = hdr + 1 /\ BodyOffset(w, n) = start
    /\ \A j \in 1..Len(headers) : at[j] \in 1..hdr /\ w[at[j]] = headers[j]
    /\ \A i \in 1..Len(headers), j \in 1..Len(headers) : i < j => at[i] < at[j]
    /\ \A i \in 1..hdr : w[i] \in DOMAIN Lengths => \E j \in 1..Len(headers) : i = at[j]

\* no line end in a line, no length in the request line
PlainLines(line, headers) ==
    /\ line \notin {CR, LF} /\ line \notin DOMAIN Lengths
    /\ \A j \in 1..Len(headers) : headers[j] \notin {CR, LF}

LEMMA DivideByThree ==
    ASSUME NEW i \in Nat
    PROVE  \E j \in Nat : i = 3 * j \/ i = 3 * j + 1 \/ i = 3 * j + 2
<1> DEFINE T == {n \in Nat : \E j \in Nat : n = 3 * j \/ n = 3 * j + 1 \/ n = 3 * j + 2}
<1>1. 0 \in T
  <2>1. 0 = 3 * 0 /\ 0 \in Nat
    OBVIOUS
  <2> QED BY <2>1
<1>2. ASSUME NEW n \in Nat, n \in T
      PROVE  n + 1 \in T
  <2>1. PICK j \in Nat : n = 3 * j \/ n = 3 * j + 1 \/ n = 3 * j + 2
    BY <1>2
  <2>2. CASE n = 3 * j + 2
    <3>1. n + 1 = 3 * (j + 1) /\ j + 1 \in Nat
      BY <2>2
    <3> QED BY <3>1
  <2>3. CASE n # 3 * j + 2
    <3>1. n + 1 = 3 * j + 1 \/ n + 1 = 3 * j + 2
      BY <2>1, <2>3
    <3> QED BY <3>1
  <2> QED BY <2>2, <2>3
<1>3. Nat \subseteq T
  <2> HIDE DEF T
  <2> QED BY <1>1, <1>2, SetInduction
<1> QED BY <1>3

(* Lines that end in CRLF. *)
LEMMA CutCRLF ==
    ASSUME NEW S, NEW line, NEW headers \in Seq(S), NEW payload \in Seq(S),
           NEW w \in Seq(S), NEW past \in Nat, PlainLines(line, headers),
           Shape(w, line, CRLF, headers, payload, 3, past)
    PROVE  \E hdr, start, at : Cut(w, headers, payload, hdr, start, at)
<1>1. PICK h \in Nat : h = Len(headers)
  OBVIOUS
<1>2. PICK b \in Nat : b = Len(payload)
  OBVIOUS
<1>3. CRLF[1] = CR /\ CRLF[2] = LF /\ CR # LF
  BY DEF CRLF, CR, LF
<1>4. /\ Len(w) = past + 2 + b /\ past = 3 * h + 3
      /\ w[1] = line /\ \A j \in 1..h : w[3 * j + 1] = headers[j]
      /\ \A j \in 0..h : w[3 * j + 2] = CR /\ w[3 * j + 3] = LF
      /\ w[past + 1] = CR /\ w[past + 2] = LF
      /\ \A i \in 1..b : w[past + 2 + i] = payload[i]
  <2>1. 1 \in 1..3 - 1 /\ 2 \in 1..3 - 1 /\ 3 - 1 = 2
    OBVIOUS
  <2>2. \A j \in 0..h : 3 * j + 1 + 1 = 3 * j + 2 /\ 3 * j + 1 + 2 = 3 * j + 3
    OBVIOUS
  <2>3. \A j \in 0..h : w[3 * j + 1 + 1] = CR /\ w[3 * j + 1 + 2] = LF
    BY <1>1, <1>3, <2>1 DEF Shape
  <2>4. \A j \in 0..h : w[3 * j + 2] = CR /\ w[3 * j + 3] = LF
    BY <2>2, <2>3
  <2> QED BY <1>1, <1>2, <1>3, <2>1, <2>4 DEF Shape
<1>5. \A j \in 0..h : w[3 * j + 1] \notin {CR, LF}
  BY <1>1, <1>4 DEF PlainLines
<1>6. ASSUME NEW i \in 1..past
      PROVE  \E j \in 0..h : i = 3 * j + 1 \/ i = 3 * j + 2 \/ i = 3 * j + 3
  <2>1. i - 1 \in Nat
    OBVIOUS
  <2>2. PICK j \in Nat : i - 1 = 3 * j \/ i - 1 = 3 * j + 1 \/ i - 1 = 3 * j + 2
    BY <2>1, DivideByThree
  <2>3. j \in 0..h /\ (i = 3 * j + 1 \/ i = 3 * j + 2 \/ i = 3 * j + 3)
    BY <1>4, <2>2
  <2> QED BY <2>3
<1>7. \A i \in 1..past - 2 : ~(w[i] = CR /\ w[i + 2] = CR)
  <2> SUFFICES ASSUME NEW i \in 1..past - 2, w[i] = CR, w[i + 2] = CR
               PROVE  FALSE
    OBVIOUS
  <2>1. i \in 1..past
    OBVIOUS
  <2>2. PICK j \in 0..h : i = 3 * j + 1 \/ i = 3 * j + 2 \/ i = 3 * j + 3
    BY <1>6, <2>1
  <2>3. i = 3 * j + 2
    BY <1>3, <1>4, <1>5, <2>2
  <2>4. j + 1 \in 0..h /\ i + 2 = 3 * (j + 1) + 1
    BY <1>4, <2>3
  <2> QED BY <1>5, <2>4
<1>8. \A i \in 1..past : ~(w[i] = LF /\ w[i + 1] = LF)
  <2> SUFFICES ASSUME NEW i \in 1..past, w[i] = LF, w[i + 1] = LF
               PROVE  FALSE
    OBVIOUS
  <2>2. PICK j \in 0..h : i = 3 * j + 1 \/ i = 3 * j + 2 \/ i = 3 * j + 3
    BY <1>6
  <2>3. i = 3 * j + 3
    BY <1>3, <1>4, <1>5, <2>2
  <2>4. CASE j = h
    BY <1>3, <1>4, <2>3, <2>4
  <2>5. CASE j # h
    <3>1. j + 1 \in 0..h /\ i + 1 = 3 * (j + 1) + 1
      BY <2>3, <2>5
    <3> QED BY <1>5, <3>1
  <2> QED BY <2>4, <2>5
<1>9. ASSUME NEW n \in 1..Len(w), n >= past + 2
      PROVE  /\ HeaderEnd(w, n) = past - 1 /\ BodyOffset(w, n) = past + 3
  <2>1. past - 1 \in 1..n /\ past - 1 \in Nat \ {0} /\ n \in Nat /\ n <= Len(w)
    BY <1>4, <1>9
  <2>2. Occurs(CRLF \o CRLF, w, past - 1, n)
    <3>1. /\ past - 1 = 3 * h + 2 /\ (past - 1) + 1 = 3 * h + 3
          /\ (past - 1) + 2 = past + 1 /\ (past - 1) + 3 = past + 2 /\ h \in 0..h
      BY <1>4
    <3>2. /\ (past - 1) + 3 <= n /\ w[past - 1] = CR /\ w[(past - 1) + 1] = LF
          /\ w[(past - 1) + 2] = CR /\ w[(past - 1) + 3] = LF
      BY <1>4, <1>9, <3>1
    <3> QED BY <2>1, <3>2, OccursFour
  <2>3. \A i \in 1..n : i < past - 1 => ~Occurs(CRLF \o CRLF, w, i, n)
    <3> SUFFICES ASSUME NEW i \in 1..n, i < past - 1
                 PROVE  ~Occurs(CRLF \o CRLF, w, i, n)
      OBVIOUS
    <3>1. i \in Nat \ {0} /\ i \in 1..past - 2
      OBVIOUS
    <3>2. ~(w[i] = CR /\ w[i + 2] = CR)
      BY <1>7, <3>1
    <3> QED BY <2>1, <3>1, <3>2, OccursFour
  <2>4. Find(CRLF \o CRLF, w, n) = past - 1
    BY <2>1, <2>2, <2>3, FindFirst
  <2>5. HeaderEnd(w, n) = past - 1
    BY <2>1, <2>4 DEF HeaderEnd
  <2> QED BY <2>1, <2>2, <2>5 DEF BodyOffset
<1>10. ASSUME NEW n \in 1..Len(w), n < past + 2
       PROVE  HeaderEnd(w, n) = 0
  <2>1. n \in Nat /\ n <= Len(w)
    BY <1>4
  <2>2. \A i \in 1..n : ~Occurs(CRLF \o CRLF, w, i, n)
    <3> TAKE i \in 1..n
    <3>1. i \in Nat \ {0}
      OBVIOUS
    <3>2. CASE i + 3 <= n
      <4>1. i \in 1..past - 2
        BY <1>10, <3>2
      <4>2. ~(w[i] = CR /\ w[i + 2] = CR)
        BY <1>7, <4>1
      <4> QED BY <2>1, <3>1, <4>2, OccursFour
    <3>3. CASE ~(i + 3 <= n)
      BY <2>1, <3>1, <3>3, OccursFour
    <3> QED BY <3>2, <3>3
  <2>3. \A i \in 1..n : ~Occurs(<<LF, LF>>, w, i, n)
    <3> TAKE i \in 1..n
    <3>1. i \in Nat \ {0}
      OBVIOUS
    <3>2. CASE i + 1 <= n
      <4>1. i \in 1..past
        BY <1>10, <3>2
      <4>2. ~(w[i] = LF /\ w[i + 1] = LF)
        BY <1>8, <4>1
      <4> QED BY <2>1, <3>1, <4>2, OccursTwo
    <3>3. CASE ~(i + 1 <= n)
      BY <2>1, <3>1, <3>3, OccursTwo
    <3> QED BY <3>2, <3>3
  <2>4. Find(CRLF \o CRLF, w, n) = 0
    BY <2>2, FindNone
  <2>5. Find(<<LF, LF>>, w, n) = 0
    BY <2>3, FindNone
  <2> QED BY <2>4, <2>5 DEF HeaderEnd
<1> DEFINE at == [j \in 1..h |-> 3 * j + 1]
<1>11. \A j \in 1..h : at[j] \in 1..past - 2 /\ w[at[j]] = headers[j]
  BY <1>4
<1>12. \A i \in 1..h, j \in 1..h : i < j => at[i] < at[j]
  OBVIOUS
<1>13. \A i \in 1..past - 2 : w[i] \in DOMAIN Lengths => \E j \in 1..h : i = at[j]
  <2> SUFFICES ASSUME NEW i \in 1..past - 2, w[i] \in DOMAIN Lengths
               PROVE  \E j \in 1..h : i = at[j]
    OBVIOUS
  <2>1. i \in 1..past
    OBVIOUS
  <2>2. PICK j \in 0..h : i = 3 * j + 1 \/ i = 3 * j + 2 \/ i = 3 * j + 3
    BY <1>6, <2>1
  <2>3. CR \notin DOMAIN Lengths /\ LF \notin DOMAIN Lengths
    BY DEF CR, LF, Lengths
  <2>4. i = 3 * j + 1
    BY <1>4, <2>2, <2>3
  <2>5. j # 0
    BY <1>4, <2>4 DEF PlainLines
  <2>6. j \in 1..h /\ i = at[j]
    BY <2>4, <2>5
  <2> QED BY <2>6
<1> HIDE DEF at
<1>14. past - 2 \in Nat /\ past + 3 \in Nat \ {0} /\ (past + 3) - 1 = past + 2
  BY <1>4
<1>15. \A n \in 1..Len(w) : HeaderEnd(w, n) # 0 <=> n >= (past + 3) - 1
  <2> TAKE n \in 1..Len(w)
  <2>1. CASE n >= past + 2
    BY <1>4, <1>9, <1>14, <2>1
  <2>2. CASE n < past + 2
    BY <1>10, <1>14, <2>2
  <2> QED BY <1>4, <2>1, <2>2
<1>16. \A n \in 1..Len(w) : n >= (past + 3) - 1 =>
          HeaderEnd(w, n) = (past - 2) + 1 /\ BodyOffset(w, n) = past + 3
  BY <1>9, <1>14
<1>17. Cut(w, headers, payload, past - 2, past + 3, at)
  BY <1>1, <1>2, <1>4, <1>11, <1>12, <1>13, <1>14, <1>15, <1>16 DEF Cut
<1> QED BY <1>17

LEMMA DivideByTwo ==
    ASSUME NEW i \in Nat
    PROVE  \E j \in Nat : i = 2 * j \/ i = 2 * j + 1
<1> DEFINE T == {n \in Nat : \E j \in Nat : n = 2 * j \/ n = 2 * j + 1}
<1>1. 0 \in T
  <2>1. 0 = 2 * 0 /\ 0 \in Nat
    OBVIOUS
  <2> QED BY <2>1
<1>2. ASSUME NEW n \in Nat, n \in T
      PROVE  n + 1 \in T
  <2>1. PICK j \in Nat : n = 2 * j \/ n = 2 * j + 1
    BY <1>2
  <2>2. CASE n = 2 * j + 1
    <3>1. PICK m \in Nat : m = j + 1
      OBVIOUS
    <3>2. n + 1 = 2 * m
      BY <2>2, <3>1
    <3> QED BY <3>2
  <2>3. CASE n # 2 * j + 1
    <3>1. n + 1 = 2 * j + 1
      BY <2>1, <2>3
    <3> QED BY <3>1
  <2> QED BY <2>2, <2>3
<1>3. Nat \subseteq T
  <2> HIDE DEF T
  <2> QED BY <1>1, <1>2, SetInduction
<1> QED BY <1>3


(* Lines that end in LF: only the empty line ends the header. *)
LEMMA CutLF ==
    ASSUME NEW S, NEW line, NEW headers \in Seq(S), NEW payload \in Seq(S),
           NEW w \in Seq(S), NEW past \in Nat, PlainLines(line, headers),
           Shape(w, line, <<LF>>, headers, payload, 2, past),
           Find(CRLF \o CRLF, payload, Len(payload)) = 0
    PROVE  \E hdr, start, at : Cut(w, headers, payload, hdr, start, at)
<1>1. PICK h \in Nat : h = Len(headers)
  OBVIOUS
<1>2. PICK b \in Nat : b = Len(payload)
  OBVIOUS
<1>3. <<LF>>[1] = LF /\ CR # LF
  BY DEF CR, LF
<1>4. /\ Len(w) = past + 1 + b /\ past = 2 * h + 2
      /\ w[1] = line /\ \A j \in 1..h : w[2 * j + 1] = headers[j]
      /\ \A j \in 0..h : w[2 * j + 2] = LF
      /\ w[past + 1] = LF
      /\ \A i \in 1..b : w[past + 1 + i] = payload[i]
  <2>1. 1 \in 1..2 - 1 /\ 2 - 1 = 1
    OBVIOUS
  <2>2. \A j \in 0..h : 2 * j + 1 + 1 = 2 * j + 2
    OBVIOUS
  <2>3. \A j \in 0..h : w[2 * j + 1 + 1] = LF
    BY <1>1, <1>3, <2>1 DEF Shape
  <2>4. \A j \in 0..h : w[2 * j + 2] = LF
    BY <2>2, <2>3
  <2> QED BY <1>1, <1>2, <1>3, <2>1, <2>4 DEF Shape
<1>5. \A j \in 0..h : w[2 * j + 1] \notin {CR, LF}
  <2> TAKE j \in 0..h
  <2>1. CASE j = 0
    <3>1. 2 * j + 1 = 1
      BY <2>1
    <3> QED BY <1>4, <3>1 DEF PlainLines
  <2>2. CASE j # 0
    <3>1. j \in 1..h
      BY <2>2
    <3> QED BY <1>1, <1>4, <3>1 DEF PlainLines
  <2> QED BY <2>1, <2>2
<1>6. ASSUME NEW i \in 1..past
      PROVE  \E j \in 0..h : i = 2 * j + 1 \/ i = 2 * j + 2
  <2>1. i - 1 \in Nat
    OBVIOUS
  <2>2. PICK j \in Nat : i - 1 = 2 * j \/ i - 1 = 2 * j + 1
    BY <2>1, DivideByTwo
  <2>3. j \in 0..h /\ (i = 2 * j + 1 \/ i = 2 * j + 2)
    BY <1>4, <2>2
  <2> QED BY <2>3
<1>7. \A i \in 1..past - 1 : ~(w[i] = LF /\ w[i + 1] = LF)
  <2> SUFFICES ASSUME NEW i \in 1..past - 1, w[i] = LF, w[i + 1] = LF
               PROVE  FALSE
    OBVIOUS
  <2>1. i \in 1..past
    OBVIOUS
  <2>2. PICK j \in 0..h : i = 2 * j + 1 \/ i = 2 * j + 2
    BY <1>6, <2>1
  <2>3. i = 2 * j + 2
    BY <1>5, <2>2
  <2>4. j + 1 \in 0..h /\ i + 1 = 2 * (j + 1) + 1
    BY <1>4, <2>3
  <2> QED BY <1>5, <2>4
<1>8. \A i \in 1..past + 1 : w[i] # CR
  <2> SUFFICES ASSUME NEW i \in 1..past + 1, i # past + 1
               PROVE  w[i] # CR
    BY <1>3, <1>4
  <2>0. i \in 1..past
    OBVIOUS
  <2>1. PICK j \in 0..h : i = 2 * j + 1 \/ i = 2 * j + 2
    BY <1>6, <2>0
  <2> QED BY <1>3, <1>4, <1>5, <2>1, ZenonT(30)
<1>9. \A i \in 1..Len(w) - 3 :
          ~(w[i] = CR /\ w[i + 1] = LF /\ w[i + 2] = CR /\ w[i + 3] = LF)
  <2> SUFFICES ASSUME NEW i \in 1..Len(w) - 3,
                      w[i] = CR, w[i + 1] = LF, w[i + 2] = CR, w[i + 3] = LF
               PROVE  FALSE
    OBVIOUS
  <2>1. ~(i \in 1..past + 1)
    BY <1>8
  <2>2. PICK p \in Nat : p = i - (past + 1)
    BY <2>1
  <2>3. /\ i = past + 1 + p /\ i + 1 = past + 1 + (p + 1) /\ i + 2 = past + 1 + (p + 2)
        /\ i + 3 = past + 1 + (p + 3)
    BY <2>2
  <2>4. /\ p \in 1..b /\ p + 1 \in 1..b /\ p + 2 \in 1..b /\ p + 3 \in 1..b
    BY <1>4, <2>1, <2>2
  <2>5. payload[p] = CR /\ payload[p + 1] = LF /\ payload[p + 2] = CR /\ payload[p + 3] = LF
    BY <1>4, <2>3, <2>4, SMTT(30)
  <2>6. Occurs(CRLF \o CRLF, payload, p, Len(payload))
    <3>1. p \in Nat \ {0} /\ Len(payload) \in Nat /\ p + 3 <= Len(payload)
      BY <1>2, <2>4
    <3>2. PICK n \in Nat : n = Len(payload)
      OBVIOUS
    <3>3. n <= Len(payload) /\ p + 3 <= n
      BY <3>1, <3>2
    <3>4. Occurs(CRLF \o CRLF, payload, p, n)
      BY <2>5, <3>1, <3>3, OccursFour
    <3> QED BY <3>2, <3>4
  <2>7. p \in 1..Len(payload)
    BY <1>2, <2>4
  <2> QED BY <2>6, <2>7, FindNone
<1>10. ASSUME NEW n \in 1..Len(w), NEW i \in 1..n
       PROVE  ~Occurs(CRLF \o CRLF, w, i, n)
  <2>1. n \in Nat /\ n <= Len(w) /\ i \in Nat \ {0}
    BY <1>4
  <2>2. CASE i + 3 <= n
    <3>1. i \in 1..Len(w) - 3
      BY <1>4, <2>2
    <3>2. ~(w[i] = CR /\ w[i + 1] = LF /\ w[i + 2] = CR /\ w[i + 3] = LF)
      BY <1>9, <3>1
    <3> QED BY <2>1, <3>2, OccursFour
  <2>3. CASE ~(i + 3 <= n)
    BY <2>1, <2>3, OccursFour
  <2> QED BY <2>2, <2>3
<1>11. ASSUME NEW n \in 1..Len(w)
       PROVE  Find(CRLF \o CRLF, w, n) = 0
  BY <1>10, FindNone
<1>12. ASSUME NEW n \in 1..Len(w), NEW i \in 1..n
       PROVE  Occurs(<<LF, LF>>, w, i, n) <=> i + 1 <= n /\ w[i] = LF /\ w[i + 1] = LF
  <2>1. n \in Nat /\ n <= Len(w) /\ i \in Nat \ {0}
    BY <1>4
  <2> QED BY <2>1, OccursTwo
<1>13. ASSUME NEW n \in 1..Len(w), n >= past + 1
       PROVE  HeaderEnd(w, n) = past /\ BodyOffset(w, n) = past + 2
  <2>1. past \in 1..n /\ n \in Nat
    BY <1>4, <1>13
  <2>2. Occurs(<<LF, LF>>, w, past, n)
    <3>1. past = 2 * h + 2 /\ h \in 0..h
      BY <1>4
    <3>2. w[past] = LF
      BY <1>4, <3>1
    <3> QED BY <1>4, <1>12, <1>13, <2>1, <3>2
  <2>3. \A i \in 1..n : i < past => ~Occurs(<<LF, LF>>, w, i, n)
    <3> SUFFICES ASSUME NEW i \in 1..n, i < past
                 PROVE  ~Occurs(<<LF, LF>>, w, i, n)
      OBVIOUS
    <3>1. i \in 1..past - 1
      OBVIOUS
    <3> QED BY <1>7, <1>12, <3>1
  <2>4. Find(<<LF, LF>>, w, n) = past
    BY <2>1, <2>2, <2>3, FindFirst
  <2>5. HeaderEnd(w, n) = past
    BY <1>11, <2>4 DEF HeaderEnd
  <2>6. ~Occurs(CRLF \o CRLF, w, past, n)
    BY <1>10, <2>1
  <2> QED BY <2>5, <2>6 DEF BodyOffset
<1>14. ASSUME NEW n \in 1..Len(w), n < past + 1
       PROVE  HeaderEnd(w, n) = 0
  <2>1. \A i \in 1..n : ~Occurs(<<LF, LF>>, w, i, n)
    <3> TAKE i \in 1..n
    <3>1. CASE i + 1 <= n
      <4>1. i \in 1..past - 1
        BY <1>14, <3>1
      <4> QED BY <1>7, <1>12, <4>1
    <3>2. CASE ~(i + 1 <= n)
      BY <1>12, <3>2
    <3> QED BY <3>1, <3>2
  <2>2. Find(<<LF, LF>>, w, n) = 0
    BY <2>1, FindNone
  <2> QED BY <1>11, <2>2 DEF HeaderEnd
<1> DEFINE at == [j \in 1..h |-> 2 * j + 1]
<1>15. \A j \in 1..h : at[j] \in 1..past - 1 /\ w[at[j]] = headers[j]
  BY <1>4
<1>16. \A i \in 1..h, j \in 1..h : i < j => at[i] < at[j]
  OBVIOUS
<1>17. \A i \in 1..past - 1 : w[i] \in DOMAIN Lengths => \E j \in 1..h : i = at[j]
  <2> SUFFICES ASSUME NEW i \in 1..past - 1, w[i] \in DOMAIN Lengths
               PROVE  \E j \in 1..h : i = at[j]
    OBVIOUS
  <2>1. i \in 1..past
    OBVIOUS
  <2>2. PICK j \in 0..h : i = 2 * j + 1 \/ i = 2 * j + 2
    BY <1>6, <2>1
  <2>3. LF \notin DOMAIN Lengths
    BY DEF LF, Lengths
  <2>4. i = 2 * j + 1
    BY <1>4, <2>2, <2>3
  <2>5. j # 0
    <3> SUFFICES ASSUME j = 0
                 PROVE  FALSE
      OBVIOUS
    <3>1. i = 1
      BY <2>4
    <3> QED BY <1>4, <3>1 DEF PlainLines
  <2>6. j \in 1..h /\ i = at[j]
    BY <2>4, <2>5
  <2> QED BY <2>6
<1> HIDE DEF at
<1>18. /\ past - 1 \in Nat /\ past + 2 \in Nat \ {0}
       /\ (past + 2) - 1 = past + 1 /\ (past - 1) + 1 = past
  BY <1>4
<1>19. \A n \in 1..Len(w) : HeaderEnd(w, n) # 0 <=> n >= (past + 2) - 1
  <2> TAKE n \in 1..Len(w)
  <2>1. CASE n >= past + 1
    BY <1>4, <1>13, <1>18, <2>1
  <2>2. CASE n < past + 1
    BY <1>14, <1>18, <2>2
  <2> QED BY <1>4, <2>1, <2>2
<1>20. \A n \in 1..Len(w) : n >= (past + 2) - 1 =>
          HeaderEnd(w, n) = (past - 1) + 1 /\ BodyOffset(w, n) = past + 2
  BY <1>13, <1>18
<1>21. Cut(w, headers, payload, past - 1, past + 2, at)
  BY <1>1, <1>2, <1>4, <1>15, <1>16, <1>17, <1>18, <1>19, <1>20 DEF Cut
<1> QED BY <1>21


LEMMA RequestCut ==
    ASSUME NEW r, WellFormed(r)
    PROVE  \E S, hdr, start, at :
               /\ r.words \in Seq(S) /\ r.headers \in Seq(S) /\ r.body \in Seq(S)
               /\ Cut(r.words, r.headers, r.body, hdr, start, at)
<1>1. PICK S : S = STRING \cup {CR, LF}
  OBVIOUS
<1>2. PICK line, headers, payload, w :
          line = r.line /\ headers = r.headers /\ payload = r.body /\ w = r.words
  OBVIOUS
<1>3. PICK eol \in {CRLF, <<LF>>} :
          /\ r = Request(line, eol, headers, payload)
          /\ eol = <<LF>> => Find(CRLF \o CRLF, payload, Len(payload)) = 0
  BY <1>2 DEF WellFormed
<1>4. /\ line \in S /\ line \notin {CR, LF} /\ line \notin DOMAIN Lengths
      /\ headers \in Seq(STRING \ {CR, LF}) /\ payload \in Seq(STRING)
  BY <1>1, <1>2 DEF WellFormed
<1>5. /\ headers \in Seq(S) /\ payload \in Seq(S)
      /\ \A j \in 1..Len(headers) : headers[j] \notin {CR, LF}
  <2>1. \A j \in 1..Len(headers) : headers[j] \in STRING \ {CR, LF}
    BY <1>4, ElementOfSeq
  <2>2. \A j \in 1..Len(payload) : payload[j] \in STRING
    BY <1>4, ElementOfSeq
  <2>3. /\ Len(headers) \in Nat /\ headers = [j \in 1..Len(headers) |-> headers[j]]
        /\ Len(payload) \in Nat /\ payload = [j \in 1..Len(payload) |-> payload[j]]
    BY <1>4
  <2> QED BY <1>1, <2>1, <2>2, <2>3
<1>6. PlainLines(line, headers)
  BY <1>4, <1>5 DEF PlainLines
<1>7. CR \in S /\ LF \in S
  BY <1>1
<1>8. w = Five(<<line>>, eol, HeaderLines(headers, eol), eol, payload)
  <2>1. w = Request(line, eol, headers, payload).words
    BY <1>2, <1>3
  <2>2. Request(line, eol, headers, payload).words
        = <<line>> \o eol
               \o FlattenSeq([i \in DOMAIN headers |-> <<headers[i]>> \o eol])
               \o eol \o payload
    BY Zenon DEF Request
  <2>3. Five(<<line>>, eol, HeaderLines(headers, eol), eol, payload)
        = <<line>> \o eol
               \o FlattenSeq([i \in DOMAIN headers |-> <<headers[i]>> \o eol])
               \o eol \o payload
    BY Zenon DEF Five, HeaderLines, Cat
  <2> QED BY <2>1, <2>2, <2>3, Zenon
<1>9. CASE eol = CRLF
  <2>1. eol \in Seq(S) /\ Len(eol) = 3 - 1 /\ 3 \in Widths
    BY <1>7, <1>9 DEF CRLF, Widths
  <2>2. /\ w \in Seq(S)
        /\ \E past \in Nat : Shape(w, line, eol, headers, payload, 3, past)
    BY <1>4, <1>5, <1>8, <2>1, WordsShape
  <2>3. \E hdr, start, at : Cut(w, headers, payload, hdr, start, at)
    BY <1>4, <1>5, <1>6, <1>9, <2>2, CutCRLF
  <2> QED BY <1>2, <1>4, <1>5, <2>2, <2>3
<1>10. CASE eol = <<LF>>
  <2>1. eol \in Seq(S) /\ Len(eol) = 2 - 1 /\ 2 \in Widths
    BY <1>7, <1>10 DEF Widths
  <2>2. /\ w \in Seq(S)
        /\ \E past \in Nat : Shape(w, line, eol, headers, payload, 2, past)
    BY <1>4, <1>5, <1>8, <2>1, WordsShape
  <2>3. Find(CRLF \o CRLF, payload, Len(payload)) = 0
    BY <1>3, <1>10
  <2>4. \E hdr, start, at : Cut(w, headers, payload, hdr, start, at)
    BY <1>4, <1>5, <1>6, <1>10, <2>2, <2>3, CutLF
  <2> QED BY <1>2, <1>4, <1>5, <2>2, <2>4
<1> QED BY <1>3, <1>9, <1>10


LEMMA GreatestUpTo ==
    ASSUME NEW n \in Nat, NEW hits \in SUBSET (1..n), hits # {}
    PROVE  \E i \in hits : \A j \in hits : i >= j
<1> DEFINE T == {n - i : i \in hits}
<1>1. T \subseteq Nat /\ T # {}
  <2>1. \A i \in hits : n - i \in Nat
    OBVIOUS
  <2> QED BY <2>1
<1>2. PICK m \in T : \A k \in T : m <= k
  <2> HIDE DEF T
  <2> QED BY <1>1, LeastNatural
<1>3. PICK i \in hits : m = n - i
  OBVIOUS
<1>4. \A j \in hits : n - i <= n - j
  BY <1>2, <1>3
<1> QED BY <1>3, <1>4

LastLength(s, at) ==
    IF at = {} THEN 0 ELSE Lengths[s[CHOOSE i \in at : \A j \in at : i >= j]]

(* The last Content-Length of the header is the one the client declares. *)
LEMMA DeclaredLength ==
    ASSUME NEW r, NEW w, NEW hdr, NEW start, NEW at,
           NEW S, r.headers \in Seq(S),
           Cut(w, r.headers, r.body, hdr, start, at),
           NEW n \in 1..Len(w), HeaderEnd(w, n) # 0
    PROVE  ContentLength(w, n) = Declared(r) /\ Declared(r) \in Nat
<1>1. PICK headers : headers = r.headers
  OBVIOUS
<1>2. PICK h \in Nat : h = Len(headers) /\ DOMAIN headers = 1..h
  BY <1>1
<1>3. HeaderEnd(w, n) - 1 = hdr /\ hdr \in Nat
  BY DEF Cut
<1>4. /\ \A j \in 1..h : at[j] \in 1..hdr /\ w[at[j]] = headers[j]
      /\ \A i \in 1..h, j \in 1..h : i < j => at[i] < at[j]
      /\ \A i \in 1..hdr : w[i] \in DOMAIN Lengths => \E j \in 1..h : i = at[j]
  BY <1>1, <1>2 DEF Cut
<1> DEFINE sent == {j \in 1..h : headers[j] \in DOMAIN Lengths}
           found == {i \in 1..hdr : w[i] \in DOMAIN Lengths}
<1>5. /\ ContentLength(w, n) = IF found = {} THEN 0
             ELSE Lengths[w[CHOOSE i \in found : \A j \in found : i >= j]]
      /\ Declared(r) = IF sent = {} THEN 0
             ELSE Lengths[headers[CHOOSE i \in sent : \A j \in sent : i >= j]]
  <2>1. found = {i \in 1..HeaderEnd(w, n) - 1 : w[i] \in DOMAIN Lengths}
    BY <1>3
  <2>2. sent = {i \in DOMAIN r.headers : r.headers[i] \in DOMAIN Lengths}
    BY <1>1, <1>2
  <2>3. ContentLength(w, n) =
           LastLength(w, {i \in 1..HeaderEnd(w, n) - 1 : w[i] \in DOMAIN Lengths})
    BY Zenon DEF ContentLength, LastLength
  <2>4. Declared(r) =
           LastLength(r.headers, {i \in DOMAIN r.headers : r.headers[i] \in DOMAIN Lengths})
    BY Zenon DEF Declared, LastLength
  <2>5. ContentLength(w, n) = LastLength(w, found) /\ Declared(r) = LastLength(headers, sent)
    BY <1>1, <2>1, <2>2, <2>3, <2>4
  <2> HIDE DEF found, sent
  <2> QED BY <2>5 DEF LastLength
<1>6. \A j \in sent : at[j] \in found
  BY <1>4
<1>7. \A i \in found : \E j \in sent : i = at[j]
  BY <1>4
<1>8. CASE sent = {}
  <2>1. found = {}
    BY <1>7, <1>8
  <2> HIDE DEF sent, found
  <2> QED BY <1>5, <1>8, <2>1
<1>9. CASE sent # {}
  <2>1. PICK last \in sent : \A j \in sent : last >= j
    <3>1. sent \in SUBSET (1..h)
      OBVIOUS
    <3> HIDE DEF sent
    <3> QED BY <1>9, <3>1, GreatestUpTo
  <2>2. at[last] \in found /\ \A i \in found : at[last] >= i
    <3>1. ASSUME NEW i \in found
          PROVE  at[last] >= i
      <4>1. PICK j \in sent : i = at[j]
        BY <1>7
      <4>2. last >= j /\ last \in 1..h /\ j \in 1..h
        BY <2>1
      <4>3. CASE last = j
        BY <1>4, <4>1, <4>2, <4>3
      <4>4. CASE j < last
        BY <1>4, <4>1, <4>2, <4>4
      <4> QED BY <4>2, <4>3, <4>4
    <3> QED BY <1>6, <3>1
  <2>3. (CHOOSE j \in sent : \A k \in sent : j >= k) = last
    <3>1. \A k \in sent : (\A j \in sent : k >= j) => k = last
      BY <2>1
    <3> HIDE DEF sent
    <3> QED BY <2>1, <3>1
  <2>4. (CHOOSE i \in found : \A j \in found : i >= j) = at[last]
    <3>1. \A k \in found : (\A j \in found : k >= j) => k = at[last]
      BY <2>2
    <3> HIDE DEF found
    <3> QED BY <2>2, <3>1
  <2>5. w[at[last]] = headers[last] /\ headers[last] \in DOMAIN Lengths
    BY <1>4
  <2>6. found # {}
    BY <2>2
  <2>7. ContentLength(w, n) = Lengths[headers[last]] /\ Declared(r) = Lengths[headers[last]]
    <3> HIDE DEF sent, found
    <3> QED BY <1>5, <1>9, <2>3, <2>4, <2>5, <2>6
  <2>8. Lengths[headers[last]] \in Nat
    BY <2>5 DEF Lengths
  <2> QED BY <2>7, <2>8
<1> QED BY <1>8, <1>9

(* What ReadHttpRequest cuts out of a request that is complete. *)
LEMMA BodyAsSent ==
    ASSUME NEW r, WellFormed(r), NEW n \in 1..Len(r.words), HeaderEnd(r.words, n) # 0
    PROVE  /\ \A m \in 1..Len(r.words) : m >= n => HeaderEnd(r.words, m) # 0
           /\ BodyOffset(r.words, n) + ContentLength(r.words, n) - 1 <= n =>
                 /\ Declared(r) <= Len(r.body)
                 /\ SubSeq(r.words, BodyOffset(r.words, n),
                           BodyOffset(r.words, n) + ContentLength(r.words, n) - 1)
                    = SubSeq(r.body, 1, Declared(r))
<1>1. PICK S, hdr, start, at :
          /\ r.words \in Seq(S) /\ r.headers \in Seq(S) /\ r.body \in Seq(S)
          /\ Cut(r.words, r.headers, r.body, hdr, start, at)
  BY RequestCut
<1>2. PICK w \in Seq(S) : w = r.words
  BY <1>1
<1>3. PICK payload \in Seq(S) : payload = r.body
  BY <1>1
<1>4. PICK length \in Nat : length = Declared(r) /\ length = ContentLength(w, n)
  BY <1>1, <1>2, DeclaredLength
<1>5. /\ start \in Nat \ {0} /\ n >= start - 1 /\ BodyOffset(w, n) = start
      /\ Len(w) = start - 1 + Len(payload)
      /\ \A i \in 1..Len(payload) : w[start - 1 + i] = payload[i]
      /\ \A m \in 1..Len(w) : HeaderEnd(w, m) # 0 <=> m >= start - 1
  BY <1>1, <1>2, <1>3 DEF Cut
<1>6. \A m \in 1..Len(w) : m >= n => HeaderEnd(w, m) # 0
  BY <1>2, <1>5
<1>7. ASSUME start + length - 1 <= n
      PROVE  /\ length <= Len(payload)
             /\ SubSeq(w, start, start + length - 1) = SubSeq(payload, 1, length)
  <2>1. n <= Len(w) /\ Len(payload) \in Nat
    BY <1>2
  <2>2. length <= Len(payload)
    BY <1>5, <1>7, <2>1
  <2>3. PICK last \in Nat : last = start + length - 1
    BY <1>5
  <2>4. \A i \in start..last : w[i] \in S
    <3>1. \A i \in start..last : i \in 1..Len(w)
      BY <1>5, <1>7, <2>1, <2>3
    <3> QED BY <3>1, ElementOfSeq
  <2>5. PICK t \in Seq(S) : t = SubSeq(w, start, last)
    <3>1. start \in Int /\ last \in Int
      BY <1>5
    <3>2. SubSeq(w, start, last) \in Seq(S)
      BY <2>4, <3>1, SubSeqProperties
    <3> QED BY <3>2
  <2>6. Len(t) = length /\ \A i \in 1..length : t[i] = w[start + i - 1]
    <3>1. /\ Len(SubSeq(w, start, last)) = IF start <= last THEN last - start + 1 ELSE 0
          /\ \A i \in 1..last - start + 1 : SubSeq(w, start, last)[i] = w[start + i - 1]
      BY <1>5, <2>3, <2>4, SubSeqProperties
    <3>2. last - start + 1 = length /\ (start <= last <=> length # 0)
      BY <1>5, <2>3
    <3> QED BY <2>5, <3>1, <3>2
  <2>7. \A i \in 1..length : payload[i] \in S
    <3>1. \A i \in 1..length : i \in 1..Len(payload)
      BY <2>1, <2>2
    <3> QED BY <3>1, ElementOfSeq
  <2>8. PICK u \in Seq(S) : u = SubSeq(payload, 1, length)
    <3>1. SubSeq(payload, 1, length) \in Seq(S)
      BY <2>7, SubSeqProperties
    <3> QED BY <3>1
  <2>9. Len(u) = length /\ \A i \in 1..length : u[i] = payload[i]
    <3>1. /\ Len(SubSeq(payload, 1, length)) = IF 1 <= length THEN length - 1 + 1 ELSE 0
          /\ \A i \in 1..length - 1 + 1 : SubSeq(payload, 1, length)[i] = payload[1 + i - 1]
      BY <2>7, SubSeqProperties
    <3> QED BY <2>8, <3>1
  <2>10. ASSUME NEW i \in 1..length
         PROVE  t[i] = u[i]
    <3>1. i \in 1..Len(payload) /\ start + i - 1 = start - 1 + i
      BY <1>5, <2>1, <2>2
    <3>2. w[start - 1 + i] = payload[i]
      BY <1>5, <3>1
    <3> QED BY <2>6, <2>9, <3>1, <3>2
  <2>11. t = u
    BY <2>6, <2>9, <2>10
  <2> QED BY <2>2, <2>3, <2>5, <2>8, <2>11
<1> QED BY <1>2, <1>3, <1>4, <1>5, <1>6, <1>7


-----------------------------------------------------------------------------
(* The invariant: what a connection has read of its request, and what its  *)
(* handler has been given                                                  *)

Serving == {"handle", "stream", "scan", "event", "pause"}

\* the words of a "body" that is being read begin with a whole header
HeaderRead(c) ==
    step[c] = "body" => got[c] \in 1..Len(Words(c)) /\ HeaderEnd(Words(c), got[c]) # 0

Given(c) ==
    step[c] \in Serving =>
        /\ request[c].line \in Routes
        /\ Len(request[c].body) >= Declared(request[c])
        /\ body[c] = SubSeq(request[c].body, 1, Declared(request[c]))

SentInv ==
    /\ request \in Requests
    /\ step = [c \in Conns |-> step[c]]
    /\ got = [c \in Conns |-> got[c]]
    /\ body = [c \in Conns |-> body[c]]
    /\ \A c \in Conns : HeaderRead(c) /\ Given(c)

(* A step of another connection, or of the worker, leaves c as it is. *)
LEMMA OthersSent ==
    ASSUME SentInv, NEW d \in Conns, UNCHANGED request,
           step'[d] = step[d], got'[d] = got[d], body'[d] = body[d]
    PROVE  HeaderRead(d)' /\ Given(d)'
BY DEF SentInv, HeaderRead, Given, Words

(* A step of c is no other connection's. *)
LEMMA OneChanges ==
    ASSUME SentInv, NEW c \in Conns, UNCHANGED request, NEW next, NEW n, NEW b,
           step' = [step EXCEPT ![c] = next], got' = [got EXCEPT ![c] = n],
           body' = [body EXCEPT ![c] = b], HeaderRead(c)', Given(c)'
    PROVE  SentInv'
<1>1. /\ step' = [d \in Conns |-> IF d = c THEN next ELSE step[d]]
      /\ got' = [d \in Conns |-> IF d = c THEN n ELSE got[d]]
      /\ body' = [d \in Conns |-> IF d = c THEN b ELSE body[d]]
  BY DEF SentInv
<1>2. ASSUME NEW d \in Conns, d # c
      PROVE  HeaderRead(d)' /\ Given(d)'
  <2>1. step'[d] = step[d] /\ got'[d] = got[d] /\ body'[d] = body[d]
    BY <1>1, <1>2
  <2> QED BY <2>1, OthersSent
<1>3. /\ step' = [d \in Conns |-> step'[d]] /\ got' = [d \in Conns |-> got'[d]]
      /\ body' = [d \in Conns |-> body'[d]]
  BY <1>1
<1> QED BY <1>2, <1>3 DEF SentInv

(* Where it is then, and what it has. *)
LEMMA OneHas ==
    ASSUME SentInv, NEW c \in Conns, NEW next, NEW n, NEW b,
           step' = [step EXCEPT ![c] = next], got' = [got EXCEPT ![c] = n],
           body' = [body EXCEPT ![c] = b]
    PROVE  step'[c] = next /\ got'[c] = n /\ body'[c] = b
BY DEF SentInv

(* Accepting, writing, closing and following a plan hand on nothing. *)
LEMMA MovesSent ==
    ASSUME SentInv, NEW c \in Conns, UNCHANGED <<request, got, body>>,
           \/ UNCHANGED step
           \/ \E next : /\ Goto(c, next) /\ next # "body"
                        /\ next \in Serving => step[c] \in Serving
    PROVE  SentInv'
<1>1. CASE UNCHANGED step
  BY <1>1 DEF SentInv, HeaderRead, Given, Words
<1>2. ASSUME NEW next, Goto(c, next), next # "body", next \in Serving => step[c] \in Serving
      PROVE  SentInv'
  <2>1. PICK n, b : got' = [got EXCEPT ![c] = n] /\ body' = [body EXCEPT ![c] = b]
    <3>1. got' = [got EXCEPT ![c] = got[c]] /\ body' = [body EXCEPT ![c] = body[c]]
      BY DEF SentInv
    <3> QED BY <3>1
  <2>2. step' = [step EXCEPT ![c] = next] /\ step'[c] = next
    BY <1>2, <2>1, OneHas DEF Goto
  <2>3. HeaderRead(c)' /\ Given(c)'
    BY <1>2, <2>2 DEF SentInv, HeaderRead, Given
  <2> QED BY <2>1, <2>2, <2>3, OneChanges
<1> QED BY <1>1, <1>2

(* ReadHttpRequest forgets a request it refuses. *)
LEMMA RefuseSent ==
    ASSUME SentInv, NEW c \in Conns, NEW code, Refuse(c, code), UNCHANGED request
    PROVE  SentInv'
<1>1. PICK b : body' = [body EXCEPT ![c] = b]
  <2>1. body' = [body EXCEPT ![c] = body[c]]
    BY DEF SentInv, Refuse
  <2> QED BY <2>1
<1>2. step' = [step EXCEPT ![c] = "write"] /\ got' = [got EXCEPT ![c] = 0]
  BY DEF Refuse, Respond, Goto
<1>3. step'[c] = "write"
  BY <1>1, <1>2, OneHas
<1>4. HeaderRead(c)' /\ Given(c)'
  BY <1>3 DEF HeaderRead, Given, Serving
<1> QED BY <1>1, <1>2, <1>4, OneChanges

(* With a whole header read, it reads on or hands on what was sent. *)
LEMMA HandleOrReadOnSent ==
    ASSUME SentInv, NEW c \in Conns, NEW n \in 1..Len(Words(c)),
           HeaderEnd(Words(c), n) # 0, HandleOrReadOn(c, n), UNCHANGED request
    PROVE  SentInv'
<1>1. PICK r : r = request[c]
  OBVIOUS
<1>2. WellFormed(r) /\ n \in 1..Len(r.words) /\ HeaderEnd(r.words, n) # 0 /\ Words(c) = r.words
  BY <1>1, RequestsAssumption DEF SentInv, Words
<1>3. PICK start, length :
          start = BodyOffset(r.words, n) /\ length = ContentLength(r.words, n)
  OBVIOUS
<1>4. CASE /\ n >= start + length - 1
           /\ body' = [body EXCEPT ![c] = SubSeq(r.words, start, start + length - 1)]
           /\ got' = [got EXCEPT ![c] = 0]
           /\ Dispatch(c)
  <2>1. Declared(r) <= Len(r.body)
        /\ SubSeq(r.words, start, start + length - 1) = SubSeq(r.body, 1, Declared(r))
    BY <1>2, <1>3, <1>4, BodyAsSent
  <2>2. Goto(c, "handle") /\ r.line \in Routes
    BY <1>1, <1>4 DEF Dispatch, Routes
  <2>3. PICK b : b = SubSeq(r.body, 1, Declared(r))
    OBVIOUS
  <2>4. /\ step' = [step EXCEPT ![c] = "handle"] /\ got' = [got EXCEPT ![c] = 0]
        /\ body' = [body EXCEPT ![c] = b]
    BY <1>4, <2>1, <2>2, <2>3 DEF Goto
  <2>5. step'[c] = "handle" /\ body'[c] = b
    BY <2>4, OneHas
  <2>6. HeaderRead(c)'
    BY <2>5 DEF HeaderRead
  <2>7. Given(c)'
    <3>1. Len(r.body) >= Declared(r)
      BY <2>1
    <3> QED BY <1>1, <2>2, <2>3, <2>5, <3>1 DEF Given
  <2> QED BY <2>4, <2>6, <2>7, OneChanges
<1>5. CASE Goto(c, "body") /\ got' = [got EXCEPT ![c] = n] /\ UNCHANGED body
  <2>1. PICK b : body' = [body EXCEPT ![c] = b]
    <3>1. body' = [body EXCEPT ![c] = body[c]]
      BY <1>5 DEF SentInv
    <3> QED BY <3>1
  <2>2. step' = [step EXCEPT ![c] = "body"] /\ got' = [got EXCEPT ![c] = n]
    BY <1>5 DEF Goto
  <2>3. step'[c] = "body" /\ got'[c] = n
    BY <2>1, <2>2, OneHas
  <2>4. HeaderRead(c)'
    BY <2>3 DEF HeaderRead, Words
  <2>5. Given(c)'
    BY <2>3 DEF Given, Serving
  <2> QED BY <2>1, <2>2, <2>4, <2>5, OneChanges
<1> QED BY <1>2, <1>3, <1>4, <1>5 DEF HandleOrReadOn

(* A piece of the request arrives, or nothing more. *)
LEMMA ReadSent ==
    ASSUME SentInv, NEW c \in Conns, Read(c)
    PROVE  SentInv'
<1>1. UNCHANGED request
  BY DEF Read, ReadEnds, ReadHeader, ReadBody, Arrives
<1>2. CASE ReadEnds(c)
  BY <1>1, <1>2, RefuseSent DEF ReadEnds
<1>3. ASSUME NEW n \in 1..Len(Words(c)), ReadHeader(c, n)
      PROVE  SentInv'
  <2>1. CASE Refuse(c, 400)
    BY <1>1, <2>1, RefuseSent
  <2>2. CASE HeaderEnd(Words(c), n) # 0 /\ HandleOrReadOn(c, n)
    BY <1>1, <2>2, HandleOrReadOnSent
  <2>3. CASE got' = [got EXCEPT ![c] = n] /\ UNCHANGED <<step, body>> /\ step[c] = "head"
    <3>1. PICK b : body' = [body EXCEPT ![c] = b]
      <4>1. body' = [body EXCEPT ![c] = body[c]]
        BY <2>3 DEF SentInv
      <4> QED BY <4>1
    <3>2. step' = [step EXCEPT ![c] = "head"] /\ got' = [got EXCEPT ![c] = n]
      BY <2>3 DEF SentInv
    <3>3. HeaderRead(c)' /\ Given(c)'
      BY <2>3 DEF HeaderRead, Given, Serving
    <3> QED BY <1>1, <3>1, <3>2, <3>3, OneChanges
  <2> QED BY <1>3, <2>1, <2>2, <2>3 DEF ReadHeader, ParseHeader
<1>4. ASSUME NEW n \in 1..Len(Words(c)), ReadBody(c, n)
      PROVE  SentInv'
  <2>1. /\ got[c] \in 1..Len(Words(c)) /\ HeaderEnd(Words(c), got[c]) # 0
        /\ n > got[c] /\ HandleOrReadOn(c, n)
    BY <1>4 DEF SentInv, HeaderRead, ReadBody, Arrives
  <2>2. WellFormed(request[c])
    BY RequestsAssumption DEF SentInv
  <2>3. HeaderEnd(Words(c), n) # 0
    <3>1. PICK g \in 1..Len(request[c].words) : g = got[c] /\ HeaderEnd(request[c].words, g) # 0
      BY <2>1 DEF Words
    <3>2. \A m \in 1..Len(request[c].words) : m >= g => HeaderEnd(request[c].words, m) # 0
      BY <2>2, <3>1, BodyAsSent
    <3>3. n >= g
      BY <2>1, <3>1
    <3> QED BY <3>2, <3>3 DEF Words
  <2> QED BY <1>1, <2>1, <2>3, HandleOrReadOnSent
<1> QED BY <1>2, <1>3, <1>4 DEF Read

(* At the start nothing has been read. *)
LEMMA InitSent == HttpInit => SentInv
BY DEF HttpInit, SentInv, HeaderRead, Given, Serving

LEMMA NextSent == SentInv /\ [HttpNext]_http_vars => SentInv'
<1> SUFFICES ASSUME SentInv, [HttpNext]_http_vars
             PROVE  SentInv'
  OBVIOUS
<1>1. ASSUME NEW c \in Conns, Close(c) \/ Reset(c) \/ Accept(c) \/ Handle(c) \/ Answer(c)
      PROVE  SentInv'
  <2>1. UNCHANGED <<request, got, body>>
    BY <1>1 DEF Close, Reset, Accept, Handle, Answer, WriteHttpResponse, BeginStream,
                WriteEvent, NextSummary, CloseConnection
  <2>2. CASE Close(c) \/ Reset(c)
    BY <2>1, <2>2, MovesSent DEF Close, Reset
  <2>3. CASE Accept(c)
    <3>1. UNCHANGED step \/ Goto(c, "head") \/ Goto(c, "write")
      BY <2>3 DEF Accept, Respond
    <3> QED BY <2>1, <3>1, MovesSent DEF Serving
  <2>4. CASE Handle(c)
    <3>1. /\ step[c] \in Serving
          /\ UNCHANGED step \/ Goto(c, "event") \/ Goto(c, "stream") \/ Goto(c, "write")
      BY <2>4 DEF Handle, Serving
    <3> QED BY <2>1, <3>1, MovesSent
  <2>5. CASE WriteHttpResponse(c) \/ CloseConnection(c)
    <3>1. UNCHANGED step \/ Goto(c, "close") \/ Goto(c, "closed")
      BY <2>5 DEF WriteHttpResponse, CloseConnection, Write
    <3> QED BY <2>1, <3>1, MovesSent DEF Serving
  <2>6. CASE BeginStream(c) \/ WriteEvent(c) \/ NextSummary(c)
    <3>1. /\ step[c] \in Serving
          /\ UNCHANGED step \/ Goto(c, "pause") \/ Goto(c, "close") \/ Goto(c, "scan")
      BY <2>6 DEF BeginStream, WriteEvent, NextSummary, Write, Serving
    <3> QED BY <2>1, <3>1, MovesSent
  <2> QED BY <1>1, <2>2, <2>3, <2>4, <2>5, <2>6 DEF Answer
<1>2. CASE WorkerEnds \/ UNCHANGED http_vars
  <2>1. UNCHANGED <<request, step, got, body>>
    BY <1>2 DEF WorkerEnds, http_vars, conn_vars
  <2> QED BY <2>1 DEF SentInv, HeaderRead, Given, Words
<1> QED BY <1>1, <1>2, ReadSent DEF HttpNext, Serve

(* Whatever the pieces a request arrives in, however long its lines and    *)
(* its body, and whichever line end it uses: ReadHttpRequest hands on the  *)
(* body the client has announced, whole, and never before it is there.     *)
THEOREM HandlersGetWhatWasSent == HttpSpec => []HandledAsSent
<1>1. HttpSpec => []SentInv
  BY InitSent, NextSent, PTL DEF HttpSpec
<1>2. SentInv => HandledAsSent
  BY DEF SentInv, Given, Serving, HandledAsSent
<1> QED BY <1>1, <1>2, PTL
=============================================================================
