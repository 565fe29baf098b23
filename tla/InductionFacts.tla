----------------------------- MODULE InductionFacts -----------------------------
(***************************************************************************)
(* Induction over the naturals, stated with a set, and what FlattenSeq     *)
(* makes of a sequence of sequences: what the proofs about recursive       *)
(* functions (loops of a plan, the words of a request, the characters of a *)
(* string, matching_events over a helper's output) rest on.                *)
(***************************************************************************)
EXTENDS Integers, SequencesExt, SequenceTheorems, WellFoundedInduction, TLAPS

-----------------------------------------------------------------------------
(* Induction over the naturals, in a form the provers can use *)

(* A set of naturals that is not empty has a least element. *)
LEMMA LeastNatural ==
    ASSUME NEW T, T \subseteq Nat, T # {}
    PROVE  \E x \in T : \A y \in T : x <= y
<1>1. IsWellFoundedOn(OpToRel(<, Nat), Nat)
  BY NatLessThanWellFounded
<1>2. PICK x \in T : \A y \in T : ~(<<y, x>> \in OpToRel(<, Nat))
  BY <1>1, WFMin
<1>3. \A y \in T : ~(y < x)
  <2> SUFFICES ASSUME NEW y \in T, y < x
               PROVE  FALSE
    OBVIOUS
  <2>1. <<y, x>> \in Nat \X Nat
    OBVIOUS
  <2>2. <<y, x>> \in OpToRel(<, Nat)
    BY <2>1 DEF OpToRel
  <2> QED BY <2>2, <1>2
<1> QED BY <1>3

(* A set with 0 and every successor of its naturals has all naturals. *)
LEMMA SetInduction ==
    ASSUME NEW S, 0 \in S, \A n \in Nat : n \in S => n + 1 \in S
    PROVE  Nat \subseteq S
<1> SUFFICES ASSUME Nat \ S # {}
             PROVE  FALSE
  OBVIOUS
<1>1. PICK x \in Nat \ S : \A y \in Nat \ S : x <= y
  BY LeastNatural
<1>2. x # 0
  OBVIOUS
<1>3. x - 1 \in Nat
  BY <1>2
<1>4. x - 1 \in S
  BY <1>1, <1>3
<1> QED BY <1>3, <1>4

-----------------------------------------------------------------------------
(* FlattenSeq *)

\* f is what FlattenSeq computes of the first n sequences of ss.
Flattens(f, ss, n) == f = [i \in 1..n |-> IF i = 1 THEN ss[i] ELSE f[i - 1] \o ss[i]]

(* The recursive function of FlattenSeq exists. *)
LEMMA FlattenExists ==
    ASSUME NEW ss, NEW n \in Nat
    PROVE  \E f : Flattens(f, ss, n)
<1> DEFINE S == {k \in Nat : \E f : Flattens(f, ss, k)}
<1>1. 0 \in S
  <2> DEFINE f == [i \in 1..0 |-> 0]
  <2>1. Flattens(f, ss, 0)
    BY DEF Flattens
  <2> QED BY <2>1
<1>2. ASSUME NEW k \in Nat, k \in S
      PROVE  k + 1 \in S
  <2>1. PICK f : Flattens(f, ss, k)
    BY <1>2
  <2> DEFINE Then(f0) ==
                 [i \in 1..k + 1 |-> IF i = 1 THEN ss[i] ELSE f0[i - 1] \o ss[i]]
             g == Then(f)
  <2>2. \A i \in 1..k : g[i] = f[i]
    <3> TAKE i \in 1..k
    <3>1. f[i] = IF i = 1 THEN ss[i] ELSE f[i - 1] \o ss[i]
      BY <2>1 DEF Flattens
    <3> QED BY <3>1
  <2>3. g = Then(g)
    <3>1. \A i \in 1..k + 1 : i # 1 => i - 1 \in 1..k
      OBVIOUS
    <3>2. \A i \in 1..k + 1 : i # 1 => g[i - 1] = f[i - 1]
      BY <2>2, <3>1
    <3> HIDE DEF g
    <3> QED BY <3>2 DEF g
  <2>4. Flattens(g, ss, k + 1)
    BY <2>3 DEF Flattens
  <2> HIDE DEF g
  <2> QED BY <2>4
<1> HIDE DEF S
<1>3. Nat \subseteq S
  BY <1>1, <1>2, SetInduction
<1> QED BY <1>3 DEF S

(* FlattenSeq of a sequence that is not empty is the last of its partial *)
(* concatenations.                                                       *)
LEMMA FlattenIsLast ==
    ASSUME NEW ss, Len(ss) \in Nat \ {0}
    PROVE  \E f : Flattens(f, ss, Len(ss)) /\ FlattenSeq(ss) = f[Len(ss)]
<1> DEFINE f == CHOOSE f : Flattens(f, ss, Len(ss))
<1>1. Flattens(f, ss, Len(ss))
  BY FlattenExists
<1>2. FlattenSeq(ss) = f[Len(ss)]
  BY DEF FlattenSeq, Flattens
<1> QED BY <1>1, <1>2

\* s \o t, kept from the provers
Cat(s, t) == s \o t

(* A concatenation, part by part. *)
LEMMA CatParts ==
    ASSUME NEW S, NEW s \in Seq(S), NEW t \in Seq(S)
    PROVE  /\ Cat(s, t) \in Seq(S) /\ Len(Cat(s, t)) = Len(s) + Len(t)
           /\ \A i \in 1..Len(s) + Len(t) :
                 Cat(s, t)[i] = IF i <= Len(s) THEN s[i] ELSE t[i - Len(s)]
<1>1. Len(s) \in Nat /\ Len(t) \in Nat
  OBVIOUS
<1>2. /\ s \o t \in Seq(S) /\ Len(s \o t) = Len(s) + Len(t)
      /\ \A i \in 1..Len(s) + Len(t) :
            (s \o t)[i] = IF i <= Len(s) THEN s[i] ELSE t[i - Len(s)]
  BY ConcatProperties
<1> QED BY <1>1, <1>2 DEF Cat

\* In w, the concatenation of ss, ss[i] ends at pos[i].
Positions(pos, ss, w) ==
    /\ pos[0] = 0 /\ Len(w) = pos[Len(ss)]
    /\ \A i \in 0..Len(ss) : pos[i] \in Nat /\ pos[i] <= Len(w)
    /\ \A i \in 1..Len(ss) : pos[i] = pos[i - 1] + Len(ss[i])
    /\ \A i \in 1..Len(ss) : \A j \in 1..Len(ss[i]) : w[pos[i - 1] + j] = ss[i][j]

(* FlattenSeq, part by part, for parts of any length. *)
LEMMA FlattenParts ==
    ASSUME NEW S, NEW ss \in Seq(Seq(S))
    PROVE  FlattenSeq(ss) \in Seq(S) /\ \E pos : Positions(pos, ss, FlattenSeq(ss))
<1> PICK n \in Nat : n = Len(ss)
  OBVIOUS
<1>1. \A i \in 1..n : ss[i] \in Seq(S)
  BY ElementOfSeq
<1>2. CASE n = 0
  <2>1. FlattenSeq(ss) = <<>> /\ <<>> \in Seq(S)
    <3>1. ss = <<>>
      BY <1>2, EmptySeq
    <3> QED BY <3>1 DEF FlattenSeq
  <2> DEFINE pos == [i \in {0} |-> 0]
  <2>2. pos[0] = 0 /\ Len(<<>>) = 0 /\ 1..n = {} /\ \A i \in 0..n : i = 0
    BY <1>2
  <2> HIDE DEF pos
  <2>3. Positions(pos, ss, <<>>)
    BY <1>2, <2>2 DEF Positions
  <2> QED BY <2>1, <2>3
<1>3. CASE n # 0
  <2>1. PICK f : Flattens(f, ss, n) /\ FlattenSeq(ss) = f[n]
    BY <1>1, <1>3, FlattenIsLast
  <2>2. \A i \in 1..n : f[i] = IF i = 1 THEN ss[i] ELSE Cat(f[i - 1], ss[i])
    BY <2>1 DEF Flattens, Cat
  <2>3. f[1] = ss[1] /\ \A i \in 1..n : i + 1 \in 1..n => f[i + 1] = Cat(f[i], ss[i + 1])
    <3>1. \A i \in 1..n : i + 1 # 1 /\ (i + 1) - 1 = i
      OBVIOUS
    <3> QED BY <1>3, <2>2, <3>1
  <2> DEFINE pos == [i \in 0..n |-> IF i = 0 THEN 0 ELSE Len(f[i])]
             Ends(m) == /\ \A i \in 0..m : pos[i] \in Nat /\ pos[i] <= pos[m]
                        /\ \A i \in 1..m : pos[i] = pos[i - 1] + Len(ss[i])
                        /\ \A i \in 1..m : \A j \in 1..Len(ss[i]) :
                              f[m][pos[i - 1] + j] = ss[i][j]
             Good(m) == f[m] \in Seq(S) /\ Ends(m)
             T == {m \in Nat : m \in 1..n => Good(m)}
  <2>4. pos[0] = 0 /\ \A i \in 1..n : pos[i] = Len(f[i])
    OBVIOUS
  <2> HIDE DEF pos
  <2>5. Good(1)
    <3>1. f[1] \in Seq(S) /\ pos[1] = Len(ss[1]) /\ Len(ss[1]) \in Nat /\ 1 \in 1..n
      BY <1>1, <1>3, <2>3, <2>4
    <3>2. 0..1 = {0, 1} /\ 1..1 = {1} /\ 1 - 1 = 0 /\ \A j \in 1..Len(ss[1]) : 0 + j = j
      BY <3>1
    <3> QED BY <2>3, <2>4, <3>1, <3>2
  <2>6. ASSUME NEW m \in 1..n, Good(m), m + 1 \in 1..n
        PROVE  Good(m + 1)
    <3>1. PICK p \in Seq(S) : p = f[m]
      BY <2>6
    <3>2. PICK q \in Seq(S) : q = ss[m + 1]
      BY <1>1, <2>6
    <3>3. PICK a \in Nat, b \in Nat : a = Len(p) /\ b = Len(q)
      OBVIOUS
    <3>4. f[m + 1] = Cat(p, q)
      BY <2>3, <2>6, <3>1, <3>2
    <3>5. /\ f[m + 1] \in Seq(S) /\ Len(f[m + 1]) = a + b
          /\ \A i \in 1..a + b : f[m + 1][i] = IF i <= a THEN p[i] ELSE q[i - a]
      <4>1. /\ Cat(p, q) \in Seq(S) /\ Len(Cat(p, q)) = Len(p) + Len(q)
            /\ \A i \in 1..Len(p) + Len(q) :
                  Cat(p, q)[i] = IF i <= Len(p) THEN p[i] ELSE q[i - Len(p)]
        BY CatParts
      <4> QED BY <3>3, <3>4, <4>1
    <3>6. pos[m] = a /\ pos[m + 1] = a + b
      BY <2>4, <2>6, <3>1, <3>3, <3>5
    <3>7. Ends(m)
      BY <2>6
    <3> PICK k \in Nat : k = m + 1
      OBVIOUS
    <3>8. k - 1 = m /\ (\A i \in 0..k : i \in 0..m \/ i = k)
          /\ (\A i \in 1..k : i \in 1..m \/ i = k) /\ m \in 0..m
      OBVIOUS
    <3>9. \A i \in 0..k : pos[i] \in Nat /\ pos[i] <= pos[k]
      <4>1. \A x \in Nat : x <= a => x <= a + b
        OBVIOUS
      <4>2. a + b \in Nat /\ a + b <= a + b
        OBVIOUS
      <4> QED BY <3>6, <3>7, <3>8, <4>1, <4>2
    <3>10. \A i \in 1..k : pos[i] = pos[i - 1] + Len(ss[i])
      BY <3>2, <3>3, <3>6, <3>7, <3>8
    <3>11. ASSUME NEW i \in 1..k, NEW j \in 1..Len(ss[i])
           PROVE  f[k][pos[i - 1] + j] = ss[i][j]
      <4>1. CASE i \in 1..m
        <5>1. i - 1 \in 0..m /\ i \in 0..m
          BY <4>1
        <5>2. pos[i] = pos[i - 1] + Len(ss[i]) /\ pos[i - 1] \in Nat /\ pos[i] <= a
          BY <3>6, <3>7, <4>1, <5>1
        <5>3. Len(ss[i]) \in Nat
          BY <1>1, <2>6, <4>1
        <5>4. PICK at : at = pos[i - 1] + j
          OBVIOUS
        <5>5. at \in 1..a + b /\ at <= a
          <6>1. PICK u, v : u = pos[i - 1] /\ v = Len(ss[i])
            OBVIOUS
          <6>2. u \in Nat /\ v \in Nat /\ u + v <= a /\ at = u + j /\ j \in 1..v
            BY <5>2, <5>3, <5>4, <6>1
          <6> QED BY <6>2
        <5>6. f[k][at] = p[at]
          BY <3>5, <5>5
        <5> QED BY <3>1, <3>7, <4>1, <5>4, <5>6
      <4>2. CASE i = k
        <5>1. j \in 1..b /\ pos[i - 1] = a
          BY <3>2, <3>3, <3>6, <3>8, <4>2
        <5>2. a + j \in 1..a + b /\ ~(a + j <= a) /\ (a + j) - a = j
          BY <5>1
        <5>3. f[k][a + j] = q[j]
          BY <3>5, <5>2
        <5> QED BY <3>2, <4>2, <5>1, <5>3
      <4> QED BY <3>8, <4>1, <4>2
    <3> QED BY <3>5, <3>9, <3>10, <3>11
  <2>7. 0 \in T
    OBVIOUS
  <2>8. ASSUME NEW m \in Nat, m \in T
        PROVE  m + 1 \in T
    <3> HIDE DEF Good
    <3> SUFFICES ASSUME m + 1 \in 1..n
                 PROVE  Good(m + 1)
      OBVIOUS
    <3>1. CASE m = 0
      BY <2>5, <3>1
    <3>2. CASE m # 0
      <4>1. m \in 1..n
        BY <3>2
      <4> QED BY <2>6, <2>8, <4>1
    <3> QED BY <3>1, <3>2
  <2> HIDE DEF T
  <2>9. n \in T
    BY <2>7, <2>8, SetInduction
  <2>10. Good(n)
    BY <1>3, <2>9 DEF T
  <2>11. Positions(pos, ss, f[n])
    <3>1. Len(f[n]) = pos[n]
      BY <1>3, <2>4
    <3> QED BY <2>4, <2>10, <3>1 DEF Positions
  <2> QED BY <2>1, <2>10, <2>11
<1> QED BY <1>2, <1>3
=============================================================================
