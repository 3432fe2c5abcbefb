---------------------------- MODULE DataLemmas -----------------------------
(* Facts about numbers and sequences that several proofs need.              *)
EXTENDS Naturals, Sequences, WellFoundedInduction, TLAPS

\* A non-empty set of numbers has a least one: induction, in the form in which
\* it takes no operator.
LEMMA LeastNumber ==
    ASSUME NEW T \in SUBSET Nat, T # {}
    PROVE  \E n \in T : \A m \in T : n <= m
<1>0. T \subseteq Nat
  OBVIOUS
<1>1. PICK n \in T : \A m \in T : ~ (<<m, n>> \in OpToRel(<, Nat))
  BY <1>0, NatLessThanWellFounded, WFMin, Zenon
<1>2. ASSUME NEW m \in T, m < n PROVE FALSE
  <2>1. m \in Nat /\ n \in Nat
    BY <1>0
  <2>2. <<m, n>> \in OpToRel(<, Nat)
    BY <1>2, <2>1 DEF OpToRel
  <2>3. QED
    BY <1>1, <2>2
<1>3. ASSUME NEW m \in T PROVE n <= m
  <2>1. m \in Nat /\ n \in Nat /\ ~ (m < n)
    BY <1>0, <1>2
  <2>2. QED
    BY <2>1
<1>4. QED
  BY <1>3

\* Induction from a to b, as a fact about the set of the numbers it reaches.
LEMMA StepwiseInduction ==
    ASSUME NEW a \in Nat, NEW b \in Nat, NEW Q, a \in Q,
           \A i \in (a + 1)..b : i - 1 \in Q => i \in Q
    PROVE  \A i \in a..b : i \in Q
<1> DEFINE D == {i \in a..b : i \notin Q}
<1> SUFFICES ASSUME D # {} PROVE FALSE
  OBVIOUS
<1>1. PICK m \in D : \A k \in D : m <= k
  <2>1. D \in SUBSET Nat
    OBVIOUS
  <2>2. QED
    BY <2>1, LeastNumber
<1>2. m \in (a + 1)..b /\ m - 1 \in a..b /\ ~ (m <= m - 1)
  OBVIOUS
<1>3. m - 1 \in Q
  BY <1>1, <1>2
<1>4. QED
  BY <1>2, <1>3

\* A function defined by recursion on its argument exists.
LEMMA RecursionExists ==
    ASSUME NEW S, NEW x \in S, NEW b \in Nat, NEW step \in [1..b -> [S -> S]]
    PROVE  \E f \in [0..b -> S] : f[0] = x /\ \A i \in 1..b : f[i] = step[i][f[i - 1]]
<1> DEFINE P(f, n) == f[0] = x /\ \A i \in 1..n : f[i] = step[i][f[i - 1]]
           Q == {n \in 0..b : \E f \in [0..n -> S] : P(f, n)}
<1>1. 0 \in Q
  <2> DEFINE f == [i \in 0..0 |-> x]
  <2>1. f \in [0..0 -> S] /\ f[0] = x /\ 1..0 = {} /\ 0 \in 0..b
    OBVIOUS
  <2>2. QED
    BY <2>1
<1>2. ASSUME NEW m \in (0 + 1)..b, m - 1 \in Q PROVE m \in Q
  <2>1. PICK g \in [0..(m - 1) -> S] : P(g, m - 1)
    BY <1>2
  <2> DEFINE h == [i \in 0..m |-> IF i = m THEN step[m][g[m - 1]] ELSE g[i]]
  <2>2. /\ m \in 1..b /\ m \in 0..b /\ m - 1 \in 0..(m - 1)
        /\ \A i \in 0..m : i = m \/ i \in 0..(m - 1)
        /\ 0 \in 0..(m - 1) /\ 0 # m
    OBVIOUS
  <2>3. h \in [0..m -> S]
    BY <2>2
  <2>4. h[0] = x
    BY <2>1, <2>2
  <2>5. ASSUME NEW i \in 1..m PROVE h[i] = step[i][h[i - 1]]
    <3>1. i \in 0..m /\ i - 1 \in 0..(m - 1) /\ i - 1 \in 0..m /\ i - 1 # m
      OBVIOUS
    <3>2. h[i - 1] = g[i - 1]
      BY <3>1
    <3>3. CASE i = m
      BY <3>1, <3>2, <3>3
    <3>4. CASE i # m
      <4>1. i \in 1..(m - 1) /\ h[i] = g[i]
        BY <3>1, <3>4
      <4>2. QED
        BY <2>1, <3>2, <4>1
    <3>5. QED
      BY <3>3, <3>4
  <2> HIDE DEF h
  <2>6. QED
    BY <2>2, <2>3, <2>4, <2>5
<1>3. b \in 0..b /\ 0 \in Nat
  OBVIOUS
<1> HIDE DEF Q
<1>4. b \in Q
  BY <1>1, <1>2, <1>3, StepwiseInduction, Zenon
<1>5. QED
  BY <1>4 DEF Q

\* The running sums of a sequence of numbers.
LEMMA RunningSum ==
    ASSUME NEW n \in Nat \ {0}, NEW c, \A i \in 2..n : c[i] \in Nat
    PROVE  \E f \in [1..n -> Nat] : f[1] = 0 /\ \A i \in 2..n : f[i] = f[i - 1] + c[i]
<1> DEFINE N == Nat
           b == n - 1
           step == [i \in 1..b |-> [y \in Nat |-> y + c[i + 1]]]
<1>1. b \in Nat /\ \A i \in 1..b : i + 1 \in 2..n
  OBVIOUS
<1>2. step \in [1..b -> [N -> N]] /\ 0 \in N
  BY <1>1
<1>3. PICK g \in [0..b -> N] : g[0] = 0 /\ \A i \in 1..b : g[i] = step[i][g[i - 1]]
  <2> HIDE DEF step, b, N
  <2>1. QED
    BY <1>1, <1>2, RecursionExists
<1> DEFINE f == [i \in 1..n |-> g[i - 1]]
<1>4. f \in [1..n -> Nat] /\ f[1] = 0
  BY <1>3
<1>5. ASSUME NEW i \in 2..n PROVE f[i] = f[i - 1] + c[i]
  <2>1. i - 1 \in 1..b /\ i - 2 \in 0..b /\ (i - 1) - 1 = i - 2 /\ (i - 1) + 1 = i
    BY <1>1
  <2>2. g[i - 2] \in Nat /\ g[i - 1] = g[i - 2] + c[i]
    <3>1. g[i - 1] = step[i - 1][g[i - 2]] /\ g[i - 2] \in Nat
      <4> HIDE DEF step
      <4>1. QED
        BY <1>3, <2>1
    <3>2. step[i - 1] = [y \in Nat |-> y + c[i]]
      BY <2>1
    <3>3. QED
      BY <3>1, <3>2
  <2>3. f[i] = g[i - 1] /\ f[i - 1] = g[i - 2]
    BY <2>1
  <2>4. QED
    BY <2>2, <2>3
<1>6. QED
  BY <1>4, <1>5

----------------------------------------------------------------------------
(* A table with an AUTOINCREMENT id is a sequence of its rows.  What the    *)
(* statements on patch_jobs and notifications_outbox do to one.             *)

\* Every row of a table has its type, and an id from 1 on.
LEMMA ElementType ==
    ASSUME NEW S, NEW s \in Seq(S), NEW i \in DOMAIN s
    PROVE  s[i] \in S /\ i \in Nat /\ i >= 1
OBVIOUS

\* UPDATE ... WHERE id: one row is replaced, the others stay.
LEMMA ReplacedElement ==
    ASSUME NEW S, NEW s \in Seq(S), NEW k \in DOMAIN s, NEW e \in S
    PROVE  /\ [s EXCEPT ![k] = e] \in Seq(S)
           /\ DOMAIN [s EXCEPT ![k] = e] = DOMAIN s
           /\ [s EXCEPT ![k] = e][k] = e
           /\ \A i \in DOMAIN s : i # k => [s EXCEPT ![k] = e][i] = s[i]
OBVIOUS

\* UPDATE ... WHERE: a function of the rows is a table with the same ids.
LEMMA MappedSequence ==
    ASSUME NEW S, NEW s \in Seq(S), NEW f,
           f = [i \in DOMAIN s |-> f[i]], \A i \in DOMAIN s : f[i] \in S
    PROVE  f \in Seq(S) /\ DOMAIN f = DOMAIN s
<1>1. Len(s) \in Nat /\ DOMAIN s = 1 .. Len(s)
  OBVIOUS
<1>2. f \in [1 .. Len(s) -> S]
  BY <1>1
<1>3. QED
  BY <1>1, <1>2

\* INSERT: the new row has an id of its own, the others stay.
LEMMA AppendedElement ==
    ASSUME NEW S, NEW s \in Seq(S), NEW e \in S
    PROVE  /\ Append(s, e) \in Seq(S)
           /\ Len(s) + 1 \notin DOMAIN s
           /\ DOMAIN Append(s, e) = DOMAIN s \cup {Len(s) + 1}
           /\ Append(s, e)[Len(s) + 1] = e
           /\ \A i \in DOMAIN s : Append(s, e)[i] = s[i]
OBVIOUS
=============================================================================
