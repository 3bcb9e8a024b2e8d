----------------------------- MODULE DataFacts -----------------------------
(***************************************************************************)
(* Facts about numbers, sets and sequences that several proof modules cite. *)
(***************************************************************************)
EXTENDS Integers, SequenceTheorems, FiniteSetTheorems, WellFoundedInduction, TLAPS

\* A non-empty set of natural numbers has a least element.  It serves where
\* the code takes the first of something (the first breaker that has a rule,
\* GetExistingSameCbOrNew) and wherever a proof goes by induction.
LEMMA LeastElement ==
  ASSUME NEW T \in SUBSET Nat, T # {}
  PROVE  \E m \in T : \A k \in T : m <= k
<1> DEFINE R == OpToRel(<, Nat)
<1>1. \E x \in T : \A y \in T : <<y, x>> \notin R
  <2> HIDE DEF R
  <2>1. IsWellFoundedOn(R, Nat)
    BY NatLessThanWellFounded, Zenon DEF R
  <2> QED
    BY <2>1, WFMin
<1>2. PICK x \in T : \A y \in T : <<y, x>> \notin R
  BY <1>1
<1>3. \A y \in T : ~ (y < x)
  BY <1>2 DEF OpToRel
<1> QED
  BY <1>3

\* What is left of a sequence when the element at p is cut out.
LEMMA CutProperties ==
  ASSUME NEW S, NEW s \in Seq(S), NEW p \in 1 .. Len(s)
  PROVE  LET c == SubSeq(s, 1, p - 1) \o SubSeq(s, p + 1, Len(s))
         IN  /\ c \in Seq(S) /\ Len(c) = Len(s) - 1
             /\ \A i \in 1 .. Len(s) - 1 : c[i] = IF i < p THEN s[i] ELSE s[i + 1]
<1> DEFINE a == SubSeq(s, 1, p - 1)
           b == SubSeq(s, p + 1, Len(s))
<1>1. Len(s) \in Nat /\ \A i \in 1 .. Len(s) : s[i] \in S
  BY LenProperties, ElementOfSeq
<1>2. /\ a \in Seq(S) /\ Len(a) = p - 1 /\ \A i \in 1 .. p - 1 : a[i] = s[i]
  <2>1. p - 1 \in Int /\ \A i \in 1 .. p - 1 : s[i] \in S
    BY <1>1
  <2>2. /\ a \in Seq(S) /\ Len(a) = IF 1 <= p - 1 THEN p - 1 - 1 + 1 ELSE 0
        /\ \A i \in 1 .. p - 1 - 1 + 1 : a[i] = s[1 + i - 1]
    BY <2>1, SubSeqProperties
  <2> QED
    BY <1>1, <2>2
<1>3. /\ b \in Seq(S) /\ Len(b) = Len(s) - p
      /\ \A i \in 1 .. Len(s) - p : b[i] = s[p + i]
  <2>1. p + 1 \in Int /\ \A i \in p + 1 .. Len(s) : s[i] \in S
    BY <1>1
  <2>2. /\ b \in Seq(S)
        /\ Len(b) = IF p + 1 <= Len(s) THEN Len(s) - (p + 1) + 1 ELSE 0
        /\ \A i \in 1 .. Len(s) - (p + 1) + 1 : b[i] = s[p + 1 + i - 1]
    BY <1>1, <2>1, SubSeqProperties
  <2> QED
    BY <1>1, <2>2
<1> HIDE DEF a, b
<1> DEFINE c == a \o b
<1>4. /\ c \in Seq(S) /\ Len(c) = Len(a) + Len(b)
      /\ \A i \in 1 .. Len(a) + Len(b) : c[i] = IF i <= Len(a) THEN a[i] ELSE b[i - Len(a)]
  BY <1>2, <1>3, ConcatProperties
<1> HIDE DEF c
<1>5. Len(a) + Len(b) = Len(s) - 1 /\ Len(a) = p - 1
  BY <1>1, <1>2, <1>3
<1>6. ASSUME NEW i \in 1 .. Len(s) - 1
      PROVE  c[i] = IF i < p THEN s[i] ELSE s[i + 1]
  <2>1. c[i] = IF i <= p - 1 THEN a[i] ELSE b[i - (p - 1)]
    BY <1>4, <1>5
  <2>2. CASE i < p
    BY <1>1, <1>2, <2>1, <2>2
  <2>3. CASE i >= p
    <3>1. i - (p - 1) \in 1 .. Len(s) - p
      BY <1>1, <2>3
    <3>2. b[i - (p - 1)] = s[p + (i - (p - 1))]
      BY <1>3, <3>1
    <3>3. p + (i - (p - 1)) = i + 1
      BY <1>1
    <3>4. c[i] = b[i - (p - 1)]
      BY <1>1, <2>1, <2>3
    <3>5. ~(i < p)
      BY <1>1, <2>3
    <3> QED
      BY <3>2, <3>3, <3>4, <3>5
  <2> QED
    BY <1>1, <2>2, <2>3
<1>7. c \in Seq(S) /\ Len(c) = Len(s) - 1
  BY <1>4, <1>5
<1> QED
  BY <1>6, <1>7 DEF c, a, b

\* The members of a set that a step of one actor changes: at most that actor
\* comes or goes.
LEMMA CountOneStep ==
  ASSUME NEW U, IsFiniteSet(U), NEW x \in U, NEW S \in SUBSET U, NEW R \in SUBSET U,
         S \ {x} = R \ {x}
  PROVE  /\ Cardinality(S) \in Nat /\ Cardinality(R) \in Nat /\ Cardinality(U) \in Nat \ {0}
         /\ Cardinality(S) <= Cardinality(U) /\ Cardinality(R) <= Cardinality(U)
         /\ x \notin S => Cardinality(S) <= Cardinality(U) - 1
         /\ Cardinality(R) = Cardinality(S) + (IF x \in R THEN 1 ELSE 0)
                                            - (IF x \in S THEN 1 ELSE 0)
<1> DEFINE B == S \ {x}
<1>1. IsFiniteSet(S) /\ IsFiniteSet(R) /\ IsFiniteSet(B)
  BY FS_Subset, B \in SUBSET U
<1>2. /\ Cardinality(S) \in Nat /\ Cardinality(R) \in Nat /\ Cardinality(B) \in Nat
      /\ Cardinality(U) \in Nat
  BY <1>1, FS_CardinalityType
<1>3. Cardinality(B) = IF x \in S THEN Cardinality(S) - 1 ELSE Cardinality(S)
  BY <1>1, FS_RemoveElement
<1>4. Cardinality(R \ {x}) = IF x \in R THEN Cardinality(R) - 1 ELSE Cardinality(R)
  BY <1>1, FS_RemoveElement
<1>5. Cardinality(B) <= Cardinality(U \ {x}) /\ IsFiniteSet(U \ {x})
  <2>1. IsFiniteSet(U \ {x})
    BY FS_RemoveElement
  <2> QED
    BY <2>1, FS_Subset, B \in SUBSET (U \ {x})
<1>6. Cardinality(U \ {x}) = Cardinality(U) - 1 /\ Cardinality(U \ {x}) \in Nat
  BY <1>5, FS_RemoveElement, FS_CardinalityType
<1> HIDE DEF B
<1> QED
  BY <1>2, <1>3, <1>4, <1>5, <1>6 DEF B

\* A sum within its limit stays there when what one part gains the other loses,
\* and when one part leaves room for all that the other can hold.
LEMMA SumKeepsLimit ==
  ASSUME NEW a \in Int, NEW s \in Int, NEW b \in Int, NEW r \in Int, NEW e \in Int,
         NEW limit \in Int, a + s <= limit, b <= a + e, r <= s - e
  PROVE  b + r <= limit
OBVIOUS

LEMMA SumHasRoom ==
  ASSUME NEW a \in Int, NEW s \in Int, NEW t \in Int, NEW n \in Int, a <= t - 1, s <= n
  PROVE  a + s <= t + n - 1
OBVIOUS

\* f carries a value of S through N rounds: it starts with a, and step[n] is
\* what round n makes of the value before it.
Rounds(f, S, N, a, step) ==
  f \in [0 .. N -> S] /\ f[0] = a /\ \A n \in 1 .. N : f[n] = step[n][f[n - 1]]

\* There is such a function: where the code goes through a list and carries a
\* value along, a module defines it by recursion.
LEMMA Recursion ==
  ASSUME NEW S, NEW N \in Nat, NEW a \in S, NEW step \in [1 .. N -> [S -> S]]
  PROVE  \E f : Rounds(f, S, N, a, step)
<1> DEFINE Made(m, f) == f[0] = a /\ \A n \in 1 .. m : f[n] = step[n][f[n - 1]]
           T == {m \in 0 .. N : ~ \E f \in [0 .. m -> S] : Made(m, f)}
<1>1. T = {}
  <2> SUFFICES ASSUME T # {} PROVE FALSE
    OBVIOUS
  <2>1. PICK m \in T : \A k \in T : m <= k
    <3>1. T \in SUBSET Nat
      OBVIOUS
    <3> HIDE DEF T
    <3> QED
      BY <3>1, LeastElement
  <2>2. CASE m = 0
    <3> DEFINE f == [n \in 0 .. 0 |-> a]
    <3>1. f \in [0 .. 0 -> S] /\ Made(0, f)
      OBVIOUS
    <3> QED
      BY <2>1, <2>2, <3>1
  <2>3. CASE m # 0
    <3>0. m \in 0 .. N
      BY <2>1
    <3>1. m - 1 \in 0 .. N /\ m - 1 \notin T /\ m \in 1 .. N
      <4>1. m - 1 \in 0 .. N /\ m \in 1 .. N /\ ~(m <= m - 1)
        BY <2>3, <3>0
      <4> HIDE DEF T
      <4> QED
        BY <2>1, <4>1
    <3>2. PICK g \in [0 .. m - 1 -> S] : Made(m - 1, g)
      BY <3>1
    <3> DEFINE f == [n \in 0 .. m |-> IF n = m THEN step[m][g[m - 1]] ELSE g[n]]
    <3>3. f \in [0 .. m -> S]
      BY <3>1
    <3>4. f[0] = a
      BY <3>1, <3>2
    <3>5. ASSUME NEW n \in 1 .. m PROVE f[n] = step[n][f[n - 1]]
      <4>1. f[n - 1] = g[n - 1]
        BY <3>1
      <4>2. CASE n = m
        BY <3>1, <4>1, <4>2
      <4>3. CASE n # m
        <5>1. n \in 1 .. m - 1 /\ f[n] = g[n]
          BY <3>1, <4>3
        <5> QED
          BY <3>2, <4>1, <5>1
      <4> QED
        BY <4>2, <4>3
    <3> HIDE DEF f
    <3>6. Made(m, f)
      BY <3>4, <3>5
    <3> QED
      BY <2>1, <3>3, <3>6
  <2> QED
    BY <2>2, <2>3
<1>2. N \in 0 .. N /\ N \notin T
  <2> HIDE DEF T
  <2> QED
    BY <1>1
<1>3. \E f \in [0 .. N -> S] : Made(N, f)
  <2> HIDE DEF Made
  <2> QED
    BY <1>2
<1> QED
  BY <1>3 DEF Rounds
=============================================================================
