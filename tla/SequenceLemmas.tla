--------------------------- MODULE SequenceLemmas ---------------------------
(***************************************************************************)
(* What the proofs of the components share: sequences without an element   *)
(* and their prefixes, the largest of finitely many numbers, induction     *)
(* over a set of numbers, and functions that are defined by recursion.     *)
(* Everything is about sets and functions, not operators.                  *)
(***************************************************************************)
EXTENDS SequencesExt, FiniteSetTheorems, SequenceTheorems, NaturalsInduction, WellFoundedInduction, TLAPS

-----------------------------------------------------------------------------
(* Sequences *)

\* Taking away the i-th element moves the later ones up.
LEMMA RemoveAtElements ==
    ASSUME NEW S, NEW s \in Seq(S), NEW i \in 1..Len(s)
    PROVE  /\ RemoveAt(s, i) \in Seq(S)
           /\ Len(RemoveAt(s, i)) = Len(s) - 1
           /\ \A j \in 1..Len(s) - 1 :
                 RemoveAt(s, i)[j] = IF j < i THEN s[j] ELSE s[j + 1]
<1> DEFINE front == SubSeq(s, 1, i - 1)
           back  == SubSeq(s, i + 1, Len(s))
<1>1. Len(s) \in Nat /\ i \in Nat /\ 1 <= i /\ i <= Len(s)
  OBVIOUS
<1>2. /\ front \in Seq(S) /\ Len(front) = i - 1
      /\ \A j \in 1..i - 1 : front[j] = s[j]
  BY <1>1
<1>3. /\ back \in Seq(S) /\ Len(back) = Len(s) - i
      /\ \A j \in 1..Len(s) - i : back[j] = s[j + i]
  BY <1>1
<1>4. RemoveAt(s, i) = front \o back
  BY DEF RemoveAt
<1> HIDE DEF front, back
<1>5. front \o back \in Seq(S) /\ Len(front \o back) = Len(s) - 1
  <2>1. front \o back \in Seq(S) /\ Len(front \o back) = Len(front) + Len(back)
    BY <1>2, <1>3, ConcatProperties
  <2>2. (i - 1) + (Len(s) - i) = Len(s) - 1
    BY <1>1
  <2> QED
    BY <2>1, <2>2, <1>2, <1>3
<1>6. ASSUME NEW j \in 1..Len(s) - 1
      PROVE  (front \o back)[j] = IF j < i THEN s[j] ELSE s[j + 1]
  <2>1. CASE j < i
    BY <2>1, <1>1, <1>2, <1>3
  <2>2. CASE j >= i
    <3>1. (front \o back)[j] = back[j - (i - 1)]
      BY <2>2, <1>1, <1>2, <1>3
    <3>2. back[j - (i - 1)] = s[(j - (i - 1)) + i]
      BY <2>2, <1>1, <1>3
    <3> QED
      BY <3>1, <3>2, <2>2, <1>1
  <2>3. j < i \/ (j >= i /\ ~(j < i))
    BY <1>1
  <2>4. CASE j >= i /\ ~(j < i)
    BY <2>2, <2>4
  <2> QED
    BY <2>1, <2>3, <2>4
<1> QED
  BY <1>4, <1>5, <1>6

\* A set of places that has the first is as large as a place.
LEMMA PrefixSize ==
    ASSUME NEW n \in Nat, NEW K \in SUBSET (1 .. n), 1 \in K
    PROVE  Cardinality(K) \in 1 .. n
<1>1. IsFiniteSet(1 .. n) /\ Cardinality(1 .. n) <= n
  BY FS_Interval
<1>2. IsFiniteSet(K) /\ Cardinality(K) <= Cardinality(1 .. n)
  BY <1>1, FS_Subset
<1>3. Cardinality({1}) <= Cardinality(K)
  BY <1>2, FS_Subset
<1>4. Cardinality({1}) = 1
  BY FS_Singleton
<1>5. Cardinality(K) \in Nat /\ Cardinality(1 .. n) \in Nat
  BY <1>1, <1>2, FS_CardinalityType
<1> QED
  BY <1>1, <1>2, <1>3, <1>4, <1>5

\* A prefix, and what is in it.
LEMMA Prefix ==
    ASSUME NEW S, NEW s \in Seq(S), NEW n \in 1 .. Len(s)
    PROVE  /\ SubSeq(s, 1, n) \in Seq(S)
           /\ Len(SubSeq(s, 1, n)) = n
           /\ \A i \in 1 .. n : SubSeq(s, 1, n)[i] = s[i]
           /\ Range(SubSeq(s, 1, n)) = { s[i] : i \in 1 .. n }
<1>1. /\ SubSeq(s, 1, n) \in Seq(S)
      /\ Len(SubSeq(s, 1, n)) = n
      /\ \A i \in 1 .. n : SubSeq(s, 1, n)[i] = s[i]
  OBVIOUS
<1>2. DOMAIN SubSeq(s, 1, n) = 1 .. n
  BY <1>1
<1> QED
  BY <1>1, <1>2 DEF Range

\* What follows a prefix.
LEMMA Suffix ==
    ASSUME NEW S, NEW s \in Seq(S), NEW n \in 1 .. Len(s)
    PROVE  /\ SubSeq(s, n + 1, Len(s)) \in Seq(S)
           /\ Len(SubSeq(s, n + 1, Len(s))) = Len(s) - n
           /\ \A i \in 1 .. Len(s) - n : SubSeq(s, n + 1, Len(s))[i] = s[n + i]
           /\ Range(SubSeq(s, n + 1, Len(s))) = { s[i] : i \in n + 1 .. Len(s) }
<1> DEFINE t == SubSeq(s, n + 1, Len(s))
<1>1. /\ t \in Seq(S)
      /\ Len(t) = Len(s) - n
      /\ \A i \in 1 .. Len(s) - n : t[i] = s[n + i]
  OBVIOUS
<1>2. DOMAIN t = 1 .. Len(s) - n
  BY <1>1
<1> HIDE DEF t
<1>3. \A i \in n + 1 .. Len(s) : i - n \in 1 .. Len(s) - n /\ t[i - n] = s[i]
  BY <1>1
<1>4. \A i \in 1 .. Len(s) - n : n + i \in n + 1 .. Len(s)
  OBVIOUS
<1>5. Range(t) = { s[i] : i \in n + 1 .. Len(s) }
  <2>1. ASSUME NEW x \in Range(t) PROVE x \in { s[i] : i \in n + 1 .. Len(s) }
    <3>1. PICK j \in 1 .. Len(s) - n : x = t[j]
      BY <1>2 DEF Range
    <3>2. x = s[n + j] /\ n + j \in n + 1 .. Len(s)
      BY <3>1, <1>1, <1>4
    <3> QED
      BY <3>2
  <2>2. ASSUME NEW i \in n + 1 .. Len(s) PROVE s[i] \in Range(t)
    <3>1. i - n \in DOMAIN t /\ s[i] = t[i - n]
      BY <1>2, <1>3
    <3> QED
      BY <3>1 DEF Range
  <2> QED
    BY <2>1, <2>2
<1> QED
  BY <1>1, <1>5 DEF t

\* A prefix, perhaps empty.
LEMMA PrefixSeq ==
    ASSUME NEW S, NEW s \in Seq(S), NEW k \in 0 .. Len(s)
    PROVE  /\ SubSeq(s, 1, k) \in Seq(S) /\ Len(SubSeq(s, 1, k)) = k
           /\ \A i \in 1 .. k : SubSeq(s, 1, k)[i] = s[i]
  OBVIOUS

\* The prefix that is all.
LEMMA WholeSeq ==
    ASSUME NEW S, NEW s \in Seq(S)
    PROVE  SubSeq(s, 1, Len(s)) = s
<1> DEFINE u == SubSeq(s, 1, Len(s))
<1>1. u \in Seq(S) /\ Len(u) = Len(s) /\ \A i \in 1 .. Len(s) : u[i] = s[i]
  OBVIOUS
<1> HIDE DEF u
<1>2. u = s
  BY <1>1, SeqEqual
<1> QED
  BY <1>2 DEF u

\* A prefix of a prefix.
LEMMA PrefixTwice ==
    ASSUME NEW S, NEW s \in Seq(S), NEW k \in 0 .. Len(s), NEW j \in 0 .. k
    PROVE  SubSeq(SubSeq(s, 1, k), 1, j) = SubSeq(s, 1, j)
<1> DEFINE t == SubSeq(s, 1, k)
           u == SubSeq(t, 1, j)
           v == SubSeq(s, 1, j)
<1>1. t \in Seq(S) /\ Len(t) = k /\ \A i \in 1 .. k : t[i] = s[i]
  BY PrefixSeq
<1>2. v \in Seq(S) /\ Len(v) = j /\ \A i \in 1 .. j : v[i] = s[i]
  OBVIOUS
<1> HIDE DEF t
<1>3. u \in Seq(S) /\ Len(u) = j /\ \A i \in 1 .. j : u[i] = t[i]
  BY <1>1
<1> HIDE DEF u, v
<1>4. \A i \in 1 .. j : u[i] = v[i]
  BY <1>1, <1>2, <1>3
<1>5. u = v
  BY <1>2, <1>3, <1>4, SeqEqual
<1> QED
  BY <1>5 DEF u, v, t

\* A prefix of a sequence that has grown.
LEMMA PrefixOfAppend ==
    ASSUME NEW S, NEW s \in Seq(S), NEW k \in 0 .. Len(s), NEW e \in S
    PROVE  SubSeq(Append(s, e), 1, k) = SubSeq(s, 1, k)
<1> DEFINE t == SubSeq(s, 1, k)
           a == Append(s, e)
           u == SubSeq(a, 1, k)
<1>1. t \in Seq(S) /\ Len(t) = k /\ \A i \in 1 .. k : t[i] = s[i]
  BY PrefixSeq
<1>2. a \in Seq(S) /\ Len(a) = Len(s) + 1 /\ \A i \in 1 .. Len(s) : a[i] = s[i]
  OBVIOUS
<1> HIDE DEF a, t
<1>3. u \in Seq(S) /\ Len(u) = k /\ \A i \in 1 .. k : u[i] = a[i]
  BY <1>2
<1> HIDE DEF u
<1>4. \A i \in 1 .. k : i \in 1 .. Len(s)
  OBVIOUS
<1>5. \A i \in 1 .. k : u[i] = t[i]
  BY <1>1, <1>2, <1>3, <1>4
<1>6. u = t
  BY <1>1, <1>3, <1>5, SeqEqual
<1> QED
  BY <1>6 DEF u, a, t

\* A sequence and its last element.
LEMMA LastApart ==
    ASSUME NEW S, NEW s \in Seq(S), Len(s) # 0
    PROVE  /\ s = Append(SubSeq(s, 1, Len(s) - 1), s[Len(s)])
           /\ SubSeq(s, 1, Len(s) - 1) \in Seq(S) /\ s[Len(s)] \in S
<1> DEFINE n == Len(s)
           p == SubSeq(s, 1, n - 1)
           e == s[n]
           u == Append(p, e)
<1>1. n \in Nat \ {0} /\ n - 1 \in 0 .. Len(s)
  OBVIOUS
<1>2. n \in Nat \ {0} /\ p \in Seq(S) /\ Len(p) = n - 1 /\ \A i \in 1 .. n - 1 : p[i] = s[i]
  BY <1>1, PrefixSeq
<1>3. e \in S
  OBVIOUS
<1> HIDE DEF p, e
<1>4. u \in Seq(S) /\ Len(u) = n /\ u[n] = e /\ \A i \in 1 .. n - 1 : u[i] = p[i]
  BY <1>2, <1>3
<1> HIDE DEF u
<1>5. \A i \in 1 .. n : u[i] = s[i]
  BY <1>2, <1>4 DEF e
<1>6. u = s
  BY <1>2, <1>4, <1>5, SeqEqual
<1> QED
  BY <1>2, <1>3, <1>6 DEF u, p, e

-----------------------------------------------------------------------------
(* Induction and recursion *)

\* A set of numbers has a least one.
LEMMA LeastElement ==
    ASSUME NEW T \in SUBSET Nat, T # {}
    PROVE  \E x \in T : \A y \in T : x <= y
<1>1. IsWellFoundedOn(OpToRel(<, Nat), Nat)
  BY NatLessThanWellFounded
<1>2. PICK x \in T : \A y \in T : ~(<<y, x>> \in OpToRel(<, Nat))
  <2> HIDE DEF OpToRel
  <2> QED
    BY <1>1, WFMin
<1>3. \A y \in T : ~(y < x)
  BY <1>2 DEF OpToRel
<1> QED
  BY <1>3

\* Induction, for the numbers with a property given as a set.
LEMMA SetInduction ==
    ASSUME NEW S, \A n \in Nat : (\A m \in Nat : m < n => m \in S) => n \in S
    PROVE  Nat \subseteq S
<1>1. SUFFICES ASSUME Nat \ S # {} PROVE FALSE
  OBVIOUS
<1>2. PICK x \in Nat \ S : \A y \in Nat \ S : x <= y
  BY <1>1, LeastElement
<1>3. \A m \in Nat : m < x => m \in S
  BY <1>2
<1> QED
  BY <1>2, <1>3

\* The same, one number after the other.
LEMMA StepInduction ==
    ASSUME NEW S, 0 \in S, \A n \in Nat : n \in S => n + 1 \in S
    PROVE  Nat \subseteq S
<1>1. ASSUME NEW n \in Nat, \A m \in Nat : m < n => m \in S
      PROVE  n \in S
  <2>1. CASE n = 0
    BY <2>1
  <2>2. CASE n # 0
    <3>1. n - 1 \in Nat /\ n - 1 < n /\ (n - 1) + 1 = n
      BY <2>2
    <3>2. n - 1 \in S
      BY <3>1, <1>1
    <3> QED
      BY <3>1, <3>2
  <2> QED
    BY <2>1, <2>2
<1> QED
  BY <1>1, SetInduction

\* A loop that applies F[1], F[2], ... F[n] to a value b.
LoopOn(V, b, n, F) == b \in V /\ n \in Nat /\ F \in [1 .. n -> [V -> V]]

Loops(f, V, b, n, F) == f \in [0 .. n -> V] /\ f[0] = b /\ \A k \in 1 .. n : f[k] = F[k][f[k - 1]]

\* There is a function with the values of a loop.
LEMMA LoopExists ==
    ASSUME NEW V, NEW b, NEW n, NEW F, LoopOn(V, b, n, F)
    PROVE  \E f : Loops(f, V, b, n, F)
<1> USE DEF LoopOn
<1> DEFINE Loop(j, f) == f[0] = b /\ \A k \in 1 .. j : f[k] = F[k][f[k - 1]]
           S == { j \in Nat : j <= n => \E f \in [0 .. j -> V] : Loop(j, f) }
<1>1. 0 \in S
  <2>1. [k \in 0 .. 0 |-> b] \in [0 .. 0 -> V] /\ Loop(0, [k \in 0 .. 0 |-> b])
    OBVIOUS
  <2> QED
    BY <2>1
<1>2. ASSUME NEW j \in Nat, j \in S
      PROVE  j + 1 \in S
  <2>1. CASE j + 1 <= n
    <3>1. PICK f \in [0 .. j -> V] : Loop(j, f)
      BY <1>2, <2>1
    <3> DEFINE g == [k \in 0 .. j + 1 |-> IF k = j + 1 THEN F[j + 1][f[j]] ELSE f[k]]
    <3>2. F[j + 1] \in [V -> V] /\ f[j] \in V
      BY <2>1
    <3>3. g \in [0 .. j + 1 -> V]
      BY <3>2
    <3>4. g[0] = b
      BY <3>1
    <3>5. ASSUME NEW k \in 1 .. j + 1
          PROVE  g[k] = F[k][g[k - 1]]
      <4>1. g[k - 1] = f[k - 1]
        OBVIOUS
      <4>2. CASE k = j + 1
        BY <4>1, <4>2
      <4>3. CASE k # j + 1
        <5>1. k \in 1 .. j /\ g[k] = f[k]
          BY <4>3
        <5> QED
          BY <5>1, <4>1, <3>1
      <4> QED
        BY <4>2, <4>3
    <3> HIDE DEF g
    <3> QED
      BY <3>3, <3>4, <3>5
  <2> QED
    BY <2>1
<1> HIDE DEF S
<1>3. Nat \subseteq S
  BY <1>1, <1>2, StepInduction
<1>4. n \in S
  BY <1>3
<1> QED
  BY <1>4 DEF S, Loops

\* What a loop keeps.
LEMMA LoopStays ==
    ASSUME NEW V, NEW n \in Nat, NEW g, g[0] \in V,
           \A k \in 1 .. n : g[k - 1] \in V => g[k] \in V
    PROVE  \A k \in 0 .. n : g[k] \in V
<1> DEFINE S == { k \in Nat : k <= n => g[k] \in V }
<1>1. 0 \in S
  OBVIOUS
<1>2. ASSUME NEW k \in Nat, k \in S
      PROVE  k + 1 \in S
  <2>1. CASE k + 1 <= n
    <3>1. k + 1 \in 1 .. n /\ (k + 1) - 1 = k /\ g[k] \in V
      BY <2>1, <1>2
    <3>2. g[k + 1] \in V
      BY <3>1
    <3> QED
      BY <3>2
  <2> QED
    BY <2>1
<1> HIDE DEF S
<1>3. Nat \subseteq S
  BY <1>1, <1>2, StepInduction
<1> QED
  BY <1>3 DEF S

\* A recursion in which the value at x depends on that at next[x], of a smaller
\* measure m.
RecursionOn(D, V, m, stop, next, b, F) ==
  /\ m \in [D -> Nat]
  /\ \A x \in D : x \in stop => b[x] \in V
  /\ \A x \in D : x \notin stop => next[x] \in D /\ m[next[x]] < m[x] /\ F[x] \in [V -> V]

Solves(f, D, V, stop, next, b, F) ==
  f \in [D -> V] /\ \A x \in D : f[x] = IF x \in stop THEN b[x] ELSE F[x][f[next[x]]]

\* There is a function with the recursive equation.
LEMMA RecursionExists ==
    ASSUME NEW D, NEW V, NEW m, NEW stop, NEW next, NEW b, NEW F,
           RecursionOn(D, V, m, stop, next, b, F)
    PROVE  \E f : Solves(f, D, V, stop, next, b, F)
<1> DEFINE Low(n) == { x \in D : m[x] < n }
           Rec(n, f) == \A x \in Low(n) : f[x] = IF x \in stop THEN b[x] ELSE F[x][f[next[x]]]
           S == { n \in Nat : \E f \in [Low(n) -> V] : Rec(n, f) }
           U == { k \in Nat : \A p, n \in Nat : \A f \in [Low(p) -> V], g \in [Low(n) -> V] :
                                Rec(p, f) /\ Rec(n, g) /\ k <= p /\ k <= n
                                  => \A x \in Low(k) : f[x] = g[x] }
<1> USE DEF RecursionOn
<1>0. \A x \in D : m[x] \in Nat
  OBVIOUS
<1>1. 0 \in S
  <2>1. Low(0) = {}
    BY <1>0
  <2>2. [x \in {} |-> x] \in [{} -> V]
    OBVIOUS
  <2>3. [x \in {} |-> x] \in [Low(0) -> V] /\ Rec(0, [x \in {} |-> x])
    BY <2>1, <2>2
  <2> QED
    BY <2>3
<1>2. ASSUME NEW n \in Nat, n \in S
      PROVE  n + 1 \in S
  <2>1. PICK f \in [Low(n) -> V] : Rec(n, f)
    BY <1>2
  <2> DEFINE g == [x \in Low(n + 1) |-> IF x \in stop THEN b[x] ELSE F[x][f[next[x]]]]
  <2>2. ASSUME NEW x \in Low(n + 1), x \notin stop
        PROVE  next[x] \in Low(n) /\ next[x] \in Low(n + 1) /\ F[x] \in [V -> V] /\ f[next[x]] \in V
    <3>1. next[x] \in D /\ m[next[x]] < m[x] /\ m[x] < n + 1 /\ m[x] \in Nat /\ m[next[x]] \in Nat
      BY <2>2, <1>0
    <3>2. m[next[x]] < n /\ m[next[x]] < n + 1
      BY <3>1
    <3> QED
      BY <3>1, <3>2, <2>2
  <2>3. \A x \in Low(n + 1) : (IF x \in stop THEN b[x] ELSE F[x][f[next[x]]]) \in V
    <3> SUFFICES ASSUME NEW x \in Low(n + 1)
                 PROVE  (IF x \in stop THEN b[x] ELSE F[x][f[next[x]]]) \in V
      OBVIOUS
    <3> QED
      BY <2>2
  <2>4. g \in [Low(n + 1) -> V]
    BY <2>3
  <2>5. ASSUME NEW x \in Low(n)
        PROVE  g[x] = f[x]
    <3>1. x \in Low(n + 1)
      BY <1>0
    <3> QED
      BY <3>1, <2>1
  <2>6. Rec(n + 1, g)
    <3> SUFFICES ASSUME NEW x \in Low(n + 1)
                 PROVE  g[x] = IF x \in stop THEN b[x] ELSE F[x][g[next[x]]]
      OBVIOUS
    <3>1. g[x] = IF x \in stop THEN b[x] ELSE F[x][f[next[x]]]
      OBVIOUS
    <3>2. x \notin stop => g[next[x]] = f[next[x]]
      BY <2>2, <2>5
    <3> QED
      BY <3>1, <3>2
  <2> HIDE DEF g, Low, Rec
  <2> QED
    BY <2>4, <2>6
<1>3. \A n \in Nat : n \in S
  <2> HIDE DEF S
  <2> QED
    BY <1>1, <1>2, StepInduction
<1>4. 0 \in U
  <2>1. Low(0) = {}
    BY <1>0
  <2> QED
    BY <2>1
<1>5. ASSUME NEW k \in Nat, k \in U
      PROVE  k + 1 \in U
  <2> SUFFICES ASSUME NEW p \in Nat, NEW n \in Nat, NEW f \in [Low(p) -> V], NEW g \in [Low(n) -> V],
                      Rec(p, f), Rec(n, g), k + 1 <= p, k + 1 <= n,
                      NEW x \in Low(k + 1)
               PROVE  f[x] = g[x]
    <3> HIDE DEF Low, Rec
    <3> QED
      OBVIOUS
  <2>1. x \in Low(p) /\ x \in Low(n)
    BY <1>0
  <2>2. k <= p /\ k <= n
    OBVIOUS
  <2>3. \A y \in Low(k) : f[y] = g[y]
    <3> HIDE DEF Low, Rec
    <3> QED
      BY <1>5, <2>2
  <2>4. CASE x \in stop
    BY <2>1, <2>4
  <2>5. CASE x \notin stop
    <3>1. next[x] \in D /\ m[next[x]] < m[x] /\ m[x] < k + 1 /\ m[x] \in Nat /\ m[next[x]] \in Nat
      BY <2>5, <1>0
    <3>2. next[x] \in Low(k)
      BY <3>1
    <3>3. f[next[x]] = g[next[x]]
      BY <3>2, <2>3
    <3> QED
      BY <2>1, <2>5, <3>3
  <2> QED
    BY <2>4, <2>5
<1>6. \A k \in Nat : k \in U
  <2> HIDE DEF U
  <2> QED
    BY <1>4, <1>5, StepInduction
<1> DEFINE G(n) == CHOOSE f \in [Low(n) -> V] : Rec(n, f)
<1>7. \A n \in Nat : G(n) \in [Low(n) -> V] /\ Rec(n, G(n))
  <2> HIDE DEF Low, Rec
  <2> QED
    BY <1>3
<1>8. \A k, n \in Nat : k <= n => \A x \in Low(k) : G(k)[x] = G(n)[x]
  <2> SUFFICES ASSUME NEW k \in Nat, NEW n \in Nat, k <= n
               PROVE  \A x \in Low(k) : G(k)[x] = G(n)[x]
    OBVIOUS
  <2> HIDE DEF G, Low, Rec
  <2>1. k \in U /\ k <= k
    BY <1>6
  <2> QED
    BY <2>1, <1>7
<1> HIDE DEF G, S, U
<1> DEFINE h == [x \in D |-> G(m[x] + 1)[x]]
<1>9. ASSUME NEW x \in D
      PROVE  x \in Low(m[x] + 1) /\ m[x] + 1 \in Nat
  BY <1>0
<1>10. h \in [D -> V]
  BY <1>7, <1>9
<1>11. ASSUME NEW x \in D
       PROVE  h[x] = IF x \in stop THEN b[x] ELSE F[x][h[next[x]]]
  <2>1. h[x] = IF x \in stop THEN b[x] ELSE F[x][G(m[x] + 1)[next[x]]]
    BY <1>7, <1>9
  <2>2. ASSUME x \notin stop
        PROVE  G(m[x] + 1)[next[x]] = h[next[x]]
    <3>1. next[x] \in D /\ m[next[x]] < m[x] /\ m[x] \in Nat /\ m[next[x]] \in Nat
      BY <2>2, <1>0
    <3>2. m[next[x]] + 1 <= m[x] + 1 /\ m[next[x]] + 1 \in Nat /\ m[x] + 1 \in Nat
      BY <3>1
    <3>3. next[x] \in Low(m[next[x]] + 1)
      BY <3>1
    <3>4. G(m[next[x]] + 1)[next[x]] = G(m[x] + 1)[next[x]]
      BY <1>8, <3>2, <3>3
    <3> QED
      BY <3>1, <3>4
  <2> QED
    BY <2>1, <2>2
<1> HIDE DEF h
<1> QED
  BY <1>10, <1>11 DEF Solves

\* What a recursion keeps.
Keeps(D, V, m, stop, next, g) ==
  /\ m \in [D -> Nat]
  /\ \A x \in D : x \in stop => g[x] \in V
  /\ \A x \in D : x \notin stop => next[x] \in D /\ m[next[x]] < m[x] /\ (g[next[x]] \in V => g[x] \in V)

\* It holds everywhere.
LEMMA RecursionStays ==
    ASSUME NEW D, NEW V, NEW m, NEW stop, NEW next, NEW g, Keeps(D, V, m, stop, next, g)
    PROVE  \A x \in D : g[x] \in V
<1> USE DEF Keeps
<1> DEFINE S == { n \in Nat : \A x \in D : m[x] = n => g[x] \in V }
<1>1. ASSUME NEW n \in Nat, \A k \in Nat : k < n => k \in S
      PROVE  n \in S
  <2> SUFFICES ASSUME NEW x \in D, m[x] = n PROVE g[x] \in V
    OBVIOUS
  <2>1. CASE x \in stop
    BY <2>1
  <2>2. CASE x \notin stop
    <3>1. next[x] \in D /\ m[next[x]] \in Nat /\ m[next[x]] < n
      BY <2>2
    <3>2. m[next[x]] \in S
      BY <3>1, <1>1
    <3>3. g[next[x]] \in V
      BY <3>1, <3>2
    <3> QED
      BY <2>2, <3>3
  <2> QED
    BY <2>1, <2>2
<1> HIDE DEF S
<1>2. Nat \subseteq S
  BY <1>1, SetInduction
<1> QED
  BY <1>2 DEF S

-----------------------------------------------------------------------------
(* The largest of some numbers *)

\* The largest of finitely many integers.
LEMMA MaxIs ==
    ASSUME NEW S \in SUBSET Int, IsFiniteSet(S), S # {}
    PROVE  Max(S) \in S /\ \A y \in S : y <= Max(S)
<1> DEFINE n == Cardinality(S)
<1>1. n \in Nat /\ ExistsBijection(1 .. n, S)
  BY FS_CardinalityType
<1>2. PICK f \in [1 .. n -> S] : \A y \in S : \E i \in 1 .. n : f[i] = y
  BY <1>1 DEF ExistsBijection, Bijection, Surjection
<1> HIDE DEF n
<1> DEFINE I == { k \in Nat : k \in 1 .. n => \E x \in S : \A i \in 1 .. k : f[i] <= x }
<1>3. 0 \in I
  OBVIOUS
<1>4. ASSUME NEW k \in Nat, k \in I
      PROVE  k + 1 \in I
  <2>1. CASE k + 1 \notin 1 .. n
    BY <2>1
  <2>2. CASE k + 1 \in 1 .. n /\ k = 0
    <3>1. 1 \in 1 .. n /\ \A i \in 1 .. k + 1 : i = 1
      BY <2>2
    <3>2. f[1] \in S /\ f[1] \in Int
      BY <3>1
    <3>3. \A i \in 1 .. k + 1 : f[i] <= f[1]
      BY <3>1, <3>2
    <3> QED
      BY <3>2, <3>3
  <2>3. CASE k + 1 \in 1 .. n /\ k # 0
    <3>1. PICK x \in S : \A i \in 1 .. k : f[i] <= x
      BY <2>3, <1>4, <1>1
    <3>2. f[k + 1] \in S /\ f[k + 1] \in Int /\ x \in Int
      BY <2>3
    <3>3. CASE f[k + 1] <= x
      <4>1. \A i \in 1 .. k + 1 : f[i] <= x
        BY <3>1, <3>3
      <4> QED
        BY <4>1
    <3>4. CASE f[k + 1] > x
      <4>1. ASSUME NEW i \in 1 .. k + 1
            PROVE  f[i] <= f[k + 1]
        <5>1. CASE i = k + 1
          BY <5>1, <3>2
        <5>2. CASE i # k + 1
          <6>1. i \in 1 .. k /\ i \in 1 .. n
            BY <5>2, <2>3, <1>1
          <6>2. f[i] \in Int /\ f[i] <= x
            BY <6>1, <3>1
          <6> QED
            BY <6>2, <3>2, <3>4
        <5> QED
          BY <5>1, <5>2
      <4> QED
        BY <4>1, <3>2
    <3> QED
      BY <3>2, <3>3, <3>4
  <2> QED
    BY <2>1, <2>2, <2>3
<1> HIDE DEF I
<1>5. Nat \subseteq I
  BY <1>3, <1>4, StepInduction
<1>6. n # 0
  <2>1. PICK y \in S : TRUE
    OBVIOUS
  <2>2. PICK i \in 1 .. n : f[i] = y
    BY <1>2
  <2> QED
    BY <1>1, <2>2
<1>7. n \in I /\ n \in 1 .. n
  BY <1>1, <1>5, <1>6
<1>8. PICK x \in S : \A i \in 1 .. n : f[i] <= x
  BY <1>7 DEF I
<1>9. \A y \in S : x >= y
  <2> SUFFICES ASSUME NEW y \in S PROVE x >= y
    OBVIOUS
  <2>1. PICK i \in 1 .. n : f[i] = y
    BY <1>2
  <2> QED
    BY <2>1, <1>8
<1>10. Max(S) \in S /\ \A y \in S : Max(S) >= y
  <2> DEFINE P(z) == \A y \in S : z >= y
  <2>1. \E z \in S : P(z)
    BY <1>9
  <2>2. Max(S) = CHOOSE z \in S : P(z)
    BY DEF Max
  <2> HIDE DEF P
  <2>3. Max(S) \in S /\ P(Max(S))
    BY <2>1, <2>2
  <2> QED
    BY <2>3 DEF P
<1> QED
  BY <1>10

\* A set of places that has all places before each of its own has as many as its last.
LEMMA DownwardSize ==
    ASSUME NEW n \in Nat, NEW K \in SUBSET (1 .. n), 1 \in K, \A k \in K : \A j \in 1 .. k : j \in K
    PROVE  Cardinality(K) \in K
<1>1. IsFiniteSet(1 .. n)
  BY FS_Interval
<1>2. IsFiniteSet(K)
  BY <1>1, FS_Subset
<1> DEFINE m == Max(K)
<1>3. m \in K /\ \A y \in K : y <= m
  <2>1. K \in SUBSET Int /\ K # {}
    OBVIOUS
  <2> QED
    BY <1>2, <2>1, MaxIs
<1> HIDE DEF m
<1>4. m \in Nat /\ m >= 1 /\ K = 1 .. m
  <2>1. m \in 1 .. n
    BY <1>3
  <2>2. K \subseteq 1 .. m
    BY <1>3, <2>1
  <2>3. 1 .. m \subseteq K
    <3>1. \A j \in 1 .. m : j \in K
      BY <1>3
    <3> QED
      BY <3>1
  <2>4. m \in Nat /\ m >= 1
    BY <2>1
  <2> DEFINE I == 1 .. m
  <2> HIDE DEF I
  <2>5. K = I
    BY <2>2, <2>3 DEF I
  <2> QED
    BY <2>4, <2>5 DEF I
<1>5. Cardinality(1 .. m) = m
  BY <1>4, FS_Interval
<1> QED
  BY <1>3, <1>4, <1>5

\* The larger of two numbers.
LEMMA MaxOfTwo ==
    ASSUME NEW a \in Nat, NEW b \in Nat
    PROVE  Max({a, b}) \in Nat /\ a <= Max({a, b}) /\ b <= Max({a, b})
<1>1. IsFiniteSet({a} \cup {b}) /\ {a, b} = {a} \cup {b}
  BY FS_Singleton, FS_Union
<1>2. IsFiniteSet({a, b}) /\ {a, b} \in SUBSET Int /\ {a, b} # {}
  BY <1>1
<1>3. Max({a, b}) \in {a, b} /\ \A y \in {a, b} : y <= Max({a, b})
  BY <1>2, MaxIs
<1> QED
  BY <1>3
=============================================================================
